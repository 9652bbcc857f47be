------------------------------ MODULE SyncWaits ------------------------------
(***************************************************************************)
(* The process-wide graph of synchronous waits (waitgraph/graph.go).  A    *)
(* call enters the graph before it runs a tool, a sandboxed process or a   *)
(* specialist's turn, and leaves it when that returns; a call that would   *)
(* close a cycle is refused.  Edges and nodes are counted, for several     *)
(* calls may wait for the same node.                                       *)
(*                                                                         *)
(* A context names the node that its caller runs as.  The entries are      *)
(* those of the program: an agent or an operator outside of every call     *)
(* (the fallbacks of toolgateway.Gateway, runner.Harness and the           *)
(* specialist scheduler), or what runs inside of a call that is waited     *)
(* for, enters a tool, a runner or an agent.                               *)
(***************************************************************************)
EXTENDS Integers, WaitGraph

CONSTANTS Nodes, Kind,  \* nodes and the kind of each
          Calls,        \* bound: calls, each made once
          MaxNodes,     \* MaxActiveNodes
          MaxEdges      \* MaxActiveEdges

ASSUME KindAssumption ==
  Kind \in [Nodes -> {"agent", "tool", "retriever", "store", "runner", "model", "external"}]

ASSUME CallsAssumption == IsFiniteSet(Calls)

ASSUME CapacityAssumption == MaxNodes \in Nat /\ MaxEdges \in Nat

VARIABLES edges,      \* Graph.edges: how many calls hold each wait
          nodes,      \* Graph.nodes: how many ends of calls are at each node
          edgeCount,  \* Graph.edgeCount
          call        \* what became of each call, and its ends

vars == <<edges, nodes, edgeCount, call>>

Pairs == Nodes \X Nodes

NewCall == [at |-> "new", edge |-> <<>>]

CallRows == {NewCall} \cup [at : {"waiting", "returned"}, edge : Pairs]

TypeOK ==
  /\ edges \in [Pairs -> Nat]
  /\ nodes \in [Nodes -> Nat]
  /\ edgeCount \in Nat
  /\ call \in [Calls -> CallRows]

\* New
Init ==
  /\ edges = [p \in Pairs |-> 0]
  /\ nodes = [n \in Nodes |-> 0]
  /\ edgeCount = 0
  /\ call = [c \in Calls |-> NewCall]

Waits == {p \in Pairs : edges[p] > 0}
Present == {n \in Nodes : nodes[n] > 0}

WaitingOn(p) == {c \in Calls : call[c] = [at |-> "waiting", edge |-> p]}

\* A caller that runs as x: the fallback of an outermost call, or the target
\* of a call that is waited for, which its context names.
Fallbacks == {n \in Nodes : Kind[n] \in {"agent", "external"}}
RunsAs(x) == x \in Fallbacks \/ \E c \in Calls : call[c].at = "waiting" /\ call[c].edge[2] = x

Entered == {n \in Nodes : Kind[n] \in {"agent", "tool", "runner"}}

\* Each definition named Bug... is a seeded bug: the form that the definition
\* after it would have, had the code lost the check or the step in question.

\* The capacity test of Acquire, which an edge that is held already passes.
HasRoom(x, y) ==
  \/ edges[<<x, y>>] > 0
  \/ edgeCount + 1 <= MaxEdges /\ Cardinality(Present \cup {x, y}) <= MaxNodes

BugOnlyDirect(x, y) ==
  /\ x # y
  /\ ~CallsBack(Kind, x, y)
  /\ edges[<<y, x>>] = 0

\* The checks of Acquire, under its lock.
Allowed(x, y) ==
  /\ x # y
  /\ ~CallsBack(Kind, x, y)
  /\ ~Reaches(Nodes, Waits, y, x)

Added(f, S, n) == [k \in DOMAIN f |-> IF k \in S THEN f[k] + n ELSE f[k]]

\* Enter and Acquire; a refused call leaves the graph as it was.
Enter(c, x, y) ==
  /\ call[c].at = "new" /\ RunsAs(x) /\ y \in Entered
  /\ Allowed(x, y) /\ HasRoom(x, y)
  /\ call' = [call EXCEPT ![c] = [at |-> "waiting", edge |-> <<x, y>>]]
  /\ edges' = Added(edges, {<<x, y>>}, 1)
  /\ nodes' = Added(nodes, {x, y}, 1)
  /\ edgeCount' = IF edges[<<x, y>>] = 0 THEN edgeCount + 1 ELSE edgeCount

\* Graph.release
Released(p) ==
  /\ edges' = Added(edges, {p}, -1)
  /\ nodes' = Added(nodes, {p[1], p[2]}, -1)
  /\ edgeCount' = IF edges[p] = 1 THEN edgeCount - 1 ELSE edgeCount

\* What is waited for returns when it waits for nothing any more, and its
\* caller runs the release function.
Finished(c) == \A d \in Calls : call[d].at = "waiting" => call[d].edge[1] # call[c].edge[2]

Return(c) ==
  /\ call[c].at = "waiting" /\ Finished(c)
  /\ call' = [call EXCEPT ![c].at = "returned"]
  /\ Released(call[c].edge)

BugReleasesTwice(c) ==
  /\ call[c].at = "returned"
  /\ Released(call[c].edge)
  /\ UNCHANGED call

\* The release function is run again: it runs once only.
ReleaseAgain(c) ==
  /\ call[c].at = "returned"
  /\ UNCHANGED vars

Next ==
  \E c \in Calls :
    \/ \E x, y \in Nodes : Enter(c, x, y)
    \/ Return(c)
    \/ ReleaseAgain(c)

Spec == Init /\ [][Next]_vars

\* What a call runs comes to its end once it waits for nothing, and the
\* release function is deferred where the call is made.
FairSpec == Spec /\ \A c \in Calls : WF_vars(Return(c))

-----------------------------------------------------------------------------
\* The counters of the graph say how many calls wait, and where: no release
\* takes away a wait of another call, so that no wait is overlooked.
CountsAreCalls ==
  /\ \A p \in Pairs : edges[p] = Cardinality(WaitingOn(p))
  /\ \A n \in Nodes :
       nodes[n] = Cardinality({c \in Calls : call[c].at = "waiting" /\
                                 n \in {call[c].edge[1], call[c].edge[2]}})
  /\ edgeCount = Cardinality(Waits)

\* The waits of the calls that are under way have no cycle.
NoCycle == Acyclic(Nodes, {call[c].edge : c \in {c \in Calls : call[c].at = "waiting"}})

\* Nothing that a tool or a sandboxed process waits for, directly or not, is
\* an agent.
NoCallback ==
  \A x, y \in Nodes : Kind[x] \in LowerKinds /\ Kind[y] = "agent" => ~Reaches(Nodes, Waits, x, y)

\* The graph stays within its capacity.
WithinCapacity == edgeCount <= MaxEdges /\ Cardinality(Present) <= MaxNodes

\* While calls wait, there is one whose release nothing holds up.
NoStandstill ==
  (\E c \in Calls : call[c].at = "waiting")
    => \E c \in Calls : call[c].at = "waiting" /\ Finished(c)

\* Every call that was entered returns: the calls never wait for each other.
EveryCallReturns == \A c \in Calls : call[c].at = "waiting" ~> call[c].at = "returned"
=============================================================================
