--------------------------- MODULE SyncWaits_proofs ---------------------------
(***************************************************************************)
(* The synchronous waits of a process never form a cycle, for any number   *)
(* of nodes and calls.  The check of Acquire is about the counted edges,   *)
(* and the calls are what waits: the invariant says that every edge counts *)
(* the calls that hold it, so that a release takes no other call's wait    *)
(* out of the graph.                                                       *)
(*                                                                         *)
(* The counters of nodes and of edges are right as well, so that what the  *)
(* capacity is held against is what is there; and the edges stay within    *)
(* the layers of the kinds, so that no tool waits for a runner or a caller. *)
(***************************************************************************)
EXTENDS SyncWaits, WaitGraph_proofs, FiniteSetTheorems

\* Every edge counts the calls that hold it.
Counted == \A p \in Pairs : edges[p] = Cardinality(WaitingOn(p))

\* The inductive invariant of the waits.
WaitInv ==
  /\ edges \in [Pairs -> Nat]
  /\ call \in [Calls -> CallRows]
  /\ Counted
  /\ Acyclic(Nodes, Waits)

\* The calls that hold an edge can be counted.
LEMMA WaitingOnFinite ==
  ASSUME NEW p
  PROVE  IsFiniteSet(WaitingOn(p)) /\ Cardinality(WaitingOn(p)) \in Nat
<1>1. WaitingOn(p) \in SUBSET Calls
  BY DEF WaitingOn
<1> QED BY <1>1, CallsAssumption, FS_Subset, FS_CardinalityType

\* At the start nothing waits.
LEMMA InitWaits == Init => WaitInv
<1> SUFFICES ASSUME Init PROVE WaitInv
  OBVIOUS
<1>1. edges \in [Pairs -> Nat] /\ call \in [Calls -> CallRows]
  BY DEF Init, CallRows
<1>2. Waits = {}
  BY DEF Init, Waits
<1>3. ASSUME NEW p \in Pairs PROVE edges[p] = Cardinality(WaitingOn(p))
  <2>1. WaitingOn(p) = {}
    BY DEF Init, WaitingOn, NewCall
  <2> QED BY <2>1, FS_EmptySet DEF Init
<1> QED BY <1>1, <1>2, <1>3 DEF WaitInv, Counted, Acyclic

\* A call that enters is one more that waits on its edge, and its edge closes
\* no cycle.
LEMMA EnterKeeps ==
  ASSUME WaitInv, NEW c \in Calls, NEW x \in Nodes, NEW y \in Nodes, Enter(c, x, y)
  PROVE  WaitInv'
<1> DEFINE p == <<x, y>>
<1>1. p \in Pairs
  BY DEF Pairs
<1>2. edges' \in [Pairs -> Nat] /\ call' \in [Calls -> CallRows]
  BY <1>1 DEF WaitInv, Enter, Added, CallRows
<1>3. ASSUME NEW q \in Pairs PROVE edges'[q] = Cardinality(WaitingOn(q)')
  <2>1. CASE q = p
    <3>1. WaitingOn(q)' = WaitingOn(q) \cup {c} /\ c \notin WaitingOn(q)
      BY <1>1, <2>1 DEF WaitInv, Enter, WaitingOn
    <3>2. edges'[q] = edges[q] + 1
      BY <1>1, <2>1 DEF WaitInv, Enter, Added
    <3>3. Cardinality(WaitingOn(q) \cup {c}) = Cardinality(WaitingOn(q)) + 1
      BY <3>1, WaitingOnFinite, FS_AddElement, Zenon
    <3> QED BY <3>1, <3>2, <3>3 DEF WaitInv, Counted
  <2>2. CASE q # p
    <3>1. WaitingOn(q)' = WaitingOn(q)
      BY <2>2 DEF WaitInv, Enter, WaitingOn
    <3>2. edges'[q] = edges[q]
      BY <2>2 DEF WaitInv, Enter, Added
    <3> QED BY <3>1, <3>2 DEF WaitInv, Counted
  <2> QED BY <2>1, <2>2
<1>4. Waits' = Waits \cup {p}
  BY <1>1 DEF WaitInv, Enter, Added, Waits
<1>5. Waits \in SUBSET (Nodes \X Nodes)
  BY DEF Waits, Pairs
<1>6. Acyclic(Nodes, Waits \cup {p})
  BY <1>5, InsertionKeepsAcyclic DEF WaitInv, Enter, Allowed
<1> QED BY <1>2, <1>3, <1>4, <1>6 DEF WaitInv, Counted

\* A call that returns is one less that waits on its edge.
LEMMA ReturnKeeps ==
  ASSUME WaitInv, NEW c \in Calls, Return(c)
  PROVE  WaitInv'
<1> DEFINE p == call[c].edge
<1>1. p \in Pairs /\ c \in WaitingOn(p)
  BY DEF WaitInv, Return, CallRows, NewCall, WaitingOn
<1>2. edges[p] \in Nat \ {0}
  BY <1>1, WaitingOnFinite, FS_EmptySet DEF WaitInv, Counted
<1>3. edges' \in [Pairs -> Nat]
  BY <1>1, <1>2 DEF WaitInv, Return, Released, Added
<1>4. call' \in [Calls -> CallRows]
  BY DEF WaitInv, Return, CallRows, NewCall
<1>5. ASSUME NEW q \in Pairs PROVE edges'[q] = Cardinality(WaitingOn(q)')
  <2>1. CASE q = p
    <3>1. WaitingOn(q)' = WaitingOn(q) \ {c}
      BY <2>1 DEF WaitInv, Return, WaitingOn
    <3>2. edges'[q] = edges[q] - 1
      BY <1>1, <2>1 DEF WaitInv, Return, Released, Added
    <3>3. Cardinality(WaitingOn(q) \ {c}) = Cardinality(WaitingOn(q)) - 1
      BY <1>1, <2>1, WaitingOnFinite, FS_RemoveElement, Zenon
    <3> QED BY <3>1, <3>2, <3>3 DEF WaitInv, Counted
  <2>2. CASE q # p
    <3>1. WaitingOn(q)' = WaitingOn(q)
      BY <2>2 DEF WaitInv, Return, WaitingOn
    <3>2. edges'[q] = edges[q]
      BY <2>2 DEF WaitInv, Return, Released, Added
    <3> QED BY <3>1, <3>2 DEF WaitInv, Counted
  <2> QED BY <2>1, <2>2
<1>6. Waits' \in SUBSET Waits
  BY <1>1, <1>2, <1>3 DEF WaitInv, Return, Released, Added, Waits
<1>7. Acyclic(Nodes, Waits')
  BY <1>6, RemovalKeepsAcyclic DEF WaitInv
<1> QED BY <1>3, <1>4, <1>5, <1>7 DEF WaitInv, Counted

\* A step that changes nothing keeps the invariant.
LEMMA StutterKeeps == WaitInv /\ UNCHANGED vars => WaitInv'
BY DEF vars, WaitInv, Counted, Waits, WaitingOn

\* The waits are counted and acyclic in every state.
LEMMA WaitInvariance == Spec => []WaitInv
<1>1. WaitInv /\ [Next]_vars => WaitInv'
  BY EnterKeeps, ReturnKeeps, StutterKeeps DEF Next, ReleaseAgain
<1> QED BY <1>1, InitWaits, PTL DEF Spec

\* What calls wait for is in the graph.
LEMMA WaitsOfCalls ==
  ASSUME WaitInv
  PROVE  {call[c].edge : c \in {c \in Calls : call[c].at = "waiting"}} \in SUBSET Waits
<1> SUFFICES ASSUME NEW c \in Calls, call[c].at = "waiting" PROVE call[c].edge \in Waits
  OBVIOUS
<1>1. call[c].edge \in Pairs /\ c \in WaitingOn(call[c].edge)
  BY DEF WaitInv, CallRows, NewCall, WaitingOn
<1>2. edges[call[c].edge] > 0
  BY <1>1, WaitingOnFinite, FS_EmptySet DEF WaitInv, Counted
<1> QED BY <1>1, <1>2 DEF Waits

\* No calls of a process wait for each other, however they are interleaved.
THEOREM WaitsHaveNoCycle == Spec => []NoCycle
<1>1. WaitInv => NoCycle
  BY WaitsOfCalls, RemovalKeepsAcyclic DEF WaitInv, NoCycle
<1> QED BY <1>1, WaitInvariance, PTL

-----------------------------------------------------------------------------
\* The counters of nodes and of edges, and the capacity that they are held to.

\* The calls that have an end at a node.
EndingAt(n) ==
  {c \in Calls : call[c].at = "waiting" /\ n \in {call[c].edge[1], call[c].edge[2]}}

\* The inductive invariant of the counters.
CountInv ==
  /\ WaitInv
  /\ nodes \in [Nodes -> Nat]
  /\ \A n \in Nodes : nodes[n] = Cardinality(EndingAt(n))
  /\ edgeCount = Cardinality(Waits)
  /\ WithinCapacity

\* What the members of a finite set are mapped to is a finite set.
LEMMA ImageFinite ==
  ASSUME NEW S, IsFiniteSet(S), NEW f
  PROVE  IsFiniteSet({f[c] : c \in S})
<1> DEFINE T == {f[c] : c \in S}
           g == [c \in S |-> f[c]]
<1>1. g \in [S -> T] /\ \A t \in T : \E c \in S : g[c] = t
  OBVIOUS
<1>2. g \in Surjection(S, T)
  BY <1>1 DEF Surjection
<1> HIDE DEF g, T
<1>3. IsFiniteSet(T)
  BY <1>2, FS_Surjection
<1> QED BY <1>3 DEF T

\* The calls at a node are among the calls, so they can be counted.
LEMMA EndingAtFinite ==
  ASSUME NEW n
  PROVE  IsFiniteSet(EndingAt(n)) /\ Cardinality(EndingAt(n)) \in Nat
<1>1. EndingAt(n) \in SUBSET Calls
  BY DEF EndingAt
<1> QED BY <1>1, CallsAssumption, FS_Subset, FS_CardinalityType

\* There are no more waits than calls, and an end of a wait is a node that is
\* present.
LEMMA WaitsFinite ==
  ASSUME WaitInv
  PROVE  /\ IsFiniteSet(Waits) /\ Cardinality(Waits) \in Nat
         /\ \A p \in Waits : \E c \in Calls : call[c] = [at |-> "waiting", edge |-> p]
<1>1. \A p \in Waits : \E c \in Calls : call[c] = [at |-> "waiting", edge |-> p]
  <2> TAKE p \in Waits
  <2>1. p \in Pairs /\ edges[p] > 0 /\ edges[p] = Cardinality(WaitingOn(p))
    BY DEF Waits, WaitInv, Counted
  <2>2. WaitingOn(p) # {}
    BY <2>1, FS_EmptySet
  <2> QED BY <2>2 DEF WaitingOn
<1> DEFINE f == [c \in Calls |-> call[c].edge]
           E == {f[c] : c \in Calls}
<1>2. IsFiniteSet(E)
  <2> HIDE DEF f
  <2> QED BY CallsAssumption, ImageFinite
<1>3. Waits \in SUBSET E
  <2> SUFFICES ASSUME NEW p \in Waits PROVE p \in E
    OBVIOUS
  <2>1. PICK c \in Calls : call[c] = [at |-> "waiting", edge |-> p]
    BY <1>1
  <2>2. f[c] = p
    BY <2>1
  <2> HIDE DEF f
  <2> QED BY <2>2
<1> HIDE DEF E, f
<1>4. IsFiniteSet(Waits)
  BY <1>2, <1>3, FS_Subset
<1> QED BY <1>1, <1>4, FS_CardinalityType

\* There are finitely many nodes with an end of a call, and both ends of a wait
\* are among them.
LEMMA PresentFinite ==
  ASSUME WaitInv, \A n \in Nodes : nodes[n] = Cardinality(EndingAt(n))
  PROVE  /\ IsFiniteSet(Present) /\ Cardinality(Present) \in Nat
         /\ \A p \in Waits : p[1] \in Present /\ p[2] \in Present
<1>1. ASSUME NEW n \in Present PROVE \E c \in Calls : n \in {call[c].edge[1], call[c].edge[2]}
  <2>1. n \in Nodes /\ nodes[n] > 0 /\ nodes[n] = Cardinality(EndingAt(n))
    BY DEF Present
  <2>2. EndingAt(n) # {}
    BY <2>1, FS_EmptySet
  <2> QED BY <2>2 DEF EndingAt
<1> DEFINE f1 == [c \in Calls |-> call[c].edge[1]]
           f2 == [c \in Calls |-> call[c].edge[2]]
           E1 == {f1[c] : c \in Calls}
           E2 == {f2[c] : c \in Calls}
<1>2. IsFiniteSet(E1) /\ IsFiniteSet(E2)
  <2> HIDE DEF f1, f2
  <2> QED BY CallsAssumption, ImageFinite
<1>3. Present \in SUBSET (E1 \cup E2)
  <2> SUFFICES ASSUME NEW n \in Present PROVE n \in E1 \cup E2
    OBVIOUS
  <2>1. PICK c \in Calls : n \in {call[c].edge[1], call[c].edge[2]}
    BY <1>1
  <2>2. n = f1[c] \/ n = f2[c]
    BY <2>1
  <2> HIDE DEF f1, f2
  <2> QED BY <2>2
<1> HIDE DEF E1, E2, f1, f2
<1>4. IsFiniteSet(Present)
  BY <1>2, <1>3, FS_Union, FS_Subset
<1>5. ASSUME NEW p \in Waits PROVE p[1] \in Present /\ p[2] \in Present
  <2>1. p \in Nodes \X Nodes
    BY DEF Waits, Pairs
  <2>2. PICK c \in Calls : call[c] = [at |-> "waiting", edge |-> p]
    BY WaitsFinite
  <2>3. ASSUME NEW n \in Nodes, n \in {p[1], p[2]} PROVE n \in Present
    <3>1. c \in EndingAt(n)
      BY <2>2, <2>3 DEF EndingAt
    <3>2. EndingAt(n) # {} /\ nodes[n] = Cardinality(EndingAt(n))
      BY <3>1
    <3>3. Cardinality(EndingAt(n)) # 0
      BY <3>2, EndingAtFinite, FS_EmptySet
    <3> QED BY <3>2, <3>3, EndingAtFinite DEF Present
  <2> QED BY <2>1, <2>3
<1> QED BY <1>4, <1>5, FS_CardinalityType

\* At the start nothing is counted.
LEMMA InitCounts == Init => CountInv
<1> SUFFICES ASSUME Init PROVE CountInv
  OBVIOUS
<1>1. WaitInv
  BY InitWaits
<1>2. Waits = {} /\ Present = {} /\ edgeCount = 0 /\ nodes \in [Nodes -> Nat]
  BY DEF Init, Waits, Present
<1>3. \A n \in Nodes : nodes[n] = 0 /\ EndingAt(n) = {}
  BY DEF Init, EndingAt, NewCall
<1> QED BY <1>1, <1>2, <1>3, FS_EmptySet, CapacityAssumption DEF CountInv, WithinCapacity

\* A call that enters has one end more at each of its nodes; a wait that is
\* new is one more, and what is not new is counted already.
LEMMA EnterCounts ==
  ASSUME CountInv, NEW c \in Calls, NEW x \in Nodes, NEW y \in Nodes, Enter(c, x, y)
  PROVE  CountInv'
<1> DEFINE p == <<x, y>>
<1>0. /\ WaitInv /\ nodes \in [Nodes -> Nat] /\ edges \in [Pairs -> Nat] /\ p \in Pairs
      /\ call \in [Calls -> CallRows] /\ edgeCount = Cardinality(Waits)
      /\ \A n \in Nodes : nodes[n] = Cardinality(EndingAt(n))
  BY DEF CountInv, WaitInv, Pairs
<1>1. WaitInv'
  BY <1>0, EnterKeeps
<1>2. /\ call[c].at = "new" /\ call' = [call EXCEPT ![c] = [at |-> "waiting", edge |-> p]]
      /\ edges' = Added(edges, {p}, 1) /\ nodes' = Added(nodes, {x, y}, 1)
      /\ edgeCount' = IF edges[p] = 0 THEN edgeCount + 1 ELSE edgeCount
      /\ HasRoom(x, y)
  BY DEF Enter
<1>3. ASSUME NEW n \in Nodes
      PROVE  nodes'[n] = Cardinality(EndingAt(n)') /\ nodes'[n] \in Nat
  <2>1. CASE n \in {x, y}
    <3>1. EndingAt(n)' = EndingAt(n) \cup {c} /\ c \notin EndingAt(n)
      BY <1>0, <1>2, <2>1 DEF EndingAt
    <3>2. nodes'[n] = nodes[n] + 1
      BY <1>0, <1>2, <2>1 DEF Added
    <3>3. Cardinality(EndingAt(n) \cup {c}) = Cardinality(EndingAt(n)) + 1
      BY <3>1, EndingAtFinite, FS_AddElement, Zenon
    <3> QED BY <1>0, <3>1, <3>2, <3>3
  <2>2. CASE n \notin {x, y}
    <3>1. EndingAt(n)' = EndingAt(n)
      BY <1>0, <1>2, <2>2 DEF EndingAt
    <3>2. nodes'[n] = nodes[n]
      BY <1>0, <1>2, <2>2 DEF Added
    <3> QED BY <1>0, <3>1, <3>2
  <2> QED BY <2>1, <2>2
<1>4. nodes' \in [Nodes -> Nat]
  BY <1>0, <1>2, <1>3 DEF Added
<1>5. Waits' = Waits \cup {p} /\ (p \in Waits <=> edges[p] # 0)
  BY <1>0, <1>2 DEF Added, Waits
<1>6. Present' = Present \cup {x, y}
  BY <1>0, <1>2 DEF Added, Present
<1>7. edgeCount' = Cardinality(Waits')
  <2>1. CASE p \in Waits
    <3>1. Waits' = Waits
      BY <1>5, <2>1
    <3> QED BY <1>0, <1>2, <1>5, <2>1, <3>1
  <2>2. CASE p \notin Waits
    <3>1. Cardinality(Waits \cup {p}) = Cardinality(Waits) + 1
      BY <1>0, <2>2, WaitsFinite, FS_AddElement, Zenon
    <3> QED BY <1>0, <1>2, <1>5, <2>2, <3>1
  <2> QED BY <2>1, <2>2
<1>8. WithinCapacity'
  <2>1. CASE edges[p] > 0
    <3>1. p \in Waits
      BY <1>0, <2>1 DEF Waits
    <3>2. x \in Present /\ y \in Present
      BY <1>0, <3>1, PresentFinite
    <3>3. Present' = Present
      BY <1>6, <3>2
    <3>4. edgeCount' = edgeCount
      BY <1>2, <2>1
    <3> QED BY <3>3, <3>4 DEF CountInv, WithinCapacity
  <2>2. CASE ~(edges[p] > 0)
    <3>1. edges[p] = 0
      BY <1>0, <2>2
    <3>2. edgeCount + 1 <= MaxEdges /\ Cardinality(Present \cup {x, y}) <= MaxNodes
      BY <1>2, <2>2 DEF HasRoom
    <3> QED BY <1>2, <1>6, <3>1, <3>2 DEF WithinCapacity
  <2> QED BY <2>1, <2>2
<1> QED BY <1>1, <1>3, <1>4, <1>7, <1>8 DEF CountInv

\* A call that returns gives back what it counted, once.
LEMMA ReturnCounts ==
  ASSUME CountInv, NEW c \in Calls, Return(c)
  PROVE  CountInv'
<1> DEFINE p == call[c].edge
<1>0. /\ WaitInv /\ nodes \in [Nodes -> Nat] /\ edges \in [Pairs -> Nat]
      /\ call \in [Calls -> CallRows] /\ edgeCount = Cardinality(Waits)
      /\ \A n \in Nodes : nodes[n] = Cardinality(EndingAt(n))
  BY DEF CountInv, WaitInv
<1>1. WaitInv'
  BY <1>0, ReturnKeeps
<1>2. /\ call[c].at = "waiting" /\ call' = [call EXCEPT ![c].at = "returned"]
      /\ edges' = Added(edges, {p}, -1) /\ nodes' = Added(nodes, {p[1], p[2]}, -1)
      /\ edgeCount' = IF edges[p] = 1 THEN edgeCount - 1 ELSE edgeCount
  BY DEF Return, Released
<1>3. p \in Pairs /\ c \in WaitingOn(p) /\ p[1] \in Nodes /\ p[2] \in Nodes
  BY <1>0, <1>2 DEF CallRows, NewCall, WaitingOn, Pairs
<1>4. edges[p] \in Nat \ {0}
  BY <1>0, <1>3, WaitingOnFinite, FS_EmptySet DEF WaitInv, Counted
<1>5. ASSUME NEW n \in Nodes
      PROVE  nodes'[n] = Cardinality(EndingAt(n)') /\ nodes'[n] \in Nat /\ nodes'[n] <= nodes[n]
  <2>1. CASE n \in {p[1], p[2]}
    <3>1. EndingAt(n)' = EndingAt(n) \ {c} /\ c \in EndingAt(n)
      BY <1>0, <1>2, <2>1 DEF EndingAt
    <3>2. nodes'[n] = nodes[n] - 1
      BY <1>0, <1>2, <2>1 DEF Added
    <3>3. /\ Cardinality(EndingAt(n) \ {c}) = Cardinality(EndingAt(n)) - 1
          /\ IsFiniteSet(EndingAt(n) \ {c})
      BY <3>1, EndingAtFinite, FS_RemoveElement, Zenon
    <3>4. Cardinality(EndingAt(n) \ {c}) \in Nat
      BY <3>3, FS_CardinalityType, Zenon
    <3> QED BY <1>0, <3>1, <3>2, <3>3, <3>4
  <2>2. CASE n \notin {p[1], p[2]}
    <3>1. EndingAt(n)' = EndingAt(n)
      BY <1>0, <1>2, <2>2 DEF EndingAt
    <3>2. nodes'[n] = nodes[n]
      BY <1>0, <1>2, <2>2 DEF Added
    <3> QED BY <1>0, <3>1, <3>2
  <2> QED BY <2>1, <2>2
<1>6. nodes' \in [Nodes -> Nat]
  BY <1>0, <1>2, <1>5 DEF Added
<1>7. p \in Waits /\ Waits' = IF edges[p] = 1 THEN Waits \ {p} ELSE Waits
  BY <1>0, <1>2, <1>3, <1>4 DEF Added, Waits
<1>8. Cardinality(Waits \ {p}) = Cardinality(Waits) - 1
  BY <1>0, <1>7, WaitsFinite, FS_RemoveElement, Zenon
<1>9. edgeCount' = Cardinality(Waits') /\ edgeCount' <= edgeCount
  BY <1>0, <1>2, <1>7, <1>8, WaitsFinite
<1>10. Cardinality(Present') <= Cardinality(Present) /\ Cardinality(Present') \in Nat
  <2>1. Present' \in SUBSET Present
    BY <1>0, <1>5 DEF Present
  <2>2. IsFiniteSet(Present)
    BY <1>0, PresentFinite
  <2> QED BY <2>1, <2>2, FS_Subset, FS_CardinalityType
<1>11. WithinCapacity'
  <2>1. /\ edgeCount <= MaxEdges /\ Cardinality(Present) <= MaxNodes
        /\ edgeCount \in Nat /\ Cardinality(Present) \in Nat
    BY <1>0, WaitsFinite, PresentFinite DEF CountInv, WithinCapacity
  <2>2. edgeCount' \in Int
    BY <1>2, <2>1
  <2> QED BY <1>9, <1>10, <2>1, <2>2, CapacityAssumption DEF WithinCapacity
<1> QED BY <1>1, <1>5, <1>6, <1>9, <1>11 DEF CountInv

\* The counters are right in every state.
LEMMA CountInvariance == Spec => []CountInv
<1>1. CountInv /\ UNCHANGED vars => CountInv'
  <2> SUFFICES ASSUME CountInv, UNCHANGED vars PROVE CountInv'
    OBVIOUS
  <2>1. WaitInv'
    BY StutterKeeps DEF CountInv
  <2>2. /\ nodes' = nodes /\ edgeCount' = edgeCount /\ Waits' = Waits /\ Present' = Present
        /\ \A n \in Nodes : EndingAt(n)' = EndingAt(n)
    BY DEF vars, Waits, Present, EndingAt
  <2> QED BY <2>1, <2>2 DEF CountInv, WithinCapacity
<1>2. CountInv /\ [Next]_vars => CountInv'
  BY <1>1, EnterCounts, ReturnCounts DEF Next, ReleaseAgain
<1> QED BY <1>2, InitCounts, PTL DEF Spec

\* The counters of the graph are those of the calls that wait: a release takes
\* away its own wait and ends, and no other's (Graph.release).
THEOREM CountsMatchCalls == Spec => []CountsAreCalls
<1>1. CountInv => CountsAreCalls
  BY DEF CountInv, WaitInv, Counted, CountsAreCalls, EndingAt
<1> QED BY <1>1, CountInvariance, PTL

\* However calls enter and return, no more edges and nodes are held than the
\* graph has room for (the capacity test of Acquire).
THEOREM GraphStaysBounded == Spec => []WithinCapacity
<1>1. CountInv => WithinCapacity
  BY DEF CountInv
<1> QED BY <1>1, CountInvariance, PTL

-----------------------------------------------------------------------------
\* The layers of the graph: only agents, tools and runners are waited for, and
\* what is below an agent waits for no agent.
Layered ==
  \A c \in Calls : call[c].at = "waiting" =>
    /\ call[c].edge[2] \in Entered
    /\ ~CallsBack(Kind, call[c].edge[1], call[c].edge[2])

\* A step keeps the waits within the layers.
LEMMA LayersKept ==
  ASSUME WaitInv, Layered, [Next]_vars
  PROVE  Layered'
<1>1. ASSUME NEW c \in Calls, NEW x \in Nodes, NEW y \in Nodes, Enter(c, x, y) PROVE Layered'
  <2>1. /\ call' = [call EXCEPT ![c] = [at |-> "waiting", edge |-> <<x, y>>]]
        /\ y \in Entered /\ ~CallsBack(Kind, x, y)
    BY <1>1 DEF Enter, Allowed
  <2>2. \A d \in Calls : call'[d] = IF d = c THEN [at |-> "waiting", edge |-> <<x, y>>] ELSE call[d]
    BY <2>1 DEF WaitInv
  <2> QED BY <2>1, <2>2 DEF Layered
<1>2. ASSUME NEW c \in Calls, Return(c) PROVE Layered'
  <2>1. \A d \in Calls : call'[d].at = "waiting" => call'[d] = call[d]
    BY <1>2 DEF WaitInv, Return, CallRows, NewCall
  <2> QED BY <2>1 DEF Layered
<1>3. CASE UNCHANGED vars
  BY <1>3 DEF vars, Layered
<1> QED BY <1>1, <1>2, <1>3 DEF Next, ReleaseAgain

\* What is below an agent reaches only what is below an agent.
LEMMA LayersHold ==
  ASSUME WaitInv, Layered
  PROVE  NoCallback
<1> SUFFICES ASSUME NEW x \in Nodes, NEW y \in Nodes, Kind[x] \in LowerKinds, Kind[y] = "agent",
                    Reaches(Nodes, Waits, x, y)
             PROVE  FALSE
  BY DEF NoCallback
<1> DEFINE S == {n \in Nodes : Kind[n] \in LowerKinds}
<1>1. Closed(Waits, S)
  <2> SUFFICES ASSUME NEW e \in Waits, e[1] \in S PROVE e[2] \in S
    BY DEF Closed
  <2>1. PICK c \in Calls : call[c] = [at |-> "waiting", edge |-> e]
    BY WaitsFinite
  <2>2. e[2] \in Entered /\ ~CallsBack(Kind, e[1], e[2])
    BY <2>1 DEF Layered
  <2> QED BY <2>2 DEF Entered, CallsBack, LowerKinds
<1>2. x \in S /\ y \notin S /\ S \in SUBSET Nodes
  BY DEF LowerKinds
<1> HIDE DEF S
<1> QED BY <1>1, <1>2 DEF Reaches

\* Nothing that a tool or a sandboxed process waits for, directly or through
\* others, is an agent: the layer rule of Acquire looks at one edge at a time,
\* and no path of edges gets around it.
THEOREM NoToolCallsBack == Spec => []NoCallback
<1>1. Init => Layered
  BY DEF Init, Layered, NewCall
<1>2. WaitInv /\ Layered /\ [Next]_vars => Layered'
  BY LayersKept
<1>3. WaitInv /\ Layered => NoCallback
  BY LayersHold
<1> QED BY <1>1, <1>2, <1>3, WaitInvariance, PTL DEF Spec

-----------------------------------------------------------------------------
\* Not all of the calls wait for each other, so that one of them can return:
\* what the refusal of cycles in Acquire is for.  With the fairness of Return
\* it is why every call returns.
THEOREM NoCallsStandStill == Spec => []NoStandstill
<1>1. ASSUME WaitInv, NoCycle, NEW c0 \in Calls, call[c0].at = "waiting"
      PROVE  \E c \in Calls : call[c].at = "waiting" /\ Finished(c)
  <2> DEFINE C == {c \in Calls : call[c].at = "waiting"}
             f == [c \in C |-> call[c].edge]
             E == {f[c] : c \in C}
  <2>1. E \in SUBSET (Nodes \X Nodes) /\ f[c0] \in E
    <3>1. ASSUME NEW c \in C PROVE f[c] \in Nodes \X Nodes
      <4>1. call[c] \in CallRows /\ call[c].at = "waiting" /\ f[c] = call[c].edge
        BY <1>1 DEF WaitInv
      <4>2. call[c].edge \in Pairs
        BY <4>1 DEF CallRows, NewCall
      <4> QED BY <4>1, <4>2 DEF Pairs
    <3>2. c0 \in C
      BY <1>1
    <3> HIDE DEF C, f
    <3> QED BY <3>1, <3>2
  <2>2. IsFiniteSet(E)
    <3>1. IsFiniteSet(C)
      BY CallsAssumption, FS_Subset
    <3> HIDE DEF C, f
    <3> QED BY <3>1, ImageFinite
  <2>3. Acyclic(Nodes, E)
    <3>1. E = {call[c].edge : c \in C}
      OBVIOUS
    <3> HIDE DEF E
    <3> QED BY <1>1, <3>1 DEF NoCycle
  <2>4. PICK e \in E : \A d \in E : d[1] # e[2]
    <3> HIDE DEF E, f
    <3> QED BY <2>1, <2>2, <2>3, SomeoneIsNotWaiting
  <2>5. PICK c \in C : e = call[c].edge
    OBVIOUS
  <2>6. ASSUME NEW d \in Calls, call[d].at = "waiting" PROVE call[d].edge[1] # call[c].edge[2]
    <3>1. f[d] = call[d].edge /\ f[d] \in E
      BY <2>6
    <3> QED BY <2>4, <2>5, <3>1
  <2> QED BY <2>5, <2>6 DEF Finished
<1>2. WaitInv /\ NoCycle => NoStandstill
  BY <1>1 DEF NoStandstill
<1> QED BY <1>2, WaitInvariance, WaitsHaveNoCycle, PTL
=============================================================================
