------------------------------ MODULE WaitGraph ------------------------------
(***************************************************************************)
(* The questions that internal/waitgraph answers about a set of waits: an  *)
(* edge <<x, y>> says that node x waits for node y.  The synchronous graph *)
(* (graph.go) and the graph that is rebuilt from the rows of one run       *)
(* (durable.go) ask the same question before an edge is added: does the    *)
(* target already wait, directly or not, for the source?                   *)
(***************************************************************************)
EXTENDS Naturals, FiniteSets

Closed(E, S) == \A e \in E : e[1] \in S => e[2] \in S

\* pathExistsLocked, and DAG.reachable: y is in everything that holds x and
\* is closed under the waits.  A node reaches itself.
Reaches(N, E, x, y) == \A S \in SUBSET N : x \in S /\ Closed(E, S) => y \in S

\* No node waits for itself, directly or through others.
Acyclic(N, E) == \A e \in E : ~Reaches(N, E, e[2], e[1])

\* lowerRuntimeKind
LowerKinds == {"tool", "retriever", "store", "runner"}

\* The layer rule of Acquire and of ValidateInsert.
CallsBack(kind, x, y) == kind[y] = "agent" /\ kind[x] \in LowerKinds

\* longestIncoming and longestOutgoing: how many edges can be followed from
\* x, and back from x, without a repetition.  Nodes that a walk of k edges
\* leads to; in a graph without a cycle every walk is free of repetitions.
WalkFrom(E, x, n) ==
  LET walk[k \in 0..n] ==
        IF k = 0 THEN {x} ELSE {e[2] : e \in {e \in E : e[1] \in walk[k - 1]}}
  IN walk

Longest(N, E, x) ==
  LET walk == WalkFrom(E, x, Cardinality(N))
  IN CHOOSE k \in 0..Cardinality(N) :
       walk[k] # {} /\ \A j \in 0..Cardinality(N) : walk[j] # {} => j <= k

Reversed(E) == {<<e[2], e[1]>> : e \in E}

\* DAG.ValidateInsert with the bounds maxDepth (MaxDurableDepth) and maxEdges
\* (MaxActiveEdges).
Insertable(N, kind, E, x, y, maxDepth, maxEdges) ==
  /\ x # y
  /\ ~CallsBack(kind, x, y)
  /\ ~Reaches(N, E, y, x)
  /\ Longest(N, Reversed(E), x) + Longest(N, E, y) + 1 <= maxDepth
  /\ Cardinality(E) + 1 <= maxEdges
=============================================================================
