------------------------ MODULE DependencyWait_proofs ------------------------
(***************************************************************************)
(* The durable waits of a run, for any number of agents, edges and limits. *)
(*                                                                         *)
(* What the tables say of the edges (WellFormed) holds of the committed    *)
(* tables and of the view of the open transaction.  The view continues the *)
(* committed tables: it has the same edges, no more of them open, and the  *)
(* source of an edge that it settled does not wait in it.  Nothing else is *)
(* committed while the transaction is open, so its commit keeps all this.  *)
(*                                                                         *)
(* From the absence of circles follows that not all agents wait, and with  *)
(* the checks of an insertion that the limits on open edges and on chains  *)
(* of them hold throughout.                                                *)
(***************************************************************************)
EXTENDS DependencyWait, WaitGraph_proofs

\* Receipts and messages are about edges that were recorded.
Referenced(S) ==
  /\ \A r \in S.receipt : r.edge \in DOMAIN S.edge
  /\ \A a \in Agents : \A j \in DOMAIN S.inbox[a] : S.inbox[a][j].edge \in DOMAIN S.edge

WellFormed(S) ==
  /\ S \in Tables
  /\ Referenced(S)
  /\ \A i \in DOMAIN S.edge : Reported(S, i)

Continues(V, D) ==
  /\ DOMAIN V.edge = DOMAIN D.edge
  /\ \A i \in DOMAIN D.edge :
       /\ V.edge[i].src = D.edge[i].src /\ V.edge[i].tgt = D.edge[i].tgt
       /\ V.edge[i].state = "wait" => D.edge[i].state = "wait"
       /\ D.edge[i].state = "wait" /\ V.edge[i].state # "wait"
            => V.node[D.edge[i].src] # "waiting"

TransactionInv ==
  tx # Idle => /\ tx.kind # "none"
               /\ tx.todo \subseteq DOMAIN tx.view.edge
               /\ WellFormed(tx.view)
               /\ Continues(tx.view, db)

IInv == TypeOK /\ WellFormed(db) /\ NoCircle(db) /\ TransactionInv

-----------------------------------------------------------------------------
\* The types of the tables.
LEMMA TablesFields ==
  ASSUME NEW S \in Tables
  PROVE  /\ S.edge \in Seq(Edge) /\ S.receipt \in SUBSET Receipt
         /\ S.inbox \in [Agents -> Seq(Message)] /\ S.node \in [Agents -> AgentStatuses]
BY DEF Tables

\* The types of an edge.
LEMMA EdgeFields ==
  ASSUME NEW e \in Edge
  PROVE  /\ e.src \in Agents /\ e.tgt \in Agents /\ e.deadline \in Nat
         /\ e.state \in {"wait"} \cup Outcomes
BY DEF Edge

\* A recorded edge is an edge.
LEMMA EdgeOfTables ==
  ASSUME NEW S \in Tables, NEW i \in DOMAIN S.edge
  PROVE  S.edge[i] \in Edge
BY TablesFields

\* Tables put together of their parts.
LEMMA TablesMembership ==
  ASSUME NEW e \in Seq(Edge), NEW r \in SUBSET Receipt,
         NEW b \in [Agents -> Seq(Message)], NEW n \in [Agents -> AgentStatuses]
  PROVE  [edge |-> e, receipt |-> r, inbox |-> b, node |-> n] \in Tables
BY DEF Tables

\* A message that is consumed is still that message.
LEMMA MessageKept ==
  ASSUME NEW m \in Message
  PROVE  [m EXCEPT !.status = "consumed"] \in Message
BY DEF Message

\* What a settlement appends to an inbox.
Extends(p, q, i, outcome) ==
  /\ p \in Seq(Message)
  /\ Len(p) \in Nat /\ Len(p) > Len(q)
  /\ \A j \in 1..Len(q) : p[j] = q[j]
  /\ p[Len(q) + 1] = Row("dependency", i, outcome)
  /\ \A j \in 1..Len(p) : j > Len(q) => p[j].edge = i
  /\ \A j \in 1..Len(p) : j > Len(q) + 1 => p[j].kind = "wake"

\* The rows that tell of a settlement extend an inbox.
LEMMA ToldAppended ==
  ASSUME NEW q \in Seq(Message), NEW S, NEW i \in Nat, NEW outcome \in Outcomes
  PROVE  Extends(q \o Told(S, i, outcome), q, i, outcome)
<1>1. Row("dependency", i, outcome) \in Message /\ Row("wake", i, outcome) \in Message
  BY DEF Row, Message
<1>2. Row("dependency", i, outcome).edge = i /\ Row("wake", i, outcome).edge = i
      /\ Row("wake", i, outcome).kind = "wake"
  BY DEF Row
<1> DEFINE d == Row("dependency", i, outcome)
           w == Row("wake", i, outcome)
<1>3. CASE Wakes(S, i, outcome)
  <2>1. Told(S, i, outcome) = <<d, w>>
    BY <1>3 DEF Told
  <2> HIDE DEF d, w
  <2>2. LET p == q \o <<d, w>> IN
        /\ p \in Seq(Message) /\ Len(p) = Len(q) + 2
        /\ \A j \in 1..Len(q) : p[j] = q[j]
        /\ p[Len(q) + 1] = d /\ p[Len(q) + 2] = w
    BY <1>1 DEF d, w
  <2> QED BY <2>1, <2>2, <1>2 DEF d, w, Extends
<1>4. CASE ~Wakes(S, i, outcome)
  <2>1. Told(S, i, outcome) = <<d>>
    BY <1>4 DEF Told
  <2> HIDE DEF d
  <2>2. LET p == q \o <<d>> IN
        /\ p \in Seq(Message) /\ Len(p) = Len(q) + 1
        /\ \A j \in 1..Len(q) : p[j] = q[j]
        /\ p[Len(q) + 1] = d
    BY <1>1 DEF d
  <2> QED BY <2>1, <2>2, <1>2 DEF d, Extends
<1> QED BY <1>3, <1>4

-----------------------------------------------------------------------------
\* One settlement.
LEMMA StatusAfterSettlement ==
  ASSUME NEW S \in Tables, NEW i \in DOMAIN S.edge, NEW outcome \in Outcomes
  PROVE  /\ StatusAfter(S, i, outcome) \in AgentStatuses
         /\ StatusAfter(S, i, outcome) # "waiting"
<1>1. S.edge[i].src \in Agents
  BY EdgeOfTables, EdgeFields
<1>2. S.node[S.edge[i].src] \in AgentStatuses
  BY <1>1, TablesFields
<1> QED BY <1>2 DEF StatusAfter, Fails, Wakes, AgentStatuses

\* An edge that is settled keeps its ends.
LEMMA ResolvedEdge ==
  ASSUME NEW e \in Edge, NEW outcome \in Outcomes
  PROVE  /\ Resolved(e, outcome) \in Edge
         /\ Resolved(e, outcome).src = e.src /\ Resolved(e, outcome).tgt = e.tgt
         /\ Resolved(e, outcome).state = outcome
BY DEF Resolved, Edge

\* What a settlement changes in the tables, and that nothing else changes.
LEMMA SettledTables ==
  ASSUME NEW S \in Tables, NEW i \in DOMAIN S.edge, NEW outcome \in Outcomes
  PROVE  LET T == Settled(S, i, outcome)
             a == S.edge[i].src IN
         /\ T \in Tables
         /\ DOMAIN T.edge = DOMAIN S.edge
         /\ T.edge[i].src = S.edge[i].src /\ T.edge[i].tgt = S.edge[i].tgt
         /\ T.edge[i].state = outcome
         /\ \A k \in DOMAIN S.edge : k # i => T.edge[k] = S.edge[k]
         /\ T.receipt = S.receipt \cup {[edge |-> i, outcome |-> outcome]}
         /\ T.inbox[a] = S.inbox[a] \o Told(S, i, outcome)
         /\ T.node[a] = StatusAfter(S, i, outcome)
         /\ \A b \in Agents : b # a => T.inbox[b] = S.inbox[b] /\ T.node[b] = S.node[b]
<1> DEFINE T == Settled(S, i, outcome)
           a == S.edge[i].src
           e == [S.edge EXCEPT ![i] = Resolved(@, outcome)]
           r == S.receipt \cup {[edge |-> i, outcome |-> outcome]}
           b == [S.inbox EXCEPT ![a] = @ \o Told(S, i, outcome)]
           n == [S.node EXCEPT ![a] = StatusAfter(S, i, outcome)]
<1>1. /\ S.edge \in Seq(Edge) /\ S.receipt \in SUBSET Receipt
      /\ S.inbox \in [Agents -> Seq(Message)] /\ S.node \in [Agents -> AgentStatuses]
  BY TablesFields
<1>2. i \in Nat /\ S.edge[i] \in Edge /\ a \in Agents
  BY <1>1, EdgeFields
<1>3. T.edge = e /\ T.receipt = r /\ T.inbox = b /\ T.node = n
      /\ T = [edge |-> e, receipt |-> r, inbox |-> b, node |-> n]
  BY DEF Settled
<1>4. /\ Resolved(S.edge[i], outcome) \in Edge
      /\ Resolved(S.edge[i], outcome).src = S.edge[i].src
      /\ Resolved(S.edge[i], outcome).tgt = S.edge[i].tgt
      /\ Resolved(S.edge[i], outcome).state = outcome
  BY <1>2, ResolvedEdge
<1>5. e \in Seq(Edge) /\ DOMAIN e = DOMAIN S.edge /\ e[i] = Resolved(S.edge[i], outcome)
      /\ \A k \in DOMAIN S.edge : k # i => e[k] = S.edge[k]
  BY <1>1, <1>4
<1>6. r \in SUBSET Receipt
  BY <1>1, <1>2 DEF Receipt
<1>7. S.inbox[a] \in Seq(Message) /\ S.inbox[a] \o Told(S, i, outcome) \in Seq(Message)
  BY <1>1, <1>2, ToldAppended DEF Extends
<1>8. /\ b \in [Agents -> Seq(Message)] /\ b[a] = S.inbox[a] \o Told(S, i, outcome)
      /\ \A c \in Agents : c # a => b[c] = S.inbox[c]
  BY <1>1, <1>2, <1>7
<1>9. StatusAfter(S, i, outcome) \in AgentStatuses
  BY StatusAfterSettlement
<1>10. /\ n \in [Agents -> AgentStatuses] /\ n[a] = StatusAfter(S, i, outcome)
       /\ \A c \in Agents : c # a => n[c] = S.node[c]
  BY <1>1, <1>2, <1>9
<1> HIDE DEF e, r, b, n, T
<1>11. T \in Tables
  <2>1. [edge |-> e, receipt |-> r, inbox |-> b, node |-> n] \in Tables
    BY <1>5, <1>6, <1>8, <1>10, TablesMembership
  <2> QED BY <2>1, <1>3
<1> QED
  BY <1>3, <1>4, <1>5, <1>8, <1>10, <1>11 DEF r, T

\* The edge is reported, and what was said of the others stays.
LEMMA SettledWellFormed ==
  ASSUME NEW S, WellFormed(S), NEW i \in DOMAIN S.edge, S.edge[i].state = "wait",
         NEW outcome \in Outcomes
  PROVE  WellFormed(Settled(S, i, outcome))
<1> DEFINE T == Settled(S, i, outcome)
           a == S.edge[i].src
<1>1. S \in Tables /\ Referenced(S) /\ \A k \in DOMAIN S.edge : Reported(S, k)
  BY DEF WellFormed
<1>2. /\ T \in Tables
      /\ DOMAIN T.edge = DOMAIN S.edge
      /\ T.edge[i].src = a /\ T.edge[i].state = outcome
      /\ \A k \in DOMAIN S.edge : k # i => T.edge[k] = S.edge[k]
      /\ T.receipt = S.receipt \cup {[edge |-> i, outcome |-> outcome]}
      /\ T.inbox[a] = S.inbox[a] \o Told(S, i, outcome)
      /\ \A b \in Agents : b # a => T.inbox[b] = S.inbox[b]
  BY <1>1, SettledTables
<1>3. S.edge \in Seq(Edge) /\ S.inbox \in [Agents -> Seq(Message)] /\ i \in Nat
  BY <1>1, TablesFields
<1>4. a \in Agents /\ S.inbox[a] \in Seq(Message)
  BY <1>1, <1>3, EdgeOfTables, EdgeFields
<1> HIDE DEF T, a
<1> DEFINE q == S.inbox[a]
           p == q \o Told(S, i, outcome)
           n == Len(q)
<1> HIDE DEF q
<1>5. /\ p \in Seq(Message) /\ Len(p) \in Nat /\ Len(p) > n /\ n \in Nat
      /\ \A j \in 1..n : p[j] = q[j]
      /\ p[n + 1] = Row("dependency", i, outcome)
      /\ \A j \in 1..Len(p) : j > n => p[j].edge = i
      /\ \A j \in 1..Len(p) : j > n + 1 => p[j].kind = "wake"
  <2>1. q \in Seq(Message)
    BY <1>4 DEF q
  <2>2. n \in Nat
    BY <2>1
  <2>3. Extends(q \o Told(S, i, outcome), q, i, outcome)
    BY <1>3, <2>1, ToldAppended
  <2> QED BY <2>2, <2>3 DEF Extends
<1>6. T.inbox[a] = p /\ DOMAIN p = 1..Len(p) /\ DOMAIN S.inbox[a] = 1..n
      /\ \A j \in 1..n : p[j] = S.inbox[a][j]
  <2>1. T.inbox[a] = p
    BY <1>2 DEF q
  <2>2. DOMAIN p = 1..Len(p)
    BY <1>5
  <2> QED BY <2>1, <2>2, <1>4, <1>5 DEF q
<1> HIDE DEF p
<1>7. n + 1 \in 1..Len(p) /\ p[n + 1].kind = "dependency" /\ p[n + 1].edge = i
      /\ p[n + 1].outcome = outcome
  BY <1>5 DEF Row
<1> HIDE DEF n
<1>8. Referenced(T)
  <2>1. \A r \in T.receipt : r.edge \in DOMAIN T.edge
    BY <1>1, <1>2 DEF Referenced
  <2>2. \A j \in DOMAIN T.inbox[a] : T.inbox[a][j].edge \in DOMAIN T.edge
    <3> SUFFICES ASSUME NEW j \in 1..Len(p) PROVE p[j].edge \in DOMAIN S.edge
      BY <1>2, <1>6
    <3>1. CASE j \in 1..n
      BY <3>1, <1>1, <1>4, <1>6 DEF Referenced
    <3>2. CASE j \notin 1..n
      BY <3>2, <1>5
    <3> QED BY <3>1, <3>2
  <2>3. \A b \in Agents : b # a =>
          \A j \in DOMAIN T.inbox[b] : T.inbox[b][j].edge \in DOMAIN T.edge
    BY <1>1, <1>2 DEF Referenced
  <2> QED BY <2>1, <2>2, <2>3 DEF Referenced
<1>9. Reported(T, i)
  <2>1. /\ {r \in S.receipt : r.edge = i} = {}
        /\ \A b \in Agents : Notices(S, b, i) = {}
    BY <1>1 DEF Reported
  <2>2. {r \in T.receipt : r.edge = i} = {[edge |-> i, outcome |-> outcome]}
    BY <2>1, <1>2
  <2>3. Notices(T, a, i) = {n + 1}
    <3>1. \A j \in 1..n : p[j] = S.inbox[a][j] /\ j \notin Notices(S, a, i)
      BY <2>1, <1>4, <1>6
    <3>2. \A j \in 1..n : ~(p[j].kind = "dependency" /\ p[j].edge = i)
      BY <3>1, <1>6 DEF Notices
    <3>3. \A j \in 1..Len(p) : p[j].kind = "dependency" /\ p[j].edge = i <=> j = n + 1
      BY <3>2, <1>5, <1>7
    <3> QED BY <3>3, <1>6, <1>7 DEF Notices
  <2>4. \A b \in Agents : b # a => Notices(T, b, i) = {}
    BY <2>1, <1>2 DEF Notices
  <2>5. outcome # "wait"
    BY DEF Outcomes
  <2>6. n + 1 \in DOMAIN T.inbox[a] /\ T.inbox[a][n + 1].outcome = outcome
    BY <1>6, <1>7
  <2>7. ASSUME NEW b \in Agents
        PROVE  IF b # a \/ outcome = "wait" THEN Notices(T, b, i) = {}
               ELSE \E j \in DOMAIN T.inbox[b] :
                      Notices(T, b, i) = {j} /\ T.inbox[b][j].outcome = outcome
    BY <2>3, <2>4, <2>5, <2>6
  <2> QED BY <2>2, <2>5, <2>7, <1>2 DEF Reported
<1>10. ASSUME NEW k \in DOMAIN S.edge, k # i PROVE Reported(T, k)
  <2>1. {r \in T.receipt : r.edge = k} = {r \in S.receipt : r.edge = k}
    BY <1>2, <1>10
  <2>2. Notices(T, a, k) = Notices(S, a, k)
    <3>1. \A j \in 1..Len(p) : j > n => p[j].edge # k
      BY <1>5, <1>10
    <3>2. \A j \in 1..Len(p) : p[j].edge = k => j \in 1..n
      BY <3>1, <1>5
    <3>3. \A j \in 1..n : j \in 1..Len(p) /\ p[j] = S.inbox[a][j]
      BY <1>5, <1>6
    <3> QED BY <3>2, <3>3, <1>6 DEF Notices
  <2>3. \A j \in Notices(S, a, k) : j \in DOMAIN T.inbox[a] /\ T.inbox[a][j] = S.inbox[a][j]
    BY <1>5, <1>6 DEF Notices
  <2>4. \A b \in Agents : Notices(T, b, k) = Notices(S, b, k)
    <3>1. \A b \in Agents : b # a => Notices(T, b, k) = Notices(S, b, k)
      BY <1>2 DEF Notices
    <3> QED BY <2>2, <3>1
  <2>5. \A b \in Agents : \A j \in Notices(S, b, k) :
          j \in DOMAIN T.inbox[b] /\ T.inbox[b][j] = S.inbox[b][j]
    BY <2>3, <1>2 DEF Notices
  <2>6. T.edge[k] = S.edge[k] /\ Reported(S, k)
    BY <1>1, <1>2, <1>10
  <2> QED BY <2>1, <2>4, <2>5, <2>6 DEF Reported
<1> QED BY <1>1, <1>2, <1>8, <1>9, <1>10 DEF WellFormed, T

-----------------------------------------------------------------------------
\* The other changes of the tables.
LEMMA SettledContinues ==
  ASSUME NEW V \in Tables, NEW D \in Tables, Continues(V, D),
         NEW i \in DOMAIN V.edge, V.edge[i].state = "wait", NEW outcome \in Outcomes
  PROVE  Continues(Settled(V, i, outcome), D)
<1> DEFINE T == Settled(V, i, outcome)
           a == V.edge[i].src
<1>1. /\ DOMAIN T.edge = DOMAIN V.edge
      /\ T.edge[i].src = a /\ T.edge[i].tgt = V.edge[i].tgt
      /\ T.edge[i].state = outcome
      /\ \A k \in DOMAIN V.edge : k # i => T.edge[k] = V.edge[k]
      /\ T.node[a] = StatusAfter(V, i, outcome)
      /\ \A b \in Agents : b # a => T.node[b] = V.node[b]
  BY SettledTables
<1>2. StatusAfter(V, i, outcome) # "waiting"
  BY StatusAfterSettlement
<1>3. outcome # "wait"
  BY DEF Outcomes
<1>4. \A k \in DOMAIN V.edge : V.edge[k].src \in Agents
  BY EdgeOfTables, EdgeFields
<1> HIDE DEF T, a
<1>5. DOMAIN T.edge = DOMAIN D.edge
  BY <1>1 DEF Continues
<1>6. ASSUME NEW k \in DOMAIN D.edge
      PROVE  /\ T.edge[k].src = D.edge[k].src /\ T.edge[k].tgt = D.edge[k].tgt
             /\ T.edge[k].state = "wait" => D.edge[k].state = "wait"
             /\ D.edge[k].state = "wait" /\ T.edge[k].state # "wait"
                  => T.node[D.edge[k].src] # "waiting"
  <2>1. /\ V.edge[k].src = D.edge[k].src /\ V.edge[k].tgt = D.edge[k].tgt
        /\ V.edge[k].state = "wait" => D.edge[k].state = "wait"
        /\ D.edge[k].state = "wait" /\ V.edge[k].state # "wait"
             => V.node[D.edge[k].src] # "waiting"
        /\ k \in DOMAIN V.edge
    BY DEF Continues
  <2>2. D.edge[k].src = a => T.node[D.edge[k].src] # "waiting"
    BY <1>1, <1>2
  <2>3. CASE k = i
    BY <2>1, <2>2, <2>3, <1>1, <1>3 DEF a
  <2>4. CASE k # i
    BY <2>1, <2>2, <2>4, <1>1, <1>4
  <2> QED BY <2>3, <2>4
<1> QED BY <1>5, <1>6 DEF Continues, T

\* A new transaction sees the committed tables.
LEMMA ContinuesItself ==
  ASSUME NEW D
  PROVE  Continues(D, D)
BY DEF Continues

\* Fewer edges are open in a view, so it has no circle either.
LEMMA ContinuesKeepsAcyclic ==
  ASSUME NEW V, NEW D, Continues(V, D), NoCircle(D)
  PROVE  NoCircle(V)
<1>1. Waits(V) \subseteq Waits(D)
  BY DEF Waits, Open, Continues
<1> QED BY <1>1, RemovalKeepsAcyclic DEF NoCircle

\* The nodes are no part of what is said of the edges.
LEMMA NodesChange ==
  ASSUME NEW S, WellFormed(S), NoCircle(S), NEW n \in [Agents -> AgentStatuses]
  PROVE  /\ WellFormed([S EXCEPT !.node = n]) /\ NoCircle([S EXCEPT !.node = n])
<1> DEFINE T == [S EXCEPT !.node = n]
<1>1. /\ T.edge = S.edge /\ T.receipt = S.receipt /\ T.inbox = S.inbox
      /\ T \in Tables
  BY DEF WellFormed, Tables
<1> HIDE DEF T
<1>2. Referenced(T)
  BY <1>1 DEF WellFormed, Referenced
<1>3. \A a \in Agents, i \in DOMAIN S.edge : Notices(T, a, i) = Notices(S, a, i)
  BY <1>1 DEF Notices
<1>4. \A i \in DOMAIN S.edge : Reported(T, i)
  BY <1>1, <1>3 DEF WellFormed, Reported
<1>5. Waits(T) = Waits(S)
  BY <1>1 DEF Waits, Open
<1> QED BY <1>1, <1>2, <1>4, <1>5 DEF WellFormed, NoCircle, T

\* To consume a message changes its status only.
LEMMA Consumption ==
  ASSUME NEW S, WellFormed(S), NoCircle(S), NEW a \in Agents, NEW q \in Seq(Message),
         DOMAIN q = DOMAIN S.inbox[a],
         \A j \in DOMAIN q : /\ q[j].kind = S.inbox[a][j].kind
                             /\ q[j].edge = S.inbox[a][j].edge
                             /\ q[j].outcome = S.inbox[a][j].outcome
  PROVE  /\ WellFormed([S EXCEPT !.inbox[a] = q]) /\ NoCircle([S EXCEPT !.inbox[a] = q])
<1> DEFINE T == [S EXCEPT !.inbox[a] = q]
<1>1. /\ T.edge = S.edge /\ T.receipt = S.receipt
      /\ T.inbox = [S.inbox EXCEPT ![a] = q] /\ T \in Tables
  BY DEF WellFormed, Tables
<1>2. T.inbox[a] = q /\ \A b \in Agents : b # a => T.inbox[b] = S.inbox[b]
  BY <1>1 DEF WellFormed, Tables
<1> HIDE DEF T
<1>3. Referenced(T)
  BY <1>1, <1>2 DEF WellFormed, Referenced
<1>4. \A b \in Agents : DOMAIN T.inbox[b] = DOMAIN S.inbox[b]
  BY <1>2
<1>5. \A b \in Agents : \A j \in DOMAIN S.inbox[b] :
        /\ T.inbox[b][j].kind = S.inbox[b][j].kind
        /\ T.inbox[b][j].edge = S.inbox[b][j].edge
        /\ T.inbox[b][j].outcome = S.inbox[b][j].outcome
  BY <1>2
<1>6. \A b \in Agents, i \in DOMAIN S.edge : Notices(T, b, i) = Notices(S, b, i)
  BY <1>4, <1>5 DEF Notices
<1>7. ASSUME NEW i \in DOMAIN S.edge PROVE Reported(T, i)
  BY <1>1, <1>4, <1>5, <1>6 DEF WellFormed, Reported
<1>8. Waits(T) = Waits(S)
  BY <1>1 DEF Waits, Open
<1> QED BY <1>1, <1>3, <1>7, <1>8 DEF WellFormed, NoCircle, T

\* A new edge is open and nothing was said of it.
LEMMA Insertion ==
  ASSUME NEW S, WellFormed(S), NoCircle(S), NEW e \in Edge, e.state = "wait",
         Admissible(S, e.src, e.tgt)
  PROVE  /\ WellFormed([S EXCEPT !.edge = Append(@, e)])
         /\ NoCircle([S EXCEPT !.edge = Append(@, e)])
<1> DEFINE T == [S EXCEPT !.edge = Append(@, e)]
           n == Len(S.edge) + 1
<1>1. /\ T.edge = Append(S.edge, e) /\ T.receipt = S.receipt /\ T.inbox = S.inbox
      /\ T \in Tables
  <2>1. S.edge \in Seq(Edge)
    BY DEF WellFormed, Tables
  <2>2. Append(S.edge, e) \in Seq(Edge)
    BY <2>1
  <2>3. T = [S EXCEPT !.edge = Append(S.edge, e)]
    OBVIOUS
  <2> HIDE DEF T
  <2>4. S \in Tables
    BY DEF WellFormed
  <2> QED BY <2>2, <2>3, <2>4 DEF Tables
<1>2. /\ n \in Nat /\ DOMAIN T.edge = DOMAIN S.edge \cup {n} /\ n \notin DOMAIN S.edge
      /\ T.edge[n] = e /\ \A i \in DOMAIN S.edge : T.edge[i] = S.edge[i]
  BY <1>1 DEF WellFormed, Tables
<1> HIDE DEF T, n
<1>3. Referenced(T)
  BY <1>1, <1>2 DEF WellFormed, Referenced
<1>4. \A a \in Agents, i \in DOMAIN T.edge : Notices(T, a, i) = Notices(S, a, i)
  BY <1>1 DEF Notices
<1>5. \A i \in DOMAIN S.edge : Reported(T, i)
  BY <1>1, <1>2, <1>4 DEF WellFormed, Reported
<1>6. Reported(T, n)
  <2>1. {r \in T.receipt : r.edge = n} = {}
    BY <1>1, <1>2 DEF WellFormed, Referenced
  <2>2. \A a \in Agents : Notices(T, a, n) = {}
    BY <1>1, <1>2 DEF WellFormed, Referenced, Notices
  <2> QED BY <2>1, <2>2, <1>2 DEF Reported
<1>7. Waits(T) = Waits(S) \cup {<<e.src, e.tgt>>}
  <2>1. Open(T) = Open(S) \cup {n}
    BY <1>2 DEF Open
  <2> QED BY <2>1, <1>2 DEF Waits, Open
<1>8. Waits(S) \in SUBSET (Agents \X Agents)
  <2>1. \A i \in DOMAIN S.edge : S.edge[i].src \in Agents /\ S.edge[i].tgt \in Agents
    BY EdgeOfTables, EdgeFields DEF WellFormed
  <2> QED BY <2>1 DEF Waits, Open
<1>9. e.src \in Agents /\ e.tgt \in Agents /\ ~Reaches(Agents, Waits(S), e.tgt, e.src)
  BY EdgeFields DEF Admissible, Insertable
<1>10. NoCircle(T)
  BY <1>7, <1>8, <1>9, InsertionKeepsAcyclic DEF NoCircle
<1> QED BY <1>1, <1>2, <1>3, <1>5, <1>6, <1>10 DEF WellFormed, T

-----------------------------------------------------------------------------
\* The empty tables are well formed.
LEMMA NoTablesWellFormed == WellFormed(NoTables) /\ NoCircle(NoTables)
<1>1. NoTables \in Tables
  BY DEF NoTables, Tables, AgentStatuses
<1>2. NoTables.edge = <<>> /\ NoTables.receipt = {}
      /\ \A a \in Agents : NoTables.inbox[a] = <<>>
  BY DEF NoTables
<1>3. DOMAIN NoTables.edge = {} /\ \A a \in Agents : DOMAIN NoTables.inbox[a] = {}
  BY <1>2
<1>4. Waits(NoTables) = {}
  BY <1>3 DEF Waits, Open
<1>5. NoCircle(NoTables)
  BY <1>4 DEF NoCircle, Acyclic
<1>6. Referenced(NoTables)
  BY <1>2, <1>3 DEF Referenced
<1> QED BY <1>1, <1>3, <1>5, <1>6 DEF WellFormed

\* The absence of a transaction, which has nothing to do.
LEMMA IdleTransaction ==
  Idle \in Transaction /\ Idle.kind = "none" /\ Idle.todo = {}
BY NoTablesWellFormed DEF Idle, Transaction, WellFormed

\* The invariant holds at the start.
LEMMA InitInv == Init => IInv
<1> SUFFICES ASSUME Init PROVE IInv
  OBVIOUS
<1>1. WellFormed(db) /\ NoCircle(db) /\ db \in Tables
  BY NoTablesWellFormed DEF Init, WellFormed
<1>2. tx = Idle /\ tx \in Transaction
  BY IdleTransaction DEF Init
<1>3. run \in {"running"} \cup TerminalRun /\ op \in [Keys -> Nat] /\ now \in Nat
  BY DEF Init
<1> QED BY <1>1, <1>2, <1>3 DEF IInv, TypeOK, TransactionInv

\* An edge is recorded.
LEMMA RecordInv ==
  ASSUME IInv, NEW k \in Keys, NEW s \in Agents, NEW t \in Agents, NEW p \in Policies,
         NEW g \in Generations, NEW term \in Terms, Record(k, s, t, p, g, term)
  PROVE  IInv'
<1> DEFINE e == [src |-> s, tgt |-> t, policy |-> p, gen |-> g, deadline |-> now + term,
                 state |-> "wait"]
<1>1. now + term \in Nat /\ p \in {"fail", "notify"} /\ g \in Nat
  BY RequestAssumption DEF IInv, TypeOK
<1>2. e \in Edge /\ e.state = "wait" /\ e.src = s /\ e.tgt = t
  BY <1>1 DEF Edge
<1>3. db' = [db EXCEPT !.edge = Append(@, e)] /\ Admissible(db, s, t)
  BY DEF Record
<1> HIDE DEF e
<1>4. WellFormed(db') /\ NoCircle(db')
  BY <1>2, <1>3, Insertion DEF IInv
<1>5. tx = Idle /\ tx' = tx /\ run' = run /\ now' = now
  BY DEF Record
<1>6. op' \in [Keys -> Nat]
  <2>1. Len(db.edge) + 1 \in Nat
    BY DEF IInv, TypeOK, Tables
  <2> QED BY <2>1 DEF Record, IInv, TypeOK
<1> QED BY <1>4, <1>5, <1>6 DEF IInv, TypeOK, TransactionInv, WellFormed

\* A settlement begins with the committed tables.
LEMMA BeginInv ==
  ASSUME IInv, NEW kind \in {"created", "deadline"}, NEW edges \in SUBSET DOMAIN db.edge,
         NEW outcome \in Outcomes \cup {"by_state"}, Begin(kind, edges, outcome)
  PROVE  IInv'
<1>1. WellFormed(db) /\ Continues(db, db) /\ db \in Tables
  BY ContinuesItself DEF IInv, WellFormed
<1>2. edges \subseteq Nat
  BY <1>1, TablesFields
<1>3. /\ tx' \in Transaction /\ tx'.kind # "none" /\ tx'.todo = edges /\ tx'.view = db
  BY <1>1, <1>2 DEF Begin, Transaction
<1>4. UNCHANGED <<run, op, now, db>>
  BY DEF Begin
<1> QED BY <1>1, <1>3, <1>4 DEF IInv, TypeOK, TransactionInv

\* All of the settlements do.
LEMMA SettlementBegins ==
  ASSUME IInv,
         \/ \E t \in Agents, outcome \in {"satisfied", "failed"} : SettleTarget(t, outcome)
         \/ \E s \in Agents : CancelSource(s)
         \/ ExpireOverdue \/ Reconcile
         \/ \E t \in Agents, dependents \in SUBSET Agents : AcceptDelivery(t, dependents)
  PROVE  IInv'
<1>1. \E kind \in {"created", "deadline"}, edges \in SUBSET DOMAIN db.edge,
         outcome \in Outcomes \cup {"by_state"} : Begin(kind, edges, outcome)
  <2>1. Open(db) \in SUBSET DOMAIN db.edge
    BY DEF Open
  <2>2. \A t \in Agents, outcome \in {"satisfied", "failed"} : SettleTarget(t, outcome) =>
          \E edges \in SUBSET DOMAIN db.edge : Begin("created", edges, outcome)
    BY <2>1 DEF SettleTarget
  <2>3. \A s \in Agents : CancelSource(s) =>
          \E edges \in SUBSET DOMAIN db.edge : Begin("created", edges, "cancelled")
    BY <2>1 DEF CancelSource
  <2>4. ExpireOverdue =>
          \E edges \in SUBSET DOMAIN db.edge : Begin("deadline", edges, "expired")
    BY <2>1 DEF ExpireOverdue
  <2>5. Reconcile =>
          \E edges \in SUBSET DOMAIN db.edge : Begin("created", edges, "by_state")
    BY <2>1 DEF Reconcile
  <2>6. \A t \in Agents, dependents \in SUBSET Agents : AcceptDelivery(t, dependents) =>
          \E edges \in SUBSET DOMAIN db.edge : Begin("created", edges, "satisfied")
    BY <2>1 DEF AcceptDelivery
  <2> QED BY <2>2, <2>3, <2>4, <2>5, <2>6 DEF Outcomes
<1> QED BY <1>1, BeginInv

\* An edge is left as it is, or gets one of the outcomes.
LEMMA OutcomeType ==
  ASSUME TypeOK, NEW i \in DOMAIN tx.view.edge
  PROVE  OutcomeOf(i) = "wait" \/ OutcomeOf(i) \in Outcomes
<1>1. tx.outcome \in Outcomes \cup {"by_state"} /\ tx.view \in Tables /\ now \in Nat
  BY DEF TypeOK, Transaction
<1>2. tx.view.edge[i].deadline \in Nat
  BY <1>1, EdgeOfTables, EdgeFields
<1>3. tx.view.edge[i].deadline <= now \/ tx.view.edge[i].deadline > now
  BY <1>1, <1>2
<1>4. Judged(tx.view, i) \in {"expired", "cancelled", "satisfied", "failed", "wait"}
  BY <1>3 DEF Judged
<1>5. CASE tx.outcome = "by_state"
  BY <1>4, <1>5 DEF OutcomeOf, Outcomes
<1> QED BY <1>1, <1>5 DEF OutcomeOf

\* A settlement takes its next edge.
LEMMA SettleNextInv ==
  ASSUME IInv, NEW i \in tx.todo, SettleNext(i)
  PROVE  IInv'
<1>1. tx # Idle
  BY IdleTransaction
<1>2. /\ tx.kind # "none" /\ tx.todo \subseteq DOMAIN tx.view.edge
      /\ WellFormed(tx.view) /\ Continues(tx.view, db) /\ tx \in Transaction
      /\ tx.view \in Tables /\ db \in Tables
  BY <1>1 DEF IInv, TransactionInv, TypeOK, WellFormed
<1>3. UNCHANGED <<run, op, now, db>>
  BY DEF SettleNext
<1>4. CASE tx' = [tx EXCEPT !.todo = @ \ {i}]
  <2>1. tx'.kind = tx.kind /\ tx'.view = tx.view /\ tx'.todo = tx.todo \ {i}
        /\ tx' \in Transaction
    BY <1>2, <1>4 DEF Transaction
  <2> QED BY <2>1, <1>2, <1>3 DEF IInv, TypeOK, TransactionInv
<1>5. CASE /\ OutcomeOf(i) # "wait" /\ ~HasReceipt(tx.view, i)
           /\ tx' = [tx EXCEPT !.todo = @ \ {i}, !.view = Settled(@, i, OutcomeOf(i))]
  <2> DEFINE outcome == OutcomeOf(i)
             V == Settled(tx.view, i, outcome)
  <2>1. i \in DOMAIN tx.view.edge
    BY <1>2
  <2>2. outcome \in Outcomes
    BY <2>1, <1>5, OutcomeType DEF IInv
  <2>3. tx.view.edge[i].state = "wait"
    <3>1. Reported(tx.view, i)
      BY <2>1, <1>2 DEF WellFormed
    <3>2. {r \in tx.view.receipt : r.edge = i} = {}
      BY <1>5 DEF HasReceipt
    <3> QED BY <3>1, <3>2 DEF Reported
  <2> HIDE DEF outcome
  <2>4. WellFormed(V) /\ Continues(V, db) /\ V \in Tables /\ DOMAIN V.edge = DOMAIN tx.view.edge
    BY <1>2, <2>1, <2>2, <2>3, SettledWellFormed, SettledContinues, SettledTables
  <2> HIDE DEF V
  <2>5. tx' = [tx EXCEPT !.todo = @ \ {i}, !.view = V]
    BY <1>5 DEF V, outcome
  <2>6. tx'.kind = tx.kind /\ tx'.view = V /\ tx'.todo = tx.todo \ {i}
        /\ tx' \in Transaction
    BY <2>4, <2>5, <1>2 DEF Transaction
  <2> QED BY <2>4, <2>6, <1>2, <1>3 DEF IInv, TypeOK, TransactionInv
<1> QED BY <1>4, <1>5 DEF SettleNext

\* It is committed.
LEMMA CommitInv ==
  ASSUME IInv, Commit
  PROVE  IInv'
<1>1. tx # Idle
  BY IdleTransaction DEF Commit
<1>2. WellFormed(tx.view) /\ Continues(tx.view, db)
  BY <1>1 DEF IInv, TransactionInv
<1>3. NoCircle(tx.view)
  BY <1>2, ContinuesKeepsAcyclic DEF IInv
<1>4. db' = tx.view /\ tx' = Idle /\ UNCHANGED <<run, op, now>>
  BY DEF Commit
<1> QED BY <1>2, <1>3, <1>4, IdleTransaction DEF IInv, TypeOK, TransactionInv, WellFormed

\* An undone one has changed nothing.
LEMMA RollbackInv ==
  ASSUME IInv, Rollback
  PROVE  IInv'
BY IdleTransaction DEF Rollback, IInv, TypeOK, TransactionInv

\* Agents move.
LEMMA AgentMovesInv ==
  ASSUME IInv, NEW a \in Agents, NEW to \in Moves, AgentMoves(a, to)
  PROVE  IInv'
<1> DEFINE n == [db.node EXCEPT ![a] = to]
<1>1. n \in [Agents -> AgentStatuses]
  BY MoveAssumption DEF IInv, TypeOK, Tables
<1>2. db' = [db EXCEPT !.node = n]
  BY DEF AgentMoves
<1> HIDE DEF n
<1>3. WellFormed(db') /\ NoCircle(db')
  BY <1>1, <1>2, NodesChange DEF IInv
<1>4. tx = Idle /\ UNCHANGED <<run, op, now, tx>>
  BY DEF AgentMoves
<1> QED BY <1>3, <1>4 DEF IInv, TypeOK, TransactionInv, WellFormed

\* The run ends, with its agents.
LEMMA RunEndsInv ==
  ASSUME IInv, NEW to \in TerminalRun, RunEnds(to)
  PROVE  IInv'
<1> DEFINE n == [a \in Agents |-> LastStatus(a, to)]
<1>1. n \in [Agents -> AgentStatuses]
  <2>1. \A a \in Agents : db.node[a] \in AgentStatuses
    BY DEF IInv, TypeOK, Tables
  <2>2. to \in AgentStatuses
    BY DEF TerminalRun, AgentStatuses
  <2> QED BY <2>1, <2>2 DEF LastStatus, AgentStatuses
<1>2. db' = [db EXCEPT !.node = n]
  BY DEF RunEnds
<1> HIDE DEF n
<1>3. WellFormed(db') /\ NoCircle(db')
  BY <1>1, <1>2, NodesChange DEF IInv
<1>4. tx = Idle /\ run' = to /\ UNCHANGED <<op, now, tx>>
  BY DEF RunEnds
<1> QED BY <1>3, <1>4 DEF IInv, TypeOK, TransactionInv, WellFormed

\* Messages are consumed.
LEMMA ConsumeInv ==
  ASSUME IInv, NEW a \in Agents, NEW kinds, Consume(a, kinds)
  PROVE  IInv'
<1> DEFINE q == [j \in DOMAIN db.inbox[a] |->
                   IF db.inbox[a][j].kind \in kinds
                   THEN [db.inbox[a][j] EXCEPT !.status = "consumed"] ELSE db.inbox[a][j]]
<1>1. db.inbox[a] \in Seq(Message)
  BY DEF IInv, TypeOK, Tables
<1>2. \A j \in DOMAIN db.inbox[a] : db.inbox[a][j] \in Message
  BY <1>1
<1>3. \A j \in DOMAIN db.inbox[a] : q[j] \in Message
  BY <1>2, MessageKept
<1>4. DOMAIN q = DOMAIN db.inbox[a] /\ DOMAIN q = 1..Len(db.inbox[a]) /\ Len(db.inbox[a]) \in Nat
  BY <1>1
<1>5. q \in Seq(Message)
  <2>1. q = [j \in 1..Len(db.inbox[a]) |-> q[j]]
    BY <1>4
  <2> HIDE DEF q
  <2>2. q \in [1..Len(db.inbox[a]) -> Message]
    BY <1>3, <1>4, <2>1
  <2> QED BY <2>2, <1>4
<1>6. \A j \in DOMAIN q : /\ q[j].kind = db.inbox[a][j].kind
                          /\ q[j].edge = db.inbox[a][j].edge
                          /\ q[j].outcome = db.inbox[a][j].outcome
  BY <1>2 DEF Message
<1>7. db' = [db EXCEPT !.inbox[a] = q]
  BY DEF Consume
<1> HIDE DEF q
<1>8. WellFormed(db') /\ NoCircle(db')
  BY <1>4, <1>5, <1>6, <1>7, Consumption DEF IInv
<1>9. tx = Idle /\ UNCHANGED <<run, op, now, tx>>
  BY DEF Consume
<1> QED BY <1>8, <1>9 DEF IInv, TypeOK, TransactionInv, WellFormed

\* Time passes.
LEMMA TickInv ==
  ASSUME IInv, Tick
  PROVE  IInv'
BY DEF Tick, IInv, TypeOK, TransactionInv

\* Every step keeps the invariant.
LEMMA StepInv == IInv /\ [Next]_vars => IInv'
<1> SUFFICES ASSUME IInv, [Next]_vars PROVE IInv'
  OBVIOUS
<1>1. CASE \E k \in Keys, s, t \in Agents, p \in Policies, g \in Generations, term \in Terms :
             Record(k, s, t, p, g, term)
  BY <1>1, RecordInv
<1>2. CASE \/ \E t \in Agents, outcome \in {"satisfied", "failed"} : SettleTarget(t, outcome)
           \/ \E s \in Agents : CancelSource(s)
           \/ ExpireOverdue \/ Reconcile
           \/ \E t \in Agents, dependents \in SUBSET Agents : AcceptDelivery(t, dependents)
  BY <1>2, SettlementBegins
<1>3. CASE \E i \in tx.todo : SettleNext(i)
  BY <1>3, SettleNextInv
<1>4. CASE Commit \/ Rollback
  BY <1>4, CommitInv, RollbackInv
<1>5. CASE \E a \in Agents, to \in Moves : AgentMoves(a, to)
  BY <1>5, AgentMovesInv
<1>6. CASE \E to \in TerminalRun : RunEnds(to)
  BY <1>6, RunEndsInv
<1>7. CASE \E a \in Agents : Consume(a, {"dependency"}) \/ Consume(a, {"dependency", "wake"})
  BY <1>7, ConsumeInv
<1>8. CASE Tick
  BY <1>8, TickInv
<1>9. CASE UNCHANGED vars
  BY <1>9 DEF vars, IInv, TypeOK, TransactionInv
<1> QED BY <1>1, <1>2, <1>3, <1>4, <1>5, <1>6, <1>7, <1>8, <1>9 DEF Next

\* It holds of every state.
LEMMA Invariance == Spec => []IInv
BY InitInv, StepInv, PTL DEF Spec

-----------------------------------------------------------------------------
\* The tables keep their types.
THEOREM TypeCorrect == Spec => []TypeOK
<1>1. IInv => TypeOK
  BY DEF IInv
<1> QED BY <1>1, Invariance, PTL

\* RecordDependencyWait refuses every edge that would close a circle, and no
\* settlement opens one.
THEOREM WaitsStayAcyclic == Spec => []WaitsAcyclic
<1>1. IInv => WaitsAcyclic
  BY DEF IInv, WaitsAcyclic
<1> QED BY <1>1, Invariance, PTL

\* However many agents wait, one of those that are waited for waits for no
\* other and can settle its edge: the agents of a run never stand still for
\* the edges that RecordDependencyWait let in.
THEOREM AgentsNeverStandStill == Spec => []NoStandstill
<1>1. ASSUME IInv, NEW i0 \in Open(db)
      PROVE  \E i \in Open(db) : \A j \in Open(db) : db.edge[j].src # db.edge[i].tgt
  <2>1. Waits(db) \in SUBSET (Agents \X Agents)
    <3>1. ASSUME NEW i \in Open(db) PROVE <<db.edge[i].src, db.edge[i].tgt>> \in Agents \X Agents
      <4>1. db.edge[i] \in Edge
        BY <1>1, EdgeOfTables DEF IInv, TypeOK, Open
      <4> QED BY <4>1, EdgeFields
    <3> QED BY <3>1 DEF Waits
  <2>2. IsFiniteSet(Waits(db))
    BY <2>1, AgentAssumption, FS_Product, FS_Subset
  <2>3. Waits(db) # {}
    BY DEF Waits
  <2>4. PICK w \in Waits(db) : \A v \in Waits(db) : v[1] # w[2]
    <3>1. Acyclic(Agents, Waits(db))
      BY <1>1 DEF IInv, NoCircle
    <3> QED BY <2>1, <2>2, <2>3, <3>1, SomeoneIsNotWaiting
  <2>5. PICK i \in Open(db) : w = <<db.edge[i].src, db.edge[i].tgt>>
    BY DEF Waits
  <2>6. ASSUME NEW j \in Open(db) PROVE db.edge[j].src # db.edge[i].tgt
    <3>1. <<db.edge[j].src, db.edge[j].tgt>> \in Waits(db)
      BY DEF Waits
    <3> QED BY <2>4, <2>5, <3>1
  <2> QED BY <2>6
<1>2. IInv => NoStandstill
  BY <1>1 DEF NoStandstill
<1> QED BY <1>2, Invariance, PTL

\* settleDependencyEdgeTx reports an edge once, whichever of the settlements
\* come first, are repeated or are rolled back.
THEOREM EveryEndIsToldOnce == Spec => []ToldOnce
<1>1. IInv => ToldOnce
  BY DEF IInv, WellFormed, ToldOnce
<1> QED BY <1>1, Invariance, PTL

\* deliverDependencySourceMessagesTx leaves no source waiting whose edge was
\* settled, also when one transaction settles several of its edges.
THEOREM SourcesAreWoken == Spec => SourceIsWoken
<1> DEFINE A == \A i \in DOMAIN db.edge :
                  db.edge[i].state = "wait" /\ db'.edge[i].state # "wait"
                    => db'.node[db.edge[i].src] # "waiting"
<1>1. IInv /\ Next => A
  <2> SUFFICES ASSUME IInv, Next, NEW i \in DOMAIN db.edge,
                      db.edge[i].state = "wait", db'.edge[i].state # "wait"
               PROVE  db'.node[db.edge[i].src] # "waiting"
    OBVIOUS
  <2>1. CASE Commit
    <3>1. tx # Idle
      BY <2>1, IdleTransaction DEF Commit
    <3>2. Continues(tx.view, db) /\ db' = tx.view
      BY <3>1, <2>1 DEF IInv, TransactionInv, Commit
    <3> QED BY <3>2 DEF Continues
  <2>2. CASE \E k \in Keys, s, t \in Agents, p \in Policies, g \in Generations, term \in Terms :
               Record(k, s, t, p, g, term)
    <3>1. PICK e : db' = [db EXCEPT !.edge = Append(@, e)]
      BY <2>2 DEF Record
    <3>2. db.edge \in Seq(Edge) /\ db \in Tables
      BY DEF IInv, TypeOK, Tables
    <3>3. db'.edge = Append(db.edge, e)
      BY <3>1, <3>2 DEF Tables
    <3>4. db'.edge[i] = db.edge[i]
      BY <3>2, <3>3
    <3> QED BY <3>4
  <2>3. CASE \E a \in Agents, to \in Moves : AgentMoves(a, to)
    BY <2>3 DEF AgentMoves, IInv, TypeOK, Tables
  <2>4. CASE \E to \in TerminalRun : RunEnds(to)
    BY <2>4 DEF RunEnds, IInv, TypeOK, Tables
  <2>5. CASE \E a \in Agents : Consume(a, {"dependency"}) \/ Consume(a, {"dependency", "wake"})
    BY <2>5 DEF Consume, IInv, TypeOK, Tables
  <2>6. CASE db' = db
    BY <2>6
  <2> QED BY <2>1, <2>2, <2>3, <2>4, <2>5, <2>6
          DEF Next, SettleTarget, CancelSource, ExpireOverdue, Reconcile, AcceptDelivery, Begin,
              SettleNext, Rollback, Tick
<1>2. IInv /\ [Next]_vars => [A]_vars
  BY <1>1
<1> QED BY <1>2, Invariance, PTL DEF Spec, SourceIsWoken

-----------------------------------------------------------------------------
\* The limits on open edges and on the chains of them.

\* An edge that a transaction leaves open was open before.
LEMMA FewerOpen ==
  ASSUME NEW V, NEW D, DOMAIN V.edge = DOMAIN D.edge,
         \A i \in DOMAIN D.edge :
           /\ V.edge[i].src = D.edge[i].src /\ V.edge[i].tgt = D.edge[i].tgt
           /\ V.edge[i].state = "wait" => D.edge[i].state = "wait"
  PROVE  Open(V) \subseteq Open(D) /\ Waits(V) \subseteq Waits(D)
BY DEF Open, Waits

\* A step opens one edge that was admitted, below the limit, or none.
LEMMA OpenStep ==
  ASSUME IInv, [Next]_vars
  PROVE  \/ Open(db') \subseteq Open(db) /\ Waits(db') \subseteq Waits(db)
         \/ \E s, t \in Agents, n \in Nat :
              /\ Admissible(db, s, t) /\ Cardinality(Open(db)) < MaxOpen
              /\ Open(db') = Open(db) \cup {n} /\ n \notin Open(db)
              /\ Waits(db') = Waits(db) \cup {<<s, t>>}
<1>1. CASE Commit
  <2>1. tx # Idle
    BY <1>1, IdleTransaction DEF Commit
  <2>2. Continues(tx.view, db) /\ db' = tx.view
    BY <2>1, <1>1 DEF IInv, TransactionInv, Commit
  <2> QED BY <2>2, FewerOpen DEF Continues
<1>2. CASE \E k \in Keys, s, t \in Agents, p \in Policies, g \in Generations, term \in Terms :
             Record(k, s, t, p, g, term)
  <2>1. PICK k \in Keys, s \in Agents, t \in Agents, p \in Policies, g \in Generations, term \in Terms :
          Record(k, s, t, p, g, term)
    BY <1>2
  <2> DEFINE e == [src |-> s, tgt |-> t, policy |-> p, gen |-> g, deadline |-> now + term,
                   state |-> "wait"]
             n == Len(db.edge) + 1
  <2>2. /\ db' = [db EXCEPT !.edge = Append(@, e)] /\ Admissible(db, s, t)
        /\ Cardinality(Open(db)) < MaxOpen
    BY <2>1 DEF Record
  <2>3. e.src = s /\ e.tgt = t /\ e.state = "wait"
    OBVIOUS
  <2> HIDE DEF e
  <2>4. db.edge \in Seq(Edge) /\ db \in Tables
    BY DEF IInv, TypeOK, Tables
  <2>5. db'.edge = Append(db.edge, e)
    BY <2>2, <2>4 DEF Tables
  <2>6. /\ n \in Nat /\ DOMAIN db'.edge = DOMAIN db.edge \cup {n} /\ n \notin DOMAIN db.edge
        /\ db'.edge[n] = e /\ \A i \in DOMAIN db.edge : db'.edge[i] = db.edge[i]
    BY <2>4, <2>5
  <2> HIDE DEF n
  <2>7. Open(db') = Open(db) \cup {n} /\ n \notin Open(db)
    BY <2>3, <2>6 DEF Open
  <2>8. Waits(db') = Waits(db) \cup {<<s, t>>}
    <3>1. \A i \in Open(db) : db'.edge[i] = db.edge[i]
      BY <2>6 DEF Open
    <3> QED BY <2>3, <2>6, <2>7, <3>1 DEF Waits
  <2> QED BY <2>2, <2>6, <2>7, <2>8
<1>3. CASE db'.edge = db.edge
  BY <1>3 DEF Open, Waits
<1>4. CASE \E a \in Agents, to \in Moves : AgentMoves(a, to)
  <2>1. db'.edge = db.edge
    BY <1>4 DEF AgentMoves, IInv, TypeOK, Tables
  <2> QED BY <1>3, <2>1
<1>5. CASE \E to \in TerminalRun : RunEnds(to)
  <2>1. db'.edge = db.edge
    BY <1>5 DEF RunEnds, IInv, TypeOK, Tables
  <2> QED BY <1>3, <2>1
<1>6. CASE \E a \in Agents : Consume(a, {"dependency"}) \/ Consume(a, {"dependency", "wake"})
  <2>1. db'.edge = db.edge
    BY <1>6 DEF Consume, IInv, TypeOK, Tables
  <2> QED BY <1>3, <2>1
<1>7. CASE db' = db
  BY <1>3, <1>7
<1> QED BY <1>1, <1>2, <1>4, <1>5, <1>6, <1>7
        DEF Next, SettleTarget, CancelSource, ExpireOverdue, Reconcile, AcceptDelivery, Begin,
            SettleNext, Rollback, Tick, vars

\* What is open and who waits, as finite sets.
LEMMA OpenTypes ==
  ASSUME IInv
  PROVE  /\ IsFiniteSet(Open(db)) /\ Cardinality(Open(db)) \in Nat
         /\ Waits(db) \in SUBSET (Agents \X Agents)
<1>1. db.edge \in Seq(Edge) /\ Len(db.edge) \in Nat /\ DOMAIN db.edge = 1..Len(db.edge)
  BY DEF IInv, TypeOK, Tables
<1>2. Open(db) \in SUBSET (1..Len(db.edge))
  BY <1>1 DEF Open
<1>3. IsFiniteSet(1..Len(db.edge))
  BY <1>1, FS_Interval
<1>4. IsFiniteSet(Open(db))
  <2> DEFINE B == 1..Len(db.edge)
  <2>1. IsFiniteSet(B) /\ Open(db) \subseteq B
    BY <1>2, <1>3
  <2> HIDE DEF B
  <2> QED BY <2>1, FS_Subset
<1>5. ASSUME NEW i \in Open(db) PROVE <<db.edge[i].src, db.edge[i].tgt>> \in Agents \X Agents
  <2>1. db.edge[i] \in Edge
    BY <1>1 DEF Open
  <2> QED BY <2>1, EdgeFields
<1> QED BY <1>4, <1>5, FS_CardinalityType DEF Waits

\* At the start no edge is open.
LEMMA InitWithin == Init => WithinLimits
<1> SUFFICES ASSUME Init PROVE WithinLimits
  OBVIOUS
<1>1. Open(db) = {} /\ Waits(db) = {}
  BY DEF Init, NoTables, Open, Waits
<1>2. ASSUME NEW a \in Agents PROVE Longest(Agents, Waits(db), a) <= MaxDepth
  <2> DEFINE h == [x \in Agents |-> 0]
  <2>1. Falls({}, h) /\ h \in [Agents -> Nat] /\ {} \in SUBSET (Agents \X Agents)
    BY DEF Falls
  <2>2. h[a] = 0
    OBVIOUS
  <2> HIDE DEF h
  <2>3. Longest(Agents, {}, a) <= 0
    BY <2>1, <2>2, AgentAssumption, LongestBelow
  <2>4. Longest(Agents, {}, a) \in Nat
    BY AgentAssumption, LongestIs
  <2> QED BY <1>1, <2>3, <2>4, LimitAssumption
<1>3. Cardinality(Open(db)) <= MaxOpen
  BY <1>1, FS_EmptySet, LimitAssumption
<1> QED BY <1>2, <1>3 DEF WithinLimits

\* A step keeps the limits.
LEMMA StepWithin ==
  ASSUME IInv, IInv', WithinLimits, [Next]_vars
  PROVE  WithinLimits'
<1>1. /\ IsFiniteSet(Open(db)) /\ Cardinality(Open(db)) \in Nat
      /\ Waits(db) \in SUBSET (Agents \X Agents) /\ Acyclic(Agents, Waits(db))
      /\ IsFiniteSet(Agents) /\ MaxDepth \in Nat /\ MaxOpen \in Nat
  BY OpenTypes, AgentAssumption, LimitAssumption DEF IInv, NoCircle
<1>2. /\ Cardinality(Open(db)) <= MaxOpen
      /\ \A a \in Agents : Longest(Agents, Waits(db), a) <= MaxDepth
  BY DEF WithinLimits
<1>3. CASE Open(db') \subseteq Open(db) /\ Waits(db') \subseteq Waits(db)
  <2>1. Cardinality(Open(db')) \in Nat /\ Cardinality(Open(db')) <= Cardinality(Open(db))
    BY <1>1, <1>3, FS_Subset, FS_CardinalityType
  <2>2. ASSUME NEW a \in Agents PROVE Longest(Agents, Waits(db'), a) <= MaxDepth
    <3>1. Longest(Agents, Waits(db'), a) <= Longest(Agents, Waits(db), a)
      BY <1>1, <1>3, RemovalKeepsDepth
    <3>2. Longest(Agents, Waits(db'), a) \in Nat /\ Longest(Agents, Waits(db), a) \in Nat
      BY <1>1, LongestIs
    <3> QED BY <1>1, <1>2, <3>1, <3>2
  <2>3. Cardinality(Open(db')) <= MaxOpen
    BY <1>1, <1>2, <2>1
  <2> QED BY <2>2, <2>3 DEF WithinLimits
<1>4. ASSUME NEW s \in Agents, NEW t \in Agents, NEW n \in Nat,
             Admissible(db, s, t), Cardinality(Open(db)) < MaxOpen,
             Open(db') = Open(db) \cup {n}, n \notin Open(db),
             Waits(db') = Waits(db) \cup {<<s, t>>}
      PROVE  WithinLimits'
  <2>1. Cardinality(Open(db')) = Cardinality(Open(db)) + 1
    BY <1>1, <1>4, FS_AddElement
  <2>2. /\ ~Reaches(Agents, Waits(db), t, s)
        /\ Longest(Agents, Reversed(Waits(db)), s) + Longest(Agents, Waits(db), t) + 1 <= MaxDepth
    BY <1>4 DEF Admissible, Insertable
  <2>3. \A a \in Agents : Longest(Agents, Waits(db'), a) <= MaxDepth
    BY <1>1, <1>2, <1>4, <2>2, InsertionKeepsDepth
  <2>4. Cardinality(Open(db')) <= MaxOpen
    BY <1>1, <1>4, <2>1
  <2> QED BY <2>3, <2>4 DEF WithinLimits
<1> QED BY <1>3, <1>4, OpenStep

\* However edges are recorded and settled, no more of them are open than
\* MaxDependencyEdgesPerRun and no chain of waits is longer than
\* MaxDurableDepth: DAG.ValidateInsert looks at the chains through the new
\* edge only.
THEOREM WaitsStayWithinLimits == Spec => []WithinLimits
<1>1. IInv /\ IInv' /\ WithinLimits /\ [Next]_vars => WithinLimits'
  BY StepWithin
<1> QED BY InitWithin, Invariance, <1>1, PTL DEF Spec
=============================================================================
