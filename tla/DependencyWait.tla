---------------------------- MODULE DependencyWait ----------------------------
(***************************************************************************)
(* The durable waits between the agents of one run                         *)
(* (store/dependency_wait.go): an edge says that its source waits for its  *)
(* target until a deadline.  Edges are inserted one at a time and settled  *)
(* by transactions that go through several of them; each settlement leaves *)
(* one receipt, one notification in the source's inbox, and a source that  *)
(* waits is woken or fails.                                                *)
(*                                                                         *)
(* db is what has been committed, tx the open transaction of a settlement  *)
(* with its own view of the tables.  SQLite admits one writer, so nothing  *)
(* else changes until it commits or is rolled back.                        *)
(***************************************************************************)
EXTENDS Sequences, Integers, WaitGraph, RunStatus

CONSTANTS Agents, Root,
          Keys,          \* operation keys
          Policies,      \* failure policies in use: fail, notify
          Generations,   \* generations of an edge in use
          Terms,         \* ticks from a request to its deadline
          MaxOpen,       \* MaxDependencyEdgesPerRun, below MaxActiveEdges
          MaxDepth,      \* MaxDurableDepth
          LivelockLimit, \* DependencyPollingLivelockLimit
          InboxLimit,    \* MaxAgentInboxMessages
          Moves,         \* bound: the statuses that agents are moved to
          MaxRecorded,   \* bound: edges ever recorded
          Horizon        \* bound: ticks

ASSUME AgentAssumption == Root \in Agents /\ IsFiniteSet(Agents)

ASSUME MoveAssumption == Moves \subseteq AgentStatuses

ASSUME RequestAssumption ==
  /\ Policies \subseteq {"fail", "notify"}
  /\ Generations \subseteq Nat \ {0} /\ Terms \subseteq Nat \ {0}

ASSUME LimitAssumption ==
  /\ MaxOpen \in Nat /\ MaxDepth \in Nat /\ LivelockLimit \in Nat /\ InboxLimit \in Nat
  /\ MaxRecorded \in Nat /\ Horizon \in Nat

VARIABLES run,   \* runs.status: running, or ended
          op,    \* agent_dependency_edge_operations: the edge of a key, 0 for none
          now,
          db, tx

vars == <<run, op, now, db, tx>>

Outcomes == {"satisfied", "failed", "cancelled", "expired"}

Edge == [src : Agents, tgt : Agents, policy : {"fail", "notify"}, gen : Nat, deadline : Nat,
         state : {"wait"} \cup Outcomes]

Receipt == [edge : Nat, outcome : Outcomes]

Message == [kind : {"dependency", "wake"}, edge : Nat, outcome : Outcomes,
            status : {"pending", "consumed"}]

\* agent_dependency_edges in the order they were created,
\* agent_dependency_wakes, agent_messages of each agent, and agent_nodes.
Tables == [edge : Seq(Edge), receipt : SUBSET Receipt, inbox : [Agents -> Seq(Message)],
           node : [Agents -> AgentStatuses]]

\* The edges a transaction has still to look at, and the outcome it gives
\* them: its own, or by_state when each edge is judged by itself.
Transaction == [kind : {"none", "created", "deadline"}, outcome : Outcomes \cup {"by_state"},
                todo : SUBSET Nat, view : Tables]

NoTables == [edge |-> <<>>, receipt |-> {}, inbox |-> [a \in Agents |-> <<>>],
             node |-> [a \in Agents |-> "ready"]]

Idle == [kind |-> "none", outcome |-> "by_state", todo |-> {}, view |-> NoTables]

TypeOK ==
  /\ run \in {"running"} \cup TerminalRun
  /\ op \in [Keys -> Nat]
  /\ now \in Nat
  /\ db \in Tables
  /\ tx \in Transaction

\* The agents of an approved proposal have been admitted.
Init ==
  /\ run = "running"
  /\ op = [k \in Keys |-> 0]
  /\ now = 0
  /\ db = NoTables
  /\ tx = Idle

-----------------------------------------------------------------------------
\* Each definition named Bug... is a seeded bug: the form that the definition
\* after it would have, had the code lost the check or the step in question.

Open(S) == {i \in DOMAIN S.edge : S.edge[i].state = "wait"}

\* loadOpenDependencyDAGTx
Waits(S) == {<<S.edge[i].src, S.edge[i].tgt>> : i \in Open(S)}

WokenEdges(S, a) == {i \in DOMAIN S.edge : S.edge[i].src = a /\ \E r \in S.receipt : r.edge = i}

\* insertBoundedAgentMessageTx
Room(S, a, n) ==
  Cardinality({j \in DOMAIN S.inbox[a] : S.inbox[a][j].status = "pending"}) + n <= InboxLimit

\* ValidateInsert over the open edges, all of them between agents.
BugOnlySelfWaits(S, s, t) == s # t

Admissible(S, s, t) ==
  Insertable(Agents, [a \in Agents |-> "agent"], Waits(S), s, t, MaxDepth, MaxOpen)

\* RecordDependencyWait.  A key that was used is answered from its edge or
\* refused, a source that was woken too often is refused; neither changes the
\* tables.
Record(k, s, t, p, g, term) ==
  /\ tx = Idle
  /\ run \notin TerminalRun
  /\ op[k] = 0
  /\ Cardinality(Open(db)) < MaxOpen
  /\ Admissible(db, s, t)
  /\ Cardinality(WokenEdges(db, s)) + 1 <= LivelockLimit
  /\ ~\E i \in Open(db) : db.edge[i].src = s /\ db.edge[i].tgt = t /\ db.edge[i].gen = g
  /\ Len(db.edge) < MaxRecorded
  /\ db' = [db EXCEPT !.edge = Append(@,
       [src |-> s, tgt |-> t, policy |-> p, gen |-> g, deadline |-> now + term,
        state |-> "wait"])]
  /\ op' = [op EXCEPT ![k] = Len(db.edge) + 1]
  /\ UNCHANGED <<run, now, tx>>

-----------------------------------------------------------------------------
\* settleDependencyEdgeTx and deliverDependencySourceMessagesTx.
Fails(S, i, outcome) ==
  S.node[S.edge[i].src] = "waiting" /\ outcome = "failed" /\ S.edge[i].policy = "fail"

Wakes(S, i, outcome) == S.node[S.edge[i].src] = "waiting" /\ ~Fails(S, i, outcome)

BugFailureIsSilent(S, i, outcome) ==
  IF Wakes(S, i, outcome) THEN "ready" ELSE S.node[S.edge[i].src]

StatusAfter(S, i, outcome) ==
  IF Fails(S, i, outcome) THEN "failed"
  ELSE IF Wakes(S, i, outcome) THEN "ready" ELSE S.node[S.edge[i].src]

Row(kind, i, outcome) == [kind |-> kind, edge |-> i, outcome |-> outcome, status |-> "pending"]

Told(S, i, outcome) ==
  IF Wakes(S, i, outcome)
  THEN <<Row("dependency", i, outcome), Row("wake", i, outcome)>>
  ELSE <<Row("dependency", i, outcome)>>

BugReceiptOnly(e, outcome) == IF outcome = "expired" THEN e ELSE [e EXCEPT !.state = outcome]

Resolved(e, outcome) == [e EXCEPT !.state = outcome]

Settled(S, i, outcome) ==
  LET a == S.edge[i].src IN
  [edge |-> [S.edge EXCEPT ![i] = Resolved(@, outcome)],
   receipt |-> S.receipt \cup {[edge |-> i, outcome |-> outcome]},
   inbox |-> [S.inbox EXCEPT ![a] = @ \o Told(S, i, outcome)],
   node |-> [S.node EXCEPT ![a] = StatusAfter(S, i, outcome)]]

HasReceipt(S, i) == \E r \in S.receipt : r.edge = i

\* dependencyReconcileOutcome: wait leaves the edge open.
Judged(S, i) ==
  LET target == S.node[S.edge[i].tgt] IN
  CASE S.edge[i].deadline <= now -> "expired"
    [] S.edge[i].deadline > now /\ run \in TerminalRun -> "cancelled"
    [] S.edge[i].deadline > now /\ run \notin TerminalRun ->
         CASE target = "completed" -> "satisfied"
           [] target = "failed"    -> "failed"
           [] target = "cancelled" -> "cancelled"
           [] OTHER                -> "wait"

OutcomeOf(i) == IF tx.outcome = "by_state" THEN Judged(tx.view, i) ELSE tx.outcome

Begin(kind, edges, outcome) ==
  /\ tx = Idle
  /\ edges # {}
  /\ tx' = [kind |-> kind, outcome |-> outcome, todo |-> edges, view |-> db]
  /\ UNCHANGED <<run, op, now, db>>

\* SettleDependencyTarget
SettleTarget(t, outcome) ==
  Begin("created", {i \in Open(db) : db.edge[i].tgt = t}, outcome)

\* CancelDependencySource
CancelSource(s) == Begin("created", {i \in Open(db) : db.edge[i].src = s}, "cancelled")

\* ExpireOverdueDependencyEdges, in the order of the deadlines.
ExpireOverdue == Begin("deadline", {i \in Open(db) : db.edge[i].deadline <= now}, "expired")

\* ReconcileDependencyEdges, by hand and after a run has ended.
Reconcile == Begin("created", Open(db), "by_state")

\* settleBatchDeliveryDependenciesTx: the declared dependents of a target
\* whose delivery was accepted.
AcceptDelivery(t, dependents) ==
  Begin("created", {i \in Open(db) : /\ db.edge[i].tgt = t /\ db.edge[i].src \in dependents
                                     /\ db.edge[i].gen = 1 /\ db.edge[i].policy = "fail"},
        "satisfied")

Precedes(j, i) ==
  \/ tx.kind = "created" /\ j < i
  \/ tx.kind = "deadline" /\ tx.view.edge[j].deadline < tx.view.edge[i].deadline

\* The next edge of the transaction: left open, found to have a receipt, or
\* settled.  A full inbox lets the transaction go no further.
SettleNext(i) ==
  /\ \A j \in tx.todo : ~Precedes(j, i)
  /\ \/ /\ OutcomeOf(i) = "wait" \/ HasReceipt(tx.view, i)
        /\ tx' = [tx EXCEPT !.todo = @ \ {i}]
     \/ /\ OutcomeOf(i) # "wait" /\ ~HasReceipt(tx.view, i)
        /\ Room(tx.view, tx.view.edge[i].src, Len(Told(tx.view, i, OutcomeOf(i))))
        /\ tx' = [tx EXCEPT !.todo = @ \ {i}, !.view = Settled(@, i, OutcomeOf(i))]
  /\ UNCHANGED <<run, op, now, db>>

Commit ==
  /\ tx.kind # "none" /\ tx.todo = {}
  /\ db' = tx.view /\ tx' = Idle
  /\ UNCHANGED <<run, op, now>>

\* A full inbox or history, an error of the database, or the end of the process.
Rollback ==
  /\ tx.kind # "none"
  /\ tx' = Idle
  /\ UNCHANGED <<run, op, now, db>>

-----------------------------------------------------------------------------
\* What the other parts of the control plane do to the agents meanwhile: the
\* supervisor, the specialists' attempts, pauses and admissions.
AgentMoves(a, to) ==
  /\ tx = Idle /\ run \notin TerminalRun
  /\ to \in Moves \cap AgentSuccessors[db.node[a]]
  /\ db' = [db EXCEPT !.node[a] = to]
  /\ UNCHANGED <<run, op, now, tx>>

\* A run that ends takes its agents with it.
LastStatus(a, to) ==
  IF db.node[a] \in AgentEnded THEN db.node[a]
  ELSE IF a = Root \/ to = "failed" THEN to ELSE "cancelled"

RunEnds(to) ==
  /\ tx = Idle /\ run \notin TerminalRun
  /\ run' = to
  /\ db' = [db EXCEPT !.node = [a \in Agents |-> LastStatus(a, to)]]
  /\ UNCHANGED <<op, now, tx>>

\* Notifications are read by a context, wake-ups only by hand.
Consume(a, kinds) ==
  /\ tx = Idle
  /\ \E j \in DOMAIN db.inbox[a] :
       db.inbox[a][j].status = "pending" /\ db.inbox[a][j].kind \in kinds
  /\ db' = [db EXCEPT !.inbox[a] = [j \in DOMAIN @ |->
       IF @[j].kind \in kinds THEN [@[j] EXCEPT !.status = "consumed"] ELSE @[j]]]
  /\ UNCHANGED <<run, op, now, tx>>

Tick ==
  /\ tx = Idle /\ now < Horizon
  /\ now' = now + 1
  /\ UNCHANGED <<run, op, db, tx>>

Next ==
  \/ \E k \in Keys, s, t \in Agents, p \in Policies, g \in Generations, term \in Terms :
       Record(k, s, t, p, g, term)
  \/ \E t \in Agents, outcome \in {"satisfied", "failed"} : SettleTarget(t, outcome)
  \/ \E s \in Agents : CancelSource(s)
  \/ ExpireOverdue \/ Reconcile
  \/ \E t \in Agents, dependents \in SUBSET Agents : AcceptDelivery(t, dependents)
  \/ \E i \in tx.todo : SettleNext(i)
  \/ Commit \/ Rollback
  \/ \E a \in Agents, to \in Moves : AgentMoves(a, to)
  \/ \E to \in TerminalRun : RunEnds(to)
  \/ \E a \in Agents : Consume(a, {"dependency"}) \/ Consume(a, {"dependency", "wake"})
  \/ Tick

Spec == Init /\ [][Next]_vars

-----------------------------------------------------------------------------
\* No agents wait for each other in a circle, whatever edges were recorded and
\* settled in which order (docs/architecture.md, Structured Dependency
\* Waiting).
NoCircle(S) == Acyclic(Agents, Waits(S))

WaitsAcyclic == NoCircle(db)

\* While edges are open, there is one whose target waits for no agent.
NoStandstill ==
  Open(db) # {} => \E i \in Open(db) : \A j \in Open(db) : db.edge[j].src # db.edge[i].tgt

\* No more edges are open than the limit, and no chain of them is longer:
\* RecordDependencyWait looks at the chains through the new edge only.
WithinLimits ==
  /\ Cardinality(Open(db)) <= MaxOpen
  /\ \A a \in Agents : Longest(Agents, Waits(db), a) <= MaxDepth

\* An edge that is open has not been reported; one that is settled has one
\* receipt and one notification, in the inbox of its source, and both of them
\* say how it ended.  No crash, replay or second settlement adds or loses one.
Notices(S, a, i) ==
  {j \in DOMAIN S.inbox[a] : S.inbox[a][j].kind = "dependency" /\ S.inbox[a][j].edge = i}

Reported(S, i) ==
  LET e == S.edge[i] IN
  /\ {r \in S.receipt : r.edge = i} =
       IF e.state = "wait" THEN {} ELSE {[edge |-> i, outcome |-> e.state]}
  /\ \A a \in Agents :
       IF a # e.src \/ e.state = "wait" THEN Notices(S, a, i) = {}
       ELSE \E j \in DOMAIN S.inbox[a] :
              Notices(S, a, i) = {j} /\ S.inbox[a][j].outcome = e.state

ToldOnce == \A i \in DOMAIN db.edge : Reported(db, i)

\* The source of an edge that is settled no longer waits: no wake-up is lost,
\* however many of its edges one transaction settles.
SourceIsWoken ==
  [][\A i \in DOMAIN db.edge :
       db.edge[i].state = "wait" /\ db'.edge[i].state # "wait"
         => db'.node[db.edge[i].src] # "waiting"]_vars
==============================================================================
