----------------------------- MODULE Specialists -----------------------------
(***************************************************************************)
(* The agent graph of one run: the root agent, its specialist children,    *)
(* their attempts under the run's execution lease, and the inboxes through *)
(* which root and children talk (store/coordinator*.go,                    *)
(* store/specialist_context.go, store/root_inbox_context.go).  Every       *)
(* method is one SQLite transaction and one action.                        *)
(*                                                                         *)
(* The supervisor's own turn is RunSupervisor's subject; here it is the    *)
(* part that the agents depend on: a checkpoint that starts, completes,    *)
(* cuts or fails a turn, by a worker that has adopted the lease.  A model  *)
(* call costs a child one token.  Calls that are refused or replayed       *)
(* change nothing and are no steps.                                        *)
(***************************************************************************)
EXTENDS Naturals, Sequences, FiniteSets, FiniteSetsExt, SequencesExt, RunStatus

CONSTANTS Root, Children,  \* the agents; at most MaxAgentChildren children
          MaxTurns,        \* RunBudget.MaxTurns
          Limits,          \* turn limits a child is admitted with
          TokenLimit,      \* a child's token limit, 0 for none
          Batch,           \* MaxRootInboxContextMessages, MaxSpecialistContextMessages
          MessageBatch,    \* MaxAgentMessageBatch
          InboxLimit,      \* MaxAgentInboxMessages
          HistoryLimit,    \* MaxAgentMessageHistory
          Addressed,       \* bound: the agents that SendAgentMessage addresses
          MaxBegun,        \* bound: supervisor attempts begun
          MaxGeneration    \* bound: leases granted

ASSUME AgentsAssumption ==
  /\ Root \notin Children /\ IsFiniteSet(Children)
  /\ Addressed \subseteq Children \cup {Root}

ASSUME LimitsAssumption ==
  /\ MaxTurns \in Nat \ {0} /\ Limits \subseteq Nat \ {0} /\ TokenLimit \in Nat
  /\ Batch \in Nat \ {0} /\ MessageBatch \in Nat \ {0}
  /\ InboxLimit \in Nat /\ HistoryLimit \in Nat
  /\ MaxBegun \in Nat /\ MaxGeneration \in Nat

VARIABLES run,         \* runs.status
          cp,          \* the supervisor's checkpoint and the attempts it has begun
          root,        \* the root's row of agent_nodes
          lease,       \* the run's execution lease
          child,       \* the children's rows, with their sessions
          attempt,     \* agent_attempts of each child, by turn
          inbox,       \* agent_messages of each agent, by sequence
          deliveries,  \* root_inbox_deliveries and specialist_context_deliveries
          snapshot     \* the latest row of agent_graph_snapshots

vars == <<run, cp, root, lease, child, attempt, inbox, deliveries, snapshot>>

Agents == Children \cup {Root}

NewChild == [status |-> "absent", held |-> FALSE, active |-> 0, turns |-> 0, limit |-> 0,
             tokens |-> 0, session |-> "none"]

ChildRow == [status : AgentStatuses \cup {"absent"}, held : BOOLEAN, active : Nat, turns : Nat,
             limit : Nat, tokens : Nat, session : {"none", "active", "archived"}]

AttemptRow == [status : {"running", "continued", "finished", "crashed", "interrupted"},
               gen : Nat, briefed : BOOLEAN, used : BOOLEAN]

MessageRow == [kind : {"result", "crash", "instruction", "wake", "other"},
               from : Agents, turn : Nat, status : {"pending", "consumed"}]

Delivery == [to : Agents, attempt : Nat, seq : Nat, ordinal : Nat,
             status : {"prepared", "committed", "superseded"}]

Checkpoint == [phase : {"idle", "turn_started", "waiting", "turn_failed",
                        "run_completed", "run_failed"},
               turn : Nat \ {0}, attempt : Nat, begun : Nat]

RootRow == [status : AgentStatuses, attempt : Nat, turns : Nat]

TypeOK ==
  /\ run \in RunStatuses
  /\ cp \in Checkpoint
  /\ root \in RootRow
  /\ lease \in [gen : Nat, live : BOOLEAN]
  /\ child \in [Children -> ChildRow]
  /\ attempt \in [Children -> Seq(AttemptRow)]
  /\ inbox \in [Agents -> Seq(MessageRow)]
  /\ deliveries \in SUBSET Delivery
  /\ \A a \in Agents : Len(inbox[a]) <= HistoryLimit

Unread(a) == {i \in DOMAIN inbox[a] : inbox[a][i].status = "pending"}

PreparedTo(a) == {d \in deliveries : d.to = a /\ d.status = "prepared"}

\* marshalAgentGraphSnapshotState: the nodes, the pending messages and the
\* prepared deliveries.
View == [root |-> root, child |-> child, unread |-> [a \in Agents |-> Unread(a)],
         prepared |-> [a \in Agents |-> PreparedTo(a)]]

\* A run that has just been started.
Init ==
  /\ run = "running"
  /\ cp = [phase |-> "idle", turn |-> 1, attempt |-> 0, begun |-> 0]
  /\ root = [status |-> "ready", attempt |-> 0, turns |-> 0]
  /\ lease = [gen |-> 0, live |-> FALSE]
  /\ child = [c \in Children |-> NewChild]
  /\ attempt = [c \in Children |-> <<>>]
  /\ inbox = [a \in Agents |-> <<>>]
  /\ deliveries = {}
  /\ snapshot = View

-----------------------------------------------------------------------------
\* Each definition named Bug... is a seeded bug: the form that the definition
\* after it would have, had the code lost the check or the step in question.

\* specialistReservationsTx and effectiveRootBudgetTx: what ended children
\* were given stays reserved, the root has the rest.
BugActiveReserved ==
  SumFunction([c \in Children |-> IF child[c].status \in AgentEnded THEN 0 ELSE child[c].limit])

Reserved == SumFunction([c \in Children |-> child[c].limit])

RootTurns == MaxTurns - Reserved

\* insertBoundedAgentMessageTx for n messages.
Room(a, n) ==
  /\ Cardinality(Unread(a)) + n <= InboxLimit
  /\ Len(inbox[a]) + n <= HistoryLimit

Message(kind, from, turn) == [kind |-> kind, from |-> from, turn |-> turn, status |-> "pending"]

\* What goes into an agent's context: results and crash notices of children
\* to the root, the root's instructions to a child.
Eligible(a) ==
  {i \in Unread(a) : inbox[a][i].kind \in IF a = Root THEN {"result", "crash"} ELSE {"instruction"}}

\* The rows that are inserted for an attempt: the first messages in sequence.
BugAnyBatch(a, n) ==
  {[to |-> a, attempt |-> n, seq |-> i, ordinal |-> Cardinality({j \in Eligible(a) : j >= i}),
    status |-> "prepared"] :
      i \in {i \in Eligible(a) : Cardinality({j \in Eligible(a) : j >= i}) <= Batch}}

NewRows(a, n) ==
  {[to |-> a, attempt |-> n, seq |-> i, ordinal |-> Cardinality({j \in Eligible(a) : j <= i}),
    status |-> "prepared"] :
      i \in {i \in Eligible(a) : Cardinality({j \in Eligible(a) : j <= i}) <= Batch}}

\* The keys of the two tables: a message and an ordinal once per attempt.
Storable(rows) ==
  \A r \in rows, d \in deliveries :
    d.to = r.to /\ d.attempt = r.attempt => d.seq # r.seq /\ d.ordinal # r.ordinal

Superseded(D, S) ==
  {IF d.to \in S /\ d.status = "prepared" THEN [d EXCEPT !.status = "superseded"] ELSE d : d \in D}

\* commitRootInboxContextTx, commitSpecialistContextTx: what was prepared for
\* the attempt, and still waits, is committed and its messages are consumed.
AttemptOf(a) == IF a = Root THEN cp.attempt ELSE child[a].active

Given(a) == {d \in PreparedTo(a) : d.attempt = AttemptOf(a)}

StillWaiting(a) == \A d \in Given(a) : d.seq \in Eligible(a)

Committed(a) ==
  {IF d \in Given(a) THEN [d EXCEPT !.status = "committed"] ELSE d : d \in deliveries}

Read(box, S) == [i \in DOMAIN box |-> IF i \in S THEN [box[i] EXCEPT !.status = "consumed"] ELSE box[i]]

BugLeftUnread(a) == inbox[a]

Delivered(a) == Read(inbox[a], {d.seq : d \in Given(a)})

\* An attempt's outcome, in the sequence of its child's attempts.
Ended(s, status) == [s EXCEPT ![Len(s)].status = status]

-----------------------------------------------------------------------------
\* syncSpecialistLifecycleTx: what a status of the run makes of a child.  A
\* child that waits for the run, and not for a message, goes on when the run
\* does and the root is idle.
Stops(to, r) == to \in {"paused", "waiting_approval"} /\ r.status \in {"ready", "running"}

Resumes(to, status, r) ==
  to = "running" /\ status = "ready" /\ r.status = "waiting" /\ r.held

BugSessionStays(to, r) ==
  [r EXCEPT !.status = IF to = "failed" THEN "failed" ELSE "cancelled",
            !.held = FALSE, !.active = 0]

Closed(to, r) ==
  [r EXCEPT !.status = IF to = "failed" THEN "failed" ELSE "cancelled",
            !.held = FALSE, !.active = 0, !.session = "archived"]

Projected(r, to, status) ==
  IF r.status \in AgentEnded \cup {"absent"} THEN r
  ELSE IF Stops(to, r) THEN [r EXCEPT !.status = "waiting", !.held = TRUE, !.active = 0]
  ELSE IF Resumes(to, status, r) THEN [r EXCEPT !.status = "ready", !.held = FALSE]
  ELSE IF to \in TerminalRun THEN Closed(to, r)
  ELSE r

\* interruptAgentAttemptTx for the children whose work is stopped.
BugNotInterrupted(to, status) == {}

Interrupted(to, status) ==
  {c \in Children : child[c].status = "running"
                      /\ Projected(child[c], to, status).status # "running"}

\* The agents that lose what was prepared for them.
BugChildrenKeepTheirs(to, status) == IF status = "running" THEN {} ELSE {Root}

Losing(to, status) == Interrupted(to, status) \cup IF status = "running" THEN {} ELSE {Root}

\* A change that the callers of syncRootAgentTx save the graph for.
BugRootChange == root' # root

NodeChange == root' # root \/ child' # child

\* syncRootAgentTx with the status the run is moved to, the root's status and
\* the new checkpoint.  D are the deliveries as the caller left them.
Sync(to, status, new, D) ==
  /\ AgentMay(root.status, status)
  /\ root.status = "running" /\ status = "running" => root.attempt = new.attempt
  /\ root.turns <= new.turn - 1
  /\ Reserved < MaxTurns
  /\ root' = [status |-> status, turns |-> new.turn - 1,
              attempt |-> IF status = "running" THEN new.attempt ELSE 0]
  /\ child' = [c \in Children |-> Projected(child[c], to, status)]
  /\ attempt' = [c \in Children |-> IF c \in Interrupted(to, status)
                                    THEN Ended(attempt[c], "interrupted") ELSE attempt[c]]
  /\ deliveries' = Superseded(D, Losing(to, status))
  /\ snapshot' = IF NodeChange THEN View' ELSE snapshot

-----------------------------------------------------------------------------
\* The lease, as RunLease grants it: an expired lease is replaced by one of
\* the next generation.
Acquire ==
  /\ run \notin TerminalRun
  /\ ~lease.live
  /\ lease.gen < MaxGeneration
  /\ lease' = [gen |-> lease.gen + 1, live |-> TRUE]
  /\ UNCHANGED <<run, cp, root, child, attempt, inbox, deliveries, snapshot>>

Expire ==
  /\ lease.live
  /\ lease' = [lease EXCEPT !.live = FALSE]
  /\ UNCHANGED <<run, cp, root, child, attempt, inbox, deliveries, snapshot>>

\* The supervisor's worker holds the lease and has adopted it.
Supervising == lease.live /\ run = "running" /\ cp.phase = "turn_started"

\* beginSupervisorTurn: the budget is what the children leave of it.
RootBegin ==
  LET new == [phase |-> "turn_started", turn |-> cp.turn, attempt |-> cp.begun + 1,
              begun |-> cp.begun + 1]
  IN
  /\ lease.live /\ run = "running"
  /\ cp.phase \in {"idle", "waiting", "turn_failed"}
  /\ cp.turn <= RootTurns
  /\ cp.begun < MaxBegun
  /\ cp' = new
  /\ UNCHANGED <<run, lease, inbox>>
  /\ Sync(run, "running", new, deliveries)

\* PrepareRootInboxContext; what is prepared already is replayed.
RootPrepareInbox ==
  LET rows == NewRows(Root, cp.attempt)
  IN
  /\ Supervising
  /\ root.status = "running" /\ root.attempt = cp.attempt
  /\ \A d \in PreparedTo(Root) : d.attempt # cp.attempt
  /\ rows # {}
  /\ Storable(rows)
  /\ deliveries' = Superseded(deliveries, {Root}) \cup rows
  /\ UNCHANGED <<run, cp, root, lease, child, attempt, inbox>>
  /\ snapshot' = View'

\* completeSupervisorTurn commits the inbox; the retained wait leaves the run
\* running for its background jobs.
RootComplete(action) ==
  LET new == [cp EXCEPT !.turn = @ + 1, !.attempt = 0,
                        !.phase = CASE action = "continue" -> "idle"
                                    [] action \in {"wait", "retain"} -> "waiting"
                                    [] action = "finish" -> "run_completed"]
  IN
  /\ Supervising
  /\ root.status = "running" /\ root.attempt = cp.attempt
  /\ run' = CASE action = "finish" -> "completed" [] action = "wait" -> "paused" [] OTHER -> run
  /\ cp' = new
  /\ StillWaiting(Root)
  /\ inbox' = [inbox EXCEPT ![Root] = Delivered(Root)]
  /\ UNCHANGED lease
  /\ Sync(run', CASE action = "continue" -> "ready" [] action = "finish" -> "completed"
                  [] OTHER -> "waiting",
          new, Committed(Root))

\* CompleteSupervisorToolBoundary: the turn ends and the next one begins in
\* one transaction, with a root that is ready in between.
RootBoundary ==
  /\ Supervising
  /\ root.status = "running" /\ root.attempt = cp.attempt
  /\ cp.turn < RootTurns
  /\ cp.begun < MaxBegun
  /\ cp' = [cp EXCEPT !.turn = @ + 1, !.attempt = cp.begun + 1, !.begun = @ + 1]
  /\ StillWaiting(Root)
  /\ inbox' = [inbox EXCEPT ![Root] = Delivered(Root)]
  /\ deliveries' = Committed(Root)
  /\ root' = [status |-> "running", attempt |-> cp.begun + 1, turns |-> cp.turn]
  /\ child' = [c \in Children |-> Projected(child[c], "running", "ready")]
  /\ UNCHANGED <<run, lease, attempt>>
  /\ snapshot' = View'

\* FailSupervisorTurn: a run that still runs is paused.
RootFail ==
  LET new == [cp EXCEPT !.phase = "turn_failed"]
  IN
  /\ lease.live /\ cp.phase = "turn_started"
  /\ run = "running" => root.status = "running" /\ root.attempt = cp.attempt
  /\ run' = IF run = "running" THEN "paused" ELSE run
  /\ cp' = new
  /\ UNCHANGED <<lease, inbox>>
  /\ Sync(run', IF run = "running" THEN "waiting" ELSE RootStatusFor(run, FALSE), new, deliveries)

\* EndFailedThreadTurn
EndFailedTurn ==
  LET new == [cp EXCEPT !.phase = "idle", !.turn = @ + 1, !.attempt = 0]
  IN
  /\ run \notin TerminalRun /\ ~lease.live
  /\ cp.phase \in {"turn_started", "turn_failed"}
  /\ cp' = new
  /\ UNCHANGED <<run, lease, inbox>>
  /\ Sync(run, "ready", new, deliveries)

\* FinalizeSupervisorRun
Finalize(to) ==
  LET new == [cp EXCEPT !.attempt = 0,
                        !.phase = IF to = "completed" THEN "run_completed" ELSE "run_failed"]
  IN
  /\ lease.live
  /\ to \in {"completed", "failed"} /\ to \in RunSuccessors[run]
  /\ cp.phase # "turn_started" /\ (to = "completed" => cp.phase = "idle")
  /\ run' = to
  /\ cp' = new
  /\ UNCHANGED <<lease, inbox>>
  /\ Sync(to, to, new, deliveries)

\* TransitionRun
Transition(to) ==
  /\ to \in RunSuccessors[run] \ {"waiting_approval"}
  /\ run' = to
  /\ UNCHANGED <<cp, lease, inbox>>
  /\ Sync(to, RootStatusFor(to, cp.phase = "turn_started"), cp, deliveries)

\* PrepareWebFetchAuthorization, by the worker of the checkpoint's turn, and
\* ResumeWebFetchAuthorizationRun: neither looks at the agents.
AskApproval ==
  /\ run = "running" /\ cp.phase \in {"turn_started", "turn_failed"}
  /\ run' = "waiting_approval"
  /\ UNCHANGED <<cp, root, lease, child, attempt, inbox, deliveries, snapshot>>

AnswerApproval ==
  /\ run = "waiting_approval" /\ ~lease.live /\ cp.phase = "turn_started"
  /\ run' = "running"
  /\ UNCHANGED <<cp, root, lease, child, attempt, inbox, deliveries, snapshot>>

-----------------------------------------------------------------------------
\* AdmitSpecialist: the root keeps a turn of its own.
Admit(c, limit) ==
  /\ run = "running" /\ root.status = "ready"
  /\ child[c].status = "absent"
  /\ RootTurns - root.turns - limit >= 1
  /\ child' = [child EXCEPT ![c] = [NewChild EXCEPT !.status = "ready", !.limit = limit,
                                                    !.session = "active"]]
  /\ UNCHANGED <<run, cp, root, lease, attempt, inbox, deliveries>>
  /\ snapshot' = View'

HasBudget(r) == r.turns < r.limit /\ (TokenLimit > 0 => r.tokens < TokenLimit)

\* BeginSpecialistAttempt
BeginAttempt(c) ==
  /\ lease.live /\ run = "running"
  /\ child[c].status = "ready" /\ root.status \notin AgentEnded
  /\ HasBudget(child[c])
  /\ attempt' = [attempt EXCEPT ![c] = Append(@,
                   [status |-> "running", gen |-> lease.gen, briefed |-> FALSE, used |-> FALSE])]
  /\ child' = [child EXCEPT ![c].status = "running", ![c].active = child[c].turns + 1,
                            ![c].turns = @ + 1]
  /\ UNCHANGED <<run, cp, root, lease, inbox, deliveries>>
  /\ snapshot' = View'

\* loadActiveAgentAttemptTx: the attempt is the child's, its own lease is
\* live, and the run is running.
BugOwnLeaseEnded(c) ==
  /\ child[c].status = "running" /\ child[c].active = Len(attempt[c])
  /\ attempt[c][Len(attempt[c])].status = "running"
  /\ lease.gen = attempt[c][Len(attempt[c])].gen
  /\ run = "running"

Active(c) ==
  /\ child[c].status = "running" /\ child[c].active = Len(attempt[c])
  /\ attempt[c][Len(attempt[c])].status = "running"
  /\ lease.live /\ lease.gen = attempt[c][Len(attempt[c])].gen
  /\ run = "running"

\* PrepareSpecialistContext: once per attempt, before its usage is recorded.
PrepareContext(c) ==
  LET t == child[c].active
      rows == NewRows(c, t)
  IN
  /\ Active(c) /\ root.status \notin AgentEnded
  /\ ~attempt[c][t].used /\ ~attempt[c][t].briefed
  /\ Storable(rows)
  /\ attempt' = [attempt EXCEPT ![c][t].briefed = TRUE]
  /\ deliveries' = Superseded(deliveries, {c}) \cup rows
  /\ UNCHANGED <<run, cp, root, lease, child, inbox>>
  /\ snapshot' = IF rows # {} \/ PreparedTo(c) # {} THEN View' ELSE snapshot

\* RecordSpecialistAttemptUsage
RecordUsage(c) ==
  LET t == child[c].active
  IN
  /\ Active(c) /\ ~attempt[c][t].used
  /\ attempt' = [attempt EXCEPT ![c][t].used = TRUE]
  /\ child' = [child EXCEPT ![c].tokens = @ + 1]
  /\ UNCHANGED <<run, cp, root, lease, inbox, deliveries>>
  /\ snapshot' = View'

\* ContinueSpecialistAttempt
Continue(c) ==
  /\ Active(c) /\ attempt[c][child[c].active].used
  /\ StillWaiting(c)
  /\ HasBudget(child[c])
  /\ attempt' = [attempt EXCEPT ![c] = Ended(@, "continued")]
  /\ child' = [child EXCEPT ![c].status = "ready", ![c].active = 0]
  /\ inbox' = [inbox EXCEPT ![c] = Delivered(c)]
  /\ deliveries' = Committed(c)
  /\ UNCHANGED <<run, cp, root, lease>>
  /\ snapshot' = View'

\* FinishSpecialist
Finish(c) ==
  /\ Active(c) /\ attempt[c][child[c].active].used
  /\ StillWaiting(c)
  /\ root.status \notin AgentEnded
  /\ Room(Root, 1) /\ child[c].session = "active"
  /\ attempt' = [attempt EXCEPT ![c] = Ended(@, "finished")]
  /\ child' = [child EXCEPT ![c].status = "completed", ![c].active = 0,
                            ![c].session = "archived"]
  /\ inbox' = [inbox EXCEPT ![c] = Delivered(c),
                            ![Root] = Append(@, Message("result", c, child[c].active))]
  /\ deliveries' = Committed(c)
  /\ UNCHANGED <<run, cp, root, lease>>
  /\ snapshot' = View'

\* crashAgentAttemptTx for the children of a sequence, one after the other:
\* the root is told of each, and a child without budget has failed.
Crashed(r) ==
  IF HasBudget(r) THEN [r EXCEPT !.status = "ready", !.active = 0]
  ELSE [r EXCEPT !.status = "failed", !.active = 0, !.session = "archived"]

BugLastNotice(s) == <<Message("crash", Last(s), child[Last(s)].active)>>

Notices(s) == [i \in DOMAIN s |-> Message("crash", s[i], child[s[i]].active)]

CrashAll(s) ==
  /\ root.status \notin AgentEnded
  /\ \A c \in ToSet(s) : /\ child[c].status = "running" /\ child[c].active = Len(attempt[c])
                         /\ child[c].session = "active"
  /\ Room(Root, Len(s))
  /\ inbox' = [inbox EXCEPT ![Root] = @ \o Notices(s)]
  /\ attempt' = [c \in Children |-> IF c \in ToSet(s) THEN Ended(attempt[c], "crashed") ELSE attempt[c]]
  /\ deliveries' = Superseded(deliveries, ToSet(s))
  /\ child' = [c \in Children |-> IF c \in ToSet(s) THEN Crashed(child[c]) ELSE child[c]]
  /\ UNCHANGED <<run, cp, root, lease>>
  /\ snapshot' = View'

\* CrashSpecialistAttempt
Crash(c) == Active(c) /\ CrashAll(<<c>>)

\* RecoverSpecialistAttempts: the attempts of earlier leases have crashed,
\* told in the order in which they were started.
Stale == {c \in Children : \E t \in DOMAIN attempt[c] :
            attempt[c][t].status = "running" /\ attempt[c][t].gen # lease.gen}

Recover ==
  /\ lease.live /\ run = "running"
  /\ Stale # {}
  /\ \E s \in SetToSeqs(Stale) : CrashAll(s)

-----------------------------------------------------------------------------
\* SendAgentMessage: an instruction of the root, or a message that no context
\* takes up.  An ended agent gets none.
Send(a, kind) ==
  /\ IF a = Root THEN kind = "other" /\ root.status \notin AgentEnded
     ELSE kind = "instruction" /\ child[a].status \notin AgentEnded \cup {"absent"}
                               /\ root.status \notin AgentEnded
  /\ Room(a, 1)
  /\ inbox' = [inbox EXCEPT ![a] = Append(@, Message(kind, Root, 0))]
  /\ UNCHANGED <<run, cp, root, lease, child, attempt, deliveries>>
  /\ snapshot' = View'

\* SendAgentMessage with the semantic of a wake.
Wake(c) ==
  /\ run = "running" /\ child[c].status = "waiting"
  /\ Room(c, 1)
  /\ inbox' = [inbox EXCEPT ![c] = Append(@, Message("wake", Root, 0))]
  /\ child' = [child EXCEPT ![c].status = "ready", ![c].held = FALSE]
  /\ UNCHANGED <<run, cp, root, lease, attempt, deliveries>>
  /\ snapshot' = View'

\* ConsumeAgentMessages: the inbox of a working agent is reserved for its
\* context.
Consume(a) ==
  LET first == {i \in Unread(a) : Cardinality({j \in Unread(a) : j <= i}) <= MessageBatch}
  IN
  /\ IF a = Root THEN root.status # "running" ELSE child[a].status # "running"
  /\ first # {}
  /\ inbox' = [inbox EXCEPT ![a] = Read(@, first)]
  /\ UNCHANGED <<run, cp, root, lease, child, attempt, deliveries>>
  /\ snapshot' = View'

-----------------------------------------------------------------------------
RunStep ==
  \/ Acquire \/ Expire
  \/ RootBegin \/ RootPrepareInbox \/ RootBoundary \/ RootFail
  \/ \E action \in {"continue", "wait", "finish", "retain"} : RootComplete(action)
  \/ EndFailedTurn
  \/ \E to \in {"completed", "failed"} : Finalize(to)
  \/ \E to \in RunStatuses : Transition(to)
  \/ AskApproval \/ AnswerApproval

ChildStep(c) ==
  \/ \E limit \in Limits : Admit(c, limit)
  \/ BeginAttempt(c) \/ PrepareContext(c) \/ RecordUsage(c)
  \/ Continue(c) \/ Finish(c) \/ Crash(c)
  \/ c \in Addressed /\ Wake(c)

Next ==
  \/ RunStep
  \/ \E c \in Children : ChildStep(c)
  \/ Recover
  \/ \E a \in Agents : Consume(a)
  \/ \E a \in Addressed, kind \in {"instruction", "other"} : Send(a, kind)

Spec == Init /\ [][Next]_vars

-----------------------------------------------------------------------------
\* What validateAgentAttemptProjectionTx wants of the graph it restores: the
\* counters of a child are those of its attempts, and it runs exactly when its
\* last attempt does.  No pause, takeover or crash leaves an attempt running
\* without its child, or a child without its attempt.
Matches(r, s) ==
  /\ r.turns = Len(s)
  /\ r.active = IF r.status = "running" THEN Len(s) ELSE 0
  /\ r.status \in {"running", "completed"} => Len(s) > 0
  /\ r.status = "absent" => s = <<>>
  /\ \A t \in DOMAIN s : s[t].status = "running" <=> r.status = "running" /\ t = Len(s)
  /\ r.tokens = Cardinality({t \in DOMAIN s : s[t].used})
  /\ r.status = "completed" => s[Len(s)].status = "finished"

AttemptsMatchNodes == \A c \in Children : Matches(child[c], attempt[c])

\* What validateRootInboxDeliveryProjectionTx and its counterpart for children
\* want: what is prepared is prepared for the attempt that an agent is working
\* on, of messages that still wait for it, numbered from one.
PreparedBelongs ==
  \A a \in Agents : \A d \in PreparedTo(a) :
    /\ IF a = Root THEN root.status = "running" /\ d.attempt = root.attempt
       ELSE child[a].status = "running" /\ d.attempt = child[a].active
    /\ d.seq \in Eligible(a)
    /\ d.ordinal = Cardinality({e \in PreparedTo(a) : e.seq <= d.seq})

\* An agent reads its messages in the order they were sent: none that it
\* could have been given is passed over for a later one.
OrderKept ==
  \A a \in Agents : \A d \in PreparedTo(a) : \A i \in Eligible(a) :
    i < d.seq => \E e \in PreparedTo(a) : e.seq = i

\* A message is read by one attempt only, and by one that succeeded: an attempt
\* that crashed, was interrupted or lost its lease has read nothing.
ReadOnce ==
  \A d \in deliveries : d.status = "committed" =>
    /\ inbox[d.to][d.seq].status = "consumed"
    /\ \A e \in deliveries : e.to = d.to /\ e.seq = d.seq /\ e.status = "committed" => e = d
    /\ d.to \in Children => attempt[d.to][d.attempt].status \in {"continued", "finished"}

\* The root is told once of each attempt that finished or crashed, whoever
\* recorded it, and of no other.
EveryEndIsReported ==
  \A c \in Children : \A t \in DOMAIN attempt[c] :
    Cardinality({i \in DOMAIN inbox[Root] :
        /\ inbox[Root][i].from = c /\ inbox[Root][i].turn = t
        /\ inbox[Root][i].kind = IF attempt[c][t].status = "finished" THEN "result" ELSE "crash"})
      = IF attempt[c][t].status \in {"finished", "crashed"} THEN 1 ELSE 0

\* While the run is paused no child works, nor could it be begun: neither a
\* message nor the end of a failed turn lets it go on.
PausedIsQuiet ==
  run = "paused" => \A c \in Children : child[c].status \notin {"ready", "running"}

\* When the run goes on and the root is idle, no child is left behind in the
\* pause or the approval that it was stopped for.
NoneLeftPaused ==
  run = "running" /\ root.status = "ready"
    => \A c \in Children : child[c].status = "waiting" => ~child[c].held

\* A child's session is open exactly as long as the child has not ended, and
\* no child outlives its run.
SessionFor(status) ==
  CASE status = "absent" -> "none" [] status \in AgentEnded -> "archived" [] OTHER -> "active"

ChildrenEndWithRun ==
  \A c \in Children :
    /\ child[c].session = SessionFor(child[c].status)
    /\ run \in TerminalRun => child[c].status \in AgentEnded \cup {"absent"}

\* The children follow their run into a pause, out of it and into its end,
\* through whichever of the callers of syncSpecialistLifecycleTx it moves.
ChildrenFollowRun == PausedIsQuiet /\ NoneLeftPaused /\ ChildrenEndWithRun

\* Root and children together take no more turns than the run has, the turn
\* that the root has started included, and no child more than its own limit.
BudgetHolds ==
  LET rootTurns == IF cp.phase = "turn_started" THEN cp.turn ELSE root.turns
  IN  /\ rootTurns + SumFunction([c \in Children |-> child[c].turns]) <= MaxTurns
      /\ \A c \in Children : child[c].turns <= child[c].limit

\* The latest snapshot is one of the present graph, as RestoreAgentGraph
\* requires: every transaction of the coordinator that changed a node, a pending
\* message or a prepared delivery has saved it.  Settlements of dependency waits,
\* which do not (store/dependency_wait.go), are not among the steps of this module.
SnapshotCurrent == snapshot = View

\* An attempt's outcome is recorded under the lease it was begun with, while
\* that is live; otherwise it ends with the run's status or by the recovery of
\* a later lease.
OutcomeUnderOwnLease ==
  [][\A c \in Children : \A t \in DOMAIN attempt[c] :
       attempt[c][t].status = "running" =>
         CASE attempt'[c][t].status \in {"continued", "finished"} ->
                lease.live /\ lease.gen = attempt[c][t].gen
           [] attempt'[c][t].status = "crashed" -> lease.live /\ run = "running"
           [] attempt'[c][t].status = "interrupted" -> run' # "running"
           [] OTHER -> TRUE]_vars

\* What docs/architecture.md says of the root's inbox: the messages of a
\* superseded batch are not consumed, and a started turn is replayed.  A turn
\* that was started before the run was paused can then prepare its messages
\* again when the run goes on.
StartedTurnCanPrepare ==
  run = "running" /\ cp.phase = "turn_started" /\ root.status = "running"
    /\ PreparedTo(Root) = {} => Storable(NewRows(Root, cp.attempt))
==============================================================================
