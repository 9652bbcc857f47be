--------------------------- MODULE RunSupervisor ----------------------------
(***************************************************************************)
(* The supervised execution of one run: the run's status, the checkpoint   *)
(* of its supervisor, its root agent, the queue of operator messages that  *)
(* steer it, and the workers that drive it under the run's execution       *)
(* lease.  The store methods of store/supervisor.go,                       *)
(* store/operator_steering*.go, store/midturn_steering.go,                 *)
(* store/supervisor_tool_boundary.go, store/thread_turn_failure.go,        *)
(* store/run_control.go and store/runs.go each run in one immediate SQLite *)
(* transaction and are one action here, whatever order their callers use.  *)
(*                                                                         *)
(* A worker is one operation under withRunExecutionLease.  RunLease has    *)
(* the lease in full; here it is a generation and whether it is live.      *)
(* Calls that are refused or replayed change nothing and are no steps.     *)
(***************************************************************************)
EXTENDS Naturals, FiniteSets, RunStatus

CONSTANTS Workers,        \* the operations that may execute the run
          Messages,       \* the operator messages; one stands for its content
          None,           \* no input, no message, no outcome, no writer
          Mission,        \* an input that is no queued message: the mission's goal
          Interactive,    \* RunConfig.Interactive
          MaxTurns,       \* RunBudget.MaxTurns
          MaxPending,     \* MaxPendingOperatorSteering
          MaxAttempts,    \* bound: no turn is started after this many attempts
          MaxGeneration   \* bound: no lease is granted beyond this generation

ASSUME SupervisorAssumption ==
  /\ None \notin Messages \cup Workers \cup {Mission, "continue", "wait", "finish"}
  /\ Mission \notin Messages
  /\ Interactive \in BOOLEAN
  /\ MaxTurns \in Nat /\ MaxPending \in Nat /\ MaxAttempts \in Nat /\ MaxGeneration \in Nat

VARIABLES run,         \* runs.status
          cp,          \* the row of run_supervisor_checkpoints
          root,        \* the root agent's status and active attempt
          model,       \* the latest model call of the started attempt
          lease,       \* the run's execution lease
          hold,        \* what each worker remembers: its lease and its turn
          msg,         \* the rows of operator_steering_messages, their claims
                       \* and the session rows that hold their content
          deliveries,  \* the prepared rows of operator_steering_deliveries
          attempts,    \* supervisor attempts begun so far, also their identity
          lastSeq,     \* the highest sequence in the queue
          outcome      \* requested and effective action of the turn just closed

vars == <<run, cp, root, model, lease, hold, msg, deliveries, attempts, lastSeq, outcome>>

Inputs == Messages \cup {Mission, None}
Phases == {"idle", "turn_started", "waiting", "turn_failed", "run_completed", "run_failed"}
MessageRow == [status : {"absent", "pending", "committed", "cancelled"},
               mode : {"next_turn", "steer"}, seq : Nat, target : Nat,
               claimed : BOOLEAN, rows : Nat, boundary : BOOLEAN]
Asked == {"continue", "wait", "finish"}
NoModel == [state |-> "none", seen |-> {}, gen |-> 0]
NoHold == [gen |-> 0, turn |-> 0, attempt |-> 0, seen |-> {}]
NoMessage == [status |-> "absent", mode |-> "next_turn", seq |-> 0, target |-> 0,
              claimed |-> FALSE, rows |-> 0, boundary |-> FALSE]
NoOutcome == [asked |-> None, took |-> None]

TypeOK ==
  /\ run \in RunStatuses
  /\ cp \in [phase : Phases, turn : Nat, attempt : Nat, gen : Nat, input : Inputs,
             repair : {"none", "pending", "exhausted"}]
  /\ root \in [status : AgentStatuses, attempt : Nat]
  /\ model \in [state : {"none", "started", "completed", "failed"},
                seen : SUBSET Messages, gen : Nat]
  /\ lease \in [gen : Nat, live : BOOLEAN]
  /\ hold \in [Workers -> [gen : Nat, turn : Nat, attempt : Nat, seen : SUBSET Messages]]
  /\ msg \in [Messages -> MessageRow]
  /\ deliveries \in SUBSET [msg : Messages, attempt : Nat, turn : Nat]
  /\ attempts \in Nat
  /\ lastSeq \in Nat
  /\ outcome \in [asked : Asked \cup {None}, took : Asked \cup {None}]

Init ==
  /\ run = "created"
  /\ cp = [phase |-> "idle", turn |-> 1, attempt |-> 0, gen |-> 0, input |-> None,
           repair |-> "none"]
  /\ root = [status |-> "ready", attempt |-> 0]
  /\ model = NoModel
  /\ lease = [gen |-> 0, live |-> FALSE]
  /\ hold = [w \in Workers |-> NoHold]
  /\ msg = [m \in Messages |-> NoMessage]
  /\ deliveries = {}
  /\ attempts = 0
  /\ lastSeq = 0
  /\ outcome = NoOutcome

-----------------------------------------------------------------------------
\* Each definition named Bug... is a seeded bug: the form that the definition
\* after it would have, had the code lost the check or the step in question.

\* requireRunExecutionLeaseTx
BugExpiredActs(w) == hold[w].gen # 0 /\ hold[w].gen = lease.gen

Fenced(w) == hold[w].gen # 0 /\ hold[w].gen = lease.gen /\ lease.live

\* requireSupervisorCheckpointLeaseTx: the checkpoint has adopted that lease.
OwnsCheckpoint(w) == Fenced(w) /\ cp.gen = hold[w].gen

\* The worker's turn is the checkpoint's.
SameTurn(w) ==
  /\ cp.phase = "turn_started"
  /\ hold[w].turn = cp.turn
  /\ hold[w].attempt = cp.attempt

\* requireActiveSupervisorAttemptTx
ActiveAttempt(w) == OwnsCheckpoint(w) /\ SameTurn(w) /\ run = "running"

Pending == {m \in Messages : msg[m].status = "pending"}

\* The corrections an operator ever addressed to an attempt.  Targets never
\* change and messages are never deleted, so that the set is the one it was
\* says the same as that its highest sequence (midturnSteeringSequenceTx) is.
Corrections(a) == {m \in Messages : msg[m].mode = "steer" /\ msg[m].target = a}

OpenCorrections == Pending \cap Corrections(cp.attempt)

\* The messages with a prepared delivery for the attempt; attempt_id is
\* unique in the table, so there is at most one.
PreparedFor(a) == {m \in Messages : \E d \in deliveries : d.msg = m /\ d.attempt = a}

Prepared == PreparedFor(cp.attempt)

Undelivered == {d \in deliveries : d.attempt # cp.attempt}

\* pendingOperatorSteeringAfterCurrentTx: what makes a stop premature.
BugNoSuccessors == {}

Successors == {m \in Pending : msg[m].mode = "next_turn"} \ Prepared

\* requireLatestSupervisorModelSteeringCurrentTx: the answer was computed
\* from every correction there is.
BugLateCorrectionIgnored == TRUE

SteeringCurrent == model.seen = Corrections(cp.attempt)

\* saveSupervisorOperatorInputTx: a row a tool boundary saved is used again.
BugSaveAgain(r) == r.rows + 1

SavedRows(r) == IF r.boundary THEN r.rows ELSE r.rows + 1

\* syncRootAgentTx: the whole transaction is refused when the root agent may
\* not take the status, or works on another attempt.
SyncRoot(status, attempt) ==
  /\ AgentMay(root.status, status)
  /\ root.status = "running" /\ status = "running" => root.attempt = attempt
  /\ root' = [status |-> status, attempt |-> IF status = "running" THEN attempt ELSE 0]

\* cancelOperatorSteeringTx: a run that fails or is cancelled takes its
\* queue with it.
BugCancelUnpreparedOnly ==
  /\ msg' = [m \in Messages |-> IF m \in Pending \ Prepared
                                THEN [msg[m] EXCEPT !.status = "cancelled"] ELSE msg[m]]
  /\ UNCHANGED deliveries

CancelQueue ==
  /\ msg' = [m \in Messages |-> IF m \in Pending
                                THEN [msg[m] EXCEPT !.status = "cancelled"] ELSE msg[m]]
  /\ deliveries' = {}

\* What every move of the run to a status does to the queue, and the guard
\* requireNoPendingOperatorSteeringTx on completion.
QueueFor(to) ==
  /\ to = "completed" => Pending = {}
  /\ IF to \in {"failed", "cancelled"} THEN CancelQueue ELSE UNCHANGED <<msg, deliveries>>

-----------------------------------------------------------------------------
\* Leases: AcquireRunExecutionLease, ReleaseRunExecutionLease, and what ends
\* a lease from outside.
BugSameGeneration == IF lease.gen = 0 THEN 1 ELSE lease.gen

NextGeneration == lease.gen + 1

Acquire(w) ==
  /\ hold[w].gen = 0
  /\ run \notin TerminalRun
  /\ ~lease.live
  /\ lease.gen < MaxGeneration
  /\ lease' = [gen |-> NextGeneration, live |-> TRUE]
  /\ hold' = [hold EXCEPT ![w] = [NoHold EXCEPT !.gen = NextGeneration]]
  /\ UNCHANGED <<run, cp, root, model, msg, deliveries, attempts, lastSeq, outcome>>

\* The operation returns, in whatever state the run is.
Release(w) ==
  /\ hold[w].gen # 0
  /\ lease' = IF hold[w].gen = lease.gen THEN [lease EXCEPT !.live = FALSE] ELSE lease
  /\ hold' = [hold EXCEPT ![w] = NoHold]
  /\ UNCHANGED <<run, cp, root, model, msg, deliveries, attempts, lastSeq, outcome>>

\* The process dies; its lease runs out by itself.
Crash(w) ==
  /\ hold[w].gen # 0
  /\ hold' = [hold EXCEPT ![w] = NoHold]
  /\ UNCHANGED <<run, cp, root, model, lease, msg, deliveries, attempts, lastSeq, outcome>>

Expire ==
  /\ lease.live
  /\ lease' = [lease EXCEPT !.live = FALSE]
  /\ UNCHANGED <<run, cp, root, model, hold, msg, deliveries, attempts, lastSeq, outcome>>

-----------------------------------------------------------------------------
\* beginSupervisorTurn.  Its callers offer the mission's goal or nothing, or
\* require that the turn be one of the queue, or of one message of it.
Calls == [offer : {None, Mission}, steering : {FALSE}, wanted : {None}]
           \cup [offer : {None}, steering : {TRUE}, wanted : Messages \cup {None}]

\* Input that is offered to a started turn must be the input it has.
BugOfferReplaces(call) == TRUE

OfferFits(call) == call.offer # None => cp.input \in {None, call.offer}

\* A started turn is resumed, by the worker that began it or another one.
Recover(w, call) ==
  /\ Fenced(w)
  /\ run = "running"
  /\ cp.phase = "turn_started"
  /\ call.steering => IF call.wanted = None THEN Prepared # {} ELSE call.wanted \in Prepared
  /\ OfferFits(call)
  /\ cp' = [cp EXCEPT !.gen = lease.gen,
                      !.input = IF call.offer = None THEN cp.input ELSE call.offer]
  /\ SyncRoot("running", cp.attempt)
  /\ hold' = [hold EXCEPT ![w] = [gen |-> lease.gen, turn |-> cp.turn,
                                  attempt |-> cp.attempt, seen |-> {}]]
  /\ UNCHANGED <<run, model, lease, msg, deliveries, attempts, lastSeq, outcome>>

\* The phases in which a turn is begun; a finalized run has none.
BeginPhases == {"idle", "waiting", "turn_failed"}

\* Messages selectOperatorSteeringForTurnTx may take once a failed attempt's
\* delivery is superseded: the preferred one, or the first of the queue.
Selectable(preferred) ==
  LET free == {m \in Pending : msg[m].mode = "next_turn"
                                 /\ m \notin {d.msg : d \in Undelivered}}
  IN IF preferred # None THEN free \cap {preferred}
     ELSE {m \in free : \A n \in free : msg[m].seq <= msg[n].seq}

\* A turn is begun.  After a failed turn its message comes first, and its
\* input is offered again unless the caller offers another one.
Begin(w, call) ==
  LET retry == cp.phase = "turn_failed"
      prior == IF retry /\ Prepared # {} THEN CHOOSE m \in Prepared : TRUE ELSE None
      failed == IF retry THEN cp.input ELSE None
      offered == IF call.offer = None THEN failed ELSE call.offer
      preferred == IF call.wanted = None THEN prior ELSE call.wanted
      selects == offered = None \/ (preferred # None /\ offered = failed)
      choice == IF selects THEN Selectable(preferred) ELSE {}
      open == IF retry THEN Undelivered ELSE deliveries
      attempt == attempts + 1
  IN
  /\ Fenced(w)
  /\ run = "running"
  /\ cp.phase \in BeginPhases
  /\ cp.turn <= MaxTurns
  /\ attempts < MaxAttempts
  /\ call.wanted # None => prior \in {None, call.wanted}
  /\ (selects /\ preferred # None) \/ call.steering => choice # {}
  /\ \E m \in IF choice = {} THEN {None} ELSE choice :
       /\ cp' = [phase |-> "turn_started", turn |-> cp.turn, attempt |-> attempt,
                 gen |-> lease.gen, input |-> IF m = None THEN offered ELSE m,
                 repair |-> "none"]
       /\ deliveries' = IF m = None THEN open
                        ELSE open \cup {[msg |-> m, attempt |-> attempt, turn |-> cp.turn]}
  /\ SyncRoot("running", attempt)
  /\ hold' = [hold EXCEPT ![w] = [gen |-> lease.gen, turn |-> cp.turn,
                                  attempt |-> attempt, seen |-> {}]]
  /\ attempts' = attempt
  /\ model' = NoModel
  /\ outcome' = NoOutcome
  /\ UNCHANGED <<run, lease, msg, lastSeq>>

\* BindSupervisorTurnInput: a turn begun with no input gets the mission's.
Bind(w) ==
  /\ OwnsCheckpoint(w)
  /\ SameTurn(w)
  /\ cp.input = None
  /\ cp' = [cp EXCEPT !.input = Mission]
  /\ UNCHANGED <<run, root, model, lease, hold, msg, deliveries, attempts, lastSeq, outcome>>

\* ClaimSupervisorMidTurnSteering: the corrections go into the next request.
Claim(w) ==
  /\ ActiveAttempt(w)
  /\ msg' = [m \in Messages |-> IF m \in OpenCorrections
                                THEN [msg[m] EXCEPT !.claimed = TRUE] ELSE msg[m]]
  /\ hold' = [hold EXCEPT ![w].seen = Corrections(cp.attempt)]
  /\ UNCHANGED <<run, cp, root, model, lease, deliveries, attempts, lastSeq, outcome>>

\* RecordSupervisorModelStarted: refused when a correction arrived since the
\* request was built.
ModelStart(w) ==
  /\ ActiveAttempt(w)
  /\ cp.repair # "exhausted"
  /\ hold[w].seen = Corrections(cp.attempt)
  /\ model' = [state |-> "started", seen |-> hold[w].seen, gen |-> lease.gen]
  /\ UNCHANGED <<run, cp, root, lease, hold, msg, deliveries, attempts, lastSeq, outcome>>

\* recordSupervisorModelTerminal, by the worker that made the call: a usable
\* answer, an error, or an answer that breaks the protocol, which is sent
\* back for repair once.
ModelDone(w, result) ==
  /\ ActiveAttempt(w)
  /\ model.state = "started" /\ model.gen = hold[w].gen
  /\ model' = [model EXCEPT !.state = IF result = "completed" THEN "completed" ELSE "failed"]
  /\ cp' = IF result # "invalid" THEN cp
           ELSE [cp EXCEPT !.repair = IF cp.repair = "none" THEN "pending" ELSE "exhausted"]
  /\ UNCHANGED <<run, root, lease, hold, msg, deliveries, attempts, lastSeq, outcome>>

\* PrepareWebFetchAuthorization: a tool of the turn needs the operator, and the
\* run waits for the answer.  Neither the lease nor the root agent is looked
\* at; the call must be one of the checkpoint's turn.
AskApproval(w) ==
  /\ hold[w].attempt # 0 /\ hold[w].turn = cp.turn
  /\ run = "running"
  /\ run' = "waiting_approval"
  /\ UNCHANGED <<cp, root, model, lease, hold, msg, deliveries, attempts, lastSeq, outcome>>

-----------------------------------------------------------------------------
\* The end of a turn.  What the history gets is the same in every case: the
\* turn's message once, and each open correction as a message of its own.
Delivered(r, status) ==
  [r EXCEPT !.status = status, !.rows = SavedRows(r),
            !.boundary = IF status = "pending" THEN TRUE ELSE @]

Corrected(r) == [r EXCEPT !.status = "committed", !.rows = @ + 1]

TurnSettled(status) ==
  [m \in Messages |-> CASE m \in Prepared        -> Delivered(msg[m], status)
                       [] m \in OpenCorrections -> Corrected(msg[m])
                       [] OTHER                 -> msg[m]]

\* commitOperatorSteeringDeliveryTx: the delivery still matches its message.
DeliveryIntact == \A m \in Prepared : msg[m].status = "pending" /\ m = cp.input

\* What completeSupervisorTurn requires of the turn it closes: the worker's
\* attempt, a current answer, and every open correction claimed.
Answered(w) ==
  /\ ActiveAttempt(w)
  /\ root = [status |-> "running", attempt |-> cp.attempt]
  /\ cp.repair # "exhausted"
  /\ model.state = "completed"
  /\ SteeringCurrent
  /\ cp.input # None
  /\ \A m \in OpenCorrections : msg[m].claimed

\* The requested action turned into the effective one: an interactive run is
\* not finished by the answer to a queued message, a stop is deferred while
\* there are successors, and the progress guard stops a run that only
\* continues (evaluateSupervisorProgressTx).
Effective(asked, stalled) ==
  LET answer == IF Interactive /\ Prepared # {} /\ asked = "finish" THEN "continue" ELSE asked
  IN IF answer = "continue" THEN IF asked = "continue" /\ stalled THEN "wait" ELSE "continue"
     ELSE IF Successors # {} THEN "continue" ELSE answer

PhaseFor(act) ==
  CASE act = "continue" -> "idle" [] act = "wait" -> "waiting" [] act = "finish" -> "run_completed"

OnlyLease(w) == [hold EXCEPT ![w] = [NoHold EXCEPT !.gen = hold[w].gen]]

\* CompleteSupervisorTurn.  A wait with background jobs of an interactive
\* message leaves the run running.
Complete(w, asked, stalled, jobs) ==
  LET act == Effective(asked, stalled)
      retain == jobs /\ Interactive /\ Prepared # {} /\ asked = "wait" /\ act = "wait"
  IN
  /\ Answered(w)
  /\ DeliveryIntact
  /\ act = "finish" => Pending \subseteq Prepared \cup OpenCorrections
  /\ msg' = TurnSettled("committed")
  /\ deliveries' = Undelivered
  /\ cp' = [cp EXCEPT !.phase = PhaseFor(act), !.turn = @ + 1, !.attempt = 0,
                      !.input = None, !.repair = "none"]
  /\ run' = CASE act = "finish" -> "completed"
              [] act = "wait" /\ ~retain -> "paused"
              [] OTHER -> run
  /\ SyncRoot(CASE act = "continue" -> "ready" [] act = "wait" -> "waiting"
                [] act = "finish" -> "completed", 0)
  /\ model' = NoModel
  /\ hold' = OnlyLease(w)
  /\ outcome' = [asked |-> asked, took |-> act]
  /\ UNCHANGED <<lease, attempts, lastSeq>>

\* prepareSupervisorToolBoundaryTx: there is budget for another turn.
BudgetLeft == cp.turn < MaxTurns

\* CompleteSupervisorToolBoundary: the turn is closed and the next one begun
\* for the same message, which stays pending although its row is saved.  The
\* tool rounds and the handoff the boundary needs may be there or not.
CompleteBoundary(w) ==
  /\ Answered(w)
  /\ DeliveryIntact
  /\ Prepared # {}
  /\ BudgetLeft
  /\ attempts < MaxAttempts
  /\ msg' = TurnSettled("pending")
  /\ attempts' = attempts + 1
  /\ deliveries' = Undelivered
       \cup {[msg |-> cp.input, attempt |-> attempts + 1, turn |-> cp.turn + 1]}
  /\ cp' = [cp EXCEPT !.turn = @ + 1, !.attempt = attempts + 1, !.repair = "none"]
  /\ root' = [status |-> "running", attempt |-> attempts + 1]
  /\ model' = NoModel
  /\ hold' = OnlyLease(w)
  /\ UNCHANGED <<run, lease, lastSeq, outcome>>

\* FailSupervisorTurn.  The delivery stays prepared; a running run is paused.
Fail(w) ==
  /\ OwnsCheckpoint(w)
  /\ SameTurn(w)
  /\ run = "running" => root = [status |-> "running", attempt |-> cp.attempt]
  /\ cp' = [cp EXCEPT !.phase = "turn_failed", !.repair = "none"]
  /\ IF run = "running" THEN run' = "paused" /\ SyncRoot("waiting", 0)
     ELSE UNCHANGED run /\ SyncRoot(RootStatusFor(run, FALSE), 0)
  /\ model' = NoModel
  /\ hold' = OnlyLease(w)
  /\ UNCHANGED <<lease, msg, deliveries, attempts, lastSeq, outcome>>

\* FinalizeSupervisorRun, between turns.
Finalize(w, to) ==
  /\ Fenced(w)
  /\ to \in {"completed", "failed"}
  /\ to \in RunSuccessors[run]
  /\ cp.phase # "turn_started"
  /\ to = "completed" => cp.phase = "idle"
  /\ run' = to
  /\ QueueFor(to)
  /\ cp' = [cp EXCEPT !.phase = IF to = "completed" THEN "run_completed" ELSE "run_failed",
                      !.gen = lease.gen, !.attempt = 0, !.input = None, !.repair = "none"]
  /\ SyncRoot(to, 0)
  /\ UNCHANGED <<model, lease, hold, attempts, lastSeq, outcome>>

-----------------------------------------------------------------------------
\* The operator and the product, none of whom holds the lease.

\* enqueueOperatorSteeringTx: for the next turn, or as a correction of the
\* turn an owner is executing.
QueueHasRoom == Cardinality(Pending) < MaxPending

Executing == run = "running" /\ cp.phase = "turn_started" /\ lease.live

NewMessage(mode) ==
  [NoMessage EXCEPT !.status = "pending", !.mode = mode, !.seq = lastSeq + 1,
                    !.target = IF mode = "steer" THEN cp.attempt ELSE 0]

Enqueue(m, mode) ==
  /\ msg[m].status = "absent"
  /\ run \notin TerminalRun
  /\ mode = "steer" => Executing
  /\ QueueHasRoom
  /\ msg' = [msg EXCEPT ![m] = NewMessage(mode)]
  /\ lastSeq' = lastSeq + 1
  /\ UNCHANGED <<run, cp, root, model, lease, hold, deliveries, attempts, outcome>>

\* CancelOperatorSteering: only what no attempt has taken up.
BugWithdrawPrepared(m) == msg[m].status = "pending" /\ ~msg[m].claimed

BugWithdrawClaimed(m) ==
  msg[m].status = "pending" /\ \A d \in deliveries : d.msg # m

Withdrawable(m) ==
  /\ msg[m].status = "pending"
  /\ ~msg[m].claimed
  /\ \A d \in deliveries : d.msg # m

CancelMessage(m) ==
  /\ run \in {"running", "paused"}
  /\ Withdrawable(m)
  /\ msg' = [msg EXCEPT ![m].status = "cancelled"]
  /\ UNCHANGED <<run, cp, root, model, lease, hold, deliveries, attempts, lastSeq, outcome>>

\* PromoteOperatorSteering: a queued message becomes a correction, which is a
\* message of its own; the slot of the first is released before.
Promote(m, r) ==
  /\ Executing
  /\ Withdrawable(m) /\ msg[m].mode = "next_turn"
  /\ msg[r].status = "absent"
  /\ msg' = [msg EXCEPT ![m].status = "cancelled", ![r] = NewMessage("steer")]
  /\ lastSeq' = lastSeq + 1
  /\ UNCHANGED <<run, cp, root, model, lease, hold, deliveries, attempts, outcome>>

RunMoves(to) ==
  /\ run' = to
  /\ SyncRoot(RootStatusFor(to, cp.phase = "turn_started"), cp.attempt)
  /\ UNCHANGED <<cp, model, lease, hold, attempts, lastSeq, outcome>>

\* TransitionRun: the run service moves the run along the table, even under
\* a worker that is in the middle of a turn.  Only tools make a run wait.
Transition(to) ==
  /\ to \in RunSuccessors[run] \ {"waiting_approval"}
  /\ QueueFor(to)
  /\ RunMoves(to)

\* TransitionRunWithLifecycleOperation: start, pause and resume under an
\* operation key need that no lease is live, and pause a quiet supervisor.
Start ==
  /\ run = "created" /\ ~lease.live
  /\ RunMoves("running")
  /\ UNCHANGED <<msg, deliveries>>

Pause ==
  /\ run = "running" /\ ~lease.live
  /\ root.status # "running" /\ cp.phase # "turn_started" /\ deliveries = {}
  /\ RunMoves("paused")
  /\ UNCHANGED <<msg, deliveries>>

Resume ==
  /\ run = "paused" /\ ~lease.live
  /\ RunMoves("running")
  /\ UNCHANGED <<msg, deliveries>>

\* ResumeWebFetchAuthorizationRun, and the resume of a risk escalation: the
\* operator has decided, and the run goes on with the turn that asked.
AnswerApproval ==
  /\ run = "waiting_approval" /\ ~lease.live
  /\ cp.phase = "turn_started"
  /\ run' = "running"
  /\ UNCHANGED <<cp, root, model, lease, hold, msg, deliveries, attempts, lastSeq, outcome>>

\* EndFailedThreadTurn: the product closes a turn whose execution failed and
\* keeps the run.  The handoff that records the failure may be there or not.
EndFailedThreadTurn ==
  /\ run \notin TerminalRun
  /\ ~lease.live
  /\ cp.phase \in {"turn_started", "turn_failed"}
  /\ Prepared # {}
  /\ DeliveryIntact
  /\ msg' = TurnSettled("committed")
  /\ deliveries' = Undelivered
  /\ cp' = [cp EXCEPT !.phase = "idle", !.turn = @ + 1, !.attempt = 0,
                      !.input = None, !.repair = "none"]
  /\ SyncRoot("ready", 0)
  /\ model' = NoModel
  /\ UNCHANGED <<run, lease, hold, attempts, lastSeq, outcome>>

-----------------------------------------------------------------------------
WorkerStep(w) ==
  \/ Acquire(w) \/ Release(w) \/ Crash(w)
  \/ \E call \in Calls : Recover(w, call) \/ Begin(w, call)
  \/ Bind(w) \/ Claim(w) \/ ModelStart(w)
  \/ \E result \in {"completed", "failed", "invalid"} : ModelDone(w, result)
  \/ \E asked \in Asked, stalled, jobs \in BOOLEAN : Complete(w, asked, stalled, jobs)
  \/ CompleteBoundary(w)
  \/ Fail(w) \/ AskApproval(w)
  \/ \E to \in {"completed", "failed"} : Finalize(w, to)

OperatorStep ==
  \/ \E m \in Messages, mode \in {"next_turn", "steer"} : Enqueue(m, mode)
  \/ \E m \in Messages : CancelMessage(m)
  \/ \E m, r \in Messages : Promote(m, r)
  \/ \E to \in RunStatuses : Transition(to)
  \/ Start \/ Pause \/ Resume \/ AnswerApproval
  \/ EndFailedThreadTurn

Next == Expire \/ OperatorStep \/ \E w \in Workers : WorkerStep(w)

Spec == Init /\ [][Next]_vars

-----------------------------------------------------------------------------
\* A prepared delivery always belongs to the turn the checkpoint names: its
\* attempt, its number and its input, with the message still waiting.  So a
\* delivery is never orphaned by a failure, a takeover, a tool boundary, a
\* pause or a cancellation, and an input that came from the queue always has
\* its delivery while the run can go on.
DeliveryBinding ==
  /\ \A d \in deliveries :
       /\ d = [msg |-> cp.input, attempt |-> cp.attempt, turn |-> cp.turn]
       /\ cp.phase \in {"turn_started", "turn_failed"}
       /\ msg[d.msg].status = "pending" /\ msg[d.msg].mode = "next_turn"
       /\ run \notin TerminalRun
  /\ cp.input \in Messages /\ run \notin TerminalRun => deliveries # {}

\* A committed message is in the session history exactly once, however often
\* its turn failed, was taken over or was cut at a tool boundary; any other
\* message is not, unless a boundary saved it.
ExactlyOnce ==
  \A m \in Messages :
    msg[m].rows = IF msg[m].status = "committed" \/ msg[m].boundary THEN 1 ELSE 0

\* The root agent works exactly when a turn is started in a run that is
\* running or has stopped in mid-turn for an approval, and then on the
\* checkpoint's attempt.
RootBound ==
  /\ root.status = "running"
       <=> run \in {"running", "waiting_approval"} /\ cp.phase = "turn_started"
  /\ root.attempt = IF root.status = "running" THEN cp.attempt ELSE 0

\* No operator message waits for a run that has ended.
TerminalClosed == run \in TerminalRun => Pending = {} /\ deliveries = {}

\* What the worker that owns the checkpoint remembers of its turn is what the
\* store has: takeovers and outside closures always cost it the lease first.
OwnerViewCurrent ==
  \A w \in Workers : OwnsCheckpoint(w) /\ hold[w].attempt # 0 => SameTurn(w)

\* The parts above hold each other up: a delivery that is bound to the
\* checkpoint is not lost when a turn ends, so its message is not left behind
\* by a run that ends.  Only a queued message, never a correction, has its row
\* saved at a tool boundary, so what a closed turn adds to the history is new
\* to it.  Inductive.
SupervisorInv ==
  /\ TypeOK /\ DeliveryBinding /\ ExactlyOnce /\ TerminalClosed /\ RootBound
  /\ \A m \in Messages :
       msg[m].boundary \/ msg[m].status = "absent" => msg[m].mode = "next_turn"
  /\ \A m \in Messages : msg[m].boundary => msg[m].status # "absent"

\* A correction that went into a model request is not withdrawn afterwards:
\* only the end of the run cancels it.
ClaimsAreKept ==
  \A m \in Messages : msg[m].claimed /\ msg[m].status = "cancelled" => run \in TerminalRun

\* No turn is started beyond the turn budget, tool boundaries included.
TurnBudget == cp.phase \in {"turn_started", "turn_failed"} => cp.turn <= MaxTurns

\* The queue never holds more than its limit, promotions included.
QueueBounded == Cardinality(Pending) <= MaxPending

\* When a turn is closed no correction addressed to it stays behind, and
\* when an answer closed it, the answer took each of them into account: a
\* correction that arrives while the answer is computed makes it stale.
CorrectionsAnswered ==
  [][cp'.turn > cp.turn =>
       \A m \in Corrections(cp.attempt) :
         /\ msg'[m].status \in {"committed", "cancelled"}
         /\ lease.live => m \in model.seen]_vars

\* A stop the model asked for takes effect only when nothing is queued for a
\* next turn.
StopIsDeferred ==
  [][outcome' # outcome /\ {outcome'.asked, outcome'.took} \subseteq {"wait", "finish"}
       => \A m \in Pending' : msg'[m].mode = "steer"]_vars

\* A started turn is resumed by whoever takes over: it keeps its attempt, and
\* its input once it has one, until it is closed or has failed.
TakeoverResumes ==
  [][cp.phase = "turn_started" /\ cp'.phase = "turn_started" /\ cp'.turn = cp.turn
       => cp'.attempt = cp.attempt /\ cp.input \in {None, cp'.input}]_vars

\* The messages are delivered as MessageDelivery promises.
D == INSTANCE MessageDelivery
       WITH status <- [m \in Messages |-> msg[m].status],
            rows <- [m \in Messages |-> msg[m].rows]

ImplementsDelivery == D!Spec

\* The coarse lease of this module is still the fence that RunLease is, and
\* every adoption of it by the checkpoint is one the fence allows.
Writer == IF \E w \in Workers : Fenced(w) THEN CHOOSE w \in Workers : Fenced(w) ELSE None

F == INSTANCE Fence WITH Nobody <- None, writer <- Writer,
                         epoch <- lease.gen, stamp <- cp.gen

ImplementsFence == F!Spec

\* What RestoreAgentGraph asserts of the agents it reads ("root agent lifecycle
\* does not match its Run and Supervisor checkpoint"): the root agent has the
\* status and the attempt that run and checkpoint give it.  The end of a failed
\* turn of a paused run, a wait that leaves background jobs running, and a
\* tool that waits for an approval, give it another.
RestoreFindsRoot ==
  /\ root.status = RootStatusFor(run, cp.phase = "turn_started")
  /\ root.attempt = IF root.status = "running" THEN cp.attempt ELSE 0
=============================================================================
