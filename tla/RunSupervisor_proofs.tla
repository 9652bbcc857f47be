------------------------ MODULE RunSupervisor_proofs ------------------------
(***************************************************************************)
(* Proofs about RunSupervisor, for any workers, messages and budgets:      *)
(* SupervisorInv is inductive, and from it follow the delivery properties, *)
(* the refinement of MessageDelivery and, in the second part, what workers *)
(* and operators may rely on.                                              *)
(***************************************************************************)
EXTENDS RunSupervisor, FiniteSetTheorems, TLAPS

-----------------------------------------------------------------------------
\* Types of the operators that the actions assign from.

\* rootAgentProjectionForRunTx yields a status of an agent.
LEMMA RootStatusType ==
  ASSUME NEW r \in RunStatuses, NEW t \in BOOLEAN
  PROVE  RootStatusFor(r, t) \in AgentStatuses
BY DEF RootStatusFor, RunStatuses, AgentStatuses

\* The root agent is projected as running for a running run in a started
\* turn, and for nothing else.
LEMMA RootRunning ==
  ASSUME NEW r \in RunStatuses, NEW t \in BOOLEAN
  PROVE  RootStatusFor(r, t) = "running" <=> r = "running" /\ t
BY DEF RootStatusFor, RunStatuses

\* The effective action is one of those a model may ask for.
LEMMA EffectiveType ==
  ASSUME NEW asked \in Asked, NEW stalled \in BOOLEAN
  PROVE  Effective(asked, stalled) \in Asked
BY DEF Effective, Asked

\* A row whose status, line count and boundary mark are replaced is a row.
LEMMA RowUpdate ==
  ASSUME NEW r \in MessageRow, NEW n \in Nat, NEW b \in BOOLEAN,
         NEW status \in {"pending", "committed"}
  PROVE  /\ [r EXCEPT !.status = status, !.rows = n] \in MessageRow
         /\ [r EXCEPT !.status = status, !.rows = n, !.boundary = b] \in MessageRow
BY DEF MessageRow

\* What a closed turn makes of a message's row: a row of the table, with the
\* message and its mode kept, and one more line of the history unless a tool
\* boundary saved it.
LEMMA DeliveredRow ==
  ASSUME NEW r \in MessageRow, NEW status \in {"pending", "committed"}
  PROVE  /\ Delivered(r, status) \in MessageRow
         /\ Delivered(r, status).status = status
         /\ Delivered(r, status).mode = r.mode
         /\ Delivered(r, status).rows = IF r.boundary THEN r.rows ELSE r.rows + 1
         /\ Delivered(r, status).boundary <=> r.boundary \/ status = "pending"
<1> DEFINE n == SavedRows(r)
           b == IF status = "pending" THEN TRUE ELSE r.boundary
<1>1. n \in Nat
  BY DEF MessageRow, SavedRows
<1>2. b \in BOOLEAN
  BY DEF MessageRow
<1>3. Delivered(r, status) = [r EXCEPT !.status = status, !.rows = n, !.boundary = b]
  BY DEF Delivered
<1>4. n = IF r.boundary THEN r.rows ELSE r.rows + 1
  BY DEF SavedRows
<1>5. b <=> r.boundary \/ status = "pending"
  BY DEF MessageRow
<1> HIDE DEF n, b
<1>6. Delivered(r, status) \in MessageRow
  BY <1>1, <1>2, <1>3 DEF MessageRow
<1>7. /\ Delivered(r, status).status = status
      /\ Delivered(r, status).mode = r.mode
      /\ Delivered(r, status).rows = n
  BY <1>3 DEF MessageRow
<1>8. Delivered(r, status).boundary = b
  BY <1>3 DEF MessageRow
<1> QED BY <1>4, <1>5, <1>6, <1>7, <1>8

\* A correction that a turn answered has one more line of the history.
LEMMA CorrectedRow ==
  ASSUME NEW r \in MessageRow
  PROVE  /\ Corrected(r) \in MessageRow
         /\ Corrected(r).status = "committed"
         /\ Corrected(r).mode = r.mode
         /\ Corrected(r).rows = r.rows + 1
         /\ Corrected(r).boundary = r.boundary
<1> DEFINE n == r.rows + 1
<1>1. n \in Nat
  BY DEF MessageRow
<1>2. Corrected(r) = [r EXCEPT !.status = "committed", !.rows = n]
  BY DEF Corrected
<1> HIDE DEF n
<1>3. Corrected(r) \in MessageRow
  BY <1>1, <1>2, RowUpdate
<1>4. /\ Corrected(r).status = "committed"
      /\ Corrected(r).mode = r.mode
      /\ Corrected(r).rows = n
  BY <1>2 DEF MessageRow
<1>5. Corrected(r).boundary = r.boundary
  BY <1>2 DEF MessageRow
<1> QED BY <1>3, <1>4, <1>5 DEF n

\* A closed turn leaves every message a row of the table.
LEMMA TurnSettledType ==
  ASSUME TypeOK, NEW status \in {"pending", "committed"}
  PROVE  TurnSettled(status) \in [Messages -> MessageRow]
<1> SUFFICES ASSUME NEW m \in Messages PROVE TurnSettled(status)[m] \in MessageRow
  BY DEF TurnSettled
<1>1. msg[m] \in MessageRow
  BY DEF TypeOK
<1>2. TurnSettled(status)[m] \in {Delivered(msg[m], status), Corrected(msg[m]), msg[m]}
  BY DEF TurnSettled
<1> QED BY <1>1, <1>2, DeliveredRow, CorrectedRow

\* So does the cancellation of the queue.
LEMMA CancelQueueType ==
  ASSUME TypeOK, CancelQueue
  PROVE  msg' \in [Messages -> MessageRow] /\ deliveries' = {}
BY DEF TypeOK, CancelQueue, MessageRow

\* The initial state.
LEMMA InitInv == Init => SupervisorInv
BY SupervisorAssumption
DEF Init, SupervisorInv, TypeOK, DeliveryBinding, ExactlyOnce, TerminalClosed, RootBound,
    Pending, NoModel, NoHold, NoMessage, NoOutcome, RunStatuses, TerminalRun, AgentStatuses,
    Phases, Inputs, MessageRow

-----------------------------------------------------------------------------
\* Type correctness of every action.

\* The lease and what the workers hold.
LEMMA LeaseStepType ==
  ASSUME TypeOK, NEW w \in Workers,
         Acquire(w) \/ Release(w) \/ Crash(w) \/ Expire
  PROVE  TypeOK'
<1> USE DEF TypeOK, NoHold
<1>1. CASE Acquire(w)
  BY <1>1 DEF Acquire, NextGeneration
<1>2. CASE Release(w)
  BY <1>2 DEF Release
<1>3. CASE Crash(w)
  BY <1>3 DEF Crash
<1>4. CASE Expire
  BY <1>4 DEF Expire
<1> QED BY <1>1, <1>2, <1>3, <1>4

\* syncRootAgentTx leaves the root agent a status of an agent.
LEMMA SyncRootType ==
  ASSUME NEW status \in AgentStatuses, NEW a \in Nat, SyncRoot(status, a)
  PROVE  /\ root' = [status |-> status, attempt |-> IF status = "running" THEN a ELSE 0]
         /\ root' \in [status : AgentStatuses, attempt : Nat]
BY DEF SyncRoot

\* What a turn is begun with is no message, a pending one of the queue.
LEMMA SelectableFacts ==
  ASSUME NEW preferred, NEW m \in Selectable(preferred)
  PROVE  m \in Messages /\ msg[m].status = "pending" /\ msg[m].mode = "next_turn"
BY DEF Selectable, Pending

\* A turn that is begun or resumed.
LEMMA BeginType ==
  ASSUME TypeOK, NEW w \in Workers, NEW call \in Calls, Recover(w, call) \/ Begin(w, call)
  PROVE  TypeOK'
<1>1. call.offer \in {None, Mission}
  BY DEF Calls
<1>2. "running" \in AgentStatuses
  BY DEF AgentStatuses
<1>3. CASE Recover(w, call)
  <2>1. root' \in [status : AgentStatuses, attempt : Nat]
    BY <1>2, <1>3, SyncRootType DEF Recover, TypeOK
  <2>2. cp' \in [phase : Phases, turn : Nat, attempt : Nat, gen : Nat, input : Inputs,
                 repair : {"none", "pending", "exhausted"}]
    BY <1>1, <1>3 DEF Recover, TypeOK, Inputs
  <2>3. hold' \in [Workers -> [gen : Nat, turn : Nat, attempt : Nat, seen : SUBSET Messages]]
    BY <1>3 DEF Recover, TypeOK
  <2> QED BY <1>3, <2>1, <2>2, <2>3 DEF Recover, TypeOK
<1>4. CASE Begin(w, call)
  <2>1. /\ root' \in [status : AgentStatuses, attempt : Nat]
        /\ attempts' = attempts + 1
    BY <1>2, <1>4, SyncRootType DEF Begin, TypeOK
  <2>2. PICK m \in Messages \cup {None} :
          /\ \E offered \in Inputs :
               cp' = [phase |-> "turn_started", turn |-> cp.turn, attempt |-> attempts + 1,
                      gen |-> lease.gen, input |-> IF m = None THEN offered ELSE m,
                      repair |-> "none"]
          /\ deliveries' \subseteq deliveries \cup {[msg |-> m, attempt |-> attempts + 1, turn |-> cp.turn]}
          /\ m = None => deliveries' \subseteq deliveries
    BY <1>1, <1>4, SelectableFacts DEF Begin, Undelivered, TypeOK, Inputs
  <2>3. cp' \in [phase : Phases, turn : Nat, attempt : Nat, gen : Nat, input : Inputs,
                 repair : {"none", "pending", "exhausted"}]
    BY <2>2 DEF TypeOK, Phases, Inputs
  <2>4. deliveries' \in SUBSET [msg : Messages, attempt : Nat, turn : Nat]
    BY <2>2 DEF TypeOK
  <2>5. hold' \in [Workers -> [gen : Nat, turn : Nat, attempt : Nat, seen : SUBSET Messages]]
    BY <1>4 DEF Begin, TypeOK
  <2> QED BY <1>4, <2>1, <2>3, <2>4, <2>5 DEF Begin, TypeOK, NoModel, NoOutcome
<1> QED BY <1>3, <1>4

\* The steps inside a turn.
LEMMA TurnStepType ==
  ASSUME TypeOK, NEW w \in Workers, NEW result,
         Bind(w) \/ Claim(w) \/ ModelStart(w) \/ ModelDone(w, result)
  PROVE  TypeOK'
<1>1. CASE Bind(w)
  BY <1>1 DEF Bind, TypeOK, Inputs
<1>2. CASE Claim(w)
  <2>1. \A r \in MessageRow : [r EXCEPT !.claimed = TRUE] \in MessageRow
    BY DEF MessageRow
  <2>3. msg' \in [Messages -> MessageRow]
    BY <1>2, <2>1 DEF Claim, TypeOK
  <2>2. hold' \in [Workers -> [gen : Nat, turn : Nat, attempt : Nat, seen : SUBSET Messages]]
    BY <1>2 DEF Claim, TypeOK, Corrections
  <2> QED BY <1>2, <2>2, <2>3 DEF Claim, TypeOK
<1>3. CASE ModelStart(w)
  <2>1. model' \in [state : {"none", "started", "completed", "failed"},
                    seen : SUBSET Messages, gen : Nat]
    BY <1>3 DEF ModelStart, TypeOK
  <2> QED BY <1>3, <2>1 DEF ModelStart, TypeOK
<1>4. CASE ModelDone(w, result)
  <2>1. cp' \in [phase : Phases, turn : Nat, attempt : Nat, gen : Nat, input : Inputs,
                 repair : {"none", "pending", "exhausted"}]
    BY <1>4 DEF ModelDone, TypeOK
  <2>2. model' \in [state : {"none", "started", "completed", "failed"},
                    seen : SUBSET Messages, gen : Nat]
    BY <1>4 DEF ModelDone, TypeOK
  <2> QED BY <1>4, <2>1, <2>2 DEF ModelDone, TypeOK
<1> QED BY <1>1, <1>2, <1>3, <1>4

\* What a worker keeps after its turn is closed.
LEMMA OnlyLeaseType ==
  ASSUME TypeOK, NEW w \in Workers
  PROVE  OnlyLease(w) \in
           [Workers -> [gen : Nat, turn : Nat, attempt : Nat, seen : SUBSET Messages]]
BY DEF OnlyLease, TypeOK, NoHold

\* What closing a turn leaves of the deliveries.
LEMMA UndeliveredType ==
  ASSUME TypeOK
  PROVE  Undelivered \in SUBSET [msg : Messages, attempt : Nat, turn : Nat]
BY DEF Undelivered, TypeOK

\* A checkpoint whose turn is over is a checkpoint.
LEMMA CheckpointType ==
  ASSUME TypeOK, NEW phase \in Phases, NEW turn \in Nat, NEW a \in Nat, NEW gen \in Nat
  PROVE  /\ [cp EXCEPT !.phase = phase, !.turn = turn, !.attempt = a, !.input = None,
                      !.repair = "none"]
              \in [phase : Phases, turn : Nat, attempt : Nat, gen : Nat, input : Inputs,
                   repair : {"none", "pending", "exhausted"}]
         /\ [cp EXCEPT !.turn = turn, !.attempt = a, !.repair = "none"]
              \in [phase : Phases, turn : Nat, attempt : Nat, gen : Nat, input : Inputs,
                   repair : {"none", "pending", "exhausted"}]
         /\ [cp EXCEPT !.phase = phase, !.gen = gen, !.attempt = a, !.input = None,
                      !.repair = "none"]
              \in [phase : Phases, turn : Nat, attempt : Nat, gen : Nat, input : Inputs,
                   repair : {"none", "pending", "exhausted"}]
BY DEF TypeOK, Inputs

\* Closing a turn with an answer.
LEMMA CompleteType ==
  ASSUME TypeOK, NEW w \in Workers, NEW asked \in Asked,
         NEW stalled \in BOOLEAN, NEW jobs \in BOOLEAN, Complete(w, asked, stalled, jobs)
  PROVE  TypeOK'
<1> DEFINE act == Effective(asked, stalled)
           to == CASE act = "continue" -> "ready" [] act = "wait" -> "waiting"
                   [] act = "finish" -> "completed"
<1>1. act \in Asked
  BY EffectiveType
<1>2. /\ msg' = TurnSettled("committed") /\ deliveries' = Undelivered
      /\ hold' = OnlyLease(w) /\ model' = NoModel
      /\ outcome' = [asked |-> asked, took |-> act]
      /\ SyncRoot(to, 0)
      /\ cp' = [cp EXCEPT !.phase = PhaseFor(act), !.turn = @ + 1, !.attempt = 0,
                          !.input = None, !.repair = "none"]
      /\ run' \in {"completed", "paused", run}
      /\ UNCHANGED <<lease, attempts, lastSeq>>
  BY DEF Complete
<1>3. to \in AgentStatuses
  BY <1>1 DEF Asked, AgentStatuses
<1>4. PhaseFor(act) \in Phases
  BY <1>1 DEF PhaseFor, Asked, Phases
<1> HIDE DEF act, to
<1>5. cp' \in [phase : Phases, turn : Nat, attempt : Nat, gen : Nat, input : Inputs,
               repair : {"none", "pending", "exhausted"}]
  <2>1. cp.turn + 1 \in Nat /\ 0 \in Nat
    BY DEF TypeOK
  <2> QED BY <1>2, <1>4, <2>1, CheckpointType
<1>6. root' \in [status : AgentStatuses, attempt : Nat]
  BY <1>2, <1>3, SyncRootType
<1>7. run' \in RunStatuses
  BY <1>2 DEF TypeOK, RunStatuses
<1>8. outcome' \in [asked : Asked \cup {None}, took : Asked \cup {None}]
  BY <1>1, <1>2
<1>9. model' \in [state : {"none", "started", "completed", "failed"},
                  seen : SUBSET Messages, gen : Nat]
  BY <1>2 DEF NoModel
<1>10. msg' \in [Messages -> MessageRow]
  BY <1>2, TurnSettledType
<1>11. deliveries' \in SUBSET [msg : Messages, attempt : Nat, turn : Nat]
  BY <1>2, UndeliveredType
<1>12. hold' \in [Workers -> [gen : Nat, turn : Nat, attempt : Nat, seen : SUBSET Messages]]
  BY <1>2, OnlyLeaseType
<1> QED
  BY <1>2, <1>5, <1>6, <1>7, <1>8, <1>9, <1>10, <1>11, <1>12 DEF TypeOK

\* Closing a turn at a tool boundary, or because it failed.
LEMMA OtherEndType ==
  ASSUME TypeOK, NEW w \in Workers,
         CompleteBoundary(w) \/ Fail(w)
  PROVE  TypeOK'
<1>1. /\ cp.turn + 1 \in Nat /\ attempts + 1 \in Nat /\ 0 \in Nat
      /\ {"idle", "turn_failed"} \subseteq Phases
      /\ {"ready", "running", "waiting"} \subseteq AgentStatuses
  BY DEF TypeOK, Phases, AgentStatuses
<1>2. CASE CompleteBoundary(w)
  <2>1. cp.input \in Messages
    BY <1>2 DEF CompleteBoundary, DeliveryIntact, Prepared, PreparedFor
  <2>2. deliveries' \in SUBSET [msg : Messages, attempt : Nat, turn : Nat]
    BY <1>1, <1>2, <2>1, UndeliveredType DEF CompleteBoundary
  <2>3. msg' \in [Messages -> MessageRow]
    BY <1>2, TurnSettledType DEF CompleteBoundary
  <2>4. cp' \in [phase : Phases, turn : Nat, attempt : Nat, gen : Nat, input : Inputs,
                 repair : {"none", "pending", "exhausted"}]
    BY <1>1, <1>2, CheckpointType DEF CompleteBoundary
  <2> QED BY <1>1, <1>2, <2>2, <2>3, <2>4, OnlyLeaseType DEF CompleteBoundary, TypeOK, NoModel
<1>3. CASE Fail(w)
  <2>1. cp' \in [phase : Phases, turn : Nat, attempt : Nat, gen : Nat, input : Inputs,
                 repair : {"none", "pending", "exhausted"}]
    BY <1>1, <1>3 DEF Fail, TypeOK
  <2>2. RootStatusFor(run, FALSE) \in AgentStatuses
    BY RootStatusType DEF TypeOK
  <2>3. root' \in [status : AgentStatuses, attempt : Nat]
    BY <1>1, <1>3, <2>2, SyncRootType DEF Fail
  <2>4. run' \in RunStatuses
    BY <1>3 DEF Fail, TypeOK, RunStatuses
  <2> QED BY <1>3, <2>1, <2>3, <2>4, OnlyLeaseType DEF Fail, TypeOK, NoModel
<1> QED BY <1>2, <1>3

\* The product's own end of a failed turn (EndFailedThreadTurn).
LEMMA EndFailedType == TypeOK /\ EndFailedThreadTurn => TypeOK'
<1> SUFFICES ASSUME TypeOK, EndFailedThreadTurn PROVE TypeOK'
  OBVIOUS
<1>1. cp' \in [phase : Phases, turn : Nat, attempt : Nat, gen : Nat, input : Inputs,
               repair : {"none", "pending", "exhausted"}]
  <2>1. cp.turn + 1 \in Nat /\ 0 \in Nat /\ "idle" \in Phases
    BY DEF TypeOK, Phases
  <2> QED BY <2>1, CheckpointType DEF EndFailedThreadTurn
<1>2. root' \in [status : AgentStatuses, attempt : Nat]
  BY SyncRootType DEF EndFailedThreadTurn, AgentStatuses
<1>3. msg' \in [Messages -> MessageRow]
  BY TurnSettledType DEF EndFailedThreadTurn
<1>4. deliveries' \in SUBSET [msg : Messages, attempt : Nat, turn : Nat]
  BY UndeliveredType DEF EndFailedThreadTurn
<1> QED BY <1>1, <1>2, <1>3, <1>4 DEF EndFailedThreadTurn, TypeOK, NoModel

\* Moves of the run, whoever makes them.
LEMMA RunMovesType ==
  ASSUME TypeOK, NEW to \in RunStatuses, RunMoves(to),
         QueueFor(to) \/ UNCHANGED <<msg, deliveries>>
  PROVE  TypeOK'
<1>1. root' \in [status : AgentStatuses, attempt : Nat]
  <2>1. RootStatusFor(to, cp.phase = "turn_started") \in AgentStatuses
    BY RootStatusType
  <2> QED BY <2>1, SyncRootType DEF RunMoves, TypeOK
<1>2. /\ msg' \in [Messages -> MessageRow]
      /\ deliveries' \in SUBSET [msg : Messages, attempt : Nat, turn : Nat]
  BY CancelQueueType DEF QueueFor, TypeOK
<1> QED BY <1>1, <1>2 DEF RunMoves, TypeOK

\* The end of the run between two turns (FinalizeSupervisorRun).
LEMMA FinalizeType ==
  ASSUME TypeOK, NEW w \in Workers, NEW to \in {"completed", "failed"}, Finalize(w, to)
  PROVE  TypeOK'
<1>1. root' \in [status : AgentStatuses, attempt : Nat]
  BY SyncRootType DEF Finalize, AgentStatuses
<1>2. /\ msg' \in [Messages -> MessageRow]
      /\ deliveries' \in SUBSET [msg : Messages, attempt : Nat, turn : Nat]
  BY CancelQueueType DEF Finalize, QueueFor, TypeOK
<1>3. cp' \in [phase : Phases, turn : Nat, attempt : Nat, gen : Nat, input : Inputs,
               repair : {"none", "pending", "exhausted"}]
  BY DEF Finalize, TypeOK, Phases, Inputs
<1> QED BY <1>1, <1>2, <1>3 DEF Finalize, TypeOK, RunStatuses

\* A new message's row.
LEMMA NewMessageRow ==
  ASSUME TypeOK, NEW mode \in {"next_turn", "steer"}
  PROVE  /\ NewMessage(mode) \in MessageRow
         /\ NewMessage(mode).status = "pending"
         /\ NewMessage(mode).rows = 0
         /\ NewMessage(mode).boundary = FALSE
<1> DEFINE n == lastSeq + 1
           t == IF mode = "steer" THEN cp.attempt ELSE 0
<1>1. n \in Nat /\ t \in Nat
  BY DEF TypeOK
<1>2. NewMessage(mode) = [NoMessage EXCEPT !.status = "pending", !.mode = mode,
                                           !.seq = n, !.target = t]
  BY DEF NewMessage
<1> HIDE DEF n, t
<1>3. NewMessage(mode) = [status |-> "pending", mode |-> mode, seq |-> n, target |-> t,
                          claimed |-> FALSE, rows |-> 0, boundary |-> FALSE]
  BY <1>2 DEF NoMessage
<1>4. NewMessage(mode) \in MessageRow
  BY <1>1, <1>3 DEF MessageRow
<1> QED BY <1>3, <1>4

\* The operator's messages.
LEMMA QueueStepType ==
  ASSUME TypeOK, NEW m \in Messages, NEW r \in Messages, NEW mode \in {"next_turn", "steer"},
         Enqueue(m, mode) \/ CancelMessage(m) \/ Promote(m, r)
  PROVE  TypeOK'
<1>1. ASSUME NEW k \in {"next_turn", "steer"} PROVE NewMessage(k) \in MessageRow
  BY NewMessageRow
<1>2. \A q \in MessageRow : [q EXCEPT !.status = "cancelled"] \in MessageRow
  BY DEF MessageRow
<1>3. msg' \in [Messages -> MessageRow]
  BY <1>1, <1>2 DEF Enqueue, CancelMessage, Promote, TypeOK
<1>4. lastSeq' \in Nat
  BY DEF Enqueue, CancelMessage, Promote, TypeOK
<1> QED BY <1>3, <1>4 DEF Enqueue, CancelMessage, Promote, TypeOK

\* A run that stops for an approval.
LEMMA ApprovalType ==
  ASSUME TypeOK, NEW w \in Workers, AskApproval(w)
  PROVE  TypeOK'
BY DEF TypeOK, AskApproval, RunStatuses

\* Every step keeps the types.
LEMMA StepType == TypeOK /\ [Next]_vars => TypeOK'
<1> SUFFICES ASSUME TypeOK, [Next]_vars PROVE TypeOK'
  OBVIOUS
<1>1. ASSUME NEW w \in Workers, WorkerStep(w) PROVE TypeOK'
  BY <1>1, LeaseStepType, BeginType, TurnStepType, CompleteType, OtherEndType, FinalizeType,
     ApprovalType
  DEF WorkerStep
<1>2. CASE OperatorStep
  <2>1. CASE \E to \in RunStatuses : Transition(to)
    BY <2>1, RunMovesType DEF Transition
  <2>2. CASE Start \/ Pause \/ Resume
    BY <2>2, RunMovesType DEF Start, Pause, Resume, RunStatuses
  <2>3. CASE EndFailedThreadTurn
    BY <2>3, EndFailedType
  <2>4. CASE AnswerApproval
    BY <2>4 DEF AnswerApproval, TypeOK, RunStatuses
  <2> QED BY <1>2, <2>1, <2>2, <2>3, <2>4, QueueStepType DEF OperatorStep
<1>3. CASE Expire
  BY <1>3 DEF Expire, TypeOK
<1>4. CASE UNCHANGED vars
  BY <1>4 DEF vars, TypeOK
<1> QED BY <1>1, <1>2, <1>3, <1>4 DEF Next

-----------------------------------------------------------------------------
\* Deliveries stay bound to the checkpoint.

\* A bound delivery is for the checkpoint's attempt and its message waits.
LEMMA BindingFacts ==
  ASSUME TypeOK, DeliveryBinding
  PROVE  /\ Undelivered = {}
         /\ \A m \in Prepared : m = cp.input /\ msg[m].status = "pending"
                                  /\ msg[m].mode = "next_turn"
         /\ deliveries # {} => cp.input \in Prepared
         /\ Prepared \cap OpenCorrections = {}
         /\ run \in TerminalRun => Prepared = {}
BY DEF TypeOK, DeliveryBinding, Undelivered, Prepared, PreparedFor, OpenCorrections,
       Corrections, Pending

\* What closing a turn does to each message.
LEMMA TurnSettledValue ==
  ASSUME TypeOK, DeliveryBinding, NEW status, NEW m \in Messages
  PROVE  TurnSettled(status)[m] = IF m \in Prepared THEN Delivered(msg[m], status)
                                  ELSE IF m \in OpenCorrections THEN Corrected(msg[m])
                                  ELSE msg[m]
<1>1. ~(m \in Prepared /\ m \in OpenCorrections)
  BY BindingFacts
<1>2. CASE m \in Prepared
  BY <1>1, <1>2 DEF TurnSettled
<1>3. CASE m \in OpenCorrections
  BY <1>1, <1>3 DEF TurnSettled
<1>4. CASE m \notin Prepared /\ m \notin OpenCorrections
  BY <1>4 DEF TurnSettled
<1> QED BY <1>2, <1>3, <1>4

\* beginSupervisorTurn: a message that is taken is bound to the new attempt,
\* and the input of a failed turn is not taken over without its delivery.
LEMMA BeginBinds ==
  ASSUME TypeOK, DeliveryBinding, NEW w \in Workers, NEW call \in Calls, Begin(w, call)
  PROVE  \E m \in Messages \cup {None}, input \in Inputs :
           /\ cp' = [phase |-> "turn_started", turn |-> cp.turn, attempt |-> attempts + 1,
                     gen |-> lease.gen, input |-> input, repair |-> "none"]
           /\ deliveries' = IF m = None THEN {}
                            ELSE {[msg |-> m, attempt |-> attempts + 1, turn |-> cp.turn]}
           /\ IF m = None THEN input \notin Messages
              ELSE input = m /\ msg[m].status = "pending" /\ msg[m].mode = "next_turn"
<1> DEFINE retry == cp.phase = "turn_failed"
           prior == IF retry /\ Prepared # {} THEN CHOOSE m \in Prepared : TRUE ELSE None
           failed == IF retry THEN cp.input ELSE None
           offered == IF call.offer = None THEN failed ELSE call.offer
           preferred == IF call.wanted = None THEN prior ELSE call.wanted
           selects == offered = None \/ (preferred # None /\ offered = failed)
           choice == IF selects THEN Selectable(preferred) ELSE {}
           open == IF retry THEN Undelivered ELSE deliveries
<1>1. /\ (selects /\ preferred # None) \/ call.steering => choice # {}
      /\ run = "running"
      /\ cp.phase \in BeginPhases
  BY DEF Begin
<1>2. PICK m \in IF choice = {} THEN {None} ELSE choice :
       /\ cp' = [phase |-> "turn_started", turn |-> cp.turn, attempt |-> attempts + 1,
                 gen |-> lease.gen, input |-> IF m = None THEN offered ELSE m,
                 repair |-> "none"]
       /\ deliveries' = IF m = None THEN open
                        ELSE open \cup {[msg |-> m, attempt |-> attempts + 1, turn |-> cp.turn]}
  BY DEF Begin
<1>3. open = {}
  BY <1>1, BindingFacts DEF BeginPhases, DeliveryBinding
<1>4. offered \in Inputs /\ call.offer \in {None, Mission}
  BY DEF Calls, TypeOK, Inputs
<1>5. None \notin Messages /\ Mission \notin Messages /\ None # Mission
  BY SupervisorAssumption
<1>6. m # None =>
        m \in Messages /\ msg[m].status = "pending" /\ msg[m].mode = "next_turn"
  BY <1>2, SelectableFacts
<1>7. ASSUME m = None, offered \in Messages PROVE FALSE
  <2>1. call.offer = None /\ retry /\ cp.input \in Messages /\ offered = failed
    BY <1>4, <1>5, <1>7
  <2>2. deliveries # {}
    BY <1>1, <2>1 DEF DeliveryBinding, TerminalRun
  <2>3. Prepared # {} /\ Prepared \subseteq Messages
    BY <2>2, BindingFacts DEF Prepared, PreparedFor
  <2>4. preferred # None
    BY <1>5, <2>1, <2>3
  <2>5. choice # {} /\ choice \subseteq Messages
    BY <1>1, <2>1, <2>4, SelectableFacts
  <2> QED BY <1>2, <1>5, <1>7, <2>5
<1>8. m \in Messages \cup {None}
  BY <1>6
<1>9. CASE m = None
  BY <1>2, <1>3, <1>4, <1>7, <1>8, <1>9
<1>10. CASE m # None
  BY <1>2, <1>3, <1>6, <1>8, <1>10 DEF Inputs
<1> QED BY <1>9, <1>10

\* A bound delivery has a message of the queue for its input.
LEMMA BoundInput ==
  ASSUME TypeOK, DeliveryBinding, deliveries # {}
  PROVE  cp.input \in Messages /\ run \notin TerminalRun
                /\ cp.phase \in {"turn_started", "turn_failed"}
                /\ deliveries = {[msg |-> cp.input, attempt |-> cp.attempt, turn |-> cp.turn]}
<1>1. PICK d \in deliveries : TRUE
  OBVIOUS
<1> QED BY <1>1 DEF TypeOK, DeliveryBinding

\* An action that leaves the run, the queue and the turn alone.
LEMMA BindingUntouched ==
  ASSUME TypeOK, DeliveryBinding, UNCHANGED <<run, msg, deliveries>>,
         cp'.phase = cp.phase, cp'.turn = cp.turn, cp'.attempt = cp.attempt,
         cp'.input = cp.input \/ (cp.input = None /\ cp'.input = Mission)
  PROVE  DeliveryBinding'
<1>1. None \notin Messages /\ Mission \notin Messages
  BY SupervisorAssumption
<1>2. CASE cp'.input = cp.input
  BY <1>2 DEF DeliveryBinding
<1>3. CASE cp.input = None /\ cp'.input = Mission
  BY <1>1, <1>3, BoundInput DEF DeliveryBinding
<1> QED BY <1>2, <1>3

\* A turn that is closed takes its delivery with it.
LEMMA BindingClosed ==
  ASSUME TypeOK, DeliveryBinding, deliveries' = Undelivered, cp'.input = None
  PROVE  DeliveryBinding'
BY BindingFacts, SupervisorAssumption DEF DeliveryBinding

\* A delivery that is made for the checkpoint's turn is bound to it.
LEMMA BindingMade ==
  ASSUME deliveries' = {[msg |-> cp'.input, attempt |-> cp'.attempt, turn |-> cp'.turn]},
         cp'.phase = "turn_started", run' \notin TerminalRun,
         msg'[cp'.input].status = "pending", msg'[cp'.input].mode = "next_turn"
  PROVE  DeliveryBinding'
BY DEF DeliveryBinding

\* A run that ends takes its queue with it or has none.
LEMMA QueueForFacts ==
  ASSUME TypeOK, DeliveryBinding, NEW to \in RunStatuses, QueueFor(to)
  PROVE  /\ to \in TerminalRun => deliveries' = {} /\ Pending' = {}
         /\ to \notin TerminalRun => UNCHANGED <<msg, deliveries>>
<1>1. CASE to = "completed"
  <2>1. Pending = {} /\ UNCHANGED <<msg, deliveries>>
    BY <1>1 DEF QueueFor
  <2>2. deliveries = {}
    BY <2>1, BindingFacts DEF Pending, Prepared, PreparedFor
  <2>3. Pending' = {}
    BY <2>1 DEF Pending
  <2> QED BY <1>1, <2>1, <2>2, <2>3 DEF TerminalRun
<1>2. CASE to \in {"failed", "cancelled"}
  <2>1. CancelQueue
    BY <1>2 DEF QueueFor
  <2>2. ASSUME NEW m \in Messages PROVE msg'[m].status # "pending"
    BY <2>1 DEF CancelQueue, Pending, TypeOK, MessageRow
  <2> QED BY <1>2, <2>1, <2>2 DEF TerminalRun, CancelQueue, Pending
<1>3. CASE to \notin TerminalRun
  BY <1>3 DEF QueueFor, TerminalRun
<1> QED BY <1>1, <1>2, <1>3 DEF TerminalRun

\* A run that moves on keeps its delivery, and a run that ends loses it.
LEMMA BindingMoves ==
  ASSUME TypeOK, DeliveryBinding, NEW to \in RunStatuses, run \notin TerminalRun, RunMoves(to),
         QueueFor(to) \/ (UNCHANGED <<msg, deliveries>> /\ to \notin TerminalRun)
  PROVE  DeliveryBinding'
<1>1. run' = to /\ cp' = cp
  BY DEF RunMoves
<1>2. CASE to \in TerminalRun
  BY <1>1, <1>2, QueueForFacts DEF DeliveryBinding
<1>3. CASE to \notin TerminalRun
  BY <1>1, <1>3, QueueForFacts DEF DeliveryBinding
<1> QED BY <1>2, <1>3

\* A step of the queue takes away no message that has a delivery.
LEMMA BindingQueue ==
  ASSUME TypeOK, DeliveryBinding, UNCHANGED <<run, cp, deliveries>>,
         \A m \in Messages : msg[m].status = "pending" /\ (\E d \in deliveries : d.msg = m)
           => msg'[m].status = "pending" /\ msg'[m].mode = msg[m].mode
  PROVE  DeliveryBinding'
<1>1. ASSUME NEW d \in deliveries
      PROVE  msg'[d.msg].status = "pending" /\ msg'[d.msg].mode = "next_turn"
  BY <1>1 DEF DeliveryBinding, TypeOK
<1> QED BY <1>1 DEF DeliveryBinding

\* Deliveries stay bound to the checkpoint, whatever the step.
LEMMA StepBinding ==
  ASSUME TypeOK, DeliveryBinding, [Next]_vars
  PROVE  DeliveryBinding'
<1>1. ASSUME NEW w \in Workers, Acquire(w) \/ Release(w) \/ Crash(w) \/ Expire
      PROVE  DeliveryBinding'
  BY <1>1, BindingUntouched DEF Acquire, Release, Crash, Expire
<1>2. ASSUME NEW w \in Workers, NEW call \in Calls, Recover(w, call) PROVE DeliveryBinding'
  <2>1. cp'.input = cp.input \/ (cp.input = None /\ cp'.input = Mission)
    BY <1>2 DEF Recover, OfferFits, Calls, TypeOK
  <2> QED BY <1>2, <2>1, BindingUntouched DEF Recover, TypeOK
<1>3. ASSUME NEW w \in Workers, NEW call \in Calls, Begin(w, call) PROVE DeliveryBinding'
  <2>1. run' = run /\ run \notin TerminalRun /\ msg' = msg
    BY <1>3 DEF Begin, TerminalRun
  <2>2. PICK m \in Messages \cup {None}, input \in Inputs :
          /\ cp' = [phase |-> "turn_started", turn |-> cp.turn, attempt |-> attempts + 1,
                    gen |-> lease.gen, input |-> input, repair |-> "none"]
          /\ deliveries' = IF m = None THEN {}
                           ELSE {[msg |-> m, attempt |-> attempts + 1, turn |-> cp.turn]}
          /\ IF m = None THEN input \notin Messages
             ELSE input = m /\ msg[m].status = "pending" /\ msg[m].mode = "next_turn"
    BY <1>3, BeginBinds
  <2>3. CASE m = None
    BY <2>1, <2>2, <2>3 DEF DeliveryBinding
  <2>4. CASE m # None
    <3>1. /\ deliveries' = {[msg |-> cp'.input, attempt |-> cp'.attempt, turn |-> cp'.turn]}
          /\ cp'.input = m /\ cp'.phase = "turn_started"
      BY <2>2, <2>4
    <3>2. msg'[m].status = "pending" /\ msg'[m].mode = "next_turn"
      BY <2>1, <2>2, <2>4
    <3> QED BY <2>1, <3>1, <3>2, BindingMade
  <2> QED BY <2>3, <2>4
<1>4. ASSUME NEW w \in Workers, Bind(w) PROVE DeliveryBinding'
  BY <1>4, BindingUntouched DEF Bind, TypeOK
<1>5. ASSUME NEW w \in Workers, NEW result, ModelStart(w) \/ ModelDone(w, result)
      PROVE  DeliveryBinding'
  <2>1. UNCHANGED <<run, msg, deliveries>>
    BY <1>5 DEF ModelStart, ModelDone
  <2>2. cp'.phase = cp.phase /\ cp'.turn = cp.turn /\ cp'.attempt = cp.attempt
          /\ cp'.input = cp.input
    BY <1>5 DEF ModelStart, ModelDone, TypeOK
  <2> QED BY <2>1, <2>2, BindingUntouched
<1>6. ASSUME NEW w \in Workers, Claim(w) PROVE DeliveryBinding'
  BY <1>6, BindingQueue DEF Claim, TypeOK, MessageRow
<1>7. ASSUME NEW w \in Workers, NEW asked \in Asked, NEW stalled \in BOOLEAN,
             NEW jobs \in BOOLEAN, Complete(w, asked, stalled, jobs)
      PROVE  DeliveryBinding'
  BY <1>7, BindingClosed DEF Complete, TypeOK
<1>8. ASSUME NEW w \in Workers, CompleteBoundary(w) PROVE DeliveryBinding'
  <2>1. cp.input \in Messages /\ cp.input \in Prepared
    BY <1>8, BindingFacts DEF CompleteBoundary, Prepared, PreparedFor
  <2>2. /\ deliveries' = {[msg |-> cp'.input, attempt |-> cp'.attempt, turn |-> cp'.turn]}
        /\ cp'.input = cp.input /\ cp'.phase = cp.phase
    BY <1>8, BindingFacts DEF CompleteBoundary, TypeOK
  <2>3. msg'[cp.input].status = "pending" /\ msg'[cp.input].mode = "next_turn"
    <3>1. msg'[cp.input] = Delivered(msg[cp.input], "pending")
      BY <1>8, <2>1, TurnSettledValue DEF CompleteBoundary
    <3>2. msg[cp.input] \in MessageRow /\ msg[cp.input].mode = "next_turn"
      BY <2>1, BindingFacts DEF TypeOK
    <3> QED BY <3>1, <3>2, DeliveredRow
  <2>4. cp.phase = "turn_started" /\ run' = run /\ run = "running"
    BY <1>8 DEF CompleteBoundary, Answered, ActiveAttempt, SameTurn
  <2> QED BY <2>1, <2>2, <2>3, <2>4, BindingMade DEF TerminalRun
<1>9. ASSUME NEW w \in Workers, Fail(w) PROVE DeliveryBinding'
  <2>1. /\ cp'.phase = "turn_failed" /\ cp'.turn = cp.turn /\ cp'.attempt = cp.attempt
        /\ cp'.input = cp.input
        /\ run' \in TerminalRun <=> run \in TerminalRun
        /\ UNCHANGED <<msg, deliveries>>
    BY <1>9 DEF Fail, TypeOK, TerminalRun
  <2> QED BY <2>1 DEF DeliveryBinding
<1>10. ASSUME NEW w \in Workers, NEW to \in {"completed", "failed"}, Finalize(w, to)
       PROVE  DeliveryBinding'
  <2>1. cp'.input = None /\ QueueFor(to)
    BY <1>10 DEF Finalize, TypeOK
  <2>2. deliveries' = {}
    BY <2>1, QueueForFacts DEF RunStatuses, TerminalRun
  <2> QED BY <2>1, <2>2, SupervisorAssumption DEF DeliveryBinding
<1>11. CASE EndFailedThreadTurn
  BY <1>11, BindingClosed DEF EndFailedThreadTurn, TypeOK
<1>12. ASSUME NEW to \in RunStatuses, Transition(to) PROVE DeliveryBinding'
  <2>1. run \notin TerminalRun
    BY <1>12 DEF Transition, RunSuccessors, TerminalRun
  <2> QED BY <1>12, <2>1, BindingMoves DEF Transition
<1>13. CASE Start \/ Pause \/ Resume
  BY <1>13, BindingMoves DEF Start, Pause, Resume, RunStatuses, TerminalRun
<1>14. ASSUME NEW m \in Messages, NEW mode, Enqueue(m, mode) PROVE DeliveryBinding'
  BY <1>14, BindingQueue DEF Enqueue, TypeOK
<1>15. ASSUME NEW m \in Messages, CancelMessage(m) PROVE DeliveryBinding'
  BY <1>15, BindingQueue DEF CancelMessage, Withdrawable, TypeOK
<1>16. ASSUME NEW m \in Messages, NEW r \in Messages, Promote(m, r) PROVE DeliveryBinding'
  BY <1>16, BindingQueue DEF Promote, Withdrawable, TypeOK
<1>17. CASE Expire
  BY <1>17, BindingUntouched DEF Expire
<1>18. CASE UNCHANGED vars
  BY <1>18, BindingUntouched DEF vars
<1>19. ASSUME NEW w \in Workers, AskApproval(w) PROVE DeliveryBinding'
  BY <1>19 DEF DeliveryBinding, AskApproval, TerminalRun
<1>20. CASE AnswerApproval
  BY <1>20 DEF DeliveryBinding, AnswerApproval, TerminalRun
<1>21. ASSUME NEW w \in Workers, WorkerStep(w) PROVE DeliveryBinding'
  BY <1>21, <1>1, <1>2, <1>3, <1>4, <1>5, <1>6, <1>7, <1>8, <1>9, <1>10, <1>19 DEF WorkerStep
<1>22. CASE OperatorStep
  BY <1>22, <1>11, <1>12, <1>13, <1>14, <1>15, <1>16, <1>20 DEF OperatorStep
<1> QED BY <1>17, <1>18, <1>21, <1>22 DEF Next

-----------------------------------------------------------------------------
\* What a step may do to one message.

\* A row that is left as it is, but for its claim.
RowKept(m) ==
  /\ msg'[m].status = msg[m].status /\ msg'[m].mode = msg[m].mode
  /\ msg'[m].rows = msg[m].rows /\ (msg'[m].boundary <=> msg[m].boundary)

\* A row that is accepted, cancelled, delivered or committed as a correction.
RowAccepted(m) ==
  /\ msg[m].status = "absent" /\ msg'[m].status = "pending"
  /\ msg'[m].rows = 0 /\ ~msg'[m].boundary

RowCancelled(m) ==
  /\ msg[m].status = "pending" /\ msg'[m].status = "cancelled"
  /\ msg'[m].mode = msg[m].mode
  /\ msg'[m].rows = msg[m].rows /\ (msg'[m].boundary <=> msg[m].boundary)

RowDelivered(m) ==
  /\ msg[m].status = "pending" /\ msg[m].mode = "next_turn"
  /\ \E status \in {"pending", "committed"} : msg'[m] = Delivered(msg[m], status)

RowCorrected(m) ==
  msg[m].status = "pending" /\ msg[m].mode = "steer" /\ msg'[m] = Corrected(msg[m])

RowStep(m) ==
  RowKept(m) \/ RowAccepted(m) \/ RowCancelled(m) \/ RowDelivered(m) \/ RowCorrected(m)

\* Closing a turn delivers, corrects or keeps each message.
LEMMA TurnSettledSteps ==
  ASSUME TypeOK, DeliveryBinding, NEW status \in {"pending", "committed"},
         msg' = TurnSettled(status), NEW m \in Messages
  PROVE  RowStep(m)
<1>1. CASE m \in Prepared
  BY <1>1, TurnSettledValue, BindingFacts DEF RowStep, RowDelivered
<1>2. CASE m \in OpenCorrections /\ m \notin Prepared
  <2>1. msg[m].status = "pending" /\ msg[m].mode = "steer"
    BY <1>2 DEF OpenCorrections, Corrections, Pending
  <2> QED BY <1>2, <2>1, TurnSettledValue DEF RowStep, RowCorrected
<1>3. CASE m \notin OpenCorrections /\ m \notin Prepared
  BY <1>3, TurnSettledValue DEF RowStep, RowKept
<1> QED BY <1>1, <1>2, <1>3

\* The end of a run cancels or keeps each message.
LEMMA QueueForSteps ==
  ASSUME TypeOK, NEW to, QueueFor(to), NEW m \in Messages
  PROVE  RowStep(m)
<1>1. CASE UNCHANGED msg
  BY <1>1 DEF RowStep, RowKept
<1>2. CASE CancelQueue /\ m \in Pending
  <2>1. msg'[m] = [msg[m] EXCEPT !.status = "cancelled"] /\ msg[m].status = "pending"
    BY <1>2 DEF CancelQueue, Pending
  <2>2. msg[m] \in MessageRow
    BY DEF TypeOK
  <2> QED BY <2>1, <2>2 DEF RowStep, RowCancelled, MessageRow
<1>3. CASE CancelQueue /\ m \notin Pending
  BY <1>3 DEF CancelQueue, RowStep, RowKept
<1> QED BY <1>1, <1>2, <1>3 DEF QueueFor

\* So does the operator.
LEMMA QueueSteps ==
  ASSUME TypeOK, NEW m \in Messages, NEW n \in Messages, NEW r \in Messages,
         NEW mode \in {"next_turn", "steer"},
         Enqueue(n, mode) \/ CancelMessage(n) \/ Promote(n, r)
  PROVE  RowStep(m)
<1>1. msg[m] \in MessageRow /\ msg \in [Messages -> MessageRow]
  BY DEF TypeOK
<1>2. CASE msg'[m] = msg[m]
  BY <1>2 DEF RowStep, RowKept
<1>3. CASE msg'[m] # msg[m]
  <2>1. CASE Enqueue(n, mode)
    <3>1. msg'[m] = NewMessage(mode) /\ msg[m].status = "absent"
      BY <1>1, <1>3, <2>1 DEF Enqueue
    <3> QED BY <3>1, NewMessageRow DEF RowStep, RowAccepted
  <2>2. CASE CancelMessage(n)
    <3>1. msg'[m] = [msg[m] EXCEPT !.status = "cancelled"] /\ msg[m].status = "pending"
      BY <1>1, <1>3, <2>2 DEF CancelMessage, Withdrawable
    <3> QED BY <1>1, <3>1 DEF RowStep, RowCancelled, MessageRow
  <2>3. CASE Promote(n, r)
    <3>1. CASE m = r
      <4>1. msg'[m] = NewMessage("steer") /\ msg[m].status = "absent"
        BY <1>1, <2>3, <3>1 DEF Promote
      <4> QED BY <4>1, NewMessageRow DEF RowStep, RowAccepted
    <3>2. CASE m # r
      <4>1. msg'[m] = [msg[m] EXCEPT !.status = "cancelled"] /\ msg[m].status = "pending"
        BY <1>1, <1>3, <2>3, <3>2 DEF Promote, Withdrawable
      <4> QED BY <1>1, <4>1 DEF RowStep, RowCancelled, MessageRow
    <3> QED BY <3>1, <3>2
  <2> QED BY <2>1, <2>2, <2>3
<1> QED BY <1>2, <1>3

\* Every step does one of those things to each message.
LEMMA StepRows ==
  ASSUME TypeOK, DeliveryBinding, [Next]_vars, NEW m \in Messages
  PROVE  RowStep(m)
<1>1. ASSUME msg' = msg PROVE RowStep(m)
  BY <1>1 DEF RowStep, RowKept
<1>2. ASSUME NEW w \in Workers, WorkerStep(w) PROVE RowStep(m)
  <2>1. ASSUME NEW call \in Calls, Recover(w, call) \/ Begin(w, call) PROVE RowStep(m)
    BY <1>1, <2>1 DEF Recover, Begin
  <2>2. ASSUME NEW result, Acquire(w) \/ Release(w) \/ Crash(w) \/ Bind(w) \/ ModelStart(w)
                             \/ ModelDone(w, result) \/ Fail(w) \/ AskApproval(w)
        PROVE  RowStep(m)
    BY <1>1, <2>2 DEF Acquire, Release, Crash, Bind, ModelStart, ModelDone, Fail, AskApproval
  <2>3. CASE Claim(w)
    <3>1. msg[m] \in MessageRow
      BY DEF TypeOK
    <3>2. msg'[m] \in {msg[m], [msg[m] EXCEPT !.claimed = TRUE]}
      BY <2>3 DEF Claim
    <3> QED BY <3>1, <3>2 DEF RowStep, RowKept, MessageRow
  <2>4. ASSUME NEW asked \in Asked, NEW stalled \in BOOLEAN, NEW jobs \in BOOLEAN,
               Complete(w, asked, stalled, jobs)
        PROVE  RowStep(m)
    BY <2>4, TurnSettledSteps DEF Complete
  <2>5. CASE CompleteBoundary(w)
    BY <2>5, TurnSettledSteps DEF CompleteBoundary
  <2>6. ASSUME NEW to \in {"completed", "failed"}, Finalize(w, to) PROVE RowStep(m)
    BY <2>6, QueueForSteps DEF Finalize
  <2> QED BY <1>2, <2>1, <2>2, <2>3, <2>4, <2>5, <2>6 DEF WorkerStep
<1>3. CASE OperatorStep
  <2>1. ASSUME NEW to \in RunStatuses, Transition(to) PROVE RowStep(m)
    BY <2>1, QueueForSteps DEF Transition
  <2>2. CASE Start \/ Pause \/ Resume \/ AnswerApproval
    BY <1>1, <2>2 DEF Start, Pause, Resume, AnswerApproval
  <2>3. CASE EndFailedThreadTurn
    BY <2>3, TurnSettledSteps DEF EndFailedThreadTurn
  <2> QED BY <1>3, <2>1, <2>2, <2>3, QueueSteps DEF OperatorStep
<1> QED BY <1>1, <1>2, <1>3 DEF Next, Expire, vars

\* A message's row is sound: it is in the history once when it was committed
\* or saved at a boundary, and only a queued message is saved there.
RowSound(r) ==
  /\ r.rows = IF r.status = "committed" \/ r.boundary THEN 1 ELSE 0
  /\ r.boundary => r.status # "absent"
  /\ r.boundary \/ r.status = "absent" => r.mode = "next_turn"

\* Each kind of step keeps a row sound.
LEMMA RowStepSound ==
  ASSUME NEW m \in Messages, msg[m] \in MessageRow, msg'[m] \in MessageRow,
         RowSound(msg[m]), RowStep(m)
  PROVE  RowSound(msg'[m])
<1>1. CASE RowKept(m)
  BY <1>1 DEF RowKept, RowSound
<1>2. CASE RowAccepted(m)
  BY <1>2 DEF RowAccepted, RowSound
<1>3. CASE RowCancelled(m)
  BY <1>3 DEF RowCancelled, RowSound
<1>4. CASE RowDelivered(m)
  <2>1. PICK status \in {"pending", "committed"} : msg'[m] = Delivered(msg[m], status)
    BY <1>4 DEF RowDelivered
  <2>2. /\ msg'[m].status = status
        /\ msg'[m].mode = msg[m].mode
        /\ msg'[m].rows = IF msg[m].boundary THEN msg[m].rows ELSE msg[m].rows + 1
        /\ msg'[m].boundary <=> msg[m].boundary \/ status = "pending"
    BY <2>1, DeliveredRow
  <2>3. msg[m].status = "pending" /\ msg[m].mode = "next_turn"
    BY <1>4 DEF RowDelivered
  <2>4. msg'[m].rows = 1
    BY <2>2, <2>3 DEF RowSound
  <2> QED BY <2>2, <2>3, <2>4 DEF RowSound
<1>5. CASE RowCorrected(m)
  <2>1. /\ msg'[m].status = "committed"
        /\ msg'[m].rows = msg[m].rows + 1
        /\ msg'[m].boundary = msg[m].boundary
    BY <1>5, CorrectedRow DEF RowCorrected
  <2>2. msg[m].status = "pending" /\ msg[m].mode = "steer"
    BY <1>5 DEF RowCorrected
  <2> QED BY <2>1, <2>2 DEF RowSound
<1> QED BY <1>1, <1>2, <1>3, <1>4, <1>5 DEF RowStep

-----------------------------------------------------------------------------
\* A run that has ended has an empty queue.
LEMMA StepClosed ==
  ASSUME TypeOK, DeliveryBinding, TerminalClosed, [Next]_vars
  PROVE  TerminalClosed'
<1>1. ASSUME UNCHANGED <<run, msg, deliveries>> PROVE TerminalClosed'
  BY <1>1 DEF TerminalClosed, Pending
<1>2. ASSUME run' \notin TerminalRun PROVE TerminalClosed'
  BY <1>2 DEF TerminalClosed
<1>3. ASSUME NEW to \in RunStatuses, run' = to, QueueFor(to) PROVE TerminalClosed'
  BY <1>3, QueueForFacts DEF TerminalClosed
<1>4. ASSUME NEW w \in Workers, WorkerStep(w) PROVE TerminalClosed'
  <2>1. ASSUME NEW call \in Calls, Recover(w, call) \/ Begin(w, call) PROVE TerminalClosed'
    BY <1>2, <2>1 DEF Recover, Begin, TerminalRun
  <2>2. ASSUME NEW result, Acquire(w) \/ Release(w) \/ Crash(w) \/ Bind(w) \/ ModelStart(w)
                             \/ ModelDone(w, result)
        PROVE  TerminalClosed'
    BY <1>1, <2>2 DEF Acquire, Release, Crash, Bind, ModelStart, ModelDone
  <2>3. CASE Claim(w) \/ CompleteBoundary(w) \/ AskApproval(w)
    BY <1>2, <2>3 DEF Claim, CompleteBoundary, AskApproval, Answered, ActiveAttempt, TerminalRun
  <2>4. ASSUME NEW asked \in Asked, NEW stalled \in BOOLEAN, NEW jobs \in BOOLEAN,
               Complete(w, asked, stalled, jobs)
        PROVE  TerminalClosed'
    <3> DEFINE act == Effective(asked, stalled)
    <3>1. /\ act \in Asked /\ run = "running"
          /\ act = "finish" => Pending \subseteq Prepared \cup OpenCorrections
          /\ msg' = TurnSettled("committed") /\ deliveries' = Undelivered
          /\ act # "finish" => run' \in {"paused", run}
      BY <2>4, EffectiveType DEF Complete, Answered, ActiveAttempt, Asked
    <3> HIDE DEF act
    <3>2. CASE act # "finish"
      BY <1>2, <3>1, <3>2 DEF TerminalRun
    <3>3. CASE act = "finish"
      <4>1. ASSUME NEW m \in Messages PROVE msg'[m].status # "pending"
        <5>1. msg[m] \in MessageRow
          BY DEF TypeOK
        <5>2. CASE m \in Prepared
          BY <3>1, <5>1, <5>2, TurnSettledValue, DeliveredRow
        <5>3. CASE m \in OpenCorrections /\ m \notin Prepared
          BY <3>1, <5>1, <5>3, TurnSettledValue, CorrectedRow
        <5>4. CASE m \notin OpenCorrections /\ m \notin Prepared
          BY <3>1, <3>3, <5>4, TurnSettledValue DEF Pending
        <5> QED BY <5>2, <5>3, <5>4
      <4>2. deliveries' = {}
        BY <3>1, BindingFacts
      <4> QED BY <4>1, <4>2 DEF TerminalClosed, Pending
    <3> QED BY <3>2, <3>3
  <2>5. CASE Fail(w)
    BY <2>5 DEF Fail, TerminalClosed, Pending, TerminalRun
  <2>6. ASSUME NEW to \in {"completed", "failed"}, Finalize(w, to) PROVE TerminalClosed'
    BY <1>3, <2>6 DEF Finalize, RunStatuses
  <2> QED BY <1>4, <2>1, <2>2, <2>3, <2>4, <2>5, <2>6 DEF WorkerStep
<1>5. CASE OperatorStep
  <2>1. ASSUME NEW to \in RunStatuses, Transition(to) PROVE TerminalClosed'
    BY <1>3, <2>1 DEF Transition, RunMoves
  <2>2. CASE Start \/ Pause \/ Resume \/ AnswerApproval
    BY <1>2, <2>2 DEF Start, Pause, Resume, AnswerApproval, RunMoves, TerminalRun
  <2>3. CASE EndFailedThreadTurn
    BY <1>2, <2>3 DEF EndFailedThreadTurn
  <2>4. ASSUME NEW m \in Messages, NEW r \in Messages, NEW mode,
               Enqueue(m, mode) \/ CancelMessage(m) \/ Promote(m, r)
        PROVE  TerminalClosed'
    BY <1>2, <2>4 DEF Enqueue, CancelMessage, Promote, Executing, TerminalRun
  <2> QED BY <1>5, <2>1, <2>2, <2>3, <2>4 DEF OperatorStep
<1> QED BY <1>1, <1>4, <1>5 DEF Next, Expire, vars

-----------------------------------------------------------------------------
\* The root agent works exactly while a started turn's run is running, or has
\* stopped for an approval.
LEMMA StepRoot ==
  ASSUME TypeOK, RootBound, [Next]_vars
  PROVE  RootBound'
<1>1. ASSUME UNCHANGED <<run, root>>, cp'.phase = cp.phase, cp'.attempt = cp.attempt
      PROVE  RootBound'
  BY <1>1 DEF RootBound
<1>2. ASSUME NEW status \in AgentStatuses, SyncRoot(status, 0),
             status # "running",
             run' \notin {"running", "waiting_approval"} \/ cp'.phase # "turn_started"
      PROVE  RootBound'
  BY <1>2, SyncRootType DEF RootBound
<1>3. ASSUME NEW to \in RunStatuses, to # "waiting_approval", RunMoves(to) PROVE RootBound'
  <2>1. RootStatusFor(to, cp.phase = "turn_started") \in AgentStatuses
    BY RootStatusType
  <2>2. RootStatusFor(to, cp.phase = "turn_started") = "running"
          <=> to = "running" /\ cp.phase = "turn_started"
    BY RootRunning
  <2>3. /\ root'.status = RootStatusFor(to, cp.phase = "turn_started")
        /\ root'.attempt = IF root'.status = "running" THEN cp.attempt ELSE 0
        /\ run' = to /\ cp' = cp
    BY <1>3, <2>1, SyncRootType DEF RunMoves, TypeOK
  <2> QED BY <1>3, <2>2, <2>3 DEF RootBound
<1>4. ASSUME NEW w \in Workers, WorkerStep(w) PROVE RootBound'
  <2>1. ASSUME NEW call \in Calls, Recover(w, call) PROVE RootBound'
    <3>1. root' = [status |-> "running", attempt |-> cp.attempt]
      BY <2>1 DEF Recover, SyncRoot
    <3>2. run' = "running" /\ cp'.phase = "turn_started" /\ cp'.attempt = cp.attempt
      BY <2>1 DEF Recover, TypeOK
    <3> QED BY <3>1, <3>2 DEF RootBound
  <2>2. ASSUME NEW call \in Calls, Begin(w, call) PROVE RootBound'
    <3>1. root' = [status |-> "running", attempt |-> attempts + 1]
      BY <2>2 DEF Begin, SyncRoot
    <3>2. run' = "running" /\ cp'.phase = "turn_started" /\ cp'.attempt = attempts + 1
      BY <2>2 DEF Begin
    <3> QED BY <3>1, <3>2 DEF RootBound
  <2>3. ASSUME NEW result, Acquire(w) \/ Release(w) \/ Crash(w) \/ Claim(w) \/ ModelStart(w)
                             \/ Bind(w) \/ ModelDone(w, result)
        PROVE  RootBound'
    <3>1. UNCHANGED <<run, root>>
      BY <2>3 DEF Acquire, Release, Crash, Claim, ModelStart, Bind, ModelDone
    <3>2. cp'.phase = cp.phase /\ cp'.attempt = cp.attempt
      BY <2>3 DEF Acquire, Release, Crash, Claim, ModelStart, Bind, ModelDone, TypeOK
    <3> QED BY <1>1, <3>1, <3>2
  <2>4. ASSUME NEW asked \in Asked, NEW stalled \in BOOLEAN, NEW jobs \in BOOLEAN,
               Complete(w, asked, stalled, jobs)
        PROVE  RootBound'
    <3> DEFINE act == Effective(asked, stalled)
               to == CASE act = "continue" -> "ready" [] act = "wait" -> "waiting"
                       [] act = "finish" -> "completed"
    <3>1. SyncRoot(to, 0) /\ cp'.phase = PhaseFor(act) /\ act \in Asked
      BY <2>4, EffectiveType DEF Complete, TypeOK
    <3>2. to \in AgentStatuses /\ to # "running" /\ PhaseFor(act) # "turn_started"
      BY <3>1 DEF Asked, AgentStatuses, PhaseFor
    <3> HIDE DEF act, to
    <3> QED BY <1>2, <3>1, <3>2
  <2>5. CASE CompleteBoundary(w)
    <3>1. /\ root' = [status |-> "running", attempt |-> attempts + 1]
          /\ run' = "running" /\ cp'.phase = "turn_started" /\ cp'.attempt = attempts + 1
      BY <2>5 DEF CompleteBoundary, Answered, ActiveAttempt, SameTurn, TypeOK
    <3> QED BY <3>1 DEF RootBound
  <2>6. CASE Fail(w)
    <3>1. cp'.phase = "turn_failed"
      BY <2>6 DEF Fail, TypeOK
    <3>2. RootStatusFor(run, FALSE) \in AgentStatuses /\ RootStatusFor(run, FALSE) # "running"
      BY RootStatusType, RootRunning DEF TypeOK
    <3>3. "waiting" \in AgentStatuses
      BY DEF AgentStatuses
    <3> QED BY <1>2, <2>6, <3>1, <3>2, <3>3 DEF Fail
  <2>7. ASSUME NEW to \in {"completed", "failed"}, Finalize(w, to) PROVE RootBound'
    <3>1. /\ run' \notin {"running", "waiting_approval"}
          /\ to \in AgentStatuses /\ to # "running" /\ SyncRoot(to, 0)
      BY <2>7 DEF Finalize, AgentStatuses
    <3> QED BY <1>2, <3>1
  <2>8. CASE AskApproval(w)
    BY <2>8 DEF AskApproval, RootBound
  <2> QED BY <1>4, <2>1, <2>2, <2>3, <2>4, <2>5, <2>6, <2>7, <2>8 DEF WorkerStep
<1>5. CASE OperatorStep
  <2>1. CASE \E to \in RunStatuses : Transition(to)
    BY <1>3, <2>1 DEF Transition
  <2>2. CASE Start \/ Pause \/ Resume
    BY <1>3, <2>2 DEF Start, Pause, Resume, RunStatuses
  <2>3. CASE EndFailedThreadTurn
    <3>1. cp'.phase = "idle" /\ SyncRoot("ready", 0) /\ "ready" \in AgentStatuses
      BY <2>3 DEF EndFailedThreadTurn, TypeOK, AgentStatuses
    <3> QED BY <1>2, <3>1
  <2>4. ASSUME NEW m \in Messages, NEW r \in Messages, NEW mode,
               Enqueue(m, mode) \/ CancelMessage(m) \/ Promote(m, r)
        PROVE  RootBound'
    BY <1>1, <2>4 DEF Enqueue, CancelMessage, Promote
  <2>5. CASE AnswerApproval
    BY <2>5 DEF AnswerApproval, RootBound
  <2> QED BY <1>5, <2>1, <2>2, <2>3, <2>4, <2>5 DEF OperatorStep
<1> QED BY <1>1, <1>4, <1>5 DEF Next, Expire, vars

-----------------------------------------------------------------------------
\* The inductive invariant, in every behaviour.
LEMMA StepInv == SupervisorInv /\ [Next]_vars => SupervisorInv'
<1> SUFFICES ASSUME SupervisorInv, [Next]_vars PROVE SupervisorInv'
  OBVIOUS
<1>1. TypeOK'
  BY StepType DEF SupervisorInv
<1>2. DeliveryBinding' /\ TerminalClosed' /\ RootBound'
  BY StepBinding, StepClosed, StepRoot DEF SupervisorInv
<1>3. ASSUME NEW m \in Messages PROVE RowSound(msg'[m])
  <2>1. msg[m] \in MessageRow /\ msg'[m] \in MessageRow
    BY <1>1 DEF SupervisorInv, TypeOK
  <2>2. RowSound(msg[m])
    BY DEF SupervisorInv, ExactlyOnce, RowSound
  <2> QED BY <2>1, <2>2, StepRows, RowStepSound DEF SupervisorInv
<1> QED BY <1>1, <1>2, <1>3 DEF SupervisorInv, ExactlyOnce, RowSound

\* Type correctness and the delivery invariants hold in every behaviour.
THEOREM SupervisorInvariance == Spec => []SupervisorInv
<1>1. Init => SupervisorInv
  BY InitInv
<1>2. SupervisorInv /\ [Next]_vars => SupervisorInv'
  BY StepInv
<1> QED BY <1>1, <1>2, PTL DEF Spec

\* No delivery is orphaned: it names the checkpoint's turn and its message
\* waits (store/operator_steering.go).
THEOREM DeliveriesAreBound == Spec => []DeliveryBinding
<1>1. SupervisorInv => DeliveryBinding
  BY DEF SupervisorInv
<1> QED BY <1>1, SupervisorInvariance, PTL

\* However a turn fails, is taken over or is cut at a tool boundary, a
\* committed message is in the history exactly once.
THEOREM ExactlyOnceDelivery == Spec => []ExactlyOnce
<1>1. SupervisorInv => ExactlyOnce
  BY DEF SupervisorInv
<1> QED BY <1>1, SupervisorInvariance, PTL

\* A run that has ended leaves no operator message waiting.
THEOREM NothingWaitsForAnEndedRun == Spec => []TerminalClosed
<1>1. SupervisorInv => TerminalClosed
  BY DEF SupervisorInv
<1> QED BY <1>1, SupervisorInvariance, PTL

\* The root agent's projection agrees with the run and the checkpoint.
THEOREM RootFollowsTheRun == Spec => []RootBound
<1>1. SupervisorInv => RootBound
  BY DEF SupervisorInv
<1> QED BY <1>1, SupervisorInvariance, PTL

-----------------------------------------------------------------------------
\* MessageDelivery is implemented: the initial states agree, and what a step
\* does to a message is a fate that MessageDelivery has for it.
LEMMA StepFate ==
  ASSUME SupervisorInv, SupervisorInv', [Next]_vars, NEW m \in Messages
  PROVE  D!Fate(m)
<1>1. RowStep(m)
  BY StepRows DEF SupervisorInv
<1>2. /\ msg[m] \in MessageRow /\ msg'[m] \in MessageRow
      /\ msg[m].rows = IF msg[m].status = "committed" \/ msg[m].boundary THEN 1 ELSE 0
      /\ msg[m].boundary => msg[m].status # "absent"
  BY DEF SupervisorInv, TypeOK, ExactlyOnce
<1> USE DEF D!Fate, D!Keep, D!Accept, D!Record, D!Commit, D!Cancel
<1>3. CASE RowKept(m)
  BY <1>3 DEF RowKept
<1>4. CASE RowAccepted(m)
  BY <1>2, <1>4 DEF RowAccepted
<1>5. CASE RowCancelled(m)
  BY <1>5 DEF RowCancelled
<1>6. CASE RowDelivered(m)
  <2>1. PICK status \in {"pending", "committed"} : msg'[m] = Delivered(msg[m], status)
    BY <1>6 DEF RowDelivered
  <2>2. /\ msg'[m].status = status /\ msg[m].status = "pending"
        /\ msg'[m].rows = IF msg[m].boundary THEN msg[m].rows ELSE msg[m].rows + 1
    BY <1>2, <1>6, <2>1, DeliveredRow DEF RowDelivered
  <2>3. msg'[m].rows = 1 /\ (msg[m].rows = 1 \/ msg[m].rows = 0)
    BY <1>2, <2>2
  <2> QED BY <2>2, <2>3
<1>7. CASE RowCorrected(m)
  <2>1. /\ msg'[m].status = "committed" /\ msg'[m].rows = msg[m].rows + 1
        /\ msg[m].status = "pending"
    BY <1>2, <1>7, CorrectedRow DEF RowCorrected
  <2>2. ~msg[m].boundary
    <3>1. msg[m].mode = "steer"
      BY <1>7 DEF RowCorrected
    <3> QED BY <3>1 DEF SupervisorInv
  <2>3. msg'[m].rows = 1
    BY <1>2, <2>1, <2>2
  <2> QED BY <2>1, <2>3
<1> QED BY <1>1, <1>3, <1>4, <1>5, <1>6, <1>7 DEF RowStep

\* The queue, its deliveries and the history implement MessageDelivery.
THEOREM DeliveryRefinement == Spec => ImplementsDelivery
<1>1. Init => D!Init
  BY DEF Init, D!Init, NoMessage
<1>2. SupervisorInv /\ SupervisorInv' /\ [Next]_vars => [D!Next]_(D!deliveryVars)
  <2> SUFFICES ASSUME SupervisorInv, SupervisorInv', [Next]_vars PROVE D!Next
    OBVIOUS
  <2> QED BY StepFate DEF D!Next
<1> QED BY <1>1, <1>2, SupervisorInvariance, PTL DEF Spec, ImplementsDelivery, D!Spec

-----------------------------------------------------------------------------
\* Every action that changes the turn's number or the outcome.

\* Only the end of a turn gives the checkpoint a later turn.
LEMMA WhoEndsTurns ==
  ASSUME TypeOK, Next, cp'.turn > cp.turn
  PROVE  \/ EndFailedThreadTurn
         \/ \E w \in Workers : Answered(w) /\ \E status \in {"pending", "committed"} :
                                               msg' = TurnSettled(status)
<1>1. cp'.turn # cp.turn
  BY DEF TypeOK
<1>2. CASE Expire \/ OperatorStep
  BY <1>1, <1>2 DEF Expire, OperatorStep, Enqueue, CancelMessage, Promote, Transition,
       RunMoves, Start, Pause, Resume, AnswerApproval
<1>3. ASSUME NEW w \in Workers, WorkerStep(w)
      PROVE  Answered(w) /\ \E status \in {"pending", "committed"} : msg' = TurnSettled(status)
  <2>1. ASSUME NEW asked \in Asked, NEW stalled \in BOOLEAN, NEW jobs \in BOOLEAN,
               Complete(w, asked, stalled, jobs)
        PROVE  Answered(w) /\ msg' = TurnSettled("committed")
    BY <2>1 DEF Complete
  <2>2. ASSUME CompleteBoundary(w)
        PROVE  Answered(w) /\ msg' = TurnSettled("pending")
    BY <2>2 DEF CompleteBoundary
  <2>3. ASSUME NEW call \in Calls, Recover(w, call) \/ Begin(w, call) PROVE FALSE
    <3>1. CASE Recover(w, call)
      BY <1>1, <3>1 DEF Recover, TypeOK
    <3>2. CASE Begin(w, call)
      BY <1>1, <3>2 DEF Begin
    <3> QED BY <2>3, <3>1, <3>2
  <2>4. ASSUME NEW result, NEW to,
               Acquire(w) \/ Release(w) \/ Crash(w) \/ Claim(w) \/ ModelStart(w) \/ Bind(w)
                 \/ ModelDone(w, result) \/ Fail(w) \/ AskApproval(w) \/ Finalize(w, to)
        PROVE  FALSE
    BY <1>1, <2>4 DEF Acquire, Release, Crash, Claim, ModelStart, Bind, ModelDone, Fail,
         AskApproval, Finalize, TypeOK
  <2> QED BY <1>3, <2>1, <2>2, <2>3, <2>4 DEF WorkerStep
<1> QED BY <1>2, <1>3 DEF Next

\* No correction is left behind by the end of its turn, and no answer ends a
\* turn without having taken each of them into account.
THEOREM NoCorrectionIsLost == Spec => CorrectionsAnswered
<1>1. SupervisorInv /\ [Next]_vars =>
        [cp'.turn > cp.turn =>
           \A m \in Corrections(cp.attempt) :
             /\ msg'[m].status \in {"committed", "cancelled"}
             /\ lease.live => m \in model.seen]_vars
  <2> SUFFICES ASSUME SupervisorInv, Next, cp'.turn > cp.turn, NEW m \in Corrections(cp.attempt)
               PROVE  /\ msg'[m].status \in {"committed", "cancelled"}
                      /\ lease.live => m \in model.seen
    OBVIOUS
  <2>1. /\ m \in Messages /\ msg[m] \in MessageRow /\ msg[m].mode = "steer"
        /\ msg[m].status # "absent" /\ m \notin Prepared
        /\ TypeOK /\ DeliveryBinding
    BY BindingFacts DEF Corrections, SupervisorInv, TypeOK
  <2>2. ASSUME NEW status, msg' = TurnSettled(status)
        PROVE  msg'[m].status \in {"committed", "cancelled"}
    <3>1. CASE m \in OpenCorrections
      BY <2>1, <2>2, <3>1, TurnSettledValue, CorrectedRow
    <3>2. CASE m \notin OpenCorrections
      <4>1. msg'[m] = msg[m]
        BY <2>1, <2>2, <3>2, TurnSettledValue
      <4>2. msg[m].status # "pending"
        BY <2>1, <3>2 DEF OpenCorrections, Pending
      <4> QED BY <2>1, <4>1, <4>2 DEF MessageRow
    <3> QED BY <3>1, <3>2
  <2>3. CASE EndFailedThreadTurn
    BY <2>2, <2>3 DEF EndFailedThreadTurn
  <2>4. ASSUME NEW w \in Workers, Answered(w), NEW status, msg' = TurnSettled(status)
        PROVE  /\ msg'[m].status \in {"committed", "cancelled"}
               /\ m \in model.seen
    BY <2>2, <2>4 DEF Answered, SteeringCurrent
  <2> QED BY <2>1, <2>3, <2>4, WhoEndsTurns
<1> QED BY <1>1, SupervisorInvariance, PTL DEF Spec, CorrectionsAnswered

\* A stop the model asks for is deferred while a queued message waits, under
\* every interleaving of operator and workers.
THEOREM StopsAreDeferred == Spec => StopIsDeferred
<1> DEFINE Stops == outcome' # outcome /\ {outcome'.asked, outcome'.took} \subseteq {"wait", "finish"}
           Deferred == \A m \in Pending' : msg'[m].mode = "steer"
<1>1. SupervisorInv /\ [Next]_vars => [Stops => Deferred]_vars
  <2> SUFFICES ASSUME SupervisorInv, Next, Stops PROVE Deferred
    OBVIOUS
  <2>1. CASE Expire \/ OperatorStep
    BY <2>1 DEF Expire, OperatorStep, Enqueue, CancelMessage, Promote, Transition, RunMoves,
         Start, Pause, Resume, AnswerApproval, EndFailedThreadTurn
  <2>2. ASSUME NEW w \in Workers, NEW asked \in Asked, NEW stalled \in BOOLEAN,
               NEW jobs \in BOOLEAN, Complete(w, asked, stalled, jobs)
        PROVE  Deferred
    <3> DEFINE act == Effective(asked, stalled)
    <3>1. outcome' = [asked |-> asked, took |-> act] /\ msg' = TurnSettled("committed")
      BY <2>2 DEF Complete
    <3>2. asked # "continue" /\ act # "continue"
      BY <3>1
    <3>3. Successors = {}
      BY <3>2 DEF Effective
    <3>4. ASSUME NEW m \in Messages, msg'[m].status = "pending" PROVE msg'[m].mode = "steer"
      <4>1. msg[m] \in MessageRow /\ TypeOK /\ DeliveryBinding
        BY DEF SupervisorInv, TypeOK
      <4>2. m \notin Prepared
        BY <3>1, <3>4, <4>1, TurnSettledValue, DeliveredRow
      <4>3. msg'[m] = msg[m]
        BY <3>1, <3>4, <4>1, <4>2, TurnSettledValue, CorrectedRow
      <4>4. msg[m].mode # "next_turn"
        BY <3>3, <3>4, <4>2, <4>3 DEF Successors, Pending
      <4> QED BY <4>1, <4>3, <4>4 DEF MessageRow
    <3> QED BY <3>4 DEF Pending
  <2>3. ASSUME NEW w \in Workers, NEW call \in Calls, Recover(w, call) \/ Begin(w, call)
        PROVE  FALSE
    <3>1. CASE Recover(w, call)
      BY <3>1 DEF Recover
    <3>2. CASE Begin(w, call)
      <4>1. outcome'.asked = None
        BY <3>2 DEF Begin, NoOutcome
      <4> QED BY <4>1, SupervisorAssumption
    <3> QED BY <2>3, <3>1, <3>2
  <2>4. ASSUME NEW w \in Workers, NEW result, NEW to,
               Acquire(w) \/ Release(w) \/ Crash(w) \/ Claim(w) \/ ModelStart(w) \/ Bind(w)
                 \/ ModelDone(w, result) \/ CompleteBoundary(w) \/ Fail(w) \/ AskApproval(w)
                 \/ Finalize(w, to)
        PROVE  FALSE
    BY <2>4 DEF Acquire, Release, Crash, Claim, ModelStart, Bind, ModelDone,
         CompleteBoundary, Fail, AskApproval, Finalize
  <2> QED BY <2>1, <2>2, <2>3, <2>4 DEF Next, WorkerStep
<1> QED BY <1>1, SupervisorInvariance, PTL DEF Spec, StopIsDeferred
-----------------------------------------------------------------------------
(***************************************************************************)
(* What workers and operators may rely on.  While a worker holds the run's *)
(* lease its view of the turn is current, a takeover resumes what it       *)
(* finds, and the lease is the fence that Fence describes; then the        *)
(* limits: the turn budget, the length of the queue, and what an operator  *)
(* may no longer withdraw.                                                 *)
(***************************************************************************)
-----------------------------------------------------------------------------
\* Why the owner's view is current.  A generation belongs to one worker, and
\* none is ahead of the lease; a worker that passes the fence and remembers a
\* turn remembers the checkpoint's, and the checkpoint has adopted its lease.
LeaseView ==
  /\ cp.gen <= lease.gen
  /\ \A w \in Workers : hold[w].gen <= lease.gen
  /\ \A v, w \in Workers : hold[v].gen = hold[w].gen /\ hold[v].gen # 0 => v = w
  /\ \A w \in Workers : Fenced(w) /\ hold[w].attempt # 0 => SameTurn(w) /\ cp.gen = lease.gen

\* Two workers that pass the fence of the run are one.
LEMMA OneFenced ==
  ASSUME LeaseView, NEW v \in Workers, NEW w \in Workers, Fenced(v), Fenced(w)
  PROVE  v = w
BY DEF LeaseView, Fenced

\* A step that leaves what the workers hold and the lease alone, and of the
\* checkpoint the turn, its attempt and its adopter, keeps every view.
LEMMA ViewUntouched ==
  ASSUME LeaseView, UNCHANGED <<lease, hold>>,
         cp'.gen = cp.gen, cp'.phase = cp.phase, cp'.turn = cp.turn, cp'.attempt = cp.attempt
  PROVE  LeaseView'
BY DEF LeaseView, Fenced, SameTurn

\* A worker that passes the fence and closes or takes a turn: its own view is
\* void or the checkpoint's, and no other worker has one.
LEMMA ViewReplaced ==
  ASSUME TypeOK, LeaseView, NEW w \in Workers, Fenced(w), UNCHANGED lease,
         cp'.gen = lease.gen,
         NEW h \in [gen : Nat, turn : Nat, attempt : Nat, seen : SUBSET Messages],
         hold' = [hold EXCEPT ![w] = h], h.gen = hold[w].gen,
         h.attempt # 0 => /\ cp'.phase = "turn_started"
                          /\ h.turn = cp'.turn /\ h.attempt = cp'.attempt
  PROVE  LeaseView'
<1>1. \A v \in Workers : hold'[v].gen = hold[v].gen
  BY DEF TypeOK
<1>2. \A v \in Workers : Fenced(v)' => v = w
  BY <1>1, OneFenced DEF Fenced
<1>3. hold'[w] = h
  BY DEF TypeOK
<1>4. cp'.gen <= lease'.gen
  BY DEF TypeOK
<1> QED BY <1>1, <1>2, <1>3, <1>4 DEF LeaseView, SameTurn

\* Grants, releases, deaths and expiries of the lease.
LEMMA LeaseSteps ==
  ASSUME TypeOK, LeaseView, NEW w \in Workers,
         Acquire(w) \/ Release(w) \/ Crash(w) \/ Expire
  PROVE  LeaseView'
<1> USE DEF TypeOK
<1>1. CASE Acquire(w)
  <2>1. /\ lease'.gen = lease.gen + 1 /\ cp' = cp
        /\ hold'[w].gen = lease.gen + 1 /\ hold'[w].attempt = 0
        /\ \A v \in Workers : v # w => hold'[v] = hold[v]
    BY <1>1 DEF Acquire, NextGeneration, NoHold
  <2>2. cp'.gen <= lease'.gen /\ \A v \in Workers : hold'[v].gen <= lease'.gen
    BY <2>1 DEF LeaseView
  <2>3. \A u, v \in Workers : hold'[u].gen = hold'[v].gen /\ hold'[u].gen # 0 => u = v
    <3>1. \A v \in Workers : hold[v].gen # lease.gen + 1
      BY DEF LeaseView
    <3> QED BY <2>1, <3>1 DEF LeaseView
  <2>4. \A v \in Workers : Fenced(v)' => hold'[v].attempt = 0
    <3>1. \A v \in Workers : v # w => hold'[v].gen # lease'.gen
      BY <2>1 DEF LeaseView
    <3> QED BY <2>1, <3>1 DEF Fenced
  <2> QED BY <2>2, <2>3, <2>4 DEF LeaseView
<1>2. CASE Release(w)
  <2>1. /\ lease'.gen = lease.gen /\ cp' = cp
        /\ lease'.live => lease.live
        /\ hold' = [hold EXCEPT ![w] = NoHold]
    BY <1>2 DEF Release
  <2>2. \A v \in Workers : hold'[v] = IF v = w THEN NoHold ELSE hold[v]
    BY <2>1
  <2> QED BY <2>1, <2>2 DEF LeaseView, Fenced, SameTurn, NoHold
<1>3. CASE Crash(w)
  <2>1. lease' = lease /\ cp' = cp
        /\ \A v \in Workers : hold'[v] = IF v = w THEN NoHold ELSE hold[v]
    BY <1>3 DEF Crash
  <2> QED BY <2>1 DEF LeaseView, Fenced, SameTurn, NoHold
<1>4. CASE Expire
  <2>1. lease'.gen = lease.gen /\ ~lease'.live /\ cp' = cp /\ hold' = hold
    BY <1>4 DEF Expire
  <2> QED BY <2>1 DEF LeaseView, Fenced
<1> QED BY <1>1, <1>2, <1>3, <1>4

\* A turn that is resumed or begun becomes the view of its worker.
LEMMA BeginView ==
  ASSUME TypeOK, LeaseView, NEW w \in Workers, NEW call \in Calls,
         Recover(w, call) \/ Begin(w, call)
  PROVE  LeaseView'
<1>1. CASE Recover(w, call)
  <2> DEFINE h == [gen |-> lease.gen, turn |-> cp.turn, attempt |-> cp.attempt, seen |-> {}]
  <2>1. h \in [gen : Nat, turn : Nat, attempt : Nat, seen : SUBSET Messages]
    BY DEF TypeOK
  <2>2. /\ Fenced(w) /\ lease' = lease /\ hold' = [hold EXCEPT ![w] = h]
        /\ cp'.gen = lease.gen /\ cp'.phase = "turn_started"
        /\ cp'.turn = cp.turn /\ cp'.attempt = cp.attempt
    BY <1>1 DEF Recover, TypeOK
  <2>3. h.gen = hold[w].gen
    BY <2>2 DEF Fenced
  <2>4. h.turn = cp'.turn /\ h.attempt = cp'.attempt
    BY <2>2
  <2> HIDE DEF h
  <2> QED BY <2>1, <2>2, <2>3, <2>4, ViewReplaced
<1>2. CASE Begin(w, call)
  <2> DEFINE h == [gen |-> lease.gen, turn |-> cp.turn, attempt |-> attempts + 1, seen |-> {}]
  <2>1. h \in [gen : Nat, turn : Nat, attempt : Nat, seen : SUBSET Messages]
    BY DEF TypeOK
  <2>2. /\ Fenced(w) /\ lease' = lease /\ hold' = [hold EXCEPT ![w] = h]
        /\ cp'.gen = lease.gen /\ cp'.phase = "turn_started"
        /\ cp'.turn = cp.turn /\ cp'.attempt = attempts + 1
    BY <1>2 DEF Begin
  <2>3. h.gen = hold[w].gen
    BY <2>2 DEF Fenced
  <2>4. h.turn = cp'.turn /\ h.attempt = cp'.attempt
    BY <2>2
  <2> HIDE DEF h
  <2> QED BY <2>1, <2>2, <2>3, <2>4, ViewReplaced
<1> QED BY <1>1, <1>2

\* The steps inside a turn leave the views as they are.
LEMMA TurnStepView ==
  ASSUME TypeOK, LeaseView, NEW w \in Workers, NEW result,
         Bind(w) \/ Claim(w) \/ ModelStart(w) \/ ModelDone(w, result)
  PROVE  LeaseView'
<1>1. CASE Bind(w) \/ ModelStart(w) \/ ModelDone(w, result)
  <2>1. /\ UNCHANGED <<lease, hold>> /\ cp'.gen = cp.gen /\ cp'.phase = cp.phase
        /\ cp'.turn = cp.turn /\ cp'.attempt = cp.attempt
    BY <1>1 DEF Bind, ModelStart, ModelDone, TypeOK
  <2> QED BY <2>1, ViewUntouched
<1>2. CASE Claim(w)
  <2>1. /\ lease' = lease /\ cp' = cp
        /\ \A v \in Workers : /\ hold'[v].gen = hold[v].gen
                              /\ hold'[v].turn = hold[v].turn
                              /\ hold'[v].attempt = hold[v].attempt
    BY <1>2 DEF Claim, TypeOK
  <2> QED BY <2>1 DEF LeaseView, Fenced, SameTurn
<1> QED BY <1>1, <1>2

\* The worker that closes its turn keeps the lease and forgets the turn.
LEMMA EndView ==
  ASSUME TypeOK, LeaseView, NEW w \in Workers, NEW asked, NEW stalled, NEW jobs,
         Complete(w, asked, stalled, jobs) \/ CompleteBoundary(w) \/ Fail(w)
  PROVE  LeaseView'
<1> DEFINE h == [gen |-> hold[w].gen, turn |-> 0, attempt |-> 0, seen |-> {}]
<1>1. h \in [gen : Nat, turn : Nat, attempt : Nat, seen : SUBSET Messages]
  BY DEF TypeOK
<1>2. hold' = [hold EXCEPT ![w] = h]
  BY DEF Complete, CompleteBoundary, Fail, OnlyLease, NoHold
<1>3. Fenced(w) /\ cp.gen = lease.gen
  BY DEF Complete, CompleteBoundary, Fail, Answered, ActiveAttempt, OwnsCheckpoint, Fenced
<1>4. lease' = lease /\ cp'.gen = cp.gen
  BY DEF Complete, CompleteBoundary, Fail, TypeOK
<1>5. h.attempt = 0 /\ h.gen = hold[w].gen
  OBVIOUS
<1> HIDE DEF h
<1> QED BY <1>1, <1>2, <1>3, <1>4, <1>5, ViewReplaced

\* A run that is finalized between turns: no worker that passes the fence
\* remembers one.
LEMMA FinalizeView ==
  ASSUME TypeOK, LeaseView, NEW w \in Workers, NEW to, Finalize(w, to)
  PROVE  LeaseView'
<1>1. /\ cp.phase # "turn_started" /\ UNCHANGED <<lease, hold>> /\ cp'.gen = lease.gen
  BY DEF Finalize, TypeOK
<1>2. \A v \in Workers : Fenced(v) => hold[v].attempt = 0
  BY <1>1 DEF LeaseView, SameTurn
<1> QED BY <1>1, <1>2 DEF LeaseView, Fenced, TypeOK

\* The operator and the product change no lease, and close a turn only when
\* nobody passes the fence.
LEMMA OperatorView ==
  ASSUME TypeOK, LeaseView, OperatorStep
  PROVE  LeaseView'
<1>1. CASE EndFailedThreadTurn
  <2>1. ~lease.live /\ UNCHANGED <<lease, hold>> /\ cp'.gen = cp.gen
    BY <1>1 DEF EndFailedThreadTurn, TypeOK
  <2> QED BY <2>1 DEF LeaseView, Fenced
<1>2. CASE ~EndFailedThreadTurn
  <2>1. UNCHANGED <<lease, hold, cp>>
    BY <1>2 DEF OperatorStep, Enqueue, CancelMessage, Promote, Transition, RunMoves, Start,
         Pause, Resume, AnswerApproval
  <2> QED BY <2>1, ViewUntouched
<1> QED BY <1>1, <1>2

\* Every step keeps the views current.
LEMMA StepView == TypeOK /\ LeaseView /\ [Next]_vars => LeaseView'
<1> SUFFICES ASSUME TypeOK, LeaseView, [Next]_vars PROVE LeaseView'
  OBVIOUS
<1>1. CASE UNCHANGED vars
  BY <1>1, ViewUntouched DEF vars
<1>2. CASE OperatorStep
  BY <1>2, OperatorView
<1>3. CASE Expire
  BY <1>3 DEF LeaseView, Expire, Fenced, TypeOK
<1>4. ASSUME NEW w \in Workers, WorkerStep(w) PROVE LeaseView'
  <2>1. CASE AskApproval(w)
    BY <2>1, ViewUntouched DEF AskApproval
  <2> QED BY <1>4, <2>1, LeaseSteps, BeginView, TurnStepView, EndView, FinalizeView DEF WorkerStep
<1> QED BY <1>1, <1>2, <1>3, <1>4 DEF Next

\* The initial state: no lease was ever granted.
LEMMA InitView == Init => LeaseView
BY DEF Init, LeaseView, NoHold, Fenced

\* The views are current in every behaviour.
THEOREM ViewsAreCurrent == Spec => [](SupervisorInv /\ LeaseView)
<1>1. Init => LeaseView
  BY InitView
<1>2. SupervisorInv /\ LeaseView /\ [Next]_vars => LeaseView'
  BY StepView DEF SupervisorInv
<1> QED BY <1>1, <1>2, SupervisorInvariance, PTL DEF Spec

\* The worker that owns the checkpoint never acts on a turn that is no longer
\* the store's: what takes a turn away takes the lease away first.
THEOREM TheOwnerKnowsItsTurn == Spec => []OwnerViewCurrent
<1>1. LeaseView => OwnerViewCurrent
  BY DEF LeaseView, OwnerViewCurrent, OwnsCheckpoint
<1> QED BY <1>1, ViewsAreCurrent, PTL

\* A started turn keeps its attempt, and its input once it has one, whoever
\* resumes it and whatever the operator does meanwhile.
THEOREM TurnsAreResumed == Spec => TakeoverResumes
<1> DEFINE Same == cp.phase = "turn_started" /\ cp'.phase = "turn_started" /\ cp'.turn = cp.turn
           Kept == cp'.attempt = cp.attempt /\ cp.input \in {None, cp'.input}
<1>1. SupervisorInv /\ [Next]_vars => [Same => Kept]_vars
  <2> SUFFICES ASSUME TypeOK, Next, Same PROVE Kept
    BY DEF SupervisorInv
  <2>1. CASE Expire \/ OperatorStep
    <3>1. ~EndFailedThreadTurn
      BY DEF EndFailedThreadTurn, TypeOK
    <3> QED BY <2>1, <3>1 DEF Expire, OperatorStep, Enqueue, CancelMessage, Promote,
              Transition, RunMoves, Start, Pause, Resume, AnswerApproval
  <2>2. ASSUME NEW w \in Workers, NEW call \in Calls, Recover(w, call) \/ Begin(w, call)
        PROVE  Kept
    <3>1. ~Begin(w, call)
      BY DEF Begin, BeginPhases
    <3>2. Recover(w, call)
      BY <2>2, <3>1
    <3> QED BY <3>2 DEF Recover, OfferFits, TypeOK
  <2>3. ASSUME NEW w \in Workers, NEW result, Bind(w) \/ ModelDone(w, result)
        PROVE  Kept
    BY <2>3 DEF Bind, ModelDone, TypeOK
  <2>4. ASSUME NEW w \in Workers,
               Acquire(w) \/ Release(w) \/ Crash(w) \/ Claim(w) \/ ModelStart(w)
                 \/ AskApproval(w)
        PROVE  Kept
    BY <2>4 DEF Acquire, Release, Crash, Claim, ModelStart, AskApproval
  <2>5. ASSUME NEW w \in Workers, NEW asked, NEW stalled, NEW jobs, NEW to,
               \/ Complete(w, asked, stalled, jobs) \/ CompleteBoundary(w)
               \/ Fail(w) \/ Finalize(w, to)
        PROVE  FALSE
    <3>1. Complete(w, asked, stalled, jobs) \/ CompleteBoundary(w) => cp'.turn = cp.turn + 1
      BY DEF Complete, CompleteBoundary, TypeOK
    <3>2. Fail(w) => cp'.phase # "turn_started"
      BY DEF Fail, TypeOK
    <3>3. ~Finalize(w, to)
      BY DEF Finalize
    <3> QED BY <2>5, <3>1, <3>2, <3>3 DEF TypeOK
  <2> QED BY <2>1, <2>2, <2>3, <2>4, <2>5 DEF Next, WorkerStep
<1> QED BY <1>1, SupervisorInvariance, PTL DEF Spec, TakeoverResumes

-----------------------------------------------------------------------------
\* The writer of the abstract fence is the worker that passes the lease's.
LEMMA WriterIs ==
  ASSUME LeaseView, NEW w \in Workers, Fenced(w)
  PROVE  Writer = w /\ w # None
BY OneFenced, SupervisorAssumption DEF Writer

\* When no worker passes it, there is no writer.
LEMMA NoWriter ==
  ASSUME \A w \in Workers : ~Fenced(w)
  PROVE  Writer = None
BY DEF Writer

\* A worker that passes the fence and was granted nothing passed it before,
\* under the same generation.
LEMMA OnlyAcquireElects ==
  ASSUME TypeOK, LeaseView, [Next]_vars, ~\E w \in Workers : Acquire(w)
  PROVE  /\ lease'.gen = lease.gen
         /\ \A v \in Workers : Fenced(v)' => Fenced(v)
<1> DEFINE Goal == lease'.gen = lease.gen /\ \A v \in Workers : Fenced(v)' => Fenced(v)
<1>1. ASSUME lease'.gen = lease.gen, lease'.live => lease.live,
             \A v \in Workers : hold'[v].gen \in {0, hold[v].gen}
      PROVE  Goal
  BY <1>1 DEF Fenced
<1>2. CASE UNCHANGED vars \/ OperatorStep \/ Expire
  <2>1. lease'.gen = lease.gen /\ (lease'.live => lease.live) /\ hold' = hold
    BY <1>2 DEF vars, Expire, OperatorStep, Enqueue, CancelMessage, Promote, Transition,
         RunMoves, Start, Pause, Resume, AnswerApproval, EndFailedThreadTurn, TypeOK
  <2> QED BY <1>1, <2>1
<1>3. ASSUME NEW w \in Workers, NEW call \in Calls, Recover(w, call) \/ Begin(w, call)
      PROVE  Goal
  <2>1. /\ lease' = lease /\ Fenced(w)
        /\ \A v \in Workers : hold'[v].gen = IF v = w THEN lease.gen ELSE hold[v].gen
    BY <1>3 DEF Recover, Begin, TypeOK
  <2> QED BY <2>1, <1>1 DEF Fenced
<1>4. ASSUME NEW w \in Workers, Release(w) \/ Crash(w) PROVE Goal
  <2>1. /\ lease'.gen = lease.gen /\ (lease'.live => lease.live)
        /\ \A v \in Workers : hold'[v].gen = IF v = w THEN 0 ELSE hold[v].gen
    BY <1>4 DEF Release, Crash, NoHold, TypeOK
  <2> QED BY <1>1, <2>1
<1>5. ASSUME NEW w \in Workers, NEW result, NEW to,
             \/ Bind(w) \/ ModelStart(w) \/ ModelDone(w, result) \/ Finalize(w, to)
             \/ Claim(w) \/ AskApproval(w)
      PROVE  Goal
  <2>1. lease' = lease /\ \A v \in Workers : hold'[v].gen = hold[v].gen
    BY <1>5 DEF Bind, ModelStart, ModelDone, Finalize, Claim, AskApproval, TypeOK
  <2> QED BY <1>1, <2>1
<1>6. ASSUME NEW w \in Workers, NEW asked, NEW stalled, NEW jobs,
             Complete(w, asked, stalled, jobs) \/ CompleteBoundary(w) \/ Fail(w)
      PROVE  Goal
  <2>1. lease' = lease /\ hold' = OnlyLease(w)
    BY <1>6 DEF Complete, CompleteBoundary, Fail
  <2>2. \A v \in Workers : hold'[v].gen = hold[v].gen
    BY <2>1 DEF OnlyLease, NoHold, TypeOK
  <2> QED BY <1>1, <2>1, <2>2
<1> QED BY <1>2, <1>3, <1>4, <1>5, <1>6 DEF Next, WorkerStep

\* The checkpoint keeps its adopter, or a worker that passes the fence, and
\* goes on passing it, adopts the lease there is.
LEMMA WhoAdopts ==
  ASSUME TypeOK, [Next]_vars
  PROVE  \/ cp'.gen = cp.gen
         \/ \E w \in Workers : /\ Fenced(w) /\ Fenced(w)'
                               /\ lease' = lease /\ cp'.gen = lease.gen
<1> DEFINE Goal == \/ cp'.gen = cp.gen
                   \/ \E w \in Workers : /\ Fenced(w) /\ Fenced(w)'
                                         /\ lease' = lease /\ cp'.gen = lease.gen
<1>1. CASE UNCHANGED vars \/ OperatorStep \/ Expire
  BY <1>1 DEF vars, Expire, OperatorStep, Enqueue, CancelMessage, Promote, Transition,
       RunMoves, Start, Pause, Resume, AnswerApproval, EndFailedThreadTurn, TypeOK
<1>2. ASSUME NEW w \in Workers, NEW call \in Calls, Recover(w, call) \/ Begin(w, call)
      PROVE  Goal
  <2>1. Fenced(w) /\ lease' = lease /\ hold'[w].gen = lease.gen
    BY <1>2 DEF Recover, Begin, TypeOK
  <2>2. cp'.gen = lease.gen
    <3>1. CASE Recover(w, call)
      BY <3>1 DEF Recover, TypeOK
    <3>2. CASE Begin(w, call)
      BY <3>2 DEF Begin
    <3> QED BY <1>2, <3>1, <3>2
  <2> QED BY <2>1, <2>2 DEF Fenced
<1>3. ASSUME NEW w \in Workers, NEW to, Finalize(w, to) PROVE Goal
  <2>1. Fenced(w) /\ UNCHANGED <<lease, hold>> /\ cp'.gen = lease.gen
    BY <1>3 DEF Finalize, TypeOK
  <2> QED BY <2>1 DEF Fenced
<1>4. ASSUME NEW w \in Workers, NEW result, NEW asked, NEW stalled, NEW jobs,
             \/ Acquire(w) \/ Release(w) \/ Crash(w) \/ Bind(w) \/ Claim(w) \/ ModelStart(w)
             \/ ModelDone(w, result) \/ Complete(w, asked, stalled, jobs)
             \/ CompleteBoundary(w) \/ Fail(w) \/ AskApproval(w)
      PROVE  cp'.gen = cp.gen
  BY <1>4 DEF Acquire, Release, Crash, Bind, Claim, ModelStart, ModelDone, Complete,
       CompleteBoundary, Fail, AskApproval, TypeOK
<1> QED BY <1>1, <1>2, <1>3, <1>4 DEF Next, WorkerStep

\* A grant elects the writer, whatever takes the lease away deposes it, and
\* only the writer stamps the checkpoint.
LEMMA StepFences ==
  ASSUME TypeOK, LeaseView, LeaseView', [Next]_vars
  PROVE  [F!Next]_(F!fenceVars)
<1> USE DEF F!Next, F!fenceVars
<1>1. ASSUME NEW w \in Workers, Acquire(w) PROVE F!Elect(w)
  <2>1. Writer = None
    BY <1>1, NoWriter DEF Acquire, Fenced
  <2>2. /\ lease' = [gen |-> lease.gen + 1, live |-> TRUE] /\ cp' = cp
        /\ hold'[w].gen = lease.gen + 1
    BY <1>1 DEF Acquire, NextGeneration, NoHold, TypeOK
  <2>3. Fenced(w)'
    BY <2>2 DEF Fenced, TypeOK
  <2>4. \A v \in Workers : Fenced(v)' => v = w
    BY <2>3 DEF LeaseView, Fenced
  <2>5. Writer' = w
    BY <2>3, <2>4 DEF Writer
  <2> QED BY <2>1, <2>2, <2>5 DEF F!Elect
<1>2. CASE ~\E w \in Workers : Acquire(w)
  <2>1. lease'.gen = lease.gen /\ \A v \in Workers : Fenced(v)' => Fenced(v)
    BY <1>2, OnlyAcquireElects
  <2>2. CASE \E v \in Workers : Fenced(v)'
    <3>1. PICK v \in Workers : Fenced(v)'
      BY <2>2
    <3>2. Fenced(v) /\ Writer = v /\ v # None
      BY <2>1, <3>1, WriterIs
    <3>3. Writer' = v
      <4>1. \A u \in Workers : Fenced(u)' => u = v
        BY <2>1, <3>2, OneFenced
      <4> QED BY <3>1, <4>1 DEF Writer
    <3>4. cp'.gen \in {cp.gen, lease.gen}
      BY WhoAdopts
    <3> QED BY <2>1, <3>2, <3>3, <3>4 DEF F!Stamp
  <2>3. CASE ~\E v \in Workers : Fenced(v)'
    <3>1. Writer' = None
      BY <2>3 DEF Writer
    <3>2. cp'.gen = cp.gen
      BY <2>3, WhoAdopts
    <3> QED BY <2>1, <3>1, <3>2 DEF F!Depose
  <2> QED BY <2>2, <2>3
<1> QED BY <1>1, <1>2

\* The lease of the supervised run implements the fence.
THEOREM FenceRefinement == Spec => ImplementsFence
<1>1. Init => F!Init
  <2> SUFFICES ASSUME Init PROVE F!Init
    OBVIOUS
  <2>1. \A w \in Workers : ~Fenced(w)
    BY DEF Init, Fenced
  <2> QED BY <2>1, NoWriter DEF Init, F!Init
<1>2. SupervisorInv /\ LeaseView /\ (SupervisorInv /\ LeaseView)' /\ [Next]_vars
        => [F!Next]_(F!fenceVars)
  BY StepFences DEF SupervisorInv
<1> QED BY <1>1, <1>2, ViewsAreCurrent, PTL DEF Spec, ImplementsFence, F!Spec
-----------------------------------------------------------------------------
\* No turn is started, not even by a tool boundary, that the budget does not
\* have: the guards of Begin and CompleteBoundary differ by the one turn the
\* boundary closes.
THEOREM TurnsStayInBudget == Spec => []TurnBudget
<1>1. Init => TurnBudget
  BY DEF Init, TurnBudget
<1>2. SupervisorInv /\ TurnBudget /\ [Next]_vars => TurnBudget'
  <2> SUFFICES ASSUME TypeOK, TurnBudget, [Next]_vars PROVE TurnBudget'
    BY DEF SupervisorInv
  <2> USE DEF TurnBudget
  <2>1. CASE UNCHANGED vars \/ Expire \/ OperatorStep
    <3>1. CASE EndFailedThreadTurn
      BY <3>1 DEF EndFailedThreadTurn, TypeOK
    <3>2. CASE cp' = cp
      BY <3>2
    <3> QED BY <2>1, <3>1, <3>2 DEF vars, Expire, OperatorStep, Enqueue, CancelMessage,
              Promote, Transition, RunMoves, Start, Pause, Resume, AnswerApproval
  <2>2. ASSUME NEW w \in Workers, NEW call \in Calls, Recover(w, call) \/ Begin(w, call)
        PROVE  TurnBudget'
    <3>1. CASE Recover(w, call)
      BY <3>1 DEF Recover, TypeOK
    <3>2. CASE Begin(w, call)
      <4>1. cp.turn <= MaxTurns /\ cp'.turn = cp.turn
        BY <3>2 DEF Begin
      <4> QED BY <4>1
    <3> QED BY <2>2, <3>1, <3>2
  <2>3. ASSUME NEW w \in Workers, NEW result, Bind(w) \/ ModelDone(w, result)
        PROVE  TurnBudget'
    BY <2>3 DEF Bind, ModelDone, TypeOK
  <2>4. ASSUME NEW w \in Workers,
               Acquire(w) \/ Release(w) \/ Crash(w) \/ Claim(w) \/ ModelStart(w)
                 \/ AskApproval(w)
        PROVE  TurnBudget'
    BY <2>4 DEF Acquire, Release, Crash, Claim, ModelStart, AskApproval
  <2>5. ASSUME NEW w \in Workers, NEW asked \in Asked, NEW stalled \in BOOLEAN,
               NEW jobs \in BOOLEAN, Complete(w, asked, stalled, jobs)
        PROVE  TurnBudget'
    <3>1. cp'.phase = PhaseFor(Effective(asked, stalled))
      BY <2>5 DEF Complete, TypeOK
    <3>2. PhaseFor(Effective(asked, stalled)) \in {"idle", "waiting", "run_completed"}
      BY EffectiveType DEF PhaseFor, Asked
    <3> QED BY <3>1, <3>2
  <2>6. ASSUME NEW w \in Workers, CompleteBoundary(w) PROVE TurnBudget'
    <3>1. cp'.turn = cp.turn + 1 /\ cp.turn < MaxTurns
      BY <2>6 DEF CompleteBoundary, BudgetLeft, TypeOK
    <3> QED BY <3>1, SupervisorAssumption DEF TypeOK
  <2>7. ASSUME NEW w \in Workers, Fail(w) PROVE TurnBudget'
    <3>1. cp.phase = "turn_started" /\ cp'.turn = cp.turn
      BY <2>7 DEF Fail, SameTurn, TypeOK
    <3> QED BY <3>1
  <2>8. ASSUME NEW w \in Workers, NEW to, Finalize(w, to) PROVE TurnBudget'
    BY <2>8 DEF Finalize, TypeOK
  <2> QED BY <2>1, <2>2, <2>3, <2>4, <2>5, <2>6, <2>7, <2>8 DEF Next, WorkerStep
<1> QED BY <1>1, <1>2, SupervisorInvariance, PTL DEF Spec

-----------------------------------------------------------------------------
\* A run that ended stays as it ended.
LEMMA EndIsFinal ==
  ASSUME TypeOK, [Next]_vars, run \in TerminalRun
  PROVE  run' = run
<1>1. run \notin {"running", "paused", "created", "waiting_approval"} /\ RunSuccessors[run] = {}
  BY DEF TerminalRun, RunSuccessors
<1>2. CASE UNCHANGED vars \/ Expire \/ OperatorStep
  BY <1>1, <1>2 DEF vars, Expire, OperatorStep, Enqueue, CancelMessage, Promote, Transition,
       Start, Pause, Resume, AnswerApproval, EndFailedThreadTurn
<1>3. ASSUME NEW w \in Workers, NEW call, NEW result, NEW to,
             \/ Acquire(w) \/ Release(w) \/ Crash(w) \/ Recover(w, call) \/ Begin(w, call)
             \/ Bind(w) \/ Claim(w) \/ ModelStart(w) \/ ModelDone(w, result)
             \/ CompleteBoundary(w) \/ Fail(w) \/ Finalize(w, to) \/ AskApproval(w)
      PROVE  run' = run
  BY <1>1, <1>3 DEF Acquire, Release, Crash, Recover, Begin, Bind, Claim, ModelStart,
       ModelDone, CompleteBoundary, Fail, Finalize, AskApproval
<1>4. ASSUME NEW w \in Workers, NEW asked, NEW stalled, NEW jobs,
             Complete(w, asked, stalled, jobs)
      PROVE  FALSE
  BY <1>1, <1>4 DEF Complete, Answered, ActiveAttempt
<1> QED BY <1>2, <1>3, <1>4 DEF Next, WorkerStep

\* What a step that is not the operator's makes of a message: nothing comes
\* to wait, and nothing is cancelled but by the end of the run.
NoNews(m) ==
  /\ msg'[m].status = "pending" => msg[m].status = "pending"
  /\ msg'[m].status = "cancelled" =>
       run' \in TerminalRun \/ (msg[m].status = "cancelled" /\ msg'[m].claimed = msg[m].claimed)

\* The end of a turn is such a step.
LEMMA TurnSettledNoNews ==
  ASSUME TypeOK, DeliveryBinding, NEW status \in {"pending", "committed"},
         msg' = TurnSettled(status), NEW m \in Messages
  PROVE  NoNews(m)
<1>1. msg[m] \in MessageRow
  BY DEF TypeOK
<1>2. CASE m \in Prepared
  BY <1>1, <1>2, TurnSettledValue, BindingFacts, DeliveredRow DEF NoNews
<1>3. CASE m \in OpenCorrections /\ m \notin Prepared
  BY <1>1, <1>3, TurnSettledValue, CorrectedRow DEF NoNews
<1>4. CASE m \notin OpenCorrections /\ m \notin Prepared
  BY <1>4, TurnSettledValue DEF NoNews
<1> QED BY <1>2, <1>3, <1>4

\* So is a move of the run, which cancels the queue only when it ends.
LEMMA QueueForNoNews ==
  ASSUME TypeOK, NEW to, QueueFor(to), run' = to, NEW m \in Messages
  PROVE  NoNews(m)
<1>1. CASE to \in {"failed", "cancelled"}
  <2>1. msg'[m].status = "pending" => msg[m].status = "pending"
    BY <1>1 DEF QueueFor, CancelQueue, Pending, TypeOK, MessageRow
  <2> QED BY <1>1, <2>1 DEF NoNews, TerminalRun
<1>2. CASE to \notin {"failed", "cancelled"}
  BY <1>2 DEF QueueFor, NoNews
<1> QED BY <1>1, <1>2

\* And every other step that no operator takes on a message.
LEMMA NoNewsElsewhere ==
  ASSUME TypeOK, DeliveryBinding, [Next]_vars, NEW m \in Messages,
         ~\E n, r \in Messages, mode \in {"next_turn", "steer"} :
            Enqueue(n, mode) \/ CancelMessage(n) \/ Promote(n, r)
  PROVE  NoNews(m)
<1>1. ASSUME msg' = msg PROVE NoNews(m)
  BY <1>1 DEF NoNews
<1>2. CASE UNCHANGED vars \/ Expire \/ Start \/ Pause \/ Resume \/ AnswerApproval
  BY <1>1, <1>2 DEF vars, Expire, Start, Pause, Resume, AnswerApproval
<1>3. CASE EndFailedThreadTurn
  BY <1>3, TurnSettledNoNews DEF EndFailedThreadTurn
<1>4. ASSUME NEW to, Transition(to) PROVE NoNews(m)
  BY <1>4, QueueForNoNews DEF Transition, RunMoves
<1>5. ASSUME NEW w \in Workers, WorkerStep(w) PROVE NoNews(m)
  <2>1. ASSUME NEW call, NEW result,
               \/ Acquire(w) \/ Release(w) \/ Crash(w) \/ Recover(w, call) \/ Begin(w, call)
               \/ Bind(w) \/ ModelStart(w) \/ ModelDone(w, result) \/ Fail(w) \/ AskApproval(w)
        PROVE  msg' = msg
    BY <2>1 DEF Acquire, Release, Crash, Recover, Begin, Bind, ModelStart, ModelDone, Fail,
         AskApproval
  <2>2. CASE Claim(w)
    <3>1. msg[m] \in MessageRow
      BY DEF TypeOK
    <3>2. /\ m \in Pending => msg'[m] \in {msg[m], [msg[m] EXCEPT !.claimed = TRUE]}
          /\ m \notin Pending => msg'[m] = msg[m]
      BY <2>2 DEF Claim, OpenCorrections
    <3>3. msg'[m].status = msg[m].status
      BY <3>1, <3>2 DEF MessageRow
    <3> QED BY <3>2, <3>3 DEF NoNews, Pending
  <2>3. ASSUME NEW asked, NEW stalled, NEW jobs,
               Complete(w, asked, stalled, jobs) \/ CompleteBoundary(w)
        PROVE  NoNews(m)
    BY <2>3, TurnSettledNoNews DEF Complete, CompleteBoundary
  <2>4. ASSUME NEW to, Finalize(w, to) PROVE NoNews(m)
    BY <2>4, QueueForNoNews DEF Finalize
  <2> QED BY <1>1, <1>5, <2>1, <2>2, <2>3, <2>4 DEF WorkerStep
<1> QED BY <1>2, <1>3, <1>4, <1>5 DEF Next, OperatorStep

\* A correction that a model request contains is never withdrawn, by no
\* interleaving of its claim with the operator's cancellation or promotion.
THEOREM ClaimsStay == Spec => []ClaimsAreKept
<1>1. Init => ClaimsAreKept
  BY DEF Init, ClaimsAreKept, NoMessage
<1>2. SupervisorInv /\ ClaimsAreKept /\ [Next]_vars => ClaimsAreKept'
  <2> SUFFICES ASSUME TypeOK, DeliveryBinding, ClaimsAreKept, [Next]_vars,
                      NEW m \in Messages, msg'[m].claimed, msg'[m].status = "cancelled"
               PROVE  run' \in TerminalRun
    BY DEF SupervisorInv, ClaimsAreKept
  <2>1. CASE msg[m].claimed /\ msg[m].status = "cancelled"
    BY <2>1, EndIsFinal DEF ClaimsAreKept
  <2>2. ASSUME NEW n \in Messages, NEW r \in Messages, NEW mode \in {"next_turn", "steer"},
               Enqueue(n, mode) \/ CancelMessage(n) \/ Promote(n, r)
        PROVE  msg[m].claimed /\ msg[m].status = "cancelled"
    <3>1. msg \in [Messages -> MessageRow] /\ msg[m] \in MessageRow
      BY DEF TypeOK
    <3>2. NewMessage(mode).status = "pending" /\ NewMessage("steer").status = "pending"
      BY NewMessageRow
    <3>3. CASE Enqueue(n, mode)
      BY <2>2, <3>1, <3>2, <3>3 DEF Enqueue
    <3>4. CASE CancelMessage(n)
      BY <3>1, <3>4 DEF CancelMessage, Withdrawable, MessageRow
    <3>5. CASE Promote(n, r)
      BY <3>1, <3>2, <3>5 DEF Promote, Withdrawable, MessageRow
    <3> QED BY <2>2, <3>3, <3>4, <3>5
  <2>3. CASE ~\E n, r \in Messages, mode \in {"next_turn", "steer"} :
               Enqueue(n, mode) \/ CancelMessage(n) \/ Promote(n, r)
    <3>1. NoNews(m)
      BY <2>3, NoNewsElsewhere
    <3> QED BY <2>1, <3>1 DEF NoNews
  <2> QED BY <2>1, <2>2, <2>3
<1> QED BY <1>1, <1>2, SupervisorInvariance, PTL DEF Spec

-----------------------------------------------------------------------------
\* The queue stays within its limit: it is finite, and it grows by one
\* message at a time, when there is room, or when a promotion has made room.
QueueWithin == IsFiniteSet(Pending) /\ Cardinality(Pending) <= MaxPending

\* A queue that got no new message is no longer than it was.
LEMMA NoLonger ==
  ASSUME QueueWithin, Pending' \subseteq Pending
  PROVE  QueueWithin'
<1> DEFINE P == Pending
           Q == Pending'
<1>1. IsFiniteSet(P) /\ Cardinality(P) <= MaxPending /\ Q \in SUBSET P
  BY DEF QueueWithin
<1>2. IsFiniteSet(Q) /\ Cardinality(Q) <= Cardinality(P)
  <2> HIDE DEF P, Q
  <2> QED BY <1>1, FS_Subset
<1>3. Cardinality(P) \in Nat /\ Cardinality(Q) \in Nat
  <2> HIDE DEF P, Q
  <2> QED BY <1>1, <1>2, FS_CardinalityType
<1>4. Cardinality(Q) <= MaxPending
  BY <1>1, <1>2, <1>3, SupervisorAssumption
<1> QED BY <1>2, <1>4 DEF QueueWithin

\* Nor is one that got a message in a place there was.
LEMMA OneLonger ==
  ASSUME QueueWithin, NEW S \in SUBSET Pending, NEW m,
         Cardinality(S) < MaxPending, Pending' = S \cup {m}
  PROVE  QueueWithin'
<1>1. IsFiniteSet(S)
  BY FS_Subset DEF QueueWithin
<1>2. IsFiniteSet(S \cup {m}) /\ Cardinality(S \cup {m}) \in {Cardinality(S), Cardinality(S) + 1}
  BY <1>1, FS_AddElement
<1>3. Cardinality(S) \in Nat
  BY <1>1, FS_CardinalityType
<1>4. Cardinality(S \cup {m}) <= MaxPending
  BY <1>2, <1>3, SupervisorAssumption
<1> QED BY <1>2, <1>4 DEF QueueWithin

\* The queue is never longer than the code allows.
THEOREM QueueStaysBounded == Spec => []QueueBounded
<1>1. Init => QueueWithin
  <2> SUFFICES ASSUME Init PROVE QueueWithin
    OBVIOUS
  <2>1. Pending = {}
    BY DEF Init, Pending, NoMessage
  <2> QED BY <2>1, FS_EmptySet, SupervisorAssumption DEF QueueWithin
<1>2. SupervisorInv /\ QueueWithin /\ [Next]_vars => QueueWithin'
  <2> SUFFICES ASSUME TypeOK, DeliveryBinding, QueueWithin, [Next]_vars PROVE QueueWithin'
    BY DEF SupervisorInv
  <2>1. msg \in [Messages -> MessageRow]
    BY DEF TypeOK
  <2>2. ASSUME NEW m \in Messages, NEW mode \in {"next_turn", "steer"}, Enqueue(m, mode)
        PROVE  QueueWithin'
    <3>1. Pending' = Pending \cup {m}
      BY <2>1, <2>2, NewMessageRow DEF Enqueue, Pending
    <3>2. Cardinality(Pending) < MaxPending
      BY <2>2 DEF Enqueue, QueueHasRoom
    <3> QED BY <3>1, <3>2, OneLonger
  <2>3. ASSUME NEW m \in Messages, CancelMessage(m) PROVE QueueWithin'
    <3>1. Pending' \subseteq Pending
      BY <2>1, <2>3 DEF CancelMessage, Pending, MessageRow
    <3> QED BY <3>1, NoLonger
  <2>4. ASSUME NEW m \in Messages, NEW r \in Messages, Promote(m, r) PROVE QueueWithin'
    <3>1. m \in Pending /\ m # r /\ r \notin Pending
      BY <2>4 DEF Promote, Withdrawable, Pending
    <3>2. msg' = [msg EXCEPT ![m].status = "cancelled", ![r] = NewMessage("steer")]
      BY <2>4 DEF Promote
    <3>3. NewMessage("steer").status = "pending"
      BY NewMessageRow
    <3>4. \A n \in Messages : msg'[n].status = IF n = r THEN "pending"
                                ELSE IF n = m THEN "cancelled" ELSE msg[n].status
      BY <2>1, <3>1, <3>2, <3>3 DEF MessageRow
    <3>5. Pending' = (Pending \ {m}) \cup {r}
      BY <3>1, <3>4 DEF Pending
    <3>6. Cardinality(Pending \ {m}) < MaxPending
      <4>1. Cardinality(Pending \ {m}) = Cardinality(Pending) - 1
        BY <3>1, FS_RemoveElement DEF QueueWithin
      <4>2. Cardinality(Pending) \in Nat /\ Cardinality(Pending) <= MaxPending
        BY FS_CardinalityType DEF QueueWithin
      <4> QED BY <4>1, <4>2, SupervisorAssumption
    <3> QED BY <3>5, <3>6, OneLonger
  <2>5. CASE ~\E n, r \in Messages, mode \in {"next_turn", "steer"} :
               Enqueue(n, mode) \/ CancelMessage(n) \/ Promote(n, r)
    <3>1. \A m \in Messages : NoNews(m)
      BY <2>5, NoNewsElsewhere
    <3>2. Pending' \subseteq Pending
      BY <3>1 DEF NoNews, Pending
    <3> QED BY <3>2, NoLonger
  <2> QED BY <2>2, <2>3, <2>4, <2>5
<1>3. QueueWithin => QueueBounded
  BY DEF QueueWithin, QueueBounded
<1> QED BY <1>1, <1>2, <1>3, SupervisorInvariance, PTL DEF Spec
=============================================================================
