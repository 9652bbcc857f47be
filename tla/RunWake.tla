------------------------------- MODULE RunWake -------------------------------
(***************************************************************************)
(* Wake intents of one run (store/run_wake.go, run_wake_consumptions.go)   *)
(* and the execution handoffs they are carried out by                      *)
(* (store/run_execution_handoffs.go).  An operator schedules a wake; a     *)
(* consumer, which is the polling worker of a process or a call of the     *)
(* HTTP API or the command line, claims a generation of it, records a      *)
(* consumption, hands the run's queued messages to the supervisor and      *)
(* records how that ended.                                                 *)
(*                                                                         *)
(* A lease id is fresh for every claim and a claim raises attempt_count,   *)
(* so intent and generation name the lease, the consumption and the        *)
(* handoff.  Instants are kept as the ticks that are left until them.      *)
(***************************************************************************)
EXTENDS Integers

CONSTANTS Workers,      \* consumers: polling workers and calls
          Pollers,      \* the polling workers among them
          MaxSteps,     \* MaxRunExecutionHandoffSteps: the most a call may ask for
          Free, Other,  \* holders of the run's execution lease that are none
          MaxIntents,   \* bound: intents that are ever scheduled
          MaxAttempts,  \* max_attempts of an intent
          LeaseTicks,   \* RunWakeLeaseSeconds
          InitialDelay, \* initial_delay_seconds
          Elapsed,      \* max_elapsed_seconds
          BaseBackoff, MaxBackoff,  \* base_backoff_seconds, max_backoff_seconds
          MaxFaults     \* bound: crashes and lost execution leases

ASSUME HolderAssumption == Free \notin Workers /\ Other \notin Workers /\ Free # Other

ASSUME ConsumerAssumption == Pollers \subseteq Workers /\ MaxSteps \in Nat \ {0}

\* normalizeScheduleRunWakeRequest and RunWakeIntent.Validate
ASSUME PolicyAssumption ==
  /\ MaxAttempts \in Nat \ {0} /\ LeaseTicks \in Nat \ {0} /\ Elapsed \in Nat \ {0}
  /\ InitialDelay \in 0..Elapsed
  /\ BaseBackoff \in Nat \ {0} /\ MaxBackoff \in Nat /\ BaseBackoff <= MaxBackoff

\* What arithmetic promises of the doubling, for a prover that has no powers.
ASSUME PowerAssumption == \A g \in 1..MaxAttempts : 2 ^ (g - 1) \in Nat

ASSUME BoundAssumption == MaxIntents \in Nat /\ MaxFaults \in Nat

Intents == 1..MaxIntents
Generations == 1..MaxAttempts
Keys == Intents \X Generations

VARIABLES run,          \* runs.status, as far as it matters: running, stopped, ended
          pending,      \* the run has a pending operator message
          exec,         \* who holds the run's execution lease
          last,         \* the latest intent of the run, 0 when there is none
          intent,       \* run_wake_intents, with the active lease of each
          consumption,  \* run_wake_consumptions
          maxSteps,     \* their max_steps, 0 before there is one
          handoff,      \* run_execution_handoff operations and their results
          work,         \* where each consumer is, and with which generation
          faults

vars == <<run, pending, exec, last, intent, consumption, maxSteps, handoff, work, faults>>

\* status, attempt_count, ticks until next_wake_at, until deadline_at, and
\* until expires_at of the active lease; -1 is later than that instant.
IntentRows == [status : {"none", "queued", "leased", "cancelled", "exhausted"},
               attempts : 0..MaxAttempts, wait : 0..Elapsed, left : 0..Elapsed,
               lease : -1..LeaseTicks]

\* "abandoned" is a failed consumption that names no handoff.
ConsumptionStates == {"none", "prepared", "completed", "failed", "abandoned"}
HandoffStates == {"none", "open", "completed", "failed"}

Idle == [at |-> "idle", i |-> 0, g |-> 0]

TypeOK ==
  /\ run \in {"running", "stopped", "ended"}
  /\ pending \in BOOLEAN
  /\ exec \in Workers \cup {Free, Other}
  /\ last \in 0..MaxIntents
  /\ intent \in [Intents -> IntentRows]
  /\ consumption \in [Keys -> ConsumptionStates]
  /\ maxSteps \in [Keys -> 0..MaxSteps]
  /\ handoff \in [Keys -> HandoffStates]
  /\ work \in [Workers -> {Idle} \cup
       [at : {"claiming"}, i : Intents, g : {0}] \cup
       [at : {"claimed", "prepared", "failing", "opened", "executing", "settling"},
        i : Intents, g : Generations]]
  /\ faults \in 0..MaxFaults

NoIntent == [status |-> "none", attempts |-> 0, wait |-> 0, left |-> 0, lease |-> 0]

Init ==
  /\ run = "running" /\ pending \in BOOLEAN /\ exec = Free
  /\ last = 0
  /\ intent = [i \in Intents |-> NoIntent]
  /\ consumption = [k \in Keys |-> "none"]
  /\ maxSteps = [k \in Keys |-> 0]
  /\ handoff = [k \in Keys |-> "none"]
  /\ work = [w \in Workers |-> Idle]
  /\ faults = 0

Lower(a, b) == IF a < b THEN a ELSE b

\* runWakeBackoff: doubled for every generation, up to the maximum.
Backoff(g) == Lower(MaxBackoff, BaseBackoff * 2 ^ (g - 1))

Active(i) == intent[i].status \in {"queued", "leased"}

KeyOf(w) == <<work[w].i, work[w].g>>

Goto(w, place) == work' = [work EXCEPT ![w].at = place]
Return(w) == work' = [work EXCEPT ![w] = Idle]

\* The lease of a generation is the active lease of its intent.
Owns(k) == intent[k[1]].status = "leased" /\ intent[k[1]].attempts = k[2]

\* The consumption of the leased generation is prepared.
HandoffPrepared(i) ==
  /\ intent[i].status = "leased"
  /\ consumption[<<i, intent[i].attempts>>] = "prepared"

\* An intent's row after its lease, if any, was given up.
Without(row, status, wait) == [row EXCEPT !.status = status, !.wait = wait, !.lease = 0]

\* exhaustRunWakeTx
Exhausted(row) == Without(row, "exhausted", row.left)

\* Each definition named Bug... is a seeded bug: the form that the definition
\* after it would have, had the code lost the check or the step in question.

\* reconcileExpiredRunWakeTx: an expired lease is given up, unless its
\* consumption is prepared.
BugNeverReconciled(i) == intent[i]

Reconciled(i) ==
  LET row == intent[i] IN
  IF row.status = "leased" /\ row.lease <= 0 /\ ~HandoffPrepared(i)
  THEN IF row.attempts >= MaxAttempts \/ row.left = 0
       THEN Exhausted(row)
       ELSE Without(row, "queued", 0)
  ELSE row

-----------------------------------------------------------------------------
\* RunWakeControlService.Schedule with CreateRunWakeIntent, whose triggers
\* repeat the checks in the transaction: one active intent for a run, which
\* must be running, have a pending message and not be executed.
Schedule ==
  /\ last < MaxIntents
  /\ last > 0 => ~Active(last)
  /\ run = "running" /\ pending /\ exec = Free
  /\ last' = last + 1
  /\ intent' = [intent EXCEPT ![last + 1] =
       [status |-> "queued", attempts |-> 0, wait |-> InitialDelay,
        left |-> Elapsed, lease |-> 0]]
  /\ UNCHANGED <<run, pending, exec, consumption, maxSteps, handoff, work, faults>>

\* CancelRunWakeIntent: a prepared handoff must settle first.
BugCancelAnytime(i) == Active(i)

MayCancel(i) == Active(i) /\ ~HandoffPrepared(i)

Cancel ==
  /\ last > 0 /\ MayCancel(last)
  /\ intent' = [intent EXCEPT ![last].status = "cancelled", ![last].lease = 0]
  /\ UNCHANGED <<run, pending, exec, last, consumption, maxSteps, handoff, work, faults>>

\* RunWakeWorker.RunOnce always asks for the same step limit, a call for any.
RunWakeWorkerMaxSteps == 1

Asks(w) == IF w \in Pollers THEN {RunWakeWorkerMaxSteps} ELSE 1..MaxSteps

\* The step limit that the prepared generation of an intent is bound to.
StepLimit(i) == maxSteps[<<i, intent[i].attempts>>]

\* ForegroundRunWakeConsumer.Consume reads the latest intent: a prepared
\* generation is resumed by who asks for its step limit and refused to others,
\* anything else that is active and due is claimed.  A polling worker sees only
\* what ListDueRunWakeIntents lists, a lease not before it is over.
Consume(w) ==
  /\ work[w] = Idle
  /\ last > 0 /\ Active(last)
  /\ intent[last].status = "queued" => intent[last].wait = 0
  /\ w \in Pollers /\ intent[last].status = "leased" => intent[last].lease <= 0
  /\ HandoffPrepared(last) => StepLimit(last) \in Asks(w)
  /\ work' = [work EXCEPT ![w] =
       IF HandoffPrepared(last)
       THEN [at |-> "prepared", i |-> last, g |-> intent[last].attempts]
       ELSE [at |-> "claiming", i |-> last, g |-> 0]]
  /\ UNCHANGED <<run, pending, exec, last, intent, consumption, maxSteps, handoff, faults>>

-----------------------------------------------------------------------------
\* AcquireRunWake is one transaction with four ends.  All start by giving up
\* an expired lease.
Claimable(row) == row.status = "queued" /\ row.wait = 0

BudgetSpent(row) == row.attempts >= MaxAttempts \/ row.left = 0

Eligible == run = "running" /\ pending /\ exec = Free

\* The intent is leased, or not due, or over.
ClaimNothing(w) ==
  /\ work[w].at = "claiming"
  /\ LET i == work[w].i IN
       /\ ~Claimable(Reconciled(i))
       /\ intent' = [intent EXCEPT ![i] = Reconciled(i)]
  /\ Return(w)
  /\ UNCHANGED <<run, pending, exec, last, consumption, maxSteps, handoff, faults>>

\* Its attempts or its time are used up.
ClaimExhausts(w) ==
  /\ work[w].at = "claiming"
  /\ LET row == Reconciled(work[w].i) IN
       /\ Claimable(row) /\ BudgetSpent(row)
       /\ intent' = [intent EXCEPT ![work[w].i] = Exhausted(row)]
  /\ Return(w)
  /\ UNCHANGED <<run, pending, exec, last, consumption, maxSteps, handoff, faults>>

\* The run cannot be executed now: the transaction is rolled back.
ClaimIneligible(w) ==
  /\ work[w].at = "claiming"
  /\ LET row == Reconciled(work[w].i) IN Claimable(row) /\ ~BudgetSpent(row)
  /\ ~Eligible
  /\ Return(w)
  /\ UNCHANGED <<run, pending, exec, last, intent, consumption, maxSteps, handoff, faults>>

\* The expiry of a new lease is capped by the intent's deadline.
LeaseFor(left) == Lower(LeaseTicks, left)

\* Every claim is a generation of its own.
NextGeneration(row) == row.attempts + 1

Claim(w) ==
  /\ work[w].at = "claiming"
  /\ LET i == work[w].i
         row == Reconciled(i)
     IN /\ Claimable(row) /\ ~BudgetSpent(row)
        /\ Eligible
        /\ intent' = [intent EXCEPT ![i] =
             [row EXCEPT !.status = "leased", !.attempts = NextGeneration(row),
                         !.lease = LeaseFor(row.left)]]
        /\ work' = [work EXCEPT ![w] =
             [at |-> "claimed", i |-> i, g |-> NextGeneration(row)]]
  /\ UNCHANGED <<run, pending, exec, last, consumption, maxSteps, handoff, faults>>

\* ReleaseRunWakeForRetry, by a client that claimed and gives up.
RetryRow(row, g) ==
  IF row.attempts >= MaxAttempts \/ Backoff(g) > row.left
  THEN Exhausted(row)
  ELSE Without(row, "queued", Backoff(g))

Retry(w) ==
  /\ work[w].at = "claimed"
  /\ LET k == KeyOf(w) IN
       /\ Owns(k) /\ intent[k[1]].lease >= 0
       /\ intent' = [intent EXCEPT ![k[1]] = RetryRow(intent[k[1]], k[2])]
  /\ Return(w)
  /\ UNCHANGED <<run, pending, exec, last, consumption, maxSteps, handoff, faults>>

\* PrepareRunWakeConsumption binds the generation to the step limit asked for;
\* refused when the generation is no longer owned or its lease is over.
Prepare(w) ==
  /\ work[w].at = "claimed"
  /\ LET k == KeyOf(w) IN
     \/ /\ Owns(k) /\ intent[k[1]].lease >= 0
        /\ consumption' = [consumption EXCEPT ![k] = "prepared"]
        /\ \E steps \in Asks(w) : maxSteps' = [maxSteps EXCEPT ![k] = steps]
        /\ Goto(w, "prepared")
     \/ /\ ~(Owns(k) /\ intent[k[1]].lease >= 0)
        /\ UNCHANGED <<consumption, maxSteps>>
        /\ Return(w)
  /\ UNCHANGED <<run, pending, exec, last, intent, handoff, faults>>

-----------------------------------------------------------------------------
\* RunExecutionHandoffService.execute up to the execution lease.  A handoff
\* that exists is replayed.
ReplayHandoff(w) ==
  /\ work[w].at = "prepared"
  /\ handoff[KeyOf(w)] # "none"
  /\ Goto(w, IF handoff[KeyOf(w)] = "open" THEN "opened" ELSE "settling")
  /\ UNCHANGED <<run, pending, exec, last, intent, consumption, maxSteps, handoff, faults>>

\* PrepareRunExecutionHandoff: an empty selection completes at once.
OpenHandoff(w) ==
  /\ work[w].at = "prepared"
  /\ handoff[KeyOf(w)] = "none"
  /\ run = "running" /\ exec = Free
  /\ handoff' = [handoff EXCEPT ![KeyOf(w)] = IF pending THEN "open" ELSE "completed"]
  /\ Goto(w, IF pending THEN "opened" ELSE "settling")
  /\ UNCHANGED <<run, pending, exec, last, intent, consumption, maxSteps, faults>>

\* The run is not running, or somebody executes it: no handoff is created.
OpenRefused(w) ==
  /\ work[w].at = "prepared"
  /\ handoff[KeyOf(w)] = "none"
  /\ ~(run = "running" /\ exec = Free)
  /\ Goto(w, "failing")
  /\ UNCHANGED <<run, pending, exec, last, intent, consumption, maxSteps, handoff, faults>>

\* withRunExecutionLease around executeSelectionWithLease.
Execute(w) ==
  /\ work[w].at = "opened"
  /\ exec = Free /\ run # "ended"
  /\ exec' = w
  /\ Goto(w, "executing")
  /\ UNCHANGED <<run, pending, last, intent, consumption, maxSteps, handoff, faults>>

\* No execution lease: the handoff stays open, and the call reports that.
ExecuteRefused(w) ==
  /\ work[w].at = "opened"
  /\ ~(exec = Free /\ run # "ended")
  /\ Return(w)
  /\ UNCHANGED <<run, pending, exec, last, intent, consumption, maxSteps, handoff, faults>>

\* A handoff has one result; whoever comes second gets the stored one.
BugReportAgain(k) == handoff[k] # "none"

Unreported(k) == handoff[k] = "open"

\* CompleteRunExecutionHandoff under the lease, then the release of the lease.
\* An error of the release hides the result from this call.
Executed(w) ==
  /\ work[w].at = "executing"
  /\ exec = w
  /\ \/ /\ Unreported(KeyOf(w))
        /\ \E result \in {"completed", "failed"} :
             handoff' = [handoff EXCEPT ![KeyOf(w)] = result]
        /\ pending' \in (IF pending THEN BOOLEAN ELSE {FALSE})
     \/ ~Unreported(KeyOf(w)) /\ UNCHANGED <<handoff, pending>>
  /\ exec' = Free
  /\ Goto(w, "settling") \/ Return(w)
  /\ UNCHANGED <<run, last, intent, consumption, maxSteps, faults>>

\* A completed handoff whose consumption is settled.
BugSettleAgain(k, from) == Owns(k) \/ consumption[k] # from

MaySettle(k, from) == consumption[k] = from /\ Owns(k)

\* CompleteRunWakeConsumption; the intent's public status is "completed" from
\* the completed consumption.
Complete(w) ==
  /\ work[w].at = "settling"
  /\ handoff[KeyOf(w)] = "completed"
  /\ LET k == KeyOf(w) IN
     \/ /\ MaySettle(k, "prepared")
        /\ consumption' = [consumption EXCEPT ![k] = "completed"]
        /\ intent' = [intent EXCEPT ![k[1]] = Exhausted(intent[k[1]])]
     \/ ~MaySettle(k, "prepared") /\ UNCHANGED <<consumption, intent>>
  /\ Return(w)
  /\ UNCHANGED <<run, pending, exec, last, maxSteps, handoff, faults>>

\* FailRunWakeConsumption: the wake is retried after a backoff while there
\* is something to do, attempts are left and the deadline is not reached.
BugRetryPastDeadline(row) ==
  IF pending /\ row.attempts < MaxAttempts
  THEN Without(row, "queued", Backoff(row.attempts))
  ELSE Exhausted(row)

FailedRow(row) ==
  IF pending /\ row.attempts < MaxAttempts /\ Backoff(row.attempts) < row.left
  THEN Without(row, "queued", Backoff(row.attempts))
  ELSE Exhausted(row)

FailConsumption(w, outcome) ==
  /\ LET k == KeyOf(w) IN
     \/ /\ MaySettle(k, "prepared")
        /\ consumption' = [consumption EXCEPT ![k] = outcome]
        /\ intent' = [intent EXCEPT ![k[1]] = FailedRow(intent[k[1]])]
     \/ ~MaySettle(k, "prepared") /\ UNCHANGED <<consumption, intent>>
  /\ Return(w)
  /\ UNCHANGED <<run, pending, exec, last, maxSteps, handoff, faults>>

\* The result the consumer read decides how it settles.
FailWith(w) ==
  /\ work[w].at = "settling"
  /\ handoff[KeyOf(w)] = "failed"
  /\ FailConsumption(w, "failed")

\* The consumer was refused a handoff and names none.
FailWithout(w) ==
  /\ work[w].at = "failing"
  /\ FailConsumption(w, "abandoned")

-----------------------------------------------------------------------------
\* The death of a consumer.  An execution lease it held is left to expire.
Crash(w) ==
  /\ work[w] # Idle
  /\ faults < MaxFaults
  /\ faults' = faults + 1
  /\ Return(w)
  /\ UNCHANGED <<run, pending, exec, last, intent, consumption, maxSteps, handoff>>

\* An execution lease without a living holder expires.
ExecExpires(w) ==
  /\ exec = w /\ work[w].at # "executing"
  /\ exec' = Free
  /\ UNCHANGED <<run, pending, last, intent, consumption, maxSteps, handoff, work, faults>>

\* A consumer loses its lease in the middle of the execution; its completion
\* of the handoff is refused.
LoseExec(w) ==
  /\ exec = w /\ work[w].at = "executing"
  /\ faults < MaxFaults
  /\ faults' = faults + 1
  /\ exec' = Free
  /\ pending' \in (IF pending THEN BOOLEAN ELSE {FALSE})
  /\ Return(w)
  /\ UNCHANGED <<run, last, intent, consumption, maxSteps, handoff>>

\* What other operations do to the run: execute it, pause, resume or end it,
\* queue messages and cancel them.
OtherExecutes ==
  /\ exec = Free /\ run # "ended"
  /\ exec' = Other
  /\ UNCHANGED <<run, pending, last, intent, consumption, maxSteps, handoff, work, faults>>

OtherReturns ==
  /\ exec = Other
  /\ exec' = Free
  /\ pending' \in (IF pending THEN BOOLEAN ELSE {FALSE})
  /\ UNCHANGED <<run, last, intent, consumption, maxSteps, handoff, work, faults>>

RunMoves ==
  /\ \/ run = "running" /\ run' = "stopped" /\ UNCHANGED pending
     \/ run = "stopped" /\ run' = "running" /\ UNCHANGED pending
     \/ run # "ended" /\ run' = "ended" /\ pending' = FALSE
  /\ UNCHANGED <<exec, last, intent, consumption, maxSteps, handoff, work, faults>>

QueueMoves ==
  /\ run # "ended"
  /\ pending' = ~pending
  /\ UNCHANGED <<run, exec, last, intent, consumption, maxSteps, handoff, work, faults>>

Later(row) ==
  [row EXCEPT !.wait = IF row.wait > 0 THEN row.wait - 1 ELSE 0,
              !.left = IF row.left > 0 THEN row.left - 1 ELSE 0,
              !.lease = IF row.status = "leased" /\ row.lease > -1
                        THEN row.lease - 1 ELSE row.lease]

\* The clock; what is over needs no time.
Tick ==
  /\ last > 0 /\ Active(last)
  /\ intent' = [intent EXCEPT ![last] = Later(intent[last])]
  /\ UNCHANGED <<run, pending, exec, last, consumption, maxSteps, handoff, work, faults>>

\* What follows once a consumer has begun.
Proceed(w) ==
  \/ ClaimNothing(w) \/ ClaimExhausts(w) \/ ClaimIneligible(w) \/ Claim(w)
  \/ Prepare(w) \/ ReplayHandoff(w) \/ OpenHandoff(w) \/ OpenRefused(w)
  \/ Execute(w) \/ ExecuteRefused(w) \/ Executed(w)
  \/ Complete(w) \/ FailWith(w) \/ FailWithout(w)

ConsumerStep(w) == Consume(w) \/ Proceed(w)

Next ==
  \/ \E w \in Workers : ConsumerStep(w) \/ Retry(w) \/ Crash(w) \/ ExecExpires(w) \/ LoseExec(w)
  \/ Schedule \/ Cancel \/ OtherExecutes \/ OtherReturns \/ RunMoves \/ QueueMoves \/ Tick

Spec == Init /\ [][Next]_vars

\* The workers poll, whatever began returns (each is bounded by a context), the
\* clock runs, and an execution lease without a holder expires.  Nobody has to
\* make a call.
Fairness ==
  /\ \A w \in Pollers : WF_vars(Consume(w))
  /\ \A w \in Workers : WF_vars(Proceed(w)) /\ WF_vars(ExecExpires(w))
  /\ WF_vars(Tick)

FairSpec == Spec /\ Fairness

-----------------------------------------------------------------------------
\* A generation whose handoff is prepared keeps its lease until it settles:
\* neither expiry, nor cancellation, nor another claim takes it away
\* (reconcileExpiredRunWakeTx, CancelRunWakeIntent).
PreparedIsKept ==
  \A k \in Keys : consumption[k] = "prepared" => Owns(k)

\* A consumption never reports another end than its handoff had, and the
\* completed generation of an intent is its last (CompleteRunWakeConsumption,
\* FailRunWakeConsumption).
FactsMatch ==
  \A k \in Keys :
    /\ consumption[k] = "completed" =>
         /\ handoff[k] = "completed"
         /\ intent[k[1]].status = "exhausted" /\ intent[k[1]].attempts = k[2]
    /\ consumption[k] = "failed" => handoff[k] = "failed"

\* The stored times of an active intent stay in order, or no later read of the
\* row would be accepted (RunWakeIntent.Validate, trg_run_wake_lease_insert).
TimelineValid ==
  \A i \in Intents : Active(i) =>
    /\ intent[i].wait <= intent[i].left
    /\ intent[i].status = "leased" => intent[i].lease <= intent[i].left

\* What an inductive invariant needs besides: the leased generation has no end
\* yet, and neither generations nor intents of the future have left a trace.
OwnedIsOpen ==
  /\ \A k \in Keys : Owns(k) => consumption[k] \in {"none", "prepared"}
  /\ \A i \in Intents : intent[i].status = "leased" => intent[i].attempts >= 1

FutureIsBlank ==
  /\ \A k \in Keys : k[2] > intent[k[1]].attempts => consumption[k] = "none"
  /\ \A i \in Intents : i > last => intent[i] = NoIntent

\* The inductive invariant: the facts above, in every state of the wake-ups of
\* a run, whatever the consumers, crashes and clock do (store/run_wake.go).
WakeInv ==
  TypeOK /\ PreparedIsKept /\ OwnedIsOpen /\ FutureIsBlank /\ FactsMatch /\ TimelineValid

\* A consumer that has claimed a generation, and has not recorded so yet, is
\* the only one that has, so what it gives back nobody else is carrying out
\* (AcquireRunWake, ReleaseRunWakeForRetry, which does not look).
ClaimsAreOwn ==
  \A w \in Workers : work[w].at = "claimed" =>
    /\ work[w].g <= intent[work[w].i].attempts
    /\ Owns(KeyOf(w)) => consumption[KeyOf(w)] = "none"
    /\ \A v \in Workers : work[v].at = "claimed" /\ KeyOf(v) = KeyOf(w) => v = w

\* What was recorded of a generation is never recorded again, by however many
\* consumers that were delayed (MaySettle, CompleteRunExecutionHandoff).
ResultsAreFinal ==
  [][\A k \in Keys :
       /\ consumption[k] \notin {"none", "prepared"} => consumption'[k] = consumption[k]
       /\ handoff[k] \in {"completed", "failed"} => handoff'[k] = handoff[k]]_vars

\* A generation that a call prepared with a step limit no polling worker asks
\* for (ForegroundRunWakeConsumer.Consume): when that call dies, only another one
\* with the same limit can take it up, and neither expiry nor Cancel ends it.
Stranded(i) == HandoffPrepared(i) /\ StepLimit(i) # RunWakeWorkerMaxSteps

\* A wake of a run that keeps running, and that others leave alone from some
\* time on, is settled by the polling workers alone, whichever consumers died or
\* were delayed: it is carried out, exhausted or cancelled, unless a call has left
\* it bound to a step limit that is not theirs (RunWakeWorker.RunOnce,
\* ForegroundRunWakeConsumer.Consume, reconcileExpiredRunWakeTx).
WakesSettle ==
  \A i \in Intents :
    <>[](run = "running" /\ exec # Other /\ ~Stranded(i)) => (Active(i) ~> ~Active(i))

\* docs/adr/0041: "If a handoff operation exists but no result is durable, the
\* consumption remains prepared".
OpenStaysPrepared ==
  \A k \in Keys : handoff[k] = "open" => consumption[k] = "prepared"
=============================================================================
