---------------------------- MODULE ScheduledJobs ----------------------------
(***************************************************************************)
(* One scheduled job: its row, its rounds, the workers that poll for due   *)
(* jobs and the operator (store/scheduled_jobs.go,                         *)
(* application/scheduled_jobs.go, scheduler/schedule.go).                  *)
(*                                                                         *)
(* A worker reads the clock when it begins a poll and uses this instant in *)
(* the two transactions that follow, the reconciliation of expired claims  *)
(* and the claim; it reads the clock again before it reports the outcome,  *)
(* in a third transaction.  The clock may move between any two of them,    *)
(* and other workers and the operator act in between.  Instants are        *)
(* numbers from 1, 0 stands for NULL.  Requests that are refused or        *)
(* replayed by their operation key change nothing and are no steps.        *)
(***************************************************************************)
EXTENDS Naturals, FiniteSets, FiniteSetsExt

CONSTANTS Workers,         \* workers of RunDue
          Observers,       \* those that call RunDueObservation instead
          Specs,           \* the specifications a job may be created with
          Interval,        \* Schedule.IntervalSeconds
          Deadline,        \* DeadlineAt
          Elapsed,         \* MaxElapsedSeconds
          MaxRounds,       \* MaxRounds
          MaxAttempts,     \* Retry.MaxAttempts
          InitialBackoff,  \* Retry.InitialBackoffSeconds
          MaxBackoff,      \* Retry.MaxBackoffSeconds
          IdleCap,         \* the 15 minutes of IdleBackoff
          LeaseTicks,      \* ScheduledJobLeaseSeconds
          HasExecutor,     \* whether an executor is installed
          Horizon          \* bound: the last instant

Spec == [once : BOOLEAN, skip : BOOLEAN, repair : BOOLEAN, stops : BOOLEAN,
         calls : Nat, anchor : Nat \ {0}]

ASSUME JobsAssumption ==
  /\ Observers \subseteq Workers /\ HasExecutor \in BOOLEAN
  /\ \A s \in Specs : s \in Spec /\ s.anchor < Deadline
                      /\ s.calls <= MaxRounds /\ (s.repair => s.calls > 0)
  /\ {Interval, Deadline, Elapsed, MaxRounds, MaxAttempts, InitialBackoff,
      LeaseTicks, Horizon} \subseteq Nat \ {0}
  /\ MaxBackoff \in Nat /\ MaxBackoff >= InitialBackoff /\ IdleCap \in Nat

\* What arithmetic promises of the doubling, for a prover that has no powers.
ASSUME PowerAssumption == \A n \in 0..(MaxAttempts + MaxRounds) : 2 ^ n \in Nat

VARIABLES now,        \* the wall clock
          spec,       \* scheduled_jobs.spec_json
          job,        \* the row of scheduled_jobs
          rounds,     \* the rows of scheduled_job_rounds
          consent,    \* a row of scheduled_job_observation_consents
          authority,  \* mode and permission are those the job was created under
          ended,      \* the target run is terminal
          work        \* what each worker is at, with its instant and its lease

vars == <<now, spec, job, rounds, consent, authority, ended, work>>

NoJob == [status |-> "none", created |-> 0, next |-> 0, occ |-> 0, rounds |-> 0,
          calls |-> 0, unchanged |-> 0, gen |-> 0, expires |-> 0]

NoLease == [occ |-> 0, ord |-> 0, attempt |-> 0, gen |-> 0, expires |-> 0, calls |-> 0]

Idle == [pc |-> "idle", at |-> 0, lease |-> NoLease, out |-> "none",
         called |-> FALSE, over |-> FALSE]

Open == {"claimed", "retry_wait"}

\* A job that has not ended; the others are none, completed, failed,
\* cancelled and exhausted.
GoesOn == job.status \in {"active", "paused"}

Init ==
  /\ now = 1
  /\ spec \in Specs
  /\ job = NoJob /\ rounds = {}
  /\ consent = FALSE /\ authority = TRUE /\ ended = FALSE
  /\ work = [w \in Workers |-> Idle]

-----------------------------------------------------------------------------
(* The schedule                                                            *)

Lower(a, b) == IF a < b THEN a ELSE b
Higher(a, b) == IF a < b THEN b ELSE a

\* NextOccurrence: the first instant of the schedule after t, 0 if none.
NextOccurrence(t) ==
  IF t < spec.anchor THEN spec.anchor
  ELSE IF spec.once THEN 0
  ELSE spec.anchor + ((t - spec.anchor) \div Interval + 1) * Interval

\* MissedPeriodicOccurrence
Missed(due, t) == ~spec.once /\ t >= due + Interval

RetryBackoff(attempt) == Lower(MaxBackoff, InitialBackoff * 2 ^ (attempt - 1))

\* IdleBackoff: an interval at the cap or above it is kept.
IdleBackoff(unchanged) ==
  IF unchanged <= 1 \/ Interval >= IdleCap THEN Interval
  ELSE Lower(IdleCap, Interval * 2 ^ (unchanged - 1))

ElapsedBy == job.created + Elapsed

-----------------------------------------------------------------------------
(* The rows.  Each definition named Bug... is a seeded bug: the form that  *)
(* the definition after it would have, had the code lost the check or the  *)
(* step in question.                                                       *)

\* The row that the job's active lease has claimed.
Held(r) == r.occ = job.occ /\ r.gen = job.gen /\ r.status = "claimed"

Settled(r, status) == (rounds \ {r}) \cup {[r EXCEPT !.status = status]}

\* revokeScheduledJobLeaseTx
BugRevokeKeepsRow(status) == rounds

Revoked(status) ==
  {IF Held(r) THEN [r EXCEPT !.status = status] ELSE r : r \in rounds}

\* A revocation that finds no row to revoke undoes its transaction.
Revocable == job.gen # 0 /\ job.occ # 0 => \E r \in rounds : Held(r)

Released == [job EXCEPT !.gen = 0, !.expires = 0]

\* stopScheduledJobTx, and the same fields of a cancellation
Stopped(status) == [Released EXCEPT !.status = status, !.next = 0, !.occ = 0]

\* What the row becomes when a round has been counted: it wakes again, or ends.
Rescheduled(row, wake) ==
  IF wake = 0 \/ wake >= Deadline
  THEN [row EXCEPT !.status = "exhausted", !.next = 0]
  ELSE [row EXCEPT !.next = wake]

-----------------------------------------------------------------------------
(* The operator and the run                                                *)

\* CreateScheduledJob, with the consent to observation or without.
Create ==
  /\ job.status = "none" /\ ~ended /\ authority /\ now < Deadline
  /\ job' = [NoJob EXCEPT !.status = "active", !.created = now, !.next = spec.anchor]
  /\ consent' \in IF spec.repair \/ spec.calls > 0 THEN {FALSE} ELSE BOOLEAN
  /\ UNCHANGED <<now, spec, rounds, authority, ended, work>>

EnableObservation ==
  /\ GoesOn /\ ~consent
  /\ ~spec.repair /\ spec.calls = 0
  /\ consent' = TRUE
  /\ UNCHANGED <<now, spec, job, rounds, authority, ended, work>>

Pause ==
  /\ job.status = "active" /\ Revocable
  /\ rounds' = Revoked("retry_wait")
  /\ job' = [Released EXCEPT !.status = "paused", !.next = 0]
  /\ UNCHANGED <<now, spec, consent, authority, ended, work>>

\* The clock is read anew: no earlier round was due at this very instant.
Resume ==
  /\ job.status = "paused"
  /\ job.occ = 0 => \A r \in rounds : r.occ # now
  /\ job' = [job EXCEPT !.status = "active", !.next = now]
  /\ UNCHANGED <<now, spec, rounds, consent, authority, ended, work>>

Cancel ==
  /\ GoesOn /\ Revocable
  /\ rounds' = Revoked("failed")
  /\ job' = Stopped("cancelled")
  /\ UNCHANGED <<now, spec, consent, authority, ended, work>>

\* What happens to the run makes no difference to a job that has ended, and its
\* end none to a job that does not stop with it.
TargetEnds ==
  /\ GoesOn /\ spec.stops /\ ~ended /\ ended' = TRUE
  /\ UNCHANGED <<now, spec, job, rounds, consent, authority, work>>

\* The run's mode or permission moves on.  A repair is bound to their
\* revisions for good; observation needs the Plan phase, which may come back.
AuthorityMoves ==
  /\ GoesOn /\ (spec.repair => authority)
  /\ authority' = ~authority
  /\ UNCHANGED <<now, spec, job, rounds, consent, ended, work>>

Tick ==
  /\ now < Horizon /\ now' = now + 1
  /\ UNCHANGED <<spec, job, rounds, consent, authority, ended, work>>

-----------------------------------------------------------------------------
(* The workers                                                             *)

Goto(w, pc) == work' = [work EXCEPT ![w].pc = pc]
Return(w) == work' = [work EXCEPT ![w] = Idle]

\* What a worker of the ordinary desktop may select.
Selectable(w) == w \in Observers => ~spec.repair /\ spec.calls = 0 /\ consent

\* A poll while no job is active finds nothing and is no step.
Poll(w) ==
  /\ job.status = "active" /\ work[w] = Idle
  /\ work' = [work EXCEPT ![w].pc = "polling", ![w].at = now]
  /\ UNCHANGED <<now, spec, job, rounds, consent, authority, ended>>

\* reconcileScheduledJobs: an expired claim waits for its next attempt.
Reconcile(w) ==
  /\ work[w].pc = "polling"
  /\ IF job.status = "active" /\ job.gen # 0 /\ job.expires <= work[w].at /\ Selectable(w)
     THEN \E r \in rounds :
            /\ Held(r)
            /\ rounds' = Settled(r, "retry_wait")
            /\ job' = [Released EXCEPT !.next = work[w].at]
     ELSE UNCHANGED <<job, rounds>>
  /\ Goto(w, "reconciled")
  /\ UNCHANGED <<now, spec, consent, authority, ended>>

Due(w) ==
  /\ work[w].pc = "reconciled"
  /\ job.status = "active" /\ job.next <= work[w].at /\ Selectable(w)

Pending(r) == r.occ = job.occ

\* scheduledJobPreclaimStop
PreclaimStop(at) ==
  \/ at >= Deadline \/ at >= ElapsedBy \/ job.rounds >= MaxRounds
  \/ spec.calls > 0 /\ job.calls >= spec.calls

\* What the checks before a claim make of the job.
Verdict(at) ==
  IF PreclaimStop(at) THEN "exhausted"
  ELSE IF spec.stops /\ ended THEN "completed"
  ELSE IF ~authority THEN "failed"
  ELSE "active"

\* A claim that has not expired is left to its worker.
Taken(at) == \E r \in rounds : Pending(r) /\ r.status = "claimed" /\ at < job.expires

Worn(at) == \E r \in rounds : Pending(r) /\ r.attempt >= MaxAttempts /\ ~Taken(at)

Skippable(at) == job.occ = 0 /\ spec.skip /\ Missed(job.next, at)

ClaimNothing(w) ==
  /\ work[w].pc = "reconciled"
  /\ Due(w) => Verdict(work[w].at) = "active" /\ Taken(work[w].at)
  /\ Return(w)
  /\ UNCHANGED <<now, spec, job, rounds, consent, authority, ended>>

ClaimStops(w) ==
  /\ Due(w) /\ Revocable
  /\ LET verdict == Verdict(work[w].at) IN
     /\ verdict # "active" \/ Worn(work[w].at)
     /\ job' = Stopped(IF verdict = "active" THEN "failed" ELSE verdict)
  /\ rounds' = Revoked("failed")
  /\ Return(w)
  /\ UNCHANGED <<now, spec, consent, authority, ended>>

\* skipScheduledJobOccurrenceTx
Skip(w) ==
  LET at == work[w].at
      row == [job EXCEPT !.rounds = @ + 1] IN
  /\ Due(w) /\ Verdict(at) = "active" /\ Skippable(at)
  /\ \A r \in rounds : r.occ # job.next /\ r.ord # row.rounds
  /\ rounds' = rounds \cup {[ord |-> row.rounds, occ |-> job.next, attempt |-> 1,
                             gen |-> 1, status |-> "skipped"]}
  /\ job' = IF row.rounds >= MaxRounds
            THEN [row EXCEPT !.status = "exhausted", !.next = 0]
            ELSE Rescheduled(row, NextOccurrence(at))
  /\ Return(w)
  /\ UNCHANGED <<now, spec, consent, authority, ended>>

\* claimScheduledJobTx: the first attempt inserts the round, a later one takes
\* it over; the key of the table and the order of the rounds are unique.
ClaimRound(w) ==
  LET at == work[w].at
      gen == Max({r.gen : r \in rounds} \cup {0}) + 1
      open == {r \in rounds : job.occ # 0 /\ Pending(r)}
      row == IF job.occ = 0
             THEN [ord |-> job.rounds + 1, occ |-> job.next, attempt |-> 1,
                   gen |-> gen, status |-> "claimed"]
             ELSE LET r == CHOOSE r \in open : TRUE IN
                  [r EXCEPT !.attempt = @ + 1, !.gen = gen, !.status = "claimed"]
  IN
  /\ Due(w) /\ Verdict(at) = "active" /\ ~Skippable(at) /\ ~Taken(at) /\ ~Worn(at)
  /\ IF job.occ = 0
     THEN \A r \in rounds : r.occ # job.next /\ r.ord # job.rounds + 1
     ELSE \E r \in open : r.status \in Open
  /\ rounds' = (rounds \ open) \cup {row}
  /\ job' = [job EXCEPT !.occ = row.occ, !.gen = gen, !.expires = at + LeaseTicks]
  /\ work' = [work EXCEPT ![w].pc = "claimed",
                ![w].lease = [occ |-> row.occ, ord |-> job.rounds + 1,
                               attempt |-> row.attempt, gen |-> gen,
                               expires |-> at + LeaseTicks, calls |-> job.calls]]
  /\ UNCHANGED <<now, spec, consent, authority, ended>>

\* The worker has its outcome and reads the clock.
Concludes(w, out, called) ==
  /\ work' = [work EXCEPT ![w].pc = "closing", ![w].at = now, ![w].out = out,
                          ![w].called = called, ![w].over = ended]
  /\ UNCHANGED <<now, spec, job, rounds, consent, authority, ended>>

Authorized == spec.repair => authority /\ now < Deadline /\ now < ElapsedBy

\* observe: the first observation is a change, and a read may fail.  A change
\* is handed to the executor, if there is one and calls are left.
Observe(w) ==
  /\ work[w].pc = "claimed"
  /\ LET calls == HasExecutor /\ work[w].lease.calls < spec.calls IN
     \/ Concludes(w, "error", FALSE)
     \/ /\ \E r \in rounds : r.status \in {"completed", "unchanged"}
        /\ Concludes(w, "unchanged", FALSE)
     \/ /\ ~calls /\ ~(spec.repair /\ ~HasExecutor)
        /\ Concludes(w, "changed", FALSE)
     \/ /\ calls /\ now < work[w].lease.expires /\ Authorized
        /\ Goto(w, "executing")
        /\ UNCHANGED <<now, spec, job, rounds, consent, authority, ended>>

\* ExecuteScheduledJobRound returns: with or without a call of the model, with
\* an error, or (a round that may only read) having used a tool.
Executed(w) ==
  /\ work[w].pc = "executing"
  /\ \/ \E called \in BOOLEAN, out \in {"changed", "error"} : Concludes(w, out, called)
     \/ ~spec.repair /\ Concludes(w, "forbidden", TRUE)

\* requireScheduledJobLeaseTx
BugOccurrenceSuffices(w) ==
  {r \in rounds : /\ job.status = "active" /\ Pending(r) /\ r.status = "claimed"
                  /\ r.occ = work[w].lease.occ /\ work[w].at < job.expires}

OwnRound(w) ==
  LET lease == work[w].lease IN
  {r \in rounds : /\ job.status = "active" /\ Held(r) /\ work[w].at < job.expires
                  /\ r.occ = lease.occ /\ r.gen = lease.gen
                  /\ r.attempt = lease.attempt /\ r.ord = lease.ord}

Calls(w) == job.calls + IF work[w].called THEN 1 ELSE 0

CallsSpent(w) == spec.calls > 0 /\ Calls(w) >= spec.calls

\* CompleteScheduledJobRound
Complete(w) ==
  LET at == work[w].at
      out == work[w].out
      row == [Released EXCEPT !.occ = 0, !.rounds = @ + 1, !.calls = Calls(w),
                !.unchanged = IF out = "changed" THEN 0 ELSE @ + 1]
      wake == IF out = "changed" THEN NextOccurrence(at)
              ELSE Higher(NextOccurrence(at), at + IdleBackoff(row.unchanged))
      ends(status) == [row EXCEPT !.status = status, !.next = 0]
  IN
  /\ work[w].pc = "closing" /\ out \in {"changed", "unchanged"}
  /\ work[w].called => job.calls < spec.calls
  /\ \E r \in OwnRound(w) :
       rounds' = Settled(r, IF out = "changed" THEN "completed" ELSE "unchanged")
  /\ job' = IF (spec.stops /\ work[w].over) \/ spec.once THEN ends("completed")
            ELSE IF row.rounds >= MaxRounds \/ CallsSpent(w) THEN ends("exhausted")
            ELSE Rescheduled(row, wake)
  /\ Return(w)
  /\ UNCHANGED <<now, spec, consent, authority, ended>>

\* FailScheduledJobRound: whether the round is tried again at the instant.
Retried(w, r, again) ==
  /\ r.attempt < MaxAttempts /\ again < Deadline /\ again < ElapsedBy
  /\ ~(work[w].called /\ CallsSpent(w))

BugRetryCounts(row, again) == [row EXCEPT !.next = again, !.rounds = @ + 1]

AwaitingRetry(row, again) == [row EXCEPT !.next = again]

Fail(w) ==
  LET row == [Released EXCEPT !.calls = Calls(w)] IN
  /\ work[w].pc = "closing" /\ work[w].out = "error"
  /\ work[w].called => job.calls < spec.calls
  /\ \E r \in OwnRound(w) :
     LET again == work[w].at + RetryBackoff(r.attempt) IN
     IF Retried(w, r, again)
     THEN /\ rounds' = Settled(r, "retry_wait")
          /\ job' = AwaitingRetry(row, again)
     ELSE /\ rounds' = Settled(r, "failed")
          /\ job' = [row EXCEPT !.rounds = @ + 1, !.next = 0, !.occ = 0, !.status =
               IF again >= Deadline \/ again >= ElapsedBy \/ (work[w].called /\ CallsSpent(w))
               THEN "exhausted" ELSE "failed"]
  /\ Return(w)
  /\ UNCHANGED <<now, spec, consent, authority, ended>>

\* The report is refused, because the lease is stale or because a tool was
\* used; the claim, if it is still the worker's, runs out.
Refused(w) ==
  /\ work[w].pc = "closing"
  /\ OwnRound(w) = {} \/ work[w].out = "forbidden"
  /\ Return(w)
  /\ UNCHANGED <<now, spec, job, rounds, consent, authority, ended>>

\* The process dies or its context ends: nothing more is reported.
Crash(w) ==
  /\ work[w] # Idle /\ Return(w)
  /\ UNCHANGED <<now, spec, job, rounds, consent, authority, ended>>

WorkerStep(w) ==
  \/ Poll(w) \/ Reconcile(w)
  \/ ClaimNothing(w) \/ ClaimStops(w) \/ Skip(w) \/ ClaimRound(w)
  \/ Observe(w) \/ Executed(w) \/ Complete(w) \/ Fail(w) \/ Refused(w) \/ Crash(w)

Next ==
  \/ Create \/ EnableObservation \/ Pause \/ Resume \/ Cancel
  \/ TargetEnds \/ AuthorityMoves \/ Tick
  \/ \E w \in Workers : WorkerStep(w)

JobsSpec == Init /\ [][Next]_vars
-----------------------------------------------------------------------------
(* Properties                                                              *)

Settlement == {"unchanged", "completed", "failed", "skipped"}

\* While the job goes on its only open round is the pending one, and it is
\* claimed exactly as long as the job's row has a lease, under the same
\* generation; a job that ended has no claimed round.  Seven transactions
\* write the two rows side by side (claim, reconciliation, completion,
\* failure, pause, cancellation and stop of a scheduled job).
RoundsMatch ==
  LET open == {r \in rounds : r.status \in Open}
      claimed == {r \in rounds : r.status = "claimed"} IN
  /\ \A r \in claimed : job.gen = r.gen /\ job.occ = r.occ
  /\ job.gen # 0 => job.status = "active" /\ claimed # {}
  /\ GoesOn =>
       {r.occ : r \in open} = {job.occ} \ {0} /\ Cardinality(open) <= 1

\* The rounds of a job that goes on are numbered without a gap or a double,
\* whatever was retried, skipped, lost with its worker or paused, and no two
\* are of one occurrence: a schedule that fell back to an instant it had
\* before could never be claimed again (the primary key of
\* scheduled_job_rounds).  The budgets hold, of rounds, calls and attempts as
\* of time: on every path that sets the next wake an active job wakes before
\* its deadline or is due already, so that some claim stops it.
RoundsCounted ==
  LET settled == {r \in rounds : r.status \in Settlement} IN
  /\ job.rounds <= MaxRounds /\ job.calls <= spec.calls
  /\ \A r \in rounds : r.attempt <= MaxAttempts
  /\ job.status = "active" => job.next < Deadline \/ job.next <= now
  /\ GoesOn =>
       /\ {r.ord : r \in settled} = 1..job.rounds
       /\ Cardinality(settled) = job.rounds
       /\ \A r \in rounds \ settled : r.ord = job.rounds + 1
       /\ \A r \in settled : job.occ # r.occ
       /\ job.status = "active" /\ job.occ = 0 =>
            \A r \in rounds : r.occ < job.next

\* A settled round stays as it is, and only the worker whose claim the round
\* still bears gives it an outcome, with an instant before the claim's end: a
\* report that comes after a reconciliation, a pause, a stop or a second
\* claim is not taken for the outcome of the later attempt.
RoundsAreFinal ==
  [][/\ \A r \in rounds : r.status \in Settlement => r \in rounds'
     /\ \A r \in rounds' \ rounds : r.status \in {"unchanged", "completed"} =>
          \E w \in Workers :
            /\ work[w].pc = "closing" /\ work'[w] = Idle
            /\ work[w].lease.gen = r.gen /\ work[w].lease.attempt = r.attempt
            /\ work[w].at < work[w].lease.expires]_vars
-----------------------------------------------------------------------------
(* The inductive invariant                                                 *)

Round == [ord : Nat, occ : Nat \ {0}, attempt : 1..MaxAttempts, gen : Nat \ {0},
          status : {"claimed", "retry_wait"} \cup Settlement]

JobRow == [status : {"none", "active", "paused", "completed", "failed", "cancelled",
                    "exhausted"},
           created : Nat, next : Nat, occ : Nat, rounds : Nat, calls : Nat,
           unchanged : Nat, gen : Nat, expires : Nat]

Lease == [occ : Nat, ord : Nat, attempt : Nat, gen : Nat, expires : Nat, calls : Nat]

Work == [pc : {"idle", "polling", "reconciled", "claimed", "executing", "closing"},
         at : Nat, lease : Lease,
         out : {"none", "unchanged", "changed", "error", "forbidden"},
         called : BOOLEAN, over : BOOLEAN]

\* Every variable keeps its range.
TypeOK ==
  /\ now \in Nat \ {0} /\ spec \in Specs
  /\ job \in JobRow /\ rounds \subseteq Round
  /\ consent \in BOOLEAN /\ authority \in BOOLEAN /\ ended \in BOOLEAN
  /\ work \in [Workers -> Work]

\* The rows have a key, and the only open one is the pending one.
PendingIsOpen ==
  /\ \A r, s \in rounds : r.occ = s.occ => r = s
  /\ job.status = "none" => job = NoJob /\ rounds = {}
  /\ job.status = "active" => job.next # 0
  /\ \A r \in rounds : r.status = "claimed" => Held(r)
  /\ job.gen # 0 => job.status = "active" /\ job.occ # 0
  /\ GoesOn =>
       /\ \A r \in rounds : r.status \in Open => r.occ = job.occ
       /\ job.occ # 0 => \E r \in rounds :
            /\ r.occ = job.occ /\ r.status \in Open
            /\ job.gen # 0 => r.gen = job.gen /\ r.status = "claimed"

SettledRows(R) == {r \in R : r.status \in Settlement}

\* What the job counts is what its rows add up to.
CountsAreRows ==
  /\ job.rounds <= MaxRounds /\ job.unchanged <= job.rounds /\ job.calls <= spec.calls
  /\ IsFiniteSet(rounds)
  /\ GoesOn =>
       /\ {r.ord : r \in SettledRows(rounds)} = 1..job.rounds
       /\ Cardinality(SettledRows(rounds)) = job.rounds
       /\ \A r \in rounds \ SettledRows(rounds) : r.ord = job.rounds + 1
       /\ job.occ # 0 => job.rounds < MaxRounds

\* Occurrences come in the order of time: the pending one is the latest, and a
\* job that waits for the next one wakes after all it had.
OccurrencesAdvance ==
  /\ \A r \in rounds : r.occ <= now
  /\ \A w \in Workers :
       /\ work[w].at <= now
       /\ work[w].pc # "idle" => work[w].at # 0
       /\ work[w].lease.occ <= work[w].at
  /\ GoesOn /\ job.occ # 0 => \A r \in rounds : r.occ <= job.occ
  /\ job.status = "active" =>
       /\ job.next < Deadline \/ job.next <= now
       /\ job.occ <= job.next
       /\ job.occ = 0 => \A r \in rounds : r.occ < job.next

\* A generation is new in every claim, so that a worker that knows the
\* generation of the job's lease knows the lease.
LeasesAreKnown ==
  /\ \E top \in {r.gen : r \in rounds} \cup {0} :
       /\ \A r \in rounds : r.gen <= top
       /\ \A w \in Workers : work[w].lease.gen <= top
  /\ \A w \in Workers :
       job.gen # 0 /\ work[w].lease.gen = job.gen => work[w].lease.expires = job.expires
  /\ job.gen # 0 => job.occ <= job.expires

\* The parts hold each other up; all three properties above follow.
JobsInv ==
  TypeOK /\ PendingIsOpen /\ CountsAreRows /\ OccurrencesAdvance /\ LeasesAreKnown
=============================================================================
