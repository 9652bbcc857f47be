------------------------ MODULE ScheduledJobs_proofs ------------------------
(***************************************************************************)
(* Proofs about ScheduledJobs, for any workers, specifications, budgets    *)
(* and leases: JobsInv is inductive, and from it follow that the job and   *)
(* its rounds agree, that a round counts once and stays within its         *)
(* budgets, and that no report is taken for another attempt.               *)
(***************************************************************************)
EXTENDS ScheduledJobs, FiniteSetTheorems, TLAPS

-----------------------------------------------------------------------------
\* The schedule.

\* Schedule.NextOccurrence comes after the instant it is asked for, and a
\* periodic schedule always has one.
LEMMA NextIsLater ==
  ASSUME JobsAssumption, TypeOK, NEW t \in Nat
  PROVE  /\ NextOccurrence(t) \in Nat
         /\ NextOccurrence(t) # 0 => NextOccurrence(t) > t
         /\ ~spec.once => NextOccurrence(t) # 0
<1>1. spec.anchor \in Nat \ {0} /\ spec.once \in BOOLEAN /\ Interval \in Nat \ {0}
  BY DEF JobsAssumption, TypeOK, Spec
<1>2. CASE t < spec.anchor
  BY <1>1, <1>2 DEF NextOccurrence
<1>3. CASE ~(t < spec.anchor) /\ spec.once
  BY <1>1, <1>3 DEF NextOccurrence
<1>4. CASE ~(t < spec.anchor) /\ ~spec.once
  <2> DEFINE a == t - spec.anchor
             q == a \div Interval
  <2>1. a \in Nat
    BY <1>1, <1>4
  <2>2. q \in Nat /\ a < (q + 1) * Interval
    <3> HIDE DEF a
    <3> QED BY <1>1, <2>1
  <2>3. (q + 1) * Interval \in Nat
    BY <1>1, <2>2
  <2>4. NextOccurrence(t) = spec.anchor + (q + 1) * Interval
    BY <1>4 DEF NextOccurrence
  <2>5. t = spec.anchor + a
    BY <1>1, <1>4
  <2> HIDE DEF a, q
  <2> QED BY <1>1, <2>1, <2>2, <2>3, <2>4, <2>5
<1> QED BY <1>2, <1>3, <1>4

\* RetryBackoff and IdleBackoff are durations.
LEMMA BackoffType ==
  ASSUME JobsAssumption, PowerAssumption, NEW n \in 1..(MaxAttempts + MaxRounds)
  PROVE  RetryBackoff(n) \in Nat /\ IdleBackoff(n) \in Nat
<1> DEFINE p == 2 ^ (n - 1)
<1>1. /\ {Interval, InitialBackoff, MaxBackoff, IdleCap} \subseteq Nat
      /\ MaxAttempts + MaxRounds \in Nat
  BY DEF JobsAssumption
<1>2. p \in Nat
  <2>1. n - 1 \in 0..(MaxAttempts + MaxRounds)
    BY <1>1
  <2> QED BY <2>1 DEF PowerAssumption
<1>3. RetryBackoff(n) = Lower(MaxBackoff, InitialBackoff * p)
  BY DEF RetryBackoff
<1>4. \/ IdleBackoff(n) = Interval
      \/ IdleBackoff(n) = Lower(IdleCap, Interval * p)
  BY DEF IdleBackoff
<1> HIDE DEF p
<1>5. InitialBackoff * p \in Nat /\ Interval * p \in Nat
  BY <1>1, <1>2
<1> QED BY <1>1, <1>3, <1>4, <1>5 DEF Lower

-----------------------------------------------------------------------------
\* The rows.

\* A row that is given another status, in a table that has its key, keeps the
\* key; if it was claimed and is no longer, no row is claimed.
LEMMA SettledKeeps ==
  ASSUME TypeOK, PendingIsOpen, NEW r \in rounds, Held(r),
         NEW status \in {"retry_wait"} \cup Settlement
  PROVE  /\ Settled(r, status) \subseteq Round
         /\ [r EXCEPT !.status = status] \in Settled(r, status)
         /\ \A s \in Settled(r, status) :
              s.status # "claimed" /\ (s \in rounds \/ s = [r EXCEPT !.status = status])
         /\ \A s, t \in Settled(r, status) : s.occ = t.occ => s = t
<1> DEFINE new == [r EXCEPT !.status = status]
<1>1. r \in Round /\ new \in Round /\ new.occ = r.occ /\ new.status = status
  BY DEF TypeOK, Round
<1>2. Settled(r, status) = (rounds \ {r}) \cup {new}
  BY DEF Settled
<1>3. \A s \in rounds \ {r} : s.occ # r.occ /\ s.status # "claimed"
  BY DEF PendingIsOpen, Held
<1>4. status # "claimed"
  BY DEF Settlement
<1> HIDE DEF new
<1>5. rounds \subseteq Round
  BY DEF TypeOK
<1>6. \A s, t \in rounds : s.occ = t.occ => s = t
  BY DEF PendingIsOpen
<1> QED BY <1>1, <1>2, <1>3, <1>4, <1>5, <1>6 DEF new

\* A revocation settles the claimed row, if there is one.
LEMMA RevokedIsSettled ==
  ASSUME TypeOK, PendingIsOpen, NEW status
  PROVE  /\ \A r \in rounds : Held(r) => Revoked(status) = Settled(r, status)
         /\ job.gen = 0 => Revoked(status) = rounds
         /\ job.gen # 0 => \E r \in rounds : Held(r)
<1>1. ASSUME NEW r \in rounds, Held(r) PROVE Revoked(status) = Settled(r, status)
  <2>1. \A s \in rounds : Held(s) <=> s = r
    BY <1>1 DEF PendingIsOpen, Held
  <2> QED BY <2>1 DEF Revoked, Settled
<1>2. ASSUME job.gen = 0 PROVE Revoked(status) = rounds
  <2>1. \A r \in rounds : ~Held(r)
    BY <1>2 DEF Held, TypeOK, Round
  <2> QED BY <2>1 DEF Revoked
<1>3. ASSUME job.gen # 0 PROVE \E r \in rounds : Held(r)
  BY <1>3 DEF PendingIsOpen, GoesOn, Held
<1> QED BY <1>1, <1>2, <1>3

\* A revocation leaves rows, still numbered by their key.
LEMMA RevokedRows ==
  ASSUME TypeOK, PendingIsOpen, NEW status \in {"retry_wait"} \cup Settlement
  PROVE  /\ Revoked(status) \subseteq Round
         /\ \A s \in Revoked(status) : s.status # "claimed"
         /\ \A s, t \in Revoked(status) : s.occ = t.occ => s = t
<1>1. CASE job.gen = 0
  <2>1. Revoked(status) = rounds
    BY <1>1, RevokedIsSettled
  <2>2. \A s \in rounds : s.status # "claimed"
    BY <1>1 DEF PendingIsOpen, Held, TypeOK, Round
  <2> QED BY <2>1, <2>2 DEF TypeOK, PendingIsOpen
<1>2. CASE job.gen # 0
  <2>1. PICK r \in rounds : Held(r) /\ Revoked(status) = Settled(r, status)
    BY <1>2, RevokedIsSettled
  <2>2. /\ Settled(r, status) \subseteq Round
        /\ \A s \in Settled(r, status) : s.status # "claimed"
        /\ \A s, t \in Settled(r, status) : s.occ = t.occ => s = t
    BY <2>1, SettledKeeps
  <2> QED BY <2>1, <2>2
<1> QED BY <1>1, <1>2

\* A worker's own round is the row that the job's lease has claimed.
LEMMA OwnIsHeld ==
  ASSUME NEW w \in Workers, NEW r \in OwnRound(w)
  PROVE  /\ r \in rounds /\ Held(r) /\ r.occ = work[w].lease.occ
         /\ r.gen = work[w].lease.gen /\ r.attempt = work[w].lease.attempt
         /\ job.status = "active" /\ work[w].at < job.expires
BY DEF OwnRound

\* The highest generation of the rows, and so the next one.
LEMMA NextGeneration ==
  ASSUME TypeOK, LeasesAreKnown
  PROVE  LET top == Max({r.gen : r \in rounds} \cup {0}) IN
         /\ top \in Nat
         /\ \A r \in rounds : r.gen <= top
         /\ \A w \in Workers : work[w].lease.gen <= top
<1> DEFINE gens == {r.gen : r \in rounds} \cup {0}
<1>1. PICK top \in gens : (\A r \in rounds : r.gen <= top)
                            /\ \A w \in Workers : work[w].lease.gen <= top
  BY DEF LeasesAreKnown
<1>2. gens \subseteq Nat
  BY DEF TypeOK, Round
<1>3. \A g \in gens : top >= g
  BY <1>1, <1>2
<1>4. Max(gens) \in gens /\ \A g \in gens : Max(gens) >= g
  BY <1>1, <1>3 DEF Max
<1>5. Max(gens) = top
  BY <1>1, <1>2, <1>3, <1>4
<1> QED BY <1>1, <1>2, <1>5

-----------------------------------------------------------------------------
\* Types.

\* A worker that goes on, returns or concludes is where a worker may be.
LEMMA WorkTypes ==
  ASSUME TypeOK, NEW w \in Workers
  PROVE  /\ Return(w) => work' \in [Workers -> Work]
         /\ \A pc \in {"polling", "reconciled", "claimed", "executing"} :
              Goto(w, pc) => work' \in [Workers -> Work]
         /\ \A called \in BOOLEAN, out \in {"unchanged", "changed", "error", "forbidden"} :
              Concludes(w, out, called) => TypeOK'
<1>1. Idle \in Work
  BY DEF Idle, NoLease, Work, Lease
<1>2. Return(w) => work' \in [Workers -> Work]
  BY <1>1 DEF Return, TypeOK
<1>3. ASSUME NEW pc \in {"polling", "reconciled", "claimed", "executing"}, Goto(w, pc)
      PROVE  work' \in [Workers -> Work]
  BY <1>3 DEF Goto, TypeOK, Work
<1>4. ASSUME NEW called \in BOOLEAN,
             NEW out \in {"unchanged", "changed", "error", "forbidden"},
             Concludes(w, out, called)
      PROVE  TypeOK'
  <2> DEFINE new == [work[w] EXCEPT !.pc = "closing", !.at = now, !.out = out,
                                    !.called = called, !.over = ended]
  <2>1. work' = [work EXCEPT ![w] = new]
    BY <1>4 DEF Concludes, TypeOK
  <2>2. new \in Work
    <3>1. work[w] \in Work /\ now \in Nat /\ ended \in BOOLEAN
      BY DEF TypeOK
    <3> QED BY <1>4, <3>1 DEF Work
  <2> HIDE DEF new
  <2>3. work' \in [Workers -> Work]
    BY <2>1, <2>2 DEF TypeOK
  <2> QED BY <1>4, <2>3 DEF Concludes, TypeOK
<1> QED BY <1>2, <1>3, <1>4

\* A job's row stays one when it loses its lease, and when it ends.
LEMMA JobTypes ==
  ASSUME job \in JobRow
  PROVE  /\ Released \in JobRow
         /\ \A status \in {"completed", "failed", "cancelled", "exhausted"} :
              Stopped(status) \in JobRow
<1>1. Released \in JobRow
  BY DEF Released, JobRow
<1> QED BY <1>1 DEF Stopped, JobRow

\* A job that RunNow or an event wakes keeps its row's type.
LEMMA RescheduledType ==
  ASSUME NEW row \in JobRow, NEW wake \in Nat
  PROVE  Rescheduled(row, wake) \in JobRow
BY DEF Rescheduled, JobRow

-----------------------------------------------------------------------------
\* What the three writes with many outcomes make of the job and its rounds.

\* A claim puts one claimed row, of a generation that no row had, in the place
\* of the row of its occurrence, if there was one.
LEMMA ClaimEffect ==
  ASSUME JobsAssumption, JobsInv, NEW w \in Workers, ClaimRound(w)
  PROVE  \E row \in Round :
           /\ row.status = "claimed"
           /\ \A r \in rounds : r.gen < row.gen
           /\ \A v \in Workers : work[v].lease.gen < row.gen
           /\ rounds' = {r \in rounds : r.occ # row.occ} \cup {row}
           /\ job' = [job EXCEPT !.occ = row.occ, !.gen = row.gen,
                                 !.expires = work[w].at + LeaseTicks]
           /\ \E lease \in Lease :
                /\ lease.occ = row.occ /\ lease.gen = row.gen
                /\ lease.expires = work[w].at + LeaseTicks
                /\ work' = [work EXCEPT ![w].pc = "claimed", ![w].lease = lease]
           /\ \/ /\ job.occ = 0 /\ row.occ = job.next /\ row.ord = job.rounds + 1
                 /\ \A r \in rounds : r.occ # row.occ
              \/ /\ job.occ # 0
                 /\ \E r \in rounds : /\ r.occ = job.occ /\ r.status \in Open
                                      /\ row.occ = r.occ /\ row.ord = r.ord
<1> USE DEF JobsInv
<1> DEFINE at == work[w].at
           gen == Max({r.gen : r \in rounds} \cup {0}) + 1
           open == {r \in rounds : job.occ # 0 /\ Pending(r)}
           fresh == [ord |-> job.rounds + 1, occ |-> job.next, attempt |-> 1,
                     gen |-> gen, status |-> "claimed"]
           again(r) == [r EXCEPT !.attempt = @ + 1, !.gen = gen, !.status = "claimed"]
           row == IF job.occ = 0 THEN fresh ELSE again(CHOOSE r \in open : TRUE)
           lease == [occ |-> row.occ, ord |-> job.rounds + 1, attempt |-> row.attempt,
                     gen |-> gen, expires |-> at + LeaseTicks, calls |-> job.calls]
<1>1. /\ gen \in Nat \ {0}
      /\ \A r \in rounds : r.gen < gen
      /\ \A v \in Workers : work[v].lease.gen < gen
  <2> DEFINE top == Max({r.gen : r \in rounds} \cup {0})
  <2>1. top \in Nat /\ (\A r \in rounds : r.gen <= top)
          /\ \A v \in Workers : work[v].lease.gen <= top
    BY NextGeneration
  <2>2. (\A r \in rounds : r.gen \in Nat) /\ \A v \in Workers : work[v].lease.gen \in Nat
    BY DEF TypeOK, Round, Work, Lease
  <2>3. gen = top + 1
    OBVIOUS
  <2> HIDE DEF top, gen
  <2> QED BY <2>1, <2>2, <2>3
<1>2. /\ rounds' = (rounds \ open) \cup {row}
      /\ job' = [job EXCEPT !.occ = row.occ, !.gen = gen, !.expires = at + LeaseTicks]
      /\ work' = [work EXCEPT ![w].pc = "claimed", ![w].lease = lease]
  BY <1>1 DEF ClaimRound
<1>3. /\ job.status = "active" /\ ~Worn(at) /\ ~Taken(at)
      /\ job.occ = 0 => \A r \in rounds : r.occ # job.next /\ r.ord # job.rounds + 1
      /\ job.occ # 0 => \E r \in open : r.status \in Open
  BY DEF ClaimRound, Due
<1>4. /\ job.next \in Nat \ {0} /\ job.rounds \in Nat /\ job.occ \in Nat /\ job.calls \in Nat
      /\ at + LeaseTicks \in Nat /\ 1 \in 1..MaxAttempts
  BY <1>3 DEF PendingIsOpen, TypeOK, JobRow, Work, JobsAssumption
<1> HIDE DEF gen, at
<1>5. CASE job.occ = 0
  <2>1. row = fresh /\ open = {}
    BY <1>5
  <2>2. fresh \in Round
    BY <1>1, <1>4 DEF Round
  <2>3. lease \in Lease /\ lease.occ = row.occ /\ lease.gen = gen
          /\ lease.expires = at + LeaseTicks
    <3>1. row.occ = job.next /\ row.attempt = 1
      BY <2>1
    <3> HIDE DEF row, fresh, open
    <3> QED BY <1>1, <1>4, <3>1 DEF Lease
  <2>4. \A r \in rounds : r.occ # row.occ
    BY <1>3, <1>5, <2>1
  <2>5. rounds' = {r \in rounds : r.occ # row.occ} \cup {row}
    BY <1>2, <2>1, <2>4
  <2>6. row \in Round /\ row.status = "claimed" /\ row.gen = gen /\ row.occ = job.next
         /\ row.ord = job.rounds + 1
    BY <2>1, <2>2
  <2> HIDE DEF row, fresh, lease
  <2> QED BY <1>1, <1>2, <1>5, <2>3, <2>4, <2>5, <2>6 DEF at
<1>6. CASE job.occ # 0
  <2>1. PICK r \in open : r.status \in Open
    BY <1>3, <1>6
  <2>2. \A s \in open : s = r
    BY <2>1 DEF PendingIsOpen, Pending
  <2>3. (CHOOSE s \in open : TRUE) = r
    BY <2>1, <2>2
  <2>4. r \in Round /\ r \in rounds /\ r.occ = job.occ
    BY <2>1 DEF TypeOK, Pending
  <2>5. r.attempt + 1 \in 1..MaxAttempts
    <3>1. ~(r.attempt >= MaxAttempts)
      BY <1>3, <2>4 DEF Worn, Pending
    <3> QED BY <2>4, <3>1 DEF Round, JobsAssumption
  <2>6. row = again(r)
    BY <1>6, <2>3
  <2>7. again(r) \in Round /\ again(r).status = "claimed" /\ again(r).gen = gen
         /\ again(r).occ = r.occ /\ again(r).ord = r.ord
    BY <1>1, <2>4, <2>5 DEF Round
  <2>8. row \in Round /\ row.status = "claimed" /\ row.gen = gen
         /\ row.occ = r.occ /\ row.ord = r.ord
    BY <2>6, <2>7
  <2>9. lease \in Lease /\ lease.occ = row.occ /\ lease.gen = gen
          /\ lease.expires = at + LeaseTicks
    <3> HIDE DEF row
    <3> QED BY <1>1, <1>4, <2>8 DEF Lease, Round
  <2>10. open = {s \in rounds : s.occ = row.occ}
    BY <1>6, <2>4, <2>8 DEF Pending
  <2> HIDE DEF row, lease
  <2>11. rounds' = {s \in rounds : s.occ # row.occ} \cup {row}
    BY <1>2, <2>10
  <2> HIDE DEF open
  <2> QED BY <1>1, <1>2, <1>6, <2>1, <2>4, <2>8, <2>9, <2>11 DEF at
<1> QED BY <1>4, <1>5, <1>6

\* A completion settles the worker's own round and counts it; the job ends, or
\* wakes again before its deadline and after the instant of the report.
LEMMA CompleteEffect ==
  ASSUME JobsAssumption, PowerAssumption, JobsInv, NEW w \in Workers, Complete(w)
  PROVE  /\ \E r \in OwnRound(w), status \in {"completed", "unchanged"} :
              rounds' = Settled(r, status)
         /\ job' \in JobRow
         /\ job'.occ = 0 /\ job'.gen = 0 /\ job'.rounds = job.rounds + 1
         /\ job'.calls = Calls(w) /\ job'.unchanged <= job.unchanged + 1
         /\ \/ /\ job'.status = "active" /\ job'.rounds < MaxRounds
               /\ job'.next > work[w].at /\ job'.next < Deadline
            \/ job'.status \in {"completed", "exhausted"}
<1> USE DEF JobsInv
<1> DEFINE at == work[w].at
           out == work[w].out
           row == [Released EXCEPT !.occ = 0, !.rounds = @ + 1, !.calls = Calls(w),
                     !.unchanged = IF out = "changed" THEN 0 ELSE @ + 1]
           wake == IF out = "changed" THEN NextOccurrence(at)
                   ELSE Higher(NextOccurrence(at), at + IdleBackoff(row.unchanged))
           ends(status) == [row EXCEPT !.status = status, !.next = 0]
<1>1. /\ job \in JobRow /\ at \in Nat /\ Deadline \in Nat /\ MaxRounds \in Nat
      /\ MaxAttempts \in Nat /\ spec.once \in BOOLEAN /\ Calls(w) \in Nat
  BY DEF JobsAssumption, TypeOK, Work, JobRow, Spec, Calls
<1>2. PICK r \in OwnRound(w) :
        rounds' = Settled(r, IF out = "changed" THEN "completed" ELSE "unchanged")
  BY DEF Complete
<1>3. job.status = "active"
  BY <1>2, OwnIsHeld
<1>4. /\ row \in JobRow /\ row.occ = 0 /\ row.gen = 0 /\ row.rounds = job.rounds + 1
      /\ row.calls = Calls(w) /\ row.status = "active"
      /\ row.unchanged = IF out = "changed" THEN 0 ELSE job.unchanged + 1
  <2>1. /\ Released \in JobRow /\ Released.rounds = job.rounds /\ Released.gen = 0
        /\ Released.unchanged = job.unchanged /\ Released.status = "active"
    BY <1>1, <1>3 DEF Released, JobRow
  <2> DEFINE u == IF out = "changed" THEN 0 ELSE job.unchanged + 1
  <2>2. u \in Nat /\ job.rounds + 1 \in Nat
    BY <1>1 DEF JobRow
  <2>3. row = [Released EXCEPT !.occ = 0, !.rounds = job.rounds + 1, !.calls = Calls(w),
                               !.unchanged = u]
    BY <2>1
  <2> HIDE DEF row, u
  <2>4. /\ row \in JobRow /\ row.occ = 0 /\ row.gen = 0 /\ row.rounds = job.rounds + 1
        /\ row.calls = Calls(w) /\ row.status = "active" /\ row.unchanged = u
    BY <1>1, <2>1, <2>2, <2>3 DEF JobRow
  <2> QED BY <2>4 DEF u
<1>5. job' = IF (spec.stops /\ work[w].over) \/ spec.once THEN ends("completed")
             ELSE IF row.rounds >= MaxRounds \/ CallsSpent(w) THEN ends("exhausted")
             ELSE Rescheduled(row, wake)
  BY DEF Complete
<1>6. row.rounds < MaxRounds /\ ~spec.once => wake \in Nat /\ wake > at
  <2>1. /\ NextOccurrence(at) \in Nat
        /\ ~spec.once => NextOccurrence(at) > at
    BY <1>1, NextIsLater
  <2>2. row.rounds < MaxRounds /\ out # "changed" => IdleBackoff(row.unchanged) \in Nat
    <3> SUFFICES ASSUME row.rounds < MaxRounds, out # "changed"
                 PROVE  row.unchanged \in 1..(MaxAttempts + MaxRounds)
      BY BackoffType
    <3>1. job.unchanged <= job.rounds /\ job.unchanged \in Nat /\ job.rounds \in Nat
      BY <1>1 DEF CountsAreRows, JobRow
    <3> HIDE DEF row
    <3> QED BY <1>1, <1>4, <3>1
  <2> HIDE DEF row
  <2> QED BY <1>1, <2>1, <2>2 DEF Higher
<1>7. \A status \in {"completed", "exhausted"} :
        /\ ends(status) \in JobRow /\ ends(status).status = status
        /\ ends(status).occ = 0 /\ ends(status).gen = 0 /\ ends(status).rounds = row.rounds
        /\ ends(status).calls = row.calls /\ ends(status).unchanged = row.unchanged
  <2> HIDE DEF row
  <2> QED BY <1>4 DEF JobRow
<1>8. wake \in Nat =>
        /\ Rescheduled(row, wake) \in JobRow
        /\ Rescheduled(row, wake).occ = 0 /\ Rescheduled(row, wake).gen = 0
        /\ Rescheduled(row, wake).rounds = row.rounds
        /\ Rescheduled(row, wake).calls = row.calls
        /\ Rescheduled(row, wake).unchanged = row.unchanged
        /\ \/ Rescheduled(row, wake).status = "exhausted"
           \/ /\ Rescheduled(row, wake).status = "active"
              /\ Rescheduled(row, wake).next = wake /\ wake < Deadline
  <2> HIDE DEF row, wake
  <2> SUFFICES ASSUME wake \in Nat
               PROVE  /\ Rescheduled(row, wake) \in JobRow
                      /\ Rescheduled(row, wake).occ = 0 /\ Rescheduled(row, wake).gen = 0
                      /\ Rescheduled(row, wake).rounds = row.rounds
                      /\ Rescheduled(row, wake).calls = row.calls
                      /\ Rescheduled(row, wake).unchanged = row.unchanged
                      /\ \/ Rescheduled(row, wake).status = "exhausted"
                         \/ /\ Rescheduled(row, wake).status = "active"
                            /\ Rescheduled(row, wake).next = wake /\ wake < Deadline
    OBVIOUS
  <2>1. CASE wake = 0 \/ wake >= Deadline
    <3>1. Rescheduled(row, wake) = [row EXCEPT !.status = "exhausted", !.next = 0]
      BY <2>1 DEF Rescheduled
    <3> QED BY <1>4, <3>1 DEF JobRow
  <2>2. CASE ~(wake = 0 \/ wake >= Deadline)
    <3>1. Rescheduled(row, wake) = [row EXCEPT !.next = wake]
      BY <2>2 DEF Rescheduled
    <3> QED BY <1>1, <1>4, <2>2, <3>1 DEF JobRow
  <2> QED BY <2>1, <2>2
<1>9. job.unchanged \in Nat /\ row.unchanged <= job.unchanged + 1
        /\ row.rounds \in Nat
  <2> HIDE DEF row
  <2> QED BY <1>1, <1>4 DEF JobRow
<1> HIDE DEF row, wake, ends, at, out
<1>10. \E s \in OwnRound(w), status \in {"completed", "unchanged"} : rounds' = Settled(s, status)
  BY <1>2
<1>11. CASE (spec.stops /\ work[w].over) \/ spec.once
  BY <1>4, <1>5, <1>7, <1>9, <1>10, <1>11
<1>12. CASE ~((spec.stops /\ work[w].over) \/ spec.once)
           /\ (row.rounds >= MaxRounds \/ CallsSpent(w))
  BY <1>4, <1>5, <1>7, <1>9, <1>10, <1>12
<1>13. CASE ~((spec.stops /\ work[w].over) \/ spec.once)
           /\ ~(row.rounds >= MaxRounds \/ CallsSpent(w))
  <2>1. job' = Rescheduled(row, wake) /\ row.rounds < MaxRounds
    BY <1>1, <1>5, <1>9, <1>13
  <2>2. wake \in Nat /\ wake > at
    BY <1>6, <1>13, <2>1
  <2> QED BY <1>4, <1>8, <1>9, <1>10, <2>1, <2>2 DEF at
<1> QED BY <1>11, <1>12, <1>13

\* A failure settles the worker's own round: it waits for its next attempt,
\* or it is counted and the job ends.
LEMMA FailEffect ==
  ASSUME JobsAssumption, PowerAssumption, JobsInv, NEW w \in Workers, Fail(w)
  PROVE  /\ job' \in JobRow /\ job'.gen = 0 /\ job'.calls = Calls(w)
         /\ job'.unchanged = job.unchanged
         /\ \E r \in OwnRound(w) :
              \/ /\ rounds' = Settled(r, "retry_wait")
                 /\ job'.status = "active" /\ job'.occ = job.occ /\ job'.rounds = job.rounds
                 /\ job'.next >= work[w].at /\ job'.next < Deadline
              \/ /\ rounds' = Settled(r, "failed")
                 /\ job'.status \in {"failed", "exhausted"}
                 /\ job'.occ = 0 /\ job'.rounds = job.rounds + 1
<1> USE DEF JobsInv
<1> DEFINE at == work[w].at
           row == [Released EXCEPT !.calls = Calls(w)]
<1>1. /\ job \in JobRow /\ at \in Nat /\ Deadline \in Nat /\ Calls(w) \in Nat
      /\ job.created + Elapsed \in Nat
  BY DEF JobsAssumption, TypeOK, Work, JobRow, Calls
<1>2. PICK r \in OwnRound(w) :
        LET again == at + RetryBackoff(r.attempt) IN
        IF Retried(w, r, again)
        THEN /\ rounds' = Settled(r, "retry_wait")
             /\ job' = AwaitingRetry(row, again)
        ELSE /\ rounds' = Settled(r, "failed")
             /\ job' = [row EXCEPT !.rounds = @ + 1, !.next = 0, !.occ = 0, !.status =
                  IF again >= Deadline \/ again >= ElapsedBy \/ (work[w].called /\ CallsSpent(w))
                  THEN "exhausted" ELSE "failed"]
  BY DEF Fail
<1> DEFINE again == at + RetryBackoff(r.attempt)
<1>3. job.status = "active" /\ r \in Round
  BY <1>2, OwnIsHeld DEF TypeOK
<1>4. /\ row \in JobRow /\ row.occ = job.occ /\ row.gen = 0 /\ row.rounds = job.rounds
      /\ row.calls = Calls(w) /\ row.status = "active" /\ row.unchanged = job.unchanged
      /\ job.rounds \in Nat
  BY <1>1, <1>3 DEF Released, JobRow
<1>5. RetryBackoff(r.attempt) \in Nat
  <2>1. r.attempt \in 1..(MaxAttempts + MaxRounds)
    BY <1>3 DEF Round, JobsAssumption
  <2> QED BY <2>1, BackoffType
<1>6. again \in Nat /\ again >= at
  BY <1>1, <1>5
<1>7. CASE Retried(w, r, again)
  <2>1. rounds' = Settled(r, "retry_wait") /\ job' = [row EXCEPT !.next = again]
    BY <1>2, <1>7 DEF AwaitingRetry
  <2>2. again < Deadline
    BY <1>7 DEF Retried
  <2> HIDE DEF row, again
  <2> QED BY <1>2, <1>4, <1>6, <2>1, <2>2 DEF JobRow, at
<1>8. CASE ~Retried(w, r, again)
  <2>1. PICK status \in {"failed", "exhausted"} :
          job' = [row EXCEPT !.rounds = @ + 1, !.next = 0, !.occ = 0, !.status = status]
    BY <1>2, <1>8
  <2>2. rounds' = Settled(r, "failed")
    BY <1>2, <1>8
  <2> HIDE DEF row, again
  <2>3. job' = [row EXCEPT !.rounds = job.rounds + 1, !.next = 0, !.occ = 0, !.status = status]
    BY <1>4, <2>1
  <2>4. job' \in JobRow /\ job'.gen = 0 /\ job'.calls = Calls(w) /\ job'.status = status
         /\ job'.unchanged = job.unchanged /\ job'.occ = 0 /\ job'.rounds = job.rounds + 1
    <3>1. job.rounds + 1 \in Nat /\ row \in JobRow
      BY <1>4
    <3>2. job' \in JobRow
      BY <2>3, <3>1 DEF JobRow
    <3>3. job'.gen = row.gen /\ job'.calls = row.calls /\ job'.unchanged = row.unchanged
      BY <2>3, <3>1 DEF JobRow
    <3>4. job'.status = status /\ job'.occ = 0 /\ job'.rounds = job.rounds + 1
      BY <2>3, <3>1 DEF JobRow
    <3> QED BY <1>4, <3>2, <3>3, <3>4
  <2> QED BY <1>2, <2>2, <2>4
<1> QED BY <1>7, <1>8

\* Every step keeps the types (one case per action).
LEMMA StepType ==
  ASSUME JobsAssumption, PowerAssumption, JobsInv, Next
  PROVE  TypeOK'
<1> USE DEF JobsInv
<1>0. /\ spec \in Spec /\ Deadline \in Nat /\ LeaseTicks \in Nat /\ MaxRounds \in Nat
      /\ MaxAttempts \in Nat \ {0} /\ Elapsed \in Nat
  BY DEF JobsAssumption, TypeOK
<1>1. CASE Create
  BY <1>0, <1>1 DEF Create, TypeOK, NoJob, JobRow, Spec
<1>2. CASE EnableObservation \/ TargetEnds \/ AuthorityMoves \/ Tick
  <2>1. CASE EnableObservation
    BY <2>1 DEF EnableObservation, TypeOK
  <2>2. CASE TargetEnds
    BY <2>2 DEF TargetEnds, TypeOK
  <2>3. CASE AuthorityMoves
    <3>1. authority' \in BOOLEAN
      BY <2>3 DEF AuthorityMoves
    <3> QED BY <2>3, <3>1 DEF AuthorityMoves, TypeOK
  <2>4. CASE Tick
    BY <2>4 DEF Tick, TypeOK
  <2> QED BY <1>2, <2>1, <2>2, <2>3, <2>4
<1>3. CASE Pause
  <2>1. Revoked("retry_wait") \subseteq Round
    BY RevokedRows
  <2>2. job' \in JobRow
    BY <1>3, JobTypes DEF Pause, JobRow, TypeOK
  <2> QED BY <1>3, <2>1, <2>2 DEF Pause, TypeOK
<1>4. CASE Resume
  BY <1>4 DEF Resume, TypeOK, JobRow
<1>5. ASSUME NEW status \in {"completed", "failed", "cancelled", "exhausted"}, 
             job' = Stopped(status), rounds' = Revoked("failed"),
             work' \in [Workers -> Work],
             UNCHANGED <<now, spec, consent, authority, ended>>
      PROVE TypeOK'
  <2>1. Revoked("failed") \subseteq Round
    BY RevokedRows DEF Settlement
  <2> QED BY <1>5, <2>1, JobTypes DEF TypeOK
<1>6. CASE Cancel
  BY <1>5, <1>6 DEF Cancel, TypeOK
<1>7. ASSUME NEW w \in Workers, Poll(w) \/ ClaimNothing(w) \/ Refused(w) \/ Crash(w)
      PROVE TypeOK'
  <2>1. CASE Poll(w)
    <3> DEFINE new == [work[w] EXCEPT !.pc = "polling", !.at = now]
    <3>1. new \in Work
      BY DEF TypeOK, Work
    <3>2. work' = [work EXCEPT ![w] = new]
      BY <2>1 DEF Poll, TypeOK
    <3> HIDE DEF new
    <3> QED BY <2>1, <3>1, <3>2 DEF Poll, TypeOK
  <2> QED BY <1>7, <2>1, WorkTypes DEF ClaimNothing, Refused, Crash, TypeOK
<1>8. ASSUME NEW w \in Workers, Reconcile(w) PROVE TypeOK'
  <2>1. work' \in [Workers -> Work] /\ work[w].at \in Nat
    BY <1>8, WorkTypes DEF Reconcile, TypeOK, Work
  <2>2. CASE UNCHANGED <<job, rounds>>
    BY <1>8, <2>1, <2>2 DEF Reconcile, TypeOK
  <2>3. ASSUME NEW r \in rounds, Held(r), rounds' = Settled(r, "retry_wait"),
               job' = [Released EXCEPT !.next = work[w].at]
        PROVE TypeOK'
    <3>1. rounds' \subseteq Round
      BY <2>3, SettledKeeps
    <3>2. job' \in JobRow
      BY <2>1, <2>3, JobTypes DEF JobRow, TypeOK
    <3> QED BY <1>8, <2>1, <3>1, <3>2 DEF Reconcile, TypeOK
  <2> QED BY <1>8, <2>2, <2>3 DEF Reconcile
<1>9. ASSUME NEW w \in Workers, ClaimStops(w) PROVE TypeOK'
  <2>1. \E status \in {"exhausted", "completed", "failed"} : job' = Stopped(status)
    BY <1>9 DEF ClaimStops, Verdict
  <2> QED BY <1>5, <1>9, <2>1, WorkTypes DEF ClaimStops
<1>10. ASSUME NEW w \in Workers, Skip(w) PROVE TypeOK'
  <2>1. work[w].at \in Nat /\ job \in JobRow
    BY DEF TypeOK, Work
  <2>2. rounds' \subseteq Round
    <3>1. job.next \in Nat \ {0} /\ job.rounds + 1 \in Nat
      BY <1>10, <2>1 DEF Skip, Due, PendingIsOpen, JobRow
    <3>2. [ord |-> job.rounds + 1, occ |-> job.next, attempt |-> 1, gen |-> 1,
           status |-> "skipped"] \in Round
      BY <1>0, <3>1 DEF Round, Settlement
    <3>3. [job EXCEPT !.rounds = @ + 1].rounds = job.rounds + 1
      BY <2>1 DEF JobRow
    <3> QED BY <1>10, <3>2, <3>3 DEF Skip, TypeOK
  <2>3. job' \in JobRow
    <3>1. [job EXCEPT !.rounds = @ + 1] \in JobRow
      BY <2>1 DEF JobRow
    <3>2. NextOccurrence(work[w].at) \in Nat
      BY <2>1, NextIsLater
    <3>3. Rescheduled([job EXCEPT !.rounds = @ + 1], NextOccurrence(work[w].at)) \in JobRow
      BY <3>1, <3>2, RescheduledType
    <3>4. [[job EXCEPT !.rounds = @ + 1] EXCEPT !.status = "exhausted", !.next = 0] \in JobRow
      BY <3>1 DEF JobRow
    <3> QED BY <1>10, <3>3, <3>4 DEF Skip
  <2> QED BY <1>10, <2>2, <2>3, WorkTypes DEF Skip, TypeOK
<1>11. ASSUME NEW w \in Workers, ClaimRound(w) PROVE TypeOK'
  <2>1. PICK row \in Round :
          /\ rounds' = {r \in rounds : r.occ # row.occ} \cup {row}
          /\ job' = [job EXCEPT !.occ = row.occ, !.gen = row.gen,
                                !.expires = work[w].at + LeaseTicks]
          /\ \E lease \in Lease :
               work' = [work EXCEPT ![w].pc = "claimed", ![w].lease = lease]
    BY <1>11, ClaimEffect
  <2>2. rounds' \subseteq Round
    BY <2>1 DEF TypeOK
  <2>3. job' \in JobRow
    <3>1. work[w].at + LeaseTicks \in Nat /\ row.occ \in Nat /\ row.gen \in Nat /\ job \in JobRow
      BY <1>0, <2>1 DEF TypeOK, Round, Work
    <3> QED BY <2>1, <3>1 DEF JobRow
  <2>4. work' \in [Workers -> Work]
    <3>1. PICK lease \in Lease : work' = [work EXCEPT ![w].pc = "claimed", ![w].lease = lease]
      BY <2>1
    <3> DEFINE new == [work[w] EXCEPT !.pc = "claimed", !.lease = lease]
    <3>2. new \in Work
      BY DEF TypeOK, Work
    <3>3. work' = [work EXCEPT ![w] = new]
      BY <3>1 DEF TypeOK
    <3> HIDE DEF new
    <3> QED BY <3>2, <3>3 DEF TypeOK
  <2> QED BY <1>11, <2>2, <2>3, <2>4 DEF ClaimRound, TypeOK
<1>12. ASSUME NEW w \in Workers, Observe(w) \/ Executed(w) PROVE TypeOK'
  <2>1. CASE UNCHANGED <<now, spec, job, rounds, consent, authority, ended>> /\ Goto(w, "executing")
    BY <2>1, WorkTypes DEF TypeOK
  <2>2. CASE \E out \in {"unchanged", "changed", "error", "forbidden"}, called \in BOOLEAN :
                Concludes(w, out, called)
    BY <2>2, WorkTypes
  <2> QED BY <1>12, <2>1, <2>2 DEF Observe, Executed
<1>13. ASSUME NEW w \in Workers, Complete(w) PROVE TypeOK'
  <2>1. job' \in JobRow /\ \E r \in OwnRound(w), status \in {"completed", "unchanged"} :
                             rounds' = Settled(r, status)
    BY <1>13, CompleteEffect
  <2>2. rounds' \subseteq Round
    BY <2>1, OwnIsHeld, SettledKeeps DEF Settlement
  <2> QED BY <1>13, <2>1, <2>2, WorkTypes DEF Complete, TypeOK
<1>14. ASSUME NEW w \in Workers, Fail(w) PROVE TypeOK'
  <2>1. job' \in JobRow /\ \E r \in OwnRound(w), status \in {"retry_wait", "failed"} :
                             rounds' = Settled(r, status)
    BY <1>14, FailEffect
  <2>2. rounds' \subseteq Round
    BY <2>1, OwnIsHeld, SettledKeeps DEF Settlement
  <2> QED BY <1>14, <2>1, <2>2, WorkTypes DEF Fail, TypeOK
<1> QED BY <1>1, <1>2, <1>3, <1>4, <1>6, <1>7, <1>8, <1>9, <1>10, <1>11, <1>12,
           <1>13, <1>14 DEF Next, WorkerStep

-----------------------------------------------------------------------------
\* What a step makes of the job and its rounds, whoever takes it.

Ended == {"completed", "failed", "cancelled", "exhausted"}

\* The counters of the rounds are kept.
CountersKept == job'.rounds = job.rounds /\ job'.unchanged = job.unchanged

\* Nothing, as far as the two rows go.
Quiet == UNCHANGED <<job, rounds>>

\* The claimed round waits for its next attempt.
Waits ==
  /\ \E r \in rounds : Held(r) /\ rounds' = Settled(r, "retry_wait")
  /\ job'.gen = 0 /\ job'.occ = job.occ /\ CountersKept
  /\ job'.status \in {"active", "paused"}
  /\ job'.status = "active" =>
       job'.next >= job.occ /\ job'.next # 0 /\ (job'.next < Deadline \/ job'.next <= now)

\* A job without a claim is paused, or resumed at this instant.
Rests ==
  /\ GoesOn /\ job.gen = 0 /\ job'.gen = 0
  /\ rounds' = rounds /\ job'.occ = job.occ /\ CountersKept
  /\ \/ job'.status = "paused"
     \/ /\ job'.status = "active" /\ job'.next = now
        /\ job.occ = 0 => \A r \in rounds : r.occ # now

\* The job ends, and with it the round that was claimed.
Ends ==
  /\ GoesOn /\ job'.status \in Ended /\ job'.gen = 0
  /\ \/ rounds' = rounds /\ job.gen = 0
     \/ \E r \in rounds, status \in Settlement : Held(r) /\ rounds' = Settled(r, status)
  /\ job'.rounds <= MaxRounds /\ job'.unchanged <= job'.rounds

\* The claimed round is counted and the job goes on.
Counts ==
  /\ job'.status = "active" /\ job'.gen = 0 /\ job'.occ = 0
  /\ job'.rounds = job.rounds + 1 /\ job'.rounds <= MaxRounds
  /\ job'.unchanged <= job'.rounds
  /\ \E r \in rounds, status \in Settlement :
       Held(r) /\ rounds' = Settled(r, status) /\ job'.next > r.occ
  /\ job'.next < Deadline

\* A missed occurrence is counted as a round.
Skips ==
  /\ job.status = "active" /\ job.occ = 0 /\ job.gen = 0 /\ job.next <= now
  /\ \E row \in Round :
       /\ row.occ = job.next /\ row.ord = job.rounds + 1
       /\ row.gen = 1 /\ row.status = "skipped"
       /\ rounds' = rounds \cup {row}
  /\ \A r \in rounds : r.occ # job.next
  /\ job'.occ = 0 /\ job'.gen = 0
  /\ job'.rounds = job.rounds + 1 /\ job'.rounds <= MaxRounds
  /\ job'.unchanged = job.unchanged
  /\ \/ job'.status = "exhausted"
     \/ job'.status = "active" /\ job'.next > job.next /\ job'.next < Deadline

\* A worker claims the occurrence that is due, or the round that is pending.
Claims ==
  \E row \in Round, w \in Workers :
    /\ job.status = "active" /\ job'.status = "active"
    /\ row.status = "claimed" /\ row.occ <= job.next /\ job.next <= work[w].at
    /\ \A r \in rounds : r.gen < row.gen
    /\ \A v \in Workers : work[v].lease.gen < row.gen
    /\ rounds' = {r \in rounds : r.occ # row.occ} \cup {row}
    /\ job'.occ = row.occ /\ job'.gen = row.gen /\ job'.next = job.next /\ CountersKept
    /\ job'.expires = work[w].at + LeaseTicks
    /\ \E lease \in Lease :
         /\ lease.occ = row.occ /\ lease.gen = row.gen
         /\ lease.expires = work[w].at + LeaseTicks
         /\ work' = [work EXCEPT ![w].pc = "claimed", ![w].lease = lease]
    /\ job.rounds < MaxRounds
    /\ \/ /\ job.occ = 0 /\ row.occ = job.next /\ row.ord = job.rounds + 1
          /\ \A r \in rounds : r.occ # row.occ
       \/ /\ job.occ # 0
          /\ \E r \in rounds : /\ r.occ = job.occ /\ r.status \in Open
                               /\ row.occ = r.occ /\ row.ord = r.ord

\* A revocation undoes a claim or finds none.
LEMMA RevocationEffect ==
  ASSUME JobsInv, NEW status \in {"retry_wait"} \cup Settlement, rounds' = Revoked(status)
  PROVE  \/ rounds' = rounds /\ job.gen = 0
         \/ \E r \in rounds : Held(r) /\ rounds' = Settled(r, status)
BY RevokedIsSettled DEF JobsInv

\* A claim is one in the sense above.
LEMMA ClaimRoundClaims ==
  ASSUME JobsAssumption, JobsInv, NEW w \in Workers, ClaimRound(w)
  PROVE  Claims
<1> USE DEF JobsInv
<1>0. /\ job \in JobRow /\ MaxRounds \in Nat /\ job.rounds \in Nat /\ job.rounds <= MaxRounds
      /\ job.next \in Nat
  BY DEF JobsAssumption, TypeOK, CountsAreRows, JobRow
<1>1. /\ job.status = "active" /\ job.next <= work[w].at /\ job.rounds < MaxRounds
  <2>1. Due(w) /\ Verdict(work[w].at) = "active"
    BY DEF ClaimRound
  <2> QED BY <1>0, <2>1 DEF Due, Verdict, PreclaimStop
<1>2. PICK row \in Round :
         /\ row.status = "claimed"
         /\ \A r \in rounds : r.gen < row.gen
         /\ \A v \in Workers : work[v].lease.gen < row.gen
         /\ rounds' = {r \in rounds : r.occ # row.occ} \cup {row}
         /\ job' = [job EXCEPT !.occ = row.occ, !.gen = row.gen,
                               !.expires = work[w].at + LeaseTicks]
         /\ \E lease \in Lease :
              /\ lease.occ = row.occ /\ lease.gen = row.gen
              /\ lease.expires = work[w].at + LeaseTicks
              /\ work' = [work EXCEPT ![w].pc = "claimed", ![w].lease = lease]
         /\ \/ /\ job.occ = 0 /\ row.occ = job.next /\ row.ord = job.rounds + 1
               /\ \A r \in rounds : r.occ # row.occ
            \/ /\ job.occ # 0
               /\ \E r \in rounds : /\ r.occ = job.occ /\ r.status \in Open
                                    /\ row.occ = r.occ /\ row.ord = r.ord
  BY ClaimEffect
<1>3. job'.occ = row.occ /\ job'.gen = row.gen /\ job'.next = job.next /\ CountersKept
       /\ job'.expires = work[w].at + LeaseTicks /\ job'.status = job.status
  BY <1>0, <1>2 DEF CountersKept, JobRow
<1>4. row.occ <= job.next
  BY <1>0, <1>1, <1>2 DEF OccurrencesAdvance
<1>5. job'.status = "active"
  BY <1>1, <1>3
<1> USE DEF Claims
<1> WITNESS row \in Round, w \in Workers
<1> QED BY <1>1, <1>2, <1>3, <1>4, <1>5

\* Every step of the specification is one of these.
LEMMA StepEffect ==
  ASSUME JobsAssumption, PowerAssumption, JobsInv, Next
  PROVE  Create \/ Quiet \/ Waits \/ Rests \/ Ends \/ Counts \/ Skips \/ Claims
<1> USE DEF JobsInv
<1>0. /\ job \in JobRow /\ now \in Nat \ {0} /\ Deadline \in Nat /\ MaxRounds \in Nat
      /\ \A w \in Workers : work[w] \in Work /\ work[w].at \in Nat
      /\ job.rounds <= MaxRounds /\ job.unchanged <= job.rounds
      /\ job.rounds \in Nat /\ job.unchanged \in Nat /\ job.next \in Nat /\ job.occ \in Nat
  BY DEF JobsAssumption, TypeOK, CountsAreRows, JobRow, Work
<1>1. ASSUME EnableObservation \/ TargetEnds \/ AuthorityMoves \/ Tick PROVE Quiet
  BY <1>1 DEF EnableObservation, TargetEnds, AuthorityMoves, Tick, Quiet
<1>2. CASE Pause
  <2>1. job'.gen = 0 /\ job'.status = "paused" /\ job'.occ = job.occ /\ CountersKept
    BY <1>0, <1>2 DEF Pause, Released, CountersKept, JobRow
  <2>2. \/ rounds' = rounds /\ job.gen = 0
        \/ \E r \in rounds : Held(r) /\ rounds' = Settled(r, "retry_wait")
    BY <1>2, RevocationEffect DEF Pause
  <2>3. GoesOn
    BY <1>2 DEF Pause, GoesOn
  <2> QED BY <2>1, <2>2, <2>3 DEF Waits, Rests
<1>3. CASE Resume
  <2>1. job.gen = 0 /\ GoesOn
    BY <1>3 DEF Resume, PendingIsOpen, GoesOn
  <2>2. job'.gen = job.gen /\ job'.status = "active" /\ job'.occ = job.occ /\ CountersKept
          /\ job'.next = now
    BY <1>0, <1>3 DEF Resume, CountersKept, JobRow
  <2> QED BY <1>3, <2>1, <2>2 DEF Resume, Rests
<1>4. ASSUME GoesOn, NEW status \in Ended, job' = Stopped(status), rounds' = Revoked("failed")
      PROVE  Ends
  <2>1. \/ rounds' = rounds /\ job.gen = 0
        \/ \E r \in rounds : Held(r) /\ rounds' = Settled(r, "failed")
    BY <1>4, RevocationEffect DEF Settlement
  <2>2. job'.gen = 0 /\ job'.status = status /\ CountersKept
    BY <1>0, <1>4 DEF Stopped, Released, CountersKept, JobRow
  <2> QED BY <1>0, <1>4, <2>1, <2>2 DEF Ends, Settlement, CountersKept
<1>5. CASE Cancel
  BY <1>4, <1>5 DEF Cancel, Ended
<1>6. ASSUME NEW w \in Workers, Poll(w) \/ ClaimNothing(w) \/ Refused(w) \/ Crash(w)
      PROVE Quiet
  BY <1>6 DEF Poll, ClaimNothing, Refused, Crash, Quiet
<1>7. ASSUME NEW w \in Workers, Observe(w) \/ Executed(w) PROVE Quiet
  BY <1>7 DEF Observe, Executed, Concludes, Quiet
<1>8. ASSUME NEW w \in Workers, Reconcile(w) PROVE Quiet \/ Waits
  <2>1. CASE UNCHANGED <<job, rounds>>
    BY <2>1 DEF Quiet
  <2>2. ASSUME NEW r \in rounds, Held(r), rounds' = Settled(r, "retry_wait"),
               job' = [Released EXCEPT !.next = work[w].at],
               job.status = "active", job.gen # 0, job.expires <= work[w].at
        PROVE Waits
    <3>1. /\ job'.gen = 0 /\ job'.occ = job.occ /\ CountersKept /\ job'.status = "active"
          /\ job'.next = work[w].at
      BY <1>0, <2>2 DEF Released, CountersKept, JobRow
    <3>2. work[w].at # 0 /\ work[w].at <= now
      BY <1>8 DEF Reconcile, OccurrencesAdvance
    <3>3. job.occ <= work[w].at
      BY <1>0, <2>2 DEF LeasesAreKnown, JobRow
    <3> QED BY <2>2, <3>1, <3>2, <3>3 DEF Waits
  <2> QED BY <1>8, <2>1, <2>2 DEF Reconcile
<1>9. ASSUME NEW w \in Workers, ClaimStops(w) PROVE Ends
  <2>1. \E status \in Ended : job' = Stopped(status)
    BY <1>9 DEF ClaimStops, Verdict, Ended
  <2>2. GoesOn
    BY <1>9 DEF ClaimStops, Due, GoesOn
  <2> QED BY <1>4, <1>9, <2>1, <2>2 DEF ClaimStops
<1>10. ASSUME NEW w \in Workers, Skip(w) PROVE Skips
  <2> DEFINE row == [job EXCEPT !.rounds = @ + 1]
             next == NextOccurrence(work[w].at)
             round == [ord |-> row.rounds, occ |-> job.next, attempt |-> 1, gen |-> 1,
                       status |-> "skipped"]
  <2>1. /\ job.status = "active" /\ job.occ = 0 /\ job.gen = 0 /\ job.next # 0
        /\ job.next <= work[w].at /\ work[w].at <= now /\ job.rounds < MaxRounds
    BY <1>0, <1>10 DEF Skip, Due, Skippable, Verdict, PreclaimStop, PendingIsOpen,
                       OccurrencesAdvance
  <2>2. row \in JobRow /\ row.rounds = job.rounds + 1 /\ row.occ = 0 /\ row.gen = 0
         /\ row.unchanged = job.unchanged /\ row.status = "active"
    BY <1>0, <2>1 DEF JobRow
  <2>3. /\ \A r \in rounds : r.occ # job.next
        /\ rounds' = rounds \cup {round}
        /\ job' = IF row.rounds >= MaxRounds
                  THEN [row EXCEPT !.status = "exhausted", !.next = 0]
                  ELSE Rescheduled(row, next)
    BY <1>10 DEF Skip
  <2>4. /\ round \in Round /\ round.occ = job.next /\ round.ord = job.rounds + 1
        /\ round.gen = 1 /\ round.status = "skipped"
    BY <1>0, <2>1, <2>2 DEF Round, Settlement, JobsAssumption
  <2>5. next \in Nat /\ (next # 0 => next > work[w].at)
    BY <1>0, NextIsLater
  <2> HIDE DEF row, next, round
  <2>6. \/ job' = [row EXCEPT !.status = "exhausted", !.next = 0]
        \/ job' = [row EXCEPT !.next = next] /\ next # 0 /\ ~(next >= Deadline)
    BY <2>3 DEF Rescheduled
  <2>7. /\ job'.occ = 0 /\ job'.gen = 0 /\ job'.rounds = job.rounds + 1
        /\ job'.unchanged = job.unchanged
        /\ \/ job'.status = "exhausted"
           \/ job'.status = "active" /\ job'.next = next /\ next # 0 /\ ~(next >= Deadline)
    BY <2>2, <2>6 DEF JobRow
  <2>8. \/ job'.status = "exhausted"
        \/ job'.status = "active" /\ job'.next > job.next /\ job'.next < Deadline
    BY <1>0, <2>1, <2>5, <2>7
  <2>9. job.next <= now /\ job'.rounds <= MaxRounds
    BY <1>0, <2>1, <2>7
  <2> QED BY <2>1, <2>3, <2>4, <2>7, <2>8, <2>9 DEF Skips
<1>11. ASSUME NEW w \in Workers, ClaimRound(w) PROVE Claims
  BY <1>11, ClaimRoundClaims
<1>12. ASSUME NEW w \in Workers, Complete(w) PROVE Counts \/ Ends
  <2>1. PICK r \in OwnRound(w), status \in {"completed", "unchanged"} :
               rounds' = Settled(r, status)
    BY <1>12, CompleteEffect
  <2>2. /\ job'.occ = 0 /\ job'.gen = 0 /\ job'.rounds = job.rounds + 1
        /\ job'.unchanged <= job.unchanged + 1
        /\ \/ /\ job'.status = "active" /\ job'.rounds < MaxRounds
              /\ job'.next > work[w].at /\ job'.next < Deadline
           \/ job'.status \in {"completed", "exhausted"}
        /\ job' \in JobRow
    BY <1>12, CompleteEffect
  <2>3. r \in rounds /\ Held(r) /\ r.occ <= work[w].at /\ r.occ \in Nat \ {0}
         /\ job.status = "active" /\ status \in Settlement
    BY <2>1, OwnIsHeld DEF OccurrencesAdvance, TypeOK, Round, Settlement
  <2>4. GoesOn /\ job.rounds < MaxRounds
    BY <2>3 DEF GoesOn, Held, CountsAreRows
  <2>5. job'.next \in Nat /\ job'.unchanged \in Nat
    BY <2>2 DEF JobRow
  <2>6. job'.rounds <= MaxRounds /\ job'.unchanged <= job'.rounds
    BY <1>0, <2>2, <2>4, <2>5
  <2>7. CASE job'.status = "active"
    <3>1. job'.next > r.occ /\ job'.next < Deadline
      BY <1>0, <2>2, <2>3, <2>5, <2>7
    <3> QED BY <2>1, <2>2, <2>3, <2>6, <2>7, <3>1 DEF Counts
  <2>8. CASE job'.status \in {"completed", "exhausted"}
    BY <2>1, <2>2, <2>3, <2>4, <2>6, <2>8 DEF Ends, Ended
  <2> QED BY <2>2, <2>7, <2>8
<1>13. ASSUME NEW w \in Workers, Fail(w) PROVE Waits \/ Ends
  <2>1. job'.gen = 0 /\ job'.unchanged = job.unchanged /\ job' \in JobRow
    BY <1>13, FailEffect
  <2>2. PICK r \in OwnRound(w) :
          \/ /\ rounds' = Settled(r, "retry_wait")
             /\ job'.status = "active" /\ job'.occ = job.occ /\ job'.rounds = job.rounds
             /\ job'.next >= work[w].at /\ job'.next < Deadline
          \/ /\ rounds' = Settled(r, "failed")
             /\ job'.status \in {"failed", "exhausted"}
             /\ job'.occ = 0 /\ job'.rounds = job.rounds + 1
    BY <1>13, FailEffect
  <2>3. r \in rounds /\ Held(r) /\ r.occ <= work[w].at /\ r.occ \in Nat \ {0}
         /\ job.status = "active" /\ r.occ = job.occ
    BY OwnIsHeld DEF OccurrencesAdvance, TypeOK, Round, Held
  <2>4. GoesOn /\ job.rounds < MaxRounds
    BY <2>3 DEF GoesOn, CountsAreRows
  <2>5. CASE rounds' = Settled(r, "retry_wait") /\ job'.status = "active"
             /\ job'.occ = job.occ /\ job'.rounds = job.rounds
             /\ job'.next >= work[w].at /\ job'.next < Deadline
    <3>1. job'.next \in Nat
      BY <2>1 DEF JobRow
    <3>2. job'.next >= job.occ /\ job'.next # 0
      BY <1>0, <2>3, <2>5, <3>1
    <3> QED BY <2>1, <2>3, <2>5, <3>2 DEF Waits, CountersKept
  <2>6. CASE rounds' = Settled(r, "failed") /\ job'.status \in {"failed", "exhausted"}
             /\ job'.occ = 0 /\ job'.rounds = job.rounds + 1
    <3>1. job'.rounds <= MaxRounds /\ job'.unchanged <= job'.rounds
      BY <1>0, <2>1, <2>4, <2>6
    <3> QED BY <2>1, <2>3, <2>4, <2>6, <3>1 DEF Ends, Ended, Settlement
  <2> QED BY <2>2, <2>5, <2>6
<1> QED BY <1>1, <1>2, <1>3, <1>5, <1>6, <1>7, <1>8, <1>9, <1>10, <1>11, <1>12, <1>13
        DEF Next, WorkerStep

-----------------------------------------------------------------------------
\* The parts of the invariant.

\* A step of the two rows, or none at all.
RowStep == Create \/ Quiet \/ Waits \/ Rests \/ Ends \/ Counts \/ Skips \/ Claims

\* A round that was counted leaves none open.
LEMMA PendingAfterCount ==
  ASSUME JobsInv, Counts
  PROVE  \A s \in rounds' : s.status \notin Open
<1> USE DEF JobsInv
<1>1. PICK r \in rounds, status \in Settlement : Held(r) /\ rounds' = Settled(r, status)
  BY DEF Counts
<1> DEFINE new == [r EXCEPT !.status = status]
<1>2. /\ new.status = status /\ new.occ = r.occ /\ new \in rounds'
      /\ \A s \in rounds' : s.status # "claimed" /\ (s \in rounds \/ s = new)
      /\ \A s, t \in rounds' : s.occ = t.occ => s = t
  BY <1>1, SettledKeeps DEF TypeOK, Round
<1>3. \A s \in rounds : s.status \in Open => s.occ = r.occ
  BY <1>1 DEF PendingIsOpen, Held, GoesOn, TypeOK, Round
<1> SUFFICES ASSUME NEW s \in rounds', s.status \in Open PROVE FALSE
  OBVIOUS
<1> HIDE DEF new
<1>4. s \in rounds /\ s.occ = r.occ
  BY <1>2, <1>3 DEF Open, Settlement
<1>5. s = new
  BY <1>2, <1>4
<1> QED BY <1>2, <1>5 DEF Open, Settlement

\* The key of the rounds and the one pending round.
LEMMA StepPending ==
  ASSUME JobsAssumption, JobsInv, TypeOK', RowStep
  PROVE  PendingIsOpen'
<1> USE DEF JobsInv
<1>0. /\ job \in JobRow /\ job' \in JobRow /\ rounds \subseteq Round /\ rounds' \subseteq Round
      /\ now \in Nat \ {0}
  BY DEF TypeOK
<1>1. CASE Create
  <2>1. rounds' = {} /\ job'.status = "active" /\ job'.occ = 0 /\ job'.gen = 0 /\ job'.next # 0
    <3>1. spec.anchor # 0
      BY DEF JobsAssumption, TypeOK, Spec
    <3> QED BY <1>1, <3>1 DEF Create, PendingIsOpen, NoJob
  <2> QED BY <2>1 DEF PendingIsOpen, GoesOn
<1>2. CASE Quiet
  BY <1>2 DEF Quiet, PendingIsOpen, GoesOn, Held
<1>3. CASE Waits
  <2>1. PICK r \in rounds : Held(r) /\ rounds' = Settled(r, "retry_wait")
    BY <1>3 DEF Waits
  <2> DEFINE new == [r EXCEPT !.status = "retry_wait"]
  <2>2. /\ new \in rounds' /\ new.occ = r.occ /\ new.status = "retry_wait"
        /\ \A s \in rounds' : s.status # "claimed" /\ (s \in rounds \/ s = new)
        /\ \A s, t \in rounds' : s.occ = t.occ => s = t
    BY <1>0, <2>1, SettledKeeps DEF Round
  <2>3. GoesOn /\ r.occ = job.occ /\ \A s \in rounds : s.status \in Open => s.occ = job.occ
    BY <1>0, <2>1 DEF PendingIsOpen, Held, GoesOn, Round
  <2> HIDE DEF new
  <2> QED BY <1>3, <2>2, <2>3 DEF Waits, PendingIsOpen, GoesOn, Open
<1>4. CASE Rests
  <2>1. \A s \in rounds : s.status # "claimed"
    BY <1>0, <1>4 DEF Rests, PendingIsOpen, Held, Round
  <2> QED BY <1>0, <1>4, <2>1 DEF Rests, PendingIsOpen, GoesOn, Open
<1>5. CASE Ends
  <2>1. \A s \in rounds' : s.status # "claimed"
    <3>1. CASE rounds' = rounds /\ job.gen = 0
      BY <1>0, <3>1 DEF PendingIsOpen, Held, Round
    <3>2. CASE \E r \in rounds, status \in Settlement : Held(r) /\ rounds' = Settled(r, status)
      BY <3>2, SettledKeeps
    <3> QED BY <1>5, <3>1, <3>2 DEF Ends
  <2>2. \A s, t \in rounds' : s.occ = t.occ => s = t
    <3>1. CASE rounds' = rounds /\ job.gen = 0
      BY <3>1 DEF PendingIsOpen
    <3>2. CASE \E r \in rounds, status \in Settlement : Held(r) /\ rounds' = Settled(r, status)
      BY <3>2, SettledKeeps
    <3> QED BY <1>5, <3>1, <3>2 DEF Ends
  <2> QED BY <1>5, <2>1, <2>2 DEF Ends, Ended, PendingIsOpen, GoesOn
<1>6. CASE Counts
  <2>1. PICK r \in rounds, status \in Settlement : Held(r) /\ rounds' = Settled(r, status)
                                                /\ job'.next > r.occ
    BY <1>6 DEF Counts
  <2> DEFINE new == [r EXCEPT !.status = status]
  <2>2. /\ new.status = status
        /\ \A s \in rounds' : s.status # "claimed" /\ (s \in rounds \/ s = new)
        /\ \A s, t \in rounds' : s.occ = t.occ => s = t
        /\ new \in rounds' /\ new.occ = r.occ
    BY <1>0, <2>1, SettledKeeps DEF Round
  <2>3. GoesOn /\ r.occ = job.occ /\ \A s \in rounds : s.status \in Open => s.occ = job.occ
    BY <1>0, <2>1 DEF PendingIsOpen, Held, GoesOn, Round
  <2>4. \A s \in rounds' : s.status \notin Open
    BY <1>6, PendingAfterCount
  <2>5. job'.next # 0
    BY <1>0, <2>1 DEF Round, JobRow
  <2> HIDE DEF new
  <2> QED BY <1>6, <2>2, <2>4, <2>5 DEF Counts, PendingIsOpen, GoesOn
<1>7. CASE Skips
  <2>1. PICK row \in Round : /\ row.occ = job.next /\ row.status = "skipped"
                             /\ rounds' = rounds \cup {row}
    BY <1>7 DEF Skips
  <2>2. \A r \in rounds : r.status \notin Open /\ r.occ # row.occ
    BY <1>0, <1>7, <2>1 DEF Skips, PendingIsOpen, GoesOn, Round
  <2>3. job'.status = "active" => job'.next # 0
    BY <1>0, <1>7 DEF Skips, JobRow
  <2> QED BY <1>7, <2>1, <2>2, <2>3 DEF Skips, PendingIsOpen, GoesOn, Open
<1>8. CASE Claims
  <2>1. PICK row \in Round :
          /\ job.status = "active" /\ job'.status = "active" /\ row.status = "claimed"
          /\ rounds' = {r \in rounds : r.occ # row.occ} \cup {row}
          /\ job'.occ = row.occ /\ job'.gen = row.gen /\ job'.next = job.next
          /\ job.occ = 0 \/ row.occ = job.occ
    BY <1>8 DEF Claims
  <2>2. \A r \in rounds : r.status \in Open => r.occ = row.occ
    <3>1. \A r \in rounds : r.status \in Open => r.occ = job.occ
      BY <2>1 DEF PendingIsOpen, GoesOn
    <3> QED BY <1>0, <2>1, <3>1 DEF Round
  <2>3. \A r \in rounds' : r.status \in Open => r = row
    BY <2>1, <2>2
  <2>4. \A r, s \in rounds' : r.occ = s.occ => r = s
    BY <2>1 DEF PendingIsOpen
  <2>5. row \in rounds' /\ row.gen # 0 /\ row.occ # 0 /\ job'.next # 0
    BY <2>1 DEF Round, PendingIsOpen
  <2> QED BY <2>1, <2>3, <2>4, <2>5 DEF PendingIsOpen, GoesOn, Open, Held
<1> QED BY <1>1, <1>2, <1>3, <1>4, <1>5, <1>6, <1>7, <1>8 DEF RowStep

\* What settling a claimed row adds to the settled ones.
LEMMA SettledGrow ==
  ASSUME JobsInv, NEW r \in rounds, Held(r), NEW status \in {"retry_wait"} \cup Settlement
  PROVE  /\ IsFiniteSet(Settled(r, status))
         /\ status = "retry_wait" => SettledRows(Settled(r, status)) = SettledRows(rounds)
         /\ status \in Settlement =>
              SettledRows(Settled(r, status)) = SettledRows(rounds) \cup {[r EXCEPT !.status = status]}
         /\ \A s \in Settled(r, status) \ SettledRows(Settled(r, status)) :
              \E t \in rounds \ SettledRows(rounds) : s.ord = t.ord
<1> USE DEF JobsInv
<1> DEFINE new == [r EXCEPT !.status = status]
<1>1. /\ r \in Round /\ new.status = status /\ new.ord = r.ord /\ r.status = "claimed"
      /\ IsFiniteSet(rounds)
  BY DEF TypeOK, Round, Held, CountsAreRows
<1>2. Settled(r, status) = (rounds \ {r}) \cup {new}
  BY DEF Settled
<1>3. IsFiniteSet(Settled(r, status))
  <2>1. IsFiniteSet(rounds \ {r})
    BY <1>1, FS_RemoveElement
  <2> HIDE DEF new
  <2> QED BY <1>2, <2>1, FS_AddElement
<1>4. r \notin SettledRows(rounds)
  BY <1>1 DEF SettledRows, Settlement
<1> HIDE DEF new
<1>5. status = "retry_wait" => SettledRows(Settled(r, status)) = SettledRows(rounds)
  BY <1>1, <1>2, <1>4 DEF SettledRows, Settlement
<1>6. status \in Settlement => SettledRows(Settled(r, status)) = SettledRows(rounds) \cup {new}
  BY <1>1, <1>2, <1>4 DEF SettledRows
<1>7. ASSUME NEW s \in Settled(r, status) \ SettledRows(Settled(r, status))
      PROVE  \E t \in rounds \ SettledRows(rounds) : s.ord = t.ord
  BY <1>1, <1>2, <1>4, <1>7 DEF SettledRows
<1> QED BY <1>3, <1>5, <1>6, <1>7 DEF new

\* One more row is counted as one more, under the next number.
LEMMA OneMore ==
  ASSUME NEW R, IsFiniteSet(R), NEW row, row \notin R, NEW n \in Nat,
         Cardinality(R) = n, {r.ord : r \in R} = 1..n, row.ord = n + 1
  PROVE  /\ Cardinality(R \cup {row}) = n + 1
         /\ {r.ord : r \in R \cup {row}} = 1..(n + 1)
<1>1. Cardinality(R \cup {row}) = n + 1
  BY FS_AddElement
<1>2. {r.ord : r \in R \cup {row}} = {r.ord : r \in R} \cup {n + 1}
  OBVIOUS
<1>3. 1..(n + 1) = (1..n) \cup {n + 1}
  OBVIOUS
<1> QED BY <1>1, <1>2, <1>3

\* Calls never exceed what the job may make: a report with a call is refused
\* at the limit.
LEMMA CallsBounded ==
  ASSUME JobsAssumption, PowerAssumption, JobsInv, Next
  PROVE  job'.calls <= spec'.calls
<1> USE DEF JobsInv
<1>0. /\ job \in JobRow /\ job.calls <= spec.calls /\ spec.calls \in Nat /\ job.calls \in Nat
      /\ spec' = spec
  <2>1. spec' = spec
    <3>1. CASE Create \/ EnableObservation \/ Pause \/ Resume \/ Cancel \/ TargetEnds
               \/ AuthorityMoves \/ Tick
      BY <3>1 DEF Create, EnableObservation, Pause, Resume, Cancel, TargetEnds,
         AuthorityMoves, Tick
    <3>2. ASSUME NEW w \in Workers, WorkerStep(w) PROVE spec' = spec
      <4>1. CASE Poll(w) \/ Reconcile(w) \/ ClaimNothing(w) \/ ClaimStops(w) \/ Refused(w) \/ Crash(w)
        BY <4>1 DEF Poll, Reconcile, ClaimNothing, ClaimStops, Refused, Crash
      <4>2. CASE Observe(w) \/ Executed(w)
        BY <4>2 DEF Observe, Executed, Concludes
      <4>3. CASE Skip(w)
        BY <4>3 DEF Skip
      <4>4. CASE ClaimRound(w)
        BY <4>4 DEF ClaimRound
      <4>5. CASE Complete(w)
        BY <4>5 DEF Complete
      <4>6. CASE Fail(w)
        BY <4>6 DEF Fail
      <4> QED BY <3>2, <4>1, <4>2, <4>3, <4>4, <4>5, <4>6 DEF WorkerStep
    <3> QED BY <3>1, <3>2 DEF Next
  <2> QED BY <2>1 DEF TypeOK, CountsAreRows, JobRow, JobsAssumption, Spec
<1>1. CASE Create
  BY <1>0, <1>1 DEF Create, NoJob
<1>2. ASSUME job' = job PROVE job'.calls <= spec'.calls
  BY <1>0, <1>2
<1>3. CASE EnableObservation \/ TargetEnds \/ AuthorityMoves \/ Tick
  BY <1>2, <1>3 DEF EnableObservation, TargetEnds, AuthorityMoves, Tick
<1>4. CASE Pause \/ Resume
  BY <1>0, <1>4 DEF Pause, Resume, Released, JobRow
<1>5. ASSUME NEW status, job' = Stopped(status) PROVE job'.calls <= spec'.calls
  BY <1>0, <1>5 DEF Stopped, Released, JobRow
<1>6. CASE Cancel
  BY <1>5, <1>6 DEF Cancel
<1>7. ASSUME NEW w \in Workers, Poll(w) \/ ClaimNothing(w) \/ Refused(w) \/ Crash(w)
      PROVE  job'.calls <= spec'.calls
  BY <1>2, <1>7 DEF Poll, ClaimNothing, Refused, Crash
<1>8. ASSUME NEW w \in Workers, Observe(w) \/ Executed(w) PROVE job'.calls <= spec'.calls
  BY <1>2, <1>8 DEF Observe, Executed, Concludes
<1>9. ASSUME NEW w \in Workers, Reconcile(w) PROVE job'.calls <= spec'.calls
  BY <1>0, <1>9 DEF Reconcile, Released, JobRow
<1>10. ASSUME NEW w \in Workers, ClaimStops(w) PROVE job'.calls <= spec'.calls
  BY <1>5, <1>10 DEF ClaimStops
<1>11. ASSUME NEW w \in Workers, Skip(w) PROVE job'.calls <= spec'.calls
  BY <1>0, <1>11 DEF Skip, Rescheduled, JobRow
<1>12. ASSUME NEW w \in Workers, ClaimRound(w) PROVE job'.calls <= spec'.calls
  <2>1. PICK row \in Round : job' = [job EXCEPT !.occ = row.occ, !.gen = row.gen,
                                               !.expires = work[w].at + LeaseTicks]
    BY <1>12, ClaimEffect
  <2> QED BY <1>0, <2>1 DEF JobRow
<1>13. ASSUME NEW w \in Workers, work[w].called => job.calls < spec.calls, job'.calls = Calls(w)
       PROVE  job'.calls <= spec'.calls
  BY <1>0, <1>13 DEF Calls
<1>14. ASSUME NEW w \in Workers, Complete(w) PROVE job'.calls <= spec'.calls
  BY <1>13, <1>14, CompleteEffect DEF Complete
<1>15. ASSUME NEW w \in Workers, Fail(w) PROVE job'.calls <= spec'.calls
  BY <1>13, <1>15, FailEffect DEF Fail
<1> QED BY <1>1, <1>3, <1>4, <1>6, <1>7, <1>8, <1>9, <1>10, <1>11, <1>12, <1>14, <1>15
        DEF Next, WorkerStep

\* What the job counts is what its rows add up to.
LEMMA StepCounts ==
  ASSUME JobsAssumption, JobsInv, TypeOK', RowStep, job'.calls <= spec'.calls
  PROVE  CountsAreRows'
<1> USE DEF JobsInv
<1>0. /\ job \in JobRow /\ job' \in JobRow /\ rounds \subseteq Round /\ MaxRounds \in Nat
      /\ job.rounds \in Nat /\ job.unchanged \in Nat /\ IsFiniteSet(rounds)
      /\ job.rounds <= MaxRounds /\ job.unchanged <= job.rounds
  BY DEF TypeOK, JobRow, CountsAreRows, JobsAssumption
<1> DEFINE settled == SettledRows(rounds)
<1>1. IsFiniteSet(settled)
  BY <1>0, FS_Subset DEF SettledRows
<1>2. CASE Create
  <2>1. rounds' = {} /\ job'.rounds = 0 /\ job'.unchanged = 0 /\ job'.occ = 0
    BY <1>2 DEF Create, PendingIsOpen, NoJob
  <2>2. SettledRows(rounds') = {} /\ rounds' \ SettledRows(rounds') = {}
    BY <2>1 DEF SettledRows
  <2>3. Cardinality(SettledRows(rounds')) = 0 /\ IsFiniteSet(rounds')
    BY <2>1, <2>2, FS_EmptySet
  <2>4. {r.ord : r \in SettledRows(rounds')} = 1..job'.rounds
    BY <2>1, <2>2
  <2>5. job'.rounds <= MaxRounds /\ job'.unchanged <= job'.rounds
    BY <1>0, <2>1
  <2> QED BY <2>1, <2>2, <2>3, <2>4, <2>5 DEF CountsAreRows
<1>3. CASE Quiet
  BY <1>3 DEF Quiet, CountsAreRows, GoesOn
<1>4. CASE Waits
  <2>1. PICK r \in rounds : Held(r) /\ rounds' = Settled(r, "retry_wait")
    BY <1>4 DEF Waits
  <2>2. /\ SettledRows(rounds') = settled /\ IsFiniteSet(rounds')
        /\ \A s \in rounds' \ SettledRows(rounds') : \E t \in rounds \ settled : s.ord = t.ord
    BY <2>1, SettledGrow
  <2>3. GoesOn
    BY <1>0, <2>1 DEF Held, PendingIsOpen, GoesOn, Round
  <2> QED BY <1>0, <1>4, <2>2, <2>3 DEF Waits, CountersKept, CountsAreRows
<1>5. CASE Rests
  BY <1>0, <1>5 DEF Rests, CountersKept, CountsAreRows, GoesOn
<1>6. CASE Ends
  <2>1. IsFiniteSet(rounds')
    <3>1. CASE rounds' = rounds /\ job.gen = 0
      BY <1>0, <3>1
    <3>2. CASE \E r \in rounds, status \in Settlement : Held(r) /\ rounds' = Settled(r, status)
      BY <3>2, SettledGrow
    <3> QED BY <1>6, <3>1, <3>2 DEF Ends
  <2> QED BY <1>6, <2>1 DEF Ends, Ended, CountsAreRows, GoesOn
<1>7. CASE Counts
  <2>1. PICK r \in rounds, status \in Settlement : Held(r) /\ rounds' = Settled(r, status)
    BY <1>7 DEF Counts
  <2> DEFINE new == [r EXCEPT !.status = status]
  <2>2. /\ SettledRows(rounds') = settled \cup {new} /\ IsFiniteSet(rounds')
        /\ \A s \in rounds' \ SettledRows(rounds') : \E t \in rounds \ settled : s.ord = t.ord
    BY <2>1, SettledGrow
  <2>3. /\ GoesOn /\ r.occ = job.occ /\ r \in Round /\ r \notin settled
        /\ \A s \in rounds : s.occ = r.occ => s = r
    BY <1>0, <2>1 DEF Held, PendingIsOpen, GoesOn, Round, SettledRows, Settlement
  <2>4. new.ord = job.rounds + 1 /\ new.occ = r.occ
    BY <2>1, <2>3 DEF CountsAreRows, Round
  <2>5. new \notin settled
    <3> HIDE DEF new
    <3> QED BY <2>3, <2>4 DEF SettledRows
  <2>6. Cardinality(settled) = job.rounds /\ {s.ord : s \in settled} = 1..job.rounds
    BY <2>3 DEF CountsAreRows
  <2> HIDE DEF new, settled
  <2>7. /\ Cardinality(settled \cup {new}) = job.rounds + 1
        /\ {s.ord : s \in settled \cup {new}} = 1..(job.rounds + 1)
    BY <1>0, <1>1, <2>4, <2>5, <2>6, OneMore
  <2>8. rounds' \ SettledRows(rounds') = {}
    <3>1. \A s \in rounds' : s.status \notin Open
      BY <1>7, PendingAfterCount
    <3> QED BY <3>1 DEF SettledRows, TypeOK, Round, Open
  <2> QED BY <1>7, <2>2, <2>7, <2>8 DEF Counts, CountsAreRows
<1>8. CASE Skips
  <2>1. PICK row \in Round :
          /\ row.occ = job.next /\ row.ord = job.rounds + 1 /\ row.status = "skipped"
          /\ rounds' = rounds \cup {row}
    BY <1>8 DEF Skips
  <2>2. row \notin rounds /\ row \notin settled
    BY <1>8, <2>1 DEF Skips, SettledRows
  <2>3. SettledRows(rounds') = settled \cup {row} /\ IsFiniteSet(rounds')
    BY <1>0, <2>1, FS_AddElement DEF SettledRows, Settlement
  <2>4. \A s \in rounds : s.status \notin Open
    BY <1>0, <1>8 DEF Skips, PendingIsOpen, GoesOn, Round
  <2>5. rounds' \ SettledRows(rounds') = {}
    BY <1>0, <2>1, <2>4 DEF SettledRows, Round, Open, Settlement
  <2>6. Cardinality(settled) = job.rounds /\ {s.ord : s \in settled} = 1..job.rounds
    BY <1>8 DEF Skips, CountsAreRows, GoesOn
  <2> HIDE DEF settled
  <2>7. /\ Cardinality(settled \cup {row}) = job.rounds + 1
        /\ {s.ord : s \in settled \cup {row}} = 1..(job.rounds + 1)
    BY <1>0, <1>1, <2>1, <2>2, <2>6, OneMore
  <2>8. job'.rounds = job.rounds + 1 /\ job'.rounds <= MaxRounds /\ job'.occ = 0
         /\ job'.unchanged <= job'.rounds
    BY <1>0, <1>8 DEF Skips
  <2> QED BY <2>3, <2>5, <2>7, <2>8 DEF CountsAreRows
<1>9. CASE Claims
  <2>1. PICK row \in Round :
          /\ job.status = "active" /\ row.status = "claimed" /\ job.rounds < MaxRounds
          /\ rounds' = {r \in rounds : r.occ # row.occ} \cup {row} /\ CountersKept
          /\ \/ job.occ = 0 /\ row.ord = job.rounds + 1 /\ \A r \in rounds : r.occ # row.occ
             \/ \E r \in rounds : r.status \in Open /\ row.occ = r.occ /\ row.ord = r.ord
    BY <1>9 DEF Claims
  <2>2. \A r \in rounds : r.occ = row.occ => r.status \in Open /\ r.ord = row.ord
    BY <2>1 DEF PendingIsOpen
  <2>3. SettledRows(rounds') = settled
    BY <2>1, <2>2 DEF SettledRows, Settlement, Open
  <2>4. IsFiniteSet(rounds')
    <3>1. IsFiniteSet({r \in rounds : r.occ # row.occ})
      BY <1>0, FS_Subset
    <3> QED BY <2>1, <3>1, FS_AddElement
  <2>5. row.ord = job.rounds + 1
    BY <2>1 DEF CountsAreRows, GoesOn, SettledRows, Settlement, Open
  <2>6. \A r \in rounds' \ SettledRows(rounds') : r.ord = job.rounds + 1
    BY <2>1, <2>3, <2>5 DEF CountsAreRows, GoesOn
  <2> QED BY <1>0, <2>1, <2>3, <2>4, <2>6 DEF CountsAreRows, CountersKept, GoesOn
<1> QED BY <1>2, <1>3, <1>4, <1>5, <1>6, <1>7, <1>8, <1>9 DEF RowStep

\* What every step leaves of the instants at which the workers selected a job:
\* they are of the past, and none is before the occurrence its worker claimed.
InstantsKept ==
  /\ now' >= now
  /\ \A w \in Workers :
       /\ work'[w].at <= now'
       /\ work'[w].pc # "idle" => work'[w].at # 0
       /\ work'[w].lease.occ <= work'[w].at

\* The clock only goes on, and a worker claims what is due at its instant.
LEMMA StepInstants ==
  ASSUME JobsAssumption, JobsInv, Next
  PROVE  InstantsKept
<1> USE DEF JobsInv
<1>0. /\ now \in Nat \ {0} /\ work \in [Workers -> Work]
      /\ \A w \in Workers :
           /\ work[w].at <= now /\ (work[w].pc # "idle" => work[w].at # 0)
           /\ work[w].lease.occ <= work[w].at
           /\ work[w].at \in Nat /\ work[w].lease.occ \in Nat
  BY DEF TypeOK, OccurrencesAdvance, Work, Lease
<1>1. CASE UNCHANGED work /\ now' \in {now, now + 1}
  BY <1>0, <1>1 DEF InstantsKept
<1>2. CASE Create \/ EnableObservation \/ Pause \/ Resume \/ Cancel \/ TargetEnds
           \/ AuthorityMoves \/ Tick
  BY <1>1, <1>2 DEF Create, EnableObservation, Pause, Resume, Cancel, TargetEnds,
         AuthorityMoves, Tick
<1>3. ASSUME NEW w \in Workers, NEW new \in Work, work' = [work EXCEPT ![w] = new],
             now' = now, new.at <= now, new.pc # "idle" => new.at # 0, new.lease.occ <= new.at
      PROVE  InstantsKept
  BY <1>0, <1>3 DEF InstantsKept
<1>4. ASSUME NEW w \in Workers, Return(w), now' = now
      PROVE  InstantsKept
  <2>1. Idle \in Work /\ Idle.at = 0 /\ Idle.pc = "idle" /\ Idle.lease.occ = 0
    BY DEF Idle, NoLease, Work, Lease
  <2>2. Idle.at <= now /\ Idle.lease.occ <= Idle.at
    BY <1>0, <2>1
  <2>3. work' = [work EXCEPT ![w] = Idle]
    BY <1>4 DEF Return
  <2> HIDE DEF Idle
  <2> QED BY <1>3, <1>4, <2>1, <2>2, <2>3
<1>5. ASSUME NEW w \in Workers, work[w].pc # "idle", now' = now,
             NEW pc \in {"reconciled", "executing"}, Goto(w, pc)
      PROVE  InstantsKept
  <2> DEFINE new == [work[w] EXCEPT !.pc = pc]
  <2>1. new \in Work /\ new.at = work[w].at /\ new.lease = work[w].lease
    BY <1>0 DEF Work
  <2>2. work' = [work EXCEPT ![w] = new]
    BY <1>0, <1>5 DEF Goto
  <2> HIDE DEF new
  <2> QED BY <1>0, <1>3, <1>5, <2>1, <2>2
<1>6. ASSUME NEW w \in Workers, NEW out \in {"unchanged", "changed", "error", "forbidden"},
             NEW called \in BOOLEAN, Concludes(w, out, called)
      PROVE  InstantsKept
  <2> DEFINE new == [work[w] EXCEPT !.pc = "closing", !.at = now, !.out = out,
                                    !.called = called, !.over = ended]
  <2>1. work' = [work EXCEPT ![w] = new]
    BY <1>0, <1>6 DEF Concludes
  <2>2. new \in Work /\ new.at = now /\ new.lease = work[w].lease
    <3>1. ended \in BOOLEAN /\ work[w] \in Work /\ now \in Nat
      BY <1>0 DEF TypeOK
    <3> QED BY <1>6, <3>1 DEF Work
  <2>3. now' = now
    BY <1>6 DEF Concludes
  <2> HIDE DEF new
  <2>4. new.at <= now /\ new.at # 0 /\ new.lease.occ <= new.at
    BY <1>0, <2>2
  <2> QED BY <1>3, <2>1, <2>2, <2>3, <2>4
<1>7. ASSUME NEW w \in Workers, Poll(w)
      PROVE  InstantsKept
  <2> DEFINE new == [work[w] EXCEPT !.pc = "polling", !.at = now]
  <2>1. work' = [work EXCEPT ![w] = new] /\ now' = now
    BY <1>0, <1>7 DEF Poll
  <2>2. new \in Work /\ new.at = now /\ new.lease = work[w].lease
    BY <1>0 DEF Work
  <2> HIDE DEF new
  <2>3. new.at <= now /\ new.at # 0 /\ new.lease.occ <= new.at
    BY <1>0, <2>2
  <2> QED BY <1>3, <2>1, <2>2, <2>3
<1>8. ASSUME NEW w \in Workers, ClaimRound(w)
      PROVE  InstantsKept
  <2>1. Due(w) /\ now' = now /\ job.occ <= job.next
    BY <1>8 DEF ClaimRound, Due, OccurrencesAdvance
  <2>2. PICK row \in Round, lease \in Lease :
          /\ lease.occ = row.occ /\ (row.occ = job.next \/ row.occ = job.occ)
          /\ work' = [work EXCEPT ![w].pc = "claimed", ![w].lease = lease]
    <3>1. PICK row \in Round :
            /\ \E lease \in Lease :
                 /\ lease.occ = row.occ /\ lease.gen = row.gen
                 /\ lease.expires = work[w].at + LeaseTicks
                 /\ work' = [work EXCEPT ![w].pc = "claimed", ![w].lease = lease]
            /\ \/ /\ job.occ = 0 /\ row.occ = job.next /\ row.ord = job.rounds + 1
                  /\ \A r \in rounds : r.occ # row.occ
               \/ /\ job.occ # 0
                  /\ \E r \in rounds : /\ r.occ = job.occ /\ r.status \in Open
                                       /\ row.occ = r.occ /\ row.ord = r.ord
      BY <1>8, ClaimEffect
    <3> QED BY <3>1
  <2> DEFINE new == [work[w] EXCEPT !.pc = "claimed", !.lease = lease]
  <2>3. work' = [work EXCEPT ![w] = new]
    BY <1>0, <2>2
  <2>4. new \in Work /\ new.at = work[w].at /\ new.lease.occ = row.occ
    BY <1>0, <2>2 DEF Work
  <2>5. work[w].at # 0 /\ row.occ <= work[w].at
    BY <1>0, <2>1, <2>2 DEF Due, TypeOK, JobRow
  <2> HIDE DEF new
  <2> QED BY <1>0, <1>3, <2>1, <2>3, <2>4, <2>5
<1>9. ASSUME NEW w \in Workers, WorkerStep(w)
      PROVE  InstantsKept
  <2>1. CASE Reconcile(w)
    BY <1>5, <2>1 DEF Reconcile
  <2>2. CASE ClaimNothing(w) \/ ClaimStops(w) \/ Refused(w) \/ Crash(w)
    BY <1>4, <2>2 DEF ClaimNothing, ClaimStops, Refused, Crash
  <2>3. CASE Skip(w)
    BY <1>4, <2>3 DEF Skip
  <2>4. CASE Complete(w)
    BY <1>4, <2>4 DEF Complete
  <2>5. CASE Fail(w)
    BY <1>4, <2>5 DEF Fail
  <2>6. CASE Observe(w)
    BY <1>5, <1>6, <2>6 DEF Observe
  <2>7. CASE Executed(w)
    BY <1>6, <2>7 DEF Executed
  <2> QED BY <1>7, <1>8, <1>9, <2>1, <2>2, <2>3, <2>4, <2>5, <2>6, <2>7 DEF WorkerStep
<1> QED BY <1>2, <1>9 DEF Next

\* A claim is of the occurrence that is due or of the one that is pending.
LEMMA ClaimedOccurrence ==
  ASSUME Claims
  PROVE  \E row \in Round, w \in Workers :
          /\ job.status = "active" /\ row.occ <= job.next /\ job.next <= work[w].at
          /\ rounds' = {r \in rounds : r.occ # row.occ} \cup {row}
          /\ job'.occ = row.occ /\ job'.next = job.next
          /\ \/ job.occ = 0 /\ row.occ = job.next
             \/ job.occ # 0 /\ row.occ = job.occ
BY DEF Claims

\* Occurrences come in the order of time.
LEMMA StepOccurrences ==
  ASSUME JobsAssumption, JobsInv, TypeOK', RowStep, InstantsKept
  PROVE  OccurrencesAdvance'
<1> USE DEF JobsInv
<1>0. /\ job \in JobRow /\ job' \in JobRow /\ rounds \subseteq Round /\ rounds' \subseteq Round
      /\ now \in Nat \ {0} /\ now' \in Nat /\ now' >= now /\ Deadline \in Nat
      /\ job.next \in Nat /\ job.occ \in Nat /\ job'.next \in Nat /\ job'.occ \in Nat
      /\ \A r \in rounds : r.occ <= now /\ r.occ \in Nat \ {0}
      /\ \A w \in Workers : work[w].at <= now /\ work[w].at \in Nat
      /\ GoesOn /\ job.occ # 0 => \A r \in rounds : r.occ <= job.occ
      /\ job.status = "active" =>
           /\ job.next < Deadline \/ job.next <= now
           /\ job.occ <= job.next
           /\ job.occ = 0 => \A r \in rounds : r.occ < job.next
  BY DEF TypeOK, JobRow, Round, OccurrencesAdvance, JobsAssumption, Work, InstantsKept
<1> SUFFICES
      /\ \A r \in rounds' : r.occ <= now'
      /\ job'.status \in {"active", "paused"} /\ job'.occ # 0 => \A r \in rounds' : r.occ <= job'.occ
      /\ job'.status = "active" =>
           /\ job'.next < Deadline \/ job'.next <= now'
           /\ job'.occ <= job'.next
           /\ job'.occ = 0 => \A r \in rounds' : r.occ < job'.next
  BY DEF OccurrencesAdvance, InstantsKept, GoesOn
<1>1. ASSUME NEW r \in rounds, Held(r), NEW status, rounds' = Settled(r, status)
      PROVE  /\ \A s \in rounds' : s.occ <= r.occ /\ s.occ <= now' /\ r.occ = job.occ /\ r.occ # 0
             /\ job.status = "active"
  <2>1. r.occ = job.occ /\ r.occ # 0 /\ job.status = "active"
    BY <1>0, <1>1 DEF Held, PendingIsOpen, Round
  <2>2. \A s \in rounds' : \E t \in rounds : s.occ = t.occ
    BY <1>0, <1>1 DEF Settled, Round
  <2>3. \A s \in rounds : s.occ <= job.occ
    BY <1>0, <2>1 DEF GoesOn
  <2> QED BY <1>0, <2>1, <2>2, <2>3
<1>2. CASE Create
  <2>1. spec.anchor < Deadline
    BY DEF JobsAssumption, TypeOK
  <2>2. rounds' = {} /\ job'.occ = 0 /\ job'.next = spec.anchor
    BY <1>2 DEF Create, PendingIsOpen, NoJob
  <2> QED BY <1>0, <2>1, <2>2
<1>3. CASE Quiet
  BY <1>0, <1>3 DEF Quiet, GoesOn
<1>4. CASE Waits
  <2>1. PICK r \in rounds : Held(r) /\ rounds' = Settled(r, "retry_wait")
    BY <1>4 DEF Waits
  <2> QED BY <1>0, <1>1, <1>4, <2>1 DEF Waits
<1>5. CASE Rests
  <2>1. job.occ # 0 => \A r \in rounds : r.occ <= job.occ
    BY <1>0, <1>5 DEF Rests
  <2>2. job.occ <= now
    BY <1>0, <1>5 DEF Rests, PendingIsOpen
  <2> QED BY <1>0, <1>5, <2>1, <2>2 DEF Rests
<1>6. CASE Ends
  <2>1. \A r \in rounds' : r.occ <= now'
    BY <1>0, <1>1, <1>6 DEF Ends
  <2> QED BY <1>6, <2>1 DEF Ends, Ended
<1>7. CASE Counts
  <2>1. PICK r \in rounds, status \in Settlement : Held(r) /\ rounds' = Settled(r, status)
                                                /\ job'.next > r.occ
    BY <1>7 DEF Counts
  <2>2. \A s \in rounds' : s.occ <= r.occ /\ s.occ <= now' /\ s.occ \in Nat
    BY <1>0, <1>1, <2>1 DEF Round
  <2> QED BY <1>0, <1>7, <2>1, <2>2 DEF Counts
<1>8. CASE Skips
  <2>1. PICK row \in Round : row.occ = job.next /\ rounds' = rounds \cup {row}
    BY <1>8 DEF Skips
  <2>2. \A r \in rounds : r.occ < job.next
    BY <1>0, <1>8 DEF Skips
  <2>3. job.next <= now
    BY <1>8 DEF Skips
  <2> QED BY <1>0, <1>8, <2>1, <2>2, <2>3 DEF Skips
<1>9. CASE Claims
  <2>1. PICK row \in Round, w \in Workers :
          /\ job.status = "active" /\ row.occ <= job.next /\ job.next <= work[w].at
          /\ rounds' = {r \in rounds : r.occ # row.occ} \cup {row}
          /\ job'.occ = row.occ /\ job'.next = job.next
          /\ \/ job.occ = 0 /\ row.occ = job.next
             \/ job.occ # 0 /\ row.occ = job.occ
    BY <1>9, ClaimedOccurrence
  <2>2. \A r \in rounds : r.occ <= row.occ
    BY <1>0, <2>1 DEF GoesOn
  <2>3. row.occ \in Nat \ {0} /\ row.occ <= now
    BY <1>0, <2>1 DEF Round
  <2>4. \A r \in rounds' : r.occ <= row.occ /\ r.occ <= now'
    BY <1>0, <2>1, <2>2, <2>3
  <2> QED BY <1>0, <2>1, <2>3, <2>4
<1> QED BY <1>2, <1>3, <1>4, <1>5, <1>6, <1>7, <1>8, <1>9 DEF RowStep

\* Only a claim gives a worker a lease.
LEMMA LeaseFrame ==
  ASSUME JobsAssumption, JobsInv, Next, \A w \in Workers : ~ClaimRound(w)
  PROVE  \A w \in Workers : work'[w].lease = work[w].lease \/ work'[w].lease.gen = 0
<1> USE DEF JobsInv
<1>0. work \in [Workers -> Work] /\ Idle.lease.gen = 0
  BY DEF TypeOK, Idle, NoLease
<1>1. CASE Create \/ EnableObservation \/ Pause \/ Resume \/ Cancel \/ TargetEnds
           \/ AuthorityMoves \/ Tick
  BY <1>1 DEF Create, EnableObservation, Pause, Resume, Cancel, TargetEnds,
     AuthorityMoves, Tick
<1>2. ASSUME NEW w \in Workers, Return(w)
      PROVE  \A v \in Workers : work'[v].lease = work[v].lease \/ work'[v].lease.gen = 0
  <2> HIDE DEF Idle
  <2> QED BY <1>0, <1>2 DEF Return
<1>3. ASSUME NEW w \in Workers, NEW pc, Goto(w, pc)
      PROVE  \A v \in Workers : work'[v].lease = work[v].lease
  BY <1>0, <1>3 DEF Goto, Work
<1>4. ASSUME NEW w \in Workers, NEW out, NEW called, Concludes(w, out, called)
      PROVE  \A v \in Workers : work'[v].lease = work[v].lease
  BY <1>0, <1>4 DEF Concludes, Work
<1>5. ASSUME NEW w \in Workers, WorkerStep(w)
      PROVE  \A v \in Workers : work'[v].lease = work[v].lease \/ work'[v].lease.gen = 0
  <2>1. CASE Poll(w)
    BY <1>0, <2>1 DEF Poll, Work
  <2>2. CASE Reconcile(w)
    BY <1>3, <2>2 DEF Reconcile
  <2>3. CASE ClaimNothing(w) \/ ClaimStops(w) \/ Refused(w) \/ Crash(w)
    BY <1>2, <2>3 DEF ClaimNothing, ClaimStops, Refused, Crash
  <2>4. CASE Skip(w)
    BY <1>2, <2>4 DEF Skip
  <2>5. CASE Complete(w)
    BY <1>2, <2>5 DEF Complete
  <2>6. CASE Fail(w)
    BY <1>2, <2>6 DEF Fail
  <2>7. CASE Observe(w) \/ Executed(w)
    BY <1>3, <1>4, <2>7 DEF Observe, Executed
  <2> QED BY <1>5, <2>1, <2>2, <2>3, <2>4, <2>5, <2>6, <2>7 DEF WorkerStep
<1> QED BY <1>1, <1>5 DEF Next

\* Generations are new, and a worker's lease with the job's generation is the
\* job's lease.
LEMMA StepLeases ==
  ASSUME JobsAssumption, JobsInv, TypeOK', RowStep,
         Claims \/ \A w \in Workers : work'[w].lease = work[w].lease \/ work'[w].lease.gen = 0
  PROVE  LeasesAreKnown'
<1> USE DEF JobsInv
<1>0. /\ rounds \subseteq Round /\ rounds' \subseteq Round /\ job \in JobRow /\ job' \in JobRow
      /\ work \in [Workers -> Work] /\ \A r \in Round : r.gen \in Nat \ {0} /\ r.occ \in Nat
      /\ \A w \in Workers : work[w].lease.gen \in Nat /\ work[w].at \in Nat
      /\ LeaseTicks \in Nat /\ job.next \in Nat
  BY DEF TypeOK, Round, Work, Lease, JobsAssumption, JobRow
<1>1. PICK top \in {r.gen : r \in rounds} \cup {0} :
        (\A r \in rounds : r.gen <= top) /\ \A w \in Workers : work[w].lease.gen <= top
  BY DEF LeasesAreKnown
<1>2. top \in Nat
  BY <1>0, <1>1
<1>3. CASE Claims
  <2>1. PICK row \in Round, w \in Workers, lease \in Lease :
          /\ row.occ <= work[w].at
          /\ \A r \in rounds : r.gen < row.gen
          /\ \A v \in Workers : work[v].lease.gen < row.gen
          /\ rounds' = {r \in rounds : r.occ # row.occ} \cup {row}
          /\ job'.occ = row.occ /\ job'.gen = row.gen /\ job'.expires = work[w].at + LeaseTicks
          /\ lease.gen = row.gen /\ lease.expires = work[w].at + LeaseTicks
          /\ work' = [work EXCEPT ![w].pc = "claimed", ![w].lease = lease]
    <3>1. PICK row \in Round, w \in Workers :
            /\ row.occ <= job.next /\ job.next <= work[w].at
            /\ \A r \in rounds : r.gen < row.gen
            /\ \A v \in Workers : work[v].lease.gen < row.gen
            /\ rounds' = {r \in rounds : r.occ # row.occ} \cup {row}
            /\ job'.occ = row.occ /\ job'.gen = row.gen
            /\ job'.expires = work[w].at + LeaseTicks
            /\ \E lease \in Lease :
                 /\ lease.occ = row.occ /\ lease.gen = row.gen
                 /\ lease.expires = work[w].at + LeaseTicks
                 /\ work' = [work EXCEPT ![w].pc = "claimed", ![w].lease = lease]
      BY <1>3 DEF Claims
    <3>2. row.occ <= work[w].at
      BY <1>0, <3>1
    <3> QED BY <3>1, <3>2
  <2>2. work'[w].lease = lease /\ \A v \in Workers \ {w} : work'[v].lease = work[v].lease
    BY <1>0, <2>1 DEF Work
  <2>3. /\ \A r \in rounds' : r.gen <= row.gen
        /\ \A v \in Workers : work'[v].lease.gen <= row.gen
    BY <1>0, <2>1, <2>2
  <2>4. row.gen \in {r.gen : r \in rounds'} \cup {0}
    BY <2>1
  <2>5. \A v \in Workers : work'[v].lease.gen = job'.gen => work'[v].lease.expires = job'.expires
    BY <1>0, <2>1, <2>2
  <2>6. job'.occ <= job'.expires
    BY <1>0, <2>1
  <2> QED BY <2>3, <2>4, <2>5, <2>6 DEF LeasesAreKnown
<1>4. ASSUME ~Claims, job'.gen = 0 \/ Quiet, NEW t \in {r.gen : r \in rounds'} \cup {0}, top <= t,
             \A r \in rounds' : r.gen <= t
      PROVE  LeasesAreKnown'
  <2>1. t \in Nat
    BY <1>0, <1>4
  <2>2. \A w \in Workers : work'[w].lease.gen <= t
    BY <1>0, <1>1, <1>2, <1>4, <2>1
  <2>3. job'.gen # 0 => /\ job'.occ <= job'.expires
                       /\ \A w \in Workers : work'[w].lease.gen = job'.gen =>
                            work'[w].lease.expires = job'.expires
    BY <1>4 DEF Quiet, LeasesAreKnown
  <2> QED BY <1>4, <2>2, <2>3 DEF LeasesAreKnown
<1>5. ASSUME ~Claims, job'.gen = 0, NEW r \in rounds, NEW status, rounds' = Settled(r, status)
      PROVE  LeasesAreKnown'
  <2>1. {s.gen : s \in rounds'} = {s.gen : s \in rounds}
    <3> DEFINE new == [r EXCEPT !.status = status]
    <3>1. new.gen = r.gen /\ rounds' = (rounds \ {r}) \cup {new}
      BY <1>0, <1>5 DEF Settled, Round
    <3> HIDE DEF new
    <3> QED BY <3>1
  <2>2. \A s \in rounds' : s.gen <= top
    BY <1>1, <2>1
  <2> QED BY <1>1, <1>2, <1>4, <1>5, <2>1, <2>2
<1>6. ASSUME ~Claims, job'.gen = 0 \/ Quiet, rounds' = rounds PROVE LeasesAreKnown'
  BY <1>1, <1>2, <1>4, <1>6
<1>7. CASE ~Claims /\ Create
  BY <1>6, <1>7 DEF Create, NoJob
<1>8. CASE ~Claims /\ Skips
  <2>1. PICK row \in Round : row.gen = 1 /\ rounds' = rounds \cup {row}
    BY <1>8 DEF Skips
  <2>2. job'.gen = 0
    BY <1>8 DEF Skips
  <2>3. CASE top = 0
    <3>1. 1 \in {r.gen : r \in rounds'} \cup {0} /\ \A r \in rounds' : r.gen <= 1
      BY <1>0, <1>1, <2>1, <2>3
    <3> QED BY <1>4, <1>8, <2>2, <2>3, <3>1
  <2>4. CASE top # 0
    <3>1. top \in {r.gen : r \in rounds'} \cup {0} /\ \A r \in rounds' : r.gen <= top
      BY <1>0, <1>1, <1>2, <2>1, <2>4
    <3> QED BY <1>2, <1>4, <1>8, <2>2, <3>1
  <2> QED BY <2>3, <2>4
<1>9. CASE ~Claims /\ (Waits \/ Counts)
  BY <1>5, <1>9 DEF Waits, Counts
<1>10. CASE ~Claims /\ Ends
  BY <1>5, <1>6, <1>10 DEF Ends
<1>11. CASE ~Claims /\ (Quiet \/ Rests)
  BY <1>6, <1>11 DEF Quiet, Rests
<1> QED BY <1>3, <1>7, <1>8, <1>9, <1>10, <1>11 DEF RowStep

-----------------------------------------------------------------------------
\* The theorems.

\* No job, no rounds and no leases at first: JobsInv holds.
LEMMA InitInv == ASSUME JobsAssumption, Init PROVE JobsInv
<1>0. job = NoJob /\ rounds = {} /\ work = [w \in Workers |-> Idle] /\ spec \in Specs /\ now = 1
  BY DEF Init
<1>1. TypeOK
  <2>1. NoJob \in JobRow
    BY DEF NoJob, JobRow
  <2>2. Idle \in Work
    BY DEF Idle, NoLease, Work, Lease
  <2>3. consent \in BOOLEAN /\ authority \in BOOLEAN /\ ended \in BOOLEAN
    BY DEF Init
  <2>4. work \in [Workers -> Work] /\ job \in JobRow
    BY <1>0, <2>1, <2>2
  <2> QED BY <1>0, <2>3, <2>4 DEF TypeOK
<1>2. PendingIsOpen
  BY <1>0 DEF PendingIsOpen, NoJob, GoesOn
<1>3. CountsAreRows
  <2>1. spec.calls \in Nat /\ MaxRounds \in Nat
    BY <1>0 DEF JobsAssumption, Spec
  <2> QED BY <1>0, <2>1, FS_EmptySet DEF CountsAreRows, NoJob, GoesOn
<1>4. OccurrencesAdvance
  <2>1. \A w \in Workers : work[w].at = 0 /\ work[w].pc = "idle" /\ work[w].lease.occ = 0
    BY <1>0 DEF Idle, NoLease
  <2> QED BY <1>0, <2>1 DEF OccurrencesAdvance, NoJob, GoesOn
<1>5. LeasesAreKnown
  <2>1. \A w \in Workers : work[w].lease.gen = 0
    BY <1>0 DEF Idle, NoLease
  <2>2. 0 \in {r.gen : r \in rounds} \cup {0}
    OBVIOUS
  <2> QED BY <1>0, <2>1, <2>2 DEF LeasesAreKnown, NoJob
<1> QED BY <1>1, <1>2, <1>3, <1>4, <1>5 DEF JobsInv

\* JobsInv is inductive: each of its five parts has its own lemma.
LEMMA StepInv ==
  ASSUME JobsAssumption, PowerAssumption, JobsInv, [Next]_vars
  PROVE  JobsInv'
<1>1. CASE UNCHANGED vars
  BY <1>1 DEF vars, JobsInv, TypeOK, PendingIsOpen, CountsAreRows, OccurrencesAdvance,
     LeasesAreKnown, GoesOn, Held
<1>2. CASE Next
  <2>1. RowStep
    BY <1>2, StepEffect DEF RowStep
  <2>2. TypeOK'
    BY <1>2, StepType
  <2>3. job'.calls <= spec'.calls
    BY <1>2, CallsBounded
  <2>4. InstantsKept
    BY <1>2, StepInstants
  <2>5. Claims \/ \A w \in Workers : work'[w].lease = work[w].lease \/ work'[w].lease.gen = 0
    BY <1>2, ClaimRoundClaims, LeaseFrame
  <2> QED BY <2>1, <2>2, <2>3, <2>4, <2>5, StepPending, StepCounts, StepOccurrences, StepLeases
          DEF JobsInv
<1> QED BY <1>1, <1>2

\* The inductive invariant holds in every behaviour: the pending round is the
\* only open one, what the job counts is what its rounds add up to, and a
\* worker that knows the generation of the job's lease knows the lease.
THEOREM JobsInvariance == JobsSpec => []JobsInv
<1>1. Init => JobsInv
  BY JobsAssumption, InitInv
<1>2. JobsInv /\ [Next]_vars => JobsInv'
  BY JobsAssumption, PowerAssumption, StepInv
<1> QED BY <1>1, <1>2, PTL DEF JobsSpec

\* The job's row and its rounds agree after every transaction that writes them.
THEOREM RowsAgree == JobsSpec => []RoundsMatch
<1>1. JobsInv => RoundsMatch
  <2> SUFFICES ASSUME JobsInv PROVE RoundsMatch
    OBVIOUS
  <2> DEFINE open == {r \in rounds : r.status \in Open}
             claimed == {r \in rounds : r.status = "claimed"}
  <2>1. \A r \in claimed : job.gen = r.gen /\ job.occ = r.occ
    BY DEF JobsInv, PendingIsOpen, Held
  <2>2. job.gen # 0 => job.status = "active" /\ claimed # {}
    BY DEF JobsInv, PendingIsOpen, GoesOn
  <2>3. GoesOn => {r.occ : r \in open} = {job.occ} \ {0}
    <3> SUFFICES ASSUME GoesOn PROVE {r.occ : r \in open} = {job.occ} \ {0}
      OBVIOUS
    <3>1. \A r \in open : r.occ = job.occ /\ r.occ # 0
      BY DEF JobsInv, PendingIsOpen, TypeOK, Round
    <3>2. job.occ # 0 => \E r \in open : r.occ = job.occ
      BY DEF JobsInv, PendingIsOpen
    <3> QED BY <3>1, <3>2
  <2>4. GoesOn => Cardinality(open) <= 1
    <3> SUFFICES ASSUME GoesOn PROVE Cardinality(open) <= 1
      OBVIOUS
    <3>1. \A r, s \in open : r = s
      BY DEF JobsInv, PendingIsOpen
    <3>2. CASE open = {}
      BY <3>2, FS_EmptySet
    <3>3. CASE open # {}
      <4>1. PICK r \in open : TRUE
        BY <3>3
      <4>2. open = {r}
        BY <3>1, <4>1
      <4>3. Cardinality({r}) = 1
        BY FS_Singleton
      <4> QED BY <4>2, <4>3
    <3> QED BY <3>2, <3>3
  <2> QED BY <2>1, <2>2, <2>3, <2>4 DEF RoundsMatch
<1> QED BY <1>1, JobsInvariance, PTL

\* Rounds are numbered and counted once, within the budgets of rounds, calls,
\* attempts and time.
THEOREM RoundsCountOnce == JobsSpec => []RoundsCounted
<1>1. JobsInv => RoundsCounted
  <2> SUFFICES ASSUME JobsInv PROVE RoundsCounted
    OBVIOUS
  <2> USE DEF JobsInv
  <2> DEFINE settled == {r \in rounds : r.status \in Settlement}
  <2>1. settled = SettledRows(rounds)
    BY DEF SettledRows
  <2>2. job.rounds <= MaxRounds /\ job.calls <= spec.calls /\ \A r \in rounds : r.attempt <= MaxAttempts
    BY DEF CountsAreRows, TypeOK, Round
  <2>3. job.status = "active" => job.next < Deadline \/ job.next <= now
    BY DEF OccurrencesAdvance
  <2>4. GoesOn => /\ {r.ord : r \in settled} = 1..job.rounds
                 /\ Cardinality(settled) = job.rounds
                 /\ \A r \in rounds \ settled : r.ord = job.rounds + 1
    BY <2>1 DEF CountsAreRows
  <2>5. GoesOn => \A r \in settled : job.occ # r.occ
    <3> SUFFICES ASSUME GoesOn, NEW r \in settled, job.occ = r.occ PROVE FALSE
      OBVIOUS
    <3>1. PICK s \in rounds : s.occ = job.occ /\ s.status \in Open
      BY DEF PendingIsOpen, TypeOK, Round
    <3>2. s = r
      BY <3>1 DEF PendingIsOpen
    <3> QED BY <3>1, <3>2 DEF Open, Settlement
  <2>6. job.status = "active" /\ job.occ = 0 => \A r \in rounds : r.occ < job.next
    BY DEF OccurrencesAdvance
  <2> QED BY <2>2, <2>3, <2>4, <2>5, <2>6 DEF RoundsCounted
<1> QED BY <1>1, JobsInvariance, PTL

\* A settled round is not written again: what is settled or claimed anew is the
\* pending round, and that one is open.
LEMMA SettledStay ==
  ASSUME JobsInv, RowStep, NEW r \in rounds, r.status \in Settlement
  PROVE  r \in rounds'
<1> USE DEF JobsInv
<1>1. r.status # "claimed" /\ r.status \notin Open
  BY DEF Settlement, Open
<1>2. ASSUME NEW s \in rounds, Held(s), NEW status, rounds' = Settled(s, status)
      PROVE  r \in rounds'
  BY <1>1, <1>2 DEF Settled, Held
<1>3. CASE Claims
  <2>1. PICK row \in Round :
          /\ rounds' = {s \in rounds : s.occ # row.occ} \cup {row}
          /\ \/ \A s \in rounds : s.occ # row.occ
             \/ \E s \in rounds : s.status \in Open /\ row.occ = s.occ
    BY <1>3 DEF Claims
  <2>2. r.occ # row.occ
    BY <1>1, <2>1 DEF PendingIsOpen
  <2> QED BY <2>1, <2>2
<1>4. CASE Create
  BY <1>4 DEF Create, PendingIsOpen
<1> QED BY <1>2, <1>3, <1>4 DEF RowStep, Quiet, Waits, Rests, Ends, Counts, Skips

\* An outcome is given by the worker that has the claim, before its end.
LEMMA OutcomeFromClaim ==
  ASSUME JobsAssumption, PowerAssumption, JobsInv, Next,
         NEW r \in rounds' \ rounds, r.status \in {"unchanged", "completed"}
  PROVE  \E w \in Workers :
           /\ work[w].pc = "closing" /\ work'[w] = Idle
           /\ work[w].lease.gen = r.gen /\ work[w].lease.attempt = r.attempt
           /\ work[w].at < work[w].lease.expires
<1> USE DEF JobsInv
<1>1. ASSUME rounds' = rounds PROVE FALSE
  BY <1>1
<1>2. ASSUME NEW s \in rounds, NEW status, rounds' = Settled(s, status)
      PROVE  r = [s EXCEPT !.status = status] /\ r.status = status
  <2>1. r = [s EXCEPT !.status = status]
    BY <1>2 DEF Settled
  <2> QED BY <2>1 DEF TypeOK, Round
<1>3. ASSUME NEW status \in {"retry_wait", "failed"}, rounds' = Revoked(status) PROVE FALSE
  BY <1>1, <1>2, <1>3, RevocationEffect DEF Settlement
<1>4. CASE Create \/ EnableObservation \/ Resume \/ TargetEnds \/ AuthorityMoves \/ Tick
  BY <1>1, <1>4 DEF Create, EnableObservation, Resume, TargetEnds, AuthorityMoves, Tick
<1>5. CASE Pause \/ Cancel
  BY <1>3, <1>5 DEF Pause, Cancel
<1>6. ASSUME NEW w \in Workers, Poll(w) \/ ClaimNothing(w) \/ Refused(w) \/ Crash(w) PROVE FALSE
  BY <1>1, <1>6 DEF Poll, ClaimNothing, Refused, Crash
<1>7. ASSUME NEW w \in Workers, Observe(w) \/ Executed(w) PROVE FALSE
  BY <1>1, <1>7 DEF Observe, Executed, Concludes
<1>8. ASSUME NEW w \in Workers, Reconcile(w) PROVE FALSE
  BY <1>1, <1>2, <1>8 DEF Reconcile
<1>9. ASSUME NEW w \in Workers, ClaimStops(w) PROVE FALSE
  BY <1>3, <1>9 DEF ClaimStops
<1>10. ASSUME NEW w \in Workers, Skip(w) PROVE FALSE
  <2>1. r.status = "skipped"
    BY <1>10 DEF Skip
  <2> QED BY <2>1
<1>11. ASSUME NEW w \in Workers, ClaimRound(w) PROVE FALSE
  <2>1. PICK row \in Round : row.status = "claimed"
                             /\ rounds' = {s \in rounds : s.occ # row.occ} \cup {row}
    BY <1>11, ClaimEffect
  <2> QED BY <2>1
<1>12. ASSUME NEW w \in Workers, Fail(w) PROVE FALSE
  <2>1. \E s \in OwnRound(w), status \in {"retry_wait", "failed"} : rounds' = Settled(s, status)
    BY <1>12, FailEffect
  <2> QED BY <1>2, <2>1, OwnIsHeld
<1>13. ASSUME NEW w \in Workers, Complete(w)
       PROVE  /\ work[w].pc = "closing" /\ work'[w] = Idle
              /\ work[w].lease.gen = r.gen /\ work[w].lease.attempt = r.attempt
              /\ work[w].at < work[w].lease.expires
  <2>1. PICK s \in OwnRound(w), status \in {"completed", "unchanged"} : rounds' = Settled(s, status)
    BY <1>13, CompleteEffect
  <2>2. /\ s \in rounds /\ s \in Round /\ Held(s) /\ s.gen = work[w].lease.gen
        /\ s.attempt = work[w].lease.attempt /\ work[w].at < job.expires
    BY <2>1, OwnIsHeld DEF TypeOK
  <2>3. r.gen = s.gen /\ r.attempt = s.attempt
    BY <1>2, <2>1, <2>2 DEF Round
  <2>4. work[w].lease.expires = job.expires
    BY <2>2 DEF LeasesAreKnown, Held, Round
  <2>5. work[w].pc = "closing" /\ Return(w)
    BY <1>13 DEF Complete
  <2>6. work'[w] = Idle
    BY <2>5 DEF Return, TypeOK
  <2> QED BY <2>2, <2>3, <2>4, <2>5, <2>6
<1> QED BY <1>4, <1>5, <1>6, <1>7, <1>8, <1>9, <1>10, <1>11, <1>12, <1>13 DEF Next, WorkerStep

\* Settled rounds stay as they are, and no report is taken for the outcome of
\* another attempt.
THEOREM NoLateReports == JobsSpec => RoundsAreFinal
<1>1. JobsInv /\ [Next]_vars =>
        [/\ \A r \in rounds : r.status \in Settlement => r \in rounds'
         /\ \A r \in rounds' \ rounds : r.status \in {"unchanged", "completed"} =>
              \E w \in Workers :
                /\ work[w].pc = "closing" /\ work'[w] = Idle
                /\ work[w].lease.gen = r.gen /\ work[w].lease.attempt = r.attempt
                /\ work[w].at < work[w].lease.expires]_vars
  <2> SUFFICES ASSUME JobsInv, Next
               PROVE  /\ \A r \in rounds : r.status \in Settlement => r \in rounds'
                      /\ \A r \in rounds' \ rounds : r.status \in {"unchanged", "completed"} =>
                           \E w \in Workers :
                             /\ work[w].pc = "closing" /\ work'[w] = Idle
                             /\ work[w].lease.gen = r.gen /\ work[w].lease.attempt = r.attempt
                             /\ work[w].at < work[w].lease.expires
    OBVIOUS
  <2>1. RowStep
    BY JobsAssumption, PowerAssumption, StepEffect DEF RowStep
  <2> QED BY <2>1, JobsAssumption, PowerAssumption, SettledStay, OutcomeFromClaim
<1> QED BY <1>1, JobsInvariance, PTL DEF JobsSpec, RoundsAreFinal
=============================================================================
