---------------------------- MODULE RunWake_proofs ----------------------------
(***************************************************************************)
(* Proofs about RunWake, for any consumers, any number of intents and      *)
(* attempts and any lease, delay and backoff: WakeInv is inductive, and    *)
(* from it follow the ownership of a prepared generation and the finality  *)
(* of what was recorded of it.                                             *)
(***************************************************************************)
EXTENDS RunWake, TLAPS

-----------------------------------------------------------------------------
\* The types of what the operators on rows return.

\* A backoff is a number of ticks.
LEMMA BackoffType == \A g \in Generations : Backoff(g) \in Nat
<1> SUFFICES ASSUME NEW g \in Generations PROVE Backoff(g) \in Nat
  OBVIOUS
<1>1. 2 ^ (g - 1) \in Nat
  BY PowerAssumption DEF Generations
<1> DEFINE p == 2 ^ (g - 1)
<1>2. BaseBackoff * p \in Nat
  <2> HIDE DEF p
  <2>1. p \in Nat
    BY <1>1 DEF p
  <2> QED BY <2>1, PolicyAssumption
<1> QED BY <1>2, PolicyAssumption DEF Backoff, Lower

\* What a row has, and what giving up its lease makes of it.
LEMMA RowFields ==
  ASSUME NEW row \in IntentRows
  PROVE  /\ row.status \in {"none", "queued", "leased", "cancelled", "exhausted"}
         /\ row.attempts \in 0..MaxAttempts /\ row.wait \in 0..Elapsed
         /\ row.left \in 0..Elapsed /\ row.lease \in -1..LeaseTicks
BY DEF IntentRows

\* An intent without a lease is a row, with the same attempts.
LEMMA WithoutType ==
  ASSUME NEW row \in IntentRows, NEW wait \in 0..Elapsed,
         NEW status \in {"none", "queued", "leased", "cancelled", "exhausted"}
  PROVE  /\ Without(row, status, wait) \in IntentRows
         /\ Without(row, status, wait).status = status
         /\ Without(row, status, wait).attempts = row.attempts
         /\ Without(row, status, wait).wait = wait
         /\ Without(row, status, wait).left = row.left
<1>1. 0 \in -1..LeaseTicks
  BY PolicyAssumption
<1> QED BY <1>1 DEF Without, IntentRows

\* So is one that is exhausted.
LEMMA ExhaustedType ==
  ASSUME NEW row \in IntentRows
  PROVE  /\ Exhausted(row) \in IntentRows
         /\ Exhausted(row).status = "exhausted"
         /\ Exhausted(row).attempts = row.attempts /\ Exhausted(row).left = row.left
<1> DEFINE wait == row.left
<1>1. wait \in 0..Elapsed
  BY RowFields
<1>2. Exhausted(row) = Without(row, "exhausted", wait)
  BY DEF Exhausted
<1> HIDE DEF wait
<1>3. /\ Without(row, "exhausted", wait) \in IntentRows
      /\ Without(row, "exhausted", wait).status = "exhausted"
      /\ Without(row, "exhausted", wait).attempts = row.attempts
      /\ Without(row, "exhausted", wait).left = row.left
  BY <1>1, WithoutType
<1> QED BY <1>2, <1>3

\* And one that is due at once.
LEMMA WithoutNowType ==
  ASSUME NEW row \in IntentRows
  PROVE  /\ Without(row, "queued", 0) \in IntentRows
         /\ Without(row, "queued", 0).status = "queued"
         /\ Without(row, "queued", 0).attempts = row.attempts
         /\ Without(row, "queued", 0).wait = 0
         /\ Without(row, "queued", 0).left = row.left
<1> DEFINE wait == 0
<1>1. wait \in 0..Elapsed
  BY PolicyAssumption
<1> HIDE DEF wait
<1>2. /\ Without(row, "queued", wait) \in IntentRows
      /\ Without(row, "queued", wait).status = "queued"
      /\ Without(row, "queued", wait).attempts = row.attempts
      /\ Without(row, "queued", wait).wait = wait
      /\ Without(row, "queued", wait).left = row.left
  BY <1>1, WithoutType
<1> QED BY <1>2 DEF wait

\* An expired lease is given up, nothing else is touched.
LEMMA ReconciledFacts ==
  ASSUME TypeOK, NEW i \in Intents
  PROVE  /\ Reconciled(i) \in IntentRows
         /\ Reconciled(i).attempts = intent[i].attempts
         /\ Reconciled(i).left = intent[i].left
         /\ \/ Reconciled(i) = intent[i]
            \/ /\ intent[i].status = "leased" /\ ~HandoffPrepared(i)
               /\ \/ Reconciled(i).status = "queued" /\ Reconciled(i).wait = 0
                  \/ Reconciled(i).status = "exhausted"
<1>1. intent[i] \in IntentRows
  BY DEF TypeOK
<1>3. /\ Without(intent[i], "queued", 0) \in IntentRows
      /\ Without(intent[i], "queued", 0).status = "queued"
      /\ Without(intent[i], "queued", 0).wait = 0
      /\ Without(intent[i], "queued", 0).attempts = intent[i].attempts
      /\ Without(intent[i], "queued", 0).left = intent[i].left
  BY <1>1, WithoutNowType
<1>4. \/ Reconciled(i) = intent[i]
      \/ /\ intent[i].status = "leased" /\ ~HandoffPrepared(i)
         /\ \/ Reconciled(i) = Exhausted(intent[i])
            \/ Reconciled(i) = Without(intent[i], "queued", 0)
  BY DEF Reconciled
<1>5. /\ Exhausted(intent[i]) \in IntentRows
      /\ Exhausted(intent[i]).status = "exhausted"
      /\ Exhausted(intent[i]).attempts = intent[i].attempts
      /\ Exhausted(intent[i]).left = intent[i].left
  BY <1>1, ExhaustedType
<1>6. CASE Reconciled(i) = intent[i]
  BY <1>1, <1>6
<1>7. CASE Reconciled(i) = Exhausted(intent[i]) /\ Reconciled(i) # intent[i]
  BY <1>4, <1>5, <1>7
<1>8. CASE Reconciled(i) = Without(intent[i], "queued", 0) /\ Reconciled(i) # intent[i]
  BY <1>3, <1>4, <1>8
<1> QED BY <1>4, <1>6, <1>7, <1>8

\* What becomes of an intent whose generation failed: it is due later, before its
\* deadline, or exhausted.
LEMMA FailedRowType ==
  ASSUME NEW row \in IntentRows, row.attempts >= 1
  PROVE  /\ FailedRow(row) \in IntentRows
         /\ FailedRow(row).attempts = row.attempts
         /\ \/ FailedRow(row).status = "exhausted"
            \/ /\ FailedRow(row).status = "queued"
               /\ FailedRow(row).wait <= FailedRow(row).left
<1>1. row.attempts \in Generations /\ row.left \in 0..Elapsed
  BY RowFields DEF Generations
<1> DEFINE b == Backoff(row.attempts)
<1>2. b \in Nat
  BY <1>1, BackoffType
<1> HIDE DEF b
<1>3. b < row.left => b \in 0..Elapsed
  BY <1>1, <1>2, PolicyAssumption
<1>4. b \in 0..Elapsed => /\ Without(row, "queued", b) \in IntentRows
                          /\ Without(row, "queued", b).attempts = row.attempts
                          /\ Without(row, "queued", b).status = "queued"
                          /\ Without(row, "queued", b).wait = b
                          /\ Without(row, "queued", b).left = row.left
  BY WithoutType
<1>5. b < row.left => b <= row.left
  BY <1>1, <1>2, PolicyAssumption
<1> QED BY <1>3, <1>4, <1>5, ExhaustedType DEF FailedRow, b

\* And of one whose generation is retried.
LEMMA RetryRowType ==
  ASSUME NEW row \in IntentRows, NEW g \in Generations
  PROVE  /\ RetryRow(row, g) \in IntentRows
         /\ RetryRow(row, g).attempts = row.attempts
         /\ \/ RetryRow(row, g).status = "exhausted"
            \/ /\ RetryRow(row, g).status = "queued"
               /\ RetryRow(row, g).wait <= RetryRow(row, g).left
<1>1. row.left \in 0..Elapsed
  BY RowFields
<1> DEFINE b == Backoff(g)
<1>2. b \in Nat
  BY BackoffType
<1> HIDE DEF b
<1>3. ~(b > row.left) => b \in 0..Elapsed
  BY <1>1, <1>2, PolicyAssumption
<1>4. b \in 0..Elapsed => /\ Without(row, "queued", b) \in IntentRows
                          /\ Without(row, "queued", b).attempts = row.attempts
                          /\ Without(row, "queued", b).status = "queued"
                          /\ Without(row, "queued", b).wait = b
                          /\ Without(row, "queued", b).left = row.left
  BY WithoutType
<1>5. ~(b > row.left) => b <= row.left
  BY <1>1, <1>2, PolicyAssumption
<1> QED BY <1>3, <1>4, <1>5, ExhaustedType DEF RetryRow, b

\* A tick keeps rows rows, and their times in order.
LEMMA LaterType ==
  ASSUME NEW row \in IntentRows
  PROVE  /\ Later(row) \in IntentRows
         /\ Later(row).attempts = row.attempts /\ Later(row).status = row.status
         /\ row.wait <= row.left => Later(row).wait <= Later(row).left
         /\ row.status = "leased" /\ row.lease <= row.left => Later(row).lease <= Later(row).left
<1> DEFINE wait == IF row.wait > 0 THEN row.wait - 1 ELSE 0
           left == IF row.left > 0 THEN row.left - 1 ELSE 0
           lease == IF row.status = "leased" /\ row.lease > -1 THEN row.lease - 1 ELSE row.lease
<1>1. /\ row.status \in {"none", "queued", "leased", "cancelled", "exhausted"}
      /\ row.attempts \in 0..MaxAttempts /\ row.wait \in 0..Elapsed
      /\ row.left \in 0..Elapsed /\ row.lease \in -1..LeaseTicks
  BY RowFields
<1>2. wait \in 0..Elapsed /\ left \in 0..Elapsed /\ lease \in -1..LeaseTicks
  BY <1>1, PolicyAssumption
<1>3. /\ row.wait <= row.left => wait <= left
      /\ row.status = "leased" /\ row.lease <= row.left => lease <= left
  BY <1>1
<1>4. Later(row) = [row EXCEPT !.wait = wait, !.left = left, !.lease = lease]
  BY DEF Later
<1> HIDE DEF wait, left, lease
<1>5. /\ Later(row) \in IntentRows
      /\ Later(row).attempts = row.attempts /\ Later(row).status = row.status
      /\ Later(row).wait = wait /\ Later(row).left = left /\ Later(row).lease = lease
  BY <1>2, <1>4 DEF IntentRows
<1> QED BY <1>3, <1>5

-----------------------------------------------------------------------------
\* Where a consumer is.
Owning == {"claimed", "prepared", "failing", "opened", "executing", "settling"}

WorkRecords ==
  {Idle} \cup [at : {"claiming"}, i : Intents, g : {0}]
         \cup [at : Owning, i : Intents, g : Generations]

\* What a worker is at.
LEMMA WorkTyped ==
  ASSUME TypeOK, NEW w \in Workers
  PROVE  /\ work \in [Workers -> WorkRecords] /\ work[w] \in WorkRecords
         /\ work[w].at \in Owning =>
              work[w] \in [at : Owning, i : Intents, g : Generations] /\ KeyOf(w) \in Keys
         /\ work[w].at = "claiming" => work[w].i \in Intents
<1>1. work \in [Workers -> WorkRecords]
  BY DEF TypeOK, WorkRecords, Owning
<1>2. work[w] \in WorkRecords
  BY <1>1
<1> QED BY <1>1, <1>2 DEF WorkRecords, Owning, Idle, KeyOf, Keys

\* A worker that goes on keeps its generation.
LEMMA GotoType ==
  ASSUME TypeOK, NEW w \in Workers, work[w].at \in Owning, NEW place \in Owning, Goto(w, place)
  PROVE  work' \in [Workers -> WorkRecords]
<1>1. work[w] \in [at : Owning, i : Intents, g : Generations]
  BY WorkTyped
<1>2. [work[w] EXCEPT !.at = place] \in [at : Owning, i : Intents, g : Generations]
  BY <1>1
<1> DEFINE moved == [work[w] EXCEPT !.at = place]
<1>3. work' = [work EXCEPT ![w] = moved]
  BY DEF Goto
<1>4. moved \in WorkRecords
  BY <1>2 DEF WorkRecords
<1> HIDE DEF moved
<1> QED BY <1>3, <1>4, WorkTyped

\* One that returns has none.
LEMMA ReturnType ==
  ASSUME TypeOK, NEW w \in Workers, Return(w)
  PROVE  work' \in [Workers -> WorkRecords]
<1>1. Idle \in WorkRecords
  BY DEF WorkRecords
<1> QED BY <1>1, WorkTyped DEF Return

\* TypeOK' from the parts a step changes.
LEMMA TypeFrom ==
  ASSUME run' \in {"running", "stopped", "ended"}, pending' \in BOOLEAN,
         exec' \in Workers \cup {Free, Other}, last' \in 0..MaxIntents,
         intent' \in [Intents -> IntentRows], consumption' \in [Keys -> ConsumptionStates],
         maxSteps' \in [Keys -> 0..MaxSteps], handoff' \in [Keys -> HandoffStates],
         work' \in [Workers -> WorkRecords], faults' \in 0..MaxFaults
  PROVE  TypeOK'
BY DEF TypeOK, WorkRecords, Owning

\* Replacing one row of the intents.
LEMMA RowReplaced ==
  ASSUME TypeOK, NEW i \in Intents, NEW row \in IntentRows,
         intent' = [intent EXCEPT ![i] = row]
  PROVE  /\ intent' \in [Intents -> IntentRows] /\ intent'[i] = row
         /\ \A j \in Intents : j # i => intent'[j] = intent[j]
BY DEF TypeOK

\* What the invariant says of the rows.
RowsInv == PreparedIsKept /\ OwnedIsOpen /\ FutureIsBlank /\ FactsMatch /\ TimelineValid

\* A row may be replaced by one that keeps a prepared generation, that is
\* exhausted if it was, and that brings no generation back.
LEMMA RowChanged ==
  ASSUME TypeOK, RowsInv, NEW i \in Intents, NEW row \in IntentRows, i <= last \/ row = intent[i],
         intent' = [intent EXCEPT ![i] = row],
         last' = last, consumption' = consumption, handoff' = handoff,
         row.attempts >= intent[i].attempts,
         HandoffPrepared(i) => row.status = "leased" /\ row.attempts = intent[i].attempts,
         row.status = "leased" => row.attempts >= 1,
         row.status = "leased" => consumption[<<i, row.attempts>>] \in {"none", "prepared"},
         intent[i].status = "exhausted" =>
           row.status = "exhausted" /\ row.attempts = intent[i].attempts,
         row.status \in {"queued", "leased"} => row.wait <= row.left,
         row.status = "leased" => row.lease <= row.left
  PROVE  RowsInv'
<1>1. /\ intent' \in [Intents -> IntentRows] /\ intent'[i] = row
      /\ \A j \in Intents : j # i => intent'[j] = intent[j]
  BY RowReplaced
<1>2. last \in Nat /\ row.attempts \in Nat /\ intent[i].attempts \in Nat
  BY BoundAssumption, PolicyAssumption, RowFields DEF TypeOK
<1>3. \A k \in Keys : k = <<k[1], k[2]>> /\ k[1] \in Intents /\ k[2] \in Generations
  BY DEF Keys
<1>4. PreparedIsKept'
  <2> SUFFICES ASSUME NEW k \in Keys, consumption[k] = "prepared" PROVE Owns(k)'
    BY DEF PreparedIsKept
  <2>1. Owns(k)
    BY DEF PreparedIsKept, RowsInv
  <2>2. CASE k[1] = i
    <3>1. HandoffPrepared(i)
      BY <1>3, <2>1, <2>2 DEF Owns, HandoffPrepared
    <3> QED BY <1>1, <2>1, <2>2, <3>1 DEF Owns
  <2>3. CASE k[1] # i
    BY <1>1, <1>3, <2>1, <2>3 DEF Owns
  <2> QED BY <2>2, <2>3
<1>5. OwnedIsOpen'
  <2>0. \A j \in Intents : intent'[j].status = "leased" => intent'[j].attempts >= 1
    BY <1>1 DEF OwnedIsOpen, RowsInv
  <2> SUFFICES ASSUME NEW k \in Keys, Owns(k)' PROVE consumption[k] \in {"none", "prepared"}
    BY <2>0 DEF OwnedIsOpen
  <2>1. CASE k[1] = i
    BY <1>1, <1>3, <2>1 DEF Owns
  <2>2. CASE k[1] # i
    <3>1. Owns(k)
      BY <1>1, <1>3, <2>2 DEF Owns
    <3> QED BY <3>1 DEF OwnedIsOpen, RowsInv
  <2> QED BY <2>1, <2>2
<1>6. FutureIsBlank'
  <2>1. ASSUME NEW k \in Keys, k[2] > intent'[k[1]].attempts PROVE consumption[k] = "none"
    <3>1. CASE k[1] = i
      <4>1. k[2] > intent[k[1]].attempts
        BY <1>1, <1>2, <1>3, <2>1, <3>1 DEF Generations
      <4> QED BY <4>1 DEF FutureIsBlank, RowsInv
    <3>2. CASE k[1] # i
      BY <1>1, <1>3, <2>1, <3>2 DEF FutureIsBlank, RowsInv
    <3> QED BY <3>1, <3>2
  <2>2. \A j \in Intents : j > last => intent'[j] = NoIntent
    BY <1>1, <1>2 DEF FutureIsBlank, RowsInv, Intents
  <2> QED BY <2>1, <2>2 DEF FutureIsBlank
<1>7. FactsMatch'
  BY <1>1, <1>3 DEF FactsMatch, RowsInv
<1>8. TimelineValid'
  BY <1>1 DEF TimelineValid, RowsInv, Active
<1> QED BY <1>4, <1>5, <1>6, <1>7, <1>8 DEF RowsInv

\* A step that leaves the rows alone.
LEMMA RowsUnchanged ==
  ASSUME RowsInv, UNCHANGED <<last, intent, consumption, handoff>>
  PROVE  RowsInv'
BY DEF RowsInv, PreparedIsKept, OwnedIsOpen, FutureIsBlank, FactsMatch, TimelineValid,
   Owns, Active

-----------------------------------------------------------------------------
\* The invariant holds at the start.
LEMMA InitInv == Init => WakeInv
<1> SUFFICES ASSUME Init PROVE WakeInv
  OBVIOUS
<1>1. NoIntent \in IntentRows
  BY PolicyAssumption DEF NoIntent, IntentRows
<1>2. TypeOK
  <2>1. 0 \in 0..MaxSteps
    BY ConsumerAssumption
  <2> QED BY <1>1, <2>1, BoundAssumption DEF Init, TypeOK, ConsumptionStates, HandoffStates
<1>3. \A k \in Keys : k[1] \in Intents
  BY DEF Keys
<1> QED BY <1>2, <1>3 DEF Init, WakeInv, PreparedIsKept, OwnedIsOpen, FutureIsBlank, FactsMatch,
         TimelineValid, Active, Owns, NoIntent

\* Steps of a consumer, or of others, that touch no row.
LEMMA QuietStep ==
  ASSUME WakeInv,
         \/ \E w \in Workers : \/ Consume(w) \/ ClaimIneligible(w) \/ ReplayHandoff(w)
                               \/ OpenRefused(w) \/ Execute(w) \/ ExecuteRefused(w)
                               \/ Crash(w) \/ ExecExpires(w) \/ LoseExec(w)
         \/ OtherExecutes \/ OtherReturns \/ RunMoves \/ QueueMoves \/ UNCHANGED vars
  PROVE  WakeInv'
<1> USE DEF WakeInv
<1>1. UNCHANGED <<last, intent, consumption, maxSteps, handoff>>
  BY DEF Consume, ClaimIneligible, ReplayHandoff, OpenRefused, Execute, ExecuteRefused, Crash,
     ExecExpires, LoseExec, OtherExecutes, OtherReturns, RunMoves, QueueMoves, vars
<1>2. RowsInv'
  BY <1>1, RowsUnchanged DEF RowsInv
<1>3. /\ run' \in {"running", "stopped", "ended"} /\ pending' \in BOOLEAN
      /\ exec' \in Workers \cup {Free, Other} /\ faults' \in 0..MaxFaults
  <2>1. run' \in {"running", "stopped", "ended"}
    BY DEF Consume, ClaimIneligible, ReplayHandoff, OpenRefused, Execute, ExecuteRefused, Crash,
       ExecExpires, LoseExec, OtherExecutes, OtherReturns, RunMoves, QueueMoves, vars, TypeOK
  <2>2. pending' \in BOOLEAN
    <3>1. CASE QueueMoves
      BY <3>1 DEF QueueMoves
    <3>2. CASE RunMoves
      BY <3>2 DEF RunMoves, TypeOK
    <3>3. CASE OtherReturns \/ \E w \in Workers : LoseExec(w)
      <4>1. (IF pending THEN BOOLEAN ELSE {FALSE}) \subseteq BOOLEAN
        OBVIOUS
      <4>2. pending' \in (IF pending THEN BOOLEAN ELSE {FALSE})
        BY <3>3, Zenon DEF OtherReturns, LoseExec
      <4> QED BY <4>1, <4>2, Zenon
    <3>4. CASE pending' = pending
      BY <3>4 DEF TypeOK
    <3> QED BY <3>1, <3>2, <3>3, <3>4
            DEF Consume, ClaimIneligible, ReplayHandoff, OpenRefused, Execute, ExecuteRefused,
                Crash, ExecExpires, OtherExecutes, vars
  <2>3. exec' \in Workers \cup {Free, Other}
    BY DEF Consume, ClaimIneligible, ReplayHandoff, OpenRefused, Execute, ExecuteRefused, Crash,
       ExecExpires, LoseExec, OtherExecutes, OtherReturns, RunMoves, QueueMoves, vars, TypeOK
  <2>4. faults' \in 0..MaxFaults
    <3>1. faults \in 0..MaxFaults
      BY DEF TypeOK
    <3>2. faults' = faults \/ (faults' = faults + 1 /\ faults < MaxFaults)
      BY DEF Consume, ClaimIneligible, ReplayHandoff, OpenRefused, Execute, ExecuteRefused,
         Crash, ExecExpires, LoseExec, OtherExecutes, OtherReturns, RunMoves, QueueMoves, vars
    <3> QED BY <3>1, <3>2, BoundAssumption
  <2> QED BY <2>1, <2>2, <2>3, <2>4
<1>4. work' \in [Workers -> WorkRecords]
  <2>1. CASE work' = work
    BY <2>1, WorkTyped DEF TypeOK, WorkRecords, Owning
  <2>2. CASE \E w \in Workers : Return(w)
    BY <2>2, ReturnType
  <2>3. ASSUME NEW w \in Workers, Consume(w) PROVE work' \in [Workers -> WorkRecords]
    <3>1. last \in Intents
      BY <2>3, BoundAssumption DEF Consume, TypeOK, Intents
    <3>2. HandoffPrepared(last) => intent[last].attempts \in Generations
      <4>1. intent[last].attempts \in 0..MaxAttempts
        BY <3>1, RowFields DEF TypeOK
      <4>2. HandoffPrepared(last) => intent[last].attempts >= 1
        BY <3>1 DEF HandoffPrepared, OwnedIsOpen
      <4> QED BY <4>1, <4>2, PolicyAssumption DEF Generations
    <3> QED BY <2>3, <3>1, <3>2, WorkTyped DEF Consume, WorkRecords, Owning
  <2>4. ASSUME NEW w \in Workers, NEW place \in Owning, Goto(w, place), work[w].at \in Owning
        PROVE  work' \in [Workers -> WorkRecords]
    BY <2>4, GotoType
  <2>5. ASSUME NEW w \in Workers,
               ReplayHandoff(w) \/ OpenRefused(w) \/ Execute(w)
        PROVE  work[w].at \in Owning /\ \E place \in Owning : Goto(w, place)
    BY <2>5 DEF ReplayHandoff, OpenRefused, Execute, Owning
  <2> QED BY <2>1, <2>2, <2>3, <2>4, <2>5
          DEF ClaimIneligible, ExecuteRefused, Crash, ExecExpires, LoseExec, OtherExecutes,
              OtherReturns, RunMoves, QueueMoves, vars
<1>5. /\ last' \in 0..MaxIntents /\ intent' \in [Intents -> IntentRows]
      /\ consumption' \in [Keys -> ConsumptionStates] /\ handoff' \in [Keys -> HandoffStates]
      /\ maxSteps' \in [Keys -> 0..MaxSteps]
  BY <1>1 DEF TypeOK
<1> QED BY <1>2, <1>3, <1>4, <1>5, TypeFrom DEF RowsInv

\* The claim of an intent, whichever of its ends.
LEMMA ClaimStep ==
  ASSUME WakeInv, NEW w \in Workers, ClaimNothing(w) \/ ClaimExhausts(w) \/ Claim(w)
  PROVE  WakeInv'
<1> DEFINE i == work[w].i
           row == Reconciled(i)
<1>1. i \in Intents /\ TypeOK /\ RowsInv
  BY WorkTyped DEF ClaimNothing, ClaimExhausts, Claim, WakeInv, RowsInv
<1>2. /\ row \in IntentRows
      /\ row.attempts = intent[i].attempts /\ row.left = intent[i].left
      /\ \/ row = intent[i]
         \/ /\ intent[i].status = "leased" /\ ~HandoffPrepared(i)
            /\ (row.status = "queued" /\ row.wait = 0) \/ row.status = "exhausted"
  BY <1>1, ReconciledFacts
<1>3. i <= last \/ row = intent[i]
  BY <1>1, <1>2, BoundAssumption
  DEF RowsInv, FutureIsBlank, NoIntent, TypeOK, Intents
<1>4. /\ intent[i].attempts \in 0..MaxAttempts /\ intent[i].wait \in 0..Elapsed
      /\ intent[i].left \in 0..Elapsed /\ intent[i] \in IntentRows
  BY <1>1, RowFields DEF TypeOK
<1>5. /\ row.status \in {"queued", "leased"} => row.wait <= row.left
      /\ row.status = "leased" => row.lease <= row.left /\ row.attempts >= 1
  BY <1>1, <1>2, <1>4, PolicyAssumption DEF RowsInv, TimelineValid, Active, OwnedIsOpen
<1> DEFINE new == intent'[i]
<1>6. /\ new \in IntentRows /\ intent' = [intent EXCEPT ![i] = new]
      /\ new.attempts >= intent[i].attempts
      /\ HandoffPrepared(i) => new = intent[i]
      /\ new.status = "leased" =>
           /\ new.attempts >= 1 /\ new.lease <= new.left
           /\ new = intent[i] \/ (new.attempts = intent[i].attempts + 1 /\ intent[i].attempts < MaxAttempts)
      /\ intent[i].status = "exhausted" => new = intent[i]
      /\ new.status \in {"queued", "leased"} => new.wait <= new.left
      /\ i <= last \/ new = intent[i]
  <2>1. CASE ClaimNothing(w)
    <3>1. intent' = [intent EXCEPT ![i] = row] /\ new = row
      BY <1>1, <2>1 DEF ClaimNothing, TypeOK
    <3> HIDE DEF row, new, i
    <3> QED BY <1>2, <1>3, <1>4, <1>5, <3>1
  <2>2. CASE ClaimExhausts(w)
    <3>1. intent' = [intent EXCEPT ![i] = Exhausted(row)] /\ new = Exhausted(row)
      BY <1>1, <2>2 DEF ClaimExhausts, TypeOK
    <3>2. row.status = "queued"
      BY <2>2 DEF ClaimExhausts, Claimable
    <3>3. /\ Exhausted(row) \in IntentRows /\ Exhausted(row).status = "exhausted"
          /\ Exhausted(row).attempts = row.attempts
      BY <1>2, ExhaustedType
    <3>4. HandoffPrepared(i) => intent[i].status = "leased"
      BY DEF HandoffPrepared
    <3>5. row = intent[i] => i <= last
      BY <1>1, <3>2, BoundAssumption DEF RowsInv, FutureIsBlank, NoIntent, TypeOK, Intents
    <3> HIDE DEF row, new, i
    <3> QED BY <1>2, <1>3, <1>4, <3>1, <3>2, <3>3, <3>4, <3>5
  <2>3. CASE Claim(w)
    <3> DEFINE taken == [row EXCEPT !.status = "leased", !.attempts = NextGeneration(row),
                                    !.lease = LeaseFor(row.left)]
    <3>1. intent' = [intent EXCEPT ![i] = taken] /\ new = taken
      BY <1>1, <2>3 DEF Claim, TypeOK
    <3>2. row.status = "queued" /\ row.attempts < MaxAttempts /\ row.wait = 0
      BY <1>2, <1>4, <2>3, PolicyAssumption DEF Claim, Claimable, BudgetSpent
    <3>3. LeaseFor(row.left) \in -1..LeaseTicks /\ LeaseFor(row.left) <= row.left
      BY <1>2, <1>4, PolicyAssumption DEF LeaseFor, Lower
    <3> DEFINE lease == LeaseFor(row.left)
               attempts == row.attempts + 1
    <3>4. attempts \in 0..MaxAttempts
      BY <1>2, <1>4, <3>2, PolicyAssumption
    <3>5. taken = [row EXCEPT !.status = "leased", !.attempts = attempts, !.lease = lease]
      BY DEF NextGeneration
    <3>6. /\ taken \in IntentRows /\ taken.status = "leased" /\ taken.attempts = attempts
          /\ taken.lease = lease /\ taken.wait = row.wait /\ taken.left = row.left
      <4> HIDE DEF attempts, lease, row
      <4> QED BY <1>2, <3>3, <3>4, <3>5 DEF IntentRows, lease
    <3>7. HandoffPrepared(i) => intent[i].status = "leased"
      BY DEF HandoffPrepared
    <3>8. row = intent[i] => i <= last
      BY <1>1, <3>2, BoundAssumption DEF RowsInv, FutureIsBlank, NoIntent, TypeOK, Intents
    <3>9. /\ new.attempts = intent[i].attempts + 1 /\ intent[i].attempts < MaxAttempts
          /\ new.wait <= new.left /\ new.lease <= new.left /\ new.attempts >= 1
          /\ new.attempts >= intent[i].attempts
      <4>1. new.attempts = row.attempts + 1 /\ new.wait = row.wait /\ new.left = row.left
            /\ new.lease = LeaseFor(row.left)
        BY <3>1, <3>6
      <4>2. new.attempts = intent[i].attempts + 1
        BY <1>2, <4>1
      <4>3. new.wait <= new.left
        BY <1>2, <1>4, <3>2, <4>1, PolicyAssumption
      <4>4. new.lease <= new.left
        BY <3>3, <4>1
      <4>5. intent[i].attempts < MaxAttempts
        BY <1>2, <3>2
      <4> HIDE DEF new, row
      <4> QED BY <1>4, <4>2, <4>3, <4>4, <4>5, PolicyAssumption
    <3> HIDE DEF taken, row, new, i
    <3> QED BY <1>2, <1>3, <3>1, <3>2, <3>6, <3>7, <3>8, <3>9
  <2> QED BY <2>1, <2>2, <2>3
<1>7. new.status = "leased" => consumption[<<i, new.attempts>>] \in {"none", "prepared"}
  <2>1. CASE new = intent[i] /\ new.status = "leased"
    <3>1. <<i, new.attempts>> \in Keys
      BY <1>1, <1>4, <1>6, <2>1, PolicyAssumption DEF Keys, Generations
    <3> QED BY <1>1, <2>1, <3>1 DEF RowsInv, OwnedIsOpen, Owns
  <2>2. CASE new.attempts = intent[i].attempts + 1 /\ intent[i].attempts < MaxAttempts
    <3>1. <<i, new.attempts>> \in Keys /\ new.attempts > intent[i].attempts
      BY <1>1, <1>4, <2>2, PolicyAssumption DEF Keys, Generations
    <3> QED BY <1>1, <3>1 DEF RowsInv, FutureIsBlank
  <2> QED BY <1>6, <2>1, <2>2
<1>8. last' = last /\ consumption' = consumption /\ handoff' = handoff
  BY DEF ClaimNothing, ClaimExhausts, Claim
<1>9. HandoffPrepared(i) => intent[i].status = "leased"
  BY DEF HandoffPrepared
<1>10. RowsInv'
  <2> HIDE DEF new, i, row
  <2> QED BY <1>1, <1>6, <1>7, <1>8, <1>9, RowChanged
<1>11. intent' \in [Intents -> IntentRows]
  <2> HIDE DEF new, i, row
  <2> QED BY <1>1, <1>6, RowReplaced
<1>12. work' \in [Workers -> WorkRecords]
  <2>1. CASE Return(w)
    BY <1>1, <2>1, ReturnType
  <2>2. CASE Claim(w)
    <3>1. row.attempts < MaxAttempts
      BY <1>2, <1>4, <2>2, PolicyAssumption DEF Claim, BudgetSpent
    <3>2. row.attempts + 1 \in Generations
      BY <1>2, <1>4, <3>1, PolicyAssumption DEF Generations
    <3>3. work' = [work EXCEPT ![w] = [at |-> "claimed", i |-> i, g |-> row.attempts + 1]]
      BY <2>2 DEF Claim, NextGeneration
    <3>4. [at |-> "claimed", i |-> i, g |-> row.attempts + 1] \in WorkRecords
      BY <1>1, <3>2 DEF WorkRecords, Owning
    <3> QED BY <1>1, <3>3, <3>4, WorkTyped
  <2> QED BY <2>1, <2>2 DEF ClaimNothing, ClaimExhausts
<1>13. UNCHANGED <<run, pending, exec, maxSteps, faults>>
  BY DEF ClaimNothing, ClaimExhausts, Claim
<1> QED
  <2>1. TypeOK'
    BY <1>1, <1>8, <1>11, <1>12, <1>13, TypeFrom DEF TypeOK
  <2> QED BY <1>10, <2>1 DEF WakeInv, RowsInv

\* An owned key belongs to an intent that was scheduled.
LEMMA OwnedFacts ==
  ASSUME WakeInv, NEW k \in Keys, Owns(k)
  PROVE  /\ k[1] \in Intents /\ k[2] \in Generations /\ k = <<k[1], k[2]>>
         /\ k[1] <= last /\ intent[k[1]].attempts = k[2] /\ intent[k[1]].status = "leased"
         /\ intent[k[1]] \in IntentRows /\ intent[k[1]].attempts >= 1
<1>1. k[1] \in Intents /\ k[2] \in Generations /\ k = <<k[1], k[2]>>
  BY DEF Keys
<1>2. intent[k[1]].attempts = k[2] /\ intent[k[1]].status = "leased"
  BY DEF Owns
<1>3. k[1] <= last
  BY <1>1, <1>2, BoundAssumption DEF WakeInv, FutureIsBlank, NoIntent, TypeOK, Intents
<1> QED BY <1>1, <1>2, <1>3 DEF WakeInv, TypeOK, OwnedIsOpen

\* A generation that settles loses its lease in the same transaction.
LEMMA SettledRows ==
  ASSUME WakeInv, NEW k \in Keys, MaySettle(k, "prepared"), NEW row \in IntentRows,
         NEW outcome \in {"completed", "failed", "abandoned"},
         row.attempts = intent[k[1]].attempts, row.status \in {"queued", "exhausted"},
         row.status = "queued" => row.wait <= row.left,
         outcome = "completed" => handoff[k] = "completed" /\ row.status = "exhausted",
         outcome = "failed" => handoff[k] = "failed",
         consumption' = [consumption EXCEPT ![k] = outcome],
         intent' = [intent EXCEPT ![k[1]] = row],
         last' = last, handoff' = handoff
  PROVE  RowsInv'
<1> DEFINE i == k[1]
<1>1. Owns(k) /\ consumption[k] = "prepared" /\ TypeOK
  BY DEF MaySettle, WakeInv
<1>2. i \in Intents /\ i <= last /\ intent[i].attempts = k[2] /\ intent[i].status = "leased"
  BY <1>1, OwnedFacts
<1>3. /\ intent' \in [Intents -> IntentRows] /\ intent'[i] = row
      /\ \A j \in Intents : j # i => intent'[j] = intent[j]
  BY <1>1, <1>2, RowReplaced
<1>4. consumption'[k] = outcome /\ \A l \in Keys : l # k => consumption'[l] = consumption[l]
  BY <1>1 DEF TypeOK
<1>5. \A l \in Keys : l = <<l[1], l[2]>> /\ l[1] \in Intents /\ l[2] \in Generations
  BY DEF Keys
<1>6. \A l \in Keys : consumption[l] = "prepared" /\ l[1] = i => l = k
  BY <1>2, <1>5 DEF WakeInv, PreparedIsKept, Owns
<1> HIDE DEF i
<1>7. PreparedIsKept'
  BY <1>3, <1>4, <1>5, <1>6 DEF PreparedIsKept, Owns, WakeInv
<1>8. OwnedIsOpen'
  <2>1. \A j \in Intents : intent'[j].status = "leased" => intent'[j].attempts >= 1
    BY <1>3 DEF OwnedIsOpen, WakeInv
  <2>2. ASSUME NEW l \in Keys, Owns(l)' PROVE consumption'[l] \in {"none", "prepared"}
    <3>1. l[1] # i
      BY <1>2, <1>3, <2>2 DEF Owns
    <3>2. l # k /\ Owns(l)
      BY <1>3, <1>5, <2>2, <3>1 DEF Owns, i
    <3> QED BY <1>4, <3>2 DEF OwnedIsOpen, WakeInv
  <2> QED BY <2>1, <2>2 DEF OwnedIsOpen
<1>9. FutureIsBlank'
  <2>1. ASSUME NEW l \in Keys, l[2] > intent'[l[1]].attempts PROVE consumption'[l] = "none"
    <3>1. l[2] > intent[l[1]].attempts
      BY <1>2, <1>3, <1>5, <2>1 DEF i
    <3>2. l # k
      BY <1>2, <1>5, <3>1 DEF i, Generations
    <3> QED BY <1>4, <3>1, <3>2 DEF FutureIsBlank, WakeInv
  <2>2. \A j \in Intents : j > last => intent'[j] = NoIntent
    <3>1. last \in Nat /\ i \in Nat
      BY <1>1, <1>2, BoundAssumption DEF TypeOK, Intents
    <3>2. \A j \in Intents : j > last => j # i
      BY <1>2, <3>1
    <3>3. \A j \in Intents : j > last => intent[j] = NoIntent
      BY DEF FutureIsBlank, WakeInv
    <3> QED BY <1>3, <3>2, <3>3
  <2> QED BY <2>1, <2>2 DEF FutureIsBlank
<1>10. FactsMatch'
  <2> SUFFICES ASSUME NEW l \in Keys
               PROVE  /\ consumption'[l] = "completed" =>
                           /\ handoff[l] = "completed"
                           /\ intent'[l[1]].status = "exhausted"
                           /\ intent'[l[1]].attempts = l[2]
                      /\ consumption'[l] = "failed" => handoff[l] = "failed"
    BY DEF FactsMatch
  <2>1. CASE l = k
    BY <1>2, <1>3, <1>4, <2>1 DEF i
  <2>2. CASE l # k
    <3>1. consumption[l] = "completed" => l[1] # i
      BY <1>2, <1>5 DEF FactsMatch, WakeInv
    <3> QED BY <1>3, <1>4, <1>5, <2>2, <3>1 DEF FactsMatch, WakeInv
  <2> QED BY <2>1, <2>2
<1>11. TimelineValid'
  BY <1>3 DEF TimelineValid, WakeInv, Active
<1> QED BY <1>7, <1>8, <1>9, <1>10, <1>11 DEF RowsInv

\* A generation settles.
LEMMA SettleStep ==
  ASSUME WakeInv, NEW w \in Workers, Complete(w) \/ FailWith(w) \/ FailWithout(w)
  PROVE  WakeInv'
<1> DEFINE k == KeyOf(w)
<1>1. k \in Keys /\ TypeOK
  BY WorkTyped DEF Complete, FailWith, FailWithout, Owning, WakeInv
<1>2. work' \in [Workers -> WorkRecords]
  BY <1>1, ReturnType DEF Complete, FailWith, FailWithout, FailConsumption
<1>3. UNCHANGED <<run, pending, exec, last, maxSteps, handoff, faults>>
  BY DEF Complete, FailWith, FailWithout, FailConsumption
<1>4. CASE UNCHANGED <<consumption, intent>>
  <2>1. RowsInv'
    BY <1>3, <1>4, RowsUnchanged DEF RowsInv, WakeInv
  <2>2. TypeOK'
    BY <1>1, <1>2, <1>3, <1>4, TypeFrom DEF TypeOK
  <2> QED BY <2>1, <2>2 DEF WakeInv, RowsInv
<1>5. ASSUME NEW row \in IntentRows, NEW outcome \in {"completed", "failed", "abandoned"},
             MaySettle(k, "prepared"),
             row.attempts = intent[k[1]].attempts, row.status \in {"queued", "exhausted"},
             row.status = "queued" => row.wait <= row.left,
             outcome = "completed" => handoff[k] = "completed" /\ row.status = "exhausted",
             outcome = "failed" => handoff[k] = "failed",
             consumption' = [consumption EXCEPT ![k] = outcome],
             intent' = [intent EXCEPT ![k[1]] = row]
      PROVE  WakeInv'
  <2>1. RowsInv'
    <3> HIDE DEF k
    <3> QED BY <1>1, <1>3, <1>5, SettledRows
  <2>2. k[1] \in Intents
    BY <1>1 DEF Keys
  <2>3. intent' \in [Intents -> IntentRows]
    <3> HIDE DEF k
    <3> QED BY <1>1, <1>5, <2>2, RowReplaced
  <2>4. consumption' \in [Keys -> ConsumptionStates]
    BY <1>1, <1>5 DEF TypeOK, ConsumptionStates
  <2>5. TypeOK'
    BY <1>1, <1>2, <1>3, <2>3, <2>4, TypeFrom DEF TypeOK
  <2> QED BY <2>1, <2>5 DEF WakeInv, RowsInv
<1>6. MaySettle(k, "prepared") => /\ intent[k[1]] \in IntentRows /\ intent[k[1]].attempts >= 1
  BY <1>1, OwnedFacts DEF MaySettle
<1>7. CASE Complete(w) /\ ~UNCHANGED <<consumption, intent>>
  <2> DEFINE row == Exhausted(intent[k[1]])
  <2>1. /\ MaySettle(k, "prepared") /\ handoff[k] = "completed"
        /\ consumption' = [consumption EXCEPT ![k] = "completed"]
        /\ intent' = [intent EXCEPT ![k[1]] = row]
    BY <1>7 DEF Complete
  <2>2. row \in IntentRows /\ row.status = "exhausted" /\ row.attempts = intent[k[1]].attempts
    BY <1>6, <2>1, ExhaustedType
  <2> HIDE DEF row, k
  <2> QED BY <1>5, <2>1, <2>2
<1>8. CASE (FailWith(w) \/ FailWithout(w)) /\ ~UNCHANGED <<consumption, intent>>
  <2> DEFINE row == FailedRow(intent[k[1]])
  <2>1. PICK outcome \in {"failed", "abandoned"} :
          /\ outcome = "failed" => handoff[k] = "failed"
          /\ MaySettle(k, "prepared")
          /\ consumption' = [consumption EXCEPT ![k] = outcome]
          /\ intent' = [intent EXCEPT ![k[1]] = row]
    BY <1>8 DEF FailWith, FailWithout, FailConsumption
  <2>2. /\ row \in IntentRows /\ row.attempts = intent[k[1]].attempts
        /\ row.status \in {"queued", "exhausted"}
        /\ row.status = "queued" => row.wait <= row.left
    BY <1>6, <2>1, FailedRowType
  <2> HIDE DEF row, k
  <2> QED BY <1>5, <2>1, <2>2
<1> QED BY <1>4, <1>7, <1>8

\* Giving an owned generation back, while no handoff is prepared for it.
LEMMA RetryStep ==
  ASSUME WakeInv, NEW w \in Workers, consumption[KeyOf(w)] # "prepared", Retry(w)
  PROVE  WakeInv'
<1> DEFINE k == KeyOf(w)
           i == k[1]
           row == RetryRow(intent[i], k[2])
<1>1. k \in Keys /\ TypeOK /\ RowsInv /\ Owns(k)
  BY WorkTyped DEF Retry, Owning, WakeInv, RowsInv
<1>2. /\ i \in Intents /\ k[2] \in Generations /\ i <= last /\ k = <<i, k[2]>>
      /\ intent[i].attempts = k[2] /\ intent[i].status = "leased" /\ intent[i] \in IntentRows
  BY <1>1, OwnedFacts
<1>3. /\ row \in IntentRows /\ row.attempts = intent[i].attempts
      /\ row.status \in {"queued", "exhausted"}
      /\ row.status = "queued" => row.wait <= row.left
  BY <1>2, RetryRowType
<1>4. intent' = [intent EXCEPT ![i] = row]
  BY DEF Retry
<1>5. ~HandoffPrepared(i)
  BY <1>2 DEF HandoffPrepared
<1>6. UNCHANGED <<run, pending, exec, last, consumption, maxSteps, handoff, faults>>
  BY DEF Retry
<1>7. row.attempts >= intent[i].attempts
  BY <1>2, <1>3, RowFields, PolicyAssumption
<1>8. RowsInv'
  <2> HIDE DEF row, i, k
  <2> QED BY <1>1, <1>2, <1>3, <1>4, <1>5, <1>6, <1>7, RowChanged
<1>9. intent' \in [Intents -> IntentRows]
  <2> HIDE DEF row, i, k
  <2> QED BY <1>1, <1>2, <1>3, <1>4, RowReplaced
<1>10. work' \in [Workers -> WorkRecords]
  BY <1>1, ReturnType DEF Retry
<1>11. TypeOK'
  BY <1>1, <1>6, <1>9, <1>10, TypeFrom DEF TypeOK
<1> QED BY <1>8, <1>11 DEF WakeInv, RowsInv

\* An intent is cancelled.
LEMMA CancelStep ==
  ASSUME WakeInv, Cancel
  PROVE  WakeInv'
<1> DEFINE row == [intent[last] EXCEPT !.status = "cancelled", !.lease = 0]
<1>1. TypeOK /\ RowsInv /\ last \in Intents /\ intent[last] \in IntentRows
  BY BoundAssumption DEF Cancel, WakeInv, RowsInv, TypeOK, Intents
<1>2. /\ row \in IntentRows /\ row.status = "cancelled" /\ row.attempts = intent[last].attempts
  <2>1. 0 \in -1..LeaseTicks
    BY PolicyAssumption
  <2> QED BY <1>1, <2>1 DEF IntentRows
<1>3. intent' = [intent EXCEPT ![last] = row]
  BY DEF Cancel
<1>4. ~HandoffPrepared(last) /\ intent[last].status # "exhausted"
  BY DEF Cancel, MayCancel, Active
<1>5. UNCHANGED <<run, pending, exec, last, consumption, maxSteps, handoff, work, faults>>
  BY DEF Cancel
<1>6. row.attempts >= intent[last].attempts /\ last <= last
  BY <1>1, <1>2, RowFields, PolicyAssumption, BoundAssumption DEF TypeOK
<1>7. RowsInv' /\ intent' \in [Intents -> IntentRows]
  <2> HIDE DEF row
  <2> QED BY <1>1, <1>2, <1>3, <1>4, <1>5, <1>6, RowChanged, RowReplaced
<1>8. TypeOK'
  BY <1>1, <1>5, <1>7 DEF TypeOK
<1> QED BY <1>7, <1>8 DEF WakeInv, RowsInv

\* Time passes.
LEMMA TickStep ==
  ASSUME WakeInv, Tick
  PROVE  WakeInv'
<1> DEFINE row == Later(intent[last])
<1>1. TypeOK /\ RowsInv /\ last \in Intents /\ intent[last] \in IntentRows
  BY BoundAssumption DEF Tick, WakeInv, RowsInv, TypeOK, Intents
<1>2. intent[last].status \in {"queued", "leased"}
  BY DEF Tick, Active
<1>3. /\ intent[last].wait <= intent[last].left
      /\ intent[last].status = "leased" => intent[last].lease <= intent[last].left
  BY <1>1, <1>2 DEF RowsInv, TimelineValid, Active
<1>4. /\ row \in IntentRows
      /\ row.attempts = intent[last].attempts /\ row.status = intent[last].status
      /\ row.wait <= row.left
      /\ row.status = "leased" => row.lease <= row.left
  BY <1>1, <1>3, LaterType
<1>5. intent' = [intent EXCEPT ![last] = row]
      /\ UNCHANGED <<run, pending, exec, last, consumption, maxSteps, handoff, work, faults>>
  BY DEF Tick
<1>6. row.attempts >= intent[last].attempts /\ last <= last
  BY <1>1, <1>4, RowFields, PolicyAssumption, BoundAssumption DEF TypeOK
<1>7. row.status = "leased" =>
        row.attempts >= 1 /\ consumption[<<last, row.attempts>>] \in {"none", "prepared"}
  <2>1. row.status = "leased" => intent[last].attempts \in 0..MaxAttempts /\ intent[last].attempts >= 1
    BY <1>1, <1>4, RowFields DEF RowsInv, OwnedIsOpen
  <2>2. row.status = "leased" => <<last, intent[last].attempts>> \in Keys
    BY <1>1, <2>1, PolicyAssumption DEF Keys, Generations
  <2>3. row.status = "leased" => Owns(<<last, intent[last].attempts>>)
    BY <1>4 DEF Owns
  <2> HIDE DEF row
  <2> QED BY <1>1, <1>4, <2>1, <2>2, <2>3 DEF RowsInv, OwnedIsOpen
<1>8. RowsInv' /\ intent' \in [Intents -> IntentRows]
  <2>1. HandoffPrepared(last) => row.status = "leased"
    BY <1>4 DEF HandoffPrepared
  <2> HIDE DEF row
  <2> QED BY <1>1, <1>2, <1>4, <1>5, <1>6, <1>7, <2>1, RowChanged, RowReplaced
<1>9. TypeOK'
  BY <1>1, <1>5, <1>8 DEF TypeOK
<1> QED BY <1>8, <1>9 DEF WakeInv, RowsInv

\* A consumption is prepared only for an owned generation that has none.
LEMMA PrepareStep ==
  ASSUME WakeInv, NEW w \in Workers, Prepare(w)
  PROVE  WakeInv'
<1> DEFINE k == KeyOf(w)
<1>1. k \in Keys /\ TypeOK /\ RowsInv
  BY WorkTyped DEF Prepare, Owning, WakeInv, RowsInv
<1>2. UNCHANGED <<run, pending, exec, last, intent, handoff, faults>>
  BY DEF Prepare
<1>3. work' \in [Workers -> WorkRecords]
  BY <1>1, GotoType, ReturnType DEF Prepare, Owning
<1>4. maxSteps' \in [Keys -> 0..MaxSteps]
  <2>1. CASE UNCHANGED maxSteps
    BY <1>1, <2>1 DEF TypeOK
  <2>2. CASE \E steps \in Asks(w) : maxSteps' = [maxSteps EXCEPT ![k] = steps]
    <3>1. PICK steps \in Asks(w) : maxSteps' = [maxSteps EXCEPT ![k] = steps]
      BY <2>2
    <3>2. steps \in 0..MaxSteps
      BY ConsumerAssumption DEF Asks, RunWakeWorkerMaxSteps
    <3> HIDE DEF k
    <3> QED BY <1>1, <3>1, <3>2 DEF TypeOK
  <2> QED BY <2>1, <2>2 DEF Prepare
<1>5. CASE consumption' = consumption
  <2>1. RowsInv'
    BY <1>1, <1>2, <1>5, RowsUnchanged
  <2>2. TypeOK'
    BY <1>1, <1>2, <1>3, <1>4, <1>5, TypeFrom DEF TypeOK
  <2> QED BY <2>1, <2>2 DEF WakeInv, RowsInv
<1>6. CASE Owns(k) /\ consumption' = [consumption EXCEPT ![k] = "prepared"]
  <2>1. consumption'[k] = "prepared" /\ \A l \in Keys : l # k => consumption'[l] = consumption[l]
    BY <1>1, <1>6 DEF TypeOK
  <2>2. consumption' \in [Keys -> ConsumptionStates]
    BY <1>1, <1>6 DEF TypeOK, ConsumptionStates
  <2>3. TypeOK'
    BY <1>1, <1>2, <1>3, <1>4, <2>2, TypeFrom DEF TypeOK
  <2>4. intent[k[1]].attempts = k[2] /\ k[2] \in Nat
    BY <1>1, <1>6, PolicyAssumption DEF Owns, Keys, Generations
  <2>5. FutureIsBlank'
    BY <1>1, <1>2, <2>1, <2>4 DEF RowsInv, FutureIsBlank
  <2>6. PreparedIsKept' /\ OwnedIsOpen' /\ FactsMatch' /\ TimelineValid'
    BY <1>1, <1>2, <1>6, <2>1
    DEF RowsInv, PreparedIsKept, OwnedIsOpen, FactsMatch, TimelineValid, Owns, Active
  <2> QED BY <2>3, <2>5, <2>6 DEF WakeInv, RowsInv
<1> QED BY <1>5, <1>6 DEF Prepare

\* A handoff gets its result once, so what a consumption says stays true.
LEMMA HandoffStep ==
  ASSUME WakeInv, NEW w \in Workers, OpenHandoff(w) \/ Executed(w)
  PROVE  WakeInv'
<1> DEFINE k == KeyOf(w)
<1>1. k \in Keys /\ TypeOK /\ RowsInv
  BY WorkTyped DEF OpenHandoff, Executed, Owning, WakeInv, RowsInv
<1>2. UNCHANGED <<run, last, intent, consumption, maxSteps, faults>>
  BY DEF OpenHandoff, Executed
<1>3. work' \in [Workers -> WorkRecords]
  BY <1>1, GotoType, ReturnType DEF OpenHandoff, Executed, Owning
<1>4. \/ handoff' = handoff
      \/ /\ handoff[k] \in {"none", "open"}
         /\ \E result \in {"open", "completed", "failed"} : handoff' = [handoff EXCEPT ![k] = result]
  BY DEF OpenHandoff, Executed, Unreported
<1>5. handoff' \in [Keys -> HandoffStates]
      /\ \A l \in Keys : handoff[l] \in {"completed", "failed"} => handoff'[l] = handoff[l]
  BY <1>1, <1>4 DEF TypeOK, HandoffStates
<1>6. exec' \in Workers \cup {Free, Other}
  BY <1>1 DEF OpenHandoff, Executed, TypeOK
<1>7. pending' \in BOOLEAN
  <2>1. (IF pending THEN BOOLEAN ELSE {FALSE}) \subseteq BOOLEAN
    OBVIOUS
  <2>2. pending' = pending \/ pending' \in (IF pending THEN BOOLEAN ELSE {FALSE})
    BY Zenon DEF OpenHandoff, Executed
  <2>3. pending \in BOOLEAN
    BY <1>1 DEF TypeOK
  <2> QED BY <2>1, <2>2, <2>3, Zenon
<1>8. TypeOK'
  BY <1>1, <1>2, <1>3, <1>5, <1>6, <1>7, TypeFrom DEF TypeOK
<1>9. RowsInv'
  BY <1>1, <1>2, <1>5
  DEF RowsInv, PreparedIsKept, OwnedIsOpen, FutureIsBlank, FactsMatch, TimelineValid, Owns, Active
<1> QED BY <1>8, <1>9 DEF WakeInv, RowsInv

\* An intent is scheduled.
LEMMA ScheduleStep ==
  ASSUME WakeInv, Schedule
  PROVE  WakeInv'
<1> DEFINE i == last + 1
           row == [status |-> "queued", attempts |-> 0, wait |-> InitialDelay,
                   left |-> Elapsed, lease |-> 0]
<1>1. /\ TypeOK /\ RowsInv /\ i \in Intents /\ i > last /\ last \in Nat
      /\ last' = i /\ i \in 0..MaxIntents
  BY BoundAssumption DEF Schedule, WakeInv, RowsInv, TypeOK, Intents
<1>2. intent[i] = NoIntent /\ intent[i].attempts = 0 /\ intent[i].status = "none"
  BY <1>1 DEF RowsInv, FutureIsBlank, NoIntent
<1>3. row \in IntentRows
  BY PolicyAssumption DEF IntentRows
<1>4. intent' = [intent EXCEPT ![i] = row] /\ UNCHANGED <<consumption, handoff>>
  BY DEF Schedule
<1>5. /\ intent' \in [Intents -> IntentRows] /\ intent'[i] = row
      /\ \A j \in Intents : j # i => intent'[j] = intent[j]
  <2> HIDE DEF row, i
  <2> QED BY <1>1, <1>3, <1>4, RowReplaced
<1>6. \A l \in Keys : l = <<l[1], l[2]>> /\ l[1] \in Intents /\ l[2] \in Generations
  BY DEF Keys
<1>7. \A l \in Keys : l[1] = i => consumption[l] = "none"
  BY <1>1, <1>2, <1>6, PolicyAssumption DEF RowsInv, FutureIsBlank, Generations
<1>8. row.status = "queued" /\ row.wait <= row.left /\ row.attempts = 0
  BY PolicyAssumption
<1>9. FutureIsBlank'
  <2>1. \A j \in Intents : j > i => intent'[j] = NoIntent
    BY <1>1, <1>5 DEF RowsInv, FutureIsBlank, Intents
  <2>2. \A l \in Keys : l[2] > intent'[l[1]].attempts => consumption[l] = "none"
    <3> HIDE DEF row, i
    <3> QED BY <1>1, <1>5, <1>6, <1>7 DEF RowsInv, FutureIsBlank
  <2> QED BY <1>1, <1>4, <2>1, <2>2 DEF FutureIsBlank
<1>10. RowsInv'
  <2> HIDE DEF row, i
  <2>1. PreparedIsKept'
    BY <1>1, <1>4, <1>5, <1>6, <1>7 DEF RowsInv, PreparedIsKept, Owns
  <2>2. OwnedIsOpen'
    BY <1>1, <1>4, <1>5, <1>6, <1>8 DEF RowsInv, OwnedIsOpen, Owns
  <2>3. FactsMatch'
    BY <1>1, <1>4, <1>5, <1>6, <1>7 DEF RowsInv, FactsMatch
  <2>4. TimelineValid'
    BY <1>1, <1>5, <1>8 DEF RowsInv, TimelineValid, Active
  <2> QED BY <1>9, <2>1, <2>2, <2>3, <2>4 DEF RowsInv
<1>11. TypeOK'
  BY <1>1, <1>4, <1>5 DEF TypeOK, Schedule
<1> QED BY <1>10, <1>11 DEF WakeInv, RowsInv

\* Every step keeps the invariant (one case for each store method or place of
\* a consumer); a retry relies on nobody having prepared what it gives back.
LEMMA StepInv ==
  ASSUME WakeInv, ClaimsAreOwn, [Next]_vars
  PROVE  WakeInv'
<1>1. ASSUME NEW w \in Workers, ConsumerStep(w) PROVE WakeInv'
  BY <1>1, QuietStep, ClaimStep, PrepareStep, HandoffStep, SettleStep DEF ConsumerStep, Proceed
<1>2. ASSUME NEW w \in Workers, Retry(w) PROVE WakeInv'
  <2>1. consumption[KeyOf(w)] # "prepared"
    BY <1>2 DEF Retry, ClaimsAreOwn
  <2> QED BY <1>2, <2>1, RetryStep
<1>3. CASE Schedule \/ Cancel \/ Tick
  BY <1>3, ScheduleStep, CancelStep, TickStep
<1>4. CASE \/ OtherExecutes \/ OtherReturns \/ RunMoves \/ QueueMoves \/ UNCHANGED vars
           \/ \E w \in Workers : Crash(w) \/ ExecExpires(w) \/ LoseExec(w)
  BY <1>4, QuietStep
<1> QED BY <1>1, <1>2, <1>3, <1>4 DEF Next

-----------------------------------------------------------------------------
\* Leases only end, but for a claim, and generations only grow.
LEMMA LeasesOnlyEnd ==
  ASSUME WakeInv, WakeInv', [Next]_vars, ~\E w \in Workers : Claim(w), NEW i \in Intents
  PROVE  /\ intent'[i].attempts >= intent[i].attempts
         /\ intent'[i].status = "leased" =>
              intent[i].status = "leased" /\ intent'[i].attempts = intent[i].attempts
<1> DEFINE Goal == /\ intent'[i].attempts >= intent[i].attempts
                   /\ intent'[i].status = "leased" =>
                        intent[i].status = "leased" /\ intent'[i].attempts = intent[i].attempts
<1> SUFFICES Goal
  OBVIOUS
<1>1. /\ TypeOK /\ intent[i] \in IntentRows /\ intent[i].attempts \in Nat
      /\ intent'[i].attempts \in Nat
  BY RowFields, PolicyAssumption DEF WakeInv, TypeOK
<1>2. CASE intent'[i] = intent[i]
  BY <1>1, <1>2
<1>3. ASSUME NEW w \in Workers, ClaimNothing(w) \/ ClaimExhausts(w), intent'[i] # intent[i]
      PROVE  Goal
  <2>1. work[w].i = i
    BY <1>1, <1>3 DEF ClaimNothing, ClaimExhausts, TypeOK
  <2>2. intent'[i] = Reconciled(i) \/ intent'[i] = Exhausted(Reconciled(i))
    BY <1>1, <1>3, <2>1 DEF ClaimNothing, ClaimExhausts, TypeOK
  <2>3. /\ Reconciled(i) \in IntentRows /\ Reconciled(i).attempts = intent[i].attempts
        /\ Reconciled(i) = intent[i] \/ Reconciled(i).status \in {"queued", "exhausted"}
    BY <1>1, ReconciledFacts
  <2>4. /\ Exhausted(Reconciled(i)).attempts = intent[i].attempts
        /\ Exhausted(Reconciled(i)).status = "exhausted"
    BY <2>3, ExhaustedType
  <2> QED BY <1>1, <1>3, <2>2, <2>3, <2>4
<1>4. ASSUME NEW w \in Workers, Retry(w), intent'[i] # intent[i]
      PROVE  Goal
  <2>1. KeyOf(w) \in Keys /\ Owns(KeyOf(w))
    BY <1>1, <1>4, WorkTyped DEF Retry, Owning
  <2>2. KeyOf(w)[1] = i /\ intent'[i] = RetryRow(intent[i], KeyOf(w)[2])
    BY <1>1, <1>4 DEF Retry, TypeOK
  <2>3. KeyOf(w)[2] \in Generations
    BY <2>1, OwnedFacts
  <2>4. RetryRow(intent[i], KeyOf(w)[2]).attempts = intent[i].attempts
        /\ RetryRow(intent[i], KeyOf(w)[2]).status \in {"queued", "exhausted"}
    BY <1>1, <2>3, RetryRowType
  <2> QED BY <1>1, <2>2, <2>4
<1>5. ASSUME NEW w \in Workers, Complete(w) \/ FailWith(w) \/ FailWithout(w),
             intent'[i] # intent[i]
      PROVE  Goal
  <2>1. KeyOf(w) \in Keys
    BY <1>1, <1>5, WorkTyped DEF Complete, FailWith, FailWithout, Owning
  <2>2. MaySettle(KeyOf(w), "prepared") /\ KeyOf(w)[1] = i
        /\ (intent'[i] = Exhausted(intent[i]) \/ intent'[i] = FailedRow(intent[i]))
    BY <1>1, <1>5 DEF Complete, FailWith, FailWithout, FailConsumption, TypeOK
  <2>3. intent[i].attempts >= 1
    BY <2>1, <2>2, OwnedFacts DEF MaySettle
  <2>4. /\ Exhausted(intent[i]).attempts = intent[i].attempts
        /\ Exhausted(intent[i]).status = "exhausted"
        /\ FailedRow(intent[i]).attempts = intent[i].attempts
        /\ FailedRow(intent[i]).status \in {"queued", "exhausted"}
    BY <1>1, <2>3, ExhaustedType, FailedRowType
  <2> QED BY <1>1, <2>2, <2>4
<1>6. CASE Tick /\ intent'[i] # intent[i]
  <2>1. intent'[i] = Later(intent[i])
    BY <1>1, <1>6 DEF Tick, TypeOK
  <2> QED BY <1>1, <2>1, LaterType
<1>7. CASE Cancel /\ intent'[i] # intent[i]
  <2>1. intent'[i].status = "cancelled" /\ intent'[i].attempts = intent[i].attempts
    BY <1>1, <1>7 DEF Cancel, TypeOK, IntentRows
  <2> QED BY <1>1, <2>1
<1>8. CASE Schedule /\ intent'[i] # intent[i]
  <2>1. i = last + 1 /\ intent'[i].status = "queued"
    BY <1>1, <1>8 DEF Schedule, TypeOK
  <2>2. intent[i].attempts = 0
    BY <1>1, <2>1, BoundAssumption DEF WakeInv, FutureIsBlank, NoIntent, TypeOK, Intents
  <2> QED BY <1>1, <2>1, <2>2
<1>9. CASE ~ \/ \E w \in Workers : \/ ClaimNothing(w) \/ ClaimExhausts(w) \/ Retry(w)
                                   \/ Complete(w) \/ FailWith(w) \/ FailWithout(w)
             \/ Tick \/ Cancel \/ Schedule
  <2>1. intent' = intent
    BY <1>9 DEF Next, ConsumerStep, Proceed, Consume, ClaimIneligible, Claim, Prepare,
       ReplayHandoff, OpenHandoff, OpenRefused, Execute, ExecuteRefused, Executed, Crash, ExecExpires, LoseExec,
       OtherExecutes, OtherReturns, RunMoves, QueueMoves, vars
  <2> QED BY <1>1, <2>1
<1> HIDE DEF Goal
<1> QED BY <1>2, <1>3, <1>4, <1>5, <1>6, <1>7, <1>8, <1>9

\* Nobody comes to the place after a claim but by a claim.
LEMMA ClaimedBefore ==
  ASSUME WakeInv, [Next]_vars, ~\E w \in Workers : Claim(w),
         NEW v \in Workers, work'[v].at = "claimed"
  PROVE  work'[v] = work[v]
<1>1. work \in [Workers -> WorkRecords]
  BY WorkTyped DEF WakeInv
<1>2. ASSUME NEW w \in Workers, Return(w) \/ \E place \in Owning \ {"claimed"} : Goto(w, place)
      PROVE  work'[v] = work[v]
  <2>1. CASE v = w
    <3>1. work[w] \in WorkRecords
      BY <1>1
    <3>2. work[w] = Idle \/ work[w] \in [at : {"claiming"}, i : Intents, g : {0}]
          \/ work[w] \in [at : Owning, i : Intents, g : Generations]
      BY <3>1 DEF WorkRecords
    <3>3. work'[w].at # "claimed"
      BY <1>1, <1>2, <3>2 DEF Return, Goto, Idle
    <3> QED BY <2>1, <3>3
  <2>2. CASE v # w
    BY <1>1, <1>2, <2>2 DEF Return, Goto
  <2> QED BY <2>1, <2>2
<1>3. ASSUME NEW w \in Workers, Consume(w) PROVE work'[v] = work[v]
  BY <1>1, <1>3 DEF Consume
<1>4. CASE work' = work
  BY <1>4
<1>5. ASSUME NEW w \in Workers, ConsumerStep(w) \/ Retry(w) \/ Crash(w) \/ LoseExec(w)
      PROVE  Consume(w) \/ Return(w) \/ \E place \in Owning \ {"claimed"} : Goto(w, place)
  BY <1>5 DEF ConsumerStep, Proceed, ClaimNothing, ClaimExhausts, ClaimIneligible, Prepare,
     ReplayHandoff, OpenHandoff, OpenRefused, Execute, ExecuteRefused, Executed, Complete, FailWith,
     FailWithout, FailConsumption, Retry, Crash, LoseExec, Owning
<1>6. CASE \/ \E w \in Workers : ExecExpires(w)
           \/ Schedule \/ Cancel \/ OtherExecutes \/ OtherReturns \/ RunMoves \/ QueueMoves \/ Tick
           \/ UNCHANGED vars
  <2>1. work' = work
    BY <1>6 DEF ExecExpires, Schedule, Cancel, OtherExecutes, OtherReturns, RunMoves, QueueMoves,
       Tick, vars
  <2> QED BY <1>4, <2>1
<1> QED BY <1>2, <1>3, <1>5, <1>6 DEF Next

\* What is recorded of a claimed generation, others have not recorded.
LEMMA RecordedByOwner ==
  ASSUME WakeInv, ClaimsAreOwn, [Next]_vars, NEW k \in Keys, consumption'[k] # consumption[k]
  PROVE  Owns(k) /\ \E w \in Workers :
           /\ KeyOf(w) = k /\ work'[w].at # "claimed"
           /\ work[w].at = "claimed" \/ consumption[k] = "prepared"
<1>1. TypeOK
  BY DEF WakeInv
<1>2. PICK w \in Workers : Prepare(w) \/ Complete(w) \/ FailWith(w) \/ FailWithout(w)
  BY DEF Next, ConsumerStep, Proceed, Consume, ClaimNothing, ClaimExhausts, ClaimIneligible, Claim,
     ReplayHandoff, OpenHandoff, OpenRefused, Execute, ExecuteRefused, Executed, Retry, Crash,
     ExecExpires, LoseExec, Schedule, Cancel, OtherExecutes, OtherReturns, RunMoves, QueueMoves,
     Tick, vars
<1>3. work \in [Workers -> WorkRecords] /\ KeyOf(w) \in Keys
      /\ work[w] \in [at : Owning, i : Intents, g : Generations]
  BY <1>1, <1>2, WorkTyped DEF Prepare, Complete, FailWith, FailWithout, Owning
<1>4. Return(w) \/ Goto(w, "prepared")
  BY <1>2 DEF Prepare, Complete, FailWith, FailWithout, FailConsumption
<1>5. work'[w].at # "claimed"
  BY <1>3, <1>4 DEF Return, Goto, Idle
<1>6. CASE Prepare(w)
  <2>1. KeyOf(w) = k /\ Owns(k) /\ work[w].at = "claimed"
    BY <1>1, <1>3, <1>6 DEF Prepare, TypeOK
  <2> QED BY <1>5, <2>1
<1>7. CASE Complete(w) \/ FailWith(w) \/ FailWithout(w)
  <2>1. MaySettle(KeyOf(w), "prepared") /\ KeyOf(w) = k
    BY <1>1, <1>3, <1>7 DEF Complete, FailWith, FailWithout, FailConsumption, TypeOK
  <2> QED BY <1>5, <2>1 DEF MaySettle
<1> QED BY <1>2, <1>6, <1>7

\* The invariant of the claims is inductive together with WakeInv.
LEMMA ClaimsStep ==
  ASSUME WakeInv, WakeInv', ClaimsAreOwn, [Next]_vars
  PROVE  ClaimsAreOwn'
<1>1. \A v \in Workers : work[v].at = "claimed" =>
        /\ work[v].i \in Intents /\ work[v].g \in Generations /\ KeyOf(v) \in Keys
        /\ KeyOf(v) = <<work[v].i, work[v].g>>
  BY WorkTyped DEF WakeInv, Owning, KeyOf
<1>2. CASE ~\E w \in Workers : Claim(w)
  <2>1. \A v \in Workers : work'[v].at = "claimed" =>
          /\ work'[v] = work[v] /\ work[v].at = "claimed" /\ KeyOf(v)' = KeyOf(v)
    BY <1>2, ClaimedBefore DEF KeyOf
  <2>2. ASSUME NEW v \in Workers, work'[v].at = "claimed"
        PROVE  work'[v].g <= intent'[work'[v].i].attempts
    <3>1. work[v].g <= intent[work[v].i].attempts /\ work[v].i \in Intents
      BY <1>1, <2>1, <2>2 DEF ClaimsAreOwn
    <3>2. /\ intent'[work[v].i].attempts >= intent[work[v].i].attempts
          /\ intent[work[v].i].attempts \in Nat /\ intent'[work[v].i].attempts \in Nat
      BY <1>2, <3>1, LeasesOnlyEnd, RowFields, PolicyAssumption DEF WakeInv, TypeOK
    <3>3. work[v].g \in Nat
      BY <1>1, <2>1, <2>2, PolicyAssumption DEF Generations
    <3> QED BY <2>1, <2>2, <3>1, <3>2, <3>3
  <2>3. ASSUME NEW v \in Workers, work'[v].at = "claimed", Owns(KeyOf(v))'
        PROVE  consumption'[KeyOf(v)'] = "none"
    <3>1. KeyOf(v)' = KeyOf(v) /\ KeyOf(v) \in Keys /\ KeyOf(v)[1] \in Intents
          /\ work[v].at = "claimed"
      BY <1>1, <2>1, <2>3
    <3>2. Owns(KeyOf(v))
      BY <1>2, <2>3, <3>1, LeasesOnlyEnd DEF Owns
    <3>3. consumption[KeyOf(v)] = "none"
      BY <3>1, <3>2 DEF ClaimsAreOwn
    <3>4. CASE consumption'[KeyOf(v)] # consumption[KeyOf(v)]
      <4>1. PICK w \in Workers : KeyOf(w) = KeyOf(v) /\ work'[w].at # "claimed"
                                /\ work[w].at = "claimed"
        BY <3>1, <3>3, <3>4, RecordedByOwner
      <4>2. w = v
        BY <3>1, <4>1 DEF ClaimsAreOwn
      <4> QED BY <2>3, <4>1, <4>2
    <3> QED BY <3>1, <3>3, <3>4
  <2>4. ASSUME NEW v \in Workers, NEW w \in Workers,
               work'[v].at = "claimed", work'[w].at = "claimed", KeyOf(v)' = KeyOf(w)'
        PROVE  v = w
    BY <2>1, <2>4 DEF ClaimsAreOwn
  <2> QED BY <2>2, <2>3, <2>4 DEF ClaimsAreOwn
<1>3. ASSUME NEW w \in Workers, Claim(w) PROVE ClaimsAreOwn'
  <2> DEFINE i == work[w].i
             g == intent[i].attempts + 1
  <2>1. /\ work \in [Workers -> WorkRecords] /\ i \in Intents /\ TypeOK
        /\ intent[i].attempts \in 0..MaxAttempts
    BY <1>3, WorkTyped, RowFields DEF Claim, WakeInv, TypeOK
  <2>2. Reconciled(i).attempts = intent[i].attempts /\ Reconciled(i) \in IntentRows
    BY <2>1, ReconciledFacts
  <2>3. /\ work'[w] = [at |-> "claimed", i |-> i, g |-> g]
        /\ \A v \in Workers : v # w => work'[v] = work[v]
    BY <1>3, <2>1, <2>2 DEF Claim, NextGeneration
  <2>4. /\ intent'[i].attempts = g
        /\ \A j \in Intents : j # i => intent'[j] = intent[j]
    BY <1>3, <2>1, <2>2 DEF Claim, NextGeneration, TypeOK, IntentRows
  <2>5. consumption' = consumption
    BY <1>3 DEF Claim
  <2>6. ASSUME NEW v \in Workers, v # w, work[v].at = "claimed"
        PROVE  /\ work[v].g <= intent'[work[v].i].attempts
               /\ ~(work[v].i = i /\ work[v].g = g)
               /\ Owns(KeyOf(v))' => consumption[KeyOf(v)] = "none"
    <3>1. work[v].g <= intent[work[v].i].attempts /\ work[v].i \in Intents /\ work[v].g \in Nat
          /\ KeyOf(v) = <<work[v].i, work[v].g>>
      BY <1>1, <2>6, PolicyAssumption DEF ClaimsAreOwn, Generations
    <3>2. work'[v] = work[v] /\ KeyOf(v)' = KeyOf(v)
      BY <2>3, <2>6 DEF KeyOf
    <3>3. work[v].i = i => work[v].g < g /\ work[v].g <= g /\ work[v].g # g
      BY <2>1, <3>1, PolicyAssumption
    <3>4. CASE work[v].i = i
      <4>1. ~Owns(KeyOf(v))'
        BY <2>4, <3>1, <3>2, <3>3, <3>4 DEF Owns
      <4> HIDE DEF g, i
      <4> QED BY <2>4, <3>1, <3>3, <3>4, <4>1
    <3>5. CASE work[v].i # i
      <4>1. Owns(KeyOf(v))' => Owns(KeyOf(v))
        BY <2>4, <3>1, <3>2, <3>5 DEF Owns
      <4> QED BY <2>4, <2>6, <3>1, <3>5, <4>1 DEF ClaimsAreOwn
    <3> QED BY <3>4, <3>5
  <2>7. consumption[<<i, g>>] = "none" /\ KeyOf(w)' = <<i, g>>
    <3>1. KeyOf(w)' = <<i, g>>
      BY <2>3 DEF KeyOf
    <3>2. <<i, g>> \in Keys
      <4>1. work'[w].at \in Owning
        BY <2>3 DEF Owning
      <4>2. work' \in [Workers -> WorkRecords]
        BY DEF WakeInv, TypeOK, WorkRecords, Owning
      <4>3. work'[w] \in [at : Owning, i : Intents, g : Generations]
        BY <2>3, <4>2 DEF WorkRecords, Idle
      <4> QED BY <2>1, <2>3, <4>3 DEF Keys
    <3>3. g > intent[i].attempts
      BY <2>1, PolicyAssumption
    <3> QED BY <3>1, <3>2, <3>3 DEF WakeInv, FutureIsBlank
  <2> HIDE DEF i, g
  <2>8. \A v \in Workers : v # w => KeyOf(v)' = <<work[v].i, work[v].g>> /\ KeyOf(v)' = KeyOf(v)
    BY <2>3 DEF KeyOf
  <2>9. g <= g
    BY <2>1, PolicyAssumption DEF g
  <2>10. ASSUME NEW v \in Workers, work'[v].at = "claimed"
         PROVE  /\ work'[v].g <= intent'[work'[v].i].attempts
                /\ Owns(KeyOf(v))' => consumption'[KeyOf(v)'] = "none"
                /\ \A u \in Workers :
                     work'[u].at = "claimed" /\ KeyOf(u)' = KeyOf(v)' => u = v
    <3>1. CASE v = w
      BY <2>3, <2>4, <2>5, <2>6, <2>7, <2>8, <2>9, <3>1
    <3>2. CASE v # w
      <4>1. \A u \in Workers : work'[u].at = "claimed" /\ KeyOf(u)' = KeyOf(v)' => u = v
        BY <2>3, <2>6, <2>7, <2>8, <2>10, <3>2 DEF ClaimsAreOwn
      <4> QED BY <2>3, <2>5, <2>6, <2>8, <2>10, <3>2, <4>1
    <3> QED BY <3>1, <3>2
  <2> QED BY <2>10 DEF ClaimsAreOwn
<1> QED BY <1>2, <1>3

-----------------------------------------------------------------------------
\* The rows of a run's wake-ups stay consistent in every behaviour, and a claim
\* is its consumer's own.
THEOREM WakeInvariance == Spec => [](WakeInv /\ ClaimsAreOwn)
<1>1. Init => WakeInv /\ ClaimsAreOwn
  BY InitInv DEF Init, ClaimsAreOwn, Idle
<1>2. WakeInv /\ ClaimsAreOwn /\ [Next]_vars => (WakeInv /\ ClaimsAreOwn)'
  BY StepInv, ClaimsStep
<1> QED BY <1>1, <1>2, PTL DEF Spec

\* The types of the module's variables.
THEOREM TypeCorrect == Spec => []TypeOK
<1>1. WakeInv /\ ClaimsAreOwn => TypeOK
  BY DEF WakeInv
<1> QED BY <1>1, WakeInvariance, PTL

\* A prepared generation keeps its lease until it settles: neither its expiry,
\* nor the operator, nor another consumer takes it away.
THEOREM PreparedKeepsItsLease == Spec => []PreparedIsKept
<1>1. WakeInv /\ ClaimsAreOwn => PreparedIsKept
  BY DEF WakeInv
<1> QED BY <1>1, WakeInvariance, PTL

\* A consumption says of its handoff what the handoff says.
THEOREM ConsumptionsMatchHandoffs == Spec => []FactsMatch
<1>1. WakeInv /\ ClaimsAreOwn => FactsMatch
  BY DEF WakeInv
<1> QED BY <1>1, WakeInvariance, PTL

\* The stored times of an active intent stay in order.
THEOREM TimesStayInOrder == Spec => []TimelineValid
<1>1. WakeInv /\ ClaimsAreOwn => TimelineValid
  BY DEF WakeInv
<1> QED BY <1>1, WakeInvariance, PTL

\* No consumer, however late, records a second end of a generation or of a
\* handoff.
THEOREM ResultsStay == Spec => ResultsAreFinal
<1>1. WakeInv /\ ClaimsAreOwn /\ [Next]_vars =>
        [\A k \in Keys :
          /\ consumption[k] \notin {"none", "prepared"} => consumption'[k] = consumption[k]
          /\ handoff[k] \in {"completed", "failed"} => handoff'[k] = handoff[k]]_vars
  <2> SUFFICES ASSUME WakeInv, ClaimsAreOwn, [Next]_vars, NEW k \in Keys
               PROVE  /\ consumption[k] \notin {"none", "prepared"} =>
                            consumption'[k] = consumption[k]
                      /\ handoff[k] \in {"completed", "failed"} => handoff'[k] = handoff[k]
    OBVIOUS
  <2>1. consumption'[k] # consumption[k] => consumption[k] \in {"none", "prepared"}
    BY RecordedByOwner DEF WakeInv, OwnedIsOpen
  <2>2. CASE \E w \in Workers : OpenHandoff(w) \/ Executed(w)
    <3>1. PICK w \in Workers : OpenHandoff(w) \/ Executed(w)
      BY <2>2
    <3>2. KeyOf(w) \in Keys
      BY <3>1, WorkTyped DEF WakeInv, OpenHandoff, Executed, Owning
    <3>3. \/ handoff' = handoff
          \/ /\ handoff[KeyOf(w)] \in {"none", "open"}
             /\ \E result : handoff' = [handoff EXCEPT ![KeyOf(w)] = result]
      BY <3>1 DEF OpenHandoff, Executed, Unreported
    <3> QED BY <2>1, <3>2, <3>3 DEF WakeInv, TypeOK
  <2>3. CASE ~\E w \in Workers : OpenHandoff(w) \/ Executed(w)
    <3>1. handoff' = handoff
      BY <2>3 DEF Next, ConsumerStep, Proceed, Consume, ClaimNothing, ClaimExhausts,
         ClaimIneligible, Claim, Prepare, ReplayHandoff, OpenRefused, Execute, ExecuteRefused, Complete, FailWith,
         FailWithout, FailConsumption, Retry, Crash, ExecExpires, LoseExec, Schedule, Cancel,
         OtherExecutes, OtherReturns, RunMoves, QueueMoves, Tick, vars
    <3> QED BY <2>1, <3>1
  <2> QED BY <2>2, <2>3
<1> QED BY <1>1, WakeInvariance, PTL DEF Spec, ResultsAreFinal
=============================================================================
