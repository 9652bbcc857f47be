--------------------------- MODULE RunLease_proofs ---------------------------
(***************************************************************************)
(* Proofs about RunLease, for any set of workers, any TTL and any renewal  *)
(* interval shorter than it: LeaseInv is inductive, and from it follow the *)
(* single writer, the order of stamps, and the refinement of Fence.        *)
(***************************************************************************)
EXTENDS RunLease, TLAPS

\* The counters of the clock stay within their ranges.
LEMMA LessInRange ==
  ASSUME NEW n \in Nat, NEW t \in 0..n
  PROVE  Less(t) \in 0..n
BY DEF Less

\* The inductive invariant holds initially.
LEMMA InitInv == Init => LeaseInv
BY PolicyAssumption DEF Init, LeaseInv, TypeOK, Holding

\* Every step keeps the inductive invariant (one case per store method or
\* worker step): a generation, once granted, stays with one worker.
LEMMA StepInv == LeaseInv /\ [Next]_vars => LeaseInv'
<1> SUFFICES ASSUME LeaseInv, [Next]_vars PROVE LeaseInv'
  OBVIOUS
<1> USE PolicyAssumption, BoundAssumption DEF LeaseInv, TypeOK, Holding
<1>1. ASSUME NEW w \in Workers, Acquire(w) PROVE LeaseInv'
  <2>1. lease' = [gen |-> lease.gen + 1, status |-> "active", left |-> TTL]
    BY <1>1 DEF Acquire, NextGeneration
  <2>2. /\ token' = [token EXCEPT ![w] = lease.gen + 1]
        /\ \A v \in Workers : token[v] # lease.gen + 1
    BY <1>1 DEF Acquire, NextGeneration
  <2>3. TypeOK'
    BY <1>1, <2>1, <2>2 DEF Acquire
  <2>4. \A v \in Workers : token'[v] <= lease'.gen
    BY <2>1, <2>2
  <2>5. \A u, v \in Workers : token'[u] = token'[v] /\ token'[u] # 0 => u = v
    BY <2>2
  <2> QED BY <1>1, <2>1, <2>3, <2>4, <2>5 DEF Acquire
<1>2. ASSUME NEW w \in Workers, Reacquire(w) PROVE LeaseInv'
  BY <1>2 DEF Reacquire
<1>3. ASSUME NEW w \in Workers, Heartbeat(w) PROVE LeaseInv'
  BY <1>3 DEF Heartbeat
<1>4. ASSUME NEW w \in Workers, HeartbeatLost(w) PROVE LeaseInv'
  BY <1>4 DEF HeartbeatLost
<1>5. ASSUME NEW w \in Workers, HeartbeatError(w) PROVE LeaseInv'
  BY <1>5 DEF HeartbeatError
<1>6. ASSUME NEW w \in Workers, Adopt(w) PROVE LeaseInv'
  BY <1>6 DEF Adopt
<1>7. ASSUME NEW w \in Workers, OperationEnds(w) PROVE LeaseInv'
  BY <1>7 DEF OperationEnds
<1>8. ASSUME NEW w \in Workers, Release(w) PROVE LeaseInv'
  <2>1. lease'.gen = lease.gen /\ lease' \in [gen : Nat,
          status : {"absent", "active", "released"}, left : 0..TTL]
    BY <1>8 DEF Release
  <2>2. lease'.status # "absent" <=> lease.status # "absent"
    BY <1>8 DEF Release, CanRelease, SameLease
  <2> QED BY <1>8, <2>1, <2>2 DEF Release
<1>9. ASSUME NEW w \in Workers, Crash(w) PROVE LeaseInv'
  BY <1>9 DEF Crash
<1>10. ASSUME NEW w \in Workers, Restart(w) PROVE LeaseInv'
  BY <1>10 DEF Restart
<1>11. CASE EndRun
  BY <1>11 DEF EndRun
<1>12. CASE Tick
  <2>1. Less(lease.left) \in 0..TTL /\ \A w \in Workers : Less(beat[w]) \in 0..RenewInterval
    BY LessInRange
  <2> QED BY <1>12, <2>1 DEF Tick
<1>13. CASE UNCHANGED vars
  BY <1>13 DEF vars
<1> QED
  BY <1>1, <1>2, <1>3, <1>4, <1>5, <1>6, <1>7, <1>8, <1>9, <1>10, <1>11, <1>12, <1>13
  DEF Next, WorkerStep

\* The inductive invariant, and with it type correctness, in every behaviour.
THEOREM Invariance == Spec => []LeaseInv
<1>1. Init => LeaseInv
  BY InitInv
<1>2. LeaseInv /\ [Next]_vars => LeaseInv'
  BY StepInv
<1> QED BY <1>1, <1>2, PTL DEF Spec

\* Two workers that pass the fence hold the same, non-zero generation.
LEMMA WriterUnique ==
  ASSUME LeaseInv, NEW v \in Workers, NEW w \in Workers,
         PassesFence(v), PassesFence(w)
  PROVE  v = w
BY DEF LeaseInv, TypeOK, PassesFence, SameLease, Active

\* Mutual exclusion of the workers that execute a run.
THEOREM MutualExclusion == Spec => []OneWriter
<1>1. LeaseInv => OneWriter
  BY WriterUnique DEF OneWriter
<1> QED BY <1>1, Invariance, PTL

\* No write of a worker that was taken over follows one of its successor.
THEOREM FencingIsMonotone == Spec => NoZombieWrite
<1>1. LeaseInv /\ [Next]_vars => [stamp' >= stamp]_vars
  <2> SUFFICES ASSUME LeaseInv, Next PROVE stamp' >= stamp
    OBVIOUS
  <2>1. stamp \in Nat /\ stamp <= lease.gen /\ lease.gen \in Nat
    BY DEF LeaseInv, TypeOK
  <2>2. ASSUME NEW w \in Workers, Adopt(w) PROVE stamp' = lease.gen
    BY <2>2 DEF Adopt, PassesFence, SameLease
  <2>3. ASSUME ~\E w \in Workers : Adopt(w) PROVE stamp' = stamp
    BY <2>3 DEF Next, WorkerStep, Acquire, Reacquire, Heartbeat, HeartbeatLost,
         HeartbeatError, OperationEnds, Release, Crash, Restart, EndRun, Tick
  <2> QED BY <2>1, <2>2, <2>3
<1> QED BY <1>1, Invariance, PTL DEF Spec, NoZombieWrite

\* A lease that ended is never extended: a renewal and a replayed acquisition
\* need that it has not ended.
THEOREM EndedLeasesStayEnded == Spec => NoRevival
<1>1. LeaseInv /\ [Next]_vars => [~Active /\ Active' => lease'.gen = lease.gen + 1]_vars
  <2> SUFFICES ASSUME LeaseInv, Next, ~Active, Active' PROVE lease'.gen = lease.gen + 1
    OBVIOUS
  <2> USE DEF LeaseInv, TypeOK
  <2>1. ASSUME NEW w \in Workers, Acquire(w) PROVE lease'.gen = lease.gen + 1
    BY <2>1 DEF Acquire, NextGeneration
  <2>2. ASSUME NEW w \in Workers,
               \/ Reacquire(w) \/ Heartbeat(w) \/ HeartbeatLost(w) \/ HeartbeatError(w)
               \/ Adopt(w) \/ OperationEnds(w) \/ Crash(w) \/ Restart(w)
        PROVE  FALSE
    BY <2>2 DEF Reacquire, Heartbeat, HeartbeatLost, HeartbeatError, Adopt, OperationEnds,
         Crash, Restart, PassesFence, CanRenew, Active
  <2>3. ASSUME NEW w \in Workers, Release(w) PROVE FALSE
    BY <2>3 DEF Release, Active
  <2>4. ~EndRun
    BY DEF EndRun, Active
  <2>5. ~Tick
    <3>1. Tick => lease'.status = lease.status /\ lease'.left = Less(lease.left)
      BY DEF Tick
    <3> QED BY <3>1 DEF Less, Active
  <2> QED BY <2>1, <2>2, <2>3, <2>4, <2>5 DEF Next, WorkerStep
<1> QED BY <1>1, Invariance, PTL DEF Spec, NoRevival

\* Nothing but the clock takes the lease from a worker at work: the release
\* of a worker it took over from finds another generation in the row.
THEOREM WorkersAreNotEvicted == Spec => OnlyClockEvicts
<1>1. LeaseInv /\ [Next]_vars =>
        [\A w \in Workers :
           PassesFence(w) /\ pc[w] = "working" /\ pc'[w] = "working" /\ ~PassesFence(w)'
             => lease'.left = 0]_vars
  <2> SUFFICES ASSUME LeaseInv, Next, NEW w \in Workers, PassesFence(w),
                      pc[w] = "working", pc'[w] = "working", ~PassesFence(w)'
               PROVE  lease'.left = 0
    OBVIOUS
  <2> USE DEF LeaseInv, TypeOK, PassesFence, SameLease
  <2>1. token[w] = lease.gen /\ token[w] # 0 /\ Active
    BY DEF Active
  <2>2. CASE Tick
    <3>1. lease'.gen = lease.gen /\ lease'.status = lease.status /\ token' = token
          /\ lease'.left = Less(lease.left)
      BY <2>2 DEF Tick
    <3>2. Less(lease.left) \in 0..TTL
      BY LessInRange, PolicyAssumption
    <3> QED BY <2>1, <3>1, <3>2 DEF Active
  <2>3. ASSUME NEW v \in Workers, Release(v) PROVE FALSE
    <3>1. v # w
      BY <2>3 DEF Release
    <3>2. token'[w] = token[w] /\ ~CanRelease(v)
      BY <2>1, <2>3, <3>1 DEF Release, CanRelease
    <3> QED BY <2>1, <2>3, <3>2 DEF Release, Active
  <2>4. ASSUME NEW v \in Workers, Crash(v) PROVE FALSE
    BY <2>1, <2>4 DEF Crash, Active
  <2>5. ASSUME NEW v \in Workers, Reacquire(v) \/ Heartbeat(v) \/ HeartbeatError(v)
        PROVE  FALSE
    BY <2>1, <2>5, PolicyAssumption DEF Reacquire, Heartbeat, HeartbeatError, Active
  <2>6. ASSUME NEW v \in Workers,
               \/ Acquire(v) \/ HeartbeatLost(v) \/ Adopt(v) \/ OperationEnds(v)
               \/ Restart(v)
        PROVE  FALSE
    BY <2>1, <2>6 DEF Acquire, HeartbeatLost, Adopt, OperationEnds, Restart, Active
  <2>7. ~EndRun
    BY <2>1 DEF EndRun, Active
  <2> QED BY <2>2, <2>3, <2>4, <2>5, <2>6, <2>7 DEF Next, WorkerStep
<1> QED BY <1>1, Invariance, PTL DEF Spec, OnlyClockEvicts

-----------------------------------------------------------------------------
\* The writer of the abstract fence is the worker that passes the lease.
LEMMA WriterIs ==
  ASSUME LeaseInv, NEW w \in Workers, PassesFence(w)
  PROVE  Writer = w
<1>1. \A v \in Workers : PassesFence(v) => v = w
  BY WriterUnique
<1> QED BY <1>1 DEF Writer

\* When no worker passes the fence the abstract writer is nobody.
LEMMA NoWriter ==
  ASSUME \A w \in Workers : ~PassesFence(w)
  PROVE  Writer = Nobody
BY DEF Writer

\* A worker that gets to pass the fence without an acquisition passed it
\* before: nothing but AcquireRunExecutionLease makes a writer.
LEMMA OnlyAcquireElects ==
  ASSUME LeaseInv, [Next]_vars, ~\E w \in Workers : Acquire(w),
         NEW v \in Workers, PassesFence(v)'
  PROVE  PassesFence(v) /\ lease'.gen = lease.gen
<1> USE DEF LeaseInv, TypeOK, PassesFence, SameLease, Active, CanRenew
<1>1. ASSUME NEW w \in Workers, Reacquire(w)
      PROVE  PassesFence(v) /\ lease'.gen = lease.gen
  BY <1>1 DEF Reacquire
<1>2. ASSUME NEW w \in Workers, Heartbeat(w) \/ HeartbeatLost(w) \/ HeartbeatError(w)
      PROVE  PassesFence(v) /\ lease'.gen = lease.gen
  BY <1>2 DEF Heartbeat, HeartbeatLost, HeartbeatError
<1>3. ASSUME NEW w \in Workers, Adopt(w) \/ OperationEnds(w) \/ Restart(w)
      PROVE  PassesFence(v) /\ lease'.gen = lease.gen
  BY <1>3 DEF Adopt, OperationEnds, Restart
<1>4. ASSUME NEW w \in Workers, Release(w)
      PROVE  PassesFence(v) /\ lease'.gen = lease.gen
  <2>1. lease' = lease
    BY <1>4 DEF Release
  <2>2. token'[v] # 0 => token'[v] = token[v]
    BY <1>4 DEF Release
  <2> QED BY <2>1, <2>2
<1>5. ASSUME NEW w \in Workers, Crash(w)
      PROVE  PassesFence(v) /\ lease'.gen = lease.gen
  BY <1>5 DEF Crash
<1>6. CASE EndRun \/ UNCHANGED vars
  BY <1>6 DEF EndRun, vars
<1>7. CASE Tick
  <2>1. lease'.gen = lease.gen /\ lease'.status = lease.status /\ token' = token
        /\ lease'.left = Less(lease.left)
    BY <1>7 DEF Tick
  <2> QED BY <2>1 DEF Less
<1> QED BY <1>1, <1>2, <1>3, <1>4, <1>5, <1>6, <1>7 DEF Next, WorkerStep

\* Without an acquisition the generation stays.
LEMMA GenerationStays ==
  ASSUME LeaseInv, [Next]_vars, ~\E w \in Workers : Acquire(w)
  PROVE  lease'.gen = lease.gen
BY DEF LeaseInv, TypeOK, Next, WorkerStep, Reacquire, Heartbeat, HeartbeatLost,
   HeartbeatError, Adopt, OperationEnds, Release, Crash, Restart, EndRun, Tick, vars

\* The detailed lease implements the fence: an acquisition elects a writer, a
\* release, an expiry or a crash deposes it, and only the writer stamps the
\* checkpoint.
LEMMA StepRefines ==
  ASSUME LeaseInv, LeaseInv', [Next]_vars
  PROVE  [F!Next]_(F!fenceVars)
<1> USE DEF F!Next, F!fenceVars
<1>1. ASSUME NEW w \in Workers, Acquire(w) PROVE F!Elect(w)
  <2>1. Writer = Nobody
    BY <1>1, NoWriter DEF Acquire, PassesFence
  <2>2. PassesFence(w)'
    BY <1>1, PolicyAssumption
    DEF Acquire, NextGeneration, PassesFence, SameLease, Active, LeaseInv, TypeOK
  <2>3. Writer' = w
    <3>1. \A v \in Workers : PassesFence(v)' => v = w
      BY <2>2 DEF LeaseInv, TypeOK, PassesFence, SameLease, Active
    <3> QED BY <2>2, <3>1 DEF Writer
  <2> QED BY <1>1, <2>1, <2>3 DEF F!Elect, Acquire, NextGeneration
<1>2. ASSUME NEW w \in Workers, Adopt(w) PROVE F!Stamp
  <2>1. PassesFence(w) /\ UNCHANGED <<lease, token>> /\ stamp' = lease.gen
    BY <1>2 DEF Adopt, PassesFence, SameLease
  <2>2. Writer = w /\ w # Nobody
    BY <2>1, WriterIs, NobodyAssumption
  <2>3. Writer' = Writer
    BY <2>1 DEF Writer, PassesFence, SameLease, Active
  <2> QED BY <2>1, <2>2, <2>3 DEF F!Stamp
<1>3. ASSUME ~\E w \in Workers : Acquire(w) \/ Adopt(w)
      PROVE  F!Depose \/ UNCHANGED F!fenceVars
  <2>1. stamp' = stamp
    BY <1>3 DEF Next, WorkerStep, Reacquire, Heartbeat, HeartbeatLost, vars,
       HeartbeatError, OperationEnds, Release, Crash, Restart, EndRun, Tick
  <2>2. lease'.gen = lease.gen
    BY <1>3, GenerationStays
  <2>3. CASE \E v \in Workers : PassesFence(v)'
    <3>1. PICK v \in Workers : PassesFence(v)'
      BY <2>3
    <3>2. PassesFence(v)
      BY <1>3, <3>1, OnlyAcquireElects
    <3>3. Writer = v
      BY <3>2, WriterIs
    <3>4. Writer' = v
      <4>1. \A u \in Workers : PassesFence(u)' => u = v
        BY <3>1 DEF LeaseInv, TypeOK, PassesFence, SameLease, Active
      <4> QED BY <3>1, <4>1 DEF Writer
    <3> QED BY <2>1, <2>2, <3>3, <3>4
  <2>4. CASE ~\E v \in Workers : PassesFence(v)'
    <3>1. Writer' = Nobody
      BY <2>4 DEF Writer
    <3> QED BY <2>1, <2>2, <3>1 DEF F!Depose
  <2> QED BY <2>3, <2>4
<1> QED BY <1>1, <1>2, <1>3

\* The lease implements the fence, for every number of workers and any TTL.
THEOREM Refinement == Spec => ImplementsFence
<1>1. Init => F!Init
  <2> SUFFICES ASSUME Init PROVE F!Init
    OBVIOUS
  <2>1. \A w \in Workers : ~PassesFence(w)
    BY DEF Init, PassesFence, Active
  <2> QED BY <2>1, NoWriter DEF Init, F!Init
<1>2. LeaseInv /\ LeaseInv' /\ [Next]_vars => [F!Next]_(F!fenceVars)
  BY StepRefines
<1> QED BY <1>1, <1>2, Invariance, PTL DEF Spec, ImplementsFence, F!Spec
=============================================================================
