------------------------------ MODULE RunLease ------------------------------
(***************************************************************************)
(* The execution lease of one run: the row run_execution_leases that       *)
(* store/execution_leases.go keeps, the operations that hold it through    *)
(* withRunExecutionLease (application/execution_lease.go) and the          *)
(* supervisor checkpoint that adopts the lease's fencing token.            *)
(*                                                                         *)
(* A worker is one call of withRunExecutionLease: two calls of the same    *)
(* process conflict like two processes do, since neither sends a lease id. *)
(* Every store method is one immediate SQLite transaction, so one action.  *)
(* A lease id is fresh for every generation, so the generation stands for  *)
(* both.  Instants are kept as the time that is left until them.           *)
(***************************************************************************)
EXTENDS Integers

CONSTANTS Workers,        \* the operations that want to execute the run
          Nobody,         \* the writer while no worker passes the fence
          TTL,            \* clock ticks a lease lasts
          RenewInterval,  \* clock ticks between two heartbeats
          MaxGeneration   \* bound: no acquisition beyond this generation

\* RunExecutionLeasePolicy.Validate
ASSUME PolicyAssumption ==
  /\ RenewInterval \in Nat /\ TTL \in Nat
  /\ 0 < RenewInterval /\ RenewInterval < TTL

ASSUME BoundAssumption == MaxGeneration \in Nat

ASSUME NobodyAssumption == Nobody \notin Workers

VARIABLES lease,     \* the row: its generation, status, and the time it has left
          runOpen,   \* the run's status is not a terminal one
          stamp,     \* lease_generation of the run's supervisor checkpoint
          pc,        \* what each worker is doing
          token,     \* the generation each worker was granted, 0 when none
          beat       \* time left until the worker's next renewal

vars == <<lease, runOpen, stamp, pc, token, beat>>

Holding == {"working", "cancelled", "releasing"}

TypeOK ==
  /\ lease \in [gen : Nat, status : {"absent", "active", "released"}, left : 0..TTL]
  /\ runOpen \in BOOLEAN
  /\ stamp \in Nat
  /\ pc \in [Workers -> Holding \cup {"idle", "down"}]
  /\ token \in [Workers -> Nat]
  /\ beat \in [Workers -> 0..RenewInterval]

Init ==
  /\ lease = [gen |-> 0, status |-> "absent", left |-> 0]
  /\ runOpen = TRUE
  /\ stamp = 0
  /\ pc = [w \in Workers |-> "idle"]
  /\ token = [w \in Workers |-> 0]
  /\ beat = [w \in Workers |-> 0]

\* RunExecutionLease.ActiveAt
Active == lease.status = "active" /\ lease.left > 0

\* sameRunExecutionLease: the row is still the one the worker was granted.
SameLease(w) == lease.status # "absent" /\ token[w] = lease.gen

\* Each definition named Bug... is a seeded bug: the form that the definition
\* after it would have, had the code lost the check or the step in question.

\* requireRunExecutionLeaseTx: the fence every guarded write passes.
BugAnyTokenPasses(w) == token[w] # 0 /\ Active

PassesFence(w) == SameLease(w) /\ Active

\* RenewRunExecutionLease: only the row's own, unexpired lease is extended.
BugRenewAnyToken(w) == token[w] # 0 /\ Active

CanRenew(w) == SameLease(w) /\ Active

\* ReleaseRunExecutionLease: the row's own lease, expired or not.
BugReleaseAnyLease(w) == token[w] # 0

CanRelease(w) == SameLease(w)

\* Every acquisition that does not replay a live lease is a new generation.
BugTakeoverKeepsGeneration ==
  IF lease.status = "active" THEN lease.gen ELSE lease.gen + 1

NextGeneration == lease.gen + 1

-----------------------------------------------------------------------------
\* AcquireRunExecutionLease without a lease id, the first call of
\* withRunExecutionLease: refused on a terminal run and under a live lease;
\* an expired or released row is taken over in the next generation.
Acquire(w) ==
  /\ pc[w] = "idle"
  /\ runOpen
  /\ ~Active
  /\ lease.gen < MaxGeneration
  /\ lease' = [gen |-> NextGeneration, status |-> "active", left |-> TTL]
  /\ token' = [token EXCEPT ![w] = NextGeneration]
  /\ pc' = [pc EXCEPT ![w] = "working"]
  /\ beat' = [beat EXCEPT ![w] = RenewInterval]
  /\ UNCHANGED <<runOpen, stamp>>

\* The replayed acquisition: a caller that repeats its own live lease id
\* gets the same lease, extended.
Reacquire(w) ==
  /\ pc[w] = "working"
  /\ runOpen
  /\ PassesFence(w)
  /\ lease' = [lease EXCEPT !.left = TTL]
  /\ UNCHANGED <<runOpen, stamp, pc, token, beat>>

\* One turn of renewRunExecutionLease that succeeds.
Heartbeat(w) ==
  /\ pc[w] = "working"
  /\ beat[w] = 0
  /\ CanRenew(w)
  /\ lease' = [lease EXCEPT !.left = TTL]
  /\ beat' = [beat EXCEPT ![w] = RenewInterval]
  /\ UNCHANGED <<runOpen, stamp, pc, token>>

BugLossIgnored(w) ==
  /\ pc[w] = "working"
  /\ beat[w] = 0
  /\ ~CanRenew(w)
  /\ beat' = [beat EXCEPT ![w] = RenewInterval]
  /\ UNCHANGED <<lease, runOpen, stamp, pc, token>>

\* One turn of renewRunExecutionLease that gets an error cancels the
\* operation: the lease was lost.
HeartbeatLost(w) ==
  /\ pc[w] = "working"
  /\ beat[w] = 0
  /\ ~CanRenew(w)
  /\ pc' = [pc EXCEPT ![w] = "cancelled"]
  /\ UNCHANGED <<lease, runOpen, stamp, token, beat>>

\* The same for an error of the store or of drydock admission; a renewal
\* whose answer comes after the timeout may have been committed.
HeartbeatError(w) ==
  /\ pc[w] = "working"
  /\ beat[w] = 0
  /\ \/ UNCHANGED lease
     \/ CanRenew(w) /\ lease' = [lease EXCEPT !.left = TTL]
  /\ pc' = [pc EXCEPT ![w] = "cancelled"]
  /\ UNCHANGED <<runOpen, stamp, token, beat>>

\* The guarded write that adopts the lease into the checkpoint
\* (BeginSupervisorTurn, FinalizeSupervisorRun).  Cleanup of a cancelled
\* operation still calls the store.
Adopt(w) ==
  /\ pc[w] \in {"working", "cancelled"}
  /\ runOpen
  /\ PassesFence(w)
  /\ stamp' = token[w]
  /\ UNCHANGED <<lease, runOpen, pc, token, beat>>

\* The operation returns and its heartbeat is stopped.
OperationEnds(w) ==
  /\ pc[w] \in {"working", "cancelled"}
  /\ pc' = [pc EXCEPT ![w] = "releasing"]
  /\ UNCHANGED <<lease, runOpen, stamp, token, beat>>

\* ReleaseRunExecutionLease with the granted lease: the row is released if
\* it is still that lease, expired or not, and left alone otherwise.  A
\* release that fails leaves the row as it is.  The worker is done.
Release(w) ==
  /\ pc[w] = "releasing"
  /\ \/ CanRelease(w) /\ lease' = [lease EXCEPT !.status = "released"]
     \/ UNCHANGED lease
  /\ pc' = [pc EXCEPT ![w] = "idle"]
  /\ token' = [token EXCEPT ![w] = 0]
  /\ UNCHANGED <<runOpen, stamp, beat>>

\* The run reaches a terminal status; no lease is needed for that, and none
\* is revoked by it (transitionRunTx).
EndRun ==
  /\ runOpen
  /\ runOpen' = FALSE
  /\ UNCHANGED <<lease, stamp, pc, token, beat>>

\* The worker's process dies and forgets its lease; the row stays.
Crash(w) ==
  /\ pc[w] # "down"
  /\ pc' = [pc EXCEPT ![w] = "down"]
  /\ token' = [token EXCEPT ![w] = 0]
  /\ UNCHANGED <<lease, runOpen, stamp, beat>>

Restart(w) ==
  /\ pc[w] = "down"
  /\ pc' = [pc EXCEPT ![w] = "idle"]
  /\ UNCHANGED <<lease, runOpen, stamp, token, beat>>

\* The clock.  Nothing stops it: a stalled worker misses its heartbeat.
Less(t) == IF t = 0 THEN 0 ELSE t - 1

Tick ==
  /\ lease' = [lease EXCEPT !.left = Less(lease.left)]
  /\ beat' = [w \in Workers |-> Less(beat[w])]
  /\ UNCHANGED <<runOpen, stamp, pc, token>>

WorkerStep(w) ==
  \/ Acquire(w) \/ Reacquire(w)
  \/ Heartbeat(w) \/ HeartbeatLost(w) \/ HeartbeatError(w)
  \/ Adopt(w) \/ OperationEnds(w) \/ Release(w)
  \/ Crash(w) \/ Restart(w)

Next == Tick \/ EndRun \/ \E w \in Workers : WorkerStep(w)

\* The clock runs, a heartbeat goroutine keeps ticking, and a finished or
\* cancelled operation is unwound; nothing obliges a worker to acquire, to
\* finish its work or to restart.
Fairness ==
  /\ WF_vars(Tick)
  /\ \A w \in Workers :
       /\ WF_vars(Heartbeat(w) \/ HeartbeatLost(w))
       /\ WF_vars(pc[w] = "cancelled" /\ OperationEnds(w))
       /\ WF_vars(Release(w))

Spec == Init /\ [][Next]_vars

FairSpec == Spec /\ Fairness

-----------------------------------------------------------------------------
\* At most one worker passes the fence: two operations can never both write
\* the run's supervised state, whatever expired, crashed or was taken over.
OneWriter ==
  \A v, w \in Workers : PassesFence(v) /\ PassesFence(w) => v = w

\* Why that is so: a generation is granted once, to one worker, and neither
\* a token nor the checkpoint's stamp is ahead of the row.  Inductive.
LeaseInv ==
  /\ TypeOK
  /\ lease.status # "absent" <=> lease.gen > 0
  /\ stamp <= lease.gen
  /\ \A w \in Workers : token[w] <= lease.gen
  /\ \A v, w \in Workers : token[v] = token[w] /\ token[v] # 0 => v = w

\* A write of an earlier generation never follows one of a later generation:
\* a worker that was taken over cannot adopt the checkpoint again.
NoZombieWrite == [][stamp' >= stamp]_vars

\* A lease that expired or was released never comes back to life: only a new
\* generation makes the run leased again, so a late renewal or a repeated
\* acquisition cannot revive what another worker may already have taken over.
NoRevival == [][~Active /\ Active' => lease'.gen = lease.gen + 1]_vars

\* While a worker goes on working, only the clock ends its lease: the late
\* release of a worker it took over from does not.
OnlyClockEvicts ==
  [][\A w \in Workers :
       PassesFence(w) /\ pc[w] = "working" /\ pc'[w] = "working" /\ ~PassesFence(w)'
         => lease'.left = 0]_vars

\* A worker that lost its lease is told so by its heartbeat and stops.
LoserStops ==
  \A w \in Workers : (pc[w] = "working" /\ ~PassesFence(w)) ~> (pc[w] # "working")

\* A lease whose holder is gone runs out: renewals of workers that do not
\* hold it cannot keep it, so a crash never locks the run for good.
OrphanExpires == (Active /\ \A w \in Workers : ~PassesFence(w)) ~> ~Active

-----------------------------------------------------------------------------
\* The lease implements the fence: the writer is whoever passes it.
Writer ==
  IF \E w \in Workers : PassesFence(w)
  THEN CHOOSE w \in Workers : PassesFence(w)
  ELSE Nobody

F == INSTANCE Fence WITH writer <- Writer, epoch <- lease.gen

ImplementsFence == F!Spec
=============================================================================
