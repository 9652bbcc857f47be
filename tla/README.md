# Traverse-Board: a verification of its run control in TLA+

Traverse-Board is a Go control plane for agent work. An operator gives a
mission; a *run* of the mission is driven by a supervisor that calls a model,
executes its tools and records every step in one SQLite database, the only
state store (`docs/architecture.md`). Several operations of one process, or of
several processes, may try to drive the same run, while the operator steers,
pauses and cancels it. This project models that core: who may write the state
of a run, what happens to a turn that is interrupted, what becomes of the
operator's messages, how a run is woken up, and how the agents of a run talk to
and wait for each other.

## 1. Inventory

| Component | State it keeps | Operations | Interacts with |
|---|---|---|---|
| Run execution lease (`store/execution_leases.go`, `application/execution_lease.go`) | one row per run: generation, owner, status, expiry | acquire, replay, renew, release; heartbeat goroutine | every guarded write of the supervisor |
| Run supervisor (`store/supervisor.go`, `supervisor_tool_boundary.go`, `thread_turn_failure.go`) | checkpoint: phase, turn, attempt, input, lease stamp, protocol repair; model call events | begin, recover, bind, model start/end, complete, tool boundary, fail, finalize, end a failed turn | lease, run status, queue, root agent, session |
| Run status (`domain/run.go`, `store/runs.go`, `run_control.go`) | `runs.status` | transition, keyed start/pause/resume, cancel | queue, root agent, lease |
| Root agent projection (`store/coordinator.go`, `domain/agent_node.go`) | status and active attempt of the root agent | synchronised inside other transactions | run, checkpoint |
| Operator steering queue (`store/operator_steering*.go`, `midturn_steering.go`) | messages, deliveries, claims | enqueue, cancel, promote, claim, prepare, supersede, commit | supervisor, session history |
| Progress guard (`store/run_progress_guard.go`) | fingerprints and counters of the last turns | evaluate at completion | supervisor |
| Synchronous waits (`waitgraph/graph.go`) | the process's graph of waits with counted edges and nodes, in memory | acquire, release | tools, runners, specialists |
| Dependency waits (`store/dependency_wait.go`, `waitgraph/durable.go`) | edges between the agents of a run, receipts, notifications | record, settle, cancel, expire, reconcile, accept a delivery | specialists, inboxes, batch delivery |
| Run wake-ups and handoffs (`store/run_wake*.go`, `run_execution_handoffs.go`) | wake intents, leases, consumptions | schedule, acquire, consume, expire | run status, queue |
| Scheduled jobs (`store/scheduled_jobs.go`, `scheduler/`) | jobs, rounds, observation consents, authorizations | create, enable observation, pause, resume, cancel; reconcile, claim, skip, complete, fail | runs, executor |
| Command runtime jobs (`runner/command_runtime_*.go`, `store/command_runtime_jobs.go`) | live jobs, ownership, bounded output | start, wait, cancel, recover | tools |
| Approvals, grants, continuations (`store/approv*.go`, `web_fetch_authorizations.go`) | decisions, one-shot grants, interrupted turns | ask, decide, consume, continue | supervisor, tools |
| Supervisor tool ledger (`store/supervisor_tools.go`) | rounds and results of an attempt | insert, start, finish, recover | supervisor |
| Agent coordinator, specialists (`coordinator/`, `store/coordinator_*.go`, `specialist_*.go`) | agent graph, attempts, inboxes, budgets | admit, attempt, complete, deliver | root agent |
| Terminal input lease (`executionauth/terminal_lease.go`) | in-memory leases, bounded revocation marks | issue, use, revoke | terminals |
| Monetary budget (`store/monetary_budget.go`) | reservations | reserve, settle, release | model calls |
| Workspace checkpoints, file edits, drydock, worktrees, Docker, batch delivery, read-only fan-out, threads, child tasks | files and daemons with a journal in the store | many | runs |
| Everything else: HTTP API, desktop and web UI, model providers, MCP, skills, plugins, analyzers, reports, migrations | no control state of their own | | |

Hard behaviour, in the order of what it puts at risk:

* **Concurrency.** Two operations on a run; a worker that is paused longer than
  its lease; an operator or the product acting on a run in the middle of a turn.
* **Failure.** A process that dies between two transactions; a turn that fails
  with a message bound to it; a failed heartbeat or release.
* **Ordering.** A correction that arrives while its answer is computed; a late
  renewal, release or completion; a stop that races a new message.
* **Limits.** Turn budget, queue length, one protocol repair.

What makes each modelled component correct: at most one operation writes a run
(lease); a started turn is resumed and never duplicated (checkpoint); a message
is delivered exactly once or cancelled, never lost or repeated (queue); the root
agent's status always agrees with run and checkpoint (projection); a run that
ended leaves nothing waiting (run status); a wake that was claimed keeps its
lease until its handoff is settled, and is settled once (wake-ups); calls that
wait for each other form no cycle, and what the graph counts are exactly the
calls that wait (synchronous waits); the open waits between agents form no
cycle, the end of a wait is told once, and a source that waits is woken
(dependency waits); a job and its rounds agree, a round counts once and gets its
outcome from the worker that claimed it last (scheduled jobs); children, their attempts and the latest snapshot agree with
each other and with the run, a message is read once, an end of a child is
reported to the root, and the turns given out stay in the run's budget
(specialists).

Every hazard of the code, at its line and with the properties about it, is
listed in `PROJECT.json`.

## 2. The modules

```
Fence  <------------- RunLease ---------- MCRunLease, RunLease_proofs
  ^
  |       RunStatus      MessageDelivery
  |           |                ^
  +------ RunSupervisor -------+-------- MCRunSupervisor, RunSupervisor_proofs

RunWake ------- MCRunWake, RunWake_proofs

ScheduledJobs ------- MCScheduledJobs, ScheduledJobs_proofs

WaitGraph ----- SyncWaits ------- MCSyncWaits, SyncWaits_proofs
    |
    +---------- DependencyWait -- MCDependencyWait, DependencyWait_proofs
    |               |
    |           RunStatus ------- Specialists -- MCSpecialists, Specialists_proofs
    |
    +---------- WaitGraph_proofs (cited by SyncWaits_proofs, DependencyWait_proofs)
```

**`Fence`** (abstract) is what a fencing lease promises: a sequence of epochs,
at most one writer in each, and a guarded row whose stamp never goes back.

**`RunLease`** is the lease protocol in full. `lease` is the row of
`run_execution_leases`; `pc`, `token` and `beat` are a call of
`withRunExecutionLease` and its heartbeat goroutine; `stamp` is
`lease_generation` of the checkpoint. A lease id is fresh in every generation,
so the generation stands for id and generation. Instants are kept as the time
left until them, and `Tick` runs for all of them. The store's clock and a
worker's ticker are not synchronised by anything: a heartbeat may be late by any
number of ticks. `HeartbeatError` is a renewal that failed or whose answer was
lost after it was committed; `Release` may fail, and leaves the row then.

**`RunStatus`** holds the two transition tables and the projection of a run's
status on its root agent.

**`MessageDelivery`** (abstract) is the operator's view: a message is accepted
once, may be recorded in the history ahead of its commitment, and ends
cancelled, or committed and in the history exactly once.

**`RunSupervisor`** composes checkpoint, queue, run status, root agent and
lease. One action is one store method, since each is one immediate transaction
(`store/sqlite.go:109`). Callers are not modelled: a worker that holds a lease may
call any method in any order, which includes what `AgentRunner` does.

| Variable | Code |
|---|---|
| `run` | `runs.status` |
| `cp` | `run_supervisor_checkpoints`: `phase`, `next_turn`, `attempt_id`, lease, `pending_input`, `repair_phase` |
| `root` | status and `active_attempt_id` of the root `agent_nodes` row |
| `model` | the latest `model.started` of the attempt, its end, and the corrections its request had |
| `lease` | the run's lease: generation, and whether it is live |
| `hold` | the lease and the checkpoint a worker keeps in memory |
| `msg` | `operator_steering_messages`, `operator_steering_midturn_claims`, and how many session rows hold the content |
| `deliveries` | rows of `operator_steering_deliveries` that are `prepared` |
| `attempts`, `lastSeq` | sources of attempt ids and queue sequences |
| `outcome` | requested and effective action, as in `supervisor.action` |

| Action | Method |
|---|---|
| `Acquire`, `Release`, `Crash`, `Expire` | `AcquireRunExecutionLease`, `ReleaseRunExecutionLease`, death of the process, the clock |
| `Recover`, `Begin` | `beginSupervisorTurn`, the resumed and the fresh turn, with the three kinds of callers (`Calls`) |
| `Bind` | `BindSupervisorTurnInput` |
| `Claim`, `ModelStart`, `ModelDone` | `ClaimSupervisorMidTurnSteering`, `RecordSupervisorModelStarted`, `recordSupervisorModelTerminal` |
| `Complete`, `CompleteBoundary` | `CompleteSupervisorTurn`, `CompleteSupervisorToolBoundary` |
| `Fail`, `Finalize` | `FailSupervisorTurn`, `FinalizeSupervisorRun` |
| `Enqueue`, `CancelMessage`, `Promote` | `EnqueueOperatorSteering`, `CancelOperatorSteering`, `PromoteOperatorSteering` |
| `Transition`, `Start`, `Pause`, `Resume` | `TransitionRun`, `TransitionRunWithLifecycleOperation` |
| `EndFailedThreadTurn` | `EndFailedThreadTurn` |
| `AskApproval`, `AnswerApproval` | `PrepareWebFetchAuthorization`, `ResumeWebFetchAuthorizationRun` (`store/risk_escalations.go:262`) |

In `RunSupervisor`: a message stands for its content: two inputs with
the same text are not distinguished by the code where it compares contents, and
that coincidence is not modelled. The set of corrections a request had stands
for the highest sequence among them; targets and messages are never deleted, so
equal sets and equal sequences are the same. The two places where the code
creates a fresh id (attempt, lease) are counters.

**`RunWake`** is the life of the wake intents of one run. A consumer is the polling
worker (`RunWakeWorker`) of a process, or a call of the HTTP API or of the
command line; it claims a generation of the latest intent, records a
consumption, opens an execution handoff, executes it under the run's execution
lease and records how that ended. A generation is bound to the step limit of who
prepared it: a worker asks for one step (`RunWakeWorkerMaxSteps`), a call for any
number up to `MaxSteps`, and a consumer that asks for another limit than the
stored one is refused (`run_wake_consumer.go:159`). Every step is its own transaction, and a consumer may die between any
two.

| Variable | Code |
|---|---|
| `intent` | rows of `run_wake_intents` with the active row of `run_wake_leases`: status, `attempt_count`, and the ticks left until `next_wake_at`, `deadline_at`, `expires_at` |
| `consumption` | `run_wake_consumptions`, by intent and generation |
| `maxSteps` | `max_steps` of `run_wake_consumptions` |
| `handoff` | `run_execution_handoff_operations` and their results |
| `run`, `pending`, `exec` | the run's status, whether it has a pending message, and who holds its execution lease |
| `work` | where each consumer is in `ForegroundRunWakeConsumer.Consume` |

| Action | Method |
|---|---|
| `Schedule`, `Cancel`, `Retry` | `CreateRunWakeIntent`, `CancelRunWakeIntent`, `ReleaseRunWakeForRetry` |
| `Consume` | the read of the latest intent and its consumption, up to the refusal of another step limit; for a worker after `ListDueRunWakeIntents` |
| `ClaimNothing`, `ClaimExhausts`, `ClaimIneligible`, `Claim` | the four ends of `AcquireRunWake`, each after `reconcileExpiredRunWakeTx` |
| `Prepare` | `PrepareRunWakeConsumption` |
| `ReplayHandoff`, `OpenHandoff`, `OpenRefused`, `Execute`, `ExecuteRefused`, `Executed` | `RunExecutionHandoffService.execute` |
| `Complete`, `FailWith`, `FailWithout` | `CompleteRunWakeConsumption`, `FailRunWakeConsumption` with and without a handoff |
| `Crash`, `LoseExec`, `ExecExpires`, `Tick` | death of a consumer, a lost execution lease, the clocks |
| `OtherExecutes`, `OtherReturns`, `RunMoves`, `QueueMoves` | the operator and the supervisor |

In `RunWake`: a request is compared with the stored step limit or stored as it, never
both, so `Asks` is a choice at each place and no state of a call. A handoff is opened and
replayed with the stored limit and never conflicts. The two reads of the consumer
are one step, and an error
that the release of the execution lease reports is the `Return` alternative of
`Executed`. `ReleaseRunWakeForRetry` has no caller outside the tests and is
offered to every consumer all the same. There is one run, so that wakes of many
runs cannot starve each other in the worker's batch, which holds one intent (see 5).

**`ScheduledJobs`** is one scheduled job of a run, with the workers that poll for it. A
worker captures an instant when a poll begins and uses it in two transactions, the
reconciliation of expired claims and the claim; it observes the run, hands a
change to the executor, reads the clock anew and reports in a third one. Between
any two the clock may move, the operator may pause, resume or cancel, the
process may die, and another worker may take the round over.

| Variable | Code |
|---|---|
| `now` | the wall clock; instants count from 1, and 0 is NULL |
| `spec` | `scheduled_jobs.spec_json`: one-shot or periodic, misfire policy, mode, stop with the target, model calls, anchor |
| `job` | the row of `scheduled_jobs`: status, next wake, pending occurrence, counters, active lease |
| `rounds` | `scheduled_job_rounds`: occurrence, ordinal, attempt, generation, status |
| `consent`, `authority` | the consent to observation; whether mode and permission are those the job was created under |
| `ended` | the target run is terminal |
| `work` | where each worker is, with its instant, its lease and the outcome it will report |

| Action | Method |
|---|---|
| `Create`, `EnableObservation`, `Pause`, `Resume`, `Cancel` | `createScheduledJob`, `EnableScheduledJobObservation`, `TransitionScheduledJob` |
| `Poll`, `Reconcile` | the start of `runDue`, `reconcileScheduledJobs` |
| `ClaimNothing`, `ClaimStops`, `Skip`, `ClaimRound` | the four ends of `claimDueScheduledJob` |
| `Observe`, `Executed` | the observation and the executor's answer in `runDue` |
| `Complete`, `Fail`, `Refused` | `CompleteScheduledJobRound`, `FailScheduledJobRound`, and a report that finds its lease stale |
| `Crash`, `Tick`, `TargetEnds`, `AuthorityMoves` | death of a worker, the clock, the run that is watched |

In `ScheduledJobs`: the private owner and fence token of a lease are its generation,
since both are fresh in every claim. An observation digest differs from the last one
or not, and the first always does. A job resumes at an instant at which no earlier round
was due: instants of the code have nanoseconds, those of the model are
coarse. No binary of the repository installs an executor; `HasExecutor` stands for
the interface that the service offers.

**`WaitGraph`** is what the two graphs of waits share: paths, cycles, and the depth
of a graph given as a set of pairs.

**`SyncWaits`** is the graph one process keeps of its synchronous calls. `edges` and
`nodes` count how many calls hold each wait and each end, `edgeCount` the distinct
waits, and `call` says where each call is. `Enter` is `Acquire` (with the tests of
a cycle, of the layers and of the capacity), `Return` the deferred release, and
`ReleaseAgain` a release that is repeated. A caller is an agent or an operator
outside of any call, or what runs inside of a call that is waited for, since the
context carries the node its callee runs as.

**`DependencyWait`** is the graph of waits between the agents of one run, in the
database. A settlement goes through several edges in one transaction and may fail
at any of them, so the transaction is taken apart: `db` is what was committed,
`tx` the open transaction with its own view of the tables, and nothing else
changes until it commits or is rolled back, since SQLite admits one writer.

| Action | Method |
|---|---|
| `Record` | `RecordDependencyWait` |
| `SettleTarget`, `CancelSource`, `ExpireOverdue`, `Reconcile` | the settlements by the target's end, the source's cancellation, the clock, and a restart |
| `AcceptDelivery` | `settleBatchDeliveryDependenciesTx` |
| `SettleNext` | `settleDependencyEdgeTx` with `deliverDependencySourceMessagesTx` |
| `Commit`, `Rollback` | the end of the transaction |
| `AgentMoves`, `RunEnds`, `Consume`, `Tick` | what the coordinator, the run's transitions and the clock do to the same rows |

**`Specialists`** is the agent graph of one run: the root, its children, their
attempts under the run's lease, the bounded inboxes, and the snapshots of the
graph. The supervisor's turn, whose own questions are those of `RunSupervisor`,
is here a checkpoint that starts, completes, is cut at a boundary or fails; one
action is one store method.

| Variable | Code |
|---|---|
| `run`, `cp`, `root`, `lease` | `runs.status`, the checkpoint, the root's row of `agent_nodes`, the execution lease |
| `child` | the children's rows of `agent_nodes`, with the status of their sessions |
| `attempt` | `agent_attempts`, by child and turn |
| `inbox` | `agent_messages`, by agent and sequence |
| `deliveries` | `root_inbox_deliveries`, `specialist_context_deliveries` |
| `snapshot` | the latest row of `agent_graph_snapshots` |

| Action | Method |
|---|---|
| `Acquire`, `Expire` | the lease's grant and its end; adoption of a lease is `lease.live` |
| `RootBegin`, `RootPrepareInbox`, `RootComplete`, `RootBoundary`, `RootFail`, `EndFailedTurn`, `Finalize` | the supervisor's methods as they act on agents, with `PrepareRootInboxContext` |
| `Transition`, `AskApproval`, `AnswerApproval` | transitions of the run with `syncRootAgentTx` and what it does to children |
| `Admit` | `AdmitSpecialist` |
| `BeginAttempt`, `PrepareContext`, `RecordUsage`, `Continue`, `Finish`, `Crash`, `Recover` | the attempt's life in `store/specialist_*.go`, `coordinator_*.go` |
| `Send`, `Wake`, `Consume` | `SendAgentMessage`, the wake of a child, `ConsumeAgentMessages` |

In `Specialists`: a model call costs a child one token; the message kind `other`
stands for the kinds that are not dependency notices, which are left to
`DependencyWait` (`root_inbox_context.go:176`).

## 3. The runs

| Run | Instance | What it shows |
|---|---|---|
| `lease` | 3 workers, TTL 3, renewal every tick, 4 generations; ~133 000 states | mutual exclusion, fencing, who evicts a worker, refinement of `Fence`; a loser stops and an orphaned lease runs out |
| `supervisor_takeover` | 2 workers, 2 messages, 2 turns, 2 attempts, 2 generations, queue of 1; ~617 000 states | takeovers in every state of a turn, root agent, claims, ends of a run, deferral of stops, refinement of `Fence` |
| `supervisor_delivery` | 1 worker, 2 messages, interactive, 2 turns, 3 attempts, 2 generations; ~940 000 states | binding of deliveries, exactly-once, corrections, refinement of `MessageDelivery` |
| `wake` | a polling worker and another caller, step limits 1 and 2, 1 intent, 2 generations, leases of 1 tick, 3 ticks in all; ~405 000 states | leases that expire under a prepared handoff, stored times, agreement of consumptions and handoffs, finality of results; the worker settles a wake that is not bound to another step limit |
| `waits` | 3 calls between three agents, a tool and a process; 4 nodes, 3 edges; ~17 000 states | counters, no cycle, every call returns |
| `dependencies` | 3 agents, 2 edges, inboxes of 2, one tick; ~1 174 000 states | no cycle, one notice for every end, no source forgotten |
| `jobs` | 2 workers (one that only observes), 3 kinds of jobs, 2 rounds of 2 attempts, leases of 2 ticks, 5 instants; ~3 864 000 states | job and rounds in step, rounds counted once, budgets of rounds, calls, attempts and time, no report taken for another attempt |
| `specialists_pair` | 2 children of 1 turn, 2 leases, inboxes of 2; ~159 000 states | every end is reported, contexts are the oldest messages in order |
| `specialists_turn` | 1 child of 2 turns, 2 supervisor attempts, 2 leases, inboxes of 1; ~1 703 000 states | budget, agreement of attempts, nodes and snapshot, messages read once, outcomes under one's own lease |
| `supervisor_graph` | 1 worker, 1 message | violated: see 5 |
| `wake_abandon` | 2 polling workers, 1 intent | violated: see 5 |
| `specialists_replay` | 1 child | violated: see 5 |

Some invariants are stated and proved but listed in no run (`LeaseInv`, `NoRevival`,
`SupervisorInv`, `QueueBounded`, `TurnBudget`, `WithinCapacity`, `NoCallback`,
`NoStandstill`, `WithinLimits`, `WakeInv`, `ClaimsAreOwn`, `JobsInv`, and
most type invariants): the theorems of section 4 say more about them than an instance.

**Bounds.** `MaxGeneration` and `MaxAttempts` bound how many leases and attempts
there are, nothing else does. Three workers are one more than a takeover needs,
so a worker that was overtaken twice exists; TTL 3 against a renewal interval of
1 lets two heartbeats be missed and the third be in time. In `RunSupervisor` a
second generation is a takeover, a second attempt is a retry or the turn after a
tool boundary, and the third attempt of `supervisor_delivery` allows a tool
boundary whose next turn fails and is begun again. Two messages are the turn's
own message with a correction, a successor, or a promotion's replacement. Every
action of the specification is taken in the passing runs. A queue limit of 1
is full at once, and a promotion at that limit needs the slot it frees. In
`RunWake` the caller meets the worker in every place, and may do all that a second worker
may; a step limit of 2 is the worker's or another one; a second generation is a retry; a lease of one tick in an intent of three expires twice before the
deadline. Two crashes or lost execution leases leave every step half done, and
the step of who comes after it too (`MaxFaults`). A second intent of the same run
is left to the theorems. In `SyncWaits` three calls can
close a cycle longer than a wait and its reversal, and a limit of 4 nodes or 3 edges is reached by them. In
`DependencyWait` two edges make a transaction that has settled one edge and fails
at the other, or two notices for one inbox, which holds two rows; the only circles of two edges
are those between two agents, longer ones are met in `waits` and by the theorem
`WaitsStayAcyclic`; the limits of open edges and of depth are never what decides
(`WaitsStayWithinLimits` is about them), and the policy `notify` is left to the proofs. In `ScheduledJobs` the second worker overtakes the first in every place, and a lease
of two ticks is still good, or not, when its round is reported; two rounds and two
attempts are used up by retries, skips, crashes and pauses. A deadline at 5 and three
ticks in all are each what ends some job. The three specifications are a periodic read-only
job, a one-shot and a repair with a model call; the doubled idle interval, which
takes four rounds without a change, is never reached. In `Specialists` an inbox or a
history of one row is full at once, a second lease is a takeover, two children
compete for the turns that are left; the token limit decides in no run. Each
property is known to fail for at least one plausible bug in the code, listed
under "mutants" in `PROJECT.json` (operators `Bug...` in the modules).

**Symmetry.** Workers (the polling ones in `wake_abandon`) are interchangeable and so are messages; no definition
orders them. Symmetry is used in safety runs only, so not in `lease`, `wake` and `waits`.

**Deadlock** is checked in `lease`, where the clock never stops, and in `waits`, where
a call that returned may release again. A supervised
run may legitimately come to rest (it ended and every bound is used up), so
those runs do not check it; nor do those of `RunWake` and `ScheduledJobs`, where an intent or a job that is over
needs nothing more, of `DependencyWait` and of `Specialists`, where every edge may be
settled and every turn spent.

**Fairness** (`RunLease!Fairness`): the clock runs; a heartbeat that is due is
eventually tried, since its goroutine is blocked by nothing but a store call with
a timeout; a cancelled operation returns, since every call in it takes the
cancelled context; a release that is due is attempted, since it follows the
operation in the same function. Nothing is assumed about acquisition, progress
of an operation that still holds its lease, or restart. `RunSupervisor` states no
fairness: whether a turn goes on is up to its callers, which are not modelled.
`RunWake!Fairness`: a polling worker begins again and again, on its ticker; whoever has
begun takes the next step, since each of its calls has a context with a timeout; the clock
runs; an execution lease whose holder is gone runs out (`OrphanExpires` of
`RunLease`). Nobody has to make a call: a caller that died need not come back.
`WakesSettle` is conditional: the run stays running and is left alone by others from
some time on, which nothing in this code can promise, and from some time on the
intent is not `Stranded`, bound by a call to a step limit that no worker asks for. Without
that condition it does not hold; section 5 tells how.
`SyncWaits!FairSpec`: a call that waits for nothing further returns (`Return` is
enabled only then): what a gateway, a harness or a scheduler runs has its own timeout, and
the release is deferred at the call site. That all calls return is then what the
absence of cycles gives.

## 4. What is proved

`RunLease_proofs`, `RunSupervisor_proofs`, `RunWake_proofs`, `ScheduledJobs_proofs`,
`WaitGraph_proofs`, `SyncWaits_proofs`, `DependencyWait_proofs` and `Specialists_proofs`
are checked by TLAPS for every value of the constants (any workers, messages,
agents, TTL, budgets), from the named assumptions on the constants only.

* **`Invariance`, `MutualExclusion`, `FencingIsMonotone`, `Refinement`** of the
  lease. Mutual exclusion is not inductive: two workers with the same token would
  both pass. `LeaseInv` adds that no token and no stamp is ahead of the row and
  that a token other than 0 belongs to one worker; an acquisition issues a token
  above all others, every other step issues none.
* **`EndedLeasesStayEnded`, `WorkersAreNotEvicted`**: what makes a run leased again
  and what ends a lease under a worker at work, from the same invariant.
* **`SupervisorInvariance`**: `SupervisorInv` is inductive. Its parts hold each
  other up. `DeliveryBinding` (a prepared delivery names the checkpoint's
  attempt, turn and input, and its message is pending) is what makes closing a
  turn close its delivery; with it a run that ends leaves no delivery behind
  (`TerminalClosed`); `ExactlyOnce` needs that only a queued message, never a
  correction, was saved at a tool boundary; `RootBound` is an equivalence (the
  root works exactly when a turn is started in a run that is running or waits for
  an approval), or a step of the run under a started turn could not be
  followed. Per part there is one lemma with one step per action (`StepType`,
  `StepBinding`, `StepRows` with `RowStepSound`, `StepClosed`, `StepRoot`).
* **`DeliveriesAreBound`, `ExactlyOnceDelivery`, `NothingWaitsForAnEndedRun`,
  `RootFollowsTheRun`** follow from it.
* **`DeliveryRefinement`**: every step of `RunSupervisor` gives each message one
  of the fates `MessageDelivery` has for it (`StepFate`).
* **`NoCorrectionIsLost`, `StopsAreDeferred`**: the two action properties about
  what a closed turn leaves behind, from `WhoEndsTurns`.

* **`TheOwnerKnowsItsTurn`, `FenceRefinement`** rest on a second inductive
  invariant, `LeaseView`. `OwnerViewCurrent` alone is not inductive: a worker could
  hold an old lease and an old turn, and a later grant could make the lease
  live again. `LeaseView` adds that a generation belongs to one worker, that none
  is ahead of the row, and that a worker that passes the fence and remembers a
  turn has adopted the checkpoint. With it the fence follows: without a
  grant nobody gets to pass (`OnlyAcquireElects`), and who stamps the
  checkpoint passes the fence before and after (`WhoAdopts`).
* **`TurnsAreResumed`**: `TakeoverResumes`, one step per action.
* **`TurnsStayInBudget`, `ClaimsStay`, `QueueStaysBounded`**. `NoNews` says what any
  step that is not the operator's makes of a message: it starts no waiting, and
  cancels only by ending the run. `EndIsFinal` keeps an ended run ended. The queue's
  limit is carried with the finiteness of the queue (`QueueWithin`), so that it
  holds for an infinite supply of messages.

* **`WakeInvariance`** of `RunWake`: `PreparedIsKept` rests on `OwnedIsOpen` (a leased
  generation has no end yet) and `FutureIsBlank` (a new generation starts with no
  consumption). It also needs `ClaimsAreOwn`: `ReleaseRunWakeForRetry` does not look
  at the consumption, so what protects a prepared generation from it is that the
  one consumer that claimed it is not past its preparation.
  `PreparedKeepsItsLease`, `ConsumptionsMatchHandoffs`, `TimesStayInOrder` and
  `ResultsStay` follow. `PowerAssumption` states that powers of 2 are natural
  numbers, because the provers have no exponentiation; TLC evaluates it.

* **`JobsInvariance`, `RowsAgree`, `RoundsCountOnce`, `NoLateReports`** of
  `ScheduledJobs`. `JobsInv` says of a job that goes on that its pending round is its
  only open one (`PendingIsOpen`) and that its counters are sums over its settled
  rounds (`CountsAreRows`). That no occurrence is claimed twice is not inductive
  by itself: it needs `OccurrencesAdvance` (a job that waits wakes after every
  occurrence it had). That the counters are right needs
  `LeasesAreKnown`: a claim's generation is new, so a worker that reports under the
  job's generation has the job's lease, with its expiry and its occurrence; a late
  report counts nothing. Every action is first shown to be one of eight effects on
  the rows (`StepEffect`: a job is created; nothing moves; a round waits for a retry, is
  counted, skipped or claimed; the job is paused or resumed without a claim, or
  ends), and the parts are proved of the effects. `PowerAssumption` is the one of
  `RunWake`, for the backoffs.

* **`WaitsHaveNoCycle`** of `SyncWaits` and **`WaitsStayAcyclic`** of `DependencyWait`
  rest on the same lemmas of `WaitGraph_proofs`: an acyclic graph stays so when an
  edge is added whose target does not reach its source
  (`InsertionKeepsAcyclic`), and when edges are removed (`RemovalKeepsAcyclic`).
* **`NoCallsStandStill`** of `SyncWaits` and **`AgentsNeverStandStill`** of
  `DependencyWait`: what the absence of cycles is for. While anybody waits, one of those
  waited for waits for nobody (`SomeoneIsNotWaiting`): of all edges, the one with the fewest edges behind
  it ends there. That everybody waits for everybody is thereby excluded for any number of
  calls and agents; that they do return needs the fairness, and is model-checked
  (`EveryCallReturns`).
* **`WaitsStayWithinLimits`** of `DependencyWait`: `DAG.ValidateInsert` adds the longest
  chain into the source, the new edge and the longest chain out of the target, and
  compares with `MaxDurableDepth`. That this keeps every chain of the graph within
  the limit is `InsertionKeepsDepth`. Its proof gives every node a height that falls along every
  edge, the longest chain out of it, or through the new edge if that is longer;
  a height that falls bounds the walks (`LongestBelow`). That the longest chains are such a height
  needs the absence of cycles: there the walks are shorter than the number of nodes
  (`Ranks`), so that the walks computed up to that number are all. The
  walks are a recursive function; what is shown of them for every length is shown by induction
  over a set of numbers (`AllNumbers`), which takes no operator.
* **`CountsMatchCalls`, `GraphStaysBounded`, `NoToolCallsBack`** of `SyncWaits`.
  `CountInv` says of every edge and node how many waiting calls hold it, and of the
  edge counter how many edges there are; the capacity test of `Acquire` is then about
  what is there, and the bounds on nodes and edges are inductive only together with
  these counts. A release needs them as well: the count that it lowers is above 0,
  for it is of its own call. `NoToolCallsBack` says that no path of waits leads
  from a tool or a process to an agent, although `Acquire` looks at one edge at
  a time: `Layered` (every edge respects the layers, and only agents, tools and runners are
  waited for) makes the nodes below the agents closed under waits. An external node
  among the targets would break this, since the layer rule lets it wait for an agent.
* **`TypeCorrect`, `EveryEndIsToldOnce`, `SourcesAreWoken`** of `DependencyWait`. The
  inductive invariant has three parts: the committed tables are well formed
  (rows name recorded edges, and an edge has a receipt and a notice exactly when it is
  settled), the open edges have no circle, and the view of an open transaction is
  well formed and continues the committed tables: the same edges, none opened
  again, and the source of an edge it has settled no longer waiting. A commit then keeps the first two, a rollback changes nothing.
* **`AgentInvariant`** of `Specialists`: `AttemptsMatch` (an agent that works has
  exactly one running attempt, that of its current turn, and it holds its turns),
  `ChildrenFollow` (no child works in a paused run,
  none stays paused when it is resumed, all end with it), `SnapshotsAreCurrent`
  (what the restore compares with is what the tables hold). They are one
  induction: an attempt that is closed must leave the node, its session and the snapshot in
  step. `OutcomesUnderOwnLease` follows.
* **`TurnsStayWithinBudget`** of `Specialists`. `BudgetHolds` speaks of the root's turns, of
  the started one and of what the children were given. It is not inductive: a
  completed turn could move the checkpoint to a turn that the budget
  does not cover. `BudgetKept` adds that the checkpoint has counted the turns of the root, and
  that a turn which has failed and may be ended is covered like a started one. The
  sum over the children is the model's own fold. That it adds up is shown without induction over
  data: `Units` is a set with f[x] elements for every x, `SumIsCount` says that
  the fold is its cardinality. The argument is that of the least counterexample
  (`SmallestSubset`; like `LeastPart`, from the well-foundedness of strict inclusion
  on a finite set, a theorem of the library that takes no operator). `SumReplaced` and `SumMonotone` follow by
  counting.
* **`PreparedWhereItBelongs`, `MessagesInOrder`** are the two halves of one invariant,
  `Batches`: neither needs the other, but a step treats a batch as a whole. Every
  action makes of an agent's batch one of three things (`BatchStep`): it is gone,
  it stays while its agent works on under the same attempt and its inbox grows only
  at the end (`Grows`), or it is prepared anew. A batch is a first part
  of what is eligible, so messages that come later cannot be before it, and the
  numbering is that of `NewRows` (`NewRowsRight`).
* **`MessagesReadOnce`, `EndsReported`** come from a second description of the steps,
  `Effects`, proved of every action once (`NextEffects`): what is in an inbox stays
  there and stays consumed (`Keeps`); the committed deliveries change only by
  reading one agent's batch, whose messages were waiting and whose attempt
  succeeds in the same step (`Reads`); and the root is told of nothing, or of the
  end of one attempt of each of several different children, recorded in the same
  step (`Tells`). With them `ReadInv` is inductive: what is committed is in the inbox,
  consumed, committed to no other attempt, and its attempt exists and has succeeded; so a
  message that still waits was never read. `ReportsMatch` says the same of notices and ends in both
  directions, for all turns, those not begun yet included. `ReadStep` needs
  `Batches`, or one attempt could be given a message twice.

Only model-checked: liveness under fairness (`LoserStops`, `OrphanExpires`,
`WakesSettle`, `EveryCallReturns`), which is out of the prover's reach. Every other property
of the passing runs, invariants, action properties and refinements, is stated by a theorem.

## 5. Where the code and its documents disagree

* `docs/adr/0041-explicit-wake-file-apply-and-inert-skill-install.md:32` says that a consumption
  stays prepared while its handoff has no durable result. A consumer that was
  refused a handoff fails its consumption without looking again; if a second
  consumer opened the handoff in between, the handoff is left open under a failed
  consumption, and the intent may be claimed again while it is executed (run
  `wake_abandon`).
* `store/coordinator_snapshots.go:194` asserts that the root agent's status is the
  one its run and its checkpoint imply. `EndFailedThreadTurn` makes the root ready in a
  run that the failure paused, a wait that retains background jobs
  (`store/supervisor.go:1988`) leaves it waiting in a running run, and
  `PrepareWebFetchAuthorization` (`:193`) leaves it running in a run that waits for an
  approval; until the next transition the graph cannot be restored
  (run `supervisor_graph`).
* `docs/architecture.md:329` says that a started attempt is replayed the same batch of
  messages after a transition away from running. `syncRootAgentTx`
  (`store/coordinator.go:563`) keeps the superseded rows, and the same attempt
  then inserts them again, against the table's keys (`store/migrations.go:1381`,
  `:1385`), so that the resumed turn fails (run `specialists_replay`).

Read in the code while modelling, without a run of their own:

* A wake can stay leased for good while its run goes on. A call with
  `--max-steps 2` (`app/run_wake_command.go:96`, or `max_steps` of the HTTP request)
  prepares a generation and dies. The worker's request of one step is refused
  (`run_wake_consumer.go:159`), `reconcileExpiredRunWakeTx` keeps a prepared generation
  after its lease and its intent's deadline, `CancelRunWakeIntent` refuses it, and no
  other intent can be scheduled for the run; only a call with the same limit
  frees it. The decision record says that expiry does not reclaim and cancel is rejected
  until the handoff settles, and not that the polling worker cannot settle it.
  `ListDueRunWakeIntents` moreover lists such an intent, once its lease is over, before all that
  are due later, and the worker takes one intent a poll (`RunWakeWorkerConcurrency`), so
  that wakes of other runs wait behind it. In `RunWake` this is `Stranded`, which `WakesSettle` excepts; without the
  exception the instance of run `wake` gives the trace.
* `docs/adr/0005-operator-steering-queue.md:18` says that pending successor input
  defers a `finish` or a `wait`. `pendingOperatorSteeringAfterCurrentTx` counts
  messages for the next turn only. A correction whose attempt failed before
  it was answered stays pending, no later attempt claims it (its target is the
  failed attempt), and the next `wait` pauses the run over it; only the end of
  the run cancels it, and it blocks a `finish`.
* `docs/adr/0005-operator-steering-queue.md:17` says that there is no early session
  write. A tool boundary saves the operator's row and leaves the message pending
  for the next segment; if the run is cancelled there, the history holds a message
  that was never committed. `ExactlyOnce` states what does hold: the row is
  written once in all.
* A settlement changes nodes and inboxes without saving a snapshot of the agent
  graph, although `docs/architecture.md:317` says they share the transaction; the
  restore compares them (`coordinator_snapshots.go:227`) and refuses until the
  coordinator's next transaction. `SnapshotCurrent` is about the coordinator's
  own transactions only.
* `deliverDependencySourceMessagesTx` does not look at the run's status: it may make a
  waiting child ready in a paused run; and it fails a source without closing its
  session. One full inbox rolls back the settlement of all edges of that transaction.
* A retry of `AdmitChildTaskProposal` computes its deadline anew, so that the same key
  is a conflict although `child_task.go:411` calls the rebinding idempotent; a
  key that was used is refused after the run ended although a comment says that it
  replays.
* An attempt that is interrupted on a child's last turn leaves a ready child that
  has no turn left and reports nothing further. The root's inbox and its history are
  bounded and never pruned; when they are full, the child's finish, crash and recovery
  are refused.
* `docs/adr/0121-durable-scheduled-monitoring-and-structured-diagnostics.md:49` says that a
  one-shot executes at most once. An execution whose worker dies, or reports after its
  lease, is executed again by the next attempt; `RoundsCounted` and
  `RoundsAreFinal` state that it counts once. The model call of the lost attempt is
  not counted.
* `--at` is the first occurrence (`app/scheduled_job_command.go:78`). A job that is
  paused before it and resumed is due at the instant of the resumption
  (`store/scheduled_jobs.go:377`), so that a one-shot runs early and is completed.
* A pause revokes a claimed round as an attempt that was used (`:1270`): with one
  attempt the resumed job fails. A job that is stopped or cancelled while a round waits for
  its retry leaves this round open for good, since only a claimed round is revoked.
* A report that a tool was used in a read-only round is refused (`:796`), and the round
  is neither failed nor retried until its claim runs out. Until then the job stays
  first among those that are due, and jobs due later wait behind it.

## 6. Not modelled

Inside the modelled components: answers to repeated calls with the same
operation key (they change nothing), revision of a queued message, images and
attachments, approval continuations, tool rounds, token and time budgets of the
supervisor, context compaction, plan mode and active work items that
refuse a `finish`, drydock and workspace-restore admission. No
caller outside the tests passes a lease id to the acquisition, but the replay is
modelled in `RunLease` because the method offers it.

`Specialists` leaves out the locks of delegation applications, protocol repair and
the cancellation of model calls, the work items and notes of a report, the
scheduler, the root's token budget and its session. `DependencyWait` leaves out the
diagnosis of stalls (it only reads), refusals that change nothing, and how its
callers reach it: `RecordDependencyWait` is called by `AdmitChildTaskProposal` alone,
`Reconcile` by the run service and the threads, without regard for its error, and
`DependencyWaitService` by nothing outside the tests. Its agents move by the statuses
that their transitions allow, not by the actions of `Specialists`.

`ScheduledJobs` leaves out other jobs in the same queue, notifications, events, the
contents of digests, the worker's health and its start.

Other components are listed in `PROJECT.json` with the reason.

## 7. Plan

In order; each with its MC module, its runs and then its proofs.

1. `CommandRuntime`: live jobs, their ownership and cancellation.
2. `Approvals`: one-shot decisions and the continuation of a turn, composed with
   `RunSupervisor`.
3. `ToolLedger`, `TerminalLease`, `MonetaryBudget`, then workspace checkpoints and
   batch delivery.
4. `DependencyWait` composed with `Specialists`, with the snapshot, in place of agents that
   move freely.

Theorems worth proving there: an approval is
consumed at most once; a reservation is settled or released once. Of the modules
there are: that the edges of `DependencyWait` end once for the agents of
`Specialists` too, when the two are composed.
