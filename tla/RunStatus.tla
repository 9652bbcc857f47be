----------------------------- MODULE RunStatus -----------------------------
(***************************************************************************)
(* The two status tables that every owner of a run consults: which         *)
(* statuses a run may pass through (domain/run.go), which statuses its     *)
(* root agent may pass through (domain/agent_node.go), and the status the  *)
(* root agent is given for a status of the run (store/coordinator.go).     *)
(***************************************************************************)

RunStatuses == {"created", "preparing", "running", "waiting_approval",
                "paused", "completed", "failed", "cancelled"}

\* Run.Terminal
TerminalRun == {"completed", "failed", "cancelled"}

\* Run.CanTransition, without the transition of a status to itself.
RunSuccessors ==
  [created          |-> {"preparing", "cancelled"},
   preparing        |-> {"running", "failed", "cancelled"},
   running          |-> {"waiting_approval", "paused", "completed", "failed", "cancelled"},
   waiting_approval |-> {"running", "paused", "failed", "cancelled"},
   paused           |-> {"running", "failed", "cancelled"},
   completed        |-> {},
   failed           |-> {},
   cancelled        |-> {}]

AgentStatuses == {"ready", "running", "waiting", "completed", "failed", "cancelled"}

AgentEnded == {"completed", "failed", "cancelled"}

\* AgentNode.CanTransition
AgentSuccessors ==
  [ready     |-> {"running", "waiting"} \cup AgentEnded,
   running   |-> {"ready", "waiting"} \cup AgentEnded,
   waiting   |-> {"ready", "running", "failed", "cancelled"},
   completed |-> {},
   failed    |-> {},
   cancelled |-> {}]

AgentMay(from, to) == from = to \/ to \in AgentSuccessors[from]

\* A seeded bug: the form the next definition would have, had the projection
\* looked at the supervisor's turn before it looked at the run.
BugRootKeepsWorking(run, turnStarted) ==
  CASE turnStarted /\ run \notin TerminalRun -> "running"
    [] run \in {"waiting_approval", "paused"} /\ ~turnStarted -> "waiting"
    [] run \in {"created", "preparing", "running"} /\ ~turnStarted -> "ready"
    [] OTHER -> run

\* rootAgentProjectionForRunTx: the root agent works only while the run is
\* running and the supervisor has a started turn.
RootStatusFor(run, turnStarted) ==
  CASE run \in {"created", "preparing"}        -> "ready"
    [] run = "running"                         -> IF turnStarted THEN "running" ELSE "ready"
    [] run \in {"waiting_approval", "paused"}  -> "waiting"
    [] OTHER                                   -> run
=============================================================================
