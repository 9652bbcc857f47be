----------------------------- MODULE MCSyncWaits -----------------------------
\* SyncWaits on a small instance: three agents, a tool and a sandboxed
\* process.
EXTENDS SyncWaits, TLC

CONSTANTS root, child, peer, tool, runner

MCNodes == {root, child, peer, tool, runner}
MCKind == (root :> "agent") @@ (child :> "agent") @@ (peer :> "agent") @@
          (tool :> "tool") @@ (runner :> "runner")

=============================================================================
