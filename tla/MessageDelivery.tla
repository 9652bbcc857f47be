--------------------------- MODULE MessageDelivery --------------------------
(***************************************************************************)
(* What an operator is promised about the messages queued for a run: each  *)
(* one is accepted at most once and ends either cancelled or committed,    *)
(* and a committed message is in the session history exactly once.  A      *)
(* message may be recorded in the history ahead of its commitment.  One    *)
(* step may settle several messages.  RunSupervisor implements it.         *)
(***************************************************************************)
EXTENDS Naturals

CONSTANT Messages

VARIABLES status,   \* what became of each message
          rows      \* how many rows of the session history hold it

deliveryVars == <<status, rows>>

Init ==
  /\ status = [m \in Messages |-> "absent"]
  /\ rows = [m \in Messages |-> 0]

Keep(m) == status'[m] = status[m] /\ rows'[m] = rows[m]

Accept(m) == status[m] = "absent" /\ status'[m] = "pending" /\ rows'[m] = rows[m]

Record(m) == status[m] = "pending" /\ status'[m] = "pending" /\ rows[m] = 0 /\ rows'[m] = 1

Commit(m) == status[m] = "pending" /\ status'[m] = "committed" /\ rows'[m] = 1

Cancel(m) == status[m] = "pending" /\ status'[m] = "cancelled" /\ rows'[m] = rows[m]

Fate(m) == Keep(m) \/ Accept(m) \/ Record(m) \/ Commit(m) \/ Cancel(m)

Next ==
  /\ DOMAIN status' = Messages /\ DOMAIN rows' = Messages
  /\ \A m \in Messages : Fate(m)

Spec == Init /\ [][Next]_deliveryVars
=============================================================================
