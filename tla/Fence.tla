------------------------------- MODULE Fence -------------------------------
(***************************************************************************)
(* What a fencing lease promises to the rows it guards: a sequence of      *)
(* epochs, in each of which at most one worker may write, and a checkpoint *)
(* stamped with the epoch of its last adopter, which never goes back.      *)
(* RunLease is shown to implement it.                                      *)
(***************************************************************************)
EXTENDS Naturals

CONSTANTS Workers, Nobody

VARIABLES writer,   \* the one worker whose writes would be accepted, or Nobody
          epoch,    \* how many times a writer was chosen
          stamp     \* the epoch recorded in the guarded row

fenceVars == <<writer, epoch, stamp>>

Init == writer = Nobody /\ epoch = 0 /\ stamp = 0

\* A new writer is chosen only when there is none, in a fresh epoch.
Elect(w) ==
  /\ writer = Nobody
  /\ writer' = w
  /\ epoch' = epoch + 1
  /\ UNCHANGED stamp

\* The writer stops being one: it let go, its time ran out, or it died.
Depose ==
  /\ writer # Nobody
  /\ writer' = Nobody
  /\ UNCHANGED <<epoch, stamp>>

\* Only the writer stamps the row, with the current epoch.
Stamp ==
  /\ writer # Nobody
  /\ stamp' = epoch
  /\ UNCHANGED <<writer, epoch>>

Next == Depose \/ Stamp \/ \E w \in Workers : Elect(w)

Spec == Init /\ [][Next]_fenceVars
=============================================================================
