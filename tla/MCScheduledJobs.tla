--------------------------- MODULE MCScheduledJobs ---------------------------
\* A small instance of ScheduledJobs: a periodic observation that skips what
\* it missed, a periodic repair, and a one-shot.
EXTENDS ScheduledJobs, TLC

MCSpecs ==
  {[once |-> FALSE, skip |-> TRUE, repair |-> FALSE, stops |-> TRUE, calls |-> 0, anchor |-> 2],
   [once |-> FALSE, skip |-> FALSE, repair |-> TRUE, stops |-> FALSE, calls |-> 1, anchor |-> 2],
   [once |-> TRUE, skip |-> FALSE, repair |-> FALSE, stops |-> FALSE, calls |-> 1, anchor |-> 3]}
==============================================================================
