-------------------------- MODULE MCRunSupervisor ---------------------------
\* RunSupervisor on small instances.  Workers are interchangeable, and so are
\* the messages: only their sequence orders them.
EXTENDS RunSupervisor, TLC

SupervisorSymmetry == Permutations(Workers) \cup Permutations(Messages)
=============================================================================
