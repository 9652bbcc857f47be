------------------------------ MODULE MCRunWake ------------------------------
\* RunWake on a small instance; polling workers are interchangeable.
EXTENDS RunWake, TLC

ConsumerSymmetry == Permutations(Workers)
=============================================================================
