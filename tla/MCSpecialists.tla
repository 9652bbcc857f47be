---------------------------- MODULE MCSpecialists ----------------------------
\* Small instances of Specialists; children are interchangeable.
EXTENDS Specialists, TLC

Symmetry == Permutations(Children)
==============================================================================
