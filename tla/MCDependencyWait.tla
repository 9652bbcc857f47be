-------------------------- MODULE MCDependencyWait --------------------------
\* Small instances of DependencyWait; the root's children are interchangeable,
\* and so are the operation keys.
EXTENDS DependencyWait, TLC

Symmetry == Permutations(Agents \ {Root}) \cup Permutations(Keys)
=============================================================================
