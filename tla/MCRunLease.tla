----------------------------- MODULE MCRunLease -----------------------------
\* RunLease on a small instance: three workers, told apart because a symmetry
\* would not be sound for the liveness properties.
EXTENDS RunLease, TLC
=============================================================================
