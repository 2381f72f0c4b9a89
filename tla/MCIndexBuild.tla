---------------------------- MODULE MCIndexBuild ----------------------------
(* A small instance of IndexBuild for TLC: two processes over one index.    *)
EXTENDS IndexBuild, TLC

CONSTANTS p, q

BuilderSymmetry == Permutations({p, q})
=============================================================================
