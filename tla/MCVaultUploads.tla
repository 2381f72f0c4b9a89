--------------------------- MODULE MCVaultUploads ---------------------------
(* Instances of VaultUploads for TLC.                                      *)
EXTENDS VaultUploads, TLC

CONSTANTS t1, t2, p1, p2, p3
AnyFault == {"body", "disk", "disconnect", "shutdown", "crash"}
TokenSymmetry == Permutations({t1, t2}) \cup Permutations({p1, p2, p3})
=============================================================================
