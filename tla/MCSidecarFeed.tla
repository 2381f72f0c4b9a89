--------------------------- MODULE MCSidecarFeed ---------------------------
(* Instances of SidecarFeed for TLC.                                       *)
EXTENDS SidecarFeed, TLC

NoFault == {}
Death == {"death"}
AnyFault == {"death", "request"}
SlowFault == {"death", "request", "slowAnswer"}
CallerSymmetry == Permutations(Callers)
=============================================================================
