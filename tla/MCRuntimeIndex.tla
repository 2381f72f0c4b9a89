--------------------------- MODULE MCRuntimeIndex ---------------------------
(* Instances of RuntimeIndex for TLC.                                      *)
EXTENDS RuntimeIndex

AllFeatures == {"autoReindex", "freshness"}
AnyFile == {"none", "compatible", "incompatible"}
AnyFault == {"signal", "watcher", "index"}
=============================================================================
