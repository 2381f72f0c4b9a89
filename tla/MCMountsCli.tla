---------------------------- MODULE MCMountsCli ----------------------------
(***************************************************************************)
(* An instance of MountedVault for TLC: a mount below a folder of the      *)
(* root, which may hold notes at the same paths; and, by hand, one mount   *)
(* below another.                                                          *)
(***************************************************************************)
EXTENDS MountedVault

CONSTANTS vault, team

MCNamesOf == [p \in Places |-> IF p = "" THEN <<>> ELSE <<"Team", "Alpha">>]
MCFolders == {"Team", "Alpha"}
MCNames == {"Team", "Alpha", "n"}
MCNotes == {<<"n">>, <<"Team", "n">>, <<"Team", "Alpha", "n">>}

Nested == <<<<"Team">>, <<>>, <<"Team", "Alpha">>>>
OfEach == <<"algolia", "filesystem", "couchdb">>
MCHandwritten == {[k \in 1 .. 3 |-> [id |-> k, at |-> Nested[k], kind |-> OfEach[k]]]}
=============================================================================
