--------------------------- MODULE MCCouchWrites ---------------------------
(* Instances of CouchWrites for TLC.                                       *)
EXTENDS CouchWrites, TLC

CONSTANTS a, b

\* One call meets every failure, the other, if there is one, only its rivals.
OneFails == [c \in Calls |-> IF c = a THEN {"transport", "remote"} ELSE {}]
Mixed == [c \in Calls |-> IF c = a THEN {"transport"} ELSE {"remote"}]
TextSymmetry == Permutations(Texts)
=============================================================================
