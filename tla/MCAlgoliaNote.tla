--------------------------- MODULE MCAlgoliaNote ---------------------------
(* Small instances, for TLC, of the two modules about one note of a corpus:*)
(* its records in the indexes (AlgoliaVersioning), with interchangeable    *)
(* servers and a text that starts last and is another, and its text in a   *)
(* cache directory (NoteCache), with two requests of one process and one   *)
(* of another.                                                             *)
EXTENDS AlgoliaVersioning, NoteCache, TLC

CONSTANTS x, y, p, q, t, u, w

LastDiffers == [n \in 0 .. MaxVersions |-> IF n + 1 < MaxVersions THEN {x} ELSE {y}]
NoteSymmetry == Permutations(Actors) \cup Permutations({t, u})
TasksOfTwo == [r \in {t, u, w} |-> IF r = w THEN q ELSE p]

\* The two share no variable, and no property speaks of both: TLC need not look
\* at a step of one before a step of the other, so each runs while the other has
\* not begun.
CorpusInit == Init /\ CacheInit
CorpusNext ==
  \/ CacheInit /\ Next /\ UNCHANGED cacheVars
  \/ Init /\ CacheNext /\ UNCHANGED vars
CorpusSpec == CorpusInit /\ [][CorpusNext]_<<vars, cacheVars>>
=============================================================================
