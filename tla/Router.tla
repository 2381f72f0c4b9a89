------------------------------- MODULE Router -------------------------------
(***************************************************************************)
(* The mount router (rust/crates/deep-obsidian-backend/src/router.rs): one *)
(* logical namespace over several mounts.                                  *)
(*                                                                         *)
(* A path is the sequence of its names, the root the empty one: what the   *)
(* router compares are whole names.  A table is the sequence of its mounts *)
(* in the order of the configuration, each with its id, the folder it is   *)
(* at and its kind (a directory of files, a CouchDB vault, an Algolia      *)
(* corpus).  What a mount holds is the set of the paths of its notes,      *)
(* relative to it; what a backend answers to a listing, a walk or a grep   *)
(* follows from that set, or is a failure.                                 *)
(* The names of notes are not those of folders.                            *)
(***************************************************************************)
EXTENDS Naturals, Sequences, FiniteSets

\* prefix_contains: on folder boundaries.
Contains(prefix, path) ==
  Len(prefix) <= Len(path) /\ \A i \in 1 .. Len(prefix) : prefix[i] = path[i]

Upto(path, n) == SubSeq(path, 1, n)
Parent(path) == Upto(path, Len(path) - 1)

\* The mounts that contain a path, and the longest of them.
Serving(table, path) == {i \in DOMAIN table : Contains(table[i].at, path)}
IsOwner(table, path, i) ==
  i \in Serving(table, path) /\ \A j \in Serving(table, path) : Len(table[j].at) <= Len(table[i].at)
Owner(table, path) == CHOOSE i \in DOMAIN table : IsOwner(table, path, i)

\* backend_relative_path and its inverse, to_logical.
Relative(mount, path) == SubSeq(path, Len(mount.at) + 1, Len(path))
Logical(mount, path) == mount.at \o path

\* scope_contains_other_mount
ContainsOther(table, i, prefix) ==
  \E j \in DOMAIN table : table[j].id # table[i].id /\ Contains(prefix, table[j].at)

\* route_content: what a read of the path finds.
Found(table, held, path) ==
  LET i == Owner(table, path)
  IN  Relative(table[i], path) \in held[i]

----------------------------------------------------------------------------
(* Listings.                                                               *)

Failed == [ok |-> FALSE, folders |-> {}, notes |-> {}]
Listed(folders, notes) == [ok |-> TRUE, folders |-> folders, notes |-> notes]

\* A backend's direct children of a folder: a folder is what leads to a note.  A
\* directory that is not there is an error, a folder no entry leads to is empty.
OwnChildren(mount, notes, folder) ==
  LET below == {n \in notes : Contains(folder, n) /\ n # folder}
  IN  IF mount.kind = "filesystem" /\ below = {} /\ folder # <<>> THEN Failed
      ELSE Listed({Upto(n, Len(folder) + 1) : n \in {m \in below : Len(m) > Len(folder) + 1}},
                  {n \in below : Len(n) = Len(folder) + 1})

\* The direct children of a folder that lead to a mount.
Synthesized(table, folder) ==
  {Upto(table[i].at, Len(folder) + 1) :
     i \in {j \in DOMAIN table : Contains(folder, table[j].at) /\ table[j].at # folder}}

\* Mutant: the owner's "not found" is the answer.
ChildListingNeedsTheOwner(table, held, down, folder) ==
  LET i == Owner(table, folder)
      own == IF i \in down THEN Failed ELSE OwnChildren(table[i], held[i], Relative(table[i], folder))
  IN  IF ~own.ok THEN Failed
      ELSE Listed({Logical(table[i], f) : f \in own.folders} \cup Synthesized(table, folder),
                  {Logical(table[i], n) : n \in own.notes})

\* child_listing: a failure of the owner shows only when nothing is grafted there.
ChildListing(table, held, down, folder) ==
  LET i == Owner(table, folder)
      own == IF i \in down THEN Failed ELSE OwnChildren(table[i], held[i], Relative(table[i], folder))
      grafted == Synthesized(table, folder)
  IN  IF ~own.ok /\ grafted = {} THEN Failed
      ELSE Listed({Logical(table[i], f) : f \in own.folders} \cup grafted,
                  {Logical(table[i], n) : n \in own.notes} \ grafted)

\* walk_markdown: fails with any mount.
WalkMarkdown(table, held, down) ==
  IF down # {} THEN Failed
  ELSE Listed({}, UNION {{Logical(table[i], n) : n \in held[i]} : i \in DOMAIN table})

\* top_level_folders: the root's own, and the first name of every other mount.
TopLevelFolders(table, held, down) ==
  LET roots == {i \in DOMAIN table : table[i].at = <<>>}
  IN  IF roots \cap down # {} THEN Failed
      ELSE Listed(Synthesized(table, <<>>) \cup UNION {OwnChildren(table[i], held[i], <<>>).folders : i \in roots}, {})

----------------------------------------------------------------------------
(* grep.                                                                   *)

\* A glob is its literal prefix, and whether its last part is "*.md", for the
\* notes directly in it, or "**/*.md".  ripgrep seeks the folders of the prefix
\* from the working directory of the server: in a directory it is not anchored at,
\* they match nothing; and without any, "*.md" is the name of a note anywhere.  In
\* a CouchDB vault the star of "*.md" crosses folders, in an Algolia corpus not.
Matches(mount, notes, prefix, deep, anchored) ==
  {n \in notes :
     \/ mount.kind = "filesystem" /\ prefix = <<>>
     \/ /\ mount.kind = "filesystem" => anchored
        /\ Contains(prefix, n)
        /\ deep \/ Parent(n) = prefix \/ mount.kind = "couchdb"}

\* grep with a glob that names a folder: one mount answers, or it is refused.
ScopedGrep(table, held, down, anchored, prefix, deep) ==
  LET i == Owner(table, prefix)
  IN  IF ContainsOther(table, i, prefix) \/ i \in down THEN Failed
      ELSE Listed({}, {Logical(table[i], n) :
                         n \in Matches(table[i], held[i], Relative(table[i], prefix), deep, i \in anchored)})

FirstOf(s, n) == IF Len(s) <= n THEN s ELSE Upto(s, n)

NothingYet == [matches |-> <<>>, exhausted |-> TRUE, missing |-> {}, stopped |-> FALSE]

\* Mutant: a mount that is past the limit says nothing of itself.
GrepAddsSilently(sum, table, found, down, bounded, i, limit) ==
  LET left == limit - Len(sum.matches)
  IN  IF left = 0 THEN sum
      ELSE IF i \in down THEN [sum EXCEPT !.exhausted = FALSE, !.missing = @ \cup {table[i].id}]
      ELSE [sum EXCEPT !.matches = @ \o FirstOf(found[i], left), !.exhausted = @ /\ i \notin bounded]

\* What one mount's answer adds, with the budget there is left.  found[i] is its
\* list of matches; a mount in bounded does not look everywhere.
GrepAdds(sum, table, found, down, bounded, i, limit) ==
  LET left == limit - Len(sum.matches)
  IN  IF sum.stopped THEN sum
      ELSE IF left = 0 THEN [sum EXCEPT !.exhausted = FALSE, !.stopped = TRUE]
      ELSE IF i \in down THEN [sum EXCEPT !.exhausted = FALSE, !.missing = @ \cup {table[i].id}]
      ELSE [sum EXCEPT !.matches = @ \o FirstOf(found[i], left), !.exhausted = @ /\ i \notin bounded]

\* federated_grep: every mount is asked for the limit at once; their answers are
\* then taken in the order of the table.
FederatedGrep(table, found, down, bounded, limit) ==
  LET capped == [i \in DOMAIN table |-> FirstOf(found[i], limit)]
      sum[n \in 0 .. Len(table)] ==
        IF n = 0 THEN NothingYet ELSE GrepAdds(sum[n - 1], table, capped, down, bounded, n, limit)
  IN  sum[Len(table)]
=============================================================================
