---------------------------- MODULE MountedVault ----------------------------
(***************************************************************************)
(* The configuration the commands leave, and the namespace the server      *)
(* serves from it: MountsCli and Router composed.  What the commands write *)
(* decides the table; what the mounts hold, and which of them fail, is     *)
(* anything.                                                               *)
(***************************************************************************)
EXTENDS MountsCli, Router

CONSTANTS Names,        \* of folders and notes
          Folders,      \* those of folders: no note of a mount has one
          NamesOf,      \* NamesOf[p]: the place p as the sequence of its names
          Handwritten,  \* tables of more mounts than Ids, which an operator writes by hand
          Notes,        \* bound: the paths a mount may hold notes at
          MaxFound      \* bound: the matches of one mount

\* What normalize_mounts makes sure of: the ids differ, the places differ, and
\* one of them is the root.
IsTable(table, Name) ==
  /\ DOMAIN table = 1 .. Len(table) /\ Len(table) \in Nat
  /\ \A i \in DOMAIN table : table[i].at \in Seq(Name)
  /\ \A i, j \in DOMAIN table : table[i].at = table[j].at => i = j
  /\ \A i, j \in DOMAIN table : table[i].id = table[j].id => i = j
  /\ \E i \in DOMAIN table : table[i].at = <<>>

ASSUME NamespaceAssumption ==
  /\ Folders \subseteq Names
  /\ NamesOf \in [Places -> Seq(Folders)] /\ NamesOf[Top] = <<>>
  /\ \A p, q \in Places : NamesOf[p] = NamesOf[q] => p = q
  /\ \A n \in Notes : n \in Seq(Names) \ {<<>>} /\ n[Len(n)] \notin Folders
  /\ \A table \in Handwritten : IsTable(table, Folders)
  /\ MaxFound \in Nat

Bijections(S) == {f \in [1 .. Cardinality(S) -> S] : \A i, j \in DOMAIN f : f[i] = f[j] => i = j}

\* MountBackends::build and router: the mounts of the configuration, in any
\* order the file may list them.
TablesOf(mounts) ==
  {[k \in DOMAIN order |-> [id |-> order[k], at |-> NamesOf[mounts[order[k]].at],
                            kind |-> mounts[order[k]].kind]] :
     order \in Bijections(Declared(mounts))}

AllHeld(table) == [DOMAIN table -> SUBSET Notes]
LogicalNotes(table) == {Logical(table[i], n) : i \in DOMAIN table, n \in Notes}
FoldersAbove(paths) == UNION {{Upto(p, k) : k \in 0 .. Len(p) - 1} : p \in paths}

\* The folders a client can descend to from the root, listing by listing, and
\* the notes it sees on its way.
Reachable(table, held, down, folder) ==
  \A k \in 1 .. Len(folder) : Upto(folder, k) \in ChildListing(table, held, down, Upto(folder, k - 1)).folders
Discovered(table, held, down) ==
  UNION {ChildListing(table, held, down, f).notes :
           f \in {g \in FoldersAbove(LogicalNotes(table)) : Reachable(table, held, down, g)}}

Served(table, held, down) ==
  {p \in LogicalNotes(table) : Owner(table, p) \notin down /\ Found(table, held, p)}

----------------------------------------------------------------------------
(* Browsing.                                                               *)

\* A client that descends the listings sees the notes it can read, and no
\* other, whichever mounts fail: none that a nested mount shadows, and each
\* nested mount even below one that fails.
DiscoversWhatIsServed(table, held, down) ==
  Discovered(table, held, down) = Served(table, held, down)

\* No listing shows a folder that cannot be listed, unless its mount fails.
ListsWhatItAdvertises(table, held, down) ==
  \A f \in FoldersAbove(LogicalNotes(table)) :
    LET listing == ChildListing(table, held, down, f)
    IN  \A g \in listing.folders : Owner(table, g) \notin down => ChildListing(table, held, down, g).ok

\* A walk names every note that is served, and besides only notes that a nested
\* mount shadows; it never names a part of them.
WalksAll(table, held, down) ==
  LET walk == WalkMarkdown(table, held, down)
      shadowed == {Logical(table[i], n) : i \in DOMAIN table, n \in Notes} \ Served(table, held, down)
  IN  /\ walk.ok <=> down = {}
      /\ walk.ok => Served(table, held, down) \subseteq walk.notes
      /\ walk.ok => \A p \in walk.notes \cap shadowed : Owner(table, p) # Owner(table, <<>>)

\* top_level_folders and the listing of the root agree.
TopLevelAgrees(table, held, down) ==
  LET top == TopLevelFolders(table, held, down)
  IN  top.ok => top.folders = ChildListing(table, held, down, <<>>).folders

----------------------------------------------------------------------------
(* Searching.                                                              *)

\* A grep of a folder that is not refused finds nothing outside the folder and
\* nothing shadowed, and, where ripgrep is anchored at the mount or the folder is
\* the mount's own, every note served there that the glob names.
ScopedGrepIsWhole(table, held, down) ==
  \A prefix \in FoldersAbove(LogicalNotes(table)) \ {<<>>}, deep \in BOOLEAN,
     outside \in SUBSET {i \in DOMAIN table : table[i].kind = "filesystem"} :
    LET grep == ScopedGrep(table, held, down, DOMAIN table \ outside, prefix, deep)
        inside == {p \in Served(table, held, down) : Contains(prefix, p)}
    IN  grep.ok =>
          /\ grep.notes \subseteq inside
          /\ (Owner(table, prefix) \notin outside \/ table[Owner(table, prefix)].at = prefix)
               => {p \in inside : deep \/ Parent(p) = prefix} \subseteq grep.notes

\* The matches of the mounts that answer, in the order of the table.
Concatenated(found, down) ==
  LET upTo[n \in 0 .. Len(found)] ==
        IF n = 0 THEN <<>> ELSE upTo[n - 1] \o (IF n \in down THEN <<>> ELSE found[n])
  IN  upTo[Len(found)]

\* Asked all at once, the mounts answer as when asked one after the other: the
\* first matches in the order of the table.  An answer that says exhausted had no
\* mount that failed or did not look everywhere, and lacks nothing but what the
\* limit cut from the last mount of the table: with less than the limit it is
\* everything.  One the limit did not cut names every mount that failed.
FederatedGrepIsHonest(table, down) ==
  \A lengths \in [DOMAIN table -> 0 .. MaxFound], bounded \in SUBSET DOMAIN table, limit \in 0 .. MaxFound + 1 :
    LET found == [i \in DOMAIN table |-> [k \in 1 .. lengths[i] |-> <<table[i].id, k>>]]
        all == Concatenated(found, down)
        grep == FederatedGrep(table, found, down, bounded, limit)
    IN  /\ grep.matches = FirstOf(all, limit)
        /\ grep.exhausted => down = {} /\ bounded = {}
        /\ grep.exhausted => \A i \in DOMAIN table \ {Len(table)} :
             \A k \in DOMAIN found[i] : \E m \in DOMAIN grep.matches : grep.matches[m] = found[i][k]
        /\ grep.exhausted /\ Len(grep.matches) < limit => grep.matches = all
        /\ Len(grep.matches) < limit => grep.missing = {table[i].id : i \in down}

TableIsWhole(table) ==
  \A held \in AllHeld(table), down \in SUBSET DOMAIN table :
    /\ DiscoversWhatIsServed(table, held, down)
    /\ ListsWhatItAdvertises(table, held, down)
    /\ WalksAll(table, held, down)
    /\ TopLevelAgrees(table, held, down)
    /\ ScopedGrepIsWhole(table, held, down)

\* Every table the loader accepts, of the ids and places there are.  TLC
\* evaluates the whole and the honest ones once.
Tables ==
  LET configured == [Ids -> {NoMount} \cup {[at |-> p, kind |-> k, refs |-> {}] : p \in Places, k \in Kinds}]
  IN  UNION {TablesOf(mounts) : mounts \in {m \in configured : TableLoads(m)}}
WholeTables == {table \in Tables \cup Handwritten : TableIsWhole(table)}
HonestTables ==
  {table \in Tables \cup Handwritten : \A down \in SUBSET DOMAIN table : FederatedGrepIsHonest(table, down)}

\* Whatever configuration the commands leave that loads, and whatever tables are
\* written by hand, the server serves one whole namespace from it: what listings,
\* walks and greps of a folder show of it is what a read finds, across mounts that
\* shadow and nest and fail.
NamespaceIsWhole ==
  (config.is = "whole" /\ Loads(config.conf)) =>
    TablesOf(BaseTable(config.conf)) \cup Handwritten \subseteq WholeTables

\* From the same tables a grep of every mount says what it left out, but for the
\* last mount's share of it: its matches are the first ones; it is exhausted only
\* if no mount failed or was bounded and the limit cut nothing from any mount but
\* the last; below the limit an exhausted one is everything, and any one names the
\* mounts that failed (router.rs, federated_grep).
GrepsAreHonest ==
  (config.is = "whole" /\ Loads(config.conf)) =>
    TablesOf(BaseTable(config.conf)) \cup Handwritten \subseteq HonestTables
=============================================================================
