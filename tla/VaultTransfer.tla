---------------------------- MODULE VaultTransfer ----------------------------
(***************************************************************************)
(* The commands that carry a whole vault out of a remote mount and back:   *)
(* `couchdb export` and `restore` (cli/src/couchdb_transfer.rs), `algolia  *)
(* seed`, `dump`, `restore` and `retract` (cli/src/algolia_cmd.rs).        *)
(*                                                                         *)
(* One operator runs one command at a time against one local directory,    *)
(* while other devices write the vault and editors write the directory.  A *)
(* command can fail or be killed at each step, in the middle of writing a  *)
(* file too.  A write to CouchDB is one step here, as is what others write; *)
(* one to Algolia decides the fork from the head it fetched and then saves *)
(* its own.  CouchWrites and AlgoliaVersioning are about the inside.       *)
(***************************************************************************)
EXTENDS Naturals, Sequences, FiniteSets

CONSTANTS Notes,         \* paths of .md files; paths are numbers, in the order of their names
          Attachments,   \* paths of other files
          Texts,         \* contents
          OptedOut,      \* those of them whose frontmatter says share: false
          MaxRevisions, MaxEdits, MaxTransfers   \* bounds

Paths == Notes \cup Attachments
NoText == "none"
CutShort == "cut short"    \* what a write that was killed leaves
Content == Texts \cup {CutShort}

ASSUME TransferAssumption ==
  /\ Paths \subseteq Nat /\ Notes \cap Attachments = {}
  /\ NoText \notin Texts
  /\ MaxRevisions \in Nat /\ MaxEdits \in Nat /\ MaxTransfers \in Nat

\* An entry is the sequence of its revisions.  A CouchDB tombstone keeps the
\* content, an Algolia one does not.  Only Algolia records divergence.
Revision == [text : Content \cup {NoText}, deleted : BOOLEAN, stored : {"text", "binary"}, diverges : BOOLEAN]
Revised(text, stored, diverges) ==
  [text |-> text, deleted |-> FALSE, stored |-> stored, diverges |-> diverges]

Row == [rev : Nat, text : Content, stored : {"text", "binary"}]
NoRow == [rev |-> 0, text |-> NoText, stored |-> "text"]
NoRows == [p \in Paths |-> NoRow]
NoTexts == [p \in Paths |-> NoText]

VARIABLES
  store,      \* the kind of the mount
  remote,     \* its entries
  tree,       \* the files of the local directory
  manifest,   \* its manifest.json
  transfer,   \* the command being run
  transfers,  \* how many have been
  edits,      \* how many changes others have made
  since       \* history: what happened since the command (or its last check) began

transferVars == <<store, remote, tree, manifest, transfer, transfers, edits, since>>

TransferStages == {"idle", "read", "stat", "write", "push", "plan", "import", "verify", "remove", "confirm", "done"}

NoTransfer ==
  [name |-> "none", at |-> "idle",
   todo |-> {},                         \* paths it has still to go through, in order
   force |-> FALSE, dry |-> FALSE, moving |-> FALSE,
   text |-> NoText, base |-> 0,         \* read for the path it is at
   head |-> 0, mark |-> FALSE,          \* fetched for the write of it, and decided then
   rows |-> NoRows,                     \* of the manifest it writes or has read
   listed |-> {},                       \* the paths of its last listing
   local |-> NoTexts,                   \* the directory as a seed read it
   writes |-> {}, same |-> {},          \* the plan of a seed
   verified |-> NoTexts, removed |-> {}]

\* Of a path that an export has still to come to a row says only how it is stored.
Rows == [Paths -> Row \cup {[NoRow EXCEPT !.stored = stored] : stored \in {"text", "binary"}}]
Files == [Paths -> Content \cup {NoText}]
Transfer ==
  [name : {"none", "export", "restore", "seed", "retract"}, at : TransferStages,
   todo : SUBSET Paths, force : BOOLEAN, dry : BOOLEAN, moving : BOOLEAN,
   text : Content \cup {NoText}, base : Nat, head : Nat, mark : BOOLEAN, rows : Rows, listed : SUBSET Paths,
   local : Files, writes : SUBSET Paths, same : SUBSET Paths,
   verified : Files, removed : SUBSET Paths]

HeadOf(p) == remote[p][Len(remote[p])]
Exists(p) == remote[p] # <<>>
Live(p) == Exists(p) /\ ~HeadOf(p).deleted
Diverges(p) == Exists(p) /\ HeadOf(p).diverges

Nothing == [lived |-> [p \in Paths |-> {}], always |-> {}, quiet |-> FALSE, touched |-> {}, wrote |-> {}]
FromNow ==
  [lived |-> [p \in Paths |-> IF Live(p) THEN {HeadOf(p).text} ELSE {}],   \* texts live since
   always |-> {p \in Paths : Live(p)},                                     \* paths live all the time
   quiet |-> TRUE,                                                         \* nobody else wrote anything
   touched |-> {},                                                         \* files others changed
   wrote |-> {}]                                                           \* entries the command wrote

TransferTypeOK ==
  /\ store \in {"couchdb", "algolia"}
  /\ remote \in [Paths -> Seq(Revision)]
  /\ tree \in Files
  /\ manifest \in [is : {"absent", "torn", "whole"}, rows : [Paths -> Row \cup {NoRow}]]
  /\ transfer \in Transfer
  /\ transfers \in 0 .. MaxTransfers /\ edits \in 0 .. MaxEdits
  /\ since \in [lived : [Paths -> SUBSET Content], always : SUBSET Paths, quiet : BOOLEAN,
                touched : SUBSET Paths, wrote : SUBSET Paths]

\* A directory of notes to seed, or one to export to, and no manifest.
TransferInit ==
  /\ store \in {"couchdb", "algolia"}
  /\ \E first \in [Paths -> Texts \cup {NoText}], stored \in {"text", "binary"} :
       /\ store = "algolia" => \A p \in Attachments : first[p] = NoText
       /\ remote = [p \in Paths |-> IF first[p] = NoText THEN <<>>
                                    ELSE <<Revised(first[p], IF p \in Notes THEN "text" ELSE stored, FALSE)>>]
  /\ tree \in [Paths -> Texts \cup {NoText}]
  /\ manifest = [is |-> "absent", rows |-> NoRows]
  /\ transfer = NoTransfer /\ transfers = 0 /\ edits = 0 /\ since = Nothing

----------------------------------------------------------------------------
(* Other devices and editors.                                              *)

DeviceWrites(p, text, stored) ==
  /\ edits < MaxEdits /\ Len(remote[p]) < MaxRevisions
  /\ p \in Attachments => store = "couchdb"
  /\ p \in Notes => stored = "text"
  /\ ~(Live(p) /\ HeadOf(p).text = text)
  /\ remote' = [remote EXCEPT ![p] = Append(@, Revised(text, stored, Diverges(p)))]
  /\ edits' = edits + 1
  /\ since' = [since EXCEPT !.lived[p] = @ \cup {text}, !.quiet = FALSE]
  /\ UNCHANGED <<store, tree, manifest, transfer, transfers>>

\* A soft delete.
DeviceDeletes(p) ==
  /\ edits < MaxEdits /\ Len(remote[p]) < MaxRevisions
  /\ Live(p)
  /\ remote' = [remote EXCEPT ![p] = Append(@, [HeadOf(p) EXCEPT !.deleted = TRUE,
                  !.text = IF store = "couchdb" THEN @ ELSE NoText])]
  /\ edits' = edits + 1
  /\ since' = [since EXCEPT !.always = @ \ {p}, !.quiet = FALSE]
  /\ UNCHANGED <<store, tree, manifest, transfer, transfers>>

FileChanges(p, text) ==
  /\ edits < MaxEdits
  /\ tree[p] # text
  /\ tree' = [tree EXCEPT ![p] = text]
  /\ edits' = edits + 1
  /\ since' = [since EXCEPT !.touched = @ \cup {p}, !.quiet = FALSE]
  /\ UNCHANGED <<store, remote, manifest, transfer, transfers>>

----------------------------------------------------------------------------
(* Any command.                                                            *)

Begins(t) ==
  /\ transfer.at \in {"idle", "done"} /\ transfers < MaxTransfers
  /\ transfer' = t /\ transfers' = transfers + 1
  /\ since' = FromNow
  /\ UNCHANGED <<store, remote, tree, manifest, edits>>

Goes(t) == transfer' = t /\ UNCHANGED <<store, remote, tree, manifest, transfers, edits, since>>

\* The path it is at: they are sorted.
At(p) == p \in transfer.todo /\ \A q \in transfer.todo : p <= q
Past(p) == [transfer EXCEPT !.todo = @ \ {p}]

\* A request fails, or the process is killed.
TransferFails ==
  /\ transfer.at \notin {"idle", "done"}
  /\ Goes(NoTransfer)

----------------------------------------------------------------------------
(* export and dump.                                                        *)

StartExport ==
  LET listed == {p \in Paths : Live(p)}
  IN  Begins([NoTransfer EXCEPT !.name = "export", !.at = "read", !.todo = listed,
                !.rows = [p \in Paths |-> IF Live(p) THEN [NoRow EXCEPT !.stored = HeadOf(p).stored] ELSE NoRow]])

Exporting(stage) == transfer.name = "export" /\ transfer.at = stage

\* A tombstone is read like any other entry.
ExportReads(p) ==
  /\ Exporting("read") /\ store = "couchdb" /\ At(p)
  /\ Goes([transfer EXCEPT !.at = "stat", !.text = HeadOf(p).text])

\* Mutant: a file that is there already is not written again.
ExportedUnlessThere(p, text, rev) ==
  /\ tree' = IF tree[p] = NoText THEN [tree EXCEPT ![p] = text] ELSE tree
  /\ transfer' = [Past(p) EXCEPT !.at = "read", !.text = NoText,
                    !.rows[p] = [@ EXCEPT !.rev = rev, !.text = text]]
  /\ since' = [since EXCEPT !.touched = @ \ {p}]
  /\ UNCHANGED <<store, remote, manifest, transfers, edits>>

\* The file holds text, its row the revision rev.
Exported(p, text, rev) ==
  /\ tree' = [tree EXCEPT ![p] = text]
  /\ transfer' = [Past(p) EXCEPT !.at = "read", !.text = NoText,
                    !.rows[p] = [@ EXCEPT !.rev = rev, !.text = text]]
  /\ since' = [since EXCEPT !.touched = @ \ {p}]
  /\ UNCHANGED <<store, remote, manifest, transfers, edits>>

\* The revision is asked for after the content.
ExportWrites(p) ==
  /\ Exporting("stat") /\ At(p)
  /\ Exported(p, transfer.text, Len(remote[p]))

\* read_note has content and head together; what vanished is skipped.
DumpWrites(p) ==
  /\ Exporting("read") /\ store = "algolia" /\ At(p) /\ Live(p)
  /\ Exported(p, HeadOf(p).text, Len(remote[p]))
DumpSkips(p) ==
  /\ Exporting("read") /\ store = "algolia" /\ At(p) /\ ~Live(p)
  /\ Goes(Past(p))

\* fs::write truncates before it writes.
FileIsCutShort(p) ==
  /\ At(p) /\ (Exporting("stat") \/ (Exporting("read") /\ store = "algolia" /\ Live(p)))
  /\ tree' = [tree EXCEPT ![p] = CutShort]
  /\ transfer' = NoTransfer
  /\ UNCHANGED <<store, remote, manifest, transfers, edits, since>>

WritesManifest ==
  /\ Exporting("read") /\ transfer.todo = {}
  /\ manifest' = [is |-> "whole", rows |-> [p \in Paths |-> IF transfer.rows[p].rev = 0 THEN NoRow ELSE transfer.rows[p]]]
  /\ transfer' = [transfer EXCEPT !.at = "done"]
  /\ UNCHANGED <<store, remote, tree, transfers, edits, since>>

ManifestIsCutShort ==
  /\ Exporting("read") /\ transfer.todo = {}
  /\ manifest' = [is |-> "torn", rows |-> NoRows]
  /\ transfer' = NoTransfer
  /\ UNCHANGED <<store, remote, tree, transfers, edits, since>>

----------------------------------------------------------------------------
(* restore.                                                                *)

FilesIn == {p \in Paths : tree[p] # NoText}

\* A manifest that cannot be read ends it.
StartRestore(force, dry) ==
  /\ manifest.is # "torn"
  /\ Begins([NoTransfer EXCEPT !.name = "restore", !.at = "read", !.todo = FilesIn,
               !.force = force, !.dry = dry, !.rows = manifest.rows])

Restoring(stage) == transfer.name = "restore" /\ transfer.at = stage

\* resolve_kind, and the refusal of what is not Markdown.
KindIsKnown(p) ==
  \/ p \in Notes
  \/ store = "couchdb" /\ (transfer.rows[p] # NoRow \/ transfer.force)
KindOf(p) ==
  CASE transfer.rows[p] # NoRow -> transfer.rows[p].stored
    [] transfer.rows[p] = NoRow /\ p \in Notes -> "text"
    [] OTHER -> "binary"

\* What a read shows: a CouchDB tombstone with its content.
Shows(p) == IF store = "couchdb" THEN Exists(p) ELSE Live(p)

\* Mutant: an entry at the exported revision is taken to be unchanged.
IsUnchangedSince(p) == Shows(p) /\ (HeadOf(p).text = tree[p] \/ Len(remote[p]) = transfer.rows[p].rev)

IsUnchanged(p) == Shows(p) /\ HeadOf(p).text = tree[p]

MayWrite(p) == KindIsKnown(p) /\ ~IsUnchanged(p) /\ (~Shows(p) \/ transfer.force)

\* Refused, unchanged, or only looked at.
RestorePasses(p) ==
  /\ Restoring("read") /\ At(p) /\ tree[p] # NoText
  /\ ~MayWrite(p) \/ transfer.dry
  /\ Goes(Past(p))

RestoreLooks(p) ==
  /\ Restoring("read") /\ At(p) /\ tree[p] # NoText
  /\ MayWrite(p) /\ ~transfer.dry
  /\ Goes([transfer EXCEPT !.at = "write", !.text = tree[p], !.base = IF Shows(p) THEN Len(remote[p]) ELSE 0])

\* The entry gets a revision, and the command goes on to t.
Lands(p, revision, t) ==
  /\ Len(remote[p]) < MaxRevisions
  /\ remote' = [remote EXCEPT ![p] = Append(@, revision)]
  /\ transfer' = t
  /\ since' = [since EXCEPT !.lived[p] = @ \cup {revision.text}, !.wrote = @ \cup {p}]
  /\ UNCHANGED <<store, tree, manifest, transfers, edits>>

Restored(p) == [Past(p) EXCEPT !.at = "read", !.text = NoText, !.base = 0, !.head = 0, !.mark = FALSE]

\* Mutant: a create is not guarded.
MeetsItsGuardUnlessCreated(p) == transfer.base \in {0, Len(remote[p])}

\* write_entry: the revision that was read is still the last.
MeetsItsGuard(p) == Len(remote[p]) = transfer.base

\* ... and its answer may be lost, which ends the command.
CouchRestores(p) ==
  /\ Restoring("write") /\ store = "couchdb" /\ At(p) /\ MeetsItsGuard(p)
  /\ \E t \in {Restored(p), NoTransfer} : Lands(p, Revised(transfer.text, KindOf(p), FALSE), t)
CouchRefuses(p) ==
  /\ Restoring("write") /\ store = "couchdb" /\ At(p) /\ ~MeetsItsGuard(p)
  /\ Goes(NoTransfer)

\* push_note_version, up to its decision, which is of the head that it fetched ...
Fetched(p, mark) == [transfer EXCEPT !.at = "push", !.head = Len(remote[p]), !.mark = mark]
\* ... and its head record, which takes the place of whatever is there by now.
Pushes(p, text, t) == Lands(p, Revised(text, "text", transfer.mark), t)

\* A head that the base does not account for is a fork.
Forks(p) == Exists(p) /\ transfer.base # Len(remote[p]) /\ ~(transfer.base = 0 /\ HeadOf(p).deleted)
AlgoliaFetches(p) ==
  /\ Restoring("write") /\ store = "algolia" /\ At(p)
  /\ Goes(IF Live(p) /\ HeadOf(p).text = transfer.text THEN Restored(p)
          ELSE Fetched(p, Forks(p) \/ Diverges(p)))
AlgoliaRestores(p) ==
  /\ Restoring("push") /\ At(p)
  /\ \E t \in {Restored(p), NoTransfer} : Pushes(p, transfer.text, t)

EndsRestore ==
  /\ Restoring("read") /\ transfer.todo = {}
  /\ Goes([transfer EXCEPT !.at = "done"])

----------------------------------------------------------------------------
(* seed.                                                                   *)

LivePaths == {p \in Paths : Live(p)}

StartSeed(moving, dry) ==
  /\ store = "algolia"
  /\ Begins([NoTransfer EXCEPT !.name = "seed", !.at = "plan", !.todo = FilesIn, !.local = tree,
               !.moving = moving, !.dry = dry, !.listed = LivePaths])

\* remote_hashes: the heads are fetched one by one after the listing.
HashOf(p) == IF p \in transfer.listed /\ Live(p) THEN HeadOf(p).text ELSE NoText

SeedPlans(p) ==
  /\ transfer.at = "plan" /\ At(p)
  /\ Goes(IF p \in Attachments \/ transfer.local[p] \in OptedOut THEN Past(p)
          ELSE IF HashOf(p) = transfer.local[p] THEN [Past(p) EXCEPT !.same = @ \cup {p}]
          ELSE [Past(p) EXCEPT !.writes = @ \cup {p}])
SeedIsPlanned ==
  /\ transfer.at = "plan" /\ transfer.todo = {}
  /\ Goes(IF transfer.dry THEN [transfer EXCEPT !.at = "done"]
          ELSE [transfer EXCEPT !.at = "import", !.todo = transfer.writes])

\* Unguarded: an import forks off nothing.
SeedFetches(p) ==
  /\ transfer.at = "import" /\ At(p)
  /\ Goes(IF Live(p) /\ HeadOf(p).text = transfer.local[p] THEN Past(p) ELSE Fetched(p, Diverges(p)))
SeedImports(p) ==
  /\ transfer.name = "seed" /\ transfer.at = "push" /\ At(p)
  /\ Pushes(p, transfer.local[p], [Past(p) EXCEPT !.at = "import", !.head = 0, !.mark = FALSE])

SeedIsImported ==
  /\ transfer.at = "import" /\ transfer.todo = {}
  /\ transfer' = IF transfer.moving THEN [transfer EXCEPT !.at = "verify", !.todo = LivePaths, !.listed = LivePaths]
                 ELSE [transfer EXCEPT !.at = "done"]
  /\ since' = FromNow
  /\ UNCHANGED <<store, remote, tree, manifest, transfers, edits>>

SeedVerifies(p) ==
  /\ transfer.at = "verify" /\ At(p)
  /\ Goes([Past(p) EXCEPT !.verified[p] = HashOf(p)])
SeedIsVerified ==
  /\ transfer.at = "verify" /\ transfer.todo = {}
  /\ Goes([transfer EXCEPT !.at = "remove", !.todo = transfer.writes \cup transfer.same])

\* Mutant: what was imported without an error needs no second look.
IsHeldByThePlan(p) == transfer.verified[p] = transfer.local[p] \/ p \in transfer.writes

IsHeld(p) == transfer.verified[p] = transfer.local[p]

\* The file goes, whatever it holds by now.
SeedRemoves(p) ==
  /\ transfer.at = "remove" /\ At(p) /\ IsHeld(p) /\ tree[p] # NoText
  /\ tree' = [tree EXCEPT ![p] = NoText]
  /\ transfer' = [Past(p) EXCEPT !.removed = @ \cup {p}]
  /\ UNCHANGED <<store, remote, manifest, transfers, edits, since>>
\* It drifted, or could not be removed.
SeedKeeps(p) ==
  /\ transfer.at = "remove" /\ At(p)
  /\ Goes(Past(p))
EndsSeed ==
  /\ transfer.at = "remove" /\ transfer.todo = {}
  /\ Goes([transfer EXCEPT !.at = "done"])

----------------------------------------------------------------------------
(* retract.                                                                *)

\* What would be destroyed is looked up and shown first.
StartRetract(p) ==
  /\ store = "algolia" /\ Exists(p)
  /\ Begins([NoTransfer EXCEPT !.name = "retract", !.at = "confirm", !.todo = {p}, !.base = Len(remote[p])])
RetractIsDeclined ==
  /\ transfer.at = "confirm"
  /\ Goes([transfer EXCEPT !.at = "done"])
\* The note goes with every version it has by then.
RetractIsConfirmed(p) ==
  /\ transfer.at = "confirm" /\ At(p)
  /\ remote' = [remote EXCEPT ![p] = <<>>]
  /\ transfer' = [transfer EXCEPT !.at = "done"]
  /\ since' = [since EXCEPT !.always = @ \ {p}, !.wrote = @ \cup {p}]
  /\ UNCHANGED <<store, tree, manifest, transfers, edits>>

----------------------------------------------------------------------------

Others(p) ==
  \/ \E text \in Texts, stored \in {"text", "binary"} : DeviceWrites(p, text, stored)
  \/ DeviceDeletes(p)
  \/ \E text \in Texts \cup {NoText} : FileChanges(p, text)

TransferStep(p) ==
  \/ ExportReads(p) \/ ExportWrites(p) \/ DumpWrites(p) \/ DumpSkips(p) \/ FileIsCutShort(p)
  \/ RestorePasses(p) \/ RestoreLooks(p) \/ CouchRestores(p) \/ CouchRefuses(p)
  \/ AlgoliaFetches(p) \/ AlgoliaRestores(p)
  \/ SeedPlans(p) \/ SeedFetches(p) \/ SeedImports(p) \/ SeedVerifies(p) \/ SeedRemoves(p) \/ SeedKeeps(p)
  \/ StartRetract(p) \/ RetractIsConfirmed(p)

TransferNext ==
  \/ \E p \in Paths : Others(p) \/ TransferStep(p)
  \/ StartExport \/ WritesManifest \/ ManifestIsCutShort
  \/ \E force, dry \in BOOLEAN : StartRestore(force, dry) \/ StartSeed(force, dry)
  \/ EndsRestore \/ SeedIsPlanned \/ SeedIsImported \/ SeedIsVerified \/ EndsSeed
  \/ RetractIsDeclined \/ TransferFails

TransferSpec == TransferInit /\ [][TransferNext]_transferVars

----------------------------------------------------------------------------
(* Properties.                                                             *)

\* An export that ended is a snapshot: every note that was there throughout has
\* a row, every row a text that was there at some time while it ran and the file
\* holds that text; and where nobody wrote meanwhile, the row's revision is the one the
\* text came from (where somebody did, the content and the revision of a CouchDB
\* entry are two requests).
SnapshotIsTrue ==
  transfer.name = "export" /\ transfer.at = "done" =>
    \A p \in Paths :
      LET row == manifest.rows[p]
      IN  /\ p \in since.always => row # NoRow
          /\ row # NoRow =>
               /\ row.text \in since.lived[p]
               /\ p \notin since.touched => tree[p] = row.text
               /\ Cardinality(since.lived[p]) = 1 \/ store = "algolia" => remote[p][row.rev].text = row.text

\* A forced restore that ended undisturbed brought every file back that it can:
\* with its content, stored as the manifest says.  Tombstones are excused: one
\* with the right content already is taken to be unchanged.
RestoreBringsBack ==
  transfer.name = "restore" /\ transfer.at = "done" /\ transfer.force /\ ~transfer.dry /\ since.quiet =>
    \A p \in FilesIn :
      KindIsKnown(p) =>
        /\ Exists(p) /\ HeadOf(p).text = tree[p]
        /\ p \in since.wrote => Live(p) /\ HeadOf(p).stored = KindOf(p)

\* What a restore writes over was what it had looked at and was told to replace,
\* or the note says that it diverges: an edit made after the export, or between
\* the look and the write, is not buried; on Algolia, as long as the head is still
\* the one that the write fetched.
NothingIsBuried ==
  [][\A p \in Paths :
       transfer.name = "restore" /\ Live(p) /\ remote'[p] # remote[p] /\ edits' = edits =>
         \/ transfer.force /\ transfer.base = Len(remote[p])
         \/ remote'[p][Len(remote'[p])].diverges
         \/ store = "algolia" /\ transfer.head # Len(remote[p])]_transferVars

\* `seed --move` removes a file only if its content, as it was read, was that of
\* the note at some moment after the whole import: what another participant
\* superseded before that stays on disk.
MovedWasHeld ==
  \A p \in transfer.removed : transfer.local[p] \in since.lived[p]
=============================================================================
