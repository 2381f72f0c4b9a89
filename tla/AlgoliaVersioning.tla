------------------------- MODULE AlgoliaVersioning -------------------------
(***************************************************************************)
(* The append-only versioned cutover of one note of a shared Algolia       *)
(* corpus (rust/crates/deep-obsidian-backend/src/algolia).                 *)
(*                                                                         *)
(* Several participants' servers (Actors) write, delete and retract the    *)
(* same remote path; what a read is served is NoteCache's.  Algolia has no *)
(* compare-and-swap: every request is one atomic step on the index it      *)
(* addresses, and any number of other actors' requests fall between two    *)
(* requests of one operation.  An operation can end after any of its       *)
(* requests (a process crash, a failed request, a timeout), leaving what   *)
(* it had already written.                                                 *)
(*                                                                         *)
(* A version is a number: versions are minted in order, and the order is   *)
(* also that of their updatedAtMs (clock skew between participants is left *)
(* out).  The text of a version is its set of chunk records, written and   *)
(* deleted by one request each, so a version either has its chunks in an   *)
(* index or has none.                                                      *)
(***************************************************************************)
EXTENDS Integers, FiniteSets

CONSTANTS Actors,       \* the server processes working on this note
          Bodies,       \* the note texts they write
          Drafts,       \* bound: what a write may start with, by the versions minted
          NoBody,       \* the text of a tombstone: chunkCount = 0
          MaxVersions,  \* bound: version ids minted in one behaviour
          MinVersions   \* retention.minVersions, the floor of the keep set

ASSUME VersioningAssumption ==
  /\ NoBody \notin Bodies
  /\ Drafts \in [0 .. MaxVersions -> SUBSET Bodies]
  /\ MaxVersions \in Nat
  /\ MinVersions \in Nat

Version == 1 .. MaxVersions
NoVersion == 0

\* BaseVersion: a version, Absent, or Unobserved.
Absent == 0
Unobserved == -1
Base == {Unobserved, Absent} \cup Version

NoteRecord ==
  [body : Bodies \cup {NoBody}, parent : {NoVersion} \cup Version,
   forkedFrom : {NoVersion} \cup Version, hasDivergence : BOOLEAN,
   deleted : BOOLEAN]

UnbuiltNote == [body |-> NoBody, parent |-> NoVersion, forkedFrom |-> NoVersion,
                hasDivergence |-> FALSE, deleted |-> FALSE]

Stages == {"idle", "fetch", "push", "browse", "copy", "delete", "move",
           "list", "purge", "retractHistory"}

Op ==
  [at : Stages, kind : {"none", "write", "delete", "retract"},
   body : Bodies \cup {NoBody}, base : Base, resolve : BOOLEAN,
   prev : {NoVersion} \cup Version,   \* the head this operation fetched
   ver : {NoVersion} \cup Version,    \* the version it minted
   copied : BOOLEAN,                  \* the browse found prev's chunks in main
   doomed : SUBSET Version]           \* what the purge listed for deletion

IdleOp == [at |-> "idle", kind |-> "none", body |-> NoBody, base |-> Unobserved,
           resolve |-> FALSE, prev |-> NoVersion, ver |-> NoVersion,
           copied |-> FALSE, doomed |-> {}]

VARIABLES
  head,        \* main index: the note record's version, or NoVersion
  mainChunks,  \* main index: versions whose chunk records are there
  histNotes,   \* history index: versions whose note record is there
  histChunks,  \* history index: versions whose chunk records are there
  minted,      \* number of version ids minted so far
  rec,         \* what the note record of a minted version says
  aged,        \* versions 1 .. aged are older than retention.maxAgeDays
  op,          \* the operation each actor is executing
  \* history variables, read by no action
  everHead,    \* versions that have been the head
  purged,      \* versions a retention purge deleted
  retracted,   \* versions a retraction covered
  interrupted  \* heads whose cutover ended between the delete and the move

corpus == <<head, mainChunks, histNotes, histChunks>>
local == <<minted, rec, aged>>
ghosts == <<everHead, purged, retracted, interrupted>>
vars == <<corpus, local, op, ghosts>>

TypeOK ==
  /\ head \in {NoVersion} \cup Version
  /\ mainChunks \subseteq Version
  /\ histNotes \subseteq Version
  /\ histChunks \subseteq Version
  /\ minted \in 0 .. MaxVersions
  /\ rec \in [Version -> NoteRecord]
  /\ aged \in 0 .. MaxVersions
  /\ op \in [Actors -> Op]
  /\ everHead \subseteq Version
  /\ purged \subseteq Version
  /\ retracted \subseteq Version
  /\ interrupted \subseteq Version

Init ==
  /\ head = NoVersion
  /\ mainChunks = {} /\ histNotes = {} /\ histChunks = {}
  /\ minted = 0
  /\ rec = [v \in Version |-> UnbuiltNote]
  /\ aged = 0
  /\ op = [a \in Actors |-> IdleOp]
  /\ everHead = {} /\ purged = {} /\ retracted = {} /\ interrupted = {}

----------------------------------------------------------------------------
(* The decisions a write takes from the head it fetched.                   *)

Live(h) == h # NoVersion /\ ~rec[h].deleted

\* The head a write with base b forks away from, NoVersion when it does not.
ForkOf(b, h) ==
  IF \/ h = NoVersion
     \/ b = Unobserved
     \/ b = h
     \/ b = Absent /\ rec[h].deleted
  THEN NoVersion ELSE h

DivergenceAfterWrite(resolve, forkedFrom, h) ==
  \/ forkedFrom # NoVersion
  \/ ~resolve /\ h # NoVersion /\ rec[h].hasDivergence

\* The head already holds this text: nothing is pushed.
AlreadyUpToDate(o, h) ==
  /\ Live(h)
  /\ ~(o.resolve /\ rec[h].hasDivergence)
  /\ rec[h].body = o.body

BuiltNote(o, h) ==
  LET fork == ForkOf(o.base, h)
  IN  [body |-> o.body,
       parent |-> IF o.base \in Version THEN o.base ELSE h,
       forkedFrom |-> fork,
       hasDivergence |-> DivergenceAfterWrite(o.resolve, fork, h),
       deleted |-> FALSE]

Tombstone(h) ==
  [body |-> NoBody, parent |-> h, forkedFrom |-> NoVersion,
   hasDivergence |-> rec[h].hasDivergence, deleted |-> TRUE]

\* Mutant: floor and age intersected instead of united.
KeepSetIntersection(S) ==
  {v \in S : v > aged /\ Cardinality({w \in S : w > v}) < MinVersions}

\* retention_keep_set: the MinVersions most recent, and all that is young.
KeepSet(S) ==
  {v \in S : v > aged \/ Cardinality({w \in S : w > v}) < MinVersions}

----------------------------------------------------------------------------
(* Starting an operation.                                                  *)

\* What the tool layer's read before the write established about the note.
ObservedBase == IF Live(head) THEN head ELSE Absent

StartWrite(a) ==
  /\ op[a].at = "idle"
  /\ minted < MaxVersions
  /\ \E body \in Drafts[minted], b \in {ObservedBase, Unobserved}, r \in BOOLEAN :
       op' = [op EXCEPT ![a] = [IdleOp EXCEPT !.at = "fetch", !.kind = "write",
                                  !.body = body, !.base = b, !.resolve = r]]
  /\ UNCHANGED <<corpus, local, ghosts>>

StartDelete(a) ==
  /\ op[a].at = "idle"
  /\ minted < MaxVersions
  /\ op' = [op EXCEPT ![a] = [IdleOp EXCEPT !.at = "fetch", !.kind = "delete"]]
  /\ UNCHANGED <<corpus, local, ghosts>>

----------------------------------------------------------------------------
(* The cutover: push_note_version and soft_delete_note.                    *)

Mint(a, note, next) ==
  /\ minted < MaxVersions
  /\ minted' = minted + 1
  /\ rec' = [rec EXCEPT ![minted + 1] = note]
  /\ op' = [op EXCEPT ![a].at = next, ![a].prev = head, ![a].ver = minted + 1]
  /\ UNCHANGED <<corpus, aged, ghosts>>

Finish(a) == op' = [op EXCEPT ![a] = IdleOp]

\* fetch_head of a write: everything about the new version is decided here.
FetchForWrite(a) ==
  /\ op[a].at = "fetch" /\ op[a].kind = "write"
  /\ IF AlreadyUpToDate(op[a], head)
     THEN Finish(a) /\ UNCHANGED <<corpus, local, ghosts>>
     ELSE Mint(a, BuiltNote(op[a], head), "push")

\* fetch_head of a delete: a missing note and a tombstone end it.
FetchForDelete(a) ==
  /\ op[a].at = "fetch" /\ op[a].kind = "delete"
  /\ IF ~Live(head)
     THEN Finish(a) /\ UNCHANGED <<corpus, local, ghosts>>
     ELSE Mint(a, Tombstone(head), "browse")

\* The new version's chunks reach the main index before anything points at them.
PushChunks(a) ==
  /\ op[a].at = "push"
  /\ mainChunks' = mainChunks \cup {op[a].ver}
  /\ op' = [op EXCEPT ![a].at = IF op[a].prev = NoVersion THEN "move" ELSE "browse"]
  /\ UNCHANGED <<head, histNotes, histChunks, local, ghosts>>

\* Mutant: a version without chunks is not worth archiving.
BrowsePreviousSkipsEmpty(a) ==
  /\ op[a].at = "browse"
  /\ op' = [op EXCEPT ![a].copied = op[a].prev \in mainChunks,
                     ![a].at = IF op[a].prev \in mainChunks THEN "copy" ELSE "move"]
  /\ UNCHANGED <<corpus, local, ghosts>>

\* archive_version: browse the superseded version's chunks ...
BrowsePrevious(a) ==
  /\ op[a].at = "browse"
  /\ op' = [op EXCEPT ![a].at = "copy", ![a].copied = op[a].prev \in mainChunks]
  /\ UNCHANGED <<corpus, local, ghosts>>

\* Mutant: only the note record reaches the history index.
CopyNoteToHistory(a) ==
  /\ op[a].at = "copy"
  /\ histNotes' = histNotes \cup {op[a].prev}
  /\ op' = [op EXCEPT ![a].at = "delete"]
  /\ UNCHANGED <<head, mainChunks, histChunks, local, ghosts>>

\* ... save them and its note record in the history index ...
CopyToHistory(a) ==
  /\ op[a].at = "copy"
  /\ histNotes' = histNotes \cup {op[a].prev}
  /\ histChunks' = IF op[a].copied THEN histChunks \cup {op[a].prev} ELSE histChunks
  /\ op' = [op EXCEPT ![a].at = "delete"]
  /\ UNCHANGED <<head, mainChunks, local, ghosts>>

\* Mutant: the inverse filter, NOT versionId:vNew.
DeleteAllButNew(a) ==
  /\ op[a].at = "delete"
  /\ mainChunks' = mainChunks \cap {op[a].ver}
  /\ op' = [op EXCEPT ![a].at = "move"]
  /\ UNCHANGED <<head, histNotes, histChunks, local, ghosts>>

\* ... and only then delete that one version's chunks from the main index.
DeletePrevious(a) ==
  /\ op[a].at = "delete"
  /\ mainChunks' = mainChunks \ {op[a].prev}
  /\ op' = [op EXCEPT ![a].at = "move"]
  /\ UNCHANGED <<head, histNotes, histChunks, local, ghosts>>

\* The head pointer, overwritten whatever it holds by now.
MoveHead(a) ==
  /\ op[a].at = "move"
  /\ head' = op[a].ver
  /\ everHead' = everHead \cup {op[a].ver}
  /\ op' = [op EXCEPT ![a].at = "list"]
  /\ UNCHANGED <<mainChunks, histNotes, histChunks, local, purged, retracted,
                 interrupted>>

\* purge_history: list the archived versions and decide what goes.
ListForPurge(a) ==
  /\ op[a].at = "list"
  /\ LET doomed == histNotes \ KeepSet(histNotes)
     IN  IF doomed = {} THEN Finish(a)
         ELSE op' = [op EXCEPT ![a].at = "purge", ![a].doomed = doomed]
  /\ UNCHANGED <<corpus, local, ghosts>>

\* One delete-by-query per doomed version.
PurgeOne(a) ==
  /\ op[a].at = "purge"
  /\ \E v \in op[a].doomed :
       /\ histNotes' = histNotes \ {v}
       /\ histChunks' = histChunks \ {v}
       /\ purged' = purged \cup {v}
       /\ IF op[a].doomed = {v} THEN Finish(a)
          ELSE op' = [op EXCEPT ![a].doomed = @ \ {v}]
  /\ UNCHANGED <<head, mainChunks, local, everHead, retracted, interrupted>>

----------------------------------------------------------------------------
(* retract_note: the one destructive operation, main index first.          *)

RetractMain(a) ==
  /\ op[a].at = "idle"
  /\ head' = NoVersion
  /\ mainChunks' = {}
  /\ retracted' = retracted \cup 1 .. minted
  /\ op' = [op EXCEPT ![a] = [IdleOp EXCEPT !.at = "retractHistory", !.kind = "retract"]]
  /\ UNCHANGED <<histNotes, histChunks, local, everHead, purged, interrupted>>

RetractHistory(a) ==
  /\ op[a].at = "retractHistory"
  /\ histNotes' = {}
  /\ histChunks' = {}
  /\ retracted' = retracted \cup histNotes
  /\ Finish(a)
  /\ UNCHANGED <<head, mainChunks, local, everHead, purged, interrupted>>

----------------------------------------------------------------------------
(* The environment: time, and operations that end early.                   *)

VersionAges ==
  /\ aged < minted
  /\ aged' = aged + 1
  /\ UNCHANGED <<corpus, minted, rec, op, ghosts>>

\* A crash, or a request that failed: the rest of the operation never runs.
Abort(a) ==
  /\ op[a].at # "idle"
  /\ interrupted' = IF op[a].at = "move" /\ op[a].prev # NoVersion
                    THEN interrupted \cup {op[a].prev} ELSE interrupted
  /\ Finish(a)
  /\ UNCHANGED <<corpus, local, everHead, purged, retracted>>

Cutover(a) ==
  \/ FetchForWrite(a) \/ FetchForDelete(a) \/ PushChunks(a) \/ BrowsePrevious(a)
  \/ CopyToHistory(a) \/ DeletePrevious(a) \/ MoveHead(a)
  \/ ListForPurge(a) \/ PurgeOne(a)

Next ==
  \/ \E a \in Actors :
       \/ StartWrite(a) \/ StartDelete(a)
       \/ Cutover(a)
       \/ RetractMain(a) \/ RetractHistory(a)
       \/ Abort(a)
  \/ VersionAges

Spec == Init /\ [][Next]_vars

----------------------------------------------------------------------------
(* Properties.                                                             *)

HasText(v) == rec[v].body # NoBody

\* "A crash between the two duplicates rather than loses": the text of every
\* version that was ever published is in the main or in the history index,
\* whatever the interleaving and wherever an operation was cut off, unless the
\* retention purge or a retraction removed it on purpose.
TextNeverLost ==
  \A v \in everHead :
    HasText(v) => v \in mainChunks \cup histChunks \cup purged \cup retracted

\* A live head whose chunks are gone from the main index is one that an
\* operation is about to supersede, or whose cutover was interrupted in exactly
\* that window: no completed operation ever leaves a note unreadable.
TornOnlyInCutover ==
  (Live(head) /\ head \notin mainChunks) =>
    \/ \E a \in Actors : op[a].at = "move" /\ op[a].prev = head
    \/ head \in interrupted
    \/ head \in retracted

\* What the head displaced was archived before the head moved: the version a
\* fork names, and the one a tombstone says it is recoverable from, is in the
\* history index until retention or a retraction removes it.
OvertakenIsArchived ==
  head # NoVersion =>
    \A v \in {rec[head].forkedFrom, IF rec[head].deleted THEN rec[head].parent ELSE NoVersion} :
      v # NoVersion => v \in histNotes \cup purged \cup retracted

\* Retention's floor: when a version has been purged, the MinVersions more
\* recent ones that justified it are still in the history index.
RetentionFloor ==
  retracted = {} =>
    \A v \in purged \ histNotes :
      Cardinality({w \in histNotes : w > v}) >= MinVersions
=============================================================================
