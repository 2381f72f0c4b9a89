----------------------------- MODULE VaultTools -----------------------------
(***************************************************************************)
(* The tools that write a note: upsert_note, upsert_session_note,          *)
(* edit_note and delete_note (server/src/tools.rs), over a mount of each   *)
(* kind.  A directory (backend/src/filesystem.rs, core/src/vault.rs) knows *)
(* no versions.  CouchDB (backend/src/couchdb.rs) refuses a write whose    *)
(* base is stale.  Algolia (backend/src/algolia/versioning.rs) lands it as *)
(* a fork and marks the note as diverged, by the head it fetched before.   *)
(*                                                                         *)
(* One note.  Several tool calls run at once, in one process, and a person *)
(* edits the same note with another program.  A content hash is the text   *)
(* it is of.  The chunks and the history an Algolia write also keeps are   *)
(* in AlgoliaVersioning.                                                   *)
(***************************************************************************)
EXTENDS NoteText, Integers

CONSTANTS Calls,      \* tool calls that can be in flight together
          Requests,   \* the arguments they can be called with
          Texts,      \* what the person writes
          Original,   \* the note at the start
          MaxCalls,   \* bound: calls of one behaviour
          MaxWrites   \* bound: changes of the note

Upserts ==
  [tool : {"upsert_note"}, content : NoteTexts, preserve : BOOLEAN, resolve : BOOLEAN, dryRun : BOOLEAN] \cup
  [tool : {"upsert_session_note"}, content : NoteTexts, preserve : BOOLEAN, dryRun : BOOLEAN]
EditNotes == [tool : {"edit_note"}, edits : Seq(Edits), dryRun : BOOLEAN]

ASSUME ToolsAssumption ==
  /\ Requests \subseteq Upserts \cup EditNotes
  /\ Original \in Texts /\ Texts \subseteq NoteTexts \ {EmptyText}
  /\ MaxCalls \in Nat /\ MaxWrites \in Nat

\* BaseVersion: what a write claims about the note it replaces.
Unobserved == -2
NotThere == -1

VARIABLES
  mount,    \* its kind, which never changes
  note,     \* [there, text, rev]; rev is the version CouchDB and Algolia mint
  diverged, \* hasDivergence of the note, on Algolia
  call,     \* the tool calls
  known,    \* texts whose hash a client was given
  calls,    \* how many calls were made
  meant,      \* history: the texts somebody meant the note to be
  spoiled   \* history: two writes of the file overlapped, or one was cut off

toolsVars == <<mount, note, diverged, call, known, calls, meant, spoiled>>

Gone == [there |-> FALSE, text |-> EmptyText, rev |-> 0]
Idle == [at |-> "idle"]

\* What a call that is about to write holds: its arguments, the text it read
\* (none, or one), the precondition of its write and the text it will be; on
\* Algolia also the head it fetched and whether the note is then to be marked.
Writing(req, expect, read, base, next) ==
  [at |-> "write", req |-> req, expect |-> expect, read |-> read, base |-> base, next |-> next,
   head |-> NotThere, mark |-> FALSE]

\* What a call that is about to delete holds.
Deleting == [at |-> "delete", head |-> note.rev, mark |-> diverged]

\* The version of the note's entry or head record: a deleted note keeps its own.
Current == IF note.there \/ note.rev > 0 THEN note.rev ELSE NotThere

\* What a read answers: on CouchDB the text of a deleted note too.
Present == IF note.there \/ (mount = "couchdb" /\ Current # NotThere) THEN {note.text} ELSE {}

NoteStates == [there : BOOLEAN, text : NoteTexts, rev : 0 .. MaxWrites]
InFlight ==
  [at : {"write", "open", "push"}, req : Requests, expect : SUBSET NoteTexts, read : SUBSET NoteTexts,
   base : Int, next : NoteTexts, head : Int, mark : BOOLEAN]
CallStates == InFlight \cup [at : {"delete"}, head : Int, mark : BOOLEAN] \cup {Idle}

\* The step of a write that only one kind of mount has, or a directory has not.
FitsMount(at) ==
  /\ at = "open" => mount = "filesystem"
  /\ at = "push" => mount = "algolia"
  /\ at = "delete" => mount # "filesystem"

ToolsTypeOK ==
  /\ mount \in {"filesystem", "couchdb", "algolia"}
  /\ note \in NoteStates /\ diverged \in BOOLEAN
  /\ call \in [Calls -> CallStates]
  /\ \A c \in Calls : FitsMount(call[c].at)
  /\ known \subseteq NoteTexts /\ meant \subseteq NoteTexts /\ spoiled \in BOOLEAN
  /\ calls \in 0 .. MaxCalls

ToolsInit ==
  /\ mount \in {"filesystem", "couchdb", "algolia"}
  /\ note \in {[there |-> TRUE, text |-> Original, rev |-> 0], Gone}
  /\ diverged \in BOOLEAN /\ (diverged => mount = "algolia" /\ note.there)
  /\ call = [c \in Calls |-> Idle]
  /\ known = {} /\ calls = 0
  /\ meant = Present /\ spoiled = FALSE

Changes(there, text) ==
  /\ note.rev < MaxWrites
  /\ note' = [there |-> there, text |-> text, rev |-> note.rev + 1]

\* A CouchDB entry that is marked deleted keeps its text.
Removes == Changes(FALSE, IF mount = "couchdb" THEN note.text ELSE EmptyText)

----------------------------------------------------------------------------
(* Reading.                                                                *)

\* read_file, whose hash a later call can carry as expectedHash.
ReadFile ==
  /\ Present # {}
  /\ known' = known \cup Present
  /\ UNCHANGED <<mount, note, diverged, call, calls, meant, spoiled>>

\* A version token, on a mount that mints them.
FromRead == IF mount = "filesystem" THEN Unobserved ELSE note.rev

\* backend_read_note_for_write: a read that fails is no note, and no
\* precondition; only a note known to be absent is claimed to be.
PriorNote(failed) ==
  CASE failed -> [existing |-> {}, base |-> Unobserved]
    [] ~failed /\ Present # {} -> [existing |-> Present, base |-> FromRead]
    [] OTHER -> [existing |-> {}, base |-> NotThere]

----------------------------------------------------------------------------
(* The tools, up to their write.                                           *)

\* The text a request makes of the note, or none when it is refused.
Result(req, existing) ==
  IF req.tool = "edit_note"
  THEN UNION {ApplyEdits(t, req.edits) : t \in existing}
  ELSE {Merged(req.content, existing, req.preserve)}

\* validate_expected_hash
HashHolds(expect, existing) == expect = {} \/ expect = existing

\* A request carries no expectedHash or one that a client was given.  A dry run
\* and a refused call end here, having changed nothing.
Call(c) ==
  /\ call[c] = Idle /\ calls < MaxCalls
  /\ calls' = calls + 1
  /\ \E req \in Requests, expect \in {{}} \cup {{t} : t \in known}, failed \in BOOLEAN :
       LET prior == PriorNote(failed)
       IN  /\ HashHolds(expect, prior.existing) /\ ~req.dryRun
           /\ \E next \in Result(req, prior.existing) :
                call' = [call EXCEPT ![c] = Writing(req, expect, prior.existing, prior.base, next)]
  /\ UNCHANGED <<mount, note, diverged, known, meant, spoiled>>

Refused(c) ==
  /\ call[c] = Idle /\ calls < MaxCalls
  /\ calls' = calls + 1
  /\ \E req \in Requests, expect \in {{}} \cup {{t} : t \in known}, failed \in BOOLEAN :
       LET prior == PriorNote(failed)
       IN  ~HashHolds(expect, prior.existing) \/ req.dryRun \/ Result(req, prior.existing) = {}
  /\ UNCHANGED <<mount, note, diverged, call, known, meant, spoiled>>

\* delete_note, up to its write: refused on a directory; a note that is not there,
\* or deleted already, needs none.
DeleteNote(c) ==
  /\ mount # "filesystem" /\ call[c] = Idle /\ calls < MaxCalls
  /\ calls' = calls + 1
  /\ call' = IF note.there THEN [call EXCEPT ![c] = Deleting] ELSE call
  /\ UNCHANGED <<mount, note, diverged, known, meant, spoiled>>

Ends(c) == call' = [call EXCEPT ![c] = Idle]

\* The response of a write carries the hash of what was written.
Written(c) ==
  /\ Ends(c)
  /\ known' = known \cup {call[c].next}
  /\ meant' = meant \cup {call[c].next}

\* A conflict, or a mount that cannot be reached.
WriteRefused(c) ==
  /\ call[c].at \in {"write", "push", "delete"}
  /\ Ends(c)
  /\ UNCHANGED <<mount, note, diverged, known, calls, meant, spoiled>>

----------------------------------------------------------------------------
(* The write of CouchDB: one revision, if its base still holds.            *)

\* The compare with the revision, but not of a note that was not there.
BaseHoldsOrCreates(base) == base \in {Unobserved, NotThere, Current}

\* NotThere: no entry may be at the path, not even a deleted one.
BaseHolds(base) == base \in {Unobserved, Current}

Land(c) ==
  /\ mount = "couchdb" /\ call[c].at = "write"
  /\ BaseHolds(call[c].base)
  /\ Changes(TRUE, call[c].next)
  /\ Written(c)
  /\ UNCHANGED <<mount, diverged, calls, spoiled>>

----------------------------------------------------------------------------
(* The write of Algolia: the head is fetched, then its successor is saved, *)
(* and nothing compares the two.                                           *)

\* Only a version that moved is a fork, not a note that appeared.
ForksOffVersion(base) == base \notin {Unobserved, NotThere} /\ base # Current

\* A note found absent whose head is a tombstone is taken up again, not forked.
Forks(base) ==
  \/ base = NotThere /\ note.there
  \/ base \notin {Unobserved, NotThere} /\ base # Current

\* Only an upsert can say that it reconciles what diverged.
Resolves(req) == req.tool = "upsert_note" /\ req.resolve

\* A text that is the head's already makes no version, but to clear the mark.
Fetch(c) ==
  /\ mount = "algolia" /\ call[c].at = "write"
  /\ LET req == call[c].req
         uptodate == note.there /\ note.text = call[c].next /\ ~(Resolves(req) /\ diverged)
         mark == Forks(call[c].base) \/ (diverged /\ ~Resolves(req))
     IN  IF uptodate THEN Written(c)
         ELSE /\ call' = [call EXCEPT ![c].at = "push", ![c].head = Current, ![c].mark = mark]
              /\ UNCHANGED <<known, meant>>
  /\ UNCHANGED <<mount, note, diverged, calls, spoiled>>

Push(c) ==
  /\ call[c].at = "push"
  /\ Changes(TRUE, call[c].next)
  /\ diverged' = call[c].mark
  /\ Written(c)
  /\ UNCHANGED <<mount, calls, spoiled>>

\* CouchDB deletes the revision that was looked at; on Algolia a tombstone, made of
\* the head that was fetched, takes the place of whatever is the head now.
Delete(c) ==
  /\ call[c].at = "delete" /\ (mount = "couchdb" => call[c].head = Current)
  /\ Removes
  /\ diverged' = call[c].mark
  /\ Ends(c)
  /\ UNCHANGED <<mount, known, calls, meant, spoiled>>

----------------------------------------------------------------------------
(* The write of a directory: fs::write truncates the file, then fills it.  *)

Opens == \E d \in Calls : call[d].at = "open"

\* Opened for writing but not truncated.
OpenKeeps(c) ==
  /\ mount = "filesystem" /\ call[c].at = "write"
  /\ Changes(TRUE, note.text)
  /\ call' = [call EXCEPT ![c].at = "open"]
  /\ spoiled' = (spoiled \/ Opens)
  /\ UNCHANGED <<mount, diverged, known, calls, meant>>

Open(c) ==
  /\ mount = "filesystem" /\ call[c].at = "write"
  /\ Changes(TRUE, EmptyText)
  /\ call' = [call EXCEPT ![c].at = "open"]
  /\ spoiled' = (spoiled \/ Opens)
  /\ UNCHANGED <<mount, diverged, known, calls, meant>>

\* Written from the start of the file: what another write had put beyond the end
\* of this one stays.  A file removed meanwhile is written to no avail.
Fill(c) ==
  /\ call[c].at = "open"
  /\ LET next == call[c].next
         beyond == IF Len(next) >= Len(note.text) THEN <<>> ELSE From(note.text, Len(next) + 1)
     IN  note' = IF note.there THEN [note EXCEPT !.text = next \o beyond] ELSE note
  /\ Written(c)
  /\ UNCHANGED <<mount, diverged, calls, spoiled>>

\* The disk is full.
FillFails(c) ==
  /\ call[c].at = "open"
  /\ Ends(c)
  /\ spoiled' = TRUE
  /\ UNCHANGED <<mount, note, diverged, known, calls, meant>>

----------------------------------------------------------------------------
\* The process stops; the calls are lost and no one is told how they ended.
ProcessStops ==
  /\ call' = [c \in Calls |-> Idle]
  /\ spoiled' = (spoiled \/ Opens)
  /\ UNCHANGED <<mount, note, diverged, known, calls, meant>>

\* A person saves, or removes, the note with another program.
Person ==
  /\ \/ \E t \in Texts : Changes(TRUE, t) /\ meant' = meant \cup {t}
     \/ note.there /\ Removes /\ meant' = meant
  /\ spoiled' = (spoiled \/ Opens)
  /\ UNCHANGED <<mount, diverged, call, known, calls>>

ToolsNext ==
  \/ ReadFile \/ ProcessStops \/ Person
  \/ \E c \in Calls :
       \/ Call(c) \/ Refused(c) \/ DeleteNote(c) \/ WriteRefused(c)
       \/ Land(c) \/ Fetch(c) \/ Push(c) \/ Delete(c)
       \/ Open(c) \/ Fill(c) \/ FillFails(c)

ToolsSpec == ToolsInit /\ [][ToolsNext]_toolsVars

----------------------------------------------------------------------------
(* Properties.                                                             *)

\* Call c changes the note: with the text it was to write, or by deleting it.
Lands(c) == call[c].at \in {"write", "push"} /\ call'[c].at = "idle" /\ note' # note
Deletes(c) == call[c].at = "delete" /\ call'[c].at = "idle" /\ note' # note

\* On CouchDB a write that lands replaces the note the call read, so an expectedHash
\* is honoured to the end; but for a call whose read failed.  A delete removes the
\* revision it looked at.
LandsOnWhatItSaw ==
  [][\A c \in Calls : mount = "couchdb" =>
       /\ Lands(c) /\ call[c].base # Unobserved =>
            /\ Present = call[c].read
            /\ call[c].expect # {} => Present = call[c].expect
       /\ Deletes(c) => Current = call[c].head]_toolsVars

\* What a write that lands on Algolia owes: the note it replaces is the one the call
\* read, or the note is marked as diverged; and a mark is not lost, unless the write
\* says that it reconciles.
Shows(c) ==
  /\ Lands(c) /\ call[c].base # Unobserved => Present = call[c].read \/ diverged'
  /\ Lands(c) /\ diverged => Resolves(call[c].req) \/ diverged'
  /\ Deletes(c) /\ diverged => diverged'

\* On Algolia no other text is replaced unmarked, and no mark is lost, as long as no
\* one moves the head between the fetch that decides it and the save.
DisagreementsShow ==
  [][\A c \in Calls : mount = "algolia" /\ call[c] # Idle /\ call[c].head = Current => Shows(c)]_toolsVars

\* The lines of a text that are not blank.
Full(text) ==
  LET full[i \in 0 .. Len(text)] ==
        IF i = 0 THEN <<>> ELSE IF text[i] = Blank THEN full[i - 1] ELSE Append(full[i - 1], text[i])
  IN  full[Len(text)]

\* A request that can be repeated on a text: an upsert, or a section edit.  The
\* headings its body brings have to stay inside of its section, so they are nested
\* below it and it takes nested ones; and where it takes nested ones it must not
\* be created in front of others, which may be deeper.  A section created for a
\* heading with blanks around it is not found again: each retry adds another one.
Repeatable(req, text) ==
  req.tool = "edit_note" =>
    /\ Len(req.edits) = 1 /\ req.edits[1].form = "section"
    /\ LET e == req.edits[1]
           levels == {e.level} \cup {Level(text[i]) : i \in Titled(text, e.heading)}
       IN  /\ Titled(text, e.heading) = {} => Trimmed[e.heading] = e.heading
           /\ \A j \in Headings(e.body) : e.deep /\ \A l \in levels : l < Level(e.body[j])
           /\ e.deep /\ Titled(text, e.heading) = {} => e.place = "end"

\* A retry of a call that had landed leaves the note as it is, blank lines aside.
RetryIsHarmless ==
  \A req \in Requests : (\A s \in Present : Repeatable(req, s)) =>
    \A t \in Result(req, Present) : \A u \in Result(req, {t}) : Full(u) = Full(t)

SectionText(text, i) == Full(SubSeq(text, i, SectionEnd(text, i, FALSE)))

\* Setting a section's body leaves every other section of the note with its text,
\* the nested ones too unless the edit asked for them.
KeepsOtherSections(e, t, u) ==
  \A i \in Headings(t) :
    \/ Title(t[i]) = e.heading
    \/ e.deep /\ \E k \in Titled(t, e.heading) : k < i /\ i <= SectionEnd(t, k, TRUE)
    \/ \E j \in Headings(u) : SectionText(u, j) = SectionText(t, i)

\* An upsert asked to keeps the manual notes, unless it brings its own.
KeepsManualNotes(req, t, u) ==
  req.preserve /\ ManualAt(Finalized(req.content)) = {} => ManualNotes(u) = ManualNotes(t)

\* A write keeps what it was not asked to replace, whatever the note has become.
WritesKeepTheRest ==
  \A req \in Requests, t \in Present : \A u \in Result(req, {t}) :
    IF req.tool # "edit_note" THEN KeepsManualNotes(req, t, u)
    ELSE Len(req.edits) = 1 /\ req.edits[1].form = "section" => KeepsOtherSections(req.edits[1], t, u)

\* A file that nobody is writing holds a text somebody meant it to be, unless two
\* writes of it overlapped or one was cut off.
WholeUnlessOverlapped ==
  mount = "filesystem" /\ ~Opens /\ ~spoiled => Present \subseteq meant
=============================================================================
