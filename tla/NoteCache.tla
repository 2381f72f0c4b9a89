------------------------------ MODULE NoteCache ------------------------------
(***************************************************************************)
(* The hydrated-note cache of an Algolia mount, for one note               *)
(* (rust/crates/deep-obsidian-backend/src/algolia/cache.rs, and the reads  *)
(* and writes that consult and fill it).                                   *)
(*                                                                         *)
(* The cache is a directory: one body file for the note, and state.json,   *)
(* which says at which version the body was cached.  Every server process  *)
(* whose mount has this index directory uses the same two files; each has  *)
(* loaded state.json into its memory when it opened, and looks only there  *)
(* from then on.  A mutex orders the tasks of one process; nothing orders  *)
(* two processes.  The results of the file operations are discarded.       *)
(*                                                                         *)
(* Versions are numbered in the order in which the note's head named them, *)
(* and the text of a version is called by its number: which texts the      *)
(* corpus holds, and how a head comes to move, is AlgoliaVersioning's.     *)
(***************************************************************************)
EXTENDS Integers

CONSTANTS Processes,    \* the server processes that use this directory
          Tasks,        \* the requests they serve
          Host,         \* the process of each task
          MaxPublished, \* bound: versions published in one behaviour
          DiskFails     \* whether operations on the directory's files may fail

ASSUME CacheAssumption ==
  /\ Host \in [Tasks -> Processes]
  /\ MaxPublished \in Nat
  /\ DiskFails \in BOOLEAN

Text == 1 .. MaxPublished
NoEntry == 0
Entry == {NoEntry} \cup Text

NoFile == 0
Broken == -1   \* no version's text: cut short, or two writers' texts mixed
Content == {NoFile, Broken} \cup Text

Slips == {"unwritten", "killed", "unsaved", "shared"}

Request ==
  [at : {"free", "get", "hydrate", "open", "fill", "record", "remove", "served"},
   ver : Entry,        \* the version read, or cached
   whole : BOOLEAN,    \* the body file was written to its end
   result : Content]   \* what the cache served

FreeTask == [at |-> "free", ver |-> NoEntry, whole |-> FALSE, result |-> NoFile]

VARIABLES
  published,  \* the version the note's head names, or the last one it named
  live,       \* the head is there and no tombstone
  file,       \* the body file
  saved,      \* the version state.json has for the note
  known,      \* the version each process has for it in memory
  task,       \* what each request is doing
  slips       \* history, read by no action: what went wrong since the last whole put

directory == <<file, saved>>
corpusHead == <<published, live>>
cacheVars == <<corpusHead, directory, known, task, slips>>

CacheTypeOK ==
  /\ published \in Entry
  /\ live \in BOOLEAN
  /\ file \in Content
  /\ saved \in Entry
  /\ known \in [Processes -> Entry]
  /\ task \in [Tasks -> Request]
  /\ slips \in SUBSET Slips

CacheInit ==
  /\ published = 0 /\ live = FALSE
  /\ file = NoFile /\ saved = NoEntry
  /\ known = [p \in Processes |-> NoEntry]
  /\ task = [t \in Tasks |-> FreeTask]
  /\ slips = {}

----------------------------------------------------------------------------
(* The head moves.                                                         *)

Free(t) == task[t].at \in {"free", "served"}

Become(t, stage, v) == task' = [task EXCEPT ![t] = [FreeTask EXCEPT !.at = stage, !.ver = v]]

Publishes(alive) ==
  /\ published < MaxPublished
  /\ published' = published + 1
  /\ live' = alive

\* push_note_version: the cache follows only once the head has moved.
WriteNote(t) ==
  /\ Free(t)
  /\ Publishes(TRUE)
  /\ Become(t, "open", published + 1)
  /\ UNCHANGED <<directory, known, slips>>

\* soft_delete_note and retract_note: the head becomes a tombstone, or goes.
DeleteNote(t) ==
  /\ Free(t)
  /\ live
  /\ Publishes(FALSE)
  /\ Become(t, "remove", published + 1)
  /\ UNCHANGED <<directory, known, slips>>

\* A participant with another cache directory writes or removes the note.
PublishedElsewhere ==
  /\ \E alive \in BOOLEAN : Publishes(alive)
  /\ UNCHANGED <<directory, known, task, slips>>

----------------------------------------------------------------------------
(* The cache's own operations, each under the mutex of its process.        *)

\* A task of p is inside NoteCache::put.
Putting(p) == \E t \in Tasks : Host[t] = p /\ task[t].at \in {"fill", "record"}

\* persist: the outcome is not looked at, and half a file loads as none.
Persisted(v) == IF DiskFails THEN {v, saved, NoEntry} ELSE {v}

\* remove_file: its outcome is not looked at either.
Unlinked == IF DiskFails THEN {NoFile, file} ELSE {NoFile}

\* get: the versions agree and the file is there.  Its content is not checked.
GetHit(t) ==
  /\ task[t].at = "get"
  /\ ~Putting(Host[t])
  /\ known[Host[t]] = task[t].ver /\ known[Host[t]] # NoEntry
  /\ file # NoFile
  /\ task' = [task EXCEPT ![t].at = "served", ![t].result = file]
  /\ saved' \in Persisted(known[Host[t]])
  /\ UNCHANGED <<corpusHead, file, known, slips>>

\* ... or there is another version, or no file, or a file that is not UTF-8.
GetMiss(t) ==
  /\ task[t].at = "get"
  /\ ~Putting(Host[t])
  /\ known[Host[t]] # task[t].ver \/ file \in {NoFile, Broken}
  /\ task' = [task EXCEPT ![t].at = "hydrate"]
  /\ UNCHANGED <<corpusHead, directory, known, slips>>

\* Another process of the directory relies on the file, or is writing it.
OthersRely(p) == \E q \in Processes \ {p} : known[q] # NoEntry \/ Putting(q)

\* put: opening the body file empties it, or fails and leaves it as it was.
PutOpens(t) ==
  /\ task[t].at = "open"
  /\ ~Putting(Host[t])
  /\ LET shared == IF OthersRely(Host[t]) THEN slips \cup {"shared"} ELSE slips
     IN  \/ /\ file' = Broken
            /\ task' = [task EXCEPT ![t].at = "fill"]
            /\ slips' = shared
         \/ /\ DiskFails
            /\ task' = [task EXCEPT ![t].at = "record"]
            /\ slips' = shared \cup {"unwritten"}
            /\ UNCHANGED file
  /\ UNCHANGED <<corpusHead, saved, known>>

\* What a write to its end leaves: nothing when the file was unlinked meanwhile,
\* perhaps a mixture when another process wrote it meanwhile.
Filled(v) == CASE file = NoFile -> {NoFile}
               [] file = Broken -> {v}
               [] OTHER -> {v, Broken}

PutFills(t) ==
  /\ task[t].at = "fill"
  /\ \/ /\ file' \in Filled(task[t].ver)
        /\ task' = [task EXCEPT ![t].at = "record", ![t].whole = TRUE]
        /\ UNCHANGED slips
     \/ /\ DiskFails
        /\ task' = [task EXCEPT ![t].at = "record"]
        /\ slips' = slips \cup {"unwritten"}
        /\ UNCHANGED file
  /\ UNCHANGED <<corpusHead, saved, known>>

\* Mutant: state.json is left to a later write.
PutRecordsInMemory(t) ==
  /\ task[t].at = "record"
  /\ known' = [known EXCEPT ![Host[t]] = task[t].ver]
  /\ slips' = slips
  /\ task' = [task EXCEPT ![t] = FreeTask]
  /\ UNCHANGED <<corpusHead, directory>>

\* The version is recorded whatever became of the body; evict_if_needed may take
\* the entry at once; and state.json is rewritten from the process's memory.
PutRecords(t) ==
  /\ task[t].at = "record"
  /\ \E kept \in BOOLEAN :
       LET v == IF kept THEN task[t].ver ELSE NoEntry
       IN  /\ known' = [known EXCEPT ![Host[t]] = v]
           /\ IF kept THEN UNCHANGED file ELSE file' \in Unlinked
           /\ saved' \in Persisted(v)
           /\ slips' = IF kept /\ task[t].whole /\ saved' = v THEN slips \cap {"shared"}
                       ELSE IF saved' = published /\ saved' # task[t].ver
                            THEN slips \cup {"unsaved"} ELSE slips
  /\ task' = [task EXCEPT ![t] = FreeTask]
  /\ UNCHANGED corpusHead

Forgets(p) ==
  /\ known' = [known EXCEPT ![p] = NoEntry]
  /\ file' \in Unlinked
  /\ saved' \in Persisted(NoEntry)

\* remove, after a delete or a retraction.
Remove(t) ==
  /\ task[t].at = "remove"
  /\ ~Putting(Host[t])
  /\ Forgets(Host[t])
  /\ task' = [task EXCEPT ![t] = FreeTask]
  /\ UNCHANGED <<corpusHead, slips>>

\* evict_if_needed, when another note's put needs the room.
Evict(p) ==
  /\ known[p] # NoEntry
  /\ ~Putting(p)
  /\ Forgets(p)
  /\ UNCHANGED <<corpusHead, task, slips>>

----------------------------------------------------------------------------
(* Reads, and the life of a process.                                       *)

\* read_note: the head lookup, which is the only freshness check.
StartRead(t) ==
  /\ Free(t)
  /\ live
  /\ Become(t, "get", published)
  /\ UNCHANGED <<corpusHead, directory, known, slips>>

\* The version's chunks are fetched and put, however late; or they are gone.
Hydrate(t) ==
  /\ task[t].at = "hydrate"
  /\ \/ task' = [task EXCEPT ![t].at = "open"]
     \/ task' = [task EXCEPT ![t] = FreeTask]
  /\ UNCHANGED <<corpusHead, directory, known, slips>>

\* A put of p was cut off while state.json vouches for the head with a body
\* that the put may have replaced.
CutOff(p) ==
  /\ saved = published
  /\ \E t \in Tasks :
       /\ Host[t] = p
       /\ task[t].at \in {"fill", "record"}
       /\ ~(task[t].at = "record" /\ task[t].whole /\ task[t].ver = saved)

\* The process ends, wherever its tasks are, and one opens the directory again:
\* a state.json that cannot be read or parsed is an empty one.
Restart(p) ==
  /\ \E entry \in {saved, NoEntry} :
       /\ known' = [known EXCEPT ![p] = entry]
       /\ slips' = slips
            \cup (IF CutOff(p) THEN {"killed"} ELSE {})
            \cup (IF entry # NoEntry /\ \E q \in Processes \ {p} : Putting(q)
                  THEN {"shared"} ELSE {})
  /\ task' = [t \in Tasks |-> IF Host[t] = p THEN FreeTask ELSE task[t]]
  /\ UNCHANGED <<corpusHead, directory>>

CacheNext ==
  \/ \E t \in Tasks :
       \/ WriteNote(t) \/ DeleteNote(t) \/ StartRead(t)
       \/ GetHit(t) \/ GetMiss(t) \/ Hydrate(t)
       \/ PutOpens(t) \/ PutFills(t) \/ PutRecords(t) \/ Remove(t)
  \/ \E p \in Processes : Evict(p) \/ Restart(p)
  \/ PublishedElsewhere

CacheSpec == CacheInit /\ [][CacheNext]_cacheVars

----------------------------------------------------------------------------
(* Properties.                                                             *)

Serves(t) == task[t].at = "get" /\ task'[t].at = "served"

\* What the cache serves is the text of the head the read fetched, however late
\* the puts of slower reads and writes come, through evictions, removals and
\* restarts, and again after anything went wrong once a put has been whole.  What
\* may go wrong is named: a body file that could not be opened or filled, while
\* its version was recorded ("unwritten"); a process that died inside a put, or a
\* state.json that could not be written after it, while the state.json left
\* behind vouches for the head ("killed", "unsaved"); and a put beside another
\* process that relies on the same directory ("shared"), which no put repairs.
CacheServesItsHead ==
  [][\A t \in Tasks : (slips = {} /\ Serves(t)) => task'[t].result = task[t].ver]_cacheVars
=============================================================================
