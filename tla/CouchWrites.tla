----------------------------- MODULE CouchWrites -----------------------------
(***************************************************************************)
(* Guarded writes and deletes of one entry of a CouchDB mount: the write   *)
(* tools (server/src/tools.rs), CouchDbVaultBackend (backend/src/          *)
(* couchdb.rs), the supervisor's retries (backend/src/sidecar.rs) and the  *)
(* sidecar's compare-and-swap (livesync-sidecar/src/manipulator.ts).       *)
(*                                                                         *)
(* The entry is the sequence of its revisions; no revision is ever a       *)
(* CouchDB tombstone, a delete is a revision with `deleted: true` and the  *)
(* same content.  Every call may be in a server, and every attempt of a    *)
(* call in a child process, of its own: a child that is replaced while a   *)
(* request is queued in it lives until the call ends, and its request may  *)
(* be executed at any time or never.                                       *)
(***************************************************************************)
EXTENDS Integers, Sequences

CONSTANTS Calls,   \* tool calls of any servers of the vault, one execution each
          Device,  \* stands for the other devices of the vault
          Texts,   \* contents
          MaxRev,  \* bound: revisions of the entry in one behaviour
          Faults   \* of each call, "transport": a child dies or answers too late;
                   \* "remote": CouchDB fails

ASSUME WritesAssumption ==
  /\ Device \notin Calls
  /\ MaxRev \in Nat
  /\ Faults \in [Calls -> SUBSET {"transport", "remote"}]

Revision == [text : Texts, deleted : BOOLEAN, by : Calls \cup {Device}]

Try == 1 .. 4
\* One request to a child: rev is the revision its guard was checked against.
Attempt == [at : {"none", "queued", "checked", "landed", "conflict", "remote"}, rev : 0 .. MaxRev]
NoAttempt == [at |-> "none", rev |-> 0]

Call ==
  [at : {"idle", "send", "wait", "resolve", "done"},
   kind : {"none", "write", "delete"},
   guard : {"none", "create", "revision"},  \* WriteGuard
   base : 0 .. MaxRev,                      \* the revision the guard stands for
   text : Texts,                            \* what a write is to land
   tries : 0 .. 4,
   again : BOOLEAN,     \* inside call_tracked: this is its retry
   second : BOOLEAN,    \* inside write: this is its second call_tracked
   unknown : BOOLEAN,   \* outcome_unknown
   result : {"none", "done", "already", "conflict", "failed"}]

VARIABLES
  log,      \* the entry's revisions, by is a history variable read by no action
  call,     \* what each tool call is executing
  attempt   \* the requests of each call, in the children they were sent to

vars == <<log, call, attempt>>

TypeOK ==
  /\ log \in Seq(Revision) /\ Len(log) <= MaxRev
  /\ call \in [Calls -> Call]
  /\ attempt \in [Calls -> [Try -> Attempt]]

Rev == Len(log)

Fresh(t) == [at |-> "idle", kind |-> "none", guard |-> "none", base |-> 0, text |-> t, tries |-> 0,
             again |-> FALSE, second |-> FALSE, unknown |-> FALSE, result |-> "none"]

Init ==
  /\ log = << >>
  /\ call \in [Calls -> {Fresh(t) : t \in Texts}]
  /\ attempt = [c \in Calls |-> [n \in Try |-> NoAttempt]]

Append1(r) == Rev < MaxRev /\ log' = Append(log, r)

Ends(c, result) ==
  call' = [call EXCEPT ![c].at = "done", ![c].result = result]

----------------------------------------------------------------------------
(* Other devices write and soft-delete the entry.                          *)

DeviceWrites ==
  /\ \E t \in Texts : Append1([text |-> t, deleted |-> FALSE, by |-> Device])
  /\ UNCHANGED <<call, attempt>>

DeviceDeletes ==
  /\ Rev > 0 /\ ~log[Rev].deleted
  /\ Append1([log[Rev] EXCEPT !.deleted = TRUE, !.by = Device])
  /\ UNCHANGED <<call, attempt>>

----------------------------------------------------------------------------
(* The call observes the entry, by the read or the stat that its guard     *)
(* comes from.                                                             *)

Guarded(c, kind, guard, base) ==
  call' = [call EXCEPT ![c].at = "send", ![c].kind = kind, ![c].guard = guard, ![c].base = base]

\* backend_read_note_for_write and write_guard_for; commit_upload reads for
\* itself and takes the same two guards.  A tombstone reads as a note.
ObserveForWrite(c) ==
  /\ call[c].at = "idle"
  /\ IF Rev = 0 THEN Guarded(c, "write", "create", 0) ELSE Guarded(c, "write", "revision", Rev)
  /\ UNCHANGED <<log, attempt>>

\* A read that failed for another reason than absence: BaseVersion::Unobserved.
ReadFails(c) ==
  /\ call[c].at = "idle"
  /\ Faults[c] # {}
  /\ Guarded(c, "write", "none", 0)
  /\ UNCHANGED <<log, attempt>>

\* soft_delete: one stat answers whether it is a tombstone and what revision to
\* guard on.
ObserveForDelete(c) ==
  /\ call[c].at = "idle"
  /\ IF Rev = 0 THEN Ends(c, "failed")
     ELSE IF log[Rev].deleted THEN Ends(c, "already")
     ELSE Guarded(c, "delete", "revision", Rev)
  /\ UNCHANGED <<log, attempt>>

\* The caller's expectedHash does not match, or the stat failed.
Refuse(c) ==
  /\ call[c].at = "idle"
  /\ Ends(c, "failed")
  /\ UNCHANGED <<log, attempt>>

----------------------------------------------------------------------------
(* The supervisor: call_tracked and write.                                 *)

Send(c) ==
  /\ call[c].at = "send"
  /\ attempt' = [attempt EXCEPT ![c][call[c].tries + 1].at = "queued"]
  /\ call' = [call EXCEPT ![c].at = "wait", ![c].tries = @ + 1]
  /\ UNCHANGED log

\* ready_connection: no child could be started.
NoChild(c) ==
  /\ call[c].at = "send"
  /\ "transport" \in Faults[c]
  /\ Ends(c, "failed")
  /\ UNCHANGED <<log, attempt>>

Answer(c, at) == call[c].at = "wait" /\ attempt[c][call[c].tries].at = at

\* Mutant: a conflict after an unobserved outcome is taken for the call's own.
LandedUnseen(c) ==
  /\ \/ Answer(c, "landed")
     \/ Answer(c, "conflict") /\ call[c].unknown
  /\ Ends(c, "done")
  /\ UNCHANGED <<log, attempt>>

Landed(c) ==
  /\ Answer(c, "landed")
  /\ Ends(c, "done")
  /\ UNCHANGED <<log, attempt>>

\* A transport failure is retried once on a new child, the outcome now unknown
\* to the call: the request may have been, or be yet, executed.
TransportFails(c) ==
  /\ call[c].at = "wait"
  /\ "transport" \in Faults[c]
  /\ IF call[c].again THEN Ends(c, "failed")
     ELSE call' = [call EXCEPT ![c].at = "send", ![c].again = TRUE, ![c].unknown = TRUE]
  /\ UNCHANGED <<log, attempt>>

\* is_retryable_remote: a write, and no delete, is retried once under the same
\* guard.
RemoteFails(c) ==
  /\ Answer(c, "remote")
  /\ IF call[c].kind = "write" /\ ~call[c].second
     THEN call' = [call EXCEPT ![c].at = "send", ![c].second = TRUE, ![c].again = FALSE,
                               ![c].unknown = TRUE]
     ELSE Ends(c, "failed")
  /\ UNCHANGED <<log, attempt>>

\* A lost compare-and-swap: a write that has an attempt of unknown outcome
\* looks at what is there, any other call reports it.
Conflict(c) ==
  /\ Answer(c, "conflict")
  /\ IF call[c].kind = "write" /\ call[c].unknown
     THEN call' = [call EXCEPT ![c].at = "resolve"]
     ELSE Ends(c, "conflict")
  /\ UNCHANGED <<log, attempt>>

\* resolve_write_conflict: the content decides, a tombstone's like a note's.
Resolve(c) ==
  /\ call[c].at = "resolve"
  /\ Ends(c, IF Rev > 0 /\ log[Rev].text = call[c].text THEN "done" ELSE "conflict")
  /\ UNCHANGED <<log, attempt>>

ResolveFails(c) ==
  /\ call[c].at = "resolve"
  /\ Faults[c] # {}
  /\ Ends(c, "conflict")
  /\ UNCHANGED <<log, attempt>>

----------------------------------------------------------------------------
(* The child: write and remove.                                            *)

Becomes(c, n, at) == attempt' = [attempt EXCEPT ![c][n].at = at]

\* currentState, or the get of remove, and the guard against it.
Check(c, n) ==
  /\ attempt[c][n].at = "queued"
  /\ IF call[c].guard = "none" \/ call[c].base = Rev
     THEN attempt' = [attempt EXCEPT ![c][n] = [at |-> "checked", rev |-> Rev]]
     ELSE Becomes(c, n, "conflict")
  /\ UNCHANGED <<log, call>>

Lands(c) ==
  Append1(IF call[c].kind = "delete"
          THEN [log[Rev] EXCEPT !.deleted = TRUE, !.by = c]
          ELSE [text |-> call[c].text, deleted |-> FALSE, by |-> c])

\* Mutant: the root is force-written, as upstream's own put does.
PutForced(c, n) ==
  /\ attempt[c][n].at = "checked"
  /\ Rev > 0 \/ call[c].kind = "write"
  /\ Lands(c)
  /\ \/ Becomes(c, n, "landed")
     \/ "remote" \in Faults[c] /\ Becomes(c, n, "remote")
  /\ UNCHANGED call

\* withGuardedRootPut, and the put of remove: CouchDB compares the revision.
\* Its answer may be lost.
Put(c, n) ==
  /\ attempt[c][n].at = "checked"
  /\ IF attempt[c][n].rev = Rev
     THEN /\ Lands(c)
          /\ \/ Becomes(c, n, "landed")
             \/ "remote" \in Faults[c] /\ Becomes(c, n, "remote")
     ELSE UNCHANGED log /\ Becomes(c, n, "conflict")
  /\ UNCHANGED call

\* The remote fails the check, the chunks or the root, and nothing lands.
RemoteRefuses(c, n) ==
  /\ attempt[c][n].at \in {"queued", "checked"}
  /\ "remote" \in Faults[c]
  /\ Becomes(c, n, "remote")
  /\ UNCHANGED <<log, call>>

Calling(c) ==
  \/ ObserveForWrite(c) \/ ReadFails(c) \/ ObserveForDelete(c) \/ Refuse(c)
  \/ Send(c) \/ NoChild(c) \/ Landed(c) \/ TransportFails(c) \/ RemoteFails(c) \/ Conflict(c)
  \/ Resolve(c) \/ ResolveFails(c)

Serving(c, n) == Check(c, n) \/ Put(c, n) \/ RemoteRefuses(c, n)

Next ==
  \/ DeviceWrites \/ DeviceDeletes
  \/ \E c \in Calls : Calling(c) \/ \E n \in Try : Serving(c, n)

Spec == Init /\ [][Next]_vars

----------------------------------------------------------------------------
(* Properties.                                                             *)

LandedAt(c) == {r \in 1 .. Rev : log[r].by = c}

\* No lost update: a guarded call replaces the revision its caller observed and
\* no other, whichever of its attempts lands and however late.  So at most one
\* of them ever does.
NoLostUpdate ==
  \A c \in Calls : call[c].guard # "none" => LandedAt(c) \subseteq {call[c].base + 1}

\* A call that was told of a conflict, and was sure of it, changed nothing and
\* never will.
RefusedChangesNothing ==
  \A c \in Calls : call[c].result = "conflict" /\ ~call[c].unknown => LandedAt(c) = {}

\* A write reported done is a revision after the one its caller observed.
WrittenIsInHistory ==
  \A c \in Calls : call[c].kind = "write" /\ call[c].result = "done" =>
    \E r \in call[c].base + 1 .. Rev : log[r].text = call[c].text

\* A delete reported done is a revision that removed what its stat saw.
DeletedIsInHistory ==
  \A c \in Calls : call[c].kind = "delete" /\ call[c].result = "done" =>
    call[c].base + 1 \in LandedAt(c)

----------------------------------------------------------------------------
(* The contract of the tools.                                              *)

\* What a caller can know of its call.
View(k) ==
  [kind |-> k.kind, guarded |-> k.guard # "none", base |-> k.base, text |-> k.text,
   said |-> CASE k.result = "none" -> "nothing"
              [] k.result = "conflict" -> IF k.unknown THEN "unsure" ELSE "refused"
              [] k.result = "failed" -> "unsure"
              [] OTHER -> k.result]

Register == INSTANCE GuardedRegister WITH op <- [c \in Calls |-> View(call[c])]

\* The servers, children, requests and retries together are a compare-and-swap
\* that takes effect at most once, on what its caller observed and with what it
\* was to land, and whose answers are true.
ImplementsRegister == Register!Spec
=============================================================================
