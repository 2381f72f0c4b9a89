---------------------------- MODULE VaultUploads ----------------------------
(***************************************************************************)
(* Out-of-band uploads to a filesystem mount: the token store              *)
(* (server/src/uploads.rs), the PUT handler that pumps the body            *)
(* (server/src/bootstrap.rs) and the staged commit that runs beside it on  *)
(* a thread of its own, with the sweep of orphan staging files             *)
(* (backend/src/filesystem.rs).                                            *)
(*                                                                         *)
(* All tokens are bound to one destination, whose content is abstracted to *)
(* the upload that landed it.  Time is abstracted to a token that expires  *)
(* and a staging file that has not been written to for STAGING_TTL.        *)
(***************************************************************************)
EXTENDS Integers, FiniteSets

CONSTANTS Tokens,     \* tokens that may be minted
          Puts,       \* PUT requests
          Cap,        \* MAX_OUTSTANDING_TOKENS
          Others,     \* contents written by anyone else
          Nobody,     \* the content of a destination that does not exist
          Faults      \* what may go wrong in a behaviour

ASSUME UploadAssumption ==
  /\ Cap \in Nat /\ IsFiniteSet(Tokens)
  /\ Nobody \notin Puts \cup Others
  /\ Puts \cap Others = {}
  /\ Faults \subseteq {"body", "disk", "disconnect", "shutdown", "crash"}

Content == [by : Puts \cup Others \cup {Nobody}, whole : BOOLEAN]
Whole(b) == [by |-> b, whole |-> TRUE]

Token ==
  [state : {"unminted", "pending", "inFlight", "gone"},
   expired : BOOLEAN,
   expects : SUBSET Content]   \* expected_hash: nothing, or one content

Put ==
  [handler : {"idle", "pump", "await", "done", "failed", "refused", "dropped", "killed"},
   commit : {"none", "create", "stream", "check", "rename", "landed", "aborted", "killed"},
   body : {"open", "whole", "cut", "error"},   \* the chunk channel
   token : Tokens]

VARIABLES
  store,     \* UploadStore: the tokens
  dest,      \* the content of the destination
  put,       \* the requests: the handler's task and the commit's thread
  staging,   \* the staging file of each request
  lost,      \* history variable: tokens the store lost with its process
  landings,  \* history variable: the requests whose bytes reached the destination
  stalled    \* history variable: requests that did not write for STAGING_TTL

files == <<dest, staging, landings>>
ghosts == <<lost, stalled>>
vars == <<store, put, files, ghosts>>

\* What a token costs the store until it is used, expires or is lost.
Outstanding(tokens) == {t \in Tokens : tokens[t].state \in {"pending", "inFlight"}}

\* The store never holds more than Cap tokens.
TypeOK ==
  /\ store \in [Tokens -> Token] /\ Cardinality(Outstanding(store)) <= Cap
  /\ dest \in Content
  /\ put \in [Puts -> Put]
  /\ staging \in [Puts -> {"none", "fresh", "stale"}]
  /\ lost \subseteq Tokens /\ landings \subseteq Puts /\ stalled \subseteq Puts

Init ==
  /\ store = [t \in Tokens |-> [state |-> "unminted", expired |-> FALSE, expects |-> {}]]
  /\ dest = Whole(Nobody)
  /\ put \in [Puts -> [handler : {"idle"}, commit : {"none"}, body : {"open"}, token : Tokens]]
  /\ staging = [p \in Puts |-> "none"]
  /\ lost = {} /\ landings = {} /\ stalled = {}

HandlerTo(p, stage) == put' = [put EXCEPT ![p].handler = stage]
CommitTo(p, stage) == put' = [put EXCEPT ![p].commit = stage]

----------------------------------------------------------------------------
(* request_vault_upload, and what happens around the uploads.              *)

\* purge_expired; a claim spares the token it is about.
Purged(spared) ==
  [t \in Tokens |-> IF store[t].state = "pending" /\ store[t].expired /\ t \notin spared
                    THEN [store[t] EXCEPT !.state = "gone"] ELSE store[t]]

\* The client may bind the upload to the content it has seen.
Mint(t) ==
  /\ store[t].state = "unminted"
  /\ Cardinality(Outstanding(Purged({}))) < Cap
  /\ \E expects \in {{}, {dest} \ {Whole(Nobody)}} :
       store' = [Purged({}) EXCEPT ![t] = [state |-> "pending", expired |-> FALSE,
                                           expects |-> expects]]

MintRefused ==
  /\ Cardinality(Outstanding(Purged({}))) >= Cap
  /\ store' = Purged({})

\* Mutant: the age of a staging file is not looked at.
SweepsEverything == staging' = [p \in Puts |-> "none"]

\* sweep_orphan_temp_files_at: only files not written to for STAGING_TTL.
Sweep == staging' = [p \in Puts |-> IF staging[p] = "stale" THEN "none" ELSE staging[p]]

RequestUpload ==
  /\ (\E t \in Tokens : Mint(t)) \/ MintRefused
  /\ Sweep
  /\ UNCHANGED <<dest, put, landings, ghosts>>

Expire(t) ==
  /\ store[t].state \in {"pending", "inFlight"} /\ ~store[t].expired
  /\ store' = [store EXCEPT ![t].expired = TRUE]
  /\ UNCHANGED <<put, files, ghosts>>

Stall(p) ==
  /\ staging[p] = "fresh"
  /\ staging' = [staging EXCEPT ![p] = "stale"]
  /\ stalled' = stalled \cup {p}
  /\ UNCHANGED <<store, dest, put, landings, lost>>

Edit ==
  /\ \E o \in Others : dest' = Whole(o)
  /\ UNCHANGED <<store, put, staging, landings, ghosts>>

----------------------------------------------------------------------------
(* The handler: claim the token, pump the body, await the commit, answer.  *)

\* Mutant: a token that is already streaming may be claimed.
ClaimableTwice(t) == store[t].state \in {"pending", "inFlight"} /\ ~store[t].expired

Claimable(t) == store[t].state = "pending" /\ ~store[t].expired

Claim(p) ==
  LET t == put[p].token
  IN /\ put[p].handler = "idle"
     /\ Claimable(t)
     /\ store' = [Purged({t}) EXCEPT ![t].state = "inFlight"]
     /\ put' = [put EXCEPT ![p].handler = "pump", ![p].commit = "create"]
     /\ UNCHANGED <<files, ghosts>>

\* Unknown, in flight or expired; an expired token is removed, in flight or not.
ClaimRefused(p) ==
  LET t == put[p].token
  IN /\ put[p].handler = "idle"
     /\ ~Claimable(t) /\ store[t].state # "unminted"
     /\ store' = [Purged({t}) EXCEPT ![t].state = IF store[t].expired THEN "gone" ELSE @]
     /\ HandlerTo(p, "refused")
     /\ UNCHANGED <<files, ghosts>>

PumpEnds(p) ==
  /\ put[p].handler = "pump"
  /\ put' = [put EXCEPT ![p].handler = "await", ![p].body = "whole"]
  /\ UNCHANGED <<store, files, ghosts>>

\* Mutant: a broken body just ends the channel.
BodyBreaksQuietly(p) ==
  /\ put[p].handler = "pump" /\ "body" \in Faults
  /\ put' = [put EXCEPT ![p].handler = "await", ![p].body = "cut"]
  /\ UNCHANGED <<store, files, ghosts>>

\* The error of a broken body is passed on through the channel.
BodyBreaks(p) ==
  /\ put[p].handler = "pump" /\ "body" \in Faults
  /\ put' = [put EXCEPT ![p].handler = "await", ![p].body = "error"]
  /\ UNCHANGED <<store, files, ghosts>>

\* The commit has given up, and the next send fails.
PumpStops(p) ==
  /\ put[p].handler = "pump" /\ put[p].commit = "aborted"
  /\ HandlerTo(p, "await")
  /\ UNCHANGED <<store, files, ghosts>>

\* Mutant: the handler gives up on a commit that is still running.
AnswerTimesOut(p) ==
  /\ put[p].handler = "await"
  /\ store' = [store EXCEPT ![put[p].token].state = IF put[p].commit = "landed" THEN "gone"
                                                   ELSE "pending"]
  /\ HandlerTo(p, IF put[p].commit = "landed" THEN "done" ELSE "failed")
  /\ UNCHANGED <<files, ghosts>>

\* consume after a commit, release after a failure.
Answer(p) ==
  /\ put[p].handler = "await"
  /\ UNCHANGED <<files, ghosts>>
  /\ \/ /\ put[p].commit = "landed"
        /\ store' = [store EXCEPT ![put[p].token].state = "gone"]
        /\ HandlerTo(p, "done")
     \/ /\ put[p].commit = "aborted"
        /\ store' = [store EXCEPT ![put[p].token].state = IF @ = "inFlight" THEN "pending" ELSE @]
        /\ HandlerTo(p, "failed")

\* The client leaves while the commit is awaited, and the handler is dropped.
Disconnect(p) ==
  /\ put[p].handler = "await" /\ "disconnect" \in Faults
  /\ HandlerTo(p, "dropped")
  /\ UNCHANGED <<store, files, ghosts>>

\* The server stops while the body is pumped: the channel ends without an error.
ShutDown(p) ==
  /\ put[p].handler = "pump" /\ "shutdown" \in Faults
  /\ put' = [put EXCEPT ![p].handler = "dropped",
                        ![p].body = IF @ = "open" THEN "cut" ELSE @]
  /\ UNCHANGED <<store, files, ghosts>>

----------------------------------------------------------------------------
(* commit_upload_stream, on a thread of its own.                           *)

Stage(p) ==
  /\ put[p].commit = "create"
  /\ staging' = [staging EXCEPT ![p] = "fresh"]
  /\ CommitTo(p, "stream")
  /\ UNCHANGED <<store, dest, landings, ghosts>>

StageFails(p) ==
  /\ put[p].commit = "create" /\ "disk" \in Faults
  /\ CommitTo(p, "aborted")
  /\ UNCHANGED <<store, files, ghosts>>

\* A chunk after a long silence: the file is young again, if it is still there.
Resumes(p) ==
  /\ put[p].commit = "stream" /\ staging[p] = "stale"
  /\ staging' = [staging EXCEPT ![p] = "fresh"]
  /\ UNCHANGED <<store, dest, put, landings, ghosts>>

StreamEnds(p) ==
  /\ put[p].commit = "stream" /\ put[p].body \in {"whole", "cut"}
  /\ CommitTo(p, "check")
  /\ UNCHANGED <<store, files, ghosts>>

Aborts(p) ==
  /\ staging' = [staging EXCEPT ![p] = "none"]
  /\ CommitTo(p, "aborted")
  /\ UNCHANGED <<store, dest, landings, ghosts>>

\* The body broke or is too large, or a write failed.
StreamFails(p) ==
  /\ put[p].commit = "stream"
  /\ put[p].body = "error" \/ Faults \cap {"body", "disk"} # {}
  /\ Aborts(p)

\* The destination is read again, when the token is bound to a content.
Expected(p) == \A content \in store[put[p].token].expects : dest = content

Check(p) ==
  /\ put[p].commit = "check" /\ Expected(p)
  /\ CommitTo(p, "rename")
  /\ UNCHANGED <<store, files, ghosts>>

Conflict(p) ==
  /\ put[p].commit = "check" /\ ~Expected(p)
  /\ Aborts(p)

Rename(p) ==
  /\ put[p].commit = "rename" /\ staging[p] # "none"
  /\ dest' = [by |-> p, whole |-> put[p].body = "whole"]
  /\ staging' = [staging EXCEPT ![p] = "none"]
  /\ landings' = landings \cup {p}
  /\ CommitTo(p, "landed")
  /\ UNCHANGED <<store, ghosts>>

\* Mutant: a failed rename leaves the staging file behind.
RenameFailsUntidily(p) ==
  /\ put[p].commit = "rename" /\ "disk" \in Faults
  /\ CommitTo(p, "aborted")
  /\ UNCHANGED <<store, files, ghosts>>

\* The staging file was swept, or the disk refuses.
RenameFails(p) ==
  /\ put[p].commit = "rename"
  /\ staging[p] = "none" \/ "disk" \in Faults
  /\ Aborts(p)

\* The process ends.  The tokens are gone with it; the files stay.
Crash ==
  /\ "crash" \in Faults
  /\ store' = [t \in Tokens |-> IF t \in Outstanding(store) THEN [store[t] EXCEPT !.state = "gone"]
                                ELSE store[t]]
  /\ lost' = lost \cup Outstanding(store)
  /\ put' = [p \in Puts |->
       [put[p] EXCEPT !.handler = IF @ \in {"pump", "await"} THEN "killed" ELSE @,
                      !.commit = IF @ \in {"create", "stream", "check", "rename"} THEN "killed"
                                 ELSE @]]
  /\ UNCHANGED <<files, stalled>>

----------------------------------------------------------------------------
Handling(p) ==
  \/ Claim(p) \/ ClaimRefused(p) \/ PumpEnds(p) \/ BodyBreaks(p) \/ PumpStops(p) \/ Answer(p)
  \/ Disconnect(p) \/ ShutDown(p)

Committing(p) ==
  \/ Stage(p) \/ StageFails(p) \/ Resumes(p) \/ StreamEnds(p) \/ StreamFails(p)
  \/ Check(p) \/ Conflict(p) \/ Rename(p) \/ RenameFails(p)

Next ==
  \/ RequestUpload \/ Edit \/ Crash
  \/ \E t \in Tokens : Expire(t)
  \/ \E p \in Puts : Stall(p) \/ Handling(p) \/ Committing(p)

Spec == Init /\ [][Next]_vars

----------------------------------------------------------------------------
(* Properties.                                                             *)

\* A token lands bytes at its destination at most once, however often it is
\* presented and wherever the earlier uploads were cut off.
LandsAtMostOnce ==
  \A p, q \in landings : put[p].token = put[q].token => p = q

\* The destination never holds part of a body, unless the handler of that
\* upload was dropped.
DestinationIsWhole ==
  dest.whole \/ put[dest.by].handler \in {"dropped", "killed"}

\* An upload that is answered as failed or refused never touched the
\* destination, and one answered as done did.
AnswersAreHonest ==
  \A p \in Puts :
    /\ put[p].handler \in {"failed", "refused"} => p \notin landings
    /\ put[p].handler = "done" => p \in landings

\* Until it expires or the process ends, a token is only used up by an upload
\* that landed: a failed one can be tried again.
SpentByLanding ==
  \A t \in Tokens \ lost :
    store[t].state = "gone" /\ ~store[t].expired => \E p \in landings : put[p].token = t

\* A staging file belongs to a running commit or was left by a process that
\* ended: no failure path leaves one behind.
StagingIsOwned ==
  \A p \in Puts :
    staging[p] # "none" => put[p].commit \in {"stream", "check", "rename", "killed"}

\* The sweep never takes the staging file of an upload that keeps writing.
LiveStagingIsKept ==
  \A p \in Puts \ stalled :
    put[p].commit \in {"stream", "check", "rename"} => staging[p] # "none"

\* Staging files are neither orphaned by a failure nor taken from an upload
\* (filesystem.rs, the commit's failure paths and the sweep).
StagingIsTidy == StagingIsOwned /\ LiveStagingIsKept
=============================================================================
