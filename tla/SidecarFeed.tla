---------------------------- MODULE SidecarFeed ----------------------------
(***************************************************************************)
(* The change feed of a CouchDB mount and the manifest cache it vouches    *)
(* for: SidecarSupervisor (backend/src/sidecar.rs), the sidecar's watch    *)
(* and changesSince (livesync-sidecar/src/manipulator.ts) and the cached   *)
(* manifest of CouchDbVaultBackend (backend/src/couchdb.rs).               *)
(*                                                                         *)
(* The vault's changes are numbered in the order of its update sequence; a *)
(* manifest, and a content hash, are abstracted to the changes they        *)
(* reflect.  The cached manifest stands for the hash cache too: both keep  *)
(* an epoch and a liveness flag sampled before their read, and are trusted *)
(* under the same two tests.  Every child's verdict is ok: readiness       *)
(* recovery replaces a child as a death does.                              *)
(***************************************************************************)
EXTENDS Integers

CONSTANTS Callers,      \* concurrent tool calls on the mount
          Armers,       \* who may arm the feed
          MaxChanges,   \* bound: changes to the vault in one behaviour
          MaxChildren,  \* bound: child processes started in one behaviour
          MaxEpoch,     \* bound: no own write starts at a later epoch
          Faults        \* what may go wrong in a behaviour

ASSUME FeedAssumption ==
  /\ "handshake" \in Armers /\ Armers \subseteq {"handshake", "subscribe"}
  /\ MaxChanges \in Nat
  /\ MaxChildren \in Nat
  /\ MaxEpoch \in Nat
  /\ Faults \subseteq {"death", "request", "slowAnswer"}

Seq0 == 0 .. MaxChanges
Child == 0 .. MaxChildren

\* The latest child: the pump's channel carries the changes fed + 1 .. sent.
ChildState == [id : Child, alive : BOOLEAN, armed : BOOLEAN, sent : Seq0, fed : Seq0]
NoChild == [id |-> 0, alive |-> FALSE, armed |-> FALSE, sent |-> 0, fed |-> 0]

\* CachedManifest: at is the number of changes the entries reflect.
Manifest == [held : BOOLEAN, epoch : Nat, live : BOOLEAN, at : Seq0]
NoManifest == [held |-> FALSE, epoch |-> 0, live |-> FALSE, at |-> 0]

\* resume_watch runs inside a handshake, which holds connect_lock, or in the
\* task that changes() spawns, which does not.  Without the second one the
\* runtime has subscribed before anything started a child.
ResumeStages == {"none", "check", "page", "watch", "answered", "bump"}
Resume == [at : ResumeStages, child : Child, any : BOOLEAN,
           cursor : Seq0,  \* the catch-up's own cursor
           since : Seq0]   \* where the watch it issued starts
NoResume == [at |-> "none", child |-> 0, any |-> FALSE, cursor |-> 0, since |-> 0]

CatchUp(id, from) == [NoResume EXCEPT !.at = "page", !.child = id, !.cursor = from]

CallStages == {"idle", "live", "epoch", "match", "sampleLive", "sampleEpoch", "walk", "walking",
               "served", "write", "bump"}
Call ==
  [at : CallStages,
   kind : {"none", "list", "grep", "write"},
   live : BOOLEAN, epoch : Nat,  \* sampled
   got : Seq0,                   \* the manifest it walks, found or returns
   owed : Seq0]                  \* the changes told when it was asked for
IdleCall == [at |-> "idle", kind |-> "none", live |-> FALSE, epoch |-> 0, got |-> 0, owed |-> 0]

VARIABLES
  seq,        \* the vault: changes that have landed
  slot,       \* the connection slot holds the latest child
  child,      \* the latest child and its notification pump
  watching,   \* SupervisorHealth.watching
  requested,  \* watch_requested
  cursor,     \* the last cursor seen; none and 0 both replay everything
  epoch,      \* change_epoch
  resume,     \* the resume_watch in progress of each armer
  manifest,   \* the cached manifest
  call,       \* what each tool call is executing
  \* history variables, read by no action
  told,       \* the last change that moved the epoch
  slipped     \* changes that landed between a catch-up and the watch it armed

supervisor == <<slot, watching, requested, cursor, epoch>>
ghosts == <<told, slipped>>
vars == <<seq, supervisor, child, resume, manifest, call, ghosts>>

TypeOK ==
  /\ seq \in Seq0
  /\ slot \in BOOLEAN /\ watching \in BOOLEAN /\ requested \in BOOLEAN
  /\ child \in ChildState
  /\ cursor \in Seq0
  /\ epoch \in Nat
  /\ resume \in [Armers -> Resume]
  /\ manifest \in Manifest
  /\ call \in [Callers -> Call]
  /\ told \in Seq0
  /\ slipped \subseteq Seq0

Init ==
  /\ seq = 0
  /\ slot = FALSE /\ watching = FALSE /\ requested = FALSE
  /\ child = NoChild
  /\ cursor = 0 /\ epoch = 0
  /\ resume = [r \in Armers |-> NoResume]
  /\ manifest = NoManifest
  /\ call = [c \in Callers |-> IdleCall]
  /\ told = 0 /\ slipped = {}

Later(m, n) == IF m >= n THEN m ELSE n

Connected == slot /\ child.alive

\* change_feed_live
FeedLive == Connected /\ watching

\* bump_change_epoch, on account of the changes up to n.
BumpEpoch(n) == epoch' = epoch + 1 /\ told' = Later(told, n)

----------------------------------------------------------------------------
(* The vault, the child and its notification pump.                         *)

\* An edit from another device.
Edit ==
  /\ seq < MaxChanges
  /\ seq' = seq + 1
  /\ UNCHANGED <<supervisor, child, resume, manifest, call, ghosts>>

\* A live feed notifies the next change it has not notified.
Notify ==
  /\ child.alive /\ child.armed /\ child.sent < seq
  /\ child' = [child EXCEPT !.sent = @ + 1]
  /\ UNCHANGED <<seq, supervisor, resume, manifest, call, ghosts>>

\* Mutant: the pump does not wait for its channel.
PumpEager ==
  /\ child' = [child EXCEPT !.fed = @ + 1]
  /\ cursor' = child.fed + 1
  /\ BumpEpoch(child.fed + 1)
  /\ UNCHANGED <<seq, slot, watching, requested, resume, manifest, call, slipped>>

\* The pump: the cursor, then the epoch, then the subscribers.
Pump ==
  /\ child.fed < child.sent
  /\ child' = [child EXCEPT !.fed = @ + 1]
  /\ cursor' = child.fed + 1
  /\ BumpEpoch(child.fed + 1)
  /\ UNCHANGED <<seq, slot, watching, requested, resume, manifest, call, slipped>>

\* The reader meets the end of the child's stdout; watching stays as it was.
ChildDies ==
  /\ "death" \in Faults
  /\ child.alive
  /\ child' = [child EXCEPT !.alive = FALSE]
  /\ UNCHANGED <<seq, supervisor, resume, manifest, call, ghosts>>

----------------------------------------------------------------------------
(* Starting a child and arming its feed.                                   *)

\* started_connection and start_and_handshake: under connect_lock a fresh child
\* replaces a dead one, its pump replaces the old pump, and what the old pump
\* had not taken from its channel is gone.
Restart ==
  /\ ~Connected
  /\ resume["handshake"].at = "none"
  /\ child.id < MaxChildren
  /\ child' = [NoChild EXCEPT !.id = child.id + 1, !.alive = TRUE]
  /\ slot' = TRUE
  /\ watching' = FALSE
  /\ resume' = IF requested
               THEN [resume EXCEPT !["handshake"] = CatchUp(child.id + 1, cursor)]
               ELSE resume
  /\ UNCHANGED <<seq, requested, cursor, epoch, manifest, call, ghosts>>

\* changes: the runtime subscribes once.
Subscribe ==
  /\ ~requested
  /\ child.id = 0 \/ "subscribe" \in Armers
  /\ requested' = TRUE
  /\ resume' = [r \in Armers |-> IF r = "subscribe" THEN [NoResume EXCEPT !.at = "check"]
                                                    ELSE resume[r]]
  /\ UNCHANGED <<seq, slot, watching, cursor, epoch, child, manifest, call, ghosts>>

\* ... and its task arms the feed unless the handshake that just ran has.
SubscribeArms ==
  /\ "subscribe" \in Armers
  /\ resume["subscribe"].at = "check"
  /\ watching \/ Connected
  /\ resume' = [resume EXCEPT !["subscribe"] =
                  IF watching THEN NoResume
                  ELSE CatchUp(child.id, cursor)]
  /\ UNCHANGED <<seq, supervisor, child, manifest, call, ghosts>>

\* The connection this resume holds still answers.
Answers(r) == resume[r].child = child.id /\ child.alive

\* changesSince: one page of the changes after the cursor, to the last one or
\* up to the page's limit.
CatchUpPage(r) ==
  /\ resume[r].at = "page"
  /\ Answers(r) /\ slot
  /\ \E n \in Seq0 :
       /\ resume[r].cursor <= n /\ n <= seq
       /\ n = resume[r].cursor => n = seq
       /\ resume' = [resume EXCEPT ![r].cursor = n,
                                   ![r].any = @ \/ n > resume[r].cursor,
                                   ![r].at = IF n = seq THEN "watch" ELSE "page"]
       /\ cursor' = n
  /\ UNCHANGED <<seq, slot, watching, requested, epoch, child, manifest, call, ghosts>>

\* `let Ok(page) = page else { break }`
CatchUpFails(r) ==
  /\ resume[r].at = "page"
  /\ "request" \in Faults \/ ~(Answers(r) /\ slot)
  /\ resume' = [resume EXCEPT ![r].at = "watch"]
  /\ UNCHANGED <<seq, supervisor, child, manifest, call, ghosts>>

\* The sidecar's watch: a live feed from the vault's sequence as it is now, or
\* the one that is armed already.
Watch(r) ==
  /\ resume[r].at = "watch"
  /\ Answers(r) /\ slot
  /\ child' = IF child.armed THEN child
              ELSE [child EXCEPT !.armed = TRUE, !.sent = seq, !.fed = seq]
  /\ slipped' = IF child.armed THEN slipped
                ELSE slipped \cup {n \in Seq0 : resume[r].cursor < n /\ n <= seq}
  /\ resume' = [resume EXCEPT ![r].at = "answered",
                              ![r].since = IF child.armed THEN child.sent ELSE seq]
  /\ UNCHANGED <<seq, supervisor, manifest, call, told>>

\* The answer arrives; a slow one may come from a child that has been replaced.
WatchAnswered(r) ==
  /\ resume[r].at = "answered"
  /\ resume[r].child = child.id \/ "slowAnswer" \in Faults
  /\ watching' = TRUE
  /\ cursor' = resume[r].since
  /\ slipped' = slipped \cup {n \in Seq0 : cursor < n /\ n <= resume[r].since}
  /\ resume' = [resume EXCEPT ![r].at = "bump"]
  /\ UNCHANGED <<seq, slot, requested, epoch, child, manifest, call, told>>

WatchFails(r) ==
  /\ \/ resume[r].at = "watch" /\ ("request" \in Faults \/ ~(Answers(r) /\ slot))
     \/ resume[r].at = "answered" /\ ("request" \in Faults \/ ~Answers(r))
  /\ watching' = FALSE
  /\ resume' = [resume EXCEPT ![r].at = "bump"]
  /\ UNCHANGED <<seq, slot, requested, cursor, epoch, child, manifest, call, ghosts>>

\* Mutant: a catch-up that saw changes leaves the epoch alone.
ResumeEndsSilently(r) ==
  /\ resume[r].at = "bump"
  /\ resume' = [resume EXCEPT ![r] = NoResume]
  /\ told' = IF resume[r].any THEN Later(told, resume[r].cursor) ELSE told
  /\ UNCHANGED <<seq, supervisor, child, manifest, call, slipped>>

\* A catch-up that saw anything moves the epoch once.
ResumeEnds(r) ==
  /\ resume[r].at = "bump"
  /\ IF resume[r].any THEN BumpEpoch(resume[r].cursor) ELSE UNCHANGED <<epoch, told>>
  /\ resume' = [resume EXCEPT ![r] = NoResume]
  /\ UNCHANGED <<seq, slot, watching, requested, cursor, child, manifest, call, slipped>>

----------------------------------------------------------------------------
(* Tool calls: a listing (manifest_entries), a grep (fresh_manifest_       *)
(* entries), a write or delete.                                            *)

To(c, stage) == call' = [call EXCEPT ![c].at = stage]

StartCall(c) ==
  /\ call[c].at = "idle"
  /\ \E k \in {"list", "grep"} :
       call' = [call EXCEPT ![c] = [IdleCall EXCEPT !.at = "live", !.kind = k, !.owed = told]]
  /\ UNCHANGED <<seq, supervisor, child, resume, manifest, ghosts>>

ReadLive(c) ==
  /\ call[c].at = "live"
  /\ call' = [call EXCEPT ![c].live = FeedLive,
                         ![c].at = IF call[c].kind = "grep" /\ ~FeedLive THEN "sampleLive"
                                   ELSE "epoch"]
  /\ UNCHANGED <<seq, supervisor, child, resume, manifest, ghosts>>

ReadEpoch(c) ==
  /\ call[c].at = "epoch"
  /\ call' = [call EXCEPT ![c].epoch = epoch, ![c].at = "match"]
  /\ UNCHANGED <<seq, supervisor, child, resume, manifest, ghosts>>

Serve(c, n) == call' = [call EXCEPT ![c].at = "served", ![c].got = n]

\* Served when the epoch has not moved and the feed vouches; a listing also
\* inside MANIFEST_REUSE_WINDOW.
MatchCached(c) ==
  /\ call[c].at = "match"
  /\ manifest.held /\ manifest.epoch = call[c].epoch
  /\ (call[c].live /\ manifest.live) \/ call[c].kind = "list"
  /\ Serve(c, manifest.at)
  /\ UNCHANGED <<seq, supervisor, child, resume, manifest, ghosts>>

MissCached(c) ==
  /\ call[c].at = "match"
  /\ ~(manifest.held /\ manifest.epoch = call[c].epoch /\ call[c].live /\ manifest.live)
  /\ To(c, "sampleLive")
  /\ UNCHANGED <<seq, supervisor, child, resume, manifest, ghosts>>

\* collect_manifest_entries: the flag and the epoch are read before the walk.
SampleLive(c) ==
  /\ call[c].at = "sampleLive"
  /\ call' = [call EXCEPT ![c].live = FeedLive, ![c].at = "sampleEpoch"]
  /\ UNCHANGED <<seq, supervisor, child, resume, manifest, ghosts>>

SampleEpoch(c) ==
  /\ call[c].at = "sampleEpoch"
  /\ call' = [call EXCEPT ![c].epoch = epoch, ![c].at = "walk"]
  /\ UNCHANGED <<seq, supervisor, child, resume, manifest, ghosts>>

WalkStarts(c) ==
  /\ call[c].at = "walk"
  /\ Connected
  /\ call' = [call EXCEPT ![c].got = seq, ![c].at = "walking"]
  /\ UNCHANGED <<seq, supervisor, child, resume, manifest, ghosts>>

\* No child could be started.
WalkFails(c) ==
  /\ call[c].at = "walk"
  /\ ~Connected
  /\ call' = [call EXCEPT ![c] = IdleCall]
  /\ UNCHANGED <<seq, supervisor, child, resume, manifest, ghosts>>

Collected(c, stamp, n) ==
  /\ manifest' = [held |-> TRUE, epoch |-> stamp, live |-> call[c].live, at |-> n]
  /\ Serve(c, n)

\* Mutant: the manifest is stamped with the epoch of its arrival.
WalkEndsStampsLate(c) ==
  /\ call[c].at = "walking"
  /\ \E n \in call[c].got .. seq : Collected(c, epoch, n)
  /\ UNCHANGED <<seq, supervisor, child, resume, ghosts>>

\* The pages show all that had landed at the start and any part of what lands
\* meanwhile; the manifest is stored under the epoch and the flag sampled first.
WalkEnds(c) ==
  /\ call[c].at = "walking"
  /\ \E n \in call[c].got .. seq : Collected(c, call[c].epoch, n)
  /\ UNCHANGED <<seq, supervisor, child, resume, ghosts>>

Return(c) ==
  /\ call[c].at = "served"
  /\ call' = [call EXCEPT ![c] = IdleCall]
  /\ UNCHANGED <<seq, supervisor, child, resume, manifest, ghosts>>

StartWrite(c) ==
  /\ call[c].at = "idle"
  /\ epoch < MaxEpoch
  /\ call' = [call EXCEPT ![c] = [IdleCall EXCEPT !.at = "write", !.kind = "write"]]
  /\ UNCHANGED <<seq, supervisor, child, resume, manifest, ghosts>>

\* A write or delete lands, or fails without landing ...
WriteLands(c) ==
  /\ call[c].at = "write"
  /\ Connected
  /\ seq < MaxChanges
  /\ seq' = seq + 1
  /\ call' = [call EXCEPT ![c].got = seq + 1, ![c].at = "bump"]
  /\ UNCHANGED <<supervisor, child, resume, manifest, ghosts>>

WriteFails(c) ==
  /\ call[c].at = "write"
  /\ To(c, "bump")
  /\ UNCHANGED <<seq, supervisor, child, resume, manifest, ghosts>>

\* ... and the epoch moves whatever the outcome, before the caller is answered.
WriteEnds(c) ==
  /\ call[c].at = "bump"
  /\ BumpEpoch(call[c].got)
  /\ call' = [call EXCEPT ![c] = IdleCall]
  /\ UNCHANGED <<seq, slot, watching, requested, cursor, child, resume, manifest, slipped>>

\* call_tracked: a transport failure of any request empties the slot, whichever
\* child it holds by then; a walk is retried on the next child, or fails.
RequestFails(c) ==
  /\ call[c].at = "walking"
  /\ "request" \in Faults \/ ~Connected
  /\ slot' = FALSE
  /\ watching' = FALSE
  /\ child' = [child EXCEPT !.alive = @ /\ ~slot]
  /\ \E stage \in {"walk", "idle"} :
       call' = [call EXCEPT ![c] = IF stage = "idle" THEN IdleCall ELSE [@ EXCEPT !.at = "walk"]]
  /\ UNCHANGED <<seq, requested, cursor, epoch, resume, manifest, ghosts>>

Resuming(r) ==
  \/ CatchUpPage(r) \/ CatchUpFails(r) \/ Watch(r) \/ WatchAnswered(r) \/ WatchFails(r)
  \/ ResumeEnds(r)

Calling(c) ==
  \/ StartCall(c) \/ ReadLive(c) \/ ReadEpoch(c) \/ MatchCached(c) \/ MissCached(c)
  \/ SampleLive(c) \/ SampleEpoch(c) \/ WalkStarts(c) \/ WalkFails(c) \/ WalkEnds(c) \/ Return(c)
  \/ StartWrite(c) \/ WriteLands(c) \/ WriteFails(c) \/ WriteEnds(c) \/ RequestFails(c)

Next ==
  \/ Edit \/ Notify \/ Pump \/ ChildDies \/ Restart \/ Subscribe \/ SubscribeArms
  \/ \E r \in Armers : Resuming(r)
  \/ \E c \in Callers : Calling(c)

Spec == Init /\ [][Next]_vars

----------------------------------------------------------------------------
(* Properties.                                                             *)

\* A listing or a grep reflects every change the epoch had moved for when it
\* was asked: own writes whatever their outcome, notified edits, and what a
\* catch-up replayed.  The epoch is sampled before the walk, so a change that
\* lands during a walk invalidates it instead of being certified.
ToldIsListed ==
  \A c \in Callers : call[c].at = "served" => call[c].got >= call[c].owed

\* The cached manifest is one an exhaustive grep would be answered from.
Vouched == FeedLive /\ manifest.held /\ manifest.live /\ manifest.epoch = epoch

\* A change the feed still carries to the epoch, or a catch-up in progress does.
Coming(n) ==
  \/ child.armed /\ n > child.fed
  \/ \E r \in Armers :
       \/ resume[r].at \in {"page", "watch", "answered", "bump"} /\ resume[r].any
       \/ resume[r].at \in {"page", "watch"} /\ n > resume[r].cursor

\* What a vouched manifest lacks is on its way, through deaths, restarts and
\* failed requests; only a change that slipped between a catch-up and the watch
\* it armed is lost.
OnlySlipsAreLost ==
  Vouched => \A n \in Seq0 : (manifest.at < n /\ n <= seq) => Coming(n) \/ n \in slipped
=============================================================================
