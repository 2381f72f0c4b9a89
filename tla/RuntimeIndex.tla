---------------------------- MODULE RuntimeIndex ----------------------------
(***************************************************************************)
(* The local index of one mount: RuntimeState, its startup, auto-reindex   *)
(* and freshness tasks (server/src/runtime.rs) and the build_index tool    *)
(* that waits for a rebuild (server/src/tools.rs).                         *)
(*                                                                         *)
(* The vault's changes are numbered as they land; a listing of the vault,  *)
(* the index file and a snapshot are abstracted to the changes they        *)
(* reflect.  The counters generation and stale_generation are only ever    *)
(* compared with an earlier reading of themselves, so a reading is         *)
(* abstracted to whether the counter has moved since.                      *)
(***************************************************************************)
EXTENDS Integers

CONSTANTS Clients,      \* callers of build_index with wait
          Features,     \* what the configuration enables
          IndexFiles,   \* what startup may find in the index directory
          Faults,       \* what may go wrong in a behaviour
          MaxChanges,   \* bound: changes to the vault in one behaviour
          MaxFaults,    \* bound: faults in one behaviour
          MaxRenewals   \* bound: renewals of the freshness encoding

ASSUME IndexAssumption ==
  /\ Features \subseteq {"autoReindex", "freshness"}
  /\ IndexFiles \subseteq {"none", "compatible", "incompatible"}
  /\ Faults \subseteq {"signal", "watcher", "index"}
  /\ MaxChanges \in Nat /\ MaxFaults \in Nat /\ MaxRenewals \in Nat

Count == 0 .. MaxChanges
Jobs == {"startup", "auto", "rebuild"}

\* What run_index_operation is doing, and for startup what comes before it.
Preloading == {"preload", "load", "loaded", "mark"}
Working == {"sample", "reuse", "build", "publish", "finish", "failed", "lower"}
Job ==
  [at : Preloading \cup {"idle", "ask", "lock", "unlock", "ending"} \cup Working,
   moved : BOOLEAN,   \* waiting for the lock: generation has moved since it was read
   marked : BOOLEAN,  \* from its listing on: stale_generation has moved since it was read
   from : Count,      \* the changes its listing of the vault is bound to have
   got : Count,       \* the changes of what it found or built
   owed : Count,      \* history variable: the changes marked when it asked
   outcome : {"none", "ok", "failed"}]
IdleJob == [at |-> "idle", moved |-> FALSE, marked |-> FALSE, from |-> 0, got |-> 0, owed |-> 0,
            outcome |-> "none"]

Client ==
  [at : {"idle", "poll", "pollBackground", "quiet", "answered", "refused"},
   queued : BOOLEAN,
   got : Count,     \* the changes of the snapshot it is answered with
   owed : Count]    \* history variable: the changes landed when it asked
IdleClient == [at |-> "idle", queued |-> FALSE, got |-> 0, owed |-> 0]

VARIABLES
  seq,         \* the vault: changes that have landed
  file,        \* the index file
  snapshot,    \* the published snapshot
  required,    \* refresh_required
  lastError,   \* last_error is set
  inFlight,    \* refresh_in_flight
  background,  \* background_rebuild
  holder,      \* who holds refresh_lock
  watching,    \* the auto-reindex task has a watcher
  pending,     \* ... and a debounced refresh to do
  heard,       \* changes whose signal it has taken from the watcher's channel
  job,         \* the index operations
  client,      \* the build_index calls
  spent,       \* faults and renewals so far
  told         \* history variable: the last change marked stale

published == <<snapshot, required, lastError>>
watch == <<watching, pending, heard>>
vars == <<seq, file, published, inFlight, background, holder, watch, job, client, spent, told>>

TypeOK ==
  /\ seq \in Count
  /\ file \in [state : {"none", "compatible", "incompatible"}, at : Count]
  /\ snapshot \in [held : BOOLEAN, at : Count]
  /\ required \in BOOLEAN /\ lastError \in BOOLEAN
  /\ inFlight \in BOOLEAN /\ background \in BOOLEAN
  /\ holder \in Jobs \cup {"none", "renewal"}
  /\ watching \in BOOLEAN /\ pending \in BOOLEAN /\ heard \in Count
  /\ job \in [Jobs -> Job]
  /\ client \in [Clients -> Client]
  /\ spent \in [faults : 0 .. MaxFaults, renewals : 0 .. MaxRenewals]
  /\ told \in Count

\* The vault may be ahead of the index file that startup finds.
Init ==
  /\ seq \in {0, 1} \cap Count
  /\ file \in [state : IndexFiles, at : {0}]
  /\ snapshot = [held |-> FALSE, at |-> 0]
  /\ required = FALSE /\ lastError = FALSE
  /\ inFlight = FALSE /\ background = FALSE
  /\ holder = "none"
  /\ watching = ("autoReindex" \in Features) /\ pending = FALSE /\ heard = seq
  /\ job = [j \in Jobs |-> IF j = "startup" THEN [IdleJob EXCEPT !.at = "preload"] ELSE IdleJob]
  /\ client = [c \in Clients |-> IdleClient]
  /\ spent = [faults |-> 0, renewals |-> 0]
  /\ told = 0

Later(m, n) == IF m >= n THEN m ELSE n

To(j, stage) == job' = [job EXCEPT ![j].at = stage]

Fault(kind) ==
  /\ kind \in Faults /\ spent.faults < MaxFaults
  /\ spent' = [spent EXCEPT !.faults = @ + 1]

\* generation.fetch_add, seen by every job that compares it later.
GenerationMoves(jobs) == [j \in Jobs |-> [jobs[j] EXCEPT !.moved = @ \/ jobs[j].at = "lock"]]

\* stale_generation.fetch_add, likewise.
Listed == {"reuse", "build", "publish", "finish"}
StaleGenerationMoves(jobs) ==
  [j \in Jobs |-> [jobs[j] EXCEPT !.marked = @ \/ jobs[j].at \in Listed]]

\* mark_stale, on account of the changes up to n.
MarkStale(jobs, n) ==
  /\ required' = TRUE
  /\ job' = StaleGenerationMoves(jobs)
  /\ told' = Later(told, n)

Edit ==
  /\ seq < MaxChanges
  /\ seq' = seq + 1
  /\ UNCHANGED <<file, published, inFlight, background, holder, watch, job, client, spent, told>>

----------------------------------------------------------------------------
(* Startup: preload_cached_snapshot, then the initial refresh.             *)

AfterPreload == IF "autoReindex" \in Features THEN "ask" ELSE "idle"

Preload ==
  /\ job["startup"].at = "preload"
  /\ To("startup", IF snapshot.held THEN AfterPreload ELSE "load")
  /\ UNCHANGED <<seq, file, published, inFlight, background, holder, watch, client, spent, told>>

LoadCompatible ==
  /\ job["startup"].at = "load"
  /\ job' = [job EXCEPT !["startup"].got = file.at,
                        !["startup"].at = IF file.state = "compatible" THEN "loaded"
                                          ELSE AfterPreload]
  /\ lastError' = (lastError \/ file.state = "incompatible")
  /\ UNCHANGED <<seq, file, snapshot, required, inFlight, background, holder, watch, client, spent,
                 told>>

\* Mutant: the cached index replaces what has been published meanwhile.
PreloadReplaces ==
  /\ job["startup"].at = "loaded"
  /\ snapshot' = [held |-> TRUE, at |-> job["startup"].got]
  /\ To("startup", "mark")
  /\ UNCHANGED <<seq, file, required, lastError, inFlight, background, holder, watch, client, spent,
                 told>>

\* Without the refresh lock, and only when nothing has been published meanwhile.
PreloadPublishes ==
  /\ job["startup"].at = "loaded"
  /\ snapshot' = IF snapshot.held THEN snapshot ELSE [held |-> TRUE, at |-> job["startup"].got]
  /\ To("startup", "mark")
  /\ UNCHANGED <<seq, file, required, lastError, inFlight, background, holder, watch, client, spent,
                 told>>

PreloadMarks ==
  /\ job["startup"].at = "mark"
  /\ MarkStale([job EXCEPT !["startup"].at = AfterPreload], 0)
  /\ UNCHANGED <<seq, file, snapshot, lastError, inFlight, background, holder, watch, client, spent>>

----------------------------------------------------------------------------
(* An index operation: run_index_operation.                                *)

\* Reads the generation, and queues for refresh_lock.
Ask(j) ==
  /\ job[j].at = "ask"
  /\ job' = [job EXCEPT ![j].at = "lock", ![j].owed = told]
  /\ UNCHANGED <<seq, file, published, inFlight, background, holder, watch, client, spent, told>>

\* Mutant: the stale mark is not looked at.
CoalescedAlways(j) == j # "rebuild" /\ job[j].moved

\* Mutant: a forced rebuild takes another operation's result too.
CoalescedForced(j) == job[j].moved /\ ~required

\* A refresh that waited while another operation completed takes its result,
\* unless something has been marked stale since.
Coalesced(j) == j # "rebuild" /\ job[j].moved /\ ~required

Coalesces(j) ==
  /\ job[j].at = "lock"
  /\ holder = "none"
  /\ Coalesced(j)
  /\ holder' = j
  /\ job' = [job EXCEPT ![j].at = "unlock", ![j].moved = FALSE, ![j].got = snapshot.at,
                        ![j].outcome = "ok"]
  /\ UNCHANGED <<seq, file, published, inFlight, background, watch, client, spent, told>>

Enter(j) ==
  /\ job[j].at = "lock"
  /\ holder = "none"
  /\ ~Coalesced(j)
  /\ holder' = j
  /\ inFlight' = TRUE
  /\ job' = [job EXCEPT ![j].at = "sample", ![j].moved = FALSE]
  /\ UNCHANGED <<seq, file, published, background, watch, client, spent, told>>

\* Reads the stale generation, and starts to list the vault.
Sample(j) ==
  /\ job[j].at = "sample"
  /\ job' = [job EXCEPT ![j].from = seq,
                        ![j].at = IF j = "rebuild" \/ ~snapshot.held THEN "build" ELSE "reuse"]
  /\ UNCHANGED <<seq, file, published, inFlight, background, holder, watch, client, spent, told>>

\* reuse_current_snapshot_if_unchanged: the listing is compared with the
\* snapshot's.
Reuse(j) ==
  /\ job[j].at = "reuse"
  /\ \E n \in job[j].from .. seq :
       job' = [job EXCEPT ![j].from = n, ![j].got = n,
                          ![j].at = IF n = snapshot.at THEN "finish" ELSE "build"]
  /\ UNCHANGED <<seq, file, published, inFlight, background, holder, watch, client, spent, told>>

\* The file is replaced in one transaction; a refresh needs a compatible one.
Commit(n) == file' = [state |-> "compatible", at |-> n]

Build(j) ==
  /\ job[j].at = "build"
  /\ j = "rebuild" \/ file.state # "incompatible"
  /\ \E n \in job[j].from .. seq :
       Commit(n) /\ job' = [job EXCEPT ![j].from = n, ![j].got = n, ![j].at = "publish"]
  /\ UNCHANGED <<seq, published, inFlight, background, holder, watch, client, spent, told>>

\* The listing, a note or an embedding fails, or the copy of the new file does.
OperationFails(j) ==
  /\ job[j].at \in {"reuse", "build"}
  /\ \/ Fault("index") /\ UNCHANGED file
     \/ /\ Fault("index") /\ job[j].at = "build"
        /\ j = "rebuild" \/ file.state # "incompatible"
        /\ \E n \in job[j].from .. seq : Commit(n)
     \/ job[j].at = "build" /\ j # "rebuild" /\ file.state = "incompatible" /\ UNCHANGED <<file, spent>>
  /\ To(j, "failed")
  /\ UNCHANGED <<seq, published, inFlight, background, holder, watch, client, told>>

Publish(j) ==
  /\ job[j].at = "publish"
  /\ snapshot' = [held |-> TRUE, at |-> job[j].got]
  /\ To(j, "finish")
  /\ UNCHANGED <<seq, file, required, lastError, inFlight, background, holder, watch, client, spent,
                 told>>

\* The end of a successful operation: what is still to be answered for.
Done(j, stale) ==
  /\ required' = stale /\ lastError' = FALSE
  /\ job' = GenerationMoves([job EXCEPT ![j].at = "lower", ![j].marked = FALSE, ![j].outcome = "ok"])

\* Mutant: the mark is cleared whatever has been marked since the listing.
FinishesUnconditionally(j) ==
  /\ job[j].at = "finish"
  /\ Done(j, FALSE)
  /\ UNCHANGED <<seq, file, snapshot, inFlight, background, holder, watch, client, spent, told>>

\* finish_freshness: only what was marked before the listing is answered for.
Finishes(j) ==
  /\ job[j].at = "finish"
  /\ Done(j, required /\ job[j].marked)
  /\ UNCHANGED <<seq, file, snapshot, inFlight, background, holder, watch, client, spent, told>>

\* A failure keeps the snapshot, marks it stale and is remembered.
Fails(j) ==
  /\ job[j].at = "failed"
  /\ required' = TRUE /\ lastError' = TRUE
  /\ job' = [job EXCEPT ![j].at = "lower", ![j].marked = FALSE,
                        ![j].outcome = "failed"]
  /\ UNCHANGED <<seq, file, snapshot, inFlight, background, holder, watch, client, spent, told>>

\* The guard of refresh_lock is dropped.
Unlocks(j) ==
  /\ job[j].at = "unlock"
  /\ holder' = "none"
  /\ job' = [job EXCEPT ![j] = IF j = "rebuild" THEN [IdleJob EXCEPT !.at = "ending"] ELSE IdleJob]
  /\ UNCHANGED <<seq, file, published, inFlight, background, watch, client, spent, told>>

\* RefreshFlag is dropped before the guard.
Lowers(j) ==
  /\ job[j].at = "lower"
  /\ inFlight' = FALSE
  /\ To(j, "unlock")
  /\ UNCHANGED <<seq, file, published, background, holder, watch, client, spent, told>>

----------------------------------------------------------------------------
(* The auto-reindex task: it awaits each refresh before its next select.   *)

AutoIdle == "autoReindex" \in Features /\ job["auto"].at = "idle"

\* Mutant: the task takes a signal that was never sent.
HearsUnsent ==
  /\ AutoIdle /\ watching
  /\ heard' = heard + 1
  /\ MarkStale(job, heard + 1)
  /\ pending' = TRUE
  /\ UNCHANGED <<seq, file, snapshot, lastError, inFlight, background, holder, watching, client, spent>>

\* A signal reaches the task, or never does.
Hear ==
  /\ AutoIdle /\ watching
  /\ heard < seq
  /\ heard' = heard + 1
  /\ MarkStale(job, heard + 1)
  /\ pending' = TRUE
  /\ UNCHANGED <<seq, file, snapshot, lastError, inFlight, background, holder, watching, client, spent>>

SignalLost ==
  /\ watching
  /\ heard < seq
  /\ Fault("signal")
  /\ heard' = heard + 1
  /\ UNCHANGED <<seq, file, published, inFlight, background, holder, watching, pending, job, client,
                 told>>

\* An error of the watcher leaves only the periodic sync.
WatcherFails ==
  /\ AutoIdle /\ watching
  /\ Fault("watcher")
  /\ watching' = FALSE /\ pending' = FALSE
  /\ UNCHANGED <<seq, file, published, inFlight, background, holder, heard, job, client, told>>

Debounced ==
  /\ AutoIdle /\ pending
  /\ pending' = FALSE
  /\ To("auto", "ask")
  /\ UNCHANGED <<seq, file, published, inFlight, background, holder, watching, heard, client, spent,
                 told>>

\* Mutant: the periodic sync is left to the watcher while there is one.
PeriodicSyncUnwatched ==
  /\ AutoIdle /\ ~watching
  /\ To("auto", "ask")
  /\ UNCHANGED <<seq, file, published, inFlight, background, holder, watch, client, spent, told>>

\* Every tick, whether or not there is a watcher.
PeriodicSync ==
  /\ AutoIdle
  /\ To("auto", "ask")
  /\ UNCHANGED <<seq, file, published, inFlight, background, holder, watch, client, spent, told>>

----------------------------------------------------------------------------
(* The hourly renewal of the freshness encoding.                           *)

RenewalStarts ==
  /\ "freshness" \in Features /\ spent.renewals < MaxRenewals
  /\ holder = "none" /\ snapshot.held
  /\ holder' = "renewal"
  /\ spent' = [spent EXCEPT !.renewals = @ + 1]
  /\ UNCHANGED <<seq, file, published, inFlight, background, watch, job, client, told>>

\* It republishes the snapshot's own notes, or finds nothing to renew.
RenewalEnds ==
  /\ holder = "renewal"
  /\ holder' = "none"
  /\ job' \in {job, GenerationMoves(job)}
  /\ UNCHANGED <<seq, file, published, inFlight, background, watch, client, spent, told>>

----------------------------------------------------------------------------
(* build_index with wait.                                                  *)

\* request_rebuild: one job for all who ask while it is scheduled.
RequestRebuild(c) ==
  /\ client[c].at = "idle"
  /\ client' = [client EXCEPT ![c] = [at |-> "poll", queued |-> ~background, got |-> 0, owed |-> seq]]
  /\ background' = TRUE
  /\ IF background THEN UNCHANGED job ELSE To("rebuild", "ask")
  /\ UNCHANGED <<seq, file, published, inFlight, holder, watch, spent, told>>

RebuildEnds ==
  /\ job["rebuild"].at = "ending"
  /\ background' = FALSE
  /\ To("rebuild", "idle")
  /\ UNCHANGED <<seq, file, published, inFlight, holder, watch, client, spent, told>>

\* wait_for_index_jobs: diagnostics reads the two flags one after the other.
Poll(c) ==
  /\ client[c].at \in {"poll", "pollBackground"}
  /\ client' = [client EXCEPT ![c].at = IF @ = "poll"
                                        THEN IF inFlight THEN "poll" ELSE "pollBackground"
                                        ELSE IF background THEN "poll" ELSE "quiet"]
  /\ UNCHANGED <<seq, file, published, inFlight, background, holder, watch, job, spent, told>>

\* last_error, then the snapshot.
Answer(c) ==
  /\ client[c].at = "quiet"
  /\ client' = [client EXCEPT ![c].at = IF lastError \/ ~snapshot.held THEN "refused" ELSE "answered",
                              ![c].got = snapshot.at]
  /\ UNCHANGED <<seq, file, published, inFlight, background, holder, watch, job, spent, told>>

Return(c) ==
  /\ client[c].at \in {"answered", "refused"}
  /\ client' = [client EXCEPT ![c] = IdleClient]
  /\ UNCHANGED <<seq, file, published, inFlight, background, holder, watch, job, spent, told>>

----------------------------------------------------------------------------
Startup == Preload \/ LoadCompatible \/ PreloadPublishes \/ PreloadMarks

Operating(j) ==
  \/ Ask(j) \/ Coalesces(j) \/ Enter(j) \/ Sample(j) \/ Reuse(j) \/ Build(j) \/ OperationFails(j)
  \/ Publish(j) \/ Finishes(j) \/ Fails(j) \/ Lowers(j) \/ Unlocks(j)

Building(c) == RequestRebuild(c) \/ Poll(c) \/ Answer(c) \/ Return(c)

Next ==
  \/ Edit \/ Startup
  \/ \E j \in Jobs : Operating(j)
  \/ Hear \/ SignalLost \/ WatcherFails \/ Debounced \/ PeriodicSync
  \/ RenewalStarts \/ RenewalEnds \/ RebuildEnds
  \/ \E c \in Clients : Building(c)

Spec == Init /\ [][Next]_vars

\* The runtime runs every task that can run, its mutex is first come first
\* served, and the periodic sync ticks for ever.
Fairness ==
  /\ WF_vars(Startup) /\ WF_vars(RenewalEnds) /\ WF_vars(PeriodicSync) /\ WF_vars(RebuildEnds)
  /\ \A j \in Jobs : WF_vars(Operating(j)) /\ SF_vars(Enter(j) \/ Coalesces(j))
FairSpec == Spec /\ Fairness

----------------------------------------------------------------------------
(* Properties.                                                             *)

\* A snapshot that is not marked stale reflects every change that was ever
\* marked: a mark made while an operation lists the vault outlives it.
MarkedIsIndexed == ~required => snapshot.at >= told

\* A refresh that reports success, by its own listing or by taking another's
\* result, published what had been marked before it asked.
RefreshedSinceMarked ==
  \A j \in Jobs : job[j].outcome = "ok" => job[j].got >= job[j].owed

\* Readers never see the index go back, though startup publishes without the
\* refresh lock and a rebuild, a refresh and a renewal publish with it.
NeverGoesBack == [][snapshot' # snapshot => snapshot'.held /\ snapshot'.at >= snapshot.at]_vars

\* A build_index that queued its own rebuild and waited is answered with a
\* snapshot of everything that had landed when it asked, or with an error, even
\* when the rebuild fails and another operation then succeeds.
WaitedBuildIsFresh ==
  \A c \in Clients : client[c].at = "answered" /\ client[c].queued => client[c].got >= client[c].owed

\* refresh_in_flight is up exactly while an operation works: its flag is dropped
\* before the lock that the next one waits for.
InFlightIsShown == inFlight <=> \E j \in Jobs : job[j].at \in Working

\* With auto-reindex on and a bounded number of failures, every change that
\* lands is in the published snapshot in the end, heard or not; only an index
\* file that startup found incompatible stops it, until a rebuild replaces it.
Indexed(n) == snapshot.held /\ snapshot.at >= n
EventuallyIndexed ==
  \A n \in 1 .. MaxChanges : seq >= n ~> Indexed(n) \/ file.state = "incompatible"
=============================================================================
