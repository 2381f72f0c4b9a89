# Deep Obsidian MCP in TLA+

TLA+ models of the deep-obsidian-mcp server, its command line and its sidecar
(`rust/crates` and `sidecar/livesync-sidecar`), the TLC configurations that
model-check them on small instances, and TLAPS proofs of their main safety
properties for every value of the constants.

The server exposes one or more Obsidian vaults over MCP. A vault is mounted
through one of three backends: a directory (`filesystem`), a CouchDB database
of the Obsidian LiveSync plug-in, reached through a Node.js child process
(`couchdb`), or a versioned corpus on two Algolia indexes shared by several
participants' servers (`algolia`). What is hard in it is not any single
function: it is that vaults have other writers, that requests of concurrent
tool calls interleave at every `await`, that caches vouch for what they hold
with a token or an epoch sampled at another moment, that answers are merged
from mounts that shadow each other and fail, and that children, requests,
commands and processes die between two steps. The models are about that.

## Modules

| module | models | source |
| --- | --- | --- |
| `AlgoliaVersioning` | one note of a shared Algolia corpus: write, soft delete, retract, archive, purge | `backend/src/algolia/{versioning,mod}.rs` |
| `NoteCache` | the directory in which the servers of a machine keep the note texts they fetched | `backend/src/algolia/{cache,reads}.rs` |
| `AlgoliaListing` | the corpus listings, their cache and the generation sentinel | `backend/src/algolia/{generation,reads}.rs` |
| `SidecarFeed` | the CouchDB change feed, its catch-up, the change epoch and the cached manifest | `backend/src/{sidecar,couchdb}.rs`, `sidecar/.../manipulator.ts` |
| `GuardedRegister` | the abstract promise of a guarded write: a compare-and-swap register with a history | - |
| `CouchWrites` | guarded writes and deletes of a CouchDB entry, through every level of retry | `server/src/tools.rs`, `backend/src/{couchdb,sidecar}.rs`, `manipulator.ts` |
| `RuntimeIndex` | the local index of a mount: startup, refresh, rebuild, auto-reindex, renewal, waiting callers | `server/src/{runtime,tools}.rs`, `index/src/index.rs` |
| `IndexBuild` | what a refresh or rebuild does to the index file: diff, rows, embeddings, frequencies | `index/src/{index,embeddings,sqlite}.rs` |
| `VaultUploads` | upload tokens, the PUT handler, the staged commit and the sweep | `server/src/{uploads,bootstrap,tools}.rs`, `backend/src/filesystem.rs` |
| `NoteText` | the text edits: literal edits, sections, manual notes | `server/src/{edits,tools}.rs`, `core/src/text.rs` |
| `VaultTools` | the tools that write a note, composed with `NoteText` | `server/src/tools.rs`, `core/src/vault.rs` |
| `FederatedSearch` | rounds of pages, fusion, the frontier, the last ranking | `server/src/federation.rs`, `backend/src/algolia/recall.rs` |
| `OAuthGrants` | registration, consent, codes, rotation, families, capacity, restarts | `server/src/oauth.rs` |
| `MountsCli` | the commands that write the configuration and the credentials | `cli/src/{mounts_cmd,wizard,secrets_cmd,commands}.rs`, `config/src` |
| `Router` | the merged namespace: owners, listings, walks, greps | `backend/src/{router,virtual_grep}.rs` |
| `MountedVault` | `MountsCli` and `Router` composed: the namespace of what the commands configure | `server/src/mounts.rs` |
| `VaultTransfer` | export, dump, restore, seed and retract of a whole vault | `cli/src/{couchdb_transfer,algolia_cmd}.rs` |

`MCM` gives the values of `M`'s constants to TLC (`MCMountsCli` those of
`MountedVault`, `MCAlgoliaNote` those of `AlgoliaVersioning` and `NoteCache`). `MProofs` has the theorems about `M`, and five proof modules are
about several: `MountedVaultProofs` about `Router`, `MountsCli` and
`MountedVault`, `ServerProofs` about `RuntimeIndex` and `OAuthGrants`,
`SearchProofs` about `IndexBuild` and `FederatedSearch`, `RemoteVaultProofs`
about `AlgoliaListing` and `VaultTransfer`, `VaultWritesProofs` about
`VaultUploads` and `VaultTools`. `PROJECT.json` maps
every definition that translates code to the lines it stands for. Definitions
whose comment begins with "Mutant:" are what a plausible mistake would make of
the definition next to them; no specification uses them, they show that each
property can fail.

    tlc -workers 2 -config uploads.cfg MCVaultUploads
    tlapm VaultWritesProofs.tla

## Inventory

For each component: its state, its operations, what is hard about it, and the
properties that make it correct.

**Algolia versioned store** (`algolia/versioning.rs`). *State*: a main index
with one head record per note and the chunk records of its text, a history
index with one record per older version and its chunks; nothing in memory.
*Operations*: `push_note_version` (fetch the head, mint a version, push the
chunks, archive the previous version, move the head, prune), `soft_delete`,
`retract_note`, `archive_version`, `purge_history`, `list_history`,
`get_version`, and `read_note` in `reads.rs`. *Hard*: Algolia has no
compare-and-swap and no transactions, several servers write the same path, and
an operation may end after any of its requests. *Properties*: no text that was
ever a head is lost other than by retention or retraction; a note is torn only
inside a cutover; what a fork or tombstone names is recoverable; retention keeps
its floor.

**Algolia listings** (`algolia/generation.rs`, `reads.rs`). *State*: the
sentinel object `meta:generation` in the main index and, per process, the token
last seen and three listings. *Operations*: a listing (read token, observe,
look up, browse, store), a mutation's end (bump, clear). *Hard*: the steps of a
listing interleave with other tasks' clears and other processes' bumps.
*Properties*: no listing older than its token; own writes listed; every
announced mutation listed eventually.

**Algolia note cache** (`algolia/cache.rs`). *State*: bodies in files,
`state.json` with their versions and sizes, which each process loads once, a
budget. *Operations*: open, get, put, remove, evict. *Hard*: the outcome of no
file operation is looked at; the process dies between the body and `state.json`;
processes with one index directory share the files and not what they know of
them; puts of slow reads come late. *Properties*: the body served is that of the
version asked for, but for slips with a name.

**CouchDB change feed and cached manifest** (`sidecar.rs`, `couchdb.rs`).
*State*: the child, the cursor of its feed, the watching flag, the change
epoch, the manifest cache and the hash cache. *Operations*: the pump of
notifications, `resume_watch` (catch-up by pages, then watch), `changes()`,
`manifest`, exhaustive grep, own writes. *Hard*: the epoch, the flag and the
cursor are separate atomics read and written at different moments, children
are replaced under requests in flight. *Properties*: no listing older than what
the server was told; a vouched manifest lacks only what is coming.

**CouchDB guarded writes** (`tools.rs`, `couchdb.rs`, `sidecar.rs`,
`manipulator.ts`). *State*: the entry's revisions; for each call its guard and
its attempts. *Operations*: write and upload (with one retry after an ambiguous
conflict), delete, each request retried once by `call_tracked`. *Hard*: an
attempt that timed out may still land, after its retry or after its call was
answered. *Properties*: a guarded call replaces only what it observed; the
whole is a register whose calls take effect at most once and answer truly.

**Sidecar supervisor** (`sidecar.rs`). *State*: the slot of the live child,
`connect_lock`, health, the readiness-recovery task. *Operations*: start and
handshake, rehandshake, probe, recovery, shutdown. *Hard*: recovery, probes and
calls race to replace a child.

**Runtime index refresh** (`runtime.rs`). *State*: the index file, the
published snapshot, `refresh_required`, `stale_generation`, `generation`,
`last_error`, `refresh_in_flight`, `background_rebuild`, `refresh_lock`.
*Operations*: preload at startup, `await_index_operation` by the startup task,
the auto-reindex task and a requested rebuild, marking stale, the renewal of
the freshness encoding, `build_index` with wait. *Hard*: refreshes coalesce,
startup publishes without the lock, a watcher may die, a waiting caller polls
two flags one after the other. *Properties*: an unmarked snapshot has all that
was marked; a successful refresh has what it was asked for; snapshots advance;
waits are honest; every change is indexed in the end.

**Index file** (`index/src`). *State*: the SQLite file: a manifest of sizes and
times, rows of chunks with vectors, document frequencies. *Operations*: a
refresh (diff two manifests, read and embed what changed, commit the difference
in one transaction) and a rebuild. *Hard*: notes change between the scan and
the read, the provider fails or changes the width of its vectors, the
frequencies are maintained and never counted, two servers share the file.
*Properties*: a current manifest entry means a row with the text; frequencies
count the rows.

**Vault uploads** (`uploads.rs`, `bootstrap.rs`, `filesystem.rs`). *State*: the
token store, the chunk channel of a request, the staging file, the destination.
*Operations*: mint, claim, consume, release, purge; pump; stage, stream, check,
rename; sweep. *Hard*: the handler and the commit run side by side, each can
fail or be dropped, tokens expire under them. *Properties*: a token lands once;
destinations are whole; answers are honest; failures can be retried; staging
files are neither orphaned nor taken.

**Write tools and text edits** (`tools.rs`, `edits.rs`, `text.rs`, `vault.rs`).
*State*: the note; for each call what it read. *Operations*: `upsert_note`,
`upsert_session_note`, `edit_note`, `delete_note`; literal and section edits.
*Hard*: the note changes between a call's read and its write, a file is
truncated before it is filled, ranges of sections are computed on an evolving
text, clients retry. *Properties*: a write keeps what it was not asked to
replace; a retry is harmless; a guarded write lands on what was read.

**Federated search** (`federation.rs`, `recall.rs`). *State*: during one
request, the candidates of each mount, its cursor and whether it is exhausted.
*Operations*: a round asks each open mount for a page, fuses, and asks again
until the frontier is stable or the budget is spent; then evidence ranks the
window. *Hard*: stopping one page early drops a hit; ties; failing mounts;
empty pages. *Properties*: a stable answer is the top of everything; better
evidence is first; the search ends.

**OAuth server** (`oauth.rs`). *State*: clients, pending requests, codes,
access and refresh tokens, families, under one mutex; only clients are saved.
*Operations*: register, authorize, consent, token, refresh, prune. *Hard*:
replayed codes and refresh tokens, full maps, restarts with other lifetimes.
*Properties*: nothing outlives its grant; what an answer promised is kept.

**Configuration, secrets and command line** (`cli/src`, `config/src`). *State*:
the configuration file, its backup, the credentials in two stores.
*Operations*: `mounts add` and `remove`, `secrets set`, `setup-service`, the
wizard. *Hard*: a command stores credentials, probes, provisions, writes and
installs, and fails or is killed at any of these. *Properties*: a whole file
loads and its references hold credentials; a torn file can be restored.

**Router** (`router.rs`, `virtual_grep.rs`, `grep.rs`). *State*: the table of
mounts, fixed at start. *Operations*: resolve, list, walk, top-level folders,
grep of a folder or of everything. *Hard*: nested mounts shadow what their
parents hold, and each can fail. *Properties*: what listings, walks and greps
show is what a read finds.

**Transfers** (`couchdb_transfer.rs`, `algolia_cmd.rs`). *State*: the vault, a
local directory with its manifest. *Operations*: export, dump, restore, seed
(with `--move`), retract. *Hard*: both sides change under a command, which can
be killed in the middle of a file. *Properties*: a finished export is true, a
forced restore brings it back, no unseen edit is buried, what was moved is in
the index.

**MCP transport, resources, services, diagnostics**: decoding, composition of
payloads, printing. **sqlite-vec**: vendored.

Interactions: a tool call is resolved by the router to a backend; the CouchDB
backend calls the supervisor, which talks to its child by messages; the
backends' change signals reach the auto-reindex task, which marks the runtime
stale; the runtime lists the vault through the backend and builds the index
file; the command line writes the configuration from which the router's table
is made. So the properties chain. `RuntimeIndex` assumes that a listing has what
landed before it started, which for a CouchDB mount is `SidecarFeed`'s property;
its "reuse or build" of an index file is what `IndexBuild` opens up.
`SidecarFeed`'s own writes are the calls of `CouchWrites`; `VaultTools` and
`VaultTransfer` take a guarded write to CouchDB as one step, which
`GuardedRegister` describes and `CouchWrites` implements, and one to Algolia as
two, the fetch of the head with the decisions made from it and the head record,
which are the ends of the operation that `AlgoliaVersioning` opens up. `MountedVault` joins `MountsCli` and
`Router` in one specification.

## From the code to the models

**`AlgoliaVersioning`.** One note. `head`, `mainChunks`, `histNotes` and
`histChunks` are the two indexes; `op[a]` is what server `a` is executing, one
stage per request. `BuiltNote` is `build_note` with its fork and divergence
rules, `PushChunks`, `BrowsePrevious`, `CopyToHistory`, `DeletePrevious` and
`MoveHead` the requests of `push_note_version` and `archive_version` in their
order, `ListForPurge` and `PurgeOne` the retention, `Retract*` the retraction, `Abort`
a failed request, a timeout or a crash. Versions are numbers; the order in which
they are minted is that of `updatedAtMs` (clock skew is left out). The chunks of
a version are written and deleted by one request each, so they are there or not.
A request takes effect in one step, when its task is published. Provisioning,
facets, `supersededBy` and the participant's identity are left out. Reads change
nothing in the corpus; what they are served is the next module's.

**`NoteCache`.** One note of the cache directory. `file` is its body file, a
version's text or `Broken`; `saved` its version in `state.json`, `known[p]` in
the memory of process `p`. `task[t]` is a read (head lookup, `get`, hydration,
`put`) or the end of a write or a delete (`put`, `remove`) of a request `t`;
`put` is three steps, because another process or a death may fall between them:
the open that empties the file, the write, and the version with `state.json`. An open or a write
that fails is followed by the version all the same (`cache.rs:116`). `persist`
and `remove_file` may fail too, `state.json` may be cut short, which loads as an
empty one, and eviction may take any entry at any put. The mutex of a process
covers its steps and no other process's (`Putting`). Versions are numbers in the
order of the head, moved by `WriteNote`, `DeleteNote` and `PublishedElsewhere`.
`slips` is history: `CacheServesItsHead` names with it what the code does not
prevent, and a whole put ends all but "shared".

**`AlgoliaListing`.** A mutation is a number, its place in the index's task
order; a listing is the number of mutations it reflects, chosen between what had
landed when the browse began and when it ended. `task[k]` walks the stages of
`listing_own`/`listing` (token, observe, lookup, browse, put) or of a mutation
(save, bump, clear). Three kinds of listing share the token and nothing else, so
one stands for all.

**`SidecarFeed`.** Changes are numbered by the update sequence. `child` is the
latest child with its channel (`sent`, `fed`), `slot` what the supervisor holds,
`cursor`, `watching` and `epoch` the supervisor's atomics, `resume[r]` the
`resume_watch` that a handshake (under `connect_lock`) or `changes()` (without
it) runs, `manifest` the cached manifest, `call[c]` a listing, an exhaustive
grep or an own write. The manifest stands for the hash cache too: both keep an
epoch and a liveness flag sampled before their read and trust them under the
same two tests. A child's verdict is always ok. An answer and the updates made
before the next `await` are one step.

**`CouchWrites` and `GuardedRegister`.** The entry is the sequence of its
revisions; a delete is a revision with `deleted: true` and the same content,
never a CouchDB tombstone. A call observes a base, sends up to four attempts
(`call_tracked` retries each of the two requests of `write` once) and resolves
an ambiguous conflict by reading. Each attempt is in a child of its own: a
replaced child may execute a queued request at any time, or never (which is
also how it dies). A call is unguarded only when the tool's read failed for
another reason than absence. Uploads to CouchDB take the same path as writes.
`GuardedRegister` has none of this: a call observes once, takes effect at most
once and only on what it observed, at any time after, even after its answer,
and is answered once, truly. The refinement maps a call to what it is to do,
its base and its answer (`View`), and the revisions to themselves.

**`RuntimeIndex`.** One mount. `job[j]` is `run_index_operation` for the startup
task, the auto-reindex task and the requested rebuild: wait for `refresh_lock`,
coalesce or list, reuse or build, publish, finish, lower the flag, unlock - the
last two are destructors, dropped in that order. A listing, the file and a
snapshot are the number of changes they reflect. The counters `generation` and
`stale_generation` are only ever compared with an earlier reading of themselves,
so a reading is one Boolean: has it moved since. A restart is `Init` with any
index file. Backoff times, the aggregation over mounts, poisoned locks and the
five-minute limit of the wait are left out, and so is an edit that size and
mtime do not show.

**`IndexBuild`.** `file` is the vault: a stamp (size and time) and a set of terms
per note. `db` is the index file as last committed, `job[b]` what a builder has
in hand: the index it loaded, its scan, the notes it has still to read, the rows
it got. A commit is one transaction. Vectors have one of two widths, or are
missing; a change of width or of configuration forces a rebuild. `raced` records
that a refresh was committed over an index other than the one it had loaded,
which only another process can cause; from then on the properties say nothing
until a rebuild.

**`VaultUploads`.** All tokens are bound to one destination. `put[p]` has both
sides of a request: the handler's task (claim, pump, await, answer) and the
commit on its blocking thread (create, stream, check, rename), joined by the
chunk channel, whose end is `whole`, `cut` (sender dropped without an error) or
`error`. Time is two steps: a token expires, a staging file has not been written
to for `STAGING_TTL`. The sweep and the mint of `request_vault_upload` are one
step. A shutdown drops handlers one by one. A panicking commit is left out.

**`NoteText` and `VaultTools`.** A text is a sequence of lines; a heading is a
line with a level and a title. `NoteText` translates `edits.rs` (which matches a
literal edit addresses, what range a section has, where a new one goes) and the
frontmatter and manual notes that an upsert keeps. A title in a request may have
blanks around it, which a heading created for it has not (`Trimmed`). Fenced
code, setext headings and matches inside a line are left out. `VaultTools` runs
calls on one note: read, compute, write, delete. What a write is depends on the
mount (`FitsMount`): a directory truncates the file and then fills it
(`Opens`, `Fill`); CouchDB compares and swaps in one step and may refuse
(`BaseHolds`, `WriteRefused`), and goes on showing the text of a deleted entry to
a read; Algolia fetches the head, decides whether it is a fork and what becomes
of the mark (`Fetch`), and then saves its own head over whatever is there
(`Push`), and its delete likewise (`Deleting`, `Delete`). `diverged` is the mark. A content hash is the text.
The properties that speak of `Result(req, ...)` apply the text functions of
every request to every note that the interleavings can produce.

**`FederatedSearch`.** A candidate is its mount and its rank there. `list[m]`
is what mount `m` has given, `queue` whom the round has still to ask, `served`
a native cursor. A local mount answers with the first `n` of its ranking, a
native one with its next page, whose order may shift between pages. Scores are
exact fractions of `Scale`; floating point is left out, with local scoring.

**`OAuthGrants`.** A request holds the mutex from start to end, so it is a step.
Random values are numbers, a hash is its value; a lost answer or a repeated
request is a client presenting any credential made so far. `Prune` runs where
the code runs it, and `Pruned` is what the next request would find. Grants,
their start and what each answer promised are history variables.

**`MountsCli`.** `cmd` is the command being run with the configuration it is
building; each store of a credential, probe, question, write (back up, truncate,
fill), installation and rollback is a step that can fail or be the last. Values
of credentials are not modelled, only which reference holds one. The operator
edits the file and restores its backup between commands.

**`Router` and `MountedVault`.** `Router` is operators: a path is the sequence
of its names, a table the sequence of its mounts, and what a backend answers
follows from the set of notes it holds or is a failure. The fast path for a
single mount at the root gives the same answers and has no definition of its
own. `MountedVault` says, for each configuration the commands can leave, that
for every order of its mounts, everything they may hold and every set of mounts
that fail: descending the listings finds what reads find, a walk misses nothing,
the top-level folders are those of the root's listing, a grep of a folder finds
what is in it, and asking all mounts at once for a grep gives the answer of
asking one after the other. TLC evaluates the tables that pass once.

**`VaultTransfer`.** A vault of entries with their revisions, a local directory,
its `manifest.json`. A command goes through the paths in order, one request or
file operation a step; a kill in the middle of a file leaves it cut short.
Other devices and editors change both sides at any time. A write to CouchDB is
one step, guarded by the revision that was read; one to Algolia fetches the head,
decides whether it forks (`AlgoliaFetches`, `SeedFetches`), and then saves its
own (`Pushes`).

## Runs

Every run passes, and between them they fire every action and disjunct.

| run | instance | shows |
| --- | --- | --- |
| `algolia_note` | corpus: 2 servers, 2 texts, 4 versions, floor 2; cache: 2 processes with 2 and 1 requests, 2 versions, failing files | `TextNeverLost`, `TornOnlyInCutover`, `OvertakenIsArchived`, `RetentionFloor`, `CacheServesItsHead` |
| `listing_coherence` | 2 processes with a task each, 2 mutations, every fault, fairness | `AnnouncedIsListed`, `OwnWriteIsListed`, `EventuallyListed` |
| `feed_coherence` | 1 caller, both armers, 1 change, 2 children, deaths and failed requests | `ToldIsListed`, `OnlySlipsAreLost` |
| `couch_writes` | 2 calls, 2 texts, 2 revisions | `NoLostUpdate`, `ImplementsRegister` (the refinement) |
| `runtime_index` | 1 client, 1 change, 1 fault, 1 renewal, any index file, fairness | `MarkedIsIndexed`, `RefreshedSinceMarked`, `WaitedBuildIsFresh`, `NeverGoesBack`, `EventuallyIndexed` |
| `uploads` | 2 tokens, 3 requests, capacity 1, every fault | `LandsAtMostOnce`, `DestinationIsWhole`, `AnswersAreHonest`, `StagingIsTidy` |
| `mounts_cli` | 2 ids, 2 places, 3 commands; every table of them, and one of 3 nested mounts | `ConfigServes`, `Recoverable`, `NamespaceIsWhole`, `GrepsAreHonest` |
| `vault_tools` | 2 calls, 11 requests and deletes, 2 texts, 2 changes, each kind of mount | `WritesKeepTheRest`, `RetryIsHarmless`, `WholeUnlessOverlapped`, `LandsOnWhatItSaw`, `DisagreementsShow` |
| `index_build` | 2 builders, 2 notes, 1 term, 3 edits, 3 jobs | `ManifestMeansIndexed`, `FrequenciesCountRows` |
| `oauth_grants` | 3 clients, capacity 2 and 3, 5 ticks, 3 consents, 4 answers | `NothingOutlivesItsGrant`, `PromisesAreKept` |
| `federated_search` | 2 mounts of 4 kinds, weights 1 and 2, limit 3, window 4, budget 4, 4 candidates each | `StableIsTop`, `Terminates` |
| `vault_transfer` | 1 note, 1 attachment, 2 texts, 4 revisions, 2 edits, 2 commands, both kinds of mount | `SnapshotIsTrue`, `RestoreBringsBack`, `MovedWasHeld`, `NothingIsBuried` |

Why the bounds are enough. In `AlgoliaVersioning` three versions are a first
head and two that race to replace it, the case the cutover is designed for, and
a fourth lets a purge keep two and remove one while another purge runs; two
servers are both sides of every race, as no rule looks at more than a head, its
parent and its fork. In `NoteCache` two versions are one in the cache and its
successor, and a third request is the late put beside a write and a read. The run has both
modules, which share no variable and no property: each runs while the other has
not begun, as TLC need not look at their interleavings. In `AlgoliaListing` the run has one task per process, which
is what a bump and a liveness claim need; a listing in flight across a local
clear needs a second task of the process and is covered by the theorems. In
`SidecarFeed` two children are one replacement; the run has one change to stay
small, the theorem covers any number. In `CouchWrites` two calls race each other
and other devices; each call in the run meets one kind of failure, so one call
meeting both (four attempts) is left to the theorems. In `RuntimeIndex` one
change suffices to be marked, missed, coalesced or lost. In `VaultUploads` three
requests and two tokens let two requests share a token while a third is
elsewhere, and capacity one makes the store refuse.

The other runs carry their result alone. In `VaultTools` the note has a section,
one nested in it, frontmatter and manual notes, the person's text repeats a
heading and has an unclosed fence, and the requests are one of each kind; two
calls and a person are a read, an edit in between, and a write; two changes are
that edit and one write, or two writes, each decided before the other landed. `Words` are those
of these texts. In `IndexBuild`
two notes are one that changes and one that does not, three edits a note made,
changed and removed, three jobs a rebuild, a refresh and one by the other
process. In `OAuthGrants` capacity two is filled by two grants and met by a
third; five ticks outlast every lifetime. In `FederatedSearch` a budget of four
against pages of three stops some searches and not others, and a window one
longer than the limit has a candidate that only the last ranking can bring in.
In `MountsCli` two ids are the mount being added and one that was there; three
commands are one that leaves a state and two that start from it. In
`MountedVault` each mount may hold a note above, beside and inside the folder
where the other is. In `VaultTransfer` two commands are a copy out and a copy
back; two edits are one before and one during a command.

`MaxChanges`, `MaxChildren`, `MaxEpoch`, `MaxRev`, `MaxRevisions`, `MaxWrites`,
`MaxVersions`, `MaxPublished`, `MaxFaults`, `MaxRenewals`, `MaxEdits`, `MaxJobs`, `MaxCalls`,
`MaxCommands`, `MaxTransfers`, `MaxRequests`, `MaxIssues`, `MaxTime`, `MaxPages`
and `MaxLen` cap counters in guards; `MaxEpoch` limits only when own writes start.
`Names`, `Folders`, `Notes`, `Handwritten` and `MaxFound` of `MountedVault` bound
what `NamespaceIsWhole` and `GrepsAreHonest` range over in a run. Interchangeable servers,
requests, texts, tokens, builders, clients and calls
are symmetric in runs without liveness only. `CHECK_DEADLOCK FALSE` is given where a
behaviour ends once its calls, commands, jobs or requests are used up:
`couch_writes`, `mounts_cli`, `vault_tools`, `index_build`, `oauth_grants`,
`federated_search` and `vault_transfer`.

## Fairness

Only the three liveness properties assume any.

`AlgoliaListing!FairSpec`: weak fairness of the steps of a listing and a
mutation once started - the async runtime polls what is ready - and of each
process starting a listing now and then, as clients poll `resources/list`
and `vault_info`. `EventuallyListed` is conditional: if from some moment on no
request fails and no process dies, then what was announced, before or after, is
listed by every process. It says nothing of a mutation whose bump was lost.

`RuntimeIndex!FairSpec`: weak fairness of startup, of an operation's own steps,
of the end of a renewal and of the periodic sync, whose `tokio::time::interval`
ticks for ever; strong fairness of taking `refresh_lock`, because
`tokio::sync::Mutex` is FIFO, so a waiter among others who keep taking the lock
is served. Nothing is assumed of the watcher or of a client. `EventuallyIndexed`
is the promise of the auto-reindex section of `CONFIGURATION.md` and holds with
a bounded number of failures, except while the index file is incompatible:
startup then leaves it to an explicit rebuild.

`FederatedSearch!SearchSpec`: weak fairness of `Next`, a single sequential request:
each call to a mount ends, with an answer, an error or its time-out.

## Proofs

Of a state machine, every theorem is `Spec => []Inv`, `Spec => [][A]_vars` or
`Spec => Register!Spec`, for any values of the constants that satisfy the
module's one assumption (disjointness of the model values, naturals for the
bounds, known names of faults). Each proof has an inductive invariant, that it
holds initially, one lemma or step per action, and the theorems as corollaries.
Specifications that share a proof module with another have names of their own
(`GrantsSpec`, `TransferSpec`, `SearchSpec`, `ToolsSpec`). What an action does not
touch is left to one lemma per group of actions; what several steps need of a
record, a set or a sequence is a lemma about the operator.

- `AlgoliaVersioningProofs`: `OpInv` says what an operation at a given stage has
  already secured - from `delete` on, that the version it fetched is archived;
  from `browse` on, that its own chunks are in the main index. Versions of
  operations in flight are distinct and unpublished, so nobody else's deletion
  can be of the chunks that an operation is about to publish. That is what
  `TextNeverLost` alone does not say and needs. `FloorInv`: a version is purged for the more recent ones a purge leaves, and
  stays justified while these are purged in turn, because each of them leaves as
  many that are more recent still (`PurgesLeaveTheFloor`, on cardinalities).
  `NoteCache`: `CacheInv` says that while nothing slipped the body file is that
  of the version a process has in memory, and of the one in `state.json`, unless
  the head has left that version behind and no request asks for it any more; and
  that a put in progress is the only one. So `CachedTextIsTheHeads`.
- `RemoteVaultProofs`, about the two modules of vaults that others write too.
  `AlgoliaListing`: tokens announce ever more, and a listing past its browse
  covers its token and its process's own mutations (`Covers`); caches hold only
  what covers the token they hold it under (`CachesAreCoherent`).
  `VaultTransfer`: `TInv` ties what a command found, read, wrote and removed to
  what the vault held since it began. `ExportOK` says that of every path that
  stayed where it was the row is a revision that existed and the file its text;
  `RestoreOK`, that each file already gone through is what the vault holds, as
  long as nobody else writes; `SeedOK`, that a file is removed only after its
  text was verified as live. `Decided`, that the mark a write to Algolia is
  about to save accounts for the head it fetched, for as long as that one is
  there; a write to CouchDB lands on the revision read just before. So
  `NothingBuried` is an action property of the same invariant.
- `SidecarFeedProofs`: what is stamped with the present epoch reflects all that
  was told; what is stamped with a past one can serve only a call that sampled
  that same epoch, and so was owed no more (`Compatible`). Any callers, children
  and faults, answers that arrive after their child was replaced included.
  `NothingElseIsLost` (`OnlySlipsAreLost`) needs in addition that the watching
  flag is up only when the latest child has armed its feed (`Arming`), which is
  false under the fault `slowAnswer`; so the theorem is under the hypothesis
  that this fault does not occur, and for any other faults. `Certified` then
  composes the resumptions: what is not in the feed of an armed child is in a
  catch-up still running or has slipped between one and the watch.
- `CouchWritesProofs`: an attempt that passed its check did so at the call's
  base, a revision belongs to an answered attempt, and a call that has met no
  ambiguous failure has one attempt only. From the same invariant,
  `ImplementsTheRegister`: initial states map to initial states and every action
  to an action of `GuardedRegister` or a stutter, for any calls, texts and
  failures. `RefusalsAreHonest`, `WritesAreInHistory` and `DeletesAreInHistory`
  say in `CouchWrites`' own terms what the refinement implies, and the reverse
  for a successful answer.
- `ServerProofs`, about two parts of the server that end what they promise.
  `RuntimeIndex`: the lock leaves one operation between its listing and its
  end; its listing is no older than file and snapshot and, until something is
  marked, than what had been marked. A waiting client is covered by a rebuild
  that has not listed yet, by one whose listing is young enough, or by an error
  that no older listing can hide.
  `OAuthGrants`: `Sound` says that a grant is in one place at a time - on a
  consent page, in a code, or begun, and then with one family or with tokens of
  none; a replayed grant is nowhere; a family's refresh ends a whole lifetime
  after its start; and every promise still due is kept by a token or by the
  current refresh of a family that outlasts it. Each operation of the mutex is
  shown to keep it from any map, pruned or not. `Bounded` adds the capacities to
  the types.
- `SearchProofs`, about how an index is filled and how mounts are asked.
  `IndexBuild`: a builder's rows are those of the index it loaded or were read
  since its scan, a commit makes the manifest that of rows that are there, and
  the frequencies of the union of two disjoint sets of rows are sums.
  `FederatedSearch`: `SearchInv` says that as long as no ranking shifted, what
  was read of a mount is in order and has no gap but those superseded hits
  leave. `TheFrontierIsEnough` is the argument the code rests on: a candidate
  not read yet has no more than the share of the mount's next rank, shares fall
  with rank, so if none of the first `Limit` is below a frontier, adding any
  further candidates leaves the first `Limit` of the order unchanged.
  `EvidenceDecides`, which no run checks, says of the last ranking that better
  evidence is first.
- `VaultWritesProofs`, about what clients write.
  `VaultUploads`: a pending token has no request at work and none that
  landed (`Taken`), and a request at work is alone with its token (`Alone`); so
  a claim finds its token free, a release frees a token that did not land
  (`FailuresCanBeRetried`), and a body cut short belongs to a dropped handler.
  The capacity uses the library's facts on finite sets. A staging file belongs
  to a request at work or to a process that ended (`StagingTidy`).
  `VaultTools`: `ToolsInv` says that a call on CouchDB with a precondition still
  holds what the note was at that version (`SawItsBase`), that the mark a call on
  Algolia is about to save is right as long as the head is the one it fetched
  (`MarkIsRight`), and that a file nobody writes holds a text somebody meant
  (`FileInv`). The rest is about `NoteText`, for any
  note: an updated section is the old text with one run of lines replaced
  (`IsUpdated`), a created one is the old text with a run inserted (`IsCreated`),
  and a section whose lines moved together, with the heading that ends it, has
  its text in the new note (`KeptWhole`). A retry finds the section it wrote
  (`UpdatedAgain`, `CreatedAgain`), which already holds the body, and writing
  that again changes nothing but blank lines (`BodyStays`).
- `MountedVaultProofs`, about `Router`, `MountsCli` and their composition.
  About the router's operators, for every table that the loader accepts, of any
  length, whatever the mounts hold and whichever fail: prefixes of one path are
  comparable and equal when they are as long, so every path has one owner
  (existence by the well-foundedness of the naturals). Relative and logical
  paths are inverse. A note that a listing shows is its owner's: a mount that
  contains the note and not the folder is the note's own name, and then grafted
  over it. A note that a grep shows is its owner's too, because a scope with
  another mount in it is refused. A walk misses nothing that is found.
  `EveryTableIsWhole` joins them, with the descent of the listings, which is an
  induction on the depth of a folder. A grep of every mount is summed mount by
  mount; `Honest` says what the sum of the first ones claims (its matches are the
  first of theirs, it is exhausted only if the budget lasted up to the latest of
  them and each looked everywhere, it names those that failed), `StaysHonest` that one more
  answer keeps it so, and `EveryGrepIsHonest` counts along the table.
  About the commands, `CliInv`: no credential is forgotten but by a rollback or
  by disabling the authentication; a command past its validation builds what
  loads; the backup is the last whole file (`ConfigurationServes`,
  `ConfigurationIsRecoverable`). `NamespaceWhole` composes the two: a whole
  configuration loads, what loads makes a table in every order of its mounts,
  and every table is whole. `GrepsHonest` is the same for the greps.

Induction over data. The library's induction theorems cannot be used, so what
these proofs need by induction (a search through a table, the last of a
sequence, the descent of a listing, what a text says line by line) argues by
least counterexample, from the well-foundedness of the naturals, on a set that
is defined for it. `RecursionExists` shows in the same way that a function
defined by recursion along a well-founded step exists and has the values its
definition says; `HandedOn`, that what holds at the start and is handed on by
each step holds everywhere. `Counted` and `Counting` are their simpler forms for
functions of a number (what the greps of the first mounts come to).

Failed attempts showed where a model was wrong or said less than it meant.
`Notes` may not end in the name of a folder on the way to a mount: beside a
mount at `x.md/y`, a note `x.md` is read but not listed, because
`child_listing` drops the own entries that have a grafted name (`router.rs:703`).
`Ids` has to be finite, as a configuration is; `Scale` positive; the frequencies
of `IndexBuild` are counts of rows and not of notes.
The invariant of `VaultTools` needs every text to be one. `RetryIsHarmless` used
to claim more than holds: a batch whose second edit undoes part of the first is
not repeatable, nor is a section whose body opens a heading that is not below
the section's own level in the note (which may differ from the edit's `level`),
nor one that takes nested sections and is created in front of a deeper heading,
which the retry then takes as nested, nor one
created for a heading with blanks around it, which is trimmed and not found again. `Repeatable` says exactly what is left;
`edit_note` declares no `idempotentHint`, so the code promises no more.
Model-checked only: the three liveness properties, which are out of the prover's
reach. Every other property of a run is a theorem.

## What the models say against the documentation

The properties of the runs are stated so that they hold of the code, and each
exemption in them is one of the following.

*Algolia.*
- `docs/algolia-mounts.md:121` promises that replaced versions reach the
  history. A version that two writers replace at once is overwritten as head
  without being archived (`versioning.rs:301`): the winner archives what it
  fetched, not what it overwrites. Its text survives as a fork.
- `generation.rs:213` bounds the staleness after a lost bump by a window. One
  lost bump (`:296`) leaves another process's listing stale until the next one.
- `versioning.rs:224`: the divergence flag is computed from the head fetched, so
  a concurrent writer's flag, meant to be sticky (`:125`), can be overwritten. A
  reader that fetched the head just before a cutover finds no chunks
  (`reads.rs:158`) although nothing crashed.
- `versioning.rs:162` says of a stale base that "nothing is lost and the
  disagreement is visible", and `:171` that the fork path covers the window
  between the comparison of the hash and the write; `algolia_cmd.rs:884`, that a
  note edited between a restore's read and its write "forks and records a
  divergence rather than silently winning". The fork is decided from the head
  fetched at `:184`, and the head record is saved at `:296` over whatever is there
  by then. A version that lands in between is replaced without a mark.
  `DisagreementsShow` and `NothingIsBuried` except exactly that, a head that
  moved after it was fetched; without the exception TLC refutes both.
- `cache.rs:37-40` says that a note edited by another participant can never be
  served stale. `NoteCache` refutes it without any fault: two
  servers with one index directory (`mod.rs:248`, `:860`) use the same files, and
  the late put of one leaves an older text under the version that the other has
  in memory. Alone in its directory a process serves the wrong text when the body
  could not be written and the version was recorded all the same (`:116`), when
  it died inside a put, or when `state.json` was not written after one: then the
  one that opens the directory next finds a version and a body of different
  puts. `get` compares neither hash nor size. `CacheServesItsHead` names the four.

*CouchDB.*
- `sidecar.rs:2033` puts the catch-up first because a change made before the
  subscription is otherwise lost; `resume_watch` then watches from "now"
  (`:2070`), and a change between the two is in neither. `OnlySlipsAreLost` names these slips.
- `sidecar.rs:2081` sets the watching flag before the epoch moves, while the
  comment at `:2092` orders them otherwise; and the late answer of a replaced
  child can set it for its successor. `SidecarFeed` has both, the second under
  the fault `slowAnswer`, with which `OnlySlipsAreLost` fails and `ToldIsListed`
  is still a theorem.
- `sidecar.rs:2423` has a delete make "one attempt, and a conflict means a
  conflict"; but `call` (`:2435`) sends it again when its connection dies
  (`:2155`), and one that landed unseen then conflicts with itself. `GuardedRegister` calls this answer "unsure".
- `couchdb.rs:1038`: after an ambiguous conflict, a tombstone that still holds
  the desired text counts as a success, and `couchdb.rs:1079` says "nothing was
  written" of a write that may be. An unguarded write retried by
  `sidecar.rs:2331` can land twice. So a success is about the history, not the
  present content.
- A soft delete keeps the entry's text and a read shows it, as `couchdb.rs:12` says:
  a tool reads a deleted note as if it were there, and its write brings it back.

*Uploads and tools.*
- A handler dropped while it pumps (shutdown, `commands.rs:2538`) ends the channel
  without an error, and the commit renames the truncated body, although
  `filesystem.rs:438` leaves the destination untouched on any failure. So
  `DestinationIsWhole` exempts dropped handlers. A handler dropped while it awaits
  leaves its token in flight, outside every purge, until the process ends.
- `filesystem.rs:576`: a staging file is never taken from a concurrent upload - of
  one that keeps writing. An upload silent for longer than `STAGING_TTL` loses its
  file and then fails; `LiveStagingIsKept` exempts it, and `AnswersAreHonest`
  shows that the failure is reported.
- `expected_hash` is compared and the file then renamed or written over: an edit
  between the two is overwritten, on a directory.
- `filesystem.rs:332` calls the text write an atomic rename; `vault.rs:326`
  truncates and fills. A concurrent read may see an empty note, and two
  overlapping writes leave the tail of the longer one (`WholeUnlessOverlapped`).
- `upsert_note` and `upsert_session_note` parse `verbosity` after the write
  (`tools.rs:5124`): a bad value is an error for a write that landed.
- Setting a section without its nested ones to a body that opens headings is not
  idempotent: a retry sees the headings as nested and keeps them once more. A
  section created with `includeSubsections` in front of a deeper heading swallows
  it when retried. `createIfMissing` with blanks around its heading looks for
  the heading as given (`edits.rs:262`) and creates it trimmed (`:342`), so that
  every retry adds a section. `Repeatable` leaves these out.

*Index.*
- A `build_index` that finds a rebuild already running waits for that one, which
  may have listed the vault earlier; `WaitedBuildIsFresh` is about callers that
  queued their own.
- A note whose embedding failed is not tried again until it changes, and
  `artifact_embedding_error` stays. An empty vault with embeddings is rebuilt
  each time.
- Two processes on one index file: a refresh patches the file it did not load,
  and leaves drifted frequencies, orphan and missing rows until a rebuild.

*Command line.*
- `wizard.rs:611`: the rollback of a failed setup removes the credentials this
  run stored; when the installation fails, the configuration that refers to
  them is written already. `mounts_cmd.rs:496`: when the second credential of a
  mount is refused, the first stays. `mounts_cmd.rs:1272`: adding a mount whose
  hand-written reference another mount shares overwrites, or rolls back, a
  credential in use. `setup-service --no-auth` deletes the token before the
  configuration is written.
- The file is truncated before it is filled; one rewritten unchanged has no new
  backup, and one that cannot be read overwrites its backup (`excused`).

*Router.*
- `router.rs:815` says that two mounts cannot own the same logical path. A
  walk, and a grep of everything, nevertheless show the notes a parent holds
  under a folder where a mount is grafted, which
  `docs/migration-and-rollback.md` produces (`seed` without `--move`). Reading
  such a path gives the nested mount's note. Listings hide them
  (`ListedIsFound`), the test at `router.rs:1530` covers only those.
- `child_listing` takes any failure of the owner for "not found" when a mount is
  grafted below: an unreachable mount is silently missing from the listing,
  while a walk fails and a grep names it.
- `lib.rs:751` has a grep say whether its matches "are ALL of them", and the
  comment at `router.rs:1039` refuses `exhausted: true` for an answer that dropped
  matches. The budget is tested only before a mount: what the last mount of the
  table found past the limit is dropped with `exhausted` still true (`:1064`), as
  a single mount's own search stops at the limit and says that it was exhaustive
  (`couchdb.rs:1277`). `GrepsAreHonest` exempts the last mount in an answer that is
  as long as its limit; with a limit of 1 and one mount of two matches, TLC
  refutes it without the exemption.
- A grep with `Team/*.md` on a mount at `Team` becomes `*.md`, which matches at
  any depth in a directory or a CouchDB vault, and only the top in an Algolia
  corpus. On a CouchDB mount the star crosses folders anyhow (`virtual_grep.rs:172`),
  which ripgrep's does not; and a grep of every mount with `*.md` sees only the top
  of an Algolia corpus (`algolia/grep.rs:354`), although `router.rs:870` has the same
  glob correct against every mount. A glob with a folder matches nothing in a directory mount unless
  the server was started in that directory (`virtual_grep.rs:126`), and the
  answer still says that everything was searched; the remedy that the refusal at
  `router.rs:906` suggests is of this form when the mount is nested deeper.

*Federated search.*
- `federation.rs` says that summing shares "in practice never adds two terms". A
  native cursor is a page number: a note written between two pages repeats a
  hit, whose shares add up (`shifted`).
- A page whose hits are all superseded closes a mount that has more, which only
  `exhausted: false` shows.

*OAuth.*
- A code is consumed even when its exchange is refused for want of room. The
  registry never shrinks: once full, registrations are refused for ever.

*Transfers.*
- A tombstone is read with its content, so `couchdb restore` of a soft-deleted
  note with the exported content reports "unchanged" and leaves it deleted
  (`couchdb_transfer.rs:599`), and with other content refuses without `--force`,
  against `:14-17`. Export reads bytes, then the revision (`:357-371`), so the
  recorded revision need not be the one of the bytes.
- An export into a used directory leaves files of notes since deleted, which a
  restore creates again; hashes of the manifest are never verified, so a file
  cut short can be restored.
- `seed --move` removes a file without reading it again: an edit since the seed
  read the tree is lost (`algolia_cmd.rs:549-579`). `retract` destroys versions
  added after its confirmation was shown. A restore does not honour
  `share: false`.

## Not modelled

What is left, and why.

- The supervisor's readiness recovery, probes and shutdown: `SidecarFeed` and
  `CouchWrites` allow a child to be lost or replaced at any step, so their
  results do not depend on when the supervisor decides it. Whether recovery
  ends depends on wall-clock back-off and on the child's own verdicts.
- The note cache's budget: `NoteCache` lets any put evict the entry; which one
  the budget takes is a matter of sizes.
- Provisioning, attachments and facets of Algolia; key derivation, encryption
  and E2EE chunks of LiveSync: the sidecar's third-party library.
- Fenced code and matches inside a line in `NoteText`: a text is lines. Diffs only
  render.
- Chunking, lexical and vector scores, `sqlite-vec` (vendored): numeric.
- MCP decoding, resources, the payloads of the reading tools, prompts,
  diagnostics, services and installers: input, output and printing, with no
  state between calls.
- The OAuth throttle of failed passwords, redirect checks, PKCE and pages.
- The watcher's ignore rules; `RuntimeIndex` lets a signal be lost at any time.

Two hazards have no property because the code does not defend against them: an
edit between the comparison of `expected_hash` and the rename
(`filesystem.rs:485`), and two servers refreshing one index file
(`index.rs:3761`). Two more are outside what is modelled: an entry whose chunks have
not replicated is skipped by the watch and never notified
(`manipulator.ts:1377`), and the shifting pages of a native search
(`recall.rs:119`), in which `StableIsTop` makes no claim. The models contain the
first, second and fourth, and exempt them by name.
