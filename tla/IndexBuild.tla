----------------------------- MODULE IndexBuild -----------------------------
(***************************************************************************)
(* How an index file is refreshed and rebuilt (index/src/index.rs,         *)
(* embeddings.rs, sqlite.rs): the diff of two manifests, the notes it      *)
(* reads again, their embeddings, and the transaction that replaces rows,  *)
(* manifest and document frequencies.                                      *)
(*                                                                         *)
(* Each process that serves the vault has a builder, and they share one    *)
(* index file; a builder runs one job at a time (RuntimeIndex).  A note is *)
(* the set of its terms; the chunks of a note are one row with it.  A      *)
(* scan sees the vault at one moment: what is said of it is said of each   *)
(* note alone.                                                             *)
(***************************************************************************)
EXTENDS Naturals, FiniteSets, FiniteSetsExt

CONSTANTS Builders,   \* the processes
          N,          \* notes, in the order of their paths
          Terms,
          Configs,    \* the embedding configurations of the builders
          MaxEdits,   \* bound: changes of the vault
          MaxJobs     \* bound: jobs begun

ASSUME IndexAssumption ==
  /\ N \in Nat /\ MaxEdits \in Nat /\ MaxJobs \in Nat
  /\ Configs \subseteq {"sparse", "embedding"}
  /\ IsFiniteSet(Terms)

Notes == 1 .. N
Widths == 1 .. 2         \* of the provider's vectors; 0 is no vector
NoRow == [there |-> FALSE, terms |-> {}, width |-> 0]
Row(terms, width) == [there |-> TRUE, terms |-> terms, width |-> width]
Rows == [there : BOOLEAN, terms : SUBSET Terms, width : {0} \cup Widths]

VARIABLES
  file,     \* the vault: [stamp, terms] of each note; stamp 0 is no file
  clock,    \* the last stamp: a manifest entry is the size and time of a file
  width,    \* of the vectors the provider returns now
  db,       \* the index file, as last committed
  job,      \* what each builder is doing
  jobs,     \* how many were begun
  raced     \* history: db holds a refresh that was based on an older index

vars == <<file, clock, width, db, job, jobs, raced>>

Stamps == [Notes -> 0 .. MaxEdits]
NoIndex == [there |-> FALSE, backend |-> "sparse", provider |-> "sparse", dims |-> 0, tables |-> 0,
            snap |-> [n \in Notes |-> 0], row |-> [n \in Notes |-> NoRow], df |-> [t \in Terms |-> 0]]
Idle == [at |-> "idle", how |-> "none", config |-> "sparse", base |-> NoIndex,
         snap |-> [n \in Notes |-> 0], todo |-> {}, got |-> [n \in Notes |-> NoRow], dims |-> 0]

Index == [there : BOOLEAN, backend : {"sparse", "embedding"}, provider : {"sparse", "embedding"},
          dims : {0} \cup Widths, tables : {0} \cup Widths, snap : Stamps, row : [Notes -> Rows], df : [Terms -> Nat]]

TypeOK ==
  /\ file \in [Notes -> [stamp : 0 .. MaxEdits, terms : SUBSET Terms]]
  /\ clock \in 0 .. MaxEdits /\ jobs \in 0 .. MaxJobs /\ width \in Widths /\ raced \in BOOLEAN
  /\ db \in Index
  /\ job \in [Builders -> [at : {"idle", "scan", "read", "embed", "commit"}, how : {"none", "refresh", "rebuild"},
                           config : {"sparse", "embedding"}, base : Index, snap : Stamps,
                           todo : SUBSET Notes, got : [Notes -> Rows], dims : {0} \cup Widths]]

Init ==
  /\ file = [n \in Notes |-> [stamp |-> 0, terms |-> {}]]
  /\ clock = 0 /\ width = 1
  /\ db = NoIndex
  /\ job = [b \in Builders |-> Idle] /\ jobs = 0
  /\ raced = FALSE

Manifest == [n \in Notes |-> file[n].stamp]
Stays == UNCHANGED <<file, clock, width>>
Goes(b, j) == job' = [job EXCEPT ![b] = j]

\* diff_snapshots
Added(j) == {n \in Notes : j.base.snap[n] = 0 /\ j.snap[n] # 0}
Modified(j) == {n \in Notes : j.base.snap[n] # 0 /\ j.snap[n] \notin {0, j.base.snap[n]}}
Deleted(j) == {n \in Notes : j.base.snap[n] # 0 /\ j.snap[n] = 0}

\* The notes a job reads again.
Prepared(j) == IF j.how = "rebuild" THEN {n \in Notes : j.snap[n] # 0} ELSE Added(j) \cup Modified(j)

----------------------------------------------------------------------------
(* A job.                                                                  *)

\* An embedding index without its vector tables is not loaded.
Loads(i) == i.there /\ (i.backend = "embedding" => i.tables # 0)

\* same_semantic_config: an index that fell back to sparse is not the same.
SameConfig(i, config) == IF config = "sparse" THEN i.backend = "sparse" ELSE i.backend = i.provider /\ i.provider = config

\* get_search_index_from_source, or build_index_from_source: an index that is
\* there is the base of a refresh.
Begin(b) ==
  /\ job[b] = Idle /\ jobs < MaxJobs
  /\ jobs' = jobs + 1
  /\ \E config \in Configs, how \in {"refresh", "rebuild"} :
       Goes(b, [Idle EXCEPT !.at = "scan", !.config = config,
                            !.how = IF Loads(db) THEN how ELSE "rebuild",
                            !.base = IF how = "refresh" /\ Loads(db) THEN db ELSE NoIndex])
  /\ UNCHANGED <<db, raced>> /\ Stays

\* A refresh that fails is followed by a rebuild from a new scan, a rebuild that
\* fails by nothing.
Fails(b) ==
  /\ Goes(b, IF job[b].how = "refresh" THEN [Idle EXCEPT !.at = "scan", !.how = "rebuild", !.config = job[b].config] ELSE Idle)
  /\ UNCHANGED <<db, jobs, raced>> /\ Stays

Scan(b) ==
  /\ job[b].at = "scan"
  /\ LET j == [job[b] EXCEPT !.snap = Manifest]
     IN  CASE j.how = "rebuild" -> Goes(b, [j EXCEPT !.at = "read", !.todo = Prepared(j)])
           [] j.how = "refresh" /\ ~SameConfig(j.base, j.config) ->
                Goes(b, [Idle EXCEPT !.at = "scan", !.how = "rebuild", !.config = j.config])
           [] j.how = "refresh" /\ SameConfig(j.base, j.config) /\ j.base.snap = Manifest -> Goes(b, Idle)
           [] OTHER -> Goes(b, [j EXCEPT !.at = "read", !.todo = Prepared(j)])
  /\ UNCHANGED <<db, jobs, raced>> /\ Stays

\* Notes are read in order, each when its turn comes.
Read(b) ==
  /\ job[b].at = "read" /\ job[b].todo # {}
  /\ LET n == Min(job[b].todo)
     IN  /\ file[n].stamp # 0
         /\ Goes(b, [job[b] EXCEPT !.todo = @ \ {n}, !.got[n] = Row(file[n].terms, 0)])
  /\ UNCHANGED <<db, jobs, raced>> /\ Stays

\* The note has gone since the scan.
ReadFails(b) ==
  /\ job[b].at = "read" /\ job[b].todo # {}
  /\ file[Min(job[b].todo)].stamp = 0
  /\ Fails(b)

\* embed_prepared_notes: one request for every chunk, or after a failure that may
\* pass one for each note; the notes not in S keep no vector.
Embed(b) ==
  /\ job[b].at = "read" /\ job[b].todo = {}
  /\ \E S \in SUBSET Prepared(job[b]) :
       LET j == job[b]
           embeds == j.config = "embedding"
       IN  /\ ~embeds => S = {}
           /\ S # {} => j.base.dims \in {0, width}
           /\ Goes(b, [j EXCEPT !.at = "commit",
                                !.got = [n \in Notes |-> IF n \in S THEN Row(@[n].terms, width) ELSE @[n]],
                                !.dims = IF S # {} THEN width ELSE j.base.dims])
  /\ UNCHANGED <<db, jobs, raced>> /\ Stays

\* The provider refuses the request, or its vectors have another width.
EmbedFails(b) ==
  /\ job[b].at = "read" /\ job[b].todo = {}
  /\ job[b].config = "embedding" /\ Prepared(job[b]) # {}
  /\ Fails(b)

----------------------------------------------------------------------------
(* The transaction.                                                        *)

With(t, rows) == {n \in Notes : rows[n].there /\ t \in rows[n].terms}

\* collect_document_frequencies
Frequencies(rows) == [t \in Terms |-> Cardinality(With(t, rows))]

Less(a, b) == IF a > b THEN a - b ELSE 0

\* Without subtracting the counts of the notes that are replaced.
DeltaOfAdded(df, removed, added) ==
  [t \in Terms |-> df[t] + Cardinality(With(t, added))]

\* update_document_frequencies_delta: what was loaded, less the rows that are
\* removed, as they are now, and the notes that were read.
Delta(df, removed, added) ==
  [t \in Terms |-> Less(df[t], Cardinality(With(t, removed))) + Cardinality(With(t, added))]

Only(rows, S) == [n \in Notes |-> IF n \in S THEN rows[n] ELSE NoRow]

\* Only what is new in the manifest replaces a row.
KeepsDeleted(j) ==
  [n \in Notes |-> IF j.got[n].there THEN j.got[n] ELSE db.row[n]]

\* delete_existing_path_rows, insert_prepared_note
Patched(j) ==
  [n \in Notes |-> IF j.got[n].there THEN j.got[n] ELSE IF n \in Deleted(j) THEN NoRow ELSE db.row[n]]

\* The database refuses a second row for a path, and vectors it has no table for.
Refuses(j) ==
  \/ \E n \in Added(j) : db.row[n].there
  \/ /\ j.base.backend = "embedding" /\ db.tables = 0
     /\ \E n \in Modified(j) \cup Deleted(j) : db.row[n].there
  \/ \E n \in Notes : j.got[n].width \notin {0, db.tables}

\* refresh_index_incremental: rows are patched in the index as it is now, the
\* rest is written from the one that was loaded.  What was committed is loaded
\* again, and rebuilt if that fails.
CommitRefresh(b) ==
  /\ job[b].at = "commit" /\ job[b].how = "refresh"
  /\ LET j == job[b]
     IN  /\ ~Refuses(j)
         /\ db' = [db EXCEPT !.backend = j.base.backend, !.provider = j.base.provider, !.dims = j.base.dims,
                             !.snap = j.snap, !.row = Patched(j),
                             !.df = Delta(j.base.df, Only(db.row, Modified(j) \cup Deleted(j)), j.got)]
         /\ raced' = (raced \/ db # j.base)
         /\ Goes(b, IF Loads(db') THEN Idle ELSE [Idle EXCEPT !.at = "scan", !.how = "rebuild", !.config = j.config])
  /\ UNCHANGED jobs /\ Stays

\* Refused, or another builder's transaction holds the file.
CommitFails(b) ==
  /\ job[b].at = "commit"
  /\ Fails(b)

\* build_index_from_source_snapshots: every table is dropped and written again.
\* Nothing embedded is recorded as sparse.
CommitRebuild(b) ==
  /\ job[b].at = "commit" /\ job[b].how = "rebuild"
  /\ LET j == job[b]
     IN  db' = [there |-> TRUE, provider |-> j.config, dims |-> j.dims, tables |-> j.dims,
                backend |-> IF j.dims = 0 THEN "sparse" ELSE j.config,
                snap |-> j.snap, row |-> j.got, df |-> Frequencies(j.got)]
  /\ raced' = FALSE
  /\ Goes(b, Idle)
  /\ UNCHANGED jobs /\ Stays

\* The process stops: nothing is committed.
Crash(b) ==
  /\ job[b] # Idle
  /\ Goes(b, Idle)
  /\ UNCHANGED <<db, jobs, raced>> /\ Stays

----------------------------------------------------------------------------
\* A note is written or removed.
Edit ==
  /\ clock < MaxEdits
  /\ clock' = clock + 1
  /\ \E n \in Notes :
       \/ \E terms \in SUBSET Terms : file' = [file EXCEPT ![n] = [stamp |-> clock', terms |-> terms]]
       \/ file[n].stamp # 0 /\ file' = [file EXCEPT ![n] = [stamp |-> 0, terms |-> {}]]
  /\ UNCHANGED <<width, db, job, jobs, raced>>

\* The provider serves another model under the same name.
Redeploy ==
  /\ width = 1 /\ width' = 2
  /\ UNCHANGED <<file, clock, db, job, jobs, raced>>

Next ==
  \/ Edit \/ Redeploy
  \/ \E b \in Builders :
       \/ Begin(b) \/ Scan(b) \/ Read(b) \/ ReadFails(b) \/ Embed(b) \/ EmbedFails(b)
       \/ CommitRefresh(b) \/ CommitRebuild(b) \/ CommitFails(b) \/ Crash(b)

Spec == Init /\ [][Next]_vars

----------------------------------------------------------------------------
(* Properties.                                                             *)

\* A note whose manifest entry is current, so that no refresh will read it again,
\* is indexed with the terms it has, and one that is gone from both has no row,
\* unless a refresh was committed over another builder's index (index.rs refreshes
\* without looking whether the rows it patches are those it loaded).
ManifestMeansIndexed ==
  ~raced /\ db.there => \A n \in Notes : db.snap[n] = file[n].stamp =>
    IF file[n].stamp # 0 THEN db.row[n].there /\ db.row[n].terms = file[n].terms ELSE ~db.row[n].there

\* The document frequencies that score a search count the rows, unless a refresh
\* was committed over another builder's.
FrequenciesCountRows == ~raced => db.df = Frequencies(db.row)
=============================================================================
