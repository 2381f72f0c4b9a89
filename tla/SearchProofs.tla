---------------------------- MODULE SearchProofs ----------------------------
(***************************************************************************)
(* Proofs about IndexBuild, for any number of processes, notes, terms and  *)
(* jobs, and about FederatedSearch, for any number of mounts, candidates   *)
(* and pages.                                                              *)
(*                                                                         *)
(* The index: what the manifest says is indexed is, and the document       *)
(* frequencies count the rows.  A stamp is never given twice, so a row     *)
(* read for a stamp that a note still has was read from that very file.  A *)
(* job holds rows for the notes it prepared and has read, and for no       *)
(* others; so when it commits over the index it loaded, each note is       *)
(* either one that it read, or one that is gone, or one whose stamp and    *)
(* row the index already had.                                              *)
(*                                                                         *)
(* The search: a stable frontier is enough, and the last ranking follows   *)
(* the evidence.  A rank's share only falls with the rank, so a hit that   *)
(* reading on would add has at most the share of its mount's next rank,    *)
(* which a stable frontier puts after the last of the answer; and elements *)
(* that all come after the kth leave the first k of an order where they    *)
(* are.  Sums are numbers by the least set whose sum would not be one.     *)
(***************************************************************************)
EXTENDS IndexBuild, FederatedSearch, FiniteSetTheorems, TLAPS

Job == [at : {"idle", "scan", "read", "embed", "commit"}, how : {"none", "refresh", "rebuild"},
        config : {"sparse", "embedding"}, base : Index, snap : Stamps,
        todo : SUBSET Notes, got : [Notes -> Rows], dims : {0} \cup Widths]

\* No stamp is ahead of the clock, in a file, an index or a job.
Stamped ==
  \A n \in Notes : /\ file[n].stamp <= clock /\ db.snap[n] <= clock
                   /\ \A b \in Builders : job[b].snap[n] <= clock

\* A row for each note of the manifest, the true one if the stamp is current.
RowsTrue ==
  \A n \in Notes :
    /\ db.snap[n] = 0 => ~db.row[n].there
    /\ db.snap[n] # 0 /\ db.snap[n] = file[n].stamp =>
         db.row[n].there /\ db.row[n].terms = file[n].terms

\* What a job has read, and what it has yet to read.
JobInv(j) ==
  /\ j.at = "scan" => \A n \in Notes : ~j.got[n].there
  /\ j.at \in {"read", "commit"} =>
       /\ j.todo \subseteq Prepared(j)
       /\ \A n \in Notes : j.got[n].there <=> n \in Prepared(j) \ j.todo
       /\ \A n \in Notes : j.got[n].there /\ j.snap[n] = file[n].stamp => j.got[n].terms = file[n].terms
       /\ j.at = "commit" => j.todo = {}

IInv ==
  /\ TypeOK /\ Stamped
  /\ ~raced => RowsTrue /\ db.df = Frequencies(db.row)
  /\ \A b \in Builders : JobInv(job[b])

----------------------------------------------------------------------------
(* Types.                                                                  *)

LEMMA IndexTypes ==
  /\ NoRow \in Rows /\ \A terms \in SUBSET Terms, w \in {0} \cup Widths : Row(terms, w) \in Rows
  /\ NoIndex \in Index /\ Idle \in Job
<1>1. NoRow \in Rows /\ \A terms \in SUBSET Terms, w \in {0} \cup Widths : Row(terms, w) \in Rows
  BY DEF NoRow, Row, Rows
<1>2. [n \in Notes |-> 0] \in Stamps
  BY IndexAssumption DEF Stamps
<1>3. NoIndex \in Index
  BY <1>1, <1>2 DEF NoIndex, Index
<1>4. Idle \in Job
  BY <1>1, <1>2, <1>3 DEF Idle, Job
<1> QED BY <1>1, <1>3, <1>4

\* The jobs that a step may leave behind.
LEMMA JobTypes ==
  ASSUME NEW j \in Job
  PROVE  /\ \A s \in {"read", "commit"}, S \in SUBSET Notes : [j EXCEPT !.at = s, !.todo = S] \in Job
         /\ \A S \in SUBSET Notes, g \in [Notes -> Rows] : [j EXCEPT !.todo = S, !.got = g] \in Job
         /\ \A g \in [Notes -> Rows], d \in {0} \cup Widths :
              [j EXCEPT !.at = "commit", !.got = g, !.dims = d] \in Job
         /\ \A m \in Stamps : [j EXCEPT !.snap = m] \in Job
         /\ \A c \in {"sparse", "embedding"} :
              [Idle EXCEPT !.at = "scan", !.how = "rebuild", !.config = c] \in Job
         /\ Prepared(j) \subseteq Notes
<1>1. \A c \in {"sparse", "embedding"} :
        [Idle EXCEPT !.at = "scan", !.how = "rebuild", !.config = c] \in Job
  BY IndexTypes DEF Job
<1>2. Prepared(j) \subseteq Notes
  BY DEF Prepared, Added, Modified
<1> QED BY <1>1, <1>2 DEF Job

LEMMA GoesType ==
  ASSUME job \in [Builders -> Job], NEW b \in Builders, NEW j \in Job, Goes(b, j)
  PROVE  job' \in [Builders -> Job]
BY DEF Goes

\* How many notes have a term.
LEMMA WithIsFinite ==
  ASSUME NEW t, NEW rows
  PROVE  With(t, rows) \in SUBSET Notes /\ IsFiniteSet(With(t, rows)) /\ Cardinality(With(t, rows)) \in Nat
<1>1. IsFiniteSet(Notes)
  BY FS_Interval, IndexAssumption DEF Notes
<1>2. With(t, rows) \in SUBSET Notes
  BY DEF With
<1>3. IsFiniteSet(With(t, rows))
  BY <1>1, <1>2, FS_Subset
<1> QED BY <1>2, <1>3, FS_CardinalityType

LEMMA FrequencyTypes ==
  /\ \A rows : Frequencies(rows) \in [Terms -> Nat]
  /\ \A df \in [Terms -> Nat] : \A removed, added : Delta(df, removed, added) \in [Terms -> Nat]
<1>1. \A rows : Frequencies(rows) \in [Terms -> Nat]
  BY WithIsFinite DEF Frequencies
<1>2. ASSUME NEW df \in [Terms -> Nat], NEW removed, NEW added
      PROVE  Delta(df, removed, added) \in [Terms -> Nat]
  <2>1. ASSUME NEW t \in Terms
        PROVE  Less(df[t], Cardinality(With(t, removed))) + Cardinality(With(t, added)) \in Nat
    <3>1. df[t] \in Nat /\ Cardinality(With(t, removed)) \in Nat /\ Cardinality(With(t, added)) \in Nat
      BY WithIsFinite
    <3> QED BY <3>1 DEF Less
  <2> QED BY <2>1 DEF Delta
<1> QED BY <1>1, <1>2

\* Every step leads from a well-typed state to one.
LEMMA TypeNext == TypeOK /\ [Next]_vars => TypeOK'
<1> SUFFICES ASSUME TypeOK, [Next]_vars PROVE TypeOK'
  OBVIOUS
<1> USE IndexAssumption
<1>0. /\ job \in [Builders -> Job] /\ db \in Index /\ jobs \in 0 .. MaxJobs
      /\ file \in [Notes -> [stamp : 0 .. MaxEdits, terms : SUBSET Terms]]
      /\ clock \in 0 .. MaxEdits /\ width \in Widths /\ raced \in BOOLEAN
      /\ Manifest \in Stamps
  BY DEF TypeOK, Job, Manifest, Stamps
<1>1. ASSUME job' \in [Builders -> Job], db' \in Index, jobs' \in 0 .. MaxJobs, raced' \in BOOLEAN, Stays
      PROVE  TypeOK'
  BY <1>1 DEF TypeOK, Stays, Job
<1>2. ASSUME NEW b \in Builders, NEW j \in Job, Goes(b, j), UNCHANGED <<db, jobs, raced>>, Stays
      PROVE  TypeOK'
  BY <1>0, <1>1, <1>2, GoesType
<1>3. CASE Edit
  <2>1. clock' \in 0 .. MaxEdits
    BY <1>0, <1>3 DEF Edit
  <2>2. file' \in [Notes -> [stamp : 0 .. MaxEdits, terms : SUBSET Terms]]
    <3>1. PICK n \in Notes, terms \in SUBSET Terms, s \in 0 .. MaxEdits :
            file' = [file EXCEPT ![n] = [stamp |-> s, terms |-> terms]]
      <4>1. PICK n \in Notes :
              \/ \E terms \in SUBSET Terms : file' = [file EXCEPT ![n] = [stamp |-> clock', terms |-> terms]]
              \/ file' = [file EXCEPT ![n] = [stamp |-> 0, terms |-> {}]]
        BY <1>3 DEF Edit
      <4>2. 0 \in 0 .. MaxEdits /\ {} \in SUBSET Terms
        OBVIOUS
      <4> QED BY <2>1, <4>1, <4>2
    <3> QED BY <1>0, <3>1
  <2> QED BY <1>3, <2>1, <2>2 DEF Edit, TypeOK
<1>4. CASE Redeploy
  BY <1>4 DEF Redeploy, TypeOK, Widths
<1>5. ASSUME NEW b \in Builders, Begin(b) PROVE TypeOK'
  <2>1. PICK config \in Configs, how \in {"refresh", "rebuild"} :
          Goes(b, [Idle EXCEPT !.at = "scan", !.config = config,
                               !.how = IF Loads(db) THEN how ELSE "rebuild",
                               !.base = IF how = "refresh" /\ Loads(db) THEN db ELSE NoIndex])
    BY <1>5 DEF Begin
  <2>2. [Idle EXCEPT !.at = "scan", !.config = config,
                     !.how = IF Loads(db) THEN how ELSE "rebuild",
                     !.base = IF how = "refresh" /\ Loads(db) THEN db ELSE NoIndex] \in Job
    BY <1>0, IndexTypes DEF Job
  <2>3. job' \in [Builders -> Job]
    BY <1>0, <2>1, <2>2, GoesType
  <2>4. jobs' \in 0 .. MaxJobs
    BY <1>0, <1>5 DEF Begin
  <2> QED BY <1>0, <1>1, <1>5, <2>3, <2>4 DEF Begin
<1>6. ASSUME NEW b \in Builders, Fails(b) PROVE TypeOK'
  <2>1. job[b].config \in {"sparse", "embedding"}
    BY <1>0 DEF Job
  <2>2. (IF job[b].how = "refresh"
         THEN [Idle EXCEPT !.at = "scan", !.how = "rebuild", !.config = job[b].config] ELSE Idle) \in Job
    BY <2>1, IndexTypes, JobTypes
  <2> QED BY <1>2, <1>6, <2>2 DEF Fails
<1>7. ASSUME NEW b \in Builders, Scan(b) PROVE TypeOK'
  <2> DEFINE j == [job[b] EXCEPT !.snap = Manifest]
  <2>1. j \in Job /\ job[b].config \in {"sparse", "embedding"} /\ j.config = job[b].config
    <3>1. job[b] \in Job
      BY <1>0
    <3>2. j \in Job
      BY <1>0, <3>1, JobTypes
    <3>3. job[b].config \in {"sparse", "embedding"} /\ j.config = job[b].config
      BY <3>1 DEF Job
    <3> QED BY <3>2, <3>3
  <2>2. [j EXCEPT !.at = "read", !.todo = Prepared(j)] \in Job
    BY <2>1, JobTypes
  <2>3. [Idle EXCEPT !.at = "scan", !.how = "rebuild", !.config = j.config] \in Job
    BY <2>1, JobTypes
  <2> HIDE DEF j
  <2>4. \/ Goes(b, [j EXCEPT !.at = "read", !.todo = Prepared(j)])
        \/ Goes(b, [Idle EXCEPT !.at = "scan", !.how = "rebuild", !.config = j.config])
        \/ Goes(b, Idle)
    BY <1>7 DEF Scan, j
  <2> QED BY <1>2, <1>7, <2>2, <2>3, <2>4, IndexTypes DEF Scan
<1>8. ASSUME NEW b \in Builders, Read(b) PROVE TypeOK'
  <2>1. PICK n : n = Min(job[b].todo) /\ Goes(b, [job[b] EXCEPT !.todo = @ \ {n}, !.got[n] = Row(file[n].terms, 0)])
    BY <1>8 DEF Read
  <2>2. job[b].todo \ {n} \in SUBSET Notes /\ job[b].got \in [Notes -> Rows]
    BY <1>0 DEF Job
  <2>3. [job[b].got EXCEPT ![n] = Row(file[n].terms, 0)] \in [Notes -> Rows]
    <3>1. CASE n \in Notes
      BY <1>0, <2>2, <3>1, IndexTypes
    <3>2. CASE n \notin Notes
      BY <2>2, <3>2
    <3> QED BY <3>1, <3>2
  <2>4. [job[b] EXCEPT !.todo = job[b].todo \ {n}, !.got = [job[b].got EXCEPT ![n] = Row(file[n].terms, 0)]] \in Job
    BY <1>0, <2>2, <2>3, JobTypes
  <2>5. Goes(b, [job[b] EXCEPT !.todo = job[b].todo \ {n}, !.got = [job[b].got EXCEPT ![n] = Row(file[n].terms, 0)]])
    BY <2>1
  <2> QED BY <1>2, <1>8, <2>4, <2>5 DEF Read
<1>9. ASSUME NEW b \in Builders, Embed(b) PROVE TypeOK'
  <2> DEFINE j == job[b]
  <2>1. PICK S \in SUBSET Prepared(j) :
          Goes(b, [j EXCEPT !.at = "commit",
                            !.got = [n \in Notes |-> IF n \in S THEN Row(j.got[n].terms, width) ELSE j.got[n]],
                            !.dims = IF S # {} THEN width ELSE j.base.dims])
    BY <1>9 DEF Embed
  <2>2. j \in Job /\ j.got \in [Notes -> Rows] /\ j.base.dims \in {0} \cup Widths
    BY <1>0 DEF Job, Index
  <2>3. [n \in Notes |-> IF n \in S THEN Row(j.got[n].terms, width) ELSE j.got[n]] \in [Notes -> Rows]
    <3>1. \A n \in Notes : j.got[n] \in Rows /\ j.got[n].terms \in SUBSET Terms
      BY <2>2 DEF Rows
    <3> QED BY <1>0, <3>1, IndexTypes
  <2>4. (IF S # {} THEN width ELSE j.base.dims) \in {0} \cup Widths
    BY <1>0, <2>2
  <2> HIDE DEF j
  <2> QED BY <1>2, <1>9, <2>1, <2>2, <2>3, <2>4, JobTypes DEF Embed
<1>10. ASSUME NEW b \in Builders, CommitRefresh(b) PROVE TypeOK'
  <2> DEFINE j == job[b]
  <2>1. /\ db' = [db EXCEPT !.backend = j.base.backend, !.provider = j.base.provider, !.dims = j.base.dims,
                             !.snap = j.snap, !.row = Patched(j),
                             !.df = Delta(j.base.df, Only(db.row, Modified(j) \cup Deleted(j)), j.got)]
        /\ raced' = (raced \/ db # j.base) /\ UNCHANGED jobs /\ Stays
        /\ Goes(b, IF Loads(db') THEN Idle
                   ELSE [Idle EXCEPT !.at = "scan", !.how = "rebuild", !.config = j.config])
    BY <1>10 DEF CommitRefresh
  <2>2. j.base \in Index /\ j.snap \in Stamps /\ j.got \in [Notes -> Rows] /\ j.config \in {"sparse", "embedding"}
    BY <1>0 DEF Job
  <2>3. Patched(j) \in [Notes -> Rows]
    BY <1>0, <2>2, IndexTypes DEF Patched, Index
  <2>4. Delta(j.base.df, Only(db.row, Modified(j) \cup Deleted(j)), j.got) \in [Terms -> Nat]
    BY <2>2, FrequencyTypes DEF Index
  <2>5. db' \in Index
    BY <1>0, <2>1, <2>2, <2>3, <2>4 DEF Index
  <2>6. job' \in [Builders -> Job]
    BY <1>0, <2>1, <2>2, IndexTypes, JobTypes, GoesType
  <2>7. raced' \in BOOLEAN
    BY <1>0, <2>1
  <2> QED BY <1>0, <1>1, <2>1, <2>5, <2>6, <2>7
<1>11. ASSUME NEW b \in Builders, CommitRebuild(b) PROVE TypeOK'
  <2> DEFINE j == job[b]
  <2>1. /\ db' = [there |-> TRUE, provider |-> j.config, dims |-> j.dims, tables |-> j.dims,
                  backend |-> IF j.dims = 0 THEN "sparse" ELSE j.config,
                  snap |-> j.snap, row |-> j.got, df |-> Frequencies(j.got)]
        /\ raced' = FALSE /\ UNCHANGED jobs /\ Stays /\ Goes(b, Idle)
    BY <1>11 DEF CommitRebuild
  <2>2. /\ j.snap \in Stamps /\ j.got \in [Notes -> Rows] /\ j.dims \in {0} \cup Widths
        /\ j.config \in {"sparse", "embedding"}
    BY <1>0 DEF Job
  <2>3. db' \in Index
    BY <2>1, <2>2, FrequencyTypes DEF Index
  <2>4. job' \in [Builders -> Job]
    BY <1>0, <2>1, IndexTypes, GoesType
  <2> QED BY <1>0, <1>1, <2>1, <2>3, <2>4
<1>12. ASSUME NEW b \in Builders, Crash(b) PROVE TypeOK'
  BY <1>2, <1>12, IndexTypes DEF Crash
<1>13. CASE UNCHANGED vars
  BY <1>13 DEF vars, TypeOK
<1> QED
  BY <1>3, <1>4, <1>5, <1>6, <1>7, <1>8, <1>9, <1>10, <1>11, <1>12, <1>13
     DEF Next, ReadFails, EmbedFails, CommitFails

----------------------------------------------------------------------------
(* Document frequencies.                                                   *)

\* What a refresh commits over the index it loaded: the notes with a term are
\* those of the old rows that it keeps, and those it read.
LEMMA PatchedNotes ==
  ASSUME TypeOK, RowsTrue, NEW j \in Job, JobInv(j), j.at = "commit", j.how = "refresh", db = j.base, NEW t
  PROVE  LET removed == With(t, Only(db.row, Modified(j) \cup Deleted(j)))
         IN  /\ removed \subseteq With(t, db.row)
             /\ With(t, Patched(j)) = (With(t, db.row) \ removed) \cup With(t, j.got)
             /\ (With(t, db.row) \ removed) \cap With(t, j.got) = {}
<1> DEFINE removed == With(t, Only(db.row, Modified(j) \cup Deleted(j)))
<1>1. \A n \in Notes : j.got[n].there <=> n \in Added(j) \cup Modified(j)
  BY DEF JobInv, Prepared
<1>2. \A n \in Notes : n \in removed <=> n \in Modified(j) \cup Deleted(j) /\ n \in With(t, db.row)
  BY DEF With, Only, NoRow
<1>3. \A n \in Notes : n \in Added(j) => n \notin With(t, db.row)
  BY DEF Added, With, RowsTrue
<1>4. \A n \in Notes : n \in With(t, Patched(j)) <=>
        \/ n \in With(t, j.got)
        \/ ~j.got[n].there /\ n \notin Deleted(j) /\ n \in With(t, db.row)
  BY DEF With, Patched, NoRow
<1>5. \A n \in Notes : n \in With(t, j.got) => j.got[n].there
  BY DEF With
<1>6. /\ removed \subseteq Notes /\ With(t, db.row) \subseteq Notes /\ With(t, j.got) \subseteq Notes
      /\ With(t, Patched(j)) \subseteq Notes
  BY DEF With
<1>7. \A n \in Notes : n \in Deleted(j) => n \notin Added(j) \cup Modified(j)
  BY DEF Added, Modified, Deleted
<1> HIDE DEF removed
<1>8. removed \subseteq With(t, db.row)
  BY <1>2, <1>6
<1>9. With(t, Patched(j)) = (With(t, db.row) \ removed) \cup With(t, j.got)
  BY <1>1, <1>2, <1>3, <1>4, <1>5, <1>6, <1>7
<1>10. (With(t, db.row) \ removed) \cap With(t, j.got) = {}
  BY <1>1, <1>2, <1>3, <1>5, <1>6
<1> QED BY <1>8, <1>9, <1>10 DEF removed

\* update_document_frequencies_delta counts the rows that a refresh leaves.
LEMMA DeltaCounts ==
  ASSUME TypeOK, RowsTrue, db.df = Frequencies(db.row), NEW j \in Job, JobInv(j),
         j.at = "commit", j.how = "refresh", db = j.base
  PROVE  Delta(j.base.df, Only(db.row, Modified(j) \cup Deleted(j)), j.got) = Frequencies(Patched(j))
<1> DEFINE gone == Modified(j) \cup Deleted(j)
<1>1. Delta(j.base.df, Only(db.row, gone), j.got)
        = [t \in Terms |-> Less(db.df[t], Cardinality(With(t, Only(db.row, gone)))) + Cardinality(With(t, j.got))]
  BY DEF Delta
<1>2. \A t \in Terms : db.df[t] = Cardinality(With(t, db.row))
  BY DEF Frequencies
<1>3. ASSUME NEW t \in Terms
      PROVE  Less(Cardinality(With(t, db.row)), Cardinality(With(t, Only(db.row, gone)))) + Cardinality(With(t, j.got))
               = Cardinality(With(t, Patched(j)))
  <2>1. PICK before, removed, read : before = With(t, db.row) /\ removed = With(t, Only(db.row, gone)) /\ read = With(t, j.got)
    OBVIOUS
  <2>2. /\ removed \subseteq before /\ (before \ removed) \cap read = {}
        /\ With(t, Patched(j)) = (before \ removed) \cup read
    BY <2>1, PatchedNotes
  <2>3. /\ IsFiniteSet(removed) /\ IsFiniteSet(before) /\ IsFiniteSet(read)
        /\ Cardinality(removed) \in Nat /\ Cardinality(before) \in Nat /\ Cardinality(read) \in Nat
    BY <2>1, WithIsFinite
  <2>4. before \cap removed = removed
    BY <2>2
  <2>5. /\ IsFiniteSet(before \ removed)
        /\ Cardinality(before \ removed) = Cardinality(before) - Cardinality(before \cap removed)
    BY <2>3, FS_Difference
  <2>6. Cardinality((before \ removed) \cup read)
          = Cardinality(before \ removed) + Cardinality(read) - Cardinality((before \ removed) \cap read)
    BY <2>3, <2>5, FS_Union
  <2>7. Cardinality({}) = 0
    BY FS_EmptySet
  <2>8. Cardinality(removed) <= Cardinality(before)
    BY <2>2, <2>3, FS_Subset
  <2>9. Cardinality((before \ removed) \cup read) = Cardinality(before) - Cardinality(removed) + Cardinality(read)
    BY <2>2, <2>3, <2>4, <2>5, <2>6, <2>7
  <2>10. Less(Cardinality(before), Cardinality(removed)) = Cardinality(before) - Cardinality(removed)
    BY <2>3, <2>8 DEF Less
  <2> QED BY <2>1, <2>2, <2>9, <2>10
<1> QED BY <1>1, <1>2, <1>3 DEF Frequencies

----------------------------------------------------------------------------
(* The inductive invariant.                                                *)

\* Notes are read in order: there is a next one.
LEMMA LeastNatural ==
  ASSUME NEW T, T \subseteq Nat, T # {}
  PROVE  \E x \in T : \A y \in T : x <= y
<1> DEFINE R == {ss \in Nat \X Nat : ss[1] < ss[2]}
<1>1. IsWellFoundedOn(R, Nat)
  BY NatLessThanWellFounded DEF OpToRel
<1> HIDE DEF R
<1>2. PICK x \in T : \A y \in T : ~(<<y, x>> \in R)
  BY <1>1, WFMin
<1>3. SUFFICES ASSUME NEW y \in T, ~(x <= y) PROVE FALSE
  BY <1>2
<1>4. x \in Nat /\ y \in Nat /\ y < x
  BY <1>3
<1>5. <<y, x>> \in R
  BY <1>4 DEF R
<1> QED BY <1>2, <1>5

\* A step of a job that leaves the vault and the index alone.
LEMMA JobStep ==
  ASSUME IInv, TypeOK', NEW b \in Builders, NEW j \in Job, Goes(b, j), UNCHANGED <<db, raced>>, Stays,
         JobInv(j), \A n \in Notes : j.snap[n] <= clock
  PROVE  IInv'
<1>1. job' = [job EXCEPT ![b] = j] /\ job \in [Builders -> Job]
  BY DEF Goes, IInv, TypeOK, Job
<1>2. UNCHANGED <<file, clock, db, raced>>
  BY DEF Stays
<1>3. Stamped'
  BY <1>1, <1>2 DEF IInv, Stamped
<1>4. ~raced' => RowsTrue' /\ db'.df = Frequencies(db'.row)
  BY <1>2 DEF IInv, RowsTrue
<1>5. ASSUME NEW c \in Builders PROVE JobInv(job[c])'
  <2>1. \A k : JobInv(k) <=> JobInv(k)'
    BY <1>2 DEF JobInv, Prepared, Added, Modified
  <2>2. JobInv(job'[c])
    BY <1>1 DEF IInv
  <2> QED BY <2>1, <2>2
<1> QED BY <1>3, <1>4, <1>5 DEF IInv

\* A job that has nothing yet knows nothing wrong.
LEMMA FreshJobs ==
  ASSUME TypeOK, NEW j \in Job, j.snap = Idle.snap, j.got = Idle.got, j.at \in {"idle", "scan"}
  PROVE  JobInv(j) /\ \A n \in Notes : j.snap[n] <= clock
<1>1. clock \in Nat
  BY IndexAssumption DEF TypeOK
<1>2. \A n \in Notes : Idle.snap[n] = 0 /\ ~Idle.got[n].there
  BY DEF Idle, NoRow
<1> QED BY <1>1, <1>2 DEF JobInv

LEMMA ResetJobs ==
  /\ Idle.at = "idle"
  /\ \A c : LET j == [Idle EXCEPT !.at = "scan", !.how = "rebuild", !.config = c]
            IN  j.at = "scan" /\ j.snap = Idle.snap /\ j.got = Idle.got
BY DEF Idle

\* Every step keeps the inductive invariant.
LEMMA NextIInv == IInv /\ [Next]_vars => IInv'
<1> SUFFICES ASSUME IInv, [Next]_vars PROVE IInv'
  OBVIOUS
<1> USE IndexAssumption
<1>0. /\ TypeOK /\ TypeOK' /\ job \in [Builders -> Job] /\ db \in Index
      /\ file \in [Notes -> [stamp : 0 .. MaxEdits, terms : SUBSET Terms]]
      /\ clock \in Nat /\ \A b \in Builders : JobInv(job[b])
  BY TypeNext DEF IInv, TypeOK, Job
<1>1. CASE Edit
  <2>1. PICK n \in Notes, s \in {0, clock'}, terms \in SUBSET Terms :
          file' = [file EXCEPT ![n] = [stamp |-> s, terms |-> terms]]
    <3>1. PICK n \in Notes :
            \/ \E terms \in SUBSET Terms : file' = [file EXCEPT ![n] = [stamp |-> clock', terms |-> terms]]
            \/ file' = [file EXCEPT ![n] = [stamp |-> 0, terms |-> {}]]
      BY <1>1 DEF Edit
    <3>2. {} \in SUBSET Terms
      OBVIOUS
    <3> QED BY <3>1, <3>2
  <2>2. clock' = clock + 1 /\ UNCHANGED <<db, job, raced>>
    BY <1>1 DEF Edit
  <2>3. \A m \in Notes : file'[m].stamp \in {file[m].stamp, 0, clock'} /\ (m # n => file'[m] = file[m])
    BY <1>0, <2>1
  <2>4. file'[n].stamp \in {0, clock'}
    BY <1>0, <2>1
  <2>5. \A m \in Notes : /\ db.snap[m] \in Nat /\ file[m].stamp \in Nat
                         /\ \A b \in Builders : job[b].snap[m] \in Nat
    BY <1>0 DEF Index, Stamps, Job
  <2>6. Stamped'
    BY <1>0, <2>2, <2>3, <2>5 DEF IInv, Stamped
  <2>7. \A m \in Notes : db.snap[m] = file'[m].stamp /\ db.snap[m] # 0 => m # n
    BY <1>0, <2>2, <2>4, <2>5 DEF IInv, Stamped
  <2>8. ~raced' => RowsTrue' /\ db'.df = Frequencies(db'.row)
    BY <2>2, <2>3, <2>7 DEF IInv, RowsTrue
  <2>9. ASSUME NEW b \in Builders PROVE JobInv(job[b])'
    <3>1. \A m \in Notes : job[b].snap[m] = file'[m].stamp /\ job[b].snap[m] # 0 => m # n
      BY <1>0, <2>2, <2>4, <2>5 DEF IInv, Stamped
    <3>2. \A m \in Prepared(job[b]) : job[b].snap[m] # 0
      BY DEF Prepared, Added, Modified
    <3>3. Prepared(job[b])' = Prepared(job[b])
      BY <2>2 DEF Prepared, Added, Modified
    <3> QED BY <1>0, <2>2, <2>3, <3>1, <3>2, <3>3 DEF JobInv
  <2> QED BY <1>0, <2>6, <2>8, <2>9 DEF IInv
<1>2. CASE Redeploy
  <2>1. UNCHANGED <<file, clock, db, job, raced>>
    BY <1>2 DEF Redeploy
  <2> QED BY <1>0, <2>1 DEF IInv, Stamped, RowsTrue, JobInv, Prepared, Added, Modified
<1>3. ASSUME NEW b \in Builders, NEW j \in Job, Goes(b, j), UNCHANGED <<db, raced>>, Stays,
             j.snap = Idle.snap, j.got = Idle.got, j.at \in {"idle", "scan"}
      PROVE  IInv'
  BY <1>0, <1>3, JobStep, FreshJobs
<1>4. ASSUME NEW b \in Builders, Begin(b) PROVE IInv'
  <2>1. PICK config \in Configs, how \in {"refresh", "rebuild"} :
          Goes(b, [Idle EXCEPT !.at = "scan", !.config = config,
                               !.how = IF Loads(db) THEN how ELSE "rebuild",
                               !.base = IF how = "refresh" /\ Loads(db) THEN db ELSE NoIndex])
    BY <1>4 DEF Begin
  <2> DEFINE j == [Idle EXCEPT !.at = "scan", !.config = config,
                               !.how = IF Loads(db) THEN how ELSE "rebuild",
                               !.base = IF how = "refresh" /\ Loads(db) THEN db ELSE NoIndex]
  <2>2. j \in Job
    BY <1>0, IndexTypes DEF Job
  <2>3. j.at = "scan" /\ j.snap = Idle.snap /\ j.got = Idle.got
    BY DEF Idle
  <2> HIDE DEF j
  <2>4. Goes(b, j)
    BY <2>1 DEF j
  <2> QED BY <1>3, <1>4, <2>2, <2>3, <2>4 DEF Begin
<1>5. ASSUME NEW b \in Builders, Fails(b) PROVE IInv'
  <2>1. job[b].config \in {"sparse", "embedding"}
    BY <1>0 DEF Job
  <2> DEFINE j == [Idle EXCEPT !.at = "scan", !.how = "rebuild", !.config = job[b].config]
  <2>2. j \in Job /\ j.at = "scan" /\ j.snap = Idle.snap /\ j.got = Idle.got
    BY <1>0, <2>1, JobTypes, ResetJobs
  <2> HIDE DEF j
  <2>3. Goes(b, j) \/ Goes(b, Idle)
    BY <1>5 DEF Fails, j
  <2> QED BY <1>3, <1>5, <2>2, <2>3, IndexTypes, ResetJobs DEF Fails
<1>6. ASSUME NEW b \in Builders, Scan(b) PROVE IInv'
  <2> DEFINE j == [job[b] EXCEPT !.snap = Manifest]
  <2> DEFINE again == [Idle EXCEPT !.at = "scan", !.how = "rebuild", !.config = j.config]
  <2> DEFINE k == [j EXCEPT !.at = "read", !.todo = Prepared(j)]
  <2>1. /\ job[b] \in Job /\ job[b].at = "scan" /\ Manifest \in Stamps
        /\ \A n \in Notes : ~job[b].got[n].there
    BY <1>0, <1>6 DEF Scan, JobInv, Manifest, Stamps
  <2>2. j \in Job /\ j.snap = Manifest /\ j.got = job[b].got
    BY <2>1 DEF Job
  <2>3. j.config \in {"sparse", "embedding"}
    BY <2>2 DEF Job
  <2>4. again \in Job /\ again.at = "scan" /\ again.snap = Idle.snap /\ again.got = Idle.got
    BY <2>2, <2>3, JobTypes, ResetJobs
  <2> HIDE DEF j
  <2>5. /\ k \in Job /\ k.at = "read" /\ k.todo = Prepared(j) /\ k.got = j.got /\ k.snap = j.snap
        /\ k.base = j.base /\ k.how = j.how
    <3>1. Prepared(j) \in SUBSET Notes
      BY <2>2, JobTypes
    <3>2. k \in Job
      BY <2>2, <3>1, JobTypes
    <3> QED BY <2>2, <3>2 DEF Job
  <2>6. Prepared(k) = Prepared(j)
    BY <2>5 DEF Prepared, Added, Modified
  <2> HIDE DEF again, k
  <2>7. JobInv(k)
    BY <2>1, <2>2, <2>5, <2>6 DEF JobInv
  <2>8. \A n \in Notes : k.snap[n] <= clock
    BY <2>2, <2>5 DEF Manifest, IInv, Stamped
  <2>9. Goes(b, k) \/ Goes(b, again) \/ Goes(b, Idle)
    BY <1>6 DEF Scan, j, again, k
  <2>10. UNCHANGED <<db, raced>> /\ Stays
    BY <1>6 DEF Scan
  <2>11. CASE Goes(b, k)
    BY <1>0, <2>5, <2>7, <2>8, <2>10, <2>11, JobStep
  <2> QED BY <1>3, <2>4, <2>9, <2>10, <2>11, IndexTypes, ResetJobs
<1>7. ASSUME NEW b \in Builders, Read(b) PROVE IInv'
  <2> DEFINE j == job[b]
  <2>1. PICK n : n = Min(j.todo) /\ Goes(b, [j EXCEPT !.todo = @ \ {n}, !.got[n] = Row(file[n].terms, 0)])
    BY <1>7 DEF Read
  <2>2. j \in Job /\ j.at = "read" /\ JobInv(j)
    BY <1>0, <1>7 DEF Read
  <2>3. n \in j.todo
    <3>1. j.todo # {} /\ j.todo \subseteq Nat
      BY <1>7, <2>2 DEF Read, Job, Notes
    <3>2. \E x \in j.todo : \A y \in j.todo : x <= y
      BY <3>1, LeastNatural
    <3> QED BY <2>1, <3>2 DEF Min
  <2> DEFINE k == [j EXCEPT !.todo = j.todo \ {n}, !.got = [j.got EXCEPT ![n] = Row(file[n].terms, 0)]]
  <2>4. n \in Notes /\ n \in Prepared(j) /\ j.got \in [Notes -> Rows]
    BY <2>2, <2>3 DEF JobInv, Job
  <2>5. k \in Job
    <3>1. file[n].terms \in SUBSET Terms
      BY <1>0, <2>4
    <3>2. [j.got EXCEPT ![n] = Row(file[n].terms, 0)] \in [Notes -> Rows]
      BY <2>4, <3>1, IndexTypes
    <3>3. j.todo \ {n} \in SUBSET Notes
      BY <2>2 DEF Job
    <3> QED BY <2>2, <3>2, <3>3, JobTypes
  <2>6. /\ k.at = "read" /\ k.todo = j.todo \ {n} /\ k.snap = j.snap /\ k.base = j.base /\ k.how = j.how
        /\ k.got = [j.got EXCEPT ![n] = Row(file[n].terms, 0)]
    BY <2>2 DEF Job
  <2>7. Goes(b, k)
    BY <2>1
  <2> HIDE DEF k
  <2>8. Prepared(k) = Prepared(j)
    BY <2>6 DEF Prepared, Added, Modified
  <2>9. JobInv(k)
    BY <2>2, <2>3, <2>4, <2>6, <2>8 DEF JobInv, Row
  <2>10. \A m \in Notes : k.snap[m] <= clock
    BY <2>6 DEF IInv, Stamped
  <2> QED BY <1>0, <1>7, <2>5, <2>7, <2>9, <2>10, JobStep DEF Read
<1>8. ASSUME NEW b \in Builders, Embed(b) PROVE IInv'
  <2> DEFINE j == job[b]
  <2>1. PICK S \in SUBSET Prepared(j) :
          Goes(b, [j EXCEPT !.at = "commit",
                            !.got = [n \in Notes |-> IF n \in S THEN Row(j.got[n].terms, width) ELSE j.got[n]],
                            !.dims = IF S # {} THEN width ELSE j.base.dims])
    BY <1>8 DEF Embed
  <2>2. /\ j \in Job /\ j.at = "read" /\ j.todo = {} /\ JobInv(j) /\ j.got \in [Notes -> Rows]
        /\ j.base.dims \in {0} \cup Widths /\ width \in Widths
    BY <1>0, <1>8 DEF Embed, Job, Index, TypeOK
  <2> DEFINE g == [n \in Notes |-> IF n \in S THEN Row(j.got[n].terms, width) ELSE j.got[n]]
  <2> DEFINE k == [j EXCEPT !.at = "commit", !.got = g, !.dims = IF S # {} THEN width ELSE j.base.dims]
  <2>3. g \in [Notes -> Rows]
    <3>1. \A n \in Notes : j.got[n] \in Rows /\ j.got[n].terms \in SUBSET Terms
      BY <2>2 DEF Rows
    <3> QED BY <2>2, <3>1, IndexTypes
  <2>4. /\ \A n \in Notes : g[n].terms = j.got[n].terms
        /\ \A n \in Notes : g[n].there = (j.got[n].there \/ n \in S)
    BY <2>2 DEF Row, Rows
  <2> HIDE DEF g
  <2>5. k \in Job
    BY <2>2, <2>3, JobTypes
  <2>6. /\ k.at = "commit" /\ k.todo = {} /\ k.snap = j.snap /\ k.base = j.base /\ k.how = j.how
        /\ k.got = g
    BY <2>2 DEF Job
  <2>7. Goes(b, k)
    BY <2>1 DEF g
  <2> HIDE DEF k
  <2>8. Prepared(k) = Prepared(j)
    BY <2>6 DEF Prepared, Added, Modified
  <2>9. JobInv(k)
    BY <2>2, <2>4, <2>6, <2>8 DEF JobInv
  <2>10. \A m \in Notes : k.snap[m] <= clock
    BY <2>6 DEF IInv, Stamped
  <2> QED BY <1>0, <1>8, <2>5, <2>7, <2>9, <2>10, JobStep DEF Embed
<1>9. ASSUME NEW b \in Builders, Crash(b) PROVE IInv'
  BY <1>3, <1>9, IndexTypes, ResetJobs DEF Crash
<1>10. CASE UNCHANGED vars
  BY <1>0, <1>10 DEF vars, IInv, Stamped, RowsTrue, JobInv, Prepared, Added, Modified
<1>11. ASSUME NEW b \in Builders, NEW j \in Job, Goes(b, j), UNCHANGED <<file, clock>>,
              j.snap = Idle.snap, j.got = Idle.got, j.at \in {"idle", "scan"},
              \A n \in Notes : db'.snap[n] <= clock,
              ~raced' => RowsTrue' /\ db'.df = Frequencies(db'.row)
       PROVE  IInv'
  <2>1. job' = [job EXCEPT ![b] = j]
    BY <1>11 DEF Goes
  <2>2. JobInv(j) /\ \A n \in Notes : j.snap[n] <= clock
    BY <1>0, <1>11, FreshJobs
  <2>3. Stamped'
    BY <1>0, <1>11, <2>1, <2>2 DEF IInv, Stamped
  <2>4. ASSUME NEW c \in Builders PROVE JobInv(job[c])'
    <3>1. JobInv(job'[c])
      BY <1>0, <2>1, <2>2
    <3> QED BY <1>11, <3>1 DEF JobInv, Prepared, Added, Modified
  <2> QED BY <1>0, <1>11, <2>3, <2>4 DEF IInv
<1>12. ASSUME NEW b \in Builders, CommitRefresh(b) PROVE IInv'
  <2>1. PICK j \in Job : j = job[b]
    BY <1>0
  <2> DEFINE again == [Idle EXCEPT !.at = "scan", !.how = "rebuild", !.config = j.config]
  <2> DEFINE df == Delta(j.base.df, Only(db.row, Modified(j) \cup Deleted(j)), j.got)
  <2>2. /\ db' = [db EXCEPT !.backend = j.base.backend, !.provider = j.base.provider, !.dims = j.base.dims,
                             !.snap = j.snap, !.row = Patched(j), !.df = df]
        /\ raced' = (raced \/ db # j.base) /\ UNCHANGED <<file, clock>>
        /\ j.at = "commit" /\ j.how = "refresh"
        /\ Goes(b, Idle) \/ Goes(b, again)
    BY <1>12, <2>1 DEF CommitRefresh, Stays
  <2>3. again \in Job /\ again.at = "scan" /\ again.snap = Idle.snap /\ again.got = Idle.got
    <3>1. j.config \in {"sparse", "embedding"}
      BY DEF Job
    <3> QED BY <3>1, JobTypes, ResetJobs
  <2> HIDE DEF again, df
  <2>4. db'.snap = j.snap /\ db'.row = Patched(j) /\ db'.df = df
    BY <1>0, <2>2 DEF Index
  <2>5. \A n \in Notes : db'.snap[n] <= clock
    BY <2>1, <2>4 DEF IInv, Stamped
  <2>6. JobInv(j)
    BY <1>0, <2>1
  <2>7. ASSUME ~raced' PROVE RowsTrue' /\ db'.df = Frequencies(db'.row)
    <3>1. ~raced /\ db = j.base
      BY <2>2, <2>7
    <3>2. RowsTrue /\ db.df = Frequencies(db.row)
      BY <3>1 DEF IInv
    <3>3. df = Frequencies(Patched(j))
      BY <1>0, <2>2, <2>6, <3>1, <3>2, DeltaCounts DEF df
    <3>4. \A n \in Notes : j.got[n].there <=> n \in Added(j) \cup Modified(j)
      BY <2>2, <2>6 DEF JobInv, Prepared
    <3>5. ASSUME NEW n \in Notes, j.snap[n] = 0 PROVE ~Patched(j)[n].there
      <4>1. ~j.got[n].there
        BY <3>4, <3>5 DEF Added, Modified
      <4>2. n \in Deleted(j) \/ ~db.row[n].there
        BY <3>1, <3>2, <3>5 DEF RowsTrue, Deleted
      <4> QED BY <4>1, <4>2 DEF Patched, NoRow
    <3>6. ASSUME NEW n \in Notes, j.snap[n] # 0, j.snap[n] = file[n].stamp
          PROVE  Patched(j)[n].there /\ Patched(j)[n].terms = file[n].terms
      <4>1. CASE j.got[n].there
        BY <2>2, <2>6, <3>6, <4>1 DEF JobInv, Patched
      <4>2. CASE ~j.got[n].there
        <5>1. db.snap[n] = j.snap[n]
          BY <3>1, <3>4, <3>6, <4>2 DEF Added, Modified
        <5>2. db.row[n].there /\ db.row[n].terms = file[n].terms
          BY <3>2, <3>6, <5>1 DEF RowsTrue
        <5>3. n \notin Deleted(j)
          BY <3>6 DEF Deleted
        <5> QED BY <4>2, <5>2, <5>3 DEF Patched
      <4> QED BY <4>1, <4>2
    <3>7. RowsTrue'
      BY <2>2, <2>4, <3>5, <3>6 DEF RowsTrue
    <3> QED BY <2>4, <3>3, <3>7
  <2> QED BY <1>11, <2>2, <2>3, <2>5, <2>7, IndexTypes, ResetJobs
<1>13. ASSUME NEW b \in Builders, CommitRebuild(b) PROVE IInv'
  <2>1. PICK j \in Job : j = job[b]
    BY <1>0
  <2>2. /\ db'.snap = j.snap /\ db'.row = j.got /\ db'.df = Frequencies(j.got)
        /\ UNCHANGED <<file, clock>> /\ Goes(b, Idle) /\ j.at = "commit" /\ j.how = "rebuild"
    BY <1>13, <2>1 DEF CommitRebuild, Stays
  <2>3. \A n \in Notes : db'.snap[n] <= clock
    BY <2>1, <2>2 DEF IInv, Stamped
  <2>4. \A n \in Notes : /\ j.got[n].there <=> j.snap[n] # 0
                         /\ j.got[n].there /\ j.snap[n] = file[n].stamp => j.got[n].terms = file[n].terms
    BY <1>0, <2>1, <2>2 DEF JobInv, Prepared
  <2>5. RowsTrue'
    BY <2>2, <2>4 DEF RowsTrue
  <2> QED BY <1>11, <2>2, <2>3, <2>5, IndexTypes, ResetJobs
<1> QED
  BY <1>1, <1>2, <1>4, <1>5, <1>6, <1>7, <1>8, <1>9, <1>10, <1>12, <1>13
     DEF Next, ReadFails, EmbedFails, CommitFails

LEMMA InitIInv == Init => IInv
<1> SUFFICES ASSUME Init PROVE IInv
  OBVIOUS
<1> USE IndexAssumption
<1>1. TypeOK
  <2>1. job \in [Builders -> Job] /\ db \in Index
    BY IndexTypes DEF Init
  <2>2. file \in [Notes -> [stamp : 0 .. MaxEdits, terms : SUBSET Terms]]
    <3>1. 0 \in 0 .. MaxEdits /\ {} \in SUBSET Terms
      OBVIOUS
    <3> QED BY <3>1 DEF Init
  <2>3. clock \in 0 .. MaxEdits /\ jobs \in 0 .. MaxJobs /\ width \in Widths
    BY DEF Init, Widths
  <2>4. raced \in BOOLEAN
    BY DEF Init
  <2> QED BY <2>1, <2>2, <2>3, <2>4 DEF TypeOK, Job
<1>2. db = NoIndex /\ clock = 0 /\ raced = FALSE /\ \A b \in Builders : job[b] = Idle
  BY DEF Init
<1>3. \A n \in Notes : /\ file[n].stamp = 0 /\ NoIndex.snap[n] = 0 /\ ~NoIndex.row[n].there
                       /\ Idle.snap[n] = 0
  BY DEF Init, NoIndex, Idle, NoRow
<1>4. Stamped /\ RowsTrue
  BY <1>2, <1>3 DEF Stamped, RowsTrue
<1>5. db.df = Frequencies(db.row)
  <2>1. \A t : With(t, NoIndex.row) = {}
    BY <1>3 DEF With
  <2> QED BY <1>2, <2>1, FS_EmptySet DEF Frequencies, NoIndex
<1>6. \A b \in Builders : JobInv(job[b])
  BY <1>2 DEF JobInv, Idle
<1> QED BY <1>1, <1>4, <1>5, <1>6 DEF IInv

LEMMA Invariance == Spec => []IInv
BY InitIInv, NextIInv, PTL DEF Spec

----------------------------------------------------------------------------
(* Theorems.                                                               *)

\* The index file, the jobs and the vault stay what index.rs takes them for,
\* whatever the processes do between each other's steps.
THEOREM TypeCorrect == Spec => []TypeOK
<1>1. IInv => TypeOK
  BY DEF IInv
<1> QED BY <1>1, Invariance, PTL

\* What the manifest says is indexed is: index.rs skips a note whose size and
\* time are those of the manifest, and a job's scan, its reads and its commit
\* are apart; no edit, failure, crash or rebuild between them leaves a current
\* entry over another text's row, unless a refresh was committed over another
\* process's index.
THEOREM ManifestIsIndexed == Spec => []ManifestMeansIndexed
<1>1. IInv => ManifestMeansIndexed
  BY DEF IInv, RowsTrue, ManifestMeansIndexed
<1> QED BY <1>1, Invariance, PTL

\* update_document_frequencies_delta keeps the counts that
\* collect_document_frequencies would make, never short by its saturating
\* subtraction, unless a refresh was committed over another process's index.
THEOREM FrequenciesAreCounts == Spec => []FrequenciesCountRows
<1>1. IInv => FrequenciesCountRows
  BY DEF IInv, FrequenciesCountRows
<1> QED BY <1>1, Invariance, PTL

----------------------------------------------------------------------------
(* Ordering a finite set, for any order, given as a set of pairs.          *)

Totally(S, R) ==
  /\ \A x \in S : <<x, x>> \notin R
  /\ \A x, y, z \in S : <<x, y>> \in R /\ <<y, z>> \in R => <<x, z>> \in R
  /\ \A x, y \in S : x = y \/ <<x, y>> \in R \/ <<y, x>> \in R

\* How many are before x, and who has i of them before it.
Place(S, R) == [x \in S |-> Cardinality({y \in S : <<y, x>> \in R})]
ByPlace(S, place) == [i \in 1 .. Cardinality(S) |-> CHOOSE x \in S : place[x] = i - 1]
Sorted(S, R) == ByPlace(S, Place(S, R))

LEMMA PlacesFollow ==
  ASSUME NEW S, IsFiniteSet(S), NEW R, Totally(S, R)
  PROVE  /\ \A x \in S : Place(S, R)[x] \in 0 .. Cardinality(S) - 1
         /\ \A x, y \in S : <<x, y>> \in R <=> Place(S, R)[x] < Place(S, R)[y]
         /\ Cardinality(S) \in Nat
<1> DEFINE Under(x) == {y \in S : <<y, x>> \in R}
<1>1. \A x \in S : IsFiniteSet(Under(x)) /\ Cardinality(Under(x)) \in Nat /\ Place(S, R)[x] = Cardinality(Under(x))
  BY FS_Subset, FS_CardinalityType DEF Place
<1>2. ASSUME NEW x \in S, NEW y \in S, <<x, y>> \in R PROVE Place(S, R)[x] < Place(S, R)[y]
  <2>1. Under(x) \subseteq Under(y) /\ x \in Under(y) /\ x \notin Under(x)
    BY <1>2 DEF Totally
  <2>2. Under(x) \in SUBSET Under(y) /\ Under(x) # Under(y)
    BY <2>1
  <2> HIDE DEF Under
  <2>3. Cardinality(Under(x)) <= Cardinality(Under(y)) /\ Cardinality(Under(x)) # Cardinality(Under(y))
    BY <1>1, <2>2, FS_Subset
  <2> QED BY <1>1, <2>3
<1>3. ASSUME NEW x \in S PROVE Place(S, R)[x] \in 0 .. Cardinality(S) - 1
  <2>1. Under(x) \in SUBSET (S \ {x})
    BY DEF Totally
  <2>2. IsFiniteSet(S \ {x}) /\ Cardinality(S \ {x}) = Cardinality(S) - 1
    BY FS_RemoveElement
  <2> HIDE DEF Under
  <2>3. Cardinality(Under(x)) <= Cardinality(S \ {x})
    BY <2>1, <2>2, FS_Subset
  <2>4. Cardinality(S) \in Nat
    BY FS_CardinalityType
  <2> QED BY <1>1, <2>2, <2>3, <2>4
<1>4. Cardinality(S) \in Nat
  BY FS_CardinalityType
<1>5. ASSUME NEW x \in S, NEW y \in S, Place(S, R)[x] < Place(S, R)[y] PROVE <<x, y>> \in R
  <2>1. Place(S, R)[x] \in Nat /\ Place(S, R)[y] \in Nat
    BY <1>1
  <2>2. x # y /\ <<y, x>> \notin R
    BY <1>2, <1>5, <2>1
  <2> QED BY <2>2 DEF Totally
<1> QED BY <1>2, <1>3, <1>4, <1>5

LEMMA SortedIsInOrder ==
  ASSUME NEW S, IsFiniteSet(S), NEW R, Totally(S, R)
  PROVE  /\ Cardinality(S) \in Nat
         /\ Sorted(S, R) \in [1 .. Cardinality(S) -> S]
         /\ \A i \in 1 .. Cardinality(S) : Place(S, R)[Sorted(S, R)[i]] = i - 1
         /\ \A x \in S : Place(S, R)[x] + 1 \in 1 .. Cardinality(S) /\ Sorted(S, R)[Place(S, R)[x] + 1] = x
         /\ \A i, j \in 1 .. Cardinality(S) : <<Sorted(S, R)[i], Sorted(S, R)[j]>> \in R <=> i < j
<1>1. PICK n \in Nat : n = Cardinality(S)
  BY FS_CardinalityType
<1>2. PICK place : place = Place(S, R)
  OBVIOUS
<1>3. PICK sorted : sorted = Sorted(S, R)
  OBVIOUS
<1>4. /\ \A x \in S : place[x] \in 0 .. n - 1
      /\ \A x, y \in S : <<x, y>> \in R <=> place[x] < place[y]
  BY <1>1, <1>2, PlacesFollow
<1>5. place \in Injection(S, 0 .. n - 1)
  <2>1. place \in [S -> 0 .. n - 1]
    BY <1>2, <1>4 DEF Place
  <2>2. \A x, y \in S : place[x] = place[y] => x = y
    <3>1. \A x \in S : place[x] \in Int
      BY <1>4
    <3> QED BY <1>4, <3>1 DEF Totally
  <2> QED BY <2>1, <2>2 DEF Injection, IsInjective
<1>6. IsFiniteSet(0 .. n - 1) /\ Cardinality(0 .. n - 1) = n
  <2>1. 0 \in Int /\ n - 1 \in Int /\ (IF 0 > n - 1 THEN 0 ELSE (n - 1) - 0 + 1) = n
    OBVIOUS
  <2> QED BY <2>1, FS_Interval
<1>7. place \in Surjection(S, 0 .. n - 1)
  BY <1>1, <1>5, <1>6, FS_Injection
<1>8. ASSUME NEW i \in 1 .. n PROVE sorted[i] \in S /\ place[sorted[i]] = i - 1
  <2>1. \E x \in S : place[x] = i - 1
    BY <1>7 DEF Surjection
  <2> QED BY <1>1, <1>2, <1>3, <2>1 DEF Sorted, ByPlace
<1>9. sorted \in [1 .. n -> S]
  BY <1>1, <1>3, <1>8 DEF Sorted, ByPlace
<1>10. ASSUME NEW x \in S PROVE place[x] + 1 \in 1 .. n /\ sorted[place[x] + 1] = x
  <2>1. place[x] + 1 \in 1 .. n
    BY <1>4
  <2>2. sorted[place[x] + 1] \in S /\ place[sorted[place[x] + 1]] = place[x]
    BY <1>4, <1>8, <2>1
  <2> QED BY <1>5, <2>1, <2>2 DEF Injection, IsInjective
<1>11. \A i, j \in 1 .. n : <<sorted[i], sorted[j]>> \in R <=> i < j
  BY <1>4, <1>8
<1> QED BY <1>1, <1>2, <1>3, <1>8, <1>9, <1>10, <1>11

\* What else is in T is after the kth of S.
AllAfter(T, S, R, k) == \A x \in T \ S : <<Sorted(S, R)[k], x>> \in R

\* More elements that are all after the kth leave the first k where they are.
LEMMA LaterOnesDoNotMatter ==
  ASSUME NEW T, IsFiniteSet(T), NEW R, Totally(T, R), NEW S \in SUBSET T,
         NEW k \in 1 .. Cardinality(S), AllAfter(T, S, R, k)
  PROVE  /\ k <= Cardinality(T)
         /\ \A i \in 1 .. k : Sorted(T, R)[i] = Sorted(S, R)[i]
<1>1. IsFiniteSet(S) /\ Totally(S, R) /\ Cardinality(S) <= Cardinality(T)
  BY FS_Subset DEF Totally
<1>2. Cardinality(S) \in Nat /\ Cardinality(T) \in Nat
  BY <1>1, FS_CardinalityType
<1>3. ASSUME NEW i \in 1 .. k PROVE Sorted(T, R)[i] = Sorted(S, R)[i]
  <2>1. PICK x \in S : x = Sorted(S, R)[i]
    BY <1>1, <1>2, SortedIsInOrder
  <2>2. Place(S, R)[x] = i - 1 /\ (x = Sorted(S, R)[k] \/ <<x, Sorted(S, R)[k]>> \in R) /\ Sorted(S, R)[k] \in S
    <3>1. i \in 1 .. Cardinality(S) /\ k \in 1 .. Cardinality(S) /\ (i < k \/ i = k)
      BY <1>2
    <3>2. Place(S, R)[x] = i - 1
      BY <1>1, <2>1, <3>1, SortedIsInOrder
    <3>3. Sorted(S, R)[k] \in S
      <4>1. Sorted(S, R) \in [1 .. Cardinality(S) -> S]
        BY <1>1, SortedIsInOrder
      <4> QED BY <3>1, <4>1
    <3>4. i < k => <<Sorted(S, R)[i], Sorted(S, R)[k]>> \in R
      BY <1>1, <3>1, SortedIsInOrder
    <3> QED BY <2>1, <3>1, <3>2, <3>3, <3>4
  <2>3. {y \in T : <<y, x>> \in R} = {y \in S : <<y, x>> \in R}
    <3> SUFFICES ASSUME NEW y \in T \ S, <<y, x>> \in R PROVE FALSE
      OBVIOUS
    <3>1. <<Sorted(S, R)[k], y>> \in R
      BY DEF AllAfter
    <3>2. <<Sorted(S, R)[k], x>> \in R
      BY <2>2, <3>1 DEF Totally
    <3> QED BY <2>2, <3>2 DEF Totally
  <2>4. Place(T, R)[x] = i - 1
    BY <2>2, <2>3 DEF Place
  <2> QED BY <1>2, <2>1, <2>4, SortedIsInOrder
<1> QED BY <1>1, <1>2, <1>3

----------------------------------------------------------------------------
(* Shares.                                                                 *)

LEMMA QuotientFalls ==
  ASSUME NEW s \in Nat, NEW a \in Nat \ {0}, NEW b \in Nat \ {0}, a <= b
  PROVE  s \div b \in Nat /\ s \div a \in Nat /\ s \div b <= s \div a
<1>1. PICK q \in Int : q = s \div a
  OBVIOUS
<1>2. PICK r \in Int : r = s \div b
  OBVIOUS
<1>3. a * q <= s /\ s < a * q + a /\ q >= 0
  BY <1>1
<1>4. b * r <= s /\ s < b * r + b /\ r >= 0
  BY <1>2
<1>5. ASSUME r > q PROVE FALSE
  <2>1. b * r >= b * (q + 1)
    BY <1>5
  <2>2. b * (q + 1) >= a * (q + 1) /\ a * (q + 1) = a * q + a
    BY <1>3
  <2> QED BY <1>3, <1>4, <2>1, <2>2
<1> QED BY <1>1, <1>2, <1>3, <1>4, <1>5

LEMMA QuotientIsNatural ==
  ASSUME NEW s \in Nat, NEW b \in Nat \ {0}
  PROVE  s \div b \in Nat
<1>1. b <= b
  OBVIOUS
<1> QED BY <1>1, QuotientFalls

\* Exactly where the divisors divide.
LEMMA ExactQuotientFalls ==
  ASSUME NEW s \in Nat \ {0}, NEW a \in Nat \ {0}, NEW b \in Nat \ {0}, a < b, s % a = 0, s % b = 0
  PROVE  s \div b > 0 /\ s \div b < s \div a
<1>1. PICK q \in Int : q = s \div a
  OBVIOUS
<1>2. PICK r \in Int : r = s \div b
  OBVIOUS
<1>3. s = a * q
  BY <1>1
<1>4. s = b * r
  BY <1>2
<1>5. r > 0 /\ q > 0
  BY <1>3, <1>4
<1>6. a * q < b * q
  BY <1>5
<1>7. ~(q <= r)
  <2> SUFFICES ASSUME q <= r PROVE FALSE
    OBVIOUS
  <2>1. b * q <= b * r
    OBVIOUS
  <2> QED BY <1>3, <1>4, <1>6, <2>1
<1> QED BY <1>1, <1>2, <1>5, <1>7

LEMMA SharesFall ==
  ASSUME NEW w \in Nat, NEW r \in Nat, NEW l \in Nat, l <= r
  PROVE  Share(w, r) \in Nat /\ Share(w, l) \in Nat /\ Share(w, r) <= Share(w, l)
<1>1. Scale \in Nat /\ K + r \in Nat \ {0} /\ K + l \in Nat \ {0} /\ K + l <= K + r
  BY FederationAssumption
<1>2. PICK x \in Nat : x = Scale \div (K + r)
  BY <1>1, QuotientFalls
<1>3. PICK y \in Nat : y = Scale \div (K + l)
  BY <1>1, QuotientFalls
<1>4. x <= y
  BY <1>1, <1>2, <1>3, QuotientFalls
<1>5. w * x \in Nat /\ w * y \in Nat /\ w * x <= w * y
  BY <1>4
<1> QED BY <1>2, <1>3, <1>5 DEF Share

\* A sum over a finite set, taken one by one: sum is what MapThenSumSet iterates.
IsSum(sum, f, T) ==
  sum = [s \in SUBSET T |-> IF s = {} THEN 0 ELSE f[CHOOSE x \in s : TRUE] + sum[s \ {CHOOSE x \in s : TRUE}]]

LEMMA SumExists ==
  ASSUME NEW T, IsFiniteSet(T), NEW f \in [T -> Nat]
  PROVE  \E sum : IsSum(sum, f, T)
<1> DEFINE Small(n) == {s \in SUBSET T : Cardinality(s) <= n}
<1> DEFINE Step(sum, s) == IF s = {} THEN 0 ELSE f[CHOOSE x \in s : TRUE] + sum[s \ {CHOOSE x \in s : TRUE}]
<1> DEFINE Bad == {n \in Nat : ~\E sum \in [Small(n) -> Nat] : \A s \in Small(n) : sum[s] = Step(sum, s)}
<1>1. \A s \in SUBSET T : IsFiniteSet(s) /\ Cardinality(s) \in Nat /\ Cardinality(s) <= Cardinality(T)
  BY FS_Subset, FS_CardinalityType
<1>2. \A s \in SUBSET T : s # {} =>
        /\ (CHOOSE x \in s : TRUE) \in s
        /\ s \ {CHOOSE x \in s : TRUE} \in SUBSET T
        /\ Cardinality(s \ {CHOOSE x \in s : TRUE}) = Cardinality(s) - 1
        /\ Cardinality(s) > 0
  <2> SUFFICES ASSUME NEW s \in SUBSET T, s # {}
               PROVE  /\ (CHOOSE x \in s : TRUE) \in s
                      /\ s \ {CHOOSE x \in s : TRUE} \in SUBSET T
                      /\ Cardinality(s \ {CHOOSE x \in s : TRUE}) = Cardinality(s) - 1
                      /\ Cardinality(s) > 0
    OBVIOUS
  <2>1. PICK c : c = CHOOSE x \in s : TRUE
    OBVIOUS
  <2>2. c \in s
    BY <2>1
  <2>3. Cardinality(s \ {c}) = Cardinality(s) - 1
    BY <1>1, <2>2, FS_RemoveElement
  <2>4. Cardinality(s) # 0
    BY <1>1, FS_EmptySet
  <2> QED BY <1>1, <2>1, <2>2, <2>3, <2>4
<1>3. 0 \notin Bad
  <2>1. \A s \in Small(0) : s = {}
    BY <1>1, FS_EmptySet
  <2>2. [s \in Small(0) |-> 0] \in [Small(0) -> Nat]
    OBVIOUS
  <2> QED BY <2>1, <2>2
<1>4. ASSUME NEW n \in Nat, n \notin Bad PROVE n + 1 \notin Bad
  <2>1. PICK sum \in [Small(n) -> Nat] : \A s \in Small(n) : sum[s] = Step(sum, s)
    BY <1>4
  <2>2. PICK more : more = [s \in Small(n + 1) |-> Step(sum, s)]
    OBVIOUS
  <2>3. \A s \in Small(n + 1) : s # {} =>
          /\ s \ {CHOOSE x \in s : TRUE} \in Small(n)
          /\ f[CHOOSE x \in s : TRUE] \in Nat
    BY <1>1, <1>2
  <2>4. \A s \in Small(n + 1) : Step(sum, s) \in Nat
    BY <2>3
  <2>5. Small(n) \subseteq Small(n + 1)
    BY <1>1
  <2>6. \A s \in Small(n) : more[s] = sum[s]
    BY <2>1, <2>2, <2>5
  <2>7. ASSUME NEW s \in Small(n + 1) PROVE more[s] = Step(more, s)
    <3>1. more[s] = Step(sum, s)
      BY <2>2
    <3>2. s # {} => more[s \ {CHOOSE x \in s : TRUE}] = sum[s \ {CHOOSE x \in s : TRUE}]
      BY <2>3, <2>6
    <3> QED BY <3>1, <3>2
  <2>8. more \in [Small(n + 1) -> Nat]
    BY <2>2, <2>4
  <2> QED BY <2>7, <2>8
<1>5. Bad = {}
  <2> SUFFICES ASSUME Bad # {} PROVE FALSE
    OBVIOUS
  <2>1. Bad \subseteq Nat
    OBVIOUS
  <2> HIDE DEF Bad
  <2>2. PICK n \in Bad : \A y \in Bad : n <= y
    BY <2>1, LeastNatural
  <2>3. n \in Nat /\ n # 0
    BY <1>3, <2>1
  <2>4. n - 1 \in Nat /\ n - 1 \notin Bad /\ (n - 1) + 1 = n
    BY <2>2, <2>3
  <2> QED BY <1>4, <2>4
<1>6. Cardinality(T) \in Nat /\ Small(Cardinality(T)) = SUBSET T
  BY <1>1, FS_CardinalityType
<1>7. PICK sum \in [SUBSET T -> Nat] : \A s \in SUBSET T : sum[s] = Step(sum, s)
  <2>1. Cardinality(T) \notin Bad
    BY <1>5
  <2> HIDE DEF Small, Step
  <2>2. PICK sum \in [Small(Cardinality(T)) -> Nat] : \A s \in Small(Cardinality(T)) : sum[s] = Step(sum, s)
    BY <1>6, <2>1
  <2> QED BY <1>6, <2>2
<1>8. sum = [s \in SUBSET T |-> Step(sum, s)]
  BY <1>7
<1> QED BY <1>8 DEF IsSum

LEMMA SumsAreNaturals ==
  ASSUME NEW T, IsFiniteSet(T), NEW f \in [T -> Nat], NEW sum, IsSum(sum, f, T)
  PROVE  /\ sum[T] \in Nat
         /\ \A x : T = {x} => sum[T] = f[x]
<1> DEFINE Bad == {n \in Nat : \E s \in SUBSET T : Cardinality(s) = n /\ sum[s] \notin Nat}
<1>1. \A s \in SUBSET T : IsFiniteSet(s) /\ Cardinality(s) \in Nat
  BY FS_Subset, FS_CardinalityType
<1>2. sum[{}] = 0
  BY DEF IsSum
<1>3. ASSUME NEW s \in SUBSET T, s # {}
      PROVE  \E x \in s : sum[s] = f[x] + sum[s \ {x}] /\ Cardinality(s \ {x}) = Cardinality(s) - 1 /\ Cardinality(s) > 0
  <2>1. PICK c : c = CHOOSE x \in s : TRUE
    OBVIOUS
  <2>2. c \in s
    BY <1>3, <2>1
  <2>3. sum[s] = f[c] + sum[s \ {c}]
    BY <1>3, <2>1 DEF IsSum
  <2>4. Cardinality(s \ {c}) = Cardinality(s) - 1
    BY <1>1, <2>2, FS_RemoveElement
  <2>5. Cardinality(s) > 0
    BY <1>1, <1>3, FS_EmptySet
  <2> QED BY <2>2, <2>3, <2>4, <2>5
<1>4. Bad = {}
  <2> SUFFICES ASSUME Bad # {} PROVE FALSE
    OBVIOUS
  <2>1. PICK n \in Bad : \A y \in Bad : n <= y
    BY LeastNatural
  <2>2. PICK s \in SUBSET T : Cardinality(s) = n /\ sum[s] \notin Nat
    OBVIOUS
  <2>3. s # {}
    BY <1>2, <2>2
  <2>4. PICK x \in s : sum[s] = f[x] + sum[s \ {x}] /\ Cardinality(s \ {x}) = Cardinality(s) - 1 /\ Cardinality(s) > 0
    BY <1>3, <2>3
  <2>5. s \ {x} \in SUBSET T /\ n - 1 \in Nat /\ n - 1 \notin Bad
    BY <2>1, <2>2, <2>4
  <2>6. sum[s \ {x}] \in Nat
    BY <2>2, <2>4, <2>5
  <2> QED BY <2>2, <2>4, <2>6
<1>5. sum[T] \in Nat
  BY <1>1, <1>4
<1>6. ASSUME NEW x, T = {x} PROVE sum[T] = f[x]
  <2>1. PICK y \in T : sum[T] = f[y] + sum[T \ {y}]
    BY <1>3, <1>6
  <2>2. y = x /\ T \ {y} = {}
    BY <1>6
  <2>3. f[x] \in Nat
    BY <1>6
  <2> QED BY <1>2, <2>1, <2>2, <2>3
<1> QED BY <1>5, <1>6

LEMMA ScoresAreNaturals ==
  ASSUME NEW w \in Nat, NEW ranks \in SUBSET Nat, IsFiniteSet(ranks)
  PROVE  /\ Score(w, ranks) \in Nat
         /\ \A r : ranks = {r} => Score(w, ranks) = Share(w, r)
<1>1. PICK f : f = [r \in ranks |-> Share(w, r)]
  OBVIOUS
<1>2. f \in [ranks -> Nat]
  BY <1>1, SharesFall
<1> DEFINE sum == CHOOSE g : IsSum(g, f, ranks)
<1>3. IsSum(sum, f, ranks)
  BY <1>2, SumExists
<1>4. \A g : IsSum(g, f, ranks) <=>
               g = [s \in SUBSET ranks |-> IF s = {} THEN 0 ELSE Share(w, CHOOSE x \in s : TRUE) + g[s \ {CHOOSE x \in s : TRUE}]]
  <2>1. \A s \in SUBSET ranks : s # {} => (CHOOSE x \in s : TRUE) \in ranks
    OBVIOUS
  <2>2. \A s \in SUBSET ranks : s # {} => f[CHOOSE x \in s : TRUE] = Share(w, CHOOSE x \in s : TRUE)
    BY <1>1, <2>1
  <2> QED BY <2>2 DEF IsSum
<1>5. sum = CHOOSE g : g = [s \in SUBSET ranks |-> IF s = {} THEN 0 ELSE Share(w, CHOOSE x \in s : TRUE) + g[s \ {CHOOSE x \in s : TRUE}]]
  BY <1>4
<1>6. Score(w, ranks) = sum[ranks]
  BY <1>5 DEF Score, MapThenSumSet, MapThenFoldSet
<1> HIDE DEF sum
<1>7. sum[ranks] \in Nat /\ \A r : ranks = {r} => sum[ranks] = f[r]
  <2>1. PICK g : g = sum
    OBVIOUS
  <2>2. IsSum(g, f, ranks)
    BY <1>3, <2>1
  <2>3. g[ranks] \in Nat
    BY <1>2, <2>2, SumsAreNaturals
  <2>4. ASSUME NEW r, ranks = {r} PROVE g[ranks] = f[r]
    BY <1>2, <2>2, <2>4, SumsAreNaturals
  <2> QED BY <2>1, <2>3, <2>4
<1> QED BY <1>1, <1>6, <1>7

----------------------------------------------------------------------------
(* Hits.                                                                   *)

IsHit(h) == h.mount \in Mounts /\ h.key \in 1 .. MaxLen /\ h.score \in Nat

LEMMA InASequence ==
  ASSUME NEW S, NEW s \in Seq(S)
  PROVE  /\ DOMAIN s = 1 .. Len(s) /\ Len(s) \in Nat
         /\ \A i \in DOMAIN s : s[i] \in S
OBVIOUS

LEMMA RanksAreNumbers ==
  ASSUME NEW keys \in Seq(1 .. MaxLen), NEW key
  PROVE  Ranks(keys, key) \in SUBSET Nat /\ IsFiniteSet(Ranks(keys, key))
<1>1. \A i \in DOMAIN keys : i \in Nat \ {0} /\ i - 1 <= Len(keys) /\ i - 1 \in Nat
  OBVIOUS
<1>2. Ranks(keys, key) \in SUBSET Nat /\ \A r \in Ranks(keys, key) : r <= Len(keys)
  BY <1>1 DEF Ranks
<1>3. Len(keys) \in Nat
  OBVIOUS
<1> QED BY <1>2, <1>3, FS_BoundedSetOfNaturals

LEMMA HitsOfAMount ==
  ASSUME NEW m \in Mounts, weight[m] \in Nat, NEW keys \in Seq(1 .. MaxLen)
  PROVE  /\ \A h \in HitsOf(m, keys) : IsHit(h) /\ h.mount = m
         /\ \A g, h \in HitsOf(m, keys) : g.key = h.key => g = h
<1>1. \A key : Score(weight[m], Ranks(keys, key)) \in Nat
  BY RanksAreNumbers, ScoresAreNaturals
<1>2. Range(keys) \subseteq 1 .. MaxLen
  <2>1. \A i \in DOMAIN keys : keys[i] \in 1 .. MaxLen
    BY InASequence
  <2> QED BY <2>1 DEF Range
<1>3. ASSUME NEW h \in HitsOf(m, keys)
      PROVE  /\ h.key \in Range(keys)
             /\ h = [mount |-> m, key |-> h.key, rank |-> Min(Ranks(keys, h.key)), score |-> Score(weight[m], Ranks(keys, h.key))]
  BY DEF HitsOf
<1>4. ASSUME NEW h \in HitsOf(m, keys) PROVE IsHit(h) /\ h.mount = m
  <2>1. h.mount = m /\ h.score = Score(weight[m], Ranks(keys, h.key))
    BY <1>3
  <2> QED BY <1>1, <1>2, <1>3, <2>1 DEF IsHit
<1> QED BY <1>3, <1>4

\* A key that is at one rank only.
HitAt(m, key, rank) == [mount |-> m, key |-> key, rank |-> rank, score |-> Share(weight[m], rank)]

Distinct(keys) == \A i, j \in DOMAIN keys : keys[i] = keys[j] => i = j

LEMMA HitsOfDistinctKeys ==
  ASSUME NEW m \in Mounts, weight[m] \in Nat, NEW keys \in Seq(1 .. MaxLen), Distinct(keys)
  PROVE  HitsOf(m, keys) = {HitAt(m, keys[i], i - 1) : i \in DOMAIN keys}
<1>1. ASSUME NEW i \in DOMAIN keys
      PROVE  [mount |-> m, key |-> keys[i], rank |-> Min(Ranks(keys, keys[i])), score |-> Score(weight[m], Ranks(keys, keys[i]))]
               = HitAt(m, keys[i], i - 1)
  <2>1. {j \in DOMAIN keys : keys[j] = keys[i]} = {i}
    BY DEF Distinct
  <2>2. Ranks(keys, keys[i]) = {i - 1}
    BY <2>1 DEF Ranks
  <2>3. i - 1 \in Nat
    OBVIOUS
  <2>4. Score(weight[m], Ranks(keys, keys[i])) = Share(weight[m], i - 1)
    BY <2>2, RanksAreNumbers, ScoresAreNaturals
  <2>5. Min(Ranks(keys, keys[i])) = i - 1
    BY <2>2, <2>3 DEF Min
  <2> QED BY <2>4, <2>5 DEF HitAt
<1> DEFINE Hit(key) == [mount |-> m, key |-> key, rank |-> Min(Ranks(keys, key)), score |-> Score(weight[m], Ranks(keys, key))]
<1>2. HitsOf(m, keys) = {Hit(key) : key \in Range(keys)}
  BY DEF HitsOf
<1>3. \A i \in DOMAIN keys : Hit(keys[i]) = HitAt(m, keys[i], i - 1)
  BY <1>1
<1> HIDE DEF Hit
<1>4. \A key : key \in Range(keys) <=> \E i \in DOMAIN keys : key = keys[i]
  BY DEF Range
<1>5. \A h : h \in HitsOf(m, keys) <=> \E i \in DOMAIN keys : h = HitAt(m, keys[i], i - 1)
  BY <1>2, <1>3, <1>4
<1> QED BY <1>5

----------------------------------------------------------------------------
(* The order of hits.                                                      *)

FusedOrder(S) == {pair \in S \X S : Before(pair[1], pair[2])}

LEMMA HitsAreOrdered ==
  ASSUME weight \in [Mounts -> Weights], NEW lists, \A m \in Mounts : lists[m].keys \in Seq(1 .. MaxLen)
  PROVE  /\ \A h \in HitsIn(lists) : IsHit(h)
         /\ IsFiniteSet(HitsIn(lists)) /\ Totally(HitsIn(lists), FusedOrder(HitsIn(lists)))
         /\ InOrder(HitsIn(lists), Before) = Sorted(HitsIn(lists), FusedOrder(HitsIn(lists)))
<1>1. PICK H : H = HitsIn(lists)
  OBVIOUS
<1>2. \A m \in Mounts : weight[m] \in Nat
  BY FederationAssumption
<1>3. ASSUME NEW h \in H PROVE h.mount \in Mounts /\ h \in HitsOf(h.mount, lists[h.mount].keys) /\ IsHit(h)
  <2>1. PICK m \in Mounts : h \in HitsOf(m, lists[m].keys)
    BY <1>1 DEF HitsIn
  <2> QED BY <1>2, <2>1, HitsOfAMount
<1>4. \A g, h \in H : g.mount = h.mount /\ g.key = h.key => g = h
  BY <1>2, <1>3, HitsOfAMount
<1>5. IsFiniteSet(H)
  <2>1. IsFiniteSet(Mounts) /\ IsFiniteSet(1 .. MaxLen)
    <3>1. M \in Int /\ MaxLen \in Int /\ 1 \in Int
      BY FederationAssumption
    <3> QED BY <3>1, FS_Interval DEF Mounts
  <2>2. IsFiniteSet(Mounts \X (1 .. MaxLen))
    BY <2>1, FS_Product
  <2>3. PICK f : f = [h \in H |-> <<h.mount, h.key>>]
    OBVIOUS
  <2>4. f \in Injection(H, Mounts \X (1 .. MaxLen))
    BY <1>3, <1>4, <2>3 DEF Injection, IsInjective, IsHit
  <2> QED BY <2>2, <2>4, FS_Injection
<1>6. Totally(H, FusedOrder(H))
  <2>1. \A h \in H : h.mount \in Nat /\ h.key \in Nat /\ h.score \in Nat
    BY <1>3 DEF IsHit, Mounts
  <2>2. \A g, h \in H : <<g, h>> \in FusedOrder(H) <=> Before(g, h)
    BY DEF FusedOrder
  <2>3. \A h \in H : ~Before(h, h)
    BY <2>1 DEF Before
  <2>4. \A x, y, z \in H : Before(x, y) /\ Before(y, z) => Before(x, z)
    BY <2>1 DEF Before
  <2>5. \A x, y \in H : x = y \/ Before(x, y) \/ Before(y, x)
    BY <1>4, <2>1 DEF Before
  <2> QED BY <2>2, <2>3, <2>4, <2>5 DEF Totally
<1>7. InOrder(H, Before) = Sorted(H, FusedOrder(H))
  <2>1. \A x \in H : {y \in H : Before(y, x)} = {y \in H : <<y, x>> \in FusedOrder(H)}
    BY DEF FusedOrder
  <2>2. [x \in H |-> Cardinality({y \in H : Before(y, x)})] = Place(H, FusedOrder(H))
    BY <2>1 DEF Place
  <2>3. PICK before : before = [x \in H |-> Cardinality({y \in H : Before(y, x)})]
    OBVIOUS
  <2>4. InOrder(H, Before) = ByPlace(H, before)
    BY <2>3 DEF InOrder, ByPlace
  <2> QED BY <2>2, <2>3, <2>4 DEF Sorted
<1> QED BY <1>1, <1>3, <1>5, <1>6, <1>7

----------------------------------------------------------------------------
(* The first of a ranking.                                                 *)

LEMMA SequencesOfMore ==
  ASSUME NEW S, NEW T, S \subseteq T, NEW s \in Seq(S)
  PROVE  s \in Seq(T)
OBVIOUS

LEMMA SameSequence ==
  ASSUME NEW S, NEW s \in Seq(S), NEW t \in Seq(S), Len(s) = Len(t), \A i \in 1 .. Len(s) : s[i] = t[i]
  PROVE  s = t
OBVIOUS

LEMMA FirstOfASequence ==
  ASSUME NEW S, NEW s \in Seq(S), NEW n \in Nat
  PROVE  /\ FirstOf(s, n) \in Seq(S)
         /\ Len(FirstOf(s, n)) = IF n <= Len(s) THEN n ELSE Len(s)
         /\ \A i \in 1 .. Len(FirstOf(s, n)) : FirstOf(s, n)[i] = s[i]
<1>1. PICK k : k = Min({n, Len(s)})
  OBVIOUS
<1>2. Len(s) \in Nat
  OBVIOUS
<1>3. k = IF n <= Len(s) THEN n ELSE Len(s)
  BY <1>1, <1>2 DEF Min
<1>4. k \in 0 .. Len(s)
  BY <1>2, <1>3
<1>5. FirstOf(s, n) = SubSeq(s, 1, k)
  BY <1>1 DEF FirstOf
<1> QED BY <1>3, <1>4, <1>5

LEMMA FirstOfIsShorter ==
  ASSUME NEW S, NEW s \in Seq(S), NEW n \in Nat
  PROVE  /\ FirstOf(s, n) \in Seq(S) /\ Len(FirstOf(s, n)) <= Len(s)
         /\ \A i \in 1 .. Len(FirstOf(s, n)) : FirstOf(s, n)[i] = s[i]
<1>1. Len(s) \in Nat
  OBVIOUS
<1> QED BY <1>1, FirstOfASequence

LEMMA SortedIsASequence ==
  ASSUME NEW S, IsFiniteSet(S), NEW R, Totally(S, R)
  PROVE  Sorted(S, R) \in Seq(S) /\ Len(Sorted(S, R)) = Cardinality(S) /\ Cardinality(S) \in Nat
<1>1. PICK n \in Nat : n = Cardinality(S)
  BY FS_CardinalityType
<1>2. PICK sorted \in [1 .. n -> S] : sorted = Sorted(S, R)
  BY <1>1, SortedIsInOrder
<1> QED BY <1>1, <1>2

\* The order of fewer hits is the same order.
LEMMA OrderOfFewer ==
  ASSUME NEW S, NEW T, S \subseteq T
  PROVE  Sorted(S, FusedOrder(T)) = Sorted(S, FusedOrder(S))
<1>1. \A x \in S : {y \in S : <<y, x>> \in FusedOrder(T)} = {y \in S : <<y, x>> \in FusedOrder(S)}
  BY DEF FusedOrder
<1>2. Place(S, FusedOrder(T)) = Place(S, FusedOrder(S))
  BY <1>1 DEF Place
<1> QED BY <1>2 DEF Sorted

----------------------------------------------------------------------------
(* Reading on.                                                             *)

\* Lists of the same mounts, in which open ones go on.
GoesOn(lists, more) ==
  \A m \in Mounts :
    /\ lists[m].keys \in Seq(1 .. MaxLen) /\ more[m].keys \in Seq(1 .. MaxLen)
    /\ more[m].error = lists[m].error
    /\ ~Open(lists[m]) => more[m].keys = lists[m].keys
    /\ Open(lists[m]) =>
         /\ Distinct(more[m].keys) /\ Len(lists[m].keys) <= Len(more[m].keys)
         /\ \A i \in 1 .. Len(lists[m].keys) : more[m].keys[i] = lists[m].keys[i]

\* A hit that is found by reading on has at most the share of the next rank.
LEMMA NewHitsAreLow ==
  ASSUME weight \in [Mounts -> Weights], NEW lists, NEW more, GoesOn(lists, more)
  PROVE  /\ HitsIn(lists) \subseteq HitsIn(more)
         /\ \A h \in HitsIn(more) \ HitsIn(lists) :
              Open(lists[h.mount]) /\ h.score <= Share(weight[h.mount], Len(lists[h.mount].keys))
<1>1. \A m \in Mounts : weight[m] \in Nat
  BY FederationAssumption
<1>2. ASSUME NEW m \in Mounts, Open(lists[m])
      PROVE  /\ HitsOf(m, lists[m].keys) \subseteq HitsOf(m, more[m].keys)
             /\ \A h \in HitsOf(m, more[m].keys) \ HitsOf(m, lists[m].keys) :
                  h.mount = m /\ h.score <= Share(weight[m], Len(lists[m].keys))
  <2>1. PICK k \in Seq(1 .. MaxLen) : k = lists[m].keys
    BY DEF GoesOn
  <2>2. PICK l \in Seq(1 .. MaxLen) : l = more[m].keys
    BY DEF GoesOn
  <2>3. Distinct(l) /\ Len(k) <= Len(l) /\ \A i \in 1 .. Len(k) : l[i] = k[i]
    BY <1>2, <2>1, <2>2 DEF GoesOn
  <2>4. DOMAIN k = 1 .. Len(k) /\ DOMAIN l = 1 .. Len(l) /\ Len(k) \in Nat /\ Len(l) \in Nat
    BY InASequence
  <2>5. Distinct(k)
    BY <2>3, <2>4 DEF Distinct
  <2>6. HitsOf(m, k) = {HitAt(m, k[i], i - 1) : i \in DOMAIN k}
    BY <1>1, <2>5, HitsOfDistinctKeys
  <2>7. HitsOf(m, l) = {HitAt(m, l[i], i - 1) : i \in DOMAIN l}
    BY <1>1, <2>3, HitsOfDistinctKeys
  <2>8. HitsOf(m, k) \subseteq HitsOf(m, l)
    BY <2>3, <2>4, <2>6, <2>7
  <2>9. ASSUME NEW h \in HitsOf(m, l), h \notin HitsOf(m, k) PROVE h.mount = m /\ h.score <= Share(weight[m], Len(k))
    <3>1. PICK i \in DOMAIN l : h = HitAt(m, l[i], i - 1)
      BY <2>7
    <3>2. i \notin DOMAIN k
      BY <2>3, <2>4, <2>6, <2>9, <3>1
    <3>3. i - 1 \in Nat /\ Len(k) <= i - 1
      BY <2>4, <3>2
    <3>4. h.mount = m /\ h.score = Share(weight[m], i - 1)
      BY <3>1 DEF HitAt
    <3>5. weight[m] \in Nat /\ Len(k) \in Nat
      BY <1>1, <2>4
    <3>6. Share(weight[m], i - 1) <= Share(weight[m], Len(k))
      BY <3>3, <3>5, SharesFall
    <3> QED BY <3>4, <3>6
  <2> QED BY <2>1, <2>2, <2>8, <2>9
<1>3. HitsIn(lists) \subseteq HitsIn(more)
  <2> SUFFICES ASSUME NEW m \in Mounts, ~lists[m].error PROVE HitsOf(m, lists[m].keys) \subseteq HitsOf(m, more[m].keys) /\ ~more[m].error
    BY DEF HitsIn
  <2> QED BY <1>2 DEF GoesOn
<1>4. ASSUME NEW h \in HitsIn(more) \ HitsIn(lists)
      PROVE  Open(lists[h.mount]) /\ h.score <= Share(weight[h.mount], Len(lists[h.mount].keys))
  <2>1. PICK m \in Mounts : ~more[m].error /\ h \in HitsOf(m, more[m].keys)
    BY DEF HitsIn
  <2>2. h \notin HitsOf(m, lists[m].keys)
    BY <2>1 DEF HitsIn, GoesOn
  <2>3. Open(lists[m])
    BY <2>1, <2>2 DEF GoesOn
  <2> QED BY <1>2, <2>1, <2>2, <2>3
<1> QED BY <1>3, <1>4

\* federation.rs, point 5: what the unseen candidates of a stable frontier could
\* add would all come after the answer.
LEMMA TheFrontierIsEnough ==
  ASSUME weight \in [Mounts -> Weights], NEW lists, NEW more, GoesOn(lists, more),
         Unstable(lists, Fuse(lists, Window)) = {}
  PROVE  FirstOf(Fuse(lists, Window), Limit) = Fuse(more, Limit)
<1>1. PICK A : A = HitsIn(lists)
  OBVIOUS
<1>2. PICK B : B = HitsIn(more)
  OBVIOUS
<1>3. /\ A \subseteq B
      /\ \A h \in B \ A : Open(lists[h.mount]) /\ h.score <= Share(weight[h.mount], Len(lists[h.mount].keys))
  BY <1>1, <1>2, NewHitsAreLow
<1>4. /\ IsFiniteSet(A) /\ Totally(A, FusedOrder(A)) /\ InOrder(A, Before) = Sorted(A, FusedOrder(A))
      /\ \A h \in A : IsHit(h)
  BY <1>1, HitsAreOrdered DEF GoesOn
<1>5. /\ IsFiniteSet(B) /\ Totally(B, FusedOrder(B)) /\ InOrder(B, Before) = Sorted(B, FusedOrder(B))
      /\ \A h \in B : IsHit(h)
  BY <1>2, HitsAreOrdered DEF GoesOn
<1>6. PICK a \in Seq(A) : a = Sorted(A, FusedOrder(A)) /\ Len(a) = Cardinality(A)
  BY <1>4, SortedIsASequence
<1>7. PICK b \in Seq(B) : b = Sorted(B, FusedOrder(B)) /\ Len(b) = Cardinality(B)
  BY <1>5, SortedIsASequence
<1>8. PICK h \in Seq(A) : h = Fuse(lists, Window)
  BY <1>1, <1>4, <1>6, FirstOfASequence, FederationAssumption DEF Fuse
<1>9. /\ Len(h) = IF Window <= Len(a) THEN Window ELSE Len(a)
      /\ \A i \in 1 .. Len(h) : h[i] = a[i]
  BY <1>1, <1>4, <1>6, <1>8, FirstOfASequence, FederationAssumption DEF Fuse
<1>10. Fuse(more, Limit) = FirstOf(b, Limit)
  BY <1>2, <1>5, <1>7 DEF Fuse
<1>11. Limit \in Nat \ {0} /\ Window \in Nat /\ Limit <= Window /\ Len(a) \in Nat /\ Len(b) \in Nat /\ a \in Seq(B) /\ h \in Seq(B)
  BY <1>3, FederationAssumption
<1>12. PICK f \in Seq(B) : f = FirstOf(h, Limit)
  BY <1>11, FirstOfASequence
<1>13. /\ Len(f) = IF Limit <= Len(a) THEN Limit ELSE Len(a)
       /\ \A i \in 1 .. Len(f) : f[i] = a[i]
  <2>1. /\ Len(f) = IF Limit <= Len(h) THEN Limit ELSE Len(h)
        /\ \A i \in 1 .. Len(f) : f[i] = h[i]
    BY <1>11, <1>12, FirstOfASequence
  <2> QED BY <1>9, <1>11, <2>1
<1>14. PICK g \in Seq(B) : g = FirstOf(b, Limit)
  BY <1>11, FirstOfASequence
<1>15. /\ Len(g) = IF Limit <= Len(b) THEN Limit ELSE Len(b)
       /\ \A i \in 1 .. Len(g) : g[i] = b[i]
  BY <1>11, <1>14, FirstOfASequence
<1>16. CASE Limit <= Len(a)
  <2>1. Len(h) >= Limit /\ h[Limit] = a[Limit] /\ a[Limit] \in A /\ Limit \in 1 .. Cardinality(A)
    BY <1>6, <1>9, <1>11, <1>16
  <2>2. ASSUME NEW x \in B \ A PROVE <<a[Limit], x>> \in FusedOrder(B)
    <3>1. x.mount \in Mounts /\ x.score \in Nat /\ a[Limit].score \in Nat
      BY <1>4, <1>5, <2>1 DEF IsHit
    <3>2. PICK share : share = Share(weight[x.mount], Len(lists[x.mount].keys))
      OBVIOUS
    <3>3. ~(share >= a[Limit].score)
      BY <1>3, <1>8, <2>1, <3>1, <3>2 DEF Unstable
    <3>4. share \in Nat
      <4>1. PICK k \in Seq(1 .. MaxLen) : k = lists[x.mount].keys
        BY <3>1 DEF GoesOn
      <4>2. Len(k) \in Nat /\ Len(k) <= Len(k)
        BY InASequence
      <4>3. weight[x.mount] \in Nat
        BY <3>1, FederationAssumption
      <4> QED BY <3>2, <4>1, <4>2, <4>3, SharesFall
    <3>5. a[Limit].score > x.score
      BY <1>3, <3>1, <3>2, <3>3, <3>4
    <3> QED BY <1>3, <2>1, <3>5 DEF FusedOrder, Before
  <2>3. a = Sorted(A, FusedOrder(B))
    BY <1>3, <1>6, OrderOfFewer
  <2>4. Limit <= Cardinality(B) /\ \A i \in 1 .. Limit : b[i] = a[i]
    <3>1. PICK R : R = FusedOrder(B)
      OBVIOUS
    <3>2. A \in SUBSET B /\ IsFiniteSet(B) /\ Totally(B, R) /\ Limit \in 1 .. Cardinality(A)
      BY <1>3, <1>5, <2>1, <3>1
    <3>3. AllAfter(B, A, R, Limit)
      BY <2>2, <2>3, <3>1 DEF AllAfter
    <3>4. Limit <= Cardinality(B) /\ \A i \in 1 .. Limit : Sorted(B, R)[i] = Sorted(A, R)[i]
      BY <3>2, <3>3, LaterOnesDoNotMatter
    <3> QED BY <1>7, <2>3, <3>1, <3>4
  <2> QED BY <1>7, <1>8, <1>10, <1>12, <1>13, <1>14, <1>15, <1>16, <2>4, SameSequence
<1>17. CASE ~(Limit <= Len(a))
  <2>1. Len(h) < Limit
    BY <1>9, <1>11, <1>17
  <2>2. \A m \in Mounts : ~Open(lists[m])
    BY <1>8, <1>11, <2>1 DEF Unstable
  <2>3. A = B
    BY <1>3, <1>5, <2>2 DEF IsHit
  <2> QED BY <1>6, <1>7, <1>8, <1>10, <1>12, <1>13, <1>14, <1>15, <2>3, SameSequence
<1> QED BY <1>16, <1>17

----------------------------------------------------------------------------
(* The invariant.                                                          *)

Increasing(keys) == \A i, j \in DOMAIN keys : i < j => keys[i] < keys[j]

\* What was read of a mount whose ranking did not change: its candidates in
\* order, a local mount's without gaps, a native mount's from the pages its
\* cursor is past.
ReadInOrder(m) ==
  /\ Increasing(list[m].keys)
  /\ \A i \in DOMAIN list[m].keys :
       /\ list[m].keys[i] <= length[m]
       /\ IF kind[m] = "local" THEN list[m].keys[i] = i ELSE list[m].keys[i] <= served[m]

\* The answer is made of what the lists hold, which are not touched any more.
Answered ==
  /\ stage = "fused" => hits = Fuse(list, Window) /\ (settled => Unstable(list, hits) = {})
  /\ stage = "reranked" => signals \in Signals /\ hits = FirstOf(Reranked(Fuse(list, Window), signals), Limit)

SearchInv ==
  /\ SearchTypeOK
  /\ ~shifted => \A m \in Mounts : ReadInOrder(m)
  /\ Answered

LEMMA KeysAreNumbers ==
  ASSUME NEW keys \in Seq(1 .. MaxLen)
  PROVE  /\ DOMAIN keys = 1 .. Len(keys) /\ Len(keys) \in Nat
         /\ \A i \in DOMAIN keys : i \in Nat /\ i <= Len(keys) /\ keys[i] \in 1 .. MaxLen /\ keys[i] \in Nat
<1>1. MaxLen \in Nat
  BY FederationAssumption
<1>2. PICK S : S = 1 .. MaxLen
  OBVIOUS
<1>3. keys \in Seq(S)
  BY <1>2
<1>4. DOMAIN keys = 1 .. Len(keys) /\ Len(keys) \in Nat /\ \A i \in DOMAIN keys : keys[i] \in S
  BY <1>3, InASequence
<1>5. \A k \in S : k \in Nat
  BY <1>1, <1>2
<1> QED BY <1>2, <1>4, <1>5

NumberOrder(S) == {pair \in S \X S : pair[1] < pair[2]}

LEMMA NumbersInOrder ==
  ASSUME NEW S \in SUBSET Nat, IsFiniteSet(S)
  PROVE  InOrder(S, <) \in Seq(S) /\ Increasing(InOrder(S, <))
<1>1. Totally(S, NumberOrder(S))
  BY DEF Totally, NumberOrder
<1>2. InOrder(S, <) = Sorted(S, NumberOrder(S))
  <2>1. \A x \in S : {y \in S : y < x} = {y \in S : <<y, x>> \in NumberOrder(S)}
    BY DEF NumberOrder
  <2>2. [x \in S |-> Cardinality({y \in S : y < x})] = Place(S, NumberOrder(S))
    BY <2>1 DEF Place
  <2>3. PICK before : before = [x \in S |-> Cardinality({y \in S : y < x})]
    OBVIOUS
  <2>4. InOrder(S, <) = ByPlace(S, before)
    BY <2>3 DEF InOrder, ByPlace
  <2> QED BY <2>2, <2>3, <2>4 DEF Sorted
<1>3. PICK s \in Seq(S) : s = Sorted(S, NumberOrder(S)) /\ Len(s) = Cardinality(S)
  BY <1>1, SortedIsASequence
<1>4. \A i, j \in 1 .. Len(s) : i < j => <<s[i], s[j]>> \in NumberOrder(S)
  BY <1>1, <1>3, SortedIsInOrder
<1>5. Increasing(s)
  <2>1. DOMAIN s = 1 .. Len(s)
    BY InASequence
  <2> QED BY <1>4, <2>1 DEF Increasing, NumberOrder
<1> QED BY <1>2, <1>3, <1>5

LEMMA MoreInOrder ==
  ASSUME NEW keys \in Seq(1 .. MaxLen), NEW more \in Seq(1 .. MaxLen),
         Increasing(keys), Increasing(more), \A i \in DOMAIN keys, j \in DOMAIN more : keys[i] < more[j]
  PROVE  /\ keys \o more \in Seq(1 .. MaxLen) /\ Increasing(keys \o more)
         /\ \A i \in DOMAIN (keys \o more) :
              IF i <= Len(keys) THEN (keys \o more)[i] = keys[i]
              ELSE i - Len(keys) \in DOMAIN more /\ (keys \o more)[i] = more[i - Len(keys)]
<1> DEFINE k == Len(keys)
<1> DEFINE l == Len(more)
<1> DEFINE both == keys \o more
<1>1. k \in Nat /\ l \in Nat /\ both \in Seq(1 .. MaxLen) /\ Len(both) = k + l
  OBVIOUS
<1>2. DOMAIN keys = 1 .. k /\ DOMAIN more = 1 .. l
  BY KeysAreNumbers
<1>3. DOMAIN both = 1 .. (k + l) /\ \A i \in 1 .. (k + l) : both[i] = IF i <= k THEN keys[i] ELSE more[i - k]
  BY <1>1
<1> HIDE DEF k, l, both
<1>4. \A i \in 1 .. (k + l) : i \in Int /\ (i <= k => i \in 1 .. k) /\ (~(i <= k) => i - k \in 1 .. l)
  BY <1>1
<1>5. \A i \in 1 .. (k + l) : IF i <= k THEN i \in DOMAIN keys /\ both[i] = keys[i] ELSE i - k \in DOMAIN more /\ both[i] = more[i - k]
  BY <1>2, <1>3, <1>4
<1>6. ASSUME NEW i \in 1 .. (k + l), NEW j \in 1 .. (k + l), i < j PROVE both[i] < both[j]
  <2>1. CASE j <= k
    <3>1. i <= k
      BY <1>1, <1>4, <1>6, <2>1
    <3> QED BY <1>5, <1>6, <2>1, <3>1 DEF Increasing
  <2>2. CASE i <= k /\ ~(j <= k)
    BY <1>5, <2>2
  <2>3. CASE ~(i <= k)
    <3>1. i - k \in 1 .. l /\ j - k \in 1 .. l /\ i - k < j - k /\ ~(j <= k)
      BY <1>1, <1>4, <1>6, <2>3
    <3> QED BY <1>5, <2>3, <3>1 DEF Increasing
  <2> QED BY <1>6, <2>1, <2>2, <2>3
<1>7. Increasing(both)
  BY <1>3, <1>6 DEF Increasing
<1> QED BY <1>1, <1>3, <1>5, <1>7 DEF k, both

LEMMA IncreasingIsDistinct ==
  ASSUME NEW keys \in Seq(1 .. MaxLen), Increasing(keys)
  PROVE  Distinct(keys)
<1>1. \A i \in DOMAIN keys : i \in Int /\ keys[i] \in Int
  BY KeysAreNumbers
<1> QED BY <1>1 DEF Increasing, Distinct

\* Reading a mount to its end goes on from what was read of it.
LEMMA ToTheEndGoesOn ==
  ASSUME SearchInv, ~shifted
  PROVE  GoesOn(list, [m \in Mounts |-> ToTheEnd(m)])
<1> SUFFICES ASSUME NEW m \in Mounts
             PROVE  /\ list[m].keys \in Seq(1 .. MaxLen) /\ ToTheEnd(m).keys \in Seq(1 .. MaxLen)
                    /\ ToTheEnd(m).error = list[m].error
                    /\ ~Open(list[m]) => ToTheEnd(m).keys = list[m].keys
                    /\ Open(list[m]) =>
                         /\ Distinct(ToTheEnd(m).keys) /\ Len(list[m].keys) <= Len(ToTheEnd(m).keys)
                         /\ \A i \in 1 .. Len(list[m].keys) : ToTheEnd(m).keys[i] = list[m].keys[i]
  BY DEF GoesOn
<1>1. PICK keys \in Seq(1 .. MaxLen) : keys = list[m].keys
  BY DEF SearchInv, SearchTypeOK, Lists
<1>2. ReadInOrder(m) /\ length[m] \in 0 .. MaxLen /\ served[m] \in Nat /\ list[m] \in Lists
  BY DEF SearchInv, SearchTypeOK
<1>3. CASE ~Open(list[m])
  BY <1>1, <1>3 DEF ToTheEnd
<1>4. CASE Open(list[m])
  <2>1. PICK from \in Nat : from = IF kind[m] = "local" THEN Len(keys) ELSE served[m]
    BY <1>2
  <2>2. PICK n \in Nat : n = IF length[m] > from THEN length[m] - from ELSE 0
    BY <1>2
  <2>3. PICK more : more = [i \in 1 .. n |-> from + i]
    OBVIOUS
  <2>4. MaxLen \in Nat /\ n # 0 => from + n <= MaxLen
    BY <1>2, <2>2
  <2>5. more \in Seq(1 .. MaxLen) /\ Increasing(more) /\ DOMAIN more = 1 .. n
    <3>1. \A i \in 1 .. n : from + i \in 1 .. MaxLen
      BY <2>2, <2>4, FederationAssumption
    <3>2. more \in [1 .. n -> 1 .. MaxLen]
      BY <2>3, <3>1
    <3> QED BY <2>3, <3>2 DEF Increasing
  <2>6. ToTheEnd(m) = [list[m] EXCEPT !.keys = keys \o more]
    BY <1>1, <1>4, <2>1, <2>2, <2>3 DEF ToTheEnd
  <2>7. \A i \in DOMAIN keys : keys[i] \in Nat /\ keys[i] <= from
    <3>1. \A i \in DOMAIN keys : keys[i] \in Nat /\ i <= Len(keys)
      BY KeysAreNumbers
    <3> QED BY <1>1, <1>2, <2>1, <3>1 DEF ReadInOrder
  <2>8. \A i \in DOMAIN keys, j \in DOMAIN more : keys[i] < more[j]
    BY <2>3, <2>5, <2>7
  <2>9. PICK both : both = keys \o more
    OBVIOUS
  <2>10. Increasing(keys)
    BY <1>1, <1>2 DEF ReadInOrder
  <2>11. both \in Seq(1 .. MaxLen) /\ Increasing(both)
    BY <2>5, <2>8, <2>9, <2>10, MoreInOrder
  <2>12. Len(keys) <= Len(both) /\ \A i \in 1 .. Len(keys) : both[i] = keys[i]
    BY <2>5, <2>9
  <2>13. ToTheEnd(m).keys = both /\ ToTheEnd(m).error = list[m].error
    BY <1>2, <2>6, <2>9 DEF Lists
  <2> QED BY <1>1, <1>4, <2>11, <2>12, <2>13, IncreasingIsDistinct
<1> QED BY <1>3, <1>4

----------------------------------------------------------------------------
(* Every step keeps it.                                                    *)

LEMMA Starts == SearchInit => SearchInv
<1> SUFFICES ASSUME SearchInit PROVE SearchInv
  OBVIOUS
<1>1. <<>> \in Seq(1 .. MaxLen) /\ DOMAIN <<>> = {} /\ \A m \in Mounts : list[m] = Opening(kind[m])
  BY DEF SearchInit
<1>2. Nothing \in Lists
  BY <1>1 DEF Nothing, Lists
<1>3. \A k : Opening(k) \in Lists /\ Opening(k).keys = <<>>
  BY <1>1 DEF Opening, Nothing, Lists
<1>4. SearchTypeOK
  <2>1. queue \in Seq(Mounts)
    <3>1. M \in Nat
      BY FederationAssumption
    <3>2. queue \in [1 .. M -> Mounts]
      BY DEF SearchInit, Mounts
    <3> QED BY <3>1, <3>2
  <2>2. list \in [Mounts -> Lists]
    BY <1>3 DEF SearchInit
  <2> QED BY <2>1, <2>2 DEF SearchInit, SearchTypeOK
<1>5. \A m \in Mounts : ReadInOrder(m)
  BY <1>1, <1>3 DEF ReadInOrder, Increasing
<1>6. Answered
  BY DEF Answered, SearchInit
<1> QED BY <1>4, <1>5, <1>6 DEF SearchInv

\* A page that a mount gives.
LEMMA PagesKeepIt ==
  ASSUME SearchInv, NEW keys \in Seq(1 .. MaxLen), NEW exhausted \in BOOLEAN, NEW S,
         Fetching(S), Gives(keys, exhausted), Rest,
         served' \in [Mounts -> Nat], shifted' \in BOOLEAN,
         ~shifted' => /\ ~shifted /\ served[Asked] <= served'[Asked]
                      /\ \A m \in Mounts : m # Asked => served'[m] = served[m]
                      /\ Increasing(keys)
                      /\ \A i \in DOMAIN keys :
                           /\ keys[i] <= length[Asked]
                           /\ IF kind[Asked] = "local" THEN keys[i] = i ELSE served[Asked] < keys[i] /\ keys[i] <= served'[Asked]
                      /\ kind[Asked] = "local" => list[Asked].keys = <<>> \/ keys = <<>>
  PROVE  SearchInv'
<1>1. PICK m : m = Asked
  OBVIOUS
<1>2. m \in Mounts /\ queue' \in Seq(Mounts)
  <2>1. queue \in Seq(Mounts) /\ queue # <<>>
    BY DEF SearchInv, SearchTypeOK, Fetching
  <2>2. Head(queue) \in Mounts /\ Tail(queue) \in Seq(Mounts)
    BY <2>1
  <2> QED BY <1>1, <2>2 DEF Gives, Asked
<1>3. PICK old \in Seq(1 .. MaxLen) : old = list[m].keys
  BY <1>2 DEF SearchInv, SearchTypeOK, Lists
<1>4. PICK new : new = [keys |-> old \o keys, exhausted |-> exhausted, closed |-> Closes(keys, exhausted), error |-> FALSE]
  OBVIOUS
<1>5. list' = [list EXCEPT ![m] = new]
  BY <1>1, <1>3, <1>4 DEF Gives
<1>6. new \in Lists /\ new.keys = old \o keys
  BY <1>4 DEF Lists, Closes
<1>7. stage = "fetching" /\ UNCHANGED <<spent, stage, hits, settled, signals, kind, weight, length>>
  BY DEF Fetching, Rest, mounts
<1>8. fetched' \in Nat
  <2>1. fetched \in Nat /\ Len(keys) \in Nat /\ fetched' = fetched + Len(keys)
    BY DEF SearchInv, SearchTypeOK, Gives
  <2> QED BY <2>1
<1>9. SearchTypeOK'
  <2>1. list' \in [Mounts -> Lists]
    BY <1>5, <1>6 DEF SearchInv, SearchTypeOK
  <2> QED BY <1>2, <1>7, <1>8, <2>1 DEF SearchInv, SearchTypeOK
<1>10. Answered'
  BY <1>7 DEF Answered
<1>11. ASSUME ~shifted', NEW x \in Mounts PROVE ReadInOrder(x)'
  <2>1. ReadInOrder(x) /\ list \in [Mounts -> Lists]
    BY <1>11 DEF SearchInv, SearchTypeOK
  <2>2. CASE x # m
    <3>1. list'[x] = list[x] /\ served'[x] = served[x]
      BY <1>1, <1>5, <1>11, <2>1, <2>2
    <3> QED BY <1>7, <2>1, <3>1 DEF ReadInOrder
  <2>3. CASE x = m
    <3>1. list'[m].keys = old \o keys
      BY <1>2, <1>5, <1>6, <2>1
    <3>2. Increasing(old) /\ Increasing(keys)
      BY <1>3, <1>11, <2>1, <2>3 DEF ReadInOrder
    <3>3. \A i \in DOMAIN old :
            old[i] \in Nat /\ old[i] <= length[m] /\ IF kind[m] = "local" THEN old[i] = i ELSE old[i] <= served[m]
      BY <1>3, <2>1, <2>3, KeysAreNumbers DEF ReadInOrder
    <3>4. \A i \in DOMAIN keys :
            keys[i] \in Nat /\ keys[i] <= length[m] /\ IF kind[m] = "local" THEN keys[i] = i ELSE served[m] < keys[i] /\ keys[i] <= served'[m]
      BY <1>1, <1>11, KeysAreNumbers
    <3>5. served[m] \in Nat /\ served'[m] \in Nat /\ served[m] <= served'[m]
      BY <1>1, <1>2, <1>11 DEF SearchInv, SearchTypeOK
    <3>6. kind[m] = "local" => old = <<>> \/ keys = <<>>
      BY <1>1, <1>3, <1>11
    <3>7. \A i \in DOMAIN old, j \in DOMAIN keys : old[i] < keys[j]
      <4>1. CASE kind[m] = "local"
        BY <3>6, <4>1
      <4>2. CASE kind[m] # "local"
        BY <3>3, <3>4, <3>5, <4>2
      <4> QED BY <4>1, <4>2
    <3>8. PICK both : both = old \o keys
      OBVIOUS
    <3>9. /\ Increasing(both)
          /\ \A i \in DOMAIN both :
               IF i <= Len(old) THEN both[i] = old[i]
               ELSE i - Len(old) \in DOMAIN keys /\ both[i] = keys[i - Len(old)]
      BY <3>2, <3>7, <3>8, MoreInOrder
    <3>10. ASSUME NEW i \in DOMAIN both
           PROVE  both[i] <= length[m] /\ IF kind[m] = "local" THEN both[i] = i ELSE both[i] <= served'[m]
      <4>1. i \in 1 .. Len(both) /\ Len(both) = Len(old) + Len(keys) /\ Len(old) \in Nat
        BY <3>8, <3>10
      <4>2. CASE i <= Len(old)
        <5>1. i \in DOMAIN old /\ both[i] = old[i]
          BY <3>9, <4>1, <4>2
        <5> QED BY <3>3, <3>5, <5>1
      <4>3. CASE ~(i <= Len(old))
        <5>1. PICK j \in DOMAIN keys : j = i - Len(old) /\ both[i] = keys[j]
          BY <3>9, <4>3
        <5>2. kind[m] = "local" => Len(old) = 0
          BY <3>6, <5>1
        <5>3. kind[m] = "local" => j = i
          BY <4>1, <5>1, <5>2
        <5> QED BY <3>4, <5>1, <5>3
      <4> QED BY <4>2, <4>3
    <3> QED BY <1>7, <2>3, <3>1, <3>8, <3>9, <3>10 DEF ReadInOrder
  <2> QED BY <2>2, <2>3
<1> QED BY <1>9, <1>10, <1>11 DEF SearchInv

\* The least of two.
LEMMA LeastOfTwo ==
  ASSUME NEW a \in Nat, NEW b \in Nat
  PROVE  Min({a, b}) = IF a <= b THEN a ELSE b
BY DEF Min

LEMMA LocalKeepsIt == SearchInv /\ FetchLocal => SearchInv'
<1> SUFFICES ASSUME SearchInv, FetchLocal PROVE SearchInv'
  OBVIOUS
<1>1. Asked \in Mounts /\ kind[Asked] = "local" /\ UNCHANGED <<served, shifted>> /\ Rest /\ Fetching({"local"})
  <2>1. queue \in Seq(Mounts) /\ queue # <<>>
    BY DEF SearchInv, SearchTypeOK, FetchLocal, Fetching
  <2>2. Head(queue) \in Mounts
    BY <2>1
  <2> QED BY <2>2 DEF Asked, FetchLocal, Fetching
<1>2. served' \in [Mounts -> Nat] /\ shifted' \in BOOLEAN /\ served[Asked] <= served'[Asked]
  BY <1>1 DEF SearchInv, SearchTypeOK
<1>3. CASE list[Asked].keys = <<>>
  <2>1. PICK n \in Nat : n = Min({PageSize, length[Asked]}) /\ n <= length[Asked]
    <3>1. PageSize \in Nat /\ length[Asked] \in Nat
      BY <1>1, FederationAssumption DEF SearchInv, SearchTypeOK
    <3> QED BY <3>1, LeastOfTwo
  <2>2. PICK keys : keys = [i \in 1 .. n |-> i]
    OBVIOUS
  <2>3. length[Asked] \in 0 .. MaxLen /\ MaxLen \in Nat
    BY <1>1, FederationAssumption DEF SearchInv, SearchTypeOK
  <2>4. keys \in [1 .. n -> 1 .. MaxLen]
    BY <2>1, <2>2, <2>3
  <2>5. keys \in Seq(1 .. MaxLen) /\ DOMAIN keys = 1 .. n /\ Increasing(keys)
    BY <2>2, <2>4 DEF Increasing
  <2>6. Gives(keys, n < PageSize) /\ (n < PageSize) \in BOOLEAN
    BY <1>3, <2>1, <2>2 DEF FetchLocal
  <2>7. \A i \in DOMAIN keys : keys[i] = i /\ keys[i] <= length[Asked]
    BY <2>1, <2>2, <2>3
  <2> QED BY <1>1, <1>2, <1>3, <2>5, <2>6, <2>7, PagesKeepIt
<1>4. CASE list[Asked].keys # <<>>
  <2>1. Gives(<<>>, FALSE)
    BY <1>4 DEF FetchLocal
  <2>2. <<>> \in Seq(1 .. MaxLen) /\ DOMAIN <<>> = {}
    OBVIOUS
  <2>3. Increasing(<<>>)
    BY <2>2 DEF Increasing
  <2> QED BY <1>1, <1>2, <2>1, <2>2, <2>3, PagesKeepIt
<1> QED BY <1>3, <1>4

LEMMA NativeKeepsIt == SearchInv /\ FetchNative => SearchInv'
<1> SUFFICES ASSUME SearchInv, FetchNative PROVE SearchInv'
  OBVIOUS
<1>1. Asked \in Mounts /\ kind[Asked] = "native" /\ shifted' = shifted /\ Rest /\ Fetching({"native"})
  <2>1. queue \in Seq(Mounts) /\ queue # <<>>
    BY DEF SearchInv, SearchTypeOK, FetchNative, Fetching
  <2>2. Head(queue) \in Mounts
    BY <2>1
  <2> QED BY <2>2 DEF Asked, FetchNative, Fetching
<1>2. PICK page : page = {i \in 1 .. length[Asked] : served[Asked] < i /\ i <= served[Asked] + PageSize}
  OBVIOUS
<1>3. PICK kept \in SUBSET page : Gives(InOrder(kept, <), Cardinality(page) < PageSize)
  BY <1>2 DEF FetchNative, Kept
<1>4. served' = [served EXCEPT ![Asked] = @ + PageSize]
  BY DEF FetchNative
<1>5. PageSize \in Nat /\ MaxLen \in Nat /\ served \in [Mounts -> Nat] /\ length[Asked] \in 0 .. MaxLen /\ shifted \in BOOLEAN
  BY <1>1, FederationAssumption DEF SearchInv, SearchTypeOK
<1>6. /\ served' \in [Mounts -> Nat] /\ served'[Asked] = served[Asked] + PageSize /\ served[Asked] <= served'[Asked]
      /\ \A m \in Mounts : m # Asked => served'[m] = served[m]
  <2>1. served[Asked] \in Nat
    BY <1>1, <1>5
  <2> QED BY <1>1, <1>4, <1>5, <2>1
<1>7. page \in SUBSET (1 .. length[Asked]) /\ IsFiniteSet(1 .. length[Asked])
  <2>1. length[Asked] \in Int /\ 1 \in Int
    BY <1>5
  <2> QED BY <1>2, <2>1, FS_Interval
<1>8. kept \in SUBSET Nat /\ IsFiniteSet(kept) /\ kept \subseteq 1 .. MaxLen
  <2>1. kept \in SUBSET (1 .. length[Asked])
    BY <1>3, <1>7
  <2>2. IsFiniteSet(kept)
    BY <1>7, <2>1, FS_Subset
  <2>3. \A i \in 1 .. length[Asked] : i \in Nat /\ i \in 1 .. MaxLen
    BY <1>5
  <2> QED BY <2>1, <2>2, <2>3
<1>9. PICK keys \in Seq(kept) : keys = InOrder(kept, <) /\ Increasing(keys)
  BY <1>8, NumbersInOrder
<1>10. keys \in Seq(1 .. MaxLen)
  BY <1>8, SequencesOfMore
<1>11. \A i \in DOMAIN keys : keys[i] \in kept
  BY InASequence
<1>12. \A i \in DOMAIN keys : keys[i] <= length[Asked] /\ served[Asked] < keys[i] /\ keys[i] <= served'[Asked]
  <2>1. \A k \in page : k <= length[Asked] /\ served[Asked] < k /\ k <= served'[Asked]
    BY <1>2, <1>5, <1>6
  <2> QED BY <1>3, <1>11, <2>1
<1>13. Gives(keys, Cardinality(page) < PageSize)
  BY <1>3, <1>9
<1>14. (Cardinality(page) < PageSize) \in BOOLEAN
  OBVIOUS
<1> QED BY <1>1, <1>5, <1>6, <1>9, <1>10, <1>12, <1>13, <1>14, PagesKeepIt

LEMMA OneThenMore ==
  ASSUME NEW S, NEW x \in S, NEW s \in Seq(S)
  PROVE  <<x>> \o s \in Seq(S)
OBVIOUS

LEMMA ShiftKeepsIt == SearchInv /\ FetchShifted => SearchInv'
<1> SUFFICES ASSUME SearchInv, FetchShifted PROVE SearchInv'
  OBVIOUS
<1>1. Asked \in Mounts /\ shifted' = TRUE /\ Rest /\ Fetching({"native"})
  <2>1. queue \in Seq(Mounts) /\ queue # <<>>
    BY DEF SearchInv, SearchTypeOK, FetchShifted, Fetching
  <2>2. Head(queue) \in Mounts
    BY <2>1
  <2> QED BY <2>2 DEF Asked, FetchShifted
<1>2. PICK page : page = {i \in 1 .. length[Asked] : served[Asked] < i /\ i < served[Asked] + PageSize}
  OBVIOUS
<1>3. Gives(<<Last(list[Asked].keys)>> \o InOrder(page, <), Cardinality(page) + 1 < PageSize)
  BY <1>2 DEF FetchShifted
<1>4. PageSize \in Nat \ {0} /\ MaxLen \in Nat /\ served \in [Mounts -> Nat] /\ length[Asked] \in 0 .. MaxLen
  BY <1>1, FederationAssumption DEF SearchInv, SearchTypeOK
<1>5. served' \in [Mounts -> Nat]
  <2>1. served' = [served EXCEPT ![Asked] = @ + PageSize - 1]
    BY DEF FetchShifted
  <2>2. served[Asked] + PageSize - 1 \in Nat
    BY <1>1, <1>4
  <2> QED BY <1>1, <1>4, <2>1, <2>2
<1>6. page \in SUBSET Nat /\ IsFiniteSet(page) /\ page \subseteq 1 .. MaxLen
  <2>1. length[Asked] \in Int /\ 1 \in Int
    BY <1>4
  <2>2. page \in SUBSET (1 .. length[Asked]) /\ IsFiniteSet(1 .. length[Asked])
    BY <1>2, <2>1, FS_Interval
  <2>3. IsFiniteSet(page)
    BY <2>2, FS_Subset
  <2>4. \A i \in 1 .. length[Asked] : i \in Nat /\ i \in 1 .. MaxLen
    BY <1>4
  <2> QED BY <2>2, <2>3, <2>4
<1>7. PICK rest \in Seq(page) : rest = InOrder(page, <)
  BY <1>6, NumbersInOrder
<1>8. PICK old \in Seq(1 .. MaxLen) : old = list[Asked].keys /\ old # <<>>
  BY <1>1 DEF FetchShifted, SearchInv, SearchTypeOK, Lists
<1>9. Last(old) \in 1 .. MaxLen
  <2>1. Len(old) \in DOMAIN old
    BY <1>8
  <2> QED BY <2>1, KeysAreNumbers DEF Last
<1>10. PICK keys \in Seq(1 .. MaxLen) : keys = <<Last(old)>> \o rest
  <2>1. rest \in Seq(1 .. MaxLen)
    BY <1>6, SequencesOfMore
  <2> QED BY <1>9, <2>1, OneThenMore
<1>11. Gives(keys, Cardinality(page) + 1 < PageSize)
  BY <1>3, <1>7, <1>8, <1>10
<1>12. (Cardinality(page) + 1 < PageSize) \in BOOLEAN
  OBVIOUS
<1> QED BY <1>1, <1>5, <1>11, <1>12, PagesKeepIt

\* A step that leaves what was read as it was.
LEMMA ReadStays ==
  ASSUME SearchInv, UNCHANGED <<served, shifted, kind, length>>,
         \A m \in Mounts : list'[m].keys = list[m].keys, NEW m \in Mounts, ~shifted
  PROVE  ReadInOrder(m)'
<1>1. ReadInOrder(m) /\ list'[m].keys = list[m].keys
  BY DEF SearchInv
<1> QED BY <1>1 DEF ReadInOrder

LEMMA OthersKeepIt == SearchInv /\ (FetchFails \/ FetchNothing \/ OverBudget) => SearchInv'
<1> SUFFICES ASSUME SearchInv PROVE FetchFails \/ FetchNothing \/ OverBudget => SearchInv'
  OBVIOUS
<1> DEFINE m == Asked
<1>1. queue # <<>> => m \in Mounts /\ Tail(queue) \in Seq(Mounts) /\ list[m] \in Lists
  <2>1. queue \in Seq(Mounts) /\ list \in [Mounts -> Lists]
    BY DEF SearchInv, SearchTypeOK
  <2>2. queue # <<>> => Head(queue) \in Mounts /\ Tail(queue) \in Seq(Mounts)
    BY <2>1
  <2> QED BY <2>1, <2>2 DEF Asked
<1> HIDE DEF m
<1>2. ASSUME NEW new, list' = [list EXCEPT ![m] = new], queue' = Tail(queue), queue # <<>>,
             UNCHANGED <<served, fetched, shifted>>, Rest, stage = "fetching",
             new = [list[m] EXCEPT !.error = TRUE] \/ new = [list[m] EXCEPT !.exhausted = TRUE, !.closed = TRUE]
      PROVE  SearchInv'
  <2>1. new \in Lists /\ new.keys = list[m].keys
    BY <1>1, <1>2 DEF Lists
  <2>2. list' \in [Mounts -> Lists] /\ \A x \in Mounts : list'[x].keys = list[x].keys
    BY <1>1, <1>2, <2>1 DEF SearchInv, SearchTypeOK
  <2>3. SearchTypeOK'
    BY <1>1, <1>2, <2>2 DEF SearchInv, SearchTypeOK, Rest, mounts
  <2>4. Answered'
    BY <1>2 DEF Answered, Rest
  <2>5. \A x \in Mounts : ~shifted' => ReadInOrder(x)'
    BY <1>2, <2>2, ReadStays DEF Rest, mounts
  <2> QED BY <2>3, <2>4, <2>5 DEF SearchInv
<1>3. CASE FetchFails
  BY <1>2, <1>3 DEF FetchFails, Fetching, m
<1>4. CASE FetchNothing
  BY <1>2, <1>4 DEF FetchNothing, Fetching, m
<1>5. CASE OverBudget
  <2>1. <<>> \in Seq(Mounts)
    OBVIOUS
  <2>2. SearchTypeOK'
    BY <1>5, <2>1 DEF OverBudget, SearchInv, SearchTypeOK, mounts
  <2>3. Answered'
    BY <1>5 DEF OverBudget, Answered
  <2>4. \A x \in Mounts : ~shifted' => ReadInOrder(x)'
    BY <1>5, ReadStays DEF OverBudget, mounts
  <2> QED BY <2>2, <2>3, <2>4 DEF SearchInv
<1> QED BY <1>3, <1>4, <1>5

LEMMA JudgeKeepsIt == SearchInv /\ Judge => SearchInv'
<1> SUFFICES ASSUME SearchInv, Judge PROVE SearchInv'
  OBVIOUS
<1>1. PICK h : h = Fuse(list, Window)
  OBVIOUS
<1>2. PICK unstable : unstable = Unstable(list, h)
  OBVIOUS
<1>3. UNCHANGED <<served, list, fetched, signals, shifted, kind, weight, length>> /\ stage = "fetching"
  BY DEF Judge, mounts
<1>4. \A x \in Mounts : ~shifted' => ReadInOrder(x)'
  BY <1>3, ReadStays
<1>5. CASE unstable # {} /\ ~spent /\ fetched < Budget
  <2>1. queue' = InOrder(unstable, <) /\ UNCHANGED <<stage, hits, settled, spent>>
    BY <1>1, <1>2, <1>5 DEF Judge
  <2>2. unstable \in SUBSET Mounts /\ IsFiniteSet(Mounts) /\ Mounts \subseteq Nat
    <3>1. M \in Int /\ 1 \in Int
      BY FederationAssumption
    <3> QED BY <1>2, <3>1, FS_Interval DEF Unstable, Mounts
  <2>3. unstable \in SUBSET Nat /\ IsFiniteSet(unstable)
    BY <2>2, FS_Subset
  <2>4. PICK s \in Seq(unstable) : s = InOrder(unstable, <)
    BY <2>3, NumbersInOrder
  <2>5. queue' \in Seq(Mounts)
    BY <2>1, <2>2, <2>4, SequencesOfMore
  <2>6. SearchTypeOK'
    BY <1>3, <2>1, <2>5 DEF SearchInv, SearchTypeOK
  <2>7. Answered'
    BY <1>3, <2>1 DEF Answered
  <2> QED BY <1>4, <2>6, <2>7 DEF SearchInv
<1>6. CASE ~(unstable # {} /\ ~spent /\ fetched < Budget)
  <2>1. hits' = h /\ settled' = (unstable = {}) /\ stage' = "fused" /\ spent' = (spent \/ unstable # {}) /\ queue' = queue
    BY <1>1, <1>2, <1>6 DEF Judge
  <2>2. SearchTypeOK'
    BY <1>3, <2>1 DEF SearchInv, SearchTypeOK
  <2>3. Fuse(list, Window)' = Fuse(list, Window) /\ Unstable(list, h)' = Unstable(list, h)
    BY <1>3 DEF Fuse, HitsIn, HitsOf, Unstable
  <2>4. Answered'
    BY <1>1, <1>2, <2>1, <2>3 DEF Answered, Unstable
  <2> QED BY <1>4, <2>2, <2>4 DEF SearchInv
<1> QED BY <1>5, <1>6

LEMMA FinishKeepsIt == SearchInv /\ Finish => SearchInv'
<1> SUFFICES ASSUME SearchInv, Finish PROVE SearchInv'
  OBVIOUS
<1>1. UNCHANGED <<served, list, queue, fetched, spent, settled, shifted, kind, weight, length>> /\ stage = "fused"
  BY DEF Finish, mounts
<1>2. \A x \in Mounts : ~shifted' => ReadInOrder(x)'
  BY <1>1, ReadStays
<1>3. hits = Fuse(list, Window)
  BY <1>1 DEF SearchInv, Answered
<1>4. CASE stage' \in Stages /\ signals' = signals
  <2>1. SearchTypeOK'
    BY <1>1, <1>4 DEF SearchInv, SearchTypeOK
  <2>2. Answered'
    BY <1>4 DEF Answered, Stages
  <2> QED BY <1>2, <2>1, <2>2 DEF SearchInv
<1>5. CASE stage' = "reranked" /\ signals' \in Signals /\ hits' = FirstOf(Reranked(hits, signals'), Limit)
  <2>1. SearchTypeOK'
    BY <1>1, <1>5 DEF SearchInv, SearchTypeOK
  <2>2. Fuse(list, Window)' = Fuse(list, Window)
    BY <1>1 DEF Fuse, HitsIn, HitsOf
  <2>3. Answered'
    BY <1>3, <1>5, <2>2 DEF Answered
  <2> QED BY <1>2, <2>1, <2>3 DEF SearchInv
<1> QED BY <1>4, <1>5 DEF Finish

LEMMA SearchKeepsIt == SearchInv /\ [SearchNext]_searchVars => SearchInv'
<1> SUFFICES ASSUME SearchInv, [SearchNext]_searchVars PROVE SearchInv'
  OBVIOUS
<1>1. CASE SearchNext
  BY <1>1, LocalKeepsIt, NativeKeepsIt, ShiftKeepsIt, OthersKeepIt, JudgeKeepsIt, FinishKeepsIt DEF SearchNext
<1>2. CASE UNCHANGED searchVars
  <2>1. SearchTypeOK'
    BY <1>2 DEF SearchInv, SearchTypeOK, searchVars
  <2>2. Fuse(list, Window)' = Fuse(list, Window) /\ Unstable(list, hits)' = Unstable(list, hits)
    BY <1>2 DEF Fuse, HitsIn, HitsOf, Unstable, searchVars
  <2>3. Answered'
    BY <1>2, <2>2 DEF SearchInv, Answered, searchVars
  <2>4. \A x \in Mounts : ~shifted' => ReadInOrder(x)'
    BY <1>2, ReadStays DEF searchVars
  <2> QED BY <2>1, <2>3, <2>4 DEF SearchInv
<1> QED BY <1>1, <1>2

----------------------------------------------------------------------------
(* The last ranking.                                                       *)

LEMMA Indices ==
  ASSUME NEW n \in Nat
  PROVE  IsFiniteSet(1 .. n) /\ Cardinality(1 .. n) = n
<1>1. 1 \in Int /\ n \in Int
  OBVIOUS
<1> QED BY <1>1, FS_Interval

LEMMA RanksInSignal ==
  ASSUME NEW n \in Nat, NEW signal \in [1 .. n -> Nat], NEW i \in 1 .. n
  PROVE  /\ RankIn(signal, i) \in 0 .. n - 1
         /\ \A j \in 1 .. n : signal[i] > signal[j] => RankIn(signal, i) < RankIn(signal, j)
<1> DEFINE Over(k) == {j \in DOMAIN signal : signal[j] # 0 /\ (signal[j] > signal[k] \/ (signal[j] = signal[k] /\ j < k))}
<1>1. IsFiniteSet(1 .. n) /\ Cardinality(1 .. n) = n
  BY Indices
<1>2. \A k \in 1 .. n : Over(k) \in SUBSET ((1 .. n) \ {k})
  OBVIOUS
<1>3. \A k \in 1 .. n : RankIn(signal, k) = Cardinality(Over(k))
  BY DEF RankIn
<1>4. ASSUME NEW j \in 1 .. n, signal[j] < signal[i]
      PROVE  Over(i) \in SUBSET Over(j) /\ i \in Over(j)
  BY <1>4
<1> HIDE DEF Over
<1>5. \A k \in 1 .. n : IsFiniteSet((1 .. n) \ {k}) /\ Cardinality((1 .. n) \ {k}) = n - 1
  BY <1>1, FS_RemoveElement
<1>6. \A k \in 1 .. n : IsFiniteSet(Over(k)) /\ Cardinality(Over(k)) \in Nat /\ Cardinality(Over(k)) <= n - 1
  <2> SUFFICES ASSUME NEW k \in 1 .. n
               PROVE  IsFiniteSet(Over(k)) /\ Cardinality(Over(k)) \in Nat /\ Cardinality(Over(k)) <= n - 1
    OBVIOUS
  <2>1. PICK T : T = (1 .. n) \ {k}
    OBVIOUS
  <2>2. IsFiniteSet(T) /\ Cardinality(T) = n - 1 /\ Over(k) \in SUBSET T
    BY <1>2, <1>5, <2>1
  <2>3. IsFiniteSet(Over(k)) /\ Cardinality(Over(k)) <= Cardinality(T)
    BY <2>2, FS_Subset
  <2> QED BY <2>2, <2>3, FS_CardinalityType
<1>7. ASSUME NEW j \in 1 .. n, signal[i] > signal[j] PROVE Cardinality(Over(i)) < Cardinality(Over(j))
  <2>1. Over(i) \in SUBSET Over(j) /\ i \in Over(j) /\ i \notin Over(i)
    BY <1>2, <1>4, <1>7
  <2>2. Over(i) # Over(j)
    BY <2>1
  <2>3. Cardinality(Over(i)) <= Cardinality(Over(j)) /\ Cardinality(Over(i)) # Cardinality(Over(j))
    BY <1>6, <2>1, <2>2, FS_Subset
  <2> QED BY <1>6, <2>3
<1> QED BY <1>3, <1>6, <1>7

LEMMA HigherSignal ==
  ASSUME NEW n \in Nat, n <= Window, NEW signal \in [1 .. n -> Nat], NEW i \in 1 .. n, NEW j \in 1 .. n
  PROVE  /\ ShareIn(signal, i) \in Nat /\ ShareIn(signal, j) \in Nat
         /\ signal[i] > signal[j] => ShareIn(signal, i) > ShareIn(signal, j)
<1>1. PICK q \in 1 .. n : q = RankIn(signal, i) + 1
  <2>1. RankIn(signal, i) \in 0 .. n - 1
    BY RanksInSignal
  <2> QED BY <2>1
<1>2. PICK r \in 1 .. n : r = RankIn(signal, j) + 1
  <2>1. RankIn(signal, j) \in 0 .. n - 1
    BY RanksInSignal
  <2> QED BY <2>1
<1>3. Scale \in Nat \ {0} /\ K \in Nat \ {0} /\ Window \in Nat /\ MaxLen \in Nat
  BY FederationAssumption
<1>4. K + q \in Nat \ {0} /\ K + r \in Nat \ {0} /\ q \in 0 .. MaxLen + Window /\ r \in 0 .. MaxLen + Window
  BY <1>3
<1>5. Scale % (K + q) = 0 /\ Scale % (K + r) = 0
  BY <1>4, FederationAssumption
<1>6. PICK x \in Nat : x = Scale \div (K + q)
  BY <1>3, <1>4, QuotientIsNatural
<1>7. PICK y \in Nat : y = Scale \div (K + r)
  BY <1>3, <1>4, QuotientIsNatural
<1>8. Share(1, q) = x /\ Share(1, r) = y
  BY <1>6, <1>7 DEF Share
<1>9. ShareIn(signal, i) = (IF signal[i] = 0 THEN 0 ELSE x) /\ ShareIn(signal, j) = (IF signal[j] = 0 THEN 0 ELSE y)
  BY <1>1, <1>2, <1>8 DEF ShareIn
<1>10. ASSUME signal[i] > signal[j] PROVE ShareIn(signal, i) > ShareIn(signal, j)
  <2>1. RankIn(signal, i) < RankIn(signal, j) /\ RankIn(signal, i) \in 0 .. n - 1 /\ RankIn(signal, j) \in 0 .. n - 1
    BY <1>10, RanksInSignal
  <2>2. q < r
    BY <1>1, <1>2, <2>1
  <2>3. y > 0 /\ y < x
    <3>1. K + q < K + r
      BY <1>3, <2>2
    <3> QED BY <1>3, <1>4, <1>5, <1>6, <1>7, <3>1, ExactQuotientFalls
  <2>4. signal[i] # 0
    BY <1>10
  <2> QED BY <1>9, <2>3, <2>4
<1> QED BY <1>9, <1>10

\* The order of rerank: by score, then as fused.
FirstByScore(n, score) ==
  {pair \in (1 .. n) \X (1 .. n) : score[pair[1]] > score[pair[2]] \/ (score[pair[1]] = score[pair[2]] /\ pair[1] < pair[2])}

LEMMA RerankedInOrder ==
  ASSUME NEW S, NEW h \in Seq(S), NEW s, NEW score \in [1 .. Len(h) -> Nat],
         score = [i \in DOMAIN h |-> ShareIn(Semantic(h, s), i) + ShareIn(Lexical(h, s), i)],
         \E i \in DOMAIN h : Semantic(h, s)[i] # 0
  PROVE  \E order \in [1 .. Len(h) -> 1 .. Len(h)] :
           /\ Reranked(h, s) = [i \in 1 .. Len(h) |-> h[order[i]]]
           /\ \A i, j \in 1 .. Len(h) : i < j => <<order[i], order[j]>> \in FirstByScore(Len(h), score)
<1>1. PICK n \in Nat : n = Len(h) /\ DOMAIN h = 1 .. n
  BY InASequence
<1>2. Totally(1 .. n, FirstByScore(n, score))
  <2>1. \A i \in 1 .. n : score[i] \in Nat
    BY <1>1
  <2> DEFINE First(i, j) == score[i] > score[j] \/ (score[i] = score[j] /\ i < j)
  <2>2. \A i, j \in 1 .. n : <<i, j>> \in FirstByScore(n, score) <=> First(i, j)
    BY DEF FirstByScore
  <2>3. \A i \in 1 .. n : ~First(i, i)
    BY <2>1
  <2>4. \A i, j, k \in 1 .. n : First(i, j) /\ First(j, k) => First(i, k)
    BY <2>1
  <2>5. \A i, j \in 1 .. n : i = j \/ First(i, j) \/ First(j, i)
    BY <2>1
  <2> HIDE DEF First
  <2> QED BY <2>2, <2>3, <2>4, <2>5 DEF Totally
<1>3. IsFiniteSet(1 .. n) /\ Cardinality(1 .. n) = n
  BY Indices
<1>4. PICK order \in [1 .. n -> 1 .. n] : order = Sorted(1 .. n, FirstByScore(n, score))
  BY <1>2, <1>3, SortedIsInOrder
<1>5. \A i, j \in 1 .. n : i < j => <<order[i], order[j]>> \in FirstByScore(n, score)
  BY <1>2, <1>3, <1>4, SortedIsInOrder
<1>6. \A x \in 1 .. n : {y \in 1 .. n : score[y] > score[x] \/ (score[y] = score[x] /\ y < x)}
                         = {y \in 1 .. n : <<y, x>> \in FirstByScore(n, score)}
  BY DEF FirstByScore
<1>7. PICK before : before = [x \in 1 .. n |-> Cardinality({y \in 1 .. n : score[y] > score[x] \/ (score[y] = score[x] /\ y < x)})]
  OBVIOUS
<1>8. before = Place(1 .. n, FirstByScore(n, score))
  BY <1>6, <1>7 DEF Place
<1>9. order = ByPlace(1 .. n, before)
  BY <1>4, <1>8 DEF Sorted
<1>10. Reranked(h, s) = [i \in 1 .. n |-> h[ByPlace(1 .. n, before)[i]]]
  <2>1. DOMAIN h = 1 .. n
    BY <1>1
  <2>2. ~\A i \in 1 .. n : Semantic(h, s)[i] = 0
    BY <2>1
  <2>3. score = [i \in 1 .. n |-> ShareIn(Semantic(h, s), i) + ShareIn(Lexical(h, s), i)]
    BY <2>1
  <2> DEFINE First(i, j) == score[i] > score[j] \/ (score[i] = score[j] /\ i < j)
  <2>4. Reranked(h, s) = [i \in 1 .. n |-> h[InOrder(1 .. n, First)[i]]]
    BY <2>1, <2>2, <2>3 DEF Reranked
  <2>5. InOrder(1 .. n, First) = ByPlace(1 .. n, before)
    BY <1>7 DEF InOrder, ByPlace
  <2> QED BY <2>4, <2>5
<1> QED BY <1>1, <1>4, <1>5, <1>9, <1>10

LEMMA FusedHits ==
  ASSUME weight \in [Mounts -> Weights], list \in [Mounts -> Lists]
  PROVE  /\ Fuse(list, Window) \in Seq(HitsIn(list)) /\ Len(Fuse(list, Window)) <= Window
         /\ \A h \in HitsIn(list) : <<h.mount, h.key>> \in Candidates
<1>1. \A m \in Mounts : list[m].keys \in Seq(1 .. MaxLen)
  BY DEF Lists
<1>2. PICK s \in Seq(HitsIn(list)) : s = InOrder(HitsIn(list), Before)
  BY <1>1, HitsAreOrdered, SortedIsASequence
<1>3. Window \in Nat /\ Len(s) \in Nat
  BY FederationAssumption
<1>4. FirstOf(s, Window) \in Seq(HitsIn(list)) /\ Len(FirstOf(s, Window)) <= Window
  BY <1>3, FirstOfASequence
<1>5. \A h \in HitsIn(list) : <<h.mount, h.key>> \in Candidates
  BY <1>1, HitsAreOrdered DEF IsHit, Candidates
<1> QED BY <1>2, <1>4, <1>5 DEF Fuse

LEMMA RerankFollowsTheEvidence ==
  ASSUME SearchInv, stage = "reranked", \E h \in Range(hits) : Signal(signals, h).semantic # 0,
         NEW i \in DOMAIN hits, NEW j \in DOMAIN hits, i < j
  PROVE  ~Better(Signal(signals, hits[j]), Signal(signals, hits[i]))
<1>1. PICK H : H = HitsIn(list)
  OBVIOUS
<1>2. PICK h \in Seq(H) : h = Fuse(list, Window) /\ Len(h) <= Window /\ \A x \in H : <<x.mount, x.key>> \in Candidates
  BY <1>1, FusedHits DEF SearchInv, SearchTypeOK
<1>3. hits = FirstOf(Reranked(h, signals), Limit) /\ signals \in [Candidates -> [semantic : Nat, lexical : Nat]]
  BY <1>2, SignalsAssumption DEF SearchInv, Answered
<1>4. PICK n \in Nat : n = Len(h) /\ n <= Window /\ DOMAIN h = 1 .. n
  BY <1>2, InASequence
<1>5. \A k \in 1 .. n : /\ Signal(signals, h[k]).semantic \in Nat /\ Signal(signals, h[k]).lexical \in Nat
  <2>1. \A k \in 1 .. n : h[k] \in H
    BY <1>4, InASequence
  <2>2. \A k \in 1 .. n : Signal(signals, h[k]) \in [semantic : Nat, lexical : Nat]
    BY <1>2, <1>3, <2>1 DEF Signal
  <2> QED BY <2>2
<1>6. PICK semantic \in [1 .. n -> Nat] : semantic = Semantic(h, signals)
  BY <1>4, <1>5 DEF Semantic
<1>7. PICK lexical \in [1 .. n -> Nat] : lexical = Lexical(h, signals)
  BY <1>4, <1>5 DEF Lexical
<1>8. \A k \in 1 .. n : semantic[k] = Signal(signals, h[k]).semantic /\ lexical[k] = Signal(signals, h[k]).lexical
  BY <1>4, <1>6, <1>7 DEF Semantic, Lexical
<1>9. \A k \in 1 .. n : ShareIn(semantic, k) \in Nat /\ ShareIn(lexical, k) \in Nat
  BY <1>4, HigherSignal
<1>10. PICK score \in [1 .. n -> Nat] : score = [k \in 1 .. n |-> ShareIn(semantic, k) + ShareIn(lexical, k)]
  <2>1. \A k \in 1 .. n : ShareIn(semantic, k) + ShareIn(lexical, k) \in Nat
    BY <1>9
  <2> QED BY <2>1
<1>11. Limit \in Nat
  BY FederationAssumption
<1>12. \E k \in 1 .. n : semantic[k] # 0
  <2> SUFFICES ASSUME \A k \in 1 .. n : semantic[k] = 0 PROVE FALSE
    OBVIOUS
  <2>1. Reranked(h, signals) = h
    BY <1>4, <1>6 DEF Reranked
  <2>2. PICK first \in Seq(H) : first = hits /\ Len(first) <= n /\ \A k \in 1 .. Len(first) : first[k] = h[k]
    <3>1. hits = FirstOf(h, Limit)
      BY <1>3, <2>1
    <3>2. /\ FirstOf(h, Limit) \in Seq(H) /\ Len(FirstOf(h, Limit)) <= Len(h)
          /\ \A k \in 1 .. Len(FirstOf(h, Limit)) : FirstOf(h, Limit)[k] = h[k]
      BY <1>11, FirstOfIsShorter
    <3> QED BY <1>4, <3>1, <3>2
  <2>3. \A k \in DOMAIN hits : k \in 1 .. n /\ hits[k] = h[k]
    <3>1. DOMAIN first = 1 .. Len(first) /\ Len(first) \in Nat
      BY InASequence
    <3> QED BY <1>4, <2>2, <3>1
  <2>4. PICK k \in DOMAIN hits : Signal(signals, hits[k]).semantic # 0
    BY DEF Range
  <2> QED BY <1>8, <2>3, <2>4
<1>13. PICK order \in [1 .. n -> 1 .. n] :
         /\ Reranked(h, signals) = [k \in 1 .. n |-> h[order[k]]]
         /\ \A k, l \in 1 .. n : k < l => <<order[k], order[l]>> \in FirstByScore(n, score)
  <2>1. score = [k \in DOMAIN h |-> ShareIn(Semantic(h, signals), k) + ShareIn(Lexical(h, signals), k)]
    BY <1>4, <1>6, <1>7, <1>10
  <2>2. \E k \in DOMAIN h : Semantic(h, signals)[k] # 0
    BY <1>4, <1>6, <1>12
  <2>3. score \in [1 .. Len(h) -> Nat]
    BY <1>4
  <2>4. \E order \in [1 .. Len(h) -> 1 .. Len(h)] :
          /\ Reranked(h, signals) = [k \in 1 .. Len(h) |-> h[order[k]]]
          /\ \A k, l \in 1 .. Len(h) : k < l => <<order[k], order[l]>> \in FirstByScore(Len(h), score)
    BY <2>1, <2>2, <2>3, RerankedInOrder
  <2> QED BY <1>4, <2>4
<1>14. \A k \in DOMAIN hits : k \in 1 .. n /\ hits[k] = h[order[k]]
  <2>1. PICK r \in Seq(H) : r = Reranked(h, signals) /\ Len(r) = n
    <3>1. \A k \in 1 .. n : h[order[k]] \in H
      BY <1>4, InASequence
    <3>2. PICK r \in [1 .. n -> H] : r = Reranked(h, signals)
      BY <1>13, <3>1
    <3>3. r \in Seq(H) /\ Len(r) = n
      OBVIOUS
    <3> QED BY <3>2, <3>3
  <2>2. PICK first \in Seq(H) : first = hits /\ Len(first) <= n /\ \A k \in 1 .. Len(first) : first[k] = r[k]
    <3>1. hits = FirstOf(r, Limit) /\ Len(r) \in Nat
      BY <1>3, <2>1
    <3>2. /\ FirstOf(r, Limit) \in Seq(H) /\ Len(FirstOf(r, Limit)) <= Len(r)
          /\ \A k \in 1 .. Len(FirstOf(r, Limit)) : FirstOf(r, Limit)[k] = r[k]
      BY <1>11, FirstOfIsShorter
    <3> QED BY <2>1, <3>1, <3>2
  <2>3. DOMAIN first = 1 .. Len(first) /\ Len(first) \in Nat
    BY InASequence
  <2>4. \A k \in 1 .. Len(first) : k \in 1 .. n /\ first[k] = r[k]
    BY <2>2, <2>3
  <2>5. DOMAIN hits = 1 .. Len(first) /\ \A k \in DOMAIN hits : hits[k] = first[k]
    BY <2>2, <2>3
  <2> QED BY <1>13, <2>1, <2>4, <2>5
<1>15. PICK a \in 1 .. n : a = order[i] /\ hits[i] = h[a]
  BY <1>14
<1>16. PICK b \in 1 .. n : b = order[j] /\ hits[j] = h[b]
  BY <1>14
<1>17. PICK x \in Nat : x = score[a]
  OBVIOUS
<1>18. PICK y \in Nat : y = score[b]
  OBVIOUS
<1>19. ~(y > x)
  <2>1. <<a, b>> \in FirstByScore(n, score)
    BY <1>13, <1>14, <1>15, <1>16
  <2>2. x > y \/ x = y
    BY <1>17, <1>18, <2>1 DEF FirstByScore
  <2> QED BY <2>2
<1>20. ASSUME Better(Signal(signals, hits[j]), Signal(signals, hits[i])) PROVE FALSE
  <2>1. PICK sa \in Nat : sa = ShareIn(semantic, a)
    BY <1>9
  <2>2. PICK sb \in Nat : sb = ShareIn(semantic, b)
    BY <1>9
  <2>3. PICK la \in Nat : la = ShareIn(lexical, a)
    BY <1>9
  <2>4. PICK lb \in Nat : lb = ShareIn(lexical, b)
    BY <1>9
  <2>5. x = sa + la /\ y = sb + lb
    BY <1>10, <1>17, <1>18, <2>1, <2>2, <2>3, <2>4
  <2>6. semantic[b] > semantic[a] => sb > sa
    BY <1>4, <2>1, <2>2, HigherSignal
  <2>7. lexical[b] > lexical[a] => lb > la
    BY <1>4, <2>3, <2>4, HigherSignal
  <2>8. (semantic[a] = 0 => sa = 0) /\ (semantic[b] = 0 => sb = 0) /\ (lexical[a] = 0 => la = 0) /\ (lexical[b] = 0 => lb = 0)
    BY <2>1, <2>2, <2>3, <2>4 DEF ShareIn
  <2>9. \/ semantic[b] > semantic[a] /\ lexical[b] > lexical[a]
        \/ semantic[b] > semantic[a] /\ lexical[b] = 0 /\ lexical[a] = 0
        \/ lexical[b] > lexical[a] /\ semantic[b] = 0 /\ semantic[a] = 0
    BY <1>8, <1>15, <1>16, <1>20 DEF Better
  <2>10. (sb > sa /\ lb > la) \/ (sb > sa /\ lb = la) \/ (lb > la /\ sb = sa)
    BY <2>6, <2>7, <2>8, <2>9
  <2>11. sb + lb > sa + la
    BY <2>10
  <2> QED BY <1>19, <2>5, <2>11
<1> QED BY <1>20

----------------------------------------------------------------------------
(* What the runs check.                                                    *)

\* The variables of a search keep their types, for any number of mounts, budget,
\* page and window (federate_with_window).
THEOREM SearchTyped == SearchSpec => []SearchTypeOK
<1>1. SearchInv => SearchTypeOK
  BY DEF SearchInv
<1> QED BY <1>1, Starts, SearchKeepsIt, PTL DEF SearchSpec

\* Once the frontier is stable, reading every mount to its end would give the same
\* answer (federation.rs, point 5 of its algorithm), however many mounts there
\* are, whatever they weigh, and whichever of their hits were superseded.
THEOREM StableAnswers == SearchSpec => []StableIsTop
<1>1. SearchInv => StableIsTop
  <2> SUFFICES ASSUME SearchInv, stage = "fused", settled, ~shifted
               PROVE  FirstOf(hits, Limit) = Fuse([m \in Mounts |-> ToTheEnd(m)], Limit)
    BY DEF StableIsTop
  <2>1. hits = Fuse(list, Window) /\ Unstable(list, hits) = {} /\ weight \in [Mounts -> Weights]
    BY DEF SearchInv, Answered, SearchTypeOK
  <2>2. PICK more : more = [m \in Mounts |-> ToTheEnd(m)]
    OBVIOUS
  <2>3. GoesOn(list, more)
    BY <2>2, ToTheEndGoesOn
  <2> QED BY <2>1, <2>2, <2>3, TheFrontierIsEnough
<1> QED BY <1>1, Starts, SearchKeepsIt, PTL DEF SearchSpec

\* Of two hits of a reranked answer, the one with the better evidence is first
\* (rerank), for any scores of the two signals and any window.
THEOREM EvidenceRanks == SearchSpec => []EvidenceDecides
<1>1. SearchInv => EvidenceDecides
  BY RerankFollowsTheEvidence DEF EvidenceDecides
<1> QED BY <1>1, Starts, SearchKeepsIt, PTL DEF SearchSpec
=============================================================================
