---------------------- MODULE AlgoliaVersioningProofs ----------------------
(***************************************************************************)
(* Proofs about AlgoliaVersioning, for any set of actors, any texts, any   *)
(* number of versions and any retention floor.                             *)
(*                                                                         *)
(* The argument.  A corpus step only ever adds to what is accounted for    *)
(* (Accounts below): records are immutable, published versions stay        *)
(* published, and what leaves an index is purged, retracted, or the chunks *)
(* of a version that had been published.  So what an operation learned     *)
(* about its own unpublished version and about the version it supersedes   *)
(* (OpInv) survives every step of every other operation.                   *)
(***************************************************************************)
EXTENDS AlgoliaVersioning, NoteCache, FiniteSetTheorems, TLAPS

InFlight(o) == o.at \in {"push", "browse", "copy", "delete", "move"}

\* What holds of one operation, whatever the others do.
OpInv(o) ==
  /\ o.ver \in 0 .. minted
  /\ o.prev = NoVersion \/ o.prev \in everHead
  /\ InFlight(o) =>
       /\ o.ver # NoVersion
       /\ o.ver \notin everHead
       /\ rec[o.ver].forkedFrom \in {NoVersion, o.prev}
       /\ rec[o.ver].deleted => rec[o.ver].parent = o.prev
  /\ o.at \in {"browse", "copy", "delete"} => o.prev # NoVersion
  /\ (o.at \in {"browse", "copy", "delete", "move"} /\ ~rec[o.ver].deleted) =>
       o.ver \in mainChunks \cup retracted
  /\ (o.at = "copy" /\ ~o.copied /\ HasText(o.prev)) =>
       o.prev \in histChunks \cup purged \cup retracted
  /\ (o.at \in {"delete", "move"} /\ o.prev # NoVersion) =>
       /\ o.prev \in histNotes \cup purged \cup retracted
       /\ HasText(o.prev) => o.prev \in histChunks \cup purged \cup retracted

DistinctVersions ==
  \A a, b \in Actors :
    (a # b /\ InFlight(op[a]) /\ InFlight(op[b])) => op[a].ver # op[b].ver

Published ==
  /\ head = NoVersion \/ head \in everHead
  /\ everHead \subseteq 1 .. minted
  /\ mainChunks \subseteq 1 .. minted
  /\ histChunks \subseteq histNotes
  /\ \A v \in Version : rec[v].deleted => rec[v].body = NoBody

IInv ==
  /\ TypeOK
  /\ Published
  /\ \A a \in Actors : OpInv(op[a])
  /\ DistinctVersions
  /\ TextNeverLost
  /\ TornOnlyInCutover
  /\ OvertakenIsArchived

----------------------------------------------------------------------------
(* Type correctness.                                                       *)

\* The idle operation is a well-typed operation.
LEMMA IdleOpType == IdleOp \in Op
  BY DEF IdleOp, Op, Stages, Base, NoVersion

\* Changing the stage of an operation keeps its type.
LEMMA StageType == ASSUME NEW o \in Op, NEW s \in Stages PROVE [o EXCEPT !.at = s] \in Op
  BY DEF Op

\* Changing any one field of an operation keeps its type.
LEMMA FieldTypes ==
  ASSUME NEW o \in Op, NEW s \in Stages
  PROVE  /\ \A c \in BOOLEAN : [o EXCEPT !.at = s, !.copied = c] \in Op
         /\ \A d \in SUBSET Version : [o EXCEPT !.at = s, !.doomed = d] \in Op
  BY DEF Op

\* Ending an operation keeps the type of op.
LEMMA FinishType ==
  ASSUME op \in [Actors -> Op], NEW a \in Actors, Finish(a) PROVE op' \in [Actors -> Op]
  BY IdleOpType DEF Finish

\* What a write and a delete build is a note record.
LEMMA BuiltTypes ==
  ASSUME TypeOK, NEW a \in Actors
  PROVE  /\ BuiltNote(op[a], head) \in NoteRecord
         /\ head # NoVersion => Tombstone(head) \in NoteRecord
<1>1. op[a] \in Op /\ head \in {NoVersion} \cup Version
  BY DEF TypeOK
<1>2. ForkOf(op[a].base, head) \in {NoVersion} \cup Version
  BY <1>1 DEF ForkOf
<1>3. DivergenceAfterWrite(op[a].resolve, ForkOf(op[a].base, head), head) \in BOOLEAN
  BY DEF DivergenceAfterWrite
<1>4. (IF op[a].base \in Version THEN op[a].base ELSE head) \in {NoVersion} \cup Version
  BY <1>1
<1>5. BuiltNote(op[a], head) \in NoteRecord
  BY <1>1, <1>2, <1>3, <1>4 DEF BuiltNote, NoteRecord, Op
<1>6. head # NoVersion => rec[head].hasDivergence \in BOOLEAN
  BY <1>1 DEF TypeOK, NoteRecord
<1>7. head # NoVersion => Tombstone(head) \in NoteRecord
  BY <1>1, <1>6 DEF Tombstone, NoteRecord
<1> QED BY <1>5, <1>7

\* Minting a version of a note record keeps the types.
LEMMA MintType ==
  ASSUME TypeOK, NEW a \in Actors, NEW note \in NoteRecord, NEW s \in Stages, Mint(a, note, s)
  PROVE  TypeOK'
<1>1. minted + 1 \in Version /\ minted' \in 0 .. MaxVersions
  BY VersioningAssumption DEF Mint, TypeOK, Version
<1>2. rec' \in [Version -> NoteRecord]
  BY <1>1 DEF Mint, TypeOK
<1>3. [op[a] EXCEPT !.at = s, !.prev = head, !.ver = minted + 1] \in Op
  BY <1>1 DEF TypeOK, Op
<1>4. op' \in [Actors -> Op]
  BY <1>3 DEF Mint, TypeOK
<1>5. UNCHANGED <<corpus, aged, ghosts>>
  BY DEF Mint
<1> QED BY <1>1, <1>2, <1>4, <1>5 DEF TypeOK, corpus, ghosts

\* Every step from a state of the invariant leads to a well-typed one.
LEMMA TypeInductive == IInv /\ [Next]_vars => TypeOK'
<1> SUFFICES ASSUME IInv, [Next]_vars PROVE TypeOK'
  OBVIOUS
<1>0. TypeOK /\ \A a \in Actors : OpInv(op[a])
  BY DEF IInv
<1> USE <1>0 DEF TypeOK
<1>1. ASSUME NEW a \in Actors, StartWrite(a) PROVE TypeOK'
  <2>1. PICK body \in Bodies, b \in {ObservedBase, Unobserved}, r \in BOOLEAN :
          op' = [op EXCEPT ![a] = [IdleOp EXCEPT !.at = "fetch", !.kind = "write",
                                     !.body = body, !.base = b, !.resolve = r]]
    BY <1>1, VersioningAssumption DEF StartWrite
  <2>2. ObservedBase \in Base
    BY DEF ObservedBase, Base, Absent, NoVersion
  <2>3. [IdleOp EXCEPT !.at = "fetch", !.kind = "write", !.body = body,
                       !.base = b, !.resolve = r] \in Op
    BY <2>2 DEF IdleOp, Op, Base, Stages, NoVersion
  <2>4. op' \in [Actors -> Op]
    BY <2>1, <2>3
  <2> QED BY <1>1, <2>4 DEF StartWrite, corpus, local, ghosts
<1>2. ASSUME NEW a \in Actors, StartDelete(a) PROVE TypeOK'
  <2>1. [IdleOp EXCEPT !.at = "fetch", !.kind = "delete"] \in Op
    BY DEF IdleOp, Op, Base, Stages, NoVersion
  <2> QED BY <1>2, <2>1 DEF StartDelete, corpus, local, ghosts
<1>3. ASSUME NEW a \in Actors, FetchForWrite(a) PROVE TypeOK'
  <2>1. CASE Finish(a) /\ UNCHANGED <<corpus, local, ghosts>>
    BY <2>1, FinishType DEF corpus, local, ghosts
  <2>2. CASE Mint(a, BuiltNote(op[a], head), "push")
    BY <2>2, MintType, BuiltTypes DEF Stages
  <2> QED BY <1>3, <2>1, <2>2 DEF FetchForWrite
<1>4. ASSUME NEW a \in Actors, FetchForDelete(a) PROVE TypeOK'
  <2>1. CASE Finish(a) /\ UNCHANGED <<corpus, local, ghosts>>
    BY <2>1, FinishType DEF corpus, local, ghosts
  <2>2. CASE Live(head) /\ Mint(a, Tombstone(head), "browse")
    BY <2>2, MintType, BuiltTypes DEF Stages, Live
  <2> QED BY <1>4, <2>1, <2>2 DEF FetchForDelete
<1>5. ASSUME NEW a \in Actors, PushChunks(a) PROVE TypeOK'
  <2>1. op[a].ver \in Version
    BY <1>5 DEF PushChunks, OpInv, InFlight, Op
  <2>2. op' \in [Actors -> Op]
    BY <1>5, StageType DEF PushChunks, Stages
  <2> QED BY <1>5, <2>1, <2>2 DEF PushChunks, local, ghosts
<1>6. ASSUME NEW a \in Actors, BrowsePrevious(a) PROVE TypeOK'
  <2>1. (op[a].prev \in mainChunks) \in BOOLEAN /\ op[a] \in Op
    OBVIOUS
  <2>2. [op[a] EXCEPT !.at = "copy", !.copied = op[a].prev \in mainChunks] \in Op
    BY <2>1, FieldTypes DEF Stages
  <2> QED BY <1>6, <2>2 DEF BrowsePrevious, corpus, local, ghosts
<1>7. ASSUME NEW a \in Actors, CopyToHistory(a) PROVE TypeOK'
  <2>1. op[a].prev \in Version
    BY <1>7 DEF CopyToHistory, OpInv, Op
  <2>2. op' \in [Actors -> Op]
    BY <1>7, StageType DEF CopyToHistory, Stages
  <2> QED BY <1>7, <2>1, <2>2 DEF CopyToHistory, local, ghosts
<1>8. ASSUME NEW a \in Actors, DeletePrevious(a) PROVE TypeOK'
  <2>1. op' \in [Actors -> Op]
    BY <1>8, StageType DEF DeletePrevious, Stages
  <2> QED BY <1>8, <2>1 DEF DeletePrevious, local, ghosts
<1>9. ASSUME NEW a \in Actors, MoveHead(a) PROVE TypeOK'
  <2>1. op[a].ver \in Version
    BY <1>9 DEF MoveHead, OpInv, InFlight, Op
  <2>2. op' \in [Actors -> Op]
    BY <1>9, StageType DEF MoveHead, Stages
  <2> QED BY <1>9, <2>1, <2>2 DEF MoveHead, local
<1>10. ASSUME NEW a \in Actors, ListForPurge(a) PROVE TypeOK'
  <2>0. PICK doomed \in SUBSET Version :
          IF doomed = {} THEN Finish(a)
          ELSE op' = [op EXCEPT ![a].at = "purge", ![a].doomed = doomed]
    BY <1>10 DEF ListForPurge
  <2>1. [op[a] EXCEPT !.at = "purge", !.doomed = doomed] \in Op
    BY FieldTypes DEF Stages
  <2>2. op' \in [Actors -> Op]
    BY <2>0, <2>1, FinishType
  <2> QED BY <1>10, <2>2 DEF ListForPurge, corpus, local, ghosts
<1>11. ASSUME NEW a \in Actors, PurgeOne(a) PROVE TypeOK'
  <2>0. PICK v \in op[a].doomed :
          /\ histNotes' = histNotes \ {v}
          /\ histChunks' = histChunks \ {v}
          /\ purged' = purged \cup {v}
          /\ IF op[a].doomed = {v} THEN Finish(a)
             ELSE op' = [op EXCEPT ![a].doomed = @ \ {v}]
    BY <1>11 DEF PurgeOne
  <2>1. v \in Version /\ [op[a] EXCEPT !.doomed = @ \ {v}] \in Op
    BY DEF Op
  <2>2. op' \in [Actors -> Op]
    BY <2>0, <2>1, FinishType
  <2> QED BY <1>11, <2>0, <2>1, <2>2 DEF PurgeOne, local
<1>12. ASSUME NEW a \in Actors, RetractMain(a) PROVE TypeOK'
  <2>1. [IdleOp EXCEPT !.at = "retractHistory", !.kind = "retract"] \in Op
    BY DEF IdleOp, Op, Stages, Base, NoVersion
  <2>2. 1 .. minted \subseteq Version
    BY VersioningAssumption DEF Version
  <2> QED BY <1>12, <2>1, <2>2 DEF RetractMain, local
<1>13. ASSUME NEW a \in Actors, RetractHistory(a) PROVE TypeOK'
  <2>1. op' \in [Actors -> Op]
    BY <1>13, FinishType DEF RetractHistory
  <2> QED BY <1>13, <2>1 DEF RetractHistory, local
<1>14. ASSUME NEW a \in Actors, Abort(a) PROVE TypeOK'
  <2>1. op[a].prev \in {NoVersion} \cup Version
    BY DEF Op
  <2> QED BY <1>14, <2>1, FinishType DEF Abort, corpus, local
<1>15. CASE VersionAges
  BY <1>15, VersioningAssumption DEF VersionAges, corpus, ghosts
<1>16. CASE UNCHANGED vars
  BY <1>16 DEF vars, corpus, local, ghosts
<1> QED
  BY <1>1, <1>2, <1>3, <1>4, <1>5, <1>6, <1>7, <1>8, <1>9, <1>10,
     <1>11, <1>12, <1>13, <1>14, <1>15, <1>16
     DEF Next, Cutover

----------------------------------------------------------------------------
(* What one operation established survives the steps of the others.        *)

\* Records are immutable, publication is permanent, and what leaves an index
\* is purged, retracted, or the chunks of a published version.
Accounts ==
  /\ minted <= minted'
  /\ \A v \in 1 .. minted : rec'[v] = rec[v]
  /\ everHead \subseteq everHead'
  /\ purged \subseteq purged' /\ retracted \subseteq retracted'
  /\ histNotes \subseteq histNotes' \cup purged' \cup retracted'
  /\ histChunks \subseteq histChunks' \cup purged' \cup retracted'
  /\ mainChunks \subseteq mainChunks' \cup retracted' \cup everHead

\* What holds of an operation survives a step that leaves the operation alone.
LEMMA OpInvKept ==
  ASSUME TypeOK, TypeOK', Published, Accounts, NEW o \in Op, OpInv(o),
         InFlight(o) => o.ver \notin everHead'
  PROVE  OpInv(o)'
<1>1. minted \in Nat /\ minted' \in Nat /\ minted <= minted'
  BY DEF TypeOK, Accounts
<1>2. o.ver \in 0 .. minted'
  BY <1>1 DEF OpInv
<1>3. o.prev = NoVersion \/ (o.prev \in everHead' /\ rec'[o.prev] = rec[o.prev])
  BY DEF OpInv, Accounts, Published
<1>4. InFlight(o) => o.ver \in 1 .. minted /\ rec'[o.ver] = rec[o.ver]
  BY <1>1 DEF OpInv, Accounts, NoVersion
<1>5. InFlight(o) =>
       /\ o.ver # NoVersion
       /\ o.ver \notin everHead'
       /\ rec'[o.ver].forkedFrom \in {NoVersion, o.prev}
       /\ rec'[o.ver].deleted => rec'[o.ver].parent = o.prev
  BY <1>4 DEF OpInv
<1>6. (o.at \in {"browse", "copy", "delete", "move"} /\ ~rec'[o.ver].deleted) =>
       o.ver \in mainChunks' \cup retracted'
  BY <1>4 DEF OpInv, Accounts, InFlight
<1>7. (o.at = "copy" /\ ~o.copied /\ rec'[o.prev].body # NoBody) =>
       o.prev \in histChunks' \cup purged' \cup retracted'
  BY <1>3 DEF OpInv, Accounts, HasText
<1>8. (o.at \in {"delete", "move"} /\ o.prev # NoVersion) =>
       /\ o.prev \in histNotes' \cup purged' \cup retracted'
       /\ rec'[o.prev].body # NoBody => o.prev \in histChunks' \cup purged' \cup retracted'
  BY <1>3 DEF OpInv, Accounts, HasText
<1>9. o.at \in {"browse", "copy", "delete"} => o.prev # NoVersion
  BY DEF OpInv
<1> QED BY <1>2, <1>3, <1>5, <1>6, <1>7, <1>8, <1>9 DEF OpInv, HasText

\* A step of actor a keeps every operation's invariant when it keeps a's.
LEMMA OpsKept ==
  ASSUME IInv, TypeOK', Accounts, NEW a \in Actors,
         \A b \in Actors \ {a} : op'[b] = op[b],
         everHead' = everHead \/ (InFlight(op[a]) /\ everHead' = everHead \cup {op[a].ver}),
         OpInv(op[a])'
  PROVE  (\A b \in Actors : OpInv(op[b]))'
<1> SUFFICES ASSUME NEW b \in Actors PROVE OpInv(op[b])'
  OBVIOUS
<1>1. CASE b = a
  BY <1>1
<1>2. CASE b # a
  <2>1. op'[b] = op[b] /\ op[b] \in Op /\ OpInv(op[b])
    BY <1>2 DEF IInv, TypeOK
  <2>2. InFlight(op[b]) => op[b].ver \notin everHead'
    BY <1>2, <2>1 DEF IInv, DistinctVersions, OpInv
  <2>3. PICK o \in Op : o = op[b]
    BY <2>1
  <2>4. OpInv(o)
    BY <2>1, <2>3
  <2>5. OpInv(o)'
    BY <2>2, <2>3, <2>4, OpInvKept DEF IInv
  <2> QED BY <2>1, <2>3, <2>5 DEF OpInv, InFlight
<1> QED BY <1>1, <1>2

\* Two operations never carry the same new version.
LEMMA DistinctKept ==
  ASSUME IInv, NEW a \in Actors,
         \A b \in Actors \ {a} : op'[b] = op[b],
         InFlight(op'[a]) => \/ InFlight(op[a]) /\ op'[a].ver = op[a].ver
                             \/ op'[a].ver = minted + 1
  PROVE  DistinctVersions'
<1>1. minted \in Nat /\ \A b \in Actors : op[b].ver \in 0 .. minted
  BY DEF IInv, TypeOK, OpInv
<1>2. \A b \in Actors : op[b].ver # minted + 1
  BY <1>1
<1> QED BY <1>1, <1>2 DEF IInv, DistinctVersions, InFlight

----------------------------------------------------------------------------
(* One lemma per kind of step.                                             *)

\* Steps that change no record and leave their actor outside the cutover.
Quiet(a) ==
  /\ UNCHANGED <<head, mainChunks, histNotes, histChunks, minted, rec, everHead,
                 purged, retracted>>
  /\ interrupted \subseteq interrupted'
  /\ \A b \in Actors \ {a} : op'[b] = op[b]
  /\ ~InFlight(op'[a])
  /\ op'[a].ver \in {NoVersion, op[a].ver}
  /\ op'[a].prev \in {NoVersion, op[a].prev, head}
  /\ (op[a].at = "move" /\ op[a].prev # NoVersion) => op[a].prev \in interrupted'

\* Quiet keeps the inductive invariant.
LEMMA QuietStep ==
  ASSUME IInv, TypeOK', NEW a \in Actors, Quiet(a) PROVE IInv'
<1>1. Accounts
  BY DEF Quiet, Accounts, IInv, TypeOK
<1>2. OpInv(op[a]) /\ minted \in Nat
  BY DEF IInv, TypeOK
<1>3. OpInv(op[a])'
  BY <1>2 DEF Quiet, OpInv, InFlight, IInv, Published, NoVersion
<1>4. (\A b \in Actors : OpInv(op[b]))'
  BY <1>1, <1>3, OpsKept DEF Quiet
<1>5. DistinctVersions'
  BY DistinctKept DEF Quiet
<1>6. TornOnlyInCutover'
  <2> SUFFICES ASSUME Live(head), head \notin mainChunks,
                      \E b \in Actors : op[b].at = "move" /\ op[b].prev = head
               PROVE  \/ \E b \in Actors : op'[b].at = "move" /\ op'[b].prev = head
                      \/ head \in interrupted'
    BY DEF TornOnlyInCutover, IInv, Quiet, Live
  <2> QED BY DEF Quiet, Live, NoVersion
<1>7. Published' /\ TextNeverLost' /\ OvertakenIsArchived'
  BY DEF Quiet, IInv, Published, TextNeverLost, OvertakenIsArchived, HasText
<1> QED BY <1>4, <1>5, <1>6, <1>7 DEF IInv

\* A version is minted: nothing refers to the new number yet.
LEMMA MintStep ==
  ASSUME IInv, TypeOK', NEW a \in Actors, NEW note \in NoteRecord, NEW s \in Stages,
         Mint(a, note, s), ~InFlight(op[a]),
         note.deleted => note.body = NoBody /\ note.parent = head,
         note.forkedFrom \in {NoVersion, head},
         s \in {"push", "browse"},
         s = "browse" => note.deleted /\ head # NoVersion
  PROVE  IInv'
<1>1. minted \in Nat /\ minted' = minted + 1 /\ minted + 1 \in Version
  BY VersioningAssumption DEF IInv, TypeOK, Mint, Version
<1>2. rec' = [rec EXCEPT ![minted + 1] = note] /\ rec'[minted + 1] = note
  BY <1>1 DEF Mint, IInv, TypeOK
<1>3. UNCHANGED <<head, mainChunks, histNotes, histChunks, everHead, purged, retracted,
                  interrupted>>
  BY DEF Mint, corpus, ghosts
<1>4. \A v \in 1 .. minted : rec'[v] = rec[v]
  BY <1>1, <1>2 DEF IInv, TypeOK, Version
<1>5. Accounts
  BY <1>1, <1>3, <1>4 DEF Accounts
<1>6. /\ op'[a] = [op[a] EXCEPT !.at = s, !.prev = head, !.ver = minted + 1]
      /\ \A b \in Actors \ {a} : op'[b] = op[b]
  BY DEF Mint, IInv, TypeOK
<1>7. op'[a].at = s /\ op'[a].prev = head /\ op'[a].ver = minted + 1
  BY <1>6 DEF IInv, TypeOK, Op
<1>8. minted + 1 \notin everHead /\ minted + 1 # NoVersion
  BY <1>1 DEF IInv, Published, NoVersion
<1>9. OpInv(op[a])'
  BY <1>1, <1>2, <1>3, <1>7, <1>8 DEF OpInv, InFlight, IInv, Published, HasText
<1>10. (\A b \in Actors : OpInv(op[b]))'
  BY <1>3, <1>5, <1>6, <1>9, OpsKept
<1>11. DistinctVersions'
  BY <1>6, <1>7, DistinctKept
<1>12. head # NoVersion => rec'[head] = rec[head]
  BY <1>4 DEF IInv, Published
<1>13. Published'
  BY <1>1, <1>2, <1>3 DEF IInv, Published, TypeOK
<1>14. TextNeverLost'
  BY <1>3, <1>4 DEF IInv, Published, TextNeverLost, HasText
<1>15. TornOnlyInCutover'
  <2> SUFFICES ASSUME Live(head), head \notin mainChunks,
                      \E b \in Actors : op[b].at = "move" /\ op[b].prev = head
               PROVE  \E b \in Actors : op'[b].at = "move" /\ op'[b].prev = head
    BY <1>3, <1>12 DEF TornOnlyInCutover, IInv, Live
  <2> QED BY <1>6 DEF InFlight
<1>16. OvertakenIsArchived'
  BY <1>3, <1>12 DEF IInv, OvertakenIsArchived
<1> QED BY <1>10, <1>11, <1>13, <1>14, <1>15, <1>16 DEF IInv

\* Steps of the cutover that change neither the head nor a record, and are not
\* the delete: text only gets more copies.
LEMMA CutoverStep ==
  ASSUME IInv, TypeOK', NEW a \in Actors,
         UNCHANGED <<head, minted, rec, everHead, purged, retracted, interrupted>>,
         mainChunks \subseteq mainChunks', mainChunks' \subseteq 1 .. minted,
         histNotes \subseteq histNotes',
         histChunks \subseteq histChunks', histChunks' \subseteq histNotes',
         \A b \in Actors \ {a} : op'[b] = op[b],
         op[a].at # "move", InFlight(op[a]), op'[a].ver = op[a].ver,
         OpInv(op[a])'
  PROVE  IInv'
<1>1. Accounts
  BY DEF Accounts, IInv, TypeOK
<1>2. (\A b \in Actors : OpInv(op[b]))'
  BY <1>1, OpsKept
<1>3. DistinctVersions'
  BY DistinctKept
<1>4. TornOnlyInCutover'
  <2> SUFFICES ASSUME Live(head), head \notin mainChunks,
                      \E b \in Actors : op[b].at = "move" /\ op[b].prev = head
               PROVE  \E b \in Actors : op'[b].at = "move" /\ op'[b].prev = head
    BY DEF TornOnlyInCutover, IInv, Live
  <2> QED OBVIOUS
<1>5. Published' /\ TextNeverLost' /\ OvertakenIsArchived'
  BY DEF IInv, Published, TextNeverLost, OvertakenIsArchived, HasText
<1> QED BY <1>2, <1>3, <1>4, <1>5 DEF IInv

\* Push keeps the inductive invariant.
LEMMA PushStep == ASSUME IInv, TypeOK', NEW a \in Actors, PushChunks(a) PROVE IInv'
<1>1. OpInv(op[a]) /\ op[a].at = "push" /\ minted \in Nat /\ op[a] \in Op
  BY DEF IInv, TypeOK, PushChunks
<1>2. UNCHANGED <<head, histNotes, histChunks, minted, rec, aged, everHead, purged,
                  retracted, interrupted>>
  BY DEF PushChunks, local, ghosts
<1>3. mainChunks' = mainChunks \cup {op[a].ver} /\ mainChunks' \subseteq 1 .. minted
  BY <1>1 DEF PushChunks, OpInv, InFlight, IInv, Published, NoVersion
<1>4. /\ op'[a].at = IF op[a].prev = NoVersion THEN "move" ELSE "browse"
      /\ op'[a].ver = op[a].ver /\ op'[a].prev = op[a].prev
      /\ \A b \in Actors \ {a} : op'[b] = op[b]
  BY DEF PushChunks, IInv, TypeOK, Op
<1>5. OpInv(op[a])'
  BY <1>1, <1>2, <1>3, <1>4 DEF OpInv, InFlight
<1> QED
  BY <1>1, <1>2, <1>3, <1>4, <1>5, CutoverStep DEF InFlight, IInv, Published

\* Browse keeps the inductive invariant.
LEMMA BrowseStep == ASSUME IInv, TypeOK', NEW a \in Actors, BrowsePrevious(a) PROVE IInv'
<1>1. OpInv(op[a]) /\ op[a].at = "browse" /\ op[a] \in Op
  BY DEF IInv, TypeOK, BrowsePrevious
<1>2. UNCHANGED <<head, mainChunks, histNotes, histChunks, minted, rec, aged,
                  everHead, purged, retracted, interrupted>>
  BY DEF BrowsePrevious, corpus, local, ghosts
<1>3. /\ op'[a].at = "copy" /\ op'[a].copied = (op[a].prev \in mainChunks)
      /\ op'[a].ver = op[a].ver /\ op'[a].prev = op[a].prev
      /\ \A b \in Actors \ {a} : op'[b] = op[b]
  BY DEF BrowsePrevious, IInv, TypeOK, Op
\* What the browse does not find, TextNeverLost says is accounted for.
<1>4. HasText(op[a].prev) =>
        op[a].prev \in mainChunks \cup histChunks \cup purged \cup retracted
  BY <1>1 DEF OpInv, IInv, TextNeverLost
<1>5. OpInv(op[a])'
  BY <1>1, <1>2, <1>3, <1>4 DEF OpInv, InFlight, HasText
<1> QED
  BY <1>1, <1>2, <1>3, <1>5, CutoverStep DEF InFlight, IInv, Published

\* Copy keeps the inductive invariant.
LEMMA CopyStep == ASSUME IInv, TypeOK', NEW a \in Actors, CopyToHistory(a) PROVE IInv'
<1>1. OpInv(op[a]) /\ op[a].at = "copy" /\ op[a] \in Op
  BY DEF IInv, TypeOK, CopyToHistory
<1>2. UNCHANGED <<head, mainChunks, minted, rec, aged, everHead, purged, retracted,
                  interrupted>>
  BY DEF CopyToHistory, local, ghosts
<1>3. /\ histNotes' = histNotes \cup {op[a].prev}
      /\ histChunks' = IF op[a].copied THEN histChunks \cup {op[a].prev} ELSE histChunks
  BY DEF CopyToHistory
<1>4. /\ op'[a].at = "delete"
      /\ op'[a].ver = op[a].ver /\ op'[a].prev = op[a].prev
      /\ \A b \in Actors \ {a} : op'[b] = op[b]
  BY DEF CopyToHistory, IInv, TypeOK, Op
<1>5. OpInv(op[a])'
  <2>1. HasText(op[a].prev) => op[a].prev \in histChunks' \cup purged' \cup retracted'
    BY <1>1, <1>2, <1>3 DEF OpInv
  <2> QED BY <1>1, <1>2, <1>3, <1>4, <2>1 DEF OpInv, InFlight, HasText
<1> QED
  BY <1>1, <1>2, <1>3, <1>4, <1>5, CutoverStep DEF InFlight, IInv, Published

\* The delete: the one step that takes text out of the main index, after the
\* copy, and the one that opens the window in which the head has no chunks.
LEMMA DeleteStep == ASSUME IInv, TypeOK', NEW a \in Actors, DeletePrevious(a) PROVE IInv'
<1>1. OpInv(op[a]) /\ op[a].at = "delete" /\ op[a] \in Op /\ op[a].prev \in everHead
  BY DEF IInv, TypeOK, DeletePrevious, OpInv
<1>2. UNCHANGED <<head, histNotes, histChunks, minted, rec, aged, everHead, purged,
                  retracted, interrupted>>
  BY DEF DeletePrevious, local, ghosts
<1>3. mainChunks' = mainChunks \ {op[a].prev}
  BY DEF DeletePrevious
<1>4. /\ op'[a].at = "move"
      /\ op'[a].ver = op[a].ver /\ op'[a].prev = op[a].prev
      /\ \A b \in Actors \ {a} : op'[b] = op[b]
  BY DEF DeletePrevious, IInv, TypeOK, Op
<1>5. Accounts
  BY <1>1, <1>2, <1>3 DEF Accounts, IInv, TypeOK
<1>6. OpInv(op[a])'
  BY <1>1, <1>2, <1>3, <1>4 DEF OpInv, InFlight, HasText
<1>7. (\A b \in Actors : OpInv(op[b]))'
  BY <1>2, <1>4, <1>5, <1>6, OpsKept
<1>8. DistinctVersions'
  BY <1>1, <1>4, DistinctKept DEF InFlight
<1>9. TextNeverLost'
  BY <1>1, <1>2, <1>3 DEF IInv, TextNeverLost, HasText, OpInv
<1>10. TornOnlyInCutover'
  <2>1. CASE head = op[a].prev
    BY <1>2, <1>4, <2>1 DEF TornOnlyInCutover
  <2>2. CASE head # op[a].prev
    <3> SUFFICES ASSUME Live(head), head \notin mainChunks,
                        \E b \in Actors : op[b].at = "move" /\ op[b].prev = head
                 PROVE  \E b \in Actors : op'[b].at = "move" /\ op'[b].prev = head
      BY <1>2, <1>3, <2>2 DEF TornOnlyInCutover, IInv, Live
    <3> QED BY <1>1, <1>4
  <2> QED BY <2>1, <2>2
<1>11. Published' /\ OvertakenIsArchived'
  BY <1>2, <1>3 DEF IInv, Published, OvertakenIsArchived
<1> QED BY <1>7, <1>8, <1>9, <1>10, <1>11 DEF IInv

\* The head move publishes a version whose chunks are in place, and displaces
\* one that is archived.
LEMMA MoveStep == ASSUME IInv, TypeOK', NEW a \in Actors, MoveHead(a) PROVE IInv'
<1>1. OpInv(op[a]) /\ op[a].at = "move" /\ op[a] \in Op /\ minted \in Nat
  BY DEF IInv, TypeOK, MoveHead
<1>2. UNCHANGED <<mainChunks, histNotes, histChunks, minted, rec, aged, purged,
                  retracted, interrupted>>
  BY DEF MoveHead, local
<1>3. head' = op[a].ver /\ everHead' = everHead \cup {op[a].ver}
  BY DEF MoveHead
<1>4. /\ op'[a].at = "list"
      /\ op'[a].ver = op[a].ver /\ op'[a].prev = op[a].prev
      /\ \A b \in Actors \ {a} : op'[b] = op[b]
  BY DEF MoveHead, IInv, TypeOK, Op
<1>5. Accounts
  BY <1>2, <1>3 DEF Accounts, IInv, TypeOK
<1>6. OpInv(op[a])'
  BY <1>1, <1>2, <1>3, <1>4 DEF OpInv, InFlight, HasText
<1>7. (\A b \in Actors : OpInv(op[b]))'
  BY <1>1, <1>3, <1>4, <1>5, <1>6, OpsKept DEF InFlight
<1>8. DistinctVersions'
  BY <1>4, DistinctKept DEF InFlight
<1>9. op[a].ver \in 1 .. minted /\ op[a].ver \in Version
  BY <1>1, VersioningAssumption DEF OpInv, InFlight, NoVersion, IInv, TypeOK, Version
<1>10. ~rec[op[a].ver].deleted => op[a].ver \in mainChunks \cup retracted
  BY <1>1 DEF OpInv
<1>11. HasText(op[a].ver) => ~rec[op[a].ver].deleted
  BY <1>9 DEF IInv, Published, HasText
<1>12. TextNeverLost'
  BY <1>2, <1>3, <1>10, <1>11 DEF IInv, TextNeverLost, HasText
<1>13. TornOnlyInCutover'
  BY <1>2, <1>3, <1>10 DEF TornOnlyInCutover, Live
<1>14. OvertakenIsArchived'
  BY <1>1, <1>2, <1>3 DEF OvertakenIsArchived, OpInv, InFlight
<1>15. Published'
  BY <1>2, <1>3, <1>9 DEF IInv, Published
<1> QED BY <1>7, <1>8, <1>12, <1>13, <1>14, <1>15 DEF IInv

\* Steps that remove records on purpose: what goes is purged or retracted.
LEMMA RemovalStep ==
  ASSUME IInv, TypeOK', NEW a \in Actors, Accounts,
         UNCHANGED <<minted, rec, everHead, interrupted>>,
         head' = head \/ head' = NoVersion,
         mainChunks' \subseteq mainChunks,
         mainChunks \subseteq mainChunks' \cup retracted',
         histChunks' \subseteq histNotes',
         \A b \in Actors \ {a} : op'[b] = op[b],
         ~InFlight(op[a]), ~InFlight(op'[a]),
         op'[a].ver \in {NoVersion, op[a].ver},
         op'[a].prev \in {NoVersion, op[a].prev}
  PROVE  IInv'
<1>1. OpInv(op[a]) /\ minted \in Nat
  BY DEF IInv, TypeOK
<1>2. OpInv(op[a])'
  BY <1>1 DEF OpInv, InFlight, NoVersion
<1>3. (\A b \in Actors : OpInv(op[b]))'
  BY <1>2, OpsKept
<1>4. DistinctVersions'
  BY DistinctKept
<1>5. Published'
  BY DEF IInv, Published
<1>6. TextNeverLost'
  BY DEF IInv, TextNeverLost, HasText, Accounts
<1>7. TornOnlyInCutover'
  <2> SUFFICES ASSUME head' = head, Live(head), head \notin mainChunks', head \notin retracted'
               PROVE  \/ \E b \in Actors : op'[b].at = "move" /\ op'[b].prev = head
                      \/ head \in interrupted
    BY DEF TornOnlyInCutover, Live
  <2>1. head \notin mainChunks /\ head \notin retracted
    BY DEF Accounts
  <2>2. CASE \E b \in Actors : op[b].at = "move" /\ op[b].prev = head
    BY <2>2 DEF InFlight
  <2> QED BY <2>1, <2>2 DEF IInv, TornOnlyInCutover
<1>8. OvertakenIsArchived'
  BY DEF IInv, OvertakenIsArchived, Accounts
<1> QED BY <1>3, <1>4, <1>5, <1>6, <1>7, <1>8 DEF IInv

\* Purge keeps the inductive invariant.
LEMMA PurgeStep == ASSUME IInv, TypeOK', NEW a \in Actors, PurgeOne(a) PROVE IInv'
<1>1. PICK v \in op[a].doomed :
        /\ histNotes' = histNotes \ {v}
        /\ histChunks' = histChunks \ {v}
        /\ purged' = purged \cup {v}
        /\ IF op[a].doomed = {v} THEN Finish(a)
           ELSE op' = [op EXCEPT ![a].doomed = @ \ {v}]
  BY DEF PurgeOne
<1>2. UNCHANGED <<head, mainChunks, minted, rec, everHead, retracted, interrupted>>
      /\ op[a].at = "purge"
  BY DEF PurgeOne, local
<1>3. /\ op'[a].at \in {"idle", "purge"}
      /\ op'[a].ver \in {NoVersion, op[a].ver} /\ op'[a].prev \in {NoVersion, op[a].prev}
      /\ \A b \in Actors \ {a} : op'[b] = op[b]
  BY <1>1, <1>2 DEF IInv, TypeOK, Op, Finish, IdleOp
<1>4. Accounts
  BY <1>1, <1>2 DEF Accounts, IInv, TypeOK
<1>5. histChunks' \subseteq histNotes'
  BY <1>1 DEF IInv, Published
<1> QED BY <1>2, <1>3, <1>4, <1>5, RemovalStep DEF InFlight

\* RetractMain keeps the inductive invariant.
LEMMA RetractMainStep == ASSUME IInv, TypeOK', NEW a \in Actors, RetractMain(a) PROVE IInv'
<1>1. /\ op[a].at = "idle" /\ head' = NoVersion /\ mainChunks' = {}
      /\ retracted' = retracted \cup 1 .. minted
      /\ UNCHANGED <<histNotes, histChunks, minted, rec, everHead, purged, interrupted>>
  BY DEF RetractMain, local
<1>2. /\ op'[a].at = "retractHistory" /\ op'[a].ver = NoVersion /\ op'[a].prev = NoVersion
      /\ \A b \in Actors \ {a} : op'[b] = op[b]
  BY DEF RetractMain, IInv, TypeOK, Op, IdleOp
<1>3. Accounts
  BY <1>1 DEF Accounts, IInv, TypeOK, Published
<1> QED
  BY <1>1, <1>2, <1>3, RemovalStep DEF InFlight, IInv, Published

\* RetractHistory keeps the inductive invariant.
LEMMA RetractHistoryStep ==
  ASSUME IInv, TypeOK', NEW a \in Actors, RetractHistory(a) PROVE IInv'
<1>1. /\ op[a].at = "retractHistory" /\ histNotes' = {} /\ histChunks' = {}
      /\ retracted' = retracted \cup histNotes
      /\ UNCHANGED <<head, mainChunks, minted, rec, everHead, purged, interrupted>>
  BY DEF RetractHistory, local
<1>2. /\ op'[a].at = "idle" /\ op'[a].ver = NoVersion /\ op'[a].prev = NoVersion
      /\ \A b \in Actors \ {a} : op'[b] = op[b]
  BY DEF RetractHistory, Finish, IdleOp, IInv, TypeOK
<1>3. Accounts
  BY <1>1 DEF Accounts, IInv, TypeOK, Published
<1> QED BY <1>1, <1>2, <1>3, RemovalStep DEF InFlight

----------------------------------------------------------------------------
(* The inductive invariant and its consequences.                           *)

\* The initial state satisfies the inductive invariant.
LEMMA InvInit == Init => IInv
<1> SUFFICES ASSUME Init PROVE IInv
  OBVIOUS
<1>1. TypeOK
  <2>1. UnbuiltNote \in NoteRecord
    BY DEF UnbuiltNote, NoteRecord
  <2> QED BY <2>1, IdleOpType, VersioningAssumption DEF Init, TypeOK, NoVersion
<1>2. \A a \in Actors : OpInv(op[a])
  BY DEF Init, OpInv, InFlight, IdleOp, NoVersion
<1>3. Published
  BY DEF Init, Published, UnbuiltNote
<1> QED
  BY <1>1, <1>2, <1>3 DEF IInv, Init, DistinctVersions, InFlight, IdleOp, TextNeverLost,
     TornOnlyInCutover, OvertakenIsArchived, Live

\* Every step keeps the inductive invariant.
LEMMA InvNext == IInv /\ [Next]_vars => IInv'
<1> SUFFICES ASSUME IInv, [Next]_vars PROVE IInv'
  OBVIOUS
<1>0. TypeOK /\ TypeOK' /\ op \in [Actors -> Op]
  BY TypeInductive DEF IInv, TypeOK
<1>1. ASSUME NEW a \in Actors, StartWrite(a) \/ StartDelete(a) PROVE IInv'
  <2>1. /\ op[a].at = "idle" /\ UNCHANGED <<corpus, local, ghosts>>
        /\ op'[a].at = "fetch"
        /\ op'[a].ver = NoVersion /\ op'[a].prev = NoVersion
        /\ \A b \in Actors \ {a} : op'[b] = op[b]
    <3>1. CASE StartWrite(a)
      <4>1. PICK body \in Bodies, b \in {ObservedBase, Unobserved}, r \in BOOLEAN :
              op' = [op EXCEPT ![a] = [IdleOp EXCEPT !.at = "fetch", !.kind = "write",
                                         !.body = body, !.base = b, !.resolve = r]]
        BY <1>0, <3>1, VersioningAssumption DEF StartWrite, TypeOK
      <4>2. op'[a] = [IdleOp EXCEPT !.at = "fetch", !.kind = "write", !.body = body, !.base = b,
                                    !.resolve = r]
        BY <1>0, <4>1
      <4>3. op'[a].at = "fetch" /\ op'[a].ver = NoVersion /\ op'[a].prev = NoVersion
        BY <4>2 DEF IdleOp
      <4> QED BY <1>0, <3>1, <4>1, <4>3 DEF StartWrite
    <3>2. CASE StartDelete(a)
      BY <1>0, <3>2 DEF StartDelete, IdleOp
    <3> QED BY <1>1, <3>1, <3>2
  <2> QED BY <1>0, <2>1, QuietStep DEF Quiet, InFlight, corpus, local, ghosts
<1>2. ASSUME NEW a \in Actors, Finish(a), UNCHANGED <<corpus, local, ghosts>>,
             op[a].at # "move"
      PROVE  IInv'
  BY <1>0, <1>2, QuietStep DEF Quiet, Finish, IdleOp, InFlight, corpus, local, ghosts
<1>3. ASSUME NEW a \in Actors, FetchForWrite(a) PROVE IInv'
  <2>1. CASE Finish(a) /\ UNCHANGED <<corpus, local, ghosts>>
    BY <1>2, <1>3, <2>1 DEF FetchForWrite
  <2>2. CASE Mint(a, BuiltNote(op[a], head), "push")
    <3>1. BuiltNote(op[a], head) \in NoteRecord /\ "push" \in Stages
      BY <1>0, BuiltTypes DEF Stages
    <3>2. ~BuiltNote(op[a], head).deleted
          /\ BuiltNote(op[a], head).forkedFrom \in {NoVersion, head}
      BY DEF BuiltNote, ForkOf
    <3> QED BY <1>0, <1>3, <2>2, <3>1, <3>2, MintStep DEF FetchForWrite, InFlight
  <2> QED BY <1>3, <2>1, <2>2 DEF FetchForWrite
<1>4. ASSUME NEW a \in Actors, FetchForDelete(a) PROVE IInv'
  <2>1. CASE Finish(a) /\ UNCHANGED <<corpus, local, ghosts>>
    BY <1>2, <1>4, <2>1 DEF FetchForDelete
  <2>2. CASE Live(head) /\ Mint(a, Tombstone(head), "browse")
    <3>1. Tombstone(head) \in NoteRecord /\ "browse" \in Stages /\ head # NoVersion
      BY <1>0, <2>2, BuiltTypes DEF Stages, Live
    <3>2. /\ Tombstone(head).deleted /\ Tombstone(head).body = NoBody
          /\ Tombstone(head).parent = head /\ Tombstone(head).forkedFrom = NoVersion
      BY DEF Tombstone
    <3> QED BY <1>0, <1>4, <2>2, <3>1, <3>2, MintStep DEF FetchForDelete, InFlight
  <2> QED BY <1>4, <2>1, <2>2 DEF FetchForDelete
<1>5. ASSUME NEW a \in Actors, ListForPurge(a) PROVE IInv'
  <2>1. PICK doomed : IF doomed = {} THEN Finish(a)
                      ELSE op' = [op EXCEPT ![a].at = "purge", ![a].doomed = doomed]
    BY <1>5 DEF ListForPurge
  <2>2. /\ op'[a].at \in {"idle", "purge"} /\ op'[a].ver \in {NoVersion, op[a].ver}
        /\ op'[a].prev \in {NoVersion, op[a].prev}
        /\ \A b \in Actors \ {a} : op'[b] = op[b]
    BY <1>0, <2>1 DEF Finish, IdleOp, Op
  <2> QED BY <1>0, <1>5, <2>2, QuietStep DEF ListForPurge, Quiet, InFlight, corpus, local, ghosts
<1>6. ASSUME NEW a \in Actors, Abort(a) PROVE IInv'
  BY <1>0, <1>6, QuietStep DEF Abort, Quiet, Finish, IdleOp, InFlight, corpus, local
<1>7. CASE UNCHANGED <<corpus, minted, rec, op, ghosts>>
  <2> USE <1>7 DEF corpus, ghosts
  <2>1. (\A a \in Actors : OpInv(op[a]))'
    BY DEF IInv, OpInv, InFlight, HasText
  <2>2. DistinctVersions' /\ Published' /\ TornOnlyInCutover'
    BY DEF IInv, DistinctVersions, InFlight, Published, TornOnlyInCutover, Live
  <2>3. TextNeverLost' /\ OvertakenIsArchived'
    BY DEF IInv, TextNeverLost, HasText, OvertakenIsArchived
  <2> QED BY <1>0, <2>1, <2>2, <2>3 DEF IInv
<1>8. CASE VersionAges
  BY <1>7, <1>8 DEF VersionAges
<1>9. CASE UNCHANGED vars
  BY <1>7, <1>9 DEF vars, local
<1> QED
  BY <1>0, <1>1, <1>3, <1>4, <1>5, <1>6, <1>8, <1>9,
     PushStep, BrowseStep, CopyStep, DeleteStep, MoveStep, PurgeStep, RetractMainStep,
     RetractHistoryStep
     DEF Next, Cutover

\* The inductive invariant holds in every reachable state.
THEOREM InductiveInvariant == Spec => []IInv
  BY InvInit, InvNext, PTL DEF Spec

\* Every reachable state of the cutover is well typed (versioning.rs, reads.rs).
THEOREM TypeCorrect == Spec => []TypeOK
  BY InductiveInvariant, PTL DEF IInv

\* A published text is in the main or the history index until retention or a
\* retraction removes it: archive_version copies before it deletes.
THEOREM TextIsNeverLost == Spec => []TextNeverLost
  BY InductiveInvariant, PTL DEF IInv

\* A live head without chunks is a cutover in progress, one that was cut off
\* there, or a retraction: no completed push_note_version leaves a torn note.
THEOREM TornOnlyDuringCutover == Spec => []TornOnlyInCutover
  BY InductiveInvariant, PTL DEF IInv

\* The version a fork displaced, and the one a tombstone is recoverable from,
\* is in the history index: MoveHead comes after archive_version.
THEOREM OvertakenVersionIsArchived == Spec => []OvertakenIsArchived
  BY InductiveInvariant, PTL DEF IInv

----------------------------------------------------------------------------
(* Retention.  A version is purged for the more recent ones it leaves; when *)
(* one of those is purged in turn, it leaves as many that are more recent   *)
(* still.  So what a purge decided stays justified while it deletes, and    *)
(* while another purge, decided on another listing, deletes too.           *)

Justified(S, v) == Cardinality({w \in S : w > v}) >= MinVersions

FloorInv ==
  retracted = {} =>
    /\ \A v \in purged \ histNotes : Justified(histNotes, v)
    /\ \A a \in Actors : \A v \in op[a].doomed : Justified(histNotes, v)

\* More archived versions justify no less.
LEMMA JustifiedByMore ==
  ASSUME NEW S \in SUBSET Version, NEW T \in SUBSET Version, S \subseteq T,
         NEW v \in Version, Justified(S, v)
  PROVE  Justified(T, v)
<1>1. IsFiniteSet(Version)
  BY FS_Interval, VersioningAssumption DEF Version
<1>2. /\ IsFiniteSet({w \in T : w > v}) /\ {w \in S : w > v} \subseteq {w \in T : w > v}
      /\ IsFiniteSet({w \in S : w > v})
  BY <1>1, FS_Subset
<1>3. /\ Cardinality({w \in S : w > v}) <= Cardinality({w \in T : w > v})
      /\ Cardinality({w \in S : w > v}) \in Nat /\ Cardinality({w \in T : w > v}) \in Nat
  BY <1>2, FS_Subset, FS_CardinalityType
<1> QED BY <1>3, VersioningAssumption DEF Justified

\* Removing a version that is justified takes the justification of no other.
LEMMA JustifiedWithout ==
  ASSUME NEW S \in SUBSET Version, NEW u \in Version, Justified(S, u),
         NEW v \in Version, Justified(S, v)
  PROVE  Justified(S \ {u}, v)
<1>1. CASE v >= u
  <2>1. {w \in S \ {u} : w > v} = {w \in S : w > v}
    BY <1>1 DEF Version
  <2> QED BY <2>1 DEF Justified
<1>2. CASE v < u
  <2>1. {w \in S : w > u} \subseteq {w \in S \ {u} : w > v}
    <3>1. \A w \in Version : w > u => w > v /\ w # u
      BY <1>2 DEF Version
    <3> QED BY <3>1
  <2>2. IsFiniteSet(Version)
    BY FS_Interval, VersioningAssumption DEF Version
  <2>3. IsFiniteSet({w \in S \ {u} : w > v}) /\ IsFiniteSet({w \in S : w > u})
    BY <2>2, FS_Subset
  <2>4. /\ Cardinality({w \in S : w > u}) <= Cardinality({w \in S \ {u} : w > v})
        /\ Cardinality({w \in S : w > u}) \in Nat /\ Cardinality({w \in S \ {u} : w > v}) \in Nat
    BY <2>1, <2>3, FS_Subset, FS_CardinalityType
  <2> QED BY <2>4, VersioningAssumption DEF Justified
<1> QED BY <1>1, <1>2 DEF Version

\* retention_keep_set drops nothing that is not justified by what it keeps.
LEMMA DroppedIsJustified ==
  ASSUME NEW S \in SUBSET Version, NEW v \in S \ KeepSet(S)
  PROVE  Justified(S, v)
<1>1. IsFiniteSet({w \in S : w > v})
  <2>1. IsFiniteSet(Version)
    BY FS_Interval, VersioningAssumption DEF Version
  <2> QED BY <2>1, FS_Subset
<1>2. Cardinality({w \in S : w > v}) \in Nat
  BY <1>1, FS_CardinalityType
<1> QED BY <1>2, VersioningAssumption DEF KeepSet, Justified

\* Steps that only archive, and doom no version.
LEMMA ArchivingKeepsFloor ==
  ASSUME IInv, IInv', FloorInv, histNotes \subseteq histNotes', UNCHANGED purged,
         retracted \subseteq retracted',
         \A a \in Actors : op'[a].doomed \subseteq op[a].doomed
  PROVE  FloorInv'
<1>1. histNotes \in SUBSET Version /\ histNotes' \in SUBSET Version /\ purged \subseteq Version
  BY DEF IInv, TypeOK
<1>2. \A a \in Actors : op[a].doomed \subseteq Version
  BY DEF IInv, TypeOK, Op
<1> SUFFICES ASSUME retracted' = {}
             PROVE  /\ \A v \in purged' \ histNotes' : Justified(histNotes', v)
                    /\ \A a \in Actors : \A v \in op'[a].doomed : Justified(histNotes', v)
  BY DEF FloorInv, Justified
<1>3. \A v \in purged' \ histNotes' : Justified(histNotes', v)
  BY <1>1, JustifiedByMore DEF FloorInv
<1>4. \A a \in Actors : \A v \in op'[a].doomed : Justified(histNotes', v)
  BY <1>1, <1>2, JustifiedByMore DEF FloorInv
<1> QED BY <1>3, <1>4

\* Every step keeps FloorInv.
LEMMA FloorNext == IInv /\ IInv' /\ FloorInv /\ [Next]_vars => FloorInv'
<1> SUFFICES ASSUME IInv, IInv', FloorInv, [Next]_vars PROVE FloorInv'
  OBVIOUS
<1>0. /\ op \in [Actors -> Op] /\ op' \in [Actors -> Op] /\ minted \in Nat
      /\ histNotes \in SUBSET Version /\ purged \in SUBSET Version
  BY DEF IInv, TypeOK
<1>1. ASSUME NEW a \in Actors, op'[a].doomed \subseteq op[a].doomed,
             \A b \in Actors \ {a} : op'[b] = op[b]
      PROVE  \A b \in Actors : op'[b].doomed \subseteq op[b].doomed
  BY <1>1
<1>2. ASSUME NEW a \in Actors, StartWrite(a) PROVE FloorInv'
  <2>1. PICK body \in Bodies, b \in {ObservedBase, Unobserved}, r \in BOOLEAN :
          op' = [op EXCEPT ![a] = [IdleOp EXCEPT !.at = "fetch", !.kind = "write",
                                     !.body = body, !.base = b, !.resolve = r]]
    BY <1>0, <1>2, VersioningAssumption DEF StartWrite, IInv, TypeOK
  <2>2. op'[a].doomed = {} /\ \A b_1 \in Actors \ {a} : op'[b_1] = op[b_1]
    BY <1>0, <2>1 DEF IdleOp
  <2>3. UNCHANGED <<histNotes, purged, retracted>>
    BY <1>2 DEF StartWrite, corpus, ghosts
  <2> QED BY <1>1, <2>2, <2>3, ArchivingKeepsFloor
<1>3. ASSUME NEW a \in Actors, StartDelete(a) PROVE FloorInv'
  <2>1. op'[a].doomed \subseteq op[a].doomed /\ \A b \in Actors \ {a} : op'[b] = op[b]
    BY <1>0, <1>3 DEF StartDelete, IdleOp
  <2>2. UNCHANGED <<histNotes, purged, retracted>>
    BY <1>3 DEF StartDelete, corpus, ghosts
  <2> QED BY <1>1, <2>1, <2>2, ArchivingKeepsFloor
<1>4. ASSUME NEW a \in Actors, Finish(a), UNCHANGED <<histNotes, purged>>,
             retracted \subseteq retracted'
      PROVE  FloorInv'
  <2>1. op'[a].doomed = {} /\ \A b \in Actors \ {a} : op'[b] = op[b]
    BY <1>0, <1>4 DEF Finish, IdleOp
  <2> QED BY <1>1, <1>4, <2>1, ArchivingKeepsFloor
<1>5. ASSUME NEW a \in Actors, NEW note, NEW s, Mint(a, note, s) PROVE FloorInv'
  <2>1. op'[a].doomed = op[a].doomed /\ \A b \in Actors \ {a} : op'[b] = op[b]
    BY <1>0, <1>5 DEF Mint, Op
  <2> QED BY <1>1, <1>5, <2>1, ArchivingKeepsFloor DEF Mint, corpus, ghosts
<1>6. ASSUME NEW a \in Actors, FetchForWrite(a) \/ FetchForDelete(a) PROVE FloorInv'
  BY <1>4, <1>5, <1>6 DEF FetchForWrite, FetchForDelete, corpus, ghosts
<1>7. ASSUME NEW a \in Actors,
             \/ PushChunks(a) \/ BrowsePrevious(a) \/ CopyToHistory(a) \/ DeletePrevious(a)
             \/ MoveHead(a)
      PROVE  FloorInv'
  <2> DEFINE Kept == /\ op'[a].doomed = op[a].doomed /\ \A b \in Actors \ {a} : op'[b] = op[b]
                     /\ histNotes \subseteq histNotes' /\ UNCHANGED <<purged, retracted>>
  <2>1. Kept
    <3> USE <1>0 DEF Op, corpus, ghosts
    <3>1. CASE PushChunks(a)
      BY <3>1 DEF PushChunks
    <3>2. CASE BrowsePrevious(a)
      BY <3>2 DEF BrowsePrevious
    <3>3. CASE CopyToHistory(a)
      BY <3>3 DEF CopyToHistory
    <3>4. CASE DeletePrevious(a)
      BY <3>4 DEF DeletePrevious
    <3>5. CASE MoveHead(a)
      BY <3>5 DEF MoveHead
    <3> QED BY <1>7, <3>1, <3>2, <3>3, <3>4, <3>5
  <2> QED BY <1>1, <2>1, ArchivingKeepsFloor
<1>8. ASSUME NEW a \in Actors, ListForPurge(a) PROVE FloorInv'
  <2> DEFINE doomed == histNotes \ KeepSet(histNotes)
  <2>1. UNCHANGED <<histNotes, purged, retracted>>
    BY <1>8 DEF ListForPurge, corpus, ghosts
  <2>2. CASE doomed = {}
    BY <1>4, <1>8, <2>1, <2>2 DEF ListForPurge
  <2>3. CASE doomed # {}
    <3>1. op' = [op EXCEPT ![a].at = "purge", ![a].doomed = doomed]
      BY <1>8, <2>3 DEF ListForPurge
    <3>2. op'[a].doomed = doomed /\ \A b \in Actors \ {a} : op'[b] = op[b]
      BY <1>0, <3>1 DEF Op
    <3>3. \A v \in doomed : Justified(histNotes, v)
      BY <1>0, DroppedIsJustified
    <3> QED BY <2>1, <3>2, <3>3 DEF FloorInv, Justified
  <2> QED BY <2>2, <2>3
<1>9. ASSUME NEW a \in Actors, PurgeOne(a) PROVE FloorInv'
  <2>1. PICK u \in op[a].doomed :
          /\ histNotes' = histNotes \ {u}
          /\ purged' = purged \cup {u}
          /\ IF op[a].doomed = {u} THEN Finish(a)
             ELSE op' = [op EXCEPT ![a].doomed = @ \ {u}]
    BY <1>9 DEF PurgeOne
  <2>2. UNCHANGED retracted
    BY <1>9 DEF PurgeOne
  <2>3. \A b \in Actors : op'[b].doomed \subseteq op[b].doomed
    BY <1>0, <2>1 DEF Finish, IdleOp, Op
  <2>4. /\ u \in Version /\ \A b \in Actors : op[b].doomed \subseteq Version
    BY <1>0 DEF Op
  <2> SUFFICES ASSUME retracted = {}
               PROVE  /\ \A v \in purged' \ histNotes' : Justified(histNotes', v)
                      /\ \A b \in Actors : \A v \in op'[b].doomed : Justified(histNotes', v)
    BY <2>2 DEF FloorInv, Justified
  <2>5. Justified(histNotes, u)
    BY DEF FloorInv
  <2>6. \A v \in Version : Justified(histNotes, v) => Justified(histNotes', v)
    BY <1>0, <2>1, <2>4, <2>5, JustifiedWithout
  <2>7. \A v \in purged' \ histNotes' : Justified(histNotes, v)
    BY <2>1, <2>5 DEF FloorInv
  <2> QED BY <1>0, <2>1, <2>3, <2>4, <2>6, <2>7 DEF FloorInv
<1>10. ASSUME NEW a \in Actors, RetractMain(a) PROVE FloorInv'
  <2>1. op'[a].doomed = {} /\ \A b \in Actors \ {a} : op'[b] = op[b]
    BY <1>0, <1>10 DEF RetractMain, IdleOp
  <2> QED BY <1>1, <1>10, <2>1, ArchivingKeepsFloor DEF RetractMain
<1>11. ASSUME NEW a \in Actors, RetractHistory(a) PROVE FloorInv'
  <2>1. op'[a].doomed = {} /\ \A b \in Actors \ {a} : op'[b] = op[b]
    BY <1>0, <1>11 DEF RetractHistory, Finish, IdleOp
  <2>2. CASE retracted' = {}
    <3>1. histNotes = {} /\ histNotes' = {} /\ UNCHANGED purged /\ retracted = {}
      BY <1>11, <2>2 DEF RetractHistory
    <3> QED BY <1>1, <2>1, <2>2, <3>1, ArchivingKeepsFloor
  <2>3. CASE retracted' # {}
    BY <2>3 DEF FloorInv
  <2> QED BY <2>2, <2>3
<1>12. ASSUME NEW a \in Actors, Abort(a) PROVE FloorInv'
  BY <1>4, <1>12 DEF Abort, corpus, ghosts
<1>13. CASE UNCHANGED <<corpus, op, ghosts>>
  BY <1>13 DEF FloorInv, Justified, corpus, ghosts
<1>14. CASE VersionAges \/ UNCHANGED vars
  BY <1>13, <1>14 DEF VersionAges, vars
<1> QED
  BY <1>2, <1>3, <1>6, <1>7, <1>8, <1>9, <1>10, <1>11, <1>12, <1>14
     DEF Next, Cutover

\* However purges of several processes overlap, each having listed the history on
\* its own, a purged version has left the MinVersions more recent ones that
\* justified it, as long as nothing is retracted (purge_history).
THEOREM PurgesLeaveTheFloor == Spec => []RetentionFloor
<1>1. Init => FloorInv
  BY DEF Init, FloorInv, IdleOp
<1>2. FloorInv => RetentionFloor
  BY DEF FloorInv, RetentionFloor, Justified
<1> QED BY <1>1, <1>2, FloorNext, InductiveInvariant, PTL DEF Spec

----------------------------------------------------------------------------
(* The note cache.  What a process has recorded agrees with the body file,  *)
(* or is of a version that the head has left and no read asks for any more; *)
(* and so does what state.json has recorded, for the process that will load *)
(* it.  A put beside nobody who relies on the file re-establishes both.     *)

Inside(x) == task[x].at \in {"fill", "record"}

\* A process runs one put at a time.
OnePut ==
  \A x, z \in Tasks : (Inside(x) /\ Inside(z) /\ Host[x] = Host[z]) => x = z

\* A put that disturbs nobody: no other process relies on the file.
PutsAlone ==
  "shared" \notin slips => \A x \in Tasks : Inside(x) => ~OthersRely(Host[x])

\* What such a put has done to the file.
PutsWhole ==
  "shared" \notin slips =>
    \A x \in Tasks :
      /\ task[x].at = "fill" => file \in {Broken, NoFile}
      /\ (task[x].at = "record" /\ task[x].whole) => file \in {task[x].ver, NoFile}

\* A put whose body was not written has slipped.
FailuresSlip ==
  \A x \in Tasks :
    /\ task[x].whole => task[x].at = "record"
    /\ (task[x].at = "record" /\ ~task[x].whole) => "unwritten" \in slips \/ "shared" \in slips

\* Nothing is recorded that was not published.
KnownPublished ==
  /\ saved <= published
  /\ \A pr \in Processes : known[pr] <= published
  /\ \A x \in Tasks : task[x].ver <= published

\* No read of process pr asks for the version it has recorded.
Unasked(pr) ==
  /\ known[pr] < published
  /\ \A x \in Tasks : (Host[x] = pr /\ task[x].at = "get") => task[x].ver # known[pr]

MemoryAgrees ==
  slips = {} =>
    \A pr \in Processes : (~Putting(pr) /\ known[pr] # NoEntry) =>
      file \in {known[pr], NoFile} \/ Unasked(pr)

StateAgrees ==
  (slips = {} /\ \A pr \in Processes : ~Putting(pr)) =>
    saved = NoEntry \/ saved < published \/ file \in {saved, NoFile}

CacheInv ==
  /\ CacheTypeOK
  /\ OnePut /\ PutsAlone /\ PutsWhole /\ FailuresSlip
  /\ KnownPublished /\ MemoryAgrees /\ StateAgrees

\* Every step of the cache is well typed.
LEMMA CacheTyped == CacheTypeOK /\ [CacheNext]_cacheVars => CacheTypeOK'
<1> SUFFICES ASSUME CacheTypeOK, [CacheNext]_cacheVars PROVE CacheTypeOK'
  OBVIOUS
<1> USE CacheAssumption DEF CacheTypeOK
<1>1. FreeTask \in Request
  BY DEF FreeTask, Request, Entry, Content, NoEntry, NoFile
<1>2. ASSUME NEW x \in Tasks, NEW v \in Entry,
             NEW stage \in {"get", "open", "remove"}, Become(x, stage, v)
      PROVE  task' \in [Tasks -> Request]
  <2>1. [FreeTask EXCEPT !.at = stage, !.ver = v] \in Request
    BY DEF FreeTask, Request, Content, NoFile
  <2> QED BY <1>2, <2>1 DEF Become
<1>3. ASSUME NEW alive \in BOOLEAN, Publishes(alive)
      PROVE  published' \in Entry /\ published' = published + 1 /\ live' \in BOOLEAN
  BY <1>3 DEF Publishes, Entry, Text, NoEntry
<1>4. \A v \in Entry : Persisted(v) \subseteq Entry
  BY DEF Persisted, Entry, NoEntry
<1>5. Unlinked \subseteq Content
  BY DEF Unlinked, Content
<1>6. ASSUME NEW x \in Tasks, WriteNote(x) \/ DeleteNote(x) PROVE CacheTypeOK'
  <2>1. published' \in Entry /\ published' = published + 1 /\ live' \in BOOLEAN
    BY <1>3, <1>6 DEF WriteNote, DeleteNote
  <2>2. task' \in [Tasks -> Request]
    BY <1>2, <1>6, <2>1 DEF WriteNote, DeleteNote
  <2> QED BY <1>6, <2>1, <2>2 DEF WriteNote, DeleteNote, directory
<1>7. ASSUME NEW x \in Tasks, StartRead(x) PROVE CacheTypeOK'
  BY <1>2, <1>7 DEF StartRead, corpusHead, directory
<1>8. ASSUME NEW x \in Tasks, GetHit(x) PROVE CacheTypeOK'
  <2>1. [task[x] EXCEPT !.at = "served", !.result = file] \in Request
    BY DEF Request
  <2>2. task' \in [Tasks -> Request]
    BY <1>8, <2>1 DEF GetHit
  <2>3. saved' \in Entry
    BY <1>4, <1>8 DEF GetHit
  <2> QED BY <1>8, <2>2, <2>3 DEF GetHit, corpusHead
<1>9. ASSUME NEW x \in Tasks, GetMiss(x) \/ Hydrate(x) PROVE CacheTypeOK'
  <2>1. \A stage \in {"hydrate", "open"} : [task[x] EXCEPT !.at = stage] \in Request
    BY DEF Request
  <2>2. task' \in [Tasks -> Request]
    BY <1>1, <1>9, <2>1 DEF GetMiss, Hydrate
  <2> QED BY <1>9, <2>2 DEF GetMiss, Hydrate, corpusHead, directory
<1>10. ASSUME NEW x \in Tasks, PutOpens(x) PROVE CacheTypeOK'
  <2>1. \A stage \in {"fill", "record"} : [task[x] EXCEPT !.at = stage] \in Request
    BY DEF Request
  <2>2. task' \in [Tasks -> Request]
    BY <1>10, <2>1 DEF PutOpens
  <2>3. file' \in Content /\ slips' \in SUBSET Slips
    BY <1>10 DEF PutOpens, Slips, Content
  <2> QED BY <1>10, <2>2, <2>3 DEF PutOpens, corpusHead
<1>11. ASSUME NEW x \in Tasks, PutFills(x) PROVE CacheTypeOK'
  <2>1. /\ [task[x] EXCEPT !.at = "record"] \in Request
        /\ [task[x] EXCEPT !.at = "record", !.whole = TRUE] \in Request
    BY DEF Request
  <2>2. task' \in [Tasks -> Request]
    BY <1>11, <2>1 DEF PutFills
  <2>3. task[x].ver \in Entry
    BY DEF Request
  <2>4. Filled(task[x].ver) \subseteq Content
    BY <2>3 DEF Filled, Content, Entry, NoEntry, NoFile
  <2>5. file' \in Content /\ slips' \in SUBSET Slips
    BY <1>11, <2>4 DEF PutFills, Slips
  <2> QED BY <1>11, <2>2, <2>5 DEF PutFills, corpusHead
<1>12. ASSUME NEW x \in Tasks, PutRecords(x) PROVE CacheTypeOK'
  <2>1. PICK kept \in BOOLEAN :
          LET v == IF kept THEN task[x].ver ELSE NoEntry
          IN  /\ known' = [known EXCEPT ![Host[x]] = v]
              /\ IF kept THEN UNCHANGED file ELSE file' \in Unlinked
              /\ saved' \in Persisted(v)
    BY <1>12 DEF PutRecords
  <2>2. (IF kept THEN task[x].ver ELSE NoEntry) \in Entry
    BY DEF Request, Entry
  <2>3. known' \in [Processes -> Entry] /\ saved' \in Entry /\ file' \in Content
    BY <1>4, <1>5, <2>1, <2>2
  <2>4. slips' \in SUBSET Slips
    BY <1>12 DEF PutRecords, Slips
  <2> QED BY <1>1, <1>12, <2>3, <2>4 DEF PutRecords, corpusHead
<1>13. ASSUME NEW pr \in Processes, Forgets(pr)
       PROVE  known' \in [Processes -> Entry] /\ file' \in Content /\ saved' \in Entry
  BY <1>4, <1>5, <1>13 DEF Forgets, Entry
<1>14. ASSUME NEW x \in Tasks, Remove(x) PROVE CacheTypeOK'
  BY <1>1, <1>13, <1>14 DEF Remove, corpusHead
<1>15. ASSUME NEW pr \in Processes, Evict(pr) PROVE CacheTypeOK'
  BY <1>13, <1>15 DEF Evict, corpusHead
<1>16. ASSUME NEW pr \in Processes, Restart(pr) PROVE CacheTypeOK'
  <2>1. known' \in [Processes -> Entry] /\ slips' \in SUBSET Slips
    BY <1>16 DEF Restart, Slips, Entry
  <2> QED BY <1>1, <1>16, <2>1 DEF Restart, corpusHead, directory
<1>17. CASE PublishedElsewhere
  BY <1>3, <1>17 DEF PublishedElsewhere, directory
<1>18. CASE UNCHANGED cacheVars
  BY <1>18 DEF cacheVars, corpusHead, directory
<1> QED
  BY <1>6, <1>7, <1>8, <1>9, <1>10, <1>11, <1>12, <1>14, <1>15, <1>16, <1>17, <1>18
     DEF CacheNext

\* Steps that leave the files and the memories alone, and in which a task that
\* starts a read asks for the head.
LEMMA CacheQuiet ==
  ASSUME CacheInv, CacheTypeOK', UNCHANGED <<file, saved, known, slips>>,
         published <= published',
         \A x \in Tasks :
           \/ task'[x] = task[x]
           \/ /\ ~Inside(x) /\ ~Inside(x)' /\ ~task'[x].whole
              /\ task'[x].ver <= published'
              /\ task'[x].at = "get" => task'[x].ver = published'
  PROVE  CacheInv'
<1>0. /\ published \in Int /\ published' \in Int /\ saved \in Int /\ known \in [Processes -> Int]
      /\ \A x \in Tasks : task[x].ver \in Int /\ task'[x].ver \in Int
  BY DEF CacheInv, CacheTypeOK, Request, Entry, Text, NoEntry
<1>1. \A x \in Tasks : Inside(x)' <=> Inside(x)
  BY DEF Inside
<1>2. \A pr \in Processes : Putting(pr)' <=> Putting(pr)
  BY <1>1 DEF Putting, Inside
<1>3. \A pr \in Processes : OthersRely(pr)' <=> OthersRely(pr)
  BY <1>2 DEF OthersRely
<1>4. OnePut' /\ PutsAlone'
  BY <1>1, <1>3, CacheAssumption DEF CacheInv, OnePut, PutsAlone
<1>5. PutsWhole' /\ FailuresSlip'
  BY <1>1 DEF CacheInv, PutsWhole, FailuresSlip, Inside
<1>6. KnownPublished'
  BY <1>0 DEF CacheInv, KnownPublished
<1>7. \A pr \in Processes : Unasked(pr) => Unasked(pr)'
  BY <1>0 DEF Unasked
<1>8. MemoryAgrees'
  BY <1>2, <1>7 DEF CacheInv, MemoryAgrees
<1>9. StateAgrees'
  BY <1>0, <1>2 DEF CacheInv, StateAgrees
<1> QED BY <1>4, <1>5, <1>6, <1>8, <1>9 DEF CacheInv

\* Starting a read, a write or a delete, a head moved elsewhere, a miss and a
\* hydration are such steps.
LEMMA QuietCacheSteps ==
  ASSUME CacheInv, CacheTypeOK',
         \/ \E x \in Tasks : WriteNote(x) \/ DeleteNote(x) \/ StartRead(x) \/ GetMiss(x) \/ Hydrate(x)
         \/ PublishedElsewhere
  PROVE  CacheInv'
<1>0. /\ task \in [Tasks -> Request] /\ published \in Int /\ KnownPublished
      /\ \A x \in Tasks : task[x].whole => task[x].at = "record"
  BY DEF CacheInv, CacheTypeOK, Entry, Text, NoEntry, FailuresSlip
<1> DEFINE Starts(x) == /\ ~Inside(x) /\ ~Inside(x)' /\ ~task'[x].whole
                        /\ task'[x].ver <= published'
                        /\ task'[x].at = "get" => task'[x].ver = published'
<1>1. ASSUME NEW x \in Tasks, WriteNote(x) \/ DeleteNote(x) \/ StartRead(x) PROVE CacheInv'
  <2>1. /\ UNCHANGED <<file, saved, known, slips>> /\ published' \in Int /\ published <= published'
        /\ Free(x)
        /\ \E stage \in {"open", "remove", "get"} : Become(x, stage, published')
    BY <1>0, <1>1 DEF WriteNote, DeleteNote, StartRead, Publishes, directory, corpusHead
  <2>2. PICK stage \in {"open", "remove", "get"} : Become(x, stage, published')
    BY <2>1
  <2>3. task'[x] = [FreeTask EXCEPT !.at = stage, !.ver = published']
        /\ \A z \in Tasks \ {x} : task'[z] = task[z]
    BY <1>0, <2>2 DEF Become
  <2>4. task'[x].at = stage /\ task'[x].ver = published' /\ task'[x].whole = FALSE
    BY <2>3 DEF FreeTask
  <2>5. Starts(x)
    BY <2>1, <2>4 DEF Inside, Free
  <2>6. \A z \in Tasks : task'[z] = task[z] \/ Starts(z)
    BY <2>3, <2>5
  <2> QED BY <2>1, <2>6, CacheQuiet
<1>2. ASSUME NEW x \in Tasks, GetMiss(x) \/ Hydrate(x) PROVE CacheInv'
  <2>1. /\ UNCHANGED <<file, saved, known, slips, published>>
        /\ task[x].at \in {"get", "hydrate"}
        /\ \A z \in Tasks \ {x} : task'[z] = task[z]
    BY <1>0, <1>2 DEF GetMiss, Hydrate, directory, corpusHead
  <2>2. /\ task'[x].at \in {"hydrate", "open", "free"}
        /\ task'[x].ver \in {0, task[x].ver}
        /\ task'[x].whole \in {FALSE, task[x].whole}
    <3>1. CASE GetMiss(x)
      BY <1>0, <3>1 DEF GetMiss, Request
    <3>2. CASE Hydrate(x)
      <4>1. \/ task' = [task EXCEPT ![x].at = "open"] \/ task' = [task EXCEPT ![x] = FreeTask]
        BY <3>2 DEF Hydrate
      <4>2. FreeTask.at = "free" /\ FreeTask.ver = 0 /\ FreeTask.whole = FALSE
        BY DEF FreeTask, NoEntry
      <4> QED BY <1>0, <4>1, <4>2 DEF Request
    <3> QED BY <1>2, <3>1, <3>2
  <2>3. task[x].ver <= published /\ 0 <= published
    BY <1>0 DEF KnownPublished, CacheInv, CacheTypeOK, Entry, Text, NoEntry
  <2>4. Starts(x)
    BY <1>0, <2>1, <2>2, <2>3 DEF Inside
  <2>5. \A z \in Tasks : task'[z] = task[z] \/ Starts(z)
    BY <2>1, <2>4
  <2>6. published <= published'
    BY <1>0, <2>1
  <2> QED BY <2>1, <2>5, <2>6, CacheQuiet
<1>3. CASE PublishedElsewhere
  <2>1. /\ UNCHANGED <<file, saved, known, slips, task>> /\ published <= published'
    BY <1>0, <1>3 DEF PublishedElsewhere, Publishes, directory
  <2> QED BY <2>1, CacheQuiet
<1> QED BY <1>1, <1>2, <1>3

\* A hit leaves state.json saying what the process, which did not slip, has.
LEMMA GetHitStep ==
  ASSUME CacheInv, CacheTypeOK', NEW x \in Tasks, GetHit(x) PROVE CacheInv'
<1>0. /\ task \in [Tasks -> Request] /\ Host[x] \in Processes /\ published \in Int
      /\ saved \in Int /\ saved' \in Int /\ known \in [Processes -> Int]
      /\ \A z \in Tasks : task[z].whole => task[z].at = "record"
  BY CacheAssumption DEF CacheInv, CacheTypeOK, Entry, Text, NoEntry, FailuresSlip
<1>1. /\ UNCHANGED <<published, file, known, slips>> /\ file # NoFile
      /\ task[x].at = "get" /\ known[Host[x]] = task[x].ver /\ ~Putting(Host[x])
      /\ saved' \in {known[Host[x]], saved, NoEntry}
  BY DEF GetHit, Persisted, corpusHead
<1>2. /\ task'[x].at = "served" /\ task'[x].ver = task[x].ver /\ task'[x].whole = task[x].whole
      /\ \A z \in Tasks \ {x} : task'[z] = task[z]
  BY <1>0 DEF GetHit, Request
<1>3. \A z \in Tasks : Inside(z)' <=> Inside(z)
  BY <1>1, <1>2 DEF Inside
<1>4. \A pr \in Processes : Putting(pr)' <=> Putting(pr)
  BY <1>3 DEF Putting, Inside
<1>5. \A pr \in Processes : OthersRely(pr)' <=> OthersRely(pr)
  BY <1>1, <1>4 DEF OthersRely
<1>6. OnePut' /\ PutsAlone'
  BY <1>1, <1>3, <1>5, CacheAssumption DEF CacheInv, OnePut, PutsAlone
<1>7. PutsWhole' /\ FailuresSlip'
  <2>1. \A z \in Tasks : task'[z].at \in {"fill", "record"} => task'[z] = task[z]
    BY <1>2
  <2>2. \A z \in Tasks : task'[z].whole => task'[z] = task[z]
    BY <1>0, <1>1, <1>2
  <2> QED BY <1>1, <2>1, <2>2 DEF CacheInv, PutsWhole, FailuresSlip
<1>8. KnownPublished'
  <2>1. known[Host[x]] <= published /\ saved <= published /\ 0 <= published
    BY <1>0 DEF CacheInv, KnownPublished, CacheTypeOK, Entry, Text, NoEntry
  <2>2. \A z \in Tasks : task'[z].ver = task[z].ver
    BY <1>2
  <2> QED BY <1>1, <2>1, <2>2 DEF CacheInv, KnownPublished, NoEntry
<1>9. MemoryAgrees'
  <2>1. \A pr \in Processes : Unasked(pr) => Unasked(pr)'
    BY <1>1, <1>2 DEF Unasked
  <2> QED BY <1>1, <1>4, <2>1 DEF CacheInv, MemoryAgrees
<1>10. StateAgrees'
  <2> SUFFICES ASSUME slips = {}, \A pr \in Processes : ~Putting(pr)
               PROVE  saved' = NoEntry \/ saved' < published \/ file \in {saved', NoFile}
    BY <1>1, <1>4 DEF StateAgrees
  <2>1. saved = NoEntry \/ saved < published \/ file \in {saved, NoFile}
    BY DEF CacheInv, StateAgrees
  <2>2. ~Unasked(Host[x])
    BY <1>1 DEF Unasked
  <2>3. known[Host[x]] = NoEntry \/ file \in {known[Host[x]], NoFile}
    BY <1>0, <1>1, <2>2 DEF CacheInv, MemoryAgrees
  <2> QED BY <1>1, <2>1, <2>3
<1> QED BY <1>6, <1>7, <1>8, <1>9, <1>10 DEF CacheInv

\* Opening the body file, beside nobody who relies on it, or shared.
LEMMA PutOpensStep ==
  ASSUME CacheInv, CacheTypeOK', NEW x \in Tasks, PutOpens(x) PROVE CacheInv'
<1>0. /\ task \in [Tasks -> Request] /\ Host[x] \in Processes
      /\ \A z \in Tasks : task[z].whole => task[z].at = "record"
      /\ \A z \in Tasks : Host[z] \in Processes
  BY CacheAssumption DEF CacheInv, CacheTypeOK, FailuresSlip
<1>1. /\ UNCHANGED <<published, saved, known>> /\ task[x].at = "open" /\ ~Putting(Host[x])
      /\ slips \subseteq slips'
      /\ OthersRely(Host[x]) => "shared" \in slips'
      /\ \/ file' = Broken /\ task' = [task EXCEPT ![x].at = "fill"]
         \/ /\ UNCHANGED file /\ task' = [task EXCEPT ![x].at = "record"]
            /\ "unwritten" \in slips'
  BY DEF PutOpens, corpusHead
<1>2. /\ task'[x].at \in {"fill", "record"} /\ task'[x].ver = task[x].ver
      /\ task'[x].whole = FALSE
      /\ \A z \in Tasks \ {x} : task'[z] = task[z]
  BY <1>0, <1>1 DEF Request
<1>3. \A z \in Tasks : Inside(z)' <=> (Inside(z) \/ z = x)
  BY <1>2 DEF Inside
<1>4. \A pr \in Processes : Putting(pr)' <=> (Putting(pr) \/ pr = Host[x])
  BY <1>0, <1>3 DEF Putting, Inside
<1>5. OnePut'
  <2>1. \A z \in Tasks : Inside(z) => Host[z] # Host[x]
    BY <1>1 DEF Putting, Inside
  <2> QED BY <1>3, <2>1, CacheAssumption DEF CacheInv, OnePut
<1>6. ASSUME "shared" \notin slips'
      PROVE  /\ \A z \in Tasks : ~Inside(z)
             /\ \A pr \in Processes \ {Host[x]} : known[pr] = NoEntry /\ ~Putting(pr)
  <2>1. \A pr \in Processes \ {Host[x]} : known[pr] = NoEntry /\ ~Putting(pr)
    BY <1>1, <1>6 DEF OthersRely
  <2>2. \A pr \in Processes : ~Putting(pr)
    BY <1>1, <2>1
  <2>3. \A z \in Tasks : ~Inside(z)
    BY <1>0, <2>2 DEF Putting, Inside
  <2> QED BY <2>1, <2>3
<1>7. PutsAlone'
  <2>1. ASSUME "shared" \notin slips' PROVE ~OthersRely(Host[x])'
    BY <1>1, <1>4, <1>6, <2>1 DEF OthersRely
  <2>2. ASSUME "shared" \notin slips', NEW z \in Tasks, Inside(z)' PROVE z = x
    BY <1>3, <1>6, <2>2
  <2> QED BY <1>1, <2>1, <2>2, CacheAssumption DEF PutsAlone
<1>8. PutsWhole'
  <2>1. ASSUME "shared" \notin slips', NEW z \in Tasks, z # x
        PROVE  task'[z].at \notin {"fill", "record"}
    BY <1>2, <1>6, <2>1 DEF Inside
  <2>2. task'[x].at = "fill" => file' \in {Broken, NoFile}
    BY <1>0, <1>1 DEF Request
  <2> QED BY <1>2, <2>1, <2>2 DEF PutsWhole
<1>9. FailuresSlip'
  <2>1. task'[x].at = "record" => "unwritten" \in slips'
    BY <1>0, <1>1 DEF Request
  <2> QED BY <1>1, <1>2, <2>1 DEF CacheInv, FailuresSlip
<1>10. KnownPublished'
  <2>1. \A z \in Tasks : task'[z].ver = task[z].ver
    BY <1>2
  <2> QED BY <1>1, <2>1 DEF CacheInv, KnownPublished
<1>11. MemoryAgrees'
  BY <1>1, <1>4, <1>6 DEF MemoryAgrees
<1>12. StateAgrees'
  BY <1>0, <1>4 DEF StateAgrees
<1> QED BY <1>5, <1>7, <1>8, <1>9, <1>10, <1>11, <1>12 DEF CacheInv

\* Filling the body file, which nobody else relies on or has touched.
LEMMA PutFillsStep ==
  ASSUME CacheInv, CacheTypeOK', NEW x \in Tasks, PutFills(x) PROVE CacheInv'
<1>0. /\ task \in [Tasks -> Request]
      /\ \A z \in Tasks : Host[z] \in Processes
      /\ \A z \in Tasks : task[z].whole => task[z].at = "record"
  BY CacheAssumption DEF CacheInv, CacheTypeOK, FailuresSlip
<1>1. /\ UNCHANGED <<published, saved, known>> /\ task[x].at = "fill" /\ Inside(x)
      /\ slips \subseteq slips' /\ slips' \subseteq slips \cup {"unwritten"}
      /\ \/ file' \in Filled(task[x].ver) /\ task'[x].whole = TRUE
         \/ UNCHANGED file /\ task'[x].whole = FALSE /\ "unwritten" \in slips'
  BY <1>0 DEF PutFills, corpusHead, Inside, Request
<1>2. /\ task'[x].at = "record" /\ task'[x].ver = task[x].ver
      /\ \A z \in Tasks \ {x} : task'[z] = task[z]
  BY <1>0 DEF PutFills, Request
<1>3. \A z \in Tasks : Inside(z)' <=> Inside(z)
  BY <1>1, <1>2 DEF Inside
<1>4. \A pr \in Processes : Putting(pr)' <=> Putting(pr)
  BY <1>3 DEF Putting, Inside
<1>5. \A pr \in Processes : OthersRely(pr)' <=> OthersRely(pr)
  BY <1>1, <1>4 DEF OthersRely
<1>6. OnePut' /\ PutsAlone'
  BY <1>1, <1>3, <1>5, CacheAssumption DEF CacheInv, OnePut, PutsAlone
<1>7. Putting(Host[x])
  BY <1>1 DEF Putting, Inside
<1>8. ASSUME "shared" \notin slips'
      PROVE  /\ \A z \in Tasks : Inside(z) => z = x
             /\ \A pr \in Processes \ {Host[x]} : known[pr] = NoEntry
  <2>1. ~OthersRely(Host[x])
    BY <1>1, <1>8 DEF CacheInv, PutsAlone
  <2>2. \A pr \in Processes \ {Host[x]} : known[pr] = NoEntry /\ ~Putting(pr)
    BY <2>1 DEF OthersRely
  <2>3. \A z \in Tasks : Inside(z) => Host[z] = Host[x]
    BY <1>0, <2>2 DEF Putting, Inside
  <2> QED BY <1>1, <2>2, <2>3 DEF CacheInv, OnePut
<1>9. PutsWhole'
  <2>1. ASSUME "shared" \notin slips', NEW z \in Tasks, z # x
        PROVE  task'[z].at \notin {"fill", "record"}
    BY <1>2, <1>8, <2>1 DEF Inside
  <2>2. ASSUME "shared" \notin slips', task'[x].whole PROVE file' \in {task[x].ver, NoFile}
    <3>1. file \in {Broken, NoFile}
      BY <1>1, <2>2 DEF CacheInv, PutsWhole
    <3> QED BY <1>1, <2>2, <3>1 DEF Filled, Broken, NoFile
  <2> QED BY <1>2, <2>1, <2>2 DEF PutsWhole
<1>10. FailuresSlip'
  BY <1>1, <1>2 DEF CacheInv, FailuresSlip
<1>11. KnownPublished'
  <2>1. \A z \in Tasks : task'[z].ver = task[z].ver
    BY <1>2
  <2> QED BY <1>1, <2>1 DEF CacheInv, KnownPublished
<1>12. MemoryAgrees'
  BY <1>1, <1>4, <1>7, <1>8 DEF MemoryAgrees
<1>13. StateAgrees'
  BY <1>0, <1>4, <1>7 DEF StateAgrees
<1> QED BY <1>6, <1>9, <1>10, <1>11, <1>12, <1>13 DEF CacheInv

\* The end of a put: whole and saved it repairs what had slipped before.
LEMMA PutRecordsStep ==
  ASSUME CacheInv, CacheTypeOK', NEW x \in Tasks, PutRecords(x) PROVE CacheInv'
<1>0. /\ task \in [Tasks -> Request] /\ known \in [Processes -> Int] /\ published \in Int
      /\ saved \in Int /\ saved' \in Int /\ task[x].ver \in Int
      /\ \A z \in Tasks : Host[z] \in Processes
      /\ saved <= published /\ task[x].ver <= published /\ 0 <= published
  BY CacheAssumption DEF CacheInv, CacheTypeOK, Request, Entry, Text, NoEntry, KnownPublished
<1>1. PICK kept \in BOOLEAN :
        LET v == IF kept THEN task[x].ver ELSE NoEntry
        IN  /\ known' = [known EXCEPT ![Host[x]] = v]
            /\ IF kept THEN UNCHANGED file ELSE file' \in Unlinked
            /\ saved' \in Persisted(v)
            /\ slips' = IF kept /\ task[x].whole /\ saved' = v THEN slips \cap {"shared"}
                        ELSE IF saved' = published /\ saved' # task[x].ver
                             THEN slips \cup {"unsaved"} ELSE slips
  BY DEF PutRecords
<1> DEFINE v == IF kept THEN task[x].ver ELSE NoEntry
<1>2. /\ UNCHANGED published /\ task[x].at = "record" /\ Inside(x)
      /\ known'[Host[x]] = v /\ \A pr \in Processes \ {Host[x]} : known'[pr] = known[pr]
      /\ file' \in {file, NoFile}
      /\ kept => file' = file
      /\ saved' \in {v, saved, NoEntry}
      /\ v \in {task[x].ver, NoEntry}
  BY <1>0, <1>1 DEF PutRecords, corpusHead, Inside, Unlinked, Persisted
<1>3. /\ task'[x] = FreeTask /\ \A z \in Tasks \ {x} : task'[z] = task[z]
  BY <1>0 DEF PutRecords
<1>4. task'[x].at = "free" /\ ~task'[x].whole /\ task'[x].ver = 0
  BY <1>3 DEF FreeTask, NoEntry
<1>5. \A z \in Tasks : Inside(z)' <=> (Inside(z) /\ z # x)
  BY <1>3, <1>4 DEF Inside
<1>6. \A pr \in Processes : Putting(pr)' => Putting(pr)
  BY <1>5 DEF Putting, Inside
<1>7. "shared" \in slips' <=> "shared" \in slips
  BY <1>1
<1>8. ASSUME "shared" \notin slips
      PROVE  /\ \A z \in Tasks : ~Inside(z)'
             /\ \A pr \in Processes \ {Host[x]} : known[pr] = NoEntry
             /\ task[x].whole => file \in {task[x].ver, NoFile}
             /\ ~task[x].whole => "unwritten" \in slips
  <2>1. ~OthersRely(Host[x])
    BY <1>2, <1>8 DEF CacheInv, PutsAlone
  <2>2. \A pr \in Processes \ {Host[x]} : known[pr] = NoEntry /\ ~Putting(pr)
    BY <2>1 DEF OthersRely
  <2>3. \A z \in Tasks : Inside(z) => Host[z] = Host[x]
    BY <1>0, <2>2 DEF Putting, Inside
  <2>4. \A z \in Tasks : Inside(z) => z = x
    BY <1>2, <2>3 DEF CacheInv, OnePut
  <2>5. /\ task[x].whole => file \in {task[x].ver, NoFile}
        /\ ~task[x].whole => "unwritten" \in slips
    BY <1>2, <1>8 DEF CacheInv, PutsWhole, FailuresSlip
  <2> QED BY <1>5, <2>2, <2>4, <2>5
<1>9. OnePut'
  BY <1>5 DEF CacheInv, OnePut
<1>10. PutsAlone' /\ PutsWhole'
  <2>1. ASSUME "shared" \notin slips', NEW z \in Tasks PROVE task'[z].at \notin {"fill", "record"}
    BY <1>7, <1>8, <2>1 DEF Inside
  <2> QED BY <2>1 DEF PutsAlone, PutsWhole, Inside
<1>11. FailuresSlip'
  <2>1. ASSUME NEW z \in Tasks, task'[z].at = "record", ~task'[z].whole
        PROVE  "unwritten" \in slips' \/ "shared" \in slips'
    <3>1. Inside(z)'
      BY <2>1 DEF Inside
    <3> QED BY <1>7, <1>8, <3>1
  <2>2. \A z \in Tasks : task'[z].whole => task'[z].at = "record"
    BY <1>3, <1>4 DEF CacheInv, FailuresSlip
  <2> QED BY <2>1, <2>2 DEF FailuresSlip
<1>12. KnownPublished'
  <2>1. \A z \in Tasks : task'[z].ver <= published
    BY <1>0, <1>3, <1>4 DEF CacheInv, KnownPublished
  <2>2. v <= published /\ saved' <= published
    BY <1>0, <1>2 DEF NoEntry
  <2>3. \A pr \in Processes : known'[pr] <= published
    BY <1>2, <2>2 DEF CacheInv, KnownPublished
  <2> QED BY <1>2, <2>1, <2>2, <2>3 DEF KnownPublished
<1>13. ASSUME slips' = {}
       PROVE  "shared" \notin slips /\ task[x].whole /\ file \in {task[x].ver, NoFile}
  BY <1>1, <1>7, <1>8, <1>13
<1>14. MemoryAgrees'
  <2> SUFFICES ASSUME slips' = {}, NEW pr \in Processes, known'[pr] # NoEntry
               PROVE  file' \in {known'[pr], NoFile}
    BY DEF MemoryAgrees
  <2>0. file \in {task[x].ver, NoFile} /\ "shared" \notin slips
    BY <1>13
  <2>1. pr = Host[x]
    BY <1>2, <1>8, <2>0
  <2>2. kept /\ known'[pr] = task[x].ver
    BY <1>2, <2>1
  <2>3. file' = file
    BY <1>2, <2>2
  <2> QED BY <2>0, <2>2, <2>3
<1>15. StateAgrees'
  <2> SUFFICES ASSUME slips' = {}
               PROVE  saved' = NoEntry \/ saved' < published' \/ file' \in {saved', NoFile}
    BY DEF StateAgrees
  <2>0. file \in {task[x].ver, NoFile}
    BY <1>13
  <2>1. saved' = task[x].ver => file' \in {saved', NoFile}
    <3>1. file' \in {file, NoFile}
      BY <1>2
    <3> QED BY <2>0, <3>1
  <2>2. ASSUME saved' # task[x].ver, saved' # NoEntry PROVE saved' < published
    <3>1. saved' = saved /\ saved' # v
      BY <1>2, <2>2
    <3>2. saved' # published
      BY <1>1, <2>2, <3>1
    <3> QED BY <1>0, <3>1, <3>2
  <2> QED BY <1>2, <2>1, <2>2
<1> QED BY <1>9, <1>10, <1>11, <1>12, <1>14, <1>15 DEF CacheInv

\* Forgetting an entry, with or without its file, takes no one's agreement away.
LEMMA ForgetsStep ==
  ASSUME CacheInv, CacheTypeOK', NEW pr \in Processes, ~Putting(pr), Forgets(pr),
         UNCHANGED <<published, slips>>,
         \/ UNCHANGED task
         \/ \E x \in Tasks : task[x].at = "remove" /\ task' = [task EXCEPT ![x] = FreeTask]
  PROVE  CacheInv'
<1>0. /\ task \in [Tasks -> Request] /\ known \in [Processes -> Int] /\ published \in Int
      /\ saved <= published /\ 0 <= published
  BY DEF CacheInv, CacheTypeOK, Request, Entry, Text, NoEntry, KnownPublished
<1>1. /\ known'[pr] = NoEntry /\ \A q \in Processes \ {pr} : known'[q] = known[q]
      /\ file' \in {file, NoFile} /\ saved' \in {NoEntry, saved}
  BY <1>0 DEF Forgets, Unlinked, Persisted
<1>2. ASSUME NEW z \in Tasks
      PROVE  \/ task'[z] = task[z]
             \/ task[z].at = "remove" /\ task'[z].at = "free" /\ task'[z].whole = FALSE
                /\ task'[z].ver = 0
  BY <1>0 DEF FreeTask, NoEntry
<1>3. \A z \in Tasks : Inside(z)' <=> Inside(z)
  BY <1>2 DEF Inside
<1>4. \A q \in Processes : Putting(q)' <=> Putting(q)
  BY <1>3 DEF Putting, Inside
<1>5. \A q \in Processes : OthersRely(q)' => OthersRely(q)
  BY <1>1, <1>4 DEF OthersRely
<1>6. OnePut' /\ PutsAlone'
  BY <1>3, <1>5, CacheAssumption DEF CacheInv, OnePut, PutsAlone
<1>7. PutsWhole' /\ FailuresSlip'
  BY <1>1, <1>2 DEF CacheInv, PutsWhole, FailuresSlip
<1>8. KnownPublished'
  <2>1. \A z \in Tasks : task'[z].ver <= published
    BY <1>0, <1>2 DEF CacheInv, KnownPublished
  <2> QED BY <1>0, <1>1, <2>1 DEF CacheInv, KnownPublished, NoEntry
<1>9. MemoryAgrees'
  <2>1. \A q \in Processes \ {pr} : Unasked(q) => Unasked(q)'
    BY <1>1, <1>2 DEF Unasked
  <2> QED BY <1>1, <1>4, <2>1 DEF CacheInv, MemoryAgrees
<1>10. StateAgrees'
  BY <1>1, <1>4 DEF CacheInv, StateAgrees
<1> QED BY <1>6, <1>7, <1>8, <1>9, <1>10 DEF CacheInv

\* A process that opens the directory again loads what agrees with the file, or
\* what the head has left.
LEMMA RestartStep ==
  ASSUME CacheInv, CacheTypeOK', NEW pr \in Processes, Restart(pr) PROVE CacheInv'
<1>0. /\ task \in [Tasks -> Request] /\ known \in [Processes -> Int] /\ published \in Int
      /\ saved \in Int /\ saved <= published /\ 0 <= published
      /\ \A z \in Tasks : Host[z] \in Processes
  BY CacheAssumption DEF CacheInv, CacheTypeOK, Request, Entry, Text, NoEntry, KnownPublished
<1>1. PICK entry \in {saved, NoEntry} :
        /\ known' = [known EXCEPT ![pr] = entry]
        /\ slips' = slips
            \cup (IF CutOff(pr) THEN {"killed"} ELSE {})
            \cup (IF entry # NoEntry /\ \E q \in Processes \ {pr} : Putting(q)
                  THEN {"shared"} ELSE {})
  BY DEF Restart
<1>2. /\ known'[pr] = entry /\ \A q \in Processes \ {pr} : known'[q] = known[q]
      /\ slips \subseteq slips'
      /\ CutOff(pr) => "killed" \in slips'
      /\ (entry # NoEntry /\ \E q \in Processes \ {pr} : Putting(q)) => "shared" \in slips'
      /\ UNCHANGED <<published, file, saved>>
  BY <1>0, <1>1 DEF Restart, corpusHead, directory
<1>3. ASSUME NEW z \in Tasks
      PROVE  /\ Host[z] # pr => task'[z] = task[z]
             /\ Host[z] = pr => task'[z].at = "free" /\ task'[z].whole = FALSE /\ task'[z].ver = 0
  BY DEF Restart, FreeTask, NoEntry
<1>4. \A z \in Tasks : Inside(z)' <=> (Inside(z) /\ Host[z] # pr)
  BY <1>3 DEF Inside
<1>5. \A q \in Processes : Putting(q)' <=> (Putting(q) /\ q # pr)
  BY <1>4 DEF Putting, Inside
<1>6. OnePut'
  BY <1>4 DEF CacheInv, OnePut
<1>7. PutsAlone'
  <2> SUFFICES ASSUME "shared" \notin slips', NEW z \in Tasks, Inside(z)'
               PROVE  ~OthersRely(Host[z])'
    BY CacheAssumption DEF PutsAlone
  <2>0. Host[z] # pr /\ Inside(z) /\ "shared" \notin slips
    BY <1>2, <1>4
  <2>1. Host[z] # pr /\ ~OthersRely(Host[z]) /\ Putting(Host[z])
    BY <2>0 DEF CacheInv, PutsAlone, Putting, Inside
  <2>2. entry = NoEntry
    BY <1>0, <1>2, <2>1
  <2> QED BY <1>2, <1>5, <2>1, <2>2 DEF OthersRely
<1>8. PutsWhole' /\ FailuresSlip'
  <2>1. UNCHANGED file /\ slips \subseteq slips'
    BY <1>2
  <2>2. \A z \in Tasks : task'[z] = task[z] \/ (task'[z].at = "free" /\ task'[z].whole = FALSE)
    BY <1>3
  <2>3. PutsWhole'
    BY <2>1, <2>2 DEF CacheInv, PutsWhole
  <2>4. FailuresSlip'
    BY <2>1, <2>2 DEF CacheInv, FailuresSlip
  <2> QED BY <2>3, <2>4
<1>9. KnownPublished'
  <2>1. \A z \in Tasks : task'[z].ver <= published
    BY <1>0, <1>3 DEF CacheInv, KnownPublished
  <2> QED BY <1>0, <1>1, <1>2, <2>1 DEF CacheInv, KnownPublished, NoEntry
<1>10. ASSUME slips' = {}, \A q \in Processes \ {pr} : ~Putting(q)
       PROVE  saved = NoEntry \/ saved < published \/ file \in {saved, NoFile}
  <2>0. slips \subseteq slips' /\ (CutOff(pr) => "killed" \in slips')
    BY <1>2
  <2>1. slips = {} /\ ~CutOff(pr)
    BY <1>10, <2>0
  <2>2. CASE ~Putting(pr)
    BY <1>10, <2>1, <2>2 DEF CacheInv, StateAgrees
  <2>3. CASE Putting(pr) /\ saved = published
    <3>1. PICK z \in Tasks : Host[z] = pr /\ task[z].at \in {"fill", "record"}
      BY <2>3 DEF Putting
    <3>2. task[z].at = "record" /\ task[z].whole /\ task[z].ver = saved
      BY <2>1, <2>3, <3>1 DEF CutOff
    <3> QED BY <2>1, <3>2 DEF CacheInv, PutsWhole
  <2> QED BY <1>0, <2>2, <2>3
<1>11. MemoryAgrees'
  <2> SUFFICES ASSUME slips' = {}, NEW q \in Processes, ~Putting(q)', known'[q] # NoEntry
               PROVE  file' \in {known'[q], NoFile} \/ Unasked(q)'
    BY DEF MemoryAgrees
  <2>1. CASE q = pr
    <3>1. entry # NoEntry /\ known'[pr] = saved
      BY <1>1, <1>2, <2>1
    <3>2. \A r \in Processes \ {pr} : ~Putting(r)
      BY <1>2, <3>1
    <3>3. saved < published \/ file \in {saved, NoFile}
      BY <1>10, <3>1, <3>2
    <3>4. \A z \in Tasks : Host[z] = pr => task'[z].at # "get"
      BY <1>3
    <3> QED BY <1>2, <2>1, <3>1, <3>3, <3>4 DEF Unasked
  <2>2. CASE q # pr
    <3>1. slips = {} /\ ~Putting(q) /\ known'[q] = known[q]
      <4>1. slips \subseteq slips' /\ known'[q] = known[q]
        BY <1>2, <2>2
      <4> QED BY <1>5, <2>2, <4>1
    <3>2. file \in {known[q], NoFile} \/ Unasked(q)
      BY <3>1 DEF CacheInv, MemoryAgrees
    <3>3. Unasked(q) => Unasked(q)'
      BY <1>2, <1>3, <2>2 DEF Unasked
    <3> QED BY <1>2, <3>1, <3>2, <3>3
  <2> QED BY <2>1, <2>2
<1>12. StateAgrees'
  <2> SUFFICES ASSUME slips' = {}, \A q \in Processes : ~Putting(q)'
               PROVE  saved' = NoEntry \/ saved' < published' \/ file' \in {saved', NoFile}
    BY DEF StateAgrees
  <2>1. \A q \in Processes \ {pr} : ~Putting(q)
    BY <1>5
  <2>2. saved = NoEntry \/ saved < published \/ file \in {saved, NoFile}
    BY <1>10, <2>1
  <2> QED BY <1>2, <2>2
<1> QED BY <1>6, <1>7, <1>8, <1>9, <1>11, <1>12 DEF CacheInv

\* Every step of the cache keeps the invariant.
LEMMA CacheStep == CacheInv /\ [CacheNext]_cacheVars => CacheInv'
<1> SUFFICES ASSUME CacheInv, [CacheNext]_cacheVars PROVE CacheInv'
  OBVIOUS
<1>0. CacheTypeOK' /\ \A x \in Tasks : Host[x] \in Processes
  BY CacheTyped, CacheAssumption DEF CacheInv
<1>1. ASSUME NEW x \in Tasks, Remove(x) PROVE CacheInv'
  <2>1. /\ ~Putting(Host[x]) /\ Forgets(Host[x]) /\ UNCHANGED <<published, slips>>
        /\ task[x].at = "remove" /\ task' = [task EXCEPT ![x] = FreeTask]
    BY <1>1 DEF Remove, corpusHead
  <2> QED BY <1>0, <2>1, ForgetsStep
<1>2. ASSUME NEW pr \in Processes, Evict(pr) PROVE CacheInv'
  <2>1. ~Putting(pr) /\ Forgets(pr) /\ UNCHANGED <<published, slips, task>>
    BY <1>2 DEF Evict, corpusHead
  <2> QED BY <1>0, <2>1, ForgetsStep
<1>3. CASE UNCHANGED cacheVars
  <2>1. UNCHANGED <<file, saved, known, slips, published, task>>
    BY <1>3 DEF cacheVars, corpusHead, directory
  <2>2. published <= published'
    BY <2>1 DEF CacheInv, CacheTypeOK, Entry, Text, NoEntry
  <2> QED BY <1>0, <2>1, <2>2, CacheQuiet
<1> QED
  BY <1>0, <1>1, <1>2, <1>3, QuietCacheSteps, GetHitStep, PutOpensStep, PutFillsStep,
     PutRecordsStep, RestartStep DEF CacheNext

\* What processes have recorded agrees with the body file, in every reachable
\* state in which nothing slipped (cache.rs, put and open).
THEOREM CacheAgrees == CacheSpec => []CacheInv
<1>1. CacheInit => CacheInv
  <2> SUFFICES ASSUME CacheInit PROVE CacheInv
    OBVIOUS
  <2>1. CacheTypeOK
    BY CacheAssumption DEF CacheInit, CacheTypeOK, FreeTask, Request, Content, Entry, Text,
       NoEntry, NoFile
  <2>2. \A x \in Tasks : task[x].at = "free" /\ ~task[x].whole /\ task[x].ver = 0
    BY DEF CacheInit, FreeTask, NoEntry
  <2>3. OnePut /\ PutsAlone /\ PutsWhole /\ FailuresSlip
    BY <2>2 DEF OnePut, PutsAlone, PutsWhole, FailuresSlip, Inside
  <2>4. KnownPublished /\ MemoryAgrees /\ StateAgrees
    BY <2>2 DEF CacheInit, KnownPublished, MemoryAgrees, StateAgrees, NoEntry
  <2> QED BY <2>1, <2>3, <2>4 DEF CacheInv
<1> QED BY <1>1, CacheStep, PTL DEF CacheSpec

\* What the cache serves a read is the text of the head that the read fetched,
\* unless something slipped since the last whole put (cache.rs, get).
THEOREM CachedTextIsTheHeads == CacheSpec => CacheServesItsHead
<1>1. ASSUME CacheInv, [CacheNext]_cacheVars, NEW x \in Tasks, slips = {}, Serves(x)
      PROVE  task'[x].result = task[x].ver
  <2>0. task \in [Tasks -> Request] /\ Host[x] \in Processes
    BY <1>1, CacheAssumption DEF CacheInv, CacheTypeOK
  <2>1. task[x].at = "get" /\ task'[x].at = "served"
    BY <1>1 DEF Serves
  <2>2. GetHit(x)
    <3>1. ASSUME NEW z \in Tasks, GetHit(z) PROVE z = x
      BY <2>0, <2>1, <3>1 DEF GetHit
    <3>2. ASSUME NEW z \in Tasks, NEW stage \in {"get", "open", "remove"}, NEW w, Become(z, stage, w)
          PROVE  FALSE
      BY <2>0, <2>1, <3>2 DEF Become, FreeTask
    <3>3. ASSUME NEW z \in Tasks, WriteNote(z) \/ DeleteNote(z) \/ StartRead(z) PROVE FALSE
      BY <3>2, <3>3 DEF WriteNote, DeleteNote, StartRead
    <3>4. FreeTask.at = "free"
      BY DEF FreeTask
    <3>5. ASSUME NEW z \in Tasks, GetMiss(z) \/ Hydrate(z) \/ PutOpens(z) PROVE FALSE
      BY <2>0, <2>1, <3>4, <3>5 DEF GetMiss, Hydrate, PutOpens, Request
    <3>6. ASSUME NEW z \in Tasks, PutFills(z) \/ PutRecords(z) \/ Remove(z) PROVE FALSE
      BY <2>0, <2>1, <3>4, <3>6 DEF PutFills, PutRecords, Remove, Request
    <3>7. ASSUME NEW pr \in Processes, Evict(pr) \/ Restart(pr) PROVE FALSE
      BY <2>0, <2>1, <3>4, <3>7 DEF Evict, Restart
    <3>8. ~PublishedElsewhere /\ ~UNCHANGED cacheVars
      BY <2>1 DEF PublishedElsewhere, cacheVars
    <3> QED BY <1>1, <3>1, <3>3, <3>5, <3>6, <3>7, <3>8 DEF CacheNext
  <2>3. /\ task'[x].result = file /\ file # NoFile /\ ~Putting(Host[x])
        /\ known[Host[x]] = task[x].ver /\ known[Host[x]] # NoEntry
    BY <2>0, <2>2 DEF GetHit, Request
  <2>4. ~Unasked(Host[x])
    BY <2>1, <2>3 DEF Unasked
  <2>5. file = known[Host[x]]
    BY <1>1, <2>0, <2>3, <2>4 DEF CacheInv, MemoryAgrees
  <2> QED BY <2>3, <2>5
<1>2. CacheInv /\ [CacheNext]_cacheVars =>
        [\A t \in Tasks : (slips = {} /\ Serves(t)) => task'[t].result = task[t].ver]_cacheVars
  BY <1>1
<1> QED BY <1>2, CacheAgrees, PTL DEF CacheSpec, CacheServesItsHead


=============================================================================
