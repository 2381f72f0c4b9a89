------------------------- MODULE VaultWritesProofs --------------------------
(***************************************************************************)
(* Proofs about what clients write.  VaultUploads: a token lands once, a   *)
(* file is whole and an answer is honest, for any tokens, requests,        *)
(* capacity and failures.  VaultTools: what the tools make of a note keeps *)
(* the rest of it and can be repeated, for any note and any edits, and a   *)
(* write that lands replaces what it saw, for any number of calls.         *)
(***************************************************************************)
EXTENDS VaultUploads, VaultTools, FiniteSetTheorems, SequenceTheorems, TLAPS

(***************************************************************************)
(* The inductive invariant.  A token that is pending has no request at     *)
(* work and none that landed, so a claim is alone with its token until it  *)
(* is answered; and whoever works while another is at work on the same     *)
(* token is the same request.                                              *)
(***************************************************************************)

Running == {"create", "stream", "check", "rename"}
Busy(p) == put[p].handler \in {"pump", "await"} \/ put[p].commit \in Running

PutOK(p) ==
  /\ put[p].handler \in {"idle", "refused"} <=> put[p].commit = "none"
  /\ put[p].commit = "landed" <=> p \in landings
  /\ put[p].handler \in {"idle", "pump"} => put[p].body = "open"
  /\ put[p].body = "cut" => put[p].handler = "dropped"
  /\ put[p].commit \in {"check", "rename"} => put[p].body \in {"whole", "cut"}
  /\ put[p].handler = "done" => put[p].commit = "landed"
  /\ put[p].handler = "failed" => put[p].commit = "aborted"
  /\ staging[p] = "stale" => p \in stalled

\* A token at which p works, or has landed, is not for anyone to claim.
Taken(p) ==
  Busy(p) \/ p \in landings => store[put[p].token].state \in {"inFlight", "gone"}

Alone(p, q) ==
  p # q /\ put[p].token = put[q].token /\ Busy(p) => ~Busy(q) /\ q \notin landings

CutIsKnown == ~dest.whole => dest.by \in Puts /\ put[dest.by].body = "cut"

IInv ==
  /\ TypeOK
  /\ \A p \in Puts : PutOK(p) /\ Taken(p)
  /\ \A p, q \in Puts : Alone(p, q)
  /\ LandsAtMostOnce /\ CutIsKnown /\ SpentByLanding /\ StagingIsOwned /\ LiveStagingIsKept

LEMMA InitIInv == Init => IInv
<1> SUFFICES ASSUME Init PROVE IInv
  OBVIOUS
<1>1. TypeOK
  <2>1. Outstanding(store) = {}
    BY DEF Init, Outstanding
  <2>2. Cardinality(Outstanding(store)) <= Cap
    BY <2>1, FS_EmptySet, UploadAssumption
  <2>3. store \in [Tokens -> Token] /\ dest \in Content
    BY DEF Init, Token, Content, Whole
  <2>4. put \in [Puts -> Put]
    BY DEF Init, Put
  <2> QED BY <2>2, <2>3, <2>4 DEF Init, TypeOK
<1>2. \A p \in Puts : PutOK(p) /\ Taken(p)
  BY DEF Init, PutOK, Taken, Busy, Running
<1>3. \A p, q \in Puts : Alone(p, q)
  BY DEF Init, Alone, Busy, Running
<1>4. LandsAtMostOnce /\ CutIsKnown /\ SpentByLanding /\ StagingIsOwned /\ LiveStagingIsKept
  BY
     DEF Init, LandsAtMostOnce, CutIsKnown, Whole, SpentByLanding, StagingIsOwned,
         LiveStagingIsKept
<1> QED BY <1>1, <1>2, <1>3, <1>4 DEF IInv

----------------------------------------------------------------------------
(* The store.                                                              *)

\* What a purge does to a token.
LEMMA PurgeFacts ==
  ASSUME TypeOK, NEW spared
  PROVE  /\ Purged(spared) \in [Tokens -> Token]
         /\ \A t \in Tokens :
              \/ Purged(spared)[t] = store[t]
              \/ /\ store[t].state = "pending" /\ store[t].expired /\ t \notin spared
                 /\ Purged(spared)[t].state = "gone" /\ Purged(spared)[t].expired
<1>1. ASSUME NEW t \in Tokens
      PROVE  /\ [store[t] EXCEPT !.state = "gone"] \in Token
             /\ [store[t] EXCEPT !.state = "gone"].state = "gone"
             /\ [store[t] EXCEPT !.state = "gone"].expired = store[t].expired
  BY DEF TypeOK, Token
<1>2. \A t \in Tokens :
        Purged(spared)[t] = IF store[t].state = "pending" /\ store[t].expired /\ t \notin spared
                            THEN [store[t] EXCEPT !.state = "gone"] ELSE store[t]
  BY DEF Purged
<1>3. Purged(spared) \in [Tokens -> Token]
  BY <1>1 DEF Purged, TypeOK
<1> QED BY <1>1, <1>2, <1>3

\* The outstanding tokens are finitely many, and fewer are still within Cap.
LEMMA FewerAreBounded ==
  ASSUME TypeOK, NEW tokens, Outstanding(tokens) \subseteq Outstanding(store)
  PROVE  IsFiniteSet(Outstanding(tokens)) /\ Cardinality(Outstanding(tokens)) <= Cap
<1>1. IsFiniteSet(Outstanding(store))
  BY UploadAssumption, FS_Subset DEF Outstanding
<1>2. /\ IsFiniteSet(Outstanding(tokens))
      /\ Cardinality(Outstanding(tokens)) <= Cardinality(Outstanding(store))
  BY <1>1, FS_Subset
<1>3. Cardinality(Outstanding(tokens)) \in Nat /\ Cardinality(Outstanding(store)) \in Nat
  BY <1>1, <1>2, FS_CardinalityType
<1> QED BY <1>2, <1>3, UploadAssumption DEF TypeOK

----------------------------------------------------------------------------
(* Steps of one request that leave the store alone.                        *)

\* p is at these stages now, and nobody else has moved.
Moved(p, handler, commit, body) ==
  /\ put' \in [Puts -> Put]
  /\ \A q \in Puts : q # p => put'[q] = put[q]
  /\ put'[p].handler = handler /\ put'[p].commit = commit /\ put'[p].body = body
  /\ put'[p].token = put[p].token

StagingMoved(p) ==
  /\ staging' \in [Puts -> {"none", "fresh", "stale"}]
  /\ \A q \in Puts : q # p => staging'[q] = staging[q]

\* Whoever lands was at work, and nobody starts to work.
LEMMA OneMoves ==
  ASSUME IInv, NEW p \in Puts, NEW handler, NEW commit, NEW body,
         Moved(p, handler, commit, body), StagingMoved(p), UNCHANGED <<store, ghosts>>,
         \/ landings' = landings
         \/ landings' = landings \cup {p} /\ Busy(p),
         \/ dest' = dest /\ (put[p].body = "cut" => body = "cut")
         \/ dest' = [by |-> p, whole |-> body = "whole"] /\ body \in {"whole", "cut"},
         Busy(p)' => Busy(p), PutOK(p)',
         staging'[p] # "none" => commit \in {"stream", "check", "rename", "killed"},
         p \notin stalled /\ commit \in {"stream", "check", "rename"} => staging'[p] # "none"
  PROVE  IInv'
<1>0. TypeOK /\ \A q \in Puts : PutOK(q) /\ Taken(q)
  BY DEF IInv
<1>1. TypeOK'
  <2>1. dest' \in Content
    <3>1. CASE dest' = dest
      BY <1>0, <3>1 DEF TypeOK
    <3>2. CASE dest' = [by |-> p, whole |-> body = "whole"]
      <4>1. (body = "whole") \in BOOLEAN
        OBVIOUS
      <4>2. \A b \in BOOLEAN : [by |-> p, whole |-> b] \in Content
        BY DEF Content
      <4> QED BY <3>2, <4>1, <4>2
    <3> QED BY <3>1, <3>2
  <2>2. (Cardinality(Outstanding(store)) <= Cap)'
    BY <1>0 DEF TypeOK, Outstanding
  <2> QED BY <1>0, <2>1, <2>2 DEF TypeOK, Moved, StagingMoved, ghosts
<1>2. ASSUME NEW q \in Puts PROVE PutOK(q)'
  <2>1. CASE q = p
    BY <2>1
  <2>2. CASE q # p
    BY <1>0, <2>2 DEF PutOK, Moved, StagingMoved, ghosts
  <2> QED BY <2>1, <2>2
<1>3. ASSUME NEW q \in Puts PROVE Taken(q)'
  <2>1. CASE q = p
    BY <1>0, <2>1 DEF Taken, Moved
  <2>2. CASE q # p
    BY <1>0, <2>2 DEF Taken, Moved, Busy
  <2> QED BY <2>1, <2>2
<1>4. \A q, r \in Puts : Alone(q, r)
  BY DEF IInv
<1>5. ASSUME NEW q \in Puts, NEW r \in Puts PROVE Alone(q, r)'
  <2>1. CASE q = p /\ r # p
    BY <1>4, <2>1 DEF Alone, Moved, Busy
  <2>2. CASE q # p /\ r = p
    BY <1>4, <2>2 DEF Alone, Moved, Busy
  <2>3. CASE q # p /\ r # p
    BY <1>4, <2>3 DEF Alone, Moved, Busy
  <2>4. CASE q = r
    BY <2>4 DEF Alone
  <2> QED BY <2>1, <2>2, <2>3, <2>4
<1>6. LandsAtMostOnce'
  BY <1>0, <1>4 DEF IInv, LandsAtMostOnce, Alone, Moved, TypeOK
<1>7. CutIsKnown'
  <2>1. CASE dest' = dest /\ (put[p].body = "cut" => body = "cut")
    BY <2>1 DEF IInv, CutIsKnown, Moved
  <2>2. CASE dest' = [by |-> p, whole |-> body = "whole"] /\ body \in {"whole", "cut"}
    <3>1. dest'.by = p /\ dest'.whole = (body = "whole")
      BY <2>2
    <3>2. CASE body = "whole"
      BY <3>1, <3>2, Zenon DEF CutIsKnown
    <3>3. CASE body = "cut"
      BY <3>1, <3>3 DEF CutIsKnown, Moved
    <3> QED BY <2>2, <3>2, <3>3
  <2> QED BY <2>1, <2>2
<1>8. SpentByLanding'
  BY <1>0 DEF IInv, SpentByLanding, Moved, TypeOK, ghosts
<1>9. StagingIsOwned'
  BY DEF IInv, StagingIsOwned, Moved, StagingMoved
<1>10. LiveStagingIsKept'
  BY DEF IInv, LiveStagingIsKept, Moved, StagingMoved, ghosts
<1> QED BY <1>1, <1>2, <1>3, <1>5, <1>6, <1>7, <1>8, <1>9, <1>10 DEF IInv

\* No such step of a handler or a commit breaks the invariant.
LEMMA StagesKeep ==
  ASSUME IInv, NEW p \in Puts,
         \/ PumpEnds(p) \/ BodyBreaks(p) \/ PumpStops(p) \/ Disconnect(p) \/ ShutDown(p)
         \/ Committing(p)
  PROVE  IInv'
<1>0. /\ TypeOK /\ PutOK(p) /\ put[p] \in Put
      /\ staging[p] # "none" => put[p].commit \in {"stream", "check", "rename", "killed"}
      /\ p \notin stalled /\ put[p].commit \in {"stream", "check", "rename"} => staging[p] # "none"
  BY DEF IInv, TypeOK, StagingIsOwned, LiveStagingIsKept
<1>1. CASE PumpEnds(p)
  <2>1. Moved(p, "await", put[p].commit, "whole")
    BY <1>0, <1>1 DEF PumpEnds, Moved, TypeOK, Put, PutOK
  <2>2. StagingMoved(p) /\ UNCHANGED <<store, ghosts>>
    BY <1>0, <1>1 DEF PumpEnds, StagingMoved, TypeOK, files
  <2>3. PutOK(p)' /\ (Busy(p)' => Busy(p))
    BY <1>0, <1>1, <2>1, <2>2
       DEF PumpEnds, Moved, PutOK, Busy, Running, TypeOK, Put, files, ghosts
  <2> QED BY <1>0, <1>1, <2>1, <2>2, <2>3, OneMoves
             DEF PumpEnds, PutOK, Busy, Running, files, TypeOK
<1>2. CASE BodyBreaks(p)
  <2>1. Moved(p, "await", put[p].commit, "error")
    BY <1>0, <1>2 DEF BodyBreaks, Moved, TypeOK, Put, PutOK
  <2>2. StagingMoved(p) /\ UNCHANGED <<store, ghosts>>
    BY <1>0, <1>2 DEF BodyBreaks, StagingMoved, TypeOK, files
  <2>3. PutOK(p)' /\ (Busy(p)' => Busy(p))
    BY <1>0, <1>2, <2>1, <2>2
       DEF BodyBreaks, Moved, PutOK, Busy, Running, TypeOK, Put, files, ghosts
  <2> QED BY <1>0, <1>2, <2>1, <2>2, <2>3, OneMoves
             DEF BodyBreaks, PutOK, Busy, Running, files, TypeOK
<1>3. CASE PumpStops(p)
  <2>1. Moved(p, "await", put[p].commit, put[p].body)
    BY <1>0, <1>3 DEF PumpStops, HandlerTo, Moved, TypeOK, Put, PutOK
  <2>2. StagingMoved(p) /\ UNCHANGED <<store, ghosts>>
    BY <1>0, <1>3 DEF PumpStops, StagingMoved, TypeOK, files
  <2>3. PutOK(p)' /\ (Busy(p)' => Busy(p))
    BY <1>0, <1>3, <2>1, <2>2
       DEF PumpStops, Moved, PutOK, Busy, Running, TypeOK, Put, files, ghosts
  <2> QED BY <1>0, <1>3, <2>1, <2>2, <2>3, OneMoves
             DEF PumpStops, PutOK, Busy, Running, files, TypeOK
<1>4. CASE Disconnect(p)
  <2>1. Moved(p, "dropped", put[p].commit, put[p].body)
    BY <1>0, <1>4 DEF Disconnect, HandlerTo, Moved, TypeOK, Put, PutOK
  <2>2. StagingMoved(p) /\ UNCHANGED <<store, ghosts>>
    BY <1>0, <1>4 DEF Disconnect, StagingMoved, TypeOK, files
  <2>3. PutOK(p)' /\ (Busy(p)' => Busy(p))
    BY <1>0, <1>4, <2>1, <2>2
       DEF Disconnect, Moved, PutOK, Busy, Running, TypeOK, Put, files, ghosts
  <2> QED BY <1>0, <1>4, <2>1, <2>2, <2>3, OneMoves
             DEF Disconnect, PutOK, Busy, Running, files, TypeOK
<1>5. CASE ShutDown(p)
  <2>1. Moved(p, "dropped", put[p].commit, "cut")
    BY <1>0, <1>5 DEF ShutDown, Moved, TypeOK, Put, PutOK
  <2>2. StagingMoved(p) /\ UNCHANGED <<store, ghosts>>
    BY <1>0, <1>5 DEF ShutDown, StagingMoved, TypeOK, files
  <2>3. PutOK(p)' /\ (Busy(p)' => Busy(p))
    BY <1>0, <1>5, <2>1, <2>2
       DEF ShutDown, Moved, PutOK, Busy, Running, TypeOK, Put, files, ghosts
  <2> QED BY <1>0, <1>5, <2>1, <2>2, <2>3, OneMoves
             DEF ShutDown, PutOK, Busy, Running, files, TypeOK
<1>6. CASE Stage(p)
  <2>1. Moved(p, put[p].handler, "stream", put[p].body)
    BY <1>0, <1>6 DEF Stage, CommitTo, Moved, TypeOK, Put, PutOK
  <2>2. StagingMoved(p) /\ UNCHANGED <<store, ghosts>>
    BY <1>0, <1>6 DEF Stage, StagingMoved, TypeOK, files
  <2>3. PutOK(p)' /\ (Busy(p)' => Busy(p))
    BY <1>0, <1>6, <2>1, <2>2 DEF Stage, Moved, PutOK, Busy, Running, TypeOK, Put, files, ghosts
  <2> QED BY <1>0, <1>6, <2>1, <2>2, <2>3, OneMoves
             DEF Stage, PutOK, Busy, Running, files, TypeOK
<1>7. CASE StageFails(p)
  <2>1. Moved(p, put[p].handler, "aborted", put[p].body)
    BY <1>0, <1>7 DEF StageFails, CommitTo, Moved, TypeOK, Put, PutOK
  <2>2. StagingMoved(p) /\ UNCHANGED <<store, ghosts>>
    BY <1>0, <1>7 DEF StageFails, StagingMoved, TypeOK, files
  <2>3. PutOK(p)' /\ (Busy(p)' => Busy(p))
    BY <1>0, <1>7, <2>1, <2>2
       DEF StageFails, Moved, PutOK, Busy, Running, TypeOK, Put, files, ghosts
  <2> QED BY <1>0, <1>7, <2>1, <2>2, <2>3, OneMoves
             DEF StageFails, PutOK, Busy, Running, files, TypeOK
<1>8. CASE Resumes(p)
  <2>1. Moved(p, put[p].handler, put[p].commit, put[p].body)
    BY <1>0, <1>8 DEF Resumes, Moved, TypeOK, Put, PutOK
  <2>2. StagingMoved(p) /\ UNCHANGED <<store, ghosts>>
    BY <1>0, <1>8 DEF Resumes, StagingMoved, TypeOK, files
  <2>3. PutOK(p)' /\ (Busy(p)' => Busy(p))
    BY <1>0, <1>8, <2>1, <2>2
       DEF Resumes, Moved, PutOK, Busy, Running, TypeOK, Put, files, ghosts
  <2> QED BY <1>0, <1>8, <2>1, <2>2, <2>3, OneMoves
             DEF Resumes, PutOK, Busy, Running, files, TypeOK
<1>9. CASE StreamEnds(p)
  <2>1. Moved(p, put[p].handler, "check", put[p].body)
    BY <1>0, <1>9 DEF StreamEnds, CommitTo, Moved, TypeOK, Put, PutOK
  <2>2. StagingMoved(p) /\ UNCHANGED <<store, ghosts>>
    BY <1>0, <1>9 DEF StreamEnds, StagingMoved, TypeOK, files
  <2>3. PutOK(p)' /\ (Busy(p)' => Busy(p))
    BY <1>0, <1>9, <2>1, <2>2
       DEF StreamEnds, Moved, PutOK, Busy, Running, TypeOK, Put, files, ghosts
  <2> QED BY <1>0, <1>9, <2>1, <2>2, <2>3, OneMoves
             DEF StreamEnds, PutOK, Busy, Running, files, TypeOK
<1>10. CASE StreamFails(p)
  <2>1. Moved(p, put[p].handler, "aborted", put[p].body)
    BY <1>0, <1>10 DEF StreamFails, CommitTo, Aborts, Moved, TypeOK, Put, PutOK
  <2>2. StagingMoved(p) /\ UNCHANGED <<store, ghosts>>
    BY <1>0, <1>10 DEF StreamFails, Aborts, StagingMoved, TypeOK, files
  <2>3. PutOK(p)' /\ (Busy(p)' => Busy(p))
    BY <1>0, <1>10, <2>1, <2>2
       DEF StreamFails, Aborts, Moved, PutOK, Busy, Running, TypeOK, Put, files, ghosts
  <2> QED BY <1>0, <1>10, <2>1, <2>2, <2>3, OneMoves
             DEF StreamFails, Aborts, PutOK, Busy, Running, files, TypeOK
<1>11. CASE Check(p)
  <2>1. Moved(p, put[p].handler, "rename", put[p].body)
    BY <1>0, <1>11 DEF Check, CommitTo, Moved, TypeOK, Put, PutOK
  <2>2. StagingMoved(p) /\ UNCHANGED <<store, ghosts>>
    BY <1>0, <1>11 DEF Check, StagingMoved, TypeOK, files
  <2>3. PutOK(p)' /\ (Busy(p)' => Busy(p))
    BY <1>0, <1>11, <2>1, <2>2
       DEF Check, Moved, PutOK, Busy, Running, TypeOK, Put, files, ghosts
  <2> QED BY <1>0, <1>11, <2>1, <2>2, <2>3, OneMoves
             DEF Check, PutOK, Busy, Running, files, TypeOK
<1>12. CASE Conflict(p)
  <2>1. Moved(p, put[p].handler, "aborted", put[p].body)
    BY <1>0, <1>12 DEF Conflict, CommitTo, Aborts, Moved, TypeOK, Put, PutOK
  <2>2. StagingMoved(p) /\ UNCHANGED <<store, ghosts>>
    BY <1>0, <1>12 DEF Conflict, Aborts, StagingMoved, TypeOK, files
  <2>3. PutOK(p)' /\ (Busy(p)' => Busy(p))
    BY <1>0, <1>12, <2>1, <2>2
       DEF Conflict, Aborts, Moved, PutOK, Busy, Running, TypeOK, Put, files, ghosts
  <2> QED BY <1>0, <1>12, <2>1, <2>2, <2>3, OneMoves
             DEF Conflict, Aborts, PutOK, Busy, Running, files, TypeOK
<1>13. CASE Rename(p)
  <2>1. Moved(p, put[p].handler, "landed", put[p].body)
    BY <1>0, <1>13 DEF Rename, CommitTo, Moved, TypeOK, Put, PutOK
  <2>2. StagingMoved(p) /\ UNCHANGED <<store, ghosts>>
    BY <1>0, <1>13 DEF Rename, StagingMoved, TypeOK, files
  <2>3. PutOK(p)' /\ (Busy(p)' => Busy(p))
    BY <1>0, <1>13, <2>1, <2>2
       DEF Rename, Moved, PutOK, Busy, Running, TypeOK, Put, files, ghosts
  <2> QED BY <1>0, <1>13, <2>1, <2>2, <2>3, OneMoves
             DEF Rename, PutOK, Busy, Running, files, TypeOK
<1>14. CASE RenameFails(p)
  <2>1. Moved(p, put[p].handler, "aborted", put[p].body)
    BY <1>0, <1>14 DEF RenameFails, CommitTo, Aborts, Moved, TypeOK, Put, PutOK
  <2>2. StagingMoved(p) /\ UNCHANGED <<store, ghosts>>
    BY <1>0, <1>14 DEF RenameFails, Aborts, StagingMoved, TypeOK, files
  <2>3. PutOK(p)' /\ (Busy(p)' => Busy(p))
    BY <1>0, <1>14, <2>1, <2>2
       DEF RenameFails, Aborts, Moved, PutOK, Busy, Running, TypeOK, Put, files, ghosts
  <2> QED BY <1>0, <1>14, <2>1, <2>2, <2>3, OneMoves
             DEF RenameFails, Aborts, PutOK, Busy, Running, files, TypeOK
<1> QED BY <1>1, <1>2, <1>3, <1>4, <1>5, <1>6, <1>7, <1>8, <1>9, <1>10, <1>11, <1>12,
           <1>13, <1>14 DEF Committing

----------------------------------------------------------------------------
(* Steps of the store, the sweep, and what happens outside.                *)

\* Whatever is used up stays so, and nothing is used up before its time.
StoreMoved ==
  /\ store' \in [Tokens -> Token] /\ Cardinality(Outstanding(store')) <= Cap
  /\ \A t \in Tokens :
       /\ store[t].state \in {"inFlight", "gone"} => store'[t].state \in {"inFlight", "gone"}
       /\ store'[t].state = "gone" => store'[t] = store[t] \/ store'[t].expired

\* Only files that are stale may be swept.
LEMMA StoreMoves ==
  ASSUME IInv, StoreMoved, UNCHANGED <<put, dest, landings, ghosts>>,
         staging' \in [Puts -> {"none", "fresh", "stale"}],
         \A p \in Puts : \/ staging'[p] = staging[p]
                         \/ staging[p] = "stale" /\ staging'[p] = "none"
  PROVE  IInv'
<1>0. TypeOK /\ \A p \in Puts : PutOK(p) /\ Taken(p) /\ put[p].token \in Tokens
  BY DEF IInv, TypeOK, Put
<1>1. TypeOK'
  BY <1>0 DEF TypeOK, StoreMoved, ghosts
<1>2. ASSUME NEW p \in Puts PROVE PutOK(p)' /\ Taken(p)'
  <2>1. PutOK(p)'
    BY <1>0 DEF PutOK, ghosts
  <2>2. Taken(p)'
    BY <1>0 DEF Taken, Busy, StoreMoved
  <2> QED BY <2>1, <2>2
<1>3. ASSUME NEW p \in Puts, NEW q \in Puts PROVE Alone(p, q)'
  BY DEF IInv, Alone, Busy
<1>4. LandsAtMostOnce' /\ CutIsKnown'
  BY DEF IInv, LandsAtMostOnce, CutIsKnown
<1>5. SpentByLanding'
  BY DEF IInv, SpentByLanding, StoreMoved, ghosts
<1>6. StagingIsOwned'
  BY DEF IInv, StagingIsOwned
<1>7. LiveStagingIsKept'
  BY <1>0 DEF IInv, LiveStagingIsKept, PutOK, ghosts
<1> QED BY <1>1, <1>2, <1>3, <1>4, <1>5, <1>6, <1>7 DEF IInv

LEMMA MintKeeps == ASSUME IInv, NEW t \in Tokens, Mint(t) PROVE StoreMoved
<1>0. TypeOK /\ IsFiniteSet(Outstanding(store))
  BY FewerAreBounded DEF IInv
<1>1. PICK expects \in {{}, {dest} \ {Whole(Nobody)}} :
        store' = [Purged({}) EXCEPT ![t] = [state |-> "pending", expired |-> FALSE,
                                            expects |-> expects]]
  BY DEF Mint
<1>2. [state |-> "pending", expired |-> FALSE, expects |-> expects] \in Token
  BY <1>0 DEF TypeOK, Token
<1>3. /\ store' \in [Tokens -> Token]
      /\ store'[t].state = "pending"
      /\ \A u \in Tokens : u # t => store'[u] = Purged({})[u]
  BY <1>0, <1>1, <1>2, PurgeFacts
<1>4. Cardinality(Outstanding(store')) <= Cap
  <2>1. Outstanding(Purged({})) \subseteq Outstanding(store)
    BY <1>0, PurgeFacts DEF Outstanding
  <2>2. IsFiniteSet(Outstanding(Purged({}))) /\ Cardinality(Outstanding(Purged({}))) \in Nat
    BY <1>0, <2>1, FewerAreBounded, FS_CardinalityType
  <2>3. Outstanding(store') \subseteq Outstanding(Purged({})) \cup {t}
    BY <1>3 DEF Outstanding
  <2>4. /\ IsFiniteSet(Outstanding(Purged({})) \cup {t})
        /\ Cardinality(Outstanding(Purged({})) \cup {t}) <= Cardinality(Outstanding(Purged({}))) + 1
    BY <2>2, FS_AddElement
  <2>5. /\ Cardinality(Outstanding(store')) <= Cardinality(Outstanding(Purged({})) \cup {t})
        /\ IsFiniteSet(Outstanding(store'))
    BY <2>3, <2>4, FS_Subset
  <2>6. /\ Cardinality(Outstanding(store')) \in Nat
        /\ Cardinality(Outstanding(Purged({})) \cup {t}) \in Nat
    BY <2>4, <2>5, FS_CardinalityType
  <2>7. Cardinality(Outstanding(Purged({}))) < Cap
    BY DEF Mint
  <2> QED BY <2>2, <2>4, <2>5, <2>6, <2>7, UploadAssumption
<1>5. store[t].state = "unminted"
  BY DEF Mint
<1> QED BY <1>0, <1>3, <1>4, <1>5, PurgeFacts DEF StoreMoved

LEMMA RequestKeeps == ASSUME IInv, RequestUpload PROVE IInv'
<1>0. TypeOK
  BY DEF IInv
<1>1. /\ staging' \in [Puts -> {"none", "fresh", "stale"}]
      /\ \A p \in Puts : \/ staging'[p] = staging[p]
                         \/ staging[p] = "stale" /\ staging'[p] = "none"
  BY <1>0 DEF RequestUpload, Sweep, TypeOK
<1>2. ASSUME MintRefused PROVE StoreMoved
  <2>1. Outstanding(store') \subseteq Outstanding(store)
    BY <1>0, <1>2, PurgeFacts DEF MintRefused, Outstanding
  <2> QED BY <1>0, <1>2, <2>1, PurgeFacts, FewerAreBounded DEF MintRefused, StoreMoved
<1>3. StoreMoved
  BY <1>2, MintKeeps DEF RequestUpload
<1> QED BY <1>1, <1>3, StoreMoves DEF RequestUpload

LEMMA ExpireKeeps == ASSUME IInv, NEW t \in Tokens, Expire(t) PROVE IInv'
<1>0. TypeOK
  BY DEF IInv
<1>1. /\ store' \in [Tokens -> Token]
      /\ store'[t].state = store[t].state /\ store'[t].state # "gone"
      /\ \A u \in Tokens : u # t => store'[u] = store[u]
  BY <1>0 DEF TypeOK, Token, Expire
<1>2. Cardinality(Outstanding(store')) <= Cap
  <2>1. Outstanding(store') \subseteq Outstanding(store)
    BY <1>1 DEF Outstanding
  <2> QED BY <1>0, <2>1, FewerAreBounded
<1>3. StoreMoved
  BY <1>1, <1>2 DEF StoreMoved
<1> QED BY <1>0, <1>3, StoreMoves DEF Expire, TypeOK, files

LEMMA OutsideKeeps == ASSUME IInv, Edit \/ \E p \in Puts : Stall(p) PROVE IInv'
<1>0. TypeOK /\ \A p \in Puts : PutOK(p) /\ Taken(p)
  BY DEF IInv
<1>1. CASE Edit
  <2>1. TypeOK' /\ CutIsKnown'
    <3>1. PICK o \in Others : dest' = Whole(o)
      BY <1>1 DEF Edit
    <3>2. Whole(o) \in Content /\ Whole(o).whole
      BY DEF Content, Whole
    <3> QED BY <1>0, <1>1, <3>1, <3>2 DEF Edit, ghosts, TypeOK, CutIsKnown
  <2>2. \A p \in Puts : PutOK(p)' /\ Taken(p)'
    BY <1>0, <1>1 DEF Edit, ghosts, PutOK, Taken, Busy
  <2>3. \A p, q \in Puts : Alone(p, q)'
    BY <1>1 DEF Edit, IInv, Alone, Busy
  <2>4. LandsAtMostOnce' /\ SpentByLanding' /\ StagingIsOwned' /\ LiveStagingIsKept'
    BY <1>1 DEF Edit, ghosts, IInv, LandsAtMostOnce, SpentByLanding, StagingIsOwned,
                LiveStagingIsKept
  <2> QED BY <2>1, <2>2, <2>3, <2>4 DEF IInv
<1>2. ASSUME NEW p \in Puts, Stall(p) PROVE IInv'
  <2>1. TypeOK' /\ \A q \in Puts : PutOK(q)' /\ Taken(q)'
    BY <1>0, <1>2 DEF Stall, TypeOK, PutOK, Taken, Busy
  <2>2. \A q, r \in Puts : Alone(q, r)'
    BY <1>2 DEF Stall, IInv, Alone, Busy
  <2>3. LandsAtMostOnce' /\ SpentByLanding' /\ CutIsKnown'
    BY <1>2 DEF Stall, IInv, LandsAtMostOnce, SpentByLanding, CutIsKnown
  <2>4. StagingIsOwned' /\ LiveStagingIsKept'
    BY <1>0, <1>2 DEF Stall, IInv, TypeOK, StagingIsOwned, LiveStagingIsKept
  <2> QED BY <2>1, <2>2, <2>3, <2>4 DEF IInv
<1> QED BY <1>1, <1>2

----------------------------------------------------------------------------
(* Steps of the handler that move the token too.                           *)

\* The claimed token was pending, so nobody else is at work on it.
LEMMA ClaimKeeps == ASSUME IInv, NEW p \in Puts, Claim(p) PROVE IInv'
<1> DEFINE t == put[p].token
<1>0. /\ TypeOK /\ \A q \in Puts : PutOK(q) /\ Taken(q) /\ put[q].token \in Tokens
      /\ put[p].handler = "idle" /\ store[t].state = "pending" /\ t \in Tokens
  BY DEF IInv, TypeOK, Put, Claim, Claimable
<1>1. Moved(p, "pump", "create", put[p].body)
  BY <1>0 DEF Claim, Moved, TypeOK, Put
<1>2. /\ store' \in [Tokens -> Token] /\ store'[t].state = "inFlight"
      /\ \A u \in Tokens : u # t => store'[u] = Purged({t})[u]
  <2>1. store' = [Purged({t}) EXCEPT ![t].state = "inFlight"]
    BY DEF Claim
  <2>2. Purged({t})[t] \in Token
    BY <1>0, PurgeFacts
  <2>3. /\ [Purged({t})[t] EXCEPT !.state = "inFlight"] \in Token
        /\ [Purged({t})[t] EXCEPT !.state = "inFlight"].state = "inFlight"
    BY <2>2 DEF Token
  <2> QED BY <1>0, <2>1, <2>2, <2>3, PurgeFacts
<1>3. Cardinality(Outstanding(store')) <= Cap
  <2>1. Outstanding(store') \subseteq Outstanding(store)
    BY <1>0, <1>2, PurgeFacts DEF Outstanding
  <2> QED BY <1>0, <2>1, FewerAreBounded
<1>4. TypeOK'
  BY <1>0, <1>1, <1>2, <1>3 DEF TypeOK, Claim, Moved, files, ghosts
<1>5. \A q \in Puts : q # p /\ put[q].token = t => ~Busy(q) /\ q \notin landings
  BY <1>0 DEF Taken
<1>6. p \notin landings /\ put[p].body = "open" /\ put[p].commit = "none"
  BY <1>0 DEF PutOK
<1>7. ASSUME NEW q \in Puts PROVE PutOK(q)' /\ Taken(q)'
  <2>1. CASE q = p
    BY <1>0, <1>1, <1>2, <1>6, <2>1 DEF Claim, PutOK, Taken, Moved, files, ghosts
  <2>2. CASE q # p
    <3>1. PutOK(q)'
      BY <1>0, <1>1, <2>2 DEF Claim, PutOK, Moved, files, ghosts
    <3>2. Taken(q)'
      BY <1>0, <1>1, <1>2, <2>2, PurgeFacts DEF Claim, Taken, Busy, Moved, files
    <3> QED BY <3>1, <3>2
  <2> QED BY <2>1, <2>2
<1>8. ASSUME NEW q \in Puts, NEW r \in Puts PROVE Alone(q, r)'
  BY <1>1, <1>5, <1>6 DEF Claim, IInv, Alone, Busy, Moved, files
<1>9. LandsAtMostOnce' /\ CutIsKnown'
  BY <1>1, <1>6 DEF Claim, IInv, LandsAtMostOnce, CutIsKnown, Moved, files, TypeOK
<1>10. SpentByLanding'
  BY <1>0, <1>1, <1>2, <1>6, PurgeFacts
     DEF Claim, IInv, SpentByLanding, Moved, files, ghosts, TypeOK
<1>11. StagingIsOwned' /\ LiveStagingIsKept'
  BY <1>0, <1>1 DEF Claim, IInv, PutOK, StagingIsOwned, LiveStagingIsKept, Moved, files, ghosts
<1> QED BY <1>4, <1>7, <1>8, <1>9, <1>10, <1>11 DEF IInv

\* A refusal may remove a token that expired, and nothing else.
LEMMA ClaimRefusedKeeps == ASSUME IInv, NEW p \in Puts, ClaimRefused(p) PROVE IInv'
<1> DEFINE t == put[p].token
<1>0. /\ TypeOK /\ \A q \in Puts : PutOK(q) /\ Taken(q) /\ put[q].token \in Tokens
      /\ put[p].handler = "idle" /\ t \in Tokens
  BY DEF IInv, TypeOK, Put, ClaimRefused
<1>1. Moved(p, "refused", put[p].commit, put[p].body)
  BY <1>0 DEF ClaimRefused, HandlerTo, Moved, TypeOK, Put
<1>2. \A u \in Tokens : \/ store'[u] = store[u]
                        \/ /\ store[u].state # "unminted"
                           /\ store'[u].state = "gone" /\ store'[u].expired
  <2>1. store' = [Purged({t}) EXCEPT ![t].state = IF store[t].expired THEN "gone" ELSE @]
    BY DEF ClaimRefused
  <2>2. Purged({t})[t] = store[t]
    BY <1>0, PurgeFacts
  <2>3. CASE store[t].expired
    <3>1. store' = [Purged({t}) EXCEPT ![t].state = "gone"]
      BY <2>1, <2>3
    <3>2. /\ [store[t] EXCEPT !.state = "gone"].state = "gone"
          /\ [store[t] EXCEPT !.state = "gone"].expired = store[t].expired
      BY <1>0 DEF TypeOK, Token
    <3>3. store'[t] = [store[t] EXCEPT !.state = "gone"]
      BY <1>0, <2>2, <3>1, PurgeFacts
    <3>4. store[t].state # "unminted"
      BY DEF ClaimRefused
    <3>5. store'[t].state = "gone" /\ store'[t].expired
      BY <2>3, <3>2, <3>3
    <3>6. \A u \in Tokens : u # t => store'[u] = Purged({t})[u]
      BY <1>0, <3>1, PurgeFacts
    <3> QED BY <1>0, <3>4, <3>5, <3>6, PurgeFacts
  <2>4. CASE ~store[t].expired
    <3>1. store' = [Purged({t}) EXCEPT ![t].state = @]
      BY <2>1, <2>4
    <3>2. [store[t] EXCEPT !.state = @] = store[t]
      BY <1>0 DEF TypeOK, Token
    <3>3. \A u \in Tokens : store'[u] = Purged({t})[u]
      BY <1>0, <2>2, <3>1, <3>2, PurgeFacts
    <3> QED BY <1>0, <3>3, PurgeFacts
  <2> QED BY <2>3, <2>4
<1>3. store' \in [Tokens -> Token]
  <2>1. Purged({t})[t] \in Token
    BY <1>0, PurgeFacts
  <2>2. [Purged({t})[t] EXCEPT !.state = IF store[t].expired THEN "gone" ELSE @] \in Token
    BY <1>0, <2>1 DEF Token
  <2> QED BY <1>0, <2>1, <2>2, PurgeFacts DEF ClaimRefused
<1>4. Cardinality(Outstanding(store')) <= Cap
  <2>1. Outstanding(store') \subseteq Outstanding(store)
    BY <1>2 DEF Outstanding
  <2> QED BY <1>0, <2>1, FewerAreBounded
<1>5. TypeOK'
  BY <1>0, <1>1, <1>3, <1>4 DEF TypeOK, ClaimRefused, Moved, files, ghosts
<1>6. ASSUME NEW q \in Puts PROVE PutOK(q)' /\ Taken(q)'
  <2>1. PutOK(q)'
    <3>1. CASE q = p
      BY <1>0, <1>1, <3>1 DEF ClaimRefused, PutOK, Moved, files, ghosts
    <3>2. CASE q # p
      BY <1>0, <1>1, <3>2 DEF ClaimRefused, PutOK, Moved, files, ghosts
    <3> QED BY <3>1, <3>2
  <2>2. Busy(q)' \/ q \in landings' => Busy(q) \/ q \in landings
    BY <1>0, <1>1 DEF ClaimRefused, Busy, Moved, files
  <2>3. put'[q].token = put[q].token
    BY <1>1 DEF Moved
  <2>4. Taken(q)'
    BY <1>0, <1>2, <2>2, <2>3 DEF Taken
  <2> QED BY <2>1, <2>4
<1>7. ASSUME NEW q \in Puts, NEW r \in Puts PROVE Alone(q, r)'
  BY <1>0, <1>1 DEF ClaimRefused, IInv, Alone, Busy, Moved, files
<1>8. LandsAtMostOnce' /\ CutIsKnown'
  BY <1>1 DEF ClaimRefused, IInv, LandsAtMostOnce, CutIsKnown, Moved, files, TypeOK
<1>9. SpentByLanding'
  <2>1. /\ lost' = lost /\ landings' = landings
        /\ \A q \in landings : q \in Puts /\ put'[q].token = put[q].token
    BY <1>0, <1>1 DEF ClaimRefused, Moved, files, ghosts, TypeOK
  <2>2. \A u \in Tokens : store'[u] = store[u] \/ store'[u].expired
    BY <1>2
  <2> QED BY <2>1, <2>2 DEF IInv, SpentByLanding
<1>10. StagingIsOwned' /\ LiveStagingIsKept'
  BY <1>0, <1>1 DEF ClaimRefused, IInv, StagingIsOwned, LiveStagingIsKept, Moved, files, ghosts
<1> QED BY <1>5, <1>6, <1>7, <1>8, <1>9, <1>10 DEF IInv

\* A token is released by the only request at work on it, which has not landed.
LEMMA AnswerKeeps == ASSUME IInv, NEW p \in Puts, Answer(p) PROVE IInv'
<1> DEFINE t == put[p].token
<1>0. /\ TypeOK /\ \A q \in Puts : PutOK(q) /\ Taken(q) /\ put[q].token \in Tokens
      /\ put[p].handler = "await" /\ t \in Tokens
      /\ UNCHANGED <<files, ghosts>>
  BY DEF IInv, TypeOK, Put, Answer
<1>1. \A q \in Puts : q # p /\ put[q].token = t => ~Busy(q) /\ q \notin landings
  BY <1>0 DEF IInv, Alone, Busy
<1>2. \/ Moved(p, "done", "landed", put[p].body) /\ put[p].commit = "landed"
      \/ Moved(p, "failed", "aborted", put[p].body) /\ put[p].commit = "aborted"
  BY <1>0 DEF Answer, HandlerTo, Moved, TypeOK, Put
<1>3. /\ store' \in [Tokens -> Token]
      /\ \A u \in Tokens : u # t => store'[u] = store[u]
      /\ store'[t].expired = store[t].expired
      /\ \/ put[p].commit = "landed" /\ store'[t].state = "gone"
         \/ /\ put[p].commit = "aborted"
            /\ store'[t].state = IF store[t].state = "inFlight" THEN "pending" ELSE store[t].state
  BY <1>0 DEF Answer, TypeOK, Token
<1>4. Cardinality(Outstanding(store')) <= Cap
  <2>1. Outstanding(store') \subseteq Outstanding(store)
    BY <1>0, <1>3 DEF Outstanding
  <2> QED BY <1>0, <2>1, FewerAreBounded
<1>5. TypeOK'
  BY <1>0, <1>2, <1>3, <1>4 DEF TypeOK, Moved, files, ghosts
<1>6. ASSUME NEW q \in Puts PROVE PutOK(q)' /\ Taken(q)'
  <2>1. CASE q = p
    BY <1>0, <1>2, <1>3, <2>1 DEF PutOK, Taken, Moved, Busy, Running, files, ghosts
  <2>2. CASE q # p
    <3>1. PutOK(q)'
      BY <1>0, <1>2, <2>2 DEF PutOK, Moved, files, ghosts
    <3>2. Taken(q)'
      BY <1>0, <1>1, <1>2, <1>3, <2>2 DEF Taken, Busy, Moved, files
    <3> QED BY <3>1, <3>2
  <2> QED BY <2>1, <2>2
<1>7. ASSUME NEW q \in Puts, NEW r \in Puts PROVE Alone(q, r)'
  BY <1>0, <1>2 DEF IInv, Alone, Busy, Running, Moved, files
<1>8. LandsAtMostOnce' /\ CutIsKnown'
  BY <1>0, <1>2 DEF IInv, LandsAtMostOnce, CutIsKnown, Moved, files, TypeOK
<1>9. SpentByLanding'
  BY <1>0, <1>2, <1>3 DEF IInv, SpentByLanding, PutOK, Moved, files, ghosts, TypeOK
<1>10. StagingIsOwned' /\ LiveStagingIsKept'
  BY <1>0, <1>2 DEF IInv, StagingIsOwned, LiveStagingIsKept, Moved, files, ghosts
<1> QED BY <1>5, <1>6, <1>7, <1>8, <1>9, <1>10 DEF IInv

----------------------------------------------------------------------------
(* The end of the process.                                                 *)

\* Nobody is at work any more, and what is lost is known to be.
LEMMA CrashKeeps == ASSUME IInv, Crash PROVE IInv'
<1>0. TypeOK /\ \A q \in Puts : PutOK(q) /\ Taken(q) /\ put[q].token \in Tokens
  BY DEF IInv, TypeOK, Put
<1>1. \A t \in Tokens :
        /\ store'[t] \in Token
        /\ \/ t \in Outstanding(store) /\ t \in lost' /\ store'[t].state = "gone"
           \/ t \notin Outstanding(store) /\ store'[t] = store[t]
  BY <1>0 DEF Crash, TypeOK, Token
<1>2. store' \in [Tokens -> Token]
  BY <1>1 DEF Crash
<1>3. \A p \in Puts :
        /\ put'[p].handler = IF put[p].handler \in {"pump", "await"} THEN "killed"
                             ELSE put[p].handler
        /\ put'[p].commit = IF put[p].commit \in Running THEN "killed" ELSE put[p].commit
        /\ put'[p].body = put[p].body /\ put'[p].token = put[p].token
        /\ put'[p] \in Put
  BY <1>0 DEF Crash, TypeOK, Put, Running
<1>4. put' \in [Puts -> Put] /\ UNCHANGED <<dest, staging, landings, stalled>>
  BY <1>3 DEF Crash, files
<1>5. TypeOK'
  <2>1. Outstanding(store') \subseteq Outstanding(store)
    BY <1>1 DEF Outstanding
  <2>2. Cardinality(Outstanding(store')) <= Cap
    BY <1>0, <2>1, FewerAreBounded
  <2>3. lost' \subseteq Tokens
    BY <1>0 DEF Crash, TypeOK, Outstanding
  <2> QED BY <1>0, <1>2, <1>4, <2>2, <2>3 DEF Crash, TypeOK, files
<1>6. ASSUME NEW p \in Puts PROVE PutOK(p)' /\ Taken(p)'
  <2>1. PutOK(p)'
    BY <1>0, <1>3, <1>4 DEF PutOK, Running
  <2>2. Taken(p)'
    BY <1>0, <1>1, <1>3 DEF Crash, Taken, Busy, Running, Outstanding, files
  <2> QED BY <2>1, <2>2
<1>7. ASSUME NEW p \in Puts, NEW q \in Puts PROVE Alone(p, q)'
  BY <1>3 DEF Alone, Busy, Running
<1>8. LandsAtMostOnce' /\ CutIsKnown'
  BY <1>0, <1>3, <1>4 DEF IInv, LandsAtMostOnce, CutIsKnown, TypeOK
<1>9. SpentByLanding'
  <2>1. \A t \in Tokens \ lost' : t \notin lost /\ store'[t] = store[t]
    BY <1>0, <1>1 DEF Crash
  <2>2. landings' = landings /\ \A p \in landings : p \in Puts /\ put'[p].token = put[p].token
    BY <1>0, <1>3 DEF Crash, files, TypeOK
  <2> QED BY <2>1, <2>2 DEF IInv, SpentByLanding
<1>10. StagingIsOwned' /\ LiveStagingIsKept'
  BY <1>3, <1>4 DEF IInv, StagingIsOwned, LiveStagingIsKept, Running
<1> QED BY <1>5, <1>6, <1>7, <1>8, <1>9, <1>10 DEF IInv

----------------------------------------------------------------------------
(* The theorems.                                                           *)

LEMMA NextIInv == IInv /\ [Next]_vars => IInv'
<1> SUFFICES ASSUME IInv, [Next]_vars PROVE IInv'
  OBVIOUS
<1>1. CASE RequestUpload \/ Edit \/ Crash
  BY <1>1, RequestKeeps, OutsideKeeps, CrashKeeps
<1>2. ASSUME NEW t \in Tokens, Expire(t) PROVE IInv'
  BY <1>2, ExpireKeeps
<1>3. ASSUME NEW p \in Puts, Stall(p) \/ Handling(p) \/ Committing(p) PROVE IInv'
  BY <1>3, OutsideKeeps, ClaimKeeps, ClaimRefusedKeeps, AnswerKeeps, StagesKeep DEF Handling
<1>4. CASE UNCHANGED vars
  BY <1>4 DEF vars, files, ghosts, IInv, TypeOK, Outstanding, PutOK, Taken, Alone, Busy,
              LandsAtMostOnce, CutIsKnown, SpentByLanding, StagingIsOwned, LiveStagingIsKept
<1> QED BY <1>1, <1>2, <1>3, <1>4 DEF Next

\* The invariant holds in every reachable state.
THEOREM Invariance == Spec => []IInv
<1> QED BY InitIInv, NextIInv, PTL DEF Spec

\* The store never holds more tokens than its cap, whatever is minted, expires
\* or is released (UploadStore::mint, purge_expired, release).
THEOREM TypeCorrect == Spec => []TypeOK
<1>1. IInv => TypeOK
  BY DEF IInv
<1> QED BY <1>1, Invariance, PTL

\* No token lands two uploads, however many requests present it (claim,
\* consume and release around the commit).
THEOREM TokensLandOnce == Spec => []LandsAtMostOnce
<1>1. IInv => LandsAtMostOnce
  BY DEF IInv
<1> QED BY <1>1, Invariance, PTL

\* The destination holds whole bodies only, as long as no handler is dropped
\* (the chunk channel and commit_upload_stream).
THEOREM DestinationsAreWhole == Spec => []DestinationIsWhole
<1>1. IInv => DestinationIsWhole
  BY DEF IInv, PutOK, CutIsKnown, DestinationIsWhole
<1> QED BY <1>1, Invariance, PTL

\* What the client is told is what became of the destination (upload_handler).
THEOREM AnswersHonest == Spec => []AnswersAreHonest
<1>1. IInv => AnswersAreHonest
  BY DEF IInv, PutOK, AnswersAreHonest
<1> QED BY <1>1, Invariance, PTL

\* An upload that fails leaves its token to be tried again (release).
THEOREM FailuresCanBeRetried == Spec => []SpentByLanding
<1>1. IInv => SpentByLanding
  BY DEF IInv
<1> QED BY <1>1, Invariance, PTL

\* No failure path of commit_upload_stream leaves a staging file behind.
THEOREM StagingOwned == Spec => []StagingIsOwned
<1>1. IInv => StagingIsOwned
  BY DEF IInv
<1> QED BY <1>1, Invariance, PTL

\* sweep_orphan_temp_files_at spares every upload that keeps writing.
THEOREM LiveStagingKept == Spec => []LiveStagingIsKept
<1>1. IInv => LiveStagingIsKept
  BY DEF IInv
<1> QED BY <1>1, Invariance, PTL

\* Both at once: a staging file is there as long as its upload needs it and no
\* longer, but for what a process that ended left.
THEOREM StagingTidy == Spec => []StagingIsTidy
<1>1. IInv => StagingIsTidy
  BY DEF IInv, StagingIsTidy
<1> QED BY <1>1, Invariance, PTL

(***************************************************************************)
(* The tools.  The invariant needs the types of texts, and these need      *)
(* recursion over their lines, which is proved from what is well-founded.  *)
(***************************************************************************)

----------------------------------------------------------------------------
(* Recursion and induction over data: each of D starts or follows one of a *)
(* lower rank.                                                             *)

Follows(D, rank, Start, prev) ==
  /\ rank \in [D -> Nat]
  /\ \A d \in D : d \notin Start => prev[d] \in D /\ rank[prev[d]] < rank[d]

IsRecursive(g, D, Start, prev, base, step) ==
  g = [d \in D |-> IF d \in Start THEN base ELSE step[d][g[prev[d]]]]

\* A set of naturals has a least member.
LEMMA LeastNatural ==
  ASSUME NEW T, T \subseteq Nat, T # {}
  PROVE  \E x \in T : \A y \in T : x <= y
<1> DEFINE R == {ss \in Nat \X Nat : ss[1] < ss[2]}
<1>1. IsWellFoundedOn(R, Nat)
  BY NatLessThanWellFounded DEF OpToRel
<1> HIDE DEF R
<1>2. PICK x \in T : \A y \in T : ~(<<y, x>> \in R)
  BY <1>1, WFMin
<1>3. SUFFICES ASSUME NEW y \in T, ~(x <= y) PROVE FALSE
  BY <1>2
<1>4. x \in Nat /\ y \in Nat /\ y < x
  BY <1>3
<1>5. <<y, x>> \in R
  BY <1>4 DEF R
<1> QED BY <1>2, <1>5

\* What holds at the start and is handed on holds everywhere.
LEMMA HandedOn ==
  ASSUME NEW D, NEW rank, NEW Start, NEW prev, Follows(D, rank, Start, prev), NEW Good,
         \A d \in D : d \in Start \/ prev[d] \in Good => d \in Good
  PROVE  D \subseteq Good
<1> SUFFICES ASSUME NEW c \in D, c \notin Good PROVE FALSE
  OBVIOUS
<1> DEFINE Bad == {n \in Nat : \E d \in D \ Good : rank[d] = n}
<1>1. rank[c] \in Bad
  BY DEF Follows
<1>2. PICK n \in Bad : \A y \in Bad : n <= y
  BY <1>1, LeastNatural
<1>3. PICK d \in D \ Good : rank[d] = n
  OBVIOUS
<1>4. d \notin Start /\ prev[d] \in D /\ rank[prev[d]] < n /\ rank[prev[d]] \in Nat /\ prev[d] \notin Good
  BY <1>3 DEF Follows
<1>5. rank[prev[d]] \in Bad
  BY <1>4
<1> QED BY <1>2, <1>4, <1>5

\* A function that is defined by recursion exists.
LEMMA RecursionExists ==
  ASSUME NEW D, NEW rank, NEW Start, NEW prev, Follows(D, rank, Start, prev),
         NEW vals, NEW base, NEW step,
         \A d \in D : d \in Start => base \in vals[d],
         \A d \in D : d \notin Start => step[d] \in [vals[prev[d]] -> vals[d]]
  PROVE  \E g : IsRecursive(g, D, Start, prev, base, step) /\ \A d \in D : g[d] \in vals[d]
<1> DEFINE Small(n) == {d \in D : rank[d] <= n}
<1> DEFINE Value(g, d) == IF d \in Start THEN base ELSE step[d][g[prev[d]]]
<1> DEFINE Fits(g, n) == \A d \in Small(n) : g[d] = Value(g, d) /\ g[d] \in vals[d]
<1> DEFINE Bad == {n \in Nat : ~\E g : Fits(g, n)}
<1>1. \A d \in D : rank[d] \in Nat /\ (d \notin Start => prev[d] \in D /\ rank[prev[d]] \in Nat /\ rank[prev[d]] < rank[d])
  BY DEF Follows
<1>2. 0 \notin Bad
  <2>1. \A d \in Small(0) : d \in Start
    BY <1>1
  <2>2. PICK g : g = [d \in D |-> base]
    OBVIOUS
  <2>3. Fits(g, 0)
    BY <2>1, <2>2
  <2> QED BY <2>3
<1>3. ASSUME NEW n \in Nat, n \notin Bad PROVE n + 1 \notin Bad
  <2>1. PICK g : Fits(g, n)
    BY <1>3
  <2>2. PICK h : h = [d \in Small(n + 1) |-> Value(g, d)]
    OBVIOUS
  <2>3. \A d \in Small(n + 1) : d \notin Start => prev[d] \in Small(n)
    BY <1>1
  <2>4. Small(n) \subseteq Small(n + 1)
    BY <1>1
  <2>5. \A d \in Small(n) : h[d] = g[d]
    BY <2>1, <2>2, <2>4
  <2>6. ASSUME NEW d \in Small(n + 1) PROVE h[d] = Value(h, d) /\ h[d] \in vals[d]
    <3>1. h[d] = Value(g, d)
      BY <2>2
    <3>2. CASE d \in Start
      BY <3>1, <3>2
    <3>3. CASE d \notin Start
      <4>1. prev[d] \in Small(n) /\ h[prev[d]] = g[prev[d]] /\ g[prev[d]] \in vals[prev[d]]
        BY <2>1, <2>3, <2>5, <3>3
      <4>2. step[d] \in [vals[prev[d]] -> vals[d]]
        BY <3>3
      <4> QED BY <3>1, <3>3, <4>1, <4>2
    <3> QED BY <3>2, <3>3
  <2>7. Fits(h, n + 1)
    BY <2>6
  <2> QED BY <2>7
<1>4. Bad = {}
  <2> SUFFICES ASSUME Bad # {} PROVE FALSE
    OBVIOUS
  <2>1. Bad \subseteq Nat
    OBVIOUS
  <2> HIDE DEF Bad
  <2>2. PICK n \in Bad : \A y \in Bad : n <= y
    BY <2>1, LeastNatural
  <2>3. n \in Nat /\ n # 0
    BY <1>2, <2>1
  <2>4. n - 1 \in Nat /\ n - 1 \notin Bad /\ (n - 1) + 1 = n
    BY <2>2, <2>3
  <2> QED BY <1>3, <2>4
<1>5. \A n \in Nat : \E g : Fits(g, n)
  BY <1>4
<1>6. ASSUME NEW n \in Nat, NEW f, NEW g, Fits(f, n), Fits(g, n), NEW d \in D, rank[d] <= n
      PROVE  f[d] = g[d]
  <2> DEFINE Good == {c \in D : rank[c] <= n => f[c] = g[c]}
  <2>1. \A c \in D : c \in Start \/ prev[c] \in Good => c \in Good
    <3> SUFFICES ASSUME NEW c \in D, c \in Start \/ prev[c] \in Good, rank[c] <= n PROVE f[c] = g[c]
      OBVIOUS
    <3>1. f[c] = Value(f, c) /\ g[c] = Value(g, c)
      BY <1>6
    <3>2. c \notin Start => f[prev[c]] = g[prev[c]]
      BY <1>1
    <3> QED BY <3>1, <3>2
  <2> HIDE DEF Good
  <2>2. D \subseteq Good
    BY <2>1, HandedOn
  <2> QED BY <1>6, <2>2 DEF Good
<1> DEFINE Of(n) == CHOOSE g : Fits(g, n)
<1>7. \A n \in Nat : Fits(Of(n), n)
  BY <1>5
<1>8. PICK g : g = [d \in D |-> Of(rank[d])[d]]
  OBVIOUS
<1> HIDE DEF Of
<1>9. ASSUME NEW d \in D PROVE g[d] = Value(g, d) /\ g[d] \in vals[d]
  <2>1. rank[d] \in Nat /\ d \in Small(rank[d])
    BY <1>1
  <2>2. PICK f : f = Of(rank[d])
    OBVIOUS
  <2>3. Fits(f, rank[d])
    BY <1>7, <2>1, <2>2
  <2>4. g[d] = f[d] /\ f[d] = Value(f, d) /\ f[d] \in vals[d]
    BY <1>8, <2>1, <2>2, <2>3
  <2>5. ASSUME d \notin Start PROVE g[prev[d]] = f[prev[d]]
    <3>1. PICK c \in D : c = prev[d] /\ rank[c] \in Nat /\ rank[c] < rank[d]
      BY <1>1, <2>5
    <3>2. PICK h : h = Of(rank[c])
      OBVIOUS
    <3>3. Fits(h, rank[c]) /\ g[c] = h[c]
      BY <1>7, <1>8, <3>1, <3>2
    <3>4. Fits(f, rank[c])
      <4>1. Small(rank[c]) \subseteq Small(rank[d])
        BY <1>1, <2>1, <3>1
      <4> QED BY <2>3, <4>1
    <3>5. h[c] = f[c]
      BY <1>6, <3>1, <3>3, <3>4
    <3> QED BY <3>1, <3>3, <3>5
  <2> QED BY <2>4, <2>5
<1> QED BY <1>8, <1>9 DEF IsRecursive

----------------------------------------------------------------------------
(* Sequences and sets of their positions.                                  *)

\* What Len, DOMAIN and the elements of a sequence are.
LEMMA InASequence ==
  ASSUME NEW S, NEW s \in Seq(S)
  PROVE  /\ DOMAIN s = 1 .. Len(s) /\ Len(s) \in Nat
         /\ \A i \in DOMAIN s : s[i] \in S
OBVIOUS

\* The least and the last member of a set of positions are in it.
LEMMA LeastPosition ==
  ASSUME NEW P, P \subseteq Nat, P # {}
  PROVE  Min(P) \in P /\ \A i \in P : Min(P) <= i
<1>1. PICK x \in P : \A y \in P : x =< y
  BY LeastNatural
<1> QED BY <1>1, Zenon DEF Min

LEMMA LastPosition ==
  ASSUME NEW n \in Nat, NEW P, P \subseteq 1 .. n, P # {}
  PROVE  Max(P) \in P /\ \A i \in P : Max(P) >= i
<1> DEFINE Q == {n - i : i \in P}
<1>1. Q \subseteq Nat /\ Q # {}
  <2>1. \A i \in P : i \in 1 .. n /\ n - i \in Nat
    OBVIOUS
  <2> QED BY <2>1
<1> HIDE DEF Q
<1>2. PICK x \in Q : \A y \in Q : x <= y
  BY <1>1, LeastNatural
<1>3. PICK p \in P : x = n - p
  BY DEF Q
<1>4. \A y \in P : p >= y
  <2> TAKE y \in P
  <2>1. n - y \in Q /\ n \in Nat /\ p \in 1 .. n /\ y \in 1 .. n
    BY DEF Q
  <2> QED BY <1>2, <1>3, <2>1
<1> QED BY <1>4, Zenon DEF Max

\* Sets of positions are finite.
LEMMA PositionsAreFinite ==
  ASSUME NEW n \in Nat, NEW P, P \subseteq 1 .. n
  PROVE  IsFiniteSet(P) /\ Cardinality(P) \in Nat
<1>1. IsFiniteSet(1 .. n)
  BY FS_Interval
<1> QED BY <1>1, FS_Subset, FS_CardinalityType

\* The two parts of a text at a line, line by line.
LEMMA UptoFrom ==
  ASSUME NEW S, NEW text \in Seq(S), NEW i \in 0 .. Len(text)
  PROVE  /\ Upto(text, i) \in Seq(S) /\ Len(Upto(text, i)) = i
         /\ \A k \in 1 .. i : Upto(text, i)[k] = text[k]
         /\ From(text, i + 1) \in Seq(S) /\ Len(From(text, i + 1)) = Len(text) - i
         /\ \A k \in 1 .. Len(text) - i : From(text, i + 1)[k] = text[i + k]
<1>1. Len(text) \in Nat /\ i \in Int /\ i + 1 \in Int /\ Len(text) \in Int
  BY InASequence
<1>2. \A k \in 1 .. Len(text) : text[k] \in S
  BY InASequence
<1>3. \A k \in 1 .. i : text[k] \in S
  BY <1>1, <1>2
<1>4. \A k \in i + 1 .. Len(text) : text[k] \in S
  BY <1>1, <1>2
<1>5. /\ SubSeq(text, 1, i) \in Seq(S)
      /\ Len(SubSeq(text, 1, i)) = IF 1 <= i THEN i - 1 + 1 ELSE 0
      /\ \A k \in 1 .. i - 1 + 1 : SubSeq(text, 1, i)[k] = text[1 + k - 1]
  BY <1>1, <1>3, SubSeqProperties
<1>6. /\ SubSeq(text, i + 1, Len(text)) \in Seq(S)
      /\ Len(SubSeq(text, i + 1, Len(text))) = IF i + 1 <= Len(text) THEN Len(text) - (i + 1) + 1 ELSE 0
      /\ \A k \in 1 .. Len(text) - (i + 1) + 1 : SubSeq(text, i + 1, Len(text))[k] = text[i + 1 + k - 1]
  BY <1>1, <1>4, SubSeqProperties
<1>7. /\ \A k \in 1 .. i : k \in 1 .. i - 1 + 1 /\ 1 + k - 1 = k
      /\ \A k \in 1 .. Len(text) - i : k \in 1 .. Len(text) - (i + 1) + 1 /\ i + 1 + k - 1 = i + k
  BY <1>1
<1>8. /\ (IF 1 <= i THEN i - 1 + 1 ELSE 0) = i
      /\ (IF i + 1 <= Len(text) THEN Len(text) - (i + 1) + 1 ELSE 0) = Len(text) - i
  BY <1>1
<1>9. /\ \A k \in 1 .. i : SubSeq(text, 1, i)[k] = text[k]
      /\ \A k \in 1 .. Len(text) - i : SubSeq(text, i + 1, Len(text))[k] = text[i + k]
  BY <1>5, <1>6, <1>7
<1> QED BY <1>5, <1>6, <1>8, <1>9 DEF Upto, From

----------------------------------------------------------------------------
(* The types of the text operators.                                        *)

\* The lines and texts that the operators write themselves.
LEMMA LinesThereAre ==
  /\ Blank \in Lines /\ Fence \in Lines /\ EmptyText \in NoteTexts
  /\ \A level \in 1 .. 6, title \in Titles : Heading(level, title) \in Lines
<1>1. "" \in Words /\ "---" \in Words
  BY TextAssumption
<1>2. Blank \in Lines /\ Fence \in Lines
  BY <1>1 DEF Lines, Blank, Fence
<1>3. EmptyText \in Seq(Lines) /\ EmptyText # <<>>
  BY <1>2 DEF EmptyText
<1>4. ASSUME NEW level \in 1 .. 6, NEW title \in Titles PROVE Heading(level, title) \in Lines
  BY <1>4 DEF Heading, Lines
<1> QED BY <1>2, <1>3, <1>4 DEF NoteTexts

\* What is cut out between the first and the last full line.
LEMMA FullLines ==
  ASSUME NEW text \in Seq(Lines), NEW full, full = {i \in DOMAIN text : text[i] # Blank}, full # {}
  PROVE  /\ Min(full) \in 1 .. Len(text) /\ Max(full) \in 1 .. Len(text) /\ Min(full) <= Max(full)
         /\ text[Min(full)] # Blank /\ text[Max(full)] # Blank
         /\ \A i \in 1 .. Len(text) : text[i] # Blank => Min(full) <= i /\ i <= Max(full)
<1>1. DOMAIN text = 1 .. Len(text) /\ Len(text) \in Nat
  BY InASequence
<1>2. full \subseteq 1 .. Len(text) /\ full \subseteq Nat
  BY <1>1
<1>3. Min(full) \in full /\ Max(full) \in full
      /\ \A i \in full : Min(full) <= i /\ Max(full) >= i
  BY <1>1, <1>2, LeastPosition, LastPosition
<1> QED BY <1>1, <1>2, <1>3

\* Each operator makes texts of texts; so do the lemmas from here on, up to a batch.
LEMMA TrimmedTypes ==
  ASSUME NEW text \in Seq(Lines)
  PROVE  TrimEnd(text) \in Seq(Lines) /\ TrimmedBlock(text) \in Seq(Lines)
<1> DEFINE full == {i \in DOMAIN text : text[i] # Blank}
<1>0. <<>> \in Seq(Lines)
  OBVIOUS
<1>1. CASE full = {}
  BY <1>0, <1>1 DEF TrimEnd, TrimmedBlock
<1>2. CASE full # {}
  <2>1. /\ Min(full) \in 1 .. Len(text) /\ Max(full) \in 1 .. Len(text) /\ Min(full) <= Max(full)
    BY <1>2, FullLines
  <2> HIDE DEF full
  <2>2. Max(full) \in 0 .. Len(text) /\ Len(text) \in Nat /\ Min(full) \in Int /\ Max(full) \in Int
    BY <2>1, InASequence
  <2>3. \A i \in Min(full) .. Max(full) : text[i] \in Lines
    BY <2>1, <2>2, InASequence
  <2>4. Upto(text, Max(full)) \in Seq(Lines)
    BY <2>2, UptoFrom
  <2>5. SubSeq(text, Min(full), Max(full)) \in Seq(Lines)
    BY <2>2, <2>3, SubSeqProperties
  <2> QED BY <1>2, <2>4, <2>5 DEF full, TrimEnd, TrimmedBlock
<1> QED BY <1>1, <1>2

\* A section ends in its text.
LEMMA SectionEnds ==
  ASSUME NEW text \in Seq(Lines), NEW i \in 1 .. Len(text), NEW deep \in BOOLEAN
  PROVE  SectionEnd(text, i, deep) \in i .. Len(text)
<1> DEFINE stops == {j \in Headings(text) : j > i /\ (deep => Level(text[j]) <= Level(text[i]))}
<1>1. DOMAIN text = 1 .. Len(text) /\ Len(text) \in Nat
  BY InASequence
<1>2. stops \subseteq i + 1 .. Len(text) /\ stops \subseteq Nat
  BY <1>1 DEF Headings
<1>3. CASE stops = {}
  BY <1>1, <1>3 DEF SectionEnd
<1>4. CASE stops # {}
  <2>1. Min(stops) \in stops
    BY <1>2, <1>4, LeastPosition
  <2>2. SectionEnd(text, i, deep) = Min(stops) - 1
    BY <1>4 DEF SectionEnd
  <2> HIDE DEF stops
  <2>3. PICK m : m = Min(stops)
    OBVIOUS
  <2>4. m \in i + 1 .. Len(text)
    BY <1>2, <2>1, <2>3
  <2>5. m - 1 \in i .. Len(text)
    BY <1>1, <2>4
  <2> QED BY <2>2, <2>3, <2>5
<1> QED BY <1>3, <1>4

LEMMA TextsOfLines ==
  ASSUME NEW s \in Seq(Lines), NEW t \in Seq(Lines)
  PROVE  /\ s \o t \in Seq(Lines) /\ Len(s \o t) = Len(s) + Len(t)
         /\ t # <<>> => s \o t \in NoteTexts
         /\ s # <<>> => s \o t \in NoteTexts
<1>1. s \o t \in Seq(Lines) /\ Len(s \o t) = Len(s) + Len(t)
  BY ConcatProperties
<1>2. s \o t = <<>> => s = <<>> /\ t = <<>>
  BY ConcatEqualIffEmpty
<1> QED BY <1>1, <1>2 DEF NoteTexts

LEMMA SectionBodies ==
  ASSUME NEW e, e.body \in NoteTexts
  PROVE  SectionBody(e) \in Seq(Lines)
<1>1. TrimmedBlock(e.body) \in Seq(Lines) /\ <<>> \in Seq(Lines)
  BY TrimmedTypes DEF NoteTexts
<1>2. <<Blank>> \in Seq(Lines)
  BY LinesThereAre
<1> QED BY <1>1, <1>2, TextsOfLines DEF SectionBody

\* What a section edit, and a literal one, carry.
LEMMA SectionOfEdit ==
  ASSUME NEW e \in Edits, e.form = "section"
  PROVE  /\ e.heading \in Words /\ Trimmed[e.heading] \in Titles /\ e.anchor \in Words /\ e.level \in 1 .. 6 /\ e.body \in NoteTexts
         /\ e.deep \in BOOLEAN /\ e.create \in BOOLEAN /\ e.place \in {"end", "after", "before"}
         /\ SectionBody(e) \in Seq(Lines)
<1>1. /\ e.heading \in Words /\ e.anchor \in Words /\ e.level \in 1 .. 6 /\ e.body \in NoteTexts
      /\ e.deep \in BOOLEAN /\ e.create \in BOOLEAN /\ e.place \in {"end", "after", "before"}
  BY DEF Edits
<1>2. Trimmed[e.heading] \in Titles
  BY <1>1, TextAssumption DEF Titles
<1> QED BY <1>1, <1>2, SectionBodies

LEMMA LiteralOfEdit ==
  ASSUME NEW e \in Edits, e.form # "section"
  PROVE  /\ e.form = "literal" /\ e.old \in NoteTexts /\ e.new \in NoteTexts
         /\ e.pick \in {<<"only">>, <<"all">>} \cup {"nth"} \X (Nat \ {0})
BY DEF Edits

LEMMA UpdatedSections ==
  ASSUME NEW text \in NoteTexts, NEW e \in Edits, e.form = "section", NEW i \in 1 .. Len(text)
  PROVE  UpdateSection(text, e, i) \in NoteTexts
<1>1. text \in Seq(Lines) /\ Len(text) \in Nat
  BY InASequence DEF NoteTexts
<1>2. SectionBody(e) \in Seq(Lines) /\ e.deep \in BOOLEAN
  BY SectionOfEdit
<1>3. PICK n : n = SectionEnd(text, i, e.deep)
  OBVIOUS
<1>4. n \in i .. Len(text)
  BY <1>1, <1>2, <1>3, SectionEnds
<1>5. i \in 0 .. Len(text) /\ n \in 0 .. Len(text)
  BY <1>1, <1>4
<1>6. Upto(text, i) \in Seq(Lines) /\ Len(Upto(text, i)) = i /\ From(text, n + 1) \in Seq(Lines)
  BY <1>1, <1>5, UptoFrom
<1>7. Upto(text, i) # <<>>
  <2>1. i # 0 /\ Len(<<>>) = 0
    BY <1>1
  <2> QED BY <1>6, <2>1
<1>8. (Upto(text, i) \o SectionBody(e)) \in NoteTexts
  BY <1>2, <1>6, <1>7, TextsOfLines
<1>9. ((Upto(text, i) \o SectionBody(e)) \o From(text, n + 1)) \in NoteTexts
  BY <1>6, <1>8, TextsOfLines DEF NoteTexts
<1> QED BY <1>3, <1>9 DEF UpdateSection

LEMMA CreatedSections ==
  ASSUME NEW text \in NoteTexts, NEW e \in Edits, e.form = "section", NEW at \in 0 .. Len(text)
  PROVE  CreateSection(text, e, at) \in NoteTexts
<1> DEFINE before == TrimEnd(Upto(text, at))
<1> DEFINE gap == IF before = <<>> THEN <<>> ELSE <<Blank>>
<1> DEFINE section == <<Heading(e.level, Trimmed[e.heading])>> \o SectionBody(e)
<1>1. text \in Seq(Lines) /\ Len(text) \in Nat
  BY InASequence DEF NoteTexts
<1>2. SectionBody(e) \in Seq(Lines) /\ <<Blank>> \in Seq(Lines) /\ <<Blank>> # <<>> /\ <<>> \in Seq(Lines)
      /\ <<Heading(e.level, Trimmed[e.heading])>> \in Seq(Lines)
  <2>1. Heading(e.level, Trimmed[e.heading]) \in Lines
    BY SectionOfEdit, LinesThereAre
  <2> QED BY <2>1, SectionOfEdit, LinesThereAre
<1>3. Upto(text, at) \in Seq(Lines) /\ From(text, at + 1) \in Seq(Lines)
  BY <1>1, UptoFrom
<1>4. before \in Seq(Lines)
  BY <1>3, TrimmedTypes
<1> HIDE DEF before
<1>5. gap \in Seq(Lines)
  BY <1>2
<1>6. section \in Seq(Lines)
  BY <1>2, TextsOfLines
<1> HIDE DEF gap, section
<1>7. (before \o gap) \in Seq(Lines)
  BY <1>4, <1>5, TextsOfLines
<1>8. (before \o gap \o section) \in Seq(Lines)
  BY <1>6, <1>7, TextsOfLines
<1>9. (before \o gap \o section \o <<Blank>>) \in Seq(Lines)
  BY <1>2, <1>8, TextsOfLines
<1>10. (before \o gap \o section \o <<Blank>> \o From(text, at + 1)) \in Seq(Lines)
  BY <1>3, <1>9, TextsOfLines
<1>11. TrimEnd(before \o gap \o section \o <<Blank>> \o From(text, at + 1)) \in Seq(Lines)
  BY <1>10, TrimmedTypes
<1>12. (TrimEnd(before \o gap \o section \o <<Blank>> \o From(text, at + 1)) \o <<Blank>>) \in NoteTexts
  BY <1>2, <1>11, TextsOfLines
<1> QED BY <1>12 DEF CreateSection, before, gap, section

LEMMA PlacesThereAre ==
  ASSUME NEW text \in NoteTexts, NEW e \in Edits, e.form = "section"
  PROVE  Places(text, e) \subseteq 0 .. Len(text)
<1>1. text \in Seq(Lines) /\ Len(text) \in Nat /\ DOMAIN text = 1 .. Len(text)
  BY InASequence DEF NoteTexts
<1>2. Anchors(text, e) \subseteq 1 .. Len(text)
  BY <1>1 DEF Titled, Headings, Anchors
<1>3. Len(text) \in 0 .. Len(text) /\ \A i \in Anchors(text, e) : i - 1 \in 0 .. Len(text)
  BY <1>1, <1>2
<1>4. \A i \in Anchors(text, e) : SectionEnd(text, i, e.deep) \in 0 .. Len(text)
  <2> TAKE i \in Anchors(text, e)
  <2>1. SectionEnd(text, i, e.deep) \in i .. Len(text) /\ i \in 1 .. Len(text)
    BY <1>1, <1>2, SectionEnds, SectionOfEdit
  <2>2. PICK n : n = SectionEnd(text, i, e.deep)
    OBVIOUS
  <2>3. n \in 0 .. Len(text)
    BY <1>1, <2>1, <2>2
  <2> QED BY <2>2, <2>3
<1>5. e.place \in {"end", "after", "before"}
  BY SectionOfEdit
<1> QED BY <1>3, <1>4, <1>5 DEF Places

LEMMA AppliedSections ==
  ASSUME NEW text \in NoteTexts, NEW e \in Edits, e.form = "section"
  PROVE  ApplySection(text, e) \subseteq NoteTexts
<1>1. text \in Seq(Lines) /\ Len(text) \in Nat /\ DOMAIN text = 1 .. Len(text)
  BY InASequence DEF NoteTexts
<1>2. Titled(text, e.heading) \subseteq 1 .. Len(text) /\ Anchors(text, e) \subseteq 1 .. Len(text)
  BY <1>1 DEF Titled, Headings, Anchors
<1>3. \A i \in Titled(text, e.heading) : UpdateSection(text, e, i) \in NoteTexts
  BY <1>2, UpdatedSections
<1>4. Places(text, e) \subseteq 0 .. Len(text)
  BY <1>1, PlacesThereAre
<1>5. \A at \in Places(text, e) : CreateSection(text, e, at) \in NoteTexts
  BY <1>4, CreatedSections
<1> QED BY <1>3, <1>5 DEF ApplySection

----------------------------------------------------------------------------
(* Literal edits.                                                          *)

IsFound(g, text, old) ==
  g = [i \in 0 .. Len(text) |->
         IF i = 0 THEN {}
         ELSE g[i - 1] \cup {j \in {i} : /\ i + Len(old) - 1 <= Len(text) /\ SubSeq(text, i, i + Len(old) - 1) = old
                                         /\ \A k \in g[i - 1] : k + Len(old) <= i}]

\* Numbers follow one another.
LEMMA CountsUp ==
  ASSUME NEW n \in Nat
  PROVE  Follows(0 .. n, [i \in 0 .. n |-> i], {0}, [i \in 0 .. n |-> i - 1])
<1> SUFFICES ASSUME NEW i \in 0 .. n, i # 0 PROVE i - 1 \in 0 .. n /\ i - 1 < i
  <2>1. [i \in 0 .. n |-> i] \in [0 .. n -> Nat]
    OBVIOUS
  <2>2. \A i \in 0 .. n : i \notin {0} => i - 1 \in 0 .. n /\ i - 1 < i
    BY <2>1
  <2> QED BY <2>1, <2>2 DEF Follows
<1> QED OBVIOUS

LEMMA FoundExists ==
  ASSUME NEW text \in NoteTexts, NEW old
  PROVE  \E g : IsFound(g, text, old)
<1> DEFINE n == Len(text)
<1> DEFINE Fits(S, i) == /\ i + Len(old) - 1 <= Len(text) /\ SubSeq(text, i, i + Len(old) - 1) = old
                         /\ \A k \in S : k + Len(old) <= i
<1>1. n \in Nat
  BY InASequence DEF NoteTexts
<1>2. PICK vals : vals = [i \in 0 .. n |-> SUBSET (1 .. i)]
  OBVIOUS
<1>3. PICK step : step = [i \in 0 .. n |-> [S \in SUBSET (1 .. (i - 1)) |-> S \cup {j \in {i} : Fits(S, i)}]]
  OBVIOUS
<1>4. PICK prev : prev = [i \in 0 .. n |-> i - 1]
  OBVIOUS
<1> HIDE DEF n, Fits
<1>5. ASSUME NEW i \in 0 .. n, i # 0 
      PROVE  prev[i] = i - 1 /\ prev[i] \in 0 .. n /\ vals[prev[i]] = SUBSET (1 .. (i - 1)) /\ vals[i] = SUBSET (1 .. i)
  BY <1>1, <1>2, <1>4, <1>5
<1>6. ASSUME NEW i \in 0 .. n, i \notin {0} PROVE step[i] \in [vals[prev[i]] -> vals[i]]
  <2>1. \A S \in SUBSET (1 .. (i - 1)) : S \cup {j \in {i} : Fits(S, i)} \in SUBSET (1 .. i)
    <3> TAKE S \in SUBSET (1 .. (i - 1))
    <3>1. (1 .. (i - 1)) \cup {i} \subseteq 1 .. i
      BY <1>1, <1>6
    <3> QED BY <3>1
  <2>2. step[i] = [S \in SUBSET (1 .. (i - 1)) |-> S \cup {j \in {i} : Fits(S, i)}]
    BY <1>3
  <2> QED BY <1>5, <1>6, <2>1, <2>2
<1>7. \A i \in 0 .. n : i \in {0} => {} \in vals[i]
  BY <1>2
<1>8. PICK g : /\ g = [i \in 0 .. n |-> IF i \in {0} THEN {} ELSE step[i][g[prev[i]]]]
               /\ \A i \in 0 .. n : g[i] \in vals[i]
  <2>1. PICK D, rank, Start, base : D = 0 .. n /\ rank = [i \in 0 .. n |-> i] /\ Start = {0} /\ base = {}
    OBVIOUS
  <2>2. Follows(D, rank, Start, prev)
    BY <1>1, <1>4, <2>1, CountsUp
  <2>3. /\ \A d \in D : d \in Start => base \in vals[d]
        /\ \A d \in D : d \notin Start => step[d] \in [vals[prev[d]] -> vals[d]]
    BY <1>6, <1>7, <2>1
  <2>4. \E g : IsRecursive(g, D, Start, prev, base, step) /\ \A d \in D : g[d] \in vals[d]
    BY <2>2, <2>3, RecursionExists
  <2> QED BY <2>1, <2>4 DEF IsRecursive
<1>9. ASSUME NEW i \in 0 .. n
      PROVE  g[i] = IF i = 0 THEN {} ELSE g[i - 1] \cup {j \in {i} : Fits(g[i - 1], i)}
  <2>1. CASE i = 0
    BY <1>8, <2>1
  <2>2. CASE i # 0
    <3>1. g[i - 1] \in SUBSET (1 .. (i - 1))
      BY <1>5, <1>8, <2>2
    <3>2. step[i][g[i - 1]] = g[i - 1] \cup {j \in {i} : Fits(g[i - 1], i)}
      BY <1>3, <3>1
    <3>3. g[i] = step[i][g[i - 1]]
      BY <1>5, <1>8, <2>2
    <3> QED BY <2>2, <3>2, <3>3
  <2> QED BY <2>1, <2>2
<1>10. g = [i \in 0 .. n |-> IF i = 0 THEN {} ELSE g[i - 1] \cup {j \in {i} : Fits(g[i - 1], i)}]
  <2>1. \E G : g = [i \in 0 .. n |-> G[i]]
    BY <1>8
  <2> QED BY <1>9, <2>1
<1> QED BY <1>10 DEF IsFound, Fits, n

\* An occurrence is a run of lines of the text.
LEMMA OccurrencesAreThere ==
  ASSUME NEW text \in NoteTexts, NEW old
  PROVE  Occurrences(text, old) \subseteq 1 .. Len(text)
<1> DEFINE found == CHOOSE g : IsFound(g, text, old)
<1>1. IsFound(found, text, old)
  BY FoundExists
<1>2. Occurrences(text, old) = found[Len(text)]
  BY DEF Occurrences, IsFound
<1> HIDE DEF found
<1>3. Len(text) \in Nat
  BY InASequence DEF NoteTexts
<1> DEFINE n == Len(text)
<1> DEFINE Good == {i \in 0 .. n : found[i] \subseteq 1 .. i}
<1>4. PICK prev : prev = [i \in 0 .. n |-> i - 1]
  OBVIOUS
<1>5. Follows(0 .. n, [i \in 0 .. n |-> i], {0}, prev)
  BY <1>3, <1>4, CountsUp
<1>6. ASSUME NEW i \in 0 .. n, i \in {0} \/ prev[i] \in Good PROVE i \in Good
  <2>1. CASE i = 0
    <3>1. found[0] = {}
      BY <1>1, <2>1 DEF IsFound
    <3> QED BY <2>1, <3>1
  <2>2. CASE i # 0
    <3>1. found[i - 1] \subseteq 1 .. (i - 1)
      BY <1>4, <1>6, <2>2
    <3>2. found[i] \subseteq found[i - 1] \cup {i}
      BY <1>1, <2>2 DEF IsFound
    <3>3. (1 .. (i - 1)) \cup {i} \subseteq 1 .. i
      BY <1>3, <2>2
    <3> QED BY <3>1, <3>2, <3>3
  <2> QED BY <2>1, <2>2
<1> HIDE DEF Good
<1>7. 0 .. n \subseteq Good
  BY <1>5, <1>6, HandedOn
<1> QED BY <1>2, <1>3, <1>7 DEF Good

\* Sets shrink by one of their elements.
LEMMA SetsShrink ==
  ASSUME NEW m \in Nat, NEW P, P \subseteq 1 .. m, NEW chosen, \A s \in SUBSET P : s # {} => chosen[s] \in s
  PROVE  Follows(SUBSET P, [s \in SUBSET P |-> Cardinality(s)], {{}}, [s \in SUBSET P |-> s \ {chosen[s]}])
<1>1. \A s \in SUBSET P : IsFiniteSet(s) /\ Cardinality(s) \in Nat
  BY PositionsAreFinite
<1>2. \A s \in SUBSET P : s # {} => s \ {chosen[s]} \in SUBSET P /\ Cardinality(s \ {chosen[s]}) < Cardinality(s)
  <2> SUFFICES ASSUME NEW s \in SUBSET P, s # {}
               PROVE  s \ {chosen[s]} \in SUBSET P /\ Cardinality(s \ {chosen[s]}) < Cardinality(s)
    OBVIOUS
  <2>1. PICK x \in s : x = chosen[s]
    OBVIOUS
  <2>2. Cardinality(s \ {x}) = Cardinality(s) - 1
    BY <1>1, FS_RemoveElement
  <2>3. Cardinality(s) \in Nat
    BY <1>1
  <2>4. Cardinality(s \ {x}) < Cardinality(s)
    BY <2>2, <2>3
  <2> QED BY <2>1, <2>4
<1>3. PICK rank : rank = [s \in SUBSET P |-> Cardinality(s)]
  OBVIOUS
<1>4. PICK prev : prev = [s \in SUBSET P |-> s \ {chosen[s]}]
  OBVIOUS
<1>5. rank \in [SUBSET P -> Nat]
  BY <1>1, <1>3
<1>6. \A s \in SUBSET P : s \notin {{}} => prev[s] \in SUBSET P /\ rank[prev[s]] < rank[s]
  BY <1>2, <1>3, <1>4
<1> QED BY <1>3, <1>4, <1>5, <1>6 DEF Follows

\* One replacement makes a text, no shorter than what is before it.
LEMMA ReplacedOne ==
  ASSUME NEW t \in Seq(Lines), NEW i \in Nat \ {0}, i - 1 <= Len(t), NEW n \in Nat, NEW new \in NoteTexts
  PROVE  Replaced(t, i, n, new) \in NoteTexts /\ Len(Replaced(t, i, n, new)) >= i - 1
<1>1. Len(t) \in Nat /\ i - 1 \in 0 .. Len(t)
  BY InASequence
<1>2. Upto(t, i - 1) \in Seq(Lines) /\ Len(Upto(t, i - 1)) = i - 1
  BY <1>1, UptoFrom
<1>3. From(t, i + n) \in Seq(Lines)
  <2>1. \A k \in i + n .. Len(t) : t[k] \in Lines
    BY <1>1, InASequence
  <2> QED BY <1>1, <2>1, SubSeqProperties DEF From
<1>4. Len(From(t, i + n)) \in Nat /\ new \in Seq(Lines) /\ Len(new) \in Nat
  BY <1>3, InASequence DEF NoteTexts
<1>5. /\ (Upto(t, i - 1) \o new) \in NoteTexts /\ (Upto(t, i - 1) \o new) \in Seq(Lines)
      /\ Len(Upto(t, i - 1) \o new) = i - 1 + Len(new)
  BY <1>2, <1>4, TextsOfLines DEF NoteTexts
<1>6. /\ (Upto(t, i - 1) \o new \o From(t, i + n)) \in NoteTexts
      /\ Len(Upto(t, i - 1) \o new \o From(t, i + n)) = i - 1 + Len(new) + Len(From(t, i + n))
  BY <1>3, <1>5, TextsOfLines DEF NoteTexts
<1>7. i - 1 + Len(new) + Len(From(t, i + n)) >= i - 1
  BY <1>1, <1>4
<1> QED BY <1>6, <1>7 DEF Replaced

IsReplaced(g, text, at, n, new) ==
  g = [s \in SUBSET at |-> IF s = {} THEN text ELSE Replaced(g[s \ {Min(s)}], Min(s), n, new)]

\* After the replacements from the last one down to the position m.
ReplacedFrom(text, s) == {t \in NoteTexts : (s = {} /\ t = text) \/ (s # {} /\ Len(t) >= Min(s) - 1)}

LEMMA ReplacesOne ==
  ASSUME NEW text \in NoteTexts, NEW at, at \subseteq 1 .. Len(text), NEW n \in Nat, NEW new \in NoteTexts,
         NEW s \in SUBSET at, s # {}, NEW t \in ReplacedFrom(text, s \ {Min(s)})
  PROVE  Replaced(t, Min(s), n, new) \in ReplacedFrom(text, s)
<1>1. Len(text) \in Nat /\ s \subseteq Nat /\ s \subseteq 1 .. Len(text)
  BY InASequence DEF NoteTexts
<1>2. PICK i \in s : i = Min(s) /\ \A j \in s : i <= j
  BY <1>1, LeastPosition
<1>3. PICK r : r = s \ {i}
  OBVIOUS
<1>4. t \in NoteTexts /\ t \in Seq(Lines) /\ Len(t) \in Nat
  BY InASequence DEF ReplacedFrom, NoteTexts
<1>5. i - 1 <= Len(t)
  <2>1. CASE r = {}
    <3>1. t = text
      BY <1>2, <1>3, <2>1 DEF ReplacedFrom
    <3> QED BY <1>1, <3>1
  <2>2. CASE r # {}
    <3>1. PICK j \in r : j = Min(r)
      BY <1>1, <1>3, <2>2, LeastPosition
    <3>2. Len(t) >= j - 1
      BY <1>2, <1>3, <2>2, <3>1 DEF ReplacedFrom
    <3>3. i < j /\ i \in Nat /\ j \in Nat
      BY <1>1, <1>2, <1>3, <3>1
    <3> QED BY <1>4, <3>2, <3>3
  <2> QED BY <2>1, <2>2
<1>6. i \in Nat \ {0}
  BY <1>1
<1>7. Replaced(t, i, n, new) \in NoteTexts /\ Len(Replaced(t, i, n, new)) >= i - 1
  BY <1>4, <1>5, <1>6, ReplacedOne
<1> QED BY <1>2, <1>7 DEF ReplacedFrom

\* Replacing at every position is well defined.
LEMMA ReplacedExists ==
  ASSUME NEW text \in NoteTexts, NEW at, at \subseteq 1 .. Len(text), NEW n \in Nat, NEW new \in NoteTexts
  PROVE  \E g : IsReplaced(g, text, at, n, new)
<1>1. Len(text) \in Nat
  BY InASequence DEF NoteTexts
<1>2. PICK chosen : chosen = [s \in SUBSET at |-> Min(s)]
  OBVIOUS
<1>3. PICK vals : vals = [s \in SUBSET at |-> ReplacedFrom(text, s)]
  OBVIOUS
<1>4. PICK D, rank, Start, prev :
        D = SUBSET at /\ rank = [s \in SUBSET at |-> Cardinality(s)] /\ Start = {{}}
        /\ prev = [s \in SUBSET at |-> s \ {chosen[s]}]
  OBVIOUS
<1>5. \A s \in SUBSET at : s # {} => chosen[s] \in s
  <2> TAKE s \in SUBSET at
  <2>1. s \subseteq Nat
    BY <1>1
  <2> QED BY <1>2, <2>1, LeastPosition
<1>6. Follows(D, rank, Start, prev)
  BY <1>1, <1>4, <1>5, SetsShrink
<1>7. PICK step : step = [s \in SUBSET at |-> [t \in ReplacedFrom(text, s \ {Min(s)}) |-> Replaced(t, Min(s), n, new)]]
  OBVIOUS
<1>8. \A s \in SUBSET at : s # {} => prev[s] = s \ {Min(s)} /\ prev[s] \in SUBSET at
  BY <1>2, <1>4
<1>9. \A s \in D : s \in Start => text \in vals[s]
  BY <1>3, <1>4 DEF ReplacedFrom
<1>10. \A s \in D : s \notin Start => step[s] \in [vals[prev[s]] -> vals[s]]
  <2> SUFFICES ASSUME NEW s \in SUBSET at, s # {} PROVE step[s] \in [vals[prev[s]] -> vals[s]]
    BY <1>4
  <2>1. \A t \in ReplacedFrom(text, s \ {Min(s)}) : Replaced(t, Min(s), n, new) \in ReplacedFrom(text, s)
    BY ReplacesOne
  <2>2. vals[prev[s]] = ReplacedFrom(text, s \ {Min(s)}) /\ vals[s] = ReplacedFrom(text, s)
    BY <1>3, <1>8
  <2>3. step[s] = [t \in ReplacedFrom(text, s \ {Min(s)}) |-> Replaced(t, Min(s), n, new)]
    BY <1>7
  <2>4. PICK V, W, m : V = ReplacedFrom(text, s \ {Min(s)}) /\ W = ReplacedFrom(text, s) /\ m = Min(s)
    OBVIOUS
  <2>5. [t \in V |-> Replaced(t, m, n, new)] \in [V -> W]
    BY <2>1, <2>4
  <2> QED BY <2>2, <2>3, <2>4, <2>5
<1>11. PICK g : IsRecursive(g, D, Start, prev, text, step) /\ \A s \in D : g[s] \in vals[s]
  BY <1>6, <1>9, <1>10, RecursionExists
<1>12. ASSUME NEW s \in SUBSET at
       PROVE  g[s] = IF s = {} THEN text ELSE Replaced(g[s \ {Min(s)}], Min(s), n, new)
  <2>1. CASE s = {}
    BY <1>4, <1>11, <2>1 DEF IsRecursive
  <2>2. CASE s # {}
    <3>1. g[s] = step[s][g[prev[s]]]
      BY <1>4, <1>11, <2>2 DEF IsRecursive
    <3>2. g[prev[s]] \in ReplacedFrom(text, s \ {Min(s)})
      BY <1>3, <1>4, <1>8, <1>11, <2>2
    <3>3. step[s][g[prev[s]]] = Replaced(g[prev[s]], Min(s), n, new)
      BY <1>7, <3>2
    <3> QED BY <1>8, <2>2, <3>1, <3>3
  <2> QED BY <2>1, <2>2
<1>13. \E G : g = [s \in SUBSET at |-> G[s]]
  BY <1>4, <1>11 DEF IsRecursive
<1> QED BY <1>12, <1>13 DEF IsReplaced

LEMMA ReplacedTexts ==
  ASSUME NEW text \in NoteTexts, NEW at, at \subseteq 1 .. Len(text), NEW n \in Nat, NEW new \in NoteTexts
  PROVE  ReplacedAll(text, at, n, new) \in NoteTexts
<1> DEFINE all == CHOOSE g : IsReplaced(g, text, at, n, new)
<1>1. IsReplaced(all, text, at, n, new)
  BY ReplacedExists
<1>2. ReplacedAll(text, at, n, new) = all[at]
  BY DEF ReplacedAll, MapThenFoldSet, IsReplaced
<1> HIDE DEF all
<1>3. Len(text) \in Nat
  BY InASequence DEF NoteTexts
<1> DEFINE Good == {s \in SUBSET at : all[s] \in ReplacedFrom(text, s)}
<1>4. PICK chosen : chosen = [s \in SUBSET at |-> Min(s)]
  OBVIOUS
<1>5. PICK D, rank, Start, prev :
        D = SUBSET at /\ rank = [s \in SUBSET at |-> Cardinality(s)] /\ Start = {{}}
        /\ prev = [s \in SUBSET at |-> s \ {chosen[s]}]
  OBVIOUS
<1>6. \A s \in SUBSET at : s # {} => chosen[s] \in s
  <2> TAKE s \in SUBSET at
  <2>1. s \subseteq Nat
    BY <1>3
  <2> QED BY <1>4, <2>1, LeastPosition
<1>7. Follows(D, rank, Start, prev)
  BY <1>3, <1>5, <1>6, SetsShrink
<1>8. ASSUME NEW s \in D, s \in Start \/ prev[s] \in Good PROVE s \in Good
  <2>1. CASE s = {}
    BY <1>1, <1>5, <2>1 DEF IsReplaced, ReplacedFrom
  <2>2. CASE s # {}
    <3>1. prev[s] = s \ {Min(s)} /\ s \in SUBSET at
      BY <1>4, <1>5
    <3>2. all[s \ {Min(s)}] \in ReplacedFrom(text, s \ {Min(s)})
      BY <1>5, <1>8, <2>2, <3>1
    <3>3. all[s] = Replaced(all[s \ {Min(s)}], Min(s), n, new)
      BY <1>1, <2>2, <3>1 DEF IsReplaced
    <3>4. PICK t \in ReplacedFrom(text, s \ {Min(s)}) : t = all[s \ {Min(s)}]
      BY <3>2
    <3>5. Replaced(t, Min(s), n, new) \in ReplacedFrom(text, s)
      BY <2>2, <3>1, ReplacesOne
    <3> QED BY <3>1, <3>3, <3>4, <3>5
  <2> QED BY <2>1, <2>2
<1> HIDE DEF Good
<1>9. D \subseteq Good
  BY <1>7, <1>8, HandedOn
<1>10. at \in Good
  BY <1>5, <1>9
<1> QED BY <1>2, <1>10 DEF Good, ReplacedFrom

\* A literal edit makes texts.
LEMMA AppliedLiterals ==
  ASSUME NEW text \in NoteTexts, NEW e \in Edits, e.form # "section"
  PROVE  ApplyLiteral(text, e) \subseteq NoteTexts
<1> DEFINE found == IF e.old = EmptyText THEN {} ELSE Occurrences(text, e.old)
<1> DEFINE AtEach(at) == {Replaced(text, i, Len(e.old), e.new) : i \in at}
<1>1. text \in Seq(Lines) /\ Len(text) \in Nat
  BY InASequence DEF NoteTexts
<1>2. e.old \in Seq(Lines) /\ Len(e.old) \in Nat /\ e.new \in NoteTexts
  BY LiteralOfEdit, InASequence DEF NoteTexts
<1>3. found \subseteq 1 .. Len(text)
  BY OccurrencesAreThere
<1> HIDE DEF found
<1>4. \A i \in 1 .. Len(text) : Replaced(text, i, Len(e.old), e.new) \in NoteTexts
  <2> TAKE i \in 1 .. Len(text)
  <2>1. i \in Nat \ {0} /\ i - 1 <= Len(text)
    BY <1>1
  <2> QED BY <1>1, <1>2, <2>1, ReplacedOne
<1>5. \A at \in SUBSET found : AtEach(at) \subseteq NoteTexts
  BY <1>3, <1>4
<1>6. ReplacedAll(text, found, Len(e.old), e.new) \in NoteTexts
  BY <1>2, <1>3, ReplacedTexts
<1>7. ApplyLiteral(text, e) \in
        {{ReplacedAll(text, at, Len(e.old), e.new) : at \in {found} \ {{}}}, AtEach({i \in found : found = {i}}),
         AtEach(Nth(found, e.pick[2]))}
  BY Zenon DEF ApplyLiteral, found
<1>8. {i \in found : found = {i}} \in SUBSET found /\ Nth(found, e.pick[2]) \in SUBSET found
  BY DEF Nth
<1> HIDE DEF AtEach
<1>9. AtEach({i \in found : found = {i}}) \subseteq NoteTexts /\ AtEach(Nth(found, e.pick[2])) \subseteq NoteTexts
  BY <1>5, <1>8
<1>10. {ReplacedAll(text, at, Len(e.old), e.new) : at \in {found} \ {{}}} \subseteq NoteTexts
  BY <1>6
<1> QED BY <1>7, <1>9, <1>10

\* An edit makes texts.
LEMMA AppliedOnce ==
  ASSUME NEW text \in NoteTexts, NEW e \in Edits
  PROVE  ApplyEdit(text, e) \subseteq NoteTexts
<1>1. CASE e.form = "section"
  BY <1>1, AppliedSections DEF ApplyEdit
<1>2. CASE e.form # "section"
  BY <1>2, AppliedLiterals, LiteralOfEdit DEF ApplyEdit
<1> QED BY <1>1, <1>2

----------------------------------------------------------------------------
(* A batch of edits.                                                       *)

IsApplied(g, text, edits) ==
  g = [s \in SUBSET (DOMAIN edits) |->
         IF s = {} THEN {text} ELSE UNION {ApplyEdit(t, edits[Max(s)]) : t \in g[s \ {Max(s)}]}]

\* The last of some edits of a batch is one of them.
LEMMA EditsInOrder ==
  ASSUME NEW edits \in Seq(Edits)
  PROVE  /\ Len(edits) \in Nat /\ DOMAIN edits = 1 .. Len(edits)
         /\ \A s \in SUBSET (DOMAIN edits) : s # {} => Max(s) \in s /\ edits[Max(s)] \in Edits
<1>1. Len(edits) \in Nat /\ DOMAIN edits = 1 .. Len(edits) /\ \A i \in DOMAIN edits : edits[i] \in Edits
  BY InASequence
<1>2. \A s \in SUBSET (DOMAIN edits) : s # {} => Max(s) \in s
  BY <1>1, LastPosition
<1>3. \A s \in SUBSET (DOMAIN edits) : s # {} => edits[Max(s)] \in Edits
  BY <1>1, <1>2
<1> QED BY <1>1, <1>2, <1>3

\* A batch is well defined.
LEMMA AppliedExists ==
  ASSUME NEW text \in NoteTexts, NEW edits \in Seq(Edits)
  PROVE  \E g : IsApplied(g, text, edits)
<1> DEFINE Each(texts, s) == UNION {ApplyEdit(t, edits[Max(s)]) : t \in texts}
<1>1. PICK chosen : chosen = [s \in SUBSET (DOMAIN edits) |-> Max(s)]
  OBVIOUS
<1>2. PICK vals : vals = [s \in SUBSET (DOMAIN edits) |-> SUBSET NoteTexts]
  OBVIOUS
<1>3. PICK D, rank, Start, prev, base :
        D = SUBSET (DOMAIN edits) /\ rank = [s \in SUBSET (DOMAIN edits) |-> Cardinality(s)] /\ Start = {{}}
        /\ prev = [s \in SUBSET (DOMAIN edits) |-> s \ {chosen[s]}] /\ base = {text}
  OBVIOUS
<1>4. \A s \in SUBSET (DOMAIN edits) : s # {} => chosen[s] \in s
  BY <1>1, EditsInOrder
<1>5. Follows(D, rank, Start, prev)
  BY <1>3, <1>4, EditsInOrder, SetsShrink
<1>6. PICK step : step = [s \in SUBSET (DOMAIN edits) |-> [texts \in SUBSET NoteTexts |-> Each(texts, s)]]
  OBVIOUS
<1>7. \A s \in SUBSET (DOMAIN edits) : s # {} => prev[s] = s \ {Max(s)} /\ prev[s] \in SUBSET (DOMAIN edits)
  BY <1>1, <1>3
<1>8. \A s \in D : s \in Start => base \in vals[s]
  BY <1>2, <1>3
<1>9. \A s \in D : s \notin Start => step[s] \in [vals[prev[s]] -> vals[s]]
  <2> SUFFICES ASSUME NEW s \in SUBSET (DOMAIN edits), s # {} PROVE step[s] \in [vals[prev[s]] -> vals[s]]
    BY <1>3
  <2>1. PICK e \in Edits : e = edits[Max(s)]
    BY EditsInOrder
  <2>2. \A texts \in SUBSET NoteTexts : UNION {ApplyEdit(t, e) : t \in texts} \in SUBSET NoteTexts
    BY AppliedOnce
  <2>3. vals[prev[s]] = SUBSET NoteTexts /\ vals[s] = SUBSET NoteTexts
    BY <1>2, <1>7
  <2>4. step[s] = [texts \in SUBSET NoteTexts |-> UNION {ApplyEdit(t, e) : t \in texts}]
    BY <1>6, <2>1
  <2> QED BY <2>2, <2>3, <2>4
<1>10. PICK g : IsRecursive(g, D, Start, prev, base, step) /\ \A s \in D : g[s] \in vals[s]
  BY <1>5, <1>8, <1>9, RecursionExists
<1>11. ASSUME NEW s \in SUBSET (DOMAIN edits)
       PROVE  g[s] = IF s = {} THEN {text} ELSE Each(g[s \ {Max(s)}], s)
  <2>1. CASE s = {}
    BY <1>3, <1>10, <2>1 DEF IsRecursive
  <2>2. CASE s # {}
    <3>1. g[s] = step[s][g[prev[s]]]
      BY <1>3, <1>10, <2>2 DEF IsRecursive
    <3>2. g[prev[s]] \in SUBSET NoteTexts
      BY <1>2, <1>3, <1>7, <1>10, <2>2
    <3>3. step[s][g[prev[s]]] = Each(g[prev[s]], s)
      BY <1>6, <3>2
    <3> QED BY <1>7, <2>2, <3>1, <3>3
  <2> QED BY <2>1, <2>2
<1>12. \E G : g = [s \in SUBSET (DOMAIN edits) |-> G[s]]
  BY <1>3, <1>10 DEF IsRecursive
<1> HIDE DEF Each
<1>13. g = [s \in SUBSET (DOMAIN edits) |-> IF s = {} THEN {text} ELSE Each(g[s \ {Max(s)}], s)]
  BY <1>11, <1>12
<1> QED BY <1>13, Zenon DEF IsApplied, Each

AppliedTo(text, edits) == (CHOOSE g : IsApplied(g, text, edits))[DOMAIN edits]

\* A batch makes texts; one of a single edit does what the edit does.
LEMMA BatchIsApplied ==
  ASSUME NEW text \in NoteTexts, NEW edits \in Seq(Edits)
  PROVE  /\ ApplyEdits(text, edits) = {t \in AppliedTo(text, edits) : HasFences(text) => HasFences(t)}
         /\ AppliedTo(text, edits) \subseteq NoteTexts
         /\ Len(edits) = 1 => AppliedTo(text, edits) = ApplyEdit(text, edits[1])
<1> DEFINE applied == CHOOSE g : IsApplied(g, text, edits)
<1>1. IsApplied(applied, text, edits)
  BY AppliedExists
<1>2. AppliedTo(text, edits) = applied[DOMAIN edits]
  BY DEF AppliedTo
<1>3. ApplyEdits(text, edits) = {t \in applied[DOMAIN edits] : HasFences(text) => HasFences(t)}
  BY DEF ApplyEdits, FoldLeft, MapThenFoldSet, IsApplied
<1> HIDE DEF applied
<1> DEFINE Good == {s \in SUBSET (DOMAIN edits) : applied[s] \subseteq NoteTexts}
<1>4. PICK chosen : chosen = [s \in SUBSET (DOMAIN edits) |-> Max(s)]
  OBVIOUS
<1>5. PICK D, rank, Start, prev :
        D = SUBSET (DOMAIN edits) /\ rank = [s \in SUBSET (DOMAIN edits) |-> Cardinality(s)] /\ Start = {{}}
        /\ prev = [s \in SUBSET (DOMAIN edits) |-> s \ {chosen[s]}]
  OBVIOUS
<1>6. \A s \in SUBSET (DOMAIN edits) : s # {} => chosen[s] \in s
  BY <1>4, EditsInOrder
<1>7. Follows(D, rank, Start, prev)
  BY <1>5, <1>6, EditsInOrder, SetsShrink
<1>8. ASSUME NEW s \in D, s \in Start \/ prev[s] \in Good PROVE s \in Good
  <2>1. CASE s = {}
    BY <1>1, <1>5, <2>1 DEF IsApplied
  <2>2. CASE s # {}
    <3>1. PICK e \in Edits : e = edits[Max(s)]
      BY <1>5, <2>2, EditsInOrder
    <3>2. PICK r : r = s \ {Max(s)} /\ r = prev[s]
      BY <1>4, <1>5
    <3>3. applied[r] \subseteq NoteTexts
      BY <1>5, <1>8, <2>2, <3>2
    <3>4. applied[s] = UNION {ApplyEdit(t, edits[Max(s)]) : t \in applied[s \ {Max(s)}]}
      BY <1>1, <1>5, <2>2, Zenon DEF IsApplied
    <3>5. applied[s] \subseteq NoteTexts
      <4>1. \A t \in applied[r] : ApplyEdit(t, e) \subseteq NoteTexts
        BY <3>3, AppliedOnce
      <4>2. applied[s] = UNION {ApplyEdit(t, e) : t \in applied[r]}
        BY <3>1, <3>2, <3>4, Zenon
      <4> QED BY <4>1, <4>2
    <3> QED BY <1>5, <3>5
  <2> QED BY <2>1, <2>2
<1> HIDE DEF Good
<1>9. D \subseteq Good
  BY <1>7, <1>8, HandedOn
<1>10. applied[DOMAIN edits] \subseteq NoteTexts
  BY <1>5, <1>9 DEF Good
<1>11. ASSUME Len(edits) = 1 PROVE applied[DOMAIN edits] = ApplyEdit(text, edits[1])
  <2>1. DOMAIN edits = {1}
    BY <1>11, EditsInOrder
  <2>2. Max({1}) = 1 /\ {1} \ {1} = {}
    <3>1. 1 \in Nat /\ {1} \subseteq 1 .. 1 /\ {1} # {}
      OBVIOUS
    <3>2. Max({1}) \in {1}
      BY <3>1, LastPosition
    <3> QED BY <3>2
  <2>3. applied[{}] = {text}
    BY <1>1 DEF IsApplied
  <2>4. applied[{1}] = UNION {ApplyEdit(t, edits[Max({1})]) : t \in applied[{1} \ {Max({1})}]}
    <3>1. {1} \in SUBSET (DOMAIN edits) /\ {1} # {}
      BY <2>1
    <3> QED BY <1>1, <3>1, Zenon DEF IsApplied
  <2>5. applied[{1} \ {Max({1})}] = {text}
    BY <2>2, <2>3, Zenon
  <2>6. applied[{1}] = UNION {ApplyEdit(t, edits[1]) : t \in {text}}
    BY <2>2, <2>4, <2>5, Zenon
  <2>7. UNION {ApplyEdit(t, edits[1]) : t \in {text}} = ApplyEdit(text, edits[1])
    <3> HIDE DEF applied
    <3>1. \A X : UNION {X} = X
      OBVIOUS
    <3>2. {ApplyEdit(t, edits[1]) : t \in {text}} = {ApplyEdit(text, edits[1])}
      BY Zenon
    <3> QED BY <3>1, <3>2
  <2> QED BY <2>1, <2>6, <2>7, Zenon
<1> QED BY <1>2, <1>3, <1>10, <1>11

----------------------------------------------------------------------------
(* Upserts.                                                                *)

\* An upsert makes a text, and the notes it keeps are one.
LEMMA MergedTexts ==
  ASSUME NEW content \in NoteTexts, NEW existing, existing \subseteq NoteTexts, NEW preserve \in BOOLEAN
  PROVE  /\ Merged(content, existing, preserve) \in NoteTexts
         /\ Finalized(content) \in NoteTexts
         /\ \A t \in NoteTexts : ManualNotes(t) \in Seq(Lines)
<1> DEFINE kept == {ManualNotes(t) : t \in existing} \ {<<>>}
<1>1. <<Blank>> \in Seq(Lines) /\ <<Blank>> # <<>> /\ <<>> \in Seq(Lines)
  BY LinesThereAre
<1>2. TrimEnd(content) \in Seq(Lines)
  BY TrimmedTypes DEF NoteTexts
<1>3. Finalized(content) \in NoteTexts
  <2>1. PICK t \in Seq(Lines) : t = IF TrimEnd(content) = <<>> THEN <<Blank>> ELSE TrimEnd(content)
    BY <1>1, <1>2
  <2>2. Finalized(content) = t \o <<Blank>>
    BY <2>1 DEF Finalized
  <2> QED BY <1>1, <2>2, TextsOfLines
<1>4. ASSUME NEW t \in NoteTexts PROVE ManualNotes(t) \in Seq(Lines)
  <2>1. CASE ManualAt(t) = {}
    BY <1>1, <2>1 DEF ManualNotes
  <2>2. CASE ManualAt(t) # {}
    <3>1. t \in Seq(Lines) /\ Len(t) \in Nat /\ DOMAIN t = 1 .. Len(t)
      BY InASequence DEF NoteTexts
    <3>2. ManualAt(t) \subseteq Nat /\ ManualAt(t) \subseteq 2 .. Len(t)
      BY <3>1 DEF ManualAt
    <3>3. PICK m \in ManualAt(t) : m = Min(ManualAt(t))
      BY <2>2, <3>2, LeastPosition
    <3>4. m - 1 \in 0 .. Len(t) /\ (m - 1) + 1 = m
      BY <3>1, <3>2
    <3>5. From(t, m) \in Seq(Lines)
      <4>1. PICK k : k = m - 1
        OBVIOUS
      <4>2. From(t, k + 1) \in Seq(Lines) /\ k + 1 = m
        BY <3>1, <3>4, <4>1, UptoFrom
      <4> QED BY <4>2
    <3> QED BY <2>2, <3>3, <3>5, TrimmedTypes DEF ManualNotes
  <2> QED BY <2>1, <2>2
<1>5. kept \subseteq Seq(Lines)
  BY <1>4
<1> HIDE DEF kept
<1>6. CASE kept # {}
  <2>1. PICK notes \in kept : notes = CHOOSE ns \in kept : TRUE
    BY <1>6
  <2>2. (Finalized(content) \o notes) \in NoteTexts
    BY <1>3, <1>5, <2>1, TextsOfLines DEF NoteTexts
  <2>3. (Finalized(content) \o notes \o <<Blank>>) \in NoteTexts
    BY <1>1, <2>2, TextsOfLines DEF NoteTexts
  <2>4. Merged(content, existing, preserve) \in {Finalized(content), Finalized(content) \o notes \o <<Blank>>}
    BY <2>1 DEF Merged, kept
  <2> QED BY <1>3, <1>4, <2>3, <2>4
<1>7. CASE kept = {}
  BY <1>3, <1>4, <1>7 DEF Merged, kept
<1> QED BY <1>6, <1>7

\* What a request carries.
LEMMA Requested ==
  ASSUME NEW req \in Requests
  PROVE  /\ req.tool = "edit_note" => req.edits \in Seq(Edits)
         /\ req.tool # "edit_note" => req.content \in NoteTexts /\ req.preserve \in BOOLEAN
         /\ req.dryRun \in BOOLEAN
<1>1. req \in Upserts \/ req \in EditNotes
  BY ToolsAssumption
<1>2. CASE req \in Upserts
  BY <1>2 DEF Upserts
<1>3. CASE req \in EditNotes
  BY <1>3 DEF EditNotes
<1> QED BY <1>1, <1>2, <1>3

\* Whatever a request makes of a text is a text.
LEMMA ResultsAreTexts ==
  ASSUME NEW req \in Requests, NEW existing, existing \subseteq NoteTexts
  PROVE  Result(req, existing) \subseteq NoteTexts
<1>1. CASE req.tool = "edit_note"
  <2>1. req.edits \in Seq(Edits)
    BY <1>1, Requested
  <2>2. \A t \in existing : ApplyEdits(t, req.edits) \subseteq NoteTexts
    <3> TAKE t \in existing
    <3>1. t \in NoteTexts
      OBVIOUS
    <3>2. /\ ApplyEdits(t, req.edits) = {u \in AppliedTo(t, req.edits) : HasFences(t) => HasFences(u)}
          /\ AppliedTo(t, req.edits) \subseteq NoteTexts
      BY <2>1, <3>1, BatchIsApplied
    <3> QED BY <3>2
  <2>3. Result(req, existing) = UNION {ApplyEdits(t, req.edits) : t \in existing}
    BY <1>1 DEF Result
  <2> QED BY <2>2, <2>3
<1>2. CASE req.tool # "edit_note"
  <2>1. Merged(req.content, existing, req.preserve) \in NoteTexts
    BY <1>2, Requested, MergedTexts
  <2> QED BY <1>2, <2>1 DEF Result
<1> QED BY <1>1, <1>2

----------------------------------------------------------------------------
(* The invariant: what a call on a mount with versions read is the note as *)
(* long as its base is the revision, and a file of which one write is open *)
(* is empty until it is filled.                                            *)

IsOpen(c) == call[c].at = "open"

SawItsBase(c) ==
  call[c].at \in {"write", "push"} =>
    /\ call[c].expect = {} \/ call[c].expect = call[c].read
    /\ call[c].base \in {Unobserved, NotThere} \cup 0 .. note.rev
    /\ call[c].base = NotThere => call[c].read = {}
    /\ call[c].base = Current /\ call[c].base # NotThere => call[c].read = Present

\* As long as the head is the one that was fetched, the mark decided by it is right.
MarkIsRight(c) ==
  call[c].at \in {"push", "delete"} =>
    /\ call[c].head \in {NotThere} \cup 0 .. note.rev
    /\ mount = "algolia" /\ call[c].head = Current =>
         /\ call[c].at = "push" /\ call[c].base # Unobserved => Present = call[c].read \/ call[c].mark = TRUE
         /\ call[c].at = "push" /\ diverged = TRUE => Resolves(call[c].req) \/ call[c].mark = TRUE
         /\ call[c].at = "delete" /\ diverged = TRUE => call[c].mark = TRUE

FileInv ==
  /\ \A c, d \in Calls : IsOpen(c) /\ IsOpen(d) => c = d
  /\ Opens => note.text = EmptyText
  /\ ~Opens => Present \subseteq meant

ToolsInv ==
  /\ ToolsTypeOK
  /\ mount # "filesystem" => \A c \in Calls : SawItsBase(c) /\ MarkIsRight(c)
  /\ mount = "filesystem" /\ ~spoiled => FileInv

\* What a call that is under way holds.
LEMMA CallTypes ==
  /\ \A k \in InFlight :
       /\ k.at \in {"write", "open", "push"} /\ k.next \in NoteTexts /\ k.next # <<>> /\ k # Idle
       /\ k.mark \in BOOLEAN
       /\ [k EXCEPT !.at = "open"] \in InFlight /\ [k EXCEPT !.at = "open"].at = "open"
  /\ \A k \in CallStates :
       /\ k.at \in {"write", "open", "push"} => k \in InFlight
       /\ k.at = "delete" => k.mark \in BOOLEAN
  /\ InFlight \subseteq CallStates /\ Idle.at = "idle" /\ Idle \in CallStates
<1>1. Idle.at = "idle" /\ Idle \in CallStates /\ InFlight \subseteq CallStates
  BY DEF Idle, CallStates
<1>2. ASSUME NEW k \in InFlight
      PROVE  /\ k.at \in {"write", "open", "push"} /\ k.next \in NoteTexts /\ k.mark \in BOOLEAN
             /\ [k EXCEPT !.at = "open"] \in InFlight /\ [k EXCEPT !.at = "open"].at = "open"
  BY <1>2 DEF InFlight
<1>3. \A k \in InFlight : k.next # <<>> /\ k # Idle
  BY <1>1, <1>2 DEF NoteTexts
<1>4. ASSUME NEW k \in CallStates
      PROVE  /\ k.at \in {"write", "open", "push"} => k \in InFlight
             /\ k.at = "delete" => k.mark \in BOOLEAN
  BY <1>1, <1>2, <1>4 DEF CallStates
<1> QED BY <1>1, <1>2, <1>3, <1>4

\* The invariant holds at the start.
LEMMA InitTools == ToolsInit => ToolsInv
<1> SUFFICES ASSUME ToolsInit PROVE ToolsInv
  OBVIOUS
<1>1. Original \in NoteTexts /\ 0 \in 0 .. MaxWrites /\ 0 \in 0 .. MaxCalls
  BY ToolsAssumption
<1>2. note \in NoteStates /\ Present \subseteq NoteTexts
  <2>1. [there |-> TRUE, text |-> Original, rev |-> 0] \in NoteStates
    BY <1>1 DEF NoteStates
  <2>2. Gone \in NoteStates
    BY <1>1, LinesThereAre DEF NoteStates, Gone
  <2>3. note \in NoteStates
    BY <2>1, <2>2 DEF ToolsInit
  <2> QED BY <2>3 DEF Present, NoteStates
<1>3. call \in [Calls -> CallStates] /\ \A c \in Calls : call[c].at = "idle" /\ FitsMount(call[c].at)
  BY CallTypes DEF ToolsInit, FitsMount
<1>4. ToolsTypeOK
  BY <1>1, <1>2, <1>3 DEF ToolsInit, ToolsTypeOK
<1>5. ~Opens /\ Present = meant /\ \A c \in Calls : ~IsOpen(c)
  BY <1>3 DEF Opens, ToolsInit, IsOpen
<1>6. FileInv
  BY <1>5 DEF FileInv
<1>7. \A c \in Calls : SawItsBase(c) /\ MarkIsRight(c)
  BY <1>3 DEF SawItsBase, MarkIsRight
<1> QED BY <1>4, <1>6, <1>7 DEF ToolsInv

\* A note that has a new revision has an entry of that version.
LEMMA CurrentNow ==
  ASSUME ToolsTypeOK
  PROVE  /\ Current \in {NotThere} \cup 0 .. note.rev /\ Current \in Int /\ note.rev \in Nat
         /\ note.there => Current = note.rev
         /\ note'.rev \in Int /\ note'.rev > note.rev => Current' = note'.rev
<1>1. note.rev \in Nat
  BY ToolsAssumption DEF ToolsTypeOK, NoteStates
<1> QED BY <1>1 DEF Current, NotThere

\* A step that leaves the calls in flight alone, or ends some of them, and the
\* note too unless it has a new revision.
LEMMA CallsStayTrue ==
  ASSUME ToolsInv, mount # "filesystem", mount' = mount, NEW c \in Calls, call'[c] \in {call[c], Idle},
         note'.rev \in Int, UNCHANGED <<note, diverged>> \/ note'.rev > note.rev
  PROVE  (SawItsBase(c) /\ MarkIsRight(c))'
<1>1. SawItsBase(c) /\ MarkIsRight(c) /\ ToolsTypeOK /\ note.rev \in Nat
  BY ToolsAssumption DEF ToolsInv, ToolsTypeOK, NoteStates
<1>2. CASE call'[c] = Idle
  BY <1>2, CallTypes DEF SawItsBase, MarkIsRight
<1>3. CASE call'[c] = call[c] /\ UNCHANGED <<note, diverged>>
  BY <1>1, <1>3 DEF SawItsBase, MarkIsRight, Present, Current
<1>4. CASE call'[c] = call[c] /\ note'.rev > note.rev
  <2>1. Current' = note'.rev
    BY <1>1, <1>4, CurrentNow
  <2>2. SawItsBase(c)'
    <3> SUFFICES ASSUME call[c].at \in {"write", "push"} PROVE SawItsBase(c)'
      BY <1>4 DEF SawItsBase
    <3>1. PICK base : base = call[c].base
      OBVIOUS
    <3>2. base \in {Unobserved, NotThere} \cup 0 .. note.rev
      BY <1>1, <3>1 DEF SawItsBase
    <3>3. base # note'.rev /\ base \in {Unobserved, NotThere} \cup 0 .. note'.rev
      BY <1>1, <1>4, <3>2 DEF Unobserved, NotThere
    <3> QED BY <1>1, <1>4, <2>1, <3>1, <3>3 DEF SawItsBase
  <2>3. MarkIsRight(c)'
    <3> SUFFICES ASSUME call[c].at \in {"push", "delete"} PROVE MarkIsRight(c)'
      BY <1>4 DEF MarkIsRight
    <3>1. PICK head : head = call[c].head
      OBVIOUS
    <3>2. head \in {NotThere} \cup 0 .. note.rev
      BY <1>1, <3>1 DEF MarkIsRight
    <3>3. head # note'.rev /\ head \in {NotThere} \cup 0 .. note'.rev
      BY <1>1, <1>4, <3>2 DEF NotThere
    <3> QED BY <1>4, <2>1, <3>1, <3>3 DEF MarkIsRight
  <2> QED BY <2>2, <2>3
<1> QED BY <1>2, <1>3, <1>4

\* Calls that stay, end, or take a step of their kind of mount still fit it.
LEMMA FitsStays ==
  ASSUME ToolsTypeOK, mount' = mount,
         \A d \in Calls : call'[d] \in {call[d], Idle} \/ FitsMount(call'[d].at)
  PROVE  \A d \in Calls : FitsMount(call[d].at)'
BY CallTypes DEF ToolsTypeOK, FitsMount

\* A change of the note is one revision.
LEMMA ChangesNote ==
  ASSUME ToolsTypeOK, NEW there \in BOOLEAN, NEW text \in NoteTexts, Changes(there, text)
  PROVE  note' \in NoteStates /\ note'.there = there /\ note'.text = text /\ note'.rev \in Nat /\ note'.rev > note.rev
<1>1. note.rev \in 0 .. MaxWrites /\ MaxWrites \in Nat
  BY ToolsAssumption DEF ToolsTypeOK, NoteStates
<1>2. note.rev + 1 \in 0 .. MaxWrites /\ note' = [there |-> there, text |-> text, rev |-> note.rev + 1]
  BY <1>1 DEF Changes
<1> QED BY <1>1, <1>2 DEF NoteStates

\* What a call reads before its write, and the base that goes with it.
LEMMA PriorTypes ==
  ASSUME ToolsTypeOK, NEW failed \in BOOLEAN
  PROVE  LET prior == PriorNote(failed)
         IN  /\ prior.existing \subseteq NoteTexts /\ prior.base \in Int
             /\ prior.base \in {Unobserved, NotThere} \cup 0 .. note.rev
             /\ prior.base = NotThere => prior.existing = {}
             /\ prior.base = Current /\ prior.base # NotThere => prior.existing = Present
<1>1. note.rev \in Nat /\ note.text \in NoteTexts /\ note.there \in BOOLEAN
      /\ Current \in {NotThere} \cup 0 .. note.rev /\ Present \subseteq NoteTexts
  <2>1. note.rev \in Nat /\ note.text \in NoteTexts /\ note.there \in BOOLEAN
    BY ToolsAssumption DEF ToolsTypeOK, NoteStates
  <2> QED BY <2>1, CurrentNow DEF Present
<1>2. FromRead \in {Unobserved, note.rev} /\ Unobserved \in Int /\ NotThere \in Int /\ Unobserved # NotThere
      /\ Unobserved # Current
  BY <1>1 DEF FromRead, Unobserved, NotThere
<1>3. CASE failed
  <2>1. PriorNote(failed).existing = {} /\ PriorNote(failed).base = Unobserved
    BY <1>3 DEF PriorNote
  <2> QED BY <1>2, <2>1
<1>4. CASE ~failed /\ Present # {}
  <2>1. PriorNote(failed).existing = Present /\ PriorNote(failed).base = FromRead
    BY <1>4 DEF PriorNote
  <2>2. FromRead # NotThere
    BY <1>1, <1>2 DEF Unobserved, NotThere
  <2> QED BY <1>1, <1>2, <2>1, <2>2
<1>5. CASE ~failed /\ Present = {}
  BY <1>1, <1>2, <1>5 DEF PriorNote
<1> QED BY <1>3, <1>4, <1>5

\* The steps of one call.
LEMMA CallsKeep ==
  ASSUME ToolsInv, NEW c \in Calls, Call(c) \/ Refused(c) \/ DeleteNote(c) \/ WriteRefused(c)
  PROVE  ToolsInv'
<1>0. /\ ToolsTypeOK /\ call \in [Calls -> CallStates] /\ note \in NoteStates
      /\ note.text \in NoteTexts /\ note.there \in BOOLEAN /\ note.rev \in Nat
  BY ToolsAssumption DEF ToolsInv, ToolsTypeOK, NoteStates
<1>1. CASE Call(c)
  <2>1. PICK req \in Requests, expect \in {{}} \cup {{t} : t \in known}, failed \in BOOLEAN :
          /\ HashHolds(expect, PriorNote(failed).existing)
          /\ \E next \in Result(req, PriorNote(failed).existing) :
               call' = [call EXCEPT ![c] = Writing(req, expect, PriorNote(failed).existing, PriorNote(failed).base, next)]
    BY <1>1 DEF Call
  <2>2. PICK read, base : read = PriorNote(failed).existing /\ base = PriorNote(failed).base
    OBVIOUS
  <2>3. PICK next \in Result(req, read) : call' = [call EXCEPT ![c] = Writing(req, expect, read, base, next)]
    BY <2>1, <2>2
  <2>4. /\ read \subseteq NoteTexts /\ base \in Int /\ base \in {Unobserved, NotThere} \cup 0 .. note.rev
        /\ base = NotThere => read = {}
        /\ base = Current /\ base # NotThere => read = Present
        /\ expect = {} \/ expect = read
    BY <1>0, <2>1, <2>2, PriorTypes DEF HashHolds
  <2>5. next \in NoteTexts /\ expect \subseteq NoteTexts
    BY <1>0, <2>1, <2>3, <2>4, ResultsAreTexts DEF ToolsTypeOK
  <2>6. PICK k : k = Writing(req, expect, read, base, next)
    OBVIOUS
  <2>7. /\ k \in InFlight /\ k.at = "write" /\ k.expect = expect /\ k.read = read /\ k.base = base
    BY <2>4, <2>5, <2>6 DEF Writing, InFlight, NotThere
  <2>8. call' = [call EXCEPT ![c] = k] /\ call'[c] = k /\ \A d \in Calls : d # c => call'[d] = call[d]
    BY <1>0, <2>3, <2>6
  <2>9. /\ call' \in [Calls -> CallStates] /\ calls' \in 0 .. MaxCalls
        /\ UNCHANGED <<mount, note, diverged, known, meant, spoiled>>
    BY <1>0, <1>1, <2>7, <2>8, ToolsAssumption DEF Call, ToolsTypeOK, CallStates
  <2>10. ToolsTypeOK'
    <3>1. FitsMount(call'[c].at)
      BY <2>7, <2>8 DEF FitsMount
    <3>2. \A d \in Calls : FitsMount(call[d].at)'
      BY <1>0, <2>8, <2>9, <3>1, FitsStays
    <3> QED BY <1>0, <2>9, <3>2 DEF ToolsTypeOK
  <2>11. ASSUME mount # "filesystem", NEW d \in Calls PROVE (SawItsBase(d) /\ MarkIsRight(d))'
    <3>1. CASE d = c
      BY <2>4, <2>7, <2>8, <2>9, <3>1 DEF SawItsBase, MarkIsRight, Present, Current
    <3>2. CASE d # c
      BY <1>0, <2>8, <2>9, <2>11, <3>2, CallsStayTrue
    <3> QED BY <3>1, <3>2
  <2>12. (\A d \in Calls : IsOpen(d)' <=> IsOpen(d)) /\ (Opens' <=> Opens) /\ (Present' = Present)
    <3>1. call[c].at # "open"
      BY <1>1, CallTypes DEF Call
    <3> QED BY <2>7, <2>8, <2>9, <3>1 DEF IsOpen, Opens, Present, Current
  <2>13. FileInv => FileInv'
    BY <2>9, <2>12 DEF FileInv
  <2> QED BY <2>9, <2>10, <2>11, <2>13 DEF ToolsInv
<1>2. CASE Refused(c)
  <2>1. calls' \in 0 .. MaxCalls /\ UNCHANGED <<mount, note, diverged, call, known, meant, spoiled>>
    BY <1>0, <1>2, ToolsAssumption DEF Refused, ToolsTypeOK
  <2>2. ToolsTypeOK'
    BY <1>0, <2>1 DEF ToolsTypeOK, FitsMount
  <2>3. /\ \A d \in Calls : (SawItsBase(d)' <=> SawItsBase(d)) /\ (MarkIsRight(d)' <=> MarkIsRight(d))
        /\ FileInv' <=> FileInv
    BY <2>1 DEF SawItsBase, MarkIsRight, FileInv, IsOpen, Opens, Present, Current
  <2> QED BY <2>1, <2>2, <2>3 DEF ToolsInv
<1>3. CASE DeleteNote(c)
  <2>1. PICK k : k = Deleting
    OBVIOUS
  <2>2. /\ mount # "filesystem" /\ call[c] = Idle /\ calls < MaxCalls /\ calls' = calls + 1
        /\ call' = IF note.there THEN [call EXCEPT ![c] = k] ELSE call
        /\ UNCHANGED <<mount, note, diverged, known, meant, spoiled>>
    BY <1>3, <2>1 DEF DeleteNote
  <2>3. k \in CallStates /\ k.at = "delete" /\ k.head = note.rev /\ (diverged = TRUE => k.mark = TRUE)
    BY <1>0, <2>1 DEF Deleting, CallStates, ToolsTypeOK
  <2>4. /\ call' \in [Calls -> CallStates] /\ call'[c] \in {k, call[c]}
        /\ \A d \in Calls : d # c => call'[d] = call[d]
    BY <1>0, <2>2, <2>3
  <2>5. calls' \in 0 .. MaxCalls
    BY <1>0, <2>2, ToolsAssumption DEF ToolsTypeOK
  <2>6. ToolsTypeOK'
    <3>1. FitsMount(k.at)
      BY <2>2, <2>3 DEF FitsMount
    <3>2. \A d \in Calls : FitsMount(call[d].at)'
      BY <1>0, <2>2, <2>4, <3>1, FitsStays
    <3> QED BY <1>0, <2>2, <2>4, <2>5, <3>2 DEF ToolsTypeOK
  <2>7. ASSUME NEW d \in Calls PROVE (SawItsBase(d) /\ MarkIsRight(d))'
    <3>1. CASE call'[d] = call[d]
      BY <1>0, <2>2, <2>7, <3>1, CallsStayTrue
    <3>2. CASE call'[d] = k
      BY <1>0, <2>2, <2>3, <3>2 DEF SawItsBase, MarkIsRight
    <3> QED BY <2>4, <2>7, <3>1, <3>2
  <2> QED BY <2>2, <2>6, <2>7 DEF ToolsInv
<1>4. CASE WriteRefused(c)
  <2>1. /\ call[c].at \in {"write", "push", "delete"} /\ call' = [call EXCEPT ![c] = Idle]
        /\ UNCHANGED <<mount, note, diverged, known, calls, meant, spoiled>>
    BY <1>4 DEF WriteRefused, Ends
  <2>2. call' \in [Calls -> CallStates] /\ (\A d \in Calls : call'[d] \in {call[d], Idle})
        /\ call'[c] = Idle /\ \A d \in Calls : d # c => call'[d] = call[d]
    BY <1>0, <2>1, CallTypes
  <2>3. (\A d \in Calls : IsOpen(d)' <=> IsOpen(d)) /\ (Opens' <=> Opens)
    BY <2>1, <2>2, CallTypes DEF IsOpen, Opens
  <2>4. ToolsTypeOK'
    <3>1. \A d \in Calls : FitsMount(call[d].at)'
      BY <1>0, <2>1, <2>2, FitsStays
    <3> QED BY <1>0, <2>1, <2>2, <3>1 DEF ToolsTypeOK
  <2>5. mount # "filesystem" => \A d \in Calls : (SawItsBase(d) /\ MarkIsRight(d))'
    BY <1>0, <2>1, <2>2, CallsStayTrue
  <2>6. FileInv => FileInv'
    BY <2>1, <2>3 DEF FileInv, Present, Current
  <2> QED BY <2>1, <2>4, <2>5, <2>6 DEF ToolsInv
<1> QED BY <1>1, <1>2, <1>3, <1>4

\* Those of a write to CouchDB or Algolia that is under way too.
LEMMA RemotesKeep ==
  ASSUME ToolsInv, NEW c \in Calls, Land(c) \/ Fetch(c) \/ Push(c) \/ Delete(c)
  PROVE  ToolsInv'
<1>0. /\ ToolsTypeOK /\ call \in [Calls -> CallStates] /\ note \in NoteStates
      /\ note.text \in NoteTexts /\ note.there \in BOOLEAN /\ note.rev \in Nat /\ EmptyText \in NoteTexts
  BY ToolsAssumption, LinesThereAre DEF ToolsInv, ToolsTypeOK, NoteStates
<1>1. /\ mount # "filesystem" /\ mount' = mount
      /\ call[c].at \in {"write", "push", "delete"} /\ UNCHANGED <<calls, spoiled>>
  <2>1. CASE Land(c) \/ Fetch(c)
    BY <2>1 DEF Land, Fetch
  <2>2. CASE Push(c) \/ Delete(c)
    <3>1. call[c].at \in {"push", "delete"} /\ FitsMount(call[c].at)
      BY <1>0, <2>2 DEF Push, Delete, ToolsTypeOK
    <3>2. mount # "filesystem"
      BY <3>1 DEF FitsMount
    <3> QED BY <2>2, <3>1, <3>2 DEF Push, Delete
  <2> QED BY <2>1, <2>2
<1>2. ASSUME Land(c) \/ Push(c) \/ Delete(c) PROVE ToolsInv'
  <2>1. call' = [call EXCEPT ![c] = Idle]
    BY <1>2 DEF Land, Push, Delete, Written, Ends
  <2>2. call' \in [Calls -> CallStates] /\ (\A d \in Calls : call'[d] \in {call[d], Idle})
    BY <1>0, <2>1, CallTypes
  <2>3. note' \in NoteStates /\ note'.rev \in Nat /\ note'.rev > note.rev
    <3>1. CASE Land(c) \/ Push(c)
      <4>1. call[c].next \in NoteTexts
        BY <1>0, <1>1, <3>1, CallTypes DEF Land, Push
      <4> QED BY <1>0, <3>1, <4>1, ChangesNote DEF Land, Push
    <3>2. CASE Delete(c)
      BY <1>0, <3>2, ChangesNote DEF Delete, Removes
    <3> QED BY <1>2, <3>1, <3>2
  <2>4. diverged' \in BOOLEAN /\ known' \subseteq NoteTexts /\ meant' \subseteq NoteTexts
    <3>1. CASE Land(c) \/ Push(c)
      <4>1. call[c] \in InFlight
        BY <1>0, <1>1, <3>1, CallTypes DEF Land, Push
      <4>2. call[c].next \in NoteTexts /\ call[c].mark \in BOOLEAN
        BY <4>1, CallTypes
      <4> QED BY <1>0, <3>1, <4>2 DEF Land, Push, Written, ToolsTypeOK
    <3>2. CASE Delete(c)
      <4>1. call[c].mark \in BOOLEAN
        BY <1>0, <3>2, CallTypes DEF Delete
      <4> QED BY <1>0, <3>2, <4>1 DEF Delete, ToolsTypeOK
    <3> QED BY <1>2, <3>1, <3>2
  <2>5. \A d \in Calls : FitsMount(call[d].at)'
    BY <1>0, <1>1, <2>2, FitsStays
  <2>6. ToolsTypeOK'
    BY <1>0, <1>1, <2>2, <2>3, <2>4, <2>5 DEF ToolsTypeOK
  <2>7. \A d \in Calls : (SawItsBase(d) /\ MarkIsRight(d))'
    BY <1>1, <2>2, <2>3, CallsStayTrue
  <2> QED BY <1>1, <2>6, <2>7 DEF ToolsInv
<1>3. CASE Fetch(c)
  <2>1. PICK req, mark : req = call[c].req /\ mark = (Forks(call[c].base) \/ (diverged /\ ~Resolves(req)))
    OBVIOUS
  <2>2. /\ mount = "algolia" /\ call[c].at = "write" /\ UNCHANGED <<note, diverged>>
        /\ \/ Written(c)
           \/ /\ call' = [call EXCEPT ![c].at = "push", ![c].head = Current, ![c].mark = mark]
              /\ UNCHANGED <<known, meant>>
    BY <1>3, <2>1 DEF Fetch
  <2>3. call[c] \in InFlight /\ call[c].next \in NoteTexts /\ mark \in BOOLEAN /\ Current \in Int
    BY <1>0, <2>1, <2>2, CallTypes, CurrentNow
  <2>4. known' \subseteq NoteTexts /\ meant' \subseteq NoteTexts
    BY <1>0, <2>2, <2>3 DEF Written, ToolsTypeOK
  <2>5. PICK k : k = [call[c] EXCEPT !.at = "push", !.head = Current, !.mark = mark]
    OBVIOUS
  <2>6. /\ k \in CallStates /\ k.at = "push" /\ k.head = Current /\ k.mark = mark
        /\ k.req = req /\ k.base = call[c].base /\ k.read = call[c].read /\ k.expect = call[c].expect
    BY <2>1, <2>3, <2>5 DEF CallStates, InFlight
  <2>7. /\ call' \in [Calls -> CallStates] /\ call'[c] \in {k, Idle}
        /\ \A d \in Calls : d # c => call'[d] = call[d]
    <3>1. CASE Written(c)
      BY <1>0, <3>1, CallTypes DEF Written, Ends
    <3>2. CASE call' = [call EXCEPT ![c].at = "push", ![c].head = Current, ![c].mark = mark]
      <4>1. call' = [call EXCEPT ![c] = k]
        BY <1>0, <2>5, <3>2
      <4> QED BY <1>0, <2>6, <4>1
    <3> QED BY <2>2, <3>1, <3>2
  <2>8. \A d \in Calls : FitsMount(call[d].at)'
    <3>1. FitsMount(k.at)
      BY <2>2, <2>6 DEF FitsMount
    <3> QED BY <1>0, <1>1, <2>7, <3>1, FitsStays
  <2>9. ToolsTypeOK'
    BY <1>0, <1>1, <2>2, <2>4, <2>7, <2>8 DEF ToolsTypeOK
  <2>10. SawItsBase(c)
    BY <1>1 DEF ToolsInv
  <2>11. Current' = Current /\ Present' = Present /\ note'.rev = note.rev
    BY <1>1, <2>2 DEF Current, Present
  <2>12. ASSUME call'[c] = k PROVE (SawItsBase(c) /\ MarkIsRight(c))'
    <3>1. SawItsBase(c)'
      BY <2>2, <2>6, <2>10, <2>11, <2>12 DEF SawItsBase
    <3>2. Forks(call[c].base) \/ call[c].base = Unobserved \/ Present = call[c].read
      <4>1. CASE call[c].base = NotThere
        BY <1>0, <2>2, <2>10, <4>1 DEF Forks, SawItsBase, Present
      <4>2. CASE call[c].base # NotThere
        BY <2>2, <2>10, <4>2 DEF Forks, SawItsBase
      <4> QED BY <4>1, <4>2
    <3>3. (Forks(call[c].base) => mark = TRUE) /\ (diverged = TRUE => Resolves(req) \/ mark = TRUE)
      BY <2>1, <2>3
    <3>4. Current \in {NotThere} \cup 0 .. note.rev
      BY <1>0, CurrentNow
    <3>5. MarkIsRight(c)'
      BY <2>2, <2>6, <2>11, <2>12, <3>2, <3>3, <3>4 DEF MarkIsRight
    <3> QED BY <3>1, <3>5
  <2>13. \A d \in Calls : (SawItsBase(d) /\ MarkIsRight(d))'
    <3> TAKE d \in Calls
    <3>1. CASE d = c
      <4>1. CASE call'[c] = k
        BY <2>12, <3>1, <4>1
      <4>2. CASE call'[c] = Idle
        BY <3>1, <4>2, CallTypes DEF SawItsBase, MarkIsRight
      <4> QED BY <2>7, <4>1, <4>2
    <3>2. CASE d # c
      BY <1>0, <1>1, <2>2, <2>7, <3>2, CallsStayTrue
    <3> QED BY <3>1, <3>2
  <2> QED BY <1>1, <2>9, <2>13 DEF ToolsInv
<1> QED BY <1>2, <1>3

\* so do those of the write of a file,
LEMMA FilesKeep ==
  ASSUME ToolsInv, NEW c \in Calls, Open(c) \/ Fill(c) \/ FillFails(c)
  PROVE  ToolsInv'
<1>0. /\ ToolsTypeOK /\ call \in [Calls -> CallStates] /\ note \in NoteStates
      /\ note.text \in NoteTexts /\ note.there \in BOOLEAN /\ note.rev \in 0 .. MaxWrites
      /\ mount \in {"filesystem", "couchdb", "algolia"} /\ diverged \in BOOLEAN
  BY DEF ToolsInv, ToolsTypeOK, NoteStates
<1>1. mount = "filesystem" /\ mount' = mount
  <2>1. CASE Open(c)
    BY <2>1 DEF Open
  <2>2. CASE Fill(c) \/ FillFails(c)
    <3>1. call[c].at = "open" /\ FitsMount(call[c].at)
      BY <1>0, <2>2 DEF ToolsTypeOK, Fill, FillFails
    <3> QED BY <2>2, <3>1 DEF FitsMount, Fill, FillFails
  <2> QED BY <2>1, <2>2
<1>2. CASE Open(c)
  <2>1. /\ call[c].at = "write" /\ Changes(TRUE, EmptyText)
        /\ call' = [call EXCEPT ![c].at = "open"]
        /\ spoiled' = (spoiled \/ Opens)
        /\ UNCHANGED <<mount, diverged, known, calls, meant>>
    BY <1>2 DEF Open
  <2>2. call[c] \in InFlight
    BY <1>0, <2>1, CallTypes
  <2>3. PICK k \in InFlight : k = [call[c] EXCEPT !.at = "open"] /\ k.at = "open"
    BY <2>2, CallTypes
  <2>4. /\ call' \in [Calls -> CallStates] /\ call'[c].at = "open"
        /\ \A d \in Calls : d # c => call'[d] = call[d]
    <3>1. k \in CallStates /\ call' = [call EXCEPT ![c] = k]
      BY <1>0, <2>1, <2>3, CallTypes
    <3> QED BY <1>0, <2>3, <3>1
  <2>5. note' \in NoteStates /\ note'.there /\ note'.text = EmptyText
    BY <1>0, <2>1, ChangesNote, LinesThereAre
  <2>6. ToolsTypeOK'
    <3>1. spoiled' \in BOOLEAN
      BY <2>1
    <3>2. \A d \in Calls : FitsMount(call[d].at)'
      <4>1. FitsMount(call'[c].at)
        BY <1>1, <2>4 DEF FitsMount
      <4> QED BY <1>0, <1>1, <2>4, <4>1, FitsStays
    <3> QED BY <1>0, <1>1, <2>1, <2>4, <2>5, <3>1, <3>2 DEF ToolsTypeOK
  <2>7. ASSUME ~spoiled' PROVE FileInv'
    <3>1. ~Opens
      BY <2>1, <2>7
    <3>2. Opens' /\ \A d \in Calls : IsOpen(d)' => d = c
      BY <2>4, <3>1 DEF Opens, IsOpen
    <3> QED BY <2>5, <3>2 DEF FileInv
  <2> QED BY <1>1, <2>6, <2>7 DEF ToolsInv
<1>3. CASE Fill(c)
  <2>1. PICK next, beyond :
          /\ next = call[c].next /\ beyond = IF Len(next) >= Len(note.text) THEN <<>> ELSE From(note.text, Len(next) + 1)
          /\ note' = IF note.there THEN [note EXCEPT !.text = next \o beyond] ELSE note
          /\ known' = known \cup {next} /\ meant' = meant \cup {next}
    BY <1>3 DEF Fill, Written
  <2>2. call[c].at = "open" /\ call' = [call EXCEPT ![c] = Idle] /\ UNCHANGED <<mount, diverged, calls, spoiled>>
    BY <1>3 DEF Fill, Written, Ends
  <2>3. next \in NoteTexts /\ next \in Seq(Lines) /\ Len(next) \in Nat \ {0}
    <3>1. call[c] \in InFlight
      BY <1>0, <2>2, CallTypes
    <3>2. next \in NoteTexts /\ next \in Seq(Lines) /\ next # <<>>
      BY <2>1, <3>1, CallTypes DEF NoteTexts
    <3> QED BY <3>2, EmptySeq
  <2>4. beyond \in Seq(Lines)
    <3>1. note.text \in Seq(Lines) /\ Len(note.text) \in Nat /\ <<>> \in Seq(Lines)
      BY <1>0, InASequence DEF NoteTexts
    <3>2. CASE Len(next) < Len(note.text)
      <4>1. Len(next) \in 0 .. Len(note.text)
        BY <2>3, <3>1, <3>2
      <4>2. From(note.text, Len(next) + 1) \in Seq(Lines)
        BY <3>1, <4>1, UptoFrom
      <4> QED BY <2>1, <2>3, <3>1, <3>2, <4>2
    <3> QED BY <2>1, <2>3, <3>1, <3>2
  <2>5. next \o beyond \in NoteTexts
    BY <2>3, <2>4, TextsOfLines DEF NoteTexts
  <2>6. note' \in NoteStates /\ note'.there = note.there /\ (note.there => note'.text = next \o beyond)
        /\ (~note.there => note' = note)
    BY <1>0, <2>1, <2>5 DEF NoteStates
  <2>7. call' \in [Calls -> CallStates] /\ call'[c] = Idle /\ \A d \in Calls : d # c => call'[d] = call[d]
    BY <1>0, <2>2, CallTypes
  <2>8. ToolsTypeOK'
    <3>1. \A d \in Calls : FitsMount(call[d].at)'
      BY <1>0, <1>1, <2>7, FitsStays
    <3> QED BY <1>0, <1>1, <2>1, <2>2, <2>3, <2>6, <2>7, <3>1 DEF ToolsTypeOK
  <2>9. ASSUME ~spoiled' PROVE FileInv'
    <3>1. FileInv /\ Opens
      BY <1>1, <2>2, <2>9 DEF ToolsInv, Opens
    <3>2. note.text = EmptyText /\ \A d \in Calls : IsOpen(d) => d = c
      BY <2>2, <3>1 DEF FileInv, IsOpen
    <3>3. ~Opens' /\ \A d \in Calls : ~IsOpen(d)'
      BY <2>7, <3>2, CallTypes DEF Opens, IsOpen
    <3>4. Len(EmptyText) = 1
      BY DEF EmptyText
    <3>5. beyond = <<>>
      BY <2>1, <2>3, <3>2, <3>4
    <3>6. note.there => note'.text = next
      BY <2>3, <2>6, <3>5, ConcatEmptySeq
    <3>7. Present' \subseteq meant'
      BY <1>1, <2>1, <2>6, <3>6 DEF Present
    <3> QED BY <3>3, <3>7 DEF FileInv
  <2> QED BY <1>1, <2>8, <2>9 DEF ToolsInv
<1>4. CASE FillFails(c)
  <2>1. /\ call' = [call EXCEPT ![c] = Idle] /\ spoiled'
        /\ UNCHANGED <<mount, note, diverged, known, calls, meant>>
    BY <1>4 DEF FillFails, Ends
  <2>2. call' \in [Calls -> CallStates] /\ \A d \in Calls : call'[d] \in {call[d], Idle}
    BY <1>0, <2>1, CallTypes
  <2>3. spoiled' \in BOOLEAN
    BY <1>4 DEF FillFails
  <2>4. ToolsTypeOK'
    <3>1. \A d \in Calls : FitsMount(call[d].at)'
      BY <1>0, <1>1, <2>2, FitsStays
    <3> QED BY <1>0, <1>1, <2>1, <2>2, <2>3, <3>1 DEF ToolsTypeOK
  <2> QED BY <1>1, <2>1, <2>4 DEF ToolsInv
<1> QED BY <1>2, <1>3, <1>4

\* and those that change the note without a call, or end every call;
LEMMA NoteKeeps ==
  ASSUME ToolsInv, ReadFile \/ ProcessStops \/ Person
  PROVE  ToolsInv'
<1>0. /\ ToolsTypeOK /\ call \in [Calls -> CallStates] /\ note \in NoteStates
      /\ note.text \in NoteTexts /\ note.there \in BOOLEAN /\ note.rev \in Nat
  BY ToolsAssumption DEF ToolsInv, ToolsTypeOK, NoteStates
<1>1. CASE ReadFile
  <2>1. known' = known \cup Present /\ UNCHANGED <<mount, note, diverged, call, calls, meant, spoiled>>
    BY <1>1 DEF ReadFile
  <2>2. ToolsTypeOK'
    BY <1>0, <2>1 DEF ToolsTypeOK, Present, FitsMount
  <2>3. /\ \A d \in Calls : (SawItsBase(d)' <=> SawItsBase(d)) /\ (MarkIsRight(d)' <=> MarkIsRight(d))
        /\ FileInv' <=> FileInv
    BY <2>1 DEF SawItsBase, MarkIsRight, FileInv, IsOpen, Opens, Present, Current
  <2> QED BY <2>1, <2>2, <2>3 DEF ToolsInv
<1>2. CASE ProcessStops
  <2>1. call' = [c \in Calls |-> Idle] /\ spoiled' = (spoiled \/ Opens) /\ UNCHANGED <<mount, note, diverged, known, calls, meant>>
    BY <1>2 DEF ProcessStops
  <2>2. call' \in [Calls -> CallStates] /\ \A c \in Calls : call'[c] = Idle /\ call'[c].at = "idle"
    BY <2>1, CallTypes
  <2>3. spoiled' \in BOOLEAN
    BY <2>1
  <2>4. ToolsTypeOK'
    <3>1. \A d \in Calls : FitsMount(call[d].at)'
      BY <1>0, <2>1, <2>2, FitsStays
    <3> QED BY <1>0, <2>1, <2>2, <2>3, <3>1 DEF ToolsTypeOK
  <2>5. \A c \in Calls : (SawItsBase(c) /\ MarkIsRight(c))'
    BY <2>2 DEF SawItsBase, MarkIsRight
  <2>6. ~spoiled' /\ FileInv => FileInv'
    BY <2>1, <2>2 DEF FileInv, IsOpen, Opens, Present, Current
  <2> QED BY <2>1, <2>4, <2>5, <2>6 DEF ToolsInv
<1>3. CASE Person
  <2>1. /\ \/ \E t \in Texts : Changes(TRUE, t) /\ meant' = meant \cup {t}
           \/ Removes /\ meant' = meant
        /\ spoiled' = (spoiled \/ Opens)
        /\ UNCHANGED <<mount, diverged, call, known, calls>>
    BY <1>3 DEF Person
  <2>2. Texts \subseteq NoteTexts /\ EmptyText \in NoteTexts
    BY ToolsAssumption, LinesThereAre
  <2>3. /\ note' \in NoteStates /\ note'.rev \in Nat /\ note'.rev > note.rev
        /\ note'.there => note'.text \in meant'
        /\ meant' \subseteq NoteTexts
    <3>1. CASE Removes /\ meant' = meant
      <4>1. note' \in NoteStates /\ ~note'.there /\ note'.rev \in Nat /\ note'.rev > note.rev
        BY <1>0, <2>2, <3>1, ChangesNote DEF Removes
      <4> QED BY <1>0, <3>1, <4>1 DEF ToolsTypeOK
    <3>2. ASSUME NEW t \in Texts, Changes(TRUE, t), meant' = meant \cup {t}
          PROVE  /\ note' \in NoteStates /\ note'.there /\ note'.text = t /\ note'.rev \in Nat /\ note'.rev > note.rev
                 /\ meant' \subseteq NoteTexts
      BY <1>0, <2>2, <3>2, ChangesNote DEF ToolsTypeOK
    <3> QED BY <2>1, <3>1, <3>2
  <2>4. spoiled' \in BOOLEAN
    BY <2>1
  <2>5. ToolsTypeOK'
    BY <1>0, <2>1, <2>3, <2>4 DEF ToolsTypeOK, FitsMount
  <2>6. mount # "filesystem" => \A d \in Calls : (SawItsBase(d) /\ MarkIsRight(d))'
    BY <2>1, <2>3, CallsStayTrue
  <2>7. mount = "filesystem" /\ ~spoiled' /\ FileInv => FileInv'
    BY <2>1, <2>3 DEF FileInv, IsOpen, Opens, Present
  <2> QED BY <2>1, <2>5, <2>6, <2>7 DEF ToolsInv
<1> QED BY <1>1, <1>2, <1>3

\* so every step does.
LEMMA ToolsStep == ToolsInv /\ [ToolsNext]_toolsVars => ToolsInv'
<1> SUFFICES ASSUME ToolsInv, [ToolsNext]_toolsVars PROVE ToolsInv'
  OBVIOUS
<1>1. CASE UNCHANGED toolsVars
  BY <1>1 DEF toolsVars, ToolsInv, ToolsTypeOK, FitsMount, SawItsBase, MarkIsRight, FileInv, IsOpen, Opens, Present, Current
<1>2. CASE ToolsNext
  BY <1>2, CallsKeep, RemotesKeep, FilesKeep, NoteKeeps DEF ToolsNext
<1> QED BY <1>1, <1>2

THEOREM ToolsStay == ToolsSpec => []ToolsInv
BY InitTools, ToolsStep, PTL DEF ToolsSpec

\* A note is lines of words, a call holds what it read and what it is to write.
THEOREM ToolsTyped == ToolsSpec => []ToolsTypeOK
<1>1. ToolsInv => ToolsTypeOK
  BY DEF ToolsInv
<1> QED BY <1>1, ToolsStay, PTL

\* fs::write truncates before it fills, so a file may be read empty or hold the
\* tail of another write; but only where two writes overlapped or one was cut off.
THEOREM FilesAreWhole == ToolsSpec => []WholeUnlessOverlapped
<1>1. ToolsInv => WholeUnlessOverlapped
  BY DEF ToolsInv, FileInv, WholeUnlessOverlapped
<1> QED BY <1>1, ToolsStay, PTL

\* A call that lands is in the last step of its write.
LEMMA LandingSteps ==
  ASSUME ToolsInv, ToolsNext, NEW c \in Calls, Lands(c) \/ Deletes(c), mount # "filesystem"
  PROVE  /\ Lands(c) => Land(c) \/ Push(c)
         /\ Deletes(c) => Delete(c)
<1>1. /\ call \in [Calls -> CallStates] /\ call[c].at \in {"write", "push", "delete"}
      /\ call'[c].at = "idle" /\ note' # note /\ call' # call /\ call'[c] # call[c]
  BY DEF Lands, Deletes, ToolsInv, ToolsTypeOK
<1>2. ~(ReadFile \/ ProcessStops \/ Person)
  BY <1>1 DEF ReadFile, ProcessStops, Person
<1>3. ASSUME NEW d \in Calls, Call(d) \/ Refused(d) \/ DeleteNote(d) \/ WriteRefused(d) \/ FillFails(d) PROVE FALSE
  BY <1>1, <1>3 DEF Call, Refused, DeleteNote, WriteRefused, FillFails
<1>4. ASSUME NEW d \in Calls, Open(d) \/ Fill(d) \/ Fetch(d) PROVE FALSE
  <2>1. ~(Open(d) \/ Fetch(d))
    BY <1>1 DEF Open, Fetch
  <2>2. ~Fill(d)
    BY DEF Fill, ToolsInv, ToolsTypeOK, FitsMount
  <2> QED BY <1>4, <2>1, <2>2
<1>5. ASSUME NEW d \in Calls, d # c, Land(d) \/ Push(d) \/ Delete(d) PROVE FALSE
  <2>1. call'[c] = call[c]
    BY <1>1, <1>5 DEF Land, Push, Delete, Written, Ends
  <2> QED BY <1>1, <2>1
<1>6. Land(c) \/ Push(c) \/ Delete(c)
  BY <1>2, <1>3, <1>4, <1>5 DEF ToolsNext
<1> QED BY <1>6 DEF Lands, Deletes, Land, Push, Delete

\* A call of which a read failed has no base; every other one that lands on CouchDB
\* replaces what it read, and what its hash was of.
THEOREM WritesLandOnWhatTheySaw == ToolsSpec => LandsOnWhatItSaw
<1> DEFINE Saw == \A c \in Calls : mount = "couchdb" =>
                    /\ Lands(c) /\ call[c].base # Unobserved =>
                         /\ Present = call[c].read
                         /\ call[c].expect # {} => Present = call[c].expect
                    /\ Deletes(c) => Current = call[c].head
<1>1. ToolsInv /\ [ToolsNext]_toolsVars => [Saw]_toolsVars
  <2> SUFFICES ASSUME ToolsInv, ToolsNext, NEW c \in Calls, mount = "couchdb"
               PROVE  /\ Lands(c) /\ call[c].base # Unobserved =>
                           /\ Present = call[c].read
                           /\ call[c].expect # {} => Present = call[c].expect
                      /\ Deletes(c) => Current = call[c].head
    BY DEF Saw
  <2>1. ASSUME Lands(c), call[c].base # Unobserved
        PROVE  Present = call[c].read /\ (call[c].expect # {} => Present = call[c].expect)
    <3>1. call[c].at \in {"write", "push"} /\ SawItsBase(c)
      BY <2>1 DEF Lands, ToolsInv
    <3>2. BaseHolds(call[c].base)
      <4>1. call[c].at # "push"
        BY DEF ToolsInv, ToolsTypeOK, FitsMount
      <4>2. Land(c)
        BY <2>1, <4>1, LandingSteps DEF Push
      <4> QED BY <4>2 DEF Land
    <3>3. call[c].base = Current
      BY <2>1, <3>2 DEF BaseHolds
    <3>4. Present = call[c].read
      <4>1. CASE Current = NotThere
        <5>1. ~note.there
          BY <4>1, CurrentNow DEF ToolsInv, NotThere
        <5>2. Present = {}
          BY <4>1, <5>1 DEF Present
        <5> QED BY <3>1, <3>3, <4>1, <5>2 DEF SawItsBase
      <4>2. CASE Current # NotThere
        BY <3>1, <3>3, <4>2 DEF SawItsBase
      <4> QED BY <4>1, <4>2
    <3> QED BY <3>1, <3>4 DEF SawItsBase
  <2>2. ASSUME Deletes(c) PROVE Current = call[c].head
    BY <2>2, LandingSteps DEF Delete
  <2> QED BY <2>1, <2>2
<1>2. ToolsSpec => [][Saw]_toolsVars
  BY <1>1, ToolsStay, PTL DEF ToolsSpec
<1> QED BY <1>2 DEF LandsOnWhatItSaw, Saw

\* On Algolia a write that does not replace what its call read marks the note, and no
\* mark is lost, unless the head moved between its fetch and its save.
THEOREM DisagreementsAreShown == ToolsSpec => DisagreementsShow
<1> DEFINE Shown == \A c \in Calls :
                      mount = "algolia" /\ call[c] # Idle /\ call[c].head = Current => Shows(c)
<1>1. ToolsInv /\ [ToolsNext]_toolsVars => [Shown]_toolsVars
  <2> SUFFICES ASSUME ToolsInv, ToolsNext, NEW c \in Calls, mount = "algolia", call[c].head = Current
               PROVE  Shows(c)
    BY DEF Shown
  <2>1. ToolsTypeOK /\ MarkIsRight(c) /\ diverged \in BOOLEAN
    BY DEF ToolsInv, ToolsTypeOK
  <2>2. ASSUME Lands(c)
        PROVE  /\ call[c].base # Unobserved => Present = call[c].read \/ diverged'
               /\ diverged => Resolves(call[c].req) \/ diverged'
    <3>1. Push(c)
      BY <2>2, LandingSteps DEF Land
    <3>2. diverged' = call[c].mark /\ call[c].at = "push"
      BY <3>1 DEF Push
    <3>3. call[c].base # Unobserved => Present = call[c].read \/ call[c].mark = TRUE
      BY <2>1, <3>2 DEF MarkIsRight
    <3>4. diverged = TRUE => Resolves(call[c].req) \/ call[c].mark = TRUE
      BY <2>1, <3>2 DEF MarkIsRight
    <3> QED BY <2>1, <3>2, <3>3, <3>4
  <2>3. ASSUME Deletes(c) PROVE diverged => diverged'
    <3>1. Delete(c)
      BY <2>3, LandingSteps
    <3>2. diverged' = call[c].mark /\ call[c].at = "delete"
      BY <3>1 DEF Delete
    <3>3. diverged = TRUE => call[c].mark = TRUE
      BY <2>1, <3>2 DEF MarkIsRight
    <3> QED BY <2>1, <3>2, <3>3
  <2> QED BY <2>2, <2>3 DEF Shows
<1>2. ToolsSpec => [][Shown]_toolsVars
  BY <1>1, ToolsStay, PTL DEF ToolsSpec
<1> QED BY <1>2 DEF DisagreementsShow, Shown

(***************************************************************************)
(* What is not blank.                                                      *)
(***************************************************************************)

IsFull(g, text) ==
  g = [i \in 0 .. Len(text) |->
         IF i = 0 THEN <<>> ELSE IF text[i] = Blank THEN g[i - 1] ELSE Append(g[i - 1], text[i])]

\* The lines that are not blank are well defined,
LEMMA FullExists ==
  ASSUME NEW text \in Seq(Lines)
  PROVE  \E g : IsFull(g, text)
<1> DEFINE n == Len(text)
<1> DEFINE NextFull(s, i) == IF text[i] = Blank THEN s ELSE Append(s, text[i])
<1>1. n \in Nat /\ \A i \in 1 .. n : text[i] \in Lines
  BY InASequence
<1> HIDE DEF n
<1>2. PICK D, rank, Start, prev, base, vals :
        /\ D = 0 .. n /\ rank = [i \in 0 .. n |-> i] /\ Start = {0} /\ prev = [i \in 0 .. n |-> i - 1] /\ base = <<>>
        /\ vals = [i \in 0 .. n |-> Seq(Lines)]
  OBVIOUS
<1>3. Follows(D, rank, Start, prev)
  BY <1>1, <1>2, CountsUp
<1>4. PICK step : step = [i \in 0 .. n |-> [s \in Seq(Lines) |-> NextFull(s, i)]]
  OBVIOUS
<1>5. \A i \in 0 .. n : i # 0 => prev[i] = i - 1 /\ prev[i] \in 0 .. n
  BY <1>1, <1>2
<1>6. ASSUME NEW i \in 0 .. n, i # 0 PROVE step[i] \in [vals[prev[i]] -> vals[i]]
  <2>1. text[i] \in Lines
    BY <1>1, <1>6
  <2>2. \A s \in Seq(Lines) : NextFull(s, i) \in Seq(Lines)
    BY <2>1, AppendProperties
  <2>3. step[i] = [s \in Seq(Lines) |-> NextFull(s, i)]
    BY <1>4
  <2>4. vals[prev[i]] = Seq(Lines) /\ vals[i] = Seq(Lines)
    BY <1>2, <1>5, <1>6
  <2> HIDE DEF NextFull
  <2> QED BY <2>2, <2>3, <2>4
<1>7. /\ \A d \in D : d \in Start => base \in vals[d]
      /\ \A d \in D : d \notin Start => step[d] \in [vals[prev[d]] -> vals[d]]
  BY <1>1, <1>2, <1>6
<1>8. PICK g : IsRecursive(g, D, Start, prev, base, step) /\ \A d \in D : g[d] \in vals[d]
  BY <1>3, <1>7, RecursionExists
<1>9. ASSUME NEW i \in 0 .. n PROVE g[i] = IF i = 0 THEN <<>> ELSE NextFull(g[i - 1], i)
  <2>1. CASE i = 0
    BY <1>2, <1>8, <2>1 DEF IsRecursive
  <2>2. CASE i # 0
    <3>1. g[i] = step[i][g[i - 1]] /\ g[i - 1] \in Seq(Lines)
      BY <1>2, <1>5, <1>8, <2>2 DEF IsRecursive
    <3> QED BY <1>4, <2>2, <3>1
  <2> QED BY <2>1, <2>2
<1>10. \E G : g = [i \in 0 .. n |-> G[i]]
  BY <1>2, <1>8 DEF IsRecursive
<1>11. g = [i \in 0 .. n |-> IF i = 0 THEN <<>> ELSE NextFull(g[i - 1], i)]
  BY <1>9, <1>10
<1> QED BY <1>11 DEF IsFull, n

FullUpto(text, i) == (CHOOSE g : IsFull(g, text))[i]

\* and grow one line at a time.
LEMMA FullSteps ==
  ASSUME NEW text \in Seq(Lines)
  PROVE  /\ Full(text) = FullUpto(text, Len(text)) /\ FullUpto(text, 0) = <<>>
         /\ \A i \in 1 .. Len(text) :
              FullUpto(text, i) = IF text[i] = Blank THEN FullUpto(text, i - 1) ELSE Append(FullUpto(text, i - 1), text[i])
<1> DEFINE full == CHOOSE g : IsFull(g, text)
<1>1. IsFull(full, text)
  BY FullExists
<1>2. Full(text) = full[Len(text)]
  BY DEF Full, IsFull
<1>3. \A i : FullUpto(text, i) = full[i]
  BY DEF FullUpto
<1> HIDE DEF full
<1>4. Len(text) \in Nat
  BY InASequence
<1>5. \A i \in 0 .. Len(text) :
        full[i] = IF i = 0 THEN <<>> ELSE IF text[i] = Blank THEN full[i - 1] ELSE Append(full[i - 1], text[i])
  BY <1>1 DEF IsFull
<1>6. 0 \in 0 .. Len(text) /\ \A i \in 1 .. Len(text) : i \in 0 .. Len(text) /\ i # 0
  BY <1>4
<1> QED BY <1>2, <1>3, <1>5, <1>6

\* It depends on the lines up to there.
LEMMA FullOfPrefix ==
  ASSUME NEW s \in Seq(Lines), NEW t \in Seq(Lines), NEW n \in Nat, n <= Len(s), n <= Len(t),
         \A i \in 1 .. n : s[i] = t[i]
  PROVE  FullUpto(s, n) = FullUpto(t, n) /\ FullUpto(s, n) \in Seq(Lines)
<1> DEFINE Good == {i \in 0 .. n : FullUpto(s, i) = FullUpto(t, i) /\ FullUpto(s, i) \in Seq(Lines)}
<1>1. Len(s) \in Nat /\ Len(t) \in Nat /\ \A i \in 1 .. Len(s) : s[i] \in Lines
  BY InASequence
<1>2. PICK prev : prev = [i \in 0 .. n |-> i - 1]
  OBVIOUS
<1>3. Follows(0 .. n, [i \in 0 .. n |-> i], {0}, prev)
  BY <1>2, CountsUp
<1>4. ASSUME NEW i \in 0 .. n, i \in {0} \/ prev[i] \in Good PROVE i \in Good
  <2>1. CASE i = 0
    <3>1. FullUpto(s, 0) = <<>> /\ FullUpto(t, 0) = <<>> /\ <<>> \in Seq(Lines)
      BY FullSteps
    <3> QED BY <2>1, <3>1
  <2>2. CASE i # 0
    <3>1. /\ i - 1 \in 0 .. n /\ FullUpto(s, i - 1) = FullUpto(t, i - 1) /\ FullUpto(s, i - 1) \in Seq(Lines)
      BY <1>2, <1>4, <2>2
    <3>2. i \in 1 .. Len(s) /\ i \in 1 .. Len(t) /\ s[i] = t[i] /\ s[i] \in Lines
      BY <1>1, <2>2
    <3>3. /\ FullUpto(s, i) = IF s[i] = Blank THEN FullUpto(s, i - 1) ELSE Append(FullUpto(s, i - 1), s[i])
          /\ FullUpto(t, i) = IF t[i] = Blank THEN FullUpto(t, i - 1) ELSE Append(FullUpto(t, i - 1), t[i])
      BY <3>2, FullSteps
    <3>4. Append(FullUpto(s, i - 1), s[i]) \in Seq(Lines)
      BY <3>1, <3>2, AppendProperties
    <3>5. FullUpto(s, i) = FullUpto(t, i) /\ FullUpto(s, i) \in Seq(Lines)
      BY <3>1, <3>2, <3>3, <3>4
    <3> QED BY <3>5
  <2> QED BY <2>1, <2>2
<1> HIDE DEF Good
<1>5. 0 .. n \subseteq Good
  BY <1>3, <1>4, HandedOn
<1>6. n \in Good
  BY <1>5
<1> QED BY <1>6 DEF Good

\* A blank line adds nothing.
LEMMA FullOfMore ==
  ASSUME NEW s \in Seq(Lines), NEW line \in Lines
  PROVE  /\ Full(<<>>) = <<>> /\ Full(s) \in Seq(Lines)
         /\ Full(Append(s, line)) = IF line = Blank THEN Full(s) ELSE Append(Full(s), line)
<1>1. <<>> \in Seq(Lines) /\ Len(<<>>) = 0
  OBVIOUS
<1>2. Full(<<>>) = <<>>
  BY <1>1, FullSteps
<1>3. Len(s) \in Nat
  BY InASequence
<1>4. PICK t \in Seq(Lines) : t = Append(s, line)
  BY AppendProperties
<1>5. Len(t) = Len(s) + 1 /\ t[Len(s) + 1] = line /\ \A i \in 1 .. Len(s) : t[i] = s[i]
  BY <1>4, AppendProperties
<1>6. FullUpto(s, Len(s)) = FullUpto(t, Len(s)) /\ FullUpto(s, Len(s)) \in Seq(Lines)
  <2>1. Len(s) <= Len(s) /\ Len(s) <= Len(t) /\ \A i \in 1 .. Len(s) : s[i] = t[i]
    BY <1>3, <1>5
  <2> QED BY <1>3, <2>1, FullOfPrefix
<1>7. PICK n : n = Len(t)
  OBVIOUS
<1>8. n \in 1 .. Len(t) /\ n - 1 = Len(s) /\ t[n] = line
  BY <1>3, <1>5, <1>7
<1>9. FullUpto(t, n) = IF t[n] = Blank THEN FullUpto(t, n - 1) ELSE Append(FullUpto(t, n - 1), t[n])
  BY <1>8, FullSteps
<1>10. Full(t) = FullUpto(t, n) /\ Full(s) = FullUpto(s, Len(s))
  BY <1>7, FullSteps
<1> QED BY <1>2, <1>4, <1>6, <1>8, <1>9, <1>10

\* Sequences grow line by line.
LEMMA SequencesGrow ==
  ASSUME NEW Good, <<>> \in Good, \A s \in Seq(Lines), line \in Lines : s \in Good => Append(s, line) \in Good
  PROVE  Seq(Lines) \subseteq Good
<1> DEFINE Before(s) == CHOOSE t \in Seq(Lines) : \E line \in Lines : s = Append(t, line)
<1>0. \A s \in Seq(Lines) : s # <<>> => Before(s) \in Seq(Lines) /\ \E line \in Lines : s = Append(Before(s), line)
  <2> TAKE s \in Seq(Lines)
  <2>1. s # <<>> => \E t \in Seq(Lines) : \E line \in Lines : s = Append(t, line)
    BY SequenceEmptyOrAppend
  <2> QED BY <2>1
<1> HIDE DEF Before
<1>1. PICK D, rank, Start, prev :
        /\ D = Seq(Lines) /\ rank = [s \in Seq(Lines) |-> Len(s)] /\ Start = {<<>>}
        /\ prev = [s \in Seq(Lines) |-> IF s = <<>> THEN s ELSE Before(s)]
  OBVIOUS
<1>2. ASSUME NEW s \in Seq(Lines), s # <<>>
      PROVE  \E line \in Lines : /\ prev[s] \in Seq(Lines) /\ s = Append(prev[s], line) /\ Len(prev[s]) \in Nat
                                 /\ rank[prev[s]] < rank[s]
  <2>1. PICK t : t = Before(s)
    OBVIOUS
  <2>2. t = prev[s]
    BY <1>1, <1>2, <2>1
  <2>3. t \in Seq(Lines) /\ \E line \in Lines : s = Append(t, line)
    BY <1>0, <1>2, <2>1
  <2>5. PICK line \in Lines : s = Append(t, line)
    BY <2>3
  <2>6. Len(s) = Len(t) + 1 /\ Len(t) \in Nat
    BY <2>3, <2>5, AppendProperties, InASequence
  <2>7. rank[t] = Len(t) /\ rank[s] = Len(s)
    BY <1>1, <2>3
  <2> QED BY <2>2, <2>3, <2>5, <2>6, <2>7
<1>3. rank \in [D -> Nat]
  BY <1>1, InASequence
<1>4. \A s \in D : s \notin Start => prev[s] \in D /\ rank[prev[s]] < rank[s]
  <2> SUFFICES ASSUME NEW s \in Seq(Lines), s # <<>> PROVE prev[s] \in Seq(Lines) /\ rank[prev[s]] < rank[s]
    BY <1>1
  <2> QED BY <1>2
<1>5. Follows(D, rank, Start, prev)
  BY <1>3, <1>4 DEF Follows
<1>6. ASSUME NEW s \in D, s \in Start \/ prev[s] \in Good PROVE s \in Good
  <2>1. CASE s = <<>>
    BY <2>1
  <2>2. CASE s # <<>>
    <3>1. PICK line \in Lines : prev[s] \in Seq(Lines) /\ s = Append(prev[s], line)
      BY <1>1, <1>2, <2>2
    <3> QED BY <1>1, <1>6, <2>2, <3>1
  <2> QED BY <2>1, <2>2
<1>7. D \subseteq Good
  BY <1>5, <1>6, HandedOn
<1> QED BY <1>1, <1>7

\* What two texts in a row say is what the one says, then the other.
LEMMA FullOfBoth ==
  ASSUME NEW s \in Seq(Lines), NEW t \in Seq(Lines)
  PROVE  /\ Full(s \o t) = Full(s) \o Full(t) /\ Full(s) \in Seq(Lines)
         /\ (\A i \in 1 .. Len(t) : t[i] = Blank) => Full(t) = <<>> /\ Full(s \o t) = Full(s)
<1> DEFINE Good == {u \in Seq(Lines) : Full(s \o u) = Full(s) \o Full(u)}
<1>1. Full(s) \in Seq(Lines) /\ <<>> \in Seq(Lines) /\ Full(<<>>) = <<>>
  <2>1. Blank \in Lines
    BY LinesThereAre
  <2>2. Full(s) \in Seq(Lines) /\ Full(<<>>) = <<>>
    BY <2>1, FullOfMore, Zenon
  <2>3. <<>> \in Seq(Lines)
    OBVIOUS
  <2> QED BY <2>2, <2>3
<1>2. <<>> \in Good
  BY <1>1, ConcatEmptySeq
<1>3. ASSUME NEW u \in Seq(Lines), NEW line \in Lines, u \in Good PROVE Append(u, line) \in Good
  <2>1. s \o u \in Seq(Lines) /\ Append(u, line) \in Seq(Lines) /\ <<line>> \in Seq(Lines) /\ Full(u) \in Seq(Lines)
    BY ConcatProperties, AppendProperties, FullOfMore
  <2>2. s \o Append(u, line) = Append(s \o u, line)
    <3>1. Append(u, line) = u \o <<line>> /\ Append(s \o u, line) = (s \o u) \o <<line>>
      BY <2>1, AppendIsConcat
    <3>2. (s \o u) \o <<line>> = s \o (u \o <<line>>)
      BY <2>1, ConcatAssociative
    <3> QED BY <3>1, <3>2
  <2>3. Full(s \o Append(u, line)) = IF line = Blank THEN Full(s \o u) ELSE Append(Full(s \o u), line)
    BY <2>1, <2>2, FullOfMore
  <2>4. Full(Append(u, line)) = IF line = Blank THEN Full(u) ELSE Append(Full(u), line)
    BY FullOfMore
  <2>5. Full(s \o u) = Full(s) \o Full(u)
    BY <1>3
  <2>6. Append(Full(s) \o Full(u), line) = Full(s) \o Append(Full(u), line)
    <3>1. (Full(s) \o Full(u)) \in Seq(Lines)
      BY <1>1, <2>1, ConcatProperties
    <3>2. /\ Append(Full(u), line) = Full(u) \o <<line>>
          /\ Append(Full(s) \o Full(u), line) = (Full(s) \o Full(u)) \o <<line>>
      BY <2>1, <3>1, AppendIsConcat
    <3>3. (Full(s) \o Full(u)) \o <<line>> = Full(s) \o (Full(u) \o <<line>>)
      BY <1>1, <2>1, ConcatAssociative
    <3> QED BY <3>2, <3>3
  <2> QED BY <2>1, <2>3, <2>4, <2>5, <2>6
<1>4. Seq(Lines) \subseteq Good
  BY <1>2, <1>3, SequencesGrow
<1>5. Full(s \o t) = Full(s) \o Full(t)
  BY <1>4
<1> DEFINE Empty == {u \in Seq(Lines) : (\A i \in 1 .. Len(u) : u[i] = Blank) => Full(u) = <<>>}
<1>6. <<>> \in Empty
  BY <1>1
<1>7. ASSUME NEW u \in Seq(Lines), NEW line \in Lines, u \in Empty PROVE Append(u, line) \in Empty
  <2>1. PICK v \in Seq(Lines) : v = Append(u, line)
    BY AppendProperties
  <2>2. Len(v) = Len(u) + 1 /\ v[Len(u) + 1] = line /\ (\A i \in 1 .. Len(u) : v[i] = u[i]) /\ Len(u) \in Nat
    BY <2>1, AppendProperties, InASequence
  <2>3. ASSUME \A i \in 1 .. Len(v) : v[i] = Blank PROVE Full(v) = <<>>
    <3>1. line = Blank /\ \A i \in 1 .. Len(u) : u[i] = Blank
      <4>1. Len(u) + 1 \in 1 .. Len(v) /\ \A i \in 1 .. Len(u) : i \in 1 .. Len(v)
        BY <2>2
      <4> QED BY <2>2, <2>3, <4>1
    <3>2. Full(u) = <<>>
      BY <1>7, <3>1
    <3> QED BY <2>1, <3>1, <3>2, FullOfMore
  <2> QED BY <2>1, <2>3
<1>8. Seq(Lines) \subseteq Empty
  BY <1>6, <1>7, SequencesGrow
<1>9. (\A i \in 1 .. Len(t) : t[i] = Blank) => Full(t) = <<>>
  BY <1>8
<1> QED BY <1>1, <1>5, <1>9, ConcatEmptySeq

----------------------------------------------------------------------------
(* Where a section ends, and what it says.                                 *)

\* A heading is not blank.
LEMMA BlankIsNoHeading == \A line : IsHeading(line) => line # Blank
<1>1. Len(Blank) = 1
  BY DEF Blank
<1> QED BY <1>1 DEF IsHeading

Stops(text, i, deep, j) == j \in Headings(text) /\ (deep => Level(text[j]) <= Level(text[i]))

EndsAt(text, i, deep, c) ==
  /\ c \in i .. Len(text)
  /\ \A j \in Headings(text) : i < j /\ j <= c => ~Stops(text, i, deep, j)
  /\ c = Len(text) \/ Stops(text, i, deep, c + 1)

\* A section ends before the first heading that stops it, and nowhere else.
LEMMA SectionEndIs ==
  ASSUME NEW text \in Seq(Lines), NEW i \in 1 .. Len(text), NEW deep \in BOOLEAN
  PROVE  /\ EndsAt(text, i, deep, SectionEnd(text, i, deep))
         /\ \A c : EndsAt(text, i, deep, c) => SectionEnd(text, i, deep) = c
<1> DEFINE stops == {j \in Headings(text) : j > i /\ (deep => Level(text[j]) <= Level(text[i]))}
<1>1. DOMAIN text = 1 .. Len(text) /\ Len(text) \in Nat
  BY InASequence
<1>2. Headings(text) \subseteq 1 .. Len(text)
  BY <1>1 DEF Headings
<1>3. \A j : j \in stops <=> j > i /\ Stops(text, i, deep, j)
  BY DEF Stops
<1>4. stops \subseteq i + 1 .. Len(text) /\ stops \subseteq Nat
  BY <1>1, <1>2
<1>5. EndsAt(text, i, deep, SectionEnd(text, i, deep))
  <2>1. CASE stops = {}
    <3>1. SectionEnd(text, i, deep) = Len(text)
      BY <2>1 DEF SectionEnd
    <3> HIDE DEF stops
    <3>2. \A j \in Headings(text) : i < j => ~Stops(text, i, deep, j)
      BY <1>2, <1>3, <2>1
    <3> QED BY <1>1, <3>1, <3>2 DEF EndsAt
  <2>2. CASE stops # {}
    <3>1. SectionEnd(text, i, deep) = Min(stops) - 1
      BY <2>2 DEF SectionEnd
    <3> HIDE DEF stops
    <3>2. PICK m \in stops : m = Min(stops) /\ \A j \in stops : m <= j
      BY <1>4, <2>2, LeastPosition
    <3>3. PICK c : c = m - 1
      OBVIOUS
    <3>4. c \in i .. Len(text) /\ c + 1 = m
      BY <1>1, <1>4, <3>3
    <3>5. \A j \in Headings(text) : i < j /\ j <= c => ~Stops(text, i, deep, j)
      BY <1>1, <1>2, <1>3, <1>4, <3>2, <3>3
    <3>6. EndsAt(text, i, deep, c)
      BY <1>3, <3>4, <3>5 DEF EndsAt
    <3> QED BY <3>1, <3>2, <3>3, <3>6
  <2> QED BY <2>1, <2>2
<1> HIDE DEF stops
<1>6. ASSUME NEW a \in i .. Len(text), NEW c \in i .. Len(text), EndsAt(text, i, deep, a), EndsAt(text, i, deep, c)
      PROVE  ~(a < c)
  <2> SUFFICES ASSUME a < c PROVE FALSE
    OBVIOUS
  <2>0. PICK n : n = Len(text)
    OBVIOUS
  <2>a. n \in Int /\ i \in Int /\ a \in Int /\ c \in Int
    BY <1>1, <2>0
  <2>b. i <= a /\ a < c /\ c <= n
    BY <1>1, <2>0
  <2>1. a # Len(text) /\ i < a + 1 /\ a + 1 <= c
    <3>1. a # n
      BY <2>a, <2>b
    <3>2. i < a + 1 /\ a + 1 <= c
      BY <2>a, <2>b
    <3> QED BY <2>0, <3>1, <3>2
  <2>2. Stops(text, i, deep, a + 1)
    BY <1>6, <2>1 DEF EndsAt
  <2> QED BY <1>6, <2>1, <2>2 DEF EndsAt, Stops
<1>7. ASSUME NEW c, EndsAt(text, i, deep, c) PROVE SectionEnd(text, i, deep) = c
  <2>1. PICK a : a = SectionEnd(text, i, deep)
    OBVIOUS
  <2>2. a \in i .. Len(text) /\ c \in i .. Len(text)
    BY <1>5, <1>7, <2>1 DEF EndsAt
  <2>3. ~(a < c) /\ ~(c < a)
    BY <1>5, <1>6, <1>7, <2>1, <2>2
  <2> QED BY <1>1, <2>1, <2>2, <2>3
<1> QED BY <1>5, <1>7

\* Blank lines at the end of a part say nothing.
LEMMA FullOfPart ==
  ASSUME NEW text \in Seq(Lines), NEW i \in 1 .. Len(text), NEW c \in i .. Len(text), NEW b \in c .. Len(text),
         \A k \in c + 1 .. b : text[k] = Blank
  PROVE  Full(SubSeq(text, i, b)) = Full(SubSeq(text, i, c))
<1>1. Len(text) \in Nat /\ \A k \in 1 .. Len(text) : text[k] \in Lines
  BY InASequence
<1>2. i \in 1 .. Len(text) + 1 /\ c \in i - 1 .. Len(text) /\ i \in Int /\ c \in Int /\ b \in Int /\ c + 1 \in Int
  BY <1>1
<1>3. SubSeq(text, i, c) \o SubSeq(text, c + 1, b) = SubSeq(text, i, b)
  BY <1>2, ConcatAdjacentSubSeq
<1>4. (\A k \in i .. c : text[k] \in Lines) /\ (\A k \in c + 1 .. b : text[k] \in Lines)
  BY <1>1
<1>5. SubSeq(text, i, c) \in Seq(Lines)
  BY <1>2, <1>4, SubSeqProperties
<1>6. /\ SubSeq(text, c + 1, b) \in Seq(Lines)
      /\ Len(SubSeq(text, c + 1, b)) = IF c + 1 <= b THEN b - (c + 1) + 1 ELSE 0
      /\ \A k \in 1 .. b - (c + 1) + 1 : SubSeq(text, c + 1, b)[k] = text[c + 1 + k - 1]
  BY <1>2, <1>4, SubSeqProperties
<1>7. PICK rest : rest = SubSeq(text, c + 1, b)
  OBVIOUS
<1>8. \A k \in 1 .. Len(rest) : rest[k] = Blank
  <2> TAKE k \in 1 .. Len(rest)
  <2>1. Len(rest) = b - c
    BY <1>1, <1>6, <1>7
  <2>2. k \in 1 .. b - (c + 1) + 1 /\ c + 1 + k - 1 \in c + 1 .. b
    BY <1>1, <2>1
  <2> QED BY <1>6, <1>7, <2>2
<1>9. Full(SubSeq(text, i, c) \o rest) = Full(SubSeq(text, i, c))
  BY <1>5, <1>6, <1>7, <1>8, FullOfBoth
<1> QED BY <1>3, <1>7, <1>9

\* A section of t, from i to b, is in u as well, d lines further: its lines up to
\* c, and blank ones up to m.
Carried(t, u, i, d, b, c, m) ==
  /\ b = SectionEnd(t, i, FALSE)
  /\ 1 <= i /\ i <= c /\ c <= b /\ b <= Len(t) /\ \A k \in c + 1 .. b : t[k] = Blank
  /\ 1 <= i + d /\ c + d <= m /\ m <= Len(u) /\ \A k \in i .. c : u[k + d] = t[k]
  /\ \A k \in c + d + 1 .. m : u[k] = Blank
  /\ m = Len(u) \/ m + 1 \in Headings(u)

\* The same section elsewhere in another text, blank lines at its end aside.
LEMMA SectionMoves ==
  ASSUME NEW t \in Seq(Lines), NEW u \in Seq(Lines), NEW i \in Headings(t), NEW d \in Int,
         NEW b \in Int, NEW c \in Int, NEW m \in Int,
         Carried(t, u, i, d, b, c, m)
  PROVE  i + d \in Headings(u) /\ SectionText(u, i + d) = SectionText(t, i)
<1>0. b = SectionEnd(t, i, FALSE)
  BY DEF Carried
<1>1. /\ DOMAIN t = 1 .. Len(t) /\ Len(t) \in Nat /\ DOMAIN u = 1 .. Len(u) /\ Len(u) \in Nat
      /\ (\A k \in 1 .. Len(u) : u[k] \in Lines) /\ (\A k \in 1 .. Len(t) : t[k] \in Lines)
  BY InASequence
<1>2. IsHeading(t[i]) /\ i \in 1 .. Len(t)
  BY <1>1 DEF Headings
<1>4. EndsAt(t, i, FALSE, b)
  BY <1>2, SectionEndIs DEF Carried
<1>5. b \in i .. Len(t) /\ \A j \in Headings(t) : i < j => ~(j <= b)
  BY <1>4 DEF EndsAt, Stops
<1>6. PICK p, n : p = Len(t) /\ n = Len(u)
  OBVIOUS
<1>a. p \in Int /\ n \in Int /\ i \in Int
  <2>1. Len(t) \in Nat /\ Len(u) \in Nat /\ i \in Nat
    BY <1>1, <1>2
  <2> QED BY <1>6, <2>1
<1>c. 1 <= i /\ i <= c /\ c <= b /\ b <= p /\ 1 <= i + d /\ c + d <= m /\ m <= n
  BY <1>6 DEF Carried
<1>e. /\ (\A k \in c + 1 .. b : t[k] = Blank) /\ (\A k \in i .. c : u[k + d] = t[k])
      /\ (\A k \in c + d + 1 .. m : u[k] = Blank) /\ (m = Len(u) \/ m + 1 \in Headings(u))
  BY DEF Carried
<1>7. PICK j : j = i + d
  OBVIOUS
<1>8. j \in 1 .. Len(u) /\ c + d \in j .. Len(u) /\ m \in c + d .. Len(u) /\ m \in j .. Len(u)
  <2>1. j \in 1 .. n /\ c + d \in j .. n /\ m \in c + d .. n /\ m \in j .. n
    BY <1>a, <1>c, <1>7
  <2> QED BY <1>6, <2>1
<1>9. j \in Headings(u)
  <2>2. i \in i .. c
    BY <1>a, <1>c
  <2>1. u[j] = t[i]
    BY <1>e, <1>7, <2>2
  <2> QED BY <1>1, <1>2, <1>8, <2>1 DEF Headings
<1>10. \A k \in Headings(u) : j < k => ~(k <= m)
  <2> SUFFICES ASSUME NEW k \in Headings(u), j < k, k <= m PROVE FALSE
    OBVIOUS
  <2>1. k \in 1 .. Len(u) /\ IsHeading(u[k])
    BY <1>1 DEF Headings
  <2>2. CASE k > c + d
    <3>1. k \in c + d + 1 .. m
      BY <1>a, <2>1, <2>2
    <3> QED BY <1>e, <2>1, <3>1, BlankIsNoHeading
  <2>3. CASE k <= c + d
    <3>1. PICK h : h = k - d
      OBVIOUS
    <3>4. k \in Int
      BY <2>1
    <3>6. h \in Int /\ h + d = k
      BY <3>1, <3>4
    <3>7. i < h
      BY <1>a, <1>7, <3>6
    <3>8. h <= c
      BY <2>3, <3>6
    <3>9. h <= b /\ h <= p
      BY <1>a, <1>c, <3>6, <3>8
    <3>10. h \in i .. c
      BY <1>a, <3>6, <3>7, <3>8
    <3>11. h \in 1 .. p
      BY <1>a, <1>c, <3>6, <3>7, <3>9
    <3>5. h \in i .. c /\ h + d = k /\ i < h /\ h <= b /\ h \in 1 .. p
      BY <3>6, <3>7, <3>9, <3>10, <3>11
    <3>2. h \in i .. c /\ h + d = k /\ i < h /\ h <= b /\ h \in 1 .. Len(t)
      BY <1>6, <3>5
    <3>3. h \in Headings(t)
      BY <1>e, <1>1, <2>1, <3>2 DEF Headings
    <3> QED BY <1>5, <3>2, <3>3
  <2>4. k \in Int /\ c + d \in Int
    BY <1>a, <2>1
  <2>5. k > c + d \/ k <= c + d
    BY <2>4
  <2> QED BY <2>2, <2>3, <2>5
<1>11. EndsAt(u, j, FALSE, m)
  BY <1>8, <1>10, <1>e DEF EndsAt, Stops
<1>12. SectionEnd(u, j, FALSE) = m
  BY <1>8, <1>11, SectionEndIs
<1>13. PICK e : e = c + d
  OBVIOUS
<1>14. Full(SubSeq(u, j, m)) = Full(SubSeq(u, j, e))
  <2>1. e \in j .. Len(u) /\ m \in e .. Len(u)
    BY <1>8, <1>13
  <2>2. \A k \in e + 1 .. m : u[k] = Blank
    BY <1>e, <1>13
  <2> QED BY <1>8, <2>1, <2>2, FullOfPart
<1>15. Full(SubSeq(t, i, b)) = Full(SubSeq(t, i, c))
  <2>1. c \in i .. Len(t) /\ b \in c .. Len(t)
    <3>2. c <= p
      BY <1>a, <1>c
    <3>3. c \in i .. p
      BY <1>a, <1>c, <3>2
    <3>4. b \in c .. p
      BY <1>a, <1>c
    <3>1. c \in i .. p /\ b \in c .. p
      BY <3>3, <3>4
    <3> QED BY <1>6, <3>1
  <2> QED BY <1>2, <1>e, <2>1, FullOfPart
<1>16. SubSeq(u, j, e) = SubSeq(t, i, c)
  <2>1. i \in Int /\ c \in Int /\ j \in Int /\ e \in Int /\ e - j = c - i
    BY <1>a, <1>7, <1>13
  <2>2. (\A k \in i .. c : t[k] \in Lines) /\ (\A k \in j .. e : u[k] \in Lines)
    <3>1. i .. c \subseteq 1 .. p /\ j .. e \subseteq 1 .. n
      <4>1. e <= n
        BY <1>a, <1>c, <1>13
      <4>2. 1 <= j
        BY <1>c, <1>7
      <4>3. c <= p
        BY <1>a, <1>c
      <4>4. i .. c \subseteq 1 .. p
        BY <1>a, <1>c, <4>3
      <4>5. j .. e \subseteq 1 .. n
        BY <1>a, <2>1, <4>1, <4>2
      <4> QED BY <4>4, <4>5
    <3> QED BY <1>1, <1>6, <3>1
  <2>3. PICK v, w : v = SubSeq(u, j, e) /\ w = SubSeq(t, i, c)
    OBVIOUS
  <2>4. v \in Seq(Lines) /\ Len(v) = (IF j <= e THEN e - j + 1 ELSE 0) /\ \A k \in 1 .. e - j + 1 : v[k] = u[j + k - 1]
    BY <2>1, <2>2, <2>3, SubSeqProperties
  <2>5. w \in Seq(Lines) /\ Len(w) = (IF i <= c THEN c - i + 1 ELSE 0) /\ \A k \in 1 .. c - i + 1 : w[k] = t[i + k - 1]
    BY <2>1, <2>2, <2>3, SubSeqProperties
  <2>6. Len(v) = e - j + 1 /\ Len(w) = c - i + 1 /\ Len(v) = Len(w)
    <3>1. j <= e /\ i <= c
      BY <1>a, <1>c, <1>7, <1>13
    <3> QED BY <2>1, <2>4, <2>5, <3>1
  <2>7. ASSUME NEW k \in 1 .. Len(v) PROVE v[k] = w[k]
    <3>1. k \in 1 .. e - j + 1 /\ k \in 1 .. c - i + 1
      BY <2>1, <2>6
    <3>2. i + k - 1 \in i .. c /\ i + k - 1 + d = j + k - 1
      BY <1>a, <1>7, <2>1, <3>1
    <3>3. v[k] = u[j + k - 1] /\ w[k] = t[i + k - 1]
      BY <2>4, <2>5, <3>1
    <3> QED BY <1>e, <3>2, <3>3
  <2>8. v = w
    BY <2>4, <2>5, <2>6, <2>7, SeqEqual
  <2> QED BY <2>3, <2>8
<1> QED BY <1>0, <1>7, <1>9, <1>12, <1>14, <1>15, <1>16 DEF SectionText

----------------------------------------------------------------------------
(* Manual notes.                                                           *)

TrimsTo(text, m) ==
  /\ m \in 0 .. Len(text) /\ (m = 0 \/ text[m] # Blank)
  /\ \A k \in m + 1 .. Len(text) : text[k] = Blank

\* Trimming keeps the text up to its last full line.
LEMMA TrimEndIs ==
  ASSUME NEW text \in Seq(Lines)
  PROVE  /\ \E m : TrimsTo(text, m)
         /\ \A m : TrimsTo(text, m) => TrimEnd(text) = Upto(text, m)
<1> DEFINE full == {i \in DOMAIN text : text[i] # Blank}
<1>1. DOMAIN text = 1 .. Len(text) /\ Len(text) \in Nat
  BY InASequence
<1>2. CASE full = {}
  <2>1. \A k \in 1 .. Len(text) : text[k] = Blank
    BY <1>1, <1>2
  <2>2. TrimsTo(text, 0)
    BY <1>1, <2>1 DEF TrimsTo
  <2>3. TrimEnd(text) = <<>>
    BY <1>2 DEF TrimEnd
  <2>4. \A m : TrimsTo(text, m) => m = 0
    BY <1>1, <2>1 DEF TrimsTo
  <2>5. Upto(text, 0) = <<>>
    <3>1. 0 \in 0 .. Len(text)
      BY <1>1
    <3>2. Upto(text, 0) \in Seq(Lines) /\ Len(Upto(text, 0)) = 0
      BY <3>1, UptoFrom
    <3> QED BY <3>2, EmptySeq
  <2> QED BY <2>2, <2>3, <2>4, <2>5
<1>3. CASE full # {}
  <2>1. PICK m : m = Max(full)
    OBVIOUS
  <2>2. m \in 1 .. Len(text) /\ text[m] # Blank /\ \A i \in 1 .. Len(text) : text[i] # Blank => i <= m
    BY <1>3, <2>1, FullLines
  <2>3. TrimEnd(text) = Upto(text, m)
    BY <1>3, <2>1 DEF TrimEnd
  <2> HIDE DEF full
  <2>4. TrimsTo(text, m)
    BY <1>1, <2>2 DEF TrimsTo
  <2>5. ASSUME NEW k, TrimsTo(text, k) PROVE k = m
    <3>1. k \in 0 .. Len(text) /\ (k = 0 \/ text[k] # Blank) /\ \A i \in k + 1 .. Len(text) : text[i] = Blank
      BY <2>5 DEF TrimsTo
    <3>2. k <= m
      BY <1>1, <2>2, <3>1
    <3>3. ~(k < m)
      BY <1>1, <2>2, <3>1
    <3> QED BY <1>1, <2>2, <3>1, <3>2, <3>3
  <2> QED BY <2>3, <2>4, <2>5
<1> QED BY <1>2, <1>3

\* Manual notes start with their heading and end with a full line.
LEMMA NotesAreTrimmed ==
  ASSUME NEW t \in NoteTexts, NEW notes, notes = ManualNotes(t), notes # <<>>
  PROVE  notes \in Seq(Lines) /\ TrimsTo(notes, Len(notes)) /\ Len(notes) >= 1 /\ notes[1] = ManualHeading
<1>1. t \in Seq(Lines) /\ Len(t) \in Nat /\ DOMAIN t = 1 .. Len(t)
  BY InASequence DEF NoteTexts
<1>2. ManualAt(t) # {}
  BY DEF ManualNotes
<1>3. ManualAt(t) \subseteq Nat /\ ManualAt(t) \subseteq 2 .. Len(t) /\ \A p \in ManualAt(t) : t[p] = ManualHeading
  BY <1>1 DEF ManualAt
<1>4. PICK p \in ManualAt(t) : p = Min(ManualAt(t))
  BY <1>2, <1>3, LeastPosition
<1>5. PICK at : at = p - 1
  OBVIOUS
<1>6. at \in 0 .. Len(t) /\ at + 1 = p /\ 1 \in 1 .. Len(t) - at /\ at + 1 = p
  BY <1>1, <1>3, <1>5
<1>7. PICK f : f = From(t, p)
  OBVIOUS
<1>8. f \in Seq(Lines) /\ Len(f) = Len(t) - at /\ f[1] = t[p]
  BY <1>1, <1>6, <1>7, UptoFrom
<1>9. PICK m : TrimsTo(f, m) /\ TrimEnd(f) = Upto(f, m)
  BY <1>8, TrimEndIs
<1>10. notes = Upto(f, m)
  BY <1>2, <1>4, <1>7, <1>9 DEF ManualNotes
<1>11. ManualHeading # Blank
  BY BlankIsNoHeading DEF IsHeading, ManualHeading, Heading
<1>12. m \in 1 .. Len(f) /\ f[m] # Blank
  <2>1. Len(f) \in Nat
    BY <1>8, InASequence
  <2>2. m \in 0 .. Len(f) /\ (m = 0 \/ f[m] # Blank) /\ \A k \in m + 1 .. Len(f) : f[k] = Blank
    BY <1>9 DEF TrimsTo
  <2>3. 1 \in 1 .. Len(f)
    BY <1>6, <1>8
  <2>4. m # 0
    BY <1>3, <1>8, <1>11, <2>2, <2>3
  <2> QED BY <2>1, <2>2, <2>4
<1>13. notes \in Seq(Lines) /\ Len(notes) = m /\ notes[m] = f[m] /\ notes[1] = f[1]
  <2>1. Len(f) \in Nat
    BY <1>8, InASequence
  <2>2. m \in 0 .. Len(f) /\ m \in 1 .. m /\ 1 \in 1 .. m
    BY <1>12, <2>1
  <2>3. Upto(f, m) \in Seq(Lines) /\ Len(Upto(f, m)) = m /\ \A k \in 1 .. m : Upto(f, m)[k] = f[k]
    BY <1>8, <2>2, UptoFrom
  <2>4. Upto(f, m)[m] = f[m] /\ Upto(f, m)[1] = f[1]
    BY <2>2, <2>3
  <2> QED BY <1>10, <2>3, <2>4
<1>14. TrimsTo(notes, m)
  <2>1. m \in Nat
    BY <1>8, <1>12, InASequence
  <2> QED BY <1>12, <1>13, <2>1 DEF TrimsTo
<1> QED BY <1>3, <1>8, <1>12, <1>13, <1>14

\* What is appended under the new content is read back as it was.
LEMMA NotesAreReadBack ==
  ASSUME NEW new \in NoteTexts, ManualAt(new) = {}, new[Len(new)] = Blank,
         NEW notes \in Seq(Lines), TrimsTo(notes, Len(notes)), Len(notes) >= 1, notes[1] = ManualHeading
  PROVE  ManualNotes(new \o notes \o <<Blank>>) = notes
<1> DEFINE head == new \o notes
<1>1. new \in Seq(Lines) /\ <<Blank>> \in Seq(Lines) /\ Len(<<Blank>>) = 1
  BY LinesThereAre DEF NoteTexts
<1>2. PICK n, l : n = Len(new) /\ l = Len(notes)
  OBVIOUS
<1>3. n \in Nat /\ l \in Nat /\ l >= 1
  BY <1>1, <1>2, InASequence
<1>4. n >= 1
  <2>1. new # <<>>
    BY DEF NoteTexts
  <2> QED BY <1>1, <1>2, <1>3, <2>1, EmptySeq
<1>5. head \in Seq(Lines) /\ Len(head) = n + l
      /\ \A k \in 1 .. n + l : head[k] = IF k <= n THEN new[k] ELSE notes[k - n]
  BY <1>1, <1>2, ConcatProperties
<1> HIDE DEF head
<1>6. PICK text : text = head \o <<Blank>>
  OBVIOUS
<1>7. text \in Seq(Lines) /\ Len(text) = n + l + 1
      /\ \A k \in 1 .. n + l + 1 : text[k] = IF k <= n + l THEN head[k] ELSE <<Blank>>[k - (n + l)]
  BY <1>1, <1>5, <1>6, ConcatProperties
<1>8. DOMAIN text = 1 .. n + l + 1 /\ DOMAIN new = 1 .. n
  BY <1>1, <1>2, <1>7, InASequence
<1>9. ManualHeading # Blank
  BY BlankIsNoHeading DEF IsHeading, ManualHeading, Heading
<1>10. \A k \in 1 .. n : text[k] = new[k]
  <2> TAKE k \in 1 .. n
  <2>1. k \in 1 .. n + l + 1 /\ k \in 1 .. n + l /\ k <= n /\ k <= n + l
    BY <1>3
  <2> QED BY <1>5, <1>7, <2>1
<1>11. \A k \in 1 .. l : text[n + k] = notes[k]
  <2> TAKE k \in 1 .. l
  <2>1. PICK j : j = n + k
    OBVIOUS
  <2>2. j \in 1 .. n + l + 1 /\ j \in 1 .. n + l /\ ~(j <= n) /\ j <= n + l /\ j - n = k
    BY <1>3, <2>1
  <2>3. text[j] = head[j]
    BY <1>7, <2>2
  <2>4. head[j] = notes[k]
    BY <1>5, <2>2
  <2> QED BY <2>1, <2>3, <2>4
<1>12. text[n + l + 1] = Blank
  <2>1. PICK j : j = n + l + 1
    OBVIOUS
  <2>2. j \in 1 .. n + l + 1 /\ ~(j <= n + l) /\ j - (n + l) = 1
    BY <1>3, <2>1
  <2>3. text[j] = <<Blank>>[1]
    BY <1>7, <2>2
  <2> QED BY <2>1, <2>3
<1>13. n + 1 \in ManualAt(text)
  <2>1. n + 1 \in 1 .. n + l + 1 /\ n + 1 > 1 /\ n + 1 < n + l + 1 /\ 1 \in 1 .. l
    BY <1>3, <1>4
  <2>2. text[n + 1] = ManualHeading
    BY <1>11, <2>1
  <2> QED BY <1>7, <1>8, <2>1, <2>2 DEF ManualAt
<1>14. \A k \in ManualAt(text) : k \in Nat /\ n + 1 <= k
  <2> TAKE k \in ManualAt(text)
  <2>1. k \in 1 .. n + l + 1 /\ k > 1 /\ text[k] = ManualHeading
    BY <1>8 DEF ManualAt
  <2>2. ASSUME k < n PROVE FALSE
    <3>1. k \in 1 .. n /\ k \in DOMAIN new /\ k < Len(new)
      BY <1>2, <1>3, <1>8, <2>1, <2>2
    <3>2. k \in ManualAt(new)
      BY <1>10, <2>1, <3>1 DEF ManualAt
    <3> QED BY <3>2
  <2>3. k # n
    <3>1. n \in 1 .. n
      BY <1>3, <1>4
    <3>2. text[n] = Blank
      BY <1>2, <1>10, <3>1
    <3> QED BY <1>9, <2>1, <3>2
  <2>4. k \in Int /\ n \in Int /\ ~(k < n) /\ 1 <= k
    BY <1>3, <2>1, <2>2
  <2> QED BY <2>3, <2>4
<1>15. Min(ManualAt(text)) = n + 1
  <2>1. PICK m : m = Min(ManualAt(text))
    OBVIOUS
  <2>2. m \in ManualAt(text) /\ \A k \in ManualAt(text) : m <= k
    BY <1>13, <1>14, <2>1, LeastPosition
  <2>3. m <= n + 1 /\ n + 1 <= m /\ m \in Nat
    BY <1>13, <1>14, <2>2
  <2> QED BY <1>3, <2>1, <2>3
<1>16. PICK f : f = From(text, n + 1)
  OBVIOUS
<1>17. f \in Seq(Lines) /\ Len(f) = l + 1 /\ \A k \in 1 .. l + 1 : f[k] = text[n + k]
  <2>1. n \in 0 .. Len(text) /\ Len(text) - n = l + 1
    BY <1>3, <1>7
  <2>2. /\ From(text, n + 1) \in Seq(Lines) /\ Len(From(text, n + 1)) = Len(text) - n
        /\ \A k \in 1 .. Len(text) - n : From(text, n + 1)[k] = text[n + k]
    BY <1>7, <2>1, UptoFrom
  <2>3. 1 .. Len(text) - n = 1 .. l + 1
    BY <2>1, Zenon
  <2> QED BY <1>16, <2>1, <2>2, <2>3, Zenon
<1>18. TrimsTo(f, l)
  <2>1. l \in 0 .. Len(f)
    BY <1>3, <1>17
  <2>2. f[l] # Blank
    <3>1. l \in 1 .. l /\ l \in 1 .. l + 1 /\ l # 0
      BY <1>3
    <3>2. notes[l] # Blank
      BY <1>2, <3>1 DEF TrimsTo
    <3> QED BY <1>11, <1>17, <3>1, <3>2
  <2>3. \A k \in l + 1 .. Len(f) : f[k] = Blank
    <3> TAKE k \in l + 1 .. Len(f)
    <3>1. k = l + 1 /\ l + 1 \in 1 .. l + 1 /\ n + (l + 1) = n + l + 1
      BY <1>3, <1>17
    <3> QED BY <1>12, <1>17, <3>1
  <2> QED BY <2>1, <2>2, <2>3 DEF TrimsTo
<1>19. Upto(f, l) = notes
  <2>1. l \in 0 .. Len(f)
    BY <1>3, <1>17
  <2>2. Upto(f, l) \in Seq(Lines) /\ Len(Upto(f, l)) = l /\ \A k \in 1 .. l : Upto(f, l)[k] = f[k]
    BY <1>17, <2>1, UptoFrom
  <2>3. \A k \in 1 .. l : f[k] = notes[k]
    <3> TAKE k \in 1 .. l
    <3>1. k \in 1 .. l + 1
      BY <1>3
    <3> QED BY <1>11, <1>17, <3>1
  <2>4. PICK v : v = Upto(f, l)
    OBVIOUS
  <2>5. Len(v) = Len(notes) /\ \A k \in 1 .. Len(v) : v[k] = notes[k]
    BY <1>2, <2>2, <2>3, <2>4
  <2>6. v = notes
    BY <2>2, <2>4, <2>5, SeqEqual
  <2> QED BY <2>4, <2>6
<1>20. TrimEnd(f) = notes
  BY <1>17, <1>18, <1>19, TrimEndIs
<1>21. ManualNotes(text) = notes
  BY <1>13, <1>15, <1>16, <1>20 DEF ManualNotes
<1> QED BY <1>6, <1>21 DEF head

\* An upsert made again finds the notes it kept.
IsFlag(preserve) == preserve \in BOOLEAN
ReadsBack(content, existing, preserve, u) ==
  \A t : existing = {t} /\ preserve = TRUE /\ ManualAt(Finalized(content)) = {} => ManualNotes(u) = ManualNotes(t)

LEMMA MergedAgain ==
  ASSUME NEW content \in NoteTexts, NEW existing, existing \subseteq NoteTexts, NEW preserve, IsFlag(preserve),
         NEW u, u = Merged(content, existing, preserve)
  PROVE  Merged(content, {u}, preserve) = u /\ ReadsBack(content, existing, preserve, u)
<1> SUFFICES /\ Merged(content, {u}, preserve) = u
             /\ \A t : existing = {t} /\ preserve = TRUE /\ ManualAt(Finalized(content)) = {} => ManualNotes(u) = ManualNotes(t)
  BY DEF ReadsBack
<1>0. preserve \in BOOLEAN
  BY DEF IsFlag
<1> DEFINE Kept(texts) == {ManualNotes(t) : t \in texts} \ {<<>>}
<1>1. PICK new \in NoteTexts : new = Finalized(content)
  BY MergedTexts
<1>2. /\ Merged(content, existing, preserve) = IF preserve /\ Kept(existing) # {} /\ ManualAt(new) = {}
                                               THEN new \o (CHOOSE notes \in Kept(existing) : TRUE) \o <<Blank>> ELSE new
      /\ Merged(content, {u}, preserve) = IF preserve /\ Kept({u}) # {} /\ ManualAt(new) = {}
                                          THEN new \o (CHOOSE notes \in Kept({u}) : TRUE) \o <<Blank>> ELSE new
  BY <1>1 DEF Merged
<1>3. Kept({u}) = IF ManualNotes(u) = <<>> THEN {} ELSE {ManualNotes(u)}
  OBVIOUS
<1>4. \A t : existing = {t} => Kept(existing) = IF ManualNotes(t) = <<>> THEN {} ELSE {ManualNotes(t)}
  OBVIOUS
<1>5. \A notes \in Kept(existing) : notes # <<>> /\ \E t \in existing : notes = ManualNotes(t)
  OBVIOUS
<1> HIDE DEF Kept
<1>6. CASE ~preserve \/ ManualAt(new) # {}
  BY <1>1, <1>2, <1>6
<1>7. CASE preserve /\ ManualAt(new) = {} /\ Kept(existing) = {}
  <2>1. u = new
    BY <1>2, <1>7
  <2>2. ManualNotes(new) = <<>>
    BY <1>7 DEF ManualNotes
  <2>3. Kept({u}) = {}
    BY <1>3, <2>1, <2>2
  <2> QED BY <1>0, <1>2, <1>4, <1>7, <2>1, <2>2, <2>3
<1>8. CASE preserve /\ ManualAt(new) = {} /\ Kept(existing) # {}
  <2>1. PICK notes \in Kept(existing) : notes = CHOOSE n \in Kept(existing) : TRUE
    BY <1>8
  <2>2. u = new \o notes \o <<Blank>>
    BY <1>2, <1>8, <2>1
  <2>3. PICK t \in NoteTexts : notes = ManualNotes(t) /\ notes # <<>>
    BY <1>5
  <2>4. notes \in Seq(Lines) /\ TrimsTo(notes, Len(notes)) /\ Len(notes) >= 1 /\ notes[1] = ManualHeading
    BY <2>3, NotesAreTrimmed
  <2>5. new[Len(new)] = Blank
    <3>0. TrimEnd(content) \in Seq(Lines) /\ <<Blank>> \in Seq(Lines)
      BY TrimmedTypes, LinesThereAre DEF NoteTexts
    <3>1. PICK s \in Seq(Lines) : s = IF TrimEnd(content) = <<>> THEN <<Blank>> ELSE TrimEnd(content)
      BY <3>0
    <3>2. new = s \o <<Blank>>
      BY <1>1, <3>1 DEF Finalized
    <3>3. new = Append(s, Blank)
      BY <3>1, <3>2, AppendIsConcat, LinesThereAre
    <3> QED BY <3>1, <3>3, AppendProperties, LinesThereAre
  <2>6. ManualNotes(u) = notes
    BY <1>8, <2>2, <2>4, <2>5, NotesAreReadBack
  <2>7. Kept({u}) = {notes}
    BY <1>3, <2>3, <2>6
  <2>8. \A p : existing = {p} => ManualNotes(p) = notes
    BY <1>4, <2>1
  <2>9. (CHOOSE n \in {notes} : TRUE) = notes
    OBVIOUS
  <2> QED BY <1>2, <1>8, <2>2, <2>6, <2>7, <2>8, <2>9
<1> QED BY <1>0, <1>6, <1>7, <1>8

----------------------------------------------------------------------------
(* What a section edit makes of a text, line by line.                      *)

Joins(u, a, b, c) ==
  /\ u \in Seq(Lines) /\ Len(u) = Len(a) + Len(b) + Len(c)
  /\ \A k \in 1 .. Len(a) : u[k] = a[k]
  /\ \A k \in 1 .. Len(b) : u[Len(a) + k] = b[k]
  /\ \A k \in 1 .. Len(c) : u[Len(a) + Len(b) + k] = c[k]

\* Three texts in a row, line by line.
LEMMA ThreeParts ==
  ASSUME NEW a \in Seq(Lines), NEW b \in Seq(Lines), NEW c \in Seq(Lines)
  PROVE  Joins(a \o b \o c, a, b, c)
<1>1. PICK p, q, r : p = Len(a) /\ q = Len(b) /\ r = Len(c)
  OBVIOUS
<1>2. p \in Nat /\ q \in Nat /\ r \in Nat
  BY <1>1, InASequence
<1>3. PICK ab : ab = a \o b
  OBVIOUS
<1>4. ab \in Seq(Lines) /\ Len(ab) = p + q /\ \A k \in 1 .. p + q : ab[k] = IF k <= p THEN a[k] ELSE b[k - p]
  BY <1>1, <1>3, ConcatProperties
<1>5. PICK u : u = ab \o c
  OBVIOUS
<1>6. u \in Seq(Lines) /\ Len(u) = p + q + r
      /\ \A k \in 1 .. p + q + r : u[k] = IF k <= p + q THEN ab[k] ELSE c[k - (p + q)]
  <2>1. ab \in Seq(Lines) /\ c \in Seq(Lines)
    BY <1>4
  <2>2. u \in Seq(Lines) /\ Len(u) = Len(ab) + Len(c)
        /\ \A k \in 1 .. Len(ab) + Len(c) : u[k] = IF k <= Len(ab) THEN ab[k] ELSE c[k - Len(ab)]
    BY <1>5, <2>1, ConcatProperties
  <2>3. Len(ab) = p + q /\ Len(c) = r
    BY <1>1, <1>4
  <2> QED BY <2>2, <2>3
<1>7. \A k \in 1 .. p : u[k] = a[k]
  <2> TAKE k \in 1 .. p
  <2>1. k \in 1 .. p + q + r /\ k \in 1 .. p + q /\ k <= p /\ k <= p + q
    BY <1>2
  <2>2. u[k] = ab[k]
    BY <1>6, <2>1
  <2>3. ab[k] = a[k]
    BY <1>4, <2>1
  <2> QED BY <2>2, <2>3
<1>8. \A k \in 1 .. q : u[p + k] = b[k]
  <2> TAKE k \in 1 .. q
  <2>1. PICK j : j = p + k
    OBVIOUS
  <2>2. j \in 1 .. p + q + r /\ j \in 1 .. p + q /\ ~(j <= p) /\ j <= p + q /\ j - p = k
    BY <1>2, <2>1
  <2>3. u[j] = ab[j]
    BY <1>6, <2>2
  <2>4. ab[j] = b[k]
    BY <1>4, <2>2
  <2> QED BY <2>1, <2>3, <2>4
<1>9. \A k \in 1 .. r : u[p + q + k] = c[k]
  <2> TAKE k \in 1 .. r
  <2>1. PICK j : j = p + q + k
    OBVIOUS
  <2>2. j \in 1 .. p + q + r /\ ~(j <= p + q) /\ j - (p + q) = k
    BY <1>2, <2>1
  <2>3. u[j] = c[k]
    BY <1>6, <2>2
  <2> QED BY <2>1, <2>3
<1>10. Joins(u, a, b, c)
  BY <1>1, <1>6, <1>7, <1>8, <1>9 DEF Joins
<1> QED BY <1>3, <1>5, <1>10

\* The lines of t up to p, then the body, then the lines of t after q.
IsUpdated(u, t, body, p, q) ==
  /\ Len(u) = p + Len(body) + (Len(t) - q)
  /\ \A k \in 1 .. p : u[k] = t[k]
  /\ \A k \in 1 .. Len(body) : u[p + k] = body[k]
  /\ \A k \in 1 .. Len(t) - q : u[p + Len(body) + k] = t[q + k]

\* An update is of that form.
LEMMA UpdatedIs ==
  ASSUME NEW t \in Seq(Lines), NEW body \in Seq(Lines), NEW p \in 0 .. Len(t), NEW q \in 0 .. Len(t),
         NEW u, u = Upto(t, p) \o body \o From(t, q + 1)
  PROVE  u \in Seq(Lines) /\ IsUpdated(u, t, body, p, q)
<1>1. PICK a, c : a = Upto(t, p) /\ c = From(t, q + 1)
  OBVIOUS
<1>2. a \in Seq(Lines) /\ Len(a) = p /\ \A k \in 1 .. p : a[k] = t[k]
  BY <1>1, UptoFrom
<1>3. c \in Seq(Lines) /\ Len(c) = Len(t) - q /\ \A k \in 1 .. Len(t) - q : c[k] = t[q + k]
  BY <1>1, UptoFrom
<1>4. u = a \o body \o c
  BY <1>1
<1>5. /\ u \in Seq(Lines) /\ Len(u) = p + Len(body) + (Len(t) - q)
      /\ \A k \in 1 .. p : u[k] = a[k]
      /\ \A k \in 1 .. Len(body) : u[p + k] = body[k]
      /\ \A k \in 1 .. Len(t) - q : u[p + Len(body) + k] = c[k]
  <2>1. Joins(a \o body \o c, a, body, c)
    BY <1>2, <1>3, ThreeParts
  <2>2. Joins(u, a, body, c)
    BY <1>4, <2>1
  <2> QED BY <1>2, <1>3, <2>2 DEF Joins
<1> QED BY <1>2, <1>3, <1>5 DEF IsUpdated

AreHeadingsOf(body, text) ==
  \A k \in 1 .. Len(body) : IsHeading(body[k]) => \E j \in Headings(text) : body[k] = text[j]

\* A body ends with a full line, and brings the headings it was given.
LEMMA BodyLines ==
  ASSUME NEW e \in Edits, e.form = "section", NEW body, body = SectionBody(e)
  PROVE  /\ body \in Seq(Lines) /\ (Len(body) = 0 \/ body[Len(body)] # Blank)
         /\ AreHeadingsOf(body, e.body)
<1> SUFFICES /\ body \in Seq(Lines) /\ (Len(body) = 0 \/ body[Len(body)] # Blank)
             /\ \A k \in 1 .. Len(body) : IsHeading(body[k]) => \E j \in Headings(e.body) : body[k] = e.body[j]
  BY DEF AreHeadingsOf
<1> DEFINE text == e.body
<1> DEFINE full == {i \in DOMAIN text : text[i] # Blank}
<1>1. text \in Seq(Lines) /\ Len(text) \in Nat /\ DOMAIN text = 1 .. Len(text)
  BY SectionOfEdit, InASequence DEF NoteTexts
<1>2. body \in Seq(Lines) /\ Len(body) \in Nat
  BY SectionOfEdit, InASequence
<1>3. CASE body = <<>>
  BY <1>2, <1>3
<1>4. CASE body # <<>>
  <2>1. PICK block : block = TrimmedBlock(text) /\ block # <<>> /\ body = <<Blank>> \o block
    BY <1>4 DEF SectionBody
  <2>2. full # {}
    BY <2>1 DEF TrimmedBlock
  <2>3. PICK a, b : a = Min(full) /\ b = Max(full)
    OBVIOUS
  <2>4. a \in 1 .. Len(text) /\ b \in 1 .. Len(text) /\ a <= b /\ text[b] # Blank
    BY <1>1, <2>2, <2>3, FullLines
  <2>5. block = SubSeq(text, a, b)
    BY <2>1, <2>2, <2>3 DEF TrimmedBlock
  <2> HIDE DEF full
  <2>6. a \in Int /\ b \in Int
    BY <1>1, <2>4
  <2>7. \A i \in a .. b : text[i] \in Lines
    BY <1>1, <2>4, InASequence
  <2>8. block \in Seq(Lines) /\ Len(block) = (IF a <= b THEN b - a + 1 ELSE 0) /\ \A k \in 1 .. b - a + 1 : block[k] = text[a + k - 1]
    BY <2>5, <2>6, <2>7, SubSeqProperties
  <2>9. PICK l : l = b - a + 1
    OBVIOUS
  <2>10. l \in Nat /\ l >= 1 /\ Len(block) = l
    BY <2>4, <2>6, <2>8, <2>9
  <2>11. \A k \in 1 .. l : block[k] = text[a + k - 1] /\ a + k - 1 \in 1 .. Len(text)
    <3> TAKE k \in 1 .. l
    <3>1. k \in 1 .. b - a + 1
      BY <2>9
    <3>2. a + k - 1 \in 1 .. Len(text)
      BY <1>1, <2>4, <2>6, <2>9
    <3> QED BY <2>8, <3>1, <3>2
  <2>12. <<Blank>> \in Seq(Lines) /\ Len(<<Blank>>) = 1
    BY LinesThereAre
  <2>13. body \in Seq(Lines) /\ Len(body) = 1 + l
         /\ \A k \in 1 .. 1 + l : body[k] = IF k <= 1 THEN <<Blank>>[k] ELSE block[k - 1]
    BY <2>1, <2>8, <2>10, <2>12, ConcatProperties
  <2>14. body[1] = Blank
    <3>1. 1 \in 1 .. 1 + l /\ 1 <= 1
      BY <2>10
    <3>2. body[1] = <<Blank>>[1]
      BY <2>13, <3>1
    <3> QED BY <3>2
  <2>15. \A k \in 2 .. 1 + l : k - 1 \in 1 .. l /\ body[k] = block[k - 1]
    <3> TAKE k \in 2 .. 1 + l
    <3>1. k \in 1 .. 1 + l /\ ~(k <= 1) /\ k - 1 \in 1 .. l
      BY <2>10
    <3> QED BY <2>13, <3>1
  <2>16. body[Len(body)] # Blank
    <3>1. PICK n : n = 1 + l
      OBVIOUS
    <3>2. n \in 2 .. 1 + l /\ n - 1 = l /\ l \in 1 .. l /\ a + l - 1 = b
      BY <2>6, <2>9, <2>10, <3>1
    <3>3. body[n] = block[l] /\ block[l] = text[b]
      BY <2>11, <2>15, <3>2
    <3> QED BY <2>4, <2>13, <3>1, <3>3
  <2>17. ASSUME NEW k \in 1 .. Len(body), IsHeading(body[k]) PROVE \E j \in Headings(text) : body[k] = text[j]
    <3>1. k \in 2 .. 1 + l
      <4>1. k # 1
        BY <2>14, <2>17, BlankIsNoHeading
      <4> QED BY <2>10, <2>13, <4>1
    <3>2. PICK j : j = a + (k - 1) - 1
      OBVIOUS
    <3>3. body[k] = text[j] /\ j \in 1 .. Len(text)
      BY <2>11, <2>15, <3>1, <3>2
    <3>4. j \in Headings(text)
      BY <1>1, <2>17, <3>3 DEF Headings
    <3> QED BY <3>3, <3>4
  <2> QED BY <2>13, <2>16, <2>17
<1> QED BY <1>3, <1>4

\* A text cut off at a line, and ended with a blank one.
LEMMA EndedIs ==
  ASSUME NEW w \in Seq(Lines), NEW m \in 0 .. Len(w), NEW v, v = Upto(w, m) \o <<Blank>>
  PROVE  v \in Seq(Lines) /\ Len(v) = m + 1 /\ v[m + 1] = Blank /\ \A k \in 1 .. m : v[k] = w[k]
<1>1. PICK a : a = Upto(w, m)
  OBVIOUS
<1>2. a \in Seq(Lines) /\ Len(a) = m /\ \A k \in 1 .. m : a[k] = w[k]
  BY <1>1, UptoFrom
<1>3. v = Append(a, Blank)
  <2>1. v = a \o <<Blank>>
    BY <1>1
  <2> QED BY <1>2, <2>1, AppendIsConcat, LinesThereAre
<1>4. /\ Append(a, Blank) \in Seq(Lines) /\ Len(Append(a, Blank)) = Len(a) + 1
      /\ \A k \in 1 .. Len(a) : Append(a, Blank)[k] = a[k]
      /\ Append(a, Blank)[Len(a) + 1] = Blank
  BY <1>2, AppendProperties, LinesThereAre
<1> QED BY <1>2, <1>3, <1>4

\* The lines of t up to b, and blank ones up to `at`; a blank line, if there are
\* any; the heading at h and the body; a blank line at s; c more lines of t, and
\* blank ones to its end.
IsCreated(u, t, heading, body, at, b, c, h, s) ==
  /\ b \in 0 .. at /\ (b = 0 \/ t[b] # Blank) /\ \A k \in b + 1 .. at : t[k] = Blank
  /\ h = (IF b = 0 THEN 1 ELSE b + 2) /\ s = h + Len(body) + 1
  /\ c \in 0 .. Len(t) - at /\ (c = 0 \/ t[at + c] # Blank) /\ \A k \in c + 1 .. Len(t) - at : t[at + k] = Blank
  /\ Len(u) = (IF c = 0 THEN s ELSE s + c + 1)
  /\ \A k \in 1 .. b : u[k] = t[k]
  /\ b # 0 => u[b + 1] = Blank
  /\ u[h] = heading /\ \A k \in 1 .. Len(body) : u[h + k] = body[k]
  /\ u[s] = Blank
  /\ \A k \in 1 .. c : u[s + k] = t[at + k]
  /\ u[Len(u)] = Blank

\* A creation is of that form.
LEMMA CreatedIs ==
  ASSUME NEW t \in Seq(Lines), NEW e \in Edits, e.form = "section", NEW at \in 0 .. Len(t),
         NEW u, u = CreateSection(t, e, at)
  PROVE  \E b, c, h, s : IsCreated(u, t, Heading(e.level, Trimmed[e.heading]), SectionBody(e), at, b, c, h, s)
<1>1. PICK body, heading : body = SectionBody(e) /\ heading = Heading(e.level, Trimmed[e.heading])
  OBVIOUS
<1>2. body \in Seq(Lines) /\ (Len(body) = 0 \/ body[Len(body)] # Blank)
  BY <1>1, BodyLines
<1>3. heading \in Lines /\ heading # Blank
  <2>1. IsHeading(heading)
    BY <1>1 DEF IsHeading, Heading
  <2> QED BY <1>1, <2>1, SectionOfEdit, LinesThereAre, BlankIsNoHeading
<1>4. PICK n, l : n = Len(t) /\ l = Len(body)
  OBVIOUS
<1>5. n \in Nat /\ l \in Nat /\ at \in Nat /\ at <= n
  <2>1. Len(t) \in Nat /\ Len(body) \in Nat
    BY <1>2, InASequence
  <2> QED BY <1>4, <2>1
<1>6. PICK v : v = Upto(t, at)
  OBVIOUS
<1>7. v \in Seq(Lines) /\ Len(v) = at /\ \A k \in 1 .. at : v[k] = t[k]
  BY <1>6, UptoFrom
<1>8. PICK b : TrimsTo(v, b)
  BY <1>7, TrimEndIs
<1>9. b \in 0 .. at /\ (b = 0 \/ v[b] # Blank) /\ \A k \in b + 1 .. at : v[k] = Blank
  BY <1>7, <1>8 DEF TrimsTo
<1>10. b \in Nat /\ b <= at
  BY <1>5, <1>9
<1>11. (b = 0 \/ t[b] # Blank) /\ \A k \in b + 1 .. at : t[k] = Blank
  <2>1. \A k \in b + 1 .. at : k \in 1 .. at
    BY <1>5, <1>10
  <2>2. b # 0 => b \in 1 .. at
    BY <1>5, <1>10
  <2> QED BY <1>7, <1>9, <2>1, <2>2
<1>12. PICK before : before = TrimEnd(v)
  OBVIOUS
<1>13. before \in Seq(Lines) /\ Len(before) = b /\ \A k \in 1 .. b : before[k] = t[k]
  <2>1. before = Upto(v, b)
    BY <1>7, <1>8, <1>12, TrimEndIs
  <2>2. b \in 0 .. Len(v)
    BY <1>7, <1>9
  <2>3. before \in Seq(Lines) /\ Len(before) = b /\ \A k \in 1 .. b : before[k] = v[k]
    BY <1>7, <2>1, <2>2, UptoFrom
  <2>4. \A k \in 1 .. b : k \in 1 .. at
    BY <1>5, <1>10
  <2> QED BY <1>7, <2>3, <2>4
<1>14. PICK gap : gap = IF before = <<>> THEN <<>> ELSE <<Blank>>
  OBVIOUS
<1>15. gap \in Seq(Lines) /\ (b = 0 => Len(gap) = 0) /\ (b # 0 => Len(gap) = 1 /\ gap[1] = Blank)
  <2>1. <<Blank>> \in Seq(Lines) /\ Len(<<Blank>>) = 1 /\ <<>> \in Seq(Lines) /\ Len(<<>>) = 0
    BY LinesThereAre
  <2>2. before = <<>> <=> b = 0
    BY <1>13, EmptySeq
  <2>3. CASE b = 0
    BY <1>14, <2>1, <2>2, <2>3
  <2>4. CASE b # 0
    BY <1>14, <2>1, <2>2, <2>4
  <2> QED BY <2>3, <2>4
<1>16. PICK section : section = <<heading>> \o body
  OBVIOUS
<1>17. section \in Seq(Lines) /\ Len(section) = 1 + l /\ section[1] = heading /\ \A k \in 1 .. l : section[1 + k] = body[k]
  <2>1. <<heading>> \in Seq(Lines) /\ Len(<<heading>>) = 1
    BY <1>3
  <2>2. section \in Seq(Lines) /\ Len(section) = 1 + l
        /\ \A k \in 1 .. 1 + l : section[k] = IF k <= 1 THEN <<heading>>[k] ELSE body[k - 1]
    BY <1>2, <1>4, <1>16, <2>1, ConcatProperties
  <2>3. section[1] = heading
    <3>1. 1 \in 1 .. 1 + l /\ 1 <= 1
      BY <1>5
    <3>2. section[1] = <<heading>>[1]
      BY <2>2, <3>1
    <3> QED BY <3>2
  <2>4. \A k \in 1 .. l : section[1 + k] = body[k]
    <3> TAKE k \in 1 .. l
    <3>1. PICK j : j = 1 + k
      OBVIOUS
    <3>2. j \in 1 .. 1 + l /\ ~(j <= 1) /\ j - 1 = k
      BY <1>5, <3>1
    <3> QED BY <2>2, <3>1, <3>2
  <2> QED BY <2>2, <2>3, <2>4
<1>18. PICK pre, g, h : pre = before \o gap \o section /\ g = Len(gap) /\ h = b + g + 1
  OBVIOUS
<1>19. g \in {0, 1} /\ (b = 0 => g = 0) /\ (b # 0 => g = 1)
  BY <1>15, <1>18
<1>20. Joins(pre, before, gap, section)
  BY <1>13, <1>15, <1>17, <1>18, ThreeParts
<1>21. /\ pre \in Seq(Lines) /\ Len(pre) = b + g + (1 + l)
       /\ \A k \in 1 .. b : pre[k] = t[k]
       /\ \A k \in 1 .. g : pre[b + k] = gap[k]
       /\ \A k \in 1 .. 1 + l : pre[b + g + k] = section[k]
  BY <1>13, <1>17, <1>18, <1>20 DEF Joins
<1>22. PICK s, tail, w : s = h + l + 1 /\ tail = From(t, at + 1) /\ w = pre \o <<Blank>> \o tail
  OBVIOUS
<1>23. h \in Nat /\ s \in Nat /\ h >= 1 /\ b < h /\ h < s /\ Len(pre) = s - 1 /\ h = (IF b = 0 THEN 1 ELSE b + 2)
  <2>1. h = b + g + 1 /\ s = h + l + 1
    BY <1>18, <1>22
  <2>2. g \in Nat
    BY <1>19
  <2>3. h \in Nat /\ h >= 1 /\ b < h
    BY <1>10, <2>1, <2>2
  <2>4. s \in Nat /\ h < s
    BY <1>5, <2>1, <2>3
  <2>5. Len(pre) = b + g + (1 + l)
    BY <1>21
  <2>6. b + g + (1 + l) = s - 1
    BY <1>5, <1>10, <2>1, <2>2
  <2>7. CASE b = 0
    <3>1. h = 1
      BY <1>19, <2>1, <2>7
    <3> QED BY <2>3, <2>4, <2>5, <2>6, <2>7, <3>1
  <2>8. CASE b # 0
    <3>1. h = b + 2
      BY <1>10, <1>19, <2>1, <2>8
    <3> QED BY <2>3, <2>4, <2>5, <2>6, <2>8, <3>1
  <2> QED BY <2>7, <2>8
<1>24. tail \in Seq(Lines) /\ Len(tail) = n - at /\ \A k \in 1 .. n - at : tail[k] = t[at + k]
  BY <1>4, <1>22, UptoFrom
<1>25. <<Blank>> \in Seq(Lines) /\ Len(<<Blank>>) = 1
  BY LinesThereAre
<1>26. Joins(w, pre, <<Blank>>, tail)
  BY <1>21, <1>22, <1>24, <1>25, ThreeParts
<1>27. /\ w \in Seq(Lines) /\ Len(w) = s - 1 + 1 + (n - at)
       /\ \A k \in 1 .. s - 1 : w[k] = pre[k]
       /\ \A k \in 1 .. 1 : w[s - 1 + k] = <<Blank>>[k]
       /\ \A k \in 1 .. n - at : w[s - 1 + 1 + k] = tail[k]
  BY <1>23, <1>24, <1>25, <1>26 DEF Joins
<1>28. Len(w) = s + (n - at) /\ w[s] = Blank /\ \A k \in 1 .. n - at : w[s + k] = t[at + k]
  <2>1. s - 1 + 1 = s /\ 1 \in 1 .. 1
    BY <1>23
  <2>2. w[s - 1 + 1] = <<Blank>>[1]
    BY <1>27, <2>1
  <2> QED BY <1>24, <1>27, <2>1, <2>2
<1>29. \A k \in 1 .. b : w[k] = t[k]
  <2>1. \A k \in 1 .. b : k \in 1 .. s - 1
    BY <1>10, <1>23
  <2> QED BY <1>21, <1>27, <2>1
<1>30. b # 0 => w[b + 1] = Blank
  <2> SUFFICES ASSUME b # 0 PROVE w[b + 1] = Blank
    OBVIOUS
  <2>1. 1 \in 1 .. g /\ b + 1 \in 1 .. s - 1
    BY <1>10, <1>19, <1>23
  <2>2. pre[b + 1] = gap[1] /\ gap[1] = Blank
    BY <1>15, <1>21, <2>1
  <2> QED BY <1>27, <2>1, <2>2
<1>31. w[h] = heading
  <2>1. 1 \in 1 .. 1 + l /\ b + g + 1 = h /\ h \in 1 .. s - 1
    BY <1>5, <1>18, <1>23
  <2>2. pre[b + g + 1] = section[1]
    BY <1>21, <2>1
  <2> QED BY <1>17, <1>27, <2>1, <2>2
<1>32. \A k \in 1 .. l : w[h + k] = body[k]
  <2> TAKE k \in 1 .. l
  <2>1. PICK j : j = 1 + k
    OBVIOUS
  <2>2. j \in 1 .. 1 + l /\ b + g + j = h + k /\ h + k \in 1 .. s - 1
    BY <1>5, <1>10, <1>18, <1>19, <1>22, <1>23, <2>1
  <2>3. pre[b + g + j] = section[j] /\ section[j] = body[k]
    BY <1>17, <1>21, <2>1, <2>2
  <2> QED BY <1>27, <2>2, <2>3
<1>33. PICK c : TrimsTo(tail, c)
  BY <1>24, TrimEndIs
<1>34. c \in 0 .. n - at /\ (c = 0 \/ tail[c] # Blank) /\ \A k \in c + 1 .. n - at : tail[k] = Blank
  BY <1>24, <1>33 DEF TrimsTo
<1>35. c \in Nat /\ c <= n - at
  BY <1>5, <1>34
<1>36. (c = 0 \/ t[at + c] # Blank) /\ \A k \in c + 1 .. n - at : t[at + k] = Blank
  <2>1. \A k \in c + 1 .. n - at : k \in 1 .. n - at
    BY <1>5, <1>35
  <2>2. c # 0 => c \in 1 .. n - at
    BY <1>5, <1>35
  <2> QED BY <1>24, <1>34, <2>1, <2>2
<1>37. PICK m : m = IF c = 0 THEN s - 1 ELSE s + c
  OBVIOUS
<1>38. m \in 0 .. Len(w) /\ m \in Nat /\ m >= s - 1
  BY <1>5, <1>23, <1>28, <1>35, <1>37
<1>39. w[m] # Blank
  <2>1. CASE c # 0
    <3>1. c \in 1 .. n - at
      BY <1>5, <1>35, <2>1
    <3> QED BY <1>28, <1>36, <1>37, <2>1, <3>1
  <2>2. CASE c = 0 /\ l = 0
    <3>1. m = h
      BY <1>22, <1>23, <1>37, <2>2
    <3> QED BY <1>3, <1>31, <3>1
  <2>3. CASE c = 0 /\ l # 0
    <3>1. m = h + l /\ l \in 1 .. l
      BY <1>5, <1>22, <1>23, <1>37, <2>3
    <3>2. w[h + l] = body[l] /\ body[l] # Blank
      BY <1>2, <1>4, <1>32, <2>3, <3>1
    <3> QED BY <3>1, <3>2
  <2> QED BY <2>1, <2>2, <2>3
<1>40. \A k \in m + 1 .. Len(w) : w[k] = Blank
  <2> TAKE k \in m + 1 .. Len(w)
  <2>1. k \in Int /\ m + 1 <= k /\ k <= s + (n - at)
    BY <1>28, <1>38
  <2>2. CASE k <= s
    <3>1. k = s
      BY <1>23, <1>37, <1>38, <2>1, <2>2
    <3> QED BY <1>28, <3>1
  <2>3. CASE k > s
    <3>1. PICK j : j = k - s
      OBVIOUS
    <3>2. j \in c + 1 .. n - at /\ j \in 1 .. n - at /\ s + j = k
      BY <1>5, <1>23, <1>35, <1>37, <2>1, <2>3, <3>1
    <3> QED BY <1>28, <1>36, <3>2
  <2> QED BY <1>23, <2>1, <2>2, <2>3
<1>41. TrimsTo(w, m)
  BY <1>38, <1>39, <1>40 DEF TrimsTo
<1>42. u = Upto(w, m) \o <<Blank>>
  <2>1. TrimEnd(w) = Upto(w, m)
    BY <1>27, <1>41, TrimEndIs
  <2>2. w = before \o gap \o section \o <<Blank>> \o From(t, at + 1)
    BY <1>18, <1>22
  <2>3. u = TrimEnd(w) \o <<Blank>>
    BY <1>1, <1>6, <1>12, <1>14, <1>16, <2>2 DEF CreateSection
  <2> QED BY <2>1, <2>3
<1>43. u \in Seq(Lines) /\ Len(u) = m + 1 /\ u[m + 1] = Blank /\ \A k \in 1 .. m : u[k] = w[k]
  BY <1>27, <1>38, <1>42, EndedIs
<1>44. (\A k \in 1 .. b : k \in 1 .. m) /\ (b # 0 => b + 1 \in 1 .. m) /\ h \in 1 .. m
  BY <1>10, <1>18, <1>19, <1>23, <1>38
<1>45. \A k \in 1 .. l : h + k \in 1 .. m
  BY <1>5, <1>22, <1>23, <1>38
<1>46. u[s] = Blank
  <2>1. CASE c = 0
    <3>1. m + 1 = s
      BY <1>23, <1>37, <2>1
    <3> QED BY <1>43, <3>1
  <2>2. CASE c # 0
    <3>1. s \in 1 .. m
      BY <1>23, <1>35, <1>37, <2>2
    <3> QED BY <1>28, <1>43, <3>1
  <2> QED BY <2>1, <2>2
<1>47. \A k \in 1 .. c : u[s + k] = t[at + k]
  <2> TAKE k \in 1 .. c
  <2>1. s + k \in 1 .. m /\ k \in 1 .. n - at
    BY <1>5, <1>23, <1>35, <1>37
  <2> QED BY <1>28, <1>43, <2>1
<1>48. Len(u) = (IF c = 0 THEN s ELSE s + c + 1) /\ u[Len(u)] = Blank
  BY <1>23, <1>35, <1>37, <1>43
<1>49. /\ \A k \in 1 .. b : u[k] = t[k]
       /\ b # 0 => u[b + 1] = Blank
       /\ u[h] = heading /\ \A k \in 1 .. l : u[h + k] = body[k]
  BY <1>29, <1>30, <1>31, <1>32, <1>43, <1>44, <1>45
<1>50. IsCreated(u, t, heading, body, at, b, c, h, s)
  BY <1>4, <1>9, <1>11, <1>22, <1>23, <1>34, <1>36, <1>46, <1>47, <1>48, <1>49 DEF IsCreated
<1> QED BY <1>1, <1>50

----------------------------------------------------------------------------
(* The sections that a section edit leaves.                                *)

\* A section that keeps its lines, and what follows it, d lines further.
StaysWhole(t, u, i, d, b) ==
  /\ EndsAt(t, i, FALSE, b) /\ 1 <= i + d /\ b + d <= Len(u)
  /\ \A k \in i .. b : u[k + d] = t[k]
  /\ \/ b = Len(t) /\ b + d = Len(u)
     \/ b + 1 <= Len(t) /\ b + 1 + d <= Len(u) /\ u[b + 1 + d] = t[b + 1]

\* A section that stays whole has its text in the other note.
LEMMA KeptWhole ==
  ASSUME NEW t \in Seq(Lines), NEW u \in Seq(Lines), NEW i \in Headings(t), NEW d \in Int,
         NEW b \in Int, StaysWhole(t, u, i, d, b)
  PROVE  \E j \in Headings(u) : SectionText(u, j) = SectionText(t, i)
<1>1. DOMAIN t = 1 .. Len(t) /\ Len(t) \in Nat /\ DOMAIN u = 1 .. Len(u) /\ Len(u) \in Nat
  BY InASequence
<1>2. i \in 1 .. Len(t)
  BY <1>1 DEF Headings
<1>a. /\ EndsAt(t, i, FALSE, b) /\ 1 <= i + d /\ b + d <= Len(u)
      /\ \A k \in i .. b : u[k + d] = t[k]
      /\ \/ b = Len(t) /\ b + d = Len(u)
         \/ b + 1 <= Len(t) /\ b + 1 + d <= Len(u) /\ u[b + 1 + d] = t[b + 1]
  BY DEF StaysWhole
<1>3. SectionEnd(t, i, FALSE) = b
  BY <1>2, <1>a, SectionEndIs
<1>4. b \in i .. Len(t) /\ (b = Len(t) \/ Stops(t, i, FALSE, b + 1))
  BY <1>a DEF EndsAt
<1>5. PICK n, l, m : n = Len(t) /\ l = Len(u) /\ m = b + d
  OBVIOUS
<1>6. n \in Int /\ l \in Int /\ m \in Int /\ 1 <= i /\ i <= b /\ b <= n /\ m <= l
  <2>1. n \in Int /\ l \in Int
    BY <1>1, <1>5
  <2>2. i \in Int /\ 1 <= i
    BY <1>1, <1>2
  <2>3. i <= b /\ b <= n
    BY <1>4, <1>5, <2>1, <2>2
  <2>4. m \in Int
    BY <1>5
  <2>5. m <= l
    BY <1>5, <1>a
  <2> QED BY <2>1, <2>2, <2>3, <2>4, <2>5
<1>7. m = l \/ m + 1 \in Headings(u)
  <2> SUFFICES ASSUME m # l PROVE m + 1 \in Headings(u)
    OBVIOUS
  <2>1. b + 1 <= Len(t) /\ b + 1 + d <= Len(u) /\ u[b + 1 + d] = t[b + 1]
    BY <1>5, <1>a
  <2>2. PICK j : j = b + 1 + d
    OBVIOUS
  <2>3. j = m + 1 /\ j <= l /\ 1 <= j /\ j \in Int
    <3>1. m = b + d /\ j = m + 1
      BY <1>5, <1>6, <2>2
    <3>2. j <= l
      BY <1>5, <2>1, <2>2
    <3>3. 1 <= i + d /\ i <= b /\ i \in Int /\ m \in Int
      BY <1>2, <1>6, <1>a
    <3>4. 1 <= j /\ j \in Int
      BY <3>1, <3>3
    <3> QED BY <3>1, <3>2, <3>4
  <2>4. b # n
    BY <1>5, <1>6, <2>1
  <2>5. b + 1 \in Headings(t)
    BY <1>4, <1>5, <2>4 DEF Stops
  <2>6. IsHeading(u[j]) /\ j \in DOMAIN u
    <3>1. u[j] = t[b + 1]
      BY <2>1, <2>2
    <3>2. IsHeading(t[b + 1])
      BY <2>5 DEF Headings
    <3>3. j \in 1 .. l
      BY <1>6, <2>3
    <3> QED BY <1>1, <1>5, <3>1, <3>2, <3>3
  <2> QED BY <2>3, <2>6 DEF Headings
<1>8. \A k \in b + 1 .. b : t[k] = Blank
  BY <1>6
<1>9. \A k \in b + d + 1 .. m : u[k] = Blank
  BY <1>5, <1>6
<1>10. /\ 1 <= i /\ i <= b /\ b <= b /\ b <= Len(t)
       /\ 1 <= i + d /\ b + d <= m /\ m <= Len(u)
  BY <1>5, <1>6, <1>a
<1>11. m = Len(u) \/ m + 1 \in Headings(u)
  BY <1>5, <1>7
<1>12. Carried(t, u, i, d, b, b, m)
  BY <1>3, <1>8, <1>9, <1>10, <1>11, <1>a DEF Carried
<1>13. i + d \in Headings(u) /\ SectionText(u, i + d) = SectionText(t, i)
  BY <1>6, <1>12, SectionMoves
<1> QED BY <1>13

IsNested(t, e, p, i) == e.deep /\ p < i /\ i <= SectionEnd(t, p, TRUE)

\* An update keeps the text of every section but its own and those nested in it.
LEMMA UpdateKeeps ==
  ASSUME NEW t \in NoteTexts, NEW e \in Edits, e.form = "section", NEW p \in Titled(t, e.heading),
         NEW u, u = UpdateSection(t, e, p), NEW i \in Headings(t), Title(t[i]) # e.heading, ~IsNested(t, e, p, i)
  PROVE  \E j \in Headings(u) : SectionText(u, j) = SectionText(t, i)
<1>1. t \in Seq(Lines) /\ DOMAIN t = 1 .. Len(t) /\ Len(t) \in Nat
  BY InASequence DEF NoteTexts
<1>2. p \in Headings(t) /\ i \in Headings(t) /\ p # i /\ p \in 1 .. Len(t) /\ i \in 1 .. Len(t)
  BY <1>1 DEF Titled, Headings
<1>3. e.deep \in BOOLEAN
  BY SectionOfEdit
<1>4. PICK body, deep : body = SectionBody(e) /\ deep = e.deep
  OBVIOUS
<1>5. body \in Seq(Lines) /\ Len(body) \in Nat /\ deep \in BOOLEAN
  BY <1>3, <1>4, SectionOfEdit, InASequence
<1>6. PICK q : q = SectionEnd(t, p, deep)
  OBVIOUS
<1>7. EndsAt(t, p, deep, q)
  BY <1>1, <1>2, <1>5, <1>6, SectionEndIs
<1>8. q \in p .. Len(t) /\ \A j \in Headings(t) : p < j /\ j <= q => ~Stops(t, p, deep, j)
  BY <1>7 DEF EndsAt
<1>9. PICK b : b = SectionEnd(t, i, FALSE)
  OBVIOUS
<1>10. EndsAt(t, i, FALSE, b)
  BY <1>1, <1>2, <1>9, SectionEndIs
<1>11. b \in i .. Len(t) /\ (b = Len(t) \/ Stops(t, i, FALSE, b + 1))
       /\ \A j \in Headings(t) : i < j /\ j <= b => ~Stops(t, i, FALSE, j)
  BY <1>10 DEF EndsAt
<1>12. PICK n, l : n = Len(t) /\ l = Len(body)
  OBVIOUS
<1>13. n \in Int /\ l \in Int /\ p \in Int /\ q \in Int /\ i \in Int /\ b \in Int
  <2>1. n \in Int /\ l \in Int
    BY <1>1, <1>5, <1>12
  <2>2. p \in Int /\ i \in Int
    BY <1>1, <1>2
  <2>3. q \in Int
    BY <1>8, <2>2
  <2>4. b \in Int
    BY <1>11, <2>2
  <2> QED BY <2>1, <2>2, <2>3, <2>4
<1>14. 1 <= p /\ p <= q /\ q <= n /\ 1 <= i /\ i <= b /\ b <= n /\ 0 <= l
  <2>1. 1 <= p /\ 1 <= i
    BY <1>1, <1>2
  <2>2. p <= q /\ q <= n
    BY <1>8, <1>12, <1>13
  <2>3. i <= b /\ b <= n
    BY <1>11, <1>12, <1>13
  <2>4. 0 <= l
    BY <1>5, <1>12
  <2> QED BY <2>1, <2>2, <2>3, <2>4
<1>15. p \in 0 .. Len(t) /\ q \in 0 .. Len(t)
  BY <1>12, <1>13, <1>14
<1>16. u \in Seq(Lines) /\ IsUpdated(u, t, body, p, q)
  BY <1>1, <1>4, <1>5, <1>6, <1>15, UpdatedIs DEF UpdateSection
<1>17. /\ Len(u) = p + l + (n - q)
       /\ \A k \in 1 .. p : u[k] = t[k]
       /\ \A k \in 1 .. n - q : u[p + l + k] = t[q + k]
  BY <1>12, <1>16 DEF IsUpdated
<1>18. CASE i < p
  <2>1. b < p
    <3> SUFFICES ASSUME ~(b < p) PROVE FALSE
      OBVIOUS
    <3>1. p <= b
      BY <1>13
    <3> QED BY <1>2, <1>11, <1>18, <3>1 DEF Stops
  <2>2. b + 0 <= Len(u) /\ 1 <= i + 0 /\ b + 1 <= n /\ b + 1 + 0 <= Len(u) /\ b + 1 \in 1 .. p
    BY <1>13, <1>14, <1>17, <2>1
  <2>3. \A k \in i .. b : u[k + 0] = t[k]
    <3> TAKE k \in i .. b
    <3>1. k \in 1 .. p /\ k + 0 = k
      BY <1>13, <1>14, <2>1
    <3> QED BY <1>17, <3>1
  <2>4. u[b + 1 + 0] = t[b + 1]
    <3>1. b + 1 + 0 = b + 1
      BY <1>13
    <3> QED BY <1>17, <2>2, <3>1
  <2>5. 0 \in Int /\ b + 1 <= Len(t)
    BY <1>12, <2>2
  <2>6. StaysWhole(t, u, i, 0, b)
    BY <1>10, <2>2, <2>3, <2>4, <2>5 DEF StaysWhole
  <2> QED BY <1>1, <1>13, <1>16, <2>5, <2>6, KeptWhole
<1>19. CASE p < i
  <2>1. q < i
    <3>1. CASE deep
      <4>1. deep = TRUE
        BY <1>5, <3>1
      <4>2. ~(i <= q)
        BY <1>4, <1>6, <1>19, <4>1 DEF IsNested
      <4> QED BY <1>13, <4>2
    <3>2. CASE ~deep
      <4>1. ~(i <= q)
        BY <1>2, <1>8, <1>19, <3>2 DEF Stops
      <4> QED BY <1>13, <4>1
    <3> QED BY <3>1, <3>2
  <2>2. PICK d : d = p + l - q
    OBVIOUS
  <2>3. d \in Int
    BY <1>13, <2>2
  <2>4. \A k \in q + 1 .. n : u[k + d] = t[k]
    <3> TAKE k \in q + 1 .. n
    <3>1. PICK j : j = k - q
      OBVIOUS
    <3>2. j \in 1 .. n - q /\ p + l + j = k + d /\ q + j = k
      BY <1>13, <2>2, <3>1
    <3>3. u[p + l + j] = t[q + j]
      BY <1>17, <3>2
    <3> QED BY <3>2, <3>3
  <2>5. 1 <= i + d
    BY <1>13, <1>14, <2>1, <2>2
  <2>6. b + d <= Len(u)
    BY <1>13, <1>14, <1>17, <2>2
  <2>7. \A k \in i .. b : u[k + d] = t[k]
    <3> TAKE k \in i .. b
    <3>1. k \in q + 1 .. n
      BY <1>13, <1>14, <2>1
    <3> QED BY <2>4, <3>1
  <2>8. \/ b = Len(t) /\ b + d = Len(u)
        \/ b + 1 <= Len(t) /\ b + 1 + d <= Len(u) /\ u[b + 1 + d] = t[b + 1]
    <3>1. CASE b = n
      <4>1. b + d = Len(u)
        BY <1>13, <1>17, <2>2, <3>1
      <4> QED BY <1>12, <3>1, <4>1
    <3>2. CASE b # n
      <4>1. b + 1 <= n /\ b + 1 + d <= Len(u) /\ b + 1 \in q + 1 .. n
        BY <1>13, <1>14, <1>17, <2>1, <2>2, <3>2
      <4>2. u[b + 1 + d] = t[b + 1]
        BY <2>4, <4>1
      <4> QED BY <1>12, <4>1, <4>2
    <3> QED BY <3>1, <3>2
  <2>9. StaysWhole(t, u, i, d, b)
    BY <1>10, <2>5, <2>6, <2>7, <2>8 DEF StaysWhole
  <2> QED BY <1>1, <1>13, <1>16, <2>3, <2>9, KeptWhole
<1>20. i < p \/ p < i
  BY <1>2, <1>13
<1> QED BY <1>18, <1>19, <1>20

\* A creation keeps the text of every section.
LEMMA CreateKeeps ==
  ASSUME NEW t \in NoteTexts, NEW e \in Edits, e.form = "section", NEW at \in 0 .. Len(t),
         at = Len(t) \/ at + 1 \in Headings(t),
         NEW u, u = CreateSection(t, e, at), NEW i \in Headings(t)
  PROVE  \E j \in Headings(u) : SectionText(u, j) = SectionText(t, i)
<1>1. t \in Seq(Lines) /\ DOMAIN t = 1 .. Len(t) /\ Len(t) \in Nat
  BY InASequence DEF NoteTexts
<1>2. i \in 1 .. Len(t) /\ IsHeading(t[i]) /\ t[i] # Blank
  BY <1>1, BlankIsNoHeading DEF Headings
<1>3. PICK n, body, heading : n = Len(t) /\ body = SectionBody(e) /\ heading = Heading(e.level, Trimmed[e.heading])
  OBVIOUS
<1>4. u \in NoteTexts
  BY CreatedSections
<1>5. u \in Seq(Lines) /\ DOMAIN u = 1 .. Len(u) /\ Len(u) \in Nat
  BY <1>4, InASequence DEF NoteTexts
<1>6. body \in Seq(Lines) /\ Len(body) \in Nat
  BY <1>3, SectionOfEdit, InASequence
<1>7. PICK b, c, h, s : IsCreated(u, t, heading, body, at, b, c, h, s)
  BY <1>1, <1>3, CreatedIs
<1>8. PICK l : l = Len(body)
  OBVIOUS
<1>9. /\ b \in 0 .. at /\ h = (IF b = 0 THEN 1 ELSE b + 2) /\ s = h + l + 1
      /\ c \in 0 .. n - at /\ Len(u) = (IF c = 0 THEN s ELSE s + c + 1)
  BY <1>3, <1>7, <1>8 DEF IsCreated
<1>10. /\ \A k \in b + 1 .. at : t[k] = Blank
       /\ \A k \in c + 1 .. n - at : t[at + k] = Blank
       /\ \A k \in 1 .. b : u[k] = t[k]
       /\ b # 0 => u[b + 1] = Blank
       /\ u[h] = heading
       /\ \A k \in 1 .. c : u[s + k] = t[at + k]
       /\ u[Len(u)] = Blank
  BY <1>3, <1>7 DEF IsCreated
<1>11. n \in Int /\ i \in Int /\ l \in Int /\ at \in Int
  <2>1. n \in Nat
    BY <1>1, <1>3
  <2>2. l \in Nat
    BY <1>6, <1>8
  <2>3. i \in 1 .. n /\ at \in 0 .. n
    BY <1>2, <1>3
  <2>4. i \in Int /\ at \in Int
    BY <2>1, <2>3
  <2> QED BY <2>1, <2>2, <2>4
<1>12. b \in Int /\ c \in Int
  BY <1>9, <1>11
<1>13. h \in Int /\ s \in Int
  BY <1>9, <1>11, <1>12
<1>14. 0 <= b /\ b <= at /\ at <= n /\ 0 <= c /\ c <= n - at /\ 0 <= l /\ 1 <= i /\ i <= n
  <2>1. 0 <= b /\ b <= at
    BY <1>9, <1>11, <1>12
  <2>2. at <= n
    BY <1>3, <1>11
  <2>3. 0 <= c /\ c <= n - at
    BY <1>9, <1>11, <1>12
  <2>4. 0 <= l
    BY <1>6, <1>8
  <2>5. 1 <= i /\ i <= n
    BY <1>2, <1>3, <1>11
  <2> QED BY <2>1, <2>2, <2>3, <2>4, <2>5
<1>15. b < h /\ h < s /\ s <= Len(u) /\ s = h + l + 1
  <2>1. b < h
    BY <1>9, <1>12, <1>14
  <2>2. h < s
    BY <1>9, <1>11, <1>13, <1>14
  <2>3. s <= Len(u)
    BY <1>9, <1>12, <1>13, <1>14
  <2> QED BY <1>9, <2>1, <2>2, <2>3
<1>16. PICK z : z = SectionEnd(t, i, FALSE)
  OBVIOUS
<1>17. EndsAt(t, i, FALSE, z)
  BY <1>1, <1>2, <1>16, SectionEndIs
<1>18. z \in i .. Len(t) /\ (z = Len(t) \/ Stops(t, i, FALSE, z + 1))
       /\ \A j \in Headings(t) : i < j /\ j <= z => ~Stops(t, i, FALSE, j)
  BY <1>17 DEF EndsAt
<1>19. z \in Int /\ i <= z /\ z <= n
  BY <1>3, <1>11, <1>18
<1>20. CASE i <= at
  <2>1. i <= b
    <3> SUFFICES ASSUME ~(i <= b) PROVE FALSE
      OBVIOUS
    <3>1. i \in b + 1 .. at
      BY <1>11, <1>12, <1>20
    <3> QED BY <1>2, <1>10, <3>1
  <2>2. z <= at
    <3> SUFFICES ASSUME ~(z <= at) PROVE FALSE
      OBVIOUS
    <3>1. at # n
      BY <1>11, <1>19
    <3>2. at + 1 \in Headings(t)
      BY <1>3, <3>1
    <3>3. i < at + 1 /\ at + 1 <= z
      BY <1>11, <1>19, <1>20
    <3> QED BY <1>18, <3>2, <3>3 DEF Stops
  <2>3. CASE z < b
    <3>1. z + 0 <= Len(u) /\ 1 <= i + 0 /\ z + 1 <= n /\ z + 1 + 0 <= Len(u) /\ z + 1 \in 1 .. b
      <4>1. b <= Len(u)
        BY <1>5, <1>12, <1>13, <1>15
      <4>2. z + 1 <= b /\ z + 1 \in 1 .. b
        BY <1>11, <1>12, <1>14, <1>19, <2>3
      <4>3. z + 1 <= n
        BY <1>11, <1>12, <1>14, <1>19, <4>2
      <4>4. z + 1 + 0 <= Len(u) /\ z + 0 <= Len(u)
        BY <1>5, <1>12, <1>19, <4>1, <4>2
      <4>5. 1 <= i + 0
        BY <1>11, <1>14
      <4> QED BY <4>2, <4>3, <4>4, <4>5
    <3>2. \A k \in i .. z : u[k + 0] = t[k]
      <4> TAKE k \in i .. z
      <4>1. k \in 1 .. b /\ k + 0 = k
        BY <1>11, <1>12, <1>14, <1>19, <2>3
      <4> QED BY <1>10, <4>1
    <3>3. u[z + 1 + 0] = t[z + 1]
      <4>1. z + 1 + 0 = z + 1
        BY <1>19
      <4> QED BY <1>10, <3>1, <4>1
    <3>4. 0 \in Int /\ z + 1 <= Len(t)
      BY <1>3, <3>1
    <3>5. StaysWhole(t, u, i, 0, z)
      BY <1>17, <3>1, <3>2, <3>3, <3>4 DEF StaysWhole
    <3> QED BY <1>1, <1>5, <1>19, <3>4, <3>5, KeptWhole
  <2>4. CASE ~(z < b)
    <3>1. b # 0 /\ h = b + 2
      <4>1. b # 0
        BY <1>11, <1>12, <1>14, <2>1
      <4> QED BY <1>9, <4>1
    <3>2. PICK m : m = b + 1
      OBVIOUS
    <3>3. m \in Int /\ m + 1 = h
      BY <1>12, <3>1, <3>2
    <3>4. \A k \in b + 1 .. z : t[k] = Blank
      <4> TAKE k \in b + 1 .. z
      <4>1. k \in b + 1 .. at
        BY <1>11, <1>12, <1>19, <2>2
      <4> QED BY <1>10, <4>1
    <3>5. \A k \in i .. b : u[k + 0] = t[k]
      <4> TAKE k \in i .. b
      <4>1. k \in 1 .. b /\ k + 0 = k
        BY <1>11, <1>12, <1>14
      <4> QED BY <1>10, <4>1
    <3>6. \A k \in b + 0 + 1 .. m : u[k] = Blank
      <4> TAKE k \in b + 0 + 1 .. m
      <4>1. k = b + 1
        BY <1>12, <3>2
      <4> QED BY <1>10, <3>1, <4>1
    <3>7. m <= Len(u) /\ h <= Len(u) /\ 1 <= h
      <4>1. h <= Len(u)
        BY <1>5, <1>13, <1>15
      <4>2. m <= Len(u)
        BY <1>5, <1>13, <3>3, <4>1
      <4> QED BY <1>12, <1>13, <1>14, <1>15, <4>1, <4>2
    <3>8. h \in Headings(u)
      <4>1. IsHeading(u[h])
        BY <1>3, <1>10 DEF IsHeading, Heading
      <4>2. h \in DOMAIN u
        BY <1>5, <1>13, <3>7
      <4> QED BY <4>1, <4>2 DEF Headings
    <3>9. b <= z /\ z <= Len(t) /\ b + 0 <= m
      BY <1>3, <1>12, <1>19, <2>4, <3>2
    <3>10. 1 <= i + 0
      BY <1>11, <1>14
    <3>11. Carried(t, u, i, 0, z, b, m)
      BY <1>14, <1>16, <2>1, <3>3, <3>4, <3>5, <3>6, <3>7, <3>8, <3>9, <3>10 DEF Carried
    <3>12. 0 \in Int
      OBVIOUS
    <3>13. i + 0 \in Headings(u) /\ SectionText(u, i + 0) = SectionText(t, i)
      <4>1. t \in Seq(Lines) /\ u \in Seq(Lines) /\ z \in Int /\ b \in Int /\ m \in Int
        BY <1>1, <1>5, <1>12, <1>19, <3>3
      <4> QED BY <3>11, <3>12, <4>1, SectionMoves
    <3> QED BY <3>13
  <2> QED BY <2>3, <2>4
<1>21. CASE at < i
  <2>1. PICK d : d = s - at
    OBVIOUS
  <2>2. d \in Int /\ 1 <= i + d
    BY <1>11, <1>12, <1>13, <1>14, <1>15, <1>21, <2>1
  <2>3. \A k \in at + 1 .. at + c : u[k + d] = t[k]
    <3> TAKE k \in at + 1 .. at + c
    <3>1. PICK j : j = k - at
      OBVIOUS
    <3>2. j \in 1 .. c /\ s + j = k + d /\ at + j = k
      BY <1>11, <1>12, <1>13, <2>1, <3>1
    <3>3. u[s + j] = t[at + j]
      BY <1>10, <3>2
    <3> QED BY <3>2, <3>3
  <2>4. \A k \in at + c + 1 .. n : t[k] = Blank
    <3> TAKE k \in at + c + 1 .. n
    <3>1. PICK j : j = k - at
      OBVIOUS
    <3>2. j \in c + 1 .. n - at /\ at + j = k
      BY <1>11, <1>12, <3>1
    <3> QED BY <1>10, <3>2
  <2>5. i <= at + c
    <3> SUFFICES ASSUME ~(i <= at + c) PROVE FALSE
      OBVIOUS
    <3>1. i \in at + c + 1 .. n
      BY <1>11, <1>12, <1>14
    <3> QED BY <1>2, <2>4, <3>1
  <2>6. c # 0 /\ Len(u) = s + c + 1
    <3>1. c # 0
      BY <1>11, <1>21, <2>5
    <3> QED BY <1>9, <3>1
  <2>7. CASE z < at + c
    <3>1. z + 1 \in at + 1 .. at + c /\ z + 1 <= n
      BY <1>11, <1>12, <1>14, <1>19, <1>21, <2>7
    <3>2. z + d <= Len(u) /\ z + 1 + d <= Len(u)
      BY <1>11, <1>12, <1>13, <1>19, <2>1, <2>6, <2>7
    <3>3. \A k \in i .. z : u[k + d] = t[k]
      <4> TAKE k \in i .. z
      <4>1. k \in at + 1 .. at + c
        BY <1>11, <1>12, <1>19, <1>21, <2>7
      <4> QED BY <2>3, <4>1
    <3>4. u[z + 1 + d] = t[z + 1] /\ z + 1 <= Len(t)
      BY <1>3, <2>3, <3>1
    <3>5. StaysWhole(t, u, i, d, z)
      BY <1>17, <2>2, <3>2, <3>3, <3>4 DEF StaysWhole
    <3> QED BY <1>1, <1>5, <1>19, <2>2, <3>5, KeptWhole
  <2>8. CASE ~(z < at + c)
    <3>1. PICK a, m : a = at + c /\ m = s + c + 1
      OBVIOUS
    <3>2. a \in Int /\ m \in Int /\ m = Len(u) /\ a + d + 1 = m
      BY <1>11, <1>12, <1>13, <2>1, <2>6, <3>1
    <3>3. i <= a /\ a <= z /\ z <= Len(t) /\ a + d <= m
      BY <1>3, <1>11, <1>12, <1>19, <2>2, <2>5, <2>8, <3>1, <3>2
    <3>4. \A k \in a + 1 .. z : t[k] = Blank
      <4> TAKE k \in a + 1 .. z
      <4>1. k \in at + c + 1 .. n
        BY <1>11, <1>12, <1>19, <3>1
      <4> QED BY <2>4, <4>1
    <3>5. \A k \in i .. a : u[k + d] = t[k]
      <4> TAKE k \in i .. a
      <4>1. k \in at + 1 .. at + c
        BY <1>11, <1>12, <1>21, <3>1
      <4> QED BY <2>3, <4>1
    <3>6. \A k \in a + d + 1 .. m : u[k] = Blank
      <4> TAKE k \in a + d + 1 .. m
      <4>1. k = m
        BY <2>2, <3>2
      <4> QED BY <1>10, <3>2, <4>1
    <3>7. m <= Len(u)
      BY <3>2
    <3>8. Carried(t, u, i, d, z, a, m)
      BY <1>14, <1>16, <2>2, <3>2, <3>3, <3>4, <3>5, <3>6, <3>7 DEF Carried
    <3>9. i + d \in Headings(u) /\ SectionText(u, i + d) = SectionText(t, i)
      <4>1. t \in Seq(Lines) /\ u \in Seq(Lines) /\ d \in Int /\ z \in Int /\ a \in Int /\ m \in Int
        BY <1>1, <1>5, <1>19, <2>2, <3>2
      <4> QED BY <3>8, <4>1, SectionMoves
    <3> QED BY <3>9
  <2> QED BY <2>7, <2>8
<1>22. i <= at \/ at < i
  BY <1>11
<1> QED BY <1>20, <1>21, <1>22

\* A section is created at the end of a text, or just before a heading of it.
LEMMA PlacesAreBorders ==
  ASSUME NEW t \in NoteTexts, NEW e \in Edits, e.form = "section", NEW at \in Places(t, e)
  PROVE  at \in 0 .. Len(t) /\ (at = Len(t) \/ at + 1 \in Headings(t))
<1>1. t \in Seq(Lines) /\ DOMAIN t = 1 .. Len(t) /\ Len(t) \in Nat
  BY InASequence DEF NoteTexts
<1>2. Places(t, e) \subseteq 0 .. Len(t)
  BY PlacesThereAre
<1>3. Anchors(t, e) \subseteq Headings(t) /\ Headings(t) \subseteq 1 .. Len(t)
  BY <1>1 DEF Anchors, Titled, Headings
<1>4. e.place \in {"end", "after", "before"} /\ e.deep \in BOOLEAN
  BY SectionOfEdit
<1>5. CASE e.place = "end"
  BY <1>2, <1>5 DEF Places
<1>6. CASE e.place = "after"
  <2>1. PICK i \in Anchors(t, e) : at = SectionEnd(t, i, e.deep)
    BY <1>6 DEF Places
  <2>2. i \in 1 .. Len(t)
    BY <1>3
  <2>3. EndsAt(t, i, e.deep, at)
    BY <1>1, <1>4, <2>1, <2>2, SectionEndIs
  <2> QED BY <1>2, <2>3 DEF EndsAt, Stops
<1>7. CASE e.place = "before"
  <2>1. PICK i \in Anchors(t, e) : at = i - 1
    BY <1>7 DEF Places
  <2>2. i \in 1 .. Len(t)
    BY <1>3
  <2>3. at + 1 = i
    BY <1>1, <2>1, <2>2
  <2> QED BY <1>2, <1>3, <2>3
<1> QED BY <1>4, <1>5, <1>6, <1>7

\* A section edit keeps the text of the other sections.
LEMMA SectionsKept ==
  ASSUME NEW t \in NoteTexts, NEW e \in Edits, e.form = "section", NEW u \in ApplySection(t, e)
  PROVE  KeepsOtherSections(e, t, u)
<1> SUFFICES ASSUME NEW i \in Headings(t), Title(t[i]) # e.heading,
                    ~(e.deep /\ \E k \in Titled(t, e.heading) : k < i /\ i <= SectionEnd(t, k, TRUE))
             PROVE  \E j \in Headings(u) : SectionText(u, j) = SectionText(t, i)
  BY DEF KeepsOtherSections
<1>1. CASE Titled(t, e.heading) = {}
  <2>1. PICK at \in Places(t, e) : u = CreateSection(t, e, at)
    BY <1>1 DEF ApplySection
  <2>2. at \in 0 .. Len(t) /\ (at = Len(t) \/ at + 1 \in Headings(t))
    BY PlacesAreBorders
  <2> QED BY <2>1, <2>2, CreateKeeps
<1>2. CASE Titled(t, e.heading) # {}
  <2>1. PICK p \in Titled(t, e.heading) : u = UpdateSection(t, e, p)
    BY <1>2 DEF ApplySection
  <2>2. ~IsNested(t, e, p, i)
    BY DEF IsNested
  <2>3. \A v : v = UpdateSection(t, e, p) => \E j \in Headings(v) : SectionText(v, j) = SectionText(t, i)
    BY <2>2, UpdateKeeps
  <2> QED BY <2>1, <2>3
<1> QED BY <1>1, <1>2

\* What a request of one section edit makes of a text.
LEMMA OneEdit ==
  ASSUME NEW req \in Requests, req.tool = "edit_note", Len(req.edits) = 1, req.edits[1].form = "section",
         NEW t \in NoteTexts, NEW u \in Result(req, {t})
  PROVE  req.edits[1] \in Edits /\ u \in ApplySection(t, req.edits[1])
<1>1. req.edits \in Seq(Edits)
  BY Requested
<1>2. req.edits[1] \in Edits
  <2>1. 1 \in DOMAIN req.edits
    BY <1>1, InASequence
  <2> QED BY <1>1, <2>1, InASequence
<1>3. u \in ApplyEdits(t, req.edits)
  BY DEF Result
<1>4. u \in ApplyEdit(t, req.edits[1])
  BY <1>1, <1>3, BatchIsApplied
<1> QED BY <1>2, <1>4 DEF ApplyEdit

\* A request keeps what it was not asked to replace.
LEMMA WritesKeep ==
  ASSUME NEW req \in Requests, NEW t \in NoteTexts, NEW u \in Result(req, {t})
  PROVE  IF req.tool # "edit_note" THEN KeepsManualNotes(req, t, u)
         ELSE Len(req.edits) = 1 /\ req.edits[1].form = "section" => KeepsOtherSections(req.edits[1], t, u)
<1>1. CASE req.tool # "edit_note"
  <2>1. u = Merged(req.content, {t}, req.preserve) /\ req.content \in NoteTexts /\ req.preserve \in BOOLEAN
    BY <1>1, Requested DEF Result
  <2>2. {t} \subseteq NoteTexts
    OBVIOUS
  <2>3. PICK content, preserve, existing :
          /\ content \in NoteTexts
          /\ content = req.content /\ preserve = req.preserve /\ IsFlag(preserve)
          /\ existing = {t} /\ existing \subseteq NoteTexts
    BY <2>1, <2>2 DEF IsFlag
  <2>4. u = Merged(content, existing, preserve)
    BY <2>1, <2>3
  <2>5. preserve = TRUE /\ ManualAt(Finalized(content)) = {} => ManualNotes(u) = ManualNotes(t)
    <3>1. content \in NoteTexts /\ IsFlag(preserve) /\ existing \subseteq NoteTexts
      BY <2>3
    <3>2. ReadsBack(content, existing, preserve, u)
      BY <2>4, <3>1, MergedAgain
    <3> QED BY <2>3, <3>2 DEF ReadsBack
  <2> QED BY <1>1, <2>3, <2>5 DEF KeepsManualNotes
<1>2. CASE req.tool = "edit_note"
  <2> SUFFICES ASSUME Len(req.edits) = 1, req.edits[1].form = "section"
               PROVE  KeepsOtherSections(req.edits[1], t, u)
    BY <1>2
  <2>1. req.edits[1] \in Edits /\ u \in ApplySection(t, req.edits[1])
    BY <1>2, OneEdit
  <2> QED BY <2>1, SectionsKept
<1> QED BY <1>1, <1>2

\* Setting the body of a section leaves the other sections of the note with their
\* text, and an upsert the manual notes: whatever the note and the request are.
THEOREM TheRestIsKept == ToolsSpec => []WritesKeepTheRest
<1>1. ToolsInv => WritesKeepTheRest
  <2> SUFFICES ASSUME ToolsInv, NEW req \in Requests, NEW t \in Present, NEW u \in Result(req, {t})
               PROVE  IF req.tool # "edit_note" THEN KeepsManualNotes(req, t, u)
                      ELSE Len(req.edits) = 1 /\ req.edits[1].form = "section" => KeepsOtherSections(req.edits[1], t, u)
    BY DEF WritesKeepTheRest
  <2>1. t \in NoteTexts
    BY DEF Present, ToolsInv, ToolsTypeOK, NoteStates
  <2> QED BY <2>1, WritesKeep
<1> QED BY <1>1, ToolsStay, PTL

----------------------------------------------------------------------------
(* Calls made again.                                                       *)

\* The level of a heading is a number.
LEMMA LevelsThereAre ==
  ASSUME NEW line \in Lines, IsHeading(line)
  PROVE  Level(line) \in Int
<1>1. \A a : Len(<<a>>) = 1 /\ \A c : Len(<<a, c>>) = 2
  OBVIOUS
<1>2. line \in {"#"} \X (1 .. 6) \X Titles
  BY <1>1 DEF Lines, IsHeading
<1> QED BY <1>2 DEF Level

\* A section that holds the body already, with blank lines at most below it.
HoldsBody(t, deep, body, p, q) ==
  /\ p + Len(body) <= q /\ q <= Len(t)
  /\ \A k \in 1 .. Len(body) : t[p + k] = body[k] /\ ~Stops(t, p, deep, p + k)
  /\ \A k \in p + Len(body) + 1 .. q : t[k] = Blank
  /\ q = Len(t) \/ Stops(t, p, deep, q + 1)

\* Writing the body again changes nothing but blank lines.
LEMMA BodyStays ==
  ASSUME NEW t \in Seq(Lines), NEW e \in Edits, e.form = "section", NEW p \in Headings(t), NEW q \in Int,
         HoldsBody(t, e.deep, SectionBody(e), p, q)
  PROVE  Full(UpdateSection(t, e, p)) = Full(t)
<1>1. t \in Seq(Lines) /\ DOMAIN t = 1 .. Len(t) /\ Len(t) \in Nat
  BY InASequence
<1>2. p \in 1 .. Len(t)
  BY <1>1 DEF Headings
<1>3. PICK body, deep : body = SectionBody(e) /\ deep = e.deep
  OBVIOUS
<1>4. body \in Seq(Lines) /\ Len(body) \in Nat /\ deep \in BOOLEAN
  BY <1>3, SectionOfEdit, InASequence
<1>5. HoldsBody(t, deep, body, p, q)
  BY <1>3
<1>6. PICK n, l, c : n = Len(t) /\ l = Len(body) /\ c = p + l
  OBVIOUS
<1>7. n \in Int /\ l \in Int /\ p \in Int
  <2>1. n \in Nat /\ l \in Nat
    BY <1>1, <1>4, <1>6
  <2>2. p \in 1 .. n
    BY <1>2, <1>6
  <2> QED BY <2>1, <2>2
<1>8. c \in Int /\ c = p + l
  BY <1>6, <1>7
<1>9. c <= q /\ q <= n
  BY <1>5, <1>6 DEF HoldsBody
<1>10. 1 <= p /\ 0 <= l
  <2>1. n \in Nat /\ l \in Nat
    BY <1>1, <1>4, <1>6
  <2>2. p \in 1 .. n
    BY <1>2, <1>6
  <2> QED BY <2>1, <2>2
<1>11. /\ \A k \in 1 .. l : t[p + k] = body[k] /\ ~Stops(t, p, deep, p + k)
       /\ \A k \in c + 1 .. q : t[k] = Blank
       /\ q = Len(t) \/ Stops(t, p, deep, q + 1)
  BY <1>5, <1>6 DEF HoldsBody
<1>12. \A j \in Headings(t) : p < j /\ j <= q => ~Stops(t, p, deep, j)
  <2> SUFFICES ASSUME NEW j \in Headings(t), p < j, j <= q PROVE ~Stops(t, p, deep, j)
    OBVIOUS
  <2>1. j \in 1 .. n /\ IsHeading(t[j])
    BY <1>1, <1>6 DEF Headings
  <2>2. j \in Int
    BY <1>7, <2>1
  <2>3. CASE j <= c
    <3>1. PICK k : k = j - p
      OBVIOUS
    <3>2. k \in 1 .. l /\ p + k = j
      BY <1>7, <1>8, <2>2, <2>3, <3>1
    <3> QED BY <1>11, <3>2
  <2>4. CASE ~(j <= c)
    <3>1. j \in c + 1 .. q
      BY <1>8, <2>2, <2>4
    <3> QED BY <1>11, <2>1, <3>1, BlankIsNoHeading
  <2> QED BY <2>3, <2>4
<1>13. EndsAt(t, p, deep, q)
  <2>1. q \in p .. n
    BY <1>7, <1>8, <1>9, <1>10
  <2> QED BY <1>6, <1>11, <1>12, <2>1 DEF EndsAt
<1>14. SectionEnd(t, p, deep) = q
  BY <1>2, <1>4, <1>13, SectionEndIs
<1>15. PICK first, mid, last : first = Upto(t, c) /\ mid = SubSeq(t, c + 1, q) /\ last = From(t, q + 1)
  OBVIOUS
<1>16. c \in 0 .. n /\ q \in 0 .. n /\ p \in 0 .. n
  BY <1>7, <1>8, <1>9, <1>10
<1>17. first \in Seq(Lines) /\ Len(first) = c /\ (\A k \in 1 .. c : first[k] = t[k]) /\ last \in Seq(Lines)
  BY <1>6, <1>15, <1>16, UptoFrom
<1>18. Upto(t, p) \o body = first
  <2>1. PICK a, v : a = Upto(t, p) /\ v = a \o body
    OBVIOUS
  <2>2. a \in Seq(Lines) /\ Len(a) = p /\ \A k \in 1 .. p : a[k] = t[k]
    BY <1>6, <1>16, <2>1, UptoFrom
  <2>3. v \in Seq(Lines) /\ Len(v) = p + l /\ \A k \in 1 .. p + l : v[k] = IF k <= p THEN a[k] ELSE body[k - p]
    <3>1. a \in Seq(Lines) /\ body \in Seq(Lines) /\ v = a \o body
      BY <1>4, <2>1, <2>2
    <3>2. v \in Seq(Lines) /\ Len(v) = Len(a) + Len(body)
          /\ \A k \in 1 .. Len(a) + Len(body) : v[k] = IF k <= Len(a) THEN a[k] ELSE body[k - Len(a)]
      BY <3>1, ConcatProperties
    <3> QED BY <1>6, <2>2, <3>2
  <2>4. ASSUME NEW k \in 1 .. c PROVE v[k] = first[k]
    <3>0. k \in Int /\ k \in 1 .. p + l
      BY <1>8
    <3>1. CASE k <= p
      <4>1. k \in 1 .. p
        BY <1>7, <3>0, <3>1
      <4> QED BY <1>17, <2>2, <2>3, <3>0, <3>1, <4>1
    <3>2. CASE ~(k <= p)
      <4>1. PICK j : j = k - p
        OBVIOUS
      <4>2. j \in 1 .. l /\ p + j = k
        BY <1>7, <1>8, <3>0, <3>2, <4>1
      <4>3. v[k] = body[j]
        BY <2>3, <3>0, <3>2, <4>1
      <4>4. body[j] = t[k]
        BY <1>11, <4>2
      <4> QED BY <1>17, <4>3, <4>4
    <3> QED BY <3>1, <3>2
  <2>5. Len(v) = Len(first) /\ \A k \in 1 .. Len(v) : v[k] = first[k]
    BY <1>8, <1>17, <2>3, <2>4
  <2>6. v = first
    BY <1>17, <2>3, <2>5, SeqEqual
  <2> QED BY <2>1, <2>6
<1>19. UpdateSection(t, e, p) = first \o last
  BY <1>3, <1>14, <1>15, <1>18 DEF UpdateSection
<1>20. mid \o last = From(t, c + 1)
  <2>1. c + 1 \in 1 .. Len(t) + 1 /\ q \in (c + 1) - 1 .. Len(t) /\ Len(t) \in q .. Len(t)
    <3>1. c + 1 \in 1 .. n + 1 /\ q \in (c + 1) - 1 .. n /\ n \in q .. n
      BY <1>7, <1>8, <1>9, <1>10
    <3> QED BY <1>6, <3>1
  <2>2. SubSeq(t, c + 1, q) \o SubSeq(t, q + 1, Len(t)) = SubSeq(t, c + 1, Len(t))
    BY <2>1, ConcatAdjacentSubSeq
  <2> QED BY <1>15, <2>2 DEF From
<1>21. first \o From(t, c + 1) = t
  <2>1. PICK z, v : z = From(t, c + 1) /\ v = first \o z
    OBVIOUS
  <2>2. z \in Seq(Lines) /\ Len(z) = n - c /\ \A k \in 1 .. n - c : z[k] = t[c + k]
    BY <1>6, <1>16, <2>1, UptoFrom
  <2>3. v \in Seq(Lines) /\ Len(v) = Len(first) + Len(z)
        /\ \A k \in 1 .. Len(first) + Len(z) : v[k] = IF k <= Len(first) THEN first[k] ELSE z[k - Len(first)]
    <3>1. first \in Seq(Lines) /\ z \in Seq(Lines) /\ v = first \o z
      BY <1>17, <2>1, <2>2
    <3> QED BY <3>1, ConcatProperties
  <2>4. Len(first) + Len(z) = n
    BY <1>7, <1>8, <1>17, <2>2
  <2>5. ASSUME NEW k \in 1 .. n PROVE v[k] = t[k]
    <3>0. k \in Int /\ v[k] = IF k <= c THEN first[k] ELSE z[k - c]
      BY <1>17, <2>3, <2>4
    <3>1. CASE k <= c
      <4>1. k \in 1 .. c
        BY <1>8, <3>0, <3>1
      <4> QED BY <1>17, <3>0, <3>1, <4>1
    <3>2. CASE ~(k <= c)
      <4>1. PICK j : j = k - c
        OBVIOUS
      <4>2. j \in 1 .. n - c /\ c + j = k
        BY <1>7, <1>8, <3>0, <3>2, <4>1
      <4> QED BY <2>2, <3>0, <3>2, <4>1, <4>2
    <3> QED BY <3>1, <3>2
  <2>6. Len(v) = Len(t) /\ \A k \in 1 .. Len(v) : v[k] = t[k]
    BY <1>6, <2>3, <2>4, <2>5
  <2>7. v = t
    BY <2>3, <2>6, SeqEqual
  <2> QED BY <2>1, <2>7
<1>22. mid \in Seq(Lines) /\ \A k \in 1 .. Len(mid) : mid[k] = Blank
  <2>1. c + 1 \in Int /\ \A k \in c + 1 .. q : t[k] \in Lines
    BY <1>8, <1>11, LinesThereAre
  <2>2. /\ mid \in Seq(Lines) /\ Len(mid) = IF c + 1 <= q THEN q - (c + 1) + 1 ELSE 0
        /\ \A k \in 1 .. q - (c + 1) + 1 : mid[k] = t[c + 1 + k - 1]
    BY <1>15, <2>1, SubSeqProperties
  <2>3. Len(mid) = q - c
    BY <1>8, <1>9, <2>2
  <2>4. ASSUME NEW k \in 1 .. Len(mid) PROVE mid[k] = Blank
    <3>1. k \in 1 .. q - (c + 1) + 1 /\ c + 1 + k - 1 \in c + 1 .. q
      BY <1>8, <2>3
    <3> QED BY <1>11, <2>2, <3>1
  <2> QED BY <2>2, <2>4
<1>23. Full(mid) = <<>>
  BY <1>22, FullOfBoth
<1>24. Full(first \o last) = Full(first) \o Full(last)
  BY <1>17, FullOfBoth
<1>25. Full(mid \o last) = Full(last)
  <2>1. Full(mid \o last) = Full(mid) \o Full(last) /\ Full(last) \in Seq(Lines)
    BY <1>17, <1>22, FullOfBoth
  <2> QED BY <1>23, <2>1, ConcatEmptySeq
<1>26. Full(t) = Full(first) \o Full(last)
  <2>1. PICK z : z = mid \o last
    OBVIOUS
  <2>2. z \in Seq(Lines) /\ t = first \o z
    BY <1>17, <1>20, <1>21, <1>22, <2>1, ConcatProperties
  <2>3. Full(first \o z) = Full(first) \o Full(z)
    BY <1>17, <2>2, FullOfBoth
  <2> QED BY <1>25, <2>1, <2>2, <2>3
<1> QED BY <1>19, <1>24, <1>26

\* The heading that a creation writes.
LEMMA HeadingLines ==
  ASSUME NEW e \in Edits, e.form = "section", NEW line, line = Heading(e.level, Trimmed[e.heading])
  PROVE  IsHeading(line) /\ Title(line) = Trimmed[e.heading] /\ Level(line) = e.level
BY DEF IsHeading, Title, Level, Heading

\* The headings that the body of a repeatable edit brings do not end its section.
LEMMA BodyDoesNotStop ==
  ASSUME NEW req \in Requests, req.tool = "edit_note", NEW s \in NoteTexts, Repeatable(req, s),
         NEW e \in Edits, e = req.edits[1], e.form = "section",
         NEW t \in Seq(Lines), NEW p \in Headings(t),
         Level(t[p]) \in {e.level} \cup {Level(s[i]) : i \in Titled(s, e.heading)},
         NEW body, body = SectionBody(e), NEW k \in 1 .. Len(body), t[p + k] = body[k]
  PROVE  ~Stops(t, p, e.deep, p + k)
<1> SUFFICES ASSUME Stops(t, p, e.deep, p + k) PROVE FALSE
  OBVIOUS
<1>1. IsHeading(body[k])
  BY DEF Stops, Headings
<1>2. PICK j \in Headings(e.body) : body[k] = e.body[j]
  <2>1. AreHeadingsOf(body, e.body)
    BY BodyLines
  <2> QED BY <1>1, <2>1 DEF AreHeadingsOf
<1>3. e.deep /\ Level(t[p]) < Level(e.body[j])
  BY <1>2 DEF Repeatable
<1>4. Level(t[p + k]) <= Level(t[p])
  BY <1>3 DEF Stops
<1>5. Level(t[p]) \in Int /\ Level(t[p + k]) \in Int
  <2>1. p \in DOMAIN t /\ p + k \in DOMAIN t /\ IsHeading(t[p]) /\ IsHeading(t[p + k])
    BY DEF Stops, Headings
  <2>2. t[p] \in Lines /\ t[p + k] \in Lines
    BY <2>1, InASequence
  <2> QED BY <2>1, <2>2, LevelsThereAre
<1>6. Level(t[p]) < Level(t[p + k])
  BY <1>2, <1>3
<1> QED BY <1>4, <1>5, <1>6

\* A retried update finds its section, which holds the body;
LEMMA UpdatedAgain ==
  ASSUME NEW req \in Requests, req.tool = "edit_note", NEW s \in NoteTexts, Repeatable(req, s),
         NEW e \in Edits, e = req.edits[1], e.form = "section",
         NEW p \in Titled(s, e.heading), NEW t, t = UpdateSection(s, e, p)
  PROVE  p \in Titled(t, e.heading) /\ Full(UpdateSection(t, e, p)) = Full(t)
<1>1. s \in Seq(Lines) /\ DOMAIN s = 1 .. Len(s) /\ Len(s) \in Nat
  BY InASequence DEF NoteTexts
<1>2. p \in 1 .. Len(s) /\ IsHeading(s[p]) /\ Title(s[p]) = e.heading
  BY <1>1 DEF Titled, Headings
<1>3. PICK body, deep : body = SectionBody(e) /\ deep = e.deep
  OBVIOUS
<1>4. body \in Seq(Lines) /\ Len(body) \in Nat /\ deep \in BOOLEAN
  BY <1>3, SectionOfEdit, InASequence
<1>5. PICK z : z = SectionEnd(s, p, deep)
  OBVIOUS
<1>6. EndsAt(s, p, deep, z)
  BY <1>1, <1>2, <1>4, <1>5, SectionEndIs
<1>7. z \in p .. Len(s) /\ (z = Len(s) \/ Stops(s, p, deep, z + 1))
  BY <1>6 DEF EndsAt
<1>8. PICK n, l : n = Len(s) /\ l = Len(body)
  OBVIOUS
<1>9. n \in Nat /\ l \in Nat
  BY <1>1, <1>4, <1>8
<1>10. p \in Int /\ 1 <= p /\ p <= n
  BY <1>2, <1>8, <1>9
<1>11. z \in Int /\ p <= z /\ z <= n
  BY <1>7, <1>8, <1>9, <1>10
<1>12. p \in 0 .. Len(s) /\ z \in 0 .. Len(s)
  BY <1>8, <1>9, <1>10, <1>11
<1>13. t \in Seq(Lines) /\ IsUpdated(t, s, body, p, z)
  BY <1>1, <1>3, <1>4, <1>5, <1>12, UpdatedIs DEF UpdateSection
<1>14. /\ Len(t) = p + l + (n - z)
       /\ \A k \in 1 .. p : t[k] = s[k]
       /\ \A k \in 1 .. l : t[p + k] = body[k]
       /\ \A k \in 1 .. n - z : t[p + l + k] = s[z + k]
  BY <1>8, <1>13 DEF IsUpdated
<1>15. t[p] = s[p]
  <2>1. p \in 1 .. p
    BY <1>10
  <2> QED BY <1>14, <2>1
<1>16. DOMAIN t = 1 .. Len(t)
  BY <1>13, InASequence
<1>17. p \in Headings(t) /\ p \in Titled(t, e.heading)
  <2>1. p \in 1 .. Len(t)
    BY <1>9, <1>10, <1>11, <1>14
  <2> QED BY <1>2, <1>15, <1>16, <2>1 DEF Headings, Titled
<1>18. PICK q : q = p + l
  OBVIOUS
<1>19. q \in Int /\ p + l <= q /\ q <= Len(t)
  BY <1>9, <1>10, <1>11, <1>14, <1>18
<1>20. Level(t[p]) \in {e.level} \cup {Level(s[i]) : i \in Titled(s, e.heading)}
  BY <1>15
<1>21. \A k \in 1 .. l : t[p + k] = body[k] /\ ~Stops(t, p, e.deep, p + k)
  <2> TAKE k \in 1 .. l
  <2>1. t[p + k] = body[k] /\ k \in 1 .. Len(body)
    BY <1>8, <1>14
  <2>2. ~Stops(t, p, e.deep, p + k)
    BY <1>3, <1>13, <1>17, <1>20, <2>1, BodyDoesNotStop
  <2> QED BY <2>1, <2>2
<1>22. \A k \in p + l + 1 .. q : t[k] = Blank
  BY <1>9, <1>10, <1>18
<1>23. q = Len(t) \/ Stops(t, p, deep, q + 1)
  <2>1. CASE z = n
    <3>1. q = Len(t)
      BY <1>9, <1>10, <1>14, <1>18, <2>1
    <3> QED BY <3>1
  <2>2. CASE z # n
    <3>1. Stops(s, p, deep, z + 1)
      BY <1>7, <1>8, <2>2
    <3>2. 1 \in 1 .. n - z /\ p + l + 1 = q + 1 /\ q + 1 \in 1 .. Len(t)
      BY <1>9, <1>10, <1>11, <1>14, <1>18, <2>2
    <3>3. t[q + 1] = s[z + 1]
      BY <1>14, <3>2
    <3> QED BY <1>15, <1>16, <3>1, <3>2, <3>3 DEF Stops, Headings
  <2> QED BY <2>1, <2>2
<1>24. HoldsBody(t, e.deep, body, p, q)
  BY <1>3, <1>8, <1>19, <1>21, <1>22, <1>23 DEF HoldsBody
<1>25. Full(UpdateSection(t, e, p)) = Full(t)
  BY <1>3, <1>13, <1>17, <1>19, <1>24, BodyStays
<1> QED BY <1>17, <1>25

\* a retried creation finds the section it created.
LEMMA CreatedAgain ==
  ASSUME NEW req \in Requests, req.tool = "edit_note", NEW s \in NoteTexts, Repeatable(req, s), Len(req.edits) = 1,
         NEW e \in Edits, e = req.edits[1], e.form = "section", Titled(s, e.heading) = {},
         NEW at \in Places(s, e), NEW t, t = CreateSection(s, e, at)
  PROVE  \E p \in Titled(t, e.heading) : Full(UpdateSection(t, e, p)) = Full(t)
<1>1. s \in Seq(Lines) /\ DOMAIN s = 1 .. Len(s) /\ Len(s) \in Nat
  BY InASequence DEF NoteTexts
<1>2. at \in 0 .. Len(s) /\ (at = Len(s) \/ at + 1 \in Headings(s))
  BY PlacesAreBorders
<1>3. PICK body, deep, heading : body = SectionBody(e) /\ deep = e.deep /\ heading = Heading(e.level, Trimmed[e.heading])
  OBVIOUS
<1>4. body \in Seq(Lines) /\ Len(body) \in Nat /\ deep \in BOOLEAN
  BY <1>3, SectionOfEdit, InASequence
<1>5. t \in NoteTexts
  BY <1>2, CreatedSections
<1>6. t \in Seq(Lines) /\ DOMAIN t = 1 .. Len(t) /\ Len(t) \in Nat
  BY <1>5, InASequence DEF NoteTexts
<1>7. PICK b, c, h, q : IsCreated(t, s, heading, body, at, b, c, h, q)
  BY <1>1, <1>2, <1>3, CreatedIs
<1>8. PICK n, l : n = Len(s) /\ l = Len(body)
  OBVIOUS
<1>9. /\ b \in 0 .. at /\ h = (IF b = 0 THEN 1 ELSE b + 2) /\ q = h + l + 1
      /\ c \in 0 .. n - at /\ Len(t) = (IF c = 0 THEN q ELSE q + c + 1)
  BY <1>7, <1>8 DEF IsCreated
<1>10. /\ t[h] = heading /\ \A k \in 1 .. l : t[h + k] = body[k]
       /\ t[q] = Blank
       /\ \A k \in 1 .. c : t[q + k] = s[at + k]
  BY <1>7, <1>8 DEF IsCreated
<1>11. n \in Nat /\ l \in Nat
  BY <1>1, <1>4, <1>8
<1>12. at \in Int /\ 0 <= at /\ at <= n
  BY <1>2, <1>8, <1>11
<1>13. b \in Int /\ 0 <= b /\ c \in Int /\ 0 <= c /\ c <= n - at
  BY <1>9, <1>11, <1>12
<1>14. h \in Int /\ 1 <= h /\ q \in Int /\ h + l <= q /\ h < q
  BY <1>9, <1>11, <1>13
<1>15. q <= Len(t) /\ h \in 1 .. Len(t)
  <2>1. q <= Len(t)
    BY <1>9, <1>13, <1>14
  <2> QED BY <1>6, <1>14, <2>1
<1>16. IsHeading(heading) /\ Title(heading) = e.heading /\ Level(heading) = e.level
  <2>1. Title(heading) = Trimmed[e.heading] /\ IsHeading(heading) /\ Level(heading) = e.level
    BY <1>3, HeadingLines
  <2>2. Trimmed[e.heading] = e.heading
    BY DEF Repeatable
  <2> QED BY <2>1, <2>2
<1>17. h \in Headings(t) /\ h \in Titled(t, e.heading)
  BY <1>6, <1>10, <1>15, <1>16 DEF Headings, Titled
<1>18. Level(t[h]) \in {e.level} \cup {Level(s[i]) : i \in Titled(s, e.heading)}
  BY <1>10, <1>16
<1>19. \A k \in 1 .. l : t[h + k] = body[k] /\ ~Stops(t, h, e.deep, h + k)
  <2> TAKE k \in 1 .. l
  <2>1. t[h + k] = body[k] /\ k \in 1 .. Len(body)
    BY <1>8, <1>10
  <2>2. ~Stops(t, h, e.deep, h + k)
    BY <1>3, <1>6, <1>17, <1>18, <2>1, BodyDoesNotStop
  <2> QED BY <2>1, <2>2
<1>20. \A k \in h + l + 1 .. q : t[k] = Blank
  <2> TAKE k \in h + l + 1 .. q
  <2>1. k = q
    BY <1>9, <1>11, <1>14
  <2> QED BY <1>10, <2>1
<1>21. q = Len(t) \/ Stops(t, h, deep, q + 1)
  <2>1. CASE c = 0
    BY <1>9, <2>1
  <2>2. CASE c # 0
    <3>1. at # n
      BY <1>12, <1>13, <2>2
    <3>2. at + 1 \in Headings(s)
      BY <1>2, <1>8, <3>1
    <3>3. 1 \in 1 .. c /\ q + 1 \in 1 .. Len(t)
      BY <1>9, <1>13, <1>14, <2>2
    <3>4. q + 1 \in Headings(t)
      BY <1>6, <1>10, <3>2, <3>3 DEF Headings
    <3>5. ~deep
      <4>1. deep => e.place = "end"
        BY <1>3 DEF Repeatable
      <4>2. e.place = "end" => at = Len(s)
        BY DEF Places
      <4> QED BY <1>8, <3>1, <4>1, <4>2
    <3> QED BY <3>4, <3>5 DEF Stops
  <2> QED BY <2>1, <2>2
<1>22. HoldsBody(t, e.deep, body, h, q)
  BY <1>3, <1>8, <1>14, <1>15, <1>19, <1>20, <1>21 DEF HoldsBody
<1>23. Full(UpdateSection(t, e, h)) = Full(t)
  BY <1>3, <1>6, <1>14, <1>17, <1>22, BodyStays
<1> QED BY <1>17, <1>23

\* A retry of a call that had landed, with the same arguments, leaves the lines of
\* the note that are not blank, when the request can be repeated on the note.
THEOREM RetriesAreHarmless == ToolsSpec => []RetryIsHarmless
<1>1. ToolsInv => RetryIsHarmless
  <2> SUFFICES ASSUME ToolsInv, NEW req \in Requests, \A s \in Present : Repeatable(req, s),
                      NEW t \in Result(req, Present), NEW u \in Result(req, {t})
               PROVE  Full(u) = Full(t)
    BY DEF RetryIsHarmless
  <2>1. Present \subseteq NoteTexts
    BY DEF Present, ToolsInv, ToolsTypeOK, NoteStates
  <2>2. t \in NoteTexts
    BY <2>1, ResultsAreTexts
  <2>3. CASE req.tool # "edit_note"
    <3>1. PICK content, preserve, existing :
            /\ content \in NoteTexts
            /\ content = req.content /\ preserve = req.preserve /\ IsFlag(preserve)
            /\ existing = Present /\ existing \subseteq NoteTexts
      BY <2>1, <2>3, Requested DEF IsFlag
    <3>2. t = Merged(content, existing, preserve) /\ u = Merged(content, {t}, preserve)
      BY <2>3, <3>1 DEF Result
    <3>3. Merged(content, {t}, preserve) = t
      <4>1. content \in NoteTexts /\ IsFlag(preserve) /\ existing \subseteq NoteTexts
        BY <3>1
      <4>2. t = Merged(content, existing, preserve)
        BY <3>2
      <4> QED BY <4>1, <4>2, MergedAgain
    <3> QED BY <3>2, <3>3
  <2>4. CASE req.tool = "edit_note"
    <3>1. Present # {}
      BY <2>4 DEF Result
    <3>2. PICK s \in NoteTexts : Present = {s}
      BY <2>1, <3>1 DEF Present
    <3>3. Repeatable(req, s) /\ t \in Result(req, {s})
      BY <3>2
    <3>4. Len(req.edits) = 1 /\ req.edits[1].form = "section"
      BY <2>4, <3>3 DEF Repeatable
    <3>5. PICK e : e = req.edits[1]
      OBVIOUS
    <3>6. e \in Edits /\ t \in ApplySection(s, e) /\ u \in ApplySection(t, e)
      BY <2>2, <2>4, <3>3, <3>4, <3>5, OneEdit
    <3>7. \E p \in Titled(t, e.heading) : Full(UpdateSection(t, e, p)) = Full(t)
      <4>1. CASE Titled(s, e.heading) = {}
        <5>1. PICK at \in Places(s, e) : t = CreateSection(s, e, at)
          BY <3>6, <4>1 DEF ApplySection
        <5> QED BY <2>4, <3>3, <3>4, <3>5, <3>6, <4>1, <5>1, CreatedAgain
      <4>2. CASE Titled(s, e.heading) # {}
        <5>1. PICK p \in Titled(s, e.heading) : t = UpdateSection(s, e, p)
          BY <3>6, <4>2 DEF ApplySection
        <5>2. p \in Titled(t, e.heading) /\ Full(UpdateSection(t, e, p)) = Full(t)
          BY <2>4, <3>3, <3>4, <3>5, <3>6, <5>1, UpdatedAgain
        <5> QED BY <5>2
      <4> QED BY <4>1, <4>2
    <3>8. PICK p \in Titled(t, e.heading) : Full(UpdateSection(t, e, p)) = Full(t)
      BY <3>7
    <3>9. u = UpdateSection(t, e, p)
      BY <3>6, <3>8 DEF ApplySection
    <3> QED BY <3>8, <3>9
  <2> QED BY <2>3, <2>4
<1> QED BY <1>1, ToolsStay, PTL

=============================================================================
