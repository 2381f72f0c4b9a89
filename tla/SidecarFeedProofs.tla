------------------------- MODULE SidecarFeedProofs -------------------------
(***************************************************************************)
(* Proofs about SidecarFeed: a listing is never older than what its server *)
(* had been told, for any callers, children, changes and faults.           *)
(***************************************************************************)
EXTENDS SidecarFeed, TLAPS

(***************************************************************************)
(* The inductive invariant.  The epoch moves with every change told, so    *)
(* what is stamped with the present epoch reflects all that was told, and  *)
(* what is stamped with a past one can only serve a call that sampled the  *)
(* same past epoch, and so was owed no more.                               *)
(***************************************************************************)

\* Nothing is fed, remembered or told before it has landed.
Ordered ==
  /\ child.fed <= child.sent /\ child.sent <= seq
  /\ told <= seq /\ cursor <= seq
  /\ \A r \in Armers : resume[r].cursor <= seq /\ resume[r].since <= seq

CallCoherent(c) ==
  /\ call[c].epoch <= epoch
  /\ call[c].got <= seq /\ call[c].owed <= told
  /\ call[c].at = "walking" =>
       /\ call[c].got >= call[c].owed
       /\ call[c].epoch = epoch => call[c].got >= told
  /\ call[c].at = "match" /\ manifest.held /\ manifest.epoch = call[c].epoch =>
       manifest.at >= call[c].owed
  /\ call[c].at = "served" => call[c].got >= call[c].owed

\* The walk of d may yet be what c is served.
Compatible(c, d) ==
  call[c].at = "match" /\ call[d].at = "walking" /\ call[d].epoch = call[c].epoch =>
    call[d].got >= call[c].owed

ManifestCoherent ==
  manifest.held =>
    /\ manifest.epoch <= epoch /\ manifest.at <= seq
    /\ manifest.epoch = epoch => manifest.at >= told

Coherent ==
  /\ ManifestCoherent
  /\ \A c \in Callers : CallCoherent(c)
  /\ \A c, d \in Callers : Compatible(c, d)

IInv == TypeOK /\ Ordered /\ Coherent

LEMMA InitIInv == Init => IInv
<1> USE FeedAssumption
<1> SUFFICES ASSUME Init PROVE IInv
  OBVIOUS
<1>1. TypeOK
  <2>1. 0 \in Seq0 /\ 0 \in Child
    BY DEF Seq0, Child
  <2>2. NoChild \in ChildState /\ NoResume \in Resume /\ NoManifest \in Manifest /\ IdleCall \in Call
    BY <2>1 DEF NoChild, ChildState, NoResume, Resume, ResumeStages, NoManifest, Manifest, IdleCall,
                Call, CallStages
  <2> QED BY <2>1, <2>2 DEF Init, TypeOK
<1>2. Ordered
  BY DEF Init, Ordered, NoChild, NoResume
<1>3. Coherent
  BY DEF Init, Coherent, ManifestCoherent, CallCoherent, Compatible, NoManifest, IdleCall
<1> QED BY <1>1, <1>2, <1>3 DEF IInv

----------------------------------------------------------------------------
(* Types and order.                                                        *)

LEMMA BumpTypes ==
  ASSUME TypeOK, NEW n \in Seq0, n <= seq, told <= seq, BumpEpoch(n)
  PROVE  epoch' \in Nat /\ told' \in Seq0 /\ told' <= seq
BY DEF BumpEpoch, Later, TypeOK, Seq0

\* A step of one resume_watch.
LEMMA ResumeTypes ==
  ASSUME TypeOK, Ordered, NEW r \in Armers, NEW v \in Resume,
         resume' = [resume EXCEPT ![r] = v], v.cursor <= seq, v.since <= seq, seq' = seq
  PROVE  /\ resume' \in [Armers -> Resume]
         /\ \A s \in Armers : resume'[s].cursor <= seq' /\ resume'[s].since <= seq'
BY DEF TypeOK, Ordered

LEMMA ChildSteps ==
  ASSUME TypeOK, Ordered, Edit \/ Notify \/ Pump \/ ChildDies \/ Restart
  PROVE  TypeOK' /\ Ordered'
<1> USE FeedAssumption
<1>1. /\ seq \in 0 .. MaxChanges /\ child \in ChildState /\ cursor \in 0 .. MaxChanges
      /\ \A r \in Armers : resume[r] \in Resume
  BY DEF TypeOK, Seq0
<1>2. CASE Edit
  <2>1. seq' \in Seq0 /\ seq' = seq + 1
    BY <1>1, <1>2 DEF Edit, Seq0
  <2>2. TypeOK'
    BY <1>2, <2>1 DEF Edit, TypeOK, supervisor, ghosts
  <2>3. Ordered'
    BY <1>1, <1>2, <2>1 DEF Edit, Ordered, TypeOK, supervisor, ghosts, ChildState, Resume, Seq0
  <2> QED BY <2>2, <2>3
<1>3. CASE Notify
  <2>1. child' \in ChildState /\ child'.fed = child.fed /\ child'.sent = child.sent + 1
    BY <1>1, <1>3 DEF Notify, ChildState, Seq0
  <2>2. TypeOK'
    BY <1>3, <2>1 DEF Notify, TypeOK, supervisor, ghosts
  <2>3. Ordered'
    BY <1>1, <1>3, <2>1 DEF Notify, Ordered, supervisor, ghosts, ChildState, Seq0
  <2> QED BY <2>2, <2>3
<1>4. CASE Pump
  <2>1. /\ child' \in ChildState /\ child'.fed = child.fed + 1 /\ child'.sent = child.sent
        /\ child.fed + 1 \in Seq0 /\ child.fed + 1 <= seq
    BY <1>1, <1>4 DEF Pump, ChildState, Seq0, Ordered
  <2>2. epoch' \in Nat /\ told' \in Seq0 /\ told' <= seq
    BY <1>4, <2>1, BumpTypes DEF Pump, Ordered
  <2>3. TypeOK'
    BY <1>4, <2>1, <2>2 DEF Pump, TypeOK
  <2>4. Ordered'
    BY <1>1, <1>4, <2>1, <2>2 DEF Pump, Ordered, ChildState, Seq0
  <2> QED BY <2>3, <2>4
<1>5. CASE ChildDies
  <2>1. child' \in ChildState /\ child'.fed = child.fed /\ child'.sent = child.sent
    BY <1>1, <1>5 DEF ChildDies, ChildState
  <2> QED BY <1>5, <2>1 DEF ChildDies, TypeOK, Ordered, supervisor, ghosts
<1>6. CASE Restart
  <2>1. child.id + 1 \in Child /\ 0 \in Seq0 /\ 0 \in Child
    BY <1>1, <1>6 DEF Restart, ChildState, Child, Seq0
  <2>2. child' \in ChildState /\ child'.fed = 0 /\ child'.sent = 0
    BY <1>6, <2>1 DEF Restart, NoChild, ChildState
  <2>3. /\ CatchUp(child.id + 1, cursor) \in Resume
        /\ CatchUp(child.id + 1, cursor).cursor = cursor /\ CatchUp(child.id + 1, cursor).since = 0
    BY <1>1, <2>1 DEF CatchUp, NoResume, Resume, ResumeStages, Seq0
  <2>4. /\ resume' \in [Armers -> Resume]
        /\ \A s \in Armers : resume'[s].cursor <= seq' /\ resume'[s].since <= seq'
    <3>1. CASE requested
      <4>1. resume' = [resume EXCEPT !["handshake"] = CatchUp(child.id + 1, cursor)] /\ seq' = seq
        BY <1>6, <3>1 DEF Restart
      <4>2. cursor <= seq /\ 0 <= seq
        BY <1>1 DEF Ordered
      <4> QED BY <2>3, <4>1, <4>2, ResumeTypes
    <3>2. CASE ~requested
      BY <1>6, <3>2 DEF Restart, TypeOK, Ordered
    <3> QED BY <3>1, <3>2
  <2>5. TypeOK'
    BY <1>6, <2>2, <2>4 DEF Restart, TypeOK, ghosts
  <2>6. Ordered'
    BY <1>1, <1>6, <2>2, <2>4 DEF Restart, Ordered, ghosts
  <2> QED BY <2>5, <2>6
<1> QED BY <1>2, <1>3, <1>4, <1>5, <1>6

LEMMA ArmingSteps ==
  ASSUME TypeOK, Ordered,
         Subscribe \/ SubscribeArms \/ \E r \in Armers : Resuming(r)
  PROVE  TypeOK' /\ Ordered'
<1> USE FeedAssumption
<1>1. /\ seq \in 0 .. MaxChanges /\ child \in ChildState /\ cursor \in 0 .. MaxChanges
      /\ \A r \in Armers : resume[r] \in Resume
      /\ cursor <= seq
  BY DEF TypeOK, Seq0, Ordered
<1>2. 0 \in Seq0 /\ 0 \in Child /\ 0 <= seq
  BY <1>1 DEF Seq0, Child
<1>3. NoResume \in Resume /\ NoResume.cursor = 0 /\ NoResume.since = 0
  BY <1>2 DEF NoResume, Resume, ResumeStages
<1>4. CASE Subscribe
  <2>1. /\ resume' \in [Armers -> Resume]
        /\ \A s \in Armers : resume'[s].cursor <= seq' /\ resume'[s].since <= seq'
    <3>1. [NoResume EXCEPT !.at = "check"] \in Resume
      BY <1>2 DEF NoResume, Resume, ResumeStages
    <3>2. [NoResume EXCEPT !.at = "check"].cursor = 0 /\ [NoResume EXCEPT !.at = "check"].since = 0
      BY DEF NoResume
    <3>3. \A s \in Armers : resume'[s] = IF s = "subscribe" THEN [NoResume EXCEPT !.at = "check"]
                                                            ELSE resume[s]
      BY <1>4 DEF Subscribe
    <3>4. resume' \in [Armers -> Resume]
      BY <1>1, <1>4, <3>1 DEF Subscribe
    <3> QED BY <1>2, <1>4, <3>2, <3>3, <3>4 DEF Subscribe, Ordered
  <2>2. TypeOK'
    BY <1>4, <2>1 DEF Subscribe, TypeOK, ghosts
  <2>3. Ordered'
    BY <1>4, <2>1 DEF Subscribe, Ordered, ghosts
  <2> QED BY <2>2, <2>3
<1>5. CASE SubscribeArms
  <2>1. CatchUp(child.id, cursor) \in Resume
    BY <1>1, <1>2 DEF CatchUp, NoResume, Resume, ResumeStages, ChildState, Seq0
  <2>2. CatchUp(child.id, cursor).cursor = cursor /\ CatchUp(child.id, cursor).since = 0
    BY DEF CatchUp, NoResume
  <2> DEFINE v == IF watching THEN NoResume ELSE CatchUp(child.id, cursor)
  <2>3. v \in Resume /\ v.cursor <= seq /\ v.since <= seq
    BY <1>1, <1>2, <1>3, <2>1, <2>2
  <2>4. resume' = [resume EXCEPT !["subscribe"] = v] /\ seq' = seq /\ "subscribe" \in Armers
    BY <1>5 DEF SubscribeArms
  <2> HIDE DEF v
  <2>5. /\ resume' \in [Armers -> Resume]
        /\ \A s \in Armers : resume'[s].cursor <= seq' /\ resume'[s].since <= seq'
    BY <2>3, <2>4, ResumeTypes
  <2>6. TypeOK'
    BY <1>5, <2>5 DEF SubscribeArms, TypeOK, supervisor, ghosts
  <2>7. Ordered'
    BY <1>5, <2>5 DEF SubscribeArms, Ordered, supervisor, ghosts
  <2> QED BY <2>6, <2>7
<1>6. ASSUME NEW r \in Armers, Resuming(r)
      PROVE  TypeOK' /\ Ordered'
  <2>1. ASSUME NEW v \in Resume, resume' = [resume EXCEPT ![r] = v], v.cursor <= seq, v.since <= seq,
               seq' = seq, slot' \in BOOLEAN, watching' \in BOOLEAN, requested' \in BOOLEAN,
               child' \in ChildState, child'.fed <= child'.sent, child'.sent <= seq,
               cursor' \in Seq0, cursor' <= seq, epoch' \in Nat, told' \in Seq0, told' <= seq,
               slipped' \subseteq Seq0, UNCHANGED <<manifest, call>>
        PROVE  TypeOK' /\ Ordered'
    <3>1. /\ resume' \in [Armers -> Resume]
          /\ \A s \in Armers : resume'[s].cursor <= seq' /\ resume'[s].since <= seq'
      BY <2>1, ResumeTypes
    <3>2. TypeOK'
      BY <2>1, <3>1 DEF TypeOK
    <3>3. Ordered'
      BY <2>1, <3>1 DEF Ordered
    <3> QED BY <3>2, <3>3
  <2>2. /\ resume[r] \in Resume /\ resume[r].cursor <= seq /\ resume[r].since <= seq
        /\ resume[r].cursor \in Seq0 /\ resume[r].since \in Seq0
    BY <1>1 DEF Ordered, Resume
  <2>3. /\ slot \in BOOLEAN /\ watching \in BOOLEAN /\ requested \in BOOLEAN /\ cursor \in Seq0
        /\ epoch \in Nat /\ told \in Seq0 /\ told <= seq /\ slipped \subseteq Seq0
        /\ child.fed <= child.sent /\ child.sent <= seq /\ seq \in Seq0
    BY DEF TypeOK, Ordered
  <2>4. CASE CatchUpPage(r)
    <3>1. PICK n \in Seq0 :
            /\ n <= seq
            /\ resume' = [resume EXCEPT ![r].cursor = n,
                                        ![r].any = @ \/ n > resume[r].cursor,
                                        ![r].at = IF n = seq THEN "watch" ELSE "page"]
            /\ cursor' = n
      BY <2>4 DEF CatchUpPage
    <3> DEFINE v == [resume[r] EXCEPT !.cursor = n, !.any = @ \/ n > resume[r].cursor,
                                      !.at = IF n = seq THEN "watch" ELSE "page"]
    <3>2. v \in Resume /\ v.cursor = n /\ v.since = resume[r].since
      BY <2>2 DEF Resume, ResumeStages
    <3>3. resume' = [resume EXCEPT ![r] = v]
      BY <3>1
    <3> HIDE DEF v
    <3> QED BY <1>1, <2>1, <2>2, <2>3, <2>4, <3>1, <3>2, <3>3 DEF CatchUpPage, ghosts
  <2>5. CASE CatchUpFails(r)
    <3> DEFINE v == [resume[r] EXCEPT !.at = "watch"]
    <3>1. v \in Resume /\ v.cursor = resume[r].cursor /\ v.since = resume[r].since
      BY <2>2 DEF Resume, ResumeStages
    <3>2. resume' = [resume EXCEPT ![r] = v]
      BY <2>5 DEF CatchUpFails
    <3> HIDE DEF v
    <3> QED BY <1>1, <2>1, <2>2, <2>3, <2>5, <3>1, <3>2 DEF CatchUpFails, supervisor, ghosts
  <2>6. CASE Watch(r)
    <3> DEFINE v == [resume[r] EXCEPT !.at = "answered",
                                      !.since = IF child.armed THEN child.sent ELSE seq]
    <3>1. /\ (IF child.armed THEN child.sent ELSE seq) \in Seq0
          /\ (IF child.armed THEN child.sent ELSE seq) <= seq
      BY <1>1, <2>3 DEF ChildState
    <3>2. v \in Resume /\ v.cursor = resume[r].cursor /\ v.since <= seq
      BY <2>2, <3>1 DEF Resume, ResumeStages
    <3>3. resume' = [resume EXCEPT ![r] = v]
      BY <2>6 DEF Watch
    <3>4. child' \in ChildState /\ child'.fed <= child'.sent /\ child'.sent <= seq
      <4>1. CASE child.armed
        BY <1>1, <2>3, <2>6, <4>1 DEF Watch
      <4>2. CASE ~child.armed
        <5>1. child' = [child EXCEPT !.armed = TRUE, !.sent = seq, !.fed = seq]
          BY <2>6, <4>2 DEF Watch
        <5>2. child' \in ChildState /\ child'.fed = seq /\ child'.sent = seq
          BY <1>1, <2>3, <5>1 DEF ChildState
        <5> QED BY <1>1, <5>2
      <4> QED BY <4>1, <4>2
    <3>5. slipped' \subseteq Seq0
      BY <2>3, <2>6 DEF Watch
    <3> HIDE DEF v
    <3> QED BY <1>1, <2>1, <2>2, <2>3, <2>6, <3>2, <3>3, <3>4, <3>5 DEF Watch, supervisor
  <2>7. CASE WatchAnswered(r)
    <3> DEFINE v == [resume[r] EXCEPT !.at = "bump"]
    <3>1. v \in Resume /\ v.cursor = resume[r].cursor /\ v.since = resume[r].since
      BY <2>2 DEF Resume, ResumeStages
    <3>2. resume' = [resume EXCEPT ![r] = v]
      BY <2>7 DEF WatchAnswered
    <3>3. slipped' \subseteq Seq0
      BY <2>3, <2>7 DEF WatchAnswered
    <3> HIDE DEF v
    <3> QED BY <1>1, <2>1, <2>2, <2>3, <2>7, <3>1, <3>2, <3>3 DEF WatchAnswered
  <2>8. CASE WatchFails(r)
    <3> DEFINE v == [resume[r] EXCEPT !.at = "bump"]
    <3>1. v \in Resume /\ v.cursor = resume[r].cursor /\ v.since = resume[r].since
      BY <2>2 DEF Resume, ResumeStages
    <3>2. resume' = [resume EXCEPT ![r] = v]
      BY <2>8 DEF WatchFails
    <3> HIDE DEF v
    <3> QED BY <1>1, <2>1, <2>2, <2>3, <2>8, <3>1, <3>2 DEF WatchFails, ghosts
  <2>9. CASE ResumeEnds(r)
    <3>1. epoch' \in Nat /\ told' \in Seq0 /\ told' <= seq
      BY <2>2, <2>3, <2>9, BumpTypes DEF ResumeEnds
    <3>2. resume' = [resume EXCEPT ![r] = NoResume]
      BY <2>9 DEF ResumeEnds
    <3> QED BY <1>1, <1>2, <1>3, <2>1, <2>3, <2>9, <3>1, <3>2 DEF ResumeEnds
  <2> QED BY <1>6, <2>4, <2>5, <2>6, <2>7, <2>8, <2>9 DEF Resuming
<1> QED BY <1>4, <1>5, <1>6

----------------------------------------------------------------------------
(* Coherence.                                                              *)

\* What is stamped with a past epoch stays so, whatever is told meanwhile.
LEMMA Outside ==
  ASSUME IInv, UNCHANGED <<call, manifest>>, seq' \in Nat, seq' >= seq,
         UNCHANGED <<epoch, told>> \/ \E n \in Seq0 : BumpEpoch(n)
  PROVE  Coherent'
<1>1. /\ epoch \in Nat /\ told \in Nat /\ seq \in Nat /\ manifest \in Manifest
      /\ \A c \in Callers : call[c] \in Call
  BY FeedAssumption DEF IInv, TypeOK, Seq0
<1>2. /\ epoch' \in Nat /\ told' \in Nat /\ told' >= told
      /\ (epoch' = epoch /\ told' = told) \/ epoch' > epoch
  BY <1>1, FeedAssumption DEF BumpEpoch, Later, Seq0
<1>3. ManifestCoherent'
  BY <1>1, <1>2 DEF IInv, Coherent, ManifestCoherent, Manifest, Seq0
<1>4. ASSUME NEW c \in Callers PROVE CallCoherent(c)'
  BY <1>1, <1>2 DEF IInv, Coherent, CallCoherent, Call, Manifest, Seq0
<1>5. \A c, d \in Callers : Compatible(c, d)'
  BY DEF IInv, Coherent, Compatible
<1> QED BY <1>3, <1>4, <1>5 DEF Coherent

\* A step of one call that leaves the cached manifest and the epoch alone.
LEMMA CallStep ==
  ASSUME IInv, NEW c \in Callers, NEW v \in Call, call' = [call EXCEPT ![c] = v],
         UNCHANGED <<manifest, epoch, told>>, seq' \in Nat, seq' >= seq,
         v.epoch <= epoch, v.got <= seq', v.owed <= told,
         v.at = "walking" => v.got >= v.owed /\ (v.epoch = epoch => v.got >= told),
         v.at = "match" =>
           /\ manifest.held /\ manifest.epoch = v.epoch => manifest.at >= v.owed
           /\ \A d \in Callers : call[d].at = "walking" /\ call[d].epoch = v.epoch =>
                                  call[d].got >= v.owed,
         v.at = "walking" =>
           \A d \in Callers : call[d].at = "match" /\ v.epoch = call[d].epoch =>
                              v.got >= call[d].owed,
         v.at = "served" => v.got >= v.owed
  PROVE  Coherent'
<1>1. /\ epoch \in Nat /\ told \in Nat /\ seq \in Nat /\ manifest \in Manifest
      /\ \A d \in Callers : call[d] \in Call
      /\ call'[c] = v /\ \A d \in Callers : d # c => call'[d] = call[d]
  BY FeedAssumption DEF IInv, TypeOK, Seq0
<1>2. ManifestCoherent'
  BY <1>1 DEF IInv, Coherent, ManifestCoherent, Manifest, Seq0
<1>3. ASSUME NEW d \in Callers PROVE CallCoherent(d)'
  <2>1. CASE d = c
    BY <1>1, <2>1 DEF CallCoherent
  <2>2. CASE d # c
    BY <1>1, <2>2 DEF IInv, Coherent, CallCoherent, Call, Seq0
  <2> QED BY <2>1, <2>2
<1>4. ASSUME NEW d \in Callers, NEW e \in Callers PROVE Compatible(d, e)'
  <2>1. CASE d = c /\ e = c
    BY <1>1, <2>1 DEF Compatible
  <2>2. CASE d = c /\ e # c
    BY <1>1, <2>2 DEF Compatible
  <2>3. CASE d # c /\ e = c
    BY <1>1, <2>3 DEF Compatible
  <2>4. CASE d # c /\ e # c
    BY <1>1, <2>4 DEF IInv, Coherent, Compatible
  <2> QED BY <2>1, <2>2, <2>3, <2>4
<1> QED BY <1>2, <1>3, <1>4 DEF Coherent

\* A step of one call that touches no more than the connection besides.
LEMMA CallKeepsTypes ==
  ASSUME TypeOK, Ordered, NEW c \in Callers, NEW v \in Call, call' = [call EXCEPT ![c] = v],
         seq' \in Seq0, seq' >= seq, slot' \in BOOLEAN, watching' \in BOOLEAN,
         child' \in ChildState, child'.fed = child.fed, child'.sent = child.sent,
         UNCHANGED <<requested, cursor, resume, slipped>>, manifest' \in Manifest,
         epoch' \in Nat, told' \in Seq0, told' <= seq'
  PROVE  TypeOK' /\ Ordered'
<1> USE FeedAssumption
<1>1. TypeOK'
  BY DEF TypeOK
<1>2. /\ seq \in 0 .. MaxChanges /\ seq' \in 0 .. MaxChanges /\ child \in ChildState
      /\ cursor \in 0 .. MaxChanges /\ \A r \in Armers : resume[r] \in Resume
  BY DEF TypeOK, Seq0
<1>3. Ordered'
  BY <1>2 DEF Ordered, ChildState, Resume, Seq0
<1> QED BY <1>1, <1>3

\* The samples a call takes and its answers from the cache.
LEMMA Sampling ==
  ASSUME IInv, NEW c \in Callers,
         \/ StartCall(c) \/ ReadLive(c) \/ ReadEpoch(c) \/ MatchCached(c) \/ MissCached(c)
         \/ SampleLive(c) \/ SampleEpoch(c) \/ WalkFails(c) \/ Return(c) \/ StartWrite(c)
         \/ WriteFails(c)
  PROVE  IInv'
<1> USE FeedAssumption
<1>1. /\ epoch \in Nat /\ told \in Seq0 /\ seq \in Seq0 /\ manifest \in Manifest /\ told <= seq
      /\ told \in Nat /\ seq \in Nat /\ call[c] \in Call /\ IdleCall \in Call
      /\ \A d \in Callers : call[d] \in Call
  BY DEF IInv, TypeOK, Ordered, Seq0, IdleCall, Call, CallStages
<1>2. CallCoherent(c) /\ ManifestCoherent /\ \A d \in Callers : CallCoherent(d)
  BY DEF IInv, Coherent
<1>3. ASSUME NEW v \in Call, call' = [call EXCEPT ![c] = v],
             UNCHANGED <<seq, supervisor, child, resume, manifest, ghosts>>,
             v.epoch <= epoch, v.got <= seq, v.owed <= told, v.at # "walking",
             v.at = "match" =>
               /\ manifest.held /\ manifest.epoch = v.epoch => manifest.at >= v.owed
               /\ \A d \in Callers : call[d].at = "walking" /\ call[d].epoch = v.epoch =>
                                      call[d].got >= v.owed,
             v.at = "served" => v.got >= v.owed
      PROVE  IInv'
  <2>1. /\ seq' \in Seq0 /\ seq' = seq /\ seq' >= seq /\ slot' \in BOOLEAN /\ watching' \in BOOLEAN
        /\ child' \in ChildState /\ child' = child
        /\ UNCHANGED <<requested, cursor, resume, slipped, manifest, epoch, told>>
        /\ manifest' \in Manifest /\ epoch' \in Nat /\ told' \in Seq0 /\ told' <= seq'
    BY <1>1, <1>3 DEF IInv, TypeOK, supervisor, ghosts
  <2>2. TypeOK' /\ Ordered'
    BY <1>3, <2>1, CallKeepsTypes DEF IInv
  <2>3. Coherent'
    BY <1>1, <1>3, <2>1, CallStep
  <2> QED BY <2>2, <2>3 DEF IInv
<1>4. CASE StartCall(c)
  <2>1. PICK k \in {"list", "grep"} :
          call' = [call EXCEPT ![c] = [IdleCall EXCEPT !.at = "live", !.kind = k, !.owed = told]]
    BY <1>4 DEF StartCall
  <2> DEFINE v == [IdleCall EXCEPT !.at = "live", !.kind = k, !.owed = told]
  <2>2. v \in Call /\ v.at = "live" /\ v.epoch = 0 /\ v.got = 0 /\ v.owed = told
    BY <1>1 DEF IdleCall, Call, CallStages
  <2>3. call' = [call EXCEPT ![c] = v]
    BY <2>1
  <2>4. v.epoch <= epoch /\ v.got <= seq /\ v.owed <= told
    BY <1>1, <2>2
  <2> HIDE DEF v
  <2> QED BY <1>3, <1>4, <2>2, <2>3, <2>4 DEF StartCall
<1>5. CASE ReadLive(c)
  <2> DEFINE v == [call[c] EXCEPT !.live = FeedLive,
                     !.at = IF call[c].kind = "grep" /\ ~FeedLive THEN "sampleLive" ELSE "epoch"]
  <2>1. /\ v \in Call /\ v.at \in {"sampleLive", "epoch"} /\ v.epoch = call[c].epoch
        /\ v.got = call[c].got /\ v.owed = call[c].owed
    BY <1>1 DEF Call, CallStages, FeedLive, Connected
  <2>2. call' = [call EXCEPT ![c] = v]
    BY <1>5 DEF ReadLive
  <2> HIDE DEF v
  <2> QED BY <1>2, <1>3, <1>5, <2>1, <2>2 DEF ReadLive, CallCoherent
<1>6. CASE ReadEpoch(c)
  <2> DEFINE v == [call[c] EXCEPT !.epoch = epoch, !.at = "match"]
  <2>1. /\ v \in Call /\ v.at = "match" /\ v.epoch = epoch /\ v.got = call[c].got
        /\ v.owed = call[c].owed
    BY <1>1 DEF Call, CallStages
  <2>2. call' = [call EXCEPT ![c] = v]
    BY <1>6 DEF ReadEpoch
  <2>3. manifest.held /\ manifest.epoch = epoch => manifest.at >= v.owed
    BY <1>1, <1>2, <2>1 DEF ManifestCoherent, CallCoherent, Manifest, Call, Seq0
  <2>4. ASSUME NEW d \in Callers, call[d].at = "walking", call[d].epoch = epoch
        PROVE  call[d].got >= v.owed
    BY <1>1, <1>2, <2>1, <2>4 DEF CallCoherent, Call, Seq0
  <2>5. v.epoch <= epoch /\ v.got <= seq /\ v.owed <= told
    BY <1>1, <1>2, <2>1 DEF CallCoherent
  <2> HIDE DEF v
  <2> QED BY <1>3, <1>6, <2>1, <2>2, <2>3, <2>4, <2>5 DEF ReadEpoch
<1>7. CASE MatchCached(c)
  <2> DEFINE v == [call[c] EXCEPT !.at = "served", !.got = manifest.at]
  <2>1. /\ v \in Call /\ v.at = "served" /\ v.epoch = call[c].epoch /\ v.got = manifest.at
        /\ v.owed = call[c].owed
    BY <1>1 DEF Call, CallStages, Manifest
  <2>2. call' = [call EXCEPT ![c] = v]
    BY <1>7 DEF MatchCached, Serve
  <2>3. manifest.at >= call[c].owed /\ manifest.at <= seq
    BY <1>2, <1>7 DEF MatchCached, CallCoherent, ManifestCoherent
  <2> HIDE DEF v
  <2> QED BY <1>2, <1>3, <1>7, <2>1, <2>2, <2>3 DEF MatchCached, CallCoherent
<1>8. ASSUME NEW stage \in {"sampleLive", "bump"}, To(c, stage),
             UNCHANGED <<seq, supervisor, child, resume, manifest, ghosts>>
      PROVE  IInv'
  <2> DEFINE v == [call[c] EXCEPT !.at = stage]
  <2>1. /\ v \in Call /\ v.at = stage /\ v.epoch = call[c].epoch /\ v.got = call[c].got
        /\ v.owed = call[c].owed
    BY <1>1 DEF Call, CallStages
  <2>2. call' = [call EXCEPT ![c] = v]
    BY <1>8 DEF To
  <2> HIDE DEF v
  <2> QED BY <1>2, <1>3, <1>8, <2>1, <2>2 DEF CallCoherent
<1>9. CASE MissCached(c)
  BY <1>8, <1>9 DEF MissCached
<1>10. CASE SampleLive(c)
  <2> DEFINE v == [call[c] EXCEPT !.live = FeedLive, !.at = "sampleEpoch"]
  <2>1. /\ v \in Call /\ v.at = "sampleEpoch" /\ v.epoch = call[c].epoch /\ v.got = call[c].got
        /\ v.owed = call[c].owed
    BY <1>1 DEF Call, CallStages, FeedLive, Connected
  <2>2. call' = [call EXCEPT ![c] = v]
    BY <1>10 DEF SampleLive
  <2> HIDE DEF v
  <2> QED BY <1>2, <1>3, <1>10, <2>1, <2>2 DEF SampleLive, CallCoherent
<1>11. CASE SampleEpoch(c)
  <2> DEFINE v == [call[c] EXCEPT !.epoch = epoch, !.at = "walk"]
  <2>1. /\ v \in Call /\ v.at = "walk" /\ v.epoch = epoch /\ v.got = call[c].got
        /\ v.owed = call[c].owed
    BY <1>1 DEF Call, CallStages
  <2>2. call' = [call EXCEPT ![c] = v]
    BY <1>11 DEF SampleEpoch
  <2>3. v.epoch <= epoch /\ v.got <= seq /\ v.owed <= told
    BY <1>1, <1>2, <2>1 DEF CallCoherent
  <2> HIDE DEF v
  <2> QED BY <1>3, <1>11, <2>1, <2>2, <2>3 DEF SampleEpoch
<1>12. CASE WalkFails(c) \/ Return(c)
  <2>1. IdleCall.at = "idle" /\ IdleCall.epoch = 0 /\ IdleCall.got = 0 /\ IdleCall.owed = 0
    BY DEF IdleCall
  <2> QED BY <1>1, <1>3, <1>12, <2>1 DEF WalkFails, Return
<1>13. CASE StartWrite(c)
  <2> DEFINE v == [IdleCall EXCEPT !.at = "write", !.kind = "write"]
  <2>1. v \in Call /\ v.at = "write" /\ v.epoch = 0 /\ v.got = 0 /\ v.owed = 0
    BY <1>1 DEF IdleCall, Call, CallStages
  <2>2. call' = [call EXCEPT ![c] = v]
    BY <1>13 DEF StartWrite
  <2>3. v.epoch <= epoch /\ v.got <= seq /\ v.owed <= told
    BY <1>1, <2>1
  <2> HIDE DEF v
  <2> QED BY <1>3, <1>13, <2>1, <2>2, <2>3 DEF StartWrite
<1>14. CASE WriteFails(c)
  BY <1>8, <1>14 DEF WriteFails
<1> QED BY <1>4, <1>5, <1>6, <1>7, <1>9, <1>10, <1>11, <1>12, <1>13, <1>14

\* The walk, its failures, and the calls that tell the epoch.
LEMMA Walking ==
  ASSUME IInv, NEW c \in Callers,
         WalkStarts(c) \/ WalkEnds(c) \/ WriteLands(c) \/ WriteEnds(c) \/ RequestFails(c)
  PROVE  IInv'
<1> USE FeedAssumption
<1>1. /\ epoch \in Nat /\ told \in Seq0 /\ seq \in Seq0 /\ manifest \in Manifest /\ told <= seq
      /\ told \in Nat /\ seq \in Nat /\ call[c] \in Call /\ child \in ChildState
      /\ slot \in BOOLEAN /\ watching \in BOOLEAN
      /\ \A d \in Callers : call[d] \in Call /\ call[d].got \in Nat /\ call[d].owed \in Nat
                           /\ call[d].epoch \in Nat
  BY DEF IInv, TypeOK, Ordered, Seq0, Call
<1>2. ManifestCoherent /\ \A d \in Callers : CallCoherent(d)
  BY DEF IInv, Coherent
<1>3. /\ IdleCall \in Call /\ IdleCall.at = "idle" /\ IdleCall.epoch = 0 /\ IdleCall.got = 0
      /\ IdleCall.owed = 0
  BY <1>1 DEF IdleCall, Call, CallStages, Seq0
<1>4. TypeOK /\ Ordered
  BY DEF IInv
<1>5. CASE WalkStarts(c)
  <2> DEFINE v == [call[c] EXCEPT !.got = seq, !.at = "walking"]
  <2>1. /\ v \in Call /\ v.at = "walking" /\ v.epoch = call[c].epoch /\ v.got = seq
        /\ v.owed = call[c].owed
    BY <1>1 DEF Call, CallStages
  <2>2. call' = [call EXCEPT ![c] = v]
    BY <1>5 DEF WalkStarts
  <2> HIDE DEF v
  <2>3. v.epoch <= epoch /\ v.got <= seq /\ v.owed <= told /\ v.got >= v.owed /\ v.got >= told
    <3>1. call[c].epoch <= epoch /\ call[c].owed <= told
      BY <1>2 DEF CallCoherent
    <3> QED BY <1>1, <2>1, <3>1
  <2>4. ASSUME NEW d \in Callers PROVE v.got >= call[d].owed
    <3>1. call[d].owed <= told
      BY <1>2 DEF CallCoherent
    <3> QED BY <1>1, <2>1, <3>1
  <2>5. UNCHANGED <<seq, supervisor, child, resume, manifest, ghosts>>
    BY <1>5 DEF WalkStarts
  <2>6. seq' = seq /\ seq' >= seq /\ UNCHANGED <<manifest, epoch, told>>
    BY <1>1, <2>5 DEF supervisor, ghosts
  <2>7. TypeOK' /\ Ordered'
    BY <1>1, <1>4, <2>1, <2>2, <2>5, <2>6, CallKeepsTypes DEF supervisor, ghosts
  <2>8. Coherent'
    BY <1>1, <2>1, <2>2, <2>3, <2>4, <2>6, CallStep
  <2> QED BY <2>7, <2>8 DEF IInv
<1>6. CASE WalkEnds(c)
  <2>1. PICK n \in call[c].got .. seq : Collected(c, call[c].epoch, n)
    BY <1>6 DEF WalkEnds
  <2>2. n \in Seq0 /\ n \in Nat /\ n <= seq /\ n >= call[c].got
    BY <1>1, <2>1 DEF Seq0
  <2> DEFINE v == [call[c] EXCEPT !.at = "served", !.got = n]
  <2>3. /\ v \in Call /\ v.at = "served" /\ v.epoch = call[c].epoch /\ v.got = n
        /\ v.owed = call[c].owed
    BY <1>1, <2>2 DEF Call, CallStages
  <2>4. call' = [call EXCEPT ![c] = v]
    BY <2>1 DEF Collected, Serve
  <2>5. /\ manifest' = [held |-> TRUE, epoch |-> call[c].epoch, live |-> call[c].live, at |-> n]
        /\ manifest' \in Manifest
    BY <1>1, <2>1, <2>2 DEF Collected, Manifest, Call
  <2> HIDE DEF v
  <2>6. UNCHANGED <<seq, supervisor, child, resume, ghosts>>
    BY <1>6 DEF WalkEnds
  <2>7. seq' = seq /\ seq' >= seq /\ UNCHANGED <<epoch, told>>
    BY <1>1, <2>6 DEF supervisor, ghosts
  <2>8. TypeOK' /\ Ordered'
    BY <1>1, <1>4, <2>3, <2>4, <2>5, <2>6, <2>7, CallKeepsTypes DEF supervisor, ghosts
  <2>9. call[c].at = "walking" /\ call'[c] = v /\ \A d \in Callers : d # c => call'[d] = call[d]
    BY <1>4, <1>6, <2>4 DEF WalkEnds, TypeOK
  <2>10. ManifestCoherent'
    BY <1>1, <1>2, <2>2, <2>5, <2>7, <2>9 DEF ManifestCoherent, CallCoherent
  <2>11. ASSUME NEW d \in Callers PROVE CallCoherent(d)'
    <3>1. CASE d = c
      BY <1>1, <1>2, <2>2, <2>3, <2>7, <2>9, <3>1 DEF CallCoherent
    <3>2. CASE d # c
      <4>1. call[d].at = "match" /\ call[c].epoch = call[d].epoch => call[c].got >= call[d].owed
        BY <2>9 DEF IInv, Coherent, Compatible
      <4> QED BY <1>1, <1>2, <2>2, <2>5, <2>7, <2>9, <3>2, <4>1 DEF CallCoherent
    <3> QED BY <3>1, <3>2
  <2>12. \A d, e \in Callers : Compatible(d, e)'
    BY <2>3, <2>9 DEF IInv, Coherent, Compatible
  <2> QED BY <2>8, <2>10, <2>11, <2>12 DEF IInv, Coherent
<1>7. CASE WriteLands(c)
  <2> DEFINE v == [call[c] EXCEPT !.got = seq + 1, !.at = "bump"]
  <2>1. seq + 1 \in Seq0 /\ seq' = seq + 1
    BY <1>1, <1>7 DEF WriteLands, Seq0
  <2>2. /\ v \in Call /\ v.at = "bump" /\ v.epoch = call[c].epoch /\ v.got = seq + 1
        /\ v.owed = call[c].owed
    BY <1>1, <2>1 DEF Call, CallStages
  <2>3. call' = [call EXCEPT ![c] = v]
    BY <1>7 DEF WriteLands
  <2>4. v.epoch <= epoch /\ v.got <= seq' /\ v.owed <= told
    BY <1>1, <1>2, <2>1, <2>2 DEF CallCoherent
  <2> HIDE DEF v
  <2>5. UNCHANGED <<supervisor, child, resume, manifest, ghosts>>
    BY <1>7 DEF WriteLands
  <2>6. seq' \in Nat /\ seq' >= seq /\ told' <= seq' /\ UNCHANGED <<manifest, epoch, told>>
    BY <1>1, <2>1, <2>5 DEF supervisor, ghosts
  <2>7. TypeOK' /\ Ordered'
    BY <1>1, <1>4, <2>1, <2>2, <2>3, <2>5, <2>6, CallKeepsTypes DEF supervisor, ghosts
  <2>8. Coherent'
    BY <2>2, <2>3, <2>4, <2>6, CallStep
  <2> QED BY <2>7, <2>8 DEF IInv
<1>8. CASE WriteEnds(c)
  <2>1. call' = [call EXCEPT ![c] = IdleCall] /\ BumpEpoch(call[c].got)
    BY <1>8 DEF WriteEnds
  <2>2. call[c].got \in Seq0 /\ call[c].got <= seq
    BY <1>1, <1>2 DEF Call, CallCoherent
  <2>3. epoch' \in Nat /\ told' \in Seq0 /\ told' <= seq /\ epoch' = epoch + 1 /\ told' >= told
    BY <1>1, <1>4, <2>1, <2>2 DEF BumpEpoch, Later, Seq0
  <2>4. UNCHANGED <<seq, slot, watching, requested, cursor, child, resume, manifest, slipped>>
    BY <1>8 DEF WriteEnds
  <2>5. seq' \in Seq0 /\ seq' >= seq
    BY <1>1, <2>4
  <2>6. TypeOK' /\ Ordered'
    BY <1>1, <1>3, <1>4, <2>1, <2>3, <2>4, <2>5, CallKeepsTypes
  <2>7. call'[c] = IdleCall /\ \A d \in Callers : d # c => call'[d] = call[d]
    BY <1>4, <2>1 DEF TypeOK
  <2>8. manifest.epoch \in Nat /\ manifest.at \in Nat /\ manifest' = manifest /\ seq' = seq
    BY <1>1, <2>4 DEF Manifest, Seq0
  <2>9. told' \in Nat
    BY <2>3 DEF Seq0
  <2>10. ManifestCoherent'
    BY <1>1, <1>2, <2>3, <2>8, <2>9 DEF ManifestCoherent
  <2>11. ASSUME NEW d \in Callers PROVE CallCoherent(d)'
    <3>1. CASE d = c
      BY <1>1, <1>3, <2>3, <2>7, <2>8, <2>9, <3>1 DEF CallCoherent
    <3>2. CASE d # c
      BY <1>1, <1>2, <2>3, <2>7, <2>8, <2>9, <3>2 DEF CallCoherent
    <3> QED BY <3>1, <3>2
  <2>12. \A d, e \in Callers : Compatible(d, e)'
    BY <1>3, <2>7 DEF IInv, Coherent, Compatible
  <2> QED BY <2>6, <2>10, <2>11, <2>12 DEF IInv, Coherent
<1>9. CASE RequestFails(c)
  <2>1. PICK stage \in {"walk", "idle"} :
          call' = [call EXCEPT ![c] = IF stage = "idle" THEN IdleCall ELSE [@ EXCEPT !.at = "walk"]]
    BY <1>9 DEF RequestFails
  <2> DEFINE v == IF stage = "idle" THEN IdleCall ELSE [call[c] EXCEPT !.at = "walk"]
  <2>2. /\ [call[c] EXCEPT !.at = "walk"] \in Call
        /\ [call[c] EXCEPT !.at = "walk"].at = "walk"
        /\ [call[c] EXCEPT !.at = "walk"].epoch = call[c].epoch
        /\ [call[c] EXCEPT !.at = "walk"].got = call[c].got
        /\ [call[c] EXCEPT !.at = "walk"].owed = call[c].owed
    BY <1>1 DEF Call, CallStages
  <2>3. /\ v \in Call /\ v.at \in {"walk", "idle"}
        /\ v.epoch <= epoch /\ v.got <= seq /\ v.owed <= told
    BY <1>1, <1>2, <1>3, <2>2 DEF CallCoherent
  <2>4. call' = [call EXCEPT ![c] = v]
    BY <2>1
  <2> HIDE DEF v
  <2>5. /\ slot' \in BOOLEAN /\ watching' \in BOOLEAN
        /\ child' \in ChildState /\ child'.fed = child.fed /\ child'.sent = child.sent
    BY <1>1, <1>9 DEF RequestFails, ChildState
  <2>6. UNCHANGED <<seq, requested, cursor, epoch, resume, manifest, told, slipped>>
    BY <1>9 DEF RequestFails, ghosts
  <2>7. seq' \in Seq0 /\ seq' \in Nat /\ seq' = seq /\ seq' >= seq /\ told' <= seq'
        /\ manifest' \in Manifest /\ epoch' \in Nat /\ told' \in Seq0
    BY <1>1, <2>6
  <2>8. TypeOK' /\ Ordered'
    BY <1>4, <2>3, <2>4, <2>5, <2>6, <2>7, CallKeepsTypes
  <2>9. Coherent'
    BY <2>3, <2>4, <2>6, <2>7, CallStep
  <2> QED BY <2>8, <2>9 DEF IInv
<1> QED BY <1>5, <1>6, <1>7, <1>8, <1>9

\* The steps that are no call's.
LEMMA Feeding ==
  ASSUME IInv,
         \/ Edit \/ Notify \/ Pump \/ ChildDies \/ Restart \/ Subscribe \/ SubscribeArms
         \/ \E r \in Armers : Resuming(r)
  PROVE  IInv'
<1>1. TypeOK' /\ Ordered'
  BY ChildSteps, ArmingSteps DEF IInv
<1>2. UNCHANGED <<call, manifest>>
  BY DEF Edit, Notify, Pump, ChildDies, Restart, Subscribe, SubscribeArms, Resuming, CatchUpPage,
         CatchUpFails, Watch, WatchAnswered, WatchFails, ResumeEnds
<1>3. seq \in Nat /\ seq' \in Nat
  BY <1>1, FeedAssumption DEF IInv, TypeOK, Seq0
<1>4. seq' >= seq
  <2>1. CASE Edit
    BY <1>3, <2>1 DEF Edit
  <2>2. seq' = seq => seq' >= seq
    BY <1>3
  <2> QED BY <2>1, <2>2 DEF Notify, Pump, ChildDies, Restart, Subscribe, SubscribeArms, Resuming,
                            CatchUpPage, CatchUpFails, Watch, WatchAnswered, WatchFails, ResumeEnds
<1>5. UNCHANGED <<epoch, told>> \/ \E n \in Seq0 : BumpEpoch(n)
  <2>1. CASE Pump
    <3>1. child.fed + 1 \in Seq0
      BY <2>1, FeedAssumption DEF Pump, IInv, TypeOK, ChildState, Seq0
    <3> QED BY <2>1, <3>1 DEF Pump
  <2>2. ASSUME NEW r \in Armers, ResumeEnds(r)
        PROVE  UNCHANGED <<epoch, told>> \/ \E n \in Seq0 : BumpEpoch(n)
    <3>1. resume[r].cursor \in Seq0
      BY DEF IInv, TypeOK, Resume
    <3> QED BY <2>2, <3>1 DEF ResumeEnds
  <2>3. CASE Edit \/ Notify \/ ChildDies \/ Restart \/ Subscribe \/ SubscribeArms
    BY <2>3 DEF Edit, Notify, ChildDies, Restart, Subscribe, SubscribeArms, supervisor, ghosts
  <2>4. ASSUME NEW r \in Armers,
               \/ CatchUpPage(r) \/ CatchUpFails(r) \/ Watch(r) \/ WatchAnswered(r) \/ WatchFails(r)
        PROVE  UNCHANGED <<epoch, told>>
    BY <2>4 DEF CatchUpPage, CatchUpFails, Watch, WatchAnswered, WatchFails, supervisor, ghosts
  <2> QED BY <2>1, <2>2, <2>3, <2>4 DEF Resuming
<1>6. Coherent'
  BY <1>2, <1>3, <1>4, <1>5, Outside
<1> QED BY <1>1, <1>6 DEF IInv

LEMMA NextIInv == IInv /\ [Next]_vars => IInv'
<1> SUFFICES ASSUME IInv, [Next]_vars PROVE IInv'
  OBVIOUS
<1>1. ASSUME NEW c \in Callers, Calling(c) PROVE IInv'
  BY <1>1, Sampling, Walking DEF Calling
<1>2. CASE UNCHANGED vars
  <2>1. UNCHANGED <<seq, slot, watching, requested, cursor, epoch, child, resume, manifest, call, told,
                    slipped>>
    BY <1>2 DEF vars, supervisor, ghosts
  <2> QED BY <2>1 DEF IInv, TypeOK, Ordered, Coherent, ManifestCoherent, CallCoherent, Compatible
<1> QED BY <1>1, <1>2, Feeding DEF Next

THEOREM Invariance == Spec => []IInv
<1> QED BY InitIInv, NextIInv, PTL DEF Spec

\* Every reachable state of the feed is well typed: nothing is fed, remembered
\* or served that has not landed.
THEOREM TypeCorrect == Spec => []TypeOK
<1>1. IInv => TypeOK
  BY DEF IInv
<1> QED BY <1>1, Invariance, PTL

\* No listing or grep is older than what the epoch had moved for when it was
\* asked, whoever walks, dies, restarts or answers late.
THEOREM ToldChangesAreListed == Spec => []ToldIsListed
<1>1. IInv => ToldIsListed
  BY DEF IInv, Coherent, CallCoherent, ToldIsListed
<1> QED BY <1>1, Invariance, PTL

----------------------------------------------------------------------------
(* What a manifest lacks.  A change lands beyond the cursor, beyond what the *)
(* live feed has delivered and beyond every catch-up; each of these passes  *)
(* it by moving the epoch, by promising to (a catch-up that saw a change),  *)
(* or by slipping.  So of what a manifest of the present epoch lacks, all   *)
(* that is not lost lies ahead of the cursor, from which the next child     *)
(* catches up, and ahead of the feed, if the child has one.                 *)

\* A catch-up that saw a change will move the epoch.
AnyPending ==
  \E r \in Armers : resume[r].at \in {"page", "watch", "answered", "bump"} /\ resume[r].any

Unseen(at) == {n \in Seq0 : at < n /\ n <= seq /\ n \notin slipped}

\* The change is ahead of every way it may be told by.
Ahead(n) ==
  /\ n > cursor
  /\ child.armed => n > child.fed
  /\ \A r \in Armers : resume[r].at \in {"page", "watch"} => n > resume[r].cursor

Reaches(at) == AnyPending \/ \A n \in Unseen(at) : Ahead(n)

\* What is, or may become, a manifest of the present epoch.
Certified ==
  /\ manifest.held /\ manifest.epoch = epoch => Reaches(manifest.at)
  /\ \A c \in Callers : call[c].at = "walking" /\ call[c].epoch = epoch => Reaches(call[c].got)

\* The feed is said to be live only when the latest child has armed it.
Arming ==
  /\ requested \/ \A r \in Armers : resume[r].at = "none"
  /\ \A r \in Armers : resume[r].child <= child.id
  /\ watching => child.armed
  /\ \A r \in Armers : resume[r].at = "answered" /\ resume[r].child = child.id => child.armed

FeedInv == Arming /\ Certified

\* Steps of the vault, the child and the handshake.
LEMMA ArmingByChild ==
  ASSUME IInv, Arming, Edit \/ Notify \/ Pump \/ ChildDies \/ Restart \/ Subscribe \/ SubscribeArms
  PROVE  Arming'
<1> USE FeedAssumption
<1>0. /\ child \in ChildState /\ child.id \in Nat /\ resume \in [Armers -> Resume]
      /\ \A r \in Armers : resume[r].child \in Nat
  BY DEF IInv, TypeOK, ChildState, Child, Resume
<1>1. CASE Edit \/ Notify \/ Pump \/ ChildDies
  <2>1. child'.armed = child.armed /\ child'.id = child.id
    BY <1>0, <1>1 DEF Edit, Notify, Pump, ChildDies, ChildState
  <2>2. UNCHANGED <<requested, resume, watching>>
    BY <1>1 DEF Edit, Notify, Pump, ChildDies, supervisor
  <2> QED BY <2>1, <2>2 DEF Arming
<1>2. CASE Restart
  <2>1. child'.id = child.id + 1 /\ watching' = FALSE /\ UNCHANGED requested
    BY <1>2 DEF Restart, NoChild
  <2>2. \/ UNCHANGED resume
        \/ /\ requested /\ resume' = [resume EXCEPT !["handshake"] = CatchUp(child.id + 1, cursor)]
    BY <1>2 DEF Restart
  <2>3. \A r \in Armers : \/ resume'[r] = resume[r]
                          \/ requested /\ resume'[r].at = "page" /\ resume'[r].child = child.id + 1
    BY <1>0, <2>2 DEF CatchUp, NoResume
  <2> QED BY <1>0, <2>1, <2>3 DEF Arming
<1>3. CASE Subscribe
  <2>1. requested' = TRUE /\ UNCHANGED <<child, watching>>
    BY <1>3 DEF Subscribe
  <2>2. \A r \in Armers : \/ resume'[r] = resume[r]
                          \/ resume'[r].at = "check" /\ resume'[r].child = 0
    BY <1>0, <1>3 DEF Subscribe, NoResume
  <2> QED BY <1>0, <2>1, <2>2 DEF Arming
<1>4. CASE SubscribeArms
  <2>1. UNCHANGED <<requested, child, watching>> /\ resume["subscribe"].at = "check"
        /\ "subscribe" \in Armers
    BY <1>4 DEF SubscribeArms, supervisor
  <2>2. \A r \in Armers : \/ resume'[r] = resume[r]
                          \/ resume'[r].at = "none" /\ resume'[r].child = 0
                          \/ resume'[r].at = "page" /\ resume'[r].child = child.id
    BY <1>0, <1>4 DEF SubscribeArms, NoResume, CatchUp
  <2>3. requested
    BY <2>1 DEF Arming
  <2> QED BY <1>0, <2>1, <2>2, <2>3 DEF Arming
<1> QED BY <1>1, <1>2, <1>3, <1>4

\* Steps of a resume_watch, when no answer is slower than the next child.
LEMMA ArmingByResume ==
  ASSUME IInv, Arming, "slowAnswer" \notin Faults, NEW r \in Armers, Resuming(r)
  PROVE  Arming'
<1>0. /\ child \in ChildState /\ child.id \in Nat /\ resume \in [Armers -> Resume]
      /\ \A s \in Armers : resume[s].child \in Nat
  BY DEF IInv, TypeOK, ChildState, Child, Resume
<1>1. ASSUME UNCHANGED <<child, requested>>, requested,
             \A s \in Armers \ {r} : resume'[s] = resume[s],
             resume'[r].child \in {0, resume[r].child},
             resume'[r].at # "answered", watching' = FALSE \/ child.armed \/ UNCHANGED watching
      PROVE  Arming'
  BY <1>0, <1>1 DEF Arming
<1>2. requested
  <2>1. resume[r].at # "none"
    BY DEF Resuming, CatchUpPage, CatchUpFails, Watch, WatchAnswered, WatchFails, ResumeEnds
  <2> QED BY <2>1 DEF Arming
<1>3. CASE CatchUpPage(r)
  <2>1. /\ UNCHANGED <<child, requested, watching>> /\ \A s \in Armers \ {r} : resume'[s] = resume[s]
        /\ resume'[r].child = resume[r].child /\ resume'[r].at \in {"watch", "page"}
    BY <1>0, <1>3 DEF CatchUpPage, Resume
  <2> QED BY <1>1, <1>2, <2>1
<1>4. CASE CatchUpFails(r)
  <2>1. /\ UNCHANGED <<child, requested, watching>> /\ \A s \in Armers \ {r} : resume'[s] = resume[s]
        /\ resume'[r].child = resume[r].child /\ resume'[r].at = "watch"
    BY <1>0, <1>4 DEF CatchUpFails, Resume, supervisor
  <2> QED BY <1>1, <1>2, <2>1
<1>5. CASE Watch(r)
  <2>1. /\ UNCHANGED <<requested, watching>> /\ \A s \in Armers \ {r} : resume'[s] = resume[s]
        /\ resume'[r].child = resume[r].child
        /\ child'.armed /\ child'.id = child.id
    BY <1>0, <1>5 DEF Watch, Resume, supervisor, ChildState
  <2> QED BY <1>0, <1>2, <2>1 DEF Arming
<1>6. CASE WatchAnswered(r)
  <2>1. /\ UNCHANGED <<child, requested>> /\ \A s \in Armers \ {r} : resume'[s] = resume[s]
        /\ resume'[r].child = resume[r].child /\ resume'[r].at = "bump"
        /\ resume[r].at = "answered" /\ resume[r].child = child.id
    BY <1>0, <1>6 DEF WatchAnswered, Resume
  <2>2. child.armed
    BY <2>1 DEF Arming
  <2> QED BY <1>1, <1>2, <2>1, <2>2
<1>7. CASE WatchFails(r)
  <2>1. /\ UNCHANGED <<child, requested>> /\ \A s \in Armers \ {r} : resume'[s] = resume[s]
        /\ resume'[r].child = resume[r].child /\ resume'[r].at = "bump" /\ watching' = FALSE
    BY <1>0, <1>7 DEF WatchFails, Resume
  <2> QED BY <1>1, <1>2, <2>1
<1>8. CASE ResumeEnds(r)
  <2>1. /\ UNCHANGED <<child, requested, watching>> /\ \A s \in Armers \ {r} : resume'[s] = resume[s]
        /\ resume'[r].child = 0 /\ resume'[r].at = "none"
    BY <1>0, <1>8 DEF ResumeEnds, NoResume
  <2> QED BY <1>1, <1>2, <2>1
<1> QED BY <1>3, <1>4, <1>5, <1>6, <1>7, <1>8 DEF Resuming

\* Steps of a call: RequestFails alone touches the supervisor.
LEMMA ArmingByCall == ASSUME IInv, Arming, NEW c \in Callers, Calling(c) PROVE Arming'
<1>1. child'.armed = child.armed /\ child'.id = child.id
  BY DEF IInv, TypeOK, ChildState, Calling, StartCall, ReadLive, ReadEpoch, MatchCached, MissCached,
     SampleLive, SampleEpoch, WalkStarts, WalkFails, WalkEnds, Return, StartWrite, WriteLands,
     WriteFails, WriteEnds, RequestFails
<1>2. UNCHANGED <<requested, resume>> /\ (watching' = FALSE \/ UNCHANGED watching)
  BY DEF Calling, StartCall, ReadLive, ReadEpoch, MatchCached, MissCached,
     SampleLive, SampleEpoch, WalkStarts, WalkFails, WalkEnds, Return, StartWrite, WriteLands,
     WriteFails, WriteEnds, RequestFails, supervisor
<1> QED BY <1>1, <1>2 DEF Arming

\* A change that lands is ahead of everything.
LEMMA LandingReaches ==
  ASSUME IInv, seq' = seq + 1, UNCHANGED <<child, cursor, resume, slipped>>,
         NEW at \in Seq0, Reaches(at)
  PROVE  Reaches(at)'
<1>0. seq \in Nat /\ \A n \in Seq0 : n \in Nat
  BY FeedAssumption DEF IInv, TypeOK, Seq0
<1>1. CASE AnyPending
  BY <1>1 DEF Reaches, AnyPending
<1>2. CASE ~AnyPending
  <2> SUFFICES ASSUME NEW n \in Unseen(at)' PROVE Ahead(n)
    BY DEF Reaches, Ahead
  <2>1. n \in Nat /\ n <= seq + 1 /\ n \notin slipped /\ at < n
    BY <1>0 DEF Unseen
  <2>2. CASE n <= seq
    BY <1>2, <2>1, <2>2 DEF Reaches, Unseen
  <2>3. CASE n = seq + 1
    <3>1. cursor \in Nat /\ cursor <= seq
      BY <1>0 DEF IInv, TypeOK, Ordered
    <3>2. child.fed \in Nat /\ child.sent \in Nat /\ child.fed <= child.sent /\ child.sent <= seq
      BY <1>0 DEF IInv, TypeOK, Ordered, ChildState
    <3>3. \A r \in Armers : resume[r].cursor \in Nat /\ resume[r].cursor <= seq
      BY <1>0 DEF IInv, TypeOK, Ordered, Resume
    <3> QED BY <1>0, <2>3, <3>1, <3>2, <3>3 DEF Ahead
  <2> QED BY <1>0, <2>1, <2>2, <2>3
<1> QED BY <1>1, <1>2

\* A step that moves neither the cursor nor what has been delivered, and starts a
\* catch-up only at the cursor.
LEMMA StillReaches ==
  ASSUME UNCHANGED <<seq, slipped, cursor>>,
         child'.armed => child.armed /\ child'.fed = child.fed,
         AnyPending => AnyPending',
         \A r \in Armers : resume'[r].at \in {"page", "watch"} =>
           \/ resume[r].at \in {"page", "watch"} /\ resume'[r].cursor = resume[r].cursor
           \/ resume'[r].cursor = cursor,
         NEW at \in Seq0, Reaches(at)
  PROVE  Reaches(at)'
<1> SUFFICES ASSUME ~AnyPending, NEW n \in Unseen(at)' PROVE Ahead(n)'
  BY DEF Reaches
<1>1. Ahead(n)
  BY DEF Reaches, Unseen
<1> QED BY <1>1 DEF Ahead

\* The steps that do not move the epoch.
LEMMA ChildReaches ==
  ASSUME IInv, Arming, Edit \/ Notify \/ ChildDies \/ Restart \/ Subscribe \/ SubscribeArms,
         NEW at \in Seq0, Reaches(at)
  PROVE  Reaches(at)'
<1> USE FeedAssumption
<1>0. child \in ChildState /\ resume \in [Armers -> Resume]
  BY DEF IInv, TypeOK
<1>1. CASE Edit
  BY <1>1, LandingReaches DEF Edit, supervisor, ghosts
<1>2. CASE Notify \/ ChildDies
  <2>1. child'.armed = child.armed /\ child'.fed = child.fed
    BY <1>0, <1>2 DEF Notify, ChildDies, ChildState
  <2>2. UNCHANGED <<seq, slipped, cursor, resume>>
    BY <1>2 DEF Notify, ChildDies, supervisor, ghosts
  <2> QED BY <2>1, <2>2, StillReaches DEF AnyPending
<1>3. CASE Restart
  <2>1. child'.armed = FALSE /\ UNCHANGED <<seq, slipped, cursor>>
    BY <1>3 DEF Restart, NoChild, ghosts
  <2>2. resume["handshake"].at = "none"
    BY <1>3 DEF Restart
  <2>3. \A r \in Armers : \/ resume'[r] = resume[r]
                          \/ /\ resume[r].at = "none"
                             /\ resume'[r].at = "page" /\ resume'[r].cursor = cursor
    BY <1>0, <1>3, <2>2 DEF Restart, CatchUp, NoResume
  <2>4. AnyPending => AnyPending'
    BY <2>3 DEF AnyPending
  <2> QED BY <2>1, <2>3, <2>4, StillReaches
<1>4. CASE Subscribe
  <2>1. UNCHANGED <<child, seq, slipped, cursor>>
    BY <1>4 DEF Subscribe, ghosts
  <2>2. \A r \in Armers : resume[r].at = "none"
    BY <1>4 DEF Subscribe, Arming
  <2>3. \A r \in Armers : resume'[r] = resume[r] \/ resume'[r].at = "check"
    BY <1>0, <1>4 DEF Subscribe, NoResume
  <2>4. ~AnyPending
    BY <2>2 DEF AnyPending
  <2> QED BY <2>1, <2>3, <2>4, StillReaches
<1>5. CASE SubscribeArms
  <2>1. UNCHANGED <<child, seq, slipped, cursor>> /\ resume["subscribe"].at = "check"
    BY <1>5 DEF SubscribeArms, supervisor, ghosts
  <2>2. \A r \in Armers : \/ resume'[r] = resume[r]
                          \/ resume[r].at = "check" /\ resume'[r].at = "none"
                          \/ /\ resume[r].at = "check"
                             /\ resume'[r].at = "page" /\ resume'[r].cursor = cursor
    BY <1>0, <1>5 DEF SubscribeArms, NoResume, CatchUp
  <2>3. AnyPending => AnyPending'
    BY <2>2 DEF AnyPending
  <2> QED BY <2>1, <2>2, <2>3, StillReaches
<1> QED BY <1>1, <1>2, <1>3, <1>4, <1>5

LEMMA ResumeReaches ==
  ASSUME IInv, Arming, NEW r \in Armers, Resuming(r), ~(ResumeEnds(r) /\ resume[r].any),
         NEW at \in Seq0, Reaches(at)
  PROVE  Reaches(at)'
<1> USE FeedAssumption
<1>0. /\ child \in ChildState /\ resume \in [Armers -> Resume] /\ \A n \in Seq0 : n \in Nat
      /\ resume[r].cursor \in Nat /\ resume[r].since \in Nat /\ cursor \in Nat /\ seq \in Nat
  BY DEF IInv, TypeOK, Seq0, Resume
<1>1. CASE CatchUpPage(r)
  <2>1. PICK n \in Seq0 :
          /\ resume[r].cursor <= n /\ n <= seq
          /\ n = resume[r].cursor => n = seq
          /\ resume' = [resume EXCEPT ![r].cursor = n,
                                      ![r].any = @ \/ n > resume[r].cursor,
                                      ![r].at = IF n = seq THEN "watch" ELSE "page"]
    BY <1>1 DEF CatchUpPage
  <2>2. /\ resume[r].at = "page" /\ resume'[r].at \in {"page", "watch"}
        /\ resume'[r].any = (resume[r].any \/ n > resume[r].cursor)
        /\ \A s \in Armers \ {r} : resume'[s] = resume[s]
        /\ UNCHANGED <<seq, slipped>>
    BY <1>0, <1>1, <2>1 DEF CatchUpPage, Resume, ghosts
  <2>3. AnyPending => AnyPending'
    BY <2>2 DEF AnyPending
  <2>4. CASE n > resume[r].cursor
    BY <2>2, <2>4 DEF AnyPending, Reaches
  <2>5. CASE n = resume[r].cursor
    <3>1. \A m \in Unseen(at) : ~Ahead(m)
      BY <1>0, <2>1, <2>2, <2>5 DEF Ahead, Unseen
    <3>2. AnyPending \/ Unseen(at)' = {}
      BY <2>2, <3>1 DEF Reaches, Unseen
    <3> QED BY <2>3, <3>2 DEF Reaches
  <2> QED BY <1>0, <2>1, <2>4, <2>5
<1>2. CASE CatchUpFails(r) \/ WatchFails(r)
  <2>1. /\ UNCHANGED <<child, seq, slipped, cursor>>
        /\ \A s \in Armers \ {r} : resume'[s] = resume[s]
        /\ resume[r].at \in {"page", "watch", "answered"} /\ resume'[r].at \in {"watch", "bump"}
        /\ resume'[r].at = "watch" => resume[r].at = "page"
        /\ resume'[r].any = resume[r].any /\ resume'[r].cursor = resume[r].cursor
    BY <1>0, <1>2 DEF CatchUpFails, WatchFails, Resume, supervisor, ghosts
  <2>2. AnyPending => AnyPending'
    BY <2>1 DEF AnyPending
  <2> QED BY <2>1, <2>2, StillReaches
<1>3. CASE Watch(r)
  <2>1. /\ UNCHANGED <<seq, cursor>> /\ \A s \in Armers \ {r} : resume'[s] = resume[s]
        /\ resume[r].at = "watch" /\ resume'[r].at = "answered" /\ resume'[r].any = resume[r].any
    BY <1>0, <1>3 DEF Watch, Resume, supervisor
  <2>2. AnyPending => AnyPending'
    BY <2>1 DEF AnyPending
  <2>3. CASE child.armed
    BY <1>3, <2>1, <2>2, <2>3, StillReaches DEF Watch
  <2>4. CASE ~child.armed
    <3>1. slipped' = slipped \cup {n \in Seq0 : resume[r].cursor < n /\ n <= seq}
      BY <1>3, <2>4 DEF Watch
    <3>2. \A m \in Unseen(at)' : m \in Unseen(at) /\ ~(m > resume[r].cursor)
      BY <1>0, <2>1, <3>1 DEF Unseen
    <3>3. AnyPending \/ Unseen(at)' = {}
      BY <2>1, <3>2 DEF Reaches, Ahead
    <3> QED BY <2>2, <3>3 DEF Reaches
  <2> QED BY <2>3, <2>4
<1>4. CASE WatchAnswered(r)
  <2>1. /\ UNCHANGED <<child, seq>> /\ \A s \in Armers \ {r} : resume'[s] = resume[s]
        /\ resume[r].at = "answered" /\ resume'[r].at = "bump" /\ resume'[r].any = resume[r].any
        /\ cursor' = resume[r].since
        /\ slipped' = slipped \cup {n \in Seq0 : cursor < n /\ n <= resume[r].since}
    BY <1>0, <1>4 DEF WatchAnswered, Resume
  <2>2. AnyPending => AnyPending'
    BY <2>1 DEF AnyPending
  <2> SUFFICES ASSUME ~AnyPending, NEW n \in Unseen(at)' PROVE Ahead(n)'
    BY <2>2 DEF Reaches
  <2>3. n \in Nat /\ n \in Unseen(at) /\ ~(cursor < n /\ n <= resume[r].since)
    BY <1>0, <2>1 DEF Unseen
  <2>4. Ahead(n)
    BY <2>3 DEF Reaches
  <2>5. n > cursor'
    BY <1>0, <2>1, <2>3, <2>4 DEF Ahead
  <2> QED BY <2>1, <2>4, <2>5 DEF Ahead
<1>5. CASE ResumeEnds(r)
  <2>1. /\ UNCHANGED <<child, seq, cursor, slipped>> /\ resume'[r].at = "none" /\ ~resume[r].any
        /\ \A s \in Armers \ {r} : resume'[s] = resume[s]
    BY <1>0, <1>5 DEF ResumeEnds, NoResume
  <2>2. AnyPending => AnyPending'
    BY <2>1 DEF AnyPending
  <2> QED BY <2>1, <2>2, StillReaches
<1> QED BY <1>1, <1>2, <1>3, <1>4, <1>5 DEF Resuming

LEMMA CallReaches ==
  ASSUME IInv, NEW c \in Callers, Calling(c), ~WriteEnds(c), NEW at \in Seq0, Reaches(at)
  PROVE  Reaches(at)'
<1>1. CASE WriteLands(c)
  BY <1>1, LandingReaches DEF WriteLands, supervisor, ghosts
<1>2. CASE ~WriteLands(c)
  <2>1. child'.armed = child.armed /\ child'.fed = child.fed
    BY <1>2 DEF IInv, TypeOK, ChildState, Calling, StartCall, ReadLive, ReadEpoch, MatchCached, MissCached,
       SampleLive, SampleEpoch, WalkStarts, WalkFails, WalkEnds, Return, StartWrite, WriteFails,
       RequestFails
  <2>2. UNCHANGED <<seq, slipped, cursor, resume>>
    BY <1>2 DEF Calling, StartCall, ReadLive, ReadEpoch, MatchCached, MissCached,
       SampleLive, SampleEpoch, WalkStarts, WalkFails, WalkEnds, Return, StartWrite, WriteFails,
       RequestFails, supervisor, ghosts
  <2> QED BY <2>1, <2>2, StillReaches DEF AnyPending
<1> QED BY <1>1, <1>2

\* When the epoch moves, what is stamped lags behind it.
LEMMA BumpCertifies ==
  ASSUME IInv, epoch' = epoch + 1, UNCHANGED manifest,
         \A c \in Callers : call'[c].at = "walking" => call'[c] = call[c]
  PROVE  Certified'
<1>1. epoch \in Nat /\ (manifest.held => manifest.epoch # epoch + 1)
  BY DEF IInv, TypeOK, Manifest, Coherent, ManifestCoherent
<1>2. \A c \in Callers : call[c].epoch # epoch + 1
  BY DEF IInv, TypeOK, Call, Coherent, CallCoherent
<1> QED BY <1>1, <1>2 DEF Certified

\* Every step keeps FeedInv, when no answer is slower than the next child.
LEMMA FeedNext ==
  ASSUME "slowAnswer" \notin Faults
  PROVE  IInv /\ FeedInv /\ [Next]_vars => FeedInv'
<1> SUFFICES ASSUME IInv, FeedInv, [Next]_vars PROVE FeedInv'
  OBVIOUS
<1>0. /\ Arming /\ Certified /\ call \in [Callers -> Call] /\ manifest \in Manifest
      /\ manifest.at \in Seq0 /\ \A c \in Callers : call[c].got \in Seq0
  BY DEF FeedInv, IInv, TypeOK, Manifest, Call
<1>1. ASSUME \A at \in Seq0 : Reaches(at) => Reaches(at)', UNCHANGED <<epoch, manifest>>,
             \A c \in Callers : call'[c].at = "walking" => call'[c] = call[c]
      PROVE  Certified'
  BY <1>0, <1>1 DEF Certified
<1>2. CASE Pump
  <2>1. epoch' = epoch + 1 /\ UNCHANGED <<manifest, call>>
    BY <1>2 DEF Pump, BumpEpoch
  <2> QED BY <1>0, <1>2, <2>1, ArmingByChild, BumpCertifies DEF FeedInv
<1>3. CASE Edit \/ Notify \/ ChildDies \/ Restart \/ Subscribe \/ SubscribeArms
  <2>1. UNCHANGED <<epoch, manifest, call>>
    BY <1>3 DEF Edit, Notify, ChildDies, Restart, Subscribe, SubscribeArms, supervisor
  <2>2. \A at \in Seq0 : Reaches(at) => Reaches(at)'
    BY <1>0, <1>3, ChildReaches
  <2> QED BY <1>0, <1>1, <1>3, <2>1, <2>2, ArmingByChild DEF FeedInv
<1>4. ASSUME NEW r \in Armers, Resuming(r) PROVE FeedInv'
  <2>1. UNCHANGED <<manifest, call>>
    BY <1>4 DEF Resuming, CatchUpPage, CatchUpFails, Watch, WatchAnswered, WatchFails, ResumeEnds
  <2>2. Arming'
    BY <1>0, <1>4, ArmingByResume
  <2>3. CASE ResumeEnds(r) /\ resume[r].any
    <3>1. epoch' = epoch + 1
      BY <2>3 DEF ResumeEnds, BumpEpoch
    <3> QED BY <2>1, <2>2, <3>1, BumpCertifies DEF FeedInv
  <2>4. CASE ~(ResumeEnds(r) /\ resume[r].any)
    <3>1. UNCHANGED epoch
      BY <1>4, <2>4 DEF Resuming, CatchUpPage, CatchUpFails, Watch, WatchAnswered, WatchFails,
         ResumeEnds, supervisor
    <3>2. \A at \in Seq0 : Reaches(at) => Reaches(at)'
      BY <1>0, <1>4, <2>4, ResumeReaches
    <3> QED BY <1>1, <2>1, <2>2, <3>1, <3>2 DEF FeedInv
  <2> QED BY <2>3, <2>4
<1>5. ASSUME NEW c \in Callers, Calling(c) PROVE FeedInv'
  <2>1. Arming'
    BY <1>0, <1>5, ArmingByCall
  <2>2. CASE WriteEnds(c)
    <3>1. epoch' = epoch + 1 /\ UNCHANGED manifest
      BY <2>2 DEF WriteEnds, BumpEpoch
    <3>2. \A d \in Callers : call'[d].at = "walking" => call'[d] = call[d]
      BY <1>0, <2>2 DEF WriteEnds, IdleCall
    <3> QED BY <2>1, <3>1, <3>2, BumpCertifies DEF FeedInv
  <2>3. CASE ~WriteEnds(c)
    <3>0. UNCHANGED epoch
      BY <1>5, <2>3 DEF Calling, StartCall, ReadLive, ReadEpoch, MatchCached, MissCached,
         SampleLive, SampleEpoch, WalkStarts, WalkFails, WalkEnds, Return, StartWrite, WriteLands,
         WriteFails, RequestFails, supervisor
    <3>1. \A at \in Seq0 : Reaches(at) => Reaches(at)'
      BY <1>5, <2>3, CallReaches
    <3>2. CASE WalkStarts(c)
      <4>1. UNCHANGED manifest /\ \A d \in Callers \ {c} : call'[d] = call[d]
        BY <1>0, <3>2 DEF WalkStarts
      <4>2. call'[c].got = seq /\ UNCHANGED seq
        BY <1>0, <3>2 DEF WalkStarts, Call
      <4>3. Unseen(call[c].got)' = {}
        BY <4>2, FeedAssumption DEF Unseen, IInv, TypeOK, Seq0
      <4>4. Certified'
        BY <1>0, <3>0, <3>1, <4>1, <4>3 DEF Certified, Reaches
      <4> QED BY <2>1, <4>4 DEF FeedInv
    <3>3. CASE WalkEnds(c)
      <4>1. PICK n \in call[c].got .. seq :
              /\ manifest' = [held |-> TRUE, epoch |-> call[c].epoch, live |-> call[c].live, at |-> n]
              /\ call' = [call EXCEPT ![c].at = "served", ![c].got = n]
        BY <3>3 DEF WalkEnds, Collected, Serve
      <4>2. call[c].at = "walking"
        BY <3>3 DEF WalkEnds
      <4>3. \A d \in Callers : call'[d].at = "walking" => call'[d] = call[d]
        BY <1>0, <4>1 DEF Call
      <4>4. call[c].got \in Nat /\ seq \in Nat /\ n \in Nat /\ n >= call[c].got /\ Seq0 \subseteq Nat
        BY <1>0, FeedAssumption DEF IInv, TypeOK, Seq0
      <4>5. PICK g \in Seq0 : g = call[c].got
        BY <1>0
      <4>6. Unseen(n)' \subseteq Unseen(g)'
        <5>1. \A m \in Seq0 : n < m => g < m
          BY <4>4, <4>5
        <5> QED BY <5>1 DEF Unseen
      <4>7. call[c].epoch = epoch => Reaches(n)'
        <5>1. call[c].epoch = epoch => Reaches(g)'
          BY <1>0, <3>1, <4>2, <4>5 DEF Certified
        <5> QED BY <4>6, <5>1 DEF Reaches
      <4>8. manifest'.epoch = call[c].epoch /\ manifest'.at = n
        BY <4>1
      <4>9. Certified'
        BY <1>0, <3>0, <3>1, <4>3, <4>7, <4>8 DEF Certified
      <4> QED BY <2>1, <4>9 DEF FeedInv
    <3>4. CASE ~WalkStarts(c) /\ ~WalkEnds(c)
      <4>1. \A d \in Callers : call'[d].at = "walking" => call'[d] = call[d]
        <5> SUFFICES call'[c].at # "walking" /\ \A d \in Callers \ {c} : call'[d] = call[d]
          OBVIOUS
        <5>1. call[c] \in Call
          BY <1>0
        <5>2. CASE Return(c) \/ WalkFails(c)
          BY <1>0, <5>2 DEF Return, WalkFails, IdleCall
        <5>6. CASE StartCall(c)
          <6>1. PICK k \in {"list", "grep"} :
                  call' = [call EXCEPT ![c] = [IdleCall EXCEPT !.at = "live", !.kind = k, !.owed = told]]
            BY <5>6 DEF StartCall
          <6> QED BY <1>0, <6>1 DEF IdleCall
        <5>7. CASE StartWrite(c)
          BY <1>0, <5>7 DEF StartWrite, IdleCall
        <5>3. CASE ReadLive(c) \/ ReadEpoch(c) \/ SampleLive(c) \/ SampleEpoch(c)
          BY <1>0, <5>1, <5>3 DEF ReadLive, ReadEpoch, SampleLive, SampleEpoch, Call
        <5>4. CASE MatchCached(c) \/ MissCached(c) \/ WriteLands(c) \/ WriteFails(c)
          BY <1>0, <5>1, <5>4 DEF MatchCached, MissCached, WriteLands, WriteFails, To, Serve, Call
        <5>5. CASE RequestFails(c)
          BY <1>0, <5>1, <5>5 DEF RequestFails, IdleCall, Call
        <5> QED BY <1>5, <2>3, <3>4, <5>2, <5>3, <5>4, <5>5, <5>6, <5>7 DEF Calling
      <4>2. UNCHANGED manifest
        BY <1>5, <2>3, <3>4 DEF Calling, StartCall, ReadLive, ReadEpoch, MatchCached, MissCached,
           SampleLive, SampleEpoch, WalkFails, Return, StartWrite, WriteLands, WriteFails,
           RequestFails
      <4> QED BY <1>1, <2>1, <3>0, <3>1, <4>1, <4>2 DEF FeedInv
    <3> QED BY <3>2, <3>3, <3>4
  <2> QED BY <2>2, <2>3
<1>6. CASE UNCHANGED vars
  <2>1. UNCHANGED <<seq, slot, watching, requested, cursor, epoch, child, resume, manifest, call, told,
                    slipped>>
    BY <1>6 DEF vars, supervisor, ghosts
  <2> QED BY <2>1 DEF FeedInv, Arming, Certified, Reaches, AnyPending, Unseen, Ahead
<1> QED BY <1>2, <1>3, <1>4, <1>5, <1>6 DEF Next

\* When no answer of a replaced child is slower than the next child's (the fault
\* slowAnswer), what a manifest that a grep trusts lacks is on its way to the
\* epoch, or slipped between a catch-up and the watch it armed (resume_watch):
\* deaths, restarts and failed requests lose nothing else.
THEOREM NothingElseIsLost ==
  ASSUME "slowAnswer" \notin Faults
  PROVE  Spec => []OnlySlipsAreLost
<1>1. Init => FeedInv
  <2> SUFFICES ASSUME Init PROVE FeedInv
    OBVIOUS
  <2>1. Arming
    BY DEF Init, Arming, NoResume, NoChild
  <2>2. Certified
    BY DEF Init, Certified, NoManifest, IdleCall
  <2> QED BY <2>1, <2>2 DEF FeedInv
<1>2. IInv /\ FeedInv => OnlySlipsAreLost
  <2> SUFFICES ASSUME IInv, FeedInv, Vouched, NEW n \in Seq0, manifest.at < n, n <= seq, n \notin slipped
               PROVE  Coming(n)
    BY DEF OnlySlipsAreLost
  <2>1. child.armed
    BY DEF Vouched, FeedLive, FeedInv, Arming
  <2>2. AnyPending \/ Ahead(n)
    BY DEF Vouched, FeedInv, Certified, Reaches, Unseen
  <2> QED BY <2>1, <2>2 DEF AnyPending, Ahead, Coming
<1>3. IInv /\ FeedInv /\ [Next]_vars => FeedInv'
  BY FeedNext
<1> QED BY <1>1, <1>2, <1>3, Invariance, PTL DEF Spec

=============================================================================
