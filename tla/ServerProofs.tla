---------------------------- MODULE ServerProofs ----------------------------
(***************************************************************************)
(* Proofs about the two state machines of the server.  RuntimeIndex: what  *)
(* a stale mark, a coalesced refresh and a waited rebuild promise, for any *)
(* number of clients, changes and faults.  OAuthGrants: what a grant gives *)
(* and how it ends, for any registry, capacity and lifetime.               *)
(***************************************************************************)
EXTENDS RuntimeIndex, OAuthGrants, FiniteSetTheorems, TLAPS

(***************************************************************************)
(* The inductive invariant.  The lock leaves one operation at a time       *)
(* between its listing and its end, so its listing is no older than the    *)
(* file and the snapshot, and, until something is marked, no older than    *)
(* what had been marked before.                                            *)
(***************************************************************************)

\* Nothing is indexed or marked before it has landed.
Ordered ==
  /\ told <= heard /\ heard <= seq
  /\ snapshot.at <= file.at /\ file.at <= seq
  /\ ~snapshot.held => snapshot.at = 0

\* The operation that works is the one that holds the lock.
OneWorks ==
  /\ \A j \in Jobs : job[j].at \in Working \cup {"unlock"} <=> holder = j
  /\ background <=> job["rebuild"].at # "idle"

StageOK(j) ==
  /\ job[j].outcome # "none" => job[j].at \in {"lower", "unlock"}
  /\ job[j].owed <= told
  /\ job[j].at \in Listed =>
       /\ file.at <= job[j].from /\ job[j].from <= seq /\ job[j].owed <= job[j].from
       /\ job[j].marked \/ told <= job[j].from
  /\ job[j].at = "publish" => job[j].got = job[j].from /\ job[j].got = file.at
  /\ job[j].at = "finish" => job[j].got = job[j].from /\ job[j].got = snapshot.at
  /\ job[j].at \in {"reuse", "finish"} => snapshot.held
  /\ job[j].at = "loaded" => job[j].got <= file.at
  /\ job[j].outcome = "ok" => job[j].got >= job[j].owed

\* The rebuild that c queued has not ended, and lists nothing older.
Coming(c) ==
  \/ job["rebuild"].at \in {"ask", "lock", "sample", "failed"}
  \/ job["rebuild"].at \in Listed /\ job["rebuild"].from >= client[c].owed

\* It failed, and no operation that could hide the failure lists anything older.
Failed(c) == lastError /\ \A j \in Jobs : job[j].at \in Listed => job[j].from >= client[c].owed

ClientOK(c) ==
  /\ client[c].owed <= seq
  /\ client[c].queued =>
       /\ client[c].at \in {"poll", "pollBackground"} =>
            Coming(c) \/ Failed(c) \/ snapshot.at >= client[c].owed
       /\ client[c].at = "quiet" => Failed(c) \/ snapshot.at >= client[c].owed
       /\ client[c].at = "answered" => client[c].got >= client[c].owed

IInv ==
  /\ TypeOK /\ Ordered /\ OneWorks /\ InFlightIsShown
  /\ \A j \in Jobs : StageOK(j)
  /\ MarkedIsIndexed
  /\ \A c \in Clients : ClientOK(c)

USE DEF Count, Jobs, Preloading, Working, Listed

LEMMA IdleTypes ==
  /\ IdleJob \in Job /\ IdleClient \in Client
  /\ [IdleJob EXCEPT !.at = "preload"] \in Job /\ [IdleJob EXCEPT !.at = "ending"] \in Job
<1>1. 0 \in 0 .. MaxChanges
  BY IndexAssumption
<1>2. IdleJob \in Job
  BY <1>1 DEF IdleJob, Job
<1>3. IdleClient \in Client
  BY <1>1 DEF IdleClient, Client
<1>4. ASSUME NEW s \in {"preload", "ending"} PROVE [IdleJob EXCEPT !.at = s] \in Job
  BY <1>2 DEF Job
<1> QED BY <1>2, <1>3, <1>4

LEMMA InitIInv == Init => IInv
<1> USE IndexAssumption
<1> SUFFICES ASSUME Init PROVE IInv
  OBVIOUS
<1>1. TypeOK
  <2>2. /\ job \in [Jobs -> Job] /\ client \in [Clients -> Client]
        /\ spent \in [faults : 0 .. MaxFaults, renewals : 0 .. MaxRenewals]
    BY IdleTypes DEF Init
  <2>3. /\ file \in [state : {"none", "compatible", "incompatible"}, at : Count]
        /\ snapshot \in [held : BOOLEAN, at : Count]
    BY DEF Init
  <2>4. /\ seq \in 0 .. MaxChanges /\ heard \in 0 .. MaxChanges /\ told \in 0 .. MaxChanges
        /\ watching \in BOOLEAN
    BY DEF Init
  <2> QED BY <2>2, <2>3, <2>4 DEF Init, TypeOK
<1>2. Ordered /\ OneWorks /\ InFlightIsShown /\ MarkedIsIndexed
  BY DEF Init, Ordered, OneWorks, InFlightIsShown, MarkedIsIndexed, IdleJob
<1>3. ASSUME NEW j \in Jobs PROVE StageOK(j)
  BY <1>3 DEF Init, StageOK, IdleJob
<1>4. ASSUME NEW c \in Clients PROVE ClientOK(c)
  BY <1>4 DEF Init, ClientOK, IdleClient
<1> QED BY <1>1, <1>2, <1>3, <1>4 DEF IInv

----------------------------------------------------------------------------
(* Types.                                                                  *)

\* A step of one job, or of every job's two flags.
LEMMA JobTypes ==
  ASSUME TypeOK, NEW j \in Jobs, NEW v \in Job, job' = [job EXCEPT ![j] = v]
  PROVE  job' \in [Jobs -> Job]
BY DEF TypeOK

LEMMA FlagTypes ==
  ASSUME NEW jobs \in [Jobs -> Job]
  PROVE  /\ GenerationMoves(jobs) \in [Jobs -> Job]
         /\ StaleGenerationMoves(jobs) \in [Jobs -> Job]
<1>1. ASSUME NEW j \in Jobs, NEW b \in BOOLEAN
      PROVE  [jobs[j] EXCEPT !.moved = b] \in Job /\ [jobs[j] EXCEPT !.marked = b] \in Job
  BY DEF Job
<1>2. ASSUME NEW j \in Jobs
      PROVE  jobs[j].moved \in BOOLEAN /\ jobs[j].marked \in BOOLEAN
  BY DEF Job
<1> QED BY <1>1, <1>2 DEF GenerationMoves, StaleGenerationMoves

\* The flags are all that the other jobs' steps change of a job.
Fields(r, q) ==
  /\ r.at = q.at /\ r.outcome = q.outcome
  /\ r.from = q.from /\ r.got = q.got /\ r.owed = q.owed

LEMMA FlagsOnly ==
  ASSUME NEW jobs \in [Jobs -> Job], NEW k \in Jobs
  PROVE  /\ Fields(GenerationMoves(jobs)[k], jobs[k])
         /\ GenerationMoves(jobs)[k].marked = jobs[k].marked
         /\ Fields(StaleGenerationMoves(jobs)[k], jobs[k])
         /\ jobs[k].at \in Listed => StaleGenerationMoves(jobs)[k].marked
<1>1. jobs[k] \in Job
  OBVIOUS
<1>2. GenerationMoves(jobs)[k] = [jobs[k] EXCEPT !.moved = @ \/ jobs[k].at = "lock"]
  BY DEF GenerationMoves
<1>3. StaleGenerationMoves(jobs)[k] = [jobs[k] EXCEPT !.marked = @ \/ jobs[k].at \in Listed]
  BY DEF StaleGenerationMoves
<1>4. /\ Fields([jobs[k] EXCEPT !.moved = @ \/ jobs[k].at = "lock"], jobs[k])
      /\ [jobs[k] EXCEPT !.moved = @ \/ jobs[k].at = "lock"].marked = jobs[k].marked
  BY <1>1 DEF Job, Fields
<1>5. /\ Fields([jobs[k] EXCEPT !.marked = @ \/ jobs[k].at \in Listed], jobs[k])
      /\ jobs[k].at \in Listed => [jobs[k] EXCEPT !.marked = @ \/ jobs[k].at \in Listed].marked
  BY <1>1 DEF Job, Fields
<1> QED BY <1>2, <1>3, <1>4, <1>5

LEMMA OperationTypes ==
  ASSUME TypeOK, NEW j \in Jobs, Operating(j)
  PROVE  TypeOK'
<1> USE IndexAssumption
<1>1. /\ job[j] \in Job /\ seq \in 0 .. MaxChanges /\ told \in 0 .. MaxChanges
      /\ snapshot.at \in 0 .. MaxChanges
  BY DEF TypeOK
<1>2. CASE Ask(j)
  <2>1. [job[j] EXCEPT !.at = "lock", !.owed = told] \in Job
    BY <1>1 DEF Job
  <2>2. job' \in [Jobs -> Job]
    BY <1>2, <2>1 DEF Ask, TypeOK
  <2> QED BY <1>2, <2>2 DEF Ask, TypeOK, published, watch
<1>3. CASE Coalesces(j)
  <2>1. [job[j] EXCEPT !.at = "unlock", !.moved = FALSE, !.got = snapshot.at, !.outcome = "ok"] \in Job
    BY <1>1 DEF Job
  <2>2. job' \in [Jobs -> Job]
    BY <1>3, <2>1 DEF Coalesces, TypeOK
  <2> QED BY <1>3, <2>2 DEF Coalesces, TypeOK, published, watch
<1>4. CASE Enter(j)
  <2>1. [job[j] EXCEPT !.at = "sample", !.moved = FALSE] \in Job
    BY <1>1 DEF Job
  <2>2. job' \in [Jobs -> Job]
    BY <1>4, <2>1 DEF Enter, TypeOK
  <2> QED BY <1>4, <2>2 DEF Enter, TypeOK, published, watch
<1>5. CASE Sample(j)
  <2>1. \A s \in {"build", "reuse"} : [job[j] EXCEPT !.from = seq, !.at = s] \in Job
    BY <1>1 DEF Job
  <2>2. job' \in [Jobs -> Job]
    BY <1>5, <2>1 DEF Sample, TypeOK
  <2> QED BY <1>5, <2>2 DEF Sample, TypeOK, published, watch
<1>6. CASE Reuse(j)
  <2>1. PICK n \in job[j].from .. seq :
           job' = [job EXCEPT ![j].from = n, ![j].got = n,
                              ![j].at = IF n = snapshot.at THEN "finish" ELSE "build"]
    BY <1>6 DEF Reuse
  <2>2. n \in 0 .. MaxChanges
    BY <1>1, <2>1 DEF Job
  <2>3. \A s \in {"build", "finish"} : [job[j] EXCEPT !.from = n, !.got = n, !.at = s] \in Job
    BY <1>1, <2>2 DEF Job
  <2>4. job' \in [Jobs -> Job]
    BY <2>1, <2>3 DEF TypeOK
  <2> QED BY <1>6, <2>4 DEF Reuse, TypeOK, published, watch
<1>7. CASE Build(j)
  <2>1. PICK n \in job[j].from .. seq :
           Commit(n) /\ job' = [job EXCEPT ![j].from = n, ![j].got = n, ![j].at = "publish"]
    BY <1>7 DEF Build
  <2>2. n \in 0 .. MaxChanges
    BY <1>1, <2>1 DEF Job
  <2>3. [job[j] EXCEPT !.from = n, !.got = n, !.at = "publish"] \in Job
    BY <1>1, <2>2 DEF Job
  <2>4. /\ job' \in [Jobs -> Job]
        /\ file' \in [state : {"none", "compatible", "incompatible"}, at : 0 .. MaxChanges]
    BY <2>1, <2>2, <2>3 DEF TypeOK, Commit
  <2> QED BY <1>7, <2>4 DEF Build, TypeOK, published, watch
<1>8. CASE OperationFails(j)
  <2>1. [job[j] EXCEPT !.at = "failed"] \in Job
    BY <1>1 DEF Job
  <2>2. job' \in [Jobs -> Job]
    BY <1>8, <2>1 DEF OperationFails, To, TypeOK
  <2>3. \A n \in job[j].from .. seq : n \in 0 .. MaxChanges
    BY <1>1 DEF Job
  <2>4. file' \in [state : {"none", "compatible", "incompatible"}, at : 0 .. MaxChanges]
    BY <1>8, <2>3 DEF OperationFails, Commit, TypeOK
  <2>5. spent' \in [faults : 0 .. MaxFaults, renewals : 0 .. MaxRenewals]
    BY <1>8 DEF OperationFails, Fault, TypeOK
  <2> QED BY <1>8, <2>2, <2>4, <2>5 DEF OperationFails, TypeOK, published, watch
<1>9. CASE Publish(j)
  <2>1. [job[j] EXCEPT !.at = "finish"] \in Job /\ job[j].got \in 0 .. MaxChanges
    BY <1>1 DEF Job
  <2>2. job' \in [Jobs -> Job] /\ snapshot' \in [held : BOOLEAN, at : 0 .. MaxChanges]
    BY <1>9, <2>1 DEF Publish, To, TypeOK
  <2> QED BY <1>9, <2>2 DEF Publish, TypeOK, published, watch
<1>10. CASE Finishes(j)
  <2>1. [job[j] EXCEPT !.at = "lower", !.marked = FALSE, !.outcome = "ok"] \in Job
    BY <1>1 DEF Job
  <2>2. [job EXCEPT ![j].at = "lower", ![j].marked = FALSE, ![j].outcome = "ok"] \in [Jobs -> Job]
    BY <2>1 DEF TypeOK
  <2>3. job' \in [Jobs -> Job]
    BY <1>10, <2>2, FlagTypes DEF Finishes, Done
  <2>4. job[j].marked \in BOOLEAN
    BY <1>1 DEF Job
  <2> QED BY <1>10, <2>3, <2>4 DEF Finishes, Done, TypeOK, published, watch
<1>11. CASE Fails(j)
  <2>1. [job[j] EXCEPT !.at = "lower", !.marked = FALSE, !.outcome = "failed"] \in Job
    BY <1>1 DEF Job
  <2>2. job' \in [Jobs -> Job]
    BY <1>11, <2>1 DEF Fails, TypeOK
  <2> QED BY <1>11, <2>2 DEF Fails, TypeOK, published, watch
<1>12. CASE Lowers(j)
  <2>1. [job[j] EXCEPT !.at = "unlock"] \in Job
    BY <1>1 DEF Job
  <2>2. job' \in [Jobs -> Job]
    BY <1>12, <2>1 DEF Lowers, To, TypeOK
  <2> QED BY <1>12, <2>2 DEF Lowers, TypeOK, published, watch
<1>13. CASE Unlocks(j)
  <2>1. job' \in [Jobs -> Job]
    BY <1>13, IdleTypes DEF Unlocks, TypeOK
  <2> QED BY <1>13, <2>1 DEF Unlocks, TypeOK, published, watch
<1> QED BY <1>2, <1>3, <1>4, <1>5, <1>6, <1>7, <1>8, <1>9, <1>10, <1>11, <1>12, <1>13 DEF Operating

LEMMA StartupTypes ==
  ASSUME TypeOK, Startup
  PROVE  TypeOK'
<1> USE IndexAssumption
<1>1. job["startup"] \in Job /\ file.at \in 0 .. MaxChanges /\ told \in 0 .. MaxChanges
  BY DEF TypeOK
<1>2. \A s \in {"load", "loaded", "mark", "ask", "idle"} : [job["startup"] EXCEPT !.at = s] \in Job
  BY <1>1 DEF Job
<1>3. AfterPreload \in {"ask", "idle"}
  BY DEF AfterPreload
<1>4. CASE Preload
  <2>1. job' \in [Jobs -> Job]
    BY <1>2, <1>3, <1>4 DEF Preload, To, TypeOK
  <2> QED BY <1>4, <2>1 DEF Preload, TypeOK, published, watch
<1>5. CASE LoadCompatible
  <2>1. \A s \in {"loaded", "ask", "idle"} : [job["startup"] EXCEPT !.got = file.at, !.at = s] \in Job
    BY <1>1 DEF Job
  <2>2. job' \in [Jobs -> Job]
    BY <1>3, <1>5, <2>1 DEF LoadCompatible, TypeOK
  <2> QED BY <1>5, <2>2 DEF LoadCompatible, TypeOK, published, watch
<1>6. CASE PreloadPublishes
  <2>1. job["startup"].got \in 0 .. MaxChanges
    BY <1>1 DEF Job
  <2>2. job' \in [Jobs -> Job] /\ snapshot' \in [held : BOOLEAN, at : 0 .. MaxChanges]
    BY <1>2, <1>6, <2>1 DEF PreloadPublishes, To, TypeOK
  <2> QED BY <1>6, <2>2 DEF PreloadPublishes, TypeOK, published, watch
<1>7. CASE PreloadMarks
  <2>1. [job EXCEPT !["startup"].at = AfterPreload] \in [Jobs -> Job]
    BY <1>2, <1>3 DEF TypeOK
  <2>2. job' \in [Jobs -> Job]
    BY <1>7, <2>1, FlagTypes DEF PreloadMarks, MarkStale
  <2>3. told' \in 0 .. MaxChanges
    BY <1>1, <1>7 DEF PreloadMarks, MarkStale, Later
  <2> QED BY <1>7, <2>2, <2>3 DEF PreloadMarks, MarkStale, TypeOK, published, watch
<1> QED BY <1>4, <1>5, <1>6, <1>7 DEF Startup

\* The watcher's task, the renewal and the clients.
Elsewhere ==
  \/ Edit \/ Hear \/ SignalLost \/ WatcherFails \/ Debounced \/ PeriodicSync
  \/ RenewalStarts \/ RenewalEnds \/ RebuildEnds
  \/ \E c \in Clients : Building(c)

LEMMA ElsewhereTypes ==
  ASSUME TypeOK, Elsewhere
  PROVE  TypeOK'
<1> USE IndexAssumption
<1>1. /\ seq \in 0 .. MaxChanges /\ heard \in 0 .. MaxChanges /\ told \in 0 .. MaxChanges
      /\ snapshot.at \in 0 .. MaxChanges
      /\ spent.faults \in 0 .. MaxFaults /\ spent.renewals \in 0 .. MaxRenewals
      /\ job \in [Jobs -> Job]
  BY DEF TypeOK
<1>2. \A j \in Jobs, s \in {"ask", "idle"} : [job EXCEPT ![j].at = s] \in [Jobs -> Job]
  <2>1. ASSUME NEW j \in Jobs, NEW s \in {"ask", "idle"} PROVE [job[j] EXCEPT !.at = s] \in Job
    BY <1>1 DEF Job
  <2> QED BY <1>1, <2>1
<1>3. CASE Edit
  BY <1>1, <1>3 DEF Edit, TypeOK, published, watch
<1>4. CASE Hear
  <2>1. job' \in [Jobs -> Job]
    BY <1>1, <1>4, FlagTypes DEF Hear, MarkStale
  <2>2. told' \in 0 .. MaxChanges /\ heard' \in 0 .. MaxChanges
    BY <1>1, <1>4 DEF Hear, MarkStale, Later
  <2> QED BY <1>4, <2>1, <2>2 DEF Hear, MarkStale, TypeOK
<1>5. CASE SignalLost
  BY <1>1, <1>5 DEF SignalLost, Fault, TypeOK, published
<1>6. CASE WatcherFails
  <2>1. spent' \in [faults : 0 .. MaxFaults, renewals : 0 .. MaxRenewals]
    BY <1>1, <1>6 DEF WatcherFails, Fault, TypeOK
  <2> QED BY <1>6, <2>1 DEF WatcherFails, TypeOK, published
<1>7. CASE Debounced \/ PeriodicSync
  BY <1>2, <1>7 DEF Debounced, PeriodicSync, To, TypeOK, published, watch
<1>8. CASE RenewalStarts
  BY <1>1, <1>8 DEF RenewalStarts, TypeOK, published, watch
<1>9. CASE RenewalEnds
  <2>1. job' \in [Jobs -> Job]
    BY <1>1, <1>9, FlagTypes DEF RenewalEnds
  <2> QED BY <1>9, <2>1 DEF RenewalEnds, TypeOK, published, watch
<1>10. CASE RebuildEnds
  BY <1>2, <1>10 DEF RebuildEnds, To, TypeOK, published, watch
<1>11. ASSUME NEW c \in Clients, Building(c) PROVE TypeOK'
  <2>1. client[c] \in Client
    BY DEF TypeOK
  <2>2. CASE RequestRebuild(c)
    <3>1. [at |-> "poll", queued |-> ~background, got |-> 0, owed |-> seq] \in Client
      BY <1>1 DEF Client, TypeOK
    <3>2. client' \in [Clients -> Client]
      BY <2>2, <3>1 DEF RequestRebuild, TypeOK
    <3>3. job' \in [Jobs -> Job]
      BY <1>1, <1>2, <2>2 DEF RequestRebuild, To
    <3> QED BY <2>2, <3>2, <3>3 DEF RequestRebuild, TypeOK, published, watch
  <2>3. CASE Poll(c)
    <3>1. \A s \in {"poll", "pollBackground", "quiet"} : [client[c] EXCEPT !.at = s] \in Client
      BY <2>1 DEF Client
    <3>2. client' \in [Clients -> Client]
      BY <2>3, <3>1 DEF Poll, TypeOK
    <3> QED BY <2>3, <3>2 DEF Poll, TypeOK, published, watch
  <2>4. CASE Answer(c)
    <3>1. \A s \in {"refused", "answered"} :
            [client[c] EXCEPT !.at = s, !.got = snapshot.at] \in Client
      BY <1>1, <2>1 DEF Client
    <3>2. client' \in [Clients -> Client]
      BY <2>4, <3>1 DEF Answer, TypeOK
    <3> QED BY <2>4, <3>2 DEF Answer, TypeOK, published, watch
  <2>5. CASE Return(c)
    <3>1. client' \in [Clients -> Client]
      BY <2>5, IdleTypes DEF Return, TypeOK
    <3> QED BY <2>5, <3>1 DEF Return, TypeOK, published, watch
  <2> QED BY <1>11, <2>2, <2>3, <2>4, <2>5 DEF Building
<1> QED BY <1>3, <1>4, <1>5, <1>6, <1>7, <1>8, <1>9, <1>10, <1>11 DEF Elsewhere

LEMMA NextTypes == TypeOK /\ [Next]_vars => TypeOK'
<1>1. CASE UNCHANGED vars
  BY <1>1 DEF vars, published, watch, TypeOK
<1> QED BY <1>1, OperationTypes, StartupTypes, ElsewhereTypes DEF Next, Elsewhere

LEMMA OperationKeeps ==
  ASSUME IInv, NEW j \in Jobs, Operating(j), TypeOK'
  PROVE  IInv'
<1> USE DEF published, watch
<1>1. /\ job \in [Jobs -> Job] /\ job' \in [Jobs -> Job]
      /\ seq \in Nat /\ heard \in Nat /\ told \in Nat /\ snapshot.at \in Nat /\ file.at \in Nat
      /\ \A k \in Jobs : job[k].from \in Nat /\ job[k].got \in Nat /\ job[k].owed \in Nat
      /\ \A c \in Clients : client[c].got \in Nat /\ client[c].owed \in Nat
  BY IndexAssumption DEF IInv, TypeOK, Job, Client
<1>2. CASE Ask(j)
  <2>1. Ordered' /\ MarkedIsIndexed'
    BY <1>1, <1>2 DEF Ask, IInv, Ordered, MarkedIsIndexed, StageOK
  <2>2. OneWorks'
    BY <1>1, <1>2 DEF Ask, IInv, OneWorks
  <2>3. InFlightIsShown'
    BY <1>1, <1>2 DEF Ask, IInv, OneWorks, InFlightIsShown
  <2>4. ASSUME NEW k \in Jobs PROVE StageOK(k)'
    BY <1>1, <1>2, <2>4 DEF Ask, IInv, Ordered, OneWorks, MarkedIsIndexed, StageOK
  <2>5. ASSUME NEW c \in Clients PROVE ClientOK(c)'
    BY <1>1, <1>2, <2>5 DEF Ask, IInv, Ordered, OneWorks, StageOK, ClientOK, Coming, Failed
  <2> QED BY <2>1, <2>2, <2>3, <2>4, <2>5 DEF IInv
<1>3. CASE Coalesces(j)
  <2>1. Ordered' /\ MarkedIsIndexed'
    BY <1>1, <1>3 DEF Coalesces, Coalesced, IInv, Ordered, MarkedIsIndexed, StageOK
  <2>2. OneWorks'
    BY <1>1, <1>3 DEF Coalesces, Coalesced, IInv, OneWorks
  <2>3. InFlightIsShown'
    BY <1>1, <1>3 DEF Coalesces, Coalesced, IInv, OneWorks, InFlightIsShown
  <2>4. ASSUME NEW k \in Jobs PROVE StageOK(k)'
    BY <1>1, <1>3, <2>4 DEF Coalesces, Coalesced, IInv, Ordered, OneWorks, MarkedIsIndexed, StageOK
  <2>5. ASSUME NEW c \in Clients PROVE ClientOK(c)'
    BY <1>1, <1>3, <2>5
       DEF Coalesces, Coalesced, IInv, Ordered, OneWorks, StageOK, ClientOK, Coming, Failed
  <2> QED BY <2>1, <2>2, <2>3, <2>4, <2>5 DEF IInv
<1>4. CASE Enter(j)
  <2>1. Ordered' /\ MarkedIsIndexed'
    BY <1>1, <1>4 DEF Enter, IInv, Ordered, MarkedIsIndexed, StageOK
  <2>2. OneWorks'
    BY <1>1, <1>4 DEF Enter, IInv, OneWorks
  <2>3. InFlightIsShown'
    BY <1>1, <1>4 DEF Enter, IInv, OneWorks, InFlightIsShown
  <2>4. ASSUME NEW k \in Jobs PROVE StageOK(k)'
    BY <1>1, <1>4, <2>4 DEF Enter, IInv, Ordered, OneWorks, MarkedIsIndexed, StageOK
  <2>5. ASSUME NEW c \in Clients PROVE ClientOK(c)'
    BY <1>1, <1>4, <2>5 DEF Enter, IInv, Ordered, OneWorks, StageOK, ClientOK, Coming, Failed
  <2> QED BY <2>1, <2>2, <2>3, <2>4, <2>5 DEF IInv
<1>5. CASE Sample(j)
  <2>1. Ordered' /\ MarkedIsIndexed'
    BY <1>1, <1>5 DEF Sample, IInv, Ordered, MarkedIsIndexed, StageOK
  <2>2. OneWorks'
    BY <1>1, <1>5 DEF Sample, IInv, OneWorks
  <2>3. InFlightIsShown'
    BY <1>1, <1>5 DEF Sample, IInv, OneWorks, InFlightIsShown
  <2>4. ASSUME NEW k \in Jobs PROVE StageOK(k)'
    BY <1>1, <1>5, <2>4 DEF Sample, IInv, Ordered, OneWorks, MarkedIsIndexed, StageOK
  <2>5. ASSUME NEW c \in Clients PROVE ClientOK(c)'
    BY <1>1, <1>5, <2>5 DEF Sample, IInv, Ordered, OneWorks, StageOK, ClientOK, Coming, Failed
  <2> QED BY <2>1, <2>2, <2>3, <2>4, <2>5 DEF IInv
<1>6. CASE Reuse(j)
  <2>1. Ordered' /\ MarkedIsIndexed'
    BY <1>1, <1>6 DEF Reuse, IInv, Ordered, MarkedIsIndexed, StageOK
  <2>2. OneWorks'
    BY <1>1, <1>6 DEF Reuse, IInv, OneWorks
  <2>3. InFlightIsShown'
    BY <1>1, <1>6 DEF Reuse, IInv, OneWorks, InFlightIsShown
  <2>4. ASSUME NEW k \in Jobs PROVE StageOK(k)'
    BY <1>1, <1>6, <2>4 DEF Reuse, IInv, Ordered, OneWorks, MarkedIsIndexed, StageOK
  <2>5. ASSUME NEW c \in Clients PROVE ClientOK(c)'
    BY <1>1, <1>6, <2>5 DEF Reuse, IInv, Ordered, OneWorks, StageOK, ClientOK, Coming, Failed
  <2> QED BY <2>1, <2>2, <2>3, <2>4, <2>5 DEF IInv
<1>7. CASE Build(j)
  <2>1. Ordered' /\ MarkedIsIndexed'
    BY <1>1, <1>7 DEF Build, Commit, IInv, Ordered, MarkedIsIndexed, StageOK
  <2>2. OneWorks'
    BY <1>1, <1>7 DEF Build, Commit, IInv, OneWorks
  <2>3. InFlightIsShown'
    BY <1>1, <1>7 DEF Build, Commit, IInv, OneWorks, InFlightIsShown
  <2>4. ASSUME NEW k \in Jobs PROVE StageOK(k)'
    BY <1>1, <1>7, <2>4 DEF Build, Commit, IInv, Ordered, OneWorks, MarkedIsIndexed, StageOK
  <2>5. ASSUME NEW c \in Clients PROVE ClientOK(c)'
    BY <1>1, <1>7, <2>5
       DEF Build, Commit, IInv, Ordered, OneWorks, StageOK, ClientOK, Coming, Failed
  <2> QED BY <2>1, <2>2, <2>3, <2>4, <2>5 DEF IInv
<1>8. CASE OperationFails(j)
  <2>1. Ordered' /\ MarkedIsIndexed'
    BY <1>1, <1>8 DEF OperationFails, Commit, To, IInv, Ordered, MarkedIsIndexed, StageOK
  <2>2. OneWorks'
    BY <1>1, <1>8 DEF OperationFails, Commit, To, IInv, OneWorks
  <2>3. InFlightIsShown'
    BY <1>1, <1>8 DEF OperationFails, Commit, To, IInv, OneWorks, InFlightIsShown
  <2>4. ASSUME NEW k \in Jobs PROVE StageOK(k)'
    BY <1>1, <1>8, <2>4
       DEF OperationFails, Commit, To, IInv, Ordered, OneWorks, MarkedIsIndexed, StageOK
  <2>5. ASSUME NEW c \in Clients PROVE ClientOK(c)'
    BY <1>1, <1>8, <2>5
       DEF OperationFails, Commit, To, IInv, Ordered, OneWorks, StageOK, ClientOK, Coming, Failed
  <2> QED BY <2>1, <2>2, <2>3, <2>4, <2>5 DEF IInv
<1>9. CASE Publish(j)
  <2>1. Ordered' /\ MarkedIsIndexed'
    BY <1>1, <1>9 DEF Publish, To, IInv, Ordered, MarkedIsIndexed, StageOK
  <2>2. OneWorks'
    BY <1>1, <1>9 DEF Publish, To, IInv, OneWorks
  <2>3. InFlightIsShown'
    BY <1>1, <1>9 DEF Publish, To, IInv, OneWorks, InFlightIsShown
  <2>4. ASSUME NEW k \in Jobs PROVE StageOK(k)'
    BY <1>1, <1>9, <2>4 DEF Publish, To, IInv, Ordered, OneWorks, MarkedIsIndexed, StageOK
  <2>5. ASSUME NEW c \in Clients PROVE ClientOK(c)'
    BY <1>1, <1>9, <2>5 DEF Publish, To, IInv, Ordered, OneWorks, StageOK, ClientOK, Coming, Failed
  <2> QED BY <2>1, <2>2, <2>3, <2>4, <2>5 DEF IInv
<1>10. CASE Finishes(j)
  <2>1. /\ job[j].at = "finish" /\ lastError' = FALSE /\ required' = (required /\ job[j].marked)
        /\ UNCHANGED <<seq, file, snapshot, inFlight, background, holder, heard, client, told>>
    BY <1>10 DEF Finishes, Done
  <2> DEFINE mid == [job EXCEPT ![j].at = "lower", ![j].marked = FALSE, ![j].outcome = "ok"]
  <2>2. /\ job'[j].at = "lower" /\ job'[j].outcome = "ok"
        /\ job'[j].from = job[j].from /\ job'[j].got = job[j].got /\ job'[j].owed = job[j].owed
        /\ \A k \in Jobs \ {j} : Fields(job'[k], job[k]) /\ job'[k].marked = job[k].marked
    <3>1. job' = GenerationMoves(mid)
      BY <1>10 DEF Finishes, Done
    <3>2. job[j] \in Job
      BY <1>1
    <3>3. /\ mid[j] = [job[j] EXCEPT !.at = "lower", !.marked = FALSE, !.outcome = "ok"]
          /\ \A k \in Jobs \ {j} : mid[k] = job[k]
      BY <1>1
    <3>4. mid[j] \in Job /\ mid \in [Jobs -> Job]
      BY <1>1, <3>2, <3>3 DEF Job
    <3> HIDE DEF mid
    <3>5. /\ mid[j].at = "lower" /\ mid[j].outcome = "ok"
          /\ mid[j].from = job[j].from /\ mid[j].got = job[j].got /\ mid[j].owed = job[j].owed
      BY <3>2, <3>3 DEF Job
    <3>6. \A k \in Jobs : Fields(job'[k], mid[k]) /\ job'[k].marked = mid[k].marked
      BY <3>1, <3>4, FlagsOnly
    <3>7. \A k \in Jobs \ {j} : Fields(job'[k], job[k]) /\ job'[k].marked = job[k].marked
      BY <3>3, <3>6
    <3>8. Fields(job'[j], mid[j])
      BY <3>6
    <3> QED BY <3>5, <3>7, <3>8 DEF Fields
  <2> HIDE DEF mid
  <2>3. ASSUME NEW k \in Jobs, k # j
        PROVE  /\ job'[k].at = job[k].at /\ job'[k].outcome = job[k].outcome
               /\ job'[k].marked = job[k].marked
               /\ job'[k].from = job[k].from /\ job'[k].got = job[k].got /\ job'[k].owed = job[k].owed
    BY <2>2, <2>3 DEF Fields
  <2>4. Ordered' /\ MarkedIsIndexed'
    BY <1>1, <2>1 DEF IInv, Ordered, MarkedIsIndexed, StageOK
  <2>5. OneWorks'
    BY <1>1, <2>1, <2>2, <2>3 DEF IInv, OneWorks
  <2>6. InFlightIsShown'
    BY <1>1, <2>1, <2>2, <2>3 DEF IInv, OneWorks, InFlightIsShown
  <2>7. ASSUME NEW k \in Jobs PROVE StageOK(k)'
    <3>1. CASE k = j
      BY <1>1, <2>1, <2>2, <3>1 DEF IInv, StageOK
    <3>2. CASE k # j
      BY <1>1, <2>1, <2>3, <3>2 DEF IInv, StageOK
    <3> QED BY <3>1, <3>2
  <2>8. ASSUME NEW c \in Clients PROVE ClientOK(c)'
    BY <1>1, <2>1, <2>2, <2>3, <2>8 DEF IInv, Ordered, OneWorks, StageOK, ClientOK, Coming, Failed
  <2> QED BY <2>4, <2>5, <2>6, <2>7, <2>8 DEF IInv
<1>11. CASE Fails(j)
  <2>1. Ordered' /\ MarkedIsIndexed'
    BY <1>1, <1>11 DEF Fails, IInv, Ordered, MarkedIsIndexed, StageOK
  <2>2. OneWorks'
    BY <1>1, <1>11 DEF Fails, IInv, OneWorks
  <2>3. InFlightIsShown'
    BY <1>1, <1>11 DEF Fails, IInv, OneWorks, InFlightIsShown
  <2>4. ASSUME NEW k \in Jobs PROVE StageOK(k)'
    BY <1>1, <1>11, <2>4 DEF Fails, IInv, Ordered, OneWorks, MarkedIsIndexed, StageOK
  <2>5. ASSUME NEW c \in Clients PROVE ClientOK(c)'
    BY <1>1, <1>11, <2>5 DEF Fails, IInv, Ordered, OneWorks, StageOK, ClientOK, Coming, Failed
  <2> QED BY <2>1, <2>2, <2>3, <2>4, <2>5 DEF IInv
<1>12. CASE Lowers(j)
  <2>1. Ordered' /\ MarkedIsIndexed'
    BY <1>1, <1>12 DEF Lowers, To, IInv, Ordered, MarkedIsIndexed, StageOK
  <2>2. OneWorks'
    BY <1>1, <1>12 DEF Lowers, To, IInv, OneWorks
  <2>3. InFlightIsShown'
    BY <1>1, <1>12 DEF Lowers, To, IInv, OneWorks, InFlightIsShown
  <2>4. ASSUME NEW k \in Jobs PROVE StageOK(k)'
    BY <1>1, <1>12, <2>4 DEF Lowers, To, IInv, Ordered, OneWorks, MarkedIsIndexed, StageOK
  <2>5. ASSUME NEW c \in Clients PROVE ClientOK(c)'
    BY <1>1, <1>12, <2>5 DEF Lowers, To, IInv, Ordered, OneWorks, StageOK, ClientOK, Coming, Failed
  <2> QED BY <2>1, <2>2, <2>3, <2>4, <2>5 DEF IInv
<1>13. CASE Unlocks(j)
  <2>1. Ordered' /\ MarkedIsIndexed'
    BY <1>1, <1>13 DEF Unlocks, IdleJob, IInv, Ordered, MarkedIsIndexed, StageOK
  <2>2. OneWorks'
    BY <1>1, <1>13 DEF Unlocks, IdleJob, IInv, OneWorks
  <2>3. InFlightIsShown'
    BY <1>1, <1>13 DEF Unlocks, IdleJob, IInv, OneWorks, InFlightIsShown
  <2>4. ASSUME NEW k \in Jobs PROVE StageOK(k)'
    BY <1>1, <1>13, <2>4 DEF Unlocks, IdleJob, IInv, Ordered, OneWorks, MarkedIsIndexed, StageOK
  <2>5. ASSUME NEW c \in Clients PROVE ClientOK(c)'
    BY <1>1, <1>13, <2>5
       DEF Unlocks, IdleJob, IInv, Ordered, OneWorks, StageOK, ClientOK, Coming, Failed
  <2> QED BY <2>1, <2>2, <2>3, <2>4, <2>5 DEF IInv
<1> QED BY <1>2, <1>3, <1>4, <1>5, <1>6, <1>7, <1>8, <1>9, <1>10, <1>11, <1>12, <1>13 DEF Operating


LEMMA StartupKeeps ==
  ASSUME IInv, Startup, TypeOK'
  PROVE  IInv'
<1> USE DEF published, watch
<1>1. /\ job \in [Jobs -> Job] /\ job' \in [Jobs -> Job]
      /\ seq \in Nat /\ heard \in Nat /\ told \in Nat /\ snapshot.at \in Nat /\ file.at \in Nat
      /\ \A k \in Jobs : job[k].from \in Nat /\ job[k].got \in Nat /\ job[k].owed \in Nat
      /\ \A c \in Clients : client[c].got \in Nat /\ client[c].owed \in Nat
  BY IndexAssumption DEF IInv, TypeOK, Job, Client
<1>2. AfterPreload \in {"ask", "idle"}
  BY DEF AfterPreload
<1>3. CASE Preload
  <2>1. Ordered' /\ MarkedIsIndexed'
    BY <1>1, <1>2, <1>3 DEF Preload, To, IInv, Ordered, MarkedIsIndexed, StageOK
  <2>2. OneWorks' /\ InFlightIsShown'
    BY <1>1, <1>2, <1>3 DEF Preload, To, IInv, OneWorks, InFlightIsShown
  <2>3. ASSUME NEW k \in Jobs PROVE StageOK(k)'
    BY <1>1, <1>2, <1>3, <2>3 DEF Preload, To, IInv, Ordered, OneWorks, MarkedIsIndexed, StageOK
  <2>4. ASSUME NEW c \in Clients PROVE ClientOK(c)'
    BY <1>1, <1>2, <1>3, <2>4
       DEF Preload, To, IInv, Ordered, OneWorks, StageOK, ClientOK, Coming, Failed
  <2> QED BY <2>1, <2>2, <2>3, <2>4 DEF IInv
<1>4. CASE LoadCompatible
  <2>1. Ordered' /\ MarkedIsIndexed'
    BY <1>1, <1>2, <1>4 DEF LoadCompatible, IInv, Ordered, MarkedIsIndexed, StageOK
  <2>2. OneWorks' /\ InFlightIsShown'
    BY <1>1, <1>2, <1>4 DEF LoadCompatible, IInv, OneWorks, InFlightIsShown
  <2>3. ASSUME NEW k \in Jobs PROVE StageOK(k)'
    BY <1>1, <1>2, <1>4, <2>3 DEF LoadCompatible, IInv, Ordered, OneWorks, MarkedIsIndexed, StageOK
  <2>4. ASSUME NEW c \in Clients PROVE ClientOK(c)'
    <3>1. lastError => lastError'
      BY <1>4 DEF LoadCompatible
    <3>2. /\ job["startup"].at = "load" /\ job'["startup"].at \in {"loaded", "ask", "idle"}
          /\ job'["rebuild"] = job["rebuild"] /\ job'["auto"] = job["auto"]
          /\ UNCHANGED <<seq, snapshot, client>>
      BY <1>1, <1>2, <1>4 DEF LoadCompatible
    <3> QED BY <1>1, <2>4, <3>1, <3>2 DEF IInv, ClientOK, Coming, Failed
  <2> QED BY <2>1, <2>2, <2>3, <2>4 DEF IInv
<1>5. CASE PreloadPublishes
  <2>1. Ordered' /\ MarkedIsIndexed'
    BY <1>1, <1>2, <1>5 DEF PreloadPublishes, To, IInv, Ordered, MarkedIsIndexed, StageOK
  <2>2. OneWorks' /\ InFlightIsShown'
    BY <1>1, <1>2, <1>5 DEF PreloadPublishes, To, IInv, OneWorks, InFlightIsShown
  <2>3. ASSUME NEW k \in Jobs PROVE StageOK(k)'
    BY <1>1, <1>2, <1>5, <2>3
       DEF PreloadPublishes, To, IInv, Ordered, OneWorks, MarkedIsIndexed, StageOK
  <2>4. ASSUME NEW c \in Clients PROVE ClientOK(c)'
    BY <1>1, <1>2, <1>5, <2>4
       DEF PreloadPublishes, To, IInv, Ordered, OneWorks, StageOK, ClientOK, Coming, Failed
  <2> QED BY <2>1, <2>2, <2>3, <2>4 DEF IInv
<1>6. CASE PreloadMarks
  <2> DEFINE mid == [job EXCEPT !["startup"].at = AfterPreload]
  <2>1. /\ required' = TRUE /\ told' = told
        /\ UNCHANGED <<seq, file, snapshot, lastError, inFlight, background, holder, heard, client>>
    BY <1>1, <1>6 DEF PreloadMarks, MarkStale, Later
  <2>2. /\ job["startup"].at = "mark" /\ job'["startup"].at \in {"ask", "idle"}
        /\ job'["startup"].outcome = job["startup"].outcome
        /\ job'["startup"].from = job["startup"].from /\ job'["startup"].got = job["startup"].got
        /\ job'["startup"].owed = job["startup"].owed
        /\ \A k \in Jobs \ {"startup"} :
             Fields(job'[k], job[k]) /\ (job[k].at \in Listed => job'[k].marked)
    <3>1. job' = StaleGenerationMoves(mid)
      BY <1>6 DEF PreloadMarks, MarkStale
    <3>2. job["startup"] \in Job
      BY <1>1
    <3>3. /\ mid["startup"] = [job["startup"] EXCEPT !.at = AfterPreload]
          /\ \A k \in Jobs \ {"startup"} : mid[k] = job[k]
      BY <1>1
    <3>4. mid["startup"] \in Job /\ mid \in [Jobs -> Job]
      BY <1>1, <1>2, <3>2, <3>3 DEF Job
    <3>5. /\ mid["startup"].at = AfterPreload /\ mid["startup"].outcome = job["startup"].outcome
          /\ mid["startup"].from = job["startup"].from /\ mid["startup"].got = job["startup"].got
          /\ mid["startup"].owed = job["startup"].owed
      BY <3>2, <3>3 DEF Job
    <3> HIDE DEF mid
    <3>6. \A k \in Jobs :
            Fields(job'[k], mid[k]) /\ (mid[k].at \in Listed => job'[k].marked)
      BY <3>1, <3>4, FlagsOnly
    <3>7. \A k \in Jobs \ {"startup"} :
            Fields(job'[k], job[k]) /\ (job[k].at \in Listed => job'[k].marked)
      BY <3>3, <3>6
    <3>8. Fields(job'["startup"], mid["startup"])
      BY <3>6
    <3> QED BY <1>2, <1>6, <3>5, <3>7, <3>8 DEF PreloadMarks, Fields
  <2> HIDE DEF mid
  <2>3. Ordered' /\ MarkedIsIndexed'
    BY <1>1, <1>2, <2>1, <2>2 DEF IInv, Ordered, MarkedIsIndexed, StageOK
  <2>4. OneWorks' /\ InFlightIsShown'
    BY <1>1, <1>2, <2>1, <2>2 DEF IInv, OneWorks, InFlightIsShown, Fields
  <2>5. ASSUME NEW k \in Jobs PROVE StageOK(k)'
    BY <1>1, <1>2, <2>1, <2>2, <2>5 DEF IInv, Ordered, OneWorks, MarkedIsIndexed, StageOK, Fields
  <2>6. ASSUME NEW c \in Clients PROVE ClientOK(c)'
    BY <1>1, <1>2, <2>1, <2>2, <2>6
       DEF IInv, Ordered, OneWorks, StageOK, ClientOK, Coming, Failed, Fields
  <2> QED BY <2>3, <2>4, <2>5, <2>6 DEF IInv
<1> QED BY <1>3, <1>4, <1>5, <1>6 DEF Startup

LEMMA WatcherKeeps ==
  ASSUME IInv, TypeOK',
         \/ Edit \/ Hear \/ SignalLost \/ WatcherFails \/ Debounced \/ PeriodicSync
         \/ RenewalStarts \/ RenewalEnds \/ RebuildEnds
  PROVE  IInv'
<1> USE DEF published, watch
<1>1. /\ job \in [Jobs -> Job] /\ job' \in [Jobs -> Job]
      /\ seq \in Nat /\ heard \in Nat /\ told \in Nat /\ snapshot.at \in Nat /\ file.at \in Nat
      /\ \A k \in Jobs : job[k].from \in Nat /\ job[k].got \in Nat /\ job[k].owed \in Nat
      /\ \A c \in Clients : client[c].got \in Nat /\ client[c].owed \in Nat
  BY IndexAssumption DEF IInv, TypeOK, Job, Client
<1>2. CASE Edit
  <2>1. Ordered' /\ MarkedIsIndexed'
    BY <1>1, <1>2 DEF Edit, IInv, Ordered, MarkedIsIndexed, StageOK
  <2>2. OneWorks' /\ InFlightIsShown'
    BY <1>1, <1>2 DEF Edit, IInv, OneWorks, InFlightIsShown
  <2>3. ASSUME NEW k \in Jobs PROVE StageOK(k)'
    BY <1>1, <1>2, <2>3 DEF Edit, IInv, Ordered, OneWorks, MarkedIsIndexed, StageOK
  <2>4. ASSUME NEW c \in Clients PROVE ClientOK(c)'
    BY <1>1, <1>2, <2>4 DEF Edit, IInv, Ordered, OneWorks, StageOK, ClientOK, Coming, Failed
  <2> QED BY <2>1, <2>2, <2>3, <2>4 DEF IInv
<1>3. CASE Hear
  <2>1. /\ heard < seq /\ heard' = heard + 1 /\ required' = TRUE
        /\ told' = heard + 1
        /\ UNCHANGED <<seq, file, snapshot, lastError, inFlight, background, holder, client>>
    BY <1>1, <1>3 DEF Hear, MarkStale, Later, IInv, Ordered
  <2>2. \A k \in Jobs :
          Fields(job'[k], job[k]) /\ (job[k].at \in Listed => job'[k].marked)
    <3>1. job' = StaleGenerationMoves(job)
      BY <1>3 DEF Hear, MarkStale
    <3> QED BY <1>1, <3>1, FlagsOnly
  <2>3. Ordered' /\ MarkedIsIndexed'
    BY <1>1, <2>1, <2>2 DEF IInv, Ordered, MarkedIsIndexed, StageOK
  <2>4. OneWorks' /\ InFlightIsShown'
    BY <1>1, <2>1, <2>2 DEF IInv, OneWorks, InFlightIsShown, Fields
  <2>5. ASSUME NEW k \in Jobs PROVE StageOK(k)'
    BY <1>1, <2>1, <2>2, <2>5 DEF IInv, Ordered, OneWorks, MarkedIsIndexed, StageOK, Fields
  <2>6. ASSUME NEW c \in Clients PROVE ClientOK(c)'
    BY <1>1, <2>1, <2>2, <2>6 DEF IInv, Ordered, OneWorks, StageOK, ClientOK, Coming, Failed, Fields
  <2> QED BY <2>3, <2>4, <2>5, <2>6 DEF IInv
<1>4. CASE SignalLost \/ WatcherFails
  <2>1. Ordered' /\ MarkedIsIndexed'
    BY <1>1, <1>4 DEF SignalLost, WatcherFails, IInv, Ordered, MarkedIsIndexed, StageOK
  <2>2. OneWorks' /\ InFlightIsShown'
    BY <1>1, <1>4 DEF SignalLost, WatcherFails, IInv, OneWorks, InFlightIsShown
  <2>3. ASSUME NEW k \in Jobs PROVE StageOK(k)'
    BY <1>1, <1>4, <2>3
       DEF SignalLost, WatcherFails, IInv, Ordered, OneWorks, MarkedIsIndexed, StageOK
  <2>4. ASSUME NEW c \in Clients PROVE ClientOK(c)'
    BY <1>1, <1>4, <2>4
       DEF SignalLost, WatcherFails, IInv, Ordered, OneWorks, StageOK, ClientOK, Coming, Failed
  <2> QED BY <2>1, <2>2, <2>3, <2>4 DEF IInv
<1>5. CASE Debounced \/ PeriodicSync
  <2>1. /\ job["auto"].at = "idle" /\ job' = [job EXCEPT !["auto"].at = "ask"]
        /\ UNCHANGED <<seq, file, published, inFlight, background, holder, heard, client, told>>
    BY <1>5 DEF Debounced, PeriodicSync, To, AutoIdle
  <2>2. Ordered' /\ MarkedIsIndexed'
    BY <1>1, <2>1 DEF IInv, Ordered, MarkedIsIndexed, StageOK
  <2>3. OneWorks' /\ InFlightIsShown'
    BY <1>1, <2>1 DEF IInv, OneWorks, InFlightIsShown, Fields
  <2>4. ASSUME NEW k \in Jobs PROVE StageOK(k)'
    BY <1>1, <2>1, <2>4 DEF IInv, Ordered, OneWorks, MarkedIsIndexed, StageOK, Fields
  <2>5. ASSUME NEW c \in Clients PROVE ClientOK(c)'
    BY <1>1, <2>1, <2>5 DEF IInv, Ordered, OneWorks, StageOK, ClientOK, Coming, Failed, Fields
  <2> QED BY <2>2, <2>3, <2>4, <2>5 DEF IInv
<1>6. CASE RenewalStarts
  <2>1. Ordered' /\ MarkedIsIndexed'
    BY <1>1, <1>6 DEF RenewalStarts, IInv, Ordered, MarkedIsIndexed, StageOK
  <2>2. OneWorks' /\ InFlightIsShown'
    BY <1>1, <1>6 DEF RenewalStarts, IInv, OneWorks, InFlightIsShown
  <2>3. ASSUME NEW k \in Jobs PROVE StageOK(k)'
    BY <1>1, <1>6, <2>3 DEF RenewalStarts, IInv, Ordered, OneWorks, MarkedIsIndexed, StageOK
  <2>4. ASSUME NEW c \in Clients PROVE ClientOK(c)'
    BY <1>1, <1>6, <2>4
       DEF RenewalStarts, IInv, Ordered, OneWorks, StageOK, ClientOK, Coming, Failed
  <2> QED BY <2>1, <2>2, <2>3, <2>4 DEF IInv
<1>7. CASE RenewalEnds
  <2>1. /\ holder = "renewal" /\ holder' = "none"
        /\ UNCHANGED <<seq, file, published, inFlight, background, heard, client, told>>
    BY <1>7 DEF RenewalEnds
  <2>2. \A k \in Jobs : Fields(job'[k], job[k]) /\ job'[k].marked = job[k].marked
    <3>1. CASE job' = job
      BY <3>1 DEF Fields
    <3>2. CASE job' = GenerationMoves(job)
      BY <1>1, <3>2, FlagsOnly
    <3> QED BY <1>7, <3>1, <3>2 DEF RenewalEnds
  <2>3. Ordered' /\ MarkedIsIndexed'
    BY <1>1, <2>1, <2>2 DEF IInv, Ordered, MarkedIsIndexed, StageOK
  <2>4. OneWorks' /\ InFlightIsShown'
    BY <1>1, <2>1, <2>2 DEF IInv, OneWorks, InFlightIsShown, Fields
  <2>5. ASSUME NEW k \in Jobs PROVE StageOK(k)'
    BY <1>1, <2>1, <2>2, <2>5 DEF IInv, Ordered, OneWorks, MarkedIsIndexed, StageOK, Fields
  <2>6. ASSUME NEW c \in Clients PROVE ClientOK(c)'
    BY <1>1, <2>1, <2>2, <2>6 DEF IInv, Ordered, OneWorks, StageOK, ClientOK, Coming, Failed, Fields
  <2> QED BY <2>3, <2>4, <2>5, <2>6 DEF IInv
<1>8. CASE RebuildEnds
  <2>1. Ordered' /\ MarkedIsIndexed'
    BY <1>1, <1>8 DEF RebuildEnds, To, IInv, Ordered, MarkedIsIndexed, StageOK
  <2>2. OneWorks' /\ InFlightIsShown'
    BY <1>1, <1>8 DEF RebuildEnds, To, IInv, OneWorks, InFlightIsShown
  <2>3. ASSUME NEW k \in Jobs PROVE StageOK(k)'
    BY <1>1, <1>8, <2>3 DEF RebuildEnds, To, IInv, Ordered, OneWorks, MarkedIsIndexed, StageOK
  <2>4. ASSUME NEW c \in Clients PROVE ClientOK(c)'
    BY <1>1, <1>8, <2>4
       DEF RebuildEnds, To, IInv, Ordered, OneWorks, StageOK, ClientOK, Coming, Failed
  <2> QED BY <2>1, <2>2, <2>3, <2>4 DEF IInv
<1> QED BY <1>2, <1>3, <1>4, <1>5, <1>6, <1>7, <1>8

LEMMA ClientKeeps ==
  ASSUME IInv, NEW d \in Clients, Building(d), TypeOK'
  PROVE  IInv'
<1> USE DEF published, watch
<1>1. /\ job \in [Jobs -> Job] /\ job' \in [Jobs -> Job]
      /\ seq \in Nat /\ heard \in Nat /\ told \in Nat /\ snapshot.at \in Nat /\ file.at \in Nat
      /\ \A k \in Jobs : job[k].from \in Nat /\ job[k].got \in Nat /\ job[k].owed \in Nat
      /\ \A c \in Clients : client[c].got \in Nat /\ client[c].owed \in Nat
  BY IndexAssumption DEF IInv, TypeOK, Job, Client
<1>2. CASE RequestRebuild(d)
  <2>1. /\ background' = TRUE
        /\ client' = [client EXCEPT ![d] =
             [at |-> "poll", queued |-> ~background, got |-> 0, owed |-> seq]]
        /\ UNCHANGED <<seq, file, published, inFlight, holder, heard, told>>
    BY <1>2 DEF RequestRebuild
  <2>2. CASE background
    <3>1. job' = job
      BY <1>2, <2>2 DEF RequestRebuild
    <3>2. Ordered' /\ MarkedIsIndexed' /\ OneWorks' /\ InFlightIsShown'
      BY <1>1, <2>1, <2>2, <3>1 DEF IInv, Ordered, MarkedIsIndexed, OneWorks, InFlightIsShown
    <3>3. ASSUME NEW k \in Jobs PROVE StageOK(k)'
      BY <2>1, <3>1, <3>3 DEF IInv, StageOK
    <3>4. ASSUME NEW c \in Clients PROVE ClientOK(c)'
      <4>1. CASE c = d
        <5>1. client'[d] = [at |-> "poll", queued |-> ~background, got |-> 0, owed |-> seq]
          BY <2>1 DEF IInv, TypeOK
        <5>2. (~background) = FALSE
          BY <2>2, Zenon
        <5>3. client'[d] = [at |-> "poll", queued |-> FALSE, got |-> 0, owed |-> seq]
          BY <5>1, <5>2, Zenon
        <5>4. ~client'[d].queued /\ client'[d].owed = seq /\ seq' = seq
          BY <2>1, <5>3
        <5> QED BY <1>1, <4>1, <5>4 DEF ClientOK
      <4>2. CASE c # d
        BY <1>1, <2>1, <3>1, <4>2 DEF IInv, ClientOK, Coming, Failed
      <4> QED BY <4>1, <4>2
    <3> QED BY <3>2, <3>3, <3>4 DEF IInv
  <2>3. CASE ~background
    <3>1. job' = [job EXCEPT !["rebuild"].at = "ask"] /\ job["rebuild"].at = "idle"
      BY <1>2, <2>3 DEF RequestRebuild, To, IInv, OneWorks
    <3>2. Ordered' /\ MarkedIsIndexed' /\ OneWorks' /\ InFlightIsShown'
      BY <1>1, <2>1, <2>3, <3>1 DEF IInv, Ordered, MarkedIsIndexed, OneWorks, InFlightIsShown
    <3>3. ASSUME NEW k \in Jobs PROVE StageOK(k)'
      BY <1>1, <2>1, <3>1, <3>3 DEF IInv, StageOK
    <3>4. ASSUME NEW c \in Clients PROVE ClientOK(c)'
      BY <1>1, <2>1, <2>3, <3>1, <3>4 DEF IInv, ClientOK, Coming, Failed
    <3> QED BY <3>2, <3>3, <3>4 DEF IInv
  <2> QED BY <2>2, <2>3
<1>3. CASE Poll(d)
  <2>1. Ordered' /\ MarkedIsIndexed'
    BY <1>1, <1>3 DEF Poll, IInv, Ordered, MarkedIsIndexed, StageOK
  <2>2. OneWorks' /\ InFlightIsShown'
    BY <1>1, <1>3 DEF Poll, IInv, OneWorks, InFlightIsShown
  <2>3. ASSUME NEW k \in Jobs PROVE StageOK(k)'
    BY <1>1, <1>3, <2>3 DEF Poll, IInv, Ordered, OneWorks, MarkedIsIndexed, StageOK
  <2>4. ASSUME NEW c \in Clients PROVE ClientOK(c)'
    BY <1>1, <1>3, <2>4 DEF Poll, IInv, Ordered, OneWorks, StageOK, ClientOK, Coming, Failed
  <2> QED BY <2>1, <2>2, <2>3, <2>4 DEF IInv
<1>4. CASE Answer(d)
  <2>1. Ordered' /\ MarkedIsIndexed'
    BY <1>1, <1>4 DEF Answer, IInv, Ordered, MarkedIsIndexed, StageOK
  <2>2. OneWorks' /\ InFlightIsShown'
    BY <1>1, <1>4 DEF Answer, IInv, OneWorks, InFlightIsShown
  <2>3. ASSUME NEW k \in Jobs PROVE StageOK(k)'
    BY <1>1, <1>4, <2>3 DEF Answer, IInv, Ordered, OneWorks, MarkedIsIndexed, StageOK
  <2>4. ASSUME NEW c \in Clients PROVE ClientOK(c)'
    <3>1. /\ client[d].at = "quiet" /\ client'[d].owed = client[d].owed
          /\ client'[d].queued = client[d].queued /\ client'[d].got = snapshot.at
          /\ client'[d].at \in {"refused", "answered"}
          /\ client'[d].at = "answered" => ~lastError
          /\ \A e \in Clients \ {d} : client'[e] = client[e]
          /\ UNCHANGED <<seq, snapshot, lastError, job>>
      BY <1>1, <1>4 DEF Answer, IInv, TypeOK
    <3> QED BY <1>1, <2>4, <3>1 DEF IInv, ClientOK, Coming, Failed
  <2> QED BY <2>1, <2>2, <2>3, <2>4 DEF IInv
<1>5. CASE Return(d)
  <2>1. Ordered' /\ MarkedIsIndexed'
    BY <1>1, <1>5 DEF Return, IdleClient, IInv, Ordered, MarkedIsIndexed, StageOK
  <2>2. OneWorks' /\ InFlightIsShown'
    BY <1>1, <1>5 DEF Return, IdleClient, IInv, OneWorks, InFlightIsShown
  <2>3. ASSUME NEW k \in Jobs PROVE StageOK(k)'
    BY <1>1, <1>5, <2>3 DEF Return, IdleClient, IInv, Ordered, OneWorks, MarkedIsIndexed, StageOK
  <2>4. ASSUME NEW c \in Clients PROVE ClientOK(c)'
    BY <1>1, <1>5, <2>4
       DEF Return, IdleClient, IInv, Ordered, OneWorks, StageOK, ClientOK, Coming, Failed
  <2> QED BY <2>1, <2>2, <2>3, <2>4 DEF IInv
<1> QED BY <1>2, <1>3, <1>4, <1>5 DEF Building

LEMMA NextIInv == IInv /\ [Next]_vars => IInv'
<1> SUFFICES ASSUME IInv, [Next]_vars PROVE IInv'
  OBVIOUS
<1>1. TypeOK'
  BY NextTypes DEF IInv
<1>2. CASE UNCHANGED vars
  BY <1>2 DEF vars, published, watch, IInv, TypeOK, Ordered, OneWorks, InFlightIsShown, StageOK,
              MarkedIsIndexed, ClientOK, Coming, Failed
<1> QED BY <1>1, <1>2, OperationKeeps, StartupKeeps, WatcherKeeps, ClientKeeps DEF Next

THEOREM Invariance == Spec => []IInv
<1> QED BY InitIInv, NextIInv, PTL DEF Spec

\* Every reachable state of the index of a mount is well typed.
THEOREM TypeCorrect == Spec => []TypeOK
<1>1. IInv => TypeOK
  BY DEF IInv
<1> QED BY <1>1, Invariance, PTL

\* A snapshot that is not marked stale has every change that was marked, for
\* any number of changes and failures and any interleaving of the operations.
THEOREM MarksAreAnswered == Spec => []MarkedIsIndexed
<1>1. IInv => MarkedIsIndexed
  BY DEF IInv
<1> QED BY <1>1, Invariance, PTL

\* A refresh that reports success published what was marked before it asked,
\* whether it listed the vault or took another's result.
THEOREM RefreshesAreFresh == Spec => []RefreshedSinceMarked
<1>1. IInv => RefreshedSinceMarked
  BY DEF IInv, StageOK, RefreshedSinceMarked
<1> QED BY <1>1, Invariance, PTL

\* A build_index that queued its rebuild and waited is answered with what had
\* landed when it asked, or with an error, for any number of clients.
THEOREM WaitedBuildsAreFresh == Spec => []WaitedBuildIsFresh
<1>1. IInv => WaitedBuildIsFresh
  BY DEF IInv, ClientOK, WaitedBuildIsFresh
<1> QED BY <1>1, Invariance, PTL

\* The published snapshot never loses a change it had.
THEOREM SnapshotsAdvance == Spec => NeverGoesBack
<1>1. IInv /\ [Next]_vars =>
        [snapshot' # snapshot => snapshot'.held /\ snapshot'.at >= snapshot.at]_vars
  <2> SUFFICES ASSUME IInv, [Next]_vars, snapshot' # snapshot
               PROVE  snapshot'.held /\ snapshot'.at >= snapshot.at
    OBVIOUS
  <2>1. /\ snapshot.at \in Nat /\ file.at \in Nat
        /\ \A j \in Jobs : job[j].got \in Nat
    BY IndexAssumption DEF IInv, TypeOK, Job
  <2>2. CASE PreloadPublishes
    BY <2>1, <2>2 DEF PreloadPublishes, IInv, Ordered
  <2>3. ASSUME NEW j \in Jobs, Publish(j) PROVE snapshot'.held /\ snapshot'.at >= snapshot.at
    BY <2>1, <2>3 DEF Publish, IInv, Ordered, StageOK
  <2>4. CASE UNCHANGED vars
    BY <2>4 DEF vars, published
  <2>5. CASE Preload \/ LoadCompatible \/ PreloadMarks
    BY <2>5 DEF Preload, LoadCompatible, PreloadMarks, published
  <2>6. ASSUME NEW j \in Jobs,
               \/ Ask(j) \/ Coalesces(j) \/ Enter(j) \/ Sample(j) \/ Reuse(j) \/ Build(j)
               \/ OperationFails(j) \/ Finishes(j) \/ Fails(j) \/ Lowers(j) \/ Unlocks(j)
        PROVE  snapshot' = snapshot
    BY <2>6
       DEF Ask, Coalesces, Enter, Sample, Reuse, Build, OperationFails, Finishes, Fails, Lowers,
                Unlocks, published
  <2>7. CASE Elsewhere
    BY <2>7 DEF Elsewhere, Edit, Hear, SignalLost, WatcherFails, Debounced, PeriodicSync,
                RenewalStarts, RenewalEnds, RebuildEnds, Building, RequestRebuild, Poll, Answer, Return,
                published
  <2> QED BY <2>2, <2>3, <2>4, <2>5, <2>6, <2>7 DEF Next, Startup, Operating, Elsewhere
<1> QED BY <1>1, Invariance, PTL DEF Spec, NeverGoesBack

\* refresh_in_flight is up exactly while an operation works.
THEOREM FlightIsShown == Spec => []InFlightIsShown
<1>1. IInv => InFlightIsShown
  BY DEF IInv
<1> QED BY <1>1, Invariance, PTL

----------------------------------------------------------------------------
(***************************************************************************)
(* The OAuth authority.  What the maps s hold at the time t when grants up *)
(* to a and answers up to n were given.  A grant is at one place at a      *)
(* time: on a consent page, in a code, or begun, and then it has one       *)
(* family or only tokens without one.                                      *)
(***************************************************************************)

\* A page and a code are of a grant of their own that has begun nothing.
PagesOK(s, reg, gone, a) ==
  /\ \A p \in s.pending \cup s.codes :
       /\ p.grant <= a /\ reg[p.client] # "none" /\ p.grant \notin gone
       /\ \A f \in s.families : f.grant # p.grant
       /\ \A x \in s.tokens : x.grant # p.grant
  /\ \A p, q \in s.pending : p.grant = q.grant => p = q
  /\ \A p, q \in s.codes : p.grant = q.grant => p = q
  /\ \A p \in s.pending, q \in s.codes : p.grant # q.grant

FamiliesOK(s, reg, ttl, start, gone, n, a) ==
  /\ \A f, g \in s.families : f.id = g.id \/ f.grant = g.grant => f = g
  /\ \A f \in s.families :
       /\ f.id <= n /\ f.grant <= a /\ reg[f.client] # "none"
       /\ f.grant \notin gone /\ f.expires = start[f.grant] + ttl

\* A token of a family is of that family's grant, one of none of a grant
\* without family.
TokensOK(s, start, gone, n, a) ==
  \A x \in s.tokens :
    /\ x.grant <= a /\ x.family <= n
    /\ \A f \in s.families : f.grant = x.grant <=> f.id = x.family
    /\ x.family = 0 => x.grant \notin gone /\ x.expires <= start[x.grant] + 1 + Ttl

\* What an answer g said is there, as long as it has to be.
AccessKept(s, g) ==
  \E x \in s.tokens :
    /\ x.id = g.id /\ x.grant = g.grant /\ x.expires = g.until
    /\ x.family = 0 \/ \E f \in s.families : f.id = x.family /\ f.expires >= x.expires
RefreshKept(s, g) ==
  \E f \in s.families :
    /\ f.current = g.id /\ f.grant = g.grant /\ f.expires = g.until
    /\ [id |-> g.id, family |-> f.id] \in s.refresh
Kept(s, g) == (g.kind = "access" /\ AccessKept(s, g)) \/ (g.kind = "refresh" /\ RefreshKept(s, g))

PromisesOK(s, t, gone, said) ==
  \A g \in said : g.grant \notin gone /\ t < g.until => Kept(s, g)

Sound(s, t, reg, ttl, start, gone, said, n, a) ==
  /\ PagesOK(s, reg, gone, a)
  /\ FamiliesOK(s, reg, ttl, start, gone, n, a)
  /\ TokensOK(s, start, gone, n, a)
  /\ PromisesOK(s, t, gone, said)
  /\ \A g \in gone : g <= a

Types ==
  /\ now \in 0 .. MaxTime
  /\ clients \in [ClientIds -> {"none", "code", "refresh"}] /\ refreshTtl \in RefreshTtls
  /\ store \in Store
  /\ asked \in 0 .. MaxRequests /\ issued \in 0 .. MaxIssues
  /\ given \subseteq [kind : {"access", "refresh"}, id : Issues, grant : Grants, until : Nat]
  /\ began \in [Grants -> Nat] /\ replayed \subseteq Grants

GrantsInv == Types /\ Sound(store, now, clients, refreshTtl, began, replayed, given, issued, asked)

LEMMA Numbers ==
  /\ \A g \in Grants : g \in Nat \ {0}
  /\ \A i \in Issues : i \in Nat \ {0}
  /\ Ttl \in Nat \ {0} /\ CodeTtl \in Nat \ {0} /\ RefreshTtls \subseteq Nat
  /\ MaxTime \in Nat /\ MaxRequests \in Nat /\ MaxIssues \in Nat
BY OAuthAssumption DEF Grants, Issues

\* What is dropped from the maps takes only promises with it.
LEMMA LessIsSound ==
  ASSUME NEW s \in Store, NEW d \in Store, NEW t, NEW reg, NEW ttl, NEW start, NEW gone, NEW said, NEW n, NEW a,
         Sound(s, t, reg, ttl, start, gone, said, n, a),
         d.pending \subseteq s.pending, d.codes \subseteq s.codes,
         d.families \subseteq s.families, d.tokens \subseteq s.tokens,
         PromisesOK(d, t, gone, said)
  PROVE  Sound(d, t, reg, ttl, start, gone, said, n, a)
<1>1. PagesOK(d, reg, gone, a)
  <2>1. PagesOK(s, reg, gone, a)
    BY DEF Sound
  <2>2. \A p \in d.pending \cup d.codes : p \in s.pending \cup s.codes
    OBVIOUS
  <2> QED BY <2>1, <2>2 DEF PagesOK
<1>2. FamiliesOK(d, reg, ttl, start, gone, n, a)
  BY DEF Sound, FamiliesOK
<1>3. TokensOK(d, start, gone, n, a)
  BY DEF Sound, TokensOK
<1> QED BY <1>1, <1>2, <1>3 DEF Sound

\* prune takes nothing that was promised beyond now.
LEMMA PrunedIsSound ==
  ASSUME GrantsInv
  PROVE  /\ Pruned \in Store /\ Sound(Pruned, now, clients, refreshTtl, began, replayed, given, issued, asked)
         /\ Pruned.pending \subseteq store.pending /\ Pruned.codes \subseteq store.codes
         /\ Pruned.families = {f \in store.families : f.expires > now}
         /\ Pruned.tokens = {x \in store.tokens : x.expires > now /\ (x.family = 0 \/ \E f \in Pruned.families : f.id = x.family)}
         /\ Pruned.refresh = {r \in store.refresh : \E f \in Pruned.families : f.id = r.family}
<1> PICK s : s = store
  OBVIOUS
<1> PICK d : d = Pruned
  OBVIOUS
<1>0. s \in Store /\ Sound(s, now, clients, refreshTtl, began, replayed, given, issued, asked) /\ now \in Nat
  BY Numbers DEF GrantsInv, Types
<1>1. d.families = {f \in s.families : f.expires > now}
  <2>1. \A f \in s.families : clients[f.client] # "none"
    BY <1>0 DEF Sound, FamiliesOK
  <2>2. d.families = {f \in {x \in s.families : x.expires > now} : clients[f.client] # "none"}
    BY DEF Pruned
  <2> QED BY <2>1, <2>2
<1>2. /\ d.pending = {p \in s.pending : p.expires > now} /\ d.codes = {p \in s.codes : p.expires > now}
      /\ DOMAIN d = {"pending", "codes", "tokens", "families", "refresh"}
  BY DEF Pruned
<1>3. d.tokens = {x \in s.tokens : x.expires > now /\ (x.family = 0 \/ \E f \in d.families : f.id = x.family)}
  <2>1. d.tokens = {x \in {y \in s.tokens : y.expires > now} : x.family \in {0} \cup {f.id : f \in d.families}}
    BY DEF Pruned
  <2>2. \A x : x.family \in {0} \cup {f.id : f \in d.families} <=> (x.family = 0 \/ \E f \in d.families : f.id = x.family)
    OBVIOUS
  <2> QED BY <2>1, <2>2
<1>4. d.refresh = {r \in s.refresh : \E f \in d.families : f.id = r.family}
  <2>1. d.refresh = {r \in s.refresh : r.family \in {f.id : f \in d.families}}
    BY DEF Pruned
  <2>2. \A r : r.family \in {f.id : f \in d.families} <=> \E f \in d.families : f.id = r.family
    OBVIOUS
  <2> QED BY <2>1, <2>2
<1>5. d \in Store
  <2>1. d = [pending |-> d.pending, codes |-> d.codes, families |-> d.families, refresh |-> d.refresh, tokens |-> d.tokens]
    BY DEF Pruned
  <2>2. /\ d.pending \subseteq s.pending /\ d.codes \subseteq s.codes /\ d.tokens \subseteq s.tokens
        /\ d.families \subseteq s.families /\ d.refresh \subseteq s.refresh
    BY <1>1, <1>2, <1>3, <1>4
  <2>3. /\ s.pending \in SUBSET Page /\ s.codes \in SUBSET Page /\ s.tokens \in SUBSET AccessToken
        /\ s.families \in SUBSET Family /\ s.refresh \in SUBSET RefreshToken
    BY <1>0 DEF Store
  <2> QED BY <2>1, <2>2, <2>3 DEF Store
<1>6. PromisesOK(d, now, replayed, given)
  <2> SUFFICES ASSUME NEW g \in given, g.grant \notin replayed, now < g.until PROVE Kept(d, g)
    BY DEF PromisesOK
  <2>0. Kept(s, g)
    BY <1>0 DEF Sound, PromisesOK
  <2>1. g.until \in Nat
    BY DEF GrantsInv, Types
  <2>2. CASE g.kind = "access" /\ AccessKept(s, g)
    <3>1. PICK x \in s.tokens :
            /\ x.id = g.id /\ x.grant = g.grant /\ x.expires = g.until
            /\ x.family = 0 \/ \E f \in s.families : f.id = x.family /\ f.expires >= x.expires
      BY <2>2 DEF AccessKept
    <3>2. \A f \in s.families : f.expires \in Nat
      BY <1>0 DEF Store, Family
    <3>3. \A f \in s.families : f.expires >= x.expires => f \in d.families
      BY <1>0, <1>1, <2>1, <3>1, <3>2
    <3>4. x \in d.tokens /\ (x.family = 0 \/ \E f \in d.families : f.id = x.family /\ f.expires >= x.expires)
      BY <1>3, <3>1, <3>3
    <3> QED BY <2>2, <3>1, <3>4 DEF Kept, AccessKept
  <2>3. CASE g.kind = "refresh" /\ RefreshKept(s, g)
    <3>1. PICK f \in s.families :
            /\ f.current = g.id /\ f.grant = g.grant /\ f.expires = g.until
            /\ [id |-> g.id, family |-> f.id] \in s.refresh
      BY <2>3 DEF RefreshKept
    <3>2. f \in d.families
      BY <1>0, <1>1, <2>1, <3>1
    <3>3. [id |-> g.id, family |-> f.id] \in d.refresh
      BY <1>4, <3>1, <3>2
    <3> QED BY <2>3, <3>1, <3>2, <3>3 DEF Kept, RefreshKept
  <2> QED BY <2>0, <2>2, <2>3 DEF Kept
<1>7. Sound(d, now, clients, refreshTtl, began, replayed, given, issued, asked)
  BY <1>0, <1>1, <1>2, <1>3, <1>5, <1>6, LessIsSound
<1> QED BY <1>1, <1>2, <1>3, <1>4, <1>5, <1>7

LEMMA MinOfTwo ==
  ASSUME NEW a \in Nat, NEW X \in SUBSET Nat, \A x, y \in X : x = y
  PROVE  /\ Min({a} \cup X) \in {a} \cup X
         /\ \A y \in {a} \cup X : Min({a} \cup X) <= y
<1>1. \E x \in {a} \cup X : \A y \in {a} \cup X : x <= y
  <2>1. CASE X = {}
    BY <2>1
  <2>2. ASSUME NEW x \in X PROVE \E z \in {a} \cup X : \A y \in {a} \cup X : z <= y
    <3>1. \A y \in {a} \cup X : y = a \/ y = x
      BY <2>2
    <3>2. a \in Nat /\ x \in Nat
      BY <2>2
    <3>3. CASE a <= x
      BY <3>1, <3>2, <3>3
    <3>4. CASE x <= a
      BY <3>1, <3>2, <3>4
    <3> QED BY <3>2, <3>3, <3>4
  <2> QED BY <2>1, <2>2
<1>2. Min({a} \cup X) = CHOOSE x \in {a} \cup X : \A y \in {a} \cup X : x <= y
  BY DEF Min
<1> DEFINE P(x) == x \in {a} \cup X /\ \A y \in {a} \cup X : x <= y
<1>3. \E x : P(x)
  BY <1>1
<1>4. P(CHOOSE x : P(x))
  BY <1>3
<1> QED BY <1>2, <1>4

\* The lifetime of an access token ends with its family, and is over at once
\* only when the family's is.
LEMMA LifetimeEnds ==
  ASSUME NEW s \in Store, NEW family, NEW at \in Nat, \A f, g \in s.families : f.id = g.id => f = g
  PROVE  /\ Lifetime(s, family, at) \in 0 .. Ttl
         /\ \A f \in s.families : f.id = family => IF Lifetime(s, family, at) = 0 THEN f.expires <= at
                                                   ELSE at + Lifetime(s, family, at) <= f.expires
         /\ (\A f \in s.families : f.id # family) => Lifetime(s, family, at) = Ttl
<1> DEFINE left(f) == IF f.expires > at THEN f.expires - at ELSE 0
           X == {left(f) : f \in {g \in s.families : g.id = family}}
<1>1. \A f \in s.families : f.expires \in Nat
  BY DEF Store, Family
<1>2. \A f \in s.families : left(f) \in Nat
  BY <1>1
<1>3. X \in SUBSET Nat /\ (\A x, y \in X : x = y)
  BY <1>2
<1>4. Lifetime(s, family, at) = Min({Ttl} \cup X)
  BY DEF Lifetime
<1>5. PICK m : m = Lifetime(s, family, at)
  OBVIOUS
<1>6. Ttl \in Nat
  BY OAuthAssumption
<1>7. m \in {Ttl} \cup X /\ \A y \in {Ttl} \cup X : m <= y
  <2> HIDE DEF X
  <2>1. Min({Ttl} \cup X) \in {Ttl} \cup X /\ \A y \in {Ttl} \cup X : Min({Ttl} \cup X) <= y
    BY <1>3, <1>6, MinOfTwo, Zenon
  <2> QED BY <1>4, <1>5, <2>1, Zenon
<1>8. m \in 0 .. Ttl
  BY <1>3, <1>6, <1>7
<1>9. ASSUME NEW f \in s.families, f.id = family PROVE IF m = 0 THEN f.expires <= at ELSE at + m <= f.expires
  <2>1. left(f) \in X
    BY <1>9
  <2>2. m = Ttl \/ m = left(f)
    <3>1. \A x \in X : x = left(f)
      BY <1>3, <2>1
    <3> QED BY <1>7, <3>1
  <2>3. m <= left(f) /\ Ttl # 0
    BY <1>7, <2>1, OAuthAssumption
  <2>4. f.expires \in Nat /\ m \in Nat
    BY <1>1, <1>8, <1>6
  <2> QED BY <2>2, <2>3, <2>4, <1>6
<1>10. (\A f \in s.families : f.id # family) => m = Ttl
  BY <1>7
<1> QED BY <1>5, <1>8, <1>9, <1>10

\* revoke_family, once the grant is spent or its time has passed.
LEMMA RevokedIsSound ==
  ASSUME NEW s \in Store, NEW t \in Nat, NEW reg, NEW ttl, NEW start, NEW gone, NEW said, NEW n, NEW a,
         Sound(s, t, reg, ttl, start, gone, said, n, a),
         NEW family \in Issues, NEW gone2, NEW t2 \in Nat, t <= t2, gone \subseteq gone2,
         \A g \in said : g.until \in Nat,
         \A g \in gone2 \ gone : g <= a /\ \E f \in s.families : f.id = family /\ f.grant = g,
         \A f \in s.families : f.id = family => f.expires <= t2 \/ f.grant \in gone2
  PROVE  /\ Revoked(s, family) \in Store
         /\ Sound(Revoked(s, family), t2, reg, ttl, start, gone2, said, n, a)
<1> PICK d : d = Revoked(s, family)
  OBVIOUS
<1>1. /\ d.pending = s.pending /\ d.codes = s.codes
      /\ d.families = {f \in s.families : f.id # family}
      /\ d.refresh = {r \in s.refresh : r.family # family}
      /\ d.tokens = {x \in s.tokens : x.family # family}
      /\ d \in Store
  BY DEF Revoked, Store
<1>2. \A f \in s.families : f.expires \in Nat /\ f.id \in Nat
  BY DEF Store, Family, Issues
<1>3. \A g \in gone2 : g <= a
  BY DEF Sound
<1>4. PagesOK(d, reg, gone2, a)
  BY <1>1 DEF Sound, PagesOK
<1>5. FamiliesOK(d, reg, ttl, start, gone2, n, a)
  BY <1>1 DEF Sound, FamiliesOK
<1>6. TokensOK(d, start, gone2, n, a)
  <2>1. TokensOK(s, start, gone, n, a)
    BY DEF Sound
  <2>2. ASSUME NEW x \in d.tokens, x.family = 0 PROVE x.grant \notin gone2
    <3>1. x \in s.tokens /\ x.grant \notin gone
      BY <1>1, <2>1, <2>2 DEF TokensOK
    <3>2. family # 0
      BY DEF Issues
    <3>3. \A f \in s.families : f.id = family => f.grant # x.grant
      BY <2>1, <2>2, <3>1, <3>2 DEF TokensOK
    <3> QED BY <3>1, <3>3
  <2> QED BY <1>1, <2>1, <2>2 DEF TokensOK
<1>7. PromisesOK(d, t2, gone2, said)
  <2> SUFFICES ASSUME NEW g \in said, g.grant \notin gone2, t2 < g.until PROVE Kept(d, g)
    BY DEF PromisesOK
  <2>0. Kept(s, g)
    BY DEF Sound, PromisesOK
  <2>1. g.until \in Nat
    OBVIOUS
  <2>2. CASE g.kind = "access" /\ AccessKept(s, g)
    <3>1. PICK x \in s.tokens :
            /\ x.id = g.id /\ x.grant = g.grant /\ x.expires = g.until
            /\ x.family = 0 \/ \E f \in s.families : f.id = x.family /\ f.expires >= x.expires
      BY <2>2 DEF AccessKept
    <3>2. CASE x.family = 0
      <4>1. x \in d.tokens
        BY <1>1, <3>2 DEF Issues
      <4> QED BY <2>2, <3>1, <3>2, <4>1 DEF Kept, AccessKept
    <3>3. ASSUME NEW f \in s.families, f.id = x.family, f.expires >= x.expires PROVE Kept(d, g)
      <4>1. f.grant = x.grant
        BY <3>3 DEF Sound, TokensOK
      <4>2. ~ (f.expires <= t2)
        BY <1>2, <2>1, <3>1, <3>3
      <4>3. f.id # family
        BY <3>1, <4>1, <4>2
      <4>4. x \in d.tokens /\ f \in d.families
        BY <1>1, <3>3, <4>3
      <4> QED BY <2>2, <3>1, <3>3, <4>4 DEF Kept, AccessKept
    <3> QED BY <3>1, <3>2, <3>3
  <2>3. CASE g.kind = "refresh" /\ RefreshKept(s, g)
    <3>1. PICK f \in s.families :
            /\ f.current = g.id /\ f.grant = g.grant /\ f.expires = g.until
            /\ [id |-> g.id, family |-> f.id] \in s.refresh
      BY <2>3 DEF RefreshKept
    <3>2. ~ (f.expires <= t2)
      BY <1>2, <2>1, <3>1
    <3>3. f.id # family
      BY <3>1, <3>2
    <3>4. f \in d.families /\ [id |-> g.id, family |-> f.id] \in d.refresh
      BY <1>1, <3>1, <3>3
    <3> QED BY <2>3, <3>1, <3>4 DEF Kept, RefreshKept
  <2> QED BY <2>0, <2>2, <2>3 DEF Kept
<1> QED BY <1>1, <1>3, <1>4, <1>5, <1>6, <1>7 DEF Sound

\* issue_tokens: the grant of the answer is on no page and in no code; it has the
\* family, or no token at all.  The answer's number may be that of a new family.
LEMMA IssueIsSound ==
  ASSUME Types, NEW s \in Store, NEW grant \in Grants, NEW family \in {0} \cup Issues, NEW start \in [Grants -> Nat],
         Issue(s, grant, family), issued < MaxIssues,
         Sound(s, now, clients, refreshTtl, start, replayed, given, issued + 1, asked),
         \A f \in s.families : f.id <= issued \/ f.id = family,
         \A x \in s.tokens : x.family <= issued /\ x.family # issued + 1,
         grant <= asked, grant \notin replayed,
         \A p \in s.pending \cup s.codes : p.grant # grant,
         IF family = 0 THEN (\A f \in s.families : f.grant # grant) /\ start[grant] = now
                       ELSE \E f \in s.families : f.id = family /\ f.grant = grant
  PROVE  /\ now' \in 0 .. MaxTime /\ store' \in Store /\ issued' \in 0 .. MaxIssues
         /\ given' \subseteq [kind : {"access", "refresh"}, id : Issues, grant : Grants, until : Nat]
         /\ Sound(store', now', clients, refreshTtl, start, replayed, given', issued', asked)
<1> DEFINE n == issued + 1
<1>0. /\ now \in Nat /\ issued \in Nat /\ n \in Issues /\ n \in Nat /\ asked \in Nat /\ MaxTime \in Nat
      /\ Ttl \in Nat \ {0} /\ family \in Nat /\ now <= MaxTime
  BY OAuthAssumption DEF Types, Issues
<1>1. PICK at \in now .. Min({now + 1, MaxTime}) :
        /\ now' = at
        /\ LET ends == at + Lifetime(s, family, at)
               own == {f \in s.families : f.id = family}
           IN  IF ends = at THEN /\ store' = Revoked(s, family)
                                 /\ UNCHANGED <<issued, given>>
               ELSE /\ issued' = n
                    /\ store' = [s EXCEPT !.tokens = @ \cup {[id |-> n, grant |-> grant, family |-> family, expires |-> ends]},
                                          !.families = (@ \ own) \cup {[f EXCEPT !.current = n] : f \in own},
                                          !.refresh = @ \cup {[id |-> n, family |-> family] : f \in own}]
                    /\ given' = {g \in given : g.grant # grant \/ g.kind # "refresh"}
                                  \cup {[kind |-> "access", id |-> n, grant |-> grant, until |-> ends]}
                                  \cup {[kind |-> "refresh", id |-> n, grant |-> grant, until |-> f.expires] : f \in own}
  BY DEF Issue
<1>2. at \in 0 .. MaxTime /\ at \in Nat /\ now <= at /\ at <= now + 1
  <2>1. Min({now + 1} \cup {MaxTime}) \in {now + 1, MaxTime} /\ Min({now + 1} \cup {MaxTime}) <= now + 1
        /\ Min({now + 1} \cup {MaxTime}) <= MaxTime
    <3>1. now + 1 \in Nat /\ {MaxTime} \in SUBSET Nat /\ \A x, y \in {MaxTime} : x = y
      BY <1>0
    <3>2. Min({now + 1} \cup {MaxTime}) \in {now + 1} \cup {MaxTime}
          /\ \A y \in {now + 1} \cup {MaxTime} : Min({now + 1} \cup {MaxTime}) <= y
      BY <3>1, MinOfTwo, Zenon
    <3> QED BY <3>2
  <2>2. {now + 1} \cup {MaxTime} = {now + 1, MaxTime}
    OBVIOUS
  <2>3. PICK m : m = Min({now + 1, MaxTime})
    OBVIOUS
  <2>4. m \in {now + 1, MaxTime} /\ m <= now + 1 /\ m <= MaxTime /\ at \in now .. m
    BY <2>1, <2>2, <2>3, Zenon
  <2> QED BY <1>0, <2>4
<1>3. FamiliesOK(s, clients, refreshTtl, start, replayed, n, asked) /\ TokensOK(s, start, replayed, n, asked)
      /\ PagesOK(s, clients, replayed, asked) /\ PromisesOK(s, now, replayed, given) /\ \A g \in replayed : g <= asked
  BY DEF Sound
<1>10. Sound(s, now, clients, refreshTtl, start, replayed, given, n, asked)
  OBVIOUS
<1> HIDE DEF n
<1> PICK left : left = Lifetime(s, family, at)
  OBVIOUS
<1> DEFINE ends == at + left
           own == {f \in s.families : f.id = family}
<1>4. /\ \A f \in s.families : f \in Family /\ f.id \in Nat \ {0} /\ f.expires \in Nat
      /\ \A x \in s.tokens : x \in AccessToken /\ x.family \in Nat /\ x.expires \in Nat
      /\ \A f, g \in s.families : f.id = g.id => f = g
      /\ \A g \in given : g.until \in Nat
  BY <1>3 DEF Store, Family, AccessToken, Issues, FamiliesOK, Types
<1>5. /\ left \in 0 .. Ttl
      /\ \A f \in s.families : f.id = family => IF left = 0 THEN f.expires <= at ELSE ends <= f.expires
      /\ (\A f \in s.families : f.id # family) => left = Ttl
  BY <1>2, <1>4, LifetimeEnds
<1>6. family = 0 => own = {} /\ left = Ttl
  BY <1>4, <1>5
<1>7. ends = at <=> left = 0
  BY <1>2, <1>5, <1>0
<1>8. CASE left = 0
  <2>1. store' = Revoked(s, family) /\ issued' = issued /\ given' = given
    BY <1>1, <1>7, <1>8
  <2>2. family # 0 /\ family \in Issues
    BY <1>6, <1>8, <1>0
  <2>3. /\ Revoked(s, family) \in Store
        /\ Sound(Revoked(s, family), at, clients, refreshTtl, start, replayed, given, n, asked)
    <3>1. \A f \in s.families : f.id = family => f.expires <= at \/ f.grant \in replayed
      BY <1>5, <1>8
    <3> QED BY <1>0, <1>2, <1>4, <1>10, <2>2, <3>1, RevokedIsSound
  <2>4. PICK d : d = Revoked(s, family)
    OBVIOUS
  <2>5. (\A f \in d.families : f.id <= issued) /\ (\A x \in d.tokens : x.family <= issued)
    BY <2>4 DEF Revoked
  <2>6. Sound(d, at, clients, refreshTtl, start, replayed, given, n, asked)
    BY <2>3, <2>4
  <2>7. FamiliesOK(d, clients, refreshTtl, start, replayed, issued, asked)
    BY <2>5, <2>6 DEF Sound, FamiliesOK
  <2>8. TokensOK(d, start, replayed, issued, asked)
    BY <2>5, <2>6 DEF Sound, TokensOK
  <2>9. Sound(d, at, clients, refreshTtl, start, replayed, given, issued, asked)
    BY <2>6, <2>7, <2>8 DEF Sound
  <2> QED BY <1>1, <1>2, <2>1, <2>3, <2>4, <2>9 DEF Types
<1>9. CASE left # 0
  <2> DEFINE new == [id |-> n, grant |-> grant, family |-> family, expires |-> ends]
             again(f) == [f EXCEPT !.current = n]
  <2>1. /\ issued' = n
        /\ store' = [s EXCEPT !.tokens = @ \cup {new}, !.families = (@ \ own) \cup {again(f) : f \in own},
                              !.refresh = @ \cup {[id |-> n, family |-> family] : f \in own}]
        /\ given' = {g \in given : g.grant # grant \/ g.kind # "refresh"}
                      \cup {[kind |-> "access", id |-> n, grant |-> grant, until |-> ends]}
                      \cup {[kind |-> "refresh", id |-> n, grant |-> grant, until |-> f.expires] : f \in own}
    BY <1>1, <1>7, <1>9
  <2>2. PICK d : d = store'
    OBVIOUS
  <2>3. PICK said : said = given'
    OBVIOUS
  <2>4. ends \in Nat /\ at < ends /\ ends <= at + Ttl
    BY <1>0, <1>2, <1>5, <1>9
  <2>5. \A f \in own : /\ again(f) \in Family /\ again(f).id = f.id /\ again(f).grant = f.grant
                       /\ again(f).client = f.client /\ again(f).expires = f.expires /\ again(f).current = n
    BY <1>0, <1>4 DEF Family
  <2>6. new \in AccessToken /\ new.id = n /\ new.grant = grant /\ new.family = family /\ new.expires = ends
    BY <1>0, <2>4 DEF AccessToken
  <2>7. own = {} \/ (family # 0 /\ \E f \in s.families : own = {f} /\ f.id = family /\ f.grant = grant /\ ends <= f.expires)
    <3>1. CASE family = 0
      BY <1>6, <3>1
    <3>2. CASE family # 0
      <4>1. PICK f \in s.families : f.id = family /\ f.grant = grant
        BY <3>2
      <4>2. own = {f}
        BY <1>4, <4>1
      <4> QED BY <1>5, <1>9, <3>2, <4>1, <4>2
    <3> QED BY <3>1, <3>2
  <2>8. /\ d.pending = s.pending /\ d.codes = s.codes /\ d.tokens = s.tokens \cup {new}
        /\ d.families = (s.families \ own) \cup {again(f) : f \in own}
        /\ d.refresh = s.refresh \cup {[id |-> n, family |-> family] : f \in own}
    BY <2>1, <2>2 DEF Store
  <2>9. d \in Store
    <3>1. d = [pending |-> d.pending, codes |-> d.codes, tokens |-> d.tokens, families |-> d.families, refresh |-> d.refresh]
      BY <2>1, <2>2 DEF Store
    <3>2. d.tokens \in SUBSET AccessToken /\ d.families \in SUBSET Family
      BY <2>5, <2>6, <2>8 DEF Store
    <3>3. \A f \in own : [id |-> n, family |-> family] \in RefreshToken
      BY <1>0, <1>6 DEF RefreshToken
    <3>4. d.refresh \in SUBSET RefreshToken /\ d.pending \in SUBSET Page /\ d.codes \in SUBSET Page
      BY <2>8, <3>3 DEF Store
    <3> QED BY <3>1, <3>2, <3>4 DEF Store
  \* Every family of before is there, with the same times; and no other.
  <2>10. \A f \in s.families : \E h \in d.families :
            h.id = f.id /\ h.grant = f.grant /\ h.expires = f.expires /\ (f.grant # grant => h = f)
    <3> SUFFICES ASSUME NEW f \in s.families PROVE \E h \in d.families :
            h.id = f.id /\ h.grant = f.grant /\ h.expires = f.expires /\ (f.grant # grant => h = f)
      OBVIOUS
    <3>1. CASE f \in own
      <4>1. again(f) \in d.families
        BY <2>8, <3>1
      <4>2. again(f).id = f.id /\ again(f).grant = f.grant /\ again(f).expires = f.expires
        BY <2>5, <3>1
      <4>3. f.grant = grant
        BY <2>7, <3>1
      <4> HIDE DEF again
      <4> QED BY <4>1, <4>2, <4>3
    <3>2. CASE f \notin own
      BY <2>8, <3>2
    <3> QED BY <3>1, <3>2
  <2>11. \A h \in d.families : \E f \in s.families :
            h.id = f.id /\ h.grant = f.grant /\ h.expires = f.expires /\ h.client = f.client /\ (h = f \/ h.current = n)
              /\ ((h = again(f) /\ f \in own) \/ (h = f /\ f \notin own))
    <3> SUFFICES ASSUME NEW h \in d.families
                 PROVE  \E f \in s.families :
            h.id = f.id /\ h.grant = f.grant /\ h.expires = f.expires /\ h.client = f.client /\ (h = f \/ h.current = n)
              /\ ((h = again(f) /\ f \in own) \/ (h = f /\ f \notin own))
      OBVIOUS
    <3>1. CASE h \in s.families \ own
      BY <3>1
    <3>2. ASSUME NEW f \in own, h = again(f)
          PROVE  h.id = f.id /\ h.grant = f.grant /\ h.expires = f.expires /\ h.client = f.client /\ h.current = n
      BY <2>5, <3>2, Zenon
    <3>3. (h \in s.families \ own) \/ \E f \in own : h = again(f)
      BY <2>8
    <3> HIDE DEF again
    <3> QED BY <3>1, <3>2, <3>3
  <2>12. PagesOK(d, clients, replayed, asked)
    <3>1. \A p \in d.pending \cup d.codes : (\A h \in d.families : h.grant # p.grant) /\ (\A x \in d.tokens : x.grant # p.grant)
      BY <1>3, <2>6, <2>8, <2>11 DEF PagesOK
    <3> QED BY <1>3, <2>8, <3>1 DEF PagesOK
  <2>13. FamiliesOK(d, clients, refreshTtl, start, replayed, n, asked)
    <3>1. \A h, k \in d.families : h.id = k.id \/ h.grant = k.grant => h = k
      <4> SUFFICES ASSUME NEW h \in d.families, NEW k \in d.families, h.id = k.id \/ h.grant = k.grant PROVE h = k
        OBVIOUS
      <4>1. PICK f \in s.families : h.id = f.id /\ h.grant = f.grant /\ ((h = again(f) /\ f \in own) \/ (h = f /\ f \notin own))
        BY <2>11
      <4>2. PICK g \in s.families : k.id = g.id /\ k.grant = g.grant /\ ((k = again(g) /\ g \in own) \/ (k = g /\ g \notin own))
        BY <2>11
      <4>3. f = g
        BY <1>3, <4>1, <4>2 DEF FamiliesOK
      <4> QED BY <4>1, <4>2, <4>3
    <3>2. \A h \in d.families : h.id <= n /\ h.grant <= asked /\ clients[h.client] # "none"
                              /\ h.grant \notin replayed /\ h.expires = start[h.grant] + refreshTtl
      BY <1>3, <2>11 DEF FamiliesOK
    <3> QED BY <3>1, <3>2 DEF FamiliesOK
  <2>14. TokensOK(d, start, replayed, n, asked)
    <3> SUFFICES ASSUME NEW x \in d.tokens
                 PROVE  /\ x.grant <= asked /\ x.family <= n
                        /\ \A h \in d.families : h.grant = x.grant <=> h.id = x.family
                        /\ x.family = 0 => x.grant \notin replayed /\ x.expires <= start[x.grant] + 1 + Ttl
      BY DEF TokensOK
    <3>1. CASE x \in s.tokens
      <4>1. \A f \in s.families : f.grant = x.grant <=> f.id = x.family
        BY <1>3, <3>1 DEF TokensOK
      <4> QED BY <1>3, <2>11, <3>1, <4>1 DEF TokensOK
    <3>2. CASE x = new
      <4>1. x.grant = grant /\ x.family = family /\ x.expires = ends
        BY <2>6, <3>2
      <4>2. family <= n
        <5>1. CASE family = 0
          BY <1>0, <5>1
        <5>2. CASE family # 0
          BY <1>3, <5>2 DEF FamiliesOK
        <5> QED BY <5>1, <5>2
      <4>3. \A f \in s.families : f.grant = grant <=> f.id = family
        <5>1. CASE family = 0
          BY <1>4, <5>1
        <5>2. CASE family # 0
          BY <1>3, <5>2 DEF FamiliesOK
        <5> QED BY <5>1, <5>2
      <4>4. \A h \in d.families : h.grant = x.grant <=> h.id = x.family
        BY <2>11, <4>1, <4>3
      <4>5. family = 0 => ends <= start[grant] + 1 + Ttl
        BY <1>0, <1>2, <2>4
      <4> QED BY <4>1, <4>2, <4>4, <4>5
    <3> QED BY <2>8, <3>1, <3>2
  <2>15. PromisesOK(d, at, replayed, said)
    <3> SUFFICES ASSUME NEW g \in said, g.grant \notin replayed, at < g.until PROVE Kept(d, g)
      BY DEF PromisesOK
    <3>1. CASE g \in given /\ (g.grant # grant \/ g.kind # "refresh")
      <4>0. g.until \in Nat
        BY <1>4, <3>1
      <4>1. Kept(s, g)
        BY <1>0, <1>2, <1>3, <3>1, <4>0 DEF PromisesOK
      <4>2. CASE g.kind = "access" /\ AccessKept(s, g)
        <5>1. PICK x \in s.tokens :
                /\ x.id = g.id /\ x.grant = g.grant /\ x.expires = g.until
                /\ x.family = 0 \/ \E f \in s.families : f.id = x.family /\ f.expires >= x.expires
          BY <4>2 DEF AccessKept
        <5>2. x.family = 0 \/ \E h \in d.families : h.id = x.family /\ h.expires >= x.expires
          BY <2>10, <5>1
        <5>3. x \in d.tokens
          BY <2>8
        <5> QED BY <4>2, <5>1, <5>2, <5>3 DEF Kept, AccessKept
      <4>3. CASE g.kind = "refresh" /\ RefreshKept(s, g)
        <5>1. PICK f \in s.families :
                /\ f.current = g.id /\ f.grant = g.grant /\ f.expires = g.until
                /\ [id |-> g.id, family |-> f.id] \in s.refresh
          BY <4>3 DEF RefreshKept
        <5>2. g.grant # grant
          BY <3>1, <4>3
        <5>3. f \in d.families
          BY <2>10, <5>1, <5>2
        <5>4. [id |-> g.id, family |-> f.id] \in d.refresh
          BY <2>8, <5>1
        <5> QED BY <4>3, <5>1, <5>3, <5>4 DEF Kept, RefreshKept
      <4> QED BY <4>1, <4>2, <4>3 DEF Kept
    <3>2. CASE g = [kind |-> "access", id |-> n, grant |-> grant, until |-> ends]
      <4>1. g.kind = "access" /\ g.id = n /\ g.grant = grant /\ g.until = ends
        BY <3>2
      <4>2. family = 0 \/ \E f \in s.families : f.id = family /\ f.expires >= ends
        BY <1>4, <1>5, <1>9, <2>4
      <4>3. family = 0 \/ \E h \in d.families : h.id = family /\ h.expires >= ends
        BY <2>10, <4>2
      <4>4. new \in d.tokens
        BY <2>8
      <4> HIDE DEF new
      <4> QED BY <2>6, <4>1, <4>3, <4>4 DEF Kept, AccessKept
    <3>3. ASSUME NEW f \in own, g = [kind |-> "refresh", id |-> n, grant |-> grant, until |-> f.expires] PROVE Kept(d, g)
      <4>1. g.kind = "refresh" /\ g.id = n /\ g.grant = grant /\ g.until = f.expires
        BY <3>3
      <4>2. f.id = family /\ f.grant = grant
        BY <2>7
      <4>3. again(f) \in d.families /\ [id |-> n, family |-> family] \in d.refresh
        BY <2>8
      <4>4. again(f).id = f.id /\ again(f).grant = f.grant /\ again(f).expires = f.expires /\ again(f).current = n
        BY <2>5
      <4> HIDE DEF again
      <4> QED BY <4>1, <4>2, <4>3, <4>4 DEF Kept, RefreshKept
    <3> QED BY <2>1, <2>3, <3>1, <3>2, <3>3
  <2>16. said \subseteq [kind : {"access", "refresh"}, id : Issues, grant : Grants, until : Nat]
    <3>1. \A f \in own : [kind |-> "refresh", id |-> n, grant |-> grant, until |-> f.expires]
                            \in [kind : {"access", "refresh"}, id : Issues, grant : Grants, until : Nat]
      BY <1>0, <1>4
    <3>2. [kind |-> "access", id |-> n, grant |-> grant, until |-> ends]
             \in [kind : {"access", "refresh"}, id : Issues, grant : Grants, until : Nat]
      BY <1>0, <2>4
    <3> QED BY <2>1, <2>3, <3>1, <3>2 DEF Types
  <2>17. n \in 0 .. MaxIssues
    BY <1>0 DEF Issues
  <2>18. Sound(d, at, clients, refreshTtl, start, replayed, said, n, asked)
    BY <1>3, <2>12, <2>13, <2>14, <2>15 DEF Sound
  <2> QED BY <1>1, <1>2, <2>1, <2>2, <2>3, <2>9, <2>16, <2>17, <2>18
<1> QED BY <1>8, <1>9

LEMMA GrantsInitially == GrantsInit => GrantsInv
<1> SUFFICES ASSUME GrantsInit PROVE GrantsInv
  OBVIOUS
<1>1. Types
  BY OAuthAssumption DEF GrantsInit, Types, Store, Empty
<1>2. store = Empty /\ given = {} /\ replayed = {}
  BY DEF GrantsInit
<1>3. Sound(store, now, clients, refreshTtl, began, replayed, given, issued, asked)
  BY <1>2 DEF Empty, Sound, PagesOK, FamiliesOK, TokensOK, PromisesOK
<1> QED BY <1>1, <1>3 DEF GrantsInv

LEMMA RestartIsSound == ASSUME GrantsInv, Restart PROVE GrantsInv'
<1>1. store' = Empty /\ given' = {} /\ replayed' = {}
  BY DEF Restart
<1>2. Types'
  BY <1>1 DEF GrantsInv, Types, Restart, Store, Empty
<1>3. Sound(store', now', clients', refreshTtl', began', replayed', given', issued', asked')
  BY <1>1 DEF Empty, Sound, PagesOK, FamiliesOK, TokensOK, PromisesOK
<1> QED BY <1>2, <1>3 DEF GrantsInv

LEMMA TickIsSound == ASSUME GrantsInv, Tick PROVE GrantsInv'
<1>1. /\ now \in Nat /\ now' = now + 1 /\ \A g \in given : g.until \in Nat
      /\ store' = store /\ clients' = clients /\ refreshTtl' = refreshTtl /\ began' = began
      /\ replayed' = replayed /\ given' = given /\ issued' = issued /\ asked' = asked
  BY Numbers DEF Tick, GrantsInv, Types, history
<1>2. PromisesOK(store, now + 1, replayed, given)
  BY <1>1 DEF GrantsInv, Sound, PromisesOK
<1>3. Sound(store, now + 1, clients, refreshTtl, began, replayed, given, issued, asked)
  BY <1>2 DEF GrantsInv, Sound
<1>4. now + 1 \in 0 .. MaxTime
  BY Numbers DEF Tick, GrantsInv, Types
<1> QED BY <1>1, <1>3, <1>4 DEF GrantsInv, Types

LEMMA RegisterIsSound == ASSUME GrantsInv, NEW c \in ClientIds, Register(c) PROVE GrantsInv'
<1>1. PICK kind \in {"code", "refresh"} : clients' = [clients EXCEPT ![c] = kind]
  BY DEF Register
<1>2. /\ now' = now /\ store' = store /\ refreshTtl' = refreshTtl /\ began' = began /\ replayed' = replayed
      /\ given' = given /\ issued' = issued /\ asked' = asked
  BY DEF Register, history
<1>3. clients \in [ClientIds -> {"none", "code", "refresh"}]
  BY DEF GrantsInv, Types
<1>4. PICK reg : reg = clients'
  OBVIOUS
<1>5. reg \in [ClientIds -> {"none", "code", "refresh"}] /\ \A d \in ClientIds : clients[d] # "none" => reg[d] # "none"
  BY <1>1, <1>3, <1>4
<1>6. /\ \A p \in store.pending \cup store.codes : p.client \in ClientIds
      /\ \A f \in store.families : f.client \in ClientIds
  BY DEF GrantsInv, Types, Store, Page, Family
<1>7. Sound(store, now, reg, refreshTtl, began, replayed, given, issued, asked)
  <2>1. Sound(store, now, clients, refreshTtl, began, replayed, given, issued, asked)
    BY DEF GrantsInv
  <2>2. PagesOK(store, reg, replayed, asked)
    BY <1>5, <1>6, <2>1 DEF Sound, PagesOK
  <2>3. FamiliesOK(store, reg, refreshTtl, began, replayed, issued, asked)
    BY <1>5, <1>6, <2>1 DEF Sound, FamiliesOK
  <2> QED BY <2>1, <2>2, <2>3 DEF Sound
<1> QED BY <1>2, <1>4, <1>5, <1>7 DEF GrantsInv, Types

LEMMA RefuseIsSound == ASSUME GrantsInv, Refuse PROVE GrantsInv'
<1>1. /\ now' = now /\ store' = Pruned /\ clients' = clients /\ refreshTtl' = refreshTtl /\ began' = began
      /\ replayed' = replayed /\ given' = given /\ issued' = issued /\ asked' = asked
  BY DEF Refuse, history
<1>2. Pruned \in Store /\ Sound(Pruned, now, clients, refreshTtl, began, replayed, given, issued, asked)
  BY PrunedIsSound
<1>3. PICK d : d = Pruned
  OBVIOUS
<1> QED BY <1>1, <1>2, <1>3 DEF GrantsInv, Types

\* Promises are about tokens, families and refresh tokens only.
LEMMA PromisesElsewhere ==
  ASSUME NEW s, NEW d, NEW t, NEW gone, NEW said, PromisesOK(s, t, gone, said),
         d.tokens = s.tokens, d.families = s.families, d.refresh = s.refresh
  PROVE  PromisesOK(d, t, gone, said)
BY DEF PromisesOK, Kept, AccessKept, RefreshKept

LEMMA AuthorizeIsSound == ASSUME GrantsInv, NEW c \in ClientIds, Authorize(c) PROVE GrantsInv'
<1>1. PICK s : s = Pruned
  OBVIOUS
<1>2. s \in Store /\ Sound(s, now, clients, refreshTtl, began, replayed, given, issued, asked)
  BY <1>1, PrunedIsSound
<1>3. PICK a : a = asked + 1
  OBVIOUS
<1>4. a \in Grants /\ a \in Nat /\ asked \in Nat /\ asked < a /\ now \in Nat /\ now + CodeTtl \in Nat
  BY <1>3, Numbers DEF Authorize, GrantsInv, Types, Grants
<1> DEFINE page == [grant |-> a, client |-> c, expires |-> now + CodeTtl]
<1>5. page \in Page /\ page.grant = a /\ page.client = c
  BY <1>4 DEF Page
<1>6. /\ now' = now /\ clients' = clients /\ refreshTtl' = refreshTtl /\ began' = began
      /\ replayed' = replayed /\ given' = given /\ issued' = issued /\ asked' = a
      /\ store' = [s EXCEPT !.pending = @ \cup {page}] /\ clients[c] # "none"
  BY <1>1, <1>3 DEF Authorize, history
<1>7. PICK d : d = store'
  OBVIOUS
<1> HIDE DEF page
<1>8. /\ d.pending = s.pending \cup {page} /\ d.codes = s.codes /\ d.tokens = s.tokens /\ d.families = s.families
      /\ d.refresh = s.refresh /\ d \in Store
  BY <1>2, <1>5, <1>6, <1>7 DEF Store
<1>9. /\ \A p \in s.pending \cup s.codes : p.grant \in Nat
      /\ \A f \in s.families : f.grant \in Nat
      /\ \A x \in s.tokens : x.grant \in Nat
      /\ replayed \subseteq Nat
  BY <1>2, Numbers DEF Store, Page, Family, AccessToken, GrantsInv, Types
<1>10. /\ PagesOK(s, clients, replayed, asked) /\ FamiliesOK(s, clients, refreshTtl, began, replayed, issued, asked)
       /\ TokensOK(s, began, replayed, issued, asked) /\ PromisesOK(s, now, replayed, given) /\ \A g \in replayed : g <= asked
  BY <1>2 DEF Sound
<1>11. /\ \A p \in s.pending \cup s.codes : p.grant <= a /\ p.grant # a
       /\ \A f \in s.families : f.grant <= a /\ f.grant # a
       /\ \A x \in s.tokens : x.grant <= a /\ x.grant # a
       /\ \A g \in replayed : g <= a /\ g # a
  <2>1. \A k \in Nat : k <= asked => k <= a /\ k # a
    BY <1>4
  <2> QED BY <1>9, <1>10, <2>1 DEF PagesOK, FamiliesOK, TokensOK
<1>12. PagesOK(d, clients, replayed, a)
  <2>1. \A p \in d.pending \cup d.codes : p = page \/ p \in s.pending \cup s.codes
    BY <1>8
  <2>2. \A p \in d.pending \cup d.codes :
          /\ p.grant <= a /\ clients[p.client] # "none" /\ p.grant \notin replayed
          /\ \A f \in d.families : f.grant # p.grant
          /\ \A x \in d.tokens : x.grant # p.grant
    BY <1>4, <1>5, <1>6, <1>8, <1>10, <1>11, <2>1 DEF PagesOK
  <2>3. /\ \A p, q \in d.pending : p.grant = q.grant => p = q
        /\ \A p, q \in d.codes : p.grant = q.grant => p = q
        /\ \A p \in d.pending, q \in d.codes : p.grant # q.grant
    BY <1>5, <1>8, <1>10, <1>11 DEF PagesOK
  <2> QED BY <2>2, <2>3 DEF PagesOK
<1>13. FamiliesOK(d, clients, refreshTtl, began, replayed, issued, a)
  BY <1>8, <1>10, <1>11 DEF FamiliesOK
<1>14. TokensOK(d, began, replayed, issued, a)
  BY <1>8, <1>10, <1>11 DEF TokensOK
<1>15. Sound(d, now, clients, refreshTtl, began, replayed, given, issued, a)
  BY <1>8, <1>10, <1>11, <1>12, <1>13, <1>14, PromisesElsewhere DEF Sound
<1>16. a \in 0 .. MaxRequests
  BY <1>4 DEF Grants
<1> QED BY <1>6, <1>7, <1>8, <1>15, <1>16 DEF GrantsInv, Types

LEMMA ConsentIsSound == ASSUME GrantsInv, NEW p \in Pruned.pending, Consent(p) PROVE GrantsInv'
<1>1. PICK s : s = Pruned
  OBVIOUS
<1>2. s \in Store /\ Sound(s, now, clients, refreshTtl, began, replayed, given, issued, asked) /\ p \in s.pending
  BY <1>1, PrunedIsSound
<1> DEFINE code == [p EXCEPT !.expires = now + CodeTtl]
<1>3. /\ now' = now /\ clients' = clients /\ refreshTtl' = refreshTtl /\ began' = began
      /\ replayed' = replayed /\ given' = given /\ issued' = issued /\ asked' = asked
      /\ \/ store' = [s EXCEPT !.pending = @ \ {p}]
         \/ store' = [s EXCEPT !.pending = @ \ {p}, !.codes = @ \cup {code}]
  BY <1>1 DEF Consent, history
<1>4. code \in Page /\ code.grant = p.grant /\ code.client = p.client
  BY <1>2, Numbers DEF Store, Page, GrantsInv, Types
<1> HIDE DEF code
<1>5. PICK d : d = store'
  OBVIOUS
<1>6. /\ d.pending = s.pending \ {p} /\ (d.codes = s.codes \/ d.codes = s.codes \cup {code}) /\ d.tokens = s.tokens
      /\ d.families = s.families /\ d.refresh = s.refresh /\ d \in Store
  <2>1. CASE d = [s EXCEPT !.pending = @ \ {p}]
    BY <1>2, <2>1 DEF Store
  <2>2. CASE d = [s EXCEPT !.pending = @ \ {p}, !.codes = @ \cup {code}]
    BY <1>2, <1>4, <2>2 DEF Store
  <2> QED BY <1>3, <1>5, <2>1, <2>2
<1>7. /\ PagesOK(s, clients, replayed, asked) /\ FamiliesOK(s, clients, refreshTtl, began, replayed, issued, asked)
      /\ TokensOK(s, began, replayed, issued, asked) /\ PromisesOK(s, now, replayed, given) /\ \A g \in replayed : g <= asked
  BY <1>2 DEF Sound
<1>8. PagesOK(d, clients, replayed, asked)
  <2>1. \A q \in d.pending \cup d.codes : q = code \/ q \in s.pending \cup s.codes
    BY <1>6
  <2>2. \A q \in d.pending \cup d.codes :
          /\ q.grant <= asked /\ clients[q.client] # "none" /\ q.grant \notin replayed
          /\ \A f \in d.families : f.grant # q.grant
          /\ \A x \in d.tokens : x.grant # q.grant
    BY <1>2, <1>4, <1>6, <1>7, <2>1 DEF PagesOK
  <2>3. /\ \A q, r \in d.pending : q.grant = r.grant => q = r
        /\ \A q, r \in d.codes : q.grant = r.grant => q = r
        /\ \A q \in d.pending, r \in d.codes : q.grant # r.grant
    BY <1>2, <1>4, <1>6, <1>7 DEF PagesOK
  <2> QED BY <2>2, <2>3 DEF PagesOK
<1>9. FamiliesOK(d, clients, refreshTtl, began, replayed, issued, asked)
  BY <1>6, <1>7 DEF FamiliesOK
<1>10. TokensOK(d, began, replayed, issued, asked)
  BY <1>6, <1>7 DEF TokensOK
<1>11. Sound(d, now, clients, refreshTtl, began, replayed, given, issued, asked)
  BY <1>6, <1>7, <1>8, <1>9, <1>10, PromisesElsewhere DEF Sound
<1> QED BY <1>3, <1>5, <1>6, <1>11 DEF GrantsInv, Types

LEMMA ExchangeIsSound ==
  ASSUME GrantsInv, NEW c \in ClientIds, NEW code \in Pruned.codes, NEW proper \in BOOLEAN, Exchange(code, c, proper)
  PROVE  GrantsInv'
<1>1. PICK p : p = Pruned
  OBVIOUS
<1>2. p \in Store /\ Sound(p, now, clients, refreshTtl, began, replayed, given, issued, asked) /\ code \in p.codes
  BY <1>1, PrunedIsSound
<1>3. PICK s : s = Consumed(p, code)
  OBVIOUS
<1>4. /\ s.pending = p.pending /\ s.codes = p.codes \ {code} /\ s.tokens = p.tokens
      /\ s.families = p.families /\ s.refresh = p.refresh /\ s \in Store
  BY <1>2, <1>3 DEF Consumed, Store
<1>5. Sound(s, now, clients, refreshTtl, began, replayed, given, issued, asked)
  <2>1. PromisesOK(s, now, replayed, given)
    BY <1>2, <1>4, PromisesElsewhere DEF Sound
  <2>2. s.codes \subseteq p.codes
    BY <1>4
  <2> QED BY <1>2, <1>4, <2>1, <2>2, LessIsSound
<1>6. PICK room : room = (~Full(s.tokens) /\ (refreshTtl # 0 /\ clients[c] = "refresh" =>
                            ~Full(s.families) /\ Cardinality(s.refresh) < RefreshCapacity))
  OBVIOUS
<1>7. CASE ~ (c = code.client /\ proper /\ room)
  <2>1. /\ now' = now /\ clients' = clients /\ refreshTtl' = refreshTtl /\ began' = began /\ store' = s
        /\ replayed' = replayed /\ given' = given /\ issued' = issued /\ asked' = asked
    BY <1>1, <1>3, <1>6, <1>7 DEF Exchange, history
  <2> QED BY <1>4, <1>5, <2>1 DEF GrantsInv, Types
<1>8. CASE c = code.client /\ proper /\ room
  <2> DEFINE family == [id |-> issued + 1, grant |-> code.grant, client |-> c, expires |-> now + refreshTtl, current |-> issued + 1]
             more == [s EXCEPT !.families = @ \cup {family}]
  <2>1. /\ issued < MaxIssues
        /\ began' = [began EXCEPT ![code.grant] = now]
        /\ IF refreshTtl # 0 /\ clients[c] = "refresh" THEN Issue(more, code.grant, family.id) ELSE Issue(s, code.grant, 0)
        /\ UNCHANGED <<clients, refreshTtl, asked, replayed>>
    BY <1>1, <1>3, <1>6, <1>8 DEF Exchange
  <2>2. PICK start : start = began'
    OBVIOUS
  <2>3. PICK n : n = issued + 1
    OBVIOUS
  <2>4. /\ code.grant \in Grants /\ now \in Nat /\ issued \in Nat /\ n \in Issues /\ n \in Nat /\ refreshTtl \in Nat
        /\ began \in [Grants -> Nat] /\ code.client \in ClientIds
    BY <1>2, <2>1, <2>3, Numbers DEF Store, Page, GrantsInv, Types, Issues
  <2>5. /\ start \in [Grants -> Nat] /\ start[code.grant] = now
        /\ \A g \in Grants : g # code.grant => start[g] = began[g]
    BY <2>1, <2>2, <2>4
  <2>6. /\ PagesOK(p, clients, replayed, asked) /\ PagesOK(s, clients, replayed, asked)
        /\ FamiliesOK(s, clients, refreshTtl, began, replayed, issued, asked)
        /\ TokensOK(s, began, replayed, issued, asked) /\ PromisesOK(s, now, replayed, given) /\ \A g \in replayed : g <= asked
    BY <1>2, <1>5 DEF Sound
  \* The grant of the code has nothing else.
  <2>7. /\ code.grant <= asked /\ code.grant \notin replayed /\ clients[code.client] # "none"
        /\ \A q \in s.pending \cup s.codes : q.grant # code.grant
        /\ \A f \in s.families : f.grant # code.grant
        /\ \A x \in s.tokens : x.grant # code.grant
    BY <1>2, <1>4, <2>6 DEF PagesOK
  <2>8. /\ \A f \in s.families : f.id \in Nat /\ f.id <= issued /\ f.id # n /\ f.id <= n /\ f.grant \in Grants
        /\ \A x \in s.tokens : x.family \in Nat /\ x.family <= issued /\ x.family # n /\ x.family <= n /\ x.grant \in Grants
    <3>1. \A k \in Nat : k <= issued => k # n /\ k <= n
      BY <2>3, <2>4
    <3>2. /\ \A f \in s.families : f.id \in Nat /\ f.id <= issued /\ f.grant \in Grants
          /\ \A x \in s.tokens : x.family \in Nat /\ x.family <= issued /\ x.grant \in Grants
      BY <1>4, <2>6 DEF FamiliesOK, TokensOK, Store, Family, AccessToken, Issues
    <3> QED BY <3>1, <3>2
  <2>9. /\ FamiliesOK(s, clients, refreshTtl, start, replayed, n, asked)
        /\ TokensOK(s, start, replayed, n, asked)
    <3>1. FamiliesOK(s, clients, refreshTtl, start, replayed, n, asked)
      BY <2>5, <2>6, <2>7, <2>8 DEF FamiliesOK
    <3>2. TokensOK(s, start, replayed, n, asked)
      BY <2>5, <2>6, <2>7, <2>8 DEF TokensOK
    <3> QED BY <3>1, <3>2
  <2>10. CASE ~ (refreshTtl # 0 /\ clients[c] = "refresh")
    <3>1. Issue(s, code.grant, 0)
      BY <2>1, <2>10
    <3>2. Sound(s, now, clients, refreshTtl, start, replayed, given, issued + 1, asked)
      BY <2>3, <2>6, <2>9 DEF Sound
    <3>3. /\ \A f \in s.families : f.id <= issued \/ f.id = 0
          /\ \A x \in s.tokens : x.family <= issued /\ x.family # issued + 1
          /\ (\A f \in s.families : f.grant # code.grant) /\ start[code.grant] = now
      BY <2>3, <2>5, <2>7, <2>8
    <3>4. /\ now' \in 0 .. MaxTime /\ store' \in Store /\ issued' \in 0 .. MaxIssues
          /\ given' \subseteq [kind : {"access", "refresh"}, id : Issues, grant : Grants, until : Nat]
          /\ Sound(store', now', clients, refreshTtl, start, replayed, given', issued', asked)
      <4>1. 0 \in {0} \cup Issues /\ Types
        BY DEF GrantsInv
      <4>2. IF 0 = 0 THEN (\A f \in s.families : f.grant # code.grant) /\ start[code.grant] = now
                     ELSE \E f \in s.families : f.id = 0 /\ f.grant = code.grant
        BY <3>3
      <4> QED BY <1>4, <2>1, <2>4, <2>5, <2>7, <3>1, <3>2, <3>3, <4>1, <4>2, IssueIsSound
    <3> QED BY <2>1, <2>2, <2>5, <3>4 DEF GrantsInv, Types
  <2>11. CASE refreshTtl # 0 /\ clients[c] = "refresh"
    <3>1. family.id = n /\ family.grant = code.grant /\ family.client = c /\ family.expires = now + refreshTtl /\ family \in Family
      BY <2>3, <2>4 DEF Family
    <3>2. Issue(more, code.grant, n)
      BY <2>1, <2>11, <3>1
    <3> HIDE DEF family
    <3>3. PICK m : m = more
      OBVIOUS
    <3>4. /\ m.pending = s.pending /\ m.codes = s.codes /\ m.tokens = s.tokens
          /\ m.families = s.families \cup {family} /\ m.refresh = s.refresh /\ m \in Store
      BY <1>4, <3>1, <3>3 DEF Store
    <3>5. PagesOK(m, clients, replayed, asked)
      BY <2>6, <2>7, <3>1, <3>4 DEF PagesOK
    <3>6. FamiliesOK(m, clients, refreshTtl, start, replayed, n, asked)
      <4>1. \A f, g \in m.families : f.id = g.id \/ f.grant = g.grant => f = g
        BY <2>7, <2>8, <2>9, <3>1, <3>4 DEF FamiliesOK
      <4>2. /\ family.id <= n /\ family.grant <= asked /\ clients[family.client] # "none"
            /\ family.grant \notin replayed /\ family.expires = start[family.grant] + refreshTtl
        BY <1>8, <2>4, <2>5, <2>7, <3>1
      <4> QED BY <2>9, <3>4, <4>1, <4>2 DEF FamiliesOK
    <3>7. TokensOK(m, start, replayed, n, asked)
      BY <2>7, <2>8, <2>9, <3>1, <3>4 DEF TokensOK
    <3>8. PromisesOK(m, now, replayed, given)
      <4> SUFFICES ASSUME NEW g \in given, g.grant \notin replayed, now < g.until PROVE Kept(m, g)
        BY DEF PromisesOK
      <4>1. Kept(s, g)
        BY <2>6 DEF PromisesOK
      <4>2. \A f \in s.families : f \in m.families
        BY <3>4
      <4>3. AccessKept(s, g) => AccessKept(m, g)
        BY <3>4, <4>2 DEF AccessKept
      <4>4. RefreshKept(s, g) => RefreshKept(m, g)
        BY <3>4, <4>2 DEF RefreshKept
      <4> QED BY <4>1, <4>3, <4>4 DEF Kept
    <3>9. Sound(m, now, clients, refreshTtl, start, replayed, given, issued + 1, asked)
      BY <2>3, <2>6, <3>5, <3>6, <3>7, <3>8 DEF Sound
    <3>10. /\ \A f \in m.families : f.id <= issued \/ f.id = n
           /\ \A x \in m.tokens : x.family <= issued /\ x.family # issued + 1
           /\ \A q \in m.pending \cup m.codes : q.grant # code.grant
           /\ \E f \in m.families : f.id = n /\ f.grant = code.grant
      BY <2>3, <2>7, <2>8, <3>1, <3>4
    <3>11. /\ now' \in 0 .. MaxTime /\ store' \in Store /\ issued' \in 0 .. MaxIssues
           /\ given' \subseteq [kind : {"access", "refresh"}, id : Issues, grant : Grants, until : Nat]
           /\ Sound(store', now', clients, refreshTtl, start, replayed, given', issued', asked)
      <4>1. n \in {0} \cup Issues /\ Types
        BY <2>4 DEF GrantsInv
      <4>2. IF n = 0 THEN (\A f \in m.families : f.grant # code.grant) /\ start[code.grant] = now
                     ELSE \E f \in m.families : f.id = n /\ f.grant = code.grant
        BY <2>4, <3>10 DEF Issues
      <4>3. Issue(m, code.grant, n)
        BY <3>2, <3>3
      <4> QED BY <2>1, <2>4, <2>5, <2>7, <3>4, <3>9, <3>10, <4>1, <4>2, <4>3, IssueIsSound
    <3> QED BY <2>1, <2>2, <2>5, <3>11 DEF GrantsInv, Types
  <2> QED BY <2>10, <2>11
<1> QED BY <1>7, <1>8

LEMMA RefreshIsSound ==
  ASSUME GrantsInv, NEW c \in ClientIds, NEW r \in Pruned.refresh, NEW proper \in BOOLEAN, Refresh(r, c, proper)
  PROVE  GrantsInv'
<1>1. PICK s : s = Pruned
  OBVIOUS
<1>2. /\ s \in Store /\ Sound(s, now, clients, refreshTtl, began, replayed, given, issued, asked)
      /\ \E f \in s.families : f.id = r.family
  BY <1>1, PrunedIsSound
<1>3. PICK f : f = CHOOSE x \in s.families : x.id = r.family
  OBVIOUS
<1>4. f \in s.families /\ f.id = r.family
  BY <1>2, <1>3
<1>5. \/ Refuse
      \/ /\ store' = Revoked(s, f.id)
         /\ replayed' = replayed \cup {f.grant}
         /\ UNCHANGED <<now, clients, refreshTtl, asked, issued, given, began>>
      \/ /\ issued < MaxIssues
         /\ Issue(s, f.grant, f.id)
         /\ UNCHANGED <<clients, refreshTtl, asked, began, replayed>>
  <2>1. CASE f.client # c \/ refreshTtl = 0
    BY <1>1, <1>3, <2>1 DEF Refresh
  <2>2. CASE f.client = c /\ refreshTtl # 0 /\ f.current # r.id
    BY <1>1, <1>3, <2>2 DEF Refresh
  <2>3. CASE f.client = c /\ refreshTtl # 0 /\ f.current = r.id
    BY <1>1, <1>3, <2>3 DEF Refresh
  <2> QED BY <2>1, <2>2, <2>3
<1>6. /\ PagesOK(s, clients, replayed, asked) /\ FamiliesOK(s, clients, refreshTtl, began, replayed, issued, asked)
      /\ TokensOK(s, began, replayed, issued, asked) /\ PromisesOK(s, now, replayed, given) /\ \A g \in replayed : g <= asked
  BY <1>2 DEF Sound
<1>7. /\ f.id \in Issues /\ f.grant \in Grants /\ f.grant <= asked /\ f.grant \notin replayed
      /\ \A p \in s.pending \cup s.codes : p.grant # f.grant
      /\ now \in Nat /\ issued \in Nat /\ \A g \in given : g.until \in Nat
  BY <1>2, <1>4, <1>6, Numbers DEF Store, Family, FamiliesOK, PagesOK, GrantsInv, Types
<1>8. CASE Refuse
  BY <1>8, RefuseIsSound
<1>9. CASE /\ store' = Revoked(s, f.id)
           /\ replayed' = replayed \cup {f.grant}
           /\ UNCHANGED <<now, clients, refreshTtl, asked, issued, given, began>>
  <2>1. PICK gone : gone = replayed'
    OBVIOUS
  <2>2. /\ \A g \in gone \ replayed : g <= asked /\ \E h \in s.families : h.id = f.id /\ h.grant = g
        /\ replayed \subseteq gone
        /\ \A h \in s.families : h.id = f.id => h.expires <= now \/ h.grant \in gone
    BY <1>4, <1>6, <1>7, <1>9, <2>1 DEF FamiliesOK
  <2>3. /\ Revoked(s, f.id) \in Store
        /\ Sound(Revoked(s, f.id), now, clients, refreshTtl, began, gone, given, issued, asked)
    <3>1. now <= now
      BY <1>7
    <3> QED BY <1>2, <1>7, <2>2, <3>1, RevokedIsSound
  <2>4. PICK d : d = Revoked(s, f.id)
    OBVIOUS
  <2>5. replayed' \subseteq Grants
    BY <1>7, <1>9 DEF GrantsInv, Types
  <2> QED BY <1>9, <2>1, <2>3, <2>4, <2>5 DEF GrantsInv, Types
<1>10. CASE /\ issued < MaxIssues
            /\ Issue(s, f.grant, f.id)
            /\ UNCHANGED <<clients, refreshTtl, asked, began, replayed>>
  <2>1. /\ \A h \in s.families : h.id \in Nat /\ h.id <= issued
        /\ \A x \in s.tokens : x.family \in Nat /\ x.family <= issued
    BY <1>2, <1>6 DEF FamiliesOK, TokensOK, Store, Family, AccessToken, Issues
  <2>2. \A k \in Nat : k <= issued => k # issued + 1 /\ k <= issued + 1
    BY <1>7
  <2>3. Sound(s, now, clients, refreshTtl, began, replayed, given, issued + 1, asked)
    <3>1. FamiliesOK(s, clients, refreshTtl, began, replayed, issued + 1, asked)
      BY <1>6, <2>1, <2>2 DEF FamiliesOK
    <3>2. TokensOK(s, began, replayed, issued + 1, asked)
      BY <1>6, <2>1, <2>2 DEF TokensOK
    <3> QED BY <1>6, <3>1, <3>2 DEF Sound
  <2>4. \A x \in s.tokens : x.family <= issued /\ x.family # issued + 1
    BY <2>1, <2>2
  <2>5. IF f.id = 0 THEN (\A h \in s.families : h.grant # f.grant) /\ began[f.grant] = now
                    ELSE \E h \in s.families : h.id = f.id /\ h.grant = f.grant
    BY <1>4, <1>7 DEF Issues
  <2>6. Types /\ f.id \in {0} \cup Issues /\ began \in [Grants -> Nat]
    BY <1>7 DEF GrantsInv, Types
  <2>7. /\ now' \in 0 .. MaxTime /\ store' \in Store /\ issued' \in 0 .. MaxIssues
        /\ given' \subseteq [kind : {"access", "refresh"}, id : Issues, grant : Grants, until : Nat]
        /\ Sound(store', now', clients, refreshTtl, began, replayed, given', issued', asked)
    BY <1>2, <1>7, <1>10, <2>1, <2>3, <2>4, <2>5, <2>6, IssueIsSound
  <2> QED BY <1>10, <2>6, <2>7 DEF GrantsInv, Types
<1> QED BY <1>5, <1>8, <1>9, <1>10

LEMMA GrantsStay == GrantsSpec => []GrantsInv
<1>1. GrantsInit => GrantsInv
  BY GrantsInitially
<1>2. GrantsInv /\ [GrantsNext]_grantsVars => GrantsInv'
  <2> SUFFICES ASSUME GrantsInv, [GrantsNext]_grantsVars PROVE GrantsInv'
    OBVIOUS
  <2>1. CASE Tick
    BY <2>1, TickIsSound
  <2>2. CASE Restart
    BY <2>2, RestartIsSound
  <2>3. CASE Refuse
    BY <2>3, RefuseIsSound
  <2>4. ASSUME NEW c \in ClientIds, Register(c) PROVE GrantsInv'
    BY <2>4, RegisterIsSound
  <2>5. ASSUME NEW c \in ClientIds, Authorize(c) PROVE GrantsInv'
    BY <2>5, AuthorizeIsSound
  <2>6. ASSUME NEW c \in ClientIds, NEW code \in Pruned.codes, NEW proper \in BOOLEAN, Exchange(code, c, proper) PROVE GrantsInv'
    BY <2>6, ExchangeIsSound
  <2>7. ASSUME NEW c \in ClientIds, NEW r \in Pruned.refresh, NEW proper \in BOOLEAN, Refresh(r, c, proper) PROVE GrantsInv'
    BY <2>7, RefreshIsSound
  <2>8. ASSUME NEW p \in Pruned.pending, Consent(p) PROVE GrantsInv'
    BY <2>8, ConsentIsSound
  <2>9. CASE UNCHANGED grantsVars
    BY <2>9 DEF grantsVars, GrantsInv, Types
  <2> QED BY <2>1, <2>2, <2>3, <2>4, <2>5, <2>6, <2>7, <2>8, <2>9 DEF GrantsNext
<1> QED BY <1>1, <1>2, PTL DEF GrantsSpec

\* Once a spent refresh token of a grant was presented, or the lifetime of the
\* grant has passed since its code was exchanged, no token of it opens anything,
\* for every registry, configuration and capacity (oauth.rs, prune, revoke_family).
THEOREM GrantsEnd == GrantsSpec => []NothingOutlivesItsGrant
<1>1. GrantsInv => NothingOutlivesItsGrant
  <2> SUFFICES ASSUME GrantsInv PROVE NothingOutlivesItsGrant
    OBVIOUS
  <2>1. PICK s : s = Pruned
    OBVIOUS
  <2>2. /\ s \in Store /\ Sound(s, now, clients, refreshTtl, began, replayed, given, issued, asked)
        /\ s.families = {f \in store.families : f.expires > now}
        /\ s.tokens = {x \in store.tokens : x.expires > now /\ (x.family = 0 \/ \E f \in s.families : f.id = x.family)}
    BY <2>1, PrunedIsSound
  <2>3. FamiliesOK(s, clients, refreshTtl, began, replayed, issued, asked) /\ TokensOK(s, began, replayed, issued, asked)
    BY <2>2 DEF Sound
  <2>4. now \in Nat /\ Ttl \in Nat /\ refreshTtl \in Nat /\ began \in [Grants -> Nat]
    BY Numbers DEF GrantsInv, Types
  <2>5. /\ \A f \in s.families : f.expires \in Nat /\ f.grant \in Grants
        /\ \A x \in s.tokens : x.expires \in Nat /\ x.grant \in Grants
    BY <2>2 DEF Store, Family, AccessToken
  <2>6. ASSUME NEW g \in Grants PROVE Cardinality({f \in s.families : f.grant = g}) <= 1
    <3> DEFINE F == {f \in s.families : f.grant = g}
    <3>1. CASE F = {}
      BY <3>1, FS_EmptySet
    <3>2. CASE F # {}
      <4>1. PICK f \in F : TRUE
        BY <3>2
      <4>2. F = {f}
        BY <2>3, <4>1 DEF FamiliesOK
      <4>3. Cardinality(F) = 1
        BY <4>2, FS_Singleton, Zenon
      <4> QED BY <4>3
    <3> QED BY <3>1, <3>2
  <2>7. \A f \in s.families : f.grant \notin replayed /\ now < began[f.grant] + refreshTtl
    <3> SUFFICES ASSUME NEW f \in s.families PROVE f.grant \notin replayed /\ now < began[f.grant] + refreshTtl
      OBVIOUS
    <3>1. f.grant \notin replayed /\ f.expires = began[f.grant] + refreshTtl /\ f.expires > now
      BY <2>2, <2>3 DEF FamiliesOK
    <3> QED BY <2>4, <2>5, <3>1
  <2>8. \A x \in s.tokens : x.grant \notin replayed
                              /\ now < began[x.grant] + (IF x.family = 0 THEN Ttl + 1 ELSE refreshTtl)
    <3> SUFFICES ASSUME NEW x \in s.tokens
                 PROVE  x.grant \notin replayed /\ now < began[x.grant] + (IF x.family = 0 THEN Ttl + 1 ELSE refreshTtl)
      OBVIOUS
    <3>1. CASE x.family = 0
      <4>1. x.grant \notin replayed /\ x.expires <= began[x.grant] + 1 + Ttl /\ x.expires > now
        BY <2>2, <2>3, <3>1 DEF TokensOK
      <4>2. began[x.grant] \in Nat
        BY <2>4, <2>5
      <4> QED BY <2>4, <2>5, <3>1, <4>1, <4>2
    <3>2. CASE x.family # 0
      <4>1. PICK f \in s.families : f.id = x.family
        BY <2>2, <3>2
      <4>2. f.grant = x.grant
        BY <2>3, <4>1 DEF TokensOK
      <4> QED BY <2>7, <3>2, <4>2
    <3> QED BY <3>1, <3>2
  <2> QED BY <2>1, <2>6, <2>7, <2>8 DEF NothingOutlivesItsGrant
<1> QED BY <1>1, GrantsStay, PTL

\* An answer's tokens are good until the time it said, unless a spent token of the
\* grant is presented or the server restarts, whatever else is refused, pruned or
\* revoked in between (oauth.rs, issue_tokens).
THEOREM AnswersAreKept == GrantsSpec => []PromisesAreKept
<1>1. GrantsInv => PromisesAreKept
  <2> SUFFICES ASSUME GrantsInv, NEW g \in given, g.grant \notin replayed, now < g.until
               PROVE  <<g.kind, g.id>> \in Accepted \cup Renews
    BY DEF PromisesAreKept
  <2>1. PICK s : s = Pruned
    OBVIOUS
  <2>2. Sound(s, now, clients, refreshTtl, began, replayed, given, issued, asked)
    BY <2>1, PrunedIsSound
  <2>3. Kept(s, g)
    BY <2>2 DEF Sound, PromisesOK
  <2>4. CASE g.kind = "access" /\ AccessKept(s, g)
    BY <2>1, <2>4 DEF AccessKept, Accepted
  <2>5. CASE g.kind = "refresh" /\ RefreshKept(s, g)
    <3>1. PICK f \in s.families : f.current = g.id /\ [id |-> g.id, family |-> f.id] \in s.refresh
      BY <2>5 DEF RefreshKept
    <3>2. f \in {x \in s.families : [id |-> x.current, family |-> x.id] \in s.refresh}
      BY <3>1
    <3>3. <<"refresh", f.current>> \in Renews
      BY <2>1, <3>2 DEF Renews
    <3> QED BY <2>5, <3>1, <3>3
  <2> QED BY <2>3, <2>4, <2>5 DEF Kept
<1> QED BY <1>1, GrantsStay, PTL

(***************************************************************************)
(* No map of the authority outgrows its capacity: what prune, revoke_family *)
(* and the exchange take is a part, and what is added was measured first.  *)
(***************************************************************************)
AtMost(S, k) == IsFiniteSet(S) /\ Cardinality(S) <= k

Bounded(s) ==
  /\ AtMost(s.pending, Capacity) /\ AtMost(s.codes, Capacity)
  /\ AtMost(s.tokens, Capacity) /\ AtMost(s.families, Capacity)
  /\ AtMost(s.refresh, RefreshCapacity)

LEMMA PartIsBounded == ASSUME NEW S, NEW T \in SUBSET S, NEW k \in Nat, AtMost(S, k) PROVE AtMost(T, k)
<1>1. IsFiniteSet(T) /\ Cardinality(T) <= Cardinality(S)
  BY FS_Subset DEF AtMost
<1>2. Cardinality(T) \in Nat /\ Cardinality(S) \in Nat
  BY <1>1, FS_CardinalityType DEF AtMost
<1> QED BY <1>1, <1>2 DEF AtMost

LEMMA OneMoreIsBounded ==
  ASSUME NEW S, NEW x, NEW k \in Nat, AtMost(S, k), ~ (Cardinality(S) >= k) PROVE AtMost(S \cup {x}, k)
<1>1. IsFiniteSet(S \cup {x}) /\ (Cardinality(S \cup {x}) = Cardinality(S) \/ Cardinality(S \cup {x}) = Cardinality(S) + 1)
  BY FS_AddElement DEF AtMost
<1>2. Cardinality(S) \in Nat
  BY FS_CardinalityType DEF AtMost
<1> QED BY <1>1, <1>2 DEF AtMost

LEMMA ExchangedIsBounded ==
  ASSUME NEW S, NEW x \in S, NEW y, NEW k \in Nat, AtMost(S, k) PROVE AtMost((S \ {x}) \cup {y}, k)
<1>1. IsFiniteSet(S \ {x}) /\ Cardinality(S \ {x}) = Cardinality(S) - 1
  BY FS_RemoveElement DEF AtMost
<1>2. Cardinality(S) \in Nat /\ Cardinality(S \ {x}) \in Nat
  BY <1>1, FS_CardinalityType DEF AtMost
<1>3. AtMost(S \ {x}, k) /\ ~ (Cardinality(S \ {x}) >= k)
  BY <1>1, <1>2 DEF AtMost
<1> QED BY <1>3, OneMoreIsBounded

LEMMA LessIsBounded ==
  ASSUME NEW s, NEW d, Bounded(s), d.pending \subseteq s.pending, d.codes \subseteq s.codes,
         d.tokens \subseteq s.tokens, d.families \subseteq s.families, d.refresh \subseteq s.refresh
  PROVE  Bounded(d)
<1>1. Capacity \in Nat /\ RefreshCapacity \in Nat
  BY OAuthAssumption
<1>2. \A S, T, k : k \in Nat /\ T \subseteq S /\ AtMost(S, k) => AtMost(T, k)
  BY PartIsBounded
<1> QED BY <1>1, <1>2 DEF Bounded

LEMMA IssueIsBounded ==
  ASSUME Types, NEW s \in Store, NEW grant, NEW family, Issue(s, grant, family), Bounded(s), ~Full(s.tokens),
         \A f, g \in s.families : f.id = g.id => f = g,
         (\A f \in s.families : f.id # family) \/ Cardinality(s.refresh) < RefreshCapacity
  PROVE  Bounded(store')
<1> DEFINE n == issued + 1
           own == {f \in s.families : f.id = family}
           again(f) == [f EXCEPT !.current = n]
<1>1. \/ store' = Revoked(s, family)
      \/ \E at, ends :
           store' = [s EXCEPT !.tokens = @ \cup {[id |-> n, grant |-> grant, family |-> family, expires |-> ends]},
                              !.families = (@ \ own) \cup {again(f) : f \in own},
                              !.refresh = @ \cup {[id |-> n, family |-> family] : f \in own}]
  BY DEF Issue
<1>2. CASE store' = Revoked(s, family)
  <2>1. PICK d : d = store'
    OBVIOUS
  <2>2. /\ d.pending = s.pending /\ d.codes = s.codes /\ d.tokens \subseteq s.tokens
        /\ d.families \subseteq s.families /\ d.refresh \subseteq s.refresh
    BY <1>2, <2>1 DEF Revoked, Store
  <2> QED BY <2>1, <2>2, LessIsBounded
<1>3. ASSUME NEW ends,
             store' = [s EXCEPT !.tokens = @ \cup {[id |-> n, grant |-> grant, family |-> family, expires |-> ends]},
                                !.families = (@ \ own) \cup {again(f) : f \in own},
                                !.refresh = @ \cup {[id |-> n, family |-> family] : f \in own}]
      PROVE  Bounded(store')
  <2>1. PICK d : d = store'
    OBVIOUS
  <2>2. PICK x : x = [id |-> n, grant |-> grant, family |-> family, expires |-> ends]
    OBVIOUS
  <2>3. PICK r : r = [id |-> n, family |-> family]
    OBVIOUS
  <2>4. /\ d.pending = s.pending /\ d.codes = s.codes /\ d.tokens = s.tokens \cup {x}
        /\ d.families = (s.families \ own) \cup {again(f) : f \in own}
        /\ d.refresh = s.refresh \cup {r : f \in own}
    BY <1>3, <2>1, <2>2, <2>3 DEF Store
  <2>5. Capacity \in Nat /\ RefreshCapacity \in Nat
    BY OAuthAssumption
  <2>6. AtMost(d.tokens, Capacity)
    <3>1. AtMost(s.tokens, Capacity) /\ ~ (Cardinality(s.tokens) >= Capacity)
      BY DEF Bounded, Full
    <3>2. AtMost(s.tokens \cup {x}, Capacity)
      BY <2>5, <3>1, OneMoreIsBounded
    <3> QED BY <2>4, <3>2
  <2>7. AtMost(d.families, Capacity) /\ AtMost(d.refresh, RefreshCapacity)
    <3>1. CASE own = {}
      <4>1. d.families = s.families /\ d.refresh = s.refresh
        BY <2>4, <3>1
      <4> QED BY <4>1 DEF Bounded
    <3>2. CASE own # {}
      <4>1. PICK f \in s.families : f.id = family
        BY <3>2
      <4>2. own = {f}
        BY <4>1
      <4>3. PICK h : h = again(f)
        OBVIOUS
      <4>4. d.families = (s.families \ {f}) \cup {h} /\ d.refresh = s.refresh \cup {r}
        BY <2>4, <4>2, <4>3
      <4>5. AtMost(s.refresh, RefreshCapacity) /\ AtMost(s.families, Capacity)
        BY DEF Bounded
      <4>6. Cardinality(s.refresh) < RefreshCapacity /\ Cardinality(s.refresh) \in Nat
        BY <4>1, <4>5, FS_CardinalityType DEF AtMost
      <4>7. ~ (Cardinality(s.refresh) >= RefreshCapacity)
        BY <2>5, <4>6
      <4>8. AtMost((s.families \ {f}) \cup {h}, Capacity)
        BY <2>5, <4>5, ExchangedIsBounded
      <4>9. AtMost(s.refresh \cup {r}, RefreshCapacity)
        BY <2>5, <4>5, <4>7, OneMoreIsBounded
      <4> QED BY <4>4, <4>8, <4>9
    <3> QED BY <3>1, <3>2
  <2> QED BY <2>1, <2>4, <2>6, <2>7 DEF Bounded
<1> QED BY <1>1, <1>2, <1>3

\* The maps of the authority hold what they should and no more than their
\* capacities (oauth.rs, the limits of authorize, consent and token).
THEOREM GrantsTyped == GrantsSpec => []GrantsTypeOK
<1>0. Capacity \in Nat /\ RefreshCapacity \in Nat
  BY OAuthAssumption
<1>1. GrantsInit => Bounded(store)
  BY <1>0, FS_EmptySet DEF GrantsInit, Empty, Bounded, AtMost
<1>2. GrantsInv /\ Bounded(store) /\ [GrantsNext]_grantsVars => Bounded(store)'
  <2> SUFFICES ASSUME GrantsInv, Bounded(store), [GrantsNext]_grantsVars PROVE Bounded(store')
    OBVIOUS
  <2>1. PICK s : s = Pruned
    OBVIOUS
  <2>2. /\ s \in Store /\ s.pending \subseteq store.pending /\ s.codes \subseteq store.codes
        /\ s.tokens \subseteq store.tokens /\ s.families \subseteq store.families /\ s.refresh \subseteq store.refresh
        /\ \A f, g \in s.families : f.id = g.id => f = g
    <3>1. Sound(s, now, clients, refreshTtl, began, replayed, given, issued, asked)
      BY <2>1, PrunedIsSound
    <3>2. \A f, g \in s.families : f.id = g.id => f = g
      BY <3>1 DEF Sound, FamiliesOK
    <3> QED BY <2>1, <3>2, PrunedIsSound
  <2>3. Bounded(s)
    BY <2>2, LessIsBounded
  <2>4. CASE store' = store
    BY <2>4
  <2>5. CASE store' = s
    BY <2>3, <2>5
  <2>6. CASE store' = Empty
    BY <1>0, <2>6, FS_EmptySet DEF Empty, Bounded, AtMost
  <2>7. ASSUME NEW c \in ClientIds, Authorize(c) PROVE Bounded(store')
    <3>1. PICK p : p = [grant |-> asked', client |-> c, expires |-> now + CodeTtl]
      OBVIOUS
    <3>2. ~Full(s.pending) /\ store' = [s EXCEPT !.pending = @ \cup {p}]
      BY <2>1, <2>7, <3>1 DEF Authorize
    <3>3. PICK d : d = store'
      OBVIOUS
    <3>4. d.pending = s.pending \cup {p} /\ d.codes = s.codes /\ d.tokens = s.tokens /\ d.families = s.families /\ d.refresh = s.refresh
      BY <2>2, <3>2, <3>3 DEF Store
    <3>5. AtMost(s.pending \cup {p}, Capacity)
      BY <1>0, <2>3, <3>2, OneMoreIsBounded DEF Bounded, Full
    <3> QED BY <2>3, <3>3, <3>4, <3>5 DEF Bounded
  <2>8. ASSUME NEW p \in s.pending, Consent(p) PROVE Bounded(store')
    <3>1. PICK code : code = [p EXCEPT !.expires = now + CodeTtl]
      OBVIOUS
    <3>2. PICK d : d = store'
      OBVIOUS
    <3>3. /\ d.pending \subseteq s.pending /\ d.tokens = s.tokens /\ d.families = s.families /\ d.refresh = s.refresh
          /\ d.codes = s.codes \/ (~Full(s.codes) /\ d.codes = s.codes \cup {code})
      BY <2>1, <2>2, <2>8, <3>1, <3>2 DEF Consent, Store
    <3>4. AtMost(d.codes, Capacity)
      BY <1>0, <2>3, <3>3, OneMoreIsBounded DEF Bounded, Full
    <3>5. AtMost(d.pending, Capacity)
      BY <1>0, <2>3, <3>3, PartIsBounded DEF Bounded
    <3> QED BY <2>3, <3>2, <3>3, <3>4, <3>5 DEF Bounded
  <2>9. ASSUME NEW c \in ClientIds, NEW code \in s.codes, NEW proper \in BOOLEAN, Exchange(code, c, proper) PROVE Bounded(store')
    <3>1. PICK p : p = Consumed(s, code)
      OBVIOUS
    <3>2. /\ p.pending = s.pending /\ p.codes \subseteq s.codes /\ p.tokens = s.tokens
          /\ p.families = s.families /\ p.refresh = s.refresh /\ p \in Store
      BY <2>2, <3>1 DEF Consumed, Store
    <3>3. Bounded(p)
      BY <2>3, <3>2, LessIsBounded
    <3>4. PICK family : family = [id |-> issued + 1, grant |-> code.grant, client |-> c, expires |-> now + refreshTtl, current |-> issued + 1]
      OBVIOUS
    <3>5. \/ store' = p
          \/ /\ ~Full(p.tokens)
             /\ Issue(p, code.grant, 0)
          \/ /\ ~Full(p.tokens) /\ ~Full(p.families) /\ Cardinality(p.refresh) < RefreshCapacity
             /\ Issue([p EXCEPT !.families = @ \cup {family}], code.grant, family.id)
             /\ issued < MaxIssues /\ code.client = c
      BY <2>1, <2>9, <3>1, <3>4 DEF Exchange
    <3>6. CASE store' = p
      BY <3>3, <3>6
    <3>7. CASE ~Full(p.tokens) /\ Issue(p, code.grant, 0)
      <4>1. \A f \in p.families : f.id # 0
        BY <3>2 DEF Store, Family, Issues
      <4> QED BY <2>2, <3>2, <3>3, <3>7, <4>1, IssueIsBounded DEF GrantsInv
    <3>8. CASE /\ ~Full(p.tokens) /\ ~Full(p.families) /\ Cardinality(p.refresh) < RefreshCapacity
               /\ Issue([p EXCEPT !.families = @ \cup {family}], code.grant, family.id)
               /\ issued < MaxIssues /\ code.client = c
      <4>1. PICK m : m = [p EXCEPT !.families = @ \cup {family}]
        OBVIOUS
      <4>2. family \in Family /\ family.id = issued + 1 /\ issued \in Nat
        BY <2>2, <3>4, <3>8, Numbers DEF GrantsInv, Types, Store, Page, Family, Issues
      <4>3. /\ m.pending = p.pending /\ m.codes = p.codes /\ m.tokens = p.tokens
            /\ m.families = p.families \cup {family} /\ m.refresh = p.refresh /\ m \in Store
        BY <3>2, <4>1, <4>2 DEF Store
      <4>4. AtMost(m.families, Capacity)
        BY <1>0, <3>3, <3>8, <4>3, OneMoreIsBounded DEF Bounded, Full
      <4>5. Bounded(m)
        BY <3>3, <4>3, <4>4 DEF Bounded
      <4>6. \A f \in s.families : f.id <= issued /\ f.id \in Nat
        <5>1. Sound(s, now, clients, refreshTtl, began, replayed, given, issued, asked)
          BY <2>1, PrunedIsSound
        <5> QED BY <2>2, <5>1 DEF Sound, FamiliesOK, Store, Family, Issues
      <4>7. \A f \in s.families : f.id # family.id
        <5>1. \A k \in Nat : k <= issued => k # issued + 1
          BY <4>2
        <5> QED BY <4>2, <4>6, <5>1
      <4>8. \A f, g \in m.families : f.id = g.id => f = g
        BY <2>2, <3>2, <4>3, <4>7
      <4>9. Issue(m, code.grant, family.id) /\ ~Full(m.tokens) /\ Cardinality(m.refresh) < RefreshCapacity /\ Types
        BY <3>8, <4>1, <4>3 DEF GrantsInv
      <4> QED BY <4>3, <4>5, <4>8, <4>9, IssueIsBounded
    <3> QED BY <3>5, <3>6, <3>7, <3>8
  <2>10. ASSUME NEW c \in ClientIds, NEW r \in s.refresh, NEW proper \in BOOLEAN, Refresh(r, c, proper) PROVE Bounded(store')
    <3>1. PICK mine : mine = CHOOSE x \in s.families : x.id = r.family
      OBVIOUS
    <3>2. \/ store' = s
          \/ store' = Revoked(s, mine.id)
          \/ ~Full(s.tokens) /\ ~ (Cardinality(s.refresh) >= RefreshCapacity) /\ Issue(s, mine.grant, mine.id)
      <4>1. CASE mine.client # c \/ refreshTtl = 0
        BY <2>1, <2>10, <3>1, <4>1 DEF Refresh, Refuse
      <4>2. CASE mine.client = c /\ refreshTtl # 0 /\ mine.current # r.id
        BY <2>1, <2>10, <3>1, <4>2 DEF Refresh
      <4>3. CASE mine.client = c /\ refreshTtl # 0 /\ mine.current = r.id
        BY <2>1, <2>10, <3>1, <4>3 DEF Refresh, Refuse
      <4> QED BY <4>1, <4>2, <4>3
    <3>3. CASE store' = s
      BY <2>3, <3>3
    <3>4. CASE store' = Revoked(s, mine.id)
      <4>1. PICK d : d = store'
        OBVIOUS
      <4>2. /\ d.pending = s.pending /\ d.codes = s.codes /\ d.tokens \subseteq s.tokens
            /\ d.families \subseteq s.families /\ d.refresh \subseteq s.refresh
        BY <2>2, <3>4, <4>1 DEF Revoked, Store
      <4> QED BY <2>3, <4>1, <4>2, LessIsBounded
    <3>5. CASE ~Full(s.tokens) /\ ~ (Cardinality(s.refresh) >= RefreshCapacity) /\ Issue(s, mine.grant, mine.id)
      <4>1. Cardinality(s.refresh) \in Nat
        BY <2>3, FS_CardinalityType DEF Bounded, AtMost
      <4>2. Cardinality(s.refresh) < RefreshCapacity
        BY <1>0, <3>5, <4>1
      <4> QED BY <2>2, <2>3, <3>5, <4>2, IssueIsBounded DEF GrantsInv
    <3> QED BY <3>2, <3>3, <3>4, <3>5
  <2>11. CASE \E c \in ClientIds : Register(c)
    BY <2>4, <2>11 DEF Register
  <2>12. CASE Tick \/ UNCHANGED grantsVars
    BY <2>4, <2>12 DEF Tick, grantsVars
  <2>13. CASE Refuse \/ Restart
    BY <2>1, <2>5, <2>6, <2>13 DEF Refuse, Restart
  <2> QED BY <2>1, <2>7, <2>8, <2>9, <2>10, <2>11, <2>12, <2>13 DEF GrantsNext
<1>3. GrantsInv /\ Bounded(store) => GrantsTypeOK
  <2> SUFFICES ASSUME GrantsInv, Bounded(store) PROVE GrantsTypeOK
    OBVIOUS
  <2>1. \A map \in {store.pending, store.codes, store.tokens, store.families} : Cardinality(map) <= Capacity
    BY DEF Bounded, AtMost
  <2>2. Cardinality(store.refresh) <= RefreshCapacity
    BY DEF Bounded, AtMost
  <2> QED BY <2>1, <2>2 DEF GrantsInv, Types, GrantsTypeOK
<1> QED BY <1>1, <1>2, <1>3, GrantsStay, PTL DEF GrantsSpec
=============================================================================
