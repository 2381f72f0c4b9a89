-------------------------- MODULE RemoteVaultProofs --------------------------
(***************************************************************************)
(* Proofs about what a reader of a remote vault is shown (AlgoliaListing)  *)
(* and about the commands that carry a whole one out and back              *)
(* (VaultTransfer), for any processes, tasks, mutations, faults, paths and *)
(* texts.                                                                  *)
(*                                                                         *)
(* Listings.  Tokens are minted in order and the sentinel is always        *)
(* the last one, so what a token announced never exceeds what a later one  *)
(* announced, nor what has landed.  A listing browses after it read its    *)
(* token: what it holds from then on covers that token (Covers), and so    *)
(* does every entry a cache keeps under it.                                *)
(***************************************************************************)
EXTENDS AlgoliaListing, VaultTransfer, FiniteSetTheorems, TLAPS

Announces ==
  /\ sentinel = minted
  /\ ownListed \in [Procs -> Count]
  /\ \A s, t \in Count : (s <= t /\ t <= minted) => announced[s] <= announced[t]
  /\ \A t \in Count : t <= minted => announced[t] <= landed
  /\ \A p \in Procs : ownListed[p] <= landed

\* What a listing values n obtained under token t by process p must reflect.
Covers(n, t, p) == n >= announced[t] /\ n >= ownListed[p]

TaskInv(k) ==
  LET o == task[k] IN
  /\ o.token <= minted
  /\ o.owed <= landed /\ o.own <= ownListed[ProcOf(k)] /\ o.mine <= landed
  /\ o.at = "token" => o.owed <= announced[minted]
  /\ o.token # NoToken => o.owed <= announced[o.token]
  /\ o.at \in {"observe", "lookup", "put"} => o.token # NoToken
  /\ o.at \in {"browsing", "put"} => o.values >= o.owed /\ Covers(o.values, o.token, ProcOf(k))
  /\ o.at = "listed" => o.values >= o.owed /\ o.values >= o.own

CacheInv(p) ==
  /\ listings[p].token <= minted
  /\ listings[p].entry # NoEntry => Covers(listings[p].entry, listings[p].token, p)

IInv ==
  /\ TypeOK
  /\ Announces
  /\ \A k \in Task : TaskInv(k)
  /\ \A p \in Procs : CacheInv(p)

----------------------------------------------------------------------------
(* The steps.                                                              *)

\* What every step leaves standing of the history of the index.
Extends ==
  /\ minted <= minted' /\ landed <= landed'
  /\ \A t \in Count : t <= minted => announced'[t] = announced[t]
  /\ \A p \in Procs : ownListed[p] <= ownListed'[p]

\* What holds of one task survives the steps of the others.
LEMMA TaskInvKept ==
  ASSUME IInv, TypeOK', Announces', Extends, NEW j \in Task, TaskInv(j), task'[j] = task[j],
         \/ ownListed'[ProcOf(j)] = ownListed[ProcOf(j)]
         \/ task[j].at \notin {"browsing", "put"}
  PROVE  TaskInv(j)'
<1>1. /\ minted \in Count /\ minted' \in Count /\ landed \in Nat /\ landed' \in Nat
      /\ task[j] \in TaskState /\ ProcOf(j) \in Procs
  BY ListingAssumption DEF IInv, TypeOK, Count, ProcOf
<1>2. task[j].token \in Count /\ task[j].token <= minted
  BY <1>1, ListingAssumption DEF TaskInv, TaskState, Token, NoToken, Count
<1>3. announced'[task[j].token] = announced[task[j].token]
  BY <1>2 DEF Extends
<1>4. announced[minted] = announced'[minted] /\ announced'[minted] <= announced'[minted']
  BY <1>1 DEF Extends, Announces, Count
<1>5. /\ \A t \in Count : announced[t] \in Nat /\ announced'[t] \in Nat
      /\ ownListed[ProcOf(j)] \in Nat /\ ownListed'[ProcOf(j)] \in Nat
  BY <1>1, ListingAssumption DEF IInv, TypeOK, Count, Token, NoToken
<1>6. /\ task[j].owed \in Nat /\ task[j].own \in Nat /\ task[j].mine \in Nat
      /\ task[j].values \in Nat /\ task[j].token \in Nat
      /\ minted \in Nat /\ minted' \in Nat
  BY <1>1, <1>2 DEF TaskState, Count
<1>7. /\ task[j].token <= minted' /\ task[j].owed <= landed'
      /\ task[j].own <= ownListed'[ProcOf(j)] /\ task[j].mine <= landed'
  BY <1>1, <1>2, <1>5, <1>6 DEF TaskInv, Extends
<1>8. task[j].at = "token" => task[j].owed <= announced'[minted']
  <2>1. announced[minted] \in Nat /\ announced'[minted'] \in Nat
    BY <1>1, <1>5
  <2> QED BY <1>4, <1>6, <2>1 DEF TaskInv
<1>9. task[j].token # NoToken => task[j].owed <= announced'[task[j].token]
  BY <1>3 DEF TaskInv
<1>10. task[j].at \in {"browsing", "put"} =>
         /\ task[j].values >= task[j].owed
         /\ task[j].values >= announced'[task[j].token]
         /\ task[j].values >= ownListed'[ProcOf(j)]
  BY <1>3 DEF TaskInv, Covers
<1>11. /\ task[j].at \in {"observe", "lookup", "put"} => task[j].token # NoToken
       /\ task[j].at = "listed" => task[j].values >= task[j].owed /\ task[j].values >= task[j].own
  BY DEF TaskInv
<1> QED
  BY <1>7, <1>8, <1>9, <1>10, <1>11 DEF TaskInv, Covers

\* A step that leaves the index and the ghosts alone.
LEMMA LocalStep ==
  ASSUME IInv, NEW k \in Task, UNCHANGED <<index, ghosts>>,
         listings' \in [Procs -> ListingState], task' \in [Task -> TaskState],
         \A j \in Task \ {k} : task'[j] = task[j],
         TaskInv(k)',
         \A p \in Procs : CacheInv(p)'
  PROVE  IInv'
<1>1. TypeOK'
  BY DEF IInv, TypeOK, index, ghosts
<1>2. Announces'
  BY DEF IInv, Announces, index, ghosts
<1>3. Extends
  BY ListingAssumption DEF Extends, IInv, TypeOK, Count, index, ghosts
<1>4. \A j \in Task : TaskInv(j)'
  <2> SUFFICES ASSUME NEW j \in Task, j # k PROVE TaskInv(j)'
    OBVIOUS
  <2> QED BY <1>1, <1>2, <1>3, TaskInvKept DEF IInv, ghosts
<1> QED BY <1>1, <1>2, <1>4 DEF IInv

\* Caches that do not change stay as they were.
LEMMA CachesKept ==
  ASSUME IInv, UNCHANGED <<index, ghosts, listings>> PROVE \A p \in Procs : CacheInv(p)'
BY DEF IInv, CacheInv, Covers, index, ghosts

\* The counters of the index and the cache are natural numbers, tokens range over minted ones.
LEMMA Numbers ==
  ASSUME IInv
  PROVE  /\ landed \in Nat /\ minted \in Count /\ minted <= MaxWrites /\ MaxWrites \in Nat
         /\ \A t \in Count : announced[t] \in Count
         /\ \A p \in Procs : ownListed[p] \in Count
         /\ \A k \in Task : task[k] \in TaskState /\ ProcOf(k) \in Procs
         /\ NoToken \in Count /\ Token \subseteq Count
         /\ Count \subseteq Nat /\ sentinel = minted /\ landed \in Count
BY ListingAssumption DEF IInv, TypeOK, Announces, Count, Token, NoToken, ProcOf

\* StartListing keeps the inductive invariant.
LEMMA StartListingStep == ASSUME IInv, NEW k \in Task, StartListing(k) PROVE IInv'
<1> DEFINE t == [IdleTask EXCEPT !.at = "token", !.owed = announced[sentinel],
                                 !.own = ownListed[ProcOf(k)]]
<1>1. /\ task' = [task EXCEPT ![k] = t] /\ UNCHANGED <<index, listings, ghosts>>
  BY DEF StartListing
<1>2. t \in TaskState
  <2>1. announced[sentinel] \in Count /\ ownListed[ProcOf(k)] \in Count /\ 0 \in Count
    BY Numbers DEF NoToken
  <2> QED BY <2>1 DEF IdleTask, TaskState, Stages
<1>3. task' \in [Task -> TaskState] /\ task'[k] = t /\ \A j \in Task \ {k} : task'[j] = task[j]
  BY <1>1, <1>2 DEF IInv, TypeOK
<1>4. /\ t.at = "token" /\ t.token = NoToken /\ t.owed = announced[minted] /\ t.mine = 0
      /\ t.own = ownListed[ProcOf(k)]
  BY Numbers DEF IdleTask
<1>5. TaskInv(k)'
  BY <1>1, <1>3, <1>4, Numbers DEF TaskInv, IInv, Announces, index, ghosts, NoToken, Count
<1> QED
  BY <1>1, <1>3, <1>5, LocalStep, CachesKept DEF IInv, TypeOK

\* FetchToken keeps the inductive invariant.
LEMMA FetchTokenStep == ASSUME IInv, NEW k \in Task, FetchToken(k) PROVE IInv'
<1>1. PICK t \in {sentinel, NoToken} :
        task' = [task EXCEPT ![k].at = IF t = NoToken THEN "browse" ELSE "observe",
                             ![k].token = t]
  BY DEF FetchToken
<1>2. task[k].at = "token" /\ UNCHANGED <<index, listings, ghosts>> /\ TaskInv(k)
  BY DEF FetchToken, IInv
<1>3. t \in {NoToken} \cup Token
  BY DEF IInv, TypeOK
<1>4. /\ task' \in [Task -> TaskState] /\ task'[k].at = IF t = NoToken THEN "browse" ELSE "observe"
      /\ task'[k].token = t /\ task'[k].owed = task[k].owed /\ task'[k].own = task[k].own
      /\ task'[k].mine = task[k].mine /\ \A j \in Task \ {k} : task'[j] = task[j]
  <2> DEFINE v == [task[k] EXCEPT !.at = IF t = NoToken THEN "browse" ELSE "observe", !.token = t]
  <2>1. task' = [task EXCEPT ![k] = v]
    BY <1>1
  <2>2. task \in [Task -> TaskState]
    BY DEF IInv, TypeOK
  <2>3. /\ v \in TaskState /\ v.at = IF t = NoToken THEN "browse" ELSE "observe"
        /\ v.token = t /\ v.owed = task[k].owed /\ v.own = task[k].own /\ v.mine = task[k].mine
    BY <1>3, <2>2 DEF TaskState, Stages
  <2> HIDE DEF v
  <2> QED BY <2>1, <2>2, <2>3
<1>5. TaskInv(k)'
  BY <1>2, <1>4, Numbers DEF TaskInv, index, ghosts, NoToken, Count
<1> QED
  BY <1>2, <1>4, <1>5, LocalStep, CachesKept DEF IInv, TypeOK

\* Observe keeps the inductive invariant.
LEMMA ObserveStep == ASSUME IInv, NEW k \in Task, Observe(k) PROVE IInv'
<1>1. /\ task[k].at = "observe" /\ UNCHANGED <<index, ghosts>> /\ TaskInv(k)
      /\ task[k] \in TaskState /\ ProcOf(k) \in Procs
  BY Numbers DEF Observe, IInv
<1>2. listings' = [listings EXCEPT ![ProcOf(k)] =
                     IF @.token = task[k].token THEN @
                     ELSE [token |-> task[k].token, entry |-> NoEntry]]
  BY DEF Observe
<1>3. [token |-> task[k].token, entry |-> NoEntry] \in ListingState
  BY <1>1 DEF ListingState, TaskState
<1>4. listings' \in [Procs -> ListingState]
  BY <1>2, <1>3 DEF IInv, TypeOK
<1>5. /\ task' \in [Task -> TaskState] /\ task'[k].at = "lookup"
      /\ task'[k].token = task[k].token /\ task'[k].owed = task[k].owed
      /\ task'[k].own = task[k].own /\ task'[k].mine = task[k].mine
      /\ \A j \in Task \ {k} : task'[j] = task[j]
  BY <1>1 DEF Observe, IInv, TypeOK, TaskState, Stages
<1>6. TaskInv(k)'
  BY <1>1, <1>5 DEF TaskInv, index, ghosts
<1>7. \A p \in Procs : CacheInv(p)'
  <2> SUFFICES ASSUME NEW p \in Procs PROVE CacheInv(p)'
    OBVIOUS
  <2>1. listings'[p] = listings[p]
        \/ (listings'[p].token = task[k].token /\ listings'[p].entry = NoEntry)
    BY <1>2 DEF IInv, TypeOK
  <2> QED BY <1>1, <2>1 DEF CacheInv, Covers, IInv, TaskInv, index, ghosts
<1> QED BY <1>1, <1>4, <1>5, <1>6, <1>7, LocalStep

\* Lookup keeps the inductive invariant.
LEMMA LookupStep == ASSUME IInv, NEW k \in Task, Lookup(k) PROVE IInv'
<1>1. /\ task[k].at = "lookup" /\ UNCHANGED <<index, listings, ghosts>> /\ TaskInv(k)
      /\ task[k] \in TaskState /\ ProcOf(k) \in Procs /\ CacheInv(ProcOf(k))
  BY Numbers DEF Lookup, IInv
<1>2. CASE Hit(k)
  <2>1. /\ listings[ProcOf(k)].entry \in Count /\ listings[ProcOf(k)].token = task[k].token
        /\ Covers(listings[ProcOf(k)].entry, task[k].token, ProcOf(k))
    BY <1>1, <1>2 DEF Hit, CacheInv, IInv, TypeOK, ListingState
  <2>2. task' = [task EXCEPT ![k] = [@ EXCEPT !.at = "listed",
                                             !.values = listings[ProcOf(k)].entry]]
    BY <1>2 DEF Lookup
  <2>3. /\ task' \in [Task -> TaskState] /\ task'[k].at = "listed"
        /\ task'[k].values = listings[ProcOf(k)].entry
        /\ task'[k].token = task[k].token /\ task'[k].owed = task[k].owed
        /\ task'[k].own = task[k].own /\ task'[k].mine = task[k].mine
        /\ \A j \in Task \ {k} : task'[j] = task[j]
    BY <1>1, <2>1, <2>2 DEF IInv, TypeOK, TaskState, Stages
  <2>4. task[k].owed \in Nat /\ task[k].own \in Nat /\ task[k].token \in Count
        /\ announced[task[k].token] \in Nat /\ ownListed[ProcOf(k)] \in Nat
    BY <1>1, Numbers DEF TaskState
  <2>5. TaskInv(k)'
    BY <1>1, <2>1, <2>3, <2>4, Numbers DEF TaskInv, Covers, index, ghosts
  <2> QED BY <1>1, <2>3, <2>5, LocalStep, CachesKept DEF IInv, TypeOK
<1>3. CASE ~Hit(k)
  <2>1. task' = [task EXCEPT ![k] = [@ EXCEPT !.at = "browse"]]
    BY <1>3 DEF Lookup
  <2>2. /\ task' \in [Task -> TaskState] /\ task'[k].at = "browse"
        /\ task'[k].token = task[k].token /\ task'[k].owed = task[k].owed
        /\ task'[k].own = task[k].own /\ task'[k].mine = task[k].mine
        /\ \A j \in Task \ {k} : task'[j] = task[j]
    BY <1>1, <2>1 DEF IInv, TypeOK, TaskState, Stages
  <2>3. TaskInv(k)'
    BY <1>1, <2>2 DEF TaskInv, index, ghosts
  <2> QED BY <1>1, <2>2, <2>3, LocalStep, CachesKept DEF IInv, TypeOK
<1> QED BY <1>2, <1>3

\* BrowseStarts keeps the inductive invariant.
LEMMA BrowseStartsStep == ASSUME IInv, NEW k \in Task, BrowseStarts(k) PROVE IInv'
<1>1. /\ task[k].at = "browse" /\ UNCHANGED <<index, listings, ghosts>> /\ TaskInv(k)
      /\ task[k] \in TaskState /\ ProcOf(k) \in Procs /\ landed \in Count
  BY Numbers DEF BrowseStarts, IInv
<1>2. /\ task' \in [Task -> TaskState] /\ task'[k].at = "browsing" /\ task'[k].values = landed
      /\ task'[k].token = task[k].token /\ task'[k].owed = task[k].owed
      /\ task'[k].own = task[k].own /\ task'[k].mine = task[k].mine
      /\ \A j \in Task \ {k} : task'[j] = task[j]
  BY <1>1 DEF BrowseStarts, IInv, TypeOK, TaskState, Stages
\* All that any token announced has landed, so the browse covers the token.
<1>3. Covers(landed, task[k].token, ProcOf(k)) /\ landed >= task[k].owed
  <2>1. /\ announced[task[k].token] <= landed /\ ownListed[ProcOf(k)] <= landed
        /\ task[k].owed <= landed
    BY <1>1, Numbers DEF IInv, Announces, TaskInv, TaskState
  <2>2. /\ announced[task[k].token] \in Nat /\ ownListed[ProcOf(k)] \in Nat
        /\ task[k].owed \in Nat /\ landed \in Nat
    BY <1>1, Numbers DEF TaskState
  <2> QED BY <2>1, <2>2 DEF Covers
<1>4. TaskInv(k)'
  BY <1>1, <1>2, <1>3 DEF TaskInv, Covers, index, ghosts
<1> QED BY <1>1, <1>2, <1>4, LocalStep, CachesKept DEF IInv, TypeOK

\* BrowseEnds keeps the inductive invariant.
LEMMA BrowseEndsStep == ASSUME IInv, NEW k \in Task, BrowseEnds(k) PROVE IInv'
<1>1. /\ task[k].at = "browsing" /\ UNCHANGED <<index, listings, ghosts>> /\ TaskInv(k)
      /\ task[k] \in TaskState /\ ProcOf(k) \in Procs /\ landed \in Count
  BY Numbers DEF BrowseEnds, IInv
<1>2. PICK n \in task[k].values .. landed :
        task' = [task EXCEPT ![k].values = n,
                             ![k].at = IF task[k].token = NoToken THEN "listed" ELSE "put"]
  BY DEF BrowseEnds
<1>3. n \in Count /\ n >= task[k].values /\ task[k].values \in Nat
  BY <1>1, Numbers DEF TaskState, Count
<1>4. /\ task' \in [Task -> TaskState] /\ task'[k].values = n
      /\ task'[k].at = IF task[k].token = NoToken THEN "listed" ELSE "put"
      /\ task'[k].token = task[k].token /\ task'[k].owed = task[k].owed
      /\ task'[k].own = task[k].own /\ task'[k].mine = task[k].mine
      /\ \A j \in Task \ {k} : task'[j] = task[j]
  BY <1>1, <1>2, <1>3 DEF IInv, TypeOK, TaskState, Stages
<1>5. Covers(n, task[k].token, ProcOf(k)) /\ n >= task[k].owed /\ n >= task[k].own
  <2>1. /\ announced[task[k].token] \in Nat /\ ownListed[ProcOf(k)] \in Nat
        /\ task[k].owed \in Nat /\ task[k].own \in Nat /\ n \in Nat
    BY <1>1, <1>3, Numbers DEF TaskState
  <2> QED BY <1>1, <1>3, <2>1 DEF TaskInv, Covers
<1>6. TaskInv(k)'
  BY <1>1, <1>4, <1>5 DEF TaskInv, Covers, index, ghosts
<1> QED BY <1>1, <1>4, <1>6, LocalStep, CachesKept DEF IInv, TypeOK

\* Put keeps the inductive invariant.
LEMMA PutStep == ASSUME IInv, NEW k \in Task, Put(k) PROVE IInv'
<1>1. /\ task[k].at = "put" /\ UNCHANGED <<index, ghosts>> /\ TaskInv(k)
      /\ task[k] \in TaskState /\ ProcOf(k) \in Procs
  BY Numbers DEF Put, IInv
<1>2. /\ task' \in [Task -> TaskState] /\ task'[k].at = "listed"
      /\ task'[k].values = task[k].values
      /\ task'[k].token = task[k].token /\ task'[k].owed = task[k].owed
      /\ task'[k].own = task[k].own /\ task'[k].mine = task[k].mine
      /\ \A j \in Task \ {k} : task'[j] = task[j]
  BY <1>1 DEF Put, IInv, TypeOK, TaskState, Stages
<1>3. task[k].values >= task[k].own
  <2>1. /\ ownListed[ProcOf(k)] \in Nat /\ task[k].own \in Nat /\ task[k].values \in Nat
    BY <1>1, Numbers DEF TaskState
  <2> QED BY <1>1, <2>1 DEF TaskInv, Covers
<1>4. TaskInv(k)'
  BY <1>1, <1>2, <1>3 DEF TaskInv, index, ghosts
<1>5. listings' = [listings EXCEPT ![ProcOf(k)] =
                     IF @.token = task[k].token THEN [@ EXCEPT !.entry = task[k].values] ELSE @]
  BY DEF Put
<1>6. listings' \in [Procs -> ListingState]
  <2>1. task[k].values \in Count /\ listings[ProcOf(k)] \in ListingState
    BY <1>1 DEF TaskState, IInv, TypeOK
  <2>2. [listings[ProcOf(k)] EXCEPT !.entry = task[k].values] \in ListingState
    BY <2>1 DEF ListingState
  <2> QED BY <1>5, <2>2 DEF IInv, TypeOK
<1>7. \A p \in Procs : CacheInv(p)'
  <2> SUFFICES ASSUME NEW p \in Procs PROVE CacheInv(p)'
    OBVIOUS
  <2>1. \/ listings'[p] = listings[p]
        \/ /\ p = ProcOf(k) /\ listings'[p].token = task[k].token
           /\ listings'[p].entry = task[k].values
    BY <1>5 DEF IInv, TypeOK, ListingState
  <2> QED BY <1>1, <2>1 DEF CacheInv, IInv, TaskInv, Covers, index, ghosts
<1> QED BY <1>1, <1>2, <1>4, <1>6, <1>7, LocalStep

\* An idle task is well typed.
LEMMA IdleInv == ASSUME IInv PROVE IdleTask \in TaskState
<1>1. 0 \in Count
  BY Numbers DEF NoToken
<1> QED BY <1>1 DEF IdleTask, TaskState, Stages

\* A task that ends owes nothing.
LEMMA EndsStep ==
  ASSUME IInv, NEW k \in Task, UNCHANGED <<index, listings, ghosts>>,
         \/ task' = [task EXCEPT ![k] = IdleTask]
         \/ task' = [task EXCEPT ![k] = [IdleTask EXCEPT !.at = "save"]]
  PROVE  IInv'
<1>1. IdleTask \in TaskState /\ [IdleTask EXCEPT !.at = "save"] \in TaskState
  BY IdleInv DEF TaskState, Stages
<1>2. /\ task' \in [Task -> TaskState] /\ \A j \in Task \ {k} : task'[j] = task[j]
      /\ task'[k] = IdleTask \/ task'[k] = [IdleTask EXCEPT !.at = "save"]
  BY <1>1 DEF IInv, TypeOK
<1>3. /\ minted' \in Nat /\ landed' \in Nat /\ \A p \in Procs : ownListed'[p] \in Nat
      /\ ProcOf(k) \in Procs
  BY Numbers DEF index, ghosts
<1>4. TaskInv(k)'
  BY <1>2, <1>3 DEF TaskInv, IdleTask, NoToken
<1> QED BY <1>2, <1>4, LocalStep, CachesKept DEF IInv, TypeOK

\* SaveHead keeps the inductive invariant.
LEMMA SaveHeadStep == ASSUME IInv, NEW k \in Task, SaveHead(k) PROVE IInv'
<1>1. /\ task[k].at = "save" /\ landed < MaxWrites /\ landed' = landed + 1
      /\ UNCHANGED <<sentinel, minted, listings, ghosts>> /\ TaskInv(k)
      /\ task[k] \in TaskState /\ ProcOf(k) \in Procs
  BY Numbers DEF SaveHead, IInv
<1>2. landed \in Nat /\ landed' \in Count
  BY <1>1, Numbers DEF Count
<1>3. /\ task' \in [Task -> TaskState] /\ task'[k].at = "bump" /\ task'[k].mine = landed + 1
      /\ task'[k].token = task[k].token /\ task'[k].owed = task[k].owed
      /\ task'[k].own = task[k].own
      /\ \A j \in Task \ {k} : task'[j] = task[j]
  BY <1>1, <1>2 DEF SaveHead, IInv, TypeOK, TaskState, Stages
<1>4. TypeOK'
  BY <1>1, <1>2, <1>3 DEF IInv, TypeOK, ghosts
<1>5. Announces'
  <2>1. \A t \in Count : announced[t] \in Nat
    BY Numbers
  <2>2. \A p \in Procs : ownListed[p] \in Nat
    BY Numbers
  <2> QED BY <1>1, <1>2, <2>1, <2>2 DEF IInv, Announces, ghosts
<1>6. Extends
  BY <1>1, <1>2, Numbers DEF Extends, ghosts, Count
<1>7. task[k].owed \in Nat /\ task[k].mine \in Nat
  BY <1>1, Numbers DEF TaskState
<1>8. TaskInv(k)'
  BY <1>1, <1>2, <1>3, <1>7 DEF TaskInv, ghosts
<1>9. \A j \in Task : TaskInv(j)'
  BY <1>1, <1>3, <1>4, <1>5, <1>6, <1>8, TaskInvKept DEF IInv, ghosts
<1>10. \A p \in Procs : CacheInv(p)'
  BY <1>1 DEF IInv, CacheInv, Covers, ghosts
<1> QED BY <1>4, <1>5, <1>9, <1>10 DEF IInv

\* The new token announces all that has landed.
LEMMA BumpStep == ASSUME IInv, NEW k \in Task, Bump(k) PROVE IInv'
<1>1. /\ task[k].at = "bump" /\ minted < MaxWrites /\ minted' = minted + 1
      /\ sentinel' = minted + 1 /\ announced' = [announced EXCEPT ![minted + 1] = landed]
      /\ UNCHANGED <<landed, listings, ownListed, finished>> /\ TaskInv(k)
      /\ task[k] \in TaskState /\ ProcOf(k) \in Procs
  BY Numbers DEF Bump, IInv
<1>2. minted \in Nat /\ minted' \in Count /\ minted' \in Token /\ landed \in Count
  BY <1>1, Numbers DEF Count, Token
<1>3. /\ task' \in [Task -> TaskState] /\ task'[k].at = "clear" /\ task'[k].mine = task[k].mine
      /\ task'[k].token = task[k].token /\ task'[k].owed = task[k].owed
      /\ task'[k].own = task[k].own
      /\ \A j \in Task \ {k} : task'[j] = task[j]
  BY <1>1 DEF Bump, IInv, TypeOK, TaskState, Stages
<1>4. TypeOK'
  BY <1>1, <1>2, <1>3 DEF IInv, TypeOK
<1>5. /\ \A t \in Count : t <= minted => announced'[t] = announced[t]
      /\ announced'[minted'] = landed
  BY <1>1, <1>2, Numbers DEF IInv, TypeOK
<1>6. \A t \in Count : announced[t] \in Nat
  BY Numbers
<1>7. \A t \in Count : t <= minted' => announced'[t] <= landed
  <2> SUFFICES ASSUME NEW t \in Count, t <= minted' PROVE announced'[t] <= landed
    OBVIOUS
  <2>1. t \in Nat /\ (t <= minted \/ t = minted')
    BY <1>1, <1>2, Numbers
  <2> QED BY <1>2, <1>5, <2>1, Numbers DEF IInv, Announces
<1>8. \A s, t \in Count : (s <= t /\ t <= minted') => announced'[s] <= announced'[t]
  <2> SUFFICES ASSUME NEW s \in Count, NEW t \in Count, s <= t, t <= minted'
               PROVE  announced'[s] <= announced'[t]
    OBVIOUS
  <2>1. s \in Nat /\ t \in Nat /\ (t <= minted \/ t = minted')
    BY <1>1, <1>2, Numbers
  <2>2. CASE t <= minted
    <3>1. s <= minted
      BY <1>2, <2>1, <2>2
    <3> QED BY <1>5, <2>2, <3>1 DEF IInv, Announces
  <2>3. CASE t = minted'
    <3>1. s <= minted'
      BY <2>3
    <3> QED BY <1>5, <1>7, <2>3, <3>1
  <2> QED BY <2>1, <2>2, <2>3
<1>9. Announces'
  BY <1>1, <1>7, <1>8 DEF IInv, Announces
<1>10. Extends
  BY <1>1, <1>2, <1>5, Numbers DEF Extends, Count
<1>11. task[k].token \in Nat /\ task[k].token <= minted /\ task[k].token \in Count
  BY <1>1, Numbers DEF TaskInv, TaskState
<1>12. TaskInv(k)'
  BY <1>1, <1>2, <1>3, <1>5, <1>11 DEF TaskInv
<1>13. \A j \in Task : TaskInv(j)'
  BY <1>1, <1>3, <1>4, <1>9, <1>10, <1>12, TaskInvKept DEF IInv
<1>14. \A p \in Procs : CacheInv(p)'
  <2> SUFFICES ASSUME NEW p \in Procs PROVE CacheInv(p)'
    OBVIOUS
  <2>1. listings[p].token \in Count /\ listings[p].token <= minted /\ CacheInv(p)
    BY Numbers DEF IInv, CacheInv, TypeOK, ListingState
  <2>2. listings[p].token <= minted' /\ announced'[listings[p].token] = announced[listings[p].token]
    BY <1>1, <1>2, <1>5, <2>1, Numbers
  <2> QED BY <1>1, <2>1, <2>2 DEF CacheInv, Covers
<1> QED BY <1>4, <1>9, <1>13, <1>14 DEF IInv

\* BumpFails keeps the inductive invariant.
LEMMA BumpFailsStep == ASSUME IInv, NEW k \in Task, BumpFails(k) PROVE IInv'
<1>1. UNCHANGED <<index, listings, ghosts>> /\ TaskInv(k) /\ task[k].at = "bump"
  BY DEF BumpFails, IInv
<1>2. /\ task' \in [Task -> TaskState] /\ task'[k].at = "clear" /\ task'[k].mine = task[k].mine
      /\ task'[k].token = task[k].token /\ task'[k].owed = task[k].owed
      /\ task'[k].own = task[k].own
      /\ \A j \in Task \ {k} : task'[j] = task[j]
  BY DEF BumpFails, IInv, TypeOK, TaskState, Stages
<1>3. TaskInv(k)'
  BY <1>1, <1>2 DEF TaskInv, index, ghosts
<1> QED BY <1>1, <1>2, <1>3, LocalStep, CachesKept DEF IInv, TypeOK

\* The clear leaves nothing of this process that was listed before the mutation
\* when none of its listings is in flight.
LEMMA ClearStep == ASSUME IInv, NEW k \in Task, Clear(k) PROVE IInv'
<1> DEFINE p == ProcOf(k)
<1>1. /\ task[k].at = "clear" /\ UNCHANGED <<index, announced>> /\ TaskInv(k)
      /\ listings' = [listings EXCEPT ![p] = EmptyListing]
      /\ task' = [task EXCEPT ![k] = IdleTask]
      /\ ownListed' = [ownListed EXCEPT ![p] = IF ListingInFlight(p) THEN @
                                               ELSE Later(@, task[k].mine)]
      /\ finished' = [finished EXCEPT ![p] = Later(@, task[k].mine)]
      /\ task[k] \in TaskState /\ p \in Procs
  BY Numbers DEF Clear, IInv
<1>2. /\ task[k].mine \in Count /\ ownListed[p] \in Count /\ finished[p] \in Count
      /\ ownListed[p] <= landed /\ task[k].mine <= landed
  BY <1>1 DEF IInv, TypeOK, TaskState, TaskInv, Announces
<1>3. /\ ownListed'[p] \in Count /\ ownListed'[p] >= ownListed[p] /\ ownListed'[p] <= landed
      /\ \A q \in Procs \ {p} : ownListed'[q] = ownListed[q]
      /\ ListingInFlight(p) => ownListed'[p] = ownListed[p]
      /\ ownListed' \in [Procs -> Count] /\ finished' \in [Procs -> Count]
  BY <1>1, <1>2, Numbers DEF Later, IInv, TypeOK
<1>4. EmptyListing \in ListingState
  BY DEF EmptyListing, ListingState
<1>5. TypeOK'
  BY <1>1, <1>3, <1>4, IdleInv DEF IInv, TypeOK, index
<1>6. Announces'
  BY <1>1, <1>3 DEF IInv, Announces, index
<1>7. Extends
  <2>1. \A q \in Procs : ownListed[q] <= ownListed'[q]
    BY <1>3, Numbers
  <2> QED BY <1>1, <2>1, Numbers DEF Extends, index
<1>8. TaskInv(k)'
  <2>1. /\ minted' \in Nat /\ landed' \in Nat /\ \A q \in Procs : ownListed'[q] \in Nat
        /\ task'[k] = IdleTask
    BY <1>1, <1>3, Numbers DEF index, IInv, TypeOK
  <2> QED BY <1>1, <2>1 DEF TaskInv, IdleTask, NoToken
<1>9. ASSUME NEW j \in Task, j # k PROVE TaskInv(j)'
  <2>1. TaskInv(j) /\ task'[j] = task[j] /\ ProcOf(j) \in Procs
    BY <1>1, <1>9, Numbers DEF IInv, TypeOK
  <2>2. \/ ownListed'[ProcOf(j)] = ownListed[ProcOf(j)]
        \/ task[j].at \notin {"browsing", "put"}
    BY <1>3, <2>1 DEF ListingInFlight
  <2> QED BY <1>5, <1>6, <1>7, <2>1, <2>2, TaskInvKept
<1>10. ASSUME NEW q \in Procs PROVE CacheInv(q)'
  <2>1. CASE q = p
    BY <1>1, <2>1, Numbers DEF CacheInv, EmptyListing, IInv, TypeOK, index, NoToken
  <2>2. CASE q # p
    BY <1>1, <1>3, <2>2 DEF CacheInv, Covers, IInv, TypeOK, index
  <2> QED BY <2>1, <2>2
<1> QED BY <1>5, <1>6, <1>8, <1>9, <1>10 DEF IInv

\* Crash keeps the inductive invariant.
LEMMA CrashStep == ASSUME IInv, NEW p \in Procs, Crash(p) PROVE IInv'
<1>1. /\ task' = [k \in Task |-> IF ProcOf(k) = p THEN IdleTask ELSE task[k]]
      /\ listings' = [listings EXCEPT ![p] = EmptyListing] /\ UNCHANGED <<index, ghosts>>
  BY DEF Crash
<1>2. TypeOK'
  BY <1>1, IdleInv DEF IInv, TypeOK, index, ghosts, EmptyListing, ListingState
<1>3. Announces'
  BY <1>1 DEF IInv, Announces, index, ghosts
<1>4. ASSUME NEW k \in Task PROVE TaskInv(k)'
  <2>1. CASE ProcOf(k) = p
    <3>1. /\ minted' \in Nat /\ landed' \in Nat /\ \A q \in Procs : ownListed'[q] \in Nat
          /\ task'[k] = IdleTask
      BY <1>1, <2>1, Numbers DEF index, ghosts
    <3> QED BY <2>1, <3>1 DEF TaskInv, IdleTask, NoToken
  <2>2. CASE ProcOf(k) # p
    BY <1>1, <2>2 DEF IInv, TaskInv, Covers, index, ghosts
  <2> QED BY <2>1, <2>2
<1>5. ASSUME NEW q \in Procs PROVE CacheInv(q)'
  <2>1. CASE q = p
    BY <1>1, <2>1, Numbers DEF CacheInv, EmptyListing, IInv, TypeOK, index, NoToken
  <2>2. CASE q # p
    BY <1>1, <2>2 DEF CacheInv, Covers, IInv, TypeOK, index, ghosts
  <2> QED BY <2>1, <2>2
<1> QED BY <1>2, <1>3, <1>4, <1>5 DEF IInv

----------------------------------------------------------------------------
(* The inductive invariant and its consequences.                           *)

\* The initial state satisfies the inductive invariant.
LEMMA InvInit == Init => IInv
<1> SUFFICES ASSUME Init PROVE IInv
  OBVIOUS
<1>1. MaxWrites \in Nat /\ 0 \in Count
  BY ListingAssumption DEF Count
<1>2. IdleTask \in TaskState /\ EmptyListing \in ListingState
  BY <1>1 DEF IdleTask, TaskState, Stages, EmptyListing, ListingState
<1>3. TypeOK
  BY <1>1, <1>2 DEF Init, TypeOK
<1>4. Announces
  BY <1>1 DEF Init, Announces, Count, Token, NoToken
<1>5. ASSUME NEW k \in Task PROVE TaskInv(k)
  <2>1. ProcOf(k) \in Procs
    BY ListingAssumption DEF ProcOf
  <2> QED BY <2>1 DEF Init, TaskInv, IdleTask, NoToken
<1>6. ASSUME NEW p \in Procs PROVE CacheInv(p)
  BY DEF Init, CacheInv, EmptyListing, NoToken
<1> QED BY <1>3, <1>4, <1>5, <1>6 DEF IInv

\* Every step keeps the inductive invariant.
LEMMA InvNext == IInv /\ [Next]_vars => IInv'
<1> SUFFICES ASSUME IInv, [Next]_vars PROVE IInv'
  OBVIOUS
<1>1. ASSUME NEW k \in Task, ReturnListing(k) \/ TaskFails(k) \/ StartMutation(k) PROVE IInv'
  BY <1>1, EndsStep DEF ReturnListing, TaskFails, StartMutation
<1>2. CASE UNCHANGED vars
  <2>1. TypeOK' /\ Announces'
    BY <1>2 DEF IInv, TypeOK, Announces, vars, index, ghosts
  <2>2. (\A k \in Task : TaskInv(k))' /\ (\A p \in Procs : CacheInv(p))'
    BY <1>2 DEF IInv, TaskInv, CacheInv, Covers, vars, index, ghosts
  <2> QED BY <2>1, <2>2 DEF IInv
<1> QED
  BY <1>1, <1>2, StartListingStep, FetchTokenStep, ObserveStep, LookupStep, BrowseStartsStep,
     BrowseEndsStep, PutStep, SaveHeadStep, BumpStep, BumpFailsStep, ClearStep, CrashStep
     DEF Next, Listing, Mutation

\* The inductive invariant holds in every reachable state.
THEOREM InductiveInvariant == Spec => []IInv
  BY InvInit, InvNext, PTL DEF Spec

\* Every reachable state of the listing cache is well typed (generation.rs).
THEOREM TypeCorrect == Spec => []TypeOK
  BY InductiveInvariant, PTL DEF IInv

\* A listing reflects every mutation announced before it was asked for: cached
\* reads the token before the browse and puts only under that token.
THEOREM AnnouncedMutationsAreListed == Spec => []AnnouncedIsListed
<1>1. IInv => AnnouncedIsListed
  BY DEF IInv, TaskInv, AnnouncedIsListed
<1> QED BY <1>1, InductiveInvariant, PTL

\* A write-then-list through one process shows the write, bump or no bump,
\* unless a listing was in flight: bump always clears the local cache.
THEOREM OwnWritesAreListed == Spec => []OwnWriteIsListed
<1>1. IInv => OwnWriteIsListed
  BY DEF IInv, TaskInv, OwnWriteIsListed
<1> QED BY <1>1, InductiveInvariant, PTL

\* An entry kept under a token includes all that the token announced.
THEOREM CachesAreCoherent == Spec => []CacheCoherent
<1>1. IInv => CacheCoherent
  BY DEF IInv, CacheInv, Covers, CacheCoherent
<1> QED BY <1>1, InductiveInvariant, PTL

----------------------------------------------------------------------------
(***************************************************************************)
(* The transfers.  What a command found, read, wrote and removed, against  *)
(* what the vault held since it began (HistoryOK): each command carries    *)
(* what its end promises for the paths it is past (ExportOK, RestoreOK,    *)
(* SeedOK).                                                                *)
(***************************************************************************)

\* A head that is live has a text, a CouchDB tombstone keeps its own, and a note
\* is stored as text.
RemoteOK ==
  \A p \in Paths : \A i \in 1 .. Len(remote[p]) :
    /\ remote[p][i].text = NoText => remote[p][i].deleted /\ store = "algolia"
    /\ p \in Notes => remote[p][i].stored = "text"

RowsOK == \A p \in Notes : manifest.rows[p].stored = "text" /\ transfer.rows[p].stored = "text"

HistoryOK ==
  /\ transfers = 0 => transfer.name = "none"
  /\ transfers # 0 =>
       /\ \A p \in Paths : Live(p) => HeadOf(p).text \in since.lived[p]
       /\ \A p \in since.always : Live(p)
  /\ \A p \in Paths : IsFiniteSet(since.lived[p])

StagesOK ==
  /\ transfer.name = "none" => transfer.at = "idle"
  /\ transfer.name = "export" => transfer.at \in {"read", "stat", "done"}
  /\ transfer.name = "restore" => transfer.at \in {"read", "write", "push", "done"}
  /\ transfer.name = "seed" => transfer.at \in {"plan", "import", "push", "verify", "remove", "done"}
  /\ transfer.name = "retract" => transfer.at \in {"confirm", "done"}

\* The row and the file of p; where one text only was there, it is the text of
\* the revision in the row.
RowTrue(p, row) ==
  /\ row.rev \in 1 .. Len(remote[p]) /\ row.text \in since.lived[p]
  /\ p \notin since.touched => tree[p] = row.text
  /\ since.lived[p] = {row.text} \/ store = "algolia" => remote[p][row.rev].text = row.text

ExportOK ==
  transfer.name = "export" =>
    /\ \A p \in transfer.todo :
         /\ transfer.rows[p].rev = 0 /\ Exists(p)
         /\ store = "couchdb" => HeadOf(p).text \in since.lived[p]
    /\ \A p \in since.always \ transfer.todo : transfer.rows[p].rev # 0
    /\ \A p \in Paths : transfer.rows[p].rev # 0 => RowTrue(p, transfer.rows[p])
    /\ transfer.at = "stat" => store = "couchdb" /\ \A p \in Paths : At(p) => transfer.text \in since.lived[p]
    /\ transfer.at = "done" =>
         /\ transfer.todo = {}
         /\ \A p \in Paths : manifest.rows[p] = IF transfer.rows[p].rev = 0 THEN NoRow ELSE transfer.rows[p]

BroughtBack(p) ==
  /\ Exists(p) /\ HeadOf(p).text = tree[p]
  /\ p \in since.wrote => Live(p) /\ HeadOf(p).stored = KindOf(p)

\* As long as the head that a write fetched is still there, the mark that it
\* decided on tells whether the base accounts for it.
Decided(p) ==
  /\ transfer.head <= Len(remote[p])
  /\ Live(p) /\ transfer.head = Len(remote[p]) => transfer.base = transfer.head \/ transfer.mark = TRUE

RestoreOK ==
  transfer.name = "restore" =>
    /\ transfer.at \in {"write", "push"} => /\ transfer.base # 0 => transfer.force
                                           /\ transfer.text # NoText
    /\ transfer.at = "push" => store = "algolia" /\ \A p \in Paths : At(p) => Decided(p)
    /\ transfer.force /\ ~transfer.dry /\ since.quiet =>
         /\ transfer.todo \subseteq FilesIn /\ transfer.todo \cap since.wrote = {}
         /\ \A p \in FilesIn \ transfer.todo : KindIsKnown(p) => BroughtBack(p)
         /\ transfer.at \in {"write", "push"} => \A p \in Paths : At(p) => transfer.text = tree[p]
         /\ transfer.at = "done" => transfer.todo = {}

SeedOK ==
  /\ transfer.at = "plan" => \A p \in transfer.todo : transfer.local[p] # NoText
  /\ \A p \in transfer.writes \cup transfer.same : transfer.local[p] # NoText
  /\ transfer.name = "seed" /\ transfer.at \in {"import", "push"} => transfer.todo \subseteq transfer.writes
  /\ transfer.at = "remove" => transfer.todo \subseteq transfer.writes \cup transfer.same
  /\ transfer.name = "seed" /\ transfer.at \in {"plan", "import", "push"} =>
       transfer.verified = NoTexts /\ transfer.removed = {}
  /\ transfer.at = "verify" => transfer.removed = {}
  /\ transfer.at \in {"verify", "remove"} =>
       \A p \in Paths : transfer.verified[p] # NoText => transfer.verified[p] \in since.lived[p]
  /\ \A p \in transfer.removed : transfer.local[p] \in since.lived[p]

TInv == TransferTypeOK /\ RemoteOK /\ RowsOK /\ HistoryOK /\ StagesOK /\ ExportOK /\ RestoreOK /\ SeedOK

----------------------------------------------------------------------------
LEMMA FirstIsUnique == \A p, q \in Paths : At(p) /\ At(q) => p = q
<1> SUFFICES ASSUME NEW p \in Paths, NEW q \in Paths, At(p), At(q) PROVE p = q
  OBVIOUS
<1>1. p \in Nat /\ q \in Nat /\ p <= q /\ q <= p
  BY TransferAssumption DEF At
<1> QED BY <1>1

LEMMA NoTransferFields ==
  /\ NoTransfer \in Transfer
  /\ NoTransfer.name = "none" /\ NoTransfer.at = "idle" /\ NoTransfer.todo = {} /\ NoTransfer.rows = NoRows
  /\ NoTransfer.writes = {} /\ NoTransfer.same = {} /\ NoTransfer.verified = NoTexts /\ NoTransfer.removed = {}
  /\ NoTransfer.local = NoTexts /\ NoTransfer.head = 0 /\ NoTransfer.mark = FALSE
<1>1. NoRows \in Rows
  <2>1. NoRow = [NoRow EXCEPT !.stored = "text"]
    BY DEF NoRow
  <2>2. NoRow \in {[NoRow EXCEPT !.stored = stored] : stored \in {"text", "binary"}}
    BY <2>1
  <2> QED BY <2>2 DEF NoRows, Rows
<1>2. NoTexts \in Files
  BY DEF NoTexts, Files
<1> HIDE DEF NoTexts, NoRows, Rows, Files
<1> QED BY <1>1, <1>2 DEF NoTransfer, Transfer, TransferStages, Content

\* A command that is over, or was stopped, promises nothing.
LEMMA StoppedIsFine ==
  ASSUME transfer' = NoTransfer
  PROVE  /\ StagesOK' /\ ExportOK' /\ RestoreOK' /\ SeedOK' /\ transfer' \in Transfer
         /\ \A p \in Notes : transfer'.rows[p].stored = "text"
<1>1. \A p \in Notes : NoRows[p].stored = "text"
  BY DEF NoRows, NoRow, Paths
<1> QED BY <1>1, NoTransferFields DEF StagesOK, ExportOK, RestoreOK, SeedOK

\* Facts about the entries that no step has to look inside for.
LEMMA HeadsAreTyped ==
  ASSUME TInv
  PROVE  /\ \A p \in Paths : Exists(p) => HeadOf(p) \in Revision /\ Len(remote[p]) \in Nat \ {0}
         /\ \A p \in Paths : Live(p) => HeadOf(p).text \in Content
         /\ \A p \in Paths : Exists(p) /\ store = "couchdb" => HeadOf(p).text \in Content
         /\ \A p \in Notes : Exists(p) => HeadOf(p).stored = "text"
<1>1. remote \in [Paths -> Seq(Revision)]
  BY DEF TInv, TransferTypeOK
<1>2. ASSUME NEW p \in Paths, Exists(p)
      PROVE  /\ HeadOf(p) \in Revision /\ Len(remote[p]) \in Nat \ {0}
             /\ HeadOf(p).text = NoText => HeadOf(p).deleted /\ store = "algolia"
             /\ p \in Notes => HeadOf(p).stored = "text"
  <2>1. remote[p] \in Seq(Revision) /\ remote[p] # <<>>
    BY <1>1, <1>2 DEF Exists
  <2>2. Len(remote[p]) \in Nat \ {0} /\ Len(remote[p]) \in 1 .. Len(remote[p]) /\ HeadOf(p) \in Revision
    BY <2>1 DEF HeadOf
  <2> QED BY <2>2 DEF TInv, RemoteOK, HeadOf
<1> QED BY <1>2 DEF Live, Revision, Paths

\* Every step of the command itself: what the state looks like around transfer.
LEMMA CommandIsRunning ==
  ASSUME TInv, transfer.at \notin {"idle", "done"}
  PROVE  transfers # 0
BY DEF TInv, HistoryOK, StagesOK

LEMMA GoesIsFine ==
  ASSUME TInv, NEW t \in Transfer, Goes(t), t.name # "none" => transfers # 0,
         \A p \in Notes : t.rows[p].stored = "text", StagesOK', ExportOK', RestoreOK', SeedOK'
  PROVE  TInv'
<1>1. /\ transfer' = t /\ store' = store /\ remote' = remote /\ tree' = tree /\ manifest' = manifest
      /\ transfers' = transfers /\ edits' = edits /\ since' = since
  BY DEF Goes
<1>2. TransferTypeOK' /\ RemoteOK' /\ RowsOK'
  BY <1>1 DEF TInv, TransferTypeOK, RemoteOK, RowsOK
<1>3. HistoryOK'
  BY <1>1 DEF TInv, HistoryOK, Live, HeadOf, Exists
<1> QED BY <1>2, <1>3 DEF TInv

LEMMA FailsIsFine == ASSUME TInv, Goes(NoTransfer) PROVE TInv'
<1>1. transfer' = NoTransfer
  BY DEF Goes
<1> QED BY <1>1, StoppedIsFine, GoesIsFine, NoTransferFields

----------------------------------------------------------------------------
(* Other devices and editors.  A restore that was disturbed promises       *)
(* nothing.                                                                *)

LEMMA FilesMeanwhile == ASSUME TInv, NEW p \in Paths, NEW text \in Texts \cup {NoText}, FileChanges(p, text) PROVE TInv'
<1>1. /\ tree' = [tree EXCEPT ![p] = text] /\ edits < MaxEdits /\ edits' = edits + 1
      /\ since' = [since EXCEPT !.touched = @ \cup {p}, !.quiet = FALSE]
      /\ store' = store /\ remote' = remote /\ manifest' = manifest /\ transfer' = transfer /\ transfers' = transfers
  BY DEF FileChanges
<1>2. /\ since'.lived = since.lived /\ since'.always = since.always /\ since'.quiet = FALSE
      /\ since'.touched = since.touched \cup {p} /\ since'.wrote = since.wrote
  BY <1>1 DEF TInv, TransferTypeOK
<1>3. TransferTypeOK'
  <2>1. tree' \in Files
    BY <1>1 DEF TInv, TransferTypeOK, Files, Content
  <2>2. edits' \in 0 .. MaxEdits
    BY <1>1, TransferAssumption DEF TInv, TransferTypeOK
  <2>3. since' \in [lived : [Paths -> SUBSET Content], always : SUBSET Paths, quiet : BOOLEAN,
                    touched : SUBSET Paths, wrote : SUBSET Paths]
    BY <1>1 DEF TInv, TransferTypeOK
  <2> QED BY <1>1, <2>1, <2>2, <2>3 DEF TInv, TransferTypeOK
<1>4. RemoteOK' /\ RowsOK' /\ StagesOK'
  BY <1>1 DEF TInv, RemoteOK, RowsOK, StagesOK
<1>5. HistoryOK'
  BY <1>1, <1>2 DEF TInv, HistoryOK, Live, HeadOf, Exists
<1>6. ExportOK'
  <2>1. \A q, row : RowTrue(q, row) => RowTrue(q, row)'
    <3> SUFFICES ASSUME NEW q, NEW row, RowTrue(q, row) PROVE RowTrue(q, row)'
      OBVIOUS
    <3>1. q \notin since'.touched => tree'[q] = tree[q]
      BY <1>1, <1>2 DEF TInv, TransferTypeOK, Files
    <3> QED BY <1>1, <1>2, <3>1 DEF RowTrue
  <2> QED BY <1>1, <1>2, <2>1 DEF TInv, ExportOK, Exists, HeadOf, At
<1>7. RestoreOK'
  BY <1>1, <1>2 DEF TInv, RestoreOK, At, Decided, Live, Exists, HeadOf
<1>8. SeedOK'
  BY <1>1, <1>2 DEF TInv, SeedOK
<1> QED BY <1>3, <1>4, <1>5, <1>6, <1>7, <1>8 DEF TInv

\* An entry gets a revision: what that means for the others, and for a snapshot.
LEMMA Grown ==
  ASSUME TInv, NEW p \in Paths, NEW r \in Revision, remote' = [remote EXCEPT ![p] = Append(@, r)],
         r.text = NoText => r.deleted /\ store = "algolia",
         p \in Notes => r.stored = "text", store' = store
  PROVE  /\ remote' \in [Paths -> Seq(Revision)] /\ RemoteOK'
         /\ Exists(p)' /\ HeadOf(p)' = r
         /\ \A q \in Paths : Exists(q) => Exists(q)'
         /\ \A q \in Paths : q # p => remote'[q] = remote[q] /\ (Exists(q)' <=> Exists(q)) /\ HeadOf(q)' = HeadOf(q)
                                        /\ (Live(q)' <=> Live(q))
         /\ (Live(p)' <=> ~r.deleted)
         /\ \A q \in Paths : /\ 1 .. Len(remote[q]) \subseteq 1 .. Len(remote'[q])
                             /\ \A i \in 1 .. Len(remote[q]) : remote'[q][i] = remote[q][i]
         /\ remote'[p] # remote[p] /\ remote'[p][Len(remote'[p])] = r
<1>1. remote \in [Paths -> Seq(Revision)]
  BY DEF TInv, TransferTypeOK
<1>2. PICK s \in Seq(Revision) : s = remote[p]
  BY <1>1
<1>3. PICK d : d = Append(s, r)
  OBVIOUS
<1>4. /\ d \in Seq(Revision) /\ Len(d) = Len(s) + 1 /\ Len(s) \in Nat /\ d[Len(d)] = r /\ d # <<>> /\ d # s
      /\ \A i \in 1 .. Len(s) : d[i] = s[i] /\ i \in 1 .. Len(d)
      /\ \A i \in 1 .. Len(d) : i \in 1 .. Len(s) \/ i = Len(d)
  BY <1>3
<1>5. /\ remote' \in [Paths -> Seq(Revision)] /\ remote'[p] = d
      /\ \A q \in Paths : q # p => remote'[q] = remote[q]
  BY <1>1, <1>2, <1>3, <1>4
<1>6. RemoteOK'
  <2> SUFFICES ASSUME NEW q \in Paths, NEW i \in 1 .. Len(remote'[q])
               PROVE  /\ remote'[q][i].text = NoText => remote'[q][i].deleted /\ store' = "algolia"
                      /\ q \in Notes => remote'[q][i].stored = "text"
    BY DEF RemoteOK
  <2>1. CASE q # p
    BY <1>5, <2>1 DEF TInv, RemoteOK
  <2>2. CASE q = p /\ i \in 1 .. Len(s)
    BY <1>2, <1>4, <1>5, <2>2 DEF TInv, RemoteOK
  <2>3. CASE q = p /\ i = Len(d)
    BY <1>4, <1>5, <2>3
  <2> QED BY <1>4, <1>5, <2>1, <2>2, <2>3
<1>7. Exists(p)' /\ HeadOf(p)' = r /\ (Live(p)' <=> ~r.deleted)
  BY <1>4, <1>5 DEF Exists, HeadOf, Live
<1>8. \A q \in Paths : q # p => (Exists(q)' <=> Exists(q)) /\ HeadOf(q)' = HeadOf(q) /\ (Live(q)' <=> Live(q))
  BY <1>5 DEF Exists, HeadOf, Live
<1>9. \A q \in Paths : /\ 1 .. Len(remote[q]) \subseteq 1 .. Len(remote'[q])
                       /\ \A i \in 1 .. Len(remote[q]) : remote'[q][i] = remote[q][i]
  BY <1>2, <1>4, <1>5
<1> QED BY <1>2, <1>4, <1>5, <1>6, <1>7, <1>8, <1>9

LEMMA Longer ==
  ASSUME TransferTypeOK, NEW p \in Paths, NEW r \in Revision, remote' = [remote EXCEPT ![p] = Append(@, r)]
  PROVE  Len(remote[p]) \in Nat /\ Len(remote'[p]) = Len(remote[p]) + 1
<1>1. PICK s \in Seq(Revision) : s = remote[p]
  BY DEF TransferTypeOK
<1>2. remote'[p] = Append(s, r)
  BY <1>1 DEF TransferTypeOK
<1> QED BY <1>1, <1>2

LEMMA DevicesMeanwhile ==
  ASSUME TInv, NEW p \in Paths,
         \/ \E text \in Texts, stored \in {"text", "binary"} : DeviceWrites(p, text, stored)
         \/ DeviceDeletes(p)
  PROVE  TInv'
<1>1. PICK r \in Revision :
        /\ remote' = [remote EXCEPT ![p] = Append(@, r)]
        /\ r.text = NoText => r.deleted /\ store = "algolia"
        /\ p \in Notes => r.stored = "text"
        /\ \/ ~r.deleted /\ since' = [since EXCEPT !.lived[p] = @ \cup {r.text}, !.quiet = FALSE]
           \/ r.deleted /\ Live(p) /\ since' = [since EXCEPT !.always = @ \ {p}, !.quiet = FALSE]
        /\ (r.text \in Content /\ ~r.deleted) \/ (r.deleted /\ (store = "couchdb" => r.text = HeadOf(p).text))
  <2>1. CASE \E text \in Texts, stored \in {"text", "binary"} : DeviceWrites(p, text, stored)
    <3>0. PICK text \in Texts, stored \in {"text", "binary"} : DeviceWrites(p, text, stored)
      BY <2>1
    <3> DEFINE d == Diverges(p)
    <3>1. d \in BOOLEAN
      BY HeadsAreTyped DEF Revision, Diverges
    <3>2. PICK r : r = Revised(text, stored, d)
      OBVIOUS
    <3>3. r \in Revision /\ r.text = text /\ r.stored = stored /\ r.deleted = FALSE
      BY <3>1, <3>2 DEF Revised, Revision, Content
    <3>4. text # NoText /\ text \in Content
      BY TransferAssumption DEF Content
    <3>5. remote' = [remote EXCEPT ![p] = Append(@, r)] /\ since' = [since EXCEPT !.lived[p] = @ \cup {r.text}, !.quiet = FALSE]
      BY <3>0, <3>2, <3>3 DEF DeviceWrites
    <3>6. p \in Notes => stored = "text"
      BY <3>0 DEF DeviceWrites
    <3> QED BY <3>3, <3>4, <3>5, <3>6
  <2>2. CASE DeviceDeletes(p)
    <3>1. PICK r : r = [HeadOf(p) EXCEPT !.deleted = TRUE, !.text = IF store = "couchdb" THEN @ ELSE NoText]
      OBVIOUS
    <3>2. Live(p) /\ Exists(p) /\ HeadOf(p) \in Revision /\ HeadOf(p).text \in Content /\ (p \in Notes => HeadOf(p).stored = "text")
      BY <2>2, HeadsAreTyped DEF DeviceDeletes, Live
    <3>3. HeadOf(p).text # NoText
      BY <3>2, TransferAssumption DEF Content, NoText, CutShort
    <3>4. r \in Revision /\ r.deleted = TRUE /\ r.stored = HeadOf(p).stored /\ r.text = (IF store = "couchdb" THEN HeadOf(p).text ELSE NoText)
      BY <3>1, <3>2 DEF Revision
    <3>5. store \in {"couchdb", "algolia"}
      BY DEF TInv, TransferTypeOK
    <3>6. remote' = [remote EXCEPT ![p] = Append(@, r)] /\ since' = [since EXCEPT !.always = @ \ {p}, !.quiet = FALSE]
      BY <2>2, <3>1 DEF DeviceDeletes
    <3> QED BY <3>2, <3>3, <3>4, <3>5, <3>6
  <2> QED BY <2>1, <2>2
<1>2. /\ edits < MaxEdits /\ edits' = edits + 1 /\ store' = store /\ tree' = tree /\ manifest' = manifest
      /\ transfer' = transfer /\ transfers' = transfers
  BY DEF DeviceWrites, DeviceDeletes
<1>3. /\ since'.quiet = FALSE /\ since'.touched = since.touched /\ since'.wrote = since.wrote
      /\ since'.lived \in [Paths -> SUBSET Content] /\ since'.always \subseteq since.always
      /\ \A q \in Paths : q # p => since'.lived[q] = since.lived[q]
      /\ since'.lived[p] = since.lived[p] \cup (IF r.deleted THEN {} ELSE {r.text})
      /\ r.deleted => p \notin since'.always
      /\ since' \in [lived : [Paths -> SUBSET Content], always : SUBSET Paths, quiet : BOOLEAN,
                     touched : SUBSET Paths, wrote : SUBSET Paths]
  <2>0. since \in [lived : [Paths -> SUBSET Content], always : SUBSET Paths, quiet : BOOLEAN,
                   touched : SUBSET Paths, wrote : SUBSET Paths]
    BY DEF TInv, TransferTypeOK
  <2>1. CASE ~r.deleted /\ r.text \in Content /\ since' = [since EXCEPT !.lived[p] = @ \cup {r.text}, !.quiet = FALSE]
    BY <2>0, <2>1
  <2>2. CASE r.deleted /\ since' = [since EXCEPT !.always = @ \ {p}, !.quiet = FALSE]
    BY <2>0, <2>2
  <2> QED BY <1>1, <2>1, <2>2
<1>4. TransferTypeOK' /\ RemoteOK' /\ RowsOK' /\ StagesOK'
  <2>1. edits' \in 0 .. MaxEdits
    BY <1>2, TransferAssumption DEF TInv, TransferTypeOK
  <2>2. remote' \in [Paths -> Seq(Revision)] /\ RemoteOK'
    BY <1>1, <1>2, Grown
  <2> QED BY <1>2, <1>3, <2>1, <2>2 DEF TInv, TransferTypeOK, RowsOK, StagesOK
<1>5. /\ Exists(p)' /\ HeadOf(p)' = r
      /\ \A q \in Paths : Exists(q) => Exists(q)'
      /\ \A q \in Paths : q # p => remote'[q] = remote[q] /\ HeadOf(q)' = HeadOf(q) /\ (Live(q)' <=> Live(q))
      /\ (Live(p)' <=> ~r.deleted)
      /\ \A q \in Paths : /\ 1 .. Len(remote[q]) \subseteq 1 .. Len(remote'[q])
                          /\ \A i \in 1 .. Len(remote[q]) : remote'[q][i] = remote[q][i]
  BY <1>1, <1>2, Grown
<1>6. HistoryOK'
  <2>1. transfers' # 0 => \A q \in Paths : Live(q)' => HeadOf(q)'.text \in since'.lived[q]
    BY <1>2, <1>3, <1>5 DEF TInv, HistoryOK
  <2>2. transfers' # 0 => \A q \in since'.always : Live(q)'
    BY <1>2, <1>3, <1>5 DEF TInv, HistoryOK
  <2>3. IsFiniteSet(since'.lived[p])
    <3>1. IsFiniteSet(since.lived[p])
      BY DEF TInv, HistoryOK
    <3>2. IsFiniteSet(since.lived[p] \cup {r.text})
      BY <3>1, FS_AddElement
    <3>3. CASE r.deleted
      BY <1>3, <3>1, <3>3
    <3>4. CASE ~r.deleted
      BY <1>3, <3>2, <3>4
    <3> QED BY <3>3, <3>4
  <2> QED BY <1>2, <1>3, <2>1, <2>2, <2>3 DEF TInv, HistoryOK
<1>7. ExportOK'
  <2> SUFFICES ASSUME transfer.name = "export" PROVE ExportOK'
    BY <1>2 DEF ExportOK
  <2>0. ExportOK
    BY DEF TInv
  <2>1. ASSUME NEW q \in Paths, NEW row, RowTrue(q, row) PROVE RowTrue(q, row)'
    <3>1. row.rev \in 1 .. Len(remote[q]) /\ row.text \in since.lived[q] /\ since.lived[q] \subseteq since'.lived[q]
      BY <1>3, <2>1 DEF RowTrue
    <3>2. since'.lived[q] = {row.text} => since.lived[q] = {row.text}
      BY <3>1
    <3> QED BY <1>2, <1>3, <1>5, <2>1, <3>1, <3>2 DEF RowTrue
  <2>2. ASSUME NEW q \in transfer.todo, store = "couchdb" PROVE HeadOf(q)'.text \in since'.lived[q]
    <3>1. q \in Paths /\ HeadOf(q).text \in since.lived[q]
      BY <2>0, <2>2 DEF ExportOK, TInv, TransferTypeOK, Transfer
    <3>2. CASE q # p
      BY <1>3, <1>5, <3>1, <3>2
    <3>3. CASE q = p /\ ~r.deleted
      BY <1>3, <1>5, <3>3
    <3>4. CASE q = p /\ r.deleted
      BY <1>1, <1>3, <1>5, <2>2, <3>1, <3>4
    <3> QED BY <3>2, <3>3, <3>4
  <2>3. transfer.todo \subseteq Paths
    BY DEF TInv, TransferTypeOK, Transfer
  <2>4. \A q \in transfer.todo : transfer.rows[q].rev = 0 /\ Exists(q)'
    BY <1>5, <2>0, <2>3 DEF ExportOK
  <2>5. \A q \in Paths : since.lived[q] \subseteq since'.lived[q] /\ (At(q)' <=> At(q))
    BY <1>2, <1>3 DEF At
  <2> QED BY <1>2, <1>3, <2>0, <2>1, <2>2, <2>3, <2>4, <2>5 DEF ExportOK
<1>8. RestoreOK'
  <2>1. ASSUME NEW q \in Paths, Decided(q) PROVE Decided(q)'
    <3>1. CASE q = p
      BY <1>1, <1>2, <2>1, <3>1, Longer DEF Decided, TInv, TransferTypeOK, Transfer
    <3>2. CASE q # p
      BY <1>2, <1>5, <2>1, <3>2 DEF Decided
    <3> QED BY <3>1, <3>2
  <2>2. \A q \in Paths : At(q)' <=> At(q)
    BY <1>2 DEF At
  <2> QED BY <1>2, <1>3, <2>1, <2>2 DEF TInv, RestoreOK
<1>9. SeedOK'
  <2>1. \A q \in Paths : since.lived[q] \subseteq since'.lived[q]
    BY <1>3
  <2>2. transfer.removed \subseteq Paths
    BY DEF TInv, TransferTypeOK, Transfer
  <2> QED BY <1>2, <2>1, <2>2 DEF TInv, SeedOK
<1> QED BY <1>4, <1>6, <1>7, <1>8, <1>9 DEF TInv

----------------------------------------------------------------------------
(* The beginning of a command: what it promises is about what follows.     *)

LEMMA NowIsHistory ==
  ASSUME TInv
  PROVE  /\ FromNow \in [lived : [Paths -> SUBSET Content], always : SUBSET Paths, quiet : BOOLEAN,
                         touched : SUBSET Paths, wrote : SUBSET Paths]
         /\ \A p \in Paths : Live(p) => HeadOf(p).text \in FromNow.lived[p]
         /\ \A p \in FromNow.always : Live(p) /\ p \in Paths
         /\ \A p \in Paths : IsFiniteSet(FromNow.lived[p])
         /\ FromNow.wrote = {}
<1>1. \A p \in Paths : (IF Live(p) THEN {HeadOf(p).text} ELSE {}) \in SUBSET Content
  BY HeadsAreTyped
<1>2. \A p \in Paths : IsFiniteSet(IF Live(p) THEN {HeadOf(p).text} ELSE {})
  BY FS_EmptySet, FS_Singleton
<1> QED BY <1>1, <1>2 DEF FromNow

LEMMA BeginsIsFine ==
  ASSUME TInv, NEW t \in Transfer, Begins(t), t.name # "none", t.removed = {},
         \A p \in Notes : t.rows[p].stored = "text", StagesOK', ExportOK', RestoreOK', SeedOK'
  PROVE  TInv'
<1>1. /\ transfer' = t /\ store' = store /\ remote' = remote /\ tree' = tree /\ manifest' = manifest
      /\ transfers' = transfers + 1 /\ transfers < MaxTransfers /\ edits' = edits /\ since' = FromNow
  BY DEF Begins
<1>2. TransferTypeOK'
  <2>1. transfers' \in 0 .. MaxTransfers
    BY <1>1, TransferAssumption DEF TInv, TransferTypeOK
  <2> QED BY <1>1, <2>1, NowIsHistory DEF TInv, TransferTypeOK
<1>3. RemoteOK' /\ RowsOK'
  BY <1>1 DEF TInv, RemoteOK, RowsOK
<1>4. HistoryOK'
  <2>1. transfers' # 0
    BY <1>1, TransferAssumption DEF TInv, TransferTypeOK
  <2>2. PICK h : h = FromNow
    OBVIOUS
  <2>3. /\ \A p \in Paths : Live(p) => HeadOf(p).text \in h.lived[p]
        /\ \A p \in h.always : Live(p) /\ p \in Paths
        /\ \A p \in Paths : IsFiniteSet(h.lived[p])
    BY <2>2, NowIsHistory
  <2>4. \A p : HeadOf(p)' = HeadOf(p) /\ (Live(p)' <=> Live(p))
    BY <1>1 DEF HeadOf, Live, Exists
  <2>5. since' = h
    BY <1>1, <2>2
  <2> QED BY <2>1, <2>3, <2>4, <2>5 DEF HistoryOK
<1> QED BY <1>1, <1>2, <1>3, <1>4 DEF TInv

LEMMA ExportBegins == ASSUME TInv, StartExport PROVE TInv'
<1> DEFINE rows == [p \in Paths |-> IF Live(p) THEN [NoRow EXCEPT !.stored = HeadOf(p).stored] ELSE NoRow]
<1>1. PICK t : t = [NoTransfer EXCEPT !.name = "export", !.at = "read", !.todo = {p \in Paths : Live(p)}, !.rows = rows]
  OBVIOUS
<1>2. /\ rows \in Rows /\ \A p \in Paths : rows[p].rev = 0
      /\ \A p \in Notes : rows[p].stored = "text"
  <2>1. NoRow = [NoRow EXCEPT !.stored = "text"] /\ NoRow.stored = "text" /\ NoRow.rev = 0
    BY DEF NoRow
  <2>2. \A s : [NoRow EXCEPT !.stored = s].rev = 0 /\ [NoRow EXCEPT !.stored = s].stored = s
    BY DEF NoRow
  <2>3. \A p \in Paths : Live(p) => HeadOf(p).stored \in {"text", "binary"} /\ (p \in Notes => HeadOf(p).stored = "text")
    BY HeadsAreTyped DEF Live, Revision
  <2> HIDE DEF NoRow
  <2>4. rows \in Rows
    BY <2>1, <2>3 DEF Rows
  <2>5. \A p \in Paths : rows[p].rev = 0
    BY <2>1, <2>2
  <2>6. \A p \in Notes : rows[p].stored = "text"
    BY <2>1, <2>2, <2>3 DEF Paths
  <2> QED BY <2>4, <2>5, <2>6
<1> HIDE DEF rows
<1>3. /\ t.name = "export" /\ t.at = "read" /\ t.todo = {p \in Paths : Live(p)} /\ t.rows = rows /\ t \in Transfer
      /\ t.writes = {} /\ t.same = {} /\ t.removed = {} /\ t.verified = NoTexts
  BY <1>1, <1>2, NoTransferFields DEF Transfer, TransferStages
<1>4. Begins(t)
  BY <1>1 DEF StartExport, rows
<1>5. transfer' = t /\ since' = FromNow /\ remote' = remote /\ store' = store
  BY <1>4 DEF Begins
<1>6. ExportOK'
  <2>1. PICK h : h = FromNow
    OBVIOUS
  <2>2. /\ \A p \in Paths : Live(p) => HeadOf(p).text \in h.lived[p]
        /\ \A p \in h.always : Live(p) /\ p \in Paths
    BY <2>1, NowIsHistory
  <2>3. \A p : HeadOf(p)' = HeadOf(p) /\ (Exists(p)' <=> Exists(p))
    BY <1>5 DEF HeadOf, Exists
  <2>4. since' = h /\ t.todo \subseteq Paths /\ \A p \in t.todo : Live(p) /\ Exists(p)
    BY <1>3, <1>5, <2>1 DEF Live
  <2> QED BY <1>2, <1>3, <1>5, <2>2, <2>3, <2>4 DEF ExportOK
<1>7. StagesOK' /\ RestoreOK' /\ SeedOK'
  BY <1>3, <1>5 DEF StagesOK, RestoreOK, SeedOK
<1>8. \A p \in Notes : t.rows[p].stored = "text"
  BY <1>2, <1>3
<1> QED BY <1>3, <1>4, <1>6, <1>7, <1>8, BeginsIsFine

LEMMA RestoreBegins == ASSUME TInv, NEW force \in BOOLEAN, NEW dry \in BOOLEAN, StartRestore(force, dry) PROVE TInv'
<1>1. PICK t : t = [NoTransfer EXCEPT !.name = "restore", !.at = "read", !.todo = FilesIn,
                      !.force = force, !.dry = dry, !.rows = manifest.rows]
  OBVIOUS
<1>2. manifest.rows \in Rows /\ FilesIn \subseteq Paths
  <2>1. NoRow = [NoRow EXCEPT !.stored = "text"]
    BY DEF NoRow
  <2>2. NoRow \in {[NoRow EXCEPT !.stored = stored] : stored \in {"text", "binary"}}
    BY <2>1
  <2>3. manifest.rows \in [Paths -> Row \cup {NoRow}]
    BY DEF TInv, TransferTypeOK
  <2> QED BY <2>2, <2>3 DEF Rows, FilesIn
<1>3. /\ t.name = "restore" /\ t.at = "read" /\ t.todo = FilesIn /\ t.rows = manifest.rows /\ t \in Transfer
      /\ t.writes = {} /\ t.same = {} /\ t.removed = {} /\ t.verified = NoTexts
  BY <1>1, <1>2, NoTransferFields DEF Transfer, TransferStages
<1>4. Begins(t)
  BY <1>1 DEF StartRestore
<1>5. transfer' = t /\ since' = FromNow /\ remote' = remote /\ store' = store /\ tree' = tree
  BY <1>4 DEF Begins
<1>6. RestoreOK'
  <2>1. since'.wrote = {} /\ FilesIn' = FilesIn
    BY <1>5, NowIsHistory DEF FilesIn
  <2> QED BY <1>3, <1>5, <2>1 DEF RestoreOK
<1>7. StagesOK' /\ ExportOK' /\ SeedOK'
  BY <1>3, <1>5 DEF StagesOK, ExportOK, SeedOK
<1>8. \A p \in Notes : t.rows[p].stored = "text"
  BY <1>3 DEF TInv, RowsOK
<1> QED BY <1>3, <1>4, <1>6, <1>7, <1>8, BeginsIsFine

LEMMA SeedBegins == ASSUME TInv, NEW moving \in BOOLEAN, NEW dry \in BOOLEAN, StartSeed(moving, dry) PROVE TInv'
<1>1. PICK t : t = [NoTransfer EXCEPT !.name = "seed", !.at = "plan", !.todo = FilesIn, !.local = tree,
                      !.moving = moving, !.dry = dry, !.listed = LivePaths]
  OBVIOUS
<1>2. tree \in Files /\ FilesIn \subseteq Paths /\ LivePaths \subseteq Paths
  BY DEF TInv, TransferTypeOK, FilesIn, LivePaths
<1>3. /\ t.name = "seed" /\ t.at = "plan" /\ t.todo = FilesIn /\ t.rows = NoRows /\ t \in Transfer /\ t.local = tree
      /\ t.writes = {} /\ t.same = {} /\ t.removed = {} /\ t.verified = NoTexts
  BY <1>1, <1>2, NoTransferFields DEF Transfer, TransferStages
<1>4. Begins(t)
  BY <1>1 DEF StartSeed
<1>5. transfer' = t
  BY <1>4 DEF Begins
<1>6. StagesOK' /\ ExportOK' /\ RestoreOK'
  BY <1>3, <1>5 DEF StagesOK, ExportOK, RestoreOK
<1>7. SeedOK'
  <2>1. \A p \in t.todo : t.local[p] # NoText
    BY <1>3 DEF FilesIn
  <2> QED BY <1>3, <1>5, <2>1 DEF SeedOK
<1>8. \A p \in Notes : t.rows[p].stored = "text"
  BY <1>3 DEF NoRows, NoRow, Paths
<1> QED BY <1>3, <1>4, <1>6, <1>7, <1>8, BeginsIsFine

LEMMA RetractBegins == ASSUME TInv, NEW p \in Paths, StartRetract(p) PROVE TInv'
<1>1. PICK t : t = [NoTransfer EXCEPT !.name = "retract", !.at = "confirm", !.todo = {p}, !.base = Len(remote[p])]
  OBVIOUS
<1>2. Len(remote[p]) \in Nat
  BY HeadsAreTyped DEF StartRetract
<1>3. /\ t.name = "retract" /\ t.at = "confirm" /\ t.rows = NoRows /\ t \in Transfer
      /\ t.writes = {} /\ t.same = {} /\ t.removed = {} /\ t.verified = NoTexts
  BY <1>1, <1>2, NoTransferFields DEF Transfer, TransferStages
<1>4. Begins(t)
  BY <1>1 DEF StartRetract
<1>5. transfer' = t
  BY <1>4 DEF Begins
<1>6. StagesOK' /\ ExportOK' /\ RestoreOK' /\ SeedOK'
  BY <1>3, <1>5 DEF StagesOK, ExportOK, RestoreOK, SeedOK
<1>7. \A q \in Notes : t.rows[q].stored = "text"
  BY <1>3 DEF NoRows, NoRow, Paths
<1> QED BY <1>3, <1>4, <1>6, <1>7, BeginsIsFine

----------------------------------------------------------------------------
(* export and dump.                                                        *)

\* While a command runs only it moves on: what surrounds it is what it was.
LEMMA GoesLeaves ==
  ASSUME NEW t, Goes(t)
  PROVE  /\ transfer' = t /\ store' = store /\ remote' = remote /\ tree' = tree /\ manifest' = manifest
         /\ transfers' = transfers /\ since' = since
         /\ \A p : (Exists(p)' <=> Exists(p)) /\ HeadOf(p)' = HeadOf(p) /\ (Live(p)' <=> Live(p))
                 /\ (Diverges(p)' <=> Diverges(p))
         /\ \A p, row : RowTrue(p, row)' <=> RowTrue(p, row)
         /\ FilesIn' = FilesIn
BY DEF Goes, Exists, HeadOf, Live, Diverges, RowTrue, FilesIn

LEMMA ExportReadsStep == ASSUME TInv, NEW p \in Paths, ExportReads(p) PROVE TInv'
<1>1. PICK t : t = [transfer EXCEPT !.at = "stat", !.text = HeadOf(p).text]
  OBVIOUS
<1>2. /\ transfer.name = "export" /\ transfer.at = "read" /\ store = "couchdb" /\ At(p) /\ Goes(t) /\ p \in transfer.todo
      /\ transfer \in Transfer
  BY <1>1 DEF ExportReads, Exporting, At, TInv, TransferTypeOK
<1>3. Exists(p) /\ HeadOf(p).text \in since.lived[p] /\ HeadOf(p).text \in Content
  BY <1>2, HeadsAreTyped DEF TInv, ExportOK
<1>4. /\ t \in Transfer /\ t.name = "export" /\ t.at = "stat" /\ t.text = HeadOf(p).text /\ t.todo = transfer.todo
      /\ t.rows = transfer.rows /\ t.writes = transfer.writes /\ t.same = transfer.same /\ t.local = transfer.local
      /\ t.removed = transfer.removed /\ t.verified = transfer.verified
  BY <1>1, <1>2, <1>3 DEF Transfer, TransferStages
<1>5. StagesOK' /\ RestoreOK' /\ SeedOK'
  BY <1>2, <1>4, GoesLeaves DEF StagesOK, RestoreOK, SeedOK, TInv
<1>6. ExportOK'
  <2>1. \A q \in Paths : At(q)' => q = p
    BY <1>2, <1>4, FirstIsUnique, GoesLeaves DEF At
  <2>2. transfer.todo \subseteq Paths
    BY <1>2 DEF Transfer
  <2> QED BY <1>2, <1>3, <1>4, <2>1, <2>2, GoesLeaves DEF ExportOK, TInv
<1>7. \A q \in Notes : t.rows[q].stored = "text"
  BY <1>4 DEF TInv, RowsOK
<1>8. transfers # 0
  BY <1>2, CommandIsRunning
<1> QED BY <1>2, <1>4, <1>5, <1>6, <1>7, <1>8, GoesIsFine

LEMMA DumpSkipsStep == ASSUME TInv, NEW p \in Paths, DumpSkips(p) PROVE TInv'
<1>1. PICK t : t = Past(p)
  OBVIOUS
<1>2. /\ transfer.name = "export" /\ transfer.at = "read" /\ ~Live(p) /\ Goes(t) /\ transfer \in Transfer
  BY <1>1 DEF DumpSkips, Exporting, TInv, TransferTypeOK
<1>3. /\ t \in Transfer /\ t.name = "export" /\ t.at = "read" /\ t.todo = transfer.todo \ {p}
      /\ t.rows = transfer.rows /\ t.writes = transfer.writes /\ t.same = transfer.same /\ t.local = transfer.local
      /\ t.removed = transfer.removed /\ t.verified = transfer.verified
  BY <1>1, <1>2 DEF Past, Transfer
<1>4. transfers # 0
  BY <1>2, CommandIsRunning
<1>5. p \notin since.always
  BY <1>2, <1>4 DEF TInv, HistoryOK
<1>6. StagesOK' /\ RestoreOK' /\ SeedOK'
  BY <1>2, <1>3, GoesLeaves DEF StagesOK, RestoreOK, SeedOK, TInv
<1>7. ExportOK'
  BY <1>2, <1>3, <1>5, GoesLeaves DEF ExportOK, TInv
<1>8. \A q \in Notes : t.rows[q].stored = "text"
  BY <1>3 DEF TInv, RowsOK
<1> QED BY <1>2, <1>3, <1>4, <1>6, <1>7, <1>8, GoesIsFine

\* The file of p and its row, whichever way the text was read.
LEMMA ExportedIsFine ==
  ASSUME TInv, NEW p \in Paths, NEW text \in Content, NEW rev \in 1 .. Len(remote[p]), Exported(p, text, rev),
         transfer.name = "export", transfer.at \in {"read", "stat"}, text \in since.lived[p],
         since.lived[p] = {text} \/ store = "algolia" => remote[p][rev].text = text
  PROVE  TInv'
<1>1. PICK t : t = transfer'
  OBVIOUS
<1>2. PICK h : h = since'
  OBVIOUS
<1>3. /\ transfer \in Transfer /\ tree \in Files /\ remote \in [Paths -> Seq(Revision)]
      /\ since \in [lived : [Paths -> SUBSET Content], always : SUBSET Paths, quiet : BOOLEAN,
                    touched : SUBSET Paths, wrote : SUBSET Paths]
  BY DEF TInv, TransferTypeOK
<1>4. rev \in Nat /\ rev # 0
  BY <1>3
<1>5. transfer.rows[p].stored \in {"text", "binary"}
  <2>1. transfer.rows[p] \in Row \cup {[NoRow EXCEPT !.stored = stored] : stored \in {"text", "binary"}}
    BY <1>3 DEF Transfer, Rows
  <2> QED BY <2>1 DEF Row, NoRow
<1>6. PICK row : row = [transfer.rows[p] EXCEPT !.rev = rev, !.text = text]
  OBVIOUS
<1>7. row \in Row /\ row.rev = rev /\ row.text = text /\ row.stored = transfer.rows[p].stored
  <2>0. \A s : [NoRow EXCEPT !.stored = s] = [rev |-> 0, text |-> NoText, stored |-> s]
    BY DEF NoRow
  <2>1. transfer.rows[p] \in Row \/ \E s \in {"text", "binary"} : transfer.rows[p] = [rev |-> 0, text |-> NoText, stored |-> s]
    <3>1. transfer.rows[p] \in Row \cup {[NoRow EXCEPT !.stored = stored] : stored \in {"text", "binary"}}
      BY <1>3 DEF Transfer, Rows
    <3> QED BY <2>0, <3>1
  <2>2. CASE transfer.rows[p] \in Row
    BY <1>4, <1>6, <2>2 DEF Row
  <2>3. ASSUME NEW s \in {"text", "binary"}, transfer.rows[p] = [rev |-> 0, text |-> NoText, stored |-> s]
        PROVE  row \in Row /\ row.rev = rev /\ row.text = text /\ row.stored = transfer.rows[p].stored
    <3>0. PICK old : old = transfer.rows[p]
      OBVIOUS
    <3>1. row = [rev |-> rev, text |-> text, stored |-> s]
      <4>1. old = [rev |-> 0, text |-> NoText, stored |-> s] /\ row = [old EXCEPT !.rev = rev, !.text = text]
        BY <1>6, <2>3, <3>0
      <4> QED BY <4>1
    <3> QED BY <1>4, <2>3, <3>1 DEF Row
  <2> QED BY <2>1, <2>2, <2>3
<1>8. t = [Past(p) EXCEPT !.at = "read", !.text = NoText, !.rows[p] = row]
  BY <1>1, <1>6 DEF Exported, Past
<1>9. transfer.rows \in Rows /\ [transfer.rows EXCEPT ![p] = row] \in Rows
  BY <1>3, <1>7 DEF Transfer, Rows
<1>10. /\ t \in Transfer /\ t.name = "export" /\ t.at = "read" /\ t.todo = transfer.todo \ {p}
       /\ t.rows = [transfer.rows EXCEPT ![p] = row] /\ t.writes = transfer.writes /\ t.same = transfer.same
       /\ t.local = transfer.local /\ t.removed = transfer.removed /\ t.verified = transfer.verified
  BY <1>3, <1>8, <1>9 DEF Past, Transfer, TransferStages
<1>11. t.rows[p] = row /\ \A q \in Paths : q # p => t.rows[q] = transfer.rows[q]
  BY <1>9, <1>10 DEF Rows
<1>12. /\ tree' = [tree EXCEPT ![p] = text] /\ h = [since EXCEPT !.touched = @ \ {p}]
       /\ store' = store /\ remote' = remote /\ manifest' = manifest /\ transfers' = transfers /\ edits' = edits
  BY <1>2 DEF Exported
<1>13. /\ h.lived = since.lived /\ h.always = since.always /\ h.touched = since.touched \ {p} /\ h.quiet = since.quiet
       /\ h.wrote = since.wrote
       /\ h \in [lived : [Paths -> SUBSET Content], always : SUBSET Paths, quiet : BOOLEAN,
                 touched : SUBSET Paths, wrote : SUBSET Paths]
  BY <1>3, <1>12
<1>14. tree' \in Files /\ tree'[p] = text /\ \A q \in Paths : q # p => tree'[q] = tree[q]
  BY <1>3, <1>12 DEF Files
<1>15. TransferTypeOK' /\ RemoteOK'
  <2>1. TransferTypeOK'
    BY <1>1, <1>2, <1>10, <1>12, <1>13, <1>14 DEF TInv, TransferTypeOK
  <2>2. RemoteOK'
    BY <1>12 DEF TInv, RemoteOK
  <2> QED BY <2>1, <2>2
<1>16. RowsOK'
  BY <1>1, <1>7, <1>11, <1>12 DEF TInv, RowsOK, Paths
<1>17. HistoryOK'
  <2>1. transfers # 0
    BY CommandIsRunning
  <2> QED BY <1>2, <1>12, <1>13, <2>1 DEF TInv, HistoryOK, Live, Exists, HeadOf
<1>18. StagesOK' /\ RestoreOK' /\ SeedOK'
  BY <1>1, <1>2, <1>10, <1>13 DEF TInv, StagesOK, RestoreOK, SeedOK
<1>19. ExportOK'
  <2>1. RowTrue(p, row)'
    BY <1>2, <1>7, <1>12, <1>13, <1>14 DEF RowTrue
  <2>2. ASSUME NEW q \in Paths, q # p, NEW r, RowTrue(q, r) PROVE RowTrue(q, r)'
    BY <1>2, <1>12, <1>13, <1>14, <2>2 DEF RowTrue
  <2>3. \A q \in Paths : t.rows[q].rev # 0 => RowTrue(q, t.rows[q])'
    <3> SUFFICES ASSUME NEW q \in Paths, t.rows[q].rev # 0 PROVE RowTrue(q, t.rows[q])'
      OBVIOUS
    <3>1. CASE q = p
      BY <1>11, <2>1, <3>1
    <3>2. CASE q # p
      <4>1. transfer.rows[q].rev # 0 /\ t.rows[q] = transfer.rows[q]
        BY <1>11, <3>2
      <4>2. RowTrue(q, transfer.rows[q])
        BY <4>1 DEF TInv, ExportOK
      <4>3. PICK r : r = transfer.rows[q]
        OBVIOUS
      <4>4. RowTrue(q, r)'
        BY <2>2, <3>2, <4>2, <4>3
      <4>5. t.rows[q] = r
        BY <4>1, <4>3
      <4> QED BY <4>4, <4>5 DEF RowTrue
    <3> QED BY <3>1, <3>2
  <2>4. \A q \in t.todo : /\ t.rows[q].rev = 0 /\ Exists(q)'
                          /\ store' = "couchdb" => HeadOf(q)'.text \in since'.lived[q]
    <3> SUFFICES ASSUME NEW q \in t.todo
                 PROVE  /\ t.rows[q].rev = 0 /\ Exists(q)'
                        /\ store' = "couchdb" => HeadOf(q)'.text \in since'.lived[q]
      OBVIOUS
    <3>1. q \in transfer.todo /\ q # p /\ q \in Paths
      BY <1>3, <1>10 DEF Transfer
    <3> QED BY <1>2, <1>11, <1>12, <1>13, <3>1 DEF TInv, ExportOK, Exists, HeadOf
  <2>5. \A q \in since'.always \ t.todo : t.rows[q].rev # 0
    <3> SUFFICES ASSUME NEW q \in since'.always \ t.todo PROVE t.rows[q].rev # 0
      OBVIOUS
    <3>1. q \in since.always /\ q \in Paths /\ (q = p \/ q \notin transfer.todo)
      BY <1>2, <1>3, <1>10, <1>13
    <3> QED BY <1>4, <1>7, <1>11, <3>1 DEF TInv, ExportOK
  <2> QED BY <1>1, <1>10, <2>3, <2>4, <2>5 DEF ExportOK
<1> QED BY <1>15, <1>16, <1>17, <1>18, <1>19 DEF TInv

LEMMA ExportWritesStep == ASSUME TInv, NEW p \in Paths, ExportWrites(p) PROVE TInv'
<1>1. /\ transfer.name = "export" /\ transfer.at = "stat" /\ At(p) /\ p \in transfer.todo
      /\ Exported(p, transfer.text, Len(remote[p]))
  BY DEF ExportWrites, Exporting, At
<1>2. store = "couchdb" /\ transfer.text \in since.lived[p] /\ Exists(p) /\ HeadOf(p).text \in since.lived[p]
  BY <1>1 DEF TInv, ExportOK
<1>3. since.lived[p] \subseteq Content
  BY DEF TInv, TransferTypeOK
<1>4. Len(remote[p]) \in 1 .. Len(remote[p])
  BY <1>2, HeadsAreTyped
<1>5. since.lived[p] = {transfer.text} \/ store = "algolia" => remote[p][Len(remote[p])].text = transfer.text
  BY <1>2 DEF HeadOf
<1> QED BY <1>1, <1>2, <1>3, <1>4, <1>5, ExportedIsFine

LEMMA DumpWritesStep == ASSUME TInv, NEW p \in Paths, DumpWrites(p) PROVE TInv'
<1>1. /\ transfer.name = "export" /\ transfer.at = "read" /\ Live(p)
      /\ Exported(p, HeadOf(p).text, Len(remote[p]))
  BY DEF DumpWrites, Exporting
<1>2. HeadOf(p).text \in since.lived[p]
  BY <1>1, CommandIsRunning DEF TInv, HistoryOK
<1>3. HeadOf(p).text \in Content /\ Len(remote[p]) \in 1 .. Len(remote[p])
  BY <1>1, HeadsAreTyped DEF Live
<1>4. since.lived[p] = {HeadOf(p).text} \/ store = "algolia" => remote[p][Len(remote[p])].text = HeadOf(p).text
  BY DEF HeadOf
<1> QED BY <1>1, <1>2, <1>3, <1>4, ExportedIsFine

LEMMA CutShortStep == ASSUME TInv, NEW p \in Paths, FileIsCutShort(p) PROVE TInv'
<1>1. /\ tree' = [tree EXCEPT ![p] = CutShort] /\ transfer' = NoTransfer
      /\ store' = store /\ remote' = remote /\ manifest' = manifest /\ transfers' = transfers /\ edits' = edits
      /\ since' = since
  BY DEF FileIsCutShort
<1>2. TransferTypeOK'
  <2>1. tree' \in Files
    BY <1>1 DEF TInv, TransferTypeOK, Files, Content
  <2> QED BY <1>1, <2>1, StoppedIsFine DEF TInv, TransferTypeOK
<1>3. RemoteOK' /\ RowsOK'
  BY <1>1, StoppedIsFine DEF TInv, RemoteOK, RowsOK
<1>4. HistoryOK'
  BY <1>1, NoTransferFields DEF TInv, HistoryOK, Live, HeadOf, Exists
<1> QED BY <1>1, <1>2, <1>3, <1>4, StoppedIsFine DEF TInv

LEMMA ManifestCutShortStep == ASSUME TInv, ManifestIsCutShort PROVE TInv'
<1>1. /\ manifest' = [is |-> "torn", rows |-> NoRows] /\ transfer' = NoTransfer
      /\ store' = store /\ remote' = remote /\ tree' = tree /\ transfers' = transfers /\ edits' = edits
      /\ since' = since
  BY DEF ManifestIsCutShort
<1>2. TransferTypeOK'
  <2>1. manifest' \in [is : {"absent", "torn", "whole"}, rows : [Paths -> Row \cup {NoRow}]]
    BY <1>1 DEF NoRows
  <2> QED BY <1>1, <2>1, StoppedIsFine DEF TInv, TransferTypeOK
<1>3. RemoteOK' /\ RowsOK'
  <2>1. \A p \in Notes : NoRows[p].stored = "text"
    BY DEF NoRows, NoRow, Paths
  <2> QED BY <1>1, <2>1, StoppedIsFine DEF TInv, RemoteOK, RowsOK
<1>4. HistoryOK'
  BY <1>1, NoTransferFields DEF TInv, HistoryOK, Live, HeadOf, Exists
<1> QED BY <1>1, <1>2, <1>3, <1>4, StoppedIsFine DEF TInv

LEMMA WritesManifestStep == ASSUME TInv, WritesManifest PROVE TInv'
<1> DEFINE rows == [p \in Paths |-> IF transfer.rows[p].rev = 0 THEN NoRow ELSE transfer.rows[p]]
<1>1. PICK t : t = transfer'
  OBVIOUS
<1>2. /\ transfer.name = "export" /\ transfer.at = "read" /\ transfer.todo = {} /\ transfer \in Transfer
      /\ manifest' = [is |-> "whole", rows |-> rows] /\ t = [transfer EXCEPT !.at = "done"]
      /\ store' = store /\ remote' = remote /\ tree' = tree /\ transfers' = transfers /\ edits' = edits /\ since' = since
  BY <1>1 DEF WritesManifest, Exporting, TInv, TransferTypeOK
<1>3. /\ t \in Transfer /\ t.name = "export" /\ t.at = "done" /\ t.todo = {}
      /\ t.rows = transfer.rows /\ t.writes = transfer.writes /\ t.same = transfer.same /\ t.local = transfer.local
      /\ t.removed = transfer.removed /\ t.verified = transfer.verified
  BY <1>2 DEF Transfer, TransferStages
<1>4. rows \in [Paths -> Row \cup {NoRow}]
  <2> SUFFICES ASSUME NEW p \in Paths, transfer.rows[p].rev # 0 PROVE transfer.rows[p] \in Row
    OBVIOUS
  <2>1. transfer.rows[p] \in Row \cup {[NoRow EXCEPT !.stored = stored] : stored \in {"text", "binary"}}
    BY <1>2 DEF Transfer, Rows
  <2>2. \A s : [NoRow EXCEPT !.stored = s].rev = 0
    BY DEF NoRow
  <2> HIDE DEF NoRow
  <2> QED BY <2>1, <2>2
<1>5. TransferTypeOK' /\ RemoteOK'
  <2>1. manifest' \in [is : {"absent", "torn", "whole"}, rows : [Paths -> Row \cup {NoRow}]]
    BY <1>2, <1>4
  <2>2. TransferTypeOK'
    BY <1>1, <1>2, <1>3, <2>1 DEF TInv, TransferTypeOK
  <2>3. RemoteOK'
    BY <1>2 DEF TInv, RemoteOK
  <2> QED BY <2>2, <2>3
<1>6. RowsOK'
  <2>1. \A p \in Notes : rows[p].stored = "text"
    BY DEF NoRow, TInv, RowsOK, Paths
  <2>2. manifest'.rows = rows
    BY <1>2
  <2> HIDE DEF rows
  <2> QED BY <1>1, <1>3, <2>1, <2>2 DEF TInv, RowsOK
<1>7. HistoryOK'
  BY <1>1, <1>2, <1>3, CommandIsRunning DEF TInv, HistoryOK, Live, HeadOf, Exists
<1>8. StagesOK' /\ RestoreOK' /\ SeedOK'
  BY <1>1, <1>2, <1>3 DEF TInv, StagesOK, RestoreOK, SeedOK
<1>9. ExportOK'
  <2>1. \A p \in Paths : manifest'.rows[p] = IF t.rows[p].rev = 0 THEN NoRow ELSE t.rows[p]
    BY <1>2, <1>3
  <2>2. \A p, row : RowTrue(p, row)' <=> RowTrue(p, row)
    BY <1>2 DEF RowTrue
  <2> QED BY <1>1, <1>2, <1>3, <2>1, <2>2 DEF TInv, ExportOK
<1> QED BY <1>5, <1>6, <1>7, <1>8, <1>9 DEF TInv

----------------------------------------------------------------------------
(* restore.                                                                *)

LEMMA LooksTheSame ==
  ASSUME NEW t, Goes(t), t.rows = transfer.rows, t.force = transfer.force
  PROVE  \A q : (KindIsKnown(q)' <=> KindIsKnown(q)) /\ (BroughtBack(q)' <=> BroughtBack(q))
<1>1. \A q : (KindIsKnown(q)' <=> KindIsKnown(q)) /\ KindOf(q)' = KindOf(q)
  BY GoesLeaves DEF KindIsKnown, KindOf
<1>2. \A q : (Exists(q)' <=> Exists(q)) /\ HeadOf(q)' = HeadOf(q) /\ (Live(q)' <=> Live(q))
  BY GoesLeaves
<1>3. tree' = tree /\ since' = since
  BY GoesLeaves
<1> QED BY <1>1, <1>2, <1>3 DEF BroughtBack

LEMMA RestorePassesStep == ASSUME TInv, NEW p \in Paths, RestorePasses(p) PROVE TInv'
<1>1. PICK t : t = Past(p)
  OBVIOUS
<1>2. /\ transfer.name = "restore" /\ transfer.at = "read" /\ (~MayWrite(p) \/ transfer.dry) /\ Goes(t)
      /\ transfer \in Transfer /\ p \in transfer.todo
  BY <1>1 DEF RestorePasses, Restoring, TInv, TransferTypeOK, At
<1>3. /\ t \in Transfer /\ t.name = "restore" /\ t.at = "read" /\ t.todo = transfer.todo \ {p}
      /\ t.rows = transfer.rows /\ t.writes = transfer.writes /\ t.same = transfer.same /\ t.local = transfer.local
      /\ t.removed = transfer.removed /\ t.verified = transfer.verified /\ t.force = transfer.force /\ t.dry = transfer.dry
  BY <1>1, <1>2 DEF Past, Transfer
<1>4. transfers # 0
  BY <1>2, CommandIsRunning
<1>5. StagesOK' /\ ExportOK' /\ SeedOK'
  BY <1>2, <1>3, GoesLeaves DEF StagesOK, ExportOK, SeedOK, TInv
<1>6. RestoreOK'
  <2> SUFFICES ASSUME transfer.force, ~transfer.dry, since.quiet
               PROVE  /\ t.todo \subseteq FilesIn /\ t.todo \cap since.wrote = {}
                      /\ \A q \in FilesIn \ t.todo : KindIsKnown(q)' => BroughtBack(q)'
    BY <1>2, <1>3, GoesLeaves DEF RestoreOK
  <2>1. /\ transfer.todo \subseteq FilesIn /\ transfer.todo \cap since.wrote = {}
        /\ \A q \in FilesIn \ transfer.todo : KindIsKnown(q) => BroughtBack(q)
    BY <1>2 DEF RestoreOK, TInv
  <2>2. \A q : (KindIsKnown(q)' <=> KindIsKnown(q)) /\ (BroughtBack(q)' <=> BroughtBack(q))
    BY <1>2, <1>3, LooksTheSame
  <2>3. KindIsKnown(p) => BroughtBack(p)
    BY <1>2, <2>1 DEF MayWrite, IsUnchanged, Shows, BroughtBack, Live
  <2> QED BY <1>3, <2>1, <2>2, <2>3
<1>7. \A q \in Notes : t.rows[q].stored = "text"
  BY <1>3 DEF TInv, RowsOK
<1> QED BY <1>2, <1>3, <1>4, <1>5, <1>6, <1>7, GoesIsFine

LEMMA RestoreLooksStep == ASSUME TInv, NEW p \in Paths, RestoreLooks(p) PROVE TInv'
<1>1. PICK t : t = [transfer EXCEPT !.at = "write", !.text = tree[p], !.base = IF Shows(p) THEN Len(remote[p]) ELSE 0]
  OBVIOUS
<1>2. /\ transfer.name = "restore" /\ transfer.at = "read" /\ MayWrite(p) /\ ~transfer.dry /\ Goes(t)
      /\ transfer \in Transfer /\ p \in transfer.todo /\ At(p) /\ tree[p] # NoText /\ tree \in Files
  BY <1>1 DEF RestoreLooks, Restoring, TInv, TransferTypeOK, At
<1>3. Shows(p) => Len(remote[p]) \in Nat
  BY HeadsAreTyped DEF Shows, Live
<1>4. /\ t \in Transfer /\ t.name = "restore" /\ t.at = "write" /\ t.todo = transfer.todo /\ t.text = tree[p]
      /\ t.base = (IF Shows(p) THEN Len(remote[p]) ELSE 0)
      /\ t.rows = transfer.rows /\ t.writes = transfer.writes /\ t.same = transfer.same /\ t.local = transfer.local
      /\ t.removed = transfer.removed /\ t.verified = transfer.verified /\ t.force = transfer.force /\ t.dry = transfer.dry
  BY <1>1, <1>2, <1>3 DEF Transfer, TransferStages, Files
<1>5. transfers # 0
  BY <1>2, CommandIsRunning
<1>6. StagesOK' /\ ExportOK' /\ SeedOK'
  BY <1>2, <1>4, GoesLeaves DEF StagesOK, ExportOK, SeedOK, TInv
<1>7. RestoreOK'
  <2>1. t.base # 0 => t.force
    BY <1>2, <1>4 DEF MayWrite
  <2>2. \A q : (KindIsKnown(q)' <=> KindIsKnown(q)) /\ (BroughtBack(q)' <=> BroughtBack(q))
    BY <1>2, <1>4, LooksTheSame
  <2>3. \A q \in Paths : At(q)' => q = p
    BY <1>2, <1>4, FirstIsUnique, GoesLeaves DEF At
  <2> QED BY <1>2, <1>4, <2>1, <2>2, <2>3, GoesLeaves DEF RestoreOK, TInv
<1>8. \A q \in Notes : t.rows[q].stored = "text"
  BY <1>4 DEF TInv, RowsOK
<1> QED BY <1>2, <1>4, <1>5, <1>6, <1>7, <1>8, GoesIsFine

LEMMA EndsRestoreStep == ASSUME TInv, EndsRestore PROVE TInv'
<1>1. PICK t : t = [transfer EXCEPT !.at = "done"]
  OBVIOUS
<1>2. transfer.name = "restore" /\ transfer.at = "read" /\ transfer.todo = {} /\ Goes(t) /\ transfer \in Transfer
  BY <1>1 DEF EndsRestore, Restoring, TInv, TransferTypeOK
<1>3. /\ t \in Transfer /\ t.name = "restore" /\ t.at = "done" /\ t.todo = {}
      /\ t.rows = transfer.rows /\ t.writes = transfer.writes /\ t.same = transfer.same /\ t.local = transfer.local
      /\ t.removed = transfer.removed /\ t.verified = transfer.verified /\ t.force = transfer.force /\ t.dry = transfer.dry
  BY <1>1, <1>2 DEF Transfer, TransferStages
<1>4. transfers # 0
  BY <1>2, CommandIsRunning
<1>5. StagesOK' /\ ExportOK' /\ SeedOK'
  BY <1>2, <1>3, GoesLeaves DEF StagesOK, ExportOK, SeedOK, TInv
<1>6. RestoreOK'
  <2>1. \A q : (KindIsKnown(q)' <=> KindIsKnown(q)) /\ (BroughtBack(q)' <=> BroughtBack(q))
    BY <1>2, <1>3, LooksTheSame
  <2> QED BY <1>2, <1>3, <2>1, GoesLeaves DEF RestoreOK, TInv
<1>7. \A q \in Notes : t.rows[q].stored = "text"
  BY <1>3 DEF TInv, RowsOK
<1> QED BY <1>2, <1>3, <1>4, <1>5, <1>6, <1>7, GoesIsFine

\* A command lands a revision and goes on to t.  What is left to show is what t
\* itself promises.
LEMMA LandsIsFine ==
  ASSUME TInv, NEW p \in Paths, NEW r \in Revision, NEW t \in Transfer, Lands(p, r, t),
         transfer.at \notin {"idle", "done"},
         r.text \in Content, r.text # NoText, ~r.deleted, p \in Notes => r.stored = "text",
         \A q \in Notes : t.rows[q].stored = "text", t.name # "export", StagesOK', RestoreOK', SeedOK'
  PROVE  TInv'
<1>1. /\ remote' = [remote EXCEPT ![p] = Append(@, r)] /\ transfer' = t
      /\ since' = [since EXCEPT !.lived[p] = @ \cup {r.text}, !.wrote = @ \cup {p}]
      /\ store' = store /\ tree' = tree /\ manifest' = manifest /\ transfers' = transfers /\ edits' = edits
  BY DEF Lands
<1>2. /\ remote' \in [Paths -> Seq(Revision)] /\ RemoteOK' /\ Exists(p)' /\ HeadOf(p)' = r /\ Live(p)'
      /\ \A q \in Paths : q # p => HeadOf(q)' = HeadOf(q) /\ (Live(q)' <=> Live(q))
  BY <1>1, Grown
<1>3. since \in [lived : [Paths -> SUBSET Content], always : SUBSET Paths, quiet : BOOLEAN,
                 touched : SUBSET Paths, wrote : SUBSET Paths]
  BY DEF TInv, TransferTypeOK
<1>4. /\ since' \in [lived : [Paths -> SUBSET Content], always : SUBSET Paths, quiet : BOOLEAN,
                     touched : SUBSET Paths, wrote : SUBSET Paths]
      /\ since'.always = since.always /\ since'.lived[p] = since.lived[p] \cup {r.text}
      /\ \A q \in Paths : q # p => since'.lived[q] = since.lived[q]
  BY <1>1, <1>3
<1>5. TransferTypeOK' /\ RowsOK'
  BY <1>1, <1>2, <1>4 DEF TInv, TransferTypeOK, RowsOK
<1>6. HistoryOK'
  <2>1. IsFiniteSet(since'.lived[p])
    <3>1. IsFiniteSet(since.lived[p])
      BY DEF TInv, HistoryOK
    <3>2. IsFiniteSet(since.lived[p] \cup {r.text})
      BY <3>1, FS_AddElement
    <3> QED BY <1>4, <3>2
  <2>2. transfers # 0
    BY CommandIsRunning
  <2>3. \A q \in Paths : Live(q)' => HeadOf(q)'.text \in since'.lived[q]
    BY <1>2, <1>4, <2>2 DEF TInv, HistoryOK
  <2>4. \A q \in since'.always : Live(q)'
    BY <1>2, <1>3, <1>4, <2>2 DEF TInv, HistoryOK
  <2>5. \A q \in Paths : IsFiniteSet(since'.lived[q])
    BY <1>4, <2>1 DEF TInv, HistoryOK
  <2> QED BY <1>1, <2>2, <2>3, <2>4, <2>5 DEF HistoryOK
<1>7. ExportOK'
  BY <1>1 DEF ExportOK
<1> QED BY <1>2, <1>5, <1>6, <1>7 DEF TInv

\* The write of p is over: nothing else of a restore has changed.
LEMMA RestoredIsFine ==
  ASSUME TInv, NEW p \in Paths, NEW r \in Revision, Lands(p, r, Restored(p)),
         transfer.name = "restore", transfer.at \in {"write", "push"}, At(p),
         r.text = transfer.text, ~r.deleted, KindIsKnown(p) => r.stored = KindOf(p)
  PROVE  Restored(p) \in Transfer /\ StagesOK' /\ RestoreOK' /\ SeedOK' /\ (\A q \in Notes : Restored(p).rows[q].stored = "text")
<1>1. PICK t : t = Restored(p)
  OBVIOUS
<1>2. transfer \in Transfer /\ p \in transfer.todo
  BY DEF TInv, TransferTypeOK, At
<1>3. /\ t \in Transfer /\ t.name = "restore" /\ t.at = "read" /\ t.todo = transfer.todo \ {p}
      /\ t.rows = transfer.rows /\ t.writes = transfer.writes /\ t.same = transfer.same /\ t.local = transfer.local
      /\ t.removed = transfer.removed /\ t.verified = transfer.verified /\ t.force = transfer.force /\ t.dry = transfer.dry
  BY <1>1, <1>2 DEF Restored, Past, Transfer, TransferStages
<1>4. /\ remote' = [remote EXCEPT ![p] = Append(@, r)] /\ transfer' = t
      /\ since' = [since EXCEPT !.lived[p] = @ \cup {r.text}, !.wrote = @ \cup {p}]
      /\ store' = store /\ tree' = tree
  BY <1>1 DEF Lands
<1>5. since \in [lived : [Paths -> SUBSET Content], always : SUBSET Paths, quiet : BOOLEAN,
                 touched : SUBSET Paths, wrote : SUBSET Paths]
  BY DEF TInv, TransferTypeOK
<1>6. /\ since'.wrote = since.wrote \cup {p} /\ since'.quiet = since.quiet
      /\ \A q \in Paths : since.lived[q] \subseteq since'.lived[q]
  BY <1>4, <1>5
<1>7. r.text # NoText
  BY DEF TInv, RestoreOK
<1>8. p \in Notes => r.stored = "text"
  BY DEF KindIsKnown, KindOf, TInv, RowsOK
<1>9. /\ Exists(p)' /\ HeadOf(p)' = r /\ Live(p)'
      /\ \A q \in Paths : q # p => (Exists(q)' <=> Exists(q)) /\ HeadOf(q)' = HeadOf(q) /\ (Live(q)' <=> Live(q))
  BY <1>4, <1>7, <1>8, Grown
<1>10. StagesOK' /\ SeedOK'
  <2>1. transfer.removed \subseteq Paths
    BY <1>2 DEF Transfer
  <2> QED BY <1>3, <1>4, <1>6, <2>1 DEF StagesOK, SeedOK, TInv
<1>11. RestoreOK'
  <2> SUFFICES ASSUME transfer.force, ~transfer.dry, since.quiet
               PROVE  /\ t.todo \subseteq FilesIn' /\ t.todo \cap since'.wrote = {}
                      /\ \A q \in FilesIn' \ t.todo : KindIsKnown(q)' => BroughtBack(q)'
    BY <1>3, <1>4, <1>6 DEF RestoreOK
  <2>1. /\ transfer.todo \subseteq FilesIn /\ transfer.todo \cap since.wrote = {}
        /\ \A q \in FilesIn \ transfer.todo : KindIsKnown(q) => BroughtBack(q)
        /\ transfer.text = tree[p]
    BY DEF RestoreOK, TInv
  <2>2. FilesIn' = FilesIn /\ \A q : (KindIsKnown(q)' <=> KindIsKnown(q)) /\ KindOf(q)' = KindOf(q)
    BY <1>3, <1>4 DEF KindIsKnown, KindOf, FilesIn
  <2>3. ASSUME NEW q \in FilesIn \ transfer.todo, KindIsKnown(q) PROVE BroughtBack(q)'
    <3>1. BroughtBack(q) /\ q # p /\ q \in Paths
      BY <1>2, <2>1, <2>3 DEF FilesIn
    <3> QED BY <1>4, <1>6, <1>9, <2>2, <3>1 DEF BroughtBack
  <2>4. KindIsKnown(p) => BroughtBack(p)'
    BY <1>4, <1>9, <2>1, <2>2 DEF BroughtBack
  <2> QED BY <1>3, <1>6, <2>1, <2>2, <2>3, <2>4
<1>12. \A q \in Notes : t.rows[q].stored = "text"
  BY <1>3 DEF TInv, RowsOK
<1> QED BY <1>1, <1>3, <1>10, <1>11, <1>12

LEMMA CouchRestoresStep == ASSUME TInv, NEW p \in Paths, CouchRestores(p) PROVE TInv'
<1>1. PICK t \in {Restored(p), NoTransfer} : Lands(p, Revised(transfer.text, KindOf(p), FALSE), t)
  BY DEF CouchRestores
<1>2. transfer.name = "restore" /\ transfer.at = "write" /\ At(p) /\ p \in transfer.todo /\ transfer \in Transfer
  BY DEF CouchRestores, Restoring, TInv, TransferTypeOK, At
<1>3. PICK r : r = Revised(transfer.text, KindOf(p), FALSE)
  OBVIOUS
<1>4. transfer.text # NoText /\ transfer.text \in Content
  BY <1>2 DEF TInv, RestoreOK, Transfer
<1>5. KindOf(p) \in {"text", "binary"} /\ (p \in Notes => KindOf(p) = "text")
  <2>1. transfer.rows[p].stored \in {"text", "binary"}
    <3>1. transfer.rows[p] \in Row \cup {[NoRow EXCEPT !.stored = stored] : stored \in {"text", "binary"}}
      BY <1>2 DEF Transfer, Rows
    <3> QED BY <3>1 DEF Row, NoRow
  <2> QED BY <2>1 DEF KindOf, TInv, RowsOK
<1>6. r \in Revision /\ r.text = transfer.text /\ r.deleted = FALSE /\ r.stored = KindOf(p)
  BY <1>3, <1>4, <1>5 DEF Revised, Revision
<1>7. CASE t = Restored(p)
  <2>1. Lands(p, r, Restored(p))
    BY <1>1, <1>3, <1>7
  <2>2. Restored(p) \in Transfer /\ StagesOK' /\ RestoreOK' /\ SeedOK' /\ (\A q \in Notes : Restored(p).rows[q].stored = "text")
    BY <1>2, <1>6, <2>1, RestoredIsFine
  <2>3. Restored(p).name # "export"
    BY <1>2 DEF Restored, Past, Transfer
  <2> QED BY <1>2, <1>4, <1>5, <1>6, <2>1, <2>2, <2>3, LandsIsFine
<1>8. CASE t = NoTransfer
  <2>1. Lands(p, r, NoTransfer) /\ transfer' = NoTransfer
    BY <1>1, <1>3, <1>8 DEF Lands
  <2> QED BY <1>2, <1>4, <1>5, <1>6, <2>1, LandsIsFine, StoppedIsFine, NoTransferFields
<1> QED BY <1>7, <1>8

\* What it fetched is there already, or it is what the mark is decided from.
LEMMA AlgoliaFetchesStep == ASSUME TInv, NEW p \in Paths, AlgoliaFetches(p) PROVE TInv'
<1>1. /\ transfer.name = "restore" /\ transfer.at = "write" /\ At(p) /\ p \in transfer.todo /\ transfer \in Transfer
      /\ store = "algolia" /\ remote \in [Paths -> Seq(Revision)]
  BY DEF AlgoliaFetches, Restoring, TInv, TransferTypeOK, At
<1>2. transfers # 0
  BY <1>1, CommandIsRunning
<1>3. \/ Live(p) /\ HeadOf(p).text = transfer.text /\ Goes(Restored(p))
      \/ Goes(Fetched(p, Forks(p) \/ Diverges(p)))
  BY DEF AlgoliaFetches
<1>4. CASE Goes(Fetched(p, Forks(p) \/ Diverges(p)))
  <2>1. PICK mark : mark = (Forks(p) \/ Diverges(p))
    OBVIOUS
  <2>2. PICK t : t = Fetched(p, mark)
    OBVIOUS
  <2>3. mark \in BOOLEAN /\ Len(remote[p]) \in Nat
    BY <1>1, <2>1, HeadsAreTyped DEF Forks, Diverges, Revision
  <2>4. /\ t \in Transfer /\ t.name = "restore" /\ t.at = "push" /\ t.todo = transfer.todo /\ t.text = transfer.text
        /\ t.base = transfer.base /\ t.head = Len(remote[p]) /\ t.mark = mark
        /\ t.rows = transfer.rows /\ t.writes = transfer.writes /\ t.same = transfer.same /\ t.local = transfer.local
        /\ t.removed = transfer.removed /\ t.verified = transfer.verified /\ t.force = transfer.force /\ t.dry = transfer.dry
    BY <1>1, <2>2, <2>3 DEF Fetched, Transfer, TransferStages
  <2>5. Goes(t)
    BY <1>4, <2>1, <2>2
  <2>6. StagesOK' /\ ExportOK' /\ SeedOK'
    BY <1>1, <2>4, <2>5, GoesLeaves DEF StagesOK, ExportOK, SeedOK, TInv
  <2>7. RestoreOK'
    <3>1. \A q : (KindIsKnown(q)' <=> KindIsKnown(q)) /\ (BroughtBack(q)' <=> BroughtBack(q))
      BY <2>4, <2>5, LooksTheSame
    <3>2. \A q \in Paths : At(q)' => q = p
      BY <1>1, <2>4, <2>5, FirstIsUnique, GoesLeaves DEF At
    <3>3. Live(p) => Exists(p) /\ ~HeadOf(p).deleted
      BY DEF Live
    <3>4. Live(p) => t.base = t.head \/ t.mark = TRUE
      BY <2>1, <2>4, <3>3 DEF Forks
    <3>5. Decided(p)'
      BY <2>3, <2>4, <2>5, <3>4, GoesLeaves DEF Decided
    <3>6. /\ transfer.base # 0 => transfer.force
          /\ transfer.text # NoText
          /\ transfer.force /\ ~transfer.dry /\ since.quiet =>
               /\ transfer.todo \subseteq FilesIn /\ transfer.todo \cap since.wrote = {}
               /\ \A q \in FilesIn \ transfer.todo : KindIsKnown(q) => BroughtBack(q)
               /\ transfer.text = tree[p]
      BY <1>1 DEF TInv, RestoreOK
    <3> QED BY <1>1, <2>4, <2>5, <3>1, <3>2, <3>5, <3>6, GoesLeaves DEF RestoreOK
  <2>8. \A q \in Notes : t.rows[q].stored = "text"
    BY <2>4 DEF TInv, RowsOK
  <2> QED BY <1>2, <2>4, <2>5, <2>6, <2>7, <2>8, GoesIsFine
<1>5. CASE Live(p) /\ HeadOf(p).text = transfer.text /\ Goes(Restored(p))
  <2>1. PICK t : t = Restored(p)
    OBVIOUS
  <2>2. /\ t \in Transfer /\ t.name = "restore" /\ t.at = "read" /\ t.todo = transfer.todo \ {p}
        /\ t.rows = transfer.rows /\ t.writes = transfer.writes /\ t.same = transfer.same /\ t.local = transfer.local
        /\ t.removed = transfer.removed /\ t.verified = transfer.verified /\ t.force = transfer.force /\ t.dry = transfer.dry
    BY <1>1, <2>1 DEF Restored, Past, Transfer, TransferStages
  <2>3. Goes(t)
    BY <1>5, <2>1
  <2>4. StagesOK' /\ ExportOK' /\ SeedOK'
    BY <1>1, <2>2, <2>3, GoesLeaves DEF StagesOK, ExportOK, SeedOK, TInv
  <2>5. RestoreOK'
    <3> SUFFICES ASSUME transfer.force, ~transfer.dry, since.quiet
                 PROVE  /\ t.todo \subseteq FilesIn /\ t.todo \cap since.wrote = {}
                        /\ \A q \in FilesIn \ t.todo : KindIsKnown(q)' => BroughtBack(q)'
      BY <2>2, <2>3, GoesLeaves DEF RestoreOK
    <3>1. /\ transfer.todo \subseteq FilesIn /\ transfer.todo \cap since.wrote = {}
          /\ \A q \in FilesIn \ transfer.todo : KindIsKnown(q) => BroughtBack(q)
          /\ transfer.text = tree[p]
      BY <1>1 DEF RestoreOK, TInv
    <3>2. \A q : (KindIsKnown(q)' <=> KindIsKnown(q)) /\ (BroughtBack(q)' <=> BroughtBack(q))
      BY <2>2, <2>3, LooksTheSame
    <3>3. BroughtBack(p)
      BY <1>1, <1>5, <3>1 DEF BroughtBack, Live
    <3> QED BY <2>2, <3>1, <3>2, <3>3
  <2>6. \A q \in Notes : t.rows[q].stored = "text"
    BY <2>2 DEF TInv, RowsOK
  <2> QED BY <1>2, <2>2, <2>3, <2>4, <2>5, <2>6, GoesIsFine
<1> QED BY <1>3, <1>4, <1>5

LEMMA AlgoliaRestoresStep == ASSUME TInv, NEW p \in Paths, AlgoliaRestores(p) PROVE TInv'
<1>1. /\ transfer.name = "restore" /\ transfer.at = "push" /\ At(p) /\ p \in transfer.todo /\ transfer \in Transfer
  BY DEF AlgoliaRestores, Restoring, TInv, TransferTypeOK, At
<1>2. transfer.text # NoText /\ transfer.text \in Content /\ store = "algolia" /\ transfer.mark \in BOOLEAN
  BY <1>1 DEF TInv, RestoreOK, Transfer
<1>3. PICK r : r = Revised(transfer.text, "text", transfer.mark)
  OBVIOUS
<1>4. \E t \in {Restored(p), NoTransfer} : Lands(p, r, t)
  BY <1>3 DEF AlgoliaRestores, Pushes
<1>5. r \in Revision /\ r.text = transfer.text /\ r.deleted = FALSE /\ r.stored = "text"
  BY <1>2, <1>3 DEF Revised, Revision
<1>6. KindIsKnown(p) => KindOf(p) = "text"
  BY <1>2 DEF KindIsKnown, KindOf, TInv, RowsOK
<1>7. CASE Lands(p, r, Restored(p))
  <2>1. Restored(p) \in Transfer /\ StagesOK' /\ RestoreOK' /\ SeedOK' /\ (\A q \in Notes : Restored(p).rows[q].stored = "text")
    BY <1>1, <1>5, <1>6, <1>7, RestoredIsFine
  <2>2. Restored(p).name # "export"
    BY <1>1 DEF Restored, Past, Transfer
  <2> QED BY <1>1, <1>2, <1>5, <1>7, <2>1, <2>2, LandsIsFine
<1>8. CASE Lands(p, r, NoTransfer)
  <2>1. transfer' = NoTransfer
    BY <1>8 DEF Lands
  <2> QED BY <1>1, <1>2, <1>5, <1>8, <2>1, LandsIsFine, StoppedIsFine, NoTransferFields
<1> QED BY <1>4, <1>7, <1>8

----------------------------------------------------------------------------
(* seed and retract.                                                       *)

\* A step of a seed or a retract that touches neither the vault nor the files.
LEMMA SeedGoes ==
  ASSUME TInv, NEW t \in Transfer, Goes(t), transfer.at \notin {"idle", "done"},
         t.name = transfer.name, t.name \in {"seed", "retract"}, t.rows = transfer.rows,
         t.name = "seed" => t.at \in {"plan", "import", "push", "verify", "remove", "done"},
         t.name = "retract" => t.at \in {"confirm", "done"}, SeedOK'
  PROVE  TInv'
<1>1. StagesOK' /\ ExportOK' /\ RestoreOK'
  BY GoesLeaves DEF StagesOK, ExportOK, RestoreOK
<1>2. \A q \in Notes : t.rows[q].stored = "text"
  BY DEF TInv, RowsOK
<1> QED BY <1>1, <1>2, CommandIsRunning, GoesIsFine

LEMMA SeedPlansStep == ASSUME TInv, NEW p \in Paths, SeedPlans(p) PROVE TInv'
<1>1. transfer.at = "plan" /\ At(p) /\ p \in transfer.todo /\ transfer \in Transfer /\ transfer.name = "seed"
  BY DEF SeedPlans, At, TInv, TransferTypeOK, StagesOK, Transfer
<1>2. PICK t \in {Past(p), [Past(p) EXCEPT !.same = @ \cup {p}], [Past(p) EXCEPT !.writes = @ \cup {p}]} : Goes(t)
  BY DEF SeedPlans
<1>3. /\ t \in Transfer /\ t.name = "seed" /\ t.at = "plan" /\ t.todo = transfer.todo \ {p} /\ t.rows = transfer.rows
      /\ t.writes \subseteq transfer.writes \cup {p} /\ t.same \subseteq transfer.same \cup {p} /\ t.local = transfer.local
      /\ t.removed = transfer.removed /\ t.verified = transfer.verified
  <2>1. PICK u : u = Past(p)
    OBVIOUS
  <2>2. /\ u \in Transfer /\ u.name = "seed" /\ u.at = "plan" /\ u.todo = transfer.todo \ {p} /\ u.rows = transfer.rows
        /\ u.writes = transfer.writes /\ u.same = transfer.same /\ u.local = transfer.local
        /\ u.removed = transfer.removed /\ u.verified = transfer.verified
    BY <1>1, <2>1 DEF Past, Transfer
  <2>3. CASE t = u
    BY <2>2, <2>3
  <2>4. CASE t = [u EXCEPT !.same = @ \cup {p}]
    BY <2>2, <2>4 DEF Transfer
  <2>5. CASE t = [u EXCEPT !.writes = @ \cup {p}]
    BY <2>2, <2>5 DEF Transfer
  <2> QED BY <1>2, <2>1, <2>3, <2>4, <2>5
<1>4. SeedOK'
  BY <1>1, <1>2, <1>3, GoesLeaves DEF SeedOK, TInv
<1> QED BY <1>1, <1>2, <1>3, <1>4, SeedGoes

LEMMA SeedIsPlannedStep == ASSUME TInv, SeedIsPlanned PROVE TInv'
<1>1. transfer.at = "plan" /\ transfer \in Transfer /\ transfer.name = "seed"
  BY DEF SeedIsPlanned, TInv, TransferTypeOK, StagesOK, Transfer
<1>2. PICK t \in {[transfer EXCEPT !.at = "done"], [transfer EXCEPT !.at = "import", !.todo = transfer.writes]} : Goes(t)
  BY DEF SeedIsPlanned
<1>3. /\ t \in Transfer /\ t.name = "seed" /\ t.rows = transfer.rows
      /\ t.at = "done" \/ (t.at = "import" /\ t.todo = transfer.writes)
      /\ t.writes = transfer.writes /\ t.same = transfer.same /\ t.local = transfer.local
      /\ t.removed = transfer.removed /\ t.verified = transfer.verified
  BY <1>1, <1>2 DEF Transfer, TransferStages
<1>4. SeedOK'
  BY <1>1, <1>2, <1>3, GoesLeaves DEF SeedOK, TInv
<1> QED BY <1>1, <1>2, <1>3, <1>4, SeedGoes

LEMMA SeedFetchesStep == ASSUME TInv, NEW p \in Paths, SeedFetches(p) PROVE TInv'
<1>1. /\ transfer.at = "import" /\ At(p) /\ p \in transfer.todo /\ transfer \in Transfer /\ transfer.name = "seed"
  BY DEF SeedFetches, At, TInv, TransferTypeOK, StagesOK, Transfer
<1>2. PICK t \in {Past(p), Fetched(p, Diverges(p))} : Goes(t)
  BY DEF SeedFetches
<1>3. Diverges(p) \in BOOLEAN /\ Len(remote[p]) \in Nat
  BY HeadsAreTyped DEF Diverges, Revision, TInv, TransferTypeOK
<1>4. /\ t \in Transfer /\ t.name = "seed" /\ t.at \in {"import", "push"} /\ t.todo \subseteq transfer.todo
      /\ t.rows = transfer.rows
      /\ t.writes = transfer.writes /\ t.same = transfer.same /\ t.local = transfer.local
      /\ t.removed = transfer.removed /\ t.verified = transfer.verified
  <2>1. CASE t = Past(p)
    BY <1>1, <2>1 DEF Past, Transfer
  <2>2. CASE t = Fetched(p, Diverges(p))
    BY <1>1, <1>3, <2>2 DEF Fetched, Transfer, TransferStages
  <2> QED BY <1>2, <2>1, <2>2
<1>5. SeedOK'
  BY <1>1, <1>2, <1>4, GoesLeaves DEF SeedOK, TInv
<1> QED BY <1>1, <1>2, <1>4, <1>5, SeedGoes

LEMMA SeedImportsStep == ASSUME TInv, NEW p \in Paths, SeedImports(p) PROVE TInv'
<1>1. transfer.at = "push" /\ At(p) /\ p \in transfer.todo /\ transfer \in Transfer /\ transfer.name = "seed"
  BY DEF SeedImports, At, TInv, TransferTypeOK
<1>2. PICK t : t = [Past(p) EXCEPT !.at = "import", !.head = 0, !.mark = FALSE]
  OBVIOUS
<1>3. /\ t \in Transfer /\ t.name = "seed" /\ t.at = "import" /\ t.todo = transfer.todo \ {p} /\ t.rows = transfer.rows
      /\ t.writes = transfer.writes /\ t.same = transfer.same /\ t.local = transfer.local
      /\ t.removed = transfer.removed /\ t.verified = transfer.verified
  BY <1>1, <1>2 DEF Past, Transfer, TransferStages
<1>4. PICK r : r = Revised(transfer.local[p], "text", transfer.mark)
  OBVIOUS
<1>5. Lands(p, r, t)
  BY <1>2, <1>4 DEF SeedImports, Pushes
<1>6. transfer.local[p] \in Content /\ transfer.local[p] # NoText /\ transfer.mark \in BOOLEAN
  BY <1>1 DEF TInv, SeedOK, Transfer, Files
<1>7. r \in Revision /\ r.text = transfer.local[p] /\ r.deleted = FALSE /\ r.stored = "text"
  BY <1>4, <1>6 DEF Revised, Revision
<1>8. transfer' = t
  BY <1>5 DEF Lands
<1>9. StagesOK' /\ RestoreOK' /\ SeedOK'
  BY <1>1, <1>3, <1>8 DEF StagesOK, RestoreOK, SeedOK, TInv
<1>10. \A q \in Notes : t.rows[q].stored = "text"
  BY <1>3 DEF TInv, RowsOK
<1> QED BY <1>1, <1>3, <1>5, <1>6, <1>7, <1>9, <1>10, LandsIsFine

LEMMA SeedIsImportedStep == ASSUME TInv, SeedIsImported PROVE TInv'
<1>1. transfer.at = "import" /\ transfer \in Transfer /\ transfer.name = "seed"
  BY DEF SeedIsImported, TInv, TransferTypeOK, StagesOK, Transfer
<1>2. PICK t \in {[transfer EXCEPT !.at = "verify", !.todo = LivePaths, !.listed = LivePaths], [transfer EXCEPT !.at = "done"]} :
        transfer' = t
  BY DEF SeedIsImported
<1>3. /\ t \in Transfer /\ t.name = "seed" /\ t.rows = transfer.rows /\ t.at \in {"verify", "done"}
      /\ t.writes = transfer.writes /\ t.same = transfer.same /\ t.local = transfer.local
      /\ t.removed = {} /\ t.verified = NoTexts
  <2>1. transfer.removed = {} /\ transfer.verified = NoTexts
    BY <1>1 DEF TInv, SeedOK
  <2>2. LivePaths \subseteq Paths
    BY DEF LivePaths
  <2>3. CASE t = [transfer EXCEPT !.at = "verify", !.todo = LivePaths, !.listed = LivePaths]
    BY <1>1, <2>1, <2>2, <2>3 DEF Transfer, TransferStages
  <2>4. CASE t = [transfer EXCEPT !.at = "done"]
    BY <1>1, <2>1, <2>4 DEF Transfer, TransferStages
  <2> QED BY <1>2, <2>3, <2>4
<1>4. /\ since' = FromNow /\ store' = store /\ remote' = remote /\ tree' = tree /\ manifest' = manifest
      /\ transfers' = transfers /\ edits' = edits
  BY DEF SeedIsImported
<1>5. TransferTypeOK' /\ RemoteOK'
  BY <1>2, <1>3, <1>4, NowIsHistory DEF TInv, TransferTypeOK, RemoteOK
<1>6. RowsOK' /\ StagesOK' /\ ExportOK' /\ RestoreOK'
  BY <1>2, <1>3, <1>4 DEF TInv, RowsOK, StagesOK, ExportOK, RestoreOK
<1>7. SeedOK'
  <2>1. \A p \in Paths : NoTexts[p] = NoText
    BY DEF NoTexts
  <2> QED BY <1>2, <1>3, <2>1 DEF TInv, SeedOK
<1>8. HistoryOK'
  <2>1. transfers # 0
    BY <1>1, CommandIsRunning
  <2>2. PICK h : h = FromNow
    OBVIOUS
  <2>3. /\ \A p \in Paths : Live(p) => HeadOf(p).text \in h.lived[p]
        /\ \A p \in h.always : Live(p) /\ p \in Paths
        /\ \A p \in Paths : IsFiniteSet(h.lived[p])
    BY <2>2, NowIsHistory
  <2>4. \A p : HeadOf(p)' = HeadOf(p) /\ (Live(p)' <=> Live(p))
    BY <1>4 DEF HeadOf, Live, Exists
  <2>5. since' = h
    BY <1>4, <2>2
  <2> QED BY <1>4, <2>1, <2>3, <2>4, <2>5 DEF HistoryOK
<1> QED BY <1>5, <1>6, <1>7, <1>8 DEF TInv

LEMMA SeedVerifiesStep == ASSUME TInv, NEW p \in Paths, SeedVerifies(p) PROVE TInv'
<1>1. transfer.at = "verify" /\ transfer \in Transfer /\ transfer.name = "seed"
  BY DEF SeedVerifies, TInv, TransferTypeOK, StagesOK, Transfer
<1>2. PICK t : t = [Past(p) EXCEPT !.verified[p] = HashOf(p)]
  OBVIOUS
<1>3. HashOf(p) = NoText \/ (HashOf(p) \in Content /\ HashOf(p) \in since.lived[p])
  <2>1. transfers # 0
    BY <1>1, CommandIsRunning
  <2> QED BY <2>1, HeadsAreTyped DEF HashOf, TInv, HistoryOK
<1>4. /\ t \in Transfer /\ t.name = "seed" /\ t.at = "verify" /\ t.rows = transfer.rows
      /\ t.writes = transfer.writes /\ t.same = transfer.same /\ t.local = transfer.local
      /\ t.removed = transfer.removed /\ t.verified[p] = HashOf(p)
      /\ \A q \in Paths : q # p => t.verified[q] = transfer.verified[q]
  BY <1>1, <1>2, <1>3 DEF Past, Transfer, Files
<1>5. Goes(t)
  BY <1>2 DEF SeedVerifies
<1>6. SeedOK'
  BY <1>1, <1>3, <1>4, <1>5, GoesLeaves DEF SeedOK, TInv
<1> QED BY <1>1, <1>4, <1>5, <1>6, SeedGoes

LEMMA SeedIsVerifiedStep == ASSUME TInv, SeedIsVerified PROVE TInv'
<1>1. transfer.at = "verify" /\ transfer \in Transfer /\ transfer.name = "seed"
  BY DEF SeedIsVerified, TInv, TransferTypeOK, StagesOK, Transfer
<1>2. PICK t : t = [transfer EXCEPT !.at = "remove", !.todo = transfer.writes \cup transfer.same]
  OBVIOUS
<1>3. /\ t \in Transfer /\ t.name = "seed" /\ t.rows = transfer.rows /\ t.at = "remove"
      /\ t.todo = transfer.writes \cup transfer.same
      /\ t.writes = transfer.writes /\ t.same = transfer.same /\ t.local = transfer.local
      /\ t.removed = transfer.removed /\ t.verified = transfer.verified
  BY <1>1, <1>2 DEF Transfer, TransferStages
<1>4. Goes(t)
  BY <1>2 DEF SeedIsVerified
<1>5. SeedOK'
  BY <1>1, <1>3, <1>4, GoesLeaves DEF SeedOK, TInv
<1> QED BY <1>1, <1>3, <1>4, <1>5, SeedGoes

LEMMA SeedRemovesStep == ASSUME TInv, NEW p \in Paths, SeedRemoves(p) PROVE TInv'
<1>1. /\ transfer.at = "remove" /\ transfer \in Transfer /\ transfer.name = "seed" /\ IsHeld(p) /\ p \in transfer.todo
  BY DEF SeedRemoves, TInv, TransferTypeOK, StagesOK, Transfer, At
<1>2. PICK t : t = [Past(p) EXCEPT !.removed = @ \cup {p}]
  OBVIOUS
<1>3. /\ t \in Transfer /\ t.name = "seed" /\ t.rows = transfer.rows /\ t.at = "remove"
      /\ t.todo = transfer.todo \ {p}
      /\ t.writes = transfer.writes /\ t.same = transfer.same /\ t.local = transfer.local
      /\ t.removed = transfer.removed \cup {p} /\ t.verified = transfer.verified
  BY <1>1, <1>2 DEF Past, Transfer
<1>4. /\ tree' = [tree EXCEPT ![p] = NoText] /\ transfer' = t /\ store' = store /\ remote' = remote
      /\ manifest' = manifest /\ transfers' = transfers /\ edits' = edits /\ since' = since
  BY <1>2 DEF SeedRemoves
<1>5. tree' \in Files
  BY <1>4 DEF TInv, TransferTypeOK, Files
<1>6. TransferTypeOK' /\ RemoteOK' /\ RowsOK'
  BY <1>3, <1>4, <1>5 DEF TInv, TransferTypeOK, RemoteOK, RowsOK
<1>7. HistoryOK'
  BY <1>1, <1>3, <1>4, CommandIsRunning DEF TInv, HistoryOK, Live, Exists, HeadOf
<1>8. StagesOK' /\ ExportOK' /\ RestoreOK'
  BY <1>3, <1>4 DEF StagesOK, ExportOK, RestoreOK
<1>9. SeedOK'
  <2>1. transfer.local[p] \in since.lived[p]
    BY <1>1 DEF TInv, SeedOK, IsHeld
  <2> QED BY <1>1, <1>3, <1>4, <2>1 DEF TInv, SeedOK
<1> QED BY <1>6, <1>7, <1>8, <1>9 DEF TInv

LEMMA SeedKeepsStep == ASSUME TInv, NEW p \in Paths, SeedKeeps(p) PROVE TInv'
<1>1. /\ transfer.at = "remove" /\ transfer \in Transfer /\ transfer.name = "seed"
  BY DEF SeedKeeps, TInv, TransferTypeOK, StagesOK, Transfer
<1>2. PICK t : t = Past(p)
  OBVIOUS
<1>3. /\ t \in Transfer /\ t.name = "seed" /\ t.rows = transfer.rows /\ t.at = "remove"
      /\ t.todo = transfer.todo \ {p}
      /\ t.writes = transfer.writes /\ t.same = transfer.same /\ t.local = transfer.local
      /\ t.removed = transfer.removed /\ t.verified = transfer.verified
  BY <1>1, <1>2 DEF Past, Transfer
<1>4. Goes(t)
  BY <1>2 DEF SeedKeeps
<1>5. SeedOK'
  BY <1>1, <1>3, <1>4, GoesLeaves DEF SeedOK, TInv
<1> QED BY <1>1, <1>3, <1>4, <1>5, SeedGoes

\* The end of a seed, or of a retract that was declined.
LEMMA SeedEndsStep == ASSUME TInv, EndsSeed \/ RetractIsDeclined PROVE TInv'
<1>1. /\ transfer.at \in {"remove", "confirm"} /\ transfer \in Transfer /\ transfer.name \in {"seed", "retract"}
  BY DEF EndsSeed, RetractIsDeclined, TInv, TransferTypeOK, StagesOK, Transfer
<1>2. PICK t : t = [transfer EXCEPT !.at = "done"]
  OBVIOUS
<1>3. /\ t \in Transfer /\ t.name = transfer.name /\ t.rows = transfer.rows /\ t.at = "done"
      /\ t.writes = transfer.writes /\ t.same = transfer.same /\ t.local = transfer.local
      /\ t.removed = transfer.removed /\ t.verified = transfer.verified
  BY <1>1, <1>2 DEF Transfer, TransferStages
<1>4. Goes(t)
  BY <1>2 DEF EndsSeed, RetractIsDeclined
<1>5. SeedOK'
  BY <1>1, <1>3, <1>4, GoesLeaves DEF SeedOK, TInv
<1> QED BY <1>1, <1>3, <1>4, <1>5, SeedGoes

LEMMA RetractStep == ASSUME TInv, NEW p \in Paths, RetractIsConfirmed(p) PROVE TInv'
<1>1. transfer.at = "confirm" /\ transfer \in Transfer /\ transfer.name = "retract"
  BY DEF RetractIsConfirmed, TInv, TransferTypeOK, StagesOK, Transfer
<1>2. PICK t : t = [transfer EXCEPT !.at = "done"]
  OBVIOUS
<1>3. /\ t \in Transfer /\ t.name = "retract" /\ t.rows = transfer.rows /\ t.at = "done"
      /\ t.writes = transfer.writes /\ t.same = transfer.same /\ t.local = transfer.local
      /\ t.removed = transfer.removed /\ t.verified = transfer.verified
  BY <1>1, <1>2 DEF Transfer, TransferStages
<1>4. /\ remote' = [remote EXCEPT ![p] = <<>>] /\ transfer' = t
      /\ since' = [since EXCEPT !.always = @ \ {p}, !.wrote = @ \cup {p}]
      /\ store' = store /\ tree' = tree /\ manifest' = manifest /\ transfers' = transfers /\ edits' = edits
  BY <1>2 DEF RetractIsConfirmed
<1>5. /\ remote \in [Paths -> Seq(Revision)]
      /\ since \in [lived : [Paths -> SUBSET Content], always : SUBSET Paths, quiet : BOOLEAN,
                    touched : SUBSET Paths, wrote : SUBSET Paths]
  BY DEF TInv, TransferTypeOK
<1>6. /\ remote' \in [Paths -> Seq(Revision)] /\ remote'[p] = <<>> /\ \A q \in Paths : q # p => remote'[q] = remote[q]
  BY <1>4, <1>5
<1>7. /\ since' \in [lived : [Paths -> SUBSET Content], always : SUBSET Paths, quiet : BOOLEAN,
                     touched : SUBSET Paths, wrote : SUBSET Paths]
      /\ since'.lived = since.lived /\ since'.always = since.always \ {p}
  BY <1>4, <1>5
<1>8. TransferTypeOK' /\ RowsOK'
  BY <1>3, <1>4, <1>6, <1>7 DEF TInv, TransferTypeOK, RowsOK
<1>9. RemoteOK'
  <2> SUFFICES ASSUME NEW q \in Paths, NEW i \in 1 .. Len(remote'[q])
               PROVE  /\ remote'[q][i].text = NoText => remote'[q][i].deleted /\ store' = "algolia"
                      /\ q \in Notes => remote'[q][i].stored = "text"
    BY DEF RemoteOK
  <2>1. q # p
    <3>1. Len(<<>>) = 0 /\ 1 .. 0 = {}
      OBVIOUS
    <3> QED BY <1>6, <3>1
  <2> QED BY <1>4, <1>6, <2>1 DEF TInv, RemoteOK
<1>10. HistoryOK'
  <2>1. transfers # 0
    BY <1>1, CommandIsRunning
  <2>2. \A q \in Paths : Live(q)' => q # p /\ Live(q) /\ HeadOf(q)' = HeadOf(q)
    BY <1>6 DEF Live, Exists, HeadOf
  <2>3. \A q \in Paths : q # p /\ Live(q) => Live(q)'
    BY <1>6 DEF Live, Exists, HeadOf
  <2> QED BY <1>4, <1>5, <1>7, <2>1, <2>2, <2>3 DEF TInv, HistoryOK
<1>11. StagesOK' /\ ExportOK' /\ RestoreOK'
  BY <1>3, <1>4 DEF StagesOK, ExportOK, RestoreOK
<1>12. SeedOK'
  BY <1>1, <1>3, <1>4, <1>7 DEF SeedOK, TInv
<1> QED BY <1>8, <1>9, <1>10, <1>11, <1>12 DEF TInv

----------------------------------------------------------------------------
LEMMA TInvInit == TransferInit => TInv
<1> SUFFICES ASSUME TransferInit PROVE TInv
  OBVIOUS
<1>1. PICK first \in [Paths -> Texts \cup {NoText}], stored \in {"text", "binary"} :
        /\ store = "algolia" => \A p \in Attachments : first[p] = NoText
        /\ remote = [p \in Paths |-> IF first[p] = NoText THEN <<>>
                                     ELSE <<Revised(first[p], IF p \in Notes THEN "text" ELSE stored, FALSE)>>]
  BY DEF TransferInit
<1>2. /\ store \in {"couchdb", "algolia"} /\ tree \in [Paths -> Texts \cup {NoText}]
      /\ manifest = [is |-> "absent", rows |-> NoRows] /\ transfer = NoTransfer /\ transfers = 0 /\ edits = 0
      /\ since = Nothing
  BY DEF TransferInit
<1>3. ASSUME NEW p \in Paths
      PROVE  /\ remote[p] \in Seq(Revision)
             /\ \A i \in 1 .. Len(remote[p]) :
                  /\ remote[p][i].text # NoText
                  /\ p \in Notes => remote[p][i].stored = "text"
  <2>1. CASE first[p] = NoText
    BY <1>1, <2>1
  <2>2. CASE first[p] # NoText
    <3>1. PICK r : r = Revised(first[p], IF p \in Notes THEN "text" ELSE stored, FALSE)
      OBVIOUS
    <3>2. r \in Revision /\ r.text # NoText /\ (p \in Notes => r.stored = "text")
      BY <2>2, <3>1 DEF Revised, Revision, Content
    <3>3. remote[p] = <<r>>
      BY <1>1, <2>2, <3>1
    <3> QED BY <3>2, <3>3
  <2> QED BY <2>1, <2>2
<1>4. RemoteOK
  BY <1>3 DEF RemoteOK
<1>5. remote \in [Paths -> Seq(Revision)]
  BY <1>1, <1>3
<1>6. tree \in Files
  BY <1>2 DEF Files, Content
<1>7. manifest \in [is : {"absent", "torn", "whole"}, rows : [Paths -> Row \cup {NoRow}]]
  BY <1>2 DEF NoRows
<1>8. /\ since \in [lived : [Paths -> SUBSET Content], always : SUBSET Paths, quiet : BOOLEAN,
                    touched : SUBSET Paths, wrote : SUBSET Paths]
      /\ \A p \in Paths : since.lived[p] = {}
  BY <1>2 DEF Nothing
<1>9. transfers \in 0 .. MaxTransfers /\ edits \in 0 .. MaxEdits
  BY <1>2, TransferAssumption
<1>10. TransferTypeOK
  BY <1>2, <1>5, <1>6, <1>7, <1>8, <1>9, NoTransferFields DEF TransferTypeOK
<1>11. RowsOK
  BY <1>2, NoTransferFields DEF RowsOK, NoRows, NoRow, Paths
<1>12. HistoryOK
  BY <1>2, <1>8, NoTransferFields, FS_EmptySet DEF HistoryOK
<1>13. StagesOK /\ ExportOK /\ RestoreOK /\ SeedOK
  BY <1>2, NoTransferFields DEF StagesOK, ExportOK, RestoreOK, SeedOK
<1> QED BY <1>4, <1>10, <1>11, <1>12, <1>13 DEF TInv

\* The history, the snapshot, the restore and the seed hold in every state.
THEOREM TransferStays == TransferSpec => []TInv
<1>1. TInv /\ [TransferNext]_transferVars => TInv'
  <2> SUFFICES ASSUME TInv, [TransferNext]_transferVars PROVE TInv'
    OBVIOUS
  <2>1. ASSUME NEW p \in Paths, Others(p) PROVE TInv'
    <3>1. ASSUME NEW text \in Texts \cup {NoText}, FileChanges(p, text) PROVE TInv'
      BY <3>1, FilesMeanwhile
    <3> QED BY <2>1, <3>1, DevicesMeanwhile DEF Others
  <2>2. ASSUME NEW p \in Paths, TransferStep(p) PROVE TInv'
    <3>1. CASE ExportReads(p)
      BY <3>1, ExportReadsStep
    <3>2. CASE ExportWrites(p)
      BY <3>2, ExportWritesStep
    <3>3. CASE DumpWrites(p) \/ DumpSkips(p)
      BY <3>3, DumpWritesStep, DumpSkipsStep
    <3>4. CASE FileIsCutShort(p)
      BY <3>4, CutShortStep
    <3>5. CASE RestorePasses(p) \/ RestoreLooks(p)
      BY <3>5, RestorePassesStep, RestoreLooksStep
    <3>6. CASE CouchRestores(p) \/ AlgoliaFetches(p) \/ AlgoliaRestores(p)
      BY <3>6, CouchRestoresStep, AlgoliaFetchesStep, AlgoliaRestoresStep
    <3>7. CASE CouchRefuses(p)
      BY <3>7, FailsIsFine DEF CouchRefuses
    <3>8. CASE SeedPlans(p) \/ SeedFetches(p) \/ SeedImports(p) \/ SeedVerifies(p)
      BY <3>8, SeedPlansStep, SeedFetchesStep, SeedImportsStep, SeedVerifiesStep
    <3>9. CASE SeedRemoves(p) \/ SeedKeeps(p)
      BY <3>9, SeedRemovesStep, SeedKeepsStep
    <3>10. CASE StartRetract(p)
      BY <3>10, RetractBegins
    <3>11. CASE RetractIsConfirmed(p)
      BY <3>11, RetractStep
    <3> QED BY <2>2, <3>1, <3>2, <3>3, <3>4, <3>5, <3>6, <3>7, <3>8, <3>9, <3>10, <3>11 DEF TransferStep
  <2>3. CASE StartExport \/ WritesManifest \/ ManifestIsCutShort
    BY <2>3, ExportBegins, WritesManifestStep, ManifestCutShortStep
  <2>4. ASSUME NEW force \in BOOLEAN, NEW dry \in BOOLEAN, StartRestore(force, dry) \/ StartSeed(force, dry) PROVE TInv'
    BY <2>4, RestoreBegins, SeedBegins
  <2>5. CASE EndsRestore
    BY <2>5, EndsRestoreStep
  <2>6. CASE SeedIsPlanned \/ SeedIsImported \/ SeedIsVerified
    BY <2>6, SeedIsPlannedStep, SeedIsImportedStep, SeedIsVerifiedStep
  <2>7. CASE EndsSeed \/ RetractIsDeclined
    BY <2>7, SeedEndsStep
  <2>8. CASE TransferFails
    BY <2>8, FailsIsFine DEF TransferFails
  <2>9. CASE UNCHANGED transferVars
    <3>1. /\ store' = store /\ remote' = remote /\ tree' = tree /\ manifest' = manifest /\ transfer' = transfer
          /\ transfers' = transfers /\ edits' = edits /\ since' = since
      BY <2>9 DEF transferVars
    <3>2. TransferTypeOK' /\ RemoteOK' /\ RowsOK' /\ StagesOK' /\ SeedOK'
      BY <3>1 DEF TInv, TransferTypeOK, RemoteOK, RowsOK, StagesOK, SeedOK
    <3>3. HistoryOK' /\ ExportOK' /\ RestoreOK'
      BY <3>1 DEF TInv, HistoryOK, ExportOK, RestoreOK, Decided, RowTrue, BroughtBack, Live, Exists, HeadOf, At, FilesIn, KindIsKnown, KindOf
    <3> QED BY <3>2, <3>3 DEF TInv
  <2> QED BY <2>1, <2>2, <2>3, <2>4, <2>5, <2>6, <2>7, <2>8, <2>9 DEF TransferNext
<1> QED BY <1>1, TInvInit, PTL DEF TransferSpec

----------------------------------------------------------------------------
(* What the commands promise.                                              *)

\* Every reachable state of the transfers is well typed, whatever the paths and
\* the texts are: what any command keeps, and what it leaves in the vault, the
\* directory and the manifest.
THEOREM TransfersTyped == TransferSpec => []TransferTypeOK
<1>1. TInv => TransferTypeOK
  BY DEF TInv
<1> QED BY <1>1, TransferStays, PTL

\* An export that ended has a row for every entry that was there throughout,
\* with a text that was there at some time while it ran and that the file holds:
\* couchdb_transfer.rs export_with_resolver, algolia_cmd.rs dump_with_resolver.
THEOREM SnapshotsAreTrue == TransferSpec => []SnapshotIsTrue
<1>1. TInv => SnapshotIsTrue
  <2> SUFFICES ASSUME TInv, transfer.name = "export", transfer.at = "done", NEW p \in Paths
               PROVE  /\ p \in since.always => manifest.rows[p] # NoRow
                      /\ manifest.rows[p] # NoRow =>
                           /\ manifest.rows[p].text \in since.lived[p]
                           /\ p \notin since.touched => tree[p] = manifest.rows[p].text
                           /\ Cardinality(since.lived[p]) = 1 \/ store = "algolia" =>
                                remote[p][manifest.rows[p].rev].text = manifest.rows[p].text
    BY DEF SnapshotIsTrue
  <2>1. PICK row : row = transfer.rows[p]
    OBVIOUS
  <2>2. /\ manifest.rows[p] = IF row.rev = 0 THEN NoRow ELSE row
        /\ p \in since.always => row.rev # 0
        /\ row.rev # 0 => RowTrue(p, row)
    BY <2>1 DEF TInv, ExportOK
  <2>3. NoRow.rev = 0
    BY DEF NoRow
  <2>4. ASSUME row.rev # 0, Cardinality(since.lived[p]) = 1 PROVE since.lived[p] = {row.text}
    <3>1. PICK x : since.lived[p] = {x}
      BY <2>4, FS_Singleton DEF TInv, HistoryOK
    <3> QED BY <2>2, <2>4, <3>1 DEF RowTrue
  <2> QED BY <2>2, <2>3, <2>4 DEF RowTrue
<1> QED BY <1>1, TransferStays, PTL

\* A forced restore that ended undisturbed has brought back every file it can:
\* restore_with_resolver of couchdb_transfer.rs and of algolia_cmd.rs.
THEOREM RestoresBringBack == TransferSpec => []RestoreBringsBack
<1>1. TInv => RestoreBringsBack
  BY DEF TInv, RestoreOK, RestoreBringsBack, BroughtBack
<1> QED BY <1>1, TransferStays, PTL

\* A file that `seed --move` removed was held by the vault after the import.
THEOREM MovesWereHeld == TransferSpec => []MovedWasHeld
<1>1. TInv => MovedWasHeld
  BY DEF TInv, SeedOK, MovedWasHeld
<1> QED BY <1>1, TransferStays, PTL

\* The step of a restore that changes an entry: what it puts there, and where.
LEMMA RestoresChange ==
  ASSUME TInv, TransferNext, transfer.name = "restore", remote' # remote, edits' = edits
  PROVE  \E q \in Paths : CouchRestores(q) \/ AlgoliaRestores(q)
<1>1. transfer.at \in {"read", "write", "push", "done"} /\ edits \in Nat /\ edits # edits + 1
  BY DEF TInv, StagesOK, TransferTypeOK
<1>2. ~StartExport /\ ~WritesManifest /\ ~ManifestIsCutShort /\ ~EndsRestore /\ ~SeedIsPlanned /\ ~SeedIsImported
  BY DEF StartExport, Begins, WritesManifest, ManifestIsCutShort, EndsRestore, SeedIsPlanned, SeedIsImported, Goes
<1>3. ~SeedIsVerified /\ ~EndsSeed /\ ~RetractIsDeclined /\ ~TransferFails
  BY DEF SeedIsVerified, EndsSeed, RetractIsDeclined, TransferFails, Goes
<1>4. \A force, dry \in BOOLEAN : ~StartRestore(force, dry) /\ ~StartSeed(force, dry)
  BY DEF StartRestore, StartSeed, Begins
<1>5. PICK q \in Paths : Others(q) \/ TransferStep(q)
  BY <1>2, <1>3, <1>4 DEF TransferNext
<1>6. ~Others(q)
  BY <1>1 DEF Others, DeviceWrites, DeviceDeletes, FileChanges
<1>7. ~ExportReads(q) /\ ~ExportWrites(q) /\ ~DumpWrites(q) /\ ~DumpSkips(q) /\ ~FileIsCutShort(q)
  BY DEF ExportReads, ExportWrites, DumpWrites, DumpSkips, FileIsCutShort, Exported, Goes
<1>8. ~RestorePasses(q) /\ ~RestoreLooks(q) /\ ~CouchRefuses(q) /\ ~AlgoliaFetches(q)
  BY DEF RestorePasses, RestoreLooks, CouchRefuses, AlgoliaFetches, Goes
<1>9. ~SeedPlans(q) /\ ~SeedFetches(q) /\ ~SeedImports(q) /\ ~SeedVerifies(q) /\ ~SeedRemoves(q) /\ ~SeedKeeps(q)
  BY <1>1 DEF SeedPlans, SeedFetches, SeedImports, SeedVerifies, SeedRemoves, SeedKeeps
<1>10. ~StartRetract(q) /\ ~RetractIsConfirmed(q)
  BY <1>1 DEF StartRetract, Begins, RetractIsConfirmed
<1> QED BY <1>5, <1>6, <1>7, <1>8, <1>9, <1>10 DEF TransferStep

\* What a restore writes over, it had looked at and was told to replace, or the
\* note says that it diverges, unless its Algolia head moved after the write
\* fetched it: write_entry and push_note_version.
THEOREM NothingBuried == TransferSpec => NothingIsBuried
<1>1. ASSUME TInv, [TransferNext]_transferVars, NEW p \in Paths,
             transfer.name = "restore", Live(p), remote'[p] # remote[p], edits' = edits
      PROVE  \/ transfer.force /\ transfer.base = Len(remote[p])
             \/ remote'[p][Len(remote'[p])].diverges
             \/ store = "algolia" /\ transfer.head # Len(remote[p])
  <2>1. TransferNext /\ remote' # remote
    BY <1>1 DEF transferVars
  <2>2. PICK q \in Paths : CouchRestores(q) \/ AlgoliaRestores(q)
    BY <1>1, <2>1, RestoresChange
  <2>3. remote \in [Paths -> Seq(Revision)] /\ transfer \in Transfer
    BY <1>1 DEF TInv, TransferTypeOK
  <2>4. Exists(p) /\ HeadOf(p) \in Revision /\ Len(remote[p]) \in Nat \ {0}
    BY <1>1, HeadsAreTyped DEF Live
  <2>5. transfer.at \in {"write", "push"} /\ At(q)
    BY <2>2 DEF CouchRestores, AlgoliaRestores, Restoring
  <2>6. transfer.base # 0 => transfer.force
    BY <1>1, <2>5 DEF TInv, RestoreOK
  <2>7. CASE CouchRestores(q)
    <3>1. p = q
      BY <1>1, <2>3, <2>7 DEF CouchRestores, Lands
    <3> QED BY <2>4, <2>6, <2>7, <3>1 DEF CouchRestores, MeetsItsGuard
  <2>8. CASE AlgoliaRestores(q)
    <3>1. PICK r : r = Revised(transfer.text, "text", transfer.mark)
      OBVIOUS
    <3>2. remote' = [remote EXCEPT ![q] = Append(@, r)]
      BY <2>8, <3>1 DEF AlgoliaRestores, Pushes, Lands
    <3>3. p = q
      BY <1>1, <2>3, <3>2
    <3>4. store = "algolia" /\ Decided(p)
      BY <1>1, <2>5, <2>8, <3>3 DEF TInv, RestoreOK, AlgoliaRestores, Restoring
    <3>5. CASE transfer.head # Len(remote[p])
      BY <3>4, <3>5
    <3>6. CASE transfer.base = Len(remote[p])
      BY <2>4, <2>6, <3>6
    <3>7. CASE transfer.mark = TRUE
      <4>1. r.diverges = TRUE
        BY <3>1, <3>7 DEF Revised
      <4>2. remote[p] \in Seq(Revision)
        BY <2>3
      <4>3. remote'[p] = Append(remote[p], r)
        BY <2>3, <3>2, <3>3
      <4>4. remote'[p][Len(remote'[p])] = r
        BY <4>2, <4>3
      <4> QED BY <4>1, <4>4
    <3> QED BY <1>1, <3>4, <3>5, <3>6, <3>7 DEF Decided
  <2> QED BY <2>2, <2>7, <2>8
<1>2. TInv /\ [TransferNext]_transferVars =>
        [\A p \in Paths :
           transfer.name = "restore" /\ Live(p) /\ remote'[p] # remote[p] /\ edits' = edits =>
             \/ transfer.force /\ transfer.base = Len(remote[p])
             \/ remote'[p][Len(remote'[p])].diverges
             \/ store = "algolia" /\ transfer.head # Len(remote[p])]_transferVars
  BY <1>1
<1> QED BY <1>2, TransferStays, PTL DEF TransferSpec, NothingIsBuried
=============================================================================
