--------------------------- MODULE AlgoliaListing ---------------------------
(***************************************************************************)
(* The generation sentinel of a shared Algolia index and the whole-corpus  *)
(* listing cache it validates                                              *)
(* (rust/crates/deep-obsidian-backend/src/algolia/generation.rs).          *)
(*                                                                         *)
(* Each process runs several tasks, which list the corpus or mutate a      *)
(* note.  A task suspends at every await: any other task's steps fall      *)
(* between two of its requests, and between the answer to a request and    *)
(* what it does with it.  A listing is abstracted to the number of         *)
(* mutations it reflects: mutations land in one order, the task order of   *)
(* the main index.  One listing kind stands for the three: they share the  *)
(* token and nothing else.                                                 *)
(***************************************************************************)
EXTENDS Integers, FiniteSets

CONSTANTS Procs,      \* server processes mounting the index
          Task,       \* their tasks: pairs of a process and a name
          MaxWrites,  \* bound: mutations in one behaviour
          Faults      \* what may go wrong in a behaviour

ASSUME ListingAssumption ==
  /\ \A k \in Task : k[1] \in Procs
  /\ MaxWrites \in Nat
  /\ Faults \subseteq {"readSentinel", "bump", "request", "crash"}

ProcOf(k) == k[1]

Count == 0 .. MaxWrites
Token == 1 .. MaxWrites
NoToken == 0
NoEntry == -1

Stages == {"idle", "token", "observe", "lookup", "browse", "browsing", "put", "listed",
           "save", "bump", "clear"}

TaskState ==
  [at : Stages,
   token : {NoToken} \cup Token,  \* the sentinel reading of a listing
   values : Count,                \* the listing it browsed, found or returns
   mine : Count,                  \* a mutation's place in the order
   \* when the listing was asked for:
   owed : Count,                  \* the mutations announced by the sentinel,
   own : Count]                   \* this process's own that must be listed

IdleTask == [at |-> "idle", token |-> NoToken, values |-> 0, mine |-> 0, owed |-> 0, own |-> 0]

ListingState == [token : {NoToken} \cup Token, entry : {NoEntry} \cup Count]
EmptyListing == [token |-> NoToken, entry |-> NoEntry]

VARIABLES
  landed,     \* main index: mutations whose head save is published
  sentinel,   \* main index: the token of meta:generation, NoToken when missing
  minted,     \* tokens minted so far
  listings,   \* each process's ListingCache
  task,       \* what each task is executing
  \* history variables, read by no action
  announced,  \* mutations landed when a token was written
  ownListed,  \* each process's last mutation that its own listings must show
  finished    \* each process's last mutation that has returned

index == <<landed, sentinel, minted>>
ghosts == <<announced, ownListed, finished>>
vars == <<index, listings, task, ghosts>>

TypeOK ==
  /\ landed \in Count
  /\ sentinel \in {NoToken} \cup Token
  /\ minted \in Count
  /\ listings \in [Procs -> ListingState]
  /\ task \in [Task -> TaskState]
  /\ announced \in [{NoToken} \cup Token -> Count]
  /\ ownListed \in [Procs -> Count]
  /\ finished \in [Procs -> Count]

Init ==
  /\ landed = 0 /\ sentinel = NoToken /\ minted = 0
  /\ listings = [p \in Procs |-> EmptyListing]
  /\ task = [k \in Task |-> IdleTask]
  /\ announced = [t \in {NoToken} \cup Token |-> 0]
  /\ ownListed = [p \in Procs |-> 0]
  /\ finished = [p \in Procs |-> 0]

----------------------------------------------------------------------------
(* cached: one whole-corpus listing.                                       *)

StartListing(k) ==
  /\ task[k].at = "idle"
  /\ task' = [task EXCEPT ![k] = [IdleTask EXCEPT !.at = "token",
                                    !.owed = announced[sentinel],
                                    !.own = ownListed[ProcOf(k)]]]
  /\ UNCHANGED <<index, listings, ghosts>>

\* Mutant: the reading is validated against the process's own cache only.
FetchTokenFromCache(k) ==
  /\ task[k].at = "token"
  /\ \E t \in {IF listings[ProcOf(k)].token = NoToken THEN sentinel
                              ELSE listings[ProcOf(k)].token} :
       task' = [task EXCEPT ![k].at = IF t = NoToken THEN "browse" ELSE "observe",
                            ![k].token = t]
  /\ UNCHANGED <<index, listings, ghosts>>

\* current_token: the sentinel as the index holds it, or no usable reading.
FetchToken(k) ==
  /\ task[k].at = "token"
  /\ \E t \in {sentinel} \cup (IF "readSentinel" \in Faults THEN {NoToken} ELSE {}) :
       task' = [task EXCEPT ![k].at = IF t = NoToken THEN "browse" ELSE "observe",
                            ![k].token = t]
  /\ UNCHANGED <<index, listings, ghosts>>

\* A moved token drops every entry.
Observe(k) ==
  /\ task[k].at = "observe"
  /\ listings' = [listings EXCEPT ![ProcOf(k)] =
                    IF @.token = task[k].token THEN @
                    ELSE [token |-> task[k].token, entry |-> NoEntry]]
  /\ task' = [task EXCEPT ![k].at = "lookup"]
  /\ UNCHANGED <<index, ghosts>>

Hit(k) ==
  LET cached == listings[ProcOf(k)]
  IN  cached.token = task[k].token /\ cached.entry # NoEntry

Lookup(k) ==
  /\ task[k].at = "lookup"
  /\ task' = [task EXCEPT ![k] =
                IF Hit(k) THEN [@ EXCEPT !.at = "listed", !.values = listings[ProcOf(k)].entry]
                ELSE [@ EXCEPT !.at = "browse"]]
  /\ UNCHANGED <<index, listings, ghosts>>

\* collect: the browse follows cursors, so it reflects all that had landed when
\* it started and any part of what lands meanwhile.
BrowseStarts(k) ==
  /\ task[k].at = "browse"
  /\ task' = [task EXCEPT ![k].at = "browsing", ![k].values = landed]
  /\ UNCHANGED <<index, listings, ghosts>>

\* Mutant: the listing is counted one mutation ahead.
BrowseEndsAhead(k) ==
  /\ task[k].at = "browsing"
  /\ task' = [task EXCEPT ![k].values = landed + 1,
                         ![k].at = IF task[k].token = NoToken THEN "listed" ELSE "put"]
  /\ UNCHANGED <<index, listings, ghosts>>

BrowseEnds(k) ==
  /\ task[k].at = "browsing"
  /\ \E n \in task[k].values .. landed :
       task' = [task EXCEPT ![k].values = n,
                            ![k].at = IF task[k].token = NoToken THEN "listed" ELSE "put"]
  /\ UNCHANGED <<index, listings, ghosts>>

\* put: only when the cache still holds the token read before the browse.
Put(k) ==
  /\ task[k].at = "put"
  /\ listings' = [listings EXCEPT ![ProcOf(k)] =
                    IF @.token = task[k].token THEN [@ EXCEPT !.entry = task[k].values]
                    ELSE @]
  /\ task' = [task EXCEPT ![k].at = "listed"]
  /\ UNCHANGED <<index, ghosts>>

ReturnListing(k) ==
  /\ task[k].at = "listed"
  /\ task' = [task EXCEPT ![k] = IdleTask]
  /\ UNCHANGED <<index, listings, ghosts>>

----------------------------------------------------------------------------
(* A mutation: the awaited head save (or retraction), then bump.           *)
(* StartMutation keeps the number of mutations within MaxWrites, so the    *)
(* bound in the guards of SaveHead and Bump never holds one up.            *)

StartMutation(k) ==
  /\ task[k].at = "idle"
  /\ landed + Cardinality({j \in Task : task[j].at = "save"}) < MaxWrites
  /\ task' = [task EXCEPT ![k] = [IdleTask EXCEPT !.at = "save"]]
  /\ UNCHANGED <<index, listings, ghosts>>

SaveHead(k) ==
  /\ task[k].at = "save"
  /\ landed < MaxWrites
  /\ landed' = landed + 1
  /\ task' = [task EXCEPT ![k].at = "bump", ![k].mine = landed + 1]
  /\ UNCHANGED <<sentinel, minted, listings, ghosts>>

\* Mutant: a token that is only minted once.
BumpOnce(k) ==
  /\ task[k].at = "bump"
  /\ minted < MaxWrites
  /\ minted' = minted + 1
  /\ sentinel' = 1
  /\ announced' = [announced EXCEPT ![minted + 1] = landed]
  /\ task' = [task EXCEPT ![k].at = "clear"]
  /\ UNCHANGED <<landed, listings, ownListed, finished>>

\* bump: a fresh token replaces whatever the sentinel holds.
Bump(k) ==
  /\ task[k].at = "bump"
  /\ minted < MaxWrites
  /\ minted' = minted + 1
  /\ sentinel' = minted + 1
  /\ announced' = [announced EXCEPT ![minted + 1] = landed]
  /\ task' = [task EXCEPT ![k].at = "clear"]
  /\ UNCHANGED <<landed, listings, ownListed, finished>>

\* Mutant: a failed bump returns before the local clear.
BumpFailsEarly(k) ==
  /\ "bump" \in Faults
  /\ task[k].at = "bump"
  /\ ownListed' = [ownListed EXCEPT ![ProcOf(k)] = task[k].mine]
  /\ task' = [task EXCEPT ![k] = IdleTask]
  /\ finished' = [finished EXCEPT ![ProcOf(k)] = task[k].mine]
  /\ UNCHANGED <<index, listings, announced>>

\* A failed bump is logged and is not a failed write.
BumpFails(k) ==
  /\ "bump" \in Faults
  /\ task[k].at = "bump"
  /\ task' = [task EXCEPT ![k].at = "clear"]
  /\ UNCHANGED <<index, listings, ghosts>>

\* Another listing of this process has read the sentinel and not returned.
ListingInFlight(p) ==
  \E k \in Task : ProcOf(k) = p /\ task[k].at \in {"observe", "lookup", "browse", "browsing", "put"}

Later(m, n) == IF m >= n THEN m ELSE n

\* The local clear, whatever became of the bump.
Clear(k) ==
  /\ task[k].at = "clear"
  /\ listings' = [listings EXCEPT ![ProcOf(k)] = EmptyListing]
  /\ ownListed' = [ownListed EXCEPT ![ProcOf(k)] =
                     IF ListingInFlight(ProcOf(k)) THEN @ ELSE Later(@, task[k].mine)]
  /\ finished' = [finished EXCEPT ![ProcOf(k)] = Later(@, task[k].mine)]
  /\ task' = [task EXCEPT ![k] = IdleTask]
  /\ UNCHANGED <<index, announced>>

----------------------------------------------------------------------------
(* Faults: a request of a task fails, or its process dies.                 *)

\* A failed save or browse ends the task.
TaskFails(k) ==
  /\ "request" \in Faults
  /\ task[k].at \in {"save", "browsing"}
  /\ task' = [task EXCEPT ![k] = IdleTask]
  /\ UNCHANGED <<index, listings, ghosts>>

\* Nothing of the listing cache is persisted.
Crash(p) ==
  /\ "crash" \in Faults
  /\ task' = [k \in Task |-> IF ProcOf(k) = p THEN IdleTask ELSE task[k]]
  /\ listings' = [listings EXCEPT ![p] = EmptyListing]
  /\ UNCHANGED <<index, ghosts>>

Listing(k) ==
  \/ FetchToken(k) \/ Observe(k) \/ Lookup(k) \/ BrowseStarts(k) \/ BrowseEnds(k)
  \/ Put(k) \/ ReturnListing(k)

Mutation(k) == SaveHead(k) \/ Bump(k) \/ BumpFails(k) \/ Clear(k)

Next ==
  \/ \E k \in Task :
       StartListing(k) \/ Listing(k) \/ StartMutation(k) \/ Mutation(k) \/ TaskFails(k)
  \/ \E p \in Procs : Crash(p)

Spec == Init /\ [][Next]_vars

\* The runtime runs every started task to its end, and each client keeps asking
\* for listings: `resources/list` and `vault_info` are polled.
PollsListings(p) == \E k \in Task : ProcOf(k) = p /\ (StartListing(k) \/ Listing(k))
Fairness ==
  /\ \A k \in Task : WF_vars(Listing(k)) /\ WF_vars(Mutation(k))
  /\ \A p \in Procs : WF_vars(PollsListings(p))
FairSpec == Spec /\ Fairness

----------------------------------------------------------------------------
(* Properties.                                                             *)

\* A listing reflects every mutation announced before it was asked for: the
\* token is read before the browse and an entry is stored only under the token
\* that was read, so no interleaving of listings and mutations of any process
\* serves a listing older than the token that vouches for it.
AnnouncedIsListed ==
  \A k \in Task : task[k].at = "listed" => task[k].values >= task[k].owed

\* A write-then-list through one process shows the write even when its bump
\* failed: the local clear is enough, unless a listing was in flight.
OwnWriteIsListed ==
  \A k \in Task : task[k].at = "listed" => task[k].values >= task[k].own

\* What a cache holds under a token includes all that the token announced.
CacheCoherent ==
  \A p \in Procs :
    listings[p].entry # NoEntry => listings[p].entry >= announced[listings[p].token]

\* Once requests stop failing and processes stop dying, every mutation whose bump
\* was published reaches every process's listings, whatever failed before: no
\* cache goes on answering under a token that has moved.
Interrupted == (\E k \in Task : TaskFails(k)) \/ (\E p \in Procs : Crash(p))
EventuallyListed ==
  <>[][~Interrupted]_vars =>
    \A p \in Procs, n \in 1 .. MaxWrites :
      (\E t \in 1 .. minted : announced[t] >= n)
        ~> \E k \in Task : ProcOf(k) = p /\ task[k].at = "listed" /\ task[k].values >= n
=============================================================================
