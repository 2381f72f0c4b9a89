-------------------------- MODULE FederatedSearch ---------------------------
(***************************************************************************)
(* A search over every mount (server/src/federation.rs, and its sources in *)
(* tools.rs and backend/src/algolia/recall.rs): pages of candidates are    *)
(* fetched from the mounts, fused by weighted reciprocal ranks, and more   *)
(* are fetched until no unseen candidate could enter the answer; then the  *)
(* fused window is ranked again.                                           *)
(*                                                                         *)
(* A candidate is its mount and its place in the mount's own ranking:      *)
(* paths are namespaced, so no two mounts share one.  Mounts are numbered  *)
(* in the order of their ids.  Scores are exact.                           *)
(***************************************************************************)
EXTENDS Naturals, Sequences, FiniteSets, SequencesExt, FiniteSetsExt

CONSTANTS M,         \* mounts
          Kinds,     \* of mounts: "local", "native", "skipped" or "unable"
          Weights,
          K,         \* FEDERATION_RRF_K
          Scale,     \* of the scores, which are fractions of it
          Limit, Window, PageSize, Budget,
          MaxLen,    \* bound: the candidates of one mount
          MaxPages,  \* bound: the pages of a native mount whose ranking shifts
          Signals    \* for the last ranking: [semantic, lexical] of each candidate, 0 for none

ASSUME FederationAssumption ==
  /\ M \in Nat \ {0} /\ K \in Nat \ {0} /\ Weights \subseteq Nat \ {0}
  /\ Kinds \subseteq {"local", "native", "skipped", "unable"}
  /\ Limit \in Nat \ {0} /\ Window \in Nat /\ Window >= Limit
  /\ Scale \in Nat \ {0} /\ \A r \in 0 .. MaxLen + Window : Scale % (K + r) = 0
  /\ PageSize \in Nat /\ PageSize >= Limit   \* candidate_target
  /\ Budget \in Nat /\ MaxLen \in Nat /\ MaxPages \in Nat

Mounts == 1 .. M
Candidates == Mounts \X (1 .. MaxLen)
Stages == {"off", "lexical only", "no query vector"}

ASSUME SignalsAssumption == \A s \in Signals : s \in [Candidates -> [semantic : Nat, lexical : Nat]]

VARIABLES
  kind, weight, length,  \* of each mount; they never change
  served,   \* how far a native mount's cursor has come
  list,     \* what each mount gave: [keys, exhausted, closed, error]
  queue,    \* the mounts this round has still to ask
  fetched, spent,        \* candidates so far; whether the budget was reached
  stage,    \* "fetching", "fused" or what the last ranking did
  hits,     \* the fused window, then the answer
  settled,  \* the frontier was stable
  signals,  \* what the last ranking saw
  shifted   \* history: a mount's ranking changed between two of its pages

searchVars == <<kind, weight, length, served, list, queue, fetched, spent, stage, hits, settled, signals, shifted>>
mounts == <<kind, weight, length>>

Nothing == [keys |-> <<>>, exhausted |-> FALSE, closed |-> FALSE, error |-> FALSE]
NoSignal == [c \in Candidates |-> [semantic |-> 0, lexical |-> 0]]

Lists == [keys : Seq(1 .. MaxLen), exhausted : BOOLEAN, closed : BOOLEAN, error : BOOLEAN]

SearchTypeOK ==
  /\ kind \in [Mounts -> Kinds] /\ weight \in [Mounts -> Weights] /\ length \in [Mounts -> 0 .. MaxLen]
  /\ served \in [Mounts -> Nat] /\ list \in [Mounts -> Lists]
  /\ queue \in Seq(Mounts) /\ fetched \in Nat /\ spent \in BOOLEAN /\ settled \in BOOLEAN
  /\ stage \in {"fetching", "fused", "reranked"} \cup Stages
  /\ signals \in Signals \cup {NoSignal} /\ shifted \in BOOLEAN

\* federated_recall_mounts: a mount that can hold nothing of what is searched is
\* skipped, one that could not be asked is an error.
Opening(k) ==
  CASE k = "skipped" -> [Nothing EXCEPT !.exhausted = TRUE, !.closed = TRUE]
    [] k = "unable" -> [Nothing EXCEPT !.closed = TRUE, !.error = TRUE]
    [] OTHER -> Nothing

SearchInit ==
  /\ kind \in [Mounts -> Kinds] /\ weight \in [Mounts -> Weights]
  /\ length \in [Mounts -> 0 .. MaxLen]
  /\ \A m \in Mounts : kind[m] \in {"skipped", "unable"} => length[m] = 0
  /\ served = [m \in Mounts |-> 0]
  /\ list = [m \in Mounts |-> Opening(kind[m])]
  /\ queue = [m \in Mounts |-> m]
  /\ fetched = 0 /\ spent = FALSE
  /\ stage = "fetching" /\ hits = <<>> /\ settled = FALSE
  /\ signals = NoSignal /\ shifted = FALSE

----------------------------------------------------------------------------
(* Fusion.                                                                 *)

\* The elements of S by a strict total order.
InOrder(S, First(_, _)) ==
  LET before == [x \in S |-> Cardinality({y \in S : First(y, x)})]
  IN  [i \in 1 .. Cardinality(S) |-> CHOOSE x \in S : before[x] = i - 1]

\* A candidate at a rank, counted from 0.
Share(w, rank) == w * (Scale \div (K + rank))

Ranks(keys, key) == {i - 1 : i \in {j \in DOMAIN keys : keys[j] = key}}

\* What a key has at several ranks is summed.
Score(w, ranks) == MapThenSumSet(LAMBDA r : Share(w, r), ranks)

\* The hits of a mount.
HitsOf(m, keys) ==
  {[mount |-> m, key |-> key, rank |-> Min(Ranks(keys, key)), score |-> Score(weight[m], Ranks(keys, key))] :
     key \in Range(keys)}

\* The total order of fuse: score, mount id, path, rank; places stand for paths.
Before(x, y) ==
  \/ x.score > y.score
  \/ /\ x.score = y.score
     /\ \/ x.mount < y.mount
        \/ x.mount = y.mount /\ x.key < y.key

FirstOf(s, n) == SubSeq(s, 1, Min({n, Len(s)}))

\* The hits of the mounts that did not fail.
HitsIn(lists) == UNION {HitsOf(m, lists[m].keys) : m \in {x \in Mounts : ~lists[x].error}}

Fuse(lists, n) == FirstOf(InOrder(HitsIn(lists), Before), n)

\* A mount that failed is asked again.
OpenUnlessClosed(l) == ~l.closed

\* is_open
Open(l) == ~l.closed /\ ~l.error

\* Only a candidate that would be above the last of the answer, not level with it.
UnstableAbove(lists, h) ==
  {m \in Mounts : Open(lists[m]) /\ (Len(h) >= Limit => Share(weight[m], Len(lists[m].keys)) > h[Limit].score)}

\* unstable_mounts: those whose next candidate could be in the answer.
Unstable(lists, h) ==
  {m \in Mounts : Open(lists[m]) /\ (Len(h) >= Limit => Share(weight[m], Len(lists[m].keys)) >= h[Limit].score)}

----------------------------------------------------------------------------
(* Fetching.                                                               *)

Asked == Head(queue)
Fetching(k) == stage = "fetching" /\ queue # <<>> /\ ~spent /\ fetched < Budget /\ kind[Asked] \in k
Rest == UNCHANGED <<spent, stage, hits, settled, signals>> /\ UNCHANGED mounts

\* Whether a page is the last one the mount is asked for.
Closes(keys, exhausted) == exhausted \/ keys = <<>>

Gives(keys, exhausted) ==
  /\ list' = [list EXCEPT ![Asked] = [keys |-> @.keys \o keys, exhausted |-> exhausted,
                                      closed |-> Closes(keys, exhausted), error |-> FALSE]]
  /\ fetched' = fetched + Len(keys)
  /\ queue' = Tail(queue)

\* A local index answers one query; asked again it has nothing, and does not
\* claim to have given all.
FetchLocal ==
  /\ Fetching({"local"})
  /\ IF list[Asked].keys = <<>>
     THEN LET n == Min({PageSize, length[Asked]})
          IN  Gives([i \in 1 .. n |-> i], n < PageSize)
     ELSE Gives(<<>>, FALSE)
  /\ UNCHANGED <<served, shifted>> /\ Rest

\* drop_superseded: any hit may be of a version that is no longer the head.
Kept(page) == SUBSET page

\* A native mount answers with what is kept of the page its cursor names; a full
\* page has another after it.
FetchNative ==
  /\ Fetching({"native"})
  /\ LET page == {i \in 1 .. length[Asked] : served[Asked] < i /\ i <= served[Asked] + PageSize}
     IN  /\ \E kept \in Kept(page) : Gives(InOrder(kept, <), Cardinality(page) < PageSize)
         /\ served' = [served EXCEPT ![Asked] = @ + PageSize]
  /\ UNCHANGED shifted /\ Rest

\* A note was written between two pages: the last hit of one is the first of the
\* next.
FetchShifted ==
  /\ Fetching({"native"})
  /\ list[Asked].keys # <<>> /\ served[Asked] < PageSize * MaxPages
  /\ LET page == {i \in 1 .. length[Asked] : served[Asked] < i /\ i < served[Asked] + PageSize}
     IN  /\ Gives(<<Last(list[Asked].keys)>> \o InOrder(page, <), Cardinality(page) + 1 < PageSize)
         /\ served' = [served EXCEPT ![Asked] = @ + PageSize - 1]
  /\ shifted' = TRUE
  /\ Rest

\* No snapshot to serve, or the backend fails.
FetchFails ==
  /\ Fetching({"local", "native"})
  /\ list' = [list EXCEPT ![Asked].error = TRUE]
  /\ queue' = Tail(queue)
  /\ UNCHANGED <<served, fetched, shifted>> /\ Rest

\* A mount that takes no part is asked too, in the first round.
FetchNothing ==
  /\ Fetching({"skipped", "unable"})
  /\ list' = [list EXCEPT ![Asked] = [@ EXCEPT !.exhausted = TRUE, !.closed = TRUE]]
  /\ queue' = Tail(queue)
  /\ UNCHANGED <<served, fetched, shifted>> /\ Rest

OverBudget ==
  /\ stage = "fetching" /\ queue # <<>> /\ ~spent /\ fetched >= Budget
  /\ spent' = TRUE /\ queue' = <<>>
  /\ UNCHANGED <<served, list, fetched, stage, hits, settled, signals, shifted>> /\ UNCHANGED mounts

\* The end of a round of federate_with_window.
Judge ==
  /\ stage = "fetching" /\ queue = <<>>
  /\ LET h == Fuse(list, Window)
         unstable == Unstable(list, h)
     IN  IF unstable # {} /\ ~spent /\ fetched < Budget
         THEN /\ queue' = InOrder(unstable, <)
              /\ UNCHANGED <<stage, hits, settled, spent>>
         ELSE /\ hits' = h /\ settled' = (unstable = {}) /\ stage' = "fused"
              /\ spent' = (spent \/ unstable # {})
              /\ UNCHANGED queue
  /\ UNCHANGED <<served, list, fetched, signals, shifted>> /\ UNCHANGED mounts

----------------------------------------------------------------------------
(* The last ranking.                                                       *)

Signal(s, h) == s[<<h.mount, h.key>>]

\* The lexical signal of each hit: without one it is not in the list.
Lexical(h, s) == [i \in DOMAIN h |-> Signal(s, h[i]).lexical]
Semantic(h, s) == [i \in DOMAIN h |-> Signal(s, h[i]).semantic]

\* ranked_by: how many are before i, by the signal and then the fused order.
RankIn(signal, i) ==
  Cardinality({j \in DOMAIN signal : signal[j] # 0 /\ (signal[j] > signal[i] \/ (signal[j] = signal[i] /\ j < i))})

ShareIn(signal, i) == IF signal[i] = 0 THEN 0 ELSE Share(1, RankIn(signal, i) + 1)

\* rerank
Reranked(h, s) ==
  LET semantic == Semantic(h, s)
      lexical == Lexical(h, s)
      score == [i \in DOMAIN h |-> ShareIn(semantic, i) + ShareIn(lexical, i)]
      First(i, j) == score[i] > score[j] \/ (score[i] = score[j] /\ i < j)
      order == InOrder(DOMAIN h, First)
  IN  IF \A i \in DOMAIN h : semantic[i] = 0 THEN h ELSE [i \in DOMAIN h |-> h[order[i]]]

\* finish_federated_recall, and apply_federated_rerank when the query could be
\* embedded.
Finish ==
  /\ stage = "fused"
  /\ \/ /\ stage' \in Stages
        /\ hits' = FirstOf(hits, Limit)
        /\ UNCHANGED signals
     \/ /\ stage' = "reranked"
        /\ signals' \in Signals
        /\ hits' = FirstOf(Reranked(hits, signals'), Limit)
  /\ UNCHANGED <<served, list, queue, fetched, spent, settled, shifted>> /\ UNCHANGED mounts

SearchNext ==
  \/ FetchLocal \/ FetchNative \/ FetchShifted \/ FetchFails \/ FetchNothing
  \/ OverBudget \/ Judge \/ Finish

Done == stage \notin {"fetching", "fused"}

SearchSpec == SearchInit /\ [][SearchNext]_searchVars /\ WF_searchVars(SearchNext)

----------------------------------------------------------------------------
(* Properties.                                                             *)

\* What a mount would give if it were asked to the end: with a closed one or one
\* that failed there is nothing to ask.
ToTheEnd(m) ==
  IF ~Open(list[m]) THEN list[m]
  ELSE LET from == IF kind[m] = "local" THEN Len(list[m].keys) ELSE served[m]
       IN  [list[m] EXCEPT !.keys = @ \o [i \in 1 .. (IF length[m] > from THEN length[m] - from ELSE 0) |-> from + i]]

\* When the search says its frontier was stable, reading every mount to the end
\* would not have changed the answer, though most of their candidates were never
\* fetched (federation.rs, point 5 of its algorithm); unless a mount's ranking
\* changed under its cursor.
StableIsTop ==
  stage = "fused" /\ settled /\ ~shifted =>
    FirstOf(hits, Limit) = Fuse([m \in Mounts |-> ToTheEnd(m)], Limit)

\* Of two hits of a reranked answer the one with the better evidence is first,
\* whichever mounts they are from: better by both signals, or by one when neither
\* has the other.
Better(x, y) ==
  \/ x.semantic > y.semantic /\ x.lexical > y.lexical
  \/ x.semantic > y.semantic /\ x.lexical = 0 /\ y.lexical = 0
  \/ x.lexical > y.lexical /\ x.semantic = 0 /\ y.semantic = 0
EvidenceDecides ==
  stage = "reranked" /\ (\E h \in Range(hits) : Signal(signals, h).semantic # 0) =>
    \A i, j \in DOMAIN hits : i < j => ~Better(Signal(signals, hits[j]), Signal(signals, hits[i]))

\* A search ends, whatever the mounts answer, as long as each request does: a
\* mount that failed, or gave nothing, is not asked again.
Terminates == <>Done
=============================================================================
