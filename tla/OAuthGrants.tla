---------------------------- MODULE OAuthGrants -----------------------------
(***************************************************************************)
(* The grants of the OAuth authority (server/src/oauth.rs): registration,  *)
(* consent, the code exchange, rotation of refresh tokens and their        *)
(* families, the bounds of its maps, and what a restart forgets.           *)
(*                                                                         *)
(* One mutex is held for the whole of a request, so a request is a step;   *)
(* a client whose answer was lost, or which sent a request twice, is one   *)
(* that presents any credential made so far.  A number stands for a random *)
(* value and its hash, and each map has its own.  Refusals that depend on  *)
(* nothing that is kept are one step (Refuse), and so is the limit on      *)
(* failed passwords, which only refuses more.                              *)
(***************************************************************************)
EXTENDS Naturals, FiniteSets, FiniteSetsExt

CONSTANTS ClientIds,        \* the registrations
          Capacity,         \* of pending, codes, tokens and families
          RefreshCapacity,  \* of refresh_tokens
          CodeTtl, Ttl,
          RefreshTtls,      \* what the configuration may say at a start
          MaxTime,          \* bound: the clock
          MaxRequests,      \* bound: consent pages shown
          MaxIssues         \* bound: answers with tokens

ASSUME OAuthAssumption ==
  /\ Capacity \in Nat \ {0} /\ RefreshCapacity \in Nat \ {0}
  /\ CodeTtl \in Nat \ {0} /\ Ttl \in Nat \ {0} /\ RefreshTtls \subseteq Nat
  /\ MaxTime \in Nat /\ MaxRequests \in Nat /\ MaxIssues \in Nat

VARIABLES
  now,
  clients,     \* the registry: "none", "code" or "refresh" for each client; it is on disk
  refreshTtl,
  store,       \* the maps: pending, codes, tokens, families, refresh
  asked,       \* consent pages shown
  issued,      \* answers with tokens
  given,       \* history: what the answers said, [kind, id, grant, until]
  began,       \* history: the time of each grant's exchange
  replayed     \* history: grants of which a spent refresh token was presented

grantsVars == <<now, clients, refreshTtl, store, asked, issued, given, began, replayed>>
history == <<given, began, replayed>>

Grants == 1 .. MaxRequests
Issues == 1 .. MaxIssues

\* A family is the number of the answer that began it; current is the number of
\* its last.  refresh holds every refresh token, spent or not, with its family.
Empty == [pending |-> {}, codes |-> {}, tokens |-> {}, families |-> {}, refresh |-> {}]

Page == [grant : Grants, client : ClientIds, expires : Nat]
AccessToken == [id : Issues, grant : Grants, family : {0} \cup Issues, expires : Nat]
Family == [id : Issues, grant : Grants, client : ClientIds, expires : Nat, current : Issues]
RefreshToken == [id : Issues, family : Issues]
Store == [pending : SUBSET Page, codes : SUBSET Page, tokens : SUBSET AccessToken,
          families : SUBSET Family, refresh : SUBSET RefreshToken]

GrantsTypeOK ==
  /\ now \in 0 .. MaxTime
  /\ clients \in [ClientIds -> {"none", "code", "refresh"}] /\ refreshTtl \in RefreshTtls
  /\ store \in Store
  /\ asked \in 0 .. MaxRequests /\ issued \in 0 .. MaxIssues
  /\ given \subseteq [kind : {"access", "refresh"}, id : Issues, grant : Grants, until : Nat]
  /\ began \in [Grants -> Nat] /\ replayed \subseteq Grants
  /\ \A map \in {store.pending, store.codes, store.tokens, store.families} : Cardinality(map) <= Capacity
  /\ Cardinality(store.refresh) <= RefreshCapacity

GrantsInit ==
  /\ now = 0
  /\ clients = [c \in ClientIds |-> "none"]
  /\ refreshTtl \in RefreshTtls
  /\ store = Empty
  /\ asked = 0 /\ issued = 0
  /\ given = {} /\ began = [g \in Grants |-> 0] /\ replayed = {}

----------------------------------------------------------------------------
\* prune, with which a request begins.
Pruned ==
  LET alive(S) == {x \in S : x.expires > now}
      families == {f \in alive(store.families) : clients[f.client] # "none"}
      ids == {f.id : f \in families}
  IN  [pending |-> alive(store.pending), codes |-> alive(store.codes), families |-> families,
       refresh |-> {r \in store.refresh : r.family \in ids},
       tokens |-> {t \in alive(store.tokens) : t.family \in {0} \cup ids}]

\* Only the refresh tokens of the family are forgotten.
RevokedInPart(s, family) == [s EXCEPT !.refresh = {r \in @ : r.family # family}]

\* revoke_family
Revoked(s, family) ==
  [s EXCEPT !.families = {f \in @ : f.id # family},
            !.refresh = {r \in @ : r.family # family},
            !.tokens = {t \in @ : t.family # family}]

Full(S) == Cardinality(S) >= Capacity

\* register: a grant type asked for is refused when refresh is not configured, and
\* a registry that cannot be written takes the client back.
Register(c) ==
  /\ clients[c] = "none"
  /\ Cardinality({d \in ClientIds : clients[d] # "none"}) < Capacity
  /\ \E kind \in {"code", "refresh"} :
       /\ kind = "refresh" => refreshTtl # 0
       /\ clients' = [clients EXCEPT ![c] = kind]
  /\ UNCHANGED <<now, refreshTtl, store, asked, issued, history>>

Refuse ==
  /\ store' = Pruned
  /\ UNCHANGED <<now, clients, refreshTtl, asked, issued, history>>

\* authorize, as far as the consent page.
Authorize(c) ==
  /\ clients[c] # "none" /\ asked < MaxRequests
  /\ ~Full(Pruned.pending)
  /\ asked' = asked + 1
  /\ store' = [Pruned EXCEPT !.pending = @ \cup {[grant |-> asked', client |-> c, expires |-> now + CodeTtl]}]
  /\ UNCHANGED <<now, clients, refreshTtl, issued, history>>

\* consent: denied or given a wrong password the page is spent; when there is no
\* room for a code it is not.
Consent(p) ==
  /\ \/ store' = [Pruned EXCEPT !.pending = @ \ {p}]
     \/ /\ ~Full(Pruned.codes)
        /\ store' = [Pruned EXCEPT !.pending = @ \ {p}, !.codes = @ \cup {[p EXCEPT !.expires = now + CodeTtl]}]
  /\ UNCHANGED <<now, clients, refreshTtl, asked, issued, history>>

\* A fresh access token has its whole lifetime.
WholeLifetime(s, family, at) == Ttl

\* The access token ends with its family.
Lifetime(s, family, at) ==
  Min({Ttl} \cup {IF f.expires > at THEN f.expires - at ELSE 0 : f \in {g \in s.families : g.id = family}})

\* issue_tokens.  The clock is read again, perhaps later than by prune.
Issue(s, grant, family) ==
  \E at \in now .. Min({now + 1, MaxTime}) :
    /\ now' = at
    /\ LET n == issued + 1
           ends == at + Lifetime(s, family, at)
           own == {f \in s.families : f.id = family}
       IN  IF ends = at THEN /\ store' = Revoked(s, family)
                             /\ UNCHANGED <<issued, given>>
           ELSE /\ issued' = n
                /\ store' = [s EXCEPT !.tokens = @ \cup {[id |-> n, grant |-> grant, family |-> family, expires |-> ends]},
                                      !.families = (@ \ own) \cup {[f EXCEPT !.current = n] : f \in own},
                                      !.refresh = @ \cup {[id |-> n, family |-> family] : f \in own}]
                /\ given' = {g \in given : g.grant # grant \/ g.kind # "refresh"}
                              \cup {[kind |-> "access", id |-> n, grant |-> grant, until |-> ends]}
                              \cup {[kind |-> "refresh", id |-> n, grant |-> grant, until |-> f.expires] : f \in own}

\* The code is consumed before anything else is looked at.
Consumed(s, code) == [s EXCEPT !.codes = @ \ {code}]

\* token with a code: c is the client that says so, and proper says that the
\* redirect, the verifier and the resource are those of the code.
Exchange(code, c, proper) ==
  LET s == Consumed(Pruned, code)
      renewable == refreshTtl # 0 /\ clients[c] = "refresh"
      room == ~Full(s.tokens) /\ (renewable => ~Full(s.families) /\ Cardinality(s.refresh) < RefreshCapacity)
      family == [id |-> issued + 1, grant |-> code.grant, client |-> c, expires |-> now + refreshTtl, current |-> issued + 1]
  IN  IF c = code.client /\ proper /\ room
      THEN /\ issued < MaxIssues
           /\ began' = [began EXCEPT ![code.grant] = now]
           /\ IF renewable THEN Issue([s EXCEPT !.families = @ \cup {family}], code.grant, family.id)
              ELSE Issue(s, code.grant, 0)
           /\ UNCHANGED <<clients, refreshTtl, asked, replayed>>
      ELSE /\ store' = s
           /\ UNCHANGED <<now, clients, refreshTtl, asked, issued, history>>

\* token with a refresh token.
Refresh(r, c, proper) ==
  LET s == Pruned
      f == CHOOSE x \in s.families : x.id = r.family
  IN  CASE f.client # c \/ refreshTtl = 0 -> Refuse
        [] f.client = c /\ refreshTtl # 0 /\ f.current # r.id ->
             /\ store' = Revoked(s, f.id)
             /\ replayed' = replayed \cup {f.grant}
             /\ UNCHANGED <<now, clients, refreshTtl, asked, issued, given, began>>
        [] f.client = c /\ refreshTtl # 0 /\ f.current = r.id ->
             IF ~proper \/ Full(s.tokens) \/ Cardinality(s.refresh) >= RefreshCapacity THEN Refuse
             ELSE /\ issued < MaxIssues
                  /\ Issue(s, f.grant, f.id)
                  /\ UNCHANGED <<clients, refreshTtl, asked, began, replayed>>

\* The registry is read again; grants and tokens are not kept.
Restart ==
  /\ refreshTtl' \in RefreshTtls
  /\ store' = Empty
  /\ given' = {} /\ replayed' = {}
  /\ UNCHANGED <<now, clients, asked, issued, began>>

Tick ==
  /\ now < MaxTime /\ now' = now + 1
  /\ UNCHANGED <<clients, refreshTtl, store, asked, issued, history>>

GrantsNext ==
  \/ Tick \/ Restart \/ Refuse
  \/ \E c \in ClientIds :
       \/ Register(c) \/ Authorize(c)
       \/ \E code \in Pruned.codes, proper \in BOOLEAN : Exchange(code, c, proper)
       \/ \E r \in Pruned.refresh, proper \in BOOLEAN : Refresh(r, c, proper)
  \/ \E p \in Pruned.pending : Consent(p)

GrantsSpec == GrantsInit /\ [][GrantsNext]_grantsVars

----------------------------------------------------------------------------
(* Properties.                                                             *)

\* accepts, and what refresh renews: the access tokens that open the server and
\* the refresh tokens that would be exchanged.
Accepted == {<<"access", t.id>> : t \in Pruned.tokens}
Renews == {<<"refresh", f.current>> : f \in {x \in Pruned.families : [id |-> x.current, family |-> x.id] \in Pruned.refresh}}

\* Once a spent refresh token of a grant was presented, or the lifetime of the
\* grant has passed since its code was exchanged, no token of it is good for
\* anything, and a grant never has two refresh tokens at a time (oauth.rs,
\* revoke_family and prune).
NothingOutlivesItsGrant ==
  /\ \A g \in Grants : Cardinality({f \in Pruned.families : f.grant = g}) <= 1
  /\ \A x \in Pruned.families : x.grant \notin replayed /\ now < began[x.grant] + refreshTtl
  /\ \A t \in Pruned.tokens : t.grant \notin replayed
                                /\ now < began[t.grant] + (IF t.family = 0 THEN Ttl + 1 ELSE refreshTtl)

\* What an answer said is kept: the access tokens it gave are accepted, and the
\* last refresh token can be exchanged, until the time it said, unless a spent
\* token was presented or the server restarted; requests that were refused, for
\* want of room too, spend nothing.
PromisesAreKept ==
  \A g \in given : g.grant \notin replayed /\ now < g.until => <<g.kind, g.id>> \in Accepted \cup Renews
=============================================================================
