----------------------------- MODULE ApiAuthority -----------------------------
(***************************************************************************)
(* What an API account may do to one integration: modules/authorization.ts *)
(* and services/integration-service.ts of the CSS API, over the consents,  *)
(* caps and owning team of AccessPolicy.  The account's authority is read  *)
(* in up to three queries and cached for a while in the process; requests  *)
(* that find no fresh entry each read it, and the last to end is what the  *)
(* cache keeps.  A request then reads the integration and decides: one row *)
(* by its permissions, a list by a predicate.  Time is counted in ticks.   *)
(***************************************************************************)
EXTENDS AccessPolicy

CONSTANTS
  ApiRequest,   \* concurrent requests of one account
  Needed,       \* the permissions they require
  CacheTtl,     \* CACHE_TTL_MS
  MaxLoad,      \* the longest the queries of one load take
  MaxApiChanges, \* bound on changes meanwhile
  MaxClock      \* bound on time

ASSUME AuthorityAssumption ==
  /\ Needed \subseteq TeamAdmin
  /\ CacheTtl \in Nat /\ MaxLoad \in Nat
  /\ MaxApiChanges \in 0..MaxAccessChanges /\ MaxClock \in Nat

VARIABLES
  now,
  apiAccount,     \* the account: its team, or that it is the organization's or archived
  changedAt,   \* when the account, a consent or a cap last changed
  entry,       \* the cache's entry
  request      \* the requests

authorityVars == <<now, apiAccount, changedAt, entry, request>>

ApiAccount == OwningTeam \cup {"organization", "archived"}
Context == [account : ApiAccount, links : [OwningTeam -> ConsentChoice \cup {Unset}],
            caps : [OwningTeam -> ConsentChoice \cup {Unset}]]
Nobody == [account |-> "archived", links |-> NoneOf, caps |-> NoneOf]
Resting == [at |-> "idle", asked |-> "none", context |-> Nobody, since |-> 0]

AuthorityTypeOK ==
  /\ now \in 0..MaxClock /\ apiAccount \in ApiAccount /\ changedAt \in 0..now
  /\ entry \in [context : Context, expires : 0..(MaxClock + CacheTtl)]
  /\ request \in [ApiRequest -> [at : {"idle", "account", "links", "caps", "store", "decide",
                                      "allowed", "refused"},
       asked : Needed \cup {"none"}, context : Context, since : 0..MaxClock]]

Loading(q) == q.at \in {"account", "links", "caps", "store"}

AuthorityInit ==
  /\ now = 0 /\ changedAt = 0
  /\ apiAccount \in ApiAccount \ {"archived"}
  /\ entry = [context |-> Nobody, expires |-> 0]
  /\ request = [a \in ApiRequest |-> Resting]

\* A load that has taken its time ends before time goes on.
Tick ==
  /\ now < MaxClock /\ now' = now + 1
  /\ \A a \in ApiRequest : Loading(request[a]) => now - request[a].since < MaxLoad
  /\ UNCHANGED <<accessVars, apiAccount, changedAt, entry, request>>

\* What the app changes meanwhile: the integration's team, a consent, a cap.
AppChanges ==
  /\ accessChanges < MaxApiChanges
  /\ \E t \in OwningTeam :
       \/ SaveRow([row EXCEPT !.team = t])
       \/ \E p \in ConsentChoice \cup {Unset} : SetConsentOf(t, p) \/ SetCap(t, p)
  /\ changedAt' = now
  /\ UNCHANGED <<now, apiAccount, entry, request>>

ArchiveAccount ==
  /\ apiAccount # "archived" /\ apiAccount' = "archived"
  /\ accessChanges < MaxApiChanges /\ accessChanges' = accessChanges + 1
  /\ changedAt' = now
  /\ UNCHANGED <<Data, scope, steady, now, entry, request>>

-----------------------------------------------------------------------------
Moves(a, q) == request' = [request EXCEPT ![a] = q]

(* Mutant: an entry that is used is kept for longer. *)
UsedForLonger(e) == [e EXCEPT !.expires = now + CacheTtl]
\* A used entry expires when it would have.
Used(e) == e

\* getAuthContext.
AskApi(a, asked) ==
  /\ request[a].at \in {"idle", "allowed", "refused"}
  /\ LET q == [Resting EXCEPT !.asked = asked, !.since = now]
     IN IF entry.expires > now
        THEN entry' = Used(entry) /\ Moves(a, [q EXCEPT !.at = "decide", !.context = entry.context])
        ELSE Moves(a, [q EXCEPT !.at = "account"]) /\ UNCHANGED entry
  /\ UNCHANGED <<accessVars, now, apiAccount, changedAt>>

\* loadAuthContext: a team's account has nothing else to read.
LoadAccount(a) ==
  /\ request[a].at = "account"
  /\ Moves(a, [request[a] EXCEPT !.at = IF apiAccount = "organization" THEN "links" ELSE "store",
                                 !.context = [Nobody EXCEPT !.account = apiAccount]])
  /\ UNCHANGED <<accessVars, now, apiAccount, changedAt, entry>>

LoadLinks(a) ==
  /\ request[a].at = "links"
  /\ Moves(a, [request[a] EXCEPT !.at = "caps", !.context.links = consent])
  /\ UNCHANGED <<accessVars, now, apiAccount, changedAt, entry>>

LoadCaps(a) ==
  /\ request[a].at = "caps"
  /\ Moves(a, [request[a] EXCEPT !.at = "store", !.context.caps =
       [t \in OwningTeam |-> IF request[a].context.links[t] = Unset THEN Unset ELSE cap[t]]])
  /\ UNCHANGED <<accessVars, now, apiAccount, changedAt, entry>>

StoreContext(a) ==
  /\ request[a].at = "store"
  /\ entry' = [context |-> request[a].context, expires |-> now + CacheTtl]
  /\ Moves(a, [request[a] EXCEPT !.at = "decide"])
  /\ UNCHANGED <<accessVars, now, apiAccount, changedAt>>

\* effectivePermissions, and accessibleIntegrationsWhere for a list.
EffectivePermissions(x, team) ==
  IF team = NoOwner THEN {}
  ELSE IF x.account = "organization" THEN OrganizationPermissions(x.links[team], x.caps[team])
  ELSE IF x.account = team THEN TeamAdmin ELSE {}

AccessibleWhere(x, asked, team) ==
  IF x.account = "organization"
  THEN /\ team # NoOwner /\ x.links[team] # Unset /\ asked \in x.links[team]
       /\ x.caps[team] # Unset => asked \in x.caps[team]
  ELSE asked \in TeamAdmin /\ x.account = team

\* getById reads the integration and asserts; listAccessible selects.
Decide(a, list) ==
  LET q == request[a]
      allowed == IF list THEN AccessibleWhere(q.context, q.asked, row.team)
                 ELSE q.asked \in EffectivePermissions(q.context, row.team)
  IN /\ q.at = "decide"
     /\ Moves(a, [Resting EXCEPT !.at = IF allowed THEN "allowed" ELSE "refused"])
     /\ UNCHANGED <<accessVars, now, apiAccount, changedAt, entry>>

AuthorityNext ==
  \/ Tick \/ AppChanges \/ ArchiveAccount
  \/ \E a \in ApiRequest :
       \/ \E asked \in Needed : AskApi(a, asked)
       \/ LoadAccount(a) \/ LoadLinks(a) \/ LoadCaps(a) \/ StoreContext(a)
       \/ \E list \in BOOLEAN : Decide(a, list)

-----------------------------------------------------------------------------
(* "A team leaving an organization or narrowing a link takes effect within   *)
(* one TTL", save for the time a load takes: whatever requests overlap and   *)
(* in whatever order their loads end, one that comes later than that after   *)
(* the last change is decided, as a row or in a list, by what holds now.     *)
AuthorityIsRecent ==
  [][\A a \in ApiRequest :
       LET q == request[a]
           live == [account |-> apiAccount, links |-> consent, caps |-> cap]
       IN q.at = "decide" /\ q.since > changedAt + CacheTtl + MaxLoad =>
            /\ request'[a].at = "allowed" => q.asked \in EffectivePermissions(live, row.team)
            /\ request'[a].at = "refused" => q.asked \notin EffectivePermissions(live, row.team)]_request
=============================================================================
