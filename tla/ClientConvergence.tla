------------------------- MODULE ClientConvergence -------------------------
(***************************************************************************)
(* What an integration owns outside the database in one environment, and   *)
(* keycloakClient of app/keycloak/integration.ts, which is meant to bring  *)
(* it to what the integration asks for: the Keycloak client, its scopes,   *)
(* realm role and mappers; for BC Services Card a client at the BCSC, its  *)
(* row, an identity provider and a client scope; for Entra an application, *)
(* a service principal, their row and an identity provider.                *)
(*                                                                         *)
(* An attempt is a sequence of calls.  Each is answered, refused before it *)
(* had an effect, or has its effect and loses its answer.  The step around *)
(* it may time out, and the attempt goes on beside the one that follows.   *)
(* A call to delete what is gone is refused, as is the creation of a       *)
(* client or role that exists.                                             *)
(***************************************************************************)
EXTENDS Integers, FiniteSets, Sequences

CONSTANTS
  Wants,          \* what submissions can ask for: records gone, bcsc, entra
  MaxWants,       \* bound on submissions
  Attempt,        \* attempts that can be in flight at once
  MaxAssetFaults  \* bound on refused and lost calls and on timeouts

ASSUME ConvergenceAssumption ==
  /\ Wants \subseteq [gone : BOOLEAN, bcsc : BOOLEAN, entra : BOOLEAN]
  /\ MaxWants \in Nat \ {0} /\ MaxAssetFaults \in Nat

Asset == {"bcscClient", "bcscSpare", "cardRow", "oldRow", "cardIdp", "cardScope",
          "app", "sp", "entraRow", "entraIdp", "client", "realmRole", "mappers"}

VARIABLES
  want,         \* what the latest submission asks for
  version,      \* its number
  have,         \* what exists: bcscSpare is a BCSC client no row names, oldRow an archived row
  profileOf,    \* the submission that last wrote the client's profile
  scopesOf,     \* the submission that last set its default scopes
  attempts,     \* the attempts; beside: an attempt for an older submission was still going on
  tangled,      \* attempts for different submissions were ever going on at once
  verdict,      \* how the last attempt that was waited for ended
  assetFaults   \* faults so far

assetVars == <<want, version, have, profileOf, scopesOf, attempts, tangled, verdict, assetFaults>>

AtRest == [todo |-> <<>>, want |-> CHOOSE w \in Wants : TRUE, of |-> 0, seen |-> {}, state |-> "idle", beside |-> FALSE]

AssetsTypeOK ==
  /\ want \in Wants /\ version \in 1..MaxWants
  /\ have \subseteq Asset
  /\ profileOf \in 0..MaxWants /\ scopesOf \in 0..MaxWants
  /\ \A r \in Attempt :
       /\ attempts[r].of \in 0..MaxWants /\ attempts[r].want \in Wants
       /\ attempts[r].seen \subseteq Asset
       /\ attempts[r].state \in {"idle", "awaited", "abandoned"}
       /\ attempts[r].beside \in BOOLEAN
  /\ tangled \in BOOLEAN
  /\ verdict \in {"pending", "failed", "applied", "appliedBeside"}
  /\ assetFaults \in 0..MaxAssetFaults

-----------------------------------------------------------------------------
(* The calls of an attempt, in order.                                        *)
Add(x) == [do |-> "add", what |-> x]
Drop(x) == [do |-> "drop", what |-> x]
Put(x) == [do |-> "put", what |-> x]
Update(x) == [do |-> "update", what |-> x]
Read(x) == [do |-> "read", what |-> x]
If(test, steps) == IF test THEN steps ELSE <<>>

\* createBCSCIntegration, deleteBCSCIntegration
CardUp == <<Read("cardRow"), Add("bcscClient"), Add("cardRow"), Update("bcscClient"),
            Add("cardIdp"), Add("cardScope")>>
CardDown == <<Read("cardRow"), Drop("bcscClient"), Drop("cardRow"), Drop("cardIdp"), Drop("cardScope")>>

(* Mutant: the identity provider is only added to an integration that had its *)
(* row before, not to the one that the attempt itself recorded.               *)
EntraUpRecorded ==
  <<Read("entraRow"), Add("app"), Add("sp"), Add("entraRow"), Update("app"), Update("sp")>>
  \o If("entraRow" \in have, <<Add("entraIdp")>>)

\* createEntraIntegration, deleteEntraIntegration
EntraUp == <<Read("entraRow"), Add("app"), Add("sp"), Add("entraRow"), Update("app"), Update("sp"),
             Add("entraIdp")>>
EntraDown == <<Read("entraRow"), Drop("sp"), Drop("app"), Drop("entraIdp"), Drop("entraRow")>>

ClientUp == <<Put("client"), Update("scopes"), Add("realmRole"), Add("mappers")>>

Build(w) == If(w.bcsc, CardUp) \o (IF w.entra THEN EntraUp ELSE EntraDown) \o ClientUp

\* What belongs to a client is removed only where the client is found.
TearDown(w) ==
  If("client" \in have, If(w.bcsc, CardDown) \o If(w.entra, EntraDown) \o <<Drop("client")>>)
  \o If("realmRole" \in have, <<Drop("realmRole")>>)

-----------------------------------------------------------------------------
(* Whether an attempt takes something to exist: the client and the realm     *)
(* role as it found them at first, what a row stands for as it read the row, *)
(* the rest as it is.                                                        *)
ReadAs == [client |-> "client", realmRole |-> "realmRole",
           bcscClient |-> "cardRow", cardRow |-> "cardRow",
           app |-> "entraRow", sp |-> "entraRow", entraRow |-> "entraRow"]
Found(a, x) == IF x \in DOMAIN ReadAs THEN ReadAs[x] \in a.seen ELSE x \in have

\* A creation that reads an archived row takes it out of the archive; a removal
\* (getByRequestId) does not see it.
RowsRead(a, row) ==
  IF row = "cardRow" /\ ~a.want.gone /\ "oldRow" \in have THEN {"cardRow"} ELSE {row} \cap have

\* A removal stops where it finds no row.
NoRowFor(a, x) ==
  \/ x \in {"cardIdp", "cardScope"} /\ "cardRow" \notin a.seen
  \/ x = "entraIdp" /\ "entraRow" \notin a.seen

Skips(a, s) ==
  \/ s.do = "add" /\ (Found(a, s.what) \/ s.what \in {"app", "sp"} \cap have)
  \/ s.do = "drop" /\ (~Found(a, s.what) \/ NoRowFor(a, s.what))
  \/ s.do = "update" /\ s.what # "scopes" /\ ~Found(a, s.what)

\* Only made when the name, the description or the card's settings changed.
Optional(s) == s.do = "update" /\ s.what \in {"bcscClient", "sp"}

\* What the other side refuses: a second client, role or row of a name, the
\* removal or update of what is gone, a default scope that does not exist.
Refused(a, s) ==
  \/ s.do = "add" /\ s.what \in {"realmRole", "cardRow", "entraRow"} \cap have
  \/ s.do = "put" /\ (s.what \in a.seen) # (s.what \in have)
  \/ s.do = "update" /\ s.what = "scopes" /\ ("client" \notin have \/ (a.want.bcsc /\ "cardScope" \notin have))
  \/ s.do \in {"drop", "update"} /\ s.what \in {"bcscClient", "app", "sp", "client", "realmRole"} \ have

Effect(a, s) ==
  CASE s.do \in {"add", "put"} -> have \cup {IF s.what = "bcscClient" /\ s.what \in have THEN "bcscSpare" ELSE s.what}
    [] s.do = "drop" -> (have \ (IF s.what = "client" THEN {"client", "mappers"} ELSE {s.what}))
                        \cup (IF s.what = "cardRow" THEN {"oldRow"} ELSE {})
    [] s.do = "read" -> IF s.what = "cardRow" /\ RowsRead(a, "cardRow") # {} THEN (have \ {"oldRow"}) \cup {"cardRow"} ELSE have
    [] s.do = "update" -> have

-----------------------------------------------------------------------------
AssetsInit ==
  /\ want \in Wants /\ ~want.gone
  /\ version = 1
  /\ have = {} /\ profileOf = 0 /\ scopesOf = 0
  /\ attempts = [r \in Attempt |-> AtRest]
  /\ tangled = FALSE /\ verdict = "pending"
  /\ assetFaults = 0

NoneAwaited == \A r \in Attempt : attempts[r].state # "awaited"

\* An update, a deletion, which keeps the identity providers, or a restoration,
\* which brings them back: a new workflow once the last one ended.
Submit(w) ==
  /\ NoneAwaited /\ verdict # "pending" /\ version < MaxWants
  /\ w.gone => ~want.gone
  /\ w.gone \/ want.gone => w.bcsc = want.bcsc /\ w.entra = want.entra
  /\ want' = w /\ version' = version + 1 /\ verdict' = "pending"
  /\ UNCHANGED <<have, profileOf, scopesOf, attempts, tangled, assetFaults>>

OlderGoesOn == \E q \in Attempt : attempts[q].of \in 1..(version - 1)

StartAttempt(r) ==
  /\ NoneAwaited /\ verdict \in {"pending", "failed"} /\ attempts[r] = AtRest
  /\ attempts' = [attempts EXCEPT ![r] =
       [todo |-> IF want.gone THEN TearDown(want) ELSE Build(want), want |-> want, of |-> version,
        seen |-> have \cap {"client", "realmRole"}, state |-> "awaited",
        beside |-> OlderGoesOn]]
  /\ tangled' = (tangled \/ OlderGoesOn)
  /\ UNCHANGED <<want, version, have, profileOf, scopesOf, verdict, assetFaults>>

\* The step waited long enough; what it started goes on.
TimeOut(r) ==
  /\ attempts[r].state = "awaited" /\ assetFaults < MaxAssetFaults
  /\ attempts' = [attempts EXCEPT ![r].state = "abandoned"]
  /\ verdict' = "failed"
  /\ assetFaults' = assetFaults + 1
  /\ UNCHANGED <<want, version, have, profileOf, scopesOf, tangled>>

Ends(r, v) ==
  /\ attempts' = [attempts EXCEPT ![r] = AtRest]
  /\ verdict' = IF attempts[r].state = "awaited" THEN v ELSE verdict

Goes(r, s) ==
  /\ attempts' = [attempts EXCEPT ![r].todo = Tail(@),
                    ![r].seen = IF s.do = "read" THEN @ \cup RowsRead(attempts[r], s.what) ELSE @]
  /\ UNCHANGED verdict

PassOver(r) ==
  LET a == attempts[r]  s == Head(a.todo)
  IN /\ a.todo # <<>>
     /\ Skips(a, s) \/ Optional(s)
     /\ Goes(r, s)
     /\ UNCHANGED <<want, version, have, profileOf, scopesOf, tangled, assetFaults>>

Call(r, answer) ==
  LET a == attempts[r]  s == Head(a.todo)
  IN /\ a.todo # <<>> /\ ~Skips(a, s)
     /\ \/ answer = "ok" /\ ~Refused(a, s) /\ Goes(r, s) /\ UNCHANGED assetFaults
        \/ answer = "refused" /\ Refused(a, s) /\ Ends(r, "failed") /\ UNCHANGED assetFaults
        \/ /\ answer \in {"refused", "lost"} /\ ~Refused(a, s)
           /\ assetFaults < MaxAssetFaults /\ assetFaults' = assetFaults + 1
           /\ Ends(r, "failed")
     /\ IF answer = "refused"
        THEN UNCHANGED <<have, profileOf, scopesOf>>
        ELSE /\ have' = Effect(a, s)
             /\ profileOf' = IF s = Put("client") THEN a.of ELSE IF s = Drop("client") THEN 0 ELSE profileOf
             /\ scopesOf' = IF s = Update("scopes") THEN a.of ELSE IF s = Drop("client") THEN 0 ELSE scopesOf
     /\ UNCHANGED <<want, version, tangled>>

Conclude(r) ==
  /\ attempts[r].state # "idle" /\ attempts[r].todo = <<>>
  /\ Ends(r, IF attempts[r].beside THEN "appliedBeside" ELSE "applied")
  /\ UNCHANGED <<want, version, have, profileOf, scopesOf, tangled, assetFaults>>

AssetsNext ==
  \/ \E w \in Wants : Submit(w)
  \/ \E r \in Attempt :
       \/ StartAttempt(r) \/ TimeOut(r) \/ PassOver(r) \/ Conclude(r)
       \/ \E answer \in {"ok", "refused", "lost"} : Call(r, answer)

-----------------------------------------------------------------------------
Converged == verdict = "applied"

(* "keycloakClient is a converge-to-desired-state operation": whatever       *)
(* failed, was lost or timed out before, an attempt reported as applied      *)
(* leaves the client, its realm role, its mappers, its profile and default   *)
(* scopes and the card's provider and scope as the latest submission wants   *)
(* them, or no client and no realm role once the integration is deleted.     *)
ClientConverges ==
  Converged =>
    IF want.gone THEN {"client", "realmRole"} \cap have = {}
    ELSE /\ {"client", "realmRole", "mappers"} \subseteq have
         /\ profileOf = version /\ scopesOf = version
         /\ want.bcsc => {"cardRow", "cardIdp", "cardScope"} \subseteq have

(* The same of the Entra integration, which an update may bring and take     *)
(* away: applied leaves the application, its row and its identity provider,  *)
(* or neither the row nor the provider, as long as no attempt for an older   *)
(* submission outlived its own.                                              *)
EntraConverges ==
  Converged /\ ~tangled /\ ~want.gone =>
    IF want.entra THEN {"app", "entraRow", "entraIdp"} \subseteq have
    ELSE {"entraRow", "entraIdp"} \cap have = {}

(* What an attempt reported as applied leaves of the client and of the Entra *)
(* integration, after any failures and overlaps before it.                   *)
AppliedConverges == ClientConverges /\ EntraConverges

(* "re-running it after a partial failure is safe": a deletion that went     *)
(* through where it found the client leaves neither the card's identity      *)
(* provider nor its client scope.  The code breaks this: it archives the row *)
(* first, and a retry that finds no row looks for neither.                   *)
RerunIsSafe ==
  \A r \in Attempt :
    LET a == attempts[r]
    IN a.state = "awaited" /\ a.want.gone /\ a.want.bcsc /\ a.todo = <<>> /\ "client" \in a.seen
         => {"cardIdp", "cardScope"} \cap have = {}
=============================================================================
