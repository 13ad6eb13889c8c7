----------------------------- MODULE AccessPolicy -----------------------------
(***************************************************************************)
(* Who may do what to one integration, for one user: the permission sets   *)
(* of packages/authz, the predicate that selects the rows of a list        *)
(* (queries/accessScope.ts), the resolver that says what may be done to a  *)
(* row (queries/integrationAccess.ts), and a list request, which reads the *)
(* user's memberships in several queries and the rows in another, while    *)
(* memberships, consents, caps and the integration's owner change.         *)
(***************************************************************************)
EXTENDS Integers

CONSTANTS
  OwningTeam,       \* teams the integration may belong to
  ConsentChoice,    \* what teams consent to
  Asked,            \* the permissions a list is made for
  MaxAccessChanges  \* bound on changes

TeamMember == {"integrations:read", "roles:read", "user-role-mappings:read", "integrations:write",
               "integrations:reassign-team", "user-role-mappings:write", "idp-users:read"}
TeamAdmin == TeamMember \cup {"integrations:delete", "roles:write"}
OrgConsentable == TeamAdmin \ {"integrations:reassign-team"}

ASSUME AccessAssumption ==
  /\ ConsentChoice \subseteq SUBSET OrgConsentable
  /\ Asked \subseteq TeamAdmin
  /\ MaxAccessChanges \in Nat

Unset == {"unset"}   \* no row; not a set of permissions
NoOwner == "no owner"
ASSUME OwnerAssumption == NoOwner \notin OwningTeam

VARIABLES
  row,        \* the integration
  teamRole,   \* the user's accepted memberships of teams
  inOrg,      \* the user belongs to the organization
  consent,    \* the organization's active link to each team
  cap,        \* the override of the integration under each link
  scope,      \* what the list request has read
  steady,     \* nothing changed since the request began
  accessChanges

accessVars == <<row, teamRole, inOrg, consent, cap, scope, steady, accessChanges>>

Data == <<row, teamRole, inOrg, consent, cap>>
NoneOf == [t \in OwningTeam |-> Unset]
Blank == [at |-> "idle", asked |-> "none", roles |-> [t \in OwningTeam |-> "none"], links |-> NoneOf,
          caps |-> NoneOf, listed |-> FALSE, permissions |-> {}]

AccessTypeOK ==
  /\ row \in [usesTeam : BOOLEAN, team : OwningTeam \cup {NoOwner}, mine : BOOLEAN, draft : BOOLEAN]
  /\ row.team # NoOwner => row.usesTeam
  /\ teamRole \in [OwningTeam -> {"none", "member", "admin"}]
  /\ inOrg \in BOOLEAN
  /\ consent \in [OwningTeam -> ConsentChoice \cup {Unset}]
  /\ cap \in [OwningTeam -> ConsentChoice \cup {Unset}]
  /\ \A t \in OwningTeam : consent[t] = Unset => cap[t] = Unset
  /\ scope \in [at : {"idle", "roles", "links", "caps", "done"}, asked : Asked \cup {"none"},
                roles : [OwningTeam -> {"none", "member", "admin"}],
                links : [OwningTeam -> ConsentChoice \cup {Unset}],
                caps : [OwningTeam -> ConsentChoice \cup {Unset}],
                listed : BOOLEAN, permissions : SUBSET TeamAdmin]
  /\ steady \in BOOLEAN /\ accessChanges \in 0..MaxAccessChanges

-----------------------------------------------------------------------------
(* The resolver.                                                             *)
PermissionsForTeamRole(r) == CASE r = "admin" -> TeamAdmin [] r = "member" -> TeamMember [] OTHER -> {}

\* An override narrows; the bound holds whatever the rows say.
OrganizationPermissions(link, override) ==
  IF link = Unset THEN {}
  ELSE (IF override = Unset THEN link ELSE link \cap override) \cap OrgConsentable

OwnsRow(r) == r.mine /\ (~r.usesTeam \/ (r.team = NoOwner /\ r.draft))

Permissions(r, roles, links, caps) ==
  (IF OwnsRow(r) THEN TeamAdmin ELSE {}) \cup
  (IF r.team = NoOwner THEN {}
   ELSE PermissionsForTeamRole(roles[r.team]) \cup OrganizationPermissions(links[r.team], caps[r.team]))

\* A single row: the links of organizations the user belongs to.
Links == IF inOrg THEN consent ELSE NoneOf
Live(r) == Permissions(r, teamRole, Links, cap)

(* The predicate of a list.                                                  *)
MemberTeams(s) == {t \in OwningTeam : s.asked \in PermissionsForTeamRole(s.roles[t])}

(* Mutant: a draft without a team belongs to nobody. *)
PersonalClause(s, r) == s.asked \in TeamAdmin /\ r.mine /\ ~r.usesTeam
OwnerClause(s, r) ==
  s.asked \in TeamAdmin /\ r.mine /\ (~r.usesTeam \/ (r.team = NoOwner /\ r.draft))

OrganizationClause(s, r) ==
  /\ r.team # NoOwner /\ r.team \notin MemberTeams(s)
  /\ s.links[r.team] # Unset /\ s.asked \in s.links[r.team]
  /\ s.caps[r.team] # Unset => s.asked \in s.caps[r.team]

Accessible(s, r) == r.team \in MemberTeams(s) \/ OwnerClause(s, r) \/ OrganizationClause(s, r)

-----------------------------------------------------------------------------
AccessInit ==
  /\ row \in [usesTeam : BOOLEAN, team : OwningTeam \cup {NoOwner}, mine : BOOLEAN, draft : BOOLEAN]
  /\ row.team # NoOwner <=> row.usesTeam
  /\ teamRole = [t \in OwningTeam |-> "none"]
  /\ inOrg \in BOOLEAN
  /\ consent \in [OwningTeam -> ConsentChoice \cup {Unset}]
  /\ cap = NoneOf
  /\ scope = Blank /\ steady = TRUE /\ accessChanges = 0

Changes ==
  /\ accessChanges < MaxAccessChanges /\ accessChanges' = accessChanges + 1
  /\ Data' # Data
  /\ steady' = FALSE
  /\ UNCHANGED scope

\* Switching team ownership off clears the team; a submission needs one.
SaveRow(r) ==
  /\ ~r.usesTeam => r.team = NoOwner
  /\ r.usesTeam /\ r.team = NoOwner => r.draft
  /\ r.mine = row.mine /\ (r.draft => row.draft)
  /\ row' = r
  /\ UNCHANGED <<teamRole, inOrg, consent, cap>> /\ Changes

SetRole(t, r) ==
  /\ teamRole' = [teamRole EXCEPT ![t] = r]
  /\ UNCHANGED <<row, inOrg, consent, cap>> /\ Changes

JoinOrLeave ==
  /\ inOrg' = ~inOrg
  /\ UNCHANGED <<row, teamRole, consent, cap>> /\ Changes

\* The overrides go with their link.
SetConsentOf(t, p) ==
  /\ consent' = [consent EXCEPT ![t] = p]
  /\ cap' = IF p = Unset THEN [cap EXCEPT ![t] = Unset] ELSE cap
  /\ UNCHANGED <<row, teamRole, inOrg>> /\ Changes

\* updateIntegrationOverrides: the integration belongs to the team when it is set.
SetCap(t, p) ==
  /\ consent[t] # Unset /\ (p # Unset => row.team = t)
  /\ cap' = [cap EXCEPT ![t] = p]
  /\ UNCHANGED <<row, teamRole, inOrg, consent>> /\ Changes

-----------------------------------------------------------------------------
\* getRequests: resolveAccessScope is three reads, the rows another.
ReadRoles(asked) ==
  /\ scope.at \in {"idle", "done"}
  /\ scope' = [Blank EXCEPT !.at = "roles", !.asked = asked, !.roles = teamRole]
  /\ steady' = TRUE
  /\ UNCHANGED <<Data, accessChanges>>

ReadLinks ==
  /\ scope.at = "roles"
  /\ scope' = [scope EXCEPT !.at = "links", !.links = Links]
  /\ UNCHANGED <<Data, steady, accessChanges>>

ReadCaps ==
  /\ scope.at = "links"
  /\ scope' = [scope EXCEPT !.at = "caps",
       !.caps = [t \in OwningTeam |-> IF scope.links[t] = Unset THEN Unset ELSE cap[t]]]
  /\ UNCHANGED <<Data, steady, accessChanges>>

(* Mutant: the rows are resolved from memberships read again. *)
ResolvedAnew(s) == Live(row)
Resolved(s) == Permissions(row, s.roles, s.links, s.caps)

ReadRows ==
  /\ scope.at = "caps"
  /\ scope' = [scope EXCEPT !.at = "done", !.listed = Accessible(scope, row),
                            !.permissions = Resolved(scope)]
  /\ UNCHANGED <<Data, steady, accessChanges>>

AccessNext ==
  \/ \E r \in [usesTeam : BOOLEAN, team : OwningTeam \cup {NoOwner}, mine : BOOLEAN, draft : BOOLEAN] :
       SaveRow(r)
  \/ \E t \in OwningTeam :
       \/ \E r \in {"none", "member", "admin"} : SetRole(t, r)
       \/ \E p \in ConsentChoice \cup {Unset} : SetConsentOf(t, p) \/ SetCap(t, p)
  \/ JoinOrLeave
  \/ \E asked \in Asked : ReadRoles(asked)
  \/ ReadLinks \/ ReadCaps \/ ReadRows

-----------------------------------------------------------------------------
(* "They cannot drift": whatever changes while a list is made, and however   *)
(* stale what it read is by then, it admits a row exactly when the authority *)
(* it attaches to that row has the permission the list was made for.         *)
ListedIsPermitted ==
  scope.at = "done" => (scope.listed <=> scope.asked \in scope.permissions)

(* authorizeIntegration: a list that nothing changed under shows the         *)
(* integration exactly when opening it would be allowed.                     *)
ListAgreesWithRow ==
  scope.at = "done" /\ steady => (scope.listed <=> scope.asked \in Live(row))
=============================================================================
