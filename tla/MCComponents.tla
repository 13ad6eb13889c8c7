---------------------------- MODULE MCComponents ----------------------------
(***************************************************************************)
(* The components around the workflow engine, each on a small instance.    *)
(* They share no state with one another (a call that touches two of them   *)
(* waits for one before it goes on to the other), so a behaviour of the    *)
(* composition is an interleaving of their behaviours, and a property of   *)
(* one holds if it holds while that component moves.  `focus` is the       *)
(* component that moves.                                                   *)
(***************************************************************************)
EXTENDS TLC, Memberships, OrganizationLinks, ApiAccounts, KeyRotation, AuditedBatch,
  ClientConvergence, Roles, TokenClient, ApiAuthority, RoleReplication, SdxAccess, ApiRoles,
  DraftForm, IdpApprovals, ChatConversation

CONSTANT Focus  \* the components a run looks at

VARIABLE focus

teamSide == <<membershipVars, linkVars, acctVars, accessVars, authorityVars>>
keycloakSide == <<assetVars, roleVars, replVars, sdxVars, apiVars>>
platformSide == <<keyVars, auditVars, tokenVars>>
browserSide == <<formVars, approvalVars, chatVars>>
vars == <<teamSide, keycloakSide, platformSide, browserSide, focus>>

MCWants == {w \in [gone : BOOLEAN, bcsc : BOOLEAN, entra : BOOLEAN] : w.bcsc # w.entra}
MCCardWants == {w \in MCWants : w.bcsc}
MCTeam == CHOOSE t \in OwningTeam : TRUE
MCConsents == {{"roles:read"}, OrgConsentable}

\* A component at rest starts in one fixed state.
Init ==
  /\ focus \in Focus
  /\ MembershipsInit /\ (focus = "memberships" \/ (group = Team /\ owned.team = NoTeam))
  /\ LinksInit
  /\ AccountsInit /\ (IF focus = "accounts" THEN Cardinality(owners) = 1 ELSE owners = {})
  /\ KeysInit /\ (focus = "keys" \/ apps = {})
  /\ AuditInit /\ (focus = "audit" \/ (nItems = 1 /\ always))
  /\ AssetsInit /\ (focus = "assets" \/ want = CHOOSE w \in Wants : ~w.gone)
  /\ RolesInit
  /\ TokensInit /\ (focus = "tokens" \/ clientKind = "rag")
  /\ AccessInit
  /\ CASE focus = "access" -> TRUE
       [] focus = "authority" ->
            /\ inOrg /\ ~row.mine /\ ~row.draft /\ row.team = MCTeam
            /\ consent[MCTeam] # {"roles:read"} /\ \A t \in OwningTeam \ {MCTeam} : consent[t] = Unset
       [] OTHER -> inOrg /\ consent = NoneOf /\ row.mine /\ ~row.draft /\ ~row.usesTeam
  /\ AuthorityInit
  /\ apiAccount \in (IF focus = "authority" THEN {"organization", MCTeam} ELSE {"organization"})
  /\ ReplInit /\ (focus = "replication" \/ (accounts = {} /\ \A g \in Guid : counterpart[g] = "none"))
  /\ SdxInit /\ (hasExchanger \/ focus = "sdx") /\ (inherited = {} \/ (focus = "sdx" /\ hasExchanger))
  /\ ApiRolesInit /\ (focus = "api" \/ (user = "linked" /\ \A n \in RoleName : named[n] = 0 /\ rowNamed[n] = 0))
  /\ DraftInit
  /\ ApprovalsInit /\ (focus = "approvals" \/ ~saml)
  /\ ChatInit /\ \A t \in Tab : chatUser[t] = NoCookie.owner

TeamSideNext ==
  /\ focus \in {"memberships", "links", "accounts", "access", "authority"}
  /\ UNCHANGED <<keycloakSide, platformSide, browserSide>>
  /\ \/ focus = "memberships" /\ MembershipsNext /\ UNCHANGED <<linkVars, acctVars, accessVars, authorityVars>>
     \/ focus = "links" /\ LinksNext /\ UNCHANGED <<membershipVars, acctVars, accessVars, authorityVars>>
     \/ focus = "accounts" /\ AccountsNext /\ UNCHANGED <<membershipVars, linkVars, accessVars, authorityVars>>
     \/ focus = "access" /\ AccessNext /\ UNCHANGED <<membershipVars, linkVars, acctVars, authorityVars>>
     \/ focus = "authority" /\ AuthorityNext /\ UNCHANGED <<membershipVars, linkVars, acctVars>>

KeycloakSideNext ==
  /\ focus \in {"assets", "roles", "replication", "sdx", "api"}
  /\ UNCHANGED <<teamSide, platformSide, browserSide>>
  /\ \/ focus = "assets" /\ AssetsNext /\ UNCHANGED <<roleVars, replVars, sdxVars, apiVars>>
     \/ focus = "roles" /\ RolesNext /\ UNCHANGED <<assetVars, replVars, sdxVars, apiVars>>
     \/ focus = "replication" /\ ReplNext /\ UNCHANGED <<assetVars, roleVars, sdxVars, apiVars>>
     \/ focus = "sdx" /\ SdxNext /\ UNCHANGED <<assetVars, roleVars, replVars, apiVars>>
     \/ focus = "api" /\ ApiRolesNext /\ UNCHANGED <<assetVars, roleVars, replVars, sdxVars>>

PlatformSideNext ==
  /\ focus \in {"keys", "audit", "tokens"}
  /\ UNCHANGED <<teamSide, keycloakSide, browserSide>>
  /\ \/ focus = "keys" /\ KeysNext /\ UNCHANGED <<auditVars, tokenVars>>
     \/ focus = "audit" /\ AuditNext /\ UNCHANGED <<keyVars, tokenVars>>
     \/ focus = "tokens" /\ TokensNext /\ UNCHANGED <<keyVars, auditVars>>

BrowserSideNext ==
  /\ focus \in {"draft", "approvals", "chat"}
  /\ UNCHANGED <<teamSide, keycloakSide, platformSide>>
  /\ \/ focus = "draft" /\ DraftNext /\ UNCHANGED <<approvalVars, chatVars>>
     \/ focus = "approvals" /\ ApprovalsNext /\ UNCHANGED <<formVars, chatVars>>
     \/ focus = "chat" /\ ChatNext /\ UNCHANGED <<formVars, approvalVars>>

Next == UNCHANGED focus /\ (TeamSideNext \/ KeycloakSideNext \/ PlatformSideNext \/ BrowserSideNext)

Spec == Init /\ [][Next]_vars

(* The variables of the component that moves stay in their sets: rows name   *)
(* teams, accounts and attempts that exist, at most one workflow of an       *)
(* account is open, since a command behind one under way is refused, and no  *)
(* bound is overrun.                                                         *)
TypeOK ==
  CASE focus = "memberships" -> MembershipsTypeOK
    [] focus = "links" -> LinksTypeOK
    [] focus = "accounts" -> AccountsTypeOK
    [] focus = "keys" -> KeysTypeOK
    [] focus = "audit" -> AuditTypeOK
    [] focus = "assets" -> AssetsTypeOK
    [] focus = "roles" -> RolesTypeOK
    [] focus = "tokens" -> TokensTypeOK
    [] focus = "access" -> AccessTypeOK
    [] focus = "authority" -> AccessTypeOK /\ AuthorityTypeOK
    [] focus = "replication" -> ReplTypeOK
    [] focus = "sdx" -> SdxTypeOK
    [] focus = "api" -> ApiRolesTypeOK
    [] focus = "draft" -> DraftTypeOK
    [] focus = "approvals" -> ApprovalTypeOK
    [] focus = "chat" -> ChatTypeOK
=============================================================================
