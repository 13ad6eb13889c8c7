--------------------------- MODULE ComponentsProofs ---------------------------
(***************************************************************************)
(* What is proved of each component holds of their composition: a          *)
(* behaviour of MCComponents is, seen from one component, a behaviour of   *)
(* that component, so that the invariants of the components carry over,    *)
(* for every value of the constants and whichever components move.         *)
(***************************************************************************)
EXTENDS MCComponents, TeamProofs, KeycloakProofs, ApiProofs, PlatformProofs, BrowserProofs

Component ==
  {"memberships", "links", "accounts", "keys", "audit", "assets", "roles", "tokens",
   "access", "authority", "replication", "sdx", "api", "draft", "approvals", "chat"}

-----------------------------------------------------------------------------
(* A step of the composition, as each component sees it                      *)

(* Nobody moves: no component does. *)
LEMMA StandStill ==
  /\ UNCHANGED vars <=> UNCHANGED <<teamSide, keycloakSide, platformSide, browserSide, focus>>
  /\ UNCHANGED teamSide <=> /\ UNCHANGED membershipVars /\ UNCHANGED linkVars
                            /\ UNCHANGED acctVars /\ UNCHANGED accessVars /\ UNCHANGED authorityVars
  /\ UNCHANGED keycloakSide <=> /\ UNCHANGED assetVars /\ UNCHANGED roleVars /\ UNCHANGED replVars
                                /\ UNCHANGED sdxVars /\ UNCHANGED apiVars
  /\ UNCHANGED platformSide <=> UNCHANGED keyVars /\ UNCHANGED auditVars /\ UNCHANGED tokenVars
  /\ UNCHANGED browserSide <=> UNCHANGED formVars /\ UNCHANGED approvalVars /\ UNCHANGED chatVars
  BY DEF vars, teamSide, keycloakSide, platformSide, browserSide

(* The sides that do not move stay as they are. *)
LEMMA OneSideMoves ==
  ASSUME [Next]_vars
  PROVE  /\ UNCHANGED focus
         /\ UNCHANGED teamSide \/ TeamSideNext
         /\ UNCHANGED keycloakSide \/ KeycloakSideNext
         /\ UNCHANGED platformSide \/ PlatformSideNext
         /\ UNCHANGED browserSide \/ BrowserSideNext
<1>1. CASE UNCHANGED vars
  BY <1>1, StandStill
<1>2. CASE Next
  BY <1>2 DEF Next, TeamSideNext, KeycloakSideNext, PlatformSideNext, BrowserSideNext
<1> QED BY <1>1, <1>2

\* A step of the team side is a step of each of its components, or none.
LEMMA TeamSideMoves ==
  ASSUME [Next]_vars
  PROVE  /\ [MembershipsNext]_membershipVars
         /\ [LinksNext]_linkVars
         /\ [AccountsNext]_acctVars
         /\ focus # "authority" => [AccessNext]_accessVars
         /\ focus = "authority" => [AuthorityNext]_<<accessVars, authorityVars>>
<1>1. CASE UNCHANGED teamSide
  BY <1>1, StandStill
<1>2. CASE TeamSideNext
  BY <1>2 DEF TeamSideNext
<1> QED BY <1>1, <1>2, OneSideMoves

\* So is a step of the Keycloak side, ...
LEMMA KeycloakSideMoves ==
  ASSUME [Next]_vars
  PROVE  /\ [AssetsNext]_assetVars /\ [RolesNext]_roleVars /\ [ReplNext]_replVars
         /\ [SdxNext]_sdxVars /\ [ApiRolesNext]_apiVars
<1>1. CASE UNCHANGED keycloakSide
  BY <1>1, StandStill
<1>2. CASE KeycloakSideNext
  BY <1>2 DEF KeycloakSideNext
<1> QED BY <1>1, <1>2, OneSideMoves

\* ... of the platform, ...
LEMMA PlatformSideMoves ==
  ASSUME [Next]_vars
  PROVE  [KeysNext]_keyVars /\ [AuditNext]_auditVars /\ [TokensNext]_tokenVars
<1>1. CASE UNCHANGED platformSide
  BY <1>1, StandStill
<1>2. CASE PlatformSideNext
  BY <1>2 DEF PlatformSideNext
<1> QED BY <1>1, <1>2, OneSideMoves

\* ... and of the browser.
LEMMA BrowserSideMoves ==
  ASSUME [Next]_vars
  PROVE  [DraftNext]_formVars /\ [ApprovalsNext]_approvalVars /\ [ChatNext]_chatVars
<1>1. CASE UNCHANGED browserSide
  BY <1>1, StandStill
<1>2. CASE BrowserSideNext
  BY <1>2 DEF BrowserSideNext
<1> QED BY <1>1, <1>2, OneSideMoves

-----------------------------------------------------------------------------
(* The theorems                                                              *)

(* The components' behaviours, those that share no variable. *)
EachAlone ==
  /\ MembershipsSpec /\ LinksSpec /\ AccountsSpec
  /\ AssetsSpec /\ RolesSpec /\ ReplSpec /\ SdxSpec /\ ApiRolesSpec
  /\ KeysSpec /\ AuditSpec /\ TokensSpec
  /\ DraftSpec /\ ApprovalSpec /\ ChatSpec

(* The components interleave: whatever is proved of one of them alone, all   *)
(* the theorems of the modules above, is true of the composition.            *)
THEOREM ComponentsInterleave == Spec => EachAlone
<1>1. Init => /\ MembershipsInit /\ LinksInit /\ AccountsInit
              /\ AssetsInit /\ RolesInit /\ ReplInit /\ SdxInit /\ ApiRolesInit
              /\ KeysInit /\ AuditInit /\ TokensInit
              /\ DraftInit /\ ApprovalsInit /\ ChatInit
  BY DEF Init
<1>2. [Next]_vars => /\ [MembershipsNext]_membershipVars /\ [LinksNext]_linkVars /\ [AccountsNext]_acctVars
  BY TeamSideMoves
<1>3. [Next]_vars => /\ [AssetsNext]_assetVars /\ [RolesNext]_roleVars /\ [ReplNext]_replVars
                     /\ [SdxNext]_sdxVars /\ [ApiRolesNext]_apiVars
  BY KeycloakSideMoves
<1>4. [Next]_vars => [KeysNext]_keyVars /\ [AuditNext]_auditVars /\ [TokensNext]_tokenVars
  BY PlatformSideMoves
<1>5. [Next]_vars => [DraftNext]_formVars /\ [ApprovalsNext]_approvalVars /\ [ChatNext]_chatVars
  BY BrowserSideMoves
<1> QED BY <1>1, <1>2, <1>3, <1>4, <1>5, PTL
  DEF Spec, EachAlone, MembershipsSpec, LinksSpec, AccountsSpec, AssetsSpec, RolesSpec, ReplSpec,
      SdxSpec, ApiRolesSpec, KeysSpec, AuditSpec, TokensSpec, DraftSpec, ApprovalSpec, ChatSpec

\* The two derivations of authority share the rows that they read.
AuthorityStands ==
  /\ focus \in Focus
  /\ focus # "authority" => AccessInv
  /\ focus = "authority" => AuthorityInv

\* What the composition keeps of the access policy when the API has the focus.
LEMMA AuthorityStaysInPlace == Spec => []AuthorityStands
<1>1. Init => AuthorityStands
  BY InitInv, AuthorityInitHolds DEF Init, AuthorityStands
<1>2. AuthorityStands /\ [Next]_vars => AuthorityStands'
  <2> SUFFICES ASSUME AuthorityStands, [Next]_vars PROVE AuthorityStands'
    OBVIOUS
  <2>1. UNCHANGED focus
    BY OneSideMoves
  <2>2. focus # "authority" => AccessInv'
    BY TeamSideMoves, NextInv DEF AuthorityStands
  <2>3. focus = "authority" => AuthorityInv'
    BY TeamSideMoves, AuthorityStepKeeps DEF AuthorityStands
  <2> QED BY <2>1, <2>2, <2>3 DEF AuthorityStands
<1> QED BY <1>1, <1>2, PTL DEF Spec

(* The state of the component that moves keeps its types: rows name teams,   *)
(* accounts and attempts that exist, the queue of an account keeps one head, *)
(* and no counter passes its bound.                                          *)
THEOREM EveryComponentIsTyped == Focus \subseteq Component => (Spec => []TypeOK)
<1> SUFFICES ASSUME Focus \subseteq Component PROVE Spec => []TypeOK
  OBVIOUS
<1>1. /\ AuthorityStands /\ MembershipsInv /\ LinksInv /\ AcctInv
      /\ AssetsInv /\ RolesInv /\ ReplInv /\ SdxInv /\ ApiInv
      /\ KeysInv /\ AuditInv /\ TokensInv
      /\ DraftInv /\ ApprovalInv /\ ChatTypeOK
      => TypeOK
  <2> SUFFICES ASSUME AuthorityStands, MembershipsInv, LinksInv, AcctInv,
                      AssetsInv, RolesInv, ReplInv, SdxInv, ApiInv,
                      KeysInv, AuditInv, TokensInv, DraftInv, ApprovalInv, ChatTypeOK
               PROVE  TypeOK
    OBVIOUS
  <2>1. focus \in Component
    BY DEF AuthorityStands
  <2>2. MembershipsTypeOK /\ LinksTypeOK /\ AccountsTypeOK
    BY DEF MembershipsInv, LinksInv, AcctInv
  <2>3. AssetsTypeOK /\ RolesTypeOK /\ ReplTypeOK /\ SdxTypeOK /\ ApiRolesTypeOK
    BY DEF AssetsInv, RolesInv, ReplInv, SdxInv, ApiInv
  <2>4. KeysTypeOK /\ AuditTypeOK /\ TokensTypeOK
    BY DEF KeysInv, KeysCore, AuditInv, TokensInv
  <2>5. DraftTypeOK /\ ApprovalTypeOK
    BY DEF DraftInv, ApprovalInv
  <2>6. /\ focus # "authority" => AccessTypeOK
        /\ focus = "authority" => AccessTypeOK /\ AuthorityTypeOK
    BY DEF AuthorityStands, AccessInv, AuthorityInv
  <2> QED BY <2>1, <2>2, <2>3, <2>4, <2>5, <2>6 DEF TypeOK, Component
<1> QED BY <1>1, ComponentsInterleave, AuthorityStaysInPlace, MembershipsInvariant, LinksInvHolds,
           AccountsInvariant, AssetsInvariant, RolesInvariant, ReplInvariant, SdxInvariant,
           ApiRolesInvariant, KeysInvariant, AuditInvariant, TokensInvariant, DraftInvariant,
           ApprovalsInvariant, ChatTypes, PTL DEF EachAlone
=============================================================================
