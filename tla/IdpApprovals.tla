---------------------------- MODULE IdpApprovals ----------------------------
(***************************************************************************)
(* The identity providers of an integration and their approvals: what      *)
(* updateRequest (controllers/requests.ts) admits and writes                *)
(* (authorizeChanges of utils/requestPolicy.ts, validateIDPs of             *)
(* utils/helpers.ts, approvalResetsForRemovedIdps of                        *)
(* helpers/permissions.ts), and what buildGitHubRequestData lets through to *)
(* each environment.  Saves of owners and of approvers overlap: each        *)
(* decides on the copy it read and writes the columns it changed.           *)
(***************************************************************************)
EXTENDS FiniteSets, Integers

CONSTANTS
  IdpChoice,   \* the providers a run looks at
  Saver,       \* concurrent saves
  MaxSaves     \* bound on saves

ASSUME ApprovalAssumption == MaxSaves \in Nat

VARIABLES
  idpRow,     \* devIdps and the approval flags of the row
  saml,       \* its protocol
  saving,     \* the saves under way
  seen,       \* for each flag, the providers in the payload that set it last,
              \* less those the row has dropped since
  saves,
  approvalOddities   \* "raced": a save wrote over a change it had not read;
                     \* "blank": a flag was set while the row used no provider of its group

approvalVars == <<idpRow, saml, saving, seen, saves, approvalOddities>>

\* helpers/integration.ts
BceidGroup == {"bceidbasic", "bceidbusiness", "bceidboth"}
GithubGroup == {"githubpublic", "githubbcgov"}
BceidFlag == {"devBceidApproved", "testBceidApproved", "bceidApproved"}
GroupOf == [f \in BceidFlag \cup {"githubApproved", "bcServicesCardApproved", "socialApproved", "otpApproved"} |->
  CASE f \in BceidFlag -> BceidGroup
    [] f = "githubApproved" -> GithubGroup
    [] f = "bcServicesCardApproved" -> {"bcservicescard"}
    [] f = "socialApproved" -> {"social"}
    [] f = "otpApproved" -> {"otp"}]
Flag == {f \in DOMAIN GroupOf : GroupOf[f] \cap IdpChoice # {}}
Restricted == {"githubpublic", "otp", "idir", "azureidir"}

IdpRow == [idps : SUBSET IdpChoice, flags : SUBSET Flag]
NoSave == [busy |-> FALSE, copy |-> [idps |-> {}, flags |-> {}], idps |-> {}, flags |-> {}, sets |-> {}]

ApprovalTypeOK ==
  /\ idpRow \in IdpRow /\ saml \in BOOLEAN
  /\ saving \in [Saver -> [busy : BOOLEAN, copy : IdpRow, idps : SUBSET IdpChoice, flags : SUBSET Flag,
                           sets : SUBSET Flag]]
  /\ seen \in [Flag -> SUBSET IdpChoice] /\ saves \in 0..MaxSaves
  /\ approvalOddities \subseteq {"raced", "blank"}

\* Fields that the actor may not change: FIELD_AUTHORITY, VALUE_AUTHORITY.
Authorized(actor, copy, idps, flags) ==
  /\ idps # copy.idps => actor.write
  /\ \A f \in (flags \ copy.flags) \cup (copy.flags \ flags) : f \in actor.approves
  /\ (idps \ copy.idps) \cap Restricted # {} => actor.restricted

\* validateIDPs, for an actor who may add what he adds; the flags are the row's.
ValidIdps(copy, idps) ==
  \/ idps = copy.idps
  \/ /\ saml => Cardinality(idps) <= 1 /\ "bceidApproved" \notin copy.flags
     /\ ~("bceidboth" \in idps /\ idps \cap {"bceidbasic", "bceidbusiness"} # {})
     /\ ~(GithubGroup \subseteq idps)
     /\ "githubApproved" \in copy.flags => (idps \ copy.idps) \cap GithubGroup = {}
     /\ copy.flags \cap BceidFlag # {} => (idps \ copy.idps) \cap BceidGroup = {}
     /\ "bcServicesCardApproved" \in copy.flags => ("bcservicescard" \in idps <=> "bcservicescard" \in copy.idps)

(* Mutant: an approval outlives the provider it was given for. *)
KeepsApprovals(copy, idps) == {}
\* approvalResetsForRemovedIdps.
Voided(copy, idps) ==
  {f \in Flag : /\ idps \cap GroupOf[f] = {}
                /\ copy.flags \cap {g \in Flag : GroupOf[g] = GroupOf[f]} # {}}

-----------------------------------------------------------------------------
ApprovalsInit ==
  /\ idpRow = [idps |-> {}, flags |-> {}] /\ saml \in BOOLEAN
  /\ saving = [s \in Saver |-> NoSave] /\ seen = [f \in Flag |-> {}] /\ saves = 0 /\ approvalOddities = {}

Actors == [write : BOOLEAN, restricted : BOOLEAN, approves : {{}, Flag}]

\* updateRequest up to its transaction, by an owner, an approver or both.
BeginSave(s, idps, flags) ==
  /\ ~saving[s].busy /\ saves < MaxSaves /\ saves' = saves + 1
  /\ \E actor \in Actors : Authorized(actor, idpRow, idps, flags)
  /\ ValidIdps(idpRow, idps)
  /\ saving' = [saving EXCEPT ![s] =
       [busy |-> TRUE, copy |-> idpRow, idps |-> idps, flags |-> flags \ Voided(idpRow, idps),
        sets |-> (flags \ Voided(idpRow, idps)) \ idpRow.flags]]
  /\ UNCHANGED <<idpRow, saml, seen, approvalOddities>>

\* save(): the columns that differ from the copy.
CommitSave(s) ==
  LET q == saving[s]
  IN /\ q.busy /\ saving' = [saving EXCEPT ![s] = NoSave]
     /\ idpRow' = [idps |-> IF q.idps # q.copy.idps THEN q.idps ELSE idpRow.idps,
                   flags |-> (idpRow.flags \cup q.sets) \ (q.copy.flags \ q.flags)]
     /\ seen' = [f \in Flag |-> (IF f \in q.sets THEN q.idps \cap GroupOf[f] ELSE seen[f]) \cap idpRow'.idps]
     /\ approvalOddities' = approvalOddities
          \cup (IF q.copy # idpRow THEN {"raced"} ELSE {})
          \cup (IF \E f \in q.sets : q.idps \cap GroupOf[f] = {} THEN {"blank"} ELSE {})
     /\ UNCHANGED <<saml, saves>>

\* A payload brings any providers, and changes one flag at most.
Payloads == {idpRow.flags} \cup {idpRow.flags \cup {f} : f \in Flag} \cup {idpRow.flags \ {f} : f \in Flag}

ApprovalsNext ==
  \E s \in Saver :
    \/ CommitSave(s)
    \/ \E idps \in SUBSET IdpChoice, flags \in Payloads : BeginSave(s, idps, flags)

-----------------------------------------------------------------------------
\* buildGitHubRequestData: the providers an environment gets.
ApprovalsNeeded(env, idp) ==
  {f \in Flag : /\ idp \in GroupOf[f]
                /\ IF f \in BceidFlag THEN f = [dev |-> "devBceidApproved", test |-> "testBceidApproved",
                                                prod |-> "bceidApproved"][env]
                   ELSE env = "prod"}
Delivered(env) == {i \in idpRow.idps : ApprovalsNeeded(env, i) \subseteq idpRow.flags}

(* permissions.ts, "an approval is void once the IdP it approved is gone":   *)
(* after any series of saves by owners and approvers, an environment gets a  *)
(* provider that needs an approval there only if the approver's form showed  *)
(* that very provider, not another one of its group, and not one that was    *)
(* removed and added again since; unless a save wrote over another, or a     *)
(* flag was set for nothing.                                                 *)
DeliveredWasApproved ==
  approvalOddities = {} =>
    \A env \in {"dev", "test", "prod"} : \A i \in Delivered(env) :
      \A f \in ApprovalsNeeded(env, i) : i \in seen[f]
=============================================================================
