---------------------------- MODULE Memberships ----------------------------
(***************************************************************************)
(* Who belongs to a team or an organization, and with which role: the      *)
(* endpoints of controllers/team.ts and controllers/organization.ts that   *)
(* change memberships, and the two places of controllers/user.ts that      *)
(* delete a user's row (the clean up of stale users, and the merge of a    *)
(* duplicate when somebody signs in).                                      *)
(*                                                                         *)
(* A call that reads first and writes in a later transaction is two        *)
(* actions; `fresh` remembers whether anybody else changed the group in    *)
(* between.  Where the primary key decides at the write (adding a member)  *)
(* or the write does not depend on the read (promoting one), a call is one *)
(* action.                                                                 *)
(***************************************************************************)
EXTENDS FiniteSets

CONSTANTS
  Team, Organization,
  Account,      \* users rows: people, and the rows created for an e-mail
  Unclaimed,    \* rows created by e-mail that nobody has signed in to
  Creator,      \* who creates the groups
  Sso,          \* the row of bcgov.sso@gov.bc.ca
  Caller        \* concurrent calls

ASSUME MembershipsAssumption ==
  /\ Unclaimed \subseteq Account
  /\ {Creator, Sso} \subseteq Account \ Unclaimed
  /\ Creator # Sso
  /\ Team \cap Organization = {}

Group == Team \cup Organization
NoTeam == "no team"
ASSUME NoTeam \notin Group

VARIABLES
  group,        \* the teams and organizations that exist
  role,         \* users_teams and organization_members
  account,      \* the rows of users
  owned,        \* the one integration: its userId and its teamId
  mcall         \* the calls between their read and their write

membershipVars == <<group, role, account, owned, mcall>>

Idle == [op |-> "idle", group |-> NoTeam, user |-> Sso, todo |-> {},
         sole |-> FALSE, others |-> FALSE, fresh |-> TRUE]

MembershipsTypeOK ==
  /\ group \subseteq Group
  /\ role \in [Group -> [Account -> {"none", "member", "admin"}]]
  /\ account \subseteq Account
  /\ owned \in [user : Account, team : Team \cup {NoTeam}]
  /\ mcall \in [Caller ->
       [op : {"idle", "remove", "demote", "cleanup", "transfer", "destroy"},
        group : Group \cup {NoTeam}, user : Account, todo : SUBSET Team,
        sole : BOOLEAN, others : BOOLEAN, fresh : BOOLEAN]]

Admins(g) == {u \in Account : role[g][u] = "admin"}
SoleAdmin(g, u) == Admins(g) = {u}
MayManage(g) == g \in group /\ (g \in Organization \/ Admins(g) # {})

-----------------------------------------------------------------------------
MembershipsInit ==
  /\ group \in {{g} : g \in Group}
  /\ role = [g \in Group |-> [u \in Account |->
       IF g \in group /\ u = Creator THEN "admin" ELSE "none"]]
  /\ account = Account
  /\ owned \in [user : {Creator}, team : (Team \cap group) \cup {NoTeam}]
  /\ mcall = [c \in Caller |-> Idle]

\* The calls, once the memberships are newRole: those that read a group that
\* changes, and have not written yet, are overtaken.
Reads(d) == IF mcall[d].op \in {"remove", "demote"} THEN {mcall[d].group} ELSE Team
Overtaken(newRole) == [d \in Caller |-> [mcall[d] EXCEPT !.fresh =
  @ /\ (mcall[d] # Idle => \A g \in Reads(d) : newRole[g] = role[g])]]

\* A transaction that writes the memberships: of a call, or on its own.
Commit(c, newRole) == role' = newRole /\ mcall' = [Overtaken(newRole) EXCEPT ![c] = Idle]
Commits(newRole) == role' = newRole /\ mcall' = Overtaken(newRole)

\* addUsersToTeam, addOrganizationMember: the primary key refuses a second row.
AddMember(g, u, r) ==
  /\ MayManage(g) /\ u \in account /\ role[g][u] = "none"
  /\ Commits([role EXCEPT ![g][u] = r])
  /\ UNCHANGED <<group, account, owned>>

\* updateMemberInTeam, updateOrganizationMemberRole with role admin: unguarded.
Promote(g, u) ==
  /\ MayManage(g) /\ role[g][u] = "member"
  /\ Commits([role EXCEPT ![g][u] = "admin"])
  /\ UNCHANGED <<group, account, owned>>

(* Mutant: counts the members, not the administrators. *)
CanRemoveOneOfMany(g, u) == Cardinality({v \in Account : role[g][v] # "none"}) # 1
\* canRemoveUser, assertNotLastAdmin
CanRemove(g, u) == ~SoleAdmin(g, u)

\* removeUserFromTeam, removeOrganizationMember; the demotion of an
\* administrator: everything before the transaction.
AskToLeave(c, g, u, op) ==
  /\ mcall[c] = Idle
  /\ MayManage(g)
  /\ role[g][u] \in (IF op = "remove" THEN {"member", "admin"} ELSE {"admin"})
  /\ CanRemove(g, u)
  /\ mcall' = [mcall EXCEPT ![c] = [Idle EXCEPT !.op = op, !.group = g, !.user = u]]
  /\ UNCHANGED <<group, role, account, owned>>

\* The DELETE, or the UPDATE, by primary key: nothing if the row is gone.
RemoveMember(c) ==
  /\ mcall[c].op = "remove"
  /\ Commit(c, [role EXCEPT ![mcall[c].group][mcall[c].user] = "none"])
  /\ UNCHANGED <<group, account, owned>>

DemoteMember(c) ==
  /\ mcall[c].op = "demote"
  /\ LET g == mcall[c].group  u == mcall[c].user
     IN Commit(c, [role EXCEPT ![g][u] = IF @ = "none" THEN @ ELSE "member"])
  /\ UNCHANGED <<group, account, owned>>

CreateGroup(g) ==
  /\ g \notin group /\ group = {} /\ Creator \in account
  /\ group' = group \cup {g}
  /\ Commits([role EXCEPT ![g][Creator] = "admin"])
  /\ UNCHANGED <<account, owned>>

\* deleteTeam, deleteOrganization: the memberships cascade; the foreign key of
\* an integration keeps its team.
DeleteGroup(g) ==
  /\ MayManage(g) /\ owned.team # g
  /\ group' = group \ {g}
  /\ Commits([role EXCEPT ![g] = [u \in Account |-> "none"]])
  /\ UNCHANGED <<account, owned>>

\* The integration's owner hands it to a team, or takes it back.
MoveIntegration ==
  /\ \E t \in (Team \cap group) \cup {NoTeam} :
       /\ t # owned.team
       /\ t # NoTeam => role[t][owned.user] # "none"
       /\ owned' = [owned EXCEPT !.team = t]
  /\ mcall' = [d \in Caller |-> [mcall[d] EXCEPT !.fresh =
                 @ /\ mcall[d].op \in {"idle", "remove", "demote"}]]
  /\ UNCHANGED <<group, role, account>>

-----------------------------------------------------------------------------
\* destroyUser: the memberships of the row cascade.
Without(u) == [g \in Group |-> [role[g] EXCEPT ![u] = "none"]]

\* findOrCreateUser found the signed-in user and a row made for the same
\* e-mail: the second is deleted, with whatever it was a member of.
MergeDuplicate(u) ==
  /\ u \in Unclaimed \cap account /\ owned.user # u
  /\ account' = account \ {u}
  /\ Commits(Without(u))
  /\ UNCHANGED <<group, owned>>

\* deleteStaleUsers, production: reads the user and the teams they are on.
StartCleanup(c, u) ==
  /\ mcall[c] = Idle
  /\ u \in account \ (Unclaimed \cup {Sso})
  /\ \A d \in Caller : mcall[d].op \in {"idle", "remove", "demote"}
  /\ mcall' = [mcall EXCEPT ![c] = [Idle EXCEPT !.op = "cleanup", !.user = u,
                 !.todo = {t \in Team : role[t][u] # "none"}]]
  /\ UNCHANGED <<group, role, account, owned>>

ReadAdmins(c) ==
  /\ mcall[c].op = "cleanup"
  /\ \E t \in mcall[c].todo :
       mcall' = [mcall EXCEPT ![c] = [mcall[c] EXCEPT !.op = "transfer", !.group = t,
                   !.todo = mcall[c].todo \ {t},
                   !.sole = SoleAdmin(t, mcall[c].user),
                   !.others = Admins(t) # {}]]
  /\ UNCHANGED <<group, role, account, owned>>

(* Mutant: forgets what the user owned where others administer the team. *)
TakenOverIfSole(c) == owned.team = mcall[c].group /\ mcall[c].sole
\* The only administrator is replaced by the SSO team, which takes all the
\* team's integrations; otherwise it takes those the user owned.  Adding the SSO
\* team a second time violates the primary key and ends the clean up.
TakenOver(c) == /\ owned.team = mcall[c].group
                /\ mcall[c].sole \/ (mcall[c].others /\ owned.user = mcall[c].user)

Transfer(c) ==
  /\ mcall[c].op = "transfer"
  /\ LET t == mcall[c].group
         onward == [mcall[c] EXCEPT !.op = "cleanup", !.group = NoTeam]
     IN IF mcall[c].sole /\ (role[t][Sso] # "none" \/ t \notin group)
        THEN Commit(c, role) /\ owned' = owned
        ELSE /\ role' = IF mcall[c].sole THEN [role EXCEPT ![t][Sso] = "admin"] ELSE role
             /\ owned' = IF TakenOver(c) THEN [owned EXCEPT !.user = Sso] ELSE owned
             /\ mcall' = [Overtaken(role') EXCEPT ![c] = onward]
  /\ UNCHANGED <<group, account>>

TransferOwn(c) ==
  /\ mcall[c].op = "cleanup" /\ mcall[c].todo = {}
  /\ owned' = IF owned = [user |-> mcall[c].user, team |-> NoTeam]
              THEN [owned EXCEPT !.user = Sso] ELSE owned
  /\ mcall' = [mcall EXCEPT ![c].op = "destroy"]
  /\ UNCHANGED <<group, role, account>>

\* The last transaction; the foreign key of an integration keeps its owner.
DestroyStale(c) ==
  /\ mcall[c].op = "destroy"
  /\ LET u == mcall[c].user
     IN IF owned.user = u
        THEN Commit(c, role) /\ account' = account
        ELSE Commit(c, Without(u)) /\ account' = account \ {u}
  /\ UNCHANGED <<group, owned>>

MembershipsNext ==
  \/ \E g \in Group :
       \/ CreateGroup(g)
       \/ DeleteGroup(g)
       \/ \E u \in Account :
            \/ Promote(g, u)
            \/ \E r \in {"member", "admin"} : AddMember(g, u, r)
            \/ \E c \in Caller, op \in {"remove", "demote"} : AskToLeave(c, g, u, op)
  \/ MoveIntegration
  \/ \E u \in Account : MergeDuplicate(u)
  \/ \E c \in Caller :
       \/ RemoveMember(c)
       \/ DemoteMember(c)
       \/ \E u \in Account : StartCleanup(c, u)
       \/ ReadAdmins(c)
       \/ Transfer(c)
       \/ TransferOwn(c)
       \/ DestroyStale(c)

-----------------------------------------------------------------------------
\* The calls that end with this step.
Ending == {c \in Caller : mcall[c] # Idle /\ mcall'[c] = Idle}

(* canRemoveUser and assertNotLastAdmin: a group that has an administrator   *)
(* loses the last one only when a call writes although the group changed     *)
(* after it had counted the administrators, or when the row of the           *)
(* administrator is deleted where nobody counts: a duplicate that is merged, *)
(* or a stale user who administers an organization.                          *)
LastAdminIsGuarded ==
  [][\A g \in group \cap group' : Admins(g) # {} /\ Admins(g)' = {} =>
       \/ \E c \in Ending : ~mcall[c].fresh
       \/ \E u \in Admins(g) \ account' : u \in Unclaimed \/ g \in Organization]_membershipVars

(* deleteStaleUsers: when nothing it read has changed, it deletes the user,  *)
(* except where the SSO team already is a plain member of a team whose only  *)
(* administrator the user is, or the user owns an integration of a team they *)
(* left or that has no administrator: those clean ups fail at every call.    *)
CleanupFinishes ==
  [][\A c \in Ending :
       LET u == mcall[c].user
       IN mcall[c].op \in {"transfer", "destroy"} /\ mcall[c].fresh /\ u \in account' =>
            \/ mcall[c].op = "transfer" /\ role[mcall[c].group][Sso] = "member"
            \/ /\ mcall[c].op = "destroy" /\ owned.user = u /\ owned.team # NoTeam
               /\ role[owned.team][u] = "none" \/ Admins(owned.team) = {}]_membershipVars
=============================================================================
