------------------------- MODULE OrganizationLinks -------------------------
(***************************************************************************)
(* The links of ONE team to organizations (organization_teams), and the    *)
(* consent they carry: controllers/organization.ts from inviteTeam to      *)
(* leaveOrganization.                                                      *)
(*                                                                         *)
(* Every endpoint reads the link, decides, and writes in a transaction of  *)
(* its own, by the id of the row it read and only the columns it changed:  *)
(* two actions.  `fresh` remembers whether the link was the same row with  *)
(* the same content when the call wrote.                                   *)
(***************************************************************************)
EXTENDS Integers, FiniteSets

CONSTANTS
  Org,          \* organizations that may invite the team
  Consentable,  \* ORG_CONSENTABLE_PERMISSIONS
  LinkCaller,   \* concurrent calls
  MaxLinks      \* bound on the rows of organization_teams ever created

ASSUME OrganizationLinksAssumption == MaxLinks \in Nat

Consent == SUBSET Consentable
Link == [id : 1..MaxLinks, permissions : Consent, pending : BOOLEAN]
NoLink == [id |-> 0, permissions |-> {}, pending |-> TRUE]
LinkIdle == [op |-> "idle"]

VARIABLES
  link,      \* the row of each organization, if any
  agreed,    \* what a team administrator accepted or set, while it is linked
  lastLink,  \* the last id
  lcall      \* the calls between their read and their write

linkVars == <<link, agreed, lastLink, lcall>>

LinkCall == [op : {"invite", "accept", "consent", "delete"}, org : Org,
             copy : Link \cup {NoLink}, permissions : Consent, fresh : BOOLEAN]

LinksTypeOK ==
  /\ link \in [Org -> Link \cup {NoLink}]
  /\ agreed \in [Org -> Consent]
  /\ lastLink \in 0..MaxLinks
  /\ lcall \in [LinkCaller -> LinkCall \cup {LinkIdle}]

Active(o) == link[o] # NoLink /\ ~link[o].pending
ActiveOrgs == {o \in Org : Active(o)}

-----------------------------------------------------------------------------
LinksInit ==
  /\ link = [o \in Org |-> NoLink]
  /\ agreed = [o \in Org |-> {}]
  /\ lastLink = 0
  /\ lcall = [c \in LinkCaller |-> LinkIdle]

ReadsLink(c, op, o, permissions) ==
  /\ lcall[c] = LinkIdle
  /\ lcall' = [lcall EXCEPT ![c] = [op |-> op, org |-> o, copy |-> link[o],
                                    permissions |-> permissions, fresh |-> TRUE]]
  /\ UNCHANGED <<link, agreed, lastLink>>

(* Mutant: invites a team whatever it is linked to. *)
ReadForAnyInvite(c, o, p) == ReadsLink(c, "invite", o, p)

\* inviteTeam: the team has no active link; an invitation is made or replaced.
ReadForInvite(c, o, p) == ActiveOrgs = {} /\ ReadsLink(c, "invite", o, p)

\* respondToOrganizationInvitation, accepting: as offered, or narrower.
ReadForAccept(c, o, p) ==
  /\ link[o] # NoLink /\ link[o].pending /\ ActiveOrgs = {}
  /\ p \subseteq link[o].permissions
  /\ ReadsLink(c, "accept", o, p)

\* updateTeamConsent: any terms, as the team administrator sets them.
ReadForConsent(c, o, p) == Active(o) /\ ReadsLink(c, "consent", o, p)

\* removeTeamFromOrganization, leaveOrganization; declining an invitation.
ReadForDelete(c, o) == link[o] # NoLink /\ ReadsLink(c, "delete", o, {})

\* The write of call c makes the row of o newLink.
Writes(c, newLink) ==
  LET o == lcall[c].org
  IN /\ link' = [link EXCEPT ![o] = newLink]
     /\ lcall' = [d \in LinkCaller |->
          IF d = c THEN LinkIdle
          ELSE IF lcall[d] # LinkIdle /\ lcall[d].org = o /\ newLink # link[o]
               THEN [lcall[d] EXCEPT !.fresh = FALSE]
               ELSE lcall[d]]

StillThere(c) == link[lcall[c].org].id = lcall[c].copy.id

\* save: the permissions are written when they differ from the copy.
Saved(c, row) == IF lcall[c].permissions = lcall[c].copy.permissions THEN row
                 ELSE [row EXCEPT !.permissions = lcall[c].permissions]

\* An existing invitation is overwritten, pending or not by now; a new one
\* must be the only link of the pair.
Invite(c) ==
  /\ lcall[c].op = "invite"
  /\ LET o == lcall[c].org
     IN IF lcall[c].copy # NoLink
        THEN /\ Writes(c, IF StillThere(c) THEN Saved(c, link[o]) ELSE link[o])
             /\ UNCHANGED lastLink
        ELSE /\ lastLink < MaxLinks
             /\ lastLink' = lastLink + 1
             /\ Writes(c, IF link[o] # NoLink THEN link[o]
                          ELSE [id |-> lastLink', pending |-> TRUE,
                                permissions |-> lcall[c].permissions])
  /\ UNCHANGED agreed

(* Mutant: the index covers a pair, not a team. *)
OneActivePerPair(o) == Active(o) => link[o].id # 0

\* The unique index on the active link of a team refuses a second one.
OneActive(o) == ActiveOrgs \subseteq {o}

Accept(c) ==
  /\ lcall[c].op = "accept"
  /\ LET o == lcall[c].org
     IN IF StillThere(c) /\ OneActive(o)
        THEN /\ Writes(c, [Saved(c, link[o]) EXCEPT !.pending = FALSE])
             /\ agreed' = [agreed EXCEPT ![o] = lcall[c].permissions]
        ELSE Writes(c, link[o]) /\ UNCHANGED agreed
  /\ UNCHANGED lastLink

SetConsent(c) ==
  /\ lcall[c].op = "consent"
  /\ LET o == lcall[c].org
     IN IF StillThere(c)
        THEN /\ Writes(c, Saved(c, link[o]))
             /\ agreed' = [agreed EXCEPT ![o] = lcall[c].permissions]
        ELSE Writes(c, link[o]) /\ UNCHANGED agreed
  /\ UNCHANGED lastLink

DeleteLink(c) ==
  /\ lcall[c].op = "delete"
  /\ Writes(c, IF StillThere(c) THEN NoLink ELSE link[lcall[c].org])
  /\ agreed' = IF StillThere(c) THEN [agreed EXCEPT ![lcall[c].org] = {}] ELSE agreed
  /\ UNCHANGED lastLink

LinksNext ==
  \E c \in LinkCaller :
    \/ \E o \in Org :
         \/ ReadForDelete(c, o)
         \/ \E p \in Consent :
              ReadForInvite(c, o, p) \/ ReadForAccept(c, o, p) \/ ReadForConsent(c, o, p)
    \/ Invite(c) \/ Accept(c) \/ SetConsent(c) \/ DeleteLink(c)

-----------------------------------------------------------------------------
(* inviteTeam, respondToOrganizationInvitation: both look for an active link *)
(* before they write, and neither lock; still the team never belongs to two  *)
(* organizations.                                                            *)
OneOrganization == Cardinality(ActiveOrgs) <= 1

(* "A team may accept on narrower terms than were proposed, but never        *)
(* broader": what an organization holds goes beyond what the team agreed to  *)
(* only when an invitation, an acceptance or a change of consent writes over *)
(* a link that changed since the call read it.                               *)
Broader(o) == Active(o) /\ ~(link[o].permissions \subseteq agreed[o])
ConsentIsRespected ==
  [][\A o \in Org : ~Broader(o) /\ Broader(o)' =>
       \E c \in LinkCaller : lcall[c] # LinkIdle /\ lcall'[c] = LinkIdle /\ ~lcall[c].fresh]_linkVars
=============================================================================
