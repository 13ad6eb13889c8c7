------------------------------ MODULE TeamProofs ------------------------------
(***************************************************************************)
(* Theorems about teams and organizations, for any number of them, of      *)
(* accounts, concurrent calls and changes: a team never belongs to two     *)
(* organizations and its consent is held to; a group keeps its last        *)
(* administrator and a clean up ends; the two derivations of a user's      *)
(* authority, the predicate of a list and the resolver of a row, agree;    *)
(* and what an API account may do is what holds, from one lifetime of a    *)
(* cache entry after the last change.                                      *)
(***************************************************************************)
EXTENDS OrganizationLinks, Memberships, ApiAuthority, FiniteSetTheorems, TLAPS

-----------------------------------------------------------------------------
(* The links between teams and organizations                                 *)

LinksSpec == LinksInit /\ [][LinksNext]_linkVars

-----------------------------------------------------------------------------
(* The inductive invariant *)

\* What OneOrganization counts, without counting.
NoTwoActive == \A a, b \in Org : Active(a) /\ Active(b) => a = b

\* Only an invitation starts from no link: what else is read is a row, so that
\* a write by its id never brings a row back.
CopiesAreRows ==
  \A c \in LinkCaller : lcall[c] # LinkIdle /\ lcall[c].op # "invite" => lcall[c].copy \in Link

LinksInv == LinksTypeOK /\ CopiesAreRows /\ NoTwoActive

(* Every row has an id that NoLink has not. *)
LEMMA LinkRows ==
  /\ NoLink.id = 0 /\ NoLink.pending
  /\ \A l \in Link : l.id \in 1..MaxLinks
  BY DEF NoLink, Link

(* A link is active exactly when its row is not pending. *)
LEMMA ActiveIsAccepted ==
  ASSUME LinksTypeOK, NEW o \in Org
  PROVE  Active(o) <=> ~link[o].pending
  BY DEF Active, LinksTypeOK, NoLink

(* A count of at most one is "no two". *)
LEMMA CountIsAtMostOne ==
  ASSUME NoTwoActive
  PROVE  OneOrganization
<1>1. CASE ActiveOrgs = {}
  BY <1>1, FS_EmptySet DEF OneOrganization
<1>2. CASE ActiveOrgs # {}
  <2>1. PICK o \in Org : Active(o)
    BY <1>2 DEF ActiveOrgs
  <2>2. ActiveOrgs = {o}
    BY <2>1 DEF NoTwoActive, ActiveOrgs
  <2>3. Cardinality({o}) = 1
    BY FS_Singleton
  <2> QED BY <2>2, <2>3 DEF OneOrganization
<1> QED BY <1>1, <1>2

-----------------------------------------------------------------------------
(* Reads *)

LEMMA ReadKeeps ==
  ASSUME LinksInv, NEW c \in LinkCaller, NEW o \in Org, NEW p \in Consent,
         NEW op \in {"invite", "accept", "consent", "delete"},
         ReadsLink(c, op, o, p), op # "invite" => link[o] # NoLink
  PROVE  LinksInv'
<1> DEFINE call == [op |-> op, org |-> o, copy |-> link[o], permissions |-> p, fresh |-> TRUE]
<1>1. call \in LinkCall /\ call.op = op /\ call.copy = link[o]
  BY DEF LinkCall, LinksInv, LinksTypeOK
<1>2. lcall' = [lcall EXCEPT ![c] = call] /\ UNCHANGED <<link, agreed, lastLink>>
  BY DEF ReadsLink
<1> HIDE DEF call
<1>3. LinksTypeOK'
  BY <1>1, <1>2 DEF LinksInv, LinksTypeOK
<1>4. CopiesAreRows'
  BY <1>1, <1>2 DEF LinksInv, LinksTypeOK, CopiesAreRows
<1>5. NoTwoActive'
  BY <1>2 DEF LinksInv, NoTwoActive, Active
<1> QED BY <1>3, <1>4, <1>5 DEF LinksInv

-----------------------------------------------------------------------------
(* Writes *)

(* A write keeps the invariant if it keeps the types, and activates a link   *)
(* only when no other organization has one.                                  *)
LEMMA WriteKeeps ==
  ASSUME LinksInv, NEW c \in LinkCaller, lcall[c] # LinkIdle,
         NEW kept \in Link \cup {NoLink}, Writes(c, kept),
         agreed' \in [Org -> Consent], lastLink' \in 0..MaxLinks,
         kept.pending \/ OneActive(lcall[c].org)
  PROVE  LinksInv'
<1>1. \A d \in LinkCaller : lcall[d] = LinkIdle \/ lcall[d] \in LinkCall
  BY DEF LinksInv, LinksTypeOK
<1> PICK o \in Org : o = lcall[c].org
  BY <1>1 DEF LinkCall
<1>2. link' = [link EXCEPT ![o] = kept]
  BY DEF Writes
<1>3. /\ lcall' \in [LinkCaller -> LinkCall \cup {LinkIdle}]
      /\ \A d \in LinkCaller : lcall'[d] # LinkIdle =>
           lcall[d] # LinkIdle /\ lcall'[d].op = lcall[d].op /\ lcall'[d].copy = lcall[d].copy
  <2>1. \A d \in LinkCaller :
          lcall'[d] \in {LinkIdle, lcall[d], [lcall[d] EXCEPT !.fresh = FALSE]}
          /\ (lcall[d] = LinkIdle => lcall'[d] = LinkIdle)
    BY DEF Writes
  <2>2. \A l \in LinkCall :
          LET m == [l EXCEPT !.fresh = FALSE]
          IN m \in LinkCall /\ m.op = l.op /\ m.copy = l.copy
    BY DEF LinkCall
  <2>3. lcall' = [d \in LinkCaller |-> lcall'[d]]
    BY DEF Writes
  <2>4. ASSUME NEW d \in LinkCaller
        PROVE  /\ lcall'[d] \in LinkCall \cup {LinkIdle}
               /\ lcall'[d] # LinkIdle =>
                    lcall[d] # LinkIdle /\ lcall'[d].op = lcall[d].op /\ lcall'[d].copy = lcall[d].copy
    BY <1>1, <2>1, <2>2
  <2> QED BY <2>3, <2>4
<1>4. LinksTypeOK'
  BY <1>1, <1>2, <1>3 DEF LinksInv, LinksTypeOK
<1>5. CopiesAreRows'
  BY <1>3 DEF LinksInv, CopiesAreRows
<1>6. NoTwoActive'
  <2>1. \A a \in Org : a # o => (Active(a)' <=> Active(a))
    BY <1>1, <1>2 DEF Active, LinksInv, LinksTypeOK
  <2>2. kept.pending => ~Active(o)'
    BY <1>2 DEF Active, LinksInv, LinksTypeOK
  <2>3. OneActive(o) => \A a \in Org : a # o => ~Active(a)
    BY DEF OneActive, ActiveOrgs
  <2> QED BY <2>1, <2>2, <2>3 DEF LinksInv, NoTwoActive
<1> QED BY <1>4, <1>5, <1>6 DEF LinksInv

(* What a write leaves in the row of its organization. *)
LEMMA WrittenRows ==
  ASSUME LinksInv, NEW c \in LinkCaller, lcall[c] # LinkIdle
  PROVE  LET o == lcall[c].org
         IN /\ o \in Org /\ link[o] \in Link \cup {NoLink} /\ lcall[c].permissions \in Consent
            /\ link[o].pending \/ OneActive(o)
            /\ link[o] # NoLink => /\ Saved(c, link[o]) \in Link
                                   /\ Saved(c, link[o]).pending = link[o].pending
                                   /\ [Saved(c, link[o]) EXCEPT !.pending = FALSE] \in Link
            /\ lcall[c].copy \in Link /\ StillThere(c) => link[o] # NoLink
<1>1. lcall[c] \in LinkCall
  BY DEF LinksInv, LinksTypeOK
<1>2. lcall[c].org \in Org /\ lcall[c].permissions \in Consent
  BY <1>1 DEF LinkCall
<1>3. link[lcall[c].org] \in Link \cup {NoLink}
  BY <1>2 DEF LinksInv, LinksTypeOK
<1>4. ASSUME NEW l \in Link, NEW p \in Consent
      PROVE  LET s == [l EXCEPT !.permissions = p]
             IN s \in Link /\ s.pending = l.pending /\ [s EXCEPT !.pending = FALSE] \in Link
                /\ [l EXCEPT !.pending = FALSE] \in Link
  BY DEF Link
<1>5. link[lcall[c].org].pending \/ OneActive(lcall[c].org)
  BY <1>2, ActiveIsAccepted DEF LinksInv, NoTwoActive, OneActive, ActiveOrgs
<1>6. lcall[c].copy \in Link /\ StillThere(c) => link[lcall[c].org] # NoLink
  BY LinkRows DEF StillThere, NoLink
<1> QED BY <1>2, <1>3, <1>4, <1>5, <1>6 DEF Saved

(* inviteTeam: it overwrites what is there, or adds a pending row. *)
LEMMA InviteKeeps ==
  ASSUME LinksInv, NEW c \in LinkCaller, Invite(c)
  PROVE  LinksInv'
<1> DEFINE o == lcall[c].org
<1>1. lcall[c] # LinkIdle
  BY DEF Invite, LinkIdle
<1>2. agreed' \in [Org -> Consent]
  BY DEF Invite, LinksInv, LinksTypeOK
<1>3. CASE lcall[c].copy # NoLink
  <2>1. lcall[c].copy \in Link
    BY <1>1, <1>3 DEF LinksInv, LinksTypeOK, LinkCall
  <2>2. lastLink' \in 0..MaxLinks
    BY <1>3 DEF Invite, LinksInv, LinksTypeOK
  <2>3. PICK kept \in Link \cup {NoLink} : Writes(c, kept) /\ (kept.pending \/ OneActive(o))
    BY <1>1, <1>3, <2>1, WrittenRows DEF Invite
  <2> QED BY <1>1, <1>2, <2>2, <2>3, WriteKeeps
<1>4. CASE lcall[c].copy = NoLink
  <2> DEFINE new == [id |-> lastLink', pending |-> TRUE, permissions |-> lcall[c].permissions]
  <2>1. lastLink' \in 1..MaxLinks
    BY <1>4, OrganizationLinksAssumption DEF Invite, LinksInv, LinksTypeOK
  <2>2. new \in Link /\ new.pending
    BY <1>1, <2>1, WrittenRows DEF Link
  <2>3. Writes(c, IF link[o] # NoLink THEN link[o] ELSE new)
    BY <1>4 DEF Invite
  <2> HIDE DEF new
  <2>4. PICK kept \in Link \cup {NoLink} : Writes(c, kept) /\ (kept.pending \/ OneActive(o))
    BY <1>1, <2>2, <2>3, WrittenRows
  <2> QED BY <1>1, <1>2, <2>1, <2>4, WriteKeeps
<1> QED BY <1>3, <1>4

(* Acceptance, consent and removal write by the id of the row they read; the *)
(* index lets only one acceptance through.                                   *)
LEMMA RespondKeeps ==
  ASSUME LinksInv, NEW c \in LinkCaller, Accept(c) \/ SetConsent(c) \/ DeleteLink(c)
  PROVE  LinksInv'
<1> DEFINE o == lcall[c].org
<1>1. lcall[c] # LinkIdle
  BY DEF Accept, SetConsent, DeleteLink, LinkIdle
<1>2. lcall[c].copy \in Link
  BY <1>1 DEF Accept, SetConsent, DeleteLink, LinksInv, CopiesAreRows
<1>3. agreed' \in [Org -> Consent]
  <2>1. {} \in Consent /\ lcall[c].permissions \in Consent /\ agreed \in [Org -> Consent]
    BY <1>1, WrittenRows DEF Consent, LinksInv, LinksTypeOK
  <2> QED BY <2>1 DEF Accept, SetConsent, DeleteLink
<1>4. lastLink' \in 0..MaxLinks
  BY DEF Accept, SetConsent, DeleteLink, LinksInv, LinksTypeOK
<1>5. PICK kept \in Link \cup {NoLink} : Writes(c, kept) /\ (kept.pending \/ OneActive(o))
  <2>1. CASE Accept(c)
    BY <1>1, <1>2, <2>1, WrittenRows DEF Accept
  <2>2. CASE SetConsent(c)
    BY <1>1, <1>2, <2>2, WrittenRows DEF SetConsent
  <2>3. CASE DeleteLink(c)
    <3>1. \E kept \in {NoLink, link[o]} : Writes(c, kept)
      BY <2>3 DEF DeleteLink
    <3> QED BY <1>1, <3>1, LinkRows, WrittenRows
  <2> QED BY <2>1, <2>2, <2>3
<1> QED BY <1>1, <1>3, <1>4, <1>5, WriteKeeps

-----------------------------------------------------------------------------
(* The theorems *)

(* organization_teams keeps its types, and at most one link is active: the   *)
(* inductive invariant of the calls that invite, accept, consent and remove. *)
THEOREM LinksInvHolds == LinksSpec => []LinksInv
<1>1. LinksInit => LinksInv
  BY OrganizationLinksAssumption
     DEF LinksInit, LinksInv, LinksTypeOK, CopiesAreRows, NoTwoActive, Active, Consent
<1>2. LinksInv /\ [LinksNext]_linkVars => LinksInv'
  <2> SUFFICES ASSUME LinksInv, [LinksNext]_linkVars PROVE LinksInv'
    OBVIOUS
  <2>1. CASE LinksNext
    <3>1. PICK c \in LinkCaller :
            \/ \E o \in Org :
                 \/ ReadForDelete(c, o)
                 \/ \E p \in Consent :
                      ReadForInvite(c, o, p) \/ ReadForAccept(c, o, p) \/ ReadForConsent(c, o, p)
            \/ Invite(c) \/ Accept(c) \/ SetConsent(c) \/ DeleteLink(c)
      BY <2>1 DEF LinksNext
    <3>2. ASSUME NEW o \in Org, NEW p \in Consent,
                 ReadForInvite(c, o, p) \/ ReadForAccept(c, o, p) \/ ReadForConsent(c, o, p)
          PROVE  LinksInv'
      BY <3>2, ReadKeeps DEF ReadForInvite, ReadForAccept, ReadForConsent, Active
    <3>3. ASSUME NEW o \in Org, ReadForDelete(c, o) PROVE LinksInv'
      <4>1. {} \in Consent
        BY DEF Consent
      <4> QED BY <3>3, <4>1, ReadKeeps DEF ReadForDelete
    <3> QED BY <3>1, <3>2, <3>3, InviteKeeps, RespondKeeps
  <2>2. CASE UNCHANGED linkVars
    BY <2>2 DEF linkVars, LinksInv, LinksTypeOK, CopiesAreRows, NoTwoActive, Active
  <2> QED BY <2>1, <2>2
<1> QED BY <1>1, <1>2, PTL DEF LinksSpec

(* A team never belongs to two organizations, although no call that invites  *)
(* or accepts holds a lock between its check and its write.                  *)
THEOREM NeverTwoOrganizations == LinksSpec => []OneOrganization
<1>1. LinksInv => OneOrganization
  BY CountIsAtMostOne DEF LinksInv
<1> QED BY <1>1, LinksInvHolds, PTL

-----------------------------------------------------------------------------
(* Consent.                                                                 *)

\* A call whose link did not change since it read it has the link as it is; what an
\* invitation overwrites was not active when it was read.
CallFits(d) ==
  lcall[d] # LinkIdle =>
    /\ lcall[d].fresh => lcall[d].copy = link[lcall[d].org]
    /\ lcall[d].op = "invite" => lcall[d].copy.pending
FreshIsCurrent == \A d \in LinkCaller : CallFits(d)

\* A call reads.
LEMMA ReadIsFresh ==
  ASSUME LinksInv, FreshIsCurrent, NEW c \in LinkCaller, NEW o \in Org, NEW p \in Consent,
         NEW op \in {"invite", "accept", "consent", "delete"},
         ReadsLink(c, op, o, p), op = "invite" => link[o].pending
  PROVE  FreshIsCurrent'
<1>1. PICK call : call = [op |-> op, org |-> o, copy |-> link[o], permissions |-> p, fresh |-> TRUE]
  OBVIOUS
<1>2. lcall' = [lcall EXCEPT ![c] = call] /\ link' = link
  BY <1>1 DEF ReadsLink
<1>3. lcall'[c] = call /\ \A d \in LinkCaller \ {c} : lcall'[d] = lcall[d]
  BY <1>2 DEF LinksInv, LinksTypeOK
<1>4. CallFits(c)'
  BY <1>1, <1>2, <1>3 DEF CallFits
<1>5. ASSUME NEW d \in LinkCaller \ {c} PROVE CallFits(d)'
  BY <1>2, <1>3 DEF FreshIsCurrent, CallFits
<1> QED BY <1>4, <1>5 DEF FreshIsCurrent

\* A call writes: the calls that read the link before are no longer fresh.
LEMMA WriteAgesOthers ==
  ASSUME LinksInv, FreshIsCurrent, NEW c \in LinkCaller, lcall[c] # LinkIdle, NEW kept, Writes(c, kept)
  PROVE  FreshIsCurrent'
<1>1. \A d \in LinkCaller : lcall[d] = LinkIdle \/ lcall[d] \in LinkCall
  BY DEF LinksInv, LinksTypeOK
<1>2. PICK o \in Org : o = lcall[c].org
  BY <1>1 DEF LinkCall
<1>3. link' = [link EXCEPT ![o] = kept] /\ link \in [Org -> Link \cup {NoLink}]
  BY <1>2 DEF Writes, LinksInv, LinksTypeOK
<1>4. ASSUME NEW d \in LinkCaller PROVE CallFits(d)'
  <2>1. CASE d = c
    BY <2>1 DEF Writes, CallFits
  <2>2. CASE d # c /\ lcall[d] # LinkIdle /\ lcall[d].org = o /\ kept # link[o]
    <3>1. lcall'[d] = [lcall[d] EXCEPT !.fresh = FALSE]
      BY <1>2, <2>2 DEF Writes
    <3>2. lcall'[d].fresh = FALSE /\ lcall'[d].copy = lcall[d].copy /\ lcall'[d].op = lcall[d].op
      BY <1>1, <2>2, <3>1 DEF LinkCall
    <3> QED BY <2>2, <3>2 DEF CallFits, FreshIsCurrent
  <2>3. CASE d # c /\ ~(lcall[d] # LinkIdle /\ lcall[d].org = o /\ kept # link[o])
    <3>1. lcall'[d] = lcall[d]
      BY <1>2, <2>3 DEF Writes
    <3>2. lcall[d] # LinkIdle => lcall[d].org \in Org /\ link'[lcall[d].org] = link[lcall[d].org]
      BY <1>1, <1>3, <2>3 DEF LinkCall
    <3> QED BY <3>1, <3>2 DEF CallFits, FreshIsCurrent
  <2> QED BY <2>1, <2>2, <2>3
<1> QED BY <1>4 DEF FreshIsCurrent

\* What a call writes, and what is agreed on then.
LEMMA LinkWrites ==
  ASSUME NEW c \in LinkCaller, Invite(c) \/ Accept(c) \/ SetConsent(c) \/ DeleteLink(c)
  PROVE  lcall[c] # LinkIdle /\ \E kept : Writes(c, kept)
BY DEF Invite, Accept, SetConsent, DeleteLink, LinkIdle

\* Every call that has not been overtaken has what it read.
THEOREM FreshIsCurrentHolds == LinksSpec => []FreshIsCurrent
<1>1. LinksInit => FreshIsCurrent
  BY DEF LinksInit, FreshIsCurrent, CallFits
<1>2. LinksInv /\ FreshIsCurrent /\ [LinksNext]_linkVars => FreshIsCurrent'
  <2> SUFFICES ASSUME LinksInv, FreshIsCurrent, [LinksNext]_linkVars PROVE FreshIsCurrent'
    OBVIOUS
  <2>1. CASE UNCHANGED linkVars
    BY <2>1 DEF linkVars, FreshIsCurrent, CallFits
  <2>2. ASSUME NEW c \in LinkCaller, NEW o \in Org, ReadForDelete(c, o) PROVE FreshIsCurrent'
    <3>1. {} \in Consent
      BY DEF Consent
    <3> QED BY <2>2, <3>1, ReadIsFresh DEF ReadForDelete
  <2>3. ASSUME NEW c \in LinkCaller, NEW o \in Org, NEW p \in Consent,
               ReadForInvite(c, o, p) \/ ReadForAccept(c, o, p) \/ ReadForConsent(c, o, p)
        PROVE  FreshIsCurrent'
    <3>1. ActiveOrgs = {} => link[o].pending
      BY ActiveIsAccepted DEF ActiveOrgs, LinksInv
    <3> QED BY <2>3, <3>1, ReadIsFresh DEF ReadForInvite, ReadForAccept, ReadForConsent
  <2>4. ASSUME NEW c \in LinkCaller, Invite(c) \/ Accept(c) \/ SetConsent(c) \/ DeleteLink(c)
        PROVE  FreshIsCurrent'
    <3>1. PICK kept : Writes(c, kept)
      BY <2>4, LinkWrites
    <3> QED BY <2>4, <3>1, LinkWrites, WriteAgesOthers
  <2> QED BY <2>1, <2>2, <2>3, <2>4 DEF LinksNext
<1> QED BY <1>1, <1>2, LinksInvHolds, PTL DEF LinksSpec

\* What a fresh call leaves of its own link is no broader than what is agreed on.
LEMMA FreshIsNotBroader ==
  ASSUME LinksInv, FreshIsCurrent, NEW c \in LinkCaller, lcall[c] # LinkIdle, lcall[c].fresh,
         Invite(c) \/ Accept(c) \/ SetConsent(c) \/ DeleteLink(c), NEW o \in Org, o = lcall[c].org,
         Broader(o)'
  PROVE  Broader(o)
<1>1. /\ lcall[c].copy = link[o] /\ (lcall[c].op = "invite" => lcall[c].copy.pending)
      /\ link \in [Org -> Link \cup {NoLink}] /\ agreed \in [Org -> Consent] /\ lcall[c] \in LinkCall
  BY DEF FreshIsCurrent, CallFits, LinksInv, LinksTypeOK
<1>2. StillThere(c)
  BY <1>1 DEF StillThere
<1>3. \A kept : Writes(c, kept) => link'[o] = kept
  BY <1>1 DEF Writes
<1>4. Active(o)' <=> ~link'[o].pending /\ link'[o] # NoLink
  BY DEF Active
<1>5. CASE Invite(c)
  <2>1. link[o].pending
    BY <1>1, <1>5 DEF Invite
  <2>2. CASE lcall[c].copy # NoLink
    <3>1. link'[o] = Saved(c, link[o])
      BY <1>2, <1>3, <1>5, <2>2 DEF Invite
    <3>2. Saved(c, link[o]).pending
      BY <1>1, <2>1, <2>2, WrittenRows
    <3> QED BY <1>4, <3>1, <3>2 DEF Broader
  <2>3. CASE lcall[c].copy = NoLink
    <3>1. link'[o] = [id |-> lastLink', pending |-> TRUE, permissions |-> lcall[c].permissions]
      BY <1>1, <1>3, <1>5, <2>3 DEF Invite
    <3> QED BY <1>4, <3>1 DEF Broader
  <2> QED BY <2>2, <2>3
<1>6. \A l \in Link : (lcall[c].copy = l => Saved(c, l).permissions = lcall[c].permissions
                                            /\ [Saved(c, l) EXCEPT !.pending = FALSE].permissions = lcall[c].permissions)
  BY DEF Saved, Link
<1>7. CASE Accept(c)
  <2>1. link[o] \in Link
    BY <1>1, <1>7 DEF Accept, LinksInv, CopiesAreRows
  <2>2. CASE OneActive(o)
    <3>1. link'[o] = [Saved(c, link[o]) EXCEPT !.pending = FALSE] /\ agreed' = [agreed EXCEPT ![o] = lcall[c].permissions]
      BY <1>2, <1>3, <1>7, <2>2 DEF Accept
    <3> QED BY <1>1, <1>6, <2>1, <3>1 DEF Broader
  <2>3. CASE ~OneActive(o)
    <3>1. link'[o] = link[o] /\ agreed' = agreed
      BY <1>3, <1>7, <2>3 DEF Accept
    <3> QED BY <3>1 DEF Broader, Active
  <2> QED BY <2>2, <2>3
<1>8. CASE SetConsent(c)
  <2>1. link[o] \in Link
    BY <1>1, <1>8 DEF SetConsent, LinksInv, CopiesAreRows
  <2>2. link'[o] = Saved(c, link[o]) /\ agreed' = [agreed EXCEPT ![o] = lcall[c].permissions]
    BY <1>2, <1>3, <1>8 DEF SetConsent
  <2> QED BY <1>1, <1>6, <2>1, <2>2 DEF Broader
<1>9. CASE DeleteLink(c)
  <2>1. link'[o] = NoLink
    BY <1>2, <1>3, <1>9 DEF DeleteLink
  <2> QED BY <1>4, <2>1 DEF Broader
<1> QED BY <1>5, <1>7, <1>8, <1>9

\* "A team may accept on narrower terms than were proposed, but never broader": what an
\* organization holds goes beyond what the team agreed to only when a call writes over a
\* link that changed since it read it (controllers/organization.ts).
THEOREM ConsentIsHeldTo == LinksSpec => ConsentIsRespected
<1> DEFINE Respected(o) ==
      ~Broader(o) /\ Broader(o)' =>
        \E c \in LinkCaller : lcall[c] # LinkIdle /\ lcall'[c] = LinkIdle /\ ~lcall[c].fresh
<1>1. LinksInv /\ FreshIsCurrent /\ [LinksNext]_linkVars => [\A o \in Org : Respected(o)]_linkVars
  <2> SUFFICES ASSUME LinksInv, FreshIsCurrent, LinksNext, NEW o \in Org, ~Broader(o), Broader(o)'
               PROVE  \E c \in LinkCaller : lcall[c] # LinkIdle /\ lcall'[c] = LinkIdle /\ ~lcall[c].fresh
    OBVIOUS
  <2>1. ~(link'[o] = link[o] /\ agreed'[o] = agreed[o])
    BY DEF Broader, Active
  <2>2. PICK c \in LinkCaller : Invite(c) \/ Accept(c) \/ SetConsent(c) \/ DeleteLink(c)
    BY <2>1 DEF LinksNext, ReadForDelete, ReadForInvite, ReadForAccept, ReadForConsent, ReadsLink
  <2>3. PICK kept : lcall[c] # LinkIdle /\ Writes(c, kept)
    BY <2>2, LinkWrites
  <2>4. lcall'[c] = LinkIdle
    BY <2>3 DEF Writes
  <2>5. o = lcall[c].org
    <3>1. lcall[c].org \in Org /\ link \in [Org -> Link \cup {NoLink}] /\ agreed \in [Org -> Consent]
      BY <2>3 DEF LinksInv, LinksTypeOK, LinkCall
    <3>2. o # lcall[c].org => link'[o] = link[o]
      BY <2>3, <3>1 DEF Writes
    <3>3. o # lcall[c].org => agreed'[o] = agreed[o]
      BY <2>2, <3>1 DEF Invite, Accept, SetConsent, DeleteLink
    <3> QED BY <2>1, <3>2, <3>3
  <2>6. ~lcall[c].fresh
    BY <2>2, <2>3, <2>5, FreshIsNotBroader
  <2> QED BY <2>3, <2>4, <2>6
<1> QED BY <1>1, LinksInvHolds, FreshIsCurrentHolds, PTL DEF LinksSpec, ConsentIsRespected

-----------------------------------------------------------------------------
(* Memberships: the inductive invariant                                      *)

MembershipsSpec == MembershipsInit /\ [][MembershipsNext]_membershipVars

MemberCall ==
  [op : {"idle", "remove", "demote", "cleanup", "transfer", "destroy"},
   group : Group \cup {NoTeam}, user : Account, todo : SUBSET Team,
   sole : BOOLEAN, others : BOOLEAN, fresh : BOOLEAN]
MemberRoles == [Group -> [Account -> {"none", "member", "admin"}]]
IntegrationOwner == [user : Account, team : Team \cup {NoTeam}]

\* The administrators, of any memberships R.
AdminsIn(R, g) == {u \in Account : R[g][u] = "admin"}

\* A team that the clean up of u has dealt with, or has nothing to do in.
SettledIn(R, O, t, u) ==
  /\ AdminsIn(R, t) # {u}
  /\ O.user = u /\ O.team = t => R[t][u] = "none" \/ AdminsIn(R, t) = {}

\* What a clean up knows of the memberships R and of the integration O, as long
\* as nobody else has changed them.
CleanupKnows(q, R, O) ==
  /\ \A t \in Team \ q.todo : SettledIn(R, O, t, q.user) \/ (q.op = "transfer" /\ t = q.group)
  /\ q.op = "transfer" =>
       /\ q.sole <=> AdminsIn(R, q.group) = {q.user}
       /\ q.others <=> AdminsIn(R, q.group) # {}
  /\ q.op = "destroy" => q.todo = {} /\ ~(O.user = q.user /\ O.team = NoTeam)

CallKnows(q, R, O) ==
  /\ q.op \in {"remove", "demote"} =>
       q.group \in Group /\ (q.fresh => AdminsIn(R, q.group) # {q.user})
  /\ q.op \in {"cleanup", "transfer", "destroy"} =>
       /\ q.user # Sso
       /\ q.op = "transfer" => q.group \in Team
       /\ q.fresh => CleanupKnows(q, R, O)

NoGhostMembers == \A g \in Group \ group : \A u \in Account : role[g][u] = "none"
CallsKnow == \A c \in Caller : CallKnows(mcall[c], role, owned)

MembershipsInv == MembershipsTypeOK /\ NoGhostMembers /\ CallsKnow

-----------------------------------------------------------------------------
(* What a write does to the calls that have read                             *)

(* The types of the state, in the names of this module. *)
LEMMA MemberTypes ==
  /\ MembershipsTypeOK <=> /\ group \subseteq Group /\ account \subseteq Account
                           /\ role \in MemberRoles /\ owned \in IntegrationOwner
                           /\ mcall \in [Caller -> MemberCall]
  /\ Idle \in MemberCall /\ Idle.op = "idle" /\ Sso \in Account
  BY MembershipsAssumption DEF MembershipsTypeOK, MemberRoles, IntegrationOwner, MemberCall, Idle

(* A call that nobody overtook still knows what it knew, whoever now owns    *)
(* the integration: a clean up only ever hands it to the SSO team.           *)
LEMMA KnowledgeLasts ==
  ASSUME NEW q \in MemberCall, NEW R \in MemberRoles, NEW N \in MemberRoles,
         NEW O \in IntegrationOwner, NEW P \in IntegrationOwner, P = O \/ P.user = Sso,
         CallKnows(q, R, O),
         NEW b \in BOOLEAN,
         b => q.fresh /\ \A g \in IF q.op \in {"remove", "demote"} THEN {q.group} ELSE Team : N[g] = R[g]
  PROVE  LET n == [q EXCEPT !.fresh = b] IN n \in MemberCall /\ CallKnows(n, N, P)
<1> PICK n : n = [q EXCEPT !.fresh = b]
  OBVIOUS
<1>1. /\ n \in MemberCall /\ n.op = q.op /\ n.group = q.group /\ n.user = q.user
      /\ n.todo = q.todo /\ n.sole = q.sole /\ n.others = q.others /\ n.fresh = b
  BY DEF MemberCall
<1>2. CASE q.op \in {"remove", "demote"}
  <2>1. b => AdminsIn(N, q.group) = AdminsIn(R, q.group)
    BY <1>2 DEF AdminsIn
  <2> QED BY <1>1, <1>2, <2>1 DEF CallKnows
<1>3. CASE q.op \in {"cleanup", "transfer", "destroy"}
  <2>1. q.user # Sso /\ (q.op = "transfer" => q.group \in Team)
    BY <1>3 DEF CallKnows
  <2>2. ASSUME b PROVE CleanupKnows(n, N, P)
    <3>1. \A t \in Team : N[t] = R[t] /\ AdminsIn(N, t) = AdminsIn(R, t)
      BY <1>3, <2>2 DEF AdminsIn
    <3>2. CleanupKnows(q, R, O)
      BY <1>3, <2>2 DEF CallKnows
    <3>3. \A t \in Team : SettledIn(R, O, t, q.user) => SettledIn(N, P, t, q.user)
      BY <2>1, <3>1 DEF SettledIn
    <3>4. \A t \in Team \ n.todo : SettledIn(N, P, t, n.user) \/ (n.op = "transfer" /\ t = n.group)
      BY <1>1, <3>2, <3>3 DEF CleanupKnows
    <3>5. n.op = "transfer" =>
            /\ n.sole <=> AdminsIn(N, n.group) = {n.user}
            /\ n.others <=> AdminsIn(N, n.group) # {}
      BY <1>1, <2>1, <3>1, <3>2 DEF CleanupKnows
    <3>6. n.op = "destroy" => n.todo = {} /\ ~(P.user = n.user /\ P.team = NoTeam)
      BY <1>1, <2>1, <3>2 DEF CleanupKnows
    <3> QED BY <3>4, <3>5, <3>6 DEF CleanupKnows
  <2> QED BY <1>1, <1>3, <2>1, <2>2 DEF CallKnows
<1>4. CASE q.op = "idle"
  BY <1>1, <1>4 DEF CallKnows
<1> QED BY <1>1, <1>2, <1>3, <1>4 DEF MemberCall

(* Every call, once the memberships are N. *)
LEMMA OvertakenKnow ==
  ASSUME MembershipsInv, NEW N \in MemberRoles, NEW P \in IntegrationOwner,
         P = owned \/ P.user = Sso
  PROVE  /\ Overtaken(N) \in [Caller -> MemberCall]
         /\ \A d \in Caller : CallKnows(Overtaken(N)[d], N, P)
<1>1. MembershipsTypeOK /\ role \in MemberRoles /\ owned \in IntegrationOwner /\ mcall \in [Caller -> MemberCall]
  BY MemberTypes DEF MembershipsInv
<1>2. ASSUME NEW d \in Caller
      PROVE  Overtaken(N)[d] \in MemberCall /\ CallKnows(Overtaken(N)[d], N, P)
  <2> PICK q \in MemberCall : q = mcall[d]
    BY <1>1
  <2> PICK b \in BOOLEAN : b = (q.fresh /\ (q # Idle => \A g \in Reads(d) : N[g] = role[g]))
    BY DEF MemberCall
  <2>1. Overtaken(N)[d] = [q EXCEPT !.fresh = b]
    BY DEF Overtaken
  <2>2. CallKnows(q, role, owned)
    BY DEF MembershipsInv, CallsKnow
  <2>3. CASE q.op = "idle"
    <3> PICK n : n = [q EXCEPT !.fresh = b]
      OBVIOUS
    <3>1. n \in MemberCall /\ n.op = "idle"
      BY <2>3 DEF MemberCall
    <3> QED BY <2>1, <3>1 DEF CallKnows
  <2>4. CASE q.op # "idle"
    <3>1. q # Idle
      BY <2>4, MemberTypes
    <3>2. b => q.fresh /\ \A g \in IF q.op \in {"remove", "demote"} THEN {q.group} ELSE Team : N[g] = role[g]
      BY <3>1 DEF Reads
    <3>3. [q EXCEPT !.fresh = b] \in MemberCall /\ CallKnows([q EXCEPT !.fresh = b], N, P)
      <4> HIDE DEF MemberCall, CallKnows, Reads
      <4>1. role \in MemberRoles /\ owned \in IntegrationOwner
        BY <1>1
      <4> QED BY ONLY <2>2, <3>2, <4>1, KnowledgeLasts, q \in MemberCall, b \in BOOLEAN,
              N \in MemberRoles, P \in IntegrationOwner, P = owned \/ P.user = Sso
    <3> QED BY <2>1, <3>3
  <2> QED BY <2>3, <2>4
<1>3. Overtaken(N) = [d \in Caller |-> Overtaken(N)[d]]
  BY DEF Overtaken
<1> QED BY <1>2, <1>3

-----------------------------------------------------------------------------
(* The shapes a step has                                                     *)

(* The state but for its calls. *)
MembersKept ==
  /\ group' \subseteq Group /\ account' \subseteq Account
  /\ role' \in MemberRoles
  /\ owned' \in IntegrationOwner /\ (owned' = owned \/ owned'.user = Sso)
  /\ NoGhostMembers'

(* A transaction that is no call's. *)
LEMMA OwnTransactionKeeps ==
  ASSUME MembershipsInv, MembersKept, mcall' = Overtaken(role')
  PROVE  MembershipsInv'
<1>1. mcall' \in [Caller -> MemberCall] /\ \A d \in Caller : CallKnows(mcall'[d], role', owned')
  BY OvertakenKnow DEF MembersKept
<1>2. MembershipsTypeOK'
  BY <1>1, MemberTypes DEF MembersKept, MembershipsTypeOK, MemberRoles, IntegrationOwner, MemberCall
<1>3. CallsKnow'
  BY <1>1 DEF CallsKnow, CallKnows, CleanupKnows, SettledIn, AdminsIn
<1> QED BY <1>2, <1>3 DEF MembershipsInv, MembersKept

(* A transaction of the call c, which goes on as q. *)
LEMMA TransactionKeeps ==
  ASSUME MembershipsInv, MembersKept, NEW c \in Caller, NEW q \in MemberCall,
         mcall' = [Overtaken(role') EXCEPT ![c] = q], CallKnows(q, role', owned')
  PROVE  MembershipsInv'
<1>1. Overtaken(role') \in [Caller -> MemberCall] /\ \A d \in Caller : CallKnows(Overtaken(role')[d], role', owned')
  BY OvertakenKnow DEF MembersKept
<1>2. mcall' \in [Caller -> MemberCall] /\ \A d \in Caller : CallKnows(mcall'[d], role', owned')
  BY <1>1
<1>3. MembershipsTypeOK'
  BY <1>2, MemberTypes DEF MembersKept, MembershipsTypeOK, MemberRoles, IntegrationOwner, MemberCall
<1>4. CallsKnow'
  BY <1>2 DEF CallsKnow, CallKnows, CleanupKnows, SettledIn, AdminsIn
<1> QED BY <1>3, <1>4 DEF MembershipsInv, MembersKept

(* A read of the call c, which goes on as q. *)
LEMMA MemberReadKeeps ==
  ASSUME MembershipsInv, UNCHANGED <<group, role, account>>,
         owned' \in IntegrationOwner, owned' = owned \/ owned'.user = Sso,
         NEW c \in Caller, NEW q \in MemberCall,
         mcall' = [mcall EXCEPT ![c] = q], CallKnows(q, role, owned')
  PROVE  MembershipsInv'
<1>1. MembershipsTypeOK /\ role \in MemberRoles /\ owned \in IntegrationOwner /\ mcall \in [Caller -> MemberCall]
  BY MemberTypes DEF MembershipsInv
<1>2. ASSUME NEW d \in Caller PROVE CallKnows(mcall[d], role, owned')
  <2> PICK p \in MemberCall : p = mcall[d]
    BY <1>1
  <2> PICK n : n = [p EXCEPT !.fresh = p.fresh]
    OBVIOUS
  <2>1. CallKnows(p, role, owned) /\ p.fresh \in BOOLEAN
    BY DEF MembershipsInv, CallsKnow, MemberCall
  <2>2. CallKnows(n, role, owned')
    BY <1>1, <2>1, KnowledgeLasts
  <2>3. n = p
    BY DEF MemberCall
  <2> QED BY <2>2, <2>3
<1>3. mcall' \in [Caller -> MemberCall] /\ \A d \in Caller : CallKnows(mcall'[d], role, owned')
  BY <1>1, <1>2
<1>4. MembershipsTypeOK'
  BY <1>1, <1>3, MemberTypes DEF MembershipsTypeOK, MemberRoles, IntegrationOwner, MemberCall
<1>5. CallsKnow'
  BY <1>3 DEF CallsKnow, CallKnows, CleanupKnows, SettledIn, AdminsIn
<1> QED BY <1>4, <1>5 DEF MembershipsInv, NoGhostMembers

-----------------------------------------------------------------------------
(* The actions                                                               *)

(* What the invariant says of the state, in one place. *)
LEMMA MemberFacts ==
  ASSUME MembershipsInv
  PROVE  /\ MembershipsTypeOK /\ NoGhostMembers /\ CallsKnow
         /\ group \subseteq Group /\ account \subseteq Account
         /\ role \in MemberRoles /\ owned \in IntegrationOwner
         /\ mcall \in [Caller -> MemberCall]
         /\ \A c \in Caller : CallKnows(mcall[c], role, owned)
  BY MemberTypes DEF MembershipsInv, CallsKnow

(* One membership of an existing group, or one that is dropped, changes. *)
LEMMA OneRoleKept ==
  ASSUME MembershipsInv, NEW g \in Group, NEW u \in Account,
         NEW r \in {"none", "member", "admin"}, g \in group \/ r = "none",
         role' = [role EXCEPT ![g][u] = r], UNCHANGED <<group, account>>,
         owned' \in IntegrationOwner, owned' = owned \/ owned'.user = Sso
  PROVE  MembersKept
<1>1. role' \in MemberRoles
  BY MemberFacts DEF MemberRoles
<1>2. NoGhostMembers'
  BY MemberFacts DEF NoGhostMembers, MemberRoles
<1> QED BY <1>1, <1>2, MemberFacts DEF MembersKept

\* An idle caller holds no copy that could be wrong.
LEMMA IdleKnows ==
  ASSUME NEW R, NEW O
  PROVE  CallKnows(Idle, R, O)
  BY DEF CallKnows, Idle

\* Adding a member, ...
LEMMA AddMemberKeeps ==
  ASSUME MembershipsInv, NEW g \in Group, NEW u \in Account,
         NEW r \in {"member", "admin"}, AddMember(g, u, r)
  PROVE  MembershipsInv'
<1>1. MembersKept
  BY OneRoleKept, MemberFacts DEF AddMember, Commits, MayManage
<1> QED BY <1>1, OwnTransactionKeeps DEF AddMember, Commits

\* ... promoting one, ...
LEMMA PromoteKeeps ==
  ASSUME MembershipsInv, NEW g \in Group, NEW u \in Account, Promote(g, u)
  PROVE  MembershipsInv'
<1>1. MembersKept
  BY OneRoleKept, MemberFacts DEF Promote, Commits, MayManage
<1> QED BY <1>1, OwnTransactionKeeps DEF Promote, Commits

\* ... counting the administrators before one goes, ...
LEMMA AskToLeaveKeeps ==
  ASSUME MembershipsInv, NEW c \in Caller, NEW g \in Group, NEW u \in Account,
         NEW op \in {"remove", "demote"}, AskToLeave(c, g, u, op)
  PROVE  MembershipsInv'
<1> PICK q : q = [Idle EXCEPT !.op = op, !.group = g, !.user = u]
  OBVIOUS
<1>1. q \in MemberCall /\ q.op = op /\ q.group = g /\ q.user = u
  BY MemberTypes DEF Idle, MemberCall
<1>2. CallKnows(q, role, owned')
  BY <1>1 DEF CallKnows, AskToLeave, CanRemove, SoleAdmin, Admins, AdminsIn
<1> QED BY <1>1, <1>2, MemberReadKeeps, MemberFacts DEF AskToLeave

\* ... removing, ...
LEMMA RemoveMemberKeeps ==
  ASSUME MembershipsInv, NEW c \in Caller, RemoveMember(c)
  PROVE  MembershipsInv'
<1> PICK g \in Group, u \in Account : g = mcall[c].group /\ u = mcall[c].user
  BY MemberFacts DEF RemoveMember, CallKnows, MemberCall
<1>1. role' = [role EXCEPT ![g][u] = "none"] /\ mcall' = [Overtaken(role') EXCEPT ![c] = Idle]
  BY DEF RemoveMember, Commit
<1>2. MembersKept
  BY <1>1, OneRoleKept, MemberFacts DEF RemoveMember
<1> QED BY <1>1, <1>2, TransactionKeeps, IdleKnows, MemberTypes

\* ... or demoting one keeps the invariant; ...
LEMMA DemoteMemberKeeps ==
  ASSUME MembershipsInv, NEW c \in Caller, DemoteMember(c)
  PROVE  MembershipsInv'
<1> PICK g \in Group, u \in Account : g = mcall[c].group /\ u = mcall[c].user
  BY MemberFacts DEF DemoteMember, CallKnows, MemberCall
<1> PICK r : r = (IF role[g][u] = "none" THEN role[g][u] ELSE "member")
  OBVIOUS
<1>1. /\ role' = [role EXCEPT ![g][u] = r] /\ mcall' = [Overtaken(role') EXCEPT ![c] = Idle]
      /\ r \in {"none", "member", "admin"}
      /\ g \in group \/ r = "none"
  BY MemberFacts DEF DemoteMember, Commit, NoGhostMembers
<1>2. MembersKept
  BY <1>1, OneRoleKept, MemberFacts DEF DemoteMember
<1> QED BY <1>1, <1>2, TransactionKeeps, IdleKnows, MemberTypes

\* ... so do the creation ...
LEMMA CreateGroupKeeps ==
  ASSUME MembershipsInv, NEW g \in Group, CreateGroup(g)
  PROVE  MembershipsInv'
<1>1. /\ group' = group \cup {g} /\ role' = [role EXCEPT ![g][Creator] = "admin"]
      /\ mcall' = Overtaken(role') /\ UNCHANGED <<account, owned>>
  BY DEF CreateGroup, Commits
<1>2. role' \in MemberRoles
  BY <1>1, MemberFacts DEF MemberRoles
<1>3. NoGhostMembers'
  BY <1>1, MemberFacts DEF NoGhostMembers, MemberRoles
<1>4. MembersKept
  BY <1>1, <1>2, <1>3, MemberFacts DEF MembersKept
<1> QED BY <1>1, <1>4, OwnTransactionKeeps

\* ... and the deletion of a group.
LEMMA DeleteGroupKeeps ==
  ASSUME MembershipsInv, NEW g \in Group, DeleteGroup(g)
  PROVE  MembershipsInv'
<1>1. /\ group' = group \ {g} /\ role' = [role EXCEPT ![g] = [u \in Account |-> "none"]]
      /\ mcall' = Overtaken(role') /\ UNCHANGED <<account, owned>>
  BY DEF DeleteGroup, Commits
<1>2. role' \in MemberRoles
  BY <1>1, MemberFacts DEF MemberRoles
<1>3. NoGhostMembers'
  BY <1>1, MemberFacts DEF NoGhostMembers, MemberRoles
<1>4. MembersKept
  BY <1>1, <1>2, <1>3, MemberFacts DEF MembersKept
<1> QED BY <1>1, <1>4, OwnTransactionKeeps

(* Whoever holds the integration, a clean up that has begun is overtaken. *)
LEMMA MoveIntegrationKeeps ==
  ASSUME MembershipsInv, MoveIntegration
  PROVE  MembershipsInv'
<1>1. owned' \in IntegrationOwner
  BY MemberFacts DEF MoveIntegration, IntegrationOwner
<1>2. ASSUME NEW d \in Caller
      PROVE  mcall'[d] \in MemberCall /\ CallKnows(mcall'[d], role', owned')
  <2> PICK q \in MemberCall : q = mcall[d]
    BY MemberFacts
  <2> PICK b \in BOOLEAN : b = (q.fresh /\ q.op \in {"idle", "remove", "demote"})
    BY DEF MemberCall
  <2> PICK n : n = [q EXCEPT !.fresh = b]
    OBVIOUS
  <2>1. mcall'[d] = n
    BY MemberFacts DEF MoveIntegration
  <2>2. /\ n \in MemberCall /\ n.op = q.op /\ n.group = q.group /\ n.user = q.user /\ n.fresh = b
    BY DEF MemberCall
  <2>3. CallKnows(q, role, owned)
    BY MemberFacts
  <2>4. role' = role
    BY DEF MoveIntegration
  <2> QED BY <2>1, <2>2, <2>3, <2>4 DEF CallKnows
<1>3. mcall' \in [Caller -> MemberCall]
  BY <1>2 DEF MoveIntegration
<1>4. MembershipsTypeOK'
  BY <1>1, <1>3, MemberFacts DEF MoveIntegration, MembershipsTypeOK, MemberRoles, IntegrationOwner, MemberCall
<1>5. CallsKnow'
  BY <1>2 DEF CallsKnow, CallKnows, CleanupKnows, SettledIn, AdminsIn
<1>6. NoGhostMembers'
  BY MemberFacts DEF MoveIntegration, NoGhostMembers
<1> QED BY <1>4, <1>5, <1>6 DEF MembershipsInv

(* A row that is deleted takes its memberships along. *)
LEMMA WithoutKept ==
  ASSUME MembershipsInv, NEW u \in Account, role' = Without(u),
         account' = account \ {u}, UNCHANGED <<group, owned>>
  PROVE  MembersKept
<1>1. role' \in MemberRoles
  BY MemberFacts DEF Without, MemberRoles
<1>2. NoGhostMembers'
  BY MemberFacts DEF NoGhostMembers, MemberRoles, Without
<1> QED BY <1>1, <1>2, MemberFacts DEF MembersKept

\* The merge of a duplicate account keeps the invariant.
LEMMA MergeDuplicateKeeps ==
  ASSUME MembershipsInv, NEW u \in Account, MergeDuplicate(u)
  PROVE  MembershipsInv'
<1>1. MembersKept /\ mcall' = Overtaken(role')
  BY WithoutKept DEF MergeDuplicate, Commits
<1> QED BY <1>1, OwnTransactionKeeps

\* The clean-up of a stale account keeps it: its start, ...
LEMMA StartCleanupKeeps ==
  ASSUME MembershipsInv, NEW c \in Caller, NEW u \in Account, StartCleanup(c, u)
  PROVE  MembershipsInv'
<1> PICK q : q = [Idle EXCEPT !.op = "cleanup", !.user = u, !.todo = {t \in Team : role[t][u] # "none"}]
  OBVIOUS
<1>1. /\ q \in MemberCall /\ q.op = "cleanup" /\ q.user = u /\ q.todo = {t \in Team : role[t][u] # "none"}
  BY MemberTypes DEF Idle, MemberCall
<1>2. \A t \in Team \ q.todo : SettledIn(role, owned, t, u)
  BY <1>1 DEF SettledIn, AdminsIn
<1>3. CallKnows(q, role, owned)
  BY <1>1, <1>2 DEF CallKnows, CleanupKnows, StartCleanup
<1> QED BY <1>1, <1>3, MemberReadKeeps, MemberFacts DEF StartCleanup

\* ... the count of the administrators of each group, ...
LEMMA ReadAdminsKeeps ==
  ASSUME MembershipsInv, NEW c \in Caller, ReadAdmins(c)
  PROVE  MembershipsInv'
<1> DEFINE Read(t) == [mcall[c] EXCEPT !.op = "transfer", !.group = t, !.todo = mcall[c].todo \ {t},
                         !.sole = SoleAdmin(t, mcall[c].user), !.others = Admins(t) # {}]
<1> PICK t \in mcall[c].todo : mcall' = [mcall EXCEPT ![c] = Read(t)]
  BY DEF ReadAdmins
<1> PICK p \in MemberCall : p = mcall[c]
  BY MemberFacts
<1> PICK sole \in BOOLEAN : sole = SoleAdmin(t, p.user)
  BY DEF SoleAdmin
<1> PICK others \in BOOLEAN : others = (Admins(t) # {})
  OBVIOUS
<1> PICK q : q = Read(t)
  OBVIOUS
<1>4. mcall' = [mcall EXCEPT ![c] = q]
  OBVIOUS
<1>6. q = [p EXCEPT !.op = "transfer", !.group = t, !.todo = p.todo \ {t}, !.sole = sole, !.others = others]
  OBVIOUS
<1> HIDE DEF Read
<1>1. /\ t \in Team /\ p.op = "cleanup"
      /\ CallKnows(p, role, owned)
  BY MemberFacts DEF MemberCall, ReadAdmins
<1>2. /\ q \in MemberCall /\ q.op = "transfer" /\ q.group = t /\ q.user = p.user /\ q.fresh = p.fresh
      /\ q.todo = p.todo \ {t} /\ q.sole = sole /\ q.others = others
  <2>1. t \in Group \cup {NoTeam} /\ p.todo \ {t} \in SUBSET Team
    BY <1>1 DEF MemberCall, Group
  <2> QED BY ONLY <1>6, <2>1, p \in MemberCall, sole \in BOOLEAN, others \in BOOLEAN DEF MemberCall
<1>5. /\ sole <=> AdminsIn(role, t) = {p.user}
      /\ others <=> AdminsIn(role, t) # {}
  BY DEF SoleAdmin, Admins, AdminsIn
<1>3. CallKnows(q, role, owned)
  BY <1>1, <1>2, <1>5 DEF CallKnows, CleanupKnows
<1> QED BY <1>2, <1>3, <1>4, MemberReadKeeps, MemberFacts DEF ReadAdmins

\* ... the transfer of what the account owns, ...
LEMMA TransferOwnKeeps ==
  ASSUME MembershipsInv, NEW c \in Caller, TransferOwn(c)
  PROVE  MembershipsInv'
<1> PICK p \in MemberCall : p = mcall[c]
  BY MemberFacts
<1> PICK q : q = [p EXCEPT !.op = "destroy"]
  OBVIOUS
<1>1. /\ q \in MemberCall /\ q.op = "destroy" /\ q.user = p.user /\ q.fresh = p.fresh /\ q.todo = p.todo
      /\ p.op = "cleanup" /\ p.todo = {} /\ CallKnows(p, role, owned)
  BY MemberFacts DEF MemberCall, TransferOwn
<1>2. mcall' = [mcall EXCEPT ![c] = q] /\ UNCHANGED <<group, role, account>>
  BY MemberFacts DEF TransferOwn
<1>3. /\ owned' \in IntegrationOwner
      /\ owned' = owned \/ owned'.user = Sso
      /\ p.user # Sso
      /\ ~(owned'.user = p.user /\ owned'.team = NoTeam)
  <2>1. p.user # Sso
    BY <1>1 DEF CallKnows
  <2>2. CASE owned.user = p.user /\ owned.team = NoTeam
    <3>1. owned = [user |-> p.user, team |-> NoTeam]
      BY <2>2, MemberFacts DEF IntegrationOwner
    <3> QED BY <2>1, <3>1, MemberFacts, MemberTypes DEF TransferOwn, IntegrationOwner
  <2>3. CASE ~(owned.user = p.user /\ owned.team = NoTeam)
    BY <2>1, <2>3, MemberFacts DEF TransferOwn
  <2> QED BY <2>2, <2>3
<1>4. \A t \in Team : SettledIn(role, owned, t, p.user) => SettledIn(role, owned', t, p.user)
  BY <1>3 DEF SettledIn
<1>5. ASSUME q.fresh PROVE CleanupKnows(q, role, owned')
  <2>1. \A t \in Team : SettledIn(role, owned, t, p.user)
    BY <1>1, <1>5 DEF CallKnows, CleanupKnows
  <2> QED BY <1>1, <1>3, <1>4, <2>1 DEF CleanupKnows
<1>6. CallKnows(q, role, owned')
  BY <1>1, <1>3, <1>5 DEF CallKnows
<1> QED BY <1>1, <1>2, <1>3, <1>6, MemberReadKeeps

\* ... and the removal of the record.
LEMMA DestroyStaleKeeps ==
  ASSUME MembershipsInv, NEW c \in Caller, DestroyStale(c)
  PROVE  MembershipsInv'
<1>1. mcall[c].user \in Account
  BY MemberFacts DEF MemberCall
<1>2. CASE owned.user = mcall[c].user
  BY <1>2, MemberFacts, TransactionKeeps, IdleKnows, MemberTypes DEF DestroyStale, Commit, MembersKept, NoGhostMembers
<1>3. CASE owned.user # mcall[c].user
  <2>1. MembersKept
    BY <1>1, <1>3, WithoutKept DEF DestroyStale, Commit
  <2> QED BY <1>3, <2>1, TransactionKeeps, IdleKnows, MemberTypes DEF DestroyStale, Commit
<1> QED BY <1>2, <1>3

(* The SSO team replaces the only administrator, and takes what the user     *)
(* owned: the team is dealt with.                                            *)
LEMMA TransferKeeps ==
  ASSUME MembershipsInv, NEW c \in Caller, Transfer(c)
  PROVE  MembershipsInv'
<1> PICK p \in MemberCall : p = mcall[c]
  BY MemberFacts
<1> PICK t \in Team : t = p.group
  BY MemberFacts DEF Transfer, CallKnows
<1> PICK q : q = [p EXCEPT !.op = "cleanup", !.group = NoTeam]
  OBVIOUS
<1>1. /\ q \in MemberCall /\ q.op = "cleanup" /\ q.user = p.user /\ q.fresh = p.fresh /\ q.todo = p.todo
      /\ p.op = "transfer" /\ p.user # Sso /\ CallKnows(p, role, owned) /\ t \in Group
  BY MemberFacts DEF MemberCall, Transfer, CallKnows, Group
<1>2. CASE p.sole /\ (role[t][Sso] # "none" \/ t \notin group)
  <2>1. Commit(c, role) /\ owned' = owned /\ UNCHANGED <<group, account>>
    BY <1>2 DEF Transfer
  <2>2. MembersKept
    BY <2>1, MemberFacts DEF MembersKept, Commit, NoGhostMembers
  <2> QED BY <2>1, <2>2, TransactionKeeps, IdleKnows, MemberTypes DEF Commit
<1>3. CASE ~(p.sole /\ (role[t][Sso] # "none" \/ t \notin group))
  <2>1. /\ role' = IF p.sole THEN [role EXCEPT ![t][Sso] = "admin"] ELSE role
        /\ owned' = IF TakenOver(c) THEN [owned EXCEPT !.user = Sso] ELSE owned
        /\ mcall' = [Overtaken(role') EXCEPT ![c] = q]
        /\ UNCHANGED <<group, account>>
    BY <1>3 DEF Transfer
  <2>2. /\ owned' \in IntegrationOwner
        /\ TakenOver(c) => owned'.user = Sso
        /\ ~TakenOver(c) => owned' = owned
    BY <2>1, MemberFacts, MemberTypes DEF IntegrationOwner
  <2>3. MembersKept
    <3>1. CASE p.sole
      BY <1>1, <1>3, <2>1, <2>2, <3>1, OneRoleKept, MemberTypes
    <3>2. CASE ~p.sole
      BY <2>1, <2>2, <3>2, MemberFacts DEF MembersKept, NoGhostMembers
    <3> QED BY <3>1, <3>2
  <2>4. ASSUME q.fresh PROVE CleanupKnows(q, role', owned')
    <3>1. CleanupKnows(p, role, owned)
      BY <1>1, <2>4 DEF CallKnows
    <3>2. /\ p.sole <=> AdminsIn(role, t) = {p.user}
          /\ p.others <=> AdminsIn(role, t) # {}
      BY <1>1, <3>1 DEF CleanupKnows
    <3>3. ASSUME NEW s \in Team \ q.todo, s # t PROVE SettledIn(role', owned', s, p.user)
      <4>1. SettledIn(role, owned, s, p.user)
        BY <1>1, <3>1, <3>3 DEF CleanupKnows
      <4>2. role'[s] = role[s]
        BY <2>1, <3>3, MemberFacts DEF MemberRoles
      <4> QED BY <1>1, <2>2, <4>1, <4>2 DEF SettledIn, AdminsIn
    <3>4. SettledIn(role', owned', t, p.user)
      <4>1. CASE p.sole
        <5>1. Sso \in AdminsIn(role', t)
          BY <1>1, <2>1, <4>1, MemberFacts, MemberTypes DEF AdminsIn, MemberRoles
        <5>2. owned'.team = t => TakenOver(c) \/ owned'.user = Sso
          BY <2>1, <4>1, MemberFacts DEF TakenOver, IntegrationOwner
        <5> QED BY <1>1, <2>2, <5>1, <5>2 DEF SettledIn
      <4>2. CASE ~p.sole
        <5>1. role' = role /\ AdminsIn(role, t) # {p.user}
          BY <2>1, <3>2, <4>2
        <5>2. owned'.user = p.user /\ owned'.team = t => AdminsIn(role, t) = {}
          BY <1>1, <2>2, <3>2 DEF TakenOver
        <5> QED BY <5>1, <5>2 DEF SettledIn
      <4> QED BY <4>1, <4>2
    <3> QED BY <1>1, <3>3, <3>4 DEF CleanupKnows
  <2>5. CallKnows(q, role', owned')
    BY <1>1, <2>4 DEF CallKnows
  <2> QED BY <1>1, <2>1, <2>3, <2>5, TransactionKeeps
<1> QED BY <1>2, <1>3

-----------------------------------------------------------------------------
(* The theorems about memberships                                            *)

LEMMA MembershipsInitHolds ==
  ASSUME MembershipsInit
  PROVE  MembershipsInv
<1>1. role \in MemberRoles /\ NoGhostMembers
  BY DEF MembershipsInit, MemberRoles, NoGhostMembers
<1>2. group \subseteq Group /\ account \subseteq Account /\ owned \in IntegrationOwner
  BY MembershipsAssumption DEF MembershipsInit, IntegrationOwner
<1>3. mcall \in [Caller -> MemberCall]
  BY MemberTypes DEF MembershipsInit
<1>4. CallsKnow
  BY IdleKnows DEF MembershipsInit, CallsKnow
<1> QED BY <1>1, <1>2, <1>3, <1>4, MemberTypes DEF MembershipsInv

\* Every step keeps the invariant.
LEMMA MembershipsStepKeeps ==
  ASSUME MembershipsInv, [MembershipsNext]_membershipVars
  PROVE  MembershipsInv'
<1>1. CASE UNCHANGED membershipVars
  BY <1>1, MemberFacts DEF membershipVars, MembershipsInv, MembershipsTypeOK, NoGhostMembers, CallsKnow,
     CallKnows, CleanupKnows, SettledIn, AdminsIn
<1>2. CASE MembershipsNext
  BY <1>2, CreateGroupKeeps, DeleteGroupKeeps, PromoteKeeps, AddMemberKeeps, AskToLeaveKeeps,
     MoveIntegrationKeeps, MergeDuplicateKeeps, RemoveMemberKeeps, DemoteMemberKeeps,
     StartCleanupKeeps, ReadAdminsKeeps, TransferKeeps, TransferOwnKeeps, DestroyStaleKeeps
     DEF MembershipsNext
<1> QED BY <1>1, <1>2

(* The rows and the calls keep their types, nobody is a member of a group    *)
(* that does not exist, and a call whose groups nobody else has changed      *)
(* since it read them still knows them: a removal, that another              *)
(* administrator remains; a clean up, that the teams it has dealt with have  *)
(* another administrator and nothing of the user's.                          *)
THEOREM MembershipsInvariant == MembershipsSpec => []MembershipsInv
<1>1. MembershipsInit => MembershipsInv
  BY MembershipsInitHolds
<1>2. MembershipsInv /\ [MembershipsNext]_membershipVars => MembershipsInv'
  BY MembershipsStepKeeps
<1> QED BY <1>1, <1>2, PTL DEF MembershipsSpec

-----------------------------------------------------------------------------
(* The last administrator                                                    *)

(* The three ways a group may lose its last administrator. *)
GuardedLoss ==
  \A g \in group \cap group' : Admins(g) # {} /\ Admins(g)' = {} =>
    \/ \E c \in Ending : ~mcall[c].fresh
    \/ \E u \in Admins(g) \ account' : u \in Unclaimed \/ g \in Organization

(* A step that takes no administrator away. *)
LEMMA NoAdminLost ==
  ASSUME \A g \in group \cap group' : \A u \in Account : role[g][u] = "admin" => role'[g][u] = "admin"
  PROVE  GuardedLoss
  BY DEF GuardedLoss, Admins

(* A step that takes the user u out of the administrators of the group h. *)
LEMMA OneAdminLost ==
  ASSUME NEW h \in Group, NEW u \in Account,
         \A g \in group \cap group' : \A v \in Account :
           role[g][v] = "admin" /\ ~(g = h /\ v = u) => role'[g][v] = "admin",
         NEW c \in Caller, c \in Ending,
         mcall[c].fresh => AdminsIn(role, h) # {u}
  PROVE  GuardedLoss
<1> SUFFICES ASSUME NEW g \in group \cap group', Admins(g) # {}, Admins(g)' = {}
             PROVE  ~mcall[c].fresh
  BY DEF GuardedLoss
<1>1. \A v \in Account : role[g][v] = "admin" => g = h /\ v = u
  BY DEF Admins
<1>2. AdminsIn(role, h) = {u}
  BY <1>1 DEF Admins, AdminsIn
<1> QED BY <1>2

\* Who leaves or is demoted is not the last administrator that was counted, ...
LEMMA LeavingIsGuarded ==
  ASSUME MembershipsInv, NEW c \in Caller, RemoveMember(c) \/ DemoteMember(c)
  PROVE  GuardedLoss
<1> PICK g \in Group, u \in Account : g = mcall[c].group /\ u = mcall[c].user
  BY MemberFacts DEF RemoveMember, DemoteMember, CallKnows, MemberCall
<1>1. c \in Ending
  <2>1. mcall[c] # Idle
    BY MemberTypes DEF RemoveMember, DemoteMember
  <2>2. Overtaken(role') \in [Caller -> MemberCall]
    <3>1. MembersKept
      <4>1. PICK r \in {"none", "member", "admin"} :
              /\ role' = [role EXCEPT ![g][u] = r]
              /\ g \in group \/ r = "none"
        BY MemberFacts DEF RemoveMember, DemoteMember, Commit, NoGhostMembers
      <4> QED BY <4>1, OneRoleKept, MemberFacts DEF RemoveMember, DemoteMember
    <3> QED BY <3>1, OvertakenKnow DEF MembersKept
  <2>3. mcall'[c] = Idle
    BY <2>2 DEF RemoveMember, DemoteMember, Commit, Overtaken
  <2> QED BY <2>1, <2>3 DEF Ending
<1>2. \A h \in group : \A v \in Account : role[h][v] = "admin" /\ ~(h = g /\ v = u) => role'[h][v] = "admin"
  BY MemberFacts DEF RemoveMember, DemoteMember, Commit, MemberRoles
<1>3. mcall[c].fresh => AdminsIn(role, g) # {u}
  BY MemberFacts DEF RemoveMember, DemoteMember, CallKnows
<1> QED BY <1>1, <1>2, <1>3, OneAdminLost

\* ... nor is who is cleaned up, unless others took over, ...
LEMMA DestroyIsGuarded ==
  ASSUME MembershipsInv, NEW c \in Caller, DestroyStale(c)
  PROVE  GuardedLoss
<1> PICK u \in Account : u = mcall[c].user
  BY MemberFacts DEF MemberCall
<1>1. CASE owned.user = u
  BY <1>1, NoAdminLost DEF DestroyStale, Commit
<1>2. CASE owned.user # u
  <2>1. role' = Without(u) /\ account' = account \ {u} /\ mcall' = [Overtaken(role') EXCEPT ![c] = Idle]
    BY <1>2 DEF DestroyStale, Commit
  <2>2. c \in Ending
    BY <2>1, MemberTypes DEF Ending, DestroyStale, Overtaken
  <2> SUFFICES ASSUME NEW g \in group \cap group', Admins(g) # {}, Admins(g)' = {},
                      g \notin Organization, mcall[c].fresh
               PROVE  FALSE
    <3>1. ASSUME NEW g \in group \cap group', Admins(g) # {}, Admins(g)' = {}, g \in Organization
          PROVE  u \in Admins(g) \ account'
      BY <2>1, <3>1, MemberFacts DEF Admins, Without, MemberRoles
    <3> QED BY <2>2, <3>1 DEF GuardedLoss
  <2>3. g \in Team /\ g \in Group
    BY MemberFacts DEF Group
  <2>4. \A v \in Account : role[g][v] = "admin" => v = u
    BY <2>1, <2>3, MemberFacts DEF Admins, Without, MemberRoles
  <2>5. AdminsIn(role, g) = {u}
    BY <2>4 DEF Admins, AdminsIn
  <2>6. SettledIn(role, owned, g, u)
    BY <2>3, MemberFacts DEF DestroyStale, CallKnows, CleanupKnows
  <2> QED BY <2>5, <2>6 DEF SettledIn
<1> QED BY <1>1, <1>2

\* ... and a merge hands the role on.
LEMMA MergeIsGuarded ==
  ASSUME MembershipsInv, NEW u \in Account, MergeDuplicate(u)
  PROVE  GuardedLoss
<1> SUFFICES ASSUME NEW g \in group \cap group', Admins(g) # {}, Admins(g)' = {}
             PROVE  u \in Admins(g) \ account' /\ u \in Unclaimed
  BY DEF GuardedLoss
<1>1. role' = Without(u) /\ account' = account \ {u} /\ u \in Unclaimed /\ g \in Group
  BY MemberFacts DEF MergeDuplicate, Commits
<1>2. u \in Admins(g)
  BY <1>1, MemberFacts DEF Admins, Without, MemberRoles
<1> QED BY <1>1, <1>2

(* The steps that only add administrators, or leave the memberships alone. *)
LEMMA GrowingIsGuarded ==
  ASSUME MembershipsInv,
         \/ UNCHANGED role
         \/ \E g \in Group, u \in Account :
              \/ Promote(g, u)
              \/ \E r \in {"member", "admin"} : AddMember(g, u, r)
         \/ \E g \in Group : CreateGroup(g) \/ DeleteGroup(g)
         \/ \E c \in Caller : Transfer(c)
  PROVE  GuardedLoss
<1>1. CASE UNCHANGED role
  BY <1>1, NoAdminLost
<1>2. ASSUME NEW g \in Group, NEW u \in Account,
             Promote(g, u) \/ \E r \in {"member", "admin"} : AddMember(g, u, r)
      PROVE  GuardedLoss
  BY <1>2, NoAdminLost, MemberFacts DEF Promote, AddMember, Commits, MemberRoles
<1>3. ASSUME NEW g \in Group, CreateGroup(g) \/ DeleteGroup(g)
      PROVE  GuardedLoss
  BY <1>3, NoAdminLost, MemberFacts DEF CreateGroup, DeleteGroup, Commits, MemberRoles
<1>4. ASSUME NEW c \in Caller, Transfer(c)
      PROVE  GuardedLoss
  <2>1. role' = role \/ role' = [role EXCEPT ![mcall[c].group][Sso] = "admin"]
    BY <1>4 DEF Transfer, Commit
  <2>2. \A t : role' = [role EXCEPT ![t][Sso] = "admin"] =>
          \A g \in group, u \in Account : role[g][u] = "admin" => role'[g][u] = "admin"
    BY MemberFacts DEF MemberRoles
  <2> QED BY <2>1, <2>2, NoAdminLost
<1> QED BY <1>1, <1>2, <1>3, <1>4

(* canRemoveUser, assertNotLastAdmin, destroyUser: for any users, teams,     *)
(* organizations and concurrent calls, a group that has an administrator     *)
(* loses the last one only to a call that writes although the group changed  *)
(* after it had counted, to the merge of a duplicate, or to the clean up of  *)
(* a stale user who administers an organization.                             *)
THEOREM LastAdminStays == MembershipsSpec => LastAdminIsGuarded
<1>1. MembershipsInv /\ [MembershipsNext]_membershipVars => GuardedLoss
  <2> SUFFICES ASSUME MembershipsInv, [MembershipsNext]_membershipVars PROVE GuardedLoss
    OBVIOUS
  <2>1. CASE UNCHANGED membershipVars
    BY <2>1, GrowingIsGuarded DEF membershipVars
  <2>2. ASSUME NEW c \in Caller,
               \/ \E g \in Group, u \in Account, op \in {"remove", "demote"} : AskToLeave(c, g, u, op)
               \/ \E u \in Account : StartCleanup(c, u)
               \/ ReadAdmins(c) \/ TransferOwn(c)
        PROVE  GuardedLoss
    BY <2>2, GrowingIsGuarded DEF AskToLeave, StartCleanup, ReadAdmins, TransferOwn
  <2>3. CASE MoveIntegration
    BY <2>3, GrowingIsGuarded DEF MoveIntegration
  <2> QED BY <2>1, <2>2, <2>3, GrowingIsGuarded, LeavingIsGuarded, DestroyIsGuarded, MergeIsGuarded DEF MembershipsNext
<1> QED BY <1>1, MembershipsInvariant, PTL DEF MembershipsSpec, LastAdminIsGuarded, GuardedLoss

-----------------------------------------------------------------------------
(* The clean up of stale users                                               *)

\* The calls that end without having deleted their user, and why they may.
FailsForAReason ==
  \A c \in Ending :
    LET u == mcall[c].user
    IN mcall[c].op \in {"transfer", "destroy"} /\ mcall[c].fresh /\ u \in account' =>
         \/ mcall[c].op = "transfer" /\ role[mcall[c].group][Sso] = "member"
         \/ /\ mcall[c].op = "destroy" /\ owned.user = u /\ owned.team # NoTeam
            /\ role[owned.team][u] = "none" \/ Admins(owned.team) = {}

(* The calls that a step other than their own leaves running. *)
LEMMA RunningGoesOn ==
  ASSUME MembershipsInv, NEW d \in Caller, mcall[d].op # "idle",
         \E b \in BOOLEAN : mcall'[d] = [mcall[d] EXCEPT !.fresh = b]
  PROVE  d \notin Ending
<1> PICK q \in MemberCall : q = mcall[d]
  BY MemberFacts
<1> PICK b \in BOOLEAN : mcall'[d] = [q EXCEPT !.fresh = b]
  OBVIOUS
<1> PICK n : n = [q EXCEPT !.fresh = b]
  OBVIOUS
<1>1. n.op = q.op
  BY DEF MemberCall
<1> QED BY <1>1, MemberTypes DEF Ending

\* A clean-up that was overtaken goes on with what it read.
LEMMA OvertakenGoesOn ==
  ASSUME MembershipsInv, NEW N, NEW d \in Caller, mcall'[d] = Overtaken(N)[d],
         mcall[d].op # "idle"
  PROVE  d \notin Ending
<1>1. mcall[d].fresh \in BOOLEAN
  BY MemberFacts DEF MemberCall
<1> PICK b \in BOOLEAN : b = (mcall[d].fresh /\ (mcall[d] # Idle => \A g \in Reads(d) : N[g] = role[g]))
  BY <1>1
<1>2. mcall'[d] = [mcall[d] EXCEPT !.fresh = b]
  BY DEF Overtaken
<1> QED BY <1>2, RunningGoesOn

(* No step but a clean up's last ends one. *)
LEMMA OnlyCleanupsEndCleanups ==
  ASSUME MembershipsInv, MembershipsNext, NEW c \in Caller, c \in Ending,
         mcall[c].op \in {"transfer", "destroy"}
  PROVE  Transfer(c) \/ DestroyStale(c)
<1>1. /\ MembershipsTypeOK
      /\ mcall \in [Caller -> MemberCall]
      /\ mcall[c].op # "idle"
  BY MemberFacts
<1>2. mcall'[c] # Overtaken(role')[c] /\ mcall'[c] # mcall[c]
  BY <1>1, OvertakenGoesOn DEF Ending
<1>3. ASSUME NEW d \in Caller, RemoveMember(d) \/ DemoteMember(d) \/ Transfer(d) \/ DestroyStale(d)
      PROVE  d = c
  <2>1. mcall' = [Overtaken(role') EXCEPT ![d] = mcall'[d]]
    <3>1. \E N, q : mcall' = [Overtaken(N) EXCEPT ![d] = q] /\ role' = N
      BY <1>3 DEF RemoveMember, DemoteMember, Transfer, DestroyStale, Commit
    <3> QED BY <3>1 DEF Overtaken
  <2> QED BY <1>2, <2>1 DEF Overtaken
<1>4. ASSUME NEW d \in Caller,
             \/ \E g \in Group, u \in Account, op \in {"remove", "demote"} : AskToLeave(d, g, u, op)
             \/ \E u \in Account : StartCleanup(d, u)
             \/ ReadAdmins(d) \/ TransferOwn(d)
      PROVE  FALSE
  <2>1. d # c
    <3>1. CASE d = c /\ ((\E g \in Group, u \in Account, op \in {"remove", "demote"} : AskToLeave(d, g, u, op))
                         \/ \E u \in Account : StartCleanup(d, u))
      BY <3>1, <1>1, MemberTypes DEF AskToLeave, StartCleanup
    <3>2. CASE d = c /\ (ReadAdmins(d) \/ TransferOwn(d))
      BY <3>2 DEF ReadAdmins, TransferOwn
    <3> QED BY <1>4, <3>1, <3>2
  <2>2. \E q : mcall' = [mcall EXCEPT ![d] = q]
    <3>1. CASE TransferOwn(d)
      BY <3>1 DEF TransferOwn
    <3>2. CASE ReadAdmins(d)
      BY <3>2 DEF ReadAdmins
    <3>3. CASE (\E g \in Group, u \in Account, op \in {"remove", "demote"} : AskToLeave(d, g, u, op))
               \/ \E u \in Account : StartCleanup(d, u)
      BY <3>3 DEF AskToLeave, StartCleanup
    <3> QED BY <1>4, <3>1, <3>2, <3>3
  <2> QED BY <1>1, <1>2, <2>1, <2>2
<1>5. ~MoveIntegration
  <2> SUFFICES ASSUME MoveIntegration PROVE FALSE
    OBVIOUS
  <2>1. mcall'[c] = [mcall[c] EXCEPT !.fresh = FALSE]
    BY <1>1, MemberFacts DEF MoveIntegration, MemberCall
  <2> QED BY <1>1, <2>1, RunningGoesOn
<1>6. ASSUME mcall' = Overtaken(role') PROVE FALSE
  BY <1>2, <1>6
<1>7. ASSUME \/ \E g \in Group : CreateGroup(g) \/ DeleteGroup(g)
             \/ \E g \in Group, u \in Account : Promote(g, u) \/ \E r \in {"member", "admin"} : AddMember(g, u, r)
             \/ \E u \in Account : MergeDuplicate(u)
      PROVE  FALSE
  <2>1. \E N : mcall' = Overtaken(N) /\ role' = N
    BY <1>7 DEF CreateGroup, DeleteGroup, Promote, AddMember, MergeDuplicate, Commits
  <2> QED BY <1>6, <2>1
<1>8. \E d \in Caller : RemoveMember(d) \/ DemoteMember(d) \/ Transfer(d) \/ DestroyStale(d)
  BY <1>4, <1>5, <1>7 DEF MembershipsNext
<1>9. RemoveMember(c) \/ DemoteMember(c) \/ Transfer(c) \/ DestroyStale(c)
  BY <1>3, <1>8
<1> QED BY <1>9 DEF RemoveMember, DemoteMember

(* deleteStaleUsers: for any users, teams and concurrent calls, a clean up   *)
(* that nobody overtook deletes its user, except where the SSO team already  *)
(* is a plain member of a team whose only administrator the user is, or the  *)
(* user owns an integration of a team they left or that has no               *)
(* administrator.                                                            *)
THEOREM CleanupEnds == MembershipsSpec => CleanupFinishes
<1>1. MembershipsInv /\ [MembershipsNext]_membershipVars => FailsForAReason
  <2> SUFFICES ASSUME MembershipsInv, [MembershipsNext]_membershipVars, NEW c \in Ending,
                      mcall[c].op \in {"transfer", "destroy"}, mcall[c].fresh, mcall[c].user \in account'
               PROVE  \/ mcall[c].op = "transfer" /\ role[mcall[c].group][Sso] = "member"
                      \/ /\ mcall[c].op = "destroy" /\ owned.user = mcall[c].user /\ owned.team # NoTeam
                         /\ role[owned.team][mcall[c].user] = "none" \/ Admins(owned.team) = {}
    BY DEF FailsForAReason
  <2>1. c \in Caller /\ (Transfer(c) \/ DestroyStale(c))
    <3>1. c \in Caller /\ mcall' # mcall
      BY DEF Ending
    <3>2. MembershipsNext
      BY <3>1 DEF membershipVars
    <3> QED BY <3>1, <3>2, OnlyCleanupsEndCleanups
  <2> PICK p \in MemberCall : p = mcall[c]
    BY MemberFacts DEF Ending
  <2>2. CallKnows(p, role, owned) /\ CleanupKnows(p, role, owned) /\ p.user # Sso
    BY MemberFacts DEF CallKnows, Ending
  <2>3. CASE Transfer(c)
    <3>1. p.op = "transfer" /\ p.group \in Team /\ p.group \in Group
      BY <2>2, <2>3 DEF Transfer, CallKnows, Group
    <3>2. p.sole /\ (role[p.group][Sso] # "none" \/ p.group \notin group)
      <4> SUFFICES ASSUME ~(p.sole /\ (role[p.group][Sso] # "none" \/ p.group \notin group)) PROVE FALSE
        OBVIOUS
      <4> PICK q : q = [p EXCEPT !.op = "cleanup", !.group = NoTeam]
        OBVIOUS
      <4>1. mcall' = [Overtaken(role') EXCEPT ![c] = q]
        BY <2>3 DEF Transfer
      <4>2. q.op = "cleanup"
        BY DEF MemberCall
      <4>3. mcall'[c] = q
        BY <4>1 DEF Overtaken, Ending
      <4> QED BY <4>2, <4>3, MemberTypes DEF Ending
    <3>3. AdminsIn(role, p.group) = {p.user}
      BY <2>2, <3>1, <3>2 DEF CleanupKnows
    <3>4. role[p.group][p.user] = "admin" /\ p.user \in Account
      BY <3>3 DEF AdminsIn
    <3>5. p.group \in group
      BY <3>1, <3>4, MemberFacts DEF NoGhostMembers
    <3>6. role[p.group][Sso] # "admin"
      BY <2>2, <3>3, MemberTypes DEF AdminsIn
    <3>7. role[p.group][Sso] \in {"none", "member", "admin"}
      BY <3>1, MemberFacts, MemberTypes DEF MemberRoles
    <3> QED BY <3>1, <3>2, <3>5, <3>6, <3>7
  <2>4. CASE DestroyStale(c)
    <3>1. owned.user = p.user /\ p.op = "destroy"
      BY <2>4 DEF DestroyStale
    <3>2. owned.team # NoTeam /\ owned.team \in Team \ p.todo
      BY <2>2, <3>1, MemberFacts DEF CleanupKnows, IntegrationOwner
    <3>3. SettledIn(role, owned, owned.team, p.user)
      BY <2>2, <3>1, <3>2 DEF CleanupKnows
    <3>4. role[owned.team][p.user] = "none" \/ Admins(owned.team) = {}
      BY <3>1, <3>3 DEF SettledIn, Admins, AdminsIn
    <3> QED BY <3>1, <3>2, <3>4
  <2> QED BY <2>1, <2>3, <2>4
<1> QED BY <1>1, MembershipsInvariant, PTL DEF MembershipsSpec, CleanupFinishes, FailsForAReason

-----------------------------------------------------------------------------
(* The authority of a user, in a list and on a row                           *)

AccessSpec == AccessInit /\ [][AccessNext]_accessVars

IntegrationRow == [usesTeam : BOOLEAN, team : OwningTeam \cup {NoOwner}, mine : BOOLEAN, draft : BOOLEAN]
Terms == ConsentChoice \cup {Unset}
RoleOf == {"none", "member", "admin"}

-----------------------------------------------------------------------------
(* Facts about the permission sets *)

(* "unset" names no permission, so an absent row is never a set of them. *)
LEMMA UnsetIsNoConsent == Unset \notin ConsentChoice
  BY AccessAssumption DEF Unset, OrgConsentable, TeamAdmin, TeamMember

(* What a list asks for is a permission an owner has; a consent stays within
   what an organization may hold. *)
LEMMA Ranges ==
  /\ \A x \in Asked : x \in TeamAdmin /\ x # "none"
  /\ \A c \in ConsentChoice : c \subseteq OrgConsentable
  /\ OrgConsentable \subseteq TeamAdmin
  /\ TeamMember \subseteq TeamAdmin
  BY AccessAssumption DEF OrgConsentable, TeamAdmin, TeamMember

(* Nobody holds more than an owner. *)
LEMMA PermissionsBounded ==
  ASSUME NEW r \in IntegrationRow, NEW roles \in [OwningTeam -> RoleOf],
         NEW links \in [OwningTeam -> Terms], NEW caps \in [OwningTeam -> Terms]
  PROVE  Permissions(r, roles, links, caps) \in SUBSET TeamAdmin
  BY Ranges DEF Permissions, PermissionsForTeamRole, OrganizationPermissions, IntegrationRow, Terms

(* accessibleIntegrationsWhere against resolveAccessForIntegrations: on the
   same memberships, links and overrides, the predicate selects a row exactly
   when the resolver grants the permission the list is made for. *)
LEMMA PredicateIsResolver ==
  ASSUME NEW s, NEW r \in IntegrationRow, s.asked \in Asked,
         s.roles \in [OwningTeam -> RoleOf],
         s.links \in [OwningTeam -> Terms], s.caps \in [OwningTeam -> Terms]
  PROVE  Accessible(s, r) <=> s.asked \in Permissions(r, s.roles, s.links, s.caps)
<1> DEFINE asked == s.asked
           owner == IF OwnsRow(r) THEN TeamAdmin ELSE {}
<1>1. asked \in owner <=> OwnerClause(s, r)
  BY Ranges DEF OwnsRow, OwnerClause
<1>2. CASE r.team = NoOwner
  <2>1. r.team \notin MemberTeams(s) /\ ~OrganizationClause(s, r)
    BY <1>2, OwnerAssumption DEF MemberTeams, OrganizationClause
  <2> QED BY <1>1, <1>2, <2>1 DEF Accessible, Permissions
<1>3. CASE r.team # NoOwner
  <2> DEFINE t == r.team
             byOrg == OrganizationPermissions(s.links[t], s.caps[t])
  <2>1. t \in OwningTeam /\ s.links[t] \in Terms /\ s.caps[t] \in Terms
    BY <1>3 DEF IntegrationRow
  <2>2. asked \in PermissionsForTeamRole(s.roles[t]) <=> t \in MemberTeams(s)
    BY <2>1 DEF MemberTeams
  <2>3. asked \in byOrg <=> /\ s.links[t] # Unset /\ asked \in s.links[t]
                            /\ s.caps[t] # Unset => asked \in s.caps[t]
    BY <2>1, Ranges DEF OrganizationPermissions, Terms
  <2>4. asked \in Permissions(r, s.roles, s.links, s.caps)
          <=> asked \in owner \/ asked \in PermissionsForTeamRole(s.roles[t]) \/ asked \in byOrg
    BY <1>3 DEF Permissions
  <2> QED BY <1>1, <1>3, <2>2, <2>3, <2>4 DEF Accessible, OrganizationClause
<1> QED BY <1>2, <1>3

-----------------------------------------------------------------------------
(* The inductive invariant *)

Reading == scope.at \in {"roles", "links", "caps", "done"}

(* A request that asks for something has begun; what it has read so far. *)
AskedIsKnown == Reading => scope.asked \in Asked

(* While nothing changes, what was read is what there is: the memberships,
   then the links, then the overrides of the links that were read. *)
ReadIsCurrent ==
  steady =>
    /\ Reading => scope.roles = teamRole
    /\ scope.at \in {"links", "caps", "done"} => scope.links = Links
    /\ scope.at \in {"caps", "done"} =>
         \A t \in OwningTeam : scope.links[t] # Unset => scope.caps[t] = cap[t]
    /\ scope.at = "done" => scope.permissions = Permissions(row, scope.roles, scope.links, scope.caps)

(* What TLC's runs check of the list, and what makes it inductive. *)
AccessInv == AccessTypeOK /\ AskedIsKnown /\ ListedIsPermitted /\ ReadIsCurrent

(* Types that AccessTypeOK gives, by the names used here. *)
LEMMA Typed ==
  ASSUME AccessTypeOK
  PROVE  /\ row \in IntegrationRow /\ (row.team # NoOwner => row.usesTeam)
         /\ teamRole \in [OwningTeam -> RoleOf] /\ inOrg \in BOOLEAN
         /\ consent \in [OwningTeam -> Terms] /\ cap \in [OwningTeam -> Terms]
         /\ Links \in [OwningTeam -> Terms]
         /\ scope \in [at : {"idle", "roles", "links", "caps", "done"}, asked : Asked \cup {"none"},
                       roles : [OwningTeam -> RoleOf], links : [OwningTeam -> Terms],
                       caps : [OwningTeam -> Terms], listed : BOOLEAN, permissions : SUBSET TeamAdmin]
  BY DEF AccessTypeOK, IntegrationRow, RoleOf, Terms, Links, NoneOf

(* The initial states *)
LEMMA InitInv == AccessInit => AccessInv
<1> SUFFICES ASSUME AccessInit PROVE AccessInv
  OBVIOUS
<1>1. AccessTypeOK
  BY AccessAssumption DEF AccessInit, AccessTypeOK, Blank, NoneOf
<1>2. scope.at = "idle"
  BY DEF AccessInit, Blank
<1> QED BY <1>1, <1>2 DEF AccessInv, AskedIsKnown, Reading, ListedIsPermitted, ReadIsCurrent

(* A change of the data leaves the list as it is, and ends the quiet. *)
LEMMA ChangeKeeps ==
  ASSUME AccessInv, Changes, AccessTypeOK'
  PROVE  AccessInv'
  BY DEF AccessInv, Changes, AskedIsKnown, Reading, ListedIsPermitted, ReadIsCurrent

(* Each change keeps the types. *)
LEMMA ChangeTypes ==
  ASSUME AccessTypeOK, Changes,
         \/ \E r \in IntegrationRow : SaveRow(r)
         \/ \E t \in OwningTeam : \E r \in RoleOf : SetRole(t, r)
         \/ JoinOrLeave
         \/ \E t \in OwningTeam : \E p \in Terms : SetConsentOf(t, p) \/ SetCap(t, p)
  PROVE  AccessTypeOK'
<1>1. accessChanges' \in 0..MaxAccessChanges
  <2>1. accessChanges \in 0..MaxAccessChanges /\ MaxAccessChanges \in Nat
    BY AccessAssumption DEF AccessTypeOK
  <2>2. accessChanges < MaxAccessChanges /\ accessChanges' = accessChanges + 1
    BY DEF Changes
  <2> QED BY <2>1, <2>2
<1>2. steady' \in BOOLEAN
  BY DEF Changes
<1>3. scope' = scope
  BY DEF Changes
<1>4. CASE \E r \in IntegrationRow : SaveRow(r)
  BY <1>1, <1>2, <1>3, <1>4 DEF SaveRow, AccessTypeOK, IntegrationRow
<1>5. CASE \E t \in OwningTeam : \E r \in RoleOf : SetRole(t, r)
  BY <1>1, <1>2, <1>3, <1>5 DEF SetRole, AccessTypeOK, RoleOf
<1>6. CASE JoinOrLeave
  BY <1>1, <1>2, <1>3, <1>6 DEF JoinOrLeave, AccessTypeOK
<1>7. ASSUME NEW t \in OwningTeam, NEW p \in Terms, SetConsentOf(t, p) PROVE AccessTypeOK'
  BY <1>1, <1>2, <1>3, <1>7 DEF SetConsentOf, AccessTypeOK, Terms
<1>8. ASSUME NEW t \in OwningTeam, NEW p \in Terms, SetCap(t, p) PROVE AccessTypeOK'
  BY <1>1, <1>2, <1>3, <1>8 DEF SetCap, AccessTypeOK, Terms
<1> QED BY <1>4, <1>5, <1>6, <1>7, <1>8

(* resolveAccessScope: each read records what is there. *)
LEMMA ReadsKeep ==
  ASSUME AccessInv,
         \/ \E asked \in Asked : ReadRoles(asked)
         \/ ReadLinks \/ ReadCaps
  PROVE  AccessInv'
<1> USE DEF AccessInv
<1>1. ASSUME NEW asked \in Asked, ReadRoles(asked) PROVE AccessInv'
  <2>1. AccessTypeOK'
    BY <1>1 DEF ReadRoles, Blank, NoneOf, AccessTypeOK, Data
  <2> QED BY <1>1, <2>1 DEF ReadRoles, Blank, Data, AskedIsKnown, Reading, ListedIsPermitted, ReadIsCurrent
<1>2. CASE ReadLinks
  <2>1. AccessTypeOK'
    BY <1>2, Typed DEF ReadLinks, AccessTypeOK, Data, Terms
  <2>2. scope' = [scope EXCEPT !.at = "links", !.links = Links] /\ Links' = Links
    BY <1>2 DEF ReadLinks, Data, Links, NoneOf
  <2>3. scope'.at = "links" /\ scope'.links = Links /\ scope'.asked = scope.asked /\ scope'.roles = scope.roles
    BY <2>2, Typed
  <2> QED BY <1>2, <2>1, <2>2, <2>3 DEF ReadLinks, Data, AskedIsKnown, Reading, ListedIsPermitted, ReadIsCurrent
<1>3. CASE ReadCaps
  <2> DEFINE caps == [t \in OwningTeam |-> IF scope.links[t] = Unset THEN Unset ELSE cap[t]]
  <2>1. AccessTypeOK'
    BY <1>3 DEF ReadCaps, AccessTypeOK, Data
  <2>2. scope' = [scope EXCEPT !.at = "caps", !.caps = caps] /\ Links' = Links
    BY <1>3 DEF ReadCaps, Data, Links, NoneOf
  <2>3. /\ scope'.at = "caps" /\ scope'.caps = caps /\ scope'.asked = scope.asked
        /\ scope'.roles = scope.roles /\ scope'.links = scope.links
    BY <2>2, Typed
  <2> QED BY <1>3, <2>1, <2>2, <2>3 DEF ReadCaps, Data, AskedIsKnown, Reading, ListedIsPermitted, ReadIsCurrent
<1> QED BY <1>1, <1>2, <1>3

(* getRequests: the rows are selected and resolved on one scope. *)
LEMMA RowsKeep ==
  ASSUME AccessInv, ReadRows
  PROVE  AccessInv'
<1> DEFINE granted == Permissions(row, scope.roles, scope.links, scope.caps)
<1>1. /\ scope' = [scope EXCEPT !.at = "done", !.listed = Accessible(scope, row), !.permissions = granted]
      /\ UNCHANGED <<row, teamRole, inOrg, consent, cap, steady, accessChanges>>
  BY DEF ReadRows, Resolved, Data
<1>2. granted \in SUBSET TeamAdmin
  BY Typed, PermissionsBounded DEF AccessInv
<1>3. Accessible(scope, row) \in BOOLEAN
  BY DEF Accessible, OwnerClause, OrganizationClause
<1>4. /\ scope'.at = "done" /\ scope'.asked = scope.asked /\ scope'.roles = scope.roles
      /\ scope'.links = scope.links /\ scope'.caps = scope.caps
      /\ scope'.listed = Accessible(scope, row) /\ scope'.permissions = granted
  BY <1>1, Typed DEF AccessInv
<1>5. AccessTypeOK'
  BY <1>1, <1>2, <1>3 DEF AccessInv, AccessTypeOK
<1>6. scope.asked \in Asked /\ scope.at = "caps"
  BY DEF AccessInv, AskedIsKnown, Reading, ReadRows
<1>7. ListedIsPermitted'
  BY <1>4, <1>6, Typed, PredicateIsResolver DEF AccessInv, ListedIsPermitted
<1>8. AskedIsKnown' /\ ReadIsCurrent'
  BY <1>1, <1>4, <1>6 DEF AccessInv, AskedIsKnown, Reading, ReadIsCurrent, Links, NoneOf
<1> QED BY <1>5, <1>7, <1>8 DEF AccessInv

(* Every step *)
LEMMA NextInv == AccessInv /\ [AccessNext]_accessVars => AccessInv'
<1> SUFFICES ASSUME AccessInv, [AccessNext]_accessVars PROVE AccessInv'
  OBVIOUS
<1> DEFINE Edits == \/ \E r \in IntegrationRow : SaveRow(r)
                    \/ \E t \in OwningTeam : \E r \in RoleOf : SetRole(t, r)
                    \/ JoinOrLeave
                    \/ \E t \in OwningTeam : \E p \in Terms : SetConsentOf(t, p) \/ SetCap(t, p)
<1>1. CASE Edits
  <2>1. Changes
    BY <1>1 DEF SaveRow, SetRole, JoinOrLeave, SetConsentOf, SetCap
  <2> QED BY <1>1, <2>1, ChangeTypes, ChangeKeeps DEF AccessInv
<1>2. CASE (\E asked \in Asked : ReadRoles(asked)) \/ ReadLinks \/ ReadCaps
  BY <1>2, ReadsKeep
<1>3. CASE ReadRows
  BY <1>3, RowsKeep
<1>4. CASE UNCHANGED accessVars
  BY <1>4 DEF accessVars, AccessInv, AccessTypeOK, AskedIsKnown, Reading, ListedIsPermitted,
              ReadIsCurrent, Links, NoneOf, Permissions, OwnsRow
<1> QED BY <1>1, <1>2, <1>3, <1>4 DEF AccessNext, IntegrationRow, RoleOf, Terms

(* The inductive invariant holds. *)
THEOREM AccessInvHolds == AccessSpec => []AccessInv
  BY InitInv, NextInv, PTL DEF AccessSpec

-----------------------------------------------------------------------------
(* Every variable keeps its type: no change of a membership, a consent, an
   override or the owner leads out of what the columns hold. *)
THEOREM AccessTypeCorrect == AccessSpec => []AccessTypeOK
  BY AccessInvHolds, PTL DEF AccessInv

(* "They cannot drift": for every set of teams and consents, and whatever
   changes between the queries of a list, the rows it admits are the rows
   whose attached authority has the permission it was made for. *)
THEOREM ListNeverDrifts == AccessSpec => []ListedIsPermitted
  BY AccessInvHolds, PTL DEF AccessInv

(* The authority resolved on caps read under the links that were there is the
   authority resolved on the caps themselves. *)
LEMMA AgreementFollows == AccessInv => ListAgreesWithRow
<1> SUFFICES ASSUME AccessInv, scope.at = "done", steady
             PROVE  scope.listed <=> scope.asked \in Live(row)
  BY DEF ListAgreesWithRow
<1>1. /\ scope.roles = teamRole /\ scope.links = Links
      /\ \A t \in OwningTeam : scope.links[t] # Unset => scope.caps[t] = cap[t]
      /\ scope.permissions = Permissions(row, scope.roles, scope.links, scope.caps)
  BY DEF AccessInv, ReadIsCurrent, Reading
<1>2. \A t \in OwningTeam :
        OrganizationPermissions(Links[t], scope.caps[t]) = OrganizationPermissions(Links[t], cap[t])
  BY <1>1 DEF OrganizationPermissions
<1>3. row.team # NoOwner => row.team \in OwningTeam
  BY Typed DEF AccessInv, IntegrationRow
<1>4. scope.permissions = Live(row)
  BY <1>1, <1>2, <1>3 DEF Permissions, Live
<1> QED BY <1>4 DEF AccessInv, ListedIsPermitted

(* authorizeIntegration against a list: with nothing changed since the list
   began, it shows the integration exactly when opening it would be allowed. *)
THEOREM ListsWhatOpens == AccessSpec => []ListAgreesWithRow
  BY AccessInvHolds, AgreementFollows, PTL

-----------------------------------------------------------------------------
(* The authority of an API account: what a request is decided by.           *)

\* The component on its own.
AuthoritySpec == AccessInit /\ AuthorityInit /\ [][AuthorityNext]_<<accessVars, authorityVars>>

ApiRequestState ==
  [at : {"idle", "account", "links", "caps", "store", "decide", "allowed", "refused"},
   asked : Needed \cup {"none"}, context : Context, since : 0..MaxClock]

\* What was read is what there is.
Agrees(x) ==
  /\ x.account = apiAccount
  /\ apiAccount = "organization" => x.links = consent /\ x.caps = cap
ReadsAgree(q) ==
  /\ q.at \in {"links", "caps"} => q.context.account = "organization" /\ apiAccount = "organization"
  /\ q.at = "caps" => q.context.links = consent
  /\ q.at = "store" => Agrees(q.context)

\* A load ends in time, and what it read after the last change is what there is; so
\* is what a request is decided by that came late enough after it.
RequestAgrees(q) ==
  /\ q.since <= now /\ (q.at \in {"account", "links", "caps", "store", "decide"} => q.asked \in Needed)
  /\ Loading(q) => now - q.since <= MaxLoad /\ (q.since > changedAt => ReadsAgree(q))
  /\ q.at = "decide" /\ q.since > changedAt + CacheTtl + MaxLoad => Agrees(q.context)
RequestsAgree == \A a \in ApiRequest : RequestAgrees(request[a])

\* An entry that is good for long enough after the last change is what there is.
EntryAgrees ==
  /\ entry.expires <= now + CacheTtl
  /\ entry.expires > changedAt + CacheTtl + MaxLoad => Agrees(entry.context)

\* The inductive invariant.
AuthorityInv == AccessTypeOK /\ AuthorityTypeOK /\ RequestsAgree /\ EntryAgrees

\* Times are natural numbers.
LEMMA AuthorityTimes ==
  ASSUME AuthorityTypeOK
  PROVE  /\ now \in 0..MaxClock /\ changedAt \in 0..now /\ now \in Nat /\ changedAt \in Nat
         /\ CacheTtl \in Nat /\ MaxLoad \in Nat /\ MaxClock \in Nat
         /\ entry.expires \in 0..(MaxClock + CacheTtl) /\ entry.expires \in Nat /\ entry.context \in Context
         /\ request \in [ApiRequest -> ApiRequestState]
         /\ \A a \in ApiRequest : request[a].since \in 0..MaxClock /\ request[a].since \in Nat
<1>1. /\ now \in 0..MaxClock /\ changedAt \in 0..now
      /\ entry \in [context : Context, expires : 0..(MaxClock + CacheTtl)]
      /\ request \in [ApiRequest -> ApiRequestState]
  BY DEF AuthorityTypeOK, ApiRequestState
<1>2. CacheTtl \in Nat /\ MaxLoad \in Nat /\ MaxClock \in Nat
  BY AuthorityAssumption
<1>3. \A a \in ApiRequest : request[a].since \in 0..MaxClock
  BY <1>1 DEF ApiRequestState
<1> QED BY <1>1, <1>2, <1>3

\* The list and the row are decided alike (accessibleIntegrationsWhere and
\* effectivePermissions).
LEMMA AuthorityIsOne ==
  ASSUME NEW x \in Context, NEW asked \in Needed, NEW team \in OwningTeam \cup {NoOwner}
  PROVE  AccessibleWhere(x, asked, team) <=> asked \in EffectivePermissions(x, team)
<1>1. asked \in TeamAdmin
  BY AuthorityAssumption
<1>2. CASE team = NoOwner
  <2>1. x.account # NoOwner
    BY OwnerAssumption DEF Context, ApiAccount, NoOwner
  <2> QED BY <1>2, <2>1 DEF AccessibleWhere, EffectivePermissions
<1>3. CASE team # NoOwner /\ x.account = "organization"
  <2>1. x.links[team] \in Terms /\ x.caps[team] \in Terms
    BY <1>3 DEF Context, Terms
  <2>2. asked \in OrganizationPermissions(x.links[team], x.caps[team])
          <=> /\ x.links[team] # Unset /\ asked \in x.links[team]
              /\ x.caps[team] # Unset => asked \in x.caps[team]
    BY <2>1, Ranges DEF OrganizationPermissions, Terms
  <2> QED BY <1>3, <2>2 DEF AccessibleWhere, EffectivePermissions
<1>4. CASE team # NoOwner /\ x.account # "organization"
  BY <1>1, <1>4 DEF AccessibleWhere, EffectivePermissions
<1> QED BY <1>2, <1>3, <1>4

\* What agrees decides as what there is.
LEMMA AgreesDecides ==
  ASSUME NEW x, NEW live, Agrees(x), live = [account |-> apiAccount, links |-> consent, caps |-> cap], NEW team
  PROVE  EffectivePermissions(x, team) = EffectivePermissions(live, team)
BY DEF Agrees, EffectivePermissions

-----------------------------------------------------------------------------
(* Changes.                                                                 *)

\* A change now: nothing began or was stored late enough after it.
LEMMA ChangeForgets ==
  ASSUME AuthorityInv, changedAt' = now, UNCHANGED <<now, entry, request>>
  PROVE  RequestsAgree' /\ EntryAgrees'
<1>1. RequestsAgree /\ EntryAgrees /\ AuthorityTypeOK
  BY DEF AuthorityInv
<1>2. ASSUME NEW a \in ApiRequest PROVE RequestAgrees(request[a])'
  <2>1. RequestAgrees(request[a]) /\ request[a].since <= now
    BY <1>1 DEF RequestsAgree, RequestAgrees
  <2> QED BY <1>1, <2>1, AuthorityTimes DEF RequestAgrees, Loading
<1>3. EntryAgrees'
  BY <1>1, AuthorityTimes DEF EntryAgrees
<1> QED BY <1>2, <1>3 DEF RequestsAgree

\* The app changes the team of the integration, a consent or a cap.
LEMMA AppChangesKeeps ==
  ASSUME AuthorityInv, AppChanges
  PROVE  AuthorityInv'
<1>1. changedAt' = now /\ UNCHANGED <<now, apiAccount, entry, request>>
  BY DEF AppChanges
<1>2. PICK t \in OwningTeam :
        \/ SaveRow([row EXCEPT !.team = t])
        \/ \E p \in Terms : SetConsentOf(t, p) \/ SetCap(t, p)
  BY DEF AppChanges, Terms
<1>3. [row EXCEPT !.team = t] \in IntegrationRow
  BY Typed DEF AuthorityInv, IntegrationRow
<1>4. Changes
  BY <1>2 DEF SaveRow, SetConsentOf, SetCap
<1>5. AccessTypeOK'
  BY <1>2, <1>3, <1>4, ChangeTypes DEF AuthorityInv
<1>6. AuthorityTypeOK'
  <2>1. now \in 0..now
    BY AuthorityTimes DEF AuthorityInv
  <2> QED BY <1>1, <2>1 DEF AuthorityInv, AuthorityTypeOK
<1> QED BY <1>1, <1>5, <1>6, ChangeForgets DEF AuthorityInv

\* The deletion of an API account keeps what requests and cache entry hold.
LEMMA ArchiveAccountKeeps ==
  ASSUME AuthorityInv, ArchiveAccount
  PROVE  AuthorityInv'
<1>1. /\ apiAccount' = "archived" /\ accessChanges < MaxApiChanges /\ accessChanges' = accessChanges + 1
      /\ changedAt' = now /\ UNCHANGED <<row, teamRole, inOrg, consent, cap, scope, steady, now, entry, request>>
  BY DEF ArchiveAccount, Data
<1>2. accessChanges' \in 0..MaxAccessChanges
  BY <1>1, AuthorityAssumption, AccessAssumption DEF AuthorityInv, AccessTypeOK
<1>3. AccessTypeOK'
  BY <1>1, <1>2 DEF AuthorityInv, AccessTypeOK
<1>4. AuthorityTypeOK'
  <2>1. now \in 0..now
    BY AuthorityTimes DEF AuthorityInv
  <2> QED BY <1>1, <2>1 DEF AuthorityInv, AuthorityTypeOK, ApiAccount
<1> QED BY <1>1, <1>3, <1>4, ChangeForgets DEF AuthorityInv

\* Time goes on: a load that has taken its time has ended.
LEMMA TickKeeps ==
  ASSUME AuthorityInv, Tick
  PROVE  AuthorityInv'
<1>1. /\ now < MaxClock /\ now' = now + 1
      /\ \A a \in ApiRequest : Loading(request[a]) => now - request[a].since < MaxLoad
      /\ UNCHANGED <<accessVars, apiAccount, changedAt, entry, request>>
  BY DEF Tick
<1>2. UNCHANGED <<row, teamRole, inOrg, consent, cap, scope, steady, accessChanges>>
  BY <1>1 DEF accessVars
<1>3. AccessTypeOK'
  BY <1>2 DEF AuthorityInv, AccessTypeOK
<1>4. AuthorityTypeOK /\ RequestsAgree /\ EntryAgrees
  BY DEF AuthorityInv
<1>5. AuthorityTypeOK'
  <2>1. now' \in 0..MaxClock /\ changedAt' \in 0..now'
    BY <1>1, <1>4, AuthorityTimes
  <2> QED BY <1>1, <1>4, <2>1 DEF AuthorityTypeOK
<1>6. ASSUME NEW a \in ApiRequest PROVE RequestAgrees(request[a])'
  <2>1. RequestAgrees(request[a]) /\ (Loading(request[a]) => now - request[a].since < MaxLoad)
    BY <1>1, <1>4 DEF RequestsAgree
  <2>2. now' - request[a].since = now - request[a].since + 1
    BY <1>1, <1>4, AuthorityTimes
  <2>3. Loading(request[a]) => now' - request[a].since <= MaxLoad
    BY <1>4, <2>1, <2>2, AuthorityTimes
  <2>4. request[a].since <= now'
    BY <1>1, <1>4, <2>1, AuthorityTimes DEF RequestAgrees
  <2> QED BY <1>1, <1>2, <2>1, <2>3, <2>4 DEF RequestAgrees, ReadsAgree, Agrees, Loading
<1>7. EntryAgrees'
  <2>1. entry.expires <= now' + CacheTtl
    BY <1>1, <1>4, AuthorityTimes DEF EntryAgrees
  <2> QED BY <1>1, <1>2, <1>4, <2>1 DEF EntryAgrees, Agrees
<1> QED BY <1>3, <1>5, <1>6, <1>7 DEF AuthorityInv, RequestsAgree

-----------------------------------------------------------------------------
(* Requests.                                                                *)

\* A request that moves to a state that agrees, while nothing else changes but the
\* cache's entry.
LEMMA ApiRequestMoves ==
  ASSUME AuthorityInv, NEW a \in ApiRequest, NEW q \in ApiRequestState, Moves(a, q), RequestAgrees(q),
         UNCHANGED <<accessVars, now, apiAccount, changedAt>>,
         entry' \in [context : Context, expires : 0..(MaxClock + CacheTtl)], EntryAgrees'
  PROVE  AuthorityInv'
<1>1. UNCHANGED <<row, teamRole, inOrg, consent, cap, scope, steady, accessChanges>>
  BY DEF accessVars
<1>2. AccessTypeOK'
  BY <1>1 DEF AuthorityInv, AccessTypeOK
<1>3. request \in [ApiRequest -> ApiRequestState]
  BY AuthorityTimes DEF AuthorityInv
<1>4. /\ request' \in [ApiRequest -> ApiRequestState] /\ request'[a] = q
      /\ \A b \in ApiRequest \ {a} : request'[b] = request[b]
  BY <1>3 DEF Moves
<1>5. AuthorityTypeOK'
  BY <1>4 DEF AuthorityInv, AuthorityTypeOK, ApiRequestState
<1>6. ASSUME NEW b \in ApiRequest PROVE RequestAgrees(request[b])'
  <2>1. PICK p : p = request'[b]
    OBVIOUS
  <2>2. RequestAgrees(p)
    BY <1>4, <2>1 DEF AuthorityInv, RequestsAgree
  <2> QED BY <1>1, <2>1, <2>2 DEF RequestAgrees, ReadsAgree, Agrees, Loading
<1> QED BY <1>2, <1>5, <1>6 DEF AuthorityInv, RequestsAgree

\* The entry of the cache as it is.
LEMMA EntryStays ==
  ASSUME AuthorityInv, UNCHANGED <<accessVars, now, apiAccount, changedAt, entry>>
  PROVE  entry' \in [context : Context, expires : 0..(MaxClock + CacheTtl)] /\ EntryAgrees'
BY DEF AuthorityInv, AuthorityTypeOK, EntryAgrees, Agrees, accessVars

\* A resting request has read nothing.
LEMMA NothingRead ==
  /\ Nobody \in Context /\ Resting.context = Nobody /\ Resting.asked = "none" /\ Resting.since = 0
  /\ Nobody.account = "archived"
BY DEF Nobody, Context, ApiAccount, NoneOf, Resting

\* getAuthContext: an entry that is used is used as it is.
LEMMA AskApiKeeps ==
  ASSUME AuthorityInv, NEW a \in ApiRequest, NEW asked \in Needed, AskApi(a, asked)
  PROVE  AuthorityInv'
<1>1. UNCHANGED <<accessVars, now, apiAccount, changedAt>>
  BY DEF AskApi
<1>2. now \in 0..MaxClock /\ now \in Nat /\ AuthorityTypeOK /\ EntryAgrees
  BY AuthorityTimes DEF AuthorityInv
<1>3. CASE entry.expires > now
  <2>0. PICK q : q = [[Resting EXCEPT !.asked = asked, !.since = now] EXCEPT !.at = "decide", !.context = entry.context]
    OBVIOUS
  <2>1. q = [at |-> "decide", asked |-> asked, context |-> entry.context, since |-> now]
    BY <2>0 DEF Resting
  <2>2. entry' = entry /\ Moves(a, q)
    BY <1>3, <2>0 DEF AskApi, Used
  <2>3. q \in ApiRequestState
    BY <1>2, <2>1, AuthorityTimes DEF ApiRequestState
  <2>4. now > changedAt + CacheTtl + MaxLoad => entry.expires > changedAt + CacheTtl + MaxLoad
    BY <1>2, <1>3, AuthorityTimes
  <2>5. RequestAgrees(q)
    BY <1>2, <2>1, <2>4 DEF RequestAgrees, Loading, EntryAgrees
  <2> QED BY <1>1, <2>2, <2>3, <2>5, EntryStays, ApiRequestMoves
<1>4. CASE ~(entry.expires > now)
  <2>0. PICK q : q = [[Resting EXCEPT !.asked = asked, !.since = now] EXCEPT !.at = "account"]
    OBVIOUS
  <2>1. q = [at |-> "account", asked |-> asked, context |-> Nobody, since |-> now]
    BY <2>0 DEF Resting
  <2>2. entry' = entry /\ Moves(a, q)
    BY <1>4, <2>0 DEF AskApi
  <2>3. q \in ApiRequestState
    BY <1>2, <2>1, NothingRead DEF ApiRequestState
  <2>4. now - q.since <= MaxLoad
    BY <1>2, <2>1, AuthorityTimes
  <2>5. RequestAgrees(q)
    BY <1>2, <2>1, <2>4 DEF RequestAgrees, ReadsAgree, Loading
  <2> QED BY <1>1, <2>2, <2>3, <2>5, EntryStays, ApiRequestMoves
<1> QED BY <1>3, <1>4

\* loadAuthContext: the account.
LEMMA LoadAccountKeeps ==
  ASSUME AuthorityInv, NEW a \in ApiRequest, LoadAccount(a)
  PROVE  AuthorityInv'
<1>1. UNCHANGED <<accessVars, now, apiAccount, changedAt, entry>> /\ request[a].at = "account"
  BY DEF LoadAccount
<1>2. request[a] \in ApiRequestState /\ RequestAgrees(request[a]) /\ apiAccount \in ApiAccount
  BY AuthorityTimes DEF AuthorityInv, RequestsAgree, AuthorityTypeOK
<1>3. PICK x : x = [account |-> apiAccount, links |-> NoneOf, caps |-> NoneOf]
  OBVIOUS
<1>4. PICK q : q = [request[a] EXCEPT !.at = IF apiAccount = "organization" THEN "links" ELSE "store", !.context = x]
  OBVIOUS
<1>5. x \in Context
  BY <1>2, <1>3 DEF Context, NoneOf
<1>6. Moves(a, q)
  <2>1. [Nobody EXCEPT !.account = apiAccount] = x
    BY <1>3 DEF Nobody
  <2> QED BY <1>4, <2>1 DEF LoadAccount
<1>7. q \in ApiRequestState
  BY <1>2, <1>4, <1>5 DEF ApiRequestState
<1>8. RequestAgrees(q)
  BY <1>1, <1>2, <1>3, <1>4 DEF RequestAgrees, ReadsAgree, Agrees, Loading
<1> QED BY <1>1, <1>6, <1>7, <1>8, EntryStays, ApiRequestMoves

\* loadAuthContext: the links.
LEMMA LoadLinksKeeps ==
  ASSUME AuthorityInv, NEW a \in ApiRequest, LoadLinks(a)
  PROVE  AuthorityInv'
<1>1. UNCHANGED <<accessVars, now, apiAccount, changedAt, entry>> /\ request[a].at = "links"
  BY DEF LoadLinks
<1>2. request[a] \in ApiRequestState /\ RequestAgrees(request[a]) /\ consent \in [OwningTeam -> Terms]
  BY AuthorityTimes, Typed DEF AuthorityInv, RequestsAgree
<1>3. PICK x : x = [account |-> request[a].context.account, links |-> consent, caps |-> request[a].context.caps]
  OBVIOUS
<1>4. PICK q : q = [request[a] EXCEPT !.at = "caps", !.context = x]
  OBVIOUS
<1>5. x \in Context
  BY <1>2, <1>3 DEF Context, ApiRequestState, Terms
<1>6. Moves(a, q)
  <2>1. [request[a].context EXCEPT !.links = consent] = x
    BY <1>2, <1>3 DEF ApiRequestState, Context
  <2>3. [request[a] EXCEPT !.at = "caps", !.context.links = consent]
        = [request[a] EXCEPT !.at = "caps", !.context = [request[a].context EXCEPT !.links = consent]]
    BY <1>2 DEF ApiRequestState
  <2> QED BY <1>4, <2>1, <2>3 DEF LoadLinks
<1>7. q \in ApiRequestState
  BY <1>2, <1>4, <1>5 DEF ApiRequestState
<1>8. RequestAgrees(q)
  BY <1>1, <1>2, <1>3, <1>4 DEF RequestAgrees, ReadsAgree, Loading
<1> QED BY <1>1, <1>6, <1>7, <1>8, EntryStays, ApiRequestMoves

\* loadAuthContext: the caps of the links that were read; no cap is without its link.
LEMMA LoadCapsKeeps ==
  ASSUME AuthorityInv, NEW a \in ApiRequest, LoadCaps(a)
  PROVE  AuthorityInv'
<1>1. UNCHANGED <<accessVars, now, apiAccount, changedAt, entry>> /\ request[a].at = "caps"
  BY DEF LoadCaps
<1>2. /\ request[a] \in ApiRequestState /\ RequestAgrees(request[a]) /\ cap \in [OwningTeam -> Terms]
      /\ \A t \in OwningTeam : consent[t] = Unset => cap[t] = Unset
  BY AuthorityTimes, Typed DEF AuthorityInv, RequestsAgree, AccessTypeOK
<1>3. PICK k : k = [t \in OwningTeam |-> IF request[a].context.links[t] = Unset THEN Unset ELSE cap[t]]
  OBVIOUS
<1>4. k \in [OwningTeam -> Terms] /\ (request[a].context.links = consent => k = cap)
  BY <1>2, <1>3 DEF Terms
<1>5. PICK x : x = [account |-> request[a].context.account, links |-> request[a].context.links, caps |-> k]
  OBVIOUS
<1>6. PICK q : q = [request[a] EXCEPT !.at = "store", !.context = x]
  OBVIOUS
<1>7. x \in Context
  BY <1>2, <1>4, <1>5 DEF Context, ApiRequestState, Terms
<1>8. Moves(a, q)
  <2>1. [request[a].context EXCEPT !.caps = k] = x
    BY <1>2, <1>5 DEF ApiRequestState, Context
  <2>3. [request[a] EXCEPT !.at = "store", !.context.caps = k]
        = [request[a] EXCEPT !.at = "store", !.context = [request[a].context EXCEPT !.caps = k]]
    BY <1>2 DEF ApiRequestState
  <2> QED BY <1>3, <1>6, <2>1, <2>3 DEF LoadCaps
<1>9. q \in ApiRequestState
  BY <1>2, <1>6, <1>7 DEF ApiRequestState
<1>10. RequestAgrees(q)
  BY <1>1, <1>2, <1>4, <1>5, <1>6 DEF RequestAgrees, ReadsAgree, Agrees, Loading
<1> QED BY <1>1, <1>8, <1>9, <1>10, EntryStays, ApiRequestMoves

\* The load that ends last is what the cache keeps.
LEMMA StoreContextKeeps ==
  ASSUME AuthorityInv, NEW a \in ApiRequest, StoreContext(a)
  PROVE  AuthorityInv'
<1>1. /\ UNCHANGED <<accessVars, now, apiAccount, changedAt>> /\ request[a].at = "store"
      /\ entry' = [context |-> request[a].context, expires |-> now + CacheTtl]
  BY DEF StoreContext
<1>2. request[a] \in ApiRequestState /\ RequestAgrees(request[a]) /\ AuthorityTypeOK
  BY AuthorityTimes DEF AuthorityInv, RequestsAgree
<1>3. PICK q : q = [request[a] EXCEPT !.at = "decide"]
  OBVIOUS
<1>4. Moves(a, q)
  BY <1>3 DEF StoreContext
<1>5. /\ q \in ApiRequestState /\ q.at = "decide" /\ q.context = request[a].context /\ q.since = request[a].since
      /\ q.asked = request[a].asked
  BY <1>2, <1>3 DEF ApiRequestState
<1>6. /\ now - request[a].since <= MaxLoad /\ request[a].since <= now /\ request[a].asked \in Needed
      /\ request[a].since > changedAt => Agrees(request[a].context)
  BY <1>1, <1>2 DEF RequestAgrees, ReadsAgree, Loading
<1>7. RequestAgrees(q)
  <2>1. q.since > changedAt + CacheTtl + MaxLoad => q.since > changedAt
    BY <1>2, <1>5, AuthorityTimes
  <2> QED BY <1>5, <1>6, <2>1 DEF RequestAgrees, Loading
<1>8. entry'.context = request[a].context /\ entry'.expires = now + CacheTtl
  BY <1>1
<1>9. entry' \in [context : Context, expires : 0..(MaxClock + CacheTtl)]
  <2>1. request[a].context \in Context /\ now + CacheTtl \in 0..(MaxClock + CacheTtl)
    BY <1>2, AuthorityTimes DEF ApiRequestState
  <2> QED BY <1>1, <2>1
<1>10. EntryAgrees'
  <2>1. now + CacheTtl > changedAt + CacheTtl + MaxLoad => request[a].since > changedAt
    BY <1>2, <1>6, AuthorityTimes
  <2>2. Agrees(request[a].context) => Agrees(entry.context)'
    BY <1>1, <1>8 DEF Agrees, accessVars
  <2>3. now + CacheTtl <= now + CacheTtl
    BY <1>2, AuthorityTimes
  <2> QED BY <1>1, <1>6, <1>8, <2>1, <2>2, <2>3 DEF EntryAgrees
<1> QED BY <1>1, <1>4, <1>5, <1>7, <1>9, <1>10, ApiRequestMoves

\* A request is decided.
LEMMA DecideKeeps ==
  ASSUME AuthorityInv, NEW a \in ApiRequest, NEW list \in BOOLEAN, Decide(a, list)
  PROVE  AuthorityInv'
<1>1. UNCHANGED <<accessVars, now, apiAccount, changedAt, entry>>
  BY DEF Decide
<1>2. PICK to \in {"allowed", "refused"} : Moves(a, [Resting EXCEPT !.at = to])
  BY DEF Decide
<1>3. PICK q : q = [Resting EXCEPT !.at = to]
  OBVIOUS
<1>4. q.at = to /\ q.context = Nobody /\ q.asked = "none" /\ q.since = 0 /\ q \in ApiRequestState
  <2>1. q = [at |-> to, asked |-> "none", context |-> Nobody, since |-> 0]
    BY <1>3 DEF Resting
  <2>2. 0 \in 0..MaxClock
    BY AuthorityAssumption
  <2> QED BY <2>1, <2>2, NothingRead DEF ApiRequestState
<1>5. RequestAgrees(q)
  <2>1. 0 <= now
    BY AuthorityTimes DEF AuthorityInv
  <2> QED BY <1>4, <2>1 DEF RequestAgrees, Loading
<1> QED BY <1>1, <1>2, <1>3, <1>4, <1>5, EntryStays, ApiRequestMoves

\* The first state.
LEMMA AuthorityInitHolds ==
  ASSUME AccessInit, AuthorityInit
  PROVE  AuthorityInv
<1>1. AccessTypeOK
  BY InitInv DEF AccessInv
<1>2. /\ now = 0 /\ changedAt = 0 /\ apiAccount \in ApiAccount \ {"archived"}
      /\ entry = [context |-> Nobody, expires |-> 0] /\ request = [a \in ApiRequest |-> Resting]
  BY DEF AuthorityInit
<1>3. CacheTtl \in Nat /\ MaxLoad \in Nat /\ MaxClock \in Nat
  BY AuthorityAssumption
<1>4. Resting \in ApiRequestState /\ Resting.at = "idle"
  BY <1>3, NothingRead DEF ApiRequestState, Resting
<1>5. AuthorityTypeOK
  BY <1>2, <1>3, <1>4, NothingRead DEF AuthorityTypeOK, ApiRequestState
<1>6. RequestsAgree
  <2>1. RequestAgrees(Resting)
    BY <1>2, <1>4, NothingRead DEF RequestAgrees, Loading
  <2> QED BY <1>2, <2>1 DEF RequestsAgree
<1>7. EntryAgrees
  BY <1>2, <1>3 DEF EntryAgrees
<1> QED BY <1>1, <1>5, <1>6, <1>7 DEF AuthorityInv

\* Every step.
LEMMA AuthorityStepKeeps ==
  ASSUME AuthorityInv, [AuthorityNext]_<<accessVars, authorityVars>>
  PROVE  AuthorityInv'
<1>1. ASSUME NEW a \in ApiRequest,
             \/ \E asked \in Needed : AskApi(a, asked)
             \/ LoadAccount(a) \/ LoadLinks(a) \/ LoadCaps(a) \/ StoreContext(a)
             \/ \E list \in BOOLEAN : Decide(a, list)
      PROVE  AuthorityInv'
  BY <1>1, AskApiKeeps, LoadAccountKeeps, LoadLinksKeeps, LoadCapsKeeps, StoreContextKeeps, DecideKeeps
<1>2. CASE UNCHANGED <<accessVars, authorityVars>>
  <2>1. UNCHANGED <<now, apiAccount, changedAt, entry, request, row, teamRole, inOrg, consent, cap, scope, steady,
                    accessChanges>>
    BY <1>2 DEF accessVars, authorityVars
  <2>2. AccessTypeOK' /\ AuthorityTypeOK'
    BY <2>1 DEF AuthorityInv, AccessTypeOK, AuthorityTypeOK
  <2>3. RequestsAgree' /\ EntryAgrees'
    BY <2>1 DEF AuthorityInv, RequestsAgree, RequestAgrees, ReadsAgree, Agrees, Loading, EntryAgrees
  <2> QED BY <2>2, <2>3 DEF AuthorityInv
<1> QED BY <1>1, <1>2, TickKeeps, AppChangesKeeps, ArchiveAccountKeeps DEF AuthorityNext

\* However requests overlap and whatever the app changes meanwhile, what is read, kept
\* in the cache and decided by is what there was at the last change, from one lifetime
\* of an entry and one load after it (modules/authorization.ts).
THEOREM AuthorityInvariant == AuthoritySpec => []AuthorityInv
<1>1. AccessInit /\ AuthorityInit => AuthorityInv
  BY AuthorityInitHolds
<1>2. AuthorityInv /\ [AuthorityNext]_<<accessVars, authorityVars>> => AuthorityInv'
  BY AuthorityStepKeeps
<1> QED BY <1>1, <1>2, PTL DEF AuthoritySpec

\* "A team leaving an organization or narrowing a link takes effect within one TTL",
\* save for the time a load takes: a request that comes later than that after the last
\* change is decided, as a row or in a list, by what holds now.
THEOREM AuthorityTakesEffect == AuthoritySpec => AuthorityIsRecent
<1> DEFINE live == [account |-> apiAccount, links |-> consent, caps |-> cap]
           Recent(a) ==
             request[a].at = "decide" /\ request[a].since > changedAt + CacheTtl + MaxLoad =>
               /\ request'[a].at = "allowed" => request[a].asked \in EffectivePermissions(live, row.team)
               /\ request'[a].at = "refused" => request[a].asked \notin EffectivePermissions(live, row.team)
<1>1. AuthorityInv /\ [AuthorityNext]_<<accessVars, authorityVars>> => [\A a \in ApiRequest : Recent(a)]_request
  <2> SUFFICES ASSUME AuthorityInv, [AuthorityNext]_<<accessVars, authorityVars>>, NEW a \in ApiRequest,
                      request' # request, request[a].at = "decide",
                      request[a].since > changedAt + CacheTtl + MaxLoad, request'[a].at \in {"allowed", "refused"}
               PROVE  /\ request'[a].at = "allowed" => request[a].asked \in EffectivePermissions(live, row.team)
                      /\ request'[a].at = "refused" => request[a].asked \notin EffectivePermissions(live, row.team)
    OBVIOUS
  <2>1. /\ request \in [ApiRequest -> ApiRequestState] /\ request[a] \in ApiRequestState
        /\ RequestAgrees(request[a]) /\ row.team \in OwningTeam \cup {NoOwner}
    BY AuthorityTimes DEF AuthorityInv, RequestsAgree, AccessTypeOK
  <2>2. PICK list \in BOOLEAN : Decide(a, list)
    <3>1. PICK b \in ApiRequest :
            \/ \E asked \in Needed : AskApi(b, asked)
            \/ LoadAccount(b) \/ LoadLinks(b) \/ LoadCaps(b) \/ StoreContext(b)
            \/ \E list \in BOOLEAN : Decide(b, list)
      BY DEF AuthorityNext, Tick, AppChanges, ArchiveAccount, authorityVars
    <3>2. PICK q : Moves(b, q)
      BY <3>1 DEF AskApi, LoadAccount, LoadLinks, LoadCaps, StoreContext, Decide
    <3>3. b = a
      BY <2>1, <3>2 DEF Moves
    <3>4. ~StoreContext(a) /\ ~LoadAccount(a) /\ ~LoadLinks(a) /\ ~LoadCaps(a) /\ \A asked \in Needed : ~AskApi(a, asked)
      BY DEF StoreContext, LoadAccount, LoadLinks, LoadCaps, AskApi
    <3> QED BY <3>1, <3>3, <3>4
  <2>3. PICK x : x = request[a].context
    OBVIOUS
  <2>4. x \in Context /\ Agrees(x) /\ request[a].asked \in Needed
    BY <2>1, <2>3 DEF RequestAgrees, ApiRequestState
  <2>5. request'[a].at = "allowed" <=> request[a].asked \in EffectivePermissions(x, row.team)
    <3>1. AccessibleWhere(x, request[a].asked, row.team) <=> request[a].asked \in EffectivePermissions(x, row.team)
      BY <2>1, <2>4, AuthorityIsOne
    <3>2. request' = [request EXCEPT ![a] = [Resting EXCEPT !.at =
             IF (IF list THEN AccessibleWhere(x, request[a].asked, row.team)
                 ELSE request[a].asked \in EffectivePermissions(x, row.team)) THEN "allowed" ELSE "refused"]]
      BY <2>2, <2>3 DEF Decide, Moves
    <3>3. request'[a] = [Resting EXCEPT !.at =
             IF request[a].asked \in EffectivePermissions(x, row.team) THEN "allowed" ELSE "refused"]
      BY <2>1, <3>1, <3>2
    <3> QED BY <3>3 DEF Resting
  <2>6. EffectivePermissions(x, row.team) = EffectivePermissions(live, row.team)
    BY <2>4, AgreesDecides
  <2> QED BY <2>5, <2>6
<1> QED BY <1>1, AuthorityInvariant, PTL DEF AuthoritySpec, AuthorityIsRecent
=============================================================================
