--------------------------- MODULE BrowserProofs ---------------------------
(***************************************************************************)
(* Theorems about what the browser and the server decide on copies of one  *)
(* another: the approvals of the identity providers (IdpApprovals), the    *)
(* form of a draft (DraftForm), the assistant's conversations              *)
(* (ChatConversation).                                                     *)
(***************************************************************************)
EXTENDS IdpApprovals, DraftForm, ChatConversation, FiniteSetTheorems, SequenceTheorems, TLAPS

-----------------------------------------------------------------------------
(* The approvals *)

ApprovalSpec == ApprovalsInit /\ [][ApprovalsNext]_approvalVars

\* What a save under way decided, on the copy it read.
Decided(q) ==
  q.busy => /\ ValidIdps(q.copy, q.idps)
            /\ q.flags \cap Voided(q.copy, q.idps) = {}
            /\ q.sets = q.flags \ q.copy.flags

\* Each approval of the row is for a provider it uses, and was given for every
\* provider of its group that it uses.
ApprovalsStand ==
  approvalOddities = {} =>
    \A f \in idpRow.flags : /\ idpRow.idps \cap GroupOf[f] # {}
                            /\ idpRow.idps \cap GroupOf[f] \subseteq seen[f]

ApprovalInv ==
  /\ ApprovalTypeOK
  /\ \A s \in Saver : Decided(saving[s])
  /\ ApprovalsStand

(* No provider joins a group that is approved: validateIDPs refuses it, or the
   group has but one. *)
LEMMA NoneJoins ==
  ASSUME NEW copy \in IdpRow, NEW idps \in SUBSET IdpChoice, ValidIdps(copy, idps),
         NEW f \in copy.flags, copy.idps \cap GroupOf[f] # {}
  PROVE  idps \cap GroupOf[f] \subseteq copy.idps
<1>1. f \in DOMAIN GroupOf /\ copy.idps \subseteq IdpChoice
  BY DEF IdpRow, Flag
<1>2. CASE idps = copy.idps
  BY <1>2
<1>3. CASE idps # copy.idps /\ f \in BceidFlag
  <2>1. GroupOf[f] = BceidGroup
    BY <1>1, <1>3 DEF GroupOf, BceidFlag
  <2>2. (idps \ copy.idps) \cap BceidGroup = {}
    BY <1>3 DEF ValidIdps
  <2> QED BY <2>1, <2>2
<1>4. CASE idps # copy.idps /\ f = "githubApproved"
  <2>1. (idps \ copy.idps) \cap GithubGroup = {} /\ GroupOf[f] = GithubGroup
    BY <1>1, <1>4 DEF ValidIdps, GroupOf, BceidFlag
  <2> QED BY <2>1
<1>5. CASE f \in {"bcServicesCardApproved", "socialApproved", "otpApproved"}
  <2>1. \E i : GroupOf[f] = {i}
    BY <1>1, <1>5 DEF GroupOf, BceidFlag
  <2> QED BY <2>1
<1>6. f \in BceidFlag \cup {"githubApproved", "bcServicesCardApproved", "socialApproved", "otpApproved"}
  BY <1>1 DEF GroupOf
<1> QED BY <1>2, <1>3, <1>4, <1>5, <1>6

(* A save that begins decides on the row as it is. *)
LEMMA BeginDecides ==
  ASSUME ApprovalInv, NEW s \in Saver, NEW idps \in SUBSET IdpChoice, NEW flags \in Payloads,
         BeginSave(s, idps, flags)
  PROVE  ApprovalInv'
<1> DEFINE q == [busy |-> TRUE, copy |-> idpRow, idps |-> idps, flags |-> flags \ Voided(idpRow, idps),
                 sets |-> (flags \ Voided(idpRow, idps)) \ idpRow.flags]
           Saving == [busy : BOOLEAN, copy : IdpRow, idps : SUBSET IdpChoice, flags : SUBSET Flag,
                      sets : SUBSET Flag]
<1>1. idpRow \in IdpRow /\ flags \subseteq Flag
  BY DEF ApprovalInv, ApprovalTypeOK, Payloads, IdpRow
<1>2. q \in Saving
  BY <1>1
<1>3. /\ q.copy = idpRow /\ q.idps = idps /\ q.flags = flags \ Voided(idpRow, idps)
      /\ q.sets = q.flags \ idpRow.flags
  OBVIOUS
<1>4. saving' = [saving EXCEPT ![s] = q] /\ saving \in [Saver -> Saving] /\ ValidIdps(idpRow, idps)
  BY DEF BeginSave, ApprovalInv, ApprovalTypeOK
<1> HIDE DEF q, Saving
<1>5. Decided(q)
  BY <1>3, <1>4 DEF Decided
<1>6. saving' \in [Saver -> Saving] /\ \A r \in Saver : saving'[r] = q \/ saving'[r] = saving[r]
  BY <1>2, <1>4
<1>7. UNCHANGED <<idpRow, saml, seen, approvalOddities>> /\ saves' \in 0..MaxSaves
  BY ApprovalAssumption DEF BeginSave, ApprovalInv, ApprovalTypeOK
<1>8. ApprovalTypeOK'
  BY <1>6, <1>7 DEF ApprovalInv, ApprovalTypeOK, Saving
<1>9. \A r \in Saver : Decided(saving[r])'
  <2> SUFFICES ASSUME NEW r \in Saver PROVE Decided(saving[r])'
    OBVIOUS
  <2>1. Decided(saving'[r])
    BY <1>5, <1>6 DEF ApprovalInv
  <2> QED BY <1>7, <2>1 DEF Decided, ValidIdps
<1>10. ApprovalsStand'
  BY <1>7 DEF ApprovalInv, ApprovalsStand
<1> QED BY <1>8, <1>9, <1>10 DEF ApprovalInv
(* A save that commits on a row it had read keeps every approval to what it was
   given for; one that wrote over another is none of this. *)
LEMMA CommitStands ==
  ASSUME ApprovalInv, NEW s \in Saver, CommitSave(s)
  PROVE  ApprovalsStand'
<1> DEFINE q == saving[s]
<1>1. /\ q.busy /\ Decided(q) /\ idpRow \in IdpRow
      /\ q.copy \in IdpRow /\ q.idps \subseteq IdpChoice /\ q.flags \subseteq Flag /\ q.sets \subseteq Flag
  BY DEF CommitSave, ApprovalInv, ApprovalTypeOK
<1>2. ValidIdps(q.copy, q.idps) /\ q.flags \cap Voided(q.copy, q.idps) = {} /\ q.sets = q.flags \ q.copy.flags
  BY <1>1 DEF Decided
<1>3. /\ idpRow' = [idps |-> IF q.idps # q.copy.idps THEN q.idps ELSE idpRow.idps,
                    flags |-> (idpRow.flags \cup q.sets) \ (q.copy.flags \ q.flags)]
      /\ seen' = [f \in Flag |-> (IF f \in q.sets THEN q.idps \cap GroupOf[f] ELSE seen[f]) \cap idpRow'.idps]
      /\ approvalOddities' = approvalOddities
          \cup (IF q.copy # idpRow THEN {"raced"} ELSE {})
          \cup (IF \E f \in q.sets : q.idps \cap GroupOf[f] = {} THEN {"blank"} ELSE {})
  BY DEF CommitSave
<1> HIDE DEF q
<1> SUFFICES ASSUME approvalOddities' = {}, NEW f \in idpRow'.flags
             PROVE  /\ idpRow'.idps \cap GroupOf[f] # {}
                    /\ idpRow'.idps \cap GroupOf[f] \subseteq seen'[f]
  BY DEF ApprovalsStand
<1>4. approvalOddities = {} /\ q.copy = idpRow /\ \A g \in q.sets : q.idps \cap GroupOf[g] # {}
  BY <1>3
<1>5. /\ \A g \in idpRow.flags : /\ idpRow.idps \cap GroupOf[g] # {}
                               /\ idpRow.idps \cap GroupOf[g] \subseteq seen[g]
      /\ idpRow.flags \subseteq Flag
  BY <1>1, <1>4 DEF ApprovalInv, ApprovalsStand, IdpRow
<1>6. idpRow'.idps = q.idps /\ idpRow'.flags = q.flags /\ f \in Flag
  BY <1>1, <1>2, <1>3, <1>4, <1>5
<1>7. seen'[f] = (IF f \in q.sets THEN q.idps \cap GroupOf[f] ELSE seen[f]) \cap q.idps
  BY <1>3, <1>6
<1>8. CASE f \in q.sets
  BY <1>4, <1>6, <1>7, <1>8
<1>9. CASE f \notin q.sets
  <2>1. f \in q.copy.flags
    BY <1>2, <1>6, <1>9
  <2>2. q.idps \cap GroupOf[f] # {}
    BY <1>2, <1>6, <2>1 DEF Voided
  <2>3. q.idps \cap GroupOf[f] \subseteq q.copy.idps
    BY <1>1, <1>2, <1>4, <1>5, <2>1, NoneJoins
  <2> QED BY <1>4, <1>5, <1>6, <1>7, <1>9, <2>1, <2>2, <2>3
<1> QED BY <1>8, <1>9

(* A save that commits keeps the invariant. *)
LEMMA CommitKeeps ==
  ASSUME ApprovalInv, NEW s \in Saver, CommitSave(s)
  PROVE  ApprovalInv'
<1> DEFINE q == saving[s]
           Saving == [busy : BOOLEAN, copy : IdpRow, idps : SUBSET IdpChoice, flags : SUBSET Flag,
                      sets : SUBSET Flag]
<1>1. q \in Saving /\ idpRow \in IdpRow /\ seen \in [Flag -> SUBSET IdpChoice]
      /\ saving \in [Saver -> Saving] /\ approvalOddities \subseteq {"raced", "blank"}
      /\ saml \in BOOLEAN /\ saves \in 0..MaxSaves
  BY DEF ApprovalInv, ApprovalTypeOK
<1>2. /\ q.copy \in IdpRow /\ q.idps \subseteq IdpChoice /\ q.flags \subseteq Flag /\ q.sets \subseteq Flag
  BY <1>1
<1>3. NoSave \in Saving /\ ~NoSave.busy
  BY DEF NoSave, IdpRow
<1>4. /\ saving' = [saving EXCEPT ![s] = NoSave]
      /\ UNCHANGED <<saml, saves>>
      /\ idpRow' = [idps |-> IF q.idps # q.copy.idps THEN q.idps ELSE idpRow.idps,
                    flags |-> (idpRow.flags \cup q.sets) \ (q.copy.flags \ q.flags)]
      /\ seen' = [f \in Flag |-> (IF f \in q.sets THEN q.idps \cap GroupOf[f] ELSE seen[f]) \cap idpRow'.idps]
      /\ approvalOddities' \subseteq {"raced", "blank"}
  BY <1>1 DEF CommitSave
<1> HIDE DEF q, Saving
<1>5. idpRow' \in IdpRow
  BY <1>1, <1>2, <1>4 DEF IdpRow
<1>6. seen' \in [Flag -> SUBSET IdpChoice]
  <2>1. idpRow'.idps \subseteq IdpChoice
    BY <1>5 DEF IdpRow
  <2> QED BY <1>4, <2>1
<1>7. saving' \in [Saver -> Saving]
  BY <1>1, <1>3, <1>4
<1>8. ApprovalTypeOK'
  BY <1>1, <1>4, <1>5, <1>6, <1>7 DEF ApprovalTypeOK, Saving
<1>9. \A r \in Saver : Decided(saving[r])'
  <2> SUFFICES ASSUME NEW r \in Saver PROVE Decided(saving[r])'
    OBVIOUS
  <2>1. saving'[r] = NoSave \/ saving'[r] = saving[r]
    BY <1>1, <1>4
  <2>2. Decided(saving[r])
    BY DEF ApprovalInv
  <2> QED BY <1>3, <1>4, <2>1, <2>2 DEF Decided, ValidIdps
<1> QED BY <1>8, <1>9, CommitStands DEF ApprovalInv

(* The invariant of the approvals. *)
THEOREM ApprovalsInvariant == ApprovalSpec => []ApprovalInv
<1>1. ApprovalsInit => ApprovalInv
  <2> SUFFICES ASSUME ApprovalsInit PROVE ApprovalInv
    OBVIOUS
  <2>1. ApprovalTypeOK
    BY ApprovalAssumption DEF ApprovalsInit, ApprovalTypeOK, NoSave, IdpRow
  <2>2. \A s \in Saver : ~saving[s].busy
    BY DEF ApprovalsInit, NoSave
  <2>3. idpRow.flags = {}
    BY DEF ApprovalsInit
  <2> QED BY <2>1, <2>2, <2>3 DEF ApprovalInv, Decided, ApprovalsStand
<1>2. ApprovalInv /\ [ApprovalsNext]_approvalVars => ApprovalInv'
  <2> SUFFICES ASSUME ApprovalInv, [ApprovalsNext]_approvalVars PROVE ApprovalInv'
    OBVIOUS
  <2>1. CASE ApprovalsNext
    <3>1. PICK s \in Saver : \/ CommitSave(s)
                            \/ \E idps \in SUBSET IdpChoice, flags \in Payloads : BeginSave(s, idps, flags)
      BY <2>1 DEF ApprovalsNext
    <3> QED BY <3>1, CommitKeeps, BeginDecides
  <2>2. CASE UNCHANGED approvalVars
    BY <2>2 DEF approvalVars, ApprovalInv, ApprovalTypeOK, Decided, ValidIdps, ApprovalsStand
  <2> QED BY <2>1, <2>2
<1> QED BY <1>1, <1>2, PTL DEF ApprovalSpec

(* permissions.ts: what an environment gets, the approver was shown. *)
THEOREM DeliveredIsApproved == ApprovalSpec => []DeliveredWasApproved
<1>1. ApprovalInv => DeliveredWasApproved
  <2> SUFFICES ASSUME ApprovalInv, approvalOddities = {}, NEW env \in {"dev", "test", "prod"},
                      NEW i \in Delivered(env), NEW f \in ApprovalsNeeded(env, i)
               PROVE  i \in seen[f]
    BY DEF DeliveredWasApproved
  <2>1. f \in idpRow.flags /\ i \in idpRow.idps /\ i \in GroupOf[f]
    BY DEF Delivered, ApprovalsNeeded
  <2> QED BY <2>1 DEF ApprovalInv, ApprovalsStand
<1> QED BY <1>1, ApprovalsInvariant, PTL

-----------------------------------------------------------------------------
(* The conversations *)

ChatSpec == ChatInit /\ [][ChatNext]_chatVars

Phase == {"asked", "sent", "streaming", "answered", "failed", "aborted"}
UnderWay == {"asked", "sent", "streaming"}
TurnOf == [by : ChatUser, tab : Tab, conv : Nat, session : Nat, phase : Phase, stored : {"no", "yes", "deleted"}]
RemovalOf == [op : {"reset", "history"}, by : ChatUser, tab : Tab, conv : Nat, session : Nat, awaited : BOOLEAN]

ChatShape ==
  /\ chatUser \in [Tab -> ChatUser] /\ conv \in [Tab -> Nat] /\ turns \in Seq(TurnOf)
  /\ screen \in [Tab -> SUBSET (DOMAIN turns)]
  /\ kept \in [Tab -> [owner : ChatUser, turns : SUBSET (DOMAIN turns)]]
  /\ cookie \in [owner : ChatUser, session : Nat] /\ removal \subseteq RemovalOf

\* The turn that a session is named after is the first one asked in it.
Begins(s, u) == s \in DOMAIN turns /\ turns[s].session = s /\ turns[s].by = u

\* A session is that of the user who began it, in the turns and in the cookie.
SessionsOwned ==
  /\ \A i \in DOMAIN turns :
       /\ turns[i].phase = "asked" => turns[i].session = NoSession
       /\ turns[i].session # NoSession => Begins(turns[i].session, turns[i].by)
  /\ cookie.session # NoSession => Begins(cookie.session, cookie.owner)

\* A tab shows its user's turns of the conversation it goes on with, keeps
\* those that have ended, and has one under way at most.
TurnFits(t, i) ==
  /\ turns[i].by = chatUser[t] /\ turns[i].tab = t /\ turns[i].phase # "aborted"
  /\ turns[i].phase \in {"sent", "streaming", "answered"} => turns[i].conv = conv[t]
  /\ turns[i].phase = "answered" => turns[i].stored # "no"
OneUnderWay(t) ==
  \A i, j \in DOMAIN turns :
    (turns[i].tab = t /\ turns[j].tab = t /\ turns[i].phase \in UnderWay /\ turns[j].phase \in UnderWay)
      => i = j
PageOwned(t) ==
  /\ kept[t].owner = chatUser[t] /\ kept[t].turns \subseteq screen[t]
  /\ \A i \in screen[t] : TurnFits(t, i)
  /\ \A i \in kept[t].turns : turns[i].phase \notin UnderWay
  /\ OneUnderWay(t)

ChatInv == ChatShape /\ SessionsOwned /\ \A t \in Tab : PageOwned(t)

(* Turns are numbered as they were asked. *)
LEMMA TurnNumbers ==
  ASSUME ChatShape
  PROVE  /\ DOMAIN turns = 1..Len(turns) /\ Len(turns) \in Nat
         /\ \A i \in DOMAIN turns : turns[i] \in TurnOf /\ i # NoSession
  BY LenProperties, ElementOfSeq DEF ChatShape, NoSession

(* One turn gets another phase, session, ... *)
LEMMA TurnChanges ==
  ASSUME ChatShape, NEW i \in DOMAIN turns, NEW v \in TurnOf, turns' = [turns EXCEPT ![i] = v]
  PROVE  /\ turns' \in Seq(TurnOf) /\ DOMAIN turns' = DOMAIN turns
         /\ turns'[i] = v /\ \A j \in DOMAIN turns \ {i} : turns'[j] = turns[j]
  BY TurnNumbers, ExceptSeq DEF ChatShape

(* ... or many do. *)
LEMMA TurnsChange ==
  ASSUME ChatShape, NEW f, DOMAIN f = DOMAIN turns, f = [i \in DOMAIN turns |-> f[i]],
         \A i \in DOMAIN turns : f[i] \in TurnOf
  PROVE  f \in Seq(TurnOf)
<1>1. f \in [1..Len(turns) -> TurnOf] /\ Len(turns) \in Nat
  BY TurnNumbers
<1> QED BY <1>1, SeqDef

\* A turn keeps who asked it, where and in which conversation and phase.
SteadyTurn(i) ==
  /\ turns'[i].by = turns[i].by /\ turns'[i].tab = turns[i].tab /\ turns'[i].phase = turns[i].phase
  /\ turns'[i].conv = turns[i].conv /\ turns'[i].session = turns[i].session
  /\ turns[i].stored # "no" => turns'[i].stored # "no"

(* A tab whose turns keep steady stays as it is. *)
LEMMA PageSteady ==
  ASSUME ChatShape, NEW t \in Tab, PageOwned(t),
         chatUser'[t] = chatUser[t], conv'[t] = conv[t], screen'[t] = screen[t], kept'[t] = kept[t],
         DOMAIN turns \subseteq DOMAIN turns',
         \A i \in DOMAIN turns : turns[i].tab = t => SteadyTurn(i),
         \A i \in DOMAIN turns : turns[i].tab # t => turns'[i].tab # t,
         \A i \in DOMAIN turns' \ DOMAIN turns : turns'[i].tab # t
  PROVE  PageOwned(t)'
<1>1. screen[t] \subseteq DOMAIN turns
  BY DEF ChatShape
<1>2. ASSUME NEW i \in screen[t] PROVE TurnFits(t, i)' /\ turns'[i].phase = turns[i].phase
  <2>1. TurnFits(t, i) /\ i \in DOMAIN turns
    BY <1>1, <1>2 DEF PageOwned
  <2> QED BY <2>1 DEF TurnFits, SteadyTurn
<1>3. OneUnderWay(t)'
  BY DEF OneUnderWay, PageOwned, SteadyTurn
<1> QED BY <1>2, <1>3 DEF PageOwned

(* Where no turn gets or changes a session, sessions stay owned. *)
LEMMA SessionsStay ==
  ASSUME ChatShape, SessionsOwned, DOMAIN turns \subseteq DOMAIN turns',
         \A i \in DOMAIN turns : /\ turns'[i].by = turns[i].by /\ turns'[i].session = turns[i].session
                                 /\ turns'[i].phase = "asked" => turns[i].phase = "asked",
         \A i \in DOMAIN turns' \ DOMAIN turns : turns'[i].session = NoSession,
         cookie' = cookie \/ cookie'.session = NoSession
  PROVE  SessionsOwned'
<1>1. ASSUME NEW s, NEW v, Begins(s, v) PROVE Begins(s, v)'
  BY <1>1 DEF Begins
<1>2. ASSUME NEW i \in DOMAIN turns'
      PROVE  /\ turns'[i].phase = "asked" => turns'[i].session = NoSession
             /\ turns'[i].session # NoSession => Begins(turns[i].session, turns[i].by)'
  <2>1. CASE i \in DOMAIN turns
    BY <1>1, <2>1 DEF SessionsOwned
  <2> QED BY <1>2, <2>1
<1>3. cookie'.session # NoSession => Begins(cookie.session, cookie.owner)'
  BY <1>1 DEF SessionsOwned
<1> QED BY <1>2, <1>3 DEF SessionsOwned

(* Where no turn begins, a tab has one under way at most, still. *)
LEMMA OneStays ==
  ASSUME NEW t \in Tab, PageOwned(t), DOMAIN turns' = DOMAIN turns,
         \A i \in DOMAIN turns : /\ turns'[i].tab = turns[i].tab
                                 /\ turns'[i].phase \in UnderWay => turns[i].phase \in UnderWay
  PROVE  OneUnderWay(t)'
  BY DEF PageOwned, OneUnderWay

(* A turn of a tab goes on, and the tab keeps what it kept or all it shows. *)
LEMMA TurnGoesOn ==
  ASSUME ChatInv, NEW i \in DOMAIN turns, NEW v \in TurnOf, turns' = [turns EXCEPT ![i] = v],
         v.by = turns[i].by, v.tab = turns[i].tab,
         v.phase \in UnderWay => turns[i].phase \in UnderWay,
         v.phase # "aborted" \/ turns[i].phase = "aborted",
         v.phase \in {"sent", "streaming", "answered"} =>
           \/ v.conv = conv[turns[i].tab]
           \/ turns[i].phase \in {"sent", "streaming", "answered"} /\ v.conv = turns[i].conv,
         v.phase = "answered" => v.stored # "no",
         UNCHANGED <<chatUser, conv, screen>>,
         \/ kept' = kept
         \/ /\ v.phase \notin UnderWay /\ turns[i].phase \in UnderWay
            /\ kept' = [kept EXCEPT ![turns[i].tab] =
                          [owner |-> chatUser[turns[i].tab], turns |-> screen[turns[i].tab]]]
  PROVE  \A t \in Tab : PageOwned(t)'
<1> SUFFICES ASSUME NEW t \in Tab PROVE PageOwned(t)'
  OBVIOUS
<1>1. /\ DOMAIN turns' = DOMAIN turns /\ turns'[i] = v
      /\ \A j \in DOMAIN turns \ {i} : turns'[j] = turns[j]
  BY TurnChanges DEF ChatInv
<1>2. PageOwned(t) /\ screen[t] \subseteq DOMAIN turns
  BY DEF ChatInv, ChatShape
<1>3. OneUnderWay(t)'
  BY <1>1, <1>2, OneStays
<1>4. ASSUME NEW j \in screen[t] PROVE TurnFits(t, j)'
  <2>1. TurnFits(t, j) /\ j \in DOMAIN turns
    BY <1>2, <1>4 DEF PageOwned
  <2> QED BY <1>1, <2>1 DEF TurnFits
<1>5. CASE kept'[t] = kept[t]
  <2>1. \A j \in kept[t].turns : turns'[j].phase \notin UnderWay
    BY <1>1, <1>2 DEF PageOwned
  <2> QED BY <1>2, <1>3, <1>4, <1>5, <2>1 DEF PageOwned
<1>6. CASE kept'[t] # kept[t]
  <2>1. /\ v.phase \notin UnderWay /\ turns[i].phase \in UnderWay /\ turns[i].tab = t
        /\ kept'[t] = [owner |-> chatUser[t], turns |-> screen[t]]
    BY <1>6 DEF ChatInv, ChatShape
  <2>2. \A j \in screen[t] : turns'[j].phase \notin UnderWay
    BY <1>1, <1>2, <2>1 DEF PageOwned, TurnFits, OneUnderWay
  <2> QED BY <1>3, <1>4, <2>1, <2>2 DEF PageOwned
<1> QED BY <1>5, <1>6

(* What a tab keeps when it saves what it shows. *)
LEMMA Saves ==
  ASSUME ChatShape, NEW t \in Tab, NEW all \in SUBSET (DOMAIN turns),
         kept' = [kept EXCEPT ![t] = [owner |-> chatUser[t], turns |-> all]]
  PROVE  kept' \in [Tab -> [owner : ChatUser, turns : SUBSET (DOMAIN turns)]]
<1>1. [owner |-> chatUser[t], turns |-> all] \in [owner : ChatUser, turns : SUBSET (DOMAIN turns)]
  BY DEF ChatShape
<1> QED BY <1>1 DEF ChatShape

(* A call leaves. *)
LEMMA SendKeeps ==
  ASSUME ChatInv, NEW i \in DOMAIN turns, Send(i)
  PROVE  ChatInv'
<1> DEFINE carried == OwnedSession(turns[i].by)
           s == IF carried = NoSession THEN i ELSE carried
           v == [turns[i] EXCEPT !.phase = "sent", !.conv = conv[turns[i].tab], !.session = s]
<1>1. turns[i] \in TurnOf /\ turns[i].phase = "asked" /\ i \in Nat /\ i # NoSession
      /\ DOMAIN turns = 1..Len(turns) /\ turns[i].tab \in Tab
  BY TurnNumbers DEF ChatInv, Send, TurnOf
<1>2. /\ turns' = [turns EXCEPT ![i] = v]
      /\ UNCHANGED <<chatUser, conv, screen, kept, cookie, removal>>
  BY DEF Send
<1>3. s \in Nat /\ conv[turns[i].tab] \in Nat
  BY <1>1 DEF ChatInv, ChatShape, OwnedSession, NoSession
<1>4. carried # NoSession => Begins(carried, turns[i].by)
  BY DEF OwnedSession, ChatInv, SessionsOwned
<1> HIDE DEF carried
<1>5. s = IF carried = NoSession THEN i ELSE carried
  OBVIOUS
<1> HIDE DEF s
<1>6. /\ v \in TurnOf /\ v.phase = "sent" /\ v.conv = conv[turns[i].tab] /\ v.session = s
      /\ v.by = turns[i].by /\ v.tab = turns[i].tab
  BY <1>1, <1>3 DEF TurnOf, Phase
<1> HIDE DEF v
<1>7. /\ turns' \in Seq(TurnOf) /\ DOMAIN turns' = DOMAIN turns
      /\ turns'[i] = v /\ \A j \in DOMAIN turns \ {i} : turns'[j] = turns[j]
  BY <1>2, <1>6, TurnChanges DEF ChatInv
<1>8. ChatShape'
  BY <1>2, <1>7 DEF ChatInv, ChatShape
<1>9. \A t \in Tab : PageOwned(t)'
  BY <1>1, <1>2, <1>6, TurnGoesOn DEF UnderWay
<1>10. SessionsOwned'
  <2>1. turns[i].session = NoSession
    BY <1>1 DEF ChatInv, SessionsOwned
  <2>2. ASSUME NEW r, NEW u, r # NoSession, Begins(r, u) PROVE Begins(r, u)'
    BY <1>7, <2>1, <2>2 DEF Begins
  <2>3. s \in DOMAIN turns' /\ turns'[s].session = s /\ turns'[s].by = turns[i].by
    <3>1. CASE carried = NoSession
      BY <1>5, <1>6, <1>7, <3>1
    <3>2. CASE carried # NoSession
      <4>1. Begins(s, turns[i].by)
        BY <1>4, <1>5, <3>2
      <4> QED BY <1>5, <1>6, <1>7, <2>1, <3>2, <4>1 DEF Begins
    <3> QED BY <3>1, <3>2
  <2>4. ASSUME NEW j \in DOMAIN turns'
        PROVE  /\ turns'[j].phase = "asked" => turns'[j].session = NoSession
               /\ turns'[j].session # NoSession => Begins(turns[j].session, turns[j].by)'
    <3>1. CASE j = i
      BY <1>6, <1>7, <2>3, <3>1 DEF Begins
    <3>2. CASE j # i
      <4>1. turns'[j] = turns[j] /\ j \in DOMAIN turns
        BY <1>7, <2>4, <3>2
      <4>2. turns[j].session # NoSession => Begins(turns[j].session, turns[j].by)
        BY <4>1 DEF ChatInv, SessionsOwned
      <4>3. turns[j].session # NoSession => turns[j].session \in DOMAIN turns /\ turns[j].session # i
        BY <2>1, <4>2 DEF Begins
      <4> QED BY <1>7, <4>1, <4>2, <4>3 DEF Begins, ChatInv, SessionsOwned
    <3> QED BY <3>1, <3>2
  <2>5. cookie'.session # NoSession => Begins(cookie.session, cookie.owner)'
    BY <1>2, <2>2 DEF ChatInv, SessionsOwned
  <2> QED BY <2>4, <2>5 DEF SessionsOwned
<1> QED BY <1>8, <1>9, <1>10 DEF ChatInv

(* A turn that keeps its session goes on. *)
LEMMA GoingOnKeeps ==
  ASSUME ChatInv, NEW i \in DOMAIN turns, NEW v \in TurnOf, turns' = [turns EXCEPT ![i] = v],
         v.by = turns[i].by, v.tab = turns[i].tab, v.conv = turns[i].conv,
         v.session = turns[i].session, v.phase # "asked" \/ turns[i].phase = "asked",
         v.phase \in UnderWay => turns[i].phase \in UnderWay,
         v.phase # "aborted" \/ turns[i].phase = "aborted",
         v.phase \in {"sent", "streaming", "answered"} => turns[i].phase \in {"sent", "streaming", "answered"},
         v.phase = "answered" => v.stored # "no",
         UNCHANGED <<chatUser, conv, screen, removal>>,
         \/ cookie' = cookie
         \/ cookie' = [owner |-> turns[i].by, session |-> turns[i].session],
         \/ kept' = kept
         \/ /\ v.phase \notin UnderWay /\ turns[i].phase \in UnderWay
            /\ kept' = [kept EXCEPT ![turns[i].tab] =
                          [owner |-> chatUser[turns[i].tab], turns |-> screen[turns[i].tab]]]
  PROVE  ChatInv'
<1>1. /\ turns' \in Seq(TurnOf) /\ DOMAIN turns' = DOMAIN turns
      /\ turns'[i] = v /\ \A j \in DOMAIN turns \ {i} : turns'[j] = turns[j]
  BY TurnChanges DEF ChatInv
<1>2. turns[i] \in TurnOf
  BY TurnNumbers DEF ChatInv
<1>3. \A t \in Tab : PageOwned(t)'
  BY TurnGoesOn
<1>4. ChatShape'
  <2>1. cookie' \in [owner : ChatUser, session : Nat]
    BY <1>2 DEF ChatInv, ChatShape, TurnOf
  <2>2. kept' \in [Tab -> [owner : ChatUser, turns : SUBSET (DOMAIN turns)]]
    <3>1. turns[i].tab \in Tab
      BY <1>2 DEF TurnOf
    <3>2. screen[turns[i].tab] \in SUBSET (DOMAIN turns)
      BY <3>1 DEF ChatInv, ChatShape
    <3> QED BY <3>1, <3>2, Saves DEF ChatInv, ChatShape
  <2> QED BY <1>1, <2>1, <2>2 DEF ChatInv, ChatShape
<1>5. SessionsOwned'
  <2>1. ASSUME NEW s, NEW u, Begins(s, u) PROVE Begins(s, u)'
    BY <1>1, <2>1 DEF Begins
  <2>2. ASSUME NEW j \in DOMAIN turns'
        PROVE  /\ turns'[j].phase = "asked" => turns'[j].session = NoSession
               /\ turns'[j].session # NoSession => Begins(turns[j].session, turns[j].by)'
    <3>1. /\ turns[j].phase = "asked" => turns[j].session = NoSession
          /\ turns[j].session # NoSession => Begins(turns[j].session, turns[j].by)
      BY <1>1 DEF ChatInv, SessionsOwned
    <3>2. turns'[j].session = turns[j].session /\ turns'[j].by = turns[j].by
          /\ (turns'[j].phase = "asked" => turns[j].phase = "asked")
      BY <1>1
    <3> QED BY <2>1, <3>1, <3>2
  <2>3. cookie'.session # NoSession => Begins(cookie.session, cookie.owner)'
    BY <2>1 DEF ChatInv, SessionsOwned
  <2> QED BY <2>2, <2>3 DEF SessionsOwned
<1> QED BY <1>3, <1>4, <1>5 DEF ChatInv

(* The headers of an answer, the end of a turn upstream, its end in the tab. *)
LEMMA AnswersKeep ==
  ASSUME ChatInv, NEW i \in DOMAIN turns,
         BeginAnswer(i) \/ UpstreamEnds(i) \/ Complete(i) \/ FailTurn(i)
  PROVE  ChatInv'
<1>1. turns[i] \in TurnOf /\ turns[i].tab \in Tab
  BY TurnNumbers DEF ChatInv, TurnOf
<1>2. CASE BeginAnswer(i)
  <2> DEFINE v == [turns[i] EXCEPT !.phase = "streaming"]
  <2>1. /\ v \in TurnOf /\ v.phase = "streaming" /\ v.by = turns[i].by /\ v.tab = turns[i].tab
        /\ v.conv = turns[i].conv /\ v.session = turns[i].session
    BY <1>1 DEF TurnOf, Phase
  <2>2. /\ turns' = [turns EXCEPT ![i] = v] /\ turns[i].phase = "sent"
        /\ UNCHANGED <<chatUser, conv, screen, kept, removal>>
        /\ cookie' = [owner |-> turns[i].by, session |-> turns[i].session]
    BY <1>2 DEF BeginAnswer
  <2> HIDE DEF v
  <2> QED BY <2>1, <2>2, GoingOnKeeps DEF UnderWay
<1>3. CASE UpstreamEnds(i)
  <2> DEFINE v == [turns[i] EXCEPT !.stored = "yes"]
  <2>1. /\ v \in TurnOf /\ v.phase = turns[i].phase /\ v.by = turns[i].by /\ v.tab = turns[i].tab
        /\ v.conv = turns[i].conv /\ v.session = turns[i].session /\ v.stored = "yes"
    BY <1>1 DEF TurnOf, Phase
  <2>2. /\ turns' = [turns EXCEPT ![i] = v]
        /\ UNCHANGED <<chatUser, conv, screen, kept, removal, cookie>>
    BY <1>3 DEF UpstreamEnds
  <2> HIDE DEF v
  <2> QED BY <2>1, <2>2, GoingOnKeeps DEF UnderWay
<1>4. CASE Complete(i)
  <2> DEFINE v == [turns[i] EXCEPT !.phase = "answered"]
  <2>1. /\ v \in TurnOf /\ v.phase = "answered" /\ v.by = turns[i].by /\ v.tab = turns[i].tab
        /\ v.conv = turns[i].conv /\ v.session = turns[i].session /\ v.stored = turns[i].stored
    BY <1>1 DEF TurnOf, Phase
  <2>2. /\ turns' = [turns EXCEPT ![i] = v] /\ turns[i].phase = "streaming" /\ turns[i].stored # "no"
        /\ UNCHANGED <<chatUser, conv, screen, removal, cookie>>
        /\ kept' = [kept EXCEPT ![turns[i].tab] =
                      [owner |-> chatUser[turns[i].tab], turns |-> screen[turns[i].tab]]]
    BY <1>1, <1>4 DEF Complete, Shows, Kept, ChatInv, ChatShape
  <2> HIDE DEF v
  <2> QED BY <2>1, <2>2, GoingOnKeeps DEF UnderWay
<1>5. CASE FailTurn(i)
  <2> DEFINE v == [turns[i] EXCEPT !.phase = "failed"]
  <2>1. /\ v \in TurnOf /\ v.phase = "failed" /\ v.by = turns[i].by /\ v.tab = turns[i].tab
        /\ v.conv = turns[i].conv /\ v.session = turns[i].session /\ v.stored = turns[i].stored
    BY <1>1 DEF TurnOf, Phase
  <2>2. /\ turns' = [turns EXCEPT ![i] = v] /\ turns[i].phase \in UnderWay
        /\ UNCHANGED <<chatUser, conv, screen, removal, cookie>>
        /\ kept' = [kept EXCEPT ![turns[i].tab] =
                      [owner |-> chatUser[turns[i].tab], turns |-> screen[turns[i].tab]]]
    BY <1>1, <1>5 DEF FailTurn, LiveTurns, UnderWay, Shows, Kept, ChatInv, ChatShape
  <2> HIDE DEF v
  <2> QED BY <2>1, <2>2, GoingOnKeeps DEF UnderWay
<1> QED BY <1>2, <1>3, <1>4, <1>5

(* A question is asked in a tab that has none under way. *)
LEMMA AskKeeps ==
  ASSUME ChatInv, NEW t \in Tab, Ask(t)
  PROVE  ChatInv'
<1>0. PICK n : n = Len(turns) + 1
  OBVIOUS
<1> DEFINE v == [by |-> chatUser[t], tab |-> t, conv |-> conv[t], session |-> NoSession, phase |-> "asked",
                 stored |-> "no"]
<1>1. /\ v \in TurnOf /\ v.by = chatUser[t] /\ v.tab = t /\ v.phase = "asked" /\ v.session = NoSession
  BY DEF ChatInv, ChatShape, TurnOf, Phase, NoSession
<1>2. /\ LiveTurns(t) = {} /\ turns' = Append(turns, v)
      /\ UNCHANGED <<chatUser, conv, cookie, removal>>
      /\ screen' = [screen EXCEPT ![t] = screen[t] \cup {n}]
      /\ kept' = [kept EXCEPT ![t] = [owner |-> chatUser[t], turns |-> (screen[t] \cup {n}) \ {n}]]
  BY <1>0 DEF Ask, Shows, Kept
<1> HIDE DEF v
<1>3. /\ turns' \in Seq(TurnOf) /\ n \notin DOMAIN turns /\ n # NoSession
      /\ DOMAIN turns' = DOMAIN turns \cup {n}
      /\ turns'[n] = v /\ \A i \in DOMAIN turns : turns'[i] = turns[i]
  <2>1. /\ turns' \in Seq(TurnOf) /\ Len(turns') = n /\ turns'[n] = v
        /\ \A i \in 1..Len(turns) : turns'[i] = turns[i]
    BY <1>0, <1>1, <1>2, AppendProperties DEF ChatInv, ChatShape
  <2>2. DOMAIN turns = 1..Len(turns) /\ Len(turns) \in Nat
    BY TurnNumbers DEF ChatInv
  <2>3. DOMAIN turns' = 1..n
    BY <2>1, LenProperties
  <2> QED BY <1>0, <2>1, <2>2, <2>3 DEF NoSession
<1>4. screen[t] \subseteq DOMAIN turns /\ PageOwned(t)
  BY DEF ChatInv, ChatShape
<1>5. ChatShape'
  <2>1. screen' \in [Tab -> SUBSET (DOMAIN turns')]
    BY <1>2, <1>3 DEF ChatInv, ChatShape
  <2>2. [owner |-> chatUser[t], turns |-> (screen[t] \cup {n}) \ {n}] \in [owner : ChatUser, turns : SUBSET (DOMAIN turns')]
    BY <1>3, <1>4 DEF ChatInv, ChatShape
  <2>3. \A r \in Tab : kept[r] \in [owner : ChatUser, turns : SUBSET (DOMAIN turns')]
    BY <1>3 DEF ChatInv, ChatShape
  <2>4. kept' \in [Tab -> [owner : ChatUser, turns : SUBSET (DOMAIN turns')]]
    BY <1>2, <2>2, <2>3 DEF ChatInv, ChatShape
  <2> QED BY <1>2, <1>3, <2>1, <2>4 DEF ChatInv, ChatShape
<1>6. SessionsOwned'
  BY <1>1, <1>2, <1>3, SessionsStay DEF ChatInv
<1>7. ASSUME NEW r \in Tab, r # t PROVE PageOwned(r)'
  <2>1. /\ chatUser'[r] = chatUser[r] /\ conv'[r] = conv[r] /\ screen'[r] = screen[r] /\ kept'[r] = kept[r]
    BY <1>2, <1>7 DEF ChatInv, ChatShape
  <2>2. \A i \in DOMAIN turns : SteadyTurn(i)
    BY <1>3 DEF SteadyTurn
  <2>3. \A i \in DOMAIN turns' \ DOMAIN turns : turns'[i].tab # r
    BY <1>1, <1>3, <1>7
  <2> QED BY <1>3, <2>1, <2>2, <2>3, PageSteady DEF ChatInv, SteadyTurn
<1>8. PageOwned(t)'
  <2>1. /\ screen'[t] = screen[t] \cup {n} /\ kept'[t].owner = chatUser[t] /\ kept'[t].turns = screen[t]
        /\ chatUser'[t] = chatUser[t] /\ conv'[t] = conv[t]
    BY <1>2, <1>3, <1>4 DEF ChatInv, ChatShape
  <2>2. \A i \in DOMAIN turns : turns[i].tab = t => turns[i].phase \notin UnderWay
    BY <1>2 DEF LiveTurns, UnderWay
  <2>3. TurnFits(t, n)'
    BY <1>1, <1>3, <2>1 DEF TurnFits
  <2>4. ASSUME NEW i \in screen[t] PROVE TurnFits(t, i)' /\ turns'[i].phase \notin UnderWay
    <3>1. TurnFits(t, i) /\ turns'[i] = turns[i] /\ i \in DOMAIN turns
      BY <1>3, <1>4, <2>4 DEF PageOwned
    <3> QED BY <2>1, <2>2, <3>1 DEF TurnFits
  <2>5. OneUnderWay(t)'
    BY <1>3, <2>2 DEF OneUnderWay
  <2> QED BY <2>1, <2>3, <2>4, <2>5 DEF PageOwned
<1> QED BY <1>5, <1>6, <1>7, <1>8 DEF ChatInv

(* stopStreaming ends the turns under way of one tab. *)
LEMMA StoppedTurns ==
  ASSUME ChatShape, NEW t \in Tab, NEW phase \in {"failed", "aborted"}
  PROVE  /\ Stopped(t, phase) \in Seq(TurnOf) /\ DOMAIN Stopped(t, phase) = DOMAIN turns
         /\ \A i \in DOMAIN turns :
              /\ Stopped(t, phase)[i].by = turns[i].by /\ Stopped(t, phase)[i].tab = turns[i].tab
              /\ Stopped(t, phase)[i].conv = turns[i].conv
              /\ Stopped(t, phase)[i].session = turns[i].session
              /\ Stopped(t, phase)[i].stored = turns[i].stored
              /\ Stopped(t, phase)[i].phase =
                   IF turns[i].tab = t /\ turns[i].phase \in UnderWay THEN phase ELSE turns[i].phase
<1> DEFINE f == Stopped(t, phase)
<1>1. ASSUME NEW i \in DOMAIN turns
      PROVE  /\ f[i] \in TurnOf
             /\ f[i].by = turns[i].by /\ f[i].tab = turns[i].tab /\ f[i].conv = turns[i].conv
             /\ f[i].session = turns[i].session /\ f[i].stored = turns[i].stored
             /\ f[i].phase = IF turns[i].tab = t /\ turns[i].phase \in UnderWay THEN phase ELSE turns[i].phase
  <2> DEFINE v == [turns[i] EXCEPT !.phase = phase]
  <2>1. turns[i] \in TurnOf
    BY <1>1, TurnNumbers
  <2>2. /\ v \in TurnOf /\ v.by = turns[i].by /\ v.tab = turns[i].tab /\ v.conv = turns[i].conv
        /\ v.session = turns[i].session /\ v.stored = turns[i].stored /\ v.phase = phase
    BY <2>1 DEF TurnOf, Phase
  <2>3. f[i] = IF turns[i].tab = t /\ turns[i].phase \in UnderWay THEN v ELSE turns[i]
    BY <1>1 DEF Stopped, LiveTurns, UnderWay
  <2> HIDE DEF v, f
  <2> QED BY <2>1, <2>2, <2>3
<1>2. DOMAIN f = DOMAIN turns /\ f = [i \in DOMAIN turns |-> f[i]]
  BY DEF Stopped
<1> HIDE DEF f
<1>3. f \in Seq(TurnOf)
  BY <1>1, <1>2, TurnsChange
<1> QED BY <1>1, <1>2, <1>3 DEF f

(* A removal marks turns that were saved. *)
LEMMA DeletedTurns ==
  ASSUME ChatShape, NEW c
  PROVE  /\ Deleted(c) \in Seq(TurnOf) /\ DOMAIN Deleted(c) = DOMAIN turns
         /\ \A i \in DOMAIN turns :
              /\ Deleted(c)[i].by = turns[i].by /\ Deleted(c)[i].tab = turns[i].tab
              /\ Deleted(c)[i].conv = turns[i].conv /\ Deleted(c)[i].session = turns[i].session
              /\ Deleted(c)[i].phase = turns[i].phase
              /\ turns[i].stored # "no" => Deleted(c)[i].stored # "no"
<1> DEFINE f == Deleted(c)
<1>1. ASSUME NEW i \in DOMAIN turns
      PROVE  /\ f[i] \in TurnOf
             /\ f[i].by = turns[i].by /\ f[i].tab = turns[i].tab /\ f[i].conv = turns[i].conv
             /\ f[i].session = turns[i].session /\ f[i].phase = turns[i].phase
             /\ turns[i].stored # "no" => f[i].stored # "no"
  <2> DEFINE v == [turns[i] EXCEPT !.stored = "deleted"]
  <2>1. turns[i] \in TurnOf
    BY <1>1, TurnNumbers
  <2>2. /\ v \in TurnOf /\ v.by = turns[i].by /\ v.tab = turns[i].tab /\ v.conv = turns[i].conv
        /\ v.session = turns[i].session /\ v.stored = "deleted" /\ v.phase = turns[i].phase
    BY <2>1 DEF TurnOf
  <2>3. f[i] = v \/ f[i] = turns[i]
    BY <1>1 DEF Deleted
  <2> HIDE DEF v, f
  <2> QED BY <2>1, <2>2, <2>3
<1>2. DOMAIN f = DOMAIN turns /\ f = [i \in DOMAIN turns |-> f[i]]
  BY DEF Deleted
<1> HIDE DEF f
<1>3. f \in Seq(TurnOf)
  BY <1>1, <1>2, TurnsChange
<1> QED BY <1>1, <1>2, <1>3 DEF f

(* What a call asks the RAG API to delete. *)
LEMMA CallsRemove ==
  ASSUME ChatInv, NEW t \in Tab, NEW op \in {"reset", "history"}, Calls(t, op)
  PROVE  removal' \subseteq RemovalOf
<1>1. OwnedSession(chatUser[t]) \in Nat
  BY DEF OwnedSession, NoSession, ChatInv, ChatShape
<1> DEFINE c == [op |-> op, by |-> chatUser[t], tab |-> t, conv |-> conv[t],
                 session |-> OwnedSession(chatUser[t]), awaited |-> TRUE]
<1>2. c \in RemovalOf
  BY <1>1 DEF RemovalOf, ChatInv, ChatShape
<1>3. removal' = removal \cup {c}
  BY DEF Calls
<1> QED BY <1>2, <1>3 DEF ChatInv, ChatShape

(* A tab whose turns under way were stopped goes on with an empty page, ... *)
LEMMA EmptyPage ==
  ASSUME ChatInv, NEW t \in Tab, chatUser'[t] = kept'[t].owner, screen'[t] = {}, kept'[t].turns = {},
         DOMAIN turns' = DOMAIN turns,
         \A i \in DOMAIN turns : /\ turns'[i].tab = turns[i].tab
                                 /\ turns'[i].phase \in UnderWay => turns[i].phase \in UnderWay
  PROVE  PageOwned(t)'
<1>1. OneUnderWay(t)'
  BY OneStays DEF ChatInv
<1> QED BY <1>1 DEF PageOwned

(* Stopping one tab's answer disturbs no other page and no session. *)
LEMMA StoppingSpares ==
  ASSUME ChatInv, NEW t \in Tab, NEW phase \in {"failed", "aborted"}, turns' = Stopped(t, phase),
         cookie' = cookie
  PROVE  /\ SessionsOwned'
         /\ \A r \in Tab \ {t} :
              /\ chatUser'[r] = chatUser[r] /\ conv'[r] = conv[r]
              /\ screen'[r] = screen[r] /\ kept'[r] = kept[r]
              => PageOwned(r)'
<1>1. /\ DOMAIN turns' = DOMAIN turns
      /\ \A i \in DOMAIN turns :
           /\ turns'[i].by = turns[i].by /\ turns'[i].tab = turns[i].tab
           /\ turns'[i].conv = turns[i].conv /\ turns'[i].session = turns[i].session
           /\ turns'[i].stored = turns[i].stored
           /\ turns'[i].phase = IF turns[i].tab = t /\ turns[i].phase \in UnderWay THEN phase ELSE turns[i].phase
  BY StoppedTurns DEF ChatInv
<1>2. SessionsOwned'
  BY <1>1, SessionsStay DEF ChatInv
<1>3. ASSUME NEW r \in Tab \ {t}, chatUser'[r] = chatUser[r], conv'[r] = conv[r],
             screen'[r] = screen[r], kept'[r] = kept[r]
      PROVE  PageOwned(r)'
  <2>1. \A i \in DOMAIN turns : /\ turns[i].tab = r => SteadyTurn(i)
                                /\ turns'[i].tab = turns[i].tab
    BY <1>1, <1>3 DEF SteadyTurn
  <2> QED BY <1>1, <1>3, <2>1, PageSteady DEF ChatInv
<1> QED BY <1>2, <1>3

(* New chat stops the tab's answer and empties the page. *)
LEMMA NewChatKeeps ==
  ASSUME ChatInv, NEW t \in Tab, NewChat(t)
  PROVE  ChatInv'
<1>0. chatUser[t] \in ChatUser /\ {} \in SUBSET (DOMAIN turns) /\ conv[t] + 1 \in Nat
  BY DEF ChatInv, ChatShape
<1>1. /\ turns' = Stopped(t, "aborted") /\ UNCHANGED <<chatUser, cookie>>
      /\ screen' = [screen EXCEPT ![t] = {}]
      /\ kept' = [kept EXCEPT ![t] = [owner |-> chatUser[t], turns |-> {}]]
      /\ conv' = [conv EXCEPT ![t] = conv[t] + 1]
  BY DEF NewChat, Shows, Kept
<1>2. removal' \subseteq RemovalOf
  BY CallsRemove DEF NewChat
<1>3. turns' \in Seq(TurnOf) /\ DOMAIN turns' = DOMAIN turns
  BY <1>1, StoppedTurns DEF ChatInv
<1>4. kept' \in [Tab -> [owner : ChatUser, turns : SUBSET (DOMAIN turns)]]
  BY <1>0, <1>1, Saves DEF ChatInv
<1>5. ChatShape'
  BY <1>0, <1>1, <1>2, <1>3, <1>4 DEF ChatInv, ChatShape
<1>6. \A r \in Tab \ {t} : PageOwned(r)'
  BY <1>1, StoppingSpares DEF ChatInv, ChatShape
<1>7. PageOwned(t)'
  <2>1. \A i \in DOMAIN turns : /\ turns'[i].tab = turns[i].tab
                                /\ turns'[i].phase \in UnderWay => turns[i].phase \in UnderWay
    BY <1>1, StoppedTurns DEF ChatInv, UnderWay
  <2>2. screen'[t] = {} /\ kept'[t].turns = {} /\ kept'[t].owner = chatUser'[t]
    BY <1>1 DEF ChatInv, ChatShape
  <2> QED BY <1>3, <2>1, <2>2, EmptyPage
<1> QED BY <1>1, <1>5, <1>6, <1>7, StoppingSpares DEF ChatInv

(* Delete history stops it and leaves the page as it is. *)
LEMMA DeleteHistoryKeeps ==
  ASSUME ChatInv, NEW t \in Tab, DeleteHistory(t)
  PROVE  ChatInv'
<1>0. /\ chatUser[t] \in ChatUser /\ screen[t] \subseteq DOMAIN turns
      /\ screen = [screen EXCEPT ![t] = screen[t]]
  BY DEF ChatInv, ChatShape
<1>1. /\ turns' = Stopped(t, "failed") /\ UNCHANGED <<chatUser, conv, cookie>> /\ screen' = screen
      /\ kept' = [kept EXCEPT ![t] = [owner |-> chatUser[t], turns |-> screen[t]]]
  BY <1>0 DEF DeleteHistory, Shows, Kept
<1>2. removal' \subseteq RemovalOf
  BY CallsRemove DEF DeleteHistory
<1>3. turns' \in Seq(TurnOf) /\ DOMAIN turns' = DOMAIN turns
  BY <1>1, StoppedTurns DEF ChatInv
<1>4. kept' \in [Tab -> [owner : ChatUser, turns : SUBSET (DOMAIN turns)]]
  BY <1>0, <1>1, Saves DEF ChatInv
<1>5. ChatShape'
  BY <1>1, <1>2, <1>3, <1>4 DEF ChatInv, ChatShape
<1>6. \A r \in Tab \ {t} : PageOwned(r)'
  BY <1>1, StoppingSpares DEF ChatInv, ChatShape
<1>7. PageOwned(t)'
  <2>1. \A i \in DOMAIN turns :
           /\ turns'[i].by = turns[i].by /\ turns'[i].tab = turns[i].tab
           /\ turns'[i].conv = turns[i].conv /\ turns'[i].stored = turns[i].stored
           /\ turns'[i].phase = IF turns[i].tab = t /\ turns[i].phase \in UnderWay THEN "failed"
                                ELSE turns[i].phase
    BY <1>1, StoppedTurns DEF ChatInv
  <2>2. kept'[t].owner = chatUser'[t] /\ kept'[t].turns = screen[t]
    BY <1>1 DEF ChatInv, ChatShape
  <2>3. ASSUME NEW i \in screen[t] PROVE TurnFits(t, i)' /\ turns'[i].phase \notin UnderWay
    <3>1. TurnFits(t, i) /\ i \in DOMAIN turns
      BY <1>0, <2>3 DEF ChatInv, PageOwned
    <3> QED BY <1>1, <2>1, <3>1 DEF TurnFits, UnderWay
  <2>4. OneUnderWay(t)'
    BY <1>3, <2>1, OneStays DEF ChatInv, UnderWay
  <2> QED BY <1>1, <2>2, <2>3, <2>4 DEF PageOwned
<1> QED BY <1>1, <1>5, <1>6, <1>7, StoppingSpares DEF ChatInv

(* The page is loaded again: the copy is shown to the user who made it. *)
LEMMA ReloadKeeps ==
  ASSUME ChatInv, NEW t \in Tab, NEW u \in ChatUser, Reload(t, u)
  PROVE  ChatInv'
<1> DEFINE back == Restored(t, u)
<1>0. /\ back \subseteq screen[t] /\ back \subseteq kept[t].turns /\ screen[t] \subseteq DOMAIN turns
      /\ u # chatUser[t] => back = {}
  BY DEF Restored, ChatInv, ChatShape, PageOwned
<1>1. /\ turns' = Stopped(t, "aborted") /\ UNCHANGED <<conv, cookie>>
      /\ chatUser' = [chatUser EXCEPT ![t] = u]
      /\ screen' = [screen EXCEPT ![t] = back]
      /\ kept' = [kept EXCEPT ![t] = [owner |-> u, turns |-> back]]
  BY DEF Reload
<1> HIDE DEF back
<1>2. removal' \subseteq RemovalOf
  <2>1. removal' = {IF c.tab = t THEN [c EXCEPT !.awaited = FALSE] ELSE c : c \in removal}
    BY DEF Reload
  <2>2. \A c \in removal : [c EXCEPT !.awaited = FALSE] \in RemovalOf /\ c \in RemovalOf
    BY DEF ChatInv, ChatShape, RemovalOf
  <2> QED BY <2>1, <2>2
<1>3. turns' \in Seq(TurnOf) /\ DOMAIN turns' = DOMAIN turns
  BY <1>1, StoppedTurns DEF ChatInv
<1>4. ChatShape'
  <2>1. [owner |-> u, turns |-> back] \in [owner : ChatUser, turns : SUBSET (DOMAIN turns)]
    BY <1>0
  <2> QED BY <1>0, <1>1, <1>2, <1>3, <2>1 DEF ChatInv, ChatShape
<1>5. \A r \in Tab \ {t} : PageOwned(r)'
  BY <1>1, StoppingSpares DEF ChatInv, ChatShape
<1>6. PageOwned(t)'
  <2>1. \A i \in DOMAIN turns :
           /\ turns'[i].by = turns[i].by /\ turns'[i].tab = turns[i].tab
           /\ turns'[i].conv = turns[i].conv /\ turns'[i].stored = turns[i].stored
           /\ turns'[i].phase = IF turns[i].tab = t /\ turns[i].phase \in UnderWay THEN "aborted"
                                ELSE turns[i].phase
    BY <1>1, StoppedTurns DEF ChatInv
  <2>2. /\ kept'[t].owner = chatUser'[t] /\ kept'[t].turns = back /\ screen'[t] = back
        /\ chatUser'[t] = u
    BY <1>1 DEF ChatInv, ChatShape
  <2>3. ASSUME NEW i \in back PROVE TurnFits(t, i)' /\ turns'[i].phase \notin UnderWay
    <3>1. TurnFits(t, i) /\ turns[i].phase \notin UnderWay /\ i \in DOMAIN turns /\ u = chatUser[t]
      BY <1>0, <2>3 DEF ChatInv, PageOwned
    <3> QED BY <1>1, <2>1, <2>2, <3>1 DEF TurnFits
  <2>4. OneUnderWay(t)'
    BY <1>3, <2>1, OneStays DEF ChatInv, UnderWay
  <2> QED BY <1>1, <2>2, <2>3, <2>4 DEF PageOwned
<1> QED BY <1>1, <1>4, <1>5, <1>6, StoppingSpares DEF ChatInv

(* A removal is done, or fails on its way. *)
LEMMA RemovalsEnd ==
  ASSUME ChatInv, NEW c \in removal, RemovalDone(c) \/ RemovalFails(c)
  PROVE  ChatInv'
<1>0. c \in RemovalOf /\ c.tab \in Tab /\ chatUser[c.tab] \in ChatUser /\ conv[c.tab] + 1 \in Nat
      /\ {} \in SUBSET (DOMAIN turns)
  BY DEF ChatInv, ChatShape, RemovalOf
<1>1. turns' \in {turns, Deleted(c)} /\ chatUser' = chatUser /\ removal' \subseteq removal
  BY DEF RemovalDone, RemovalFails
<1>2. /\ turns' \in Seq(TurnOf) /\ DOMAIN turns' = DOMAIN turns
      /\ \A i \in DOMAIN turns : SteadyTurn(i)
  BY <1>1, DeletedTurns DEF ChatInv, ChatShape, SteadyTurn
<1>3. CASE UNCHANGED <<screen, kept, conv, cookie>>
  <2>1. ChatShape' /\ SessionsOwned'
    BY <1>1, <1>2, <1>3, SessionsStay DEF ChatInv, ChatShape, SteadyTurn
  <2>2. ASSUME NEW t \in Tab PROVE PageOwned(t)'
    BY <1>1, <1>2, <1>3, PageSteady DEF ChatInv, SteadyTurn
  <2> QED BY <2>1, <2>2 DEF ChatInv
<1>4. CASE /\ screen' = [screen EXCEPT ![c.tab] = {}]
           /\ kept' = [kept EXCEPT ![c.tab] = [owner |-> chatUser[c.tab], turns |-> {}]]
           /\ conv' = [conv EXCEPT ![c.tab] = conv[c.tab] + 1] /\ cookie' = NoCookie
  <2>1. cookie'.session = NoSession /\ cookie' \in [owner : ChatUser, session : Nat]
    BY <1>0, <1>4 DEF NoCookie, NoSession
  <2>2. kept' \in [Tab -> [owner : ChatUser, turns : SUBSET (DOMAIN turns)]]
    BY <1>0, <1>4, Saves DEF ChatInv
  <2>3. ChatShape' /\ SessionsOwned'
    BY <1>0, <1>1, <1>2, <1>4, <2>1, <2>2, SessionsStay DEF ChatInv, ChatShape, SteadyTurn
  <2>4. ASSUME NEW t \in Tab, t # c.tab PROVE PageOwned(t)'
    <3>1. screen'[t] = screen[t] /\ kept'[t] = kept[t] /\ conv'[t] = conv[t]
      BY <1>4, <2>4 DEF ChatInv, ChatShape
    <3> QED BY <1>1, <1>2, <3>1, PageSteady DEF ChatInv, SteadyTurn
  <2>5. PageOwned(c.tab)'
    <3>1. /\ screen'[c.tab] = {} /\ kept'[c.tab].turns = {} /\ kept'[c.tab].owner = chatUser'[c.tab]
      BY <1>0, <1>1, <1>4 DEF ChatInv, ChatShape
    <3> QED BY <1>0, <1>2, <3>1, EmptyPage DEF SteadyTurn
  <2> QED BY <2>3, <2>4, <2>5 DEF ChatInv
<1>5. CASE RemovalDone(c)
  BY <1>3, <1>4, <1>5 DEF RemovalDone, Shows, Kept
<1>6. CASE RemovalFails(c)
  BY <1>3, <1>6 DEF RemovalFails
<1> QED BY <1>5, <1>6

(* The invariant of the conversations. *)
THEOREM ChatInvariant == ChatSpec => []ChatInv
<1>1. ChatInit => ChatInv
  <2> SUFFICES ASSUME ChatInit PROVE ChatInv
    OBVIOUS
  <2>1. PICK u \in ChatUser : chatUser = [t \in Tab |-> u]
    BY DEF ChatInit
  <2>2. /\ turns = <<>> /\ DOMAIN turns = {} /\ turns \in Seq(TurnOf)
        /\ screen = [t \in Tab |-> {}] /\ conv = [t \in Tab |-> 0] /\ removal = {}
        /\ kept = [t \in Tab |-> [owner |-> chatUser[t], turns |-> {}]]
        /\ cookie = NoCookie
    BY DEF ChatInit
  <2>3. cookie.session = NoSession /\ cookie \in [owner : ChatUser, session : Nat]
    BY <2>1, <2>2 DEF NoCookie, NoSession
  <2>4. \A t \in Tab : /\ kept[t] \in [owner : ChatUser, turns : SUBSET (DOMAIN turns)]
                       /\ kept[t].owner = chatUser[t] /\ kept[t].turns = {} /\ screen[t] = {}
    BY <2>1, <2>2
  <2>5. ChatShape
    BY <2>1, <2>2, <2>3, <2>4 DEF ChatShape
  <2> QED BY <2>2, <2>3, <2>4, <2>5 DEF ChatInv, SessionsOwned, PageOwned, OneUnderWay
<1>2. ChatInv /\ [ChatNext]_chatVars => ChatInv'
  <2> SUFFICES ASSUME ChatInv, [ChatNext]_chatVars PROVE ChatInv'
    OBVIOUS
  <2>1. CASE ChatNext
    BY <2>1, AskKeeps, NewChatKeeps, DeleteHistoryKeeps, ReloadKeeps, SendKeeps, AnswersKeep,
       RemovalsEnd DEF ChatNext
  <2>2. CASE UNCHANGED chatVars
    BY <2>2 DEF chatVars, ChatInv, ChatShape, SessionsOwned, Begins, PageOwned, TurnFits, OneUnderWay
  <2> QED BY <2>1, <2>2
<1> QED BY <1>1, <1>2, PTL DEF ChatSpec

(* ADR 0003: a conversation is its user's own. *)
THEOREM ConversationsAreOnesOwn == ChatSpec => []ConversationIsOnesOwn
<1>1. ChatInv => ConversationIsOnesOwn
  <2> SUFFICES ASSUME ChatInv PROVE ConversationIsOnesOwn
    OBVIOUS
  <2>1. ASSUME NEW t \in Tab, NEW i \in screen[t]
        PROVE  /\ turns[i].by = chatUser[t] /\ turns[i].tab = t
               /\ turns[i].phase = "answered" => turns[i].conv = conv[t] /\ turns[i].stored # "no"
               /\ turns[i].phase # "aborted"
    BY <2>1 DEF ChatInv, PageOwned, TurnFits
  <2>2. ASSUME NEW i \in DOMAIN turns, NEW j \in DOMAIN turns,
               turns[i].session = turns[j].session, turns[i].session # NoSession
        PROVE  turns[i].by = turns[j].by
    BY <2>2 DEF ChatInv, SessionsOwned, Begins
  <2> QED BY <2>1, <2>2 DEF ConversationIsOnesOwn
<1> QED BY <1>1, ChatInvariant, PTL

-----------------------------------------------------------------------------
(* The bounds of the conversations: a tab's id is counted up by New chat and *)
(* by a history's answer, so that it never passes the number of removals.    *)

\* The removals of a history whose tab still waits.
Awaited == {c \in removal : c.op = "history" /\ c.awaited}

ChatBounded ==
  /\ removals \in 0..MaxRemovals /\ reloads \in 0..MaxReloads
  /\ IsFiniteSet(Awaited) /\ \A t \in Tab : conv[t] + Cardinality(Awaited) <= removals
  /\ Len(turns) <= MaxTurns
  /\ \A i \in DOMAIN turns : turns[i].conv <= MaxRemovals + 1 /\ turns[i].session <= MaxTurns
  /\ cookie.session <= MaxTurns
  /\ \A c \in removal : c.conv <= MaxRemovals + 1 /\ c.session <= MaxTurns

\* What the bounds of the conversations count is a number.
LEMMA ChatNumbers ==
  ASSUME ChatInv, ChatBounded
  PROVE  /\ MaxTurns \in Nat /\ MaxRemovals \in Nat /\ MaxReloads \in Nat
         /\ removals \in Nat /\ Cardinality(Awaited) \in Nat
         /\ DOMAIN turns = 1..Len(turns) /\ Len(turns) \in Nat
         /\ \A t \in Tab : conv[t] \in Nat /\ conv[t] <= MaxRemovals
         /\ \A i \in DOMAIN turns : turns[i] \in TurnOf
         /\ cookie.session \in Nat
<1>1. Cardinality(Awaited) \in Nat
  BY FS_CardinalityType DEF ChatBounded
<1>2. \A t \in Tab : conv[t] \in Nat
  BY DEF ChatInv, ChatShape
<1> QED BY <1>1, <1>2, ChatAssumption, TurnNumbers DEF ChatInv, ChatShape, ChatBounded

(* The bounds are what the types add to the shape. *)
LEMMA BoundsAreTypes ==
  ASSUME ChatInv, ChatBounded
  PROVE  ChatTypeOK
<1>1. conv \in [Tab -> 0..(MaxRemovals + 1)]
  BY ChatNumbers DEF ChatInv, ChatShape
<1>2. turns \in Seq(Turn)
  <2>1. ASSUME NEW i \in DOMAIN turns PROVE turns[i] \in Turn
    BY ChatNumbers DEF ChatBounded, TurnOf, Turn, Phase
  <2>2. turns \in [1..Len(turns) -> Turn]
    BY <2>1, ChatNumbers, LenProperties DEF ChatInv, ChatShape
  <2> QED BY <2>2, ChatNumbers, SeqDef
<1>3. cookie \in [owner : ChatUser, session : 0..MaxTurns]
  BY ChatNumbers DEF ChatBounded, ChatInv, ChatShape
<1>4. removal \subseteq Removal
  BY ChatNumbers DEF ChatBounded, ChatInv, ChatShape, RemovalOf, Removal
<1> QED BY <1>1, <1>2, <1>3, <1>4 DEF ChatTypeOK, ChatInv, ChatShape, ChatBounded

(* Turns that keep their conversation and their session keep the bounds. *)
LEMMA TurnsInBounds ==
  ASSUME ChatInv, ChatInv', ChatBounded, DOMAIN turns' = DOMAIN turns,
         \A i \in DOMAIN turns : turns'[i].conv = turns[i].conv /\ turns'[i].session = turns[i].session
  PROVE  /\ Len(turns') <= MaxTurns
         /\ \A i \in DOMAIN turns' : turns'[i].conv <= MaxRemovals + 1 /\ turns'[i].session <= MaxTurns
<1>1. DOMAIN turns' = 1..Len(turns') /\ Len(turns') \in Nat
  BY LenProperties DEF ChatInv, ChatShape
<1>2. Len(turns') = Len(turns)
  BY <1>1, ChatNumbers
<1> QED BY <1>2 DEF ChatBounded

\* Asking spends a question, and keeps the bounds.
LEMMA AskInBounds ==
  ASSUME ChatInv, ChatInv', ChatBounded, NEW t \in Tab, Ask(t)
  PROVE  ChatBounded'
<1> PICK n : n = Len(turns) + 1
  OBVIOUS
<1> PICK v : v = [by |-> chatUser[t], tab |-> t, conv |-> conv[t], session |-> NoSession, phase |-> "asked",
                  stored |-> "no"]
  OBVIOUS
<1>1. /\ turns' = Append(turns, v) /\ n <= MaxTurns
      /\ UNCHANGED <<conv, cookie, removal, removals, reloads>>
  BY DEF Ask, TurnIds
<1>2. v \in TurnOf /\ v.conv = conv[t] /\ v.session = 0
  BY DEF ChatInv, ChatShape, TurnOf, Phase, NoSession
<1>3. /\ Len(turns') = n /\ turns'[n] = v /\ \A i \in 1..Len(turns) : turns'[i] = turns[i]
      /\ DOMAIN turns' = 1..n
  BY <1>1, <1>2, AppendProperties, LenProperties DEF ChatInv, ChatShape
<1>4. \A i \in DOMAIN turns' : turns'[i].conv <= MaxRemovals + 1 /\ turns'[i].session <= MaxTurns
  BY <1>2, <1>3, ChatNumbers DEF ChatBounded
<1> QED BY <1>1, <1>3, <1>4 DEF ChatBounded, Awaited

\* Sending a question keeps the bounds.
LEMMA SendInBounds ==
  ASSUME ChatInv, ChatInv', ChatBounded, NEW i \in DOMAIN turns, Send(i)
  PROVE  ChatBounded'
<1> PICK s : s = (IF OwnedSession(turns[i].by) = NoSession THEN i ELSE OwnedSession(turns[i].by))
  OBVIOUS
<1> PICK v : v = [turns[i] EXCEPT !.phase = "sent", !.conv = conv[turns[i].tab], !.session = s]
  OBVIOUS
<1>1. turns' = [turns EXCEPT ![i] = v] /\ UNCHANGED <<conv, cookie, removal, removals, reloads>>
  BY DEF Send
<1>2. /\ s \in Nat /\ s <= MaxTurns
      /\ conv[turns[i].tab] \in Nat /\ conv[turns[i].tab] <= MaxRemovals
  BY ChatNumbers DEF OwnedSession, ChatBounded, NoSession, TurnOf
<1>3. v \in TurnOf /\ v.conv = conv[turns[i].tab] /\ v.session = s
  BY <1>2, ChatNumbers DEF TurnOf, Phase
<1>4. /\ DOMAIN turns' = DOMAIN turns /\ turns'[i] = v /\ \A j \in DOMAIN turns \ {i} : turns'[j] = turns[j]
  BY <1>1, <1>3, TurnChanges DEF ChatInv
<1>5. Len(turns') = Len(turns)
  BY <1>4, ChatNumbers, LenProperties DEF ChatInv, ChatShape
<1>6. ASSUME NEW j \in DOMAIN turns'
      PROVE  turns'[j].conv <= MaxRemovals + 1 /\ turns'[j].session <= MaxTurns
  <2>1. CASE j = i
    <3>1. MaxRemovals \in Nat
      BY ChatNumbers
    <3>2. v.conv \in Nat /\ v.conv <= MaxRemovals /\ v.session <= MaxTurns
      BY <1>2, <1>3
    <3>3. turns'[j] = v
      BY <1>4, <2>1
    <3> QED BY ONLY <3>1, <3>2, <3>3
  <2>2. CASE j # i
    BY <1>4, <2>2 DEF ChatBounded
  <2> QED BY <2>1, <2>2
<1> QED BY <1>1, <1>5, <1>6 DEF ChatBounded, Awaited

\* An answer, streamed, ended, failed or aborted, keeps the bounds.
LEMMA AnswersInBounds ==
  ASSUME ChatInv, ChatInv', ChatBounded, NEW i \in DOMAIN turns,
         BeginAnswer(i) \/ UpstreamEnds(i) \/ Complete(i) \/ FailTurn(i)
  PROVE  ChatBounded'
<1>1. turns[i] \in TurnOf
  BY ChatNumbers
<1>2. \E v \in TurnOf : turns' = [turns EXCEPT ![i] = v] /\ v.conv = turns[i].conv /\ v.session = turns[i].session
  <2>1. ASSUME NEW p \in Phase
        PROVE  LET v == [turns[i] EXCEPT !.phase = p]
               IN v \in TurnOf /\ v.conv = turns[i].conv /\ v.session = turns[i].session
    BY <1>1 DEF TurnOf
  <2>2. LET v == [turns[i] EXCEPT !.stored = "yes"]
        IN v \in TurnOf /\ v.conv = turns[i].conv /\ v.session = turns[i].session
    BY <1>1 DEF TurnOf
  <2>3. CASE UpstreamEnds(i)
    BY <2>2, <2>3 DEF UpstreamEnds
  <2>4. CASE BeginAnswer(i) \/ Complete(i) \/ FailTurn(i)
    <3>1. \E p \in Phase : turns' = [turns EXCEPT ![i] = [turns[i] EXCEPT !.phase = p]]
      BY <2>4 DEF BeginAnswer, Complete, FailTurn, Phase
    <3> QED BY <2>1, <3>1
  <2> QED BY <2>3, <2>4
<1>3. /\ DOMAIN turns' = DOMAIN turns
      /\ \A j \in DOMAIN turns : turns'[j].conv = turns[j].conv /\ turns'[j].session = turns[j].session
  BY <1>2, TurnChanges DEF ChatInv
<1>4. UNCHANGED <<conv, removal, removals, reloads>>
  BY DEF BeginAnswer, UpstreamEnds, Complete, FailTurn
<1>5. cookie'.session <= MaxTurns
  BY DEF BeginAnswer, UpstreamEnds, Complete, FailTurn, ChatBounded
<1> QED BY <1>3, <1>4, <1>5, TurnsInBounds DEF ChatBounded, Awaited

(* New chat and Delete history: one more removal, and one more to wait for   *)
(* or a new tab id.                                                          *)
LEMMA RemovalsInBounds ==
  ASSUME ChatInv, ChatInv', ChatBounded, NEW t \in Tab, NewChat(t) \/ DeleteHistory(t)
  PROVE  ChatBounded'
<1> PICK op \in {"reset", "history"} : Calls(t, op) /\ (op = "reset" <=> NewChat(t)) /\ (NewChat(t) \/ DeleteHistory(t))
  <2>1. ~(Calls(t, "reset") /\ Calls(t, "history") /\ conv' = conv /\ conv' = [conv EXCEPT ![t] = @ + 1])
    BY DEF ChatInv, ChatShape
  <2>2. NewChat(t) => Calls(t, "reset") /\ conv' = [conv EXCEPT ![t] = @ + 1]
    BY DEF NewChat
  <2>3. DeleteHistory(t) => Calls(t, "history") /\ conv' = conv
    BY DEF DeleteHistory
  <2> QED BY <2>1, <2>2, <2>3
<1> PICK c : c = [op |-> op, by |-> chatUser[t], tab |-> t, conv |-> conv[t],
                  session |-> OwnedSession(chatUser[t]), awaited |-> TRUE]
  OBVIOUS
<1>1. /\ removals < MaxRemovals /\ removals' = removals + 1 /\ removal' = removal \cup {c}
      /\ c.op = op /\ c.conv = conv[t] /\ c.session = OwnedSession(chatUser[t]) /\ c.awaited
      /\ UNCHANGED <<cookie, reloads>>
  BY DEF Calls, NewChat, DeleteHistory
<1>2. c.conv <= MaxRemovals + 1 /\ c.session <= MaxTurns
  BY <1>1, ChatNumbers DEF OwnedSession, NoSession, ChatBounded
<1>3. /\ DOMAIN turns' = DOMAIN turns
      /\ \A j \in DOMAIN turns : turns'[j].conv = turns[j].conv /\ turns'[j].session = turns[j].session
  BY StoppedTurns DEF NewChat, DeleteHistory, ChatInv
<1>4. Awaited' = IF op = "history" THEN Awaited \cup {c} ELSE Awaited
  BY <1>1 DEF Awaited
<1>5. /\ IsFiniteSet(Awaited')
      /\ Cardinality(Awaited') \in Nat
      /\ op = "history" => Cardinality(Awaited') <= Cardinality(Awaited) + 1
      /\ op = "reset" => Awaited' = Awaited
  <2>1. IsFiniteSet(Awaited) /\ Cardinality(Awaited) \in Nat
    BY ChatNumbers DEF ChatBounded
  <2>2. CASE op = "history"
    <3>1. IsFiniteSet(Awaited') /\ Cardinality(Awaited') \in {Cardinality(Awaited), Cardinality(Awaited) + 1}
      BY <1>4, <2>1, <2>2, FS_AddElement
    <3> QED BY <2>1, <2>2, <3>1
  <2>3. CASE op = "reset"
    BY <1>4, <2>1, <2>3
  <2> QED BY <2>2, <2>3
<1>6. /\ op = "history" => conv' = conv
      /\ op = "reset" => \A r \in Tab : conv'[r] \in {conv[r], conv[r] + 1}
  BY DEF NewChat, DeleteHistory, ChatInv, ChatShape
<1>7. ASSUME NEW r \in Tab PROVE conv'[r] + Cardinality(Awaited') <= removals'
  <2>1. /\ conv[r] \in Nat /\ Cardinality(Awaited) \in Nat /\ removals \in Nat
        /\ conv[r] + Cardinality(Awaited) <= removals
    BY ChatNumbers DEF ChatBounded
  <2>2. CASE op = "history"
    BY <1>1, <1>5, <1>6, <2>1, <2>2
  <2>3. CASE op = "reset"
    BY <1>1, <1>5, <1>6, <2>1, <2>3
  <2> QED BY <2>2, <2>3
<1>8. removals' \in 0..MaxRemovals
  BY <1>1, ChatNumbers
<1> QED BY <1>1, <1>2, <1>3, <1>5, <1>7, <1>8, TurnsInBounds DEF ChatBounded

\* A reload spends one of the reloads, and keeps the bounds.
LEMMA ReloadInBounds ==
  ASSUME ChatInv, ChatInv', ChatBounded, NEW t \in Tab, NEW u \in ChatUser, Reload(t, u)
  PROVE  ChatBounded'
<1>1. /\ reloads < MaxReloads /\ reloads' = reloads + 1
      /\ removal' = {IF c.tab = t THEN [c EXCEPT !.awaited = FALSE] ELSE c : c \in removal}
      /\ UNCHANGED <<conv, cookie, removals>>
  BY DEF Reload
<1>2. ASSUME NEW c \in removal
      PROVE  LET d == [c EXCEPT !.awaited = FALSE]
             IN ~d.awaited /\ d.conv = c.conv /\ d.session = c.session
  BY DEF ChatInv, ChatShape, RemovalOf
<1>3. Awaited' \in SUBSET Awaited
  BY <1>1, <1>2 DEF Awaited
<1>4. /\ IsFiniteSet(Awaited') /\ Cardinality(Awaited') \in Nat
      /\ Cardinality(Awaited') <= Cardinality(Awaited)
  BY <1>3, FS_Subset, FS_CardinalityType DEF ChatBounded
<1>5. ASSUME NEW d \in removal'
      PROVE  d.conv <= MaxRemovals + 1 /\ d.session <= MaxTurns
  <2> PICK c \in removal : d = IF c.tab = t THEN [c EXCEPT !.awaited = FALSE] ELSE c
    BY <1>1
  <2>1. d.conv = c.conv /\ d.session = c.session
    BY <1>2
  <2> QED BY <2>1 DEF ChatBounded
<1>6. /\ DOMAIN turns' = DOMAIN turns
      /\ \A j \in DOMAIN turns : turns'[j].conv = turns[j].conv /\ turns'[j].session = turns[j].session
  BY StoppedTurns DEF Reload, ChatInv
<1>7. \A r \in Tab : conv'[r] + Cardinality(Awaited') <= removals'
  BY <1>1, <1>4, ChatNumbers DEF ChatBounded
<1>8. reloads' \in 0..MaxReloads
  BY <1>1, ChatNumbers DEF ChatBounded
<1> QED BY <1>1, <1>4, <1>5, <1>6, <1>7, <1>8, TurnsInBounds DEF ChatBounded

(* A removal ends; where a history's is answered, one waits less and the tab *)
(* has a new id.                                                             *)
LEMMA EndsInBounds ==
  ASSUME ChatInv, ChatInv', ChatBounded, NEW c \in removal, RemovalDone(c) \/ RemovalFails(c)
  PROVE  ChatBounded'
<1>1. removal' = removal \ {c} /\ UNCHANGED <<removals, reloads>> /\ turns' \in {turns, Deleted(c)}
  BY DEF RemovalDone, RemovalFails
<1>2. /\ DOMAIN turns' = DOMAIN turns
      /\ \A j \in DOMAIN turns : turns'[j].conv = turns[j].conv /\ turns'[j].session = turns[j].session
  BY <1>1, DeletedTurns DEF ChatInv
<1>3. Awaited' = Awaited \ {c}
  BY <1>1 DEF Awaited
<1>4. /\ IsFiniteSet(Awaited') /\ Cardinality(Awaited') \in Nat
      /\ Cardinality(Awaited') = IF c \in Awaited THEN Cardinality(Awaited) - 1 ELSE Cardinality(Awaited)
  BY <1>3, FS_RemoveElement, FS_CardinalityType DEF ChatBounded
<1>5. cookie'.session <= MaxTurns
  BY ChatNumbers DEF RemovalDone, RemovalFails, NoCookie, NoSession, ChatBounded
<1>6. /\ c \notin Awaited => conv' = conv
      /\ c \in Awaited => \A r \in Tab : conv'[r] \in {conv[r], conv[r] + 1}
  <2>1. conv' = conv \/ (c \in Awaited /\ conv' = [conv EXCEPT ![c.tab] = conv[c.tab] + 1])
    BY DEF RemovalDone, RemovalFails, Awaited
  <2> QED BY <2>1 DEF ChatInv, ChatShape
<1>7. ASSUME NEW r \in Tab PROVE conv'[r] + Cardinality(Awaited') <= removals'
  <2>1. /\ conv[r] \in Nat /\ Cardinality(Awaited) \in Nat /\ removals \in Nat
        /\ conv[r] + Cardinality(Awaited) <= removals
    BY ChatNumbers DEF ChatBounded
  <2>2. CASE c \in Awaited
    BY <1>1, <1>4, <1>6, <2>1, <2>2
  <2>3. CASE c \notin Awaited
    BY <1>1, <1>4, <1>6, <2>1, <2>3
  <2> QED BY <2>2, <2>3
<1> QED BY <1>1, <1>2, <1>4, <1>5, <1>7, TurnsInBounds DEF ChatBounded

(* The state of the conversations keeps its types, for any bounds. *)
THEOREM ChatTypes == ChatSpec => []ChatTypeOK
<1>1. ChatInit => ChatBounded
  <2> SUFFICES ASSUME ChatInit PROVE ChatBounded
    OBVIOUS
  <2>1. Awaited = {} /\ IsFiniteSet(Awaited) /\ Cardinality(Awaited) = 0
    BY FS_EmptySet DEF ChatInit, Awaited
  <2>2. Len(turns) = 0 /\ DOMAIN turns = {}
    BY DEF ChatInit
  <2>3. cookie.session = 0
    BY DEF ChatInit, NoCookie, NoSession
  <2> QED BY <2>1, <2>2, <2>3, ChatAssumption DEF ChatInit, ChatBounded
<1>2. ChatInv /\ ChatInv' /\ ChatBounded /\ [ChatNext]_chatVars => ChatBounded'
  <2> SUFFICES ASSUME ChatInv, ChatInv', ChatBounded, [ChatNext]_chatVars PROVE ChatBounded'
    OBVIOUS
  <2>1. CASE ChatNext
    BY <2>1, AskInBounds, RemovalsInBounds, ReloadInBounds, SendInBounds, AnswersInBounds, EndsInBounds DEF ChatNext
  <2>2. CASE UNCHANGED chatVars
    BY <2>2 DEF chatVars, ChatBounded, Awaited
  <2> QED BY <2>1, <2>2
<1>3. ChatInv /\ ChatBounded => ChatTypeOK
  BY BoundsAreTypes
<1> QED BY <1>1, <1>2, <1>3, ChatInvariant, PTL DEF ChatSpec

-----------------------------------------------------------------------------
(* The form of a draft *)

DraftSpec == DraftInit /\ [][DraftNext]_formVars

FormType == [open : BOOLEAN, saves : BOOLEAN, loading : BOOLEAN, fields : Fields \cup {NoFields}]
CallOf ==
  [op : {"save", "next", "submit", "delete"}, data : Fields \cup {NoFields}, at : {"sent", "read"},
   copy : Row \cup {Unread}]

\* What a call carries and what its handler has found.
Admitted(c) ==
  /\ c.op # "delete" => c.data \in Fields
  /\ c.at = "read" => c.copy \in Row /\ ~c.copy.archived
  /\ c.at = "read" /\ c.op # "submit" => c.copy.status = "draft"

CallsAdmitted == \A i \in DOMAIN formCalls : Admitted(formCalls[i])

FormRests ==
  /\ form.open => form.fields \in Fields
  /\ ~form.open => throttled = Quiet

\* A field that was emptied is not asked of the row.
Shown(fields) == \A f \in Field : fields[f] \in {Empty, draftRow.fields[f]}

\* What the form shows is what it saves next, or what it saved last, or in the row.
Pending(fields) ==
  IF throttled.last # NoFields THEN throttled.last = fields
  ELSE IF formCalls # <<>> THEN formCalls[Len(formCalls)].data = fields ELSE Shown(fields)

\* Until a submission or a deletion is under way.
SavesOnly ==
  /\ form.open /\ form.saves /\ draftRow.status = "draft" /\ ~draftRow.archived
  /\ \A i \in DOMAIN formCalls : formCalls[i].op \in {"save", "next"}

FormFollows ==
  oddities = {} =>
    /\ \A i \in DOMAIN formCalls : formCalls[i].at = "read" => i = 1
    /\ form.open => leftover = NoFields
    /\ SavesOnly => Pending(form.fields)

SubmittedLast == draftRow.status = "draft" => submitted = NoFields

DraftInv ==
  /\ DraftTypeOK /\ Len(formCalls) <= callsMade /\ CallsAdmitted /\ FormRests
  /\ SubmittedLast /\ RowFollowsWorkflow
  /\ FormFollows

(* Calls are numbered as they were sent. *)
LEMMA CallNumbers ==
  ASSUME DraftTypeOK
  PROVE  /\ DOMAIN formCalls = 1..Len(formCalls) /\ Len(formCalls) \in Nat /\ formCalls \in Seq(CallOf)
         /\ \A i \in DOMAIN formCalls : formCalls[i] \in CallOf
         /\ formCalls = <<>> <=> Len(formCalls) = 0
<1>1. formCalls \in Seq(CallOf)
  BY DEF DraftTypeOK, CallOf
<1> HIDE DEF CallOf
<1> QED BY <1>1, LenProperties, ElementOfSeq, EmptySeq

(* What is left of a sequence without one element. *)
LEMMA Removes ==
  ASSUME NEW S, NEW s \in Seq(S), NEW i \in 1..Len(s)
  PROVE  /\ RemoveAt(s, i) \in Seq(S) /\ Len(RemoveAt(s, i)) = Len(s) - 1
         /\ \A j \in 1..(Len(s) - 1) : RemoveAt(s, i)[j] = IF j < i THEN s[j] ELSE s[j + 1]
<1> DEFINE a == SubSeq(s, 1, i - 1)
           b == SubSeq(s, i + 1, Len(s))
<1>1. Len(s) \in Nat /\ i \in Nat /\ i >= 1 /\ i <= Len(s)
  BY LenProperties
<1>2. /\ a \in Seq(S) /\ Len(a) = i - 1 /\ \A j \in 1..(i - 1) : a[j] = s[j]
  BY <1>1
<1>3. /\ b \in Seq(S) /\ Len(b) = Len(s) - i /\ \A j \in 1..(Len(s) - i) : b[j] = s[i + j]
  BY <1>1
<1>4. RemoveAt(s, i) = a \o b
  BY DEF RemoveAt
<1> HIDE DEF a, b
<1>5. /\ a \o b \in Seq(S) /\ Len(a \o b) = Len(s) - 1
      /\ \A j \in 1..(Len(s) - 1) : (a \o b)[j] = IF j <= i - 1 THEN a[j] ELSE b[j - (i - 1)]
  <2>1. /\ a \o b \in Seq(S) /\ Len(a \o b) = Len(a) + Len(b)
        /\ \A j \in 1..(Len(a) + Len(b)) : (a \o b)[j] = IF j <= Len(a) THEN a[j] ELSE b[j - Len(a)]
    BY <1>2, <1>3, ConcatProperties
  <2>2. Len(a) + Len(b) = Len(s) - 1
    BY <1>1, <1>2, <1>3
  <2> QED BY <1>2, <2>1, <2>2
<1>6. ASSUME NEW j \in 1..(Len(s) - 1) PROVE (a \o b)[j] = IF j < i THEN s[j] ELSE s[j + 1]
  <2>1. CASE j < i
    BY <1>1, <1>2, <1>5, <2>1
  <2>2. CASE j >= i
    <3>1. j - (i - 1) \in 1..(Len(s) - i) /\ i + (j - (i - 1)) = j + 1
      BY <1>1, <2>2
    <3>2. b[j - (i - 1)] = s[i + (j - (i - 1))]
      BY <1>3, <3>1
    <3>3. (a \o b)[j] = b[j - (i - 1)]
      BY <1>1, <1>5, <2>2
    <3> QED BY <1>1, <2>2, <3>1, <3>2, <3>3
  <2>3. j < i \/ j >= i
    BY <1>1
  <2> QED BY <2>1, <2>2, <2>3
<1> QED BY <1>4, <1>5, <1>6

(* A call is sent: it is the last one, and nobody has read it. *)
LEMMA Sent ==
  ASSUME DraftInv, NEW op \in {"save", "next", "submit", "delete"}, NEW data \in Fields \cup {NoFields},
         op # "delete" => data \in Fields, Sends(op, data)
  PROVE  /\ formCalls' \in Seq(CallOf) /\ callsMade' \in 0..MaxFormCalls
         /\ Len(formCalls') = Len(formCalls) + 1 /\ Len(formCalls') <= callsMade' /\ formCalls' # <<>>
         /\ DOMAIN formCalls' = 1..(Len(formCalls) + 1)
         /\ \A i \in DOMAIN formCalls : formCalls'[i] = formCalls[i]
         /\ formCalls'[Len(formCalls) + 1].op = op /\ formCalls'[Len(formCalls) + 1].data = data
         /\ formCalls'[Len(formCalls) + 1].at = "sent"
         /\ CallsAdmitted'
<1> DEFINE c == [op |-> op, data |-> data, at |-> "sent", copy |-> Unread]
<1>1. c \in CallOf /\ c.op = op /\ c.data = data /\ c.at = "sent"
  BY DEF CallOf
<1>2. formCalls' = Append(formCalls, c) /\ callsMade < MaxFormCalls /\ callsMade' = callsMade + 1
  BY DEF Sends
<1> HIDE DEF c
<1>3. formCalls \in Seq(CallOf) /\ DOMAIN formCalls = 1..Len(formCalls) /\ Len(formCalls) \in Nat
  BY CallNumbers DEF DraftInv
<1>4. /\ formCalls' \in Seq(CallOf) /\ formCalls' # <<>> /\ Len(formCalls') = Len(formCalls) + 1
      /\ formCalls'[Len(formCalls) + 1] = c
      /\ \A i \in 1..Len(formCalls) : formCalls'[i] = formCalls[i]
  BY <1>1, <1>2, <1>3, AppendProperties
<1>5. DOMAIN formCalls' = 1..(Len(formCalls) + 1)
  BY <1>4, LenProperties
<1>6. callsMade' \in 0..MaxFormCalls /\ Len(formCalls') <= callsMade'
  BY <1>2, <1>3, <1>4, FormAssumption DEF DraftInv, DraftTypeOK
<1>7. Admitted(c)
  BY <1>1 DEF Admitted
<1>8. CallsAdmitted'
  <2>1. ASSUME NEW i \in 1..(Len(formCalls) + 1) PROVE Admitted(formCalls'[i])
    <3>1. CASE i = Len(formCalls) + 1
      BY <1>4, <1>7, <3>1
    <3>2. CASE i # Len(formCalls) + 1
      <4>1. i \in DOMAIN formCalls /\ formCalls'[i] = formCalls[i]
        BY <1>3, <1>4, <2>1, <3>2
      <4> QED BY <4>1 DEF DraftInv, CallsAdmitted
    <3> QED BY <3>1, <3>2
  <2> QED BY <1>5, <2>1 DEF CallsAdmitted, Admitted
<1> QED BY <1>1, <1>3, <1>4, <1>5, <1>6, <1>8

(* What the form does with an answer: what it shows and saves stays, unless it
   is left. *)
LEMMA Answering ==
  ASSUME DraftInv, NEW c, NEW ok, Answered(c, ok)
  PROVE  /\ form' \in FormType /\ throttled' \in [window : BOOLEAN, last : Fields \cup {NoFields}]
         /\ leftover' \in Fields \cup {NoFields} /\ FormRests'
         /\ form'.open => /\ form.open /\ form'.saves = form.saves /\ form'.fields = form.fields
                          /\ throttled' = throttled /\ leftover' = leftover
<1>1. form \in FormType /\ FormRests /\ throttled \in [window : BOOLEAN, last : Fields \cup {NoFields}]
      /\ leftover \in Fields \cup {NoFields}
  BY DEF DraftInv, DraftTypeOK, FormType
<1>2. CASE Leaves
  <2>1. ClosedForm \in FormType /\ ~ClosedForm.open /\ Quiet \in [window : BOOLEAN, last : Fields \cup {NoFields}]
    BY DEF ClosedForm, Quiet, FormType
  <2> QED BY <1>1, <1>2, <2>1 DEF Leaves, FormRests
<1>3. CASE form' = form /\ UNCHANGED <<throttled, leftover>>
  BY <1>1, <1>3 DEF FormRests
<1>4. CASE form' = [form EXCEPT !.loading = FALSE] /\ UNCHANGED <<throttled, leftover>>
  <2>1. form' \in FormType /\ form'.open = form.open /\ form'.saves = form.saves /\ form'.fields = form.fields
    BY <1>1, <1>4 DEF FormType
  <2> QED BY <1>1, <1>4, <2>1 DEF FormRests
<1> QED BY <1>2, <1>3, <1>4 DEF Answered

(* Where the row and what was submitted stay, so does what they promise. *)
LEMMA RowRests ==
  ASSUME DraftInv, UNCHANGED <<draftRow, submitted>>, oddities \subseteq oddities'
  PROVE  SubmittedLast' /\ RowFollowsWorkflow'
  BY DEF DraftInv, SubmittedLast, RowFollowsWorkflow

(* A call that is sent: what an open form shows is on its way. *)
LEMMA SendingKeeps ==
  ASSUME DraftInv, NEW op \in {"save", "next", "submit", "delete"}, NEW data \in Fields \cup {NoFields},
         op # "delete" => data \in Fields, Sends(op, data),
         UNCHANGED <<draftRow, submitted, formFaults, oddities>>,
         edits' \in 0..MaxEdits, form' \in FormType, leftover' \in Fields \cup {NoFields},
         throttled' \in [window : BOOLEAN, last : Fields \cup {NoFields}], FormRests',
         form'.open = form.open /\ form'.saves = form.saves,
         leftover' = leftover \/ leftover' = NoFields,
         op \in {"save", "next"} /\ SavesOnly /\ leftover = NoFields /\ Pending(form.fields)
           => data = form'.fields /\ (throttled'.last = NoFields \/ throttled'.last = data)
  PROVE  DraftInv'
<1>1. /\ formCalls' \in Seq(CallOf) /\ callsMade' \in 0..MaxFormCalls
      /\ Len(formCalls') = Len(formCalls) + 1 /\ Len(formCalls') <= callsMade' /\ formCalls' # <<>>
      /\ DOMAIN formCalls' = 1..(Len(formCalls) + 1)
      /\ \A i \in DOMAIN formCalls : formCalls'[i] = formCalls[i]
      /\ formCalls'[Len(formCalls) + 1].op = op /\ formCalls'[Len(formCalls) + 1].data = data
      /\ formCalls'[Len(formCalls) + 1].at = "sent"
      /\ CallsAdmitted'
  BY Sent
<1>2. DOMAIN formCalls = 1..Len(formCalls) /\ Len(formCalls) \in Nat
  BY CallNumbers DEF DraftInv
<1>3. DraftTypeOK'
  <2>1. Len(formCalls') <= MaxFormCalls
    BY <1>1, <1>2, FormAssumption
  <2>2. /\ draftRow' \in Row /\ submitted' \in Fields \cup {NoFields} /\ formFaults' \in 0..MaxFormFaults
        /\ oddities' \subseteq {"overtaken", "lost", "stale", "behind"}
    BY DEF DraftInv, DraftTypeOK
  <2>3. formCalls' \in Seq([op : {"save", "next", "submit", "delete"}, data : Fields \cup {NoFields},
                            at : {"sent", "read"}, copy : Row \cup {Unread}])
    BY <1>1 DEF CallOf
  <2>4. form' \in [open : BOOLEAN, saves : BOOLEAN, loading : BOOLEAN, fields : Fields \cup {NoFields}]
    BY DEF FormType
  <2> QED BY <1>1, <2>1, <2>2, <2>3, <2>4 DEF DraftTypeOK
<1>4. FormFollows'
  <2> SUFFICES ASSUME oddities' = {}
               PROVE  /\ \A i \in DOMAIN formCalls' : formCalls'[i].at = "read" => i = 1
                      /\ form'.open => leftover' = NoFields
                      /\ SavesOnly' => Pending(form.fields)'
    BY DEF FormFollows
  <2>1. /\ \A i \in DOMAIN formCalls : formCalls[i].at = "read" => i = 1
        /\ form.open => leftover = NoFields
        /\ SavesOnly => Pending(form.fields)
    BY DEF DraftInv, FormFollows
  <2>2. \A i \in DOMAIN formCalls' : formCalls'[i].at = "read" => i = 1
    <3> SUFFICES ASSUME NEW i \in 1..(Len(formCalls) + 1), formCalls'[i].at = "read" PROVE i = 1
      BY <1>1
    <3>1. i # Len(formCalls) + 1
      BY <1>1
    <3>2. i \in DOMAIN formCalls
      BY <1>2, <3>1
    <3> QED BY <1>1, <2>1, <3>2
  <2>3. ASSUME SavesOnly' PROVE Pending(form.fields)'
    <3>1. form.open /\ form.saves /\ draftRow.status = "draft" /\ ~draftRow.archived
      BY <2>3 DEF SavesOnly
    <3>2. \A i \in DOMAIN formCalls' : formCalls'[i].op \in {"save", "next"}
      BY <2>3 DEF SavesOnly
    <3>3. op \in {"save", "next"}
      BY <1>1, <1>2, <3>2
    <3>4. \A i \in DOMAIN formCalls : formCalls[i].op \in {"save", "next"}
      BY <1>1, <1>2, <3>2
    <3>5. SavesOnly
      BY <3>1, <3>4 DEF SavesOnly
    <3>6. data = form'.fields /\ (throttled'.last = NoFields \/ throttled'.last = data)
      BY <2>1, <3>1, <3>3, <3>5
    <3>7. formCalls'[Len(formCalls')].data = form'.fields
      BY <1>1, <3>6
    <3> QED BY <1>1, <3>6, <3>7 DEF Pending
  <2> QED BY <2>1, <2>2, <2>3
<1>5. SubmittedLast' /\ RowFollowsWorkflow'
  BY RowRests
<1> QED BY <1>1, <1>3, <1>4, <1>5 DEF DraftInv

(* A step that sends and answers nothing keeps the invariant when what the form
   shows is still on its way, or is the row. *)
LEMMA FormStepKeeps ==
  ASSUME DraftInv, UNCHANGED <<draftRow, submitted, formCalls, callsMade, formFaults>>,
         oddities \subseteq oddities', oddities' \subseteq {"overtaken", "lost", "stale", "behind"},
         edits' \in 0..MaxEdits, form' \in FormType, leftover' \in Fields \cup {NoFields},
         throttled' \in [window : BOOLEAN, last : Fields \cup {NoFields}], FormRests',
         oddities' = {} /\ form'.open => leftover' = NoFields,
         oddities' = {} /\ SavesOnly' => Pending(form.fields)'
  PROVE  DraftInv'
<1>1. DraftTypeOK'
  <2>1. /\ draftRow' \in Row /\ submitted' \in Fields \cup {NoFields} /\ formFaults' \in 0..MaxFormFaults
        /\ callsMade' \in 0..MaxFormCalls /\ Len(formCalls') <= MaxFormCalls
        /\ formCalls' \in Seq([op : {"save", "next", "submit", "delete"}, data : Fields \cup {NoFields},
                               at : {"sent", "read"}, copy : Row \cup {Unread}])
    BY DEF DraftInv, DraftTypeOK
  <2> QED BY <2>1 DEF DraftTypeOK, FormType
<1>2. CallsAdmitted' /\ Len(formCalls') <= callsMade'
  BY DEF DraftInv, CallsAdmitted, Admitted
<1>3. FormFollows'
  BY DEF DraftInv, FormFollows
<1> QED BY <1>1, <1>2, <1>3, RowRests DEF DraftInv

(* What the sets of the form hold. *)
LEMMA FormSets ==
  ASSUME DraftInv
  PROVE  /\ form \in FormType /\ FormRests /\ edits \in 0..MaxEdits
         /\ throttled \in [window : BOOLEAN, last : Fields \cup {NoFields}]
         /\ leftover \in Fields \cup {NoFields} /\ NoFields \in Fields \cup {NoFields}
         /\ ClosedForm \in FormType /\ ~ClosedForm.open /\ Quiet \in [window : BOOLEAN, last : Fields \cup {NoFields}]
         /\ Quiet.last = NoFields /\ oddities \subseteq {"overtaken", "lost", "stale", "behind"}
         /\ draftRow \in Row /\ draftRow.fields \in Fields
  BY DEF DraftInv, DraftTypeOK, FormType, ClosedForm, Quiet, Row

(* A form that opens shows the row. *)
LEMMA OpenFormKeeps ==
  ASSUME DraftInv, OpenForm
  PROVE  DraftInv'
<1> DEFINE opened == [ClosedForm EXCEPT !.open = TRUE, !.saves = draftRow.status # "applied", !.fields = draftRow.fields]
<1>1. opened \in FormType /\ opened.fields = draftRow.fields /\ draftRow.fields \in Fields
  BY FormSets DEF ClosedForm, FormType
<1>2. /\ form' = opened /\ throttled = Quiet /\ UNCHANGED <<draftRow, submitted, throttled, leftover, formCalls, edits, callsMade, formFaults>>
      /\ oddities' = IF formCalls # <<>> \/ leftover # NoFields THEN oddities \cup {"behind"} ELSE oddities
  BY DEF OpenForm, DraftInv, FormRests
<1> HIDE DEF opened
<1>3. FormRests'
  BY <1>1, <1>2, FormSets DEF FormRests
<1>4. oddities' = {} => leftover = NoFields /\ formCalls = <<>>
  BY <1>2
<1>5. oddities' = {} => Pending(form.fields)'
  BY <1>1, <1>2, <1>4, FormSets DEF Pending, Shown
<1>6. oddities \subseteq oddities' /\ oddities' \subseteq {"overtaken", "lost", "stale", "behind"}
  BY <1>2, FormSets
<1> QED BY <1>1, <1>2, <1>3, <1>4, <1>5, <1>6, FormSets, FormStepKeeps

(* A change is saved at once, when the window ends, or not at all. *)
LEMMA EditKeeps ==
  ASSUME DraftInv, NEW f \in Field, NEW emptied \in SUBSET Emptiable(f), Edit(f, emptied)
  PROVE  DraftInv'
<1> DEFINE fields == [g \in Field |-> IF g \in emptied THEN Empty ELSE IF g = f THEN edits + 1 ELSE form.fields[g]]
           edited == [form EXCEPT !.fields = fields]
<1>1. /\ form.open /\ edits < MaxEdits /\ edits' = edits + 1 /\ form' = edited
      /\ UNCHANGED <<draftRow, submitted, leftover, formFaults, oddities>>
      /\ \/ ~form.saves /\ UNCHANGED throttled /\ SendsNone
         \/ form.saves /\ ~throttled.window /\ Sends("save", fields) /\ throttled' = [Quiet EXCEPT !.window = TRUE]
         \/ form.saves /\ throttled.window /\ throttled' = [throttled EXCEPT !.last = fields] /\ SendsNone
  BY DEF Edit, KeepsLast
<1>2. edits' \in 0..MaxEdits
  BY <1>1, FormSets, FormAssumption
<1>3. fields \in Fields /\ fields # NoFields
  <2>1. form.fields \in [Field -> Empty..MaxEdits] /\ edits + 1 \in Empty..MaxEdits /\ Empty \in Empty..MaxEdits
    BY <1>1, <1>2, FormSets, FormAssumption DEF FormRests, Fields, Empty
  <2>2. fields \in [Field -> Empty..MaxEdits]
    BY <2>1
  <2>3. fields[f] \in {Empty, edits + 1}
    OBVIOUS
  <2>4. NoFields[f] = -1 /\ edits + 1 # -1 /\ Empty # -1
    BY FormSets, FormAssumption DEF NoFields, Empty
  <2> QED BY <2>2, <2>3, <2>4 DEF Fields
<1> HIDE DEF fields
<1>4. edited \in FormType /\ edited.open = form.open /\ edited.saves = form.saves /\ edited.fields = fields
  BY <1>3, FormSets DEF FormType
<1> HIDE DEF edited
<1>5. FormRests'
  BY <1>1, <1>3, <1>4 DEF FormRests
<1>6. CASE ~form.saves /\ UNCHANGED throttled /\ SendsNone
  <2>1. ~SavesOnly'
    BY <1>1, <1>4, <1>6 DEF SavesOnly
  <2>2. oddities' = {} /\ form'.open => leftover' = NoFields
    BY <1>1 DEF DraftInv, FormFollows
  <2> QED BY <1>1, <1>2, <1>4, <1>5, <1>6, <2>1, <2>2, FormSets, FormStepKeeps DEF SendsNone
<1>7. CASE form.saves /\ ~throttled.window /\ Sends("save", fields) /\ throttled' = [Quiet EXCEPT !.window = TRUE]
  <2>1. throttled' \in [window : BOOLEAN, last : Fields \cup {NoFields}] /\ throttled'.last = NoFields
    BY <1>7, FormSets DEF Quiet
  <2> QED BY <1>1, <1>2, <1>3, <1>4, <1>5, <1>7, <2>1, FormSets, SendingKeeps
<1>8. CASE form.saves /\ throttled.window /\ throttled' = [throttled EXCEPT !.last = fields] /\ SendsNone
  <2>1. throttled' \in [window : BOOLEAN, last : Fields \cup {NoFields}] /\ throttled'.last = fields
    BY <1>3, <1>8, FormSets
  <2>2. Pending(form.fields)'
    BY <1>1, <1>3, <1>4, <2>1 DEF Pending
  <2>3. oddities' = {} /\ form'.open => leftover' = NoFields
    BY <1>1 DEF DraftInv, FormFollows
  <2> QED BY <1>1, <1>2, <1>4, <1>5, <1>8, <2>1, <2>2, <2>3, FormSets, FormStepKeeps DEF SendsNone
<1> QED BY <1>1, <1>6, <1>7, <1>8

(* The end of the window sends what came in it. *)
LEMMA WindowEndsKeeps ==
  ASSUME DraftInv, WindowEnds
  PROVE  DraftInv'
<1>1. throttled.window /\ UNCHANGED <<draftRow, submitted, form, leftover, edits, formFaults, oddities>>
  BY DEF WindowEnds
<1>2. form.open
  BY <1>1 DEF DraftInv, FormRests, Quiet
<1>3. FormRests'
  BY <1>1, <1>2, FormSets DEF FormRests
<1>4. CASE throttled.last # NoFields
  <2>1. Sends("save", throttled.last) /\ throttled' = [Quiet EXCEPT !.window = TRUE] /\ throttled.last \in Fields
    BY <1>4, FormSets DEF WindowEnds
  <2>2. throttled' \in [window : BOOLEAN, last : Fields \cup {NoFields}] /\ throttled'.last = NoFields
    BY <2>1, FormSets DEF Quiet
  <2>3. Pending(form.fields) => throttled.last = form.fields
    BY <1>4 DEF Pending
  <2> QED BY <1>1, <1>3, <2>1, <2>2, <2>3, FormSets, SendingKeeps
<1>5. CASE throttled.last = NoFields
  <2>1. SendsNone /\ throttled' = Quiet
    BY <1>5 DEF WindowEnds
  <2>2. oddities = {} => /\ form.open => leftover = NoFields
                         /\ SavesOnly => Pending(form.fields)
    BY DEF DraftInv, FormFollows
  <2>3. SavesOnly' <=> SavesOnly
    BY <1>1, <2>1 DEF SavesOnly, SendsNone
  <2>4. Pending(form.fields)' <=> Pending(form.fields)
    BY <1>1, <1>5, <2>1, FormSets DEF Pending, Shown, SendsNone
  <2> QED BY <1>1, <1>3, <2>1, <2>2, <2>3, <2>4, FormSets, FormStepKeeps DEF SendsNone
<1> QED BY <1>4, <1>5

(* A save that was left behind is sent. *)
LEMMA LeftoverFiresKeeps ==
  ASSUME DraftInv, LeftoverFires
  PROVE  DraftInv'
<1>1. /\ leftover # NoFields /\ leftover' = NoFields /\ Sends("save", leftover)
      /\ UNCHANGED <<draftRow, submitted, form, throttled, edits, formFaults, oddities>>
  BY DEF LeftoverFires
<1>2. leftover \in Fields
  BY <1>1, FormSets
<1>3. FormRests'
  BY <1>1, FormSets DEF FormRests
<1> QED BY <1>1, <1>2, <1>3, FormSets, SendingKeeps

(* A form that is left shows nothing. *)
LEMMA CloseFormKeeps ==
  ASSUME DraftInv, CloseForm
  PROVE  DraftInv'
<1>1. /\ form' = ClosedForm /\ throttled' = Quiet
      /\ leftover' = IF throttled.last # NoFields THEN throttled.last ELSE leftover
      /\ UNCHANGED <<draftRow, submitted, formCalls, edits, callsMade, formFaults, oddities>>
  BY DEF CloseForm, Leaves
<1>2. ~form'.open /\ leftover' \in Fields \cup {NoFields}
  BY <1>1, FormSets
<1>3. FormRests' /\ ~SavesOnly'
  BY <1>1, <1>2 DEF FormRests, SavesOnly
<1> QED BY <1>1, <1>2, <1>3, FormSets, FormStepKeeps

(* A form that is submitted saves what it shows. *)
LEMMA FormSubmitsKeeps ==
  ASSUME DraftInv, FormSubmits
  PROVE  DraftInv'
<1> DEFINE waiting == [form EXCEPT !.loading = TRUE]
<1>1. /\ form.open /\ Sends("next", form.fields) /\ form' = waiting
      /\ UNCHANGED <<draftRow, submitted, throttled, leftover, edits, formFaults, oddities>>
  BY DEF FormSubmits
<1>2. waiting \in FormType /\ waiting.open = form.open /\ waiting.saves = form.saves /\ waiting.fields = form.fields
  BY FormSets DEF FormType
<1> HIDE DEF waiting
<1>3. form.fields \in Fields /\ FormRests'
  BY <1>1, <1>2, FormSets DEF FormRests
<1>4. Pending(form.fields) => throttled.last = NoFields \/ throttled.last = form.fields
  BY DEF Pending
<1> QED BY <1>1, <1>2, <1>3, <1>4, FormSets, SendingKeeps

(* Submit sends what the form shows. *)
LEMMA SubmitFormKeeps ==
  ASSUME DraftInv, SubmitForm
  PROVE  DraftInv'
<1>1. /\ form.open /\ Sends("submit", form.fields)
      /\ UNCHANGED <<draftRow, submitted, form, throttled, leftover, edits, formFaults, oddities>>
  BY DEF SubmitForm
<1>2. form.fields \in Fields /\ FormRests'
  BY <1>1, FormSets DEF FormRests
<1> QED BY <1>1, <1>2, FormSets, SendingKeeps

(* A colleague's deletion is sent. *)
LEMMA DeleteDraftKeeps ==
  ASSUME DraftInv, DeleteDraft
  PROVE  DraftInv'
<1>1. /\ Sends("delete", NoFields)
      /\ UNCHANGED <<draftRow, submitted, form, throttled, leftover, edits, formFaults, oddities>>
  BY DEF DeleteDraft
<1>2. FormRests'
  BY <1>1, FormSets DEF FormRests
<1> QED BY <1>1, <1>2, FormSets, SendingKeeps

(* The workflow ends: the row keeps its fields. *)
LEMMA SettleKeeps ==
  ASSUME DraftInv, Settle
  PROVE  DraftInv'
<1>1. PICK status \in {"applied", "failed"} : draftRow' = [draftRow EXCEPT !.status = status]
  BY DEF Settle
<1>2. UNCHANGED <<submitted, form, throttled, leftover, formCalls, edits, callsMade, formFaults, oddities>>
  BY DEF Settle
<1>3. /\ draftRow' \in Row /\ draftRow'.fields = draftRow.fields /\ draftRow'.status = status
      /\ draftRow'.archived = draftRow.archived
  BY <1>1, FormSets DEF Row
<1>4. DraftTypeOK'
  BY <1>2, <1>3 DEF DraftInv, DraftTypeOK
<1>5. Len(formCalls') <= callsMade' /\ CallsAdmitted' /\ FormRests'
  BY <1>2 DEF DraftInv, CallsAdmitted, Admitted, FormRests
<1>6. SubmittedLast' /\ RowFollowsWorkflow' /\ ~SavesOnly'
  BY <1>2, <1>3 DEF DraftInv, SubmittedLast, RowFollowsWorkflow, SavesOnly
<1>7. FormFollows'
  BY <1>2, <1>6 DEF DraftInv, FormFollows
<1> QED BY <1>4, <1>5, <1>6, <1>7 DEF DraftInv

(* A call that ends leaves the others in their order. *)
LEMMA AnswerEnds ==
  ASSUME DraftInv, NEW i \in DOMAIN formCalls, formCalls' = RemoveAt(formCalls, i), callsMade' = callsMade
  PROVE  /\ Len(formCalls) \in Nat /\ Len(formCalls) >= 1 /\ i \in 1..Len(formCalls) /\ formCalls[i] \in CallOf
         /\ formCalls' \in Seq(CallOf) /\ Len(formCalls') = Len(formCalls) - 1
         /\ Len(formCalls') <= MaxFormCalls /\ Len(formCalls') <= callsMade' /\ CallsAdmitted'
         /\ DOMAIN formCalls' = 1..(Len(formCalls) - 1)
         /\ \A j \in DOMAIN formCalls' : /\ j \in DOMAIN formCalls /\ j + 1 \in DOMAIN formCalls
                                         /\ formCalls'[j] = IF j < i THEN formCalls[j] ELSE formCalls[j + 1]
<1>1. /\ DOMAIN formCalls = 1..Len(formCalls) /\ Len(formCalls) \in Nat /\ formCalls \in Seq(CallOf)
      /\ formCalls[i] \in CallOf
  BY CallNumbers DEF DraftInv
<1>2. /\ formCalls' \in Seq(CallOf) /\ Len(formCalls') = Len(formCalls) - 1
      /\ \A j \in 1..(Len(formCalls) - 1) : formCalls'[j] = IF j < i THEN formCalls[j] ELSE formCalls[j + 1]
  BY <1>1, Removes
<1>3. DOMAIN formCalls' = 1..(Len(formCalls) - 1)
  BY <1>2, LenProperties
<1>4. ASSUME NEW j \in 1..(Len(formCalls) - 1)
      PROVE  j \in DOMAIN formCalls /\ j + 1 \in DOMAIN formCalls
  BY <1>1
<1>5. CallsAdmitted'
  <2>1. ASSUME NEW j \in 1..(Len(formCalls) - 1) PROVE Admitted(formCalls'[j])
    BY <1>2, <1>4 DEF DraftInv, CallsAdmitted
  <2> QED BY <1>3, <2>1 DEF CallsAdmitted, Admitted
<1>6. Len(formCalls') <= MaxFormCalls /\ Len(formCalls') <= callsMade'
  BY <1>1, <1>2, FormAssumption DEF DraftInv, DraftTypeOK
<1> QED BY <1>1, <1>2, <1>3, <1>4, <1>5, <1>6

(* A call that ends without a write, refused or lost. *)
LEMMA EndingKeeps ==
  ASSUME DraftInv, NEW i \in DOMAIN formCalls, formCalls' = RemoveAt(formCalls, i), Answered(formCalls[i], FALSE),
         UNCHANGED <<draftRow, submitted, edits, callsMade>>, formFaults' \in 0..MaxFormFaults,
         oddities \subseteq oddities', oddities' \subseteq {"overtaken", "lost", "stale", "behind"},
         oddities' = {} => i = 1 /\ ~SavesOnly'
  PROVE  DraftInv'
<1>1. /\ Len(formCalls) \in Nat /\ Len(formCalls) >= 1
      /\ formCalls' \in Seq(CallOf) /\ Len(formCalls') <= MaxFormCalls /\ Len(formCalls') <= callsMade' /\ CallsAdmitted'
      /\ \A j \in DOMAIN formCalls' : /\ j \in DOMAIN formCalls /\ j + 1 \in DOMAIN formCalls
                                      /\ formCalls'[j] = IF j < i THEN formCalls[j] ELSE formCalls[j + 1]
      /\ DOMAIN formCalls' = 1..(Len(formCalls) - 1)
  BY AnswerEnds
<1>2. /\ form' \in FormType /\ throttled' \in [window : BOOLEAN, last : Fields \cup {NoFields}]
      /\ leftover' \in Fields \cup {NoFields} /\ FormRests'
      /\ form'.open => form.open /\ leftover' = leftover
  BY Answering
<1>3. DraftTypeOK'
  <2>1. /\ draftRow' \in Row /\ submitted' \in Fields \cup {NoFields}
        /\ edits' \in 0..MaxEdits /\ callsMade' \in 0..MaxFormCalls
    BY DEF DraftInv, DraftTypeOK
  <2>2. formCalls' \in Seq([op : {"save", "next", "submit", "delete"}, data : Fields \cup {NoFields},
                            at : {"sent", "read"}, copy : Row \cup {Unread}])
    BY <1>1 DEF CallOf
  <2> QED BY <1>1, <1>2, <2>1, <2>2 DEF DraftTypeOK, FormType
<1>4. FormFollows'
  <2> SUFFICES ASSUME oddities' = {}
               PROVE  /\ \A j \in DOMAIN formCalls' : formCalls'[j].at = "read" => j = 1
                      /\ form'.open => leftover' = NoFields
    BY DEF FormFollows
  <2>1. /\ \A j \in DOMAIN formCalls : formCalls[j].at = "read" => j = 1
        /\ form.open => leftover = NoFields
    BY DEF DraftInv, FormFollows
  <2>2. ASSUME NEW j \in DOMAIN formCalls', formCalls'[j].at = "read" PROVE j = 1
    <3>1. formCalls'[j] = formCalls[j + 1] /\ j + 1 \in DOMAIN formCalls /\ j \in 1..(Len(formCalls) - 1)
      BY <1>1
    <3>2. j + 1 = 1
      BY <2>1, <2>2, <3>1
    <3> QED BY <1>1, <3>1, <3>2
  <2> QED BY <1>2, <2>1, <2>2
<1> QED BY <1>1, <1>2, <1>3, <1>4, RowRests DEF DraftInv

(* A call is read: it carries the row it was decided on. *)
LEMMA ReadingKeeps ==
  ASSUME DraftInv, NEW i \in DOMAIN formCalls, formCalls[i].at = "sent",
         ~draftRow.archived, draftRow.status \in AdmittedFrom(formCalls[i].op),
         formCalls' = [formCalls EXCEPT ![i].at = "read", ![i].copy = draftRow],
         UNCHANGED <<form, throttled, leftover, draftRow, submitted, edits, callsMade, formFaults>>,
         oddities' = IF i # 1 THEN oddities \cup {"overtaken"} ELSE oddities
  PROVE  DraftInv'
<1> DEFINE c == [formCalls[i] EXCEPT !.at = "read", !.copy = draftRow]
<1>1. /\ DOMAIN formCalls = 1..Len(formCalls) /\ Len(formCalls) \in Nat /\ formCalls \in Seq(CallOf)
      /\ formCalls[i] \in CallOf
  BY CallNumbers DEF DraftInv
<1>2. /\ c \in CallOf /\ c.at = "read" /\ c.copy = draftRow /\ c.op = formCalls[i].op /\ c.data = formCalls[i].data
  BY <1>1, FormSets DEF CallOf
<1>3. formCalls' = [formCalls EXCEPT ![i] = c]
  BY <1>1
<1> HIDE DEF c
<1>4. /\ formCalls' \in Seq(CallOf) /\ Len(formCalls') = Len(formCalls) /\ DOMAIN formCalls' = DOMAIN formCalls
      /\ formCalls'[i] = c /\ \A j \in DOMAIN formCalls : j # i => formCalls'[j] = formCalls[j]
  <2> HIDE DEF CallOf
  <2>1. i \in 1..Len(formCalls)
    BY <1>1
  <2>2. /\ [formCalls EXCEPT ![i] = c] \in Seq(CallOf)
        /\ Len([formCalls EXCEPT ![i] = c]) = Len(formCalls)
        /\ \A j \in 1..Len(formCalls) : [formCalls EXCEPT ![i] = c][j] = IF j = i THEN c ELSE formCalls[j]
    BY <1>1, <1>2, <2>1, ExceptSeq
  <2>3. DOMAIN formCalls' = DOMAIN formCalls
    BY <1>3
  <2> QED BY <1>1, <1>3, <2>1, <2>2, <2>3
<1>5. Admitted(c)
  <2>1. c.op # "delete" => c.data \in Fields
    BY <1>2 DEF DraftInv, CallsAdmitted, Admitted
  <2>2. c.op # "submit" => draftRow.status = "draft"
    BY <1>2 DEF AdmittedFrom, SaveFrom
  <2> QED BY <1>2, <2>1, <2>2, FormSets DEF Admitted
<1>6. CallsAdmitted'
  <2>1. ASSUME NEW j \in DOMAIN formCalls PROVE Admitted(formCalls'[j])
    BY <1>4, <1>5 DEF DraftInv, CallsAdmitted
  <2> QED BY <1>4, <2>1 DEF CallsAdmitted, Admitted
<1>7. DraftTypeOK'
  <2>1. formCalls' \in Seq([op : {"save", "next", "submit", "delete"}, data : Fields \cup {NoFields},
                            at : {"sent", "read"}, copy : Row \cup {Unread}])
    BY <1>4 DEF CallOf
  <2> QED BY <1>4, <2>1 DEF DraftInv, DraftTypeOK
<1>8. FormFollows'
  <2> SUFFICES ASSUME oddities' = {}
               PROVE  /\ \A j \in DOMAIN formCalls' : formCalls'[j].at = "read" => j = 1
                      /\ form'.open => leftover' = NoFields
                      /\ SavesOnly' => Pending(form.fields)'
    BY DEF FormFollows
  <2>1. i = 1 /\ oddities = {}
    OBVIOUS
  <2>2. /\ \A j \in DOMAIN formCalls : formCalls[j].at = "read" => j = 1
        /\ form.open => leftover = NoFields
        /\ SavesOnly => Pending(form.fields)
    BY <2>1 DEF DraftInv, FormFollows
  <2>3. SavesOnly' => SavesOnly
    <3>1. \A j \in DOMAIN formCalls : formCalls'[j].op = formCalls[j].op
      BY <1>2, <1>4
    <3> QED BY <1>4, <3>1 DEF SavesOnly
  <2>4. Pending(form.fields) => Pending(form.fields)'
    <3>1. Len(formCalls) \in DOMAIN formCalls /\ formCalls # <<>> /\ formCalls' # <<>>
      BY <1>1, <1>4, EmptySeq
    <3>2. formCalls'[Len(formCalls')].data = formCalls[Len(formCalls)].data
      BY <1>2, <1>4, <3>1
    <3> QED BY <3>1, <3>2 DEF Pending
  <2> QED BY <1>4, <2>1, <2>2, <2>3, <2>4
<1>9. Len(formCalls') <= callsMade' /\ FormRests'
  BY <1>4 DEF DraftInv, FormRests
<1> QED BY <1>6, <1>7, <1>8, <1>9, RowRests DEF DraftInv

(* A handler that refuses writes nothing; a save of a draft is not refused. *)
LEMMA ServerReadsKeeps ==
  ASSUME DraftInv, NEW i \in DOMAIN formCalls, ServerReads(i)
  PROVE  DraftInv'
<1>1. CASE ~draftRow.archived /\ draftRow.status \in AdmittedFrom(formCalls[i].op)
  BY <1>1, ReadingKeeps DEF ServerReads
<1>2. CASE ~(~draftRow.archived /\ draftRow.status \in AdmittedFrom(formCalls[i].op))
  <2>1. /\ formCalls' = RemoveAt(formCalls, i) /\ Answered(formCalls[i], FALSE)
        /\ UNCHANGED <<draftRow, submitted, edits, callsMade, formFaults>>
        /\ oddities' = IF i # 1 THEN oddities \cup {"overtaken"} ELSE oddities
    BY <1>2 DEF ServerReads
  <2>2. ~SavesOnly'
    BY <1>2, <2>1 DEF SavesOnly, AdmittedFrom, SaveFrom, RestingStatus
  <2>3. formFaults' \in 0..MaxFormFaults
    BY <2>1 DEF DraftInv, DraftTypeOK
  <2>4. oddities \subseteq oddities' /\ oddities' \subseteq {"overtaken", "lost", "stale", "behind"}
    BY <2>1, FormSets
  <2>5. oddities' = {} => i = 1 /\ ~SavesOnly'
    BY <2>1, <2>2
  <2> QED BY <2>1, <2>3, <2>4, <2>5, EndingKeeps
<1> QED BY <1>1, <1>2

(* A call that is lost is counted among the oddities. *)
LEMMA CallFailsKeeps ==
  ASSUME DraftInv, NEW i \in DOMAIN formCalls, CallFails(i)
  PROVE  DraftInv'
<1>1. /\ formFaults < MaxFormFaults /\ formFaults' = formFaults + 1
      /\ formCalls' = RemoveAt(formCalls, i) /\ Answered(formCalls[i], FALSE)
      /\ oddities' = oddities \cup {"lost"}
      /\ UNCHANGED <<draftRow, submitted, edits, callsMade>>
  BY DEF CallFails
<1>2. formFaults' \in 0..MaxFormFaults
  BY <1>1, FormAssumption DEF DraftInv, DraftTypeOK
<1>3. oddities \subseteq oddities' /\ oddities' \subseteq {"overtaken", "lost", "stale", "behind"} /\ oddities' # {}
  BY <1>1, FormSets
<1> QED BY <1>1, <1>2, <1>3, EndingKeeps

(* What a handler writes: what the call gives a value, where its copy was the *)
(* row.                                                                       *)
LEMMA RowWrites ==
  ASSUME DraftInv, NEW i \in DOMAIN formCalls, formCalls[i].at = "read", draftRow' = Written(formCalls[i])
  PROVE  LET c == formCalls[i] IN
         /\ draftRow' \in Row
         /\ draftRow'.status = IF c.op = "submit" THEN "submitted" ELSE draftRow.status
         /\ draftRow'.archived = (draftRow.archived \/ c.op = "delete")
         /\ c.op # "delete" => c.data \in Fields
         /\ c.copy = draftRow /\ c.op # "delete" =>
              \A f \in Field : draftRow'.fields[f] = IF c.data[f] = Empty THEN draftRow.fields[f] ELSE c.data[f]
<1> DEFINE c == formCalls[i]
           writes(f) == c.data[f] \notin {Empty, c.copy.fields[f]}
           fields == IF c.op = "delete" THEN draftRow.fields
                     ELSE [f \in Field |-> IF writes(f) THEN c.data[f] ELSE draftRow.fields[f]]
<1>1. c.op # "delete" => c.data \in Fields
  BY DEF DraftInv, CallsAdmitted, Admitted
<1>2. fields \in Fields
  BY <1>1, FormSets DEF Fields
<1>3. ASSUME c.copy = draftRow, c.op # "delete", NEW f \in Field
      PROVE  fields[f] = IF c.data[f] = Empty THEN draftRow.fields[f] ELSE c.data[f]
  BY <1>3
<1>4. draftRow' = [fields |-> fields, status |-> IF c.op = "submit" THEN "submitted" ELSE draftRow.status,
                   archived |-> draftRow.archived \/ c.op = "delete"]
  BY DEF Written
<1>5. draftRow.status \in {"draft", "submitted", "applied", "failed"} /\ draftRow.archived \in BOOLEAN
  BY FormSets DEF Row
<1> HIDE DEF c, fields
<1>6. /\ draftRow'.fields = fields /\ draftRow'.status = IF c.op = "submit" THEN "submitted" ELSE draftRow.status
      /\ draftRow'.archived = (draftRow.archived \/ c.op = "delete")
  BY <1>4
<1>7. (IF c.op = "submit" THEN "submitted" ELSE draftRow.status) \in {"draft", "submitted", "applied", "failed"}
  BY <1>5
<1>8. (draftRow.archived \/ c.op = "delete") \in BOOLEAN
  OBVIOUS
<1>9. draftRow' \in Row
  BY <1>2, <1>4, <1>7, <1>8 DEF Row
<1> QED BY <1>1, <1>3, <1>6, <1>9 DEF c

(* A workflow carries what its row was read as and what the form sent, which  *)
(* is what the row then has, where the copy was the row; but not a null.      *)
LEMMA CarriesTheRow ==
  ASSUME NEW c, c.data \in Fields, c.copy \in Row
  PROVE  /\ Carried(c) \in Fields
         /\ \A f \in Field : LET written == IF c.data[f] = Empty THEN c.copy.fields[f] ELSE c.data[f] IN
              written = Carried(c)[f] \/ (Carried(c)[f] = Empty /\ f \in NullField)
  BY DEF Carried, Fields, Row

(* A write from an up-to-date copy: the row has what was submitted, and what the
   form showed when the call was the last. *)
LEMMA ServerCommitsKeeps ==
  ASSUME DraftInv, NEW i \in DOMAIN formCalls, ServerCommits(i)
  PROVE  DraftInv'
<1> DEFINE c == formCalls[i]
<1>1. /\ c.at = "read" /\ formCalls' = RemoveAt(formCalls, i) /\ draftRow' = Written(c)
      /\ submitted' = IF c.op = "submit" THEN Carried(c) ELSE submitted
      /\ oddities' = IF c.copy # draftRow THEN oddities \cup {"stale"} ELSE oddities
      /\ UNCHANGED <<edits, callsMade>>
      /\ \/ Answered(c, TRUE) /\ formFaults' = formFaults
         \/ formFaults < MaxFormFaults /\ formFaults' = formFaults + 1 /\ Answered(c, FALSE)
  BY DEF ServerCommits
<1>2. PICK ok \in BOOLEAN : Answered(c, ok)
  BY <1>1
<1>3. /\ form' \in FormType /\ throttled' \in [window : BOOLEAN, last : Fields \cup {NoFields}]
      /\ leftover' \in Fields \cup {NoFields} /\ FormRests'
      /\ form'.open => /\ form.open /\ form'.saves = form.saves /\ form'.fields = form.fields
                       /\ throttled' = throttled /\ leftover' = leftover
  BY <1>2, Answering
<1>4. /\ Len(formCalls) \in Nat /\ Len(formCalls) >= 1 /\ i \in 1..Len(formCalls) /\ c \in CallOf
      /\ formCalls' \in Seq(CallOf) /\ Len(formCalls') = Len(formCalls) - 1
      /\ Len(formCalls') <= MaxFormCalls /\ Len(formCalls') <= callsMade' /\ CallsAdmitted'
      /\ DOMAIN formCalls' = 1..(Len(formCalls) - 1)
      /\ \A j \in DOMAIN formCalls' : /\ j \in DOMAIN formCalls /\ j + 1 \in DOMAIN formCalls
                                      /\ formCalls'[j] = IF j < i THEN formCalls[j] ELSE formCalls[j + 1]
  BY <1>1, AnswerEnds
<1>5. /\ draftRow' \in Row
      /\ draftRow'.status = IF c.op = "submit" THEN "submitted" ELSE draftRow.status
      /\ draftRow'.archived = (draftRow.archived \/ c.op = "delete")
      /\ c.op # "delete" => c.data \in Fields
      /\ c.copy = draftRow /\ c.op # "delete" =>
           \A f \in Field : draftRow'.fields[f] = IF c.data[f] = Empty THEN draftRow.fields[f] ELSE c.data[f]
  BY <1>1, RowWrites
<1>6. /\ c.copy \in Row /\ ~c.copy.archived
      /\ c.op # "submit" => c.copy.status = "draft"
      /\ c.op \in {"save", "next", "submit", "delete"}
  BY <1>1, <1>4 DEF DraftInv, CallsAdmitted, Admitted, CallOf
<1>7. DraftTypeOK'
  <2>1. edits' \in 0..MaxEdits /\ callsMade' \in 0..MaxFormCalls /\ formFaults' \in 0..MaxFormFaults
    <3> HIDE DEF c
    <3>1. edits' \in 0..MaxEdits /\ callsMade' \in 0..MaxFormCalls
      BY <1>1 DEF DraftInv, DraftTypeOK
    <3>2. formFaults \in 0..MaxFormFaults
      BY DEF DraftInv, DraftTypeOK
    <3>3. formFaults' = formFaults \/ (formFaults < MaxFormFaults /\ formFaults' = formFaults + 1)
      BY <1>1, Zenon
    <3> QED BY <3>1, <3>2, <3>3, FormAssumption
  <2>2. formCalls' \in Seq([op : {"save", "next", "submit", "delete"}, data : Fields \cup {NoFields},
                            at : {"sent", "read"}, copy : Row \cup {Unread}])
    BY <1>4 DEF CallOf
  <2>3. submitted' \in Fields \cup {NoFields}
    BY <1>1, <1>5, <1>6, CarriesTheRow DEF DraftInv, DraftTypeOK
  <2>4. oddities' \subseteq {"overtaken", "lost", "stale", "behind"}
    BY <1>1, FormSets
  <2> QED BY <1>3, <1>4, <1>5, <2>1, <2>2, <2>3, <2>4 DEF DraftTypeOK, FormType
<1> HIDE DEF c
<1>8. SubmittedLast'
  BY <1>1, <1>5 DEF DraftInv, SubmittedLast
<1>9. RowFollowsWorkflow'
  <2> SUFFICES ASSUME "stale" \notin oddities', submitted' # NoFields
               PROVE  /\ ~draftRow'.archived
                      /\ \A f \in Field : \/ draftRow'.fields[f] = submitted'[f]
                                          \/ submitted'[f] = Empty /\ f \in NullField
    BY DEF RowFollowsWorkflow
  <2>1. c.copy = draftRow /\ "stale" \notin oddities
    BY <1>1
  <2>2. c.op = "submit"
    <3> SUFFICES ASSUME c.op # "submit" PROVE FALSE
      OBVIOUS
    <3>1. draftRow.status = "draft" /\ submitted' = submitted
      BY <1>1, <1>6, <2>1
    <3> QED BY <3>1 DEF DraftInv, SubmittedLast
  <2>3. ASSUME NEW f \in Field
        PROVE  draftRow'.fields[f] = submitted'[f] \/ (submitted'[f] = Empty /\ f \in NullField)
    <3>1. c.data \in Fields /\ submitted' = Carried(c)
      BY <1>1, <1>5, <2>2
    <3>2. draftRow'.fields[f] = IF c.data[f] = Empty THEN c.copy.fields[f] ELSE c.data[f]
      BY <1>5, <2>1, <2>2
    <3> QED BY <1>6, <3>1, <3>2, CarriesTheRow
  <2> QED BY <1>5, <1>6, <2>1, <2>2, <2>3
<1>10. FormFollows'
  <2> SUFFICES ASSUME oddities' = {}
               PROVE  /\ \A j \in DOMAIN formCalls' : formCalls'[j].at = "read" => j = 1
                      /\ form'.open => leftover' = NoFields
                      /\ SavesOnly' => Pending(form.fields)'
    BY DEF FormFollows
  <2>1. oddities = {} /\ c.copy = draftRow
    BY <1>1
  <2>2. /\ \A j \in DOMAIN formCalls : formCalls[j].at = "read" => j = 1
        /\ form.open => leftover = NoFields
        /\ SavesOnly => Pending(form.fields)
    BY <2>1 DEF DraftInv, FormFollows
  <2>3. i = 1
    BY <1>1, <2>2 DEF c
  <2>4. \A j \in DOMAIN formCalls' : /\ j \in 1..(Len(formCalls) - 1) /\ j + 1 \in DOMAIN formCalls
                                     /\ formCalls'[j] = formCalls[j + 1]
    BY <1>4, <2>3
  <2>5. ASSUME NEW j \in DOMAIN formCalls', formCalls'[j].at = "read" PROVE j = 1
    <3>1. j + 1 = 1
      BY <2>2, <2>4, <2>5
    <3> QED BY <1>4, <2>4, <3>1
  <2>6. ASSUME SavesOnly' PROVE Pending(form.fields)'
    <3>1. form'.open /\ form'.saves /\ draftRow'.status = "draft" /\ ~draftRow'.archived
      BY <2>6 DEF SavesOnly
    <3>2. /\ form.open /\ form.saves /\ form'.fields = form.fields /\ throttled' = throttled
          /\ draftRow.status = "draft" /\ ~draftRow.archived /\ c.op \in {"save", "next"}
      BY <1>3, <1>5, <1>6, <3>1
    <3>3. ASSUME NEW j \in DOMAIN formCalls PROVE formCalls[j].op \in {"save", "next"}
      <4>1. CASE j = 1
        BY <2>3, <3>2, <4>1 DEF c
      <4>2. CASE j # 1
        <5>1. j \in 1..Len(formCalls)
          BY CallNumbers DEF DraftInv
        <5>2. j - 1 \in DOMAIN formCalls' /\ (j - 1) + 1 = j
          BY <1>4, <4>2, <5>1
        <5>3. formCalls'[j - 1] = formCalls[j]
          BY <2>4, <5>2
        <5> QED BY <2>6, <5>2, <5>3 DEF SavesOnly
      <4> QED BY <4>1, <4>2
    <3>4. Pending(form.fields)
      BY <2>2, <3>2, <3>3 DEF SavesOnly
    <3>5. formCalls # <<>>
      BY <1>4, EmptySeq
    <3>6. CASE throttled.last # NoFields
      BY <3>2, <3>4, <3>6 DEF Pending
    <3>7. CASE throttled.last = NoFields
      <4>1. formCalls[Len(formCalls)].data = form.fields
        BY <3>4, <3>5, <3>7 DEF Pending
      <4>2. CASE Len(formCalls) = 1
        <5>1. formCalls' = <<>>
          BY <1>4, <4>2, EmptySeq
        <5>2. c.data = form.fields
          BY <2>3, <4>1, <4>2 DEF c
        <5>3. \A f \in Field : form'.fields[f] \in {Empty, draftRow'.fields[f]}
          BY <1>5, <2>1, <3>2, <5>2
        <5> QED BY <3>2, <3>7, <5>1, <5>3 DEF Pending, Shown
      <4>3. CASE Len(formCalls) # 1
        <5>1. Len(formCalls') \in DOMAIN formCalls' /\ Len(formCalls') + 1 = Len(formCalls)
          BY <1>4, <4>3
        <5>2. formCalls' # <<>>
          BY <1>4, <5>1, EmptySeq
        <5>3. formCalls'[Len(formCalls')].data = form'.fields
          BY <2>4, <3>2, <4>1, <5>1
        <5> QED BY <3>2, <3>7, <5>2, <5>3 DEF Pending
      <4> QED BY <4>2, <4>3
    <3> QED BY <3>6, <3>7
  <2> QED BY <1>3, <2>2, <2>5, <2>6
<1> QED BY <1>3, <1>4, <1>7, <1>8, <1>9, <1>10 DEF DraftInv

(* Form and row, for every number of fields, edits, calls and faults: an open
   form's changes are in its throttle, its last call or the row, and the row is
   what was last submitted. *)
THEOREM DraftInvariant == DraftSpec => []DraftInv
<1>1. DraftInit => DraftInv
  <2> SUFFICES ASSUME DraftInit PROVE DraftInv
    OBVIOUS
  <2>1. [f \in Field |-> Empty] \in Fields
    BY FormAssumption DEF Fields, Empty
  <2>2. draftRow \in Row /\ draftRow.status = "draft" /\ ~draftRow.archived
    BY <2>1 DEF DraftInit, Row
  <2>3. form \in FormType /\ ~form.open
    BY DEF DraftInit, ClosedForm, FormType
  <2>4. throttled \in [window : BOOLEAN, last : Fields \cup {NoFields}] /\ throttled = Quiet
    BY DEF DraftInit, Quiet
  <2>5. /\ formCalls = <<>> /\ Len(formCalls) = 0 /\ DOMAIN formCalls = {}
        /\ formCalls \in Seq([op : {"save", "next", "submit", "delete"}, data : Fields \cup {NoFields},
                              at : {"sent", "read"}, copy : Row \cup {Unread}])
    BY EmptySeq DEF DraftInit
  <2>6. DraftTypeOK
    BY <2>2, <2>3, <2>4, <2>5, FormAssumption DEF DraftInit, DraftTypeOK, FormType
  <2>7. Len(formCalls) <= callsMade /\ CallsAdmitted /\ FormRests
    BY <2>3, <2>4, <2>5 DEF DraftInit, CallsAdmitted, FormRests
  <2>8. SubmittedLast /\ RowFollowsWorkflow /\ FormFollows
    BY <2>3, <2>5 DEF DraftInit, SubmittedLast, RowFollowsWorkflow, FormFollows, SavesOnly
  <2> QED BY <2>6, <2>7, <2>8 DEF DraftInv
<1>2. DraftInv /\ [DraftNext]_formVars => DraftInv'
  <2> SUFFICES ASSUME DraftInv, [DraftNext]_formVars PROVE DraftInv'
    OBVIOUS
  <2>1. CASE UNCHANGED formVars
    <3>1. DraftTypeOK' /\ Len(formCalls') <= callsMade'
      BY <2>1 DEF DraftInv, DraftTypeOK, formVars
    <3>2. CallsAdmitted' /\ FormRests'
      BY <2>1 DEF DraftInv, CallsAdmitted, Admitted, FormRests, formVars
    <3>3. SubmittedLast' /\ RowFollowsWorkflow'
      BY <2>1 DEF DraftInv, SubmittedLast, RowFollowsWorkflow, formVars
    <3>4. FormFollows'
      BY <2>1 DEF DraftInv, FormFollows, SavesOnly, Pending, Shown, formVars
    <3> QED BY <3>1, <3>2, <3>3, <3>4 DEF DraftInv
  <2>2. CASE OpenForm
    BY <2>2, OpenFormKeeps
  <2>3. CASE WindowEnds
    BY <2>3, WindowEndsKeeps
  <2>4. CASE LeftoverFires
    BY <2>4, LeftoverFiresKeeps
  <2>5. CASE CloseForm
    BY <2>5, CloseFormKeeps
  <2>6. CASE FormSubmits
    BY <2>6, FormSubmitsKeeps
  <2>7. CASE SubmitForm
    BY <2>7, SubmitFormKeeps
  <2>8. CASE DeleteDraft
    BY <2>8, DeleteDraftKeeps
  <2>9. CASE Settle
    BY <2>9, SettleKeeps
  <2>10. ASSUME NEW f \in Field, NEW emptied \in SUBSET Emptiable(f), Edit(f, emptied) PROVE DraftInv'
    BY <2>10, EditKeeps
  <2>11. ASSUME NEW i \in DOMAIN formCalls, ServerReads(i) PROVE DraftInv'
    BY <2>11, ServerReadsKeeps
  <2>12. ASSUME NEW i \in DOMAIN formCalls, ServerCommits(i) PROVE DraftInv'
    BY <2>12, ServerCommitsKeeps
  <2>13. ASSUME NEW i \in DOMAIN formCalls, CallFails(i) PROVE DraftInv'
    BY <2>13, CallFailsKeeps
  <2> QED BY <2>1, <2>2, <2>3, <2>4, <2>5, <2>6, <2>7, <2>8, <2>9, <2>10, <2>11, <2>12, <2>13 DEF DraftNext
<1> QED BY <1>1, <1>2, PTL DEF DraftSpec

(* transitions.ts: however late a throttled save or a deletion arrives, the row
   of what was submitted is what its workflow carries, but for a field submitted
   as null, unless a handler decided on a copy out of date when it wrote. *)
THEOREM SubmittedIsTheRow == DraftSpec => []RowFollowsWorkflow
<1>1. DraftInv => RowFollowsWorkflow
  BY DEF DraftInv
<1> QED BY <1>1, DraftInvariant, PTL

(* FormTemplate's "Last saved": when nothing waits, the row of an open draft has
   every value its form shows, where no call was lost, overtaken or on its way
   when the form opened. *)
THEOREM FormIsSaved == DraftSpec => []NothingUnsaved
<1>1. ASSUME DraftInv PROVE NothingUnsaved
  <2> SUFFICES ASSUME oddities = {}, form.open, form.saves, draftRow.status = "draft", ~draftRow.archived,
                      formCalls = <<>>, throttled.last = NoFields
               PROVE  \A f \in Field : form.fields[f] \in {Empty, draftRow.fields[f]}
    BY DEF NothingUnsaved
  <2>1. DOMAIN formCalls = {}
    BY EmptySeq
  <2>2. SavesOnly
    BY <2>1 DEF SavesOnly
  <2> QED BY <1>1, <2>2 DEF DraftInv, FormFollows, Pending, Shown
<1> QED BY <1>1, DraftInvariant, PTL

=============================================================================
