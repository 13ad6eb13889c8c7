------------------------------ MODULE ApiProofs ------------------------------
(***************************************************************************)
(* Theorems about the CSS API: the roles of an integration and of a user,  *)
(* and the API accounts.  They hold for any number of names, requests and  *)
(* faults.                                                                 *)
(***************************************************************************)
EXTENDS ApiRoles, ApiAccounts, FiniteSetTheorems, SequenceTheorems, WellFoundedInduction, TLAPS

-----------------------------------------------------------------------------
(* Roles *)

ApiRolesSpec == ApiRolesInit /\ [][ApiRolesNext]_apiVars

ApiRoleRequest ==
  [op : RoleOp \cup {"none", "grant", "revoke"}, on : RoleName \cup {"none"},
   set : SUBSET RoleName, alone : BOOLEAN, hit : BOOLEAN, had : SUBSET RoleName, given : SUBSET RoleName,
   at : {"idle", "user", "link", "read", "call", "confirm", "sync", "ok", "failed", "unsynced"}]

\* The requests that will still number a role, or a row.
WillCreate == {c \in ApiCaller : api[c].op = "create" /\ api[c].at = "call"}
WillSync == {c \in ApiCaller : api[c].op \in RoleOp /\ ~Ended(api[c])}

\* Every request that was begun leaves room for the role and the row it may make.
NumbersSuffice ==
  /\ IsFiniteSet(WillCreate) /\ IsFiniteSet(WillSync)
  /\ newest + Cardinality(WillCreate) + Cardinality(WillSync) <= Cardinality(RoleName) + 2 * apiCalls

\* What each kind of request is at.
StagesFit(q) ==
  /\ q.op \in RoleOp => q.on \in RoleName /\ q.at \in {"call", "confirm", "sync", "ok", "failed", "unsynced"}
  /\ q.op = "rename" => \E m \in RoleName : q.set = {m}
  /\ q.op = "grant" => q.at \in {"user", "link", "read", "call", "ok", "failed"}
  /\ q.op = "revoke" => q.at \in {"read", "call", "ok", "failed"}
  /\ q.op = "none" => q.at = "idle"

\* A request that nobody overlapped is the only one under way.
AloneIsAlone(c) ==
  api[c].alone /\ api[c].op # "none" => \A d \in ApiCaller \ {c} : Ended(api[d])

\* What Keycloak has once a request has had its effect.
EffectIsThere(q) ==
  /\ q.op = "create" => There(q.on)
  /\ q.op = "delete" => ~There(q.on)
  /\ q.op = "rename" => \E m \in RoleName : q.set = {m} /\ There(m) /\ (m # q.on => ~There(q.on))
  /\ q.op \in {"compose", "uncompose"} => q.on \notin q.set /\ \A m \in q.set \cup {q.on} : There(m)
  /\ q.op = "compose" => \A m \in q.set : named[m] \in parts[named[q.on]]
  /\ q.op = "uncompose" => \A m \in q.set : named[m] \notin parts[named[q.on]]

RoleProgress(q) ==
  q.alone /\ q.op \in RoleOp =>
    /\ q.at = "call" => Checked(q.op, q.on, q.set)
    /\ q.at \in {"confirm", "sync", "ok"} => EffectIsThere(q)

\* What a grant has granted: nothing, or all it found missing.
GrantProgress(q) ==
  q.op = "grant" =>
    /\ q.at \in {"user", "link", "read", "call"} => q.given = {}
    /\ q.at = "call" => q.set \ q.had # {}
    /\ q.at = "ok" => q.set \subseteq q.had \cup q.given
    /\ q.at = "failed" /\ ~q.hit => q.given = {}

RowsAnswer(q) ==
  q.alone /\ q.op \in RoleOp =>
       /\ q.at = "ok" =>
            /\ RowMirrors(q.on) \/ q.op = "uncompose"
            /\ q.op = "rename" => \A m \in q.set : RowMirrors(m)
            /\ q.op = "compose" => \A m \in q.set : RowLists(q.on, m)
            /\ q.op = "uncompose" => \A m \in q.set : ~RowLists(q.on, m)
       /\ q.at = "unsynced" => q.hit \/ q.op = "compose"

ApiInv ==
  /\ ApiRolesTypeOK /\ NumbersSuffice
  /\ rowParts[0] = {} /\ (user = "unlinked" => upstream)
  /\ \A c \in ApiCaller :
       StagesFit(api[c]) /\ AloneIsAlone(c) /\ RoleProgress(api[c]) /\ GrantProgress(api[c]) /\ RowsAnswer(api[c])

(* The numbers of roles and rows, and 0 for none. *)
LEMMA ApiIdsAreNumbers ==
  /\ Cardinality(RoleName) \in Nat
  /\ 0 \in ApiId /\ ApiId \subseteq Nat
  /\ \A i : i \in ApiId <=> i \in Nat /\ i <= Cardinality(RoleName) + 2 * MaxApiCalls
<1>1. Cardinality(RoleName) \in Nat
  BY ApiRolesAssumption, FS_CardinalityType
<1>2. Cardinality(RoleName) + 2 * MaxApiCalls \in Nat
  BY <1>1, ApiRolesAssumption
<1> QED BY <1>1, <1>2 DEF ApiId

(* A request under way that may number a role or a row has a number left. *)
LEMMA ThereIsRoom ==
  ASSUME NEW c \in ApiCaller, ApiInv, c \in WillSync
  PROVE  newest + 1 \in ApiId /\ newest + 1 # 0
<1>1. /\ newest \in Nat /\ apiCalls \in Nat /\ apiCalls <= MaxApiCalls /\ Cardinality(RoleName) \in Nat
  BY ApiIdsAreNumbers, ApiRolesAssumption DEF ApiInv, ApiRolesTypeOK
<1>2. /\ Cardinality(WillCreate) \in Nat /\ Cardinality(WillSync) \in Nat
      /\ newest + Cardinality(WillCreate) + Cardinality(WillSync) <= Cardinality(RoleName) + 2 * apiCalls
  BY FS_CardinalityType DEF ApiInv, NumbersSuffice
<1>3. Cardinality(WillSync) # 0
  BY FS_EmptySet DEF ApiInv, NumbersSuffice
<1>4. newest + 1 <= Cardinality(RoleName) + 2 * MaxApiCalls
  BY <1>1, <1>2, <1>3, ApiRolesAssumption
<1> QED BY <1>1, <1>4, ApiIdsAreNumbers

(* A step of a request that is under way leaves enough numbers: the one that  *)
(* takes a number is not among those that will take it any more.              *)
LEMMA NumbersStillSuffice ==
  ASSUME NEW c \in ApiCaller, ApiRolesTypeOK, NumbersSuffice,
         \A d \in ApiCaller \ {c} : api'[d] = api[d],
         api'[c].op = api[c].op, ~Ended(api[c]), apiCalls' = apiCalls,
         api[c].op = "create" /\ api'[c].at = "call" => api[c].at = "call",
         \/ newest' = newest
         \/ newest' = newest + 1 /\ c \in WillCreate /\ api'[c].at # "call"
         \/ newest' = newest + 1 /\ c \in WillSync /\ Ended(api[c])'
  PROVE  NumbersSuffice'
<1>1. /\ newest \in Nat /\ apiCalls \in Nat /\ Cardinality(RoleName) \in Nat
  BY ApiIdsAreNumbers, ApiRolesAssumption DEF ApiRolesTypeOK
<1>2. WillCreate' \in SUBSET WillCreate /\ WillSync' \in SUBSET WillSync
  BY DEF WillCreate, WillSync
<1>3. /\ IsFiniteSet(WillCreate) /\ IsFiniteSet(WillSync)
      /\ newest + Cardinality(WillCreate) + Cardinality(WillSync) <= Cardinality(RoleName) + 2 * apiCalls
  BY DEF NumbersSuffice
<1>4. IsFiniteSet(WillCreate') /\ Cardinality(WillCreate') <= Cardinality(WillCreate)
  BY <1>2, <1>3, FS_Subset
<1>5. IsFiniteSet(WillSync') /\ Cardinality(WillSync') <= Cardinality(WillSync)
  BY <1>2, <1>3, FS_Subset
<1>6. /\ Cardinality(WillCreate) \in Nat /\ Cardinality(WillCreate') \in Nat
      /\ Cardinality(WillSync) \in Nat /\ Cardinality(WillSync') \in Nat
  BY <1>3, <1>4, <1>5, FS_CardinalityType
<1>7. c \in WillCreate /\ api'[c].at # "call" => Cardinality(WillCreate') # Cardinality(WillCreate)
  <2>1. api'[c].at # "call" => c \notin WillCreate'
    BY DEF WillCreate
  <2> QED BY <1>2, <1>3, <2>1, FS_Subset
<1>8. c \in WillSync /\ Ended(api[c])' => Cardinality(WillSync') # Cardinality(WillSync)
  <2>1. Ended(api[c])' => c \notin WillSync'
    BY DEF WillSync
  <2> QED BY <1>2, <1>3, <2>1, FS_Subset
<1>9. newest' + Cardinality(WillCreate') + Cardinality(WillSync') <= Cardinality(RoleName) + 2 * apiCalls'
  <2> DEFINE a == Cardinality(WillCreate)  a1 == Cardinality(WillCreate')
             b == Cardinality(WillSync)    b1 == Cardinality(WillSync')
  <2>1. /\ a \in Nat /\ a1 \in Nat /\ b \in Nat /\ b1 \in Nat /\ a1 <= a /\ b1 <= b
        /\ newest + a + b <= Cardinality(RoleName) + 2 * apiCalls
    BY <1>3, <1>4, <1>5, <1>6
  <2>2. newest' = newest \/ (newest' = newest + 1 /\ (a1 # a \/ b1 # b))
    BY <1>7, <1>8
  <2> HIDE DEF a, a1, b, b1
  <2>3. newest' + a1 + b1 <= Cardinality(RoleName) + 2 * apiCalls
    BY <1>1, <2>1, <2>2
  <2> QED BY <2>3 DEF a1, b1
<1> QED BY <1>4, <1>5, <1>9 DEF NumbersSuffice

(* A request that begins brings the numbers it may take. *)
LEMMA NumbersForOneMore ==
  ASSUME NEW c \in ApiCaller, ApiRolesTypeOK, NumbersSuffice,
         \A d \in ApiCaller \ {c} : api'[d].op = api[d].op /\ api'[d].at = api[d].at,
         newest' = newest, apiCalls' = apiCalls + 1
  PROVE  NumbersSuffice'
<1>1. /\ newest \in Nat /\ apiCalls \in Nat /\ Cardinality(RoleName) \in Nat
  BY ApiIdsAreNumbers, ApiRolesAssumption DEF ApiRolesTypeOK
<1>2. WillCreate' \in SUBSET (WillCreate \cup {c}) /\ WillSync' \in SUBSET (WillSync \cup {c})
  BY DEF WillCreate, WillSync, Ended
<1>3. /\ IsFiniteSet(WillCreate) /\ IsFiniteSet(WillSync)
      /\ newest + Cardinality(WillCreate) + Cardinality(WillSync) <= Cardinality(RoleName) + 2 * apiCalls
  BY DEF NumbersSuffice
<1>4. /\ IsFiniteSet(WillCreate \cup {c}) /\ Cardinality(WillCreate \cup {c}) <= Cardinality(WillCreate) + 1
      /\ IsFiniteSet(WillSync \cup {c}) /\ Cardinality(WillSync \cup {c}) <= Cardinality(WillSync) + 1
      /\ Cardinality(WillCreate) \in Nat /\ Cardinality(WillSync) \in Nat
  <2>1. Cardinality(WillCreate) \in Nat /\ Cardinality(WillSync) \in Nat
    BY <1>3, FS_CardinalityType
  <2>2. IsFiniteSet(WillCreate \cup {c}) /\ Cardinality(WillCreate \cup {c}) <= Cardinality(WillCreate) + 1
    <3>1. /\ IsFiniteSet(WillCreate \cup {c})
          /\ Cardinality(WillCreate \cup {c}) = IF c \in WillCreate THEN Cardinality(WillCreate) ELSE Cardinality(WillCreate) + 1
      BY <1>3, FS_AddElement, Zenon
    <3> QED BY <2>1, <3>1
  <2>3. IsFiniteSet(WillSync \cup {c}) /\ Cardinality(WillSync \cup {c}) <= Cardinality(WillSync) + 1
    <3>1. /\ IsFiniteSet(WillSync \cup {c})
          /\ Cardinality(WillSync \cup {c}) = IF c \in WillSync THEN Cardinality(WillSync) ELSE Cardinality(WillSync) + 1
      BY <1>3, FS_AddElement, Zenon
    <3> QED BY <2>1, <3>1
  <2> QED BY <2>1, <2>2, <2>3
<1>5. IsFiniteSet(WillCreate') /\ Cardinality(WillCreate') <= Cardinality(WillCreate \cup {c})
  BY <1>2, <1>4, FS_Subset
<1>6. IsFiniteSet(WillSync') /\ Cardinality(WillSync') <= Cardinality(WillSync \cup {c})
  BY <1>2, <1>4, FS_Subset
<1>7. /\ Cardinality(WillCreate') \in Nat /\ Cardinality(WillSync') \in Nat
      /\ Cardinality(WillCreate \cup {c}) \in Nat /\ Cardinality(WillSync \cup {c}) \in Nat
  BY <1>4, <1>5, <1>6, FS_CardinalityType
<1>8. newest' + Cardinality(WillCreate') + Cardinality(WillSync') <= Cardinality(RoleName) + 2 * apiCalls'
  BY <1>1, <1>3, <1>4, <1>5, <1>6, <1>7
<1> QED BY <1>5, <1>6, <1>8 DEF NumbersSuffice

(* What one request does is invisible to the others: they were told that they *)
(* are not alone.                                                             *)
LEMMA ApiCallMoves ==
  ASSUME NEW c \in ApiCaller, ApiInv, ~Ended(api[c]),
         api' \in [ApiCaller -> ApiRoleRequest], \A d \in ApiCaller \ {c} : api'[d] = api[d],
         api'[c].op = api[c].op, api'[c].alone = api[c].alone,
         ApiRolesTypeOK', NumbersSuffice', rowParts'[0] = {}, (user = "unlinked" => upstream)',
         StagesFit(api[c])', RoleProgress(api[c])', GrantProgress(api[c])', RowsAnswer(api[c])'
  PROVE  ApiInv'
<1>1. AloneIsAlone(c)'
  BY DEF ApiInv, AloneIsAlone, Ended
<1>2. ASSUME NEW d \in ApiCaller, d # c
      PROVE  /\ StagesFit(api[d])' /\ AloneIsAlone(d)' /\ RoleProgress(api[d])' /\ GrantProgress(api[d])'
             /\ RowsAnswer(api[d])'
  <2>1. api'[d] = api[d] /\ StagesFit(api[d]) /\ GrantProgress(api[d]) /\ (api[d].op = "none" \/ ~api[d].alone)
    BY <1>2 DEF ApiInv, AloneIsAlone
  <2>2. StagesFit(api[d])' /\ GrantProgress(api[d])'
    BY <2>1 DEF StagesFit, GrantProgress
  <2>3. AloneIsAlone(d)'
    BY <2>1 DEF AloneIsAlone
  <2>4. RoleProgress(api[d])' /\ RowsAnswer(api[d])'
    BY <2>1 DEF RoleProgress, RowsAnswer, RoleOp
  <2> QED BY <2>2, <2>3, <2>4
<1> QED BY <1>1, <1>2 DEF ApiInv

(* A request moves on, or fails for a lost call: what it is about stays.      *)
LEMMA ApiCallGoes ==
  ASSUME NEW c \in ApiCaller, api \in [ApiCaller -> ApiRoleRequest],
         NEW to \in {"link", "read", "call", "confirm", "sync", "ok", "failed", "unsynced"},
         ApiGoes(c, to) \/ ApiLost(c, to)
  PROVE  /\ api' \in [ApiCaller -> ApiRoleRequest] /\ \A d \in ApiCaller \ {c} : api'[d] = api[d]
         /\ api'[c].at = to /\ api'[c].op = api[c].op /\ api'[c].on = api[c].on /\ api'[c].set = api[c].set
         /\ api'[c].alone = api[c].alone /\ api'[c].had = api[c].had /\ api'[c].given = api[c].given
         /\ ApiLost(c, to) => api'[c].hit
<1>1. CASE ApiGoes(c, to) /\ ~ApiLost(c, to)
  BY <1>1 DEF ApiGoes, ApiRoleRequest
<1>2. CASE ApiLost(c, to)
  <2>1. api' = [api EXCEPT ![c] = [api[c] EXCEPT !.at = to, !.hit = TRUE]]
    BY <1>2 DEF ApiLost, ApiRoleRequest
  <2> QED BY <2>1 DEF ApiRoleRequest
<1> QED BY <1>1, <1>2

(* The invariant holds at the start: rows of some of the names, nobody asking. *)
LEMMA ApiRolesInitInv == ApiRolesInit => ApiInv
<1> SUFFICES ASSUME ApiRolesInit PROVE ApiInv
  OBVIOUS
<1>1. \A c \in ApiCaller : api[c] = NoApiCall
  BY DEF ApiRolesInit
<1>2. NoApiCall \in ApiRoleRequest /\ NoApiCall.op = "none" /\ NoApiCall.at = "idle"
  BY DEF NoApiCall, ApiRoleRequest
<1>3. api \in [ApiCaller -> ApiRoleRequest]
  BY <1>1, <1>2 DEF ApiRolesInit
<1>4. named \in [RoleName -> ApiId] /\ rowNamed \in [RoleName -> ApiId]
  <2> DEFINE Numbering(f) == \A m, n \in RoleName : m # n => f[m] # f[n]
  <2>1. \E f \in [RoleName -> 1..Cardinality(RoleName)] : Numbering(f)
    <3>1. /\ IsFiniteSet(RoleName) /\ Cardinality(RoleName) \in Nat
          /\ IsFiniteSet(1..Cardinality(RoleName)) /\ Cardinality(1..Cardinality(RoleName)) = Cardinality(RoleName)
      BY ApiRolesAssumption, ApiIdsAreNumbers, FS_Interval
    <3>2. ExistsBijection(RoleName, 1..Cardinality(RoleName))
      BY <3>1, FS_SameCardinalityBij
    <3> QED BY <3>2 DEF ExistsBijection, Bijection, Injection, IsInjective
  <2> DEFINE id == CHOOSE f \in [RoleName -> 1..Cardinality(RoleName)] : Numbering(f)
  <2>2. id \in [RoleName -> 1..Cardinality(RoleName)]
    BY <2>1
  <2>3. 1..Cardinality(RoleName) \subseteq ApiId /\ 0 \in ApiId
    BY ApiIdsAreNumbers, ApiRolesAssumption
  <2>4. \E roles, rows \in SUBSET RoleName :
          /\ named = [n \in RoleName |-> IF n \in roles THEN id[n] ELSE 0]
          /\ rowNamed = [n \in RoleName |-> IF n \in rows THEN id[n] ELSE 0]
    BY DEF ApiRolesInit
  <2> HIDE DEF id
  <2> QED BY <2>2, <2>3, <2>4
<1>5. newest \in ApiId /\ newest = Cardinality(RoleName) /\ apiCalls = 0 /\ apiCalls \in 0..MaxApiCalls
      /\ apiFaults \in 0..MaxApiFaults
  BY ApiIdsAreNumbers, ApiRolesAssumption DEF ApiRolesInit
<1>6. /\ parts \in [ApiId -> SUBSET ApiId] /\ rowParts \in [ApiId -> SUBSET ApiId] /\ rowParts[0] = {}
      /\ holds \subseteq ApiId /\ user \in {"absent", "unlinked", "linked"} /\ upstream \in BOOLEAN
      /\ user = "unlinked" => upstream
  BY ApiIdsAreNumbers DEF ApiRolesInit
<1>7. ApiRolesTypeOK
  BY <1>3, <1>4, <1>5, <1>6 DEF ApiRolesTypeOK, ApiRoleRequest
<1>8. NumbersSuffice
  <2>1. WillCreate = {} /\ WillSync = {}
    BY <1>1, <1>2 DEF WillCreate, WillSync, Ended
  <2> QED BY <1>5, <2>1, FS_EmptySet, ApiIdsAreNumbers DEF NumbersSuffice
<1>9. ASSUME NEW c \in ApiCaller
      PROVE  /\ StagesFit(api[c]) /\ AloneIsAlone(c) /\ RoleProgress(api[c]) /\ GrantProgress(api[c])
             /\ RowsAnswer(api[c])
  BY <1>1, <1>2 DEF StagesFit, AloneIsAlone, RoleProgress, GrantProgress, RowsAnswer, RoleOp
<1> QED BY <1>6, <1>7, <1>8, <1>9 DEF ApiInv

(* A request that begins has checked Keycloak, and tells the others under way. *)
LEMMA BeginApiStep ==
  ASSUME NEW c \in ApiCaller, NEW op \in RoleOp \cup {"grant", "revoke"}, NEW n \in RoleName \cup {"none"},
         NEW set \in SUBSET RoleName, op \in RoleOp => n \in RoleName,
         ApiInv, BeginApi(c, op, n, set)
  PROVE  ApiInv'
<1> DEFINE overlaps == \E d \in ApiCaller \ {c} : ~Ended(api[d])
           at == CASE op \in RoleOp -> "call" [] op = "grant" -> "user" [] OTHER -> "read"
           begun == [NoApiCall EXCEPT !.op = op, !.on = n, !.set = set, !.alone = ~overlaps, !.at = at]
<1>1. /\ Ended(api[c]) /\ Checked(op, n, set) /\ apiCalls < MaxApiCalls /\ apiCalls' = apiCalls + 1
      /\ UNCHANGED <<named, parts, newest, user, holds, rowNamed, rowParts, upstream, apiFaults>>
      /\ api' = [d \in ApiCaller |-> IF d = c THEN begun ELSE [api[d] EXCEPT !.alone = FALSE]]
  BY DEF BeginApi, apiKeycloak, apiRows
<1>2. /\ op \in RoleOp => at = "call"
      /\ op = "grant" => at = "user"
      /\ op = "revoke" => at = "read"
  BY DEF RoleOp
<1>3. /\ begun \in ApiRoleRequest /\ begun.op = op /\ begun.on = n /\ begun.set = set /\ begun.at = at
      /\ begun.alone = ~overlaps /\ begun.hit = FALSE /\ begun.had = {} /\ begun.given = {}
  <2>1. at \in {"user", "read", "call"}
    BY <1>2
  <2>2. overlaps \in BOOLEAN
    OBVIOUS
  <2> HIDE DEF at, overlaps
  <2>3. NoApiCall \in ApiRoleRequest /\ NoApiCall.hit = FALSE /\ NoApiCall.had = {} /\ NoApiCall.given = {}
    BY DEF NoApiCall, ApiRoleRequest
  <2>4. op \in RoleOp \cup {"none", "grant", "revoke"}
    OBVIOUS
  <2> DEFINE alone == ~overlaps
  <2>5. alone \in BOOLEAN
    OBVIOUS
  <2> HIDE DEF alone
  <2>6. LET b == [NoApiCall EXCEPT !.op = op, !.on = n, !.set = set, !.alone = alone, !.at = at]
        IN /\ b \in ApiRoleRequest /\ b.op = op /\ b.on = n /\ b.set = set /\ b.at = at
           /\ b.alone = alone /\ b.hit = FALSE /\ b.had = {} /\ b.given = {}
    BY <2>1, <2>3, <2>4, <2>5 DEF ApiRoleRequest
  <2> QED BY <2>6 DEF alone
<1>4. api'[c] = begun
  BY <1>1
<1> HIDE DEF begun
<1>5. ASSUME NEW d \in ApiCaller, d # c
      PROVE  /\ api'[d] \in ApiRoleRequest /\ ~api'[d].alone /\ api'[d].op = api[d].op /\ api'[d].at = api[d].at
             /\ api'[d].on = api[d].on /\ api'[d].set = api[d].set /\ api'[d].hit = api[d].hit
             /\ api'[d].had = api[d].had /\ api'[d].given = api[d].given
  <2>1. api'[d] = [api[d] EXCEPT !.alone = FALSE] /\ api[d] \in ApiRoleRequest
    BY <1>1, <1>5 DEF ApiInv, ApiRolesTypeOK, ApiRoleRequest
  <2> QED BY ONLY <2>1 DEF ApiRoleRequest
<1>6. api' \in [ApiCaller -> ApiRoleRequest]
  BY <1>1, <1>3, <1>4, <1>5
<1>7. ApiRolesTypeOK'
  <2>1. apiCalls' \in 0..MaxApiCalls
    BY <1>1, ApiRolesAssumption DEF ApiInv, ApiRolesTypeOK
  <2> QED BY <1>1, <1>6, <2>1 DEF ApiInv, ApiRolesTypeOK, ApiRoleRequest
<1>8. NumbersSuffice'
  BY <1>1, <1>5, NumbersForOneMore DEF ApiInv
<1>9. ASSUME NEW d \in ApiCaller, d # c
      PROVE  /\ StagesFit(api[d])' /\ AloneIsAlone(d)' /\ RoleProgress(api[d])' /\ GrantProgress(api[d])'
             /\ RowsAnswer(api[d])'
  <2>1. StagesFit(api[d]) /\ GrantProgress(api[d])
    BY DEF ApiInv
  <2> QED BY <1>5, <1>9, <2>1 DEF StagesFit, AloneIsAlone, RoleProgress, GrantProgress, RowsAnswer
<1>10. AloneIsAlone(c)'
  <2>1. api'[c].alone => \A d \in ApiCaller \ {c} : Ended(api[d])
    BY <1>3, <1>4
  <2> QED BY <1>5, <2>1 DEF AloneIsAlone, Ended
<1>11. StagesFit(api[c])' /\ GrantProgress(api[c])'
  <2>1. op = "rename" => \E m \in RoleName : set = {m}
    BY <1>1 DEF Checked
  <2> QED BY <1>2, <1>3, <1>4, <2>1 DEF StagesFit, GrantProgress, RoleOp
<1>12. RoleProgress(api[c])'
  <2>1. Checked(op, n, set)'
    BY <1>1 DEF Checked, There
  <2> QED BY <1>2, <1>3, <1>4, <2>1 DEF RoleProgress
<1>13. RowsAnswer(api[c])'
  BY <1>2, <1>3, <1>4 DEF RowsAnswer
<1> QED BY <1>1, <1>7, <1>8, <1>9, <1>10, <1>11, <1>12, <1>13 DEF ApiInv

(* What Keycloak does with a call keeps its roles well-formed, and only a     *)
(* creation takes a number.                                                   *)
LEMMA EffectIsTyped ==
  ASSUME NEW q \in ApiRoleRequest, q.op \in RoleOp, q.on \in RoleName,
         ApiRolesTypeOK, newest + 1 \in ApiId, ApiEffect(q)
  PROVE  /\ named' \in [RoleName -> ApiId] /\ parts' \in [ApiId -> SUBSET ApiId]
         /\ newest' \in ApiId /\ holds' \subseteq ApiId
         /\ newest' = newest \/ (newest' = newest + 1 /\ q.op = "create")
<1>1. /\ named \in [RoleName -> ApiId] /\ parts \in [ApiId -> SUBSET ApiId] /\ newest \in ApiId
      /\ holds \subseteq ApiId /\ 0 \in ApiId /\ named[q.on] \in ApiId /\ q.set \subseteq RoleName
  BY ApiIdsAreNumbers DEF ApiRolesTypeOK, ApiRoleRequest
<1>2. IdsOf(q.set) \subseteq ApiId
  BY <1>1 DEF IdsOf
<1>3. CASE q.op = "create"
  BY <1>1, <1>3 DEF ApiEffect
<1>4. CASE q.op = "delete"
  BY <1>1, <1>4 DEF ApiEffect
<1>5. CASE q.op = "rename"
  BY <1>1, <1>5 DEF ApiEffect
<1>6. CASE q.op = "compose"
  <2>1. parts' = [parts EXCEPT ![named[q.on]] = @ \cup IdsOf(q.set)] /\ UNCHANGED <<named, newest, holds>>
    BY <1>6 DEF ApiEffect
  <2> QED BY <1>1, <1>2, <2>1
<1>7. CASE q.op = "uncompose"
  <2>1. parts' = [parts EXCEPT ![named[q.on]] = @ \ IdsOf(q.set)] /\ UNCHANGED <<named, newest, holds>>
    BY <1>7 DEF ApiEffect
  <2> QED BY <1>1, <1>2, <2>1
<1> QED BY <1>3, <1>4, <1>5, <1>6, <1>7 DEF RoleOp

(* A call that was checked, and nobody came in between, does what was asked. *)
LEMMA EffectIsAsked ==
  ASSUME NEW c \in ApiCaller, api[c] \in ApiRoleRequest, api[c].op \in RoleOp, api[c].on \in RoleName,
         ApiRolesTypeOK, newest + 1 \in ApiId, newest + 1 # 0,
         Checked(api[c].op, api[c].on, api[c].set), ApiEffect(api[c]),
         api'[c].op = api[c].op, api'[c].on = api[c].on, api'[c].set = api[c].set
  PROVE  EffectIsThere(api[c])'
<1>1. /\ named \in [RoleName -> ApiId] /\ parts \in [ApiId -> SUBSET ApiId]
      /\ named[api[c].on] \in ApiId /\ api[c].set \subseteq RoleName
  BY DEF ApiRolesTypeOK, ApiRoleRequest
<1>2. CASE api[c].op = "create"
  <2>1. named' = [named EXCEPT ![api[c].on] = newest + 1]
    BY <1>2 DEF ApiEffect
  <2> QED BY <1>1, <1>2, <2>1 DEF EffectIsThere, There
<1>3. CASE api[c].op = "delete"
  <2>1. named' = [named EXCEPT ![api[c].on] = 0]
    BY <1>3 DEF ApiEffect
  <2> QED BY <1>1, <1>3, <2>1 DEF EffectIsThere, There
<1>4. CASE api[c].op = "rename"
  <2>1. named' = [m \in RoleName |-> IF m \in api[c].set THEN named[api[c].on]
                                     ELSE IF m = api[c].on THEN 0 ELSE named[m]]
    BY <1>4 DEF ApiEffect
  <2>2. PICK m \in RoleName : api[c].set = {m} /\ (m # api[c].on => ~There(m))
    BY <1>4 DEF Checked
  <2>3. There(api[c].on)
    BY <1>4 DEF Checked
  <2> QED BY <1>1, <1>4, <2>1, <2>2, <2>3 DEF EffectIsThere, There
<1>5. CASE api[c].op = "compose"
  <2>1. parts' = [parts EXCEPT ![named[api[c].on]] = @ \cup IdsOf(api[c].set)] /\ named' = named
    BY <1>5 DEF ApiEffect
  <2>2. api[c].on \notin api[c].set /\ \A m \in api[c].set \cup {api[c].on} : There(m)
    BY <1>5 DEF Checked
  <2> QED BY <1>1, <1>5, <2>1, <2>2 DEF EffectIsThere, There, IdsOf
<1>6. CASE api[c].op = "uncompose"
  <2>1. parts' = [parts EXCEPT ![named[api[c].on]] = @ \ IdsOf(api[c].set)] /\ named' = named
    BY <1>6 DEF ApiEffect
  <2>2. PICK m \in RoleName \ {api[c].on} : api[c].set = {m} /\ There(m) /\ There(api[c].on)
    BY <1>6 DEF Checked
  <2> QED BY <1>1, <1>6, <2>1, <2>2 DEF EffectIsThere, There, IdsOf
<1> QED BY <1>2, <1>3, <1>4, <1>5, <1>6 DEF RoleOp

(* The call to Keycloak: answered, refused, or lost. *)
LEMMA CallRoleStep ==
  ASSUME NEW c \in ApiCaller, ApiInv, CallRole(c)
  PROVE  ApiInv'
<1>1. /\ api \in [ApiCaller -> ApiRoleRequest] /\ api[c] \in ApiRoleRequest
      /\ api[c].op \in RoleOp /\ api[c].at = "call" /\ api[c].on \in RoleName /\ RoleProgress(api[c])
  BY DEF CallRole, ApiInv, ApiRolesTypeOK, ApiRoleRequest, StagesFit
<1>2. c \in WillSync /\ newest + 1 \in ApiId /\ newest + 1 # 0
  BY <1>1, ThereIsRoom DEF WillSync, Ended
<1>3. PICK to \in {"confirm", "sync", "failed"} :
        /\ ApiGoes(c, to) \/ ApiLost(c, to)
        /\ to # "failed" => ApiEffect(api[c])
        /\ api[c].op = "delete" => to # "confirm"
  BY DEF CallRole
<1>4. /\ api' \in [ApiCaller -> ApiRoleRequest] /\ \A d \in ApiCaller \ {c} : api'[d] = api[d]
      /\ api'[c].at = to /\ api'[c].op = api[c].op /\ api'[c].on = api[c].on /\ api'[c].set = api[c].set
      /\ api'[c].alone = api[c].alone
  BY <1>1, <1>3, ApiCallGoes
<1>5. /\ UNCHANGED <<rowNamed, rowParts, user, upstream, apiCalls>>
      /\ apiFaults' \in 0..MaxApiFaults
      /\ ApiEffect(api[c]) \/ UNCHANGED <<named, parts, newest, holds>>
  BY ApiRolesAssumption DEF CallRole, apiRows, ApiLost, ApiFault, ApiInv, ApiRolesTypeOK
<1>6. /\ named' \in [RoleName -> ApiId] /\ parts' \in [ApiId -> SUBSET ApiId]
      /\ newest' \in ApiId /\ holds' \subseteq ApiId
      /\ newest' = newest \/ (newest' = newest + 1 /\ api[c].op = "create")
  BY <1>1, <1>2, <1>5, EffectIsTyped DEF ApiInv, ApiRolesTypeOK
<1>7. ApiRolesTypeOK'
  BY <1>4, <1>5, <1>6 DEF ApiInv, ApiRolesTypeOK, ApiRoleRequest
<1>8. NumbersSuffice'
  BY <1>1, <1>4, <1>5, <1>6, NumbersStillSuffice DEF ApiInv, WillCreate, Ended
<1>9. StagesFit(api[c])' /\ GrantProgress(api[c])' /\ RowsAnswer(api[c])'
  <2>1. StagesFit(api[c])
    BY DEF ApiInv
  <2> QED BY <1>1, <1>4, <2>1 DEF StagesFit, GrantProgress, RowsAnswer, RoleOp
<1>10. RoleProgress(api[c])'
  <2>1. SUFFICES ASSUME api[c].alone, to # "failed" PROVE EffectIsThere(api[c])'
    BY <1>4 DEF RoleProgress
  <2> QED BY <1>1, <1>2, <1>3, <1>4, <2>1, EffectIsAsked DEF RoleProgress, ApiInv
<1> QED BY <1>1, <1>4, <1>5, <1>7, <1>8, <1>9, <1>10, ApiCallMoves DEF ApiInv, Ended

(* The role is fetched; what it is for is there, or the request fails. *)
LEMMA ConfirmRoleStep ==
  ASSUME NEW c \in ApiCaller, ApiInv, ConfirmRole(c)
  PROVE  ApiInv'
<1>1. /\ api \in [ApiCaller -> ApiRoleRequest] /\ api[c] \in ApiRoleRequest /\ api[c].at = "confirm"
      /\ api[c].op \in RoleOp /\ api[c].on \in RoleName /\ RoleProgress(api[c])
  BY DEF ConfirmRole, ApiInv, ApiRolesTypeOK, ApiRoleRequest, StagesFit
<1>2. PICK to \in {"sync", "failed"} : ApiGoes(c, to) \/ ApiLost(c, to)
  BY DEF ConfirmRole
<1>3. /\ api' \in [ApiCaller -> ApiRoleRequest] /\ \A d \in ApiCaller \ {c} : api'[d] = api[d]
      /\ api'[c].at = to /\ api'[c].op = api[c].op /\ api'[c].on = api[c].on /\ api'[c].set = api[c].set
      /\ api'[c].alone = api[c].alone
  BY <1>1, <1>2, ApiCallGoes
<1>4. /\ UNCHANGED <<named, parts, newest, user, holds, rowNamed, rowParts, upstream, apiCalls>>
      /\ apiFaults' \in 0..MaxApiFaults
  BY ApiRolesAssumption DEF ConfirmRole, apiKeycloak, apiRows, ApiLost, ApiFault, ApiInv, ApiRolesTypeOK
<1>5. ApiRolesTypeOK'
  BY <1>3, <1>4 DEF ApiInv, ApiRolesTypeOK, ApiRoleRequest
<1>6. NumbersSuffice'
  BY <1>1, <1>3, <1>4, NumbersStillSuffice DEF ApiInv, Ended
<1>7. StagesFit(api[c])' /\ GrantProgress(api[c])' /\ RowsAnswer(api[c])'
  <2>1. StagesFit(api[c])
    BY DEF ApiInv
  <2> QED BY <1>1, <1>3, <2>1 DEF StagesFit, GrantProgress, RowsAnswer, RoleOp
<1>8. RoleProgress(api[c])'
  BY <1>1, <1>3, <1>4 DEF RoleProgress, EffectIsThere, There
<1> QED BY <1>1, <1>3, <1>4, <1>5, <1>6, <1>7, <1>8, ApiCallMoves DEF ApiInv, Ended

(* An insertion leaves a row where it was asked for, and the other names.     *)
LEMMA InsertAddsARow ==
  ASSUME NEW f \in [RoleName -> ApiId], NEW g \in [ApiId -> SUBSET ApiId], NEW n \in RoleName,
         NEW id \in ApiId, id # 0
  PROVE  /\ Insert(<<f, g>>, n, id)[1] \in [RoleName -> ApiId] /\ Insert(<<f, g>>, n, id)[2] = g
         /\ Insert(<<f, g>>, n, id)[1][n] # 0
         /\ \A m \in RoleName \ {n} : Insert(<<f, g>>, n, id)[1][m] = f[m]
<1>1. CASE f[n] = 0
  <2> DEFINE h == [f EXCEPT ![n] = id]
  <2>1. Insert(<<f, g>>, n, id) = <<h, g>>
    BY <1>1 DEF Insert
  <2>2. h \in [RoleName -> ApiId] /\ h[n] # 0 /\ \A m \in RoleName \ {n} : h[m] = f[m]
    OBVIOUS
  <2> HIDE DEF h
  <2>3. Insert(<<f, g>>, n, id)[1] = h /\ Insert(<<f, g>>, n, id)[2] = g
    BY <2>1
  <2> QED BY <2>2, <2>3
<1>2. CASE f[n] # 0
  <2>1. Insert(<<f, g>>, n, id) = <<f, g>>
    BY <1>2 DEF Insert
  <2> QED BY <1>2, <2>1
<1> QED BY <1>1, <1>2

(* Destroying a row takes it, and its id, and touches no other name.          *)
LEMMA DestroyTakesTheRow ==
  ASSUME NEW f \in [RoleName -> ApiId], NEW g \in [ApiId -> SUBSET ApiId], g[0] = {}, NEW n \in RoleName
  PROVE  \E h \in [RoleName -> ApiId], k \in [ApiId -> SUBSET ApiId] :
           /\ DestroyRequestRole(<<f, g>>, n) = <<h, k>> /\ k[0] = {} /\ h[n] = 0
           /\ \A m \in RoleName \ {n} : h[m] = f[m]
<1>1. 0 \in ApiId
  BY ApiIdsAreNumbers
<1>2. CASE f[n] = 0
  <2>1. DestroyRequestRole(<<f, g>>, n) = <<f, g>>
    BY <1>2 DEF DestroyRequestRole
  <2> QED BY <1>2, <2>1
<1>3. CASE f[n] # 0
  <2> DEFINE h == [f EXCEPT ![n] = 0]  k == [i \in ApiId |-> IF i = f[n] THEN {} ELSE g[i] \ {f[n]}]
  <2>1. DestroyRequestRole(<<f, g>>, n) = <<h, k>>
    BY <1>3 DEF DestroyRequestRole
  <2>2. k \in [ApiId -> SUBSET ApiId] /\ k[0] = {}
    BY <1>1
  <2>3. h \in [RoleName -> ApiId] /\ h[n] = 0 /\ \A m \in RoleName \ {n} : h[m] = f[m]
    BY <1>1
  <2> HIDE DEF h, k
  <2> QED BY <2>1, <2>2, <2>3
<1> QED BY <1>2, <1>3

(* A renaming leaves a row under the new name and none under the old one.     *)
LEMMA RenamedMovesTheRow ==
  ASSUME rowNamed \in [RoleName -> ApiId], rowParts \in [ApiId -> SUBSET ApiId], rowParts[0] = {},
         NEW n \in RoleName, NEW m \in RoleName, NEW id \in ApiId, id # 0
  PROVE  /\ Renamed(<<rowNamed, rowParts>>, n, m, id)[1] \in [RoleName -> ApiId]
         /\ Renamed(<<rowNamed, rowParts>>, n, m, id)[2] \in [ApiId -> SUBSET ApiId]
         /\ Renamed(<<rowNamed, rowParts>>, n, m, id)[2][0] = {}
         /\ Renamed(<<rowNamed, rowParts>>, n, m, id)[1][m] \in ApiId \ {0}
         /\ m # n => Renamed(<<rowNamed, rowParts>>, n, m, id)[1][n] \in {0}
<1> DEFINE s == IF m = n THEN <<rowNamed, rowParts>> ELSE DestroyRequestRole(<<rowNamed, rowParts>>, m)
<1>1. PICK a \in [RoleName -> ApiId], b \in [ApiId -> SUBSET ApiId] : s = <<a, b>> /\ b[0] = {}
  <2>1. CASE m = n
    BY <2>1
  <2>2. CASE m # n
    BY <2>2, DestroyTakesTheRow
  <2> QED BY <2>1, <2>2
<1> DEFINE own == IF a[n] = 0 THEN id ELSE a[n]
           h == [k \in RoleName |-> IF k = m THEN own ELSE IF k = n THEN 0 ELSE a[k]]
<1>2. Renamed(<<rowNamed, rowParts>>, n, m, id) = <<h, b>>
  <2>1. Renamed(<<rowNamed, rowParts>>, n, m, id)
          = <<[k \in RoleName |-> IF k = m THEN (IF s[1][n] = 0 THEN id ELSE s[1][n])
                                 ELSE IF k = n THEN 0 ELSE s[1][k]], s[2]>>
    BY DEF Renamed
  <2> HIDE DEF s
  <2>2. s[1] = a /\ s[2] = b
    BY <1>1
  <2> QED BY <2>1, <2>2
<1>3. own \in ApiId /\ own # 0 /\ 0 \in ApiId
  BY ApiIdsAreNumbers
<1> HIDE DEF own
<1>4. h \in [RoleName -> ApiId] /\ h[m] # 0 /\ (m # n => h[n] = 0)
  BY <1>3
<1> HIDE DEF h
<1> QED BY <1>1, <1>2, <1>4

(* The rows, written as asked: what the answer to each operation says. *)
LEMMA SyncedRows ==
  ASSUME NEW c \in ApiCaller, ApiRolesTypeOK, rowParts[0] = {},
         api[c] \in ApiRoleRequest, api[c].op \in RoleOp, api[c].on \in RoleName,
         StagesFit(api[c]), newest + 1 \in ApiId, newest + 1 # 0,
         ~Throws(api[c], <<rowNamed, rowParts>>),
         rowNamed' = Synced(api[c], <<rowNamed, rowParts>>)[1],
         rowParts' = Synced(api[c], <<rowNamed, rowParts>>)[2]
  PROVE  /\ rowNamed' \in [RoleName -> ApiId] /\ rowParts' \in [ApiId -> SUBSET ApiId] /\ rowParts'[0] = {}
         /\ api[c].op = "create" => rowNamed'[api[c].on] # 0
         /\ api[c].op = "delete" => rowNamed'[api[c].on] = 0
         /\ api[c].op = "rename" => \A m \in RoleName : api[c].set = {m} =>
              rowNamed'[m] # 0 /\ (m # api[c].on => rowNamed'[api[c].on] = 0)
         /\ api[c].op = "compose" /\ api[c].on \notin api[c].set =>
              /\ rowNamed'[api[c].on] # 0
              /\ \A m \in api[c].set : rowNamed'[m] # 0 /\ rowNamed'[m] \in rowParts'[rowNamed'[api[c].on]]
         /\ api[c].op = "uncompose" =>
              \A m \in api[c].set : rowNamed'[m] # 0 => rowNamed'[m] \notin rowParts'[rowNamed'[api[c].on]]
<1> DEFINE on == api[c].on  set == api[c].set  id == newest + 1  r == <<rowNamed, rowParts>>
<1>1. /\ rowNamed \in [RoleName -> ApiId] /\ rowParts \in [ApiId -> SUBSET ApiId] /\ set \subseteq RoleName
      /\ on \in RoleName /\ id \in ApiId /\ id # 0
  BY DEF ApiRolesTypeOK, ApiRoleRequest
<1>2. CASE api[c].op = "create"
  <2>1. PICK f \in [RoleName -> ApiId], g \in [ApiId -> SUBSET ApiId] :
          DestroyRequestRole(r, on) = <<f, g>> /\ g[0] = {}
    BY <1>1, DestroyTakesTheRow
  <2>2. rowNamed' = Insert(<<f, g>>, on, id)[1] /\ rowParts' = Insert(<<f, g>>, on, id)[2]
    BY <1>2, <2>1 DEF Synced
  <2>3. /\ Insert(<<f, g>>, on, id)[1] \in [RoleName -> ApiId]
        /\ Insert(<<f, g>>, on, id)[2] = g /\ Insert(<<f, g>>, on, id)[1][on] # 0
    BY <1>1, InsertAddsARow
  <2> QED BY <1>2, <2>1, <2>2, <2>3
<1>3. CASE api[c].op = "delete"
  <2>1. PICK f \in [RoleName -> ApiId], g \in [ApiId -> SUBSET ApiId] :
          DestroyRequestRole(r, on) = <<f, g>> /\ g[0] = {} /\ f[on] = 0
    BY <1>1, DestroyTakesTheRow
  <2>2. rowNamed' = f /\ rowParts' = g
    BY <1>3, <2>1 DEF Synced
  <2> QED BY <1>3, <2>1, <2>2
<1>4. CASE api[c].op = "rename"
  <2>1. PICK m \in RoleName : set = {m}
    BY <1>4 DEF StagesFit
  <2>2. (CHOOSE x \in set : TRUE) = m
    BY <2>1
  <2>3. rowNamed' = Renamed(r, on, m, id)[1] /\ rowParts' = Renamed(r, on, m, id)[2]
    BY <1>4, <2>2 DEF Synced
  <2> HIDE DEF id, on
  <2>4. /\ Renamed(r, on, m, id)[1] \in [RoleName -> ApiId]
        /\ Renamed(r, on, m, id)[2] \in [ApiId -> SUBSET ApiId] /\ Renamed(r, on, m, id)[2][0] = {}
        /\ Renamed(r, on, m, id)[1][m] \in ApiId \ {0}
        /\ m # on => Renamed(r, on, m, id)[1][on] \in {0}
    BY <1>1, RenamedMovesTheRow
  <2> QED BY <1>4, <2>1, <2>3, <2>4 DEF on
<1>5. CASE api[c].op = "compose"
  <2> DEFINE s == Insert(r, on, id)  linked == [s[2] EXCEPT ![s[1][on]] = @ \cup {rowNamed[m] : m \in set}]
  <2>1. /\ s[1] \in [RoleName -> ApiId] /\ s[2] = rowParts /\ s[1][on] # 0
        /\ \A m \in RoleName \ {on} : s[1][m] = rowNamed[m]
    <3> HIDE DEF id, on
    <3>1. /\ Insert(<<rowNamed, rowParts>>, on, id)[1] \in [RoleName -> ApiId]
          /\ Insert(<<rowNamed, rowParts>>, on, id)[2] = rowParts /\ Insert(<<rowNamed, rowParts>>, on, id)[1][on] # 0
          /\ \A m \in RoleName \ {on} : Insert(<<rowNamed, rowParts>>, on, id)[1][m] = rowNamed[m]
      BY <1>1, InsertAddsARow
    <3> QED BY <3>1
  <2>2. rowNamed' = s[1] /\ rowParts' = linked
    BY <1>5 DEF Synced
  <2>3. \A m \in set : rowNamed[m] # 0
    BY <1>5 DEF Throws
  <2> HIDE DEF s
  <2>4. rowParts' \in [ApiId -> SUBSET ApiId] /\ rowParts'[0] = {}
    BY <1>1, <2>1, <2>2, ApiIdsAreNumbers
  <2>5. \A m \in set : rowNamed[m] \in rowParts'[s[1][on]]
    BY <1>1, <2>1, <2>2
  <2> QED BY <1>1, <1>5, <2>1, <2>2, <2>3, <2>4, <2>5
<1>6. CASE api[c].op = "uncompose"
  <2>1. CASE rowNamed[on] = 0
    <3>1. rowNamed' = rowNamed /\ rowParts' = rowParts
      BY <1>6, <2>1 DEF Synced
    <3> QED BY <1>1, <1>6, <2>1, <3>1
  <2>2. CASE rowNamed[on] # 0
    <3>1. rowNamed' = rowNamed /\ rowParts' = [rowParts EXCEPT ![rowNamed[on]] = @ \ {rowNamed[m] : m \in set}]
      BY <1>6, <2>2 DEF Synced
    <3> QED BY <1>1, <1>6, <2>2, <3>1, ApiIdsAreNumbers
  <2> QED BY <2>1, <2>2
<1> QED BY <1>2, <1>3, <1>4, <1>5, <1>6 DEF RoleOp

(* The rows are written, or the write is refused or fails. *)
LEMMA SyncRowsStep ==
  ASSUME NEW c \in ApiCaller, ApiInv, SyncRows(c)
  PROVE  ApiInv'
<1> DEFINE r == <<rowNamed, rowParts>>
<1>1. /\ api \in [ApiCaller -> ApiRoleRequest] /\ api[c] \in ApiRoleRequest /\ api[c].at = "sync"
      /\ StagesFit(api[c]) /\ api[c].op \in RoleOp /\ api[c].on \in RoleName /\ RoleProgress(api[c])
  BY DEF SyncRows, ApiInv, ApiRolesTypeOK, ApiRoleRequest, StagesFit
<1>2. c \in WillSync /\ newest + 1 \in ApiId /\ newest + 1 # 0
  BY <1>1, ThereIsRoom DEF WillSync, Ended
<1>3. PICK to \in {"ok", "unsynced"} :
        /\ ApiGoes(c, to) \/ ApiLost(c, to)
        /\ to = "ok" => /\ ~Throws(api[c], r) /\ rowNamed' = Synced(api[c], r)[1]
                        /\ rowParts' = Synced(api[c], r)[2] /\ newest' = newest + 1
        /\ to = "unsynced" => /\ UNCHANGED <<rowNamed, rowParts, newest>>
                              /\ ApiLost(c, to) \/ api[c].op = "compose"
  BY DEF SyncRows, Throws, apiRows
<1>4. /\ api' \in [ApiCaller -> ApiRoleRequest] /\ \A d \in ApiCaller \ {c} : api'[d] = api[d]
      /\ api'[c].at = to /\ api'[c].op = api[c].op /\ api'[c].on = api[c].on /\ api'[c].set = api[c].set
      /\ api'[c].alone = api[c].alone /\ (ApiLost(c, to) => api'[c].hit)
  BY <1>1, <1>3, ApiCallGoes
<1>5. /\ UNCHANGED <<named, parts, user, holds, upstream, apiCalls>> /\ apiFaults' \in 0..MaxApiFaults
  BY ApiRolesAssumption DEF SyncRows, ApiLost, ApiFault, ApiInv, ApiRolesTypeOK
<1>6. /\ rowNamed' \in [RoleName -> ApiId] /\ rowParts' \in [ApiId -> SUBSET ApiId] /\ rowParts'[0] = {}
      /\ newest' \in ApiId
  BY <1>1, <1>2, <1>3, SyncedRows DEF ApiInv, ApiRolesTypeOK
<1>7. ApiRolesTypeOK'
  BY <1>4, <1>5, <1>6 DEF ApiInv, ApiRolesTypeOK, ApiRoleRequest
<1>8. NumbersSuffice'
  <2>1. newest' = newest \/ (newest' = newest + 1 /\ c \in WillSync /\ Ended(api[c])')
    BY <1>2, <1>3, <1>4 DEF Ended
  <2> QED BY <1>1, <1>4, <1>5, <2>1, NumbersStillSuffice DEF ApiInv, Ended
<1>9. StagesFit(api[c])' /\ GrantProgress(api[c])'
  BY <1>1, <1>4 DEF StagesFit, GrantProgress, RoleOp
<1>10. RoleProgress(api[c])'
  BY <1>1, <1>4, <1>5 DEF RoleProgress, EffectIsThere, There
<1>11. RowsAnswer(api[c])'
  <2>1. to = "unsynced" => api'[c].hit \/ api'[c].op = "compose"
    BY <1>3, <1>4
  <2> DEFINE on == api[c].on  set == api[c].set  Mirrored(n) == named'[n] # 0 <=> rowNamed'[n] # 0
             Listed(m) == rowNamed'[m] # 0 /\ rowNamed'[m] \in rowParts'[rowNamed'[on]]
  <2>2. ASSUME to = "ok", api[c].alone
        PROVE  /\ Mirrored(on) \/ api[c].op = "uncompose"
               /\ api[c].op = "rename" => \A m \in set : Mirrored(m)
               /\ api[c].op = "compose" => \A m \in set : Listed(m)
               /\ api[c].op = "uncompose" => \A m \in set : ~Listed(m)
    <3>1. /\ named' = named /\ EffectIsThere(api[c])
          /\ ~Throws(api[c], r) /\ rowNamed' = Synced(api[c], r)[1] /\ rowParts' = Synced(api[c], r)[2]
      BY <1>1, <1>3, <1>5, <2>2 DEF RoleProgress
    <3>2. /\ api[c].op = "create" => rowNamed'[on] # 0
          /\ api[c].op = "delete" => rowNamed'[on] = 0
          /\ api[c].op = "rename" => \A m \in RoleName : set = {m} =>
               rowNamed'[m] # 0 /\ (m # on => rowNamed'[on] = 0)
          /\ api[c].op = "compose" /\ on \notin set =>
               /\ rowNamed'[on] # 0
               /\ \A m \in set : rowNamed'[m] # 0 /\ rowNamed'[m] \in rowParts'[rowNamed'[on]]
          /\ api[c].op = "uncompose" =>
               \A m \in set : rowNamed'[m] # 0 => rowNamed'[m] \notin rowParts'[rowNamed'[on]]
      BY <1>1, <1>2, <3>1, SyncedRows DEF ApiInv
    <3>3. /\ api[c].op = "create" => named[on] # 0
          /\ api[c].op = "delete" => named[on] = 0
          /\ api[c].op = "rename" => \E m \in RoleName : set = {m} /\ named[m] # 0 /\ (m # on => named[on] = 0)
          /\ api[c].op = "compose" => on \notin set /\ named[on] # 0
      BY <3>1 DEF EffectIsThere, There
    <3> QED BY <1>1, <3>1, <3>2, <3>3 DEF RoleOp
  <2> QED BY <1>4, <2>1, <2>2 DEF RowsAnswer, RowMirrors, RowLists, There
<1> QED BY <1>1, <1>4, <1>5, <1>6, <1>7, <1>8, <1>9, <1>10, <1>11, ApiCallMoves DEF ApiInv, Ended

(* What the steps on a user's roles have in common: no role and no row moves. *)
LEMMA UserStepMoves ==
  ASSUME NEW c \in ApiCaller, ApiInv, ~Ended(api[c]), api[c].op \in {"grant", "revoke"},
         api' \in [ApiCaller -> ApiRoleRequest], \A d \in ApiCaller \ {c} : api'[d] = api[d],
         api'[c].op = api[c].op, api'[c].alone = api[c].alone,
         UNCHANGED <<named, parts, newest, rowNamed, rowParts, upstream, apiCalls>>,
         user' \in {"absent", "unlinked", "linked"}, (user = "unlinked" => upstream)',
         holds' \subseteq ApiId, apiFaults' = apiFaults \/ ApiFault,
         StagesFit(api[c])', GrantProgress(api[c])'
  PROVE  ApiInv'
<1>1. apiFaults' \in 0..MaxApiFaults
  BY ApiRolesAssumption DEF ApiFault, ApiInv, ApiRolesTypeOK
<1>2. ApiRolesTypeOK'
  BY <1>1 DEF ApiInv, ApiRolesTypeOK, ApiRoleRequest
<1>3. NumbersSuffice'
  BY NumbersStillSuffice DEF ApiInv
<1>4. RoleProgress(api[c])' /\ RowsAnswer(api[c])'
  BY DEF RoleProgress, RowsAnswer, RoleOp
<1> QED BY <1>2, <1>3, <1>4, ApiCallMoves DEF ApiInv

(* What a request on a user's roles is, as the invariant has it. *)
LEMMA UserRequest ==
  ASSUME NEW c \in ApiCaller, ApiInv
  PROVE  /\ api \in [ApiCaller -> ApiRoleRequest] /\ api[c] \in ApiRoleRequest
         /\ StagesFit(api[c]) /\ GrantProgress(api[c])
         /\ user \in {"absent", "unlinked", "linked"} /\ holds \subseteq ApiId /\ (user = "unlinked" => upstream)
  BY DEF ApiInv, ApiRolesTypeOK, ApiRoleRequest

(* The user is found, or imported if the identity provider knows them. *)
LEMMA FindUserStep ==
  ASSUME NEW c \in ApiCaller, ApiInv, FindUser(c)
  PROVE  ApiInv'
<1>1. api[c].op = "grant" /\ api[c].at = "user"
  BY DEF FindUser
<1>2. PICK to \in {"read", "link", "failed"} : ApiGoes(c, to) \/ ApiLost(c, to)
  BY DEF FindUser
<1>3. /\ api' \in [ApiCaller -> ApiRoleRequest] /\ \A d \in ApiCaller \ {c} : api'[d] = api[d]
      /\ api'[c].at = to /\ api'[c].op = api[c].op /\ api'[c].set = api[c].set /\ api'[c].alone = api[c].alone
      /\ api'[c].given = api[c].given
  BY <1>2, UserRequest, ApiCallGoes
<1>4. /\ UNCHANGED <<named, parts, newest, holds, rowNamed, rowParts, upstream, apiCalls>>
      /\ user' = user \/ (user' = "unlinked" /\ upstream)
      /\ apiFaults' = apiFaults \/ ApiFault
  BY DEF FindUser, apiRows, ApiLost
<1>5. StagesFit(api[c])' /\ GrantProgress(api[c])'
  BY <1>1, <1>3, UserRequest DEF StagesFit, GrantProgress, RoleOp
<1> QED BY <1>1, <1>3, <1>4, <1>5, UserRequest, UserStepMoves DEF Ended

(* The imported user is linked. *)
LEMMA LinkUserStep ==
  ASSUME NEW c \in ApiCaller, ApiInv, LinkUser(c)
  PROVE  ApiInv'
<1>1. api[c].op = "grant" /\ api[c].at = "link"
  BY UserRequest DEF LinkUser, StagesFit, ApiRoleRequest
<1>2. PICK to \in {"read", "failed"} : ApiGoes(c, to) \/ ApiLost(c, to)
  BY DEF LinkUser
<1>3. /\ api' \in [ApiCaller -> ApiRoleRequest] /\ \A d \in ApiCaller \ {c} : api'[d] = api[d]
      /\ api'[c].at = to /\ api'[c].op = api[c].op /\ api'[c].set = api[c].set /\ api'[c].alone = api[c].alone
      /\ api'[c].given = api[c].given
  BY <1>2, UserRequest, ApiCallGoes
<1>4. /\ UNCHANGED <<named, parts, newest, holds, rowNamed, rowParts, upstream, apiCalls>>
      /\ user' \in {user, "linked"} /\ (apiFaults' = apiFaults \/ ApiFault)
  BY DEF LinkUser, apiRows, ApiLost
<1>5. StagesFit(api[c])' /\ GrantProgress(api[c])'
  BY <1>1, <1>3, UserRequest DEF StagesFit, GrantProgress, RoleOp
<1> QED BY <1>1, <1>3, <1>4, <1>5, UserRequest, UserStepMoves DEF Ended

(* What the user holds is read; a grant with nothing to do is answered. *)
LEMMA ReadHeldStep ==
  ASSUME NEW c \in ApiCaller, ApiInv, ReadHeld(c)
  PROVE  ApiInv'
<1> DEFINE todo == IF api[c].op = "grant" THEN api[c].set \ Held ELSE api[c].set \cap Held
<1>1. api[c].op \in {"grant", "revoke"} /\ api[c].at = "read"
  BY UserRequest DEF ReadHeld, StagesFit, ApiRoleRequest, RoleOp
<1>2. /\ UNCHANGED <<named, parts, newest, user, holds, rowNamed, rowParts, upstream, apiCalls>>
      /\ apiFaults' = apiFaults \/ ApiFault
  BY DEF ReadHeld, apiKeycloak, apiRows, ApiLost
<1>3. CASE ApiGoes(c, "failed") \/ ApiLost(c, "failed")
  <2>1. /\ api' \in [ApiCaller -> ApiRoleRequest] /\ \A d \in ApiCaller \ {c} : api'[d] = api[d]
        /\ api'[c].at = "failed" /\ api'[c].op = api[c].op /\ api'[c].set = api[c].set
        /\ api'[c].alone = api[c].alone /\ api'[c].given = api[c].given
    BY <1>3, UserRequest, ApiCallGoes
  <2>2. StagesFit(api[c])' /\ GrantProgress(api[c])'
    BY <1>1, <2>1, UserRequest DEF StagesFit, GrantProgress, RoleOp
  <2> QED BY <1>1, <1>2, <2>1, <2>2, UserRequest, UserStepMoves DEF Ended
<1>4. CASE api' = [api EXCEPT ![c].had = Held, ![c].at = IF todo = {} THEN "ok" ELSE "call"]
  <2> DEFINE to == IF todo = {} THEN "ok" ELSE "call"
  <2>1. api' = [api EXCEPT ![c] = [api[c] EXCEPT !.had = Held, !.at = to]]
    BY <1>4, UserRequest DEF ApiRoleRequest
  <2>2. Held \in SUBSET RoleName /\ to \in {"ok", "call"} /\ (todo = {} <=> to = "ok")
    BY DEF Held
  <2> HIDE DEF to
  <2>3. /\ api' \in [ApiCaller -> ApiRoleRequest] /\ \A d \in ApiCaller \ {c} : api'[d] = api[d]
        /\ api'[c].at = to /\ api'[c].op = api[c].op /\ api'[c].set = api[c].set
        /\ api'[c].alone = api[c].alone /\ api'[c].given = api[c].given /\ api'[c].had = Held
    <3> DEFINE q == [api[c] EXCEPT !.had = Held, !.at = to]
    <3>1. api \in [ApiCaller -> ApiRoleRequest] /\ api[c] \in ApiRoleRequest
      BY UserRequest
    <3>2. /\ q \in ApiRoleRequest /\ q.at = to /\ q.op = api[c].op /\ q.set = api[c].set
          /\ q.alone = api[c].alone /\ q.given = api[c].given /\ q.had = Held
      BY ONLY <2>2, <3>1 DEF ApiRoleRequest
    <3> HIDE DEF q
    <3> QED BY <2>1, <3>1, <3>2 DEF q
  <2>4. StagesFit(api[c])'
    BY <1>1, <2>2, <2>3, UserRequest DEF StagesFit, RoleOp
  <2>5. GrantProgress(api[c])'
    <3>1. api[c].op = "grant" => api[c].given = {} /\ (to = "ok" <=> api[c].set \subseteq Held)
      BY <1>1, <2>2, UserRequest DEF GrantProgress
    <3> QED BY <2>2, <2>3, <3>1 DEF GrantProgress
  <2> QED BY <1>1, <1>2, <2>3, <2>4, <2>5, UserRequest, UserStepMoves DEF Ended
<1> QED BY <1>3, <1>4 DEF ReadHeld

(* All of what is missing is granted, or nothing. *)
LEMMA GrantAllStep ==
  ASSUME NEW c \in ApiCaller, ApiInv, GrantAll(c)
  PROVE  ApiInv'
<1> DEFINE todo == api[c].set \ api[c].had  given == GrantOf(todo)
<1>1. api[c].op = "grant" /\ api[c].at = "call" /\ api[c].given = {}
  BY UserRequest DEF GrantAll, GrantProgress
<1>2. /\ UNCHANGED <<named, parts, newest, user, rowNamed, rowParts, upstream, apiCalls>>
      /\ apiFaults' = apiFaults \/ ApiFault
  BY DEF GrantAll, apiRows, ApiLost
<1>3. given \in {todo, {}} /\ todo \in SUBSET RoleName
  BY UserRequest DEF GrantOf, ApiRoleRequest
<1>4. holds' \subseteq ApiId
  <2>1. IdsOf(given) \subseteq ApiId
    BY <1>3 DEF IdsOf, ApiInv, ApiRolesTypeOK
  <2> QED BY <2>1, UserRequest DEF GrantAll
<1>5. CASE ApiGoes(c, "failed") \/ ApiLost(c, "failed")
  <2>1. /\ api' \in [ApiCaller -> ApiRoleRequest] /\ \A d \in ApiCaller \ {c} : api'[d] = api[d]
        /\ api'[c].at = "failed" /\ api'[c].op = api[c].op /\ api'[c].set = api[c].set
        /\ api'[c].alone = api[c].alone /\ api'[c].given = api[c].given
    BY <1>5, UserRequest, ApiCallGoes
  <2>2. StagesFit(api[c])' /\ GrantProgress(api[c])'
    BY <1>1, <2>1, UserRequest DEF StagesFit, GrantProgress, RoleOp
  <2> QED BY <1>1, <1>2, <1>4, <2>1, <2>2, UserRequest, UserStepMoves DEF Ended
<1>6. CASE /\ given # {}
           /\ \/ api' = [api EXCEPT ![c].at = "ok", ![c].given = given]
              \/ api' = [api EXCEPT ![c].at = "failed", ![c].given = given, ![c].hit = TRUE]
  <2>1. given = todo /\ given \in SUBSET RoleName
    BY <1>3, <1>6
  <2> HIDE DEF given
  <2>2. \/ api' = [api EXCEPT ![c] = [api[c] EXCEPT !.at = "ok", !.given = given]]
        \/ api' = [api EXCEPT ![c] = [api[c] EXCEPT !.at = "failed", !.given = given, !.hit = TRUE]]
    BY <1>6, UserRequest DEF ApiRoleRequest
  <2>3. /\ api' \in [ApiCaller -> ApiRoleRequest] /\ \A d \in ApiCaller \ {c} : api'[d] = api[d]
        /\ api'[c].at = "ok" \/ (api'[c].at = "failed" /\ api'[c].hit)
        /\ api'[c].op = api[c].op /\ api'[c].set = api[c].set /\ api'[c].had = api[c].had
        /\ api'[c].alone = api[c].alone /\ api'[c].given = given
    <3>1. api \in [ApiCaller -> ApiRoleRequest] /\ api[c] \in ApiRoleRequest
      BY UserRequest
    <3>2. CASE api' = [api EXCEPT ![c] = [api[c] EXCEPT !.at = "ok", !.given = given]]
      BY ONLY <2>1, <3>1, <3>2, c \in ApiCaller DEF ApiRoleRequest
    <3>3. CASE api' = [api EXCEPT ![c] = [api[c] EXCEPT !.at = "failed", !.given = given, !.hit = TRUE]]
      BY ONLY <2>1, <3>1, <3>3, c \in ApiCaller DEF ApiRoleRequest
    <3> QED BY <2>2, <3>2, <3>3
  <2>4. StagesFit(api[c])' /\ GrantProgress(api[c])'
    BY <1>1, <2>1, <2>3, UserRequest DEF StagesFit, GrantProgress, RoleOp
  <2> QED BY <1>1, <1>2, <1>4, <2>3, <2>4, UserRequest, UserStepMoves DEF Ended
<1> QED BY <1>5, <1>6 DEF GrantAll

(* A role is taken from the user, or the call fails. *)
LEMMA RevokeStep ==
  ASSUME NEW c \in ApiCaller, ApiInv, Revoke(c)
  PROVE  ApiInv'
<1>1. api[c].op = "revoke" /\ api[c].at = "call"
  BY DEF Revoke
<1>2. PICK to \in {"ok", "failed"} : ApiGoes(c, to) \/ ApiLost(c, to)
  BY DEF Revoke
<1>3. /\ api' \in [ApiCaller -> ApiRoleRequest] /\ \A d \in ApiCaller \ {c} : api'[d] = api[d]
      /\ api'[c].at = to /\ api'[c].op = api[c].op /\ api'[c].set = api[c].set /\ api'[c].alone = api[c].alone
  BY <1>2, UserRequest, ApiCallGoes
<1>4. /\ UNCHANGED <<named, parts, newest, user, rowNamed, rowParts, upstream, apiCalls>>
      /\ holds' \subseteq ApiId /\ (apiFaults' = apiFaults \/ ApiFault)
  BY UserRequest DEF Revoke, apiRows, ApiLost
<1>5. StagesFit(api[c])' /\ GrantProgress(api[c])'
  BY <1>1, <1>3, UserRequest DEF StagesFit, GrantProgress, RoleOp
<1> QED BY <1>1, <1>3, <1>4, <1>5, UserRequest, UserStepMoves DEF Ended

(* Every step of every request keeps the invariant. *)
LEMMA ApiRolesNextInv == ApiInv /\ [ApiRolesNext]_apiVars => ApiInv'
<1> SUFFICES ASSUME ApiInv, [ApiRolesNext]_apiVars PROVE ApiInv'
  OBVIOUS
<1>1. ASSUME NEW c \in ApiCaller, NEW op \in RoleOp, NEW n \in RoleName, NEW set \in SUBSET RoleName,
             BeginApi(c, op, n, set)
      PROVE  ApiInv'
  BY <1>1, BeginApiStep
<1>2. ASSUME NEW c \in ApiCaller, NEW op \in {"grant", "revoke"}, NEW set \in SUBSET RoleName,
             BeginApi(c, op, "none", set)
      PROVE  ApiInv'
  BY <1>2, BeginApiStep DEF RoleOp
<1>3. ASSUME NEW c \in ApiCaller, CallRole(c) \/ ConfirmRole(c) \/ SyncRows(c)
      PROVE  ApiInv'
  BY <1>3, CallRoleStep, ConfirmRoleStep, SyncRowsStep
<1>4. ASSUME NEW c \in ApiCaller, FindUser(c) \/ LinkUser(c) \/ ReadHeld(c) \/ GrantAll(c) \/ Revoke(c)
      PROVE  ApiInv'
  BY <1>4, FindUserStep, LinkUserStep, ReadHeldStep, GrantAllStep, RevokeStep
<1>5. CASE UNCHANGED apiVars
  <2>1. UNCHANGED <<named, parts, newest, user, holds, rowNamed, rowParts, upstream, api, apiCalls, apiFaults>>
    BY <1>5 DEF apiVars, apiKeycloak, apiRows
  <2>2. ApiRolesTypeOK' /\ NumbersSuffice'
    BY <2>1 DEF ApiInv, ApiRolesTypeOK, NumbersSuffice, WillCreate, WillSync, Ended
  <2>3. ASSUME NEW c \in ApiCaller
        PROVE  /\ StagesFit(api[c])' /\ AloneIsAlone(c)' /\ RoleProgress(api[c])' /\ GrantProgress(api[c])'
               /\ RowsAnswer(api[c])'
    <3>1. /\ StagesFit(api[c]) /\ AloneIsAlone(c) /\ RoleProgress(api[c]) /\ GrantProgress(api[c])
          /\ RowsAnswer(api[c])
      BY DEF ApiInv
    <3>2. StagesFit(api[c])' /\ AloneIsAlone(c)' /\ GrantProgress(api[c])'
      BY <2>1, <3>1 DEF StagesFit, AloneIsAlone, Ended, GrantProgress
    <3>3. RoleProgress(api[c])'
      BY <2>1, <3>1 DEF RoleProgress, EffectIsThere, Checked, There
    <3>4. RowsAnswer(api[c])'
      BY <2>1, <3>1 DEF RowsAnswer, RowMirrors, RowLists, There
    <3> QED BY <3>2, <3>3, <3>4
  <2> QED BY <2>1, <2>2, <2>3 DEF ApiInv
<1> QED BY <1>1, <1>2, <1>3, <1>4, <1>5 DEF ApiRolesNext

(* What a request has seen, changed and recorded stays as the invariant says. *)
THEOREM ApiRolesInvariant == ApiRolesSpec => []ApiInv
<1> QED BY ApiRolesInitInv, ApiRolesNextInv, PTL DEF ApiRolesSpec

(* services/role-service.ts: for any number of names, requests and faults,    *)
(* and whatever rows earlier failures left, a request on a role that nobody   *)
(* overlapped and that was answered leaves the rows as the roles are; and     *)
(* short of a failing write only a composite role without a row can keep them *)
(* behind.                                                                    *)
THEOREM AnswersAreMirrored == ApiRolesSpec => []AnsweredIsMirrored
<1>1. ApiInv => AnsweredIsMirrored
  BY DEF ApiInv, RoleProgress, RowsAnswer, EffectIsThere, AnsweredIsMirrored
<1> QED BY <1>1, ApiRolesInvariant, PTL

(* services/user-role-mapping-service.ts: whatever happens to the roles in    *)
(* between, a grant that was answered left the user with each role, one that  *)
(* was refused granted none, and nobody unknown upstream is imported.         *)
THEOREM GrantsAreAllOrNothing == ApiRolesSpec => []GrantIsAllOrNothing
<1>1. ApiInv => GrantIsAllOrNothing
  BY DEF ApiInv, GrantProgress, GrantIsAllOrNothing
<1> QED BY <1>1, ApiRolesInvariant, PTL

-----------------------------------------------------------------------------
(* The API accounts *)

AccountsSpec == AccountsInit /\ [][AccountsNext]_acctVars

AccountRow == [owner : Owner, named : BOOLEAN, archived : BOOLEAN]
AccountCall ==
  [op : {"idle", "create", "delete", "restore", "sweep", "sweeping", "waiting"},
   owner : Owner \cup {"nobody"}, ids : SUBSET Acct, copy : BOOLEAN, merged : BOOLEAN, fresh : BOOLEAN]
Queue == {<<>>, <<"apply">>, <<"delete">>}

\* The row of an active account names an owner that exists.
ActiveIsOwned ==
  \A a \in Acct : acct[a] # NoAcct =>
    /\ ~acct[a].archived => acct[a].named
    /\ acct[a].named => acct[a].owner \in owners

\* What a call is about: accounts of its owner; a creation that none overtook
\* still finds no active one.
CallsFit(c) ==
  LET q == acall[c]
  IN /\ q.op # "idle" => q.owner \in Owner
     /\ \A a \in q.ids : acct[a] # NoAcct /\ acct[a].owner = q.owner
     /\ q.op \in {"sweeping", "waiting"} => q.ids # {}
     /\ q.op = "create" /\ q.fresh => ActiveOf(q.owner) = {}

\* The workflow of an account, or its outcome, is the one its row asks for.
WorkFits(a) ==
  /\ acct[a] = NoAcct => works[a] = <<>>
  /\ acct[a] # NoAcct /\ a \notin spared =>
       IF works[a] = <<>> THEN a \in client <=> ~acct[a].archived
       ELSE works[a] = IF acct[a].archived THEN <<"delete">> ELSE <<"apply">>

AcctInv ==
  /\ AccountsTypeOK /\ works \in [Acct -> Queue]
  /\ ActiveIsOwned
  /\ \A c \in AccountCaller : CallsFit(c)
  /\ \A a \in Acct : WorkFits(a)

(* The least of some numbers is one of them. *)
LEMMA MinimumIsAmong ==
  ASSUME NEW ids, ids \subseteq Acct, ids # {}
  PROVE  Minimum(ids) \in ids
<1> DEFINE R == {ss \in Nat \X Nat : ss[1] < ss[2]}
<1>1. IsWellFoundedOn(OpToRel(<, Nat), Nat)
  BY NatLessThanWellFounded
<1>2. OpToRel(<, Nat) = R
  BY DEF OpToRel
<1>3. IsWellFoundedOn(R, Nat)
  BY <1>1, <1>2
<1>4. ids \subseteq Nat
  BY ApiAccountsAssumption DEF Acct
<1> HIDE DEF R
<1>5. PICK x \in ids : \A y \in ids : ~(<<y, x>> \in R)
  BY <1>3, <1>4, WFMin, Zenon
<1>6. ASSUME NEW y \in ids PROVE x <= y
  <2>1. x \in Nat /\ y \in Nat /\ (y < x => <<y, x>> \in R)
    BY <1>4 DEF R
  <2>2. ~(y < x)
    BY <1>5, <2>1
  <2> QED BY <2>1, <2>2
<1> QED BY <1>6 DEF Minimum

(* A queue of workflows holds one at most. *)
LEMMA QueueIsShort ==
  ASSUME NEW q \in Queue
  PROVE  q \in Seq({"apply", "delete"}) /\ Len(q) <= 1
<1>1. <<>> \in Seq({"apply", "delete"}) /\ Len(<<>>) = 0
  OBVIOUS
<1>2. \A w \in {"apply", "delete"} : <<w>> \in Seq({"apply", "delete"}) /\ Len(<<w>>) = 1
  OBVIOUS
<1>3. CASE q = <<>>
  BY <1>1, <1>3
<1>4. CASE q # <<>>
  <2>1. PICK w \in {"apply", "delete"} : q = <<w>>
    BY <1>4 DEF Queue
  <2> QED BY <1>2, <2>1
<1> QED BY <1>3, <1>4

(* What the invariant says of types, by name. *)
LEMMA AccountTypes ==
  ASSUME AcctInv
  PROVE  /\ owners \subseteq Owner /\ acct \in [Acct -> AccountRow \cup {NoAcct}]
         /\ works \in [Acct -> Queue]
         /\ applied \subseteq Acct /\ client \subseteq Acct /\ spared \subseteq Acct
         /\ acall \in [AccountCaller -> AccountCall]
BY DEF AcctInv, AccountsTypeOK, AccountRow, AccountCall

(* ... and what a step must show of them. *)
LEMMA TypesStay ==
  ASSUME owners' \subseteq Owner, acct' \in [Acct -> AccountRow \cup {NoAcct}], works' \in [Acct -> Queue],
         applied' \subseteq Acct, client' \subseteq Acct, spared' \subseteq Acct,
         acall' \in [AccountCaller -> AccountCall]
  PROVE  AccountsTypeOK'
<1>1. \A a \in Acct : works'[a] \in Seq({"apply", "delete"}) /\ Len(works'[a]) <= 1
  BY QueueIsShort
<1> QED BY <1>1 DEF AccountsTypeOK, AccountCall, AccountRow

(* A call whose accounts stay its owner's goes on fitting, unless an account  *)
(* became active that its count of them missed.                               *)
LEMMA CallStaysFit ==
  ASSUME NEW d \in AccountCaller, AcctInv, acall'[d].ids \subseteq acall[d].ids,
         acall'[d].owner = acall[d].owner, acall'[d].op = acall[d].op,
         acall'[d].ids = acall[d].ids \/ acall[d].op = "sweep",
         \A a \in Acct : acct[a] # NoAcct => acct'[a] # NoAcct /\ acct'[a].owner = acct[a].owner,
         acall[d].op = "create" /\ acall'[d].fresh =>
           acall[d].fresh /\ ActiveOf(acall[d].owner)' \subseteq ActiveOf(acall[d].owner)
  PROVE  CallsFit(d)'
<1>1. CallsFit(d) /\ acall[d].ids \subseteq Acct
  BY AccountTypes DEF AcctInv, AccountCall
<1>2. \A a \in acall'[d].ids : acct'[a] # NoAcct /\ acct'[a].owner = acall'[d].owner
  BY <1>1 DEF CallsFit
<1>3. acall'[d].op = "create" /\ acall'[d].fresh => ActiveOf(acall[d].owner)' = {}
  BY <1>1 DEF CallsFit
<1> QED BY <1>1, <1>2, <1>3 DEF CallsFit

(* A call that is over fits. *)
LEMMA IdleFits ==
  ASSUME NEW d \in AccountCaller, acall'[d] = CallIdle
  PROVE  CallsFit(d)'
BY DEF CallsFit, CallIdle

(* A creation learns of the account that became active before it. *)
LEMMA PublishedIsKnown ==
  ASSUME NEW c \in AccountCaller, AcctInv, Publish(c, CallIdle, acct'),
         \A a \in Acct : acct[a] # NoAcct => acct'[a] # NoAcct /\ acct'[a].owner = acct[a].owner
  PROVE  acall' \in [AccountCaller -> AccountCall] /\ \A d \in AccountCaller : CallsFit(d)'
<1>1. CallIdle \in AccountCall
  BY DEF CallIdle, AccountCall
<1>2. ASSUME NEW d \in AccountCaller, d # c
      PROVE  acall'[d] \in AccountCall /\ CallsFit(d)'
  <2> DEFINE overtaken == \E a \in Acct : /\ acct'[a].owner = acall[d].owner /\ ~acct'[a].archived
                                          /\ acct'[a] # acct[a]
             fresh == acall[d].fresh /\ (acall[d].op = "create" => ~overtaken)
  <2>1. acall'[d] = [acall[d] EXCEPT !.fresh = fresh]
    BY <1>2 DEF Publish
  <2>2. fresh \in BOOLEAN /\ acall[d] \in AccountCall
    BY AccountTypes
  <2>3. fresh => acall[d].fresh /\ (acall[d].op = "create" => ~overtaken)
    OBVIOUS
  <2>4. ~overtaken => \A a \in Acct : acct'[a].owner = acall[d].owner /\ ~acct'[a].archived => acct'[a] = acct[a]
    OBVIOUS
  <2> HIDE DEF fresh, overtaken
  <2>5. /\ acall'[d] \in AccountCall /\ acall'[d].op = acall[d].op /\ acall'[d].owner = acall[d].owner
        /\ acall'[d].ids = acall[d].ids /\ acall'[d].fresh = fresh
    BY ONLY <2>1, <2>2 DEF AccountCall
  <2>6. acall[d].op = "create" /\ ~overtaken => ActiveOf(acall[d].owner)' \subseteq ActiveOf(acall[d].owner)
    BY <2>4, <2>5 DEF ActiveOf, AccountsOf
  <2> QED BY <2>3, <2>5, <2>6, CallStaysFit
<1>3. acall'[c] = CallIdle /\ CallsFit(c)'
  BY IdleFits DEF Publish
<1>4. DOMAIN acall' = AccountCaller /\ acall' = [d \in AccountCaller |-> acall'[d]]
  BY DEF Publish
<1> QED BY <1>1, <1>2, <1>3, <1>4

(* A call begins with accounts of an owner, having counted the active ones.   *)
LEMMA BeginCallStep ==
  ASSUME NEW c \in AccountCaller, AcctInv, Begin(c, acall'[c]), acall'[c] \in AccountCall, CallsFit(c)'
  PROVE  AcctInv'
<1>1. UNCHANGED <<owners, acct, works, applied, client, spared>>
      /\ acall' = [acall EXCEPT ![c] = acall'[c]]
  BY DEF Begin
<1>2. acall' \in [AccountCaller -> AccountCall] /\ \A d \in AccountCaller \ {c} : acall'[d] = acall[d]
  BY <1>1, AccountTypes
<1>3. AccountsTypeOK' /\ works' \in [Acct -> Queue]
  BY <1>1, <1>2, AccountTypes, TypesStay
<1>4. ActiveIsOwned' /\ \A a \in Acct : WorkFits(a)'
  BY <1>1 DEF AcctInv, ActiveIsOwned, WorkFits
<1>5. ASSUME NEW d \in AccountCaller, d # c PROVE CallsFit(d)'
  BY <1>1, <1>2, <1>5 DEF AcctInv, CallsFit, ActiveOf, AccountsOf
<1> QED BY <1>3, <1>4, <1>5 DEF AcctInv

(* An account is created, deleted or restored, or an owner deleted, on request: *)
(* the call knows the account's owner.                                        *)
LEMMA AskStep ==
  ASSUME NEW c \in AccountCaller, AcctInv,
         \/ \E o \in Owner : AskAccount(c, o) \/ AskDeleteTeam(c, o)
         \/ \E a \in Acct : AskDelete(c, a) \/ AskRestore(c, a)
  PROVE  AcctInv'
<1>1. owners \subseteq Owner /\ acall \in [AccountCaller -> AccountCall] /\ applied \subseteq Acct
  BY AccountTypes
<1>2. ASSUME NEW o \in Owner, AskAccount(c, o)
      PROVE  AcctInv'
  <2>1. Begin(c, Asking("create", o, {}, FALSE, FALSE)) /\ ActiveOf(o) = {}
    BY <1>2 DEF AskAccount, MayCreate
  <2>2. acall'[c] = Asking("create", o, {}, FALSE, FALSE) /\ acct' = acct
    BY <1>1, <2>1 DEF Begin
  <2>3. acall'[c] \in AccountCall
    BY <2>2 DEF Asking, AccountCall
  <2>4. acall'[c].ids = {} /\ acall'[c].owner = o /\ acall'[c].op = "create"
    BY <2>2 DEF Asking
  <2>5. ActiveOf(acall[c].owner)' = {}
    BY <2>1, <2>2, <2>4 DEF ActiveOf, AccountsOf
  <2>6. CallsFit(c)'
    BY <2>4, <2>5 DEF CallsFit
  <2> QED BY <2>1, <2>2, <2>3, <2>6, BeginCallStep
<1>3. ASSUME NEW o \in Owner, AskDeleteTeam(c, o)
      PROVE  AcctInv'
  <2>1. Begin(c, Asking("sweep", o, ActiveOf(o), FALSE, FALSE))
    BY <1>3 DEF AskDeleteTeam
  <2>2. acall'[c] = Asking("sweep", o, ActiveOf(o), FALSE, FALSE) /\ acct' = acct
    BY <1>1, <2>1 DEF Begin
  <2>3. acall'[c] \in AccountCall
    BY <2>2 DEF Asking, AccountCall, ActiveOf, AccountsOf
  <2>4. acall'[c].ids = ActiveOf(o) /\ acall'[c].owner = o /\ acall'[c].op = "sweep"
    BY <2>2 DEF Asking
  <2>5. \A a \in ActiveOf(o) : acct[a] # NoAcct /\ acct[a].owner = o
    BY DEF ActiveOf, AccountsOf, NoAcct
  <2>6. CallsFit(c)'
    BY <2>2, <2>4, <2>5 DEF CallsFit
  <2> QED BY <2>1, <2>2, <2>3, <2>6, BeginCallStep
<1>4. ASSUME NEW a \in Acct, AskDelete(c, a) \/ AskRestore(c, a)
      PROVE  AcctInv'
  <2> DEFINE m == a \in applied
             k == acct[a].archived
  <2>1. /\ acct[a] # NoAcct /\ acct[a].owner \in Owner
        /\ \/ Begin(c, Asking("delete", acct[a].owner, {a}, k, m))
           \/ Begin(c, Asking("restore", acct[a].owner, {a}, k, FALSE))
    BY <1>1, <1>4 DEF AskDelete, AskRestore
  <2>2. m \in BOOLEAN /\ k \in BOOLEAN
    BY <2>1, AccountTypes DEF AccountRow
  <2> HIDE DEF m, k
  <2>3. PICK op \in {"delete", "restore"}, mm \in BOOLEAN : Begin(c, Asking(op, acct[a].owner, {a}, k, mm))
    BY <2>1, <2>2
  <2>4. acall'[c] = Asking(op, acct[a].owner, {a}, k, mm) /\ acct' = acct
    BY <1>1, <2>3 DEF Begin
  <2>5. acall'[c] \in AccountCall
    BY <2>1, <2>2, <2>4 DEF Asking, AccountCall
  <2>6. acall'[c].ids = {a} /\ acall'[c].owner = acct[a].owner /\ acall'[c].op = op
    BY <2>4 DEF Asking
  <2>7. CallsFit(c)'
    BY <2>1, <2>4, <2>6 DEF CallsFit
  <2> QED BY <2>3, <2>4, <2>5, <2>7, BeginCallStep
<1> QED BY <1>2, <1>3, <1>4

(* save() writes the row of one account, which stays its owner's, and is      *)
(* active only on behalf of an owner it names.                                *)
LEMMA SavedRow ==
  ASSUME NEW c \in AccountCaller, NEW a \in Acct, AcctInv, acct[a] # NoAcct,
         \/ acct' = SavedFrom(a, acall[c].copy, TRUE)
         \/ acct' = SavedFrom(a, acall[c].copy, FALSE) /\ (acall[c].copy => acct[a].named)
  PROVE  /\ acct' \in [Acct -> AccountRow \cup {NoAcct}] /\ \A b \in Acct \ {a} : acct'[b] = acct[b]
         /\ acct'[a] \in AccountRow /\ acct'[a] # NoAcct
         /\ acct'[a].owner = acct[a].owner /\ acct'[a].named = acct[a].named
         /\ ~acct'[a].archived => acct'[a].named
         /\ acct' = SavedFrom(a, acall[c].copy, TRUE) => (~acct'[a].archived => ~acct[a].archived)
<1>1. /\ acct[a] \in AccountRow /\ acct \in [Acct -> AccountRow \cup {NoAcct}]
      /\ (~acct[a].archived => acct[a].named) /\ acall[c].copy \in BOOLEAN
  BY AccountTypes DEF AcctInv, ActiveIsOwned, AccountCall
<1> DEFINE gone == [acct[a] EXCEPT !.archived = TRUE]
           back == [acct[a] EXCEPT !.archived = FALSE]
<1>2. /\ gone \in AccountRow /\ gone.owner = acct[a].owner /\ gone.named = acct[a].named /\ gone.archived = TRUE
      /\ back \in AccountRow /\ back.owner = acct[a].owner /\ back.named = acct[a].named /\ back.archived = FALSE
  BY ONLY <1>1 DEF AccountRow
<1>3. \/ UNCHANGED acct
      \/ acct' = [acct EXCEPT ![a] = gone]
      \/ acct' = [acct EXCEPT ![a] = back] /\ acct[a].named /\ acct' # SavedFrom(a, acall[c].copy, TRUE)
  <2>1. CASE acct' = SavedFrom(a, acall[c].copy, TRUE)
    BY <1>1, <2>1 DEF SavedFrom
  <2>2. CASE acct' = SavedFrom(a, acall[c].copy, FALSE) /\ acct' # SavedFrom(a, acall[c].copy, TRUE)
    BY <1>1, <2>2 DEF SavedFrom
  <2> QED BY <2>1, <2>2
<1>4. NoAcct.archived = FALSE /\ NoAcct.named = FALSE
  BY DEF NoAcct
<1> HIDE DEF gone, back
<1>5. gone # NoAcct /\ (acct[a].named => back # NoAcct)
  BY <1>1, <1>2, <1>4 DEF AccountRow
<1> QED BY <1>1, <1>2, <1>3, <1>5

(* The one that is archived no longer counts, and is to be removed or spared.  *)
LEMMA ArchiveStep ==
  ASSUME NEW c \in AccountCaller, NEW a \in Acct, AcctInv, acct[a] # NoAcct, acall[c].op # "idle",
         Archive(c, a, acall'[c]), acall'[c] \in AccountCall,
         \/ acall'[c] = CallIdle
         \/ /\ acall'[c].op \in {"sweep", "waiting"} /\ acall'[c].owner = acall[c].owner
            /\ acall'[c].ids \subseteq acall[c].ids /\ (acall'[c].op = "waiting" => acall'[c].ids # {})
  PROVE  AcctInv'
<1>1. /\ acct' = SavedFrom(a, acall[c].copy, TRUE)
      /\ UNCHANGED <<owners, applied, client>>
      /\ works' = IF acall[c].merged THEN [works EXCEPT ![a] = <<"delete">>] ELSE works
      /\ spared' = IF acall[c].merged
                   THEN IF acct'[a].archived = TRUE THEN spared ELSE spared \cup {a}
                   ELSE IF acct' = acct THEN spared ELSE spared \cup {a}
  BY DEF Archive, Superseding, SparedIfCrossed
<1>2. acct[a] \in AccountRow /\ acct \in [Acct -> AccountRow \cup {NoAcct}] /\ acall[c].copy \in BOOLEAN
  BY AccountTypes DEF AccountCall
<1>3. /\ acct'[a] \in AccountRow /\ acct'[a].owner = acct[a].owner /\ acct'[a].named = acct[a].named
      /\ (~acct'[a].archived => ~acct[a].archived) /\ acct'[a] # NoAcct
      /\ \A b \in Acct \ {a} : acct'[b] = acct[b]
      /\ acct' \in [Acct -> AccountRow \cup {NoAcct}]
  BY <1>1, SavedRow
<1>4. acall' \in [AccountCaller -> AccountCall] /\ \A d \in AccountCaller \ {c} : acall'[d] \in {acall[d], CallIdle}
  <2>1. CallIdle \in AccountCall
    BY DEF CallIdle, AccountCall
  <2>2. acall' = [d \in AccountCaller |->
          IF d = c THEN acall'[c] ELSE IF acall[c].merged /\ Waits(d, a) THEN CallIdle ELSE acall[d]]
    BY DEF Archive
  <2> QED BY <2>1, <2>2, AccountTypes
<1>5. works' \in [Acct -> Queue]
  BY <1>1, AccountTypes DEF Queue
<1>6. AccountsTypeOK'
  BY <1>1, <1>3, <1>4, <1>5, AccountTypes, TypesStay
<1>7. ActiveIsOwned'
  BY <1>1, <1>3 DEF AcctInv, ActiveIsOwned
<1>8. ASSUME NEW d \in AccountCaller
      PROVE  CallsFit(d)'
  <2>1. \A b \in Acct : acct[b] # NoAcct => acct'[b] # NoAcct /\ acct'[b].owner = acct[b].owner
    BY <1>3
  <2>2. CASE acall'[d] = CallIdle
    BY <2>2, IdleFits
  <2>3. CASE d # c /\ acall'[d] # CallIdle
    <3>1. acall'[d] = acall[d]
      BY <1>4, <2>3
    <3>2. ActiveOf(acall[d].owner)' \subseteq ActiveOf(acall[d].owner)
      BY <1>3, <3>1 DEF ActiveOf, AccountsOf
    <3> QED BY <2>1, <3>1, <3>2, CallStaysFit
  <2>4. CASE d = c /\ acall'[d] # CallIdle
    <3>1. /\ CallsFit(c) /\ acall[c].ids \subseteq Acct
      BY AccountTypes DEF AcctInv, AccountCall
    <3> QED BY <2>1, <2>4, <3>1 DEF CallsFit
  <2> QED BY <2>2, <2>3, <2>4
<1>9. ASSUME NEW b \in Acct
      PROVE  WorkFits(b)'
  <2>1. CASE b # a
    BY <1>1, <1>3, <2>1, AccountTypes DEF AcctInv, WorkFits
  <2>2. CASE b = a /\ acall[c].merged
    <3>1. works'[a] = <<"delete">> /\ works'[a] # <<>>
      BY <1>1, <2>2, AccountTypes
    <3>2. a \notin spared' => acct'[a].archived
      BY <1>1, <1>3, <2>2 DEF AccountRow
    <3> QED BY <1>3, <2>2, <3>1, <3>2 DEF WorkFits
  <2>3. CASE b = a /\ ~acall[c].merged
    BY <1>1, <1>3, <2>3 DEF WorkFits, AcctInv
  <2> QED BY <2>1, <2>2, <2>3
<1> QED BY <1>5, <1>6, <1>7, <1>8, <1>9 DEF AcctInv

(* A row that is made or restored asks for its workflow when it has none.     *)
LEMMA EnqueuedAlone ==
  ASSUME NEW a \in Acct, AcctInv, works[a] = <<>>, works' = Enqueue(a, "apply")
  PROVE  /\ works' \in [Acct -> Queue] /\ works'[a] = <<"apply">>
         /\ \A b \in Acct \ {a} : works'[b] = works[b]
<1>1. Append(<<>>, "apply") = <<"apply">> /\ <<"apply">> \in Queue
  BY DEF Queue
<1>2. works' = [works EXCEPT ![a] = <<"apply">>]
  BY <1>1, AccountTypes DEF Enqueue
<1> QED BY <1>1, <1>2, AccountTypes

(* An account becomes active on behalf of an owner that exists, or a call that *)
(* read it active asks for its client again.                                  *)
LEMMA ActivatedFits ==
  ASSUME NEW c \in AccountCaller, NEW a \in Acct, AcctInv,
         Publish(c, CallIdle, acct'), works[a] = <<>>, works' = Enqueue(a, "apply"),
         UNCHANGED <<owners, applied, client>>, spared' = SparedIfCrossed(a, acct'[a], FALSE),
         acct' \in [Acct -> AccountRow \cup {NoAcct}], \A b \in Acct \ {a} : acct'[b] = acct[b],
         ~acct'[a].archived => acct'[a].named, acct'[a].named => acct'[a].owner \in owners,
         acct'[a] # NoAcct, acct[a] # NoAcct => acct'[a].owner = acct[a].owner
  PROVE  AcctInv'
<1>1. acall' \in [AccountCaller -> AccountCall] /\ \A d \in AccountCaller : CallsFit(d)'
  BY PublishedIsKnown
<1>2. /\ works' \in [Acct -> Queue] /\ works'[a] = <<"apply">> /\ works'[a] # <<>>
      /\ \A b \in Acct \ {a} : works'[b] = works[b]
  <2>1. <<"apply">> # <<>>
    OBVIOUS
  <2> QED BY <2>1, EnqueuedAlone
<1>3. spared' \subseteq Acct /\ (a \notin spared' => ~acct'[a].archived)
      /\ \A b \in Acct \ {a} : b \in spared' <=> b \in spared
  BY AccountTypes DEF SparedIfCrossed
<1>4. AccountsTypeOK'
  BY <1>1, <1>2, <1>3, AccountTypes, TypesStay
<1>5. ActiveIsOwned'
  BY DEF AcctInv, ActiveIsOwned
<1>6. ASSUME NEW b \in Acct PROVE WorkFits(b)'
  <2>1. CASE b = a
    BY <1>2, <1>3, <2>1 DEF WorkFits
  <2>2. CASE b # a
    BY <1>2, <1>3, <2>2 DEF WorkFits, AcctInv
  <2> QED BY <2>1, <2>2
<1> QED BY <1>1, <1>2, <1>4, <1>5, <1>6 DEF AcctInv

(* A call ends without a change of the rows. *)
LEMMA EndsInVain ==
  ASSUME NEW c \in AccountCaller, AcctInv, Publish(c, CallIdle, acct),
         UNCHANGED <<owners, works, applied, client, spared>>
  PROVE  AcctInv' /\ UNCHANGED acct
<1>1. UNCHANGED acct /\ Publish(c, CallIdle, acct')
  BY DEF Publish
<1>2. acall' \in [AccountCaller -> AccountCall] /\ \A d \in AccountCaller : CallsFit(d)'
  BY <1>1, PublishedIsKnown
<1>3. AccountsTypeOK' /\ works' \in [Acct -> Queue]
  BY <1>1, <1>2, AccountTypes, TypesStay
<1>4. ActiveIsOwned' /\ \A a \in Acct : WorkFits(a)'
  BY <1>1 DEF AcctInv, ActiveIsOwned, WorkFits
<1> QED BY <1>1, <1>2, <1>3, <1>4 DEF AcctInv

(* The row that CreateAccount makes, if any: of an owner that had no active   *)
(* account, unless another became active since it was counted.                *)
LEMMA CreatedRow ==
  ASSUME NEW c \in AccountCaller, AcctInv, CreateAccount(c), acall[c].owner \in owners
  PROVE  \E a \in Acct : /\ Publish(c, CallIdle, acct') /\ works' = Enqueue(a, "apply") /\ acct[a] = NoAcct
                         /\ acct' = [acct EXCEPT ![a] = [owner |-> acall[c].owner, named |-> TRUE, archived |-> FALSE]]
<1> DEFINE free == {a \in Acct : acct[a] = NoAcct}
<1>1. /\ free # {} /\ works' = Enqueue(Minimum(free), "apply")
      /\ Publish(c, CallIdle, [acct EXCEPT ![Minimum(free)] =
           [owner |-> acall[c].owner, named |-> TRUE, archived |-> FALSE]])
  BY DEF CreateAccount
<1>2. Minimum(free) \in free
  BY <1>1, MinimumIsAmong
<1> DEFINE a == Minimum(free)
<1> HIDE DEF a
<1>3. /\ works' = Enqueue(a, "apply") /\ a \in Acct /\ acct[a] = NoAcct
      /\ Publish(c, CallIdle, [acct EXCEPT ![a] = [owner |-> acall[c].owner, named |-> TRUE, archived |-> FALSE]])
  BY <1>1, <1>2 DEF a
<1>4. acct' = [acct EXCEPT ![a] = [owner |-> acall[c].owner, named |-> TRUE, archived |-> FALSE]]
  BY <1>3 DEF Publish
<1>5. Publish(c, CallIdle, acct')
  BY <1>3, <1>4
<1> QED BY <1>3, <1>4, <1>5

(* An account is created. *)
LEMMA CreateStep ==
  ASSUME NEW c \in AccountCaller, AcctInv, CreateAccount(c)
  PROVE  AcctInv'
<1>1. UNCHANGED <<owners, applied, client, spared>>
  BY DEF CreateAccount
<1>2. CASE acall[c].owner \in owners
  <2>1. PICK a \in Acct : /\ Publish(c, CallIdle, acct') /\ works' = Enqueue(a, "apply") /\ acct[a] = NoAcct
                          /\ acct' = [acct EXCEPT ![a] = [owner |-> acall[c].owner, named |-> TRUE, archived |-> FALSE]]
    BY <1>2, CreatedRow
  <2> DEFINE r == [owner |-> acall[c].owner, named |-> TRUE, archived |-> FALSE]
  <2>2. r \in AccountRow /\ r.owner = acall[c].owner /\ r.named = TRUE /\ r.archived = FALSE
    BY <1>2, AccountTypes DEF AccountRow
  <2> HIDE DEF r
  <2>3. r # NoAcct
    <3>1. NoAcct.named = FALSE
      BY DEF NoAcct
    <3> QED BY <2>2, <3>1
  <2>4. acct' = [acct EXCEPT ![a] = r]
    BY <2>1 DEF r
  <2>5. /\ acct' \in [Acct -> AccountRow \cup {NoAcct}] /\ acct'[a] = r
        /\ \A b \in Acct \ {a} : acct'[b] = acct[b]
    BY <2>2, <2>4, AccountTypes
  <2>6. works[a] = <<>> /\ spared' = SparedIfCrossed(a, acct'[a], FALSE)
    BY <1>1, <2>1, <2>2, <2>5 DEF AcctInv, WorkFits, SparedIfCrossed
  <2> QED BY <1>1, <1>2, <2>1, <2>2, <2>3, <2>5, <2>6, ActivatedFits
<1>3. CASE acall[c].owner \notin owners
  <2>1. Publish(c, CallIdle, acct) /\ UNCHANGED works
    BY <1>3 DEF CreateAccount
  <2> QED BY <1>1, <2>1, EndsInVain
<1> QED BY <1>2, <1>3

(* An account that is restored is owned: its row names its owner, or is left  *)
(* as it is.                                                                  *)
LEMMA RestoreStep ==
  ASSUME NEW c \in AccountCaller, AcctInv, RestoreAccount(c)
  PROVE  AcctInv'
<1>1. UNCHANGED <<owners, applied, client>>
  BY DEF RestoreAccount
<1>2. PICK a \in acall[c].ids :
        IF Busy(a) \/ (~SavedFrom(a, acall[c].copy, FALSE)[a].archived /\ ~acct[a].named)
        THEN Publish(c, CallIdle, acct) /\ UNCHANGED <<works, spared>>
        ELSE /\ Publish(c, CallIdle, SavedFrom(a, acall[c].copy, FALSE)) /\ works' = Enqueue(a, "apply")
             /\ spared' = SparedIfCrossed(a, SavedFrom(a, acall[c].copy, FALSE)[a], FALSE)
  BY DEF RestoreAccount
<1>3. /\ a \in Acct /\ acct[a] # NoAcct /\ acct[a] \in AccountRow
      /\ acall[c].copy \in BOOLEAN /\ acct \in [Acct -> AccountRow \cup {NoAcct}]
  BY AccountTypes DEF AcctInv, CallsFit, AccountCall
<1> DEFINE saved == SavedFrom(a, acall[c].copy, FALSE)
<1>4. CASE Busy(a) \/ (~saved[a].archived /\ ~acct[a].named)
  BY <1>1, <1>2, <1>4, EndsInVain
<1>5. CASE ~Busy(a) /\ (saved[a].archived \/ acct[a].named)
  <2>1. /\ Publish(c, CallIdle, saved) /\ works' = Enqueue(a, "apply")
        /\ spared' = SparedIfCrossed(a, saved[a], FALSE)
    BY <1>2, <1>5
  <2>2. acct' = saved
    BY <2>1 DEF Publish
  <2>3. Publish(c, CallIdle, acct') /\ spared' = SparedIfCrossed(a, acct'[a], FALSE)
    BY <2>1, <2>2
  <2>4. acall[c].copy => acct[a].named
    <3> SUFFICES ASSUME acall[c].copy, ~acct[a].named PROVE FALSE
      BY <1>3
    <3>1. saved = [acct EXCEPT ![a].archived = FALSE]
      BY DEF SavedFrom
    <3>2. saved[a].archived = FALSE
      BY <1>3, <3>1 DEF AccountRow
    <3> QED BY <1>5, <3>2
  <2>5. /\ acct' \in [Acct -> AccountRow \cup {NoAcct}] /\ \A b \in Acct \ {a} : acct'[b] = acct[b]
        /\ acct'[a] \in AccountRow /\ acct'[a] # NoAcct
        /\ acct'[a].owner = acct[a].owner /\ acct'[a].named = acct[a].named
        /\ ~acct'[a].archived => acct'[a].named
    BY <1>3, <2>2, <2>4, SavedRow
  <2>6. acct'[a].named => acct'[a].owner \in owners
    BY <1>3, <2>5 DEF AcctInv, ActiveIsOwned
  <2>7. works[a] = <<>>
    BY <1>5 DEF Busy
  <2> QED BY <1>1, <1>3, <2>1, <2>3, <2>5, <2>6, <2>7, ActivatedFits
<1> QED BY <1>4, <1>5

(* An account is deleted. *)
LEMMA DeleteStep ==
  ASSUME NEW c \in AccountCaller, AcctInv, DeleteAccount(c)
  PROVE  AcctInv'
<1>1. PICK a \in acall[c].ids : Archive(c, a, CallIdle)
  BY DEF DeleteAccount
<1>2. a \in Acct /\ acct[a] # NoAcct
  BY AccountTypes DEF AcctInv, CallsFit, AccountCall
<1>3. acall'[c] = CallIdle /\ CallIdle \in AccountCall
  BY <1>1 DEF Archive, CallIdle, AccountCall
<1>4. Archive(c, a, acall'[c]) /\ acall[c].op # "idle"
  BY <1>1, <1>3 DEF DeleteAccount
<1> QED BY <1>2, <1>3, <1>4, ArchiveStep

(* The deletion of a team reads the next account it listed, ... *)
LEMMA SweepNextStep ==
  ASSUME NEW c \in AccountCaller, AcctInv, SweepNext(c)
  PROVE  AcctInv'
<1> DEFINE m == Current(c) \in applied
           k == acct[Current(c)].archived
           q == [acall[c] EXCEPT !.op = "sweeping", !.merged = m, !.copy = k]
<1>1. acall[c] \in AccountCall /\ acall[c].op = "sweep" /\ acall[c].ids # {}
  BY AccountTypes DEF SweepNext
<1>2. m \in BOOLEAN /\ k \in BOOLEAN
  <2>1. acall[c].ids \subseteq Acct /\ Current(c) \in acall[c].ids
    BY <1>1, MinimumIsAmong DEF Current, AccountCall
  <2>2. acct[Current(c)] \in AccountRow
    BY <2>1, AccountTypes DEF AcctInv, CallsFit
  <2> QED BY <2>2 DEF AccountRow
<1>3. /\ acall' = [acall EXCEPT ![c] = q]
      /\ UNCHANGED <<owners, acct, works, applied, client, spared>>
  BY AccountTypes DEF SweepNext, AccountCall
<1> HIDE DEF m, k
<1>4. /\ q \in AccountCall /\ q.op = "sweeping" /\ q.owner = acall[c].owner /\ q.ids = acall[c].ids
  BY ONLY <1>1, <1>2 DEF AccountCall
<1> HIDE DEF q
<1>5. /\ acall' \in [AccountCaller -> AccountCall] /\ acall'[c] = q
      /\ \A d \in AccountCaller \ {c} : acall'[d] = acall[d]
  BY <1>3, <1>4, AccountTypes
<1>6. AccountsTypeOK' /\ works' \in [Acct -> Queue]
  BY <1>3, <1>5, AccountTypes, TypesStay
<1>7. ActiveIsOwned' /\ \A a \in Acct : WorkFits(a)'
  BY <1>3 DEF AcctInv, ActiveIsOwned, WorkFits
<1>8. ASSUME NEW d \in AccountCaller PROVE CallsFit(d)'
  <2>1. CASE d = c
    BY <1>1, <1>3, <1>4, <1>5, <2>1 DEF AcctInv, CallsFit
  <2>2. CASE d # c
    BY <1>3, <1>5, <2>2 DEF AcctInv, CallsFit, ActiveOf, AccountsOf
  <2> QED BY <2>1, <2>2
<1> QED BY <1>6, <1>7, <1>8 DEF AcctInv

(* ... and deletes it. *)
LEMMA SweepArchiveStep ==
  ASSUME NEW c \in AccountCaller, AcctInv, SweepArchive(c)
  PROVE  AcctInv'
<1>1. /\ acall[c].op = "sweeping" /\ acall[c] \in AccountCall
      /\ Archive(c, Current(c), IF acall[c].merged THEN [acall[c] EXCEPT !.op = "waiting"] ELSE Onward(c))
  BY AccountTypes DEF SweepArchive
<1>2. acall[c].ids # {} /\ acall[c].ids \subseteq Acct /\ \A a \in acall[c].ids : acct[a] # NoAcct
  BY <1>1 DEF AcctInv, CallsFit, AccountCall
<1>3. PICK a \in acall[c].ids : a = Current(c)
  BY <1>2, MinimumIsAmong DEF Current
<1> DEFINE q == IF acall[c].merged THEN [acall[c] EXCEPT !.op = "waiting"] ELSE Onward(c)
<1>4. acall'[c] = q
  BY <1>1 DEF Archive
<1>5. /\ q \in AccountCall /\ q.op \in {"sweep", "waiting"} /\ q.owner = acall[c].owner
      /\ q.ids \subseteq acall[c].ids /\ (q.op = "waiting" => q.ids # {})
  <2>1. CASE acall[c].merged
    <3> DEFINE w == [acall[c] EXCEPT !.op = "waiting"]
    <3>1. w \in AccountCall /\ w.op = "waiting" /\ w.owner = acall[c].owner /\ w.ids = acall[c].ids
      BY ONLY <1>1 DEF AccountCall
    <3> QED BY <1>2, <2>1, <3>1
  <2>2. CASE ~acall[c].merged
    <3> DEFINE rest == acall[c].ids \ {Current(c)}
               w == [acall[c] EXCEPT !.op = "sweep", !.ids = rest]
    <3>1. rest \in SUBSET Acct /\ rest \subseteq acall[c].ids
      BY <1>2
    <3>2. Onward(c) = w
      BY <1>1 DEF Onward, AccountCall
    <3> HIDE DEF rest
    <3>3. w \in AccountCall /\ w.op = "sweep" /\ w.owner = acall[c].owner /\ w.ids = rest
      BY ONLY <1>1, <3>1 DEF AccountCall
    <3> HIDE DEF w
    <3> QED BY <2>2, <3>1, <3>2, <3>3
  <2> QED BY <2>1, <2>2
<1>6. Archive(c, a, acall'[c])
  BY <1>1, <1>3, <1>4
<1> HIDE DEF q
<1> QED BY <1>1, <1>2, <1>4, <1>5, <1>6, ArchiveStep

(* The rows that named an owner that is deleted were archived.                *)
LEMMA ForgottenFits ==
  ASSUME NEW o \in Owner, AcctInv, Unowned(o), acct' = Forget(o), owners' = owners \ {o},
         UNCHANGED <<works, client, spared>>
  PROVE  /\ acct' \in [Acct -> AccountRow \cup {NoAcct}] /\ ActiveIsOwned'
         /\ \A a \in Acct : acct[a] # NoAcct => acct'[a] # NoAcct /\ acct'[a].owner = acct[a].owner
         /\ \A a \in Acct : acct'[a].archived = acct[a].archived /\ (acct'[a].named => acct[a].named)
         /\ \A a \in Acct : WorkFits(a)'
<1>1. ASSUME NEW a \in Acct
      PROVE  /\ acct'[a] \in AccountRow \cup {NoAcct}
             /\ acct'[a].archived = acct[a].archived /\ (acct'[a].named => acct[a].named /\ acct[a].owner # o)
             /\ acct[a] # NoAcct => acct'[a] # NoAcct /\ acct'[a].owner = acct[a].owner
             /\ acct[a] = NoAcct => acct'[a] = NoAcct
  <2> DEFINE r == [acct[a] EXCEPT !.named = FALSE]
  <2>1. acct'[a] = IF acct[a].owner = o THEN r ELSE acct[a]
    BY DEF Forget
  <2>2. acct[a] \in AccountRow \cup {NoAcct}
    BY AccountTypes
  <2>3. CASE acct[a] = NoAcct
    <3>1. [NoAcct EXCEPT !.named = FALSE] = NoAcct /\ NoAcct.named = FALSE
      <4>1. NoAcct \in [owner : {"nobody"}, named : {FALSE}, archived : {FALSE}]
        BY DEF NoAcct
      <4>2. \A n \in [owner : {"nobody"}, named : {FALSE}, archived : {FALSE}] :
              [n EXCEPT !.named = FALSE] = n /\ n.named = FALSE
        OBVIOUS
      <4> QED BY <4>1, <4>2
    <3>2. acct'[a] = NoAcct
      BY <2>1, <2>3, <3>1
    <3> QED BY <2>3, <3>1, <3>2
  <2>4. CASE acct[a] # NoAcct /\ acct[a].owner # o
    BY <2>1, <2>2, <2>4
  <2>5. CASE acct[a] # NoAcct /\ acct[a].owner = o
    <3>1. acct[a] \in AccountRow
      BY <2>2, <2>5
    <3>2. r \in AccountRow /\ r.named = FALSE /\ r.owner = acct[a].owner /\ r.archived = acct[a].archived
      BY ONLY <3>1 DEF AccountRow
    <3>3. acct[a].archived
      <4>1. ~acct[a].archived => acct[a].named
        BY <2>5 DEF AcctInv, ActiveIsOwned
      <4>2. a \notin ActiveOf(o)
        BY DEF Unowned
      <4> QED BY <2>5, <4>1, <4>2 DEF ActiveOf, AccountsOf
    <3> HIDE DEF r
    <3>4. r # NoAcct
      <4>1. NoAcct.archived = FALSE
        BY DEF NoAcct
      <4>2. r.archived = TRUE
        BY <3>1, <3>2, <3>3 DEF AccountRow
      <4> QED BY <4>1, <4>2
    <3> QED BY <2>1, <2>5, <3>2, <3>4
  <2> QED BY <2>3, <2>4, <2>5
<1>2. acct' \in [Acct -> AccountRow \cup {NoAcct}]
  <2>1. acct' = [a \in Acct |-> acct'[a]]
    BY DEF Forget
  <2> QED BY <1>1, <2>1
<1>3. ActiveIsOwned'
  <2> SUFFICES ASSUME NEW a \in Acct, acct'[a] # NoAcct
               PROVE  (~acct'[a].archived => acct'[a].named) /\ (acct'[a].named => acct'[a].owner \in owners')
    BY DEF ActiveIsOwned
  <2>1. acct[a] # NoAcct
    BY <1>1
  <2>2. (~acct[a].archived => acct[a].named) /\ (acct[a].named => acct[a].owner \in owners)
    BY <2>1 DEF AcctInv, ActiveIsOwned
  <2>3. ~acct[a].archived => acct[a].owner # o
    BY <2>2 DEF Unowned, ActiveOf, AccountsOf
  <2>4. acct[a].owner # o => acct'[a] = acct[a]
    BY DEF Forget
  <2> QED BY <1>1, <2>1, <2>2, <2>3, <2>4
<1>4. ASSUME NEW a \in Acct PROVE WorkFits(a)'
  <2>1. acct'[a] # NoAcct <=> acct[a] # NoAcct
    BY <1>1
  <2>2. acct'[a].archived = acct[a].archived
    BY <1>1
  <2> QED BY <2>1, <2>2 DEF WorkFits, AcctInv
<1> QED BY <1>1, <1>2, <1>3, <1>4

(* An owner is deleted. *)
LEMMA DestroyStep ==
  ASSUME NEW c \in AccountCaller, AcctInv, DestroyTeam(c)
  PROVE  AcctInv'
<1>1. acall[c].owner \in Owner /\ UNCHANGED <<works, applied, client, spared>>
  BY DEF DestroyTeam, AcctInv, CallsFit
<1>2. PICK o \in Owner : o = acall[c].owner
  BY <1>1
<1>3. CASE o \in owners /\ Unowned(o)
  <2>1. owners' = owners \ {o} /\ Publish(c, CallIdle, Forget(o))
    BY <1>2, <1>3 DEF DestroyTeam
  <2>2. acct' = Forget(o)
    BY <2>1 DEF Publish
  <2>3. Publish(c, CallIdle, acct')
    BY <2>1, <2>2
  <2>4. /\ acct' \in [Acct -> AccountRow \cup {NoAcct}] /\ ActiveIsOwned'
        /\ \A a \in Acct : acct[a] # NoAcct => acct'[a] # NoAcct /\ acct'[a].owner = acct[a].owner
        /\ \A a \in Acct : WorkFits(a)'
    BY <1>1, <1>3, <2>1, <2>2, ForgottenFits
  <2>5. acall' \in [AccountCaller -> AccountCall] /\ \A d \in AccountCaller : CallsFit(d)'
    BY <2>3, <2>4, PublishedIsKnown
  <2>6. AccountsTypeOK' /\ works' \in [Acct -> Queue]
    BY <1>1, <2>1, <2>4, <2>5, AccountTypes, TypesStay
  <2> QED BY <2>4, <2>5, <2>6 DEF AcctInv
<1>4. CASE ~(o \in owners /\ Unowned(o))
  <2>1. UNCHANGED owners /\ Publish(c, CallIdle, acct)
    BY <1>2, <1>4 DEF DestroyTeam
  <2> QED BY <1>1, <2>1, EndsInVain
<1> QED BY <1>3, <1>4

(* An organization is deleted in one transaction. *)
LEMMA DeleteOrganizationStep ==
  ASSUME NEW o \in Owner, AcctInv, DeleteOrganization(o)
  PROVE  AcctInv'
<1>1. /\ Unowned(o) /\ owners' = owners \ {o} /\ acct' = Forget(o)
      /\ UNCHANGED <<works, applied, client, spared, acall>>
  BY DEF DeleteOrganization
<1>2. /\ acct' \in [Acct -> AccountRow \cup {NoAcct}] /\ ActiveIsOwned'
      /\ \A a \in Acct : acct[a] # NoAcct => acct'[a] # NoAcct /\ acct'[a].owner = acct[a].owner
      /\ \A a \in Acct : acct'[a].archived = acct[a].archived /\ (acct'[a].named => acct[a].named)
      /\ \A a \in Acct : WorkFits(a)'
  BY <1>1, ForgottenFits
<1>3. AccountsTypeOK' /\ works' \in [Acct -> Queue]
  BY <1>1, <1>2, AccountTypes, TypesStay
<1>4. ASSUME NEW d \in AccountCaller PROVE CallsFit(d)'
  <2>1. ActiveOf(acall[d].owner)' \subseteq ActiveOf(acall[d].owner)
    <3>1. ASSUME NEW a \in Acct, acct'[a].named, acct'[a].owner = acall[d].owner
          PROVE  acct[a].owner = acall[d].owner
      <4>1. NoAcct.named = FALSE
        BY DEF NoAcct
      <4>2. acct[a] # NoAcct
        BY <1>2, <3>1, <4>1
      <4> QED BY <1>2, <3>1, <4>2
    <3> QED BY <1>1, <1>2, <3>1 DEF ActiveOf, AccountsOf
  <2> QED BY <1>1, <1>2, <2>1, CallStaysFit
<1> QED BY <1>2, <1>3, <1>4 DEF AcctInv

(* The workflow of an account ends. *)
LEMMA EndWorkStep ==
  ASSUME NEW a \in Acct, NEW ok \in BOOLEAN, AcctInv, EndWork(a, ok)
  PROVE  AcctInv'
<1>1. /\ works[a] # <<>> /\ works' = [works EXCEPT ![a] = Tail(works[a])] /\ UNCHANGED <<owners, acct>>
      /\ applied' = IF Head(works[a]) = "apply" THEN applied \cup {a} ELSE applied
      /\ client' = IF ~ok THEN client
                   ELSE IF Head(works[a]) = "apply" THEN client \cup {a} ELSE client \ {a}
      /\ spared' = IF ~ok THEN spared \cup {a}
                   ELSE IF works[a] = <<IF acct[a].archived THEN "delete" ELSE "apply">> THEN spared \ {a}
                   ELSE spared
  BY AccountTypes DEF EndWork
<1>2. PICK w \in {"apply", "delete"} : works[a] = <<w>>
  BY <1>1, AccountTypes DEF Queue
<1>3. /\ works' \in [Acct -> Queue] /\ works'[a] = <<>> /\ \A b \in Acct \ {a} : works'[b] = works[b]
      /\ Head(works[a]) = w
  <2>1. Head(<<w>>) = w /\ Tail(<<w>>) = <<>>
    OBVIOUS
  <2>2. works' = [works EXCEPT ![a] = <<>>]
    BY <1>1, <1>2, <2>1
  <2> QED BY <1>2, <2>1, <2>2, AccountTypes DEF Queue
<1>4. applied' \subseteq Acct /\ client' \subseteq Acct /\ spared' \subseteq Acct
  BY <1>1, AccountTypes
<1>5. ASSUME NEW d \in AccountCaller
      PROVE  acall'[d] \in AccountCall /\ CallsFit(d)'
  <2> DEFINE goesOn == Head(works[a]) = "delete" /\ Waits(d, a)
  <2>1. acall'[d] = IF goesOn THEN IF ok THEN Onward(d) ELSE CallIdle ELSE acall[d]
    BY DEF EndWork
  <2>2. acall[d] \in AccountCall
    BY AccountTypes
  <2>3. CallIdle \in AccountCall
    BY DEF CallIdle, AccountCall
  <2>4. CASE ~goesOn
    <3>1. acall'[d] = acall[d] /\ ActiveOf(acall[d].owner)' = ActiveOf(acall[d].owner)
      BY <1>1, <2>1, <2>4 DEF ActiveOf, AccountsOf
    <3> QED BY <1>1, <2>2, <3>1, CallStaysFit
  <2>5. CASE goesOn /\ ~ok
    BY <2>1, <2>3, <2>5, IdleFits
  <2>6. CASE goesOn /\ ok
    <3> DEFINE rest == acall[d].ids \ {Current(d)}
               onward == [acall[d] EXCEPT !.op = "sweep", !.ids = rest]
    <3>1. rest \in SUBSET Acct /\ rest \subseteq acall[d].ids
      BY <2>2 DEF AccountCall
    <3>2. acall'[d] = onward
      BY <2>1, <2>2, <2>6 DEF Onward, AccountCall
    <3> HIDE DEF rest
    <3>3. onward \in AccountCall /\ onward.op = "sweep" /\ onward.owner = acall[d].owner /\ onward.ids = rest
      BY ONLY <2>2, <3>1 DEF AccountCall
    <3> HIDE DEF onward
    <3>4. CallsFit(d) /\ acall[d].op = "waiting"
      BY <2>6 DEF AcctInv, Waits
    <3> QED BY <1>1, <3>1, <3>2, <3>3, <3>4 DEF CallsFit
  <2> QED BY <2>4, <2>5, <2>6
<1>6. acall' \in [AccountCaller -> AccountCall]
  <2>1. acall' = [d \in AccountCaller |-> acall'[d]]
    BY DEF EndWork
  <2> QED BY <1>5, <2>1
<1>7. AccountsTypeOK'
  BY <1>1, <1>3, <1>4, <1>6, AccountTypes, TypesStay
<1>8. ActiveIsOwned'
  BY <1>1 DEF AcctInv, ActiveIsOwned
<1>9. ASSUME NEW b \in Acct PROVE WorkFits(b)'
  <2>1. CASE b # a
    BY <1>1, <1>3, <2>1 DEF AcctInv, WorkFits
  <2>2. CASE b = a /\ (~ok \/ acct[a] = NoAcct)
    BY <1>1, <1>3, <2>2 DEF WorkFits
  <2>3. CASE b = a /\ ok /\ acct[a] # NoAcct
    <3> DEFINE wanted == IF acct[a].archived THEN "delete" ELSE "apply"
    <3>1. wanted \in {"apply", "delete"} /\ (wanted = "apply" <=> ~acct[a].archived)
      OBVIOUS
    <3>2. <<w>> = <<wanted>> <=> w = wanted
      OBVIOUS
    <3>3. a \notin spared => w = wanted
      <4>1. a \notin spared => works[a] = IF acct[a].archived THEN <<"delete">> ELSE <<"apply">>
        BY <1>1, <2>3 DEF AcctInv, WorkFits
      <4>2. a \notin spared => <<w>> = <<wanted>>
        BY <1>2, <4>1
      <4> QED BY <3>2, <4>2
    <3>4. client' = IF w = "apply" THEN client \cup {a} ELSE client \ {a}
      BY <1>1, <1>3, <2>3
    <3>5. spared' = IF w = wanted THEN spared \ {a} ELSE spared
      BY <1>1, <1>2, <2>3, <3>2
    <3> HIDE DEF wanted
    <3>6. a \notin spared' => (a \in client' <=> wanted = "apply")
      BY <1>2, <3>3, <3>4, <3>5
    <3>7. acct'[a] = acct[a]
      BY <1>1
    <3> QED BY <1>3, <2>3, <3>1, <3>6, <3>7 DEF WorkFits
  <2> QED BY <2>1, <2>2, <2>3
<1> QED BY <1>3, <1>5, <1>7, <1>8, <1>9 DEF AcctInv

(* No account, no call. *)
LEMMA AccountsInitInv == AccountsInit => AcctInv
<1> SUFFICES ASSUME AccountsInit PROVE AcctInv
  OBVIOUS
<1>1. <<>> \in Queue /\ CallIdle \in AccountCall /\ CallIdle.op = "idle" /\ CallIdle.ids = {}
  BY DEF CallIdle, AccountCall, Queue
<1>2. /\ owners \subseteq Owner /\ \A a \in Acct : acct[a] = NoAcct /\ works[a] = <<>>
      /\ acct \in [Acct -> AccountRow \cup {NoAcct}] /\ works \in [Acct -> Queue]
      /\ applied = {} /\ client = {} /\ spared = {} /\ acall \in [AccountCaller -> AccountCall]
  BY <1>1 DEF AccountsInit
<1>3. AccountsTypeOK
  BY <1>2, QueueIsShort DEF AccountsTypeOK, AccountCall, AccountRow
<1>4. ActiveIsOwned /\ \A a \in Acct : WorkFits(a)
  BY <1>2 DEF ActiveIsOwned, WorkFits
<1>5. \A c \in AccountCaller : CallsFit(c)
  BY <1>1 DEF AccountsInit, CallsFit
<1> QED BY <1>2, <1>3, <1>4, <1>5 DEF AcctInv

(* Every step of the calls and of the engine keeps the invariant. *)
LEMMA AccountsNextInv == AcctInv /\ [AccountsNext]_acctVars => AcctInv'
<1> SUFFICES ASSUME AcctInv, [AccountsNext]_acctVars PROVE AcctInv'
  OBVIOUS
<1>1. ASSUME NEW o \in Owner, DeleteOrganization(o) PROVE AcctInv'
  BY <1>1, DeleteOrganizationStep
<1>2. ASSUME NEW a \in Acct, NEW ok \in BOOLEAN, EndWork(a, ok) PROVE AcctInv'
  BY <1>2, EndWorkStep
<1>3. ASSUME NEW c \in AccountCaller,
             \/ \E o \in Owner : AskAccount(c, o) \/ AskDeleteTeam(c, o)
             \/ \E a \in Acct : AskDelete(c, a) \/ AskRestore(c, a)
      PROVE  AcctInv'
  BY <1>3, AskStep
<1>4. ASSUME NEW c \in AccountCaller,
             CreateAccount(c) \/ DeleteAccount(c) \/ RestoreAccount(c)
      PROVE  AcctInv'
  BY <1>4, CreateStep, DeleteStep, RestoreStep
<1>5. ASSUME NEW c \in AccountCaller, SweepNext(c) \/ SweepArchive(c) \/ DestroyTeam(c)
      PROVE  AcctInv'
  BY <1>5, SweepNextStep, SweepArchiveStep, DestroyStep
<1>6. CASE UNCHANGED acctVars
  <2>1. UNCHANGED <<owners, acct, works, applied, client, spared, acall>>
    BY <1>6 DEF acctVars
  <2>2. AccountsTypeOK' /\ works' \in [Acct -> Queue]
    BY <2>1 DEF AcctInv, AccountsTypeOK
  <2>3. ActiveIsOwned' /\ \A a \in Acct : WorkFits(a)'
    BY <2>1 DEF AcctInv, ActiveIsOwned, WorkFits
  <2>4. \A d \in AccountCaller : CallsFit(d)'
    BY <2>1 DEF AcctInv, CallsFit, ActiveOf, AccountsOf
  <2> QED BY <2>2, <2>3, <2>4 DEF AcctInv
<1> QED BY <1>1, <1>2, <1>3, <1>4, <1>5, <1>6 DEF AccountsNext

(* The rows, the queues of workflows and the clients stay as the invariant    *)
(* says, for any number of owners, accounts and calls.                        *)
THEOREM AccountsInvariant == AccountsSpec => []AcctInv
<1> QED BY AccountsInitInv, AccountsNextInv, PTL DEF AccountsSpec

(* deleteTeam, deleteOrganization: however the deletion of an owner and new   *)
(* accounts interleave, an owner that is gone leaves no active account and no *)
(* archived one that still names it.                                          *)
THEOREM NobodyOwnsAGoneOne == AccountsSpec => []GoneOwnsNothing
<1>1. AcctInv => GoneOwnsNothing
  BY DEF AcctInv, ActiveIsOwned, GoneOwnsNothing
<1> QED BY <1>1, AccountsInvariant, PTL

(* deleteServiceAccount and its kind: an account with no workflow left has a  *)
(* client exactly while it is active, unless its last workflow failed, its    *)
(* deletion read no outcome of its creation yet, or the last workflow is of a *)
(* call that read the row as it wanted it and was crossed by its opposite.    *)
THEOREM ArchivedAreRemoved == AccountsSpec => []ArchivedHasNoClient
<1>1. AcctInv => ArchivedHasNoClient
  BY DEF AcctInv, WorkFits, ArchivedHasNoClient
<1> QED BY <1>1, AccountsInvariant, PTL

(* The steps that leave an owner with no more active accounts than it had.    *)
LEMMA ActiveOnlyShrinks ==
  ASSUME NEW o \in Owner, AcctInv,
         \A a \in Acct : acct'[a].named /\ ~acct'[a].archived =>
           acct[a].named /\ ~acct[a].archived /\ acct'[a].owner = acct[a].owner
  PROVE  ActiveOf(o)' \subseteq ActiveOf(o)
BY DEF ActiveOf, AccountsOf

(* A step gives an owner an active account only when it had none, when the    *)
(* creation counted too early, or when an archived one is restored.           *)
LEMMA OneAccountStep ==
  ASSUME AcctInv, [AccountsNext]_acctVars, NEW o \in Owner
  PROVE  \/ ActiveOf(o)' \subseteq ActiveOf(o)
         \/ ActiveOf(o) = {} /\ \E a \in Acct : ActiveOf(o)' \subseteq {a}
         \/ \E c \in AccountCaller : /\ acall[c].owner = o /\ acall'[c] = CallIdle
                                     /\ \/ acall[c].op = "create" /\ ~acall[c].fresh
                                        \/ acall[c].op = "restore"
<1>1. CASE UNCHANGED acct
  BY <1>1, ActiveOnlyShrinks
<1>2. ASSUME NEW p \in Owner, Unowned(p), acct' = Forget(p)
      PROVE  ActiveOf(o)' \subseteq ActiveOf(o)
  <2>1. ASSUME NEW a \in Acct, acct'[a].named, ~acct'[a].archived
        PROVE  acct'[a] = acct[a]
    <3> DEFINE r == [acct[a] EXCEPT !.named = FALSE]
    <3>1. acct'[a] = IF acct[a].owner = p THEN r ELSE acct[a]
      BY <1>2 DEF Forget
    <3>2. acct[a] \in AccountRow \/ acct[a] = NoAcct
      BY AccountTypes
    <3>3. r.named = FALSE
      BY <3>2 DEF AccountRow, NoAcct
    <3> QED BY <2>1, <3>1, <3>3
  <2> QED BY <2>1, ActiveOnlyShrinks
<1>3. ASSUME NEW c \in AccountCaller, NEW b \in acall[c].ids, acct' = SavedFrom(b, acall[c].copy, TRUE)
      PROVE  ActiveOf(o)' \subseteq ActiveOf(o)
  <2>1. b \in Acct /\ acct[b] # NoAcct
    BY AccountTypes DEF AcctInv, CallsFit, AccountCall
  <2>2. /\ acct'[b].owner = acct[b].owner /\ acct'[b].named = acct[b].named
        /\ (~acct'[b].archived => ~acct[b].archived) /\ \A a \in Acct \ {b} : acct'[a] = acct[a]
    BY <1>3, <2>1, SavedRow
  <2> QED BY <2>2, ActiveOnlyShrinks
<1>4. ASSUME NEW c \in AccountCaller, CreateAccount(c)
      PROVE  \/ ActiveOf(o)' \subseteq ActiveOf(o)
             \/ ActiveOf(o) = {} /\ \E a \in Acct : ActiveOf(o)' \subseteq {a}
             \/ /\ acall[c].owner = o /\ acall'[c] = CallIdle
                /\ acall[c].op = "create" /\ ~acall[c].fresh
  <2>1. CASE acall[c].owner \notin owners
    <3>1. UNCHANGED acct
      BY <1>4, <2>1 DEF CreateAccount, Publish
    <3> QED BY <3>1, ActiveOnlyShrinks
  <2>2. CASE acall[c].owner \in owners
    <3>1. PICK a \in Acct : /\ Publish(c, CallIdle, acct') /\ acct[a] = NoAcct
                            /\ acct' = [acct EXCEPT ![a] = [owner |-> acall[c].owner, named |-> TRUE, archived |-> FALSE]]
      BY <1>4, <2>2, CreatedRow
    <3>2. acct'[a].owner = acall[c].owner /\ \A b \in Acct \ {a} : acct'[b] = acct[b]
      BY <3>1, AccountTypes
    <3>3. CASE acall[c].owner # o
      BY <3>2, <3>3 DEF ActiveOf, AccountsOf
    <3>4. CASE acall[c].owner = o /\ acall[c].fresh
      <4>1. ActiveOf(o) = {}
        BY <1>4, <3>4 DEF AcctInv, CallsFit, CreateAccount
      <4>2. ActiveOf(o)' \subseteq {a}
        BY <3>2, <4>1 DEF ActiveOf, AccountsOf
      <4> QED BY <4>1, <4>2
    <3>5. CASE acall[c].owner = o /\ ~acall[c].fresh
      BY <1>4, <3>1, <3>5 DEF CreateAccount, Publish
    <3> QED BY <3>3, <3>4, <3>5
  <2> QED BY <2>1, <2>2
<1>5. ASSUME NEW c \in AccountCaller, RestoreAccount(c)
      PROVE  \/ ActiveOf(o)' \subseteq ActiveOf(o)
             \/ acall[c].owner = o /\ acall'[c] = CallIdle /\ acall[c].op = "restore"
  <2>1. PICK a \in acall[c].ids :
          /\ acall[c].op = "restore"
          /\ \/ Publish(c, CallIdle, acct)
             \/ Publish(c, CallIdle, SavedFrom(a, acall[c].copy, FALSE))
    BY <1>5 DEF RestoreAccount
  <2>2. a \in Acct /\ acct[a].owner = acall[c].owner /\ acct[a] \in AccountRow
    BY AccountTypes DEF AcctInv, CallsFit, AccountCall
  <2>3. CASE UNCHANGED acct
    BY <2>3, ActiveOnlyShrinks
  <2>4. CASE ~UNCHANGED acct /\ acall[c].owner # o
    <3>1. acct' = [acct EXCEPT ![a].archived = FALSE]
      BY <2>1, <2>4 DEF Publish, SavedFrom
    <3>2. acct'[a].owner = acct[a].owner /\ \A b \in Acct \ {a} : acct'[b] = acct[b]
      BY <2>2, <3>1, AccountTypes DEF AccountRow
    <3> QED BY <2>2, <2>4, <3>2 DEF ActiveOf, AccountsOf
  <2>5. CASE acall[c].owner = o
    BY <2>1, <2>5 DEF Publish
  <2> QED BY <2>3, <2>4, <2>5
<1>6. ASSUME NEW c \in AccountCaller, DeleteAccount(c) \/ SweepArchive(c)
      PROVE  ActiveOf(o)' \subseteq ActiveOf(o)
  <2>1. \E b \in acall[c].ids : acct' = SavedFrom(b, acall[c].copy, TRUE)
    <3>1. CASE DeleteAccount(c)
      BY <3>1 DEF DeleteAccount, Archive
    <3>2. CASE SweepArchive(c)
      <4>1. acall[c].ids # {} /\ acall[c].ids \subseteq Acct
        BY <3>2, AccountTypes DEF AcctInv, CallsFit, AccountCall, SweepArchive
      <4>2. Current(c) \in acall[c].ids
        BY <4>1, MinimumIsAmong DEF Current
      <4> QED BY <3>2, <4>2 DEF SweepArchive, Archive
    <3> QED BY <1>6, <3>1, <3>2
  <2> QED BY <1>3, <2>1
<1>7. ASSUME NEW c \in AccountCaller, DestroyTeam(c)
      PROVE  ActiveOf(o)' \subseteq ActiveOf(o)
  <2>1. PICK p \in Owner : p = acall[c].owner
    BY <1>7 DEF AcctInv, CallsFit, DestroyTeam
  <2>2. acct' = acct \/ (Unowned(p) /\ acct' = Forget(p))
    BY <1>7, <2>1 DEF DestroyTeam, Publish
  <2> QED BY <1>2, <2>2, ActiveOnlyShrinks
<1>8. ASSUME NEW p \in Owner, DeleteOrganization(p)
      PROVE  ActiveOf(o)' \subseteq ActiveOf(o)
  BY <1>2, <1>8 DEF DeleteOrganization
<1>9. \/ UNCHANGED acct
      \/ \E p \in Owner : DeleteOrganization(p)
      \/ \E c \in AccountCaller : \/ CreateAccount(c) \/ DeleteAccount(c) \/ RestoreAccount(c)
                                  \/ SweepArchive(c) \/ DestroyTeam(c)
  BY DEF AccountsNext, acctVars, EndWork, AskAccount, AskDeleteTeam, AskDelete, AskRestore, Begin, SweepNext
<1> QED BY <1>1, <1>4, <1>5, <1>6, <1>7, <1>8, <1>9

(* "team already has api account": for any number of owners and calls, an     *)
(* owner gets a second active account only from a creation that counted       *)
(* before another became active, or from the restoration of an archived one.  *)
THEOREM OneAccountEach == AccountsSpec => OneApiAccount
<1>1. ASSUME AcctInv, [AccountsNext]_acctVars, NEW o \in Owner,
             Cardinality(ActiveOf(o)) <= 1, Cardinality(ActiveOf(o)') > 1
      PROVE  \E c \in AccountCaller : /\ acall[c].owner = o /\ acall'[c] = CallIdle
                                      /\ \/ acall[c].op = "create" /\ ~acall[c].fresh
                                         \/ acall[c].op = "restore"
  <2>1. IsFiniteSet(Acct)
    BY ApiAccountsAssumption, FS_Interval DEF Acct
  <2>2. IsFiniteSet(ActiveOf(o)) /\ Cardinality(ActiveOf(o)) \in Nat
    <3>1. ActiveOf(o) \in SUBSET Acct
      BY DEF ActiveOf, AccountsOf
    <3>2. IsFiniteSet(ActiveOf(o))
      BY <2>1, <3>1, FS_Subset
    <3> QED BY <3>2, FS_CardinalityType
  <2>3. IsFiniteSet(ActiveOf(o)') /\ Cardinality(ActiveOf(o)') \in Nat
    <3>1. ActiveOf(o)' \in SUBSET Acct
      BY DEF ActiveOf, AccountsOf
    <3>2. IsFiniteSet(ActiveOf(o)')
      BY <2>1, <3>1, FS_Subset
    <3> QED BY <3>2, FS_CardinalityType
  <2>4. ~(ActiveOf(o)' \subseteq ActiveOf(o))
    <3>1. ActiveOf(o)' \in SUBSET ActiveOf(o) => Cardinality(ActiveOf(o)') <= Cardinality(ActiveOf(o))
      BY <2>2, FS_Subset
    <3>2. Cardinality(ActiveOf(o)) <= 1 /\ Cardinality(ActiveOf(o)') > 1
      BY <1>1
    <3> QED BY <2>2, <2>3, <3>1, <3>2
  <2>5. ~\E a \in Acct : ActiveOf(o)' \subseteq {a}
    <3>1. ASSUME NEW a \in Acct, ActiveOf(o)' \subseteq {a} PROVE FALSE
      <4>1. IsFiniteSet({a}) /\ Cardinality({a}) = 1
        BY FS_Singleton
      <4>2. ActiveOf(o)' \in SUBSET {a}
        BY <3>1
      <4>3. Cardinality(ActiveOf(o)') <= Cardinality({a})
        BY <4>1, <4>2, FS_Subset
      <4> QED BY <1>1, <2>3, <4>1, <4>3
    <3> QED BY <3>1
  <2> QED BY <1>1, <2>4, <2>5, OneAccountStep
<1>2. AcctInv /\ [AccountsNext]_acctVars =>
        [\A o \in Owner : Cardinality(ActiveOf(o)) <= 1 /\ Cardinality(ActiveOf(o)') > 1 =>
           \E c \in AccountCaller : /\ acall[c].owner = o /\ acall'[c] = CallIdle
                                    /\ \/ acall[c].op = "create" /\ ~acall[c].fresh
                                       \/ acall[c].op = "restore"]_acctVars
  BY <1>1
<1> QED BY <1>2, AccountsInvariant, PTL DEF AccountsSpec, OneApiAccount

=============================================================================
