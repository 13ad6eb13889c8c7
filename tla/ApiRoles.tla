------------------------------- MODULE ApiRoles -------------------------------
(***************************************************************************)
(* The CSS API's changes to the roles of one integration in one            *)
(* environment, and to the roles of one user: services/role-service.ts,    *)
(* user-role-mapping-service.ts, keycloak-service.ts and                   *)
(* sequelize/queries/requestRoles.ts.  A request checks Keycloak, makes    *)
(* its call, asks for what it changed, writes the rows in one transaction, *)
(* and answers.  Requests overlap; a call can be refused or lose its       *)
(* answer, and the transaction can fail.  Keycloak's roles keep their      *)
(* identity when they are renamed, and so do the rows; "named" gives the   *)
(* role of each name, 0 for none.                                          *)
(***************************************************************************)
EXTENDS FiniteSets, Integers

CONSTANTS
  RoleName,
  ApiCaller,      \* concurrent requests
  MaxApiCalls,    \* bound on requests, and so on roles and rows
  MaxApiFaults    \* bound on lost calls and failed transactions

ASSUME ApiRolesAssumption == IsFiniteSet(RoleName) /\ MaxApiCalls \in Nat /\ MaxApiFaults \in Nat

VARIABLES
  named, parts,     \* Keycloak: the role of each name, the roles each role is composed of
  rowNamed, rowParts,  \* the rows, likewise
  newest,           \* the last role or row created
  user, upstream,   \* the user in Keycloak; whether the identity provider knows them
  holds,            \* the roles the user has
  api,              \* the requests
  apiCalls, apiFaults

apiKeycloak == <<named, parts, newest, user, holds>>
apiRows == <<rowNamed, rowParts>>
apiVars == <<apiKeycloak, apiRows, upstream, api, apiCalls, apiFaults>>

RoleOp == {"create", "delete", "rename", "compose", "uncompose"}
ApiId == 0..(Cardinality(RoleName) + 2 * MaxApiCalls)
NoApiCall == [op |-> "none", on |-> "none", set |-> {}, at |-> "idle", alone |-> TRUE, hit |-> FALSE,
              had |-> {}, given |-> {}]

ApiRolesTypeOK ==
  /\ named \in [RoleName -> ApiId] /\ rowNamed \in [RoleName -> ApiId]
  /\ parts \in [ApiId -> SUBSET ApiId] /\ rowParts \in [ApiId -> SUBSET ApiId]
  /\ newest \in ApiId /\ holds \subseteq ApiId
  /\ user \in {"absent", "unlinked", "linked"} /\ upstream \in BOOLEAN
  /\ api \in [ApiCaller -> [op : RoleOp \cup {"none", "grant", "revoke"}, on : RoleName \cup {"none"},
       set : SUBSET RoleName, alone : BOOLEAN, hit : BOOLEAN, had : SUBSET RoleName, given : SUBSET RoleName,
       at : {"idle", "user", "link", "read", "call", "confirm", "sync", "ok", "failed", "unsynced"}]]
  /\ apiCalls \in 0..MaxApiCalls /\ apiFaults \in 0..MaxApiFaults

There(n) == named[n] # 0
IdsOf(set) == {named[n] : n \in set}
Held == {n \in RoleName : There(n) /\ named[n] \in holds}
Ended(q) == q.at \in {"idle", "ok", "failed", "unsynced"}
ApiFault == apiFaults < MaxApiFaults /\ apiFaults' = apiFaults + 1
ApiGoes(c, to) == api' = [api EXCEPT ![c].at = to]
ApiLost(c, to) == ApiFault /\ api' = [api EXCEPT ![c].at = to, ![c].hit = TRUE]

\* Earlier requests left roles, and rows, of some of the names.
ApiRolesInit ==
  /\ \E roles, rows \in SUBSET RoleName :
     LET id == CHOOSE f \in [RoleName -> 1..Cardinality(RoleName)] : \A m, n \in RoleName : m # n => f[m] # f[n]
     IN
       /\ named = [n \in RoleName |-> IF n \in roles THEN id[n] ELSE 0]
       /\ rowNamed = [n \in RoleName |-> IF n \in rows THEN id[n] ELSE 0]
  /\ parts = [i \in ApiId |-> {}] /\ rowParts = [i \in ApiId |-> {}]
  /\ newest = Cardinality(RoleName) /\ holds = {}
  /\ user \in {"absent", "linked"} /\ upstream \in BOOLEAN
  /\ user = "absent" \/ upstream
  /\ api = [c \in ApiCaller |-> NoApiCall]
  /\ apiCalls = 0 /\ apiFaults = 0

-----------------------------------------------------------------------------
\* What a request looks up before it records anything; renaming to the same
\* name is an update that leaves the name.
Checked(op, n, set) ==
  CASE op = "create" -> ~There(n) /\ set = {}
    [] op = "delete" -> There(n) /\ set = {}
    [] op = "rename" -> There(n) /\ \E m \in RoleName : set = {m} /\ (m # n => ~There(m))
    [] op = "compose" -> n \notin set /\ set # {} /\ \A m \in set \cup {n} : There(m)
    [] op = "uncompose" -> There(n) /\ \E m \in RoleName \ {n} : set = {m} /\ There(m)
    [] op = "grant" -> set # {} /\ \A m \in set : There(m)
    [] op = "revoke" -> \E m \in RoleName : set = {m} /\ There(m)

BeginApi(c, op, n, set) ==
  /\ Ended(api[c]) /\ Checked(op, n, set)
  /\ apiCalls < MaxApiCalls /\ apiCalls' = apiCalls + 1
  /\ LET overlaps == \E d \in ApiCaller \ {c} : ~Ended(api[d])
     IN api' = [d \in ApiCaller |-> IF d = c
          THEN [NoApiCall EXCEPT !.op = op, !.on = n, !.set = set, !.alone = ~overlaps,
                  !.at = CASE op \in RoleOp -> "call" [] op = "grant" -> "user" [] OTHER -> "read"]
          ELSE [api[d] EXCEPT !.alone = FALSE]]
  /\ UNCHANGED <<apiKeycloak, apiRows, upstream, apiFaults>>

-----------------------------------------------------------------------------
(* Roles.  Keycloak checks again, and by name.                               *)
ApiAccepts(q) ==
  CASE q.op = "create" -> ~There(q.on)
    [] q.op = "delete" -> There(q.on)
    [] q.op = "rename" -> There(q.on) /\ (q.set # {q.on} => \A m \in q.set : ~There(m))
    [] OTHER -> \A m \in q.set \cup {q.on} : There(m)

ApiEffect(q) ==
  LET id == named[q.on]
  IN CASE q.op = "create" -> /\ newest' = newest + 1 /\ named' = [named EXCEPT ![q.on] = newest + 1]
                             /\ UNCHANGED <<parts, holds>>
       [] q.op = "delete" -> /\ named' = [named EXCEPT ![q.on] = 0] /\ holds' = holds \ {id}
                             /\ parts' = [i \in ApiId |-> IF i = id THEN {} ELSE parts[i] \ {id}]
                             /\ UNCHANGED newest
       [] q.op = "rename" -> /\ named' = [m \in RoleName |->
                                  IF m \in q.set THEN id ELSE IF m = q.on THEN 0 ELSE named[m]]
                             /\ UNCHANGED <<parts, newest, holds>>
       [] q.op = "compose" -> parts' = [parts EXCEPT ![id] = @ \cup IdsOf(q.set)] /\ UNCHANGED <<named, newest, holds>>
       [] q.op = "uncompose" -> parts' = [parts EXCEPT ![id] = @ \ IdsOf(q.set)] /\ UNCHANGED <<named, newest, holds>>

CallRole(c) ==
  LET q == api[c]
  IN /\ q.op \in RoleOp /\ q.at = "call"
     /\ \/ /\ ApiAccepts(q) /\ ApiEffect(q)
           /\ ApiGoes(c, IF q.op = "delete" THEN "sync" ELSE "confirm") /\ UNCHANGED apiFaults
        \/ ~ApiAccepts(q) /\ ApiGoes(c, "failed") /\ UNCHANGED <<named, parts, newest, holds, apiFaults>>
        \/ /\ ApiAccepts(q) /\ ApiLost(c, "failed")
           /\ ApiEffect(q) \/ UNCHANGED <<named, parts, newest, holds>>
     /\ UNCHANGED <<apiRows, user, upstream, apiCalls>>

\* The role is fetched; nothing came back, or an error, and the request fails.
ConfirmRole(c) ==
  LET q == api[c]
      gone == \E m \in (IF q.op = "rename" THEN q.set ELSE {q.on}) : ~There(m)
  IN /\ q.at = "confirm"
     /\ \/ ApiGoes(c, IF gone THEN "failed" ELSE "sync") /\ UNCHANGED apiFaults
        \/ ApiLost(c, "failed")
     /\ UNCHANGED <<apiKeycloak, apiRows, upstream, apiCalls>>

(* The rows, as <<rowNamed, rowParts>>.                                      *)
Insert(r, n, id) == IF r[1][n] = 0 THEN <<[r[1] EXCEPT ![n] = id], r[2]>> ELSE r

\* destroyRequestRole: the row, and its id in the rows composed of it.
DestroyRequestRole(r, n) ==
  LET id == r[1][n]
  IN IF id = 0 THEN r
     ELSE <<[r[1] EXCEPT ![n] = 0], [i \in ApiId |-> IF i = id THEN {} ELSE r[2][i] \ {id}]>>

(* Mutant: a role without a row is renamed without one. *)
RenamedIfPresent(r, n, m, id) ==
  LET s == IF m = n THEN r ELSE DestroyRequestRole(r, m)
  IN <<[k \in RoleName |-> IF k = m THEN s[1][n] ELSE IF k = n THEN 0 ELSE s[1][k]], s[2]>>

\* updateRole: a stale row of the new name goes; a missing row is created.
Renamed(r, n, m, id) ==
  LET s == IF m = n THEN r ELSE DestroyRequestRole(r, m)
      own == IF s[1][n] = 0 THEN id ELSE s[1][n]
  IN <<[k \in RoleName |-> IF k = m THEN own ELSE IF k = n THEN 0 ELSE s[1][k]], s[2]>>

Synced(q, r) ==
  LET id == newest + 1
      composed == Insert(r, q.on, id)
      partOf(m) == r[1][m]
  IN CASE q.op = "create" -> Insert(DestroyRequestRole(r, q.on), q.on, id)
       [] q.op = "delete" -> DestroyRequestRole(r, q.on)
       [] q.op = "rename" -> Renamed(r, q.on, CHOOSE m \in q.set : TRUE, id)
       [] q.op = "compose" ->
            <<composed[1], [composed[2] EXCEPT ![composed[1][q.on]] = @ \cup {partOf(m) : m \in q.set}]>>
       [] q.op = "uncompose" ->
            IF r[1][q.on] = 0 THEN r
            ELSE <<r[1], [r[2] EXCEPT ![r[1][q.on]] = @ \ {partOf(m) : m \in q.set}]>>

\* createCompositeRolesDB throws at a composite role that has no row.
Throws(q, r) == q.op = "compose" /\ \E m \in q.set : r[1][m] = 0

SyncRows(c) ==
  LET q == api[c]
      r == <<rowNamed, rowParts>>
  IN /\ q.at = "sync"
     /\ \/ /\ ~Throws(q, r) /\ rowNamed' = Synced(q, r)[1] /\ rowParts' = Synced(q, r)[2]
           /\ newest' = newest + 1
           /\ ApiGoes(c, "ok") /\ UNCHANGED apiFaults
        \/ Throws(q, r) /\ ApiGoes(c, "unsynced") /\ UNCHANGED <<apiRows, newest, apiFaults>>
        \/ ApiLost(c, "unsynced") /\ UNCHANGED <<apiRows, newest>>
     /\ UNCHANGED <<named, parts, user, holds, upstream, apiCalls>>

-----------------------------------------------------------------------------
(* A user's roles.                                                           *)
\* addRoleToUserWithProvisioning imports a user the identity provider knows.
FindUser(c) ==
  /\ api[c].op = "grant" /\ api[c].at = "user"
  /\ \/ /\ user # "absent" /\ ApiGoes(c, "read") /\ UNCHANGED <<user, apiFaults>>
     \/ /\ user = "absent" /\ ~upstream /\ ApiGoes(c, "failed") /\ UNCHANGED <<user, apiFaults>>
     \/ /\ user = "absent" /\ upstream /\ user' = "unlinked"
        /\ \/ ApiGoes(c, "link") /\ UNCHANGED apiFaults
           \/ ApiLost(c, "failed")
     \/ ApiLost(c, "failed") /\ UNCHANGED user
  /\ UNCHANGED <<named, parts, newest, holds, apiRows, upstream, apiCalls>>

LinkUser(c) ==
  /\ api[c].at = "link"
  /\ \/ user' = "linked" /\ ApiGoes(c, "read") /\ UNCHANGED apiFaults
     \/ user' \in {user, "linked"} /\ ApiLost(c, "failed")
  /\ UNCHANGED <<named, parts, newest, holds, apiRows, upstream, apiCalls>>

\* applyRoleMappingChanges: what changes nothing is not asked for.
ReadHeld(c) ==
  LET q == api[c]
      todo == IF q.op = "grant" THEN q.set \ Held ELSE q.set \cap Held
  IN /\ q.at = "read"
     /\ \/ /\ user # "absent" /\ UNCHANGED apiFaults
           /\ api' = [api EXCEPT ![c].had = Held, ![c].at = IF todo = {} THEN "ok" ELSE "call"]
        \/ user = "absent" /\ ApiGoes(c, "failed") /\ UNCHANGED apiFaults
        \/ ApiLost(c, "failed")
     /\ UNCHANGED <<apiKeycloak, apiRows, upstream, apiCalls>>

(* Mutant: the roles that are there are granted. *)
GrantOfThose(todo) == {m \in todo : There(m)}
\* addClientUserRoleMapping: one request for all of them, refused if one is missing.
GrantOf(todo) == IF \A m \in todo : There(m) THEN todo ELSE {}

GrantAll(c) ==
  LET q == api[c]
      given == GrantOf(q.set \ q.had)
      granted == holds' = holds \cup IdsOf(given)
  IN /\ q.op = "grant" /\ q.at = "call"
     /\ \/ /\ given # {} /\ granted
           /\ \/ api' = [api EXCEPT ![c].at = "ok", ![c].given = given] /\ UNCHANGED apiFaults
              \/ ApiFault /\ api' = [api EXCEPT ![c].at = "failed", ![c].given = given, ![c].hit = TRUE]
        \/ given = {} /\ ApiGoes(c, "failed") /\ UNCHANGED <<holds, apiFaults>>
        \/ ApiLost(c, "failed") /\ UNCHANGED holds
     /\ UNCHANGED <<named, parts, newest, user, apiRows, upstream, apiCalls>>

Revoke(c) ==
  LET q == api[c]
      missing == \E m \in q.set : ~There(m)
  IN /\ q.op = "revoke" /\ q.at = "call"
     /\ \/ ~missing /\ holds' = holds \ IdsOf(q.set) /\ ApiGoes(c, "ok") /\ UNCHANGED apiFaults
        \/ missing /\ ApiGoes(c, "failed") /\ UNCHANGED <<holds, apiFaults>>
        \/ ~missing /\ holds' \in {holds, holds \ IdsOf(q.set)} /\ ApiLost(c, "failed")
     /\ UNCHANGED <<named, parts, newest, user, apiRows, upstream, apiCalls>>

ApiRolesNext ==
  \E c \in ApiCaller :
    \/ \E op \in RoleOp, n \in RoleName, set \in SUBSET RoleName : BeginApi(c, op, n, set)
    \/ \E op \in {"grant", "revoke"}, set \in SUBSET RoleName : BeginApi(c, op, "none", set)
    \/ CallRole(c) \/ ConfirmRole(c) \/ SyncRows(c)
    \/ FindUser(c) \/ LinkUser(c) \/ ReadHeld(c) \/ GrantAll(c) \/ Revoke(c)

-----------------------------------------------------------------------------
RowMirrors(n) == There(n) <=> rowNamed[n] # 0
RowLists(n, m) == rowNamed[m] # 0 /\ rowNamed[m] \in rowParts[rowNamed[n]]

(* "The role row mirrors Keycloak", whatever rows earlier failures left      *)
(* behind or never wrote: when a request that nobody overlapped is answered, *)
(* the rows of the names it changed are there exactly when the roles are,    *)
(* and a composite role's row lists what the request added and not what it   *)
(* removed; and a stale row never stops it: save at a composite role that    *)
(* never got its row, only a failing write leaves Keycloak ahead of them.    *)
AnsweredIsMirrored ==
  \A c \in ApiCaller :
    LET q == api[c]
    IN q.alone /\ q.op \in RoleOp =>
       /\ q.at = "ok" =>
            /\ RowMirrors(q.on) \/ q.op = "uncompose"
            /\ q.op = "rename" => \A m \in q.set : RowMirrors(m)
            /\ q.op = "compose" => \A m \in q.set : named[m] \in parts[named[q.on]] /\ RowLists(q.on, m)
            /\ q.op = "uncompose" => \A m \in q.set : named[m] \notin parts[named[q.on]] /\ ~RowLists(q.on, m)
       /\ q.at = "unsynced" => q.hit \/ q.op = "compose"

(* "Every grant goes to Keycloak in one request, which applies all of them   *)
(* or none": whatever happens to the roles meanwhile, a request that was     *)
(* answered had each role it asked for granted, then or before; one that was *)
(* refused granted none; and nobody is imported whom the identity provider   *)
(* does not know.                                                            *)
GrantIsAllOrNothing ==
  /\ \A c \in ApiCaller :
       LET q == api[c]
       IN q.op = "grant" =>
          /\ q.at = "ok" => q.set \subseteq q.had \cup q.given
          /\ q.at = "failed" /\ ~q.hit => q.given = {}
  /\ user = "unlinked" => upstream
=============================================================================
