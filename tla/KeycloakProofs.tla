---------------------------- MODULE KeycloakProofs ----------------------------
(***************************************************************************)
(* Theorems about what the console does in Keycloak beside the engine: the *)
(* client scopes of SDX services, the replication of roles to azureidir    *)
(* users, client roles with the rows that mirror them and their            *)
(* restoration, and the convergence of an integration's client.  They hold *)
(* for any number of services, callers, users, roles, runs, submissions,   *)
(* attempts and faults.                                                    *)
(***************************************************************************)
EXTENDS SdxAccess, RoleReplication, Roles, ClientConvergence, FiniteSetTheorems, SequenceTheorems, TLAPS

-----------------------------------------------------------------------------
(* SDX services *)

SdxSpec == SdxInit /\ [][SdxNext]_sdxVars

SdxCalls == [op : {"none", "request", "callback"}, at : {"idle", "post", "scopes", "approved", "change", "done"},
             all : SUBSET SdxService, todo : SUBSET SdxService, seen : SUBSET SdxService,
             drop : SUBSET SdxService, add : SUBSET SdxService, same : BOOLEAN, kept : BOOLEAN]

\* What a request or a callback has read of the realm and of the client: it takes
\* away only what the client had among its default scopes to begin with.
SdxReads(q) ==
  /\ q.seen \subseteq defined
  /\ q.same => hasClient /\ q.drop \subseteq inherited

\* How far it is: what it no longer has to do is done.
SdxProgress(q) ==
  /\ q.at \in {"post", "approved"} => q.op = "request"
  /\ q.at \in {"approved", "done"} \/ (q.at = "change" /\ q.op = "request") => q.todo = {}
  /\ q.at \in {"scopes", "done"} \/ q.op = "request" => q.add = {}
  /\ q.op = "callback" /\ q.kept /\ q.at \in {"scopes", "change", "done"}
       => q.all \ (q.todo \cup q.add \cup inherited) \subseteq optional
  /\ q.op = "request" /\ q.at \in {"post", "scopes", "approved", "change", "done"}
       => q.all \ q.todo \subseteq defined /\ (hasExchanger => q.all \ q.todo \subseteq exchanger)

SdxCallInv(q) == SdxReads(q) /\ SdxProgress(q)
SdxInv == SdxTypeOK /\ \A c \in SdxCaller : SdxCallInv(sdxCall[c])

(* What one caller does leaves what the others have read and done, as long as *)
(* nothing is taken from the realm and only an inherited scope is taken from  *)
(* the client.                                                                *)
LEMMA SdxMoves ==
  ASSUME NEW c \in SdxCaller, NEW call \in SdxCalls, SdxInv,
         sdxCall' = [sdxCall EXCEPT ![c] = call],
         UNCHANGED <<hasExchanger, hasClient, inherited>>,
         defined \subseteq defined', exchanger \subseteq exchanger', optional \ inherited \subseteq optional',
         defined' \subseteq SdxService, exchanger' \subseteq defined', optional' \subseteq defined',
         default' \subseteq inherited, ~hasExchanger => exchanger' = {}, ~hasClient => optional' = {},
         requested' \subseteq SdxService, sdxCalls' \in 0..MaxSdxCalls, sdxFaults' \in 0..MaxSdxFaults,
         SdxCallInv(call)'
  PROVE  SdxInv'
<1>1. sdxCall' \in [SdxCaller -> SdxCalls]
  BY DEF SdxInv, SdxTypeOK, SdxCalls
<1>2. SdxTypeOK'
  BY <1>1 DEF SdxInv, SdxTypeOK, SdxCalls
<1>3. ASSUME NEW d \in SdxCaller PROVE SdxCallInv(sdxCall[d])'
  <2>1. CASE d = c
    <3>1. sdxCall'[d] = call
      BY <2>1 DEF SdxInv, SdxTypeOK
    <3> QED BY <3>1 DEF SdxCallInv, SdxReads, SdxProgress
  <2>2. CASE d # c
    <3>1. sdxCall'[d] = sdxCall[d] /\ SdxCallInv(sdxCall[d])
      BY <2>2 DEF SdxInv, SdxTypeOK
    <3>2. SdxReads(sdxCall[d])'
      BY <3>1 DEF SdxCallInv, SdxReads
    <3>3. SdxProgress(sdxCall[d])'
      BY <3>1 DEF SdxCallInv, SdxProgress
    <3> QED BY <3>2, <3>3 DEF SdxCallInv
  <2> QED BY <2>1, <2>2
<1> QED BY <1>2, <1>3 DEF SdxInv

(* The invariant holds at the start: nobody is doing anything. *)
LEMMA SdxInitInv == SdxInit => SdxInv
<1> SUFFICES ASSUME SdxInit PROVE SdxInv
  OBVIOUS
<1>1. SdxTypeOK
  BY SdxAssumption DEF SdxInit, SdxTypeOK, SdxIdle
<1>2. \A c \in SdxCaller : sdxCall[c] = SdxIdle
  BY DEF SdxInit
<1>3. \A c \in SdxCaller : SdxCallInv(sdxCall[c])
  BY <1>2 DEF SdxCallInv, SdxReads, SdxProgress, SdxIdle
<1> QED BY <1>1, <1>3 DEF SdxInv

(* A call that ends, refused or failed, has read nothing and owes nothing. *)
LEMMA IdleOwesNothing ==
  /\ SdxIdle \in SdxCalls /\ SdxIdle.at = "idle" /\ SdxIdle.op = "none"
  /\ SdxIdle.seen = {} /\ SdxIdle.todo = {} /\ SdxIdle.add = {} /\ ~SdxIdle.same
  BY DEF SdxIdle, SdxCalls

(* A request or a callback that begins has everything still to do. *)
LEMMA SdxBeginsStep ==
  ASSUME NEW c \in SdxCaller, NEW services \in SUBSET SdxService, SdxInv,
         AskServices(c, services) \/ Approve(c, services)
  PROVE  SdxInv'
<1>1. PICK op \in {"request", "callback"}, at \in {"post", "scopes"} :
        /\ op = "request" <=> at = "post"
        /\ SdxBegins(c, op, at, services)
  BY DEF AskServices, Approve
<1>2. PICK call \in SdxCalls :
        /\ sdxCall' = [sdxCall EXCEPT ![c] = call]
        /\ call.op = op /\ call.at = at /\ call.all = services /\ call.todo = services
        /\ call.seen = {} /\ call.add = {} /\ ~call.same
  <2> DEFINE r == [SdxIdle EXCEPT !.op = op, !.at = at, !.all = services, !.todo = services]
  <2>1. /\ r \in SdxCalls /\ r.op = op /\ r.at = at /\ r.all = services /\ r.todo = services
        /\ r.seen = SdxIdle.seen /\ r.add = SdxIdle.add /\ r.same = SdxIdle.same
    BY ONLY IdleOwesNothing, <1>1, services \in SUBSET SdxService DEF SdxCalls
  <2>2. SdxGoes(c, r)
    BY <1>1 DEF SdxBegins
  <2> HIDE DEF r
  <2> QED BY <2>1, <2>2, IdleOwesNothing DEF SdxGoes
<1>3. /\ UNCHANGED <<defined, exchanger, hasExchanger, hasClient, default, inherited, optional, requested, sdxFaults>>
      /\ sdxCalls' \in 0..MaxSdxCalls
  BY <1>1, SdxAssumption DEF SdxBegins, SdxInv, SdxTypeOK, realmScopes, clientScopes
<1>4. SdxCallInv(call)'
  BY <1>1, <1>2 DEF SdxCallInv, SdxReads, SdxProgress
<1> QED BY <1>2, <1>3, <1>4, SdxMoves DEF SdxInv, SdxTypeOK

(* The submission itself touches no scope. *)
LEMMA PostRequestStep ==
  ASSUME NEW c \in SdxCaller, SdxInv, PostRequest(c)
  PROVE  SdxInv'
<1>1. sdxCall[c] \in SdxCalls /\ SdxCallInv(sdxCall[c]) /\ sdxCall[c].at = "post"
  BY DEF SdxInv, SdxTypeOK, SdxCalls, PostRequest
<1>2. PICK call \in SdxCalls :
        /\ sdxCall' = [sdxCall EXCEPT ![c] = call]
        /\ \/ call = SdxIdle
           \/ /\ call.at = "scopes" /\ call.op = "request" /\ call.all = sdxCall[c].all
              /\ call.todo = sdxCall[c].todo /\ call.seen \subseteq defined
              /\ call.same = sdxCall[c].same /\ call.drop = sdxCall[c].drop /\ call.add = sdxCall[c].add
  <2>1. CASE SdxGoes(c, SdxIdle)
    BY <2>1, IdleOwesNothing DEF SdxGoes
  <2>2. CASE SdxGoes(c, [sdxCall[c] EXCEPT !.at = "scopes", !.seen = defined \cap sdxCall[c].all])
    <3> DEFINE r == [sdxCall[c] EXCEPT !.at = "scopes", !.seen = defined \cap sdxCall[c].all]
    <3>1. /\ r \in SdxCalls /\ r.at = "scopes" /\ r.op = "request" /\ r.all = sdxCall[c].all /\ r.todo = sdxCall[c].todo
          /\ r.seen \subseteq defined /\ r.same = sdxCall[c].same /\ r.drop = sdxCall[c].drop /\ r.add = sdxCall[c].add
      BY <1>1 DEF SdxInv, SdxTypeOK, SdxCalls, SdxCallInv, SdxProgress
    <3>2. SdxGoes(c, r)
      BY <2>2
    <3> HIDE DEF r
    <3> QED BY <3>1, <3>2 DEF SdxGoes
  <2> QED BY <2>1, <2>2 DEF PostRequest
<1>3. /\ UNCHANGED <<defined, exchanger, hasExchanger, hasClient, default, inherited, optional, sdxCalls>>
      /\ requested' \subseteq SdxService /\ sdxFaults' \in 0..MaxSdxFaults
  <2>1. sdxCall[c].all \subseteq SdxService
    BY <1>1 DEF SdxCalls
  <2> QED BY <2>1, SdxAssumption DEF PostRequest, SdxFault, SdxInv, SdxTypeOK, realmScopes, clientScopes
<1>4. SdxCallInv(call)'
  <2>1. CASE call = SdxIdle
    BY <2>1, IdleOwesNothing DEF SdxCallInv, SdxReads, SdxProgress
  <2>2. CASE call # SdxIdle
    BY <1>1, <1>2, <1>3, <2>2 DEF SdxCallInv, SdxReads, SdxProgress
  <2> QED BY <2>1, <2>2
<1> QED BY <1>2, <1>3, <1>4, SdxMoves DEF SdxInv, SdxTypeOK

(* A scope that was dealt with is defined, and offered to the token exchanger *)
(* where there is one.                                                        *)
LEMMA InitializeScopeStep ==
  ASSUME NEW c \in SdxCaller, NEW s \in SdxService, SdxInv, InitializeScope(c, s)
  PROVE  SdxInv'
<1> DEFINE q == sdxCall[c]
<1>1. q \in SdxCalls /\ SdxCallInv(q) /\ q.op = "request" /\ q.at = "scopes" /\ s \in q.todo
  BY DEF SdxInv, SdxTypeOK, SdxCalls, InitializeScope
<1>2. PICK call \in SdxCalls :
        /\ sdxCall' = [sdxCall EXCEPT ![c] = call]
        /\ \/ call = SdxIdle
           \/ /\ call.op = "request" /\ call.at \in {"scopes", "approved"}
              /\ call.all = q.all /\ call.todo = q.todo \ {s} /\ call.seen \subseteq q.seen
              /\ call.same = q.same /\ call.drop = q.drop /\ call.add = q.add
              /\ call.at = "approved" => call.todo = {}
              /\ defined' = defined \cup {s} /\ exchanger' = exchanger \cup Offered(s)
  <2>1. CASE SdxGoes(c, SdxIdle)
    BY <2>1, IdleOwesNothing DEF SdxGoes
  <2> DEFINE r == [q EXCEPT !.todo = @ \ {s}, !.at = IF q.todo = {s} THEN "approved" ELSE @, !.seen = @ \ {s}]
  <2>2. CASE SdxGoes(c, r) /\ defined' = defined \cup {s} /\ exchanger' = exchanger \cup Offered(s)
    <3>1. /\ r \in SdxCalls /\ r.op = q.op /\ r.all = q.all /\ r.todo = q.todo \ {s} /\ r.seen = q.seen \ {s}
          /\ r.same = q.same /\ r.drop = q.drop /\ r.add = q.add
          /\ r.at = IF q.todo = {s} THEN "approved" ELSE q.at
      BY <1>1 DEF SdxCalls
    <3>2. r.op = "request" /\ r.at \in {"scopes", "approved"} /\ (r.at = "approved" => r.todo = {})
      BY <1>1, <3>1
    <3> HIDE DEF r
    <3> QED BY <2>2, <3>1, <3>2 DEF SdxGoes
  <2> QED BY <2>1, <2>2 DEF InitializeScope
<1>3. /\ UNCHANGED <<hasExchanger, hasClient, default, inherited, optional, requested, sdxCalls>>
      /\ defined \subseteq defined' /\ defined' \subseteq SdxService
      /\ exchanger \subseteq exchanger' /\ exchanger' \subseteq defined' /\ (~hasExchanger => exchanger' = {})
      /\ sdxFaults' \in 0..MaxSdxFaults
  BY SdxAssumption DEF InitializeScope, Offered, SdxFault, SdxInv, SdxTypeOK, clientScopes, realmScopes
<1>4. SdxCallInv(call)'
  <2>1. CASE call = SdxIdle
    BY <2>1, IdleOwesNothing DEF SdxCallInv, SdxReads, SdxProgress
  <2>2. CASE call # SdxIdle
    <3>1. SdxReads(call)'
      BY <1>1, <1>2, <1>3, <2>2 DEF SdxCallInv, SdxReads
    <3> QED BY <1>1, <1>2, <1>3, <2>2, <3>1 DEF SdxCallInv, SdxProgress, Offered
  <2> QED BY <2>1, <2>2
<1> QED BY <1>2, <1>3, <1>4, SdxMoves DEF SdxInv, SdxTypeOK

(* What a request takes away, the client had among its default scopes. *)
LEMMA ReadApprovedStep ==
  ASSUME NEW c \in SdxCaller, NEW approved \in SUBSET requested, SdxInv, ReadApproved(c, approved)
  PROVE  SdxInv'
<1> DEFINE q == sdxCall[c]
           removed == (approved \ q.all) \cap default
<1>1. q \in SdxCalls /\ SdxCallInv(q) /\ q.at = "approved" /\ q.op = "request" /\ q.todo = {} /\ q.add = {}
  BY DEF SdxInv, SdxTypeOK, SdxCalls, ReadApproved, SdxCallInv, SdxProgress
<1>2. PICK call \in SdxCalls :
        /\ sdxCall' = [sdxCall EXCEPT ![c] = call]
        /\ \/ call = SdxIdle
           \/ /\ call.op = "request" /\ call.at \in {"change", "done"} /\ call.all = q.all
              /\ call.todo = {} /\ call.add = {} /\ call.seen = q.seen
              /\ \/ call.same = q.same /\ call.drop = q.drop
                 \/ hasClient /\ call.drop \subseteq inherited
  <2>1. CASE SdxGoes(c, SdxIdle)
    BY <2>1, IdleOwesNothing DEF SdxGoes
  <2>2. CASE SdxGoes(c, [q EXCEPT !.at = "done"])
    <3> DEFINE r == [q EXCEPT !.at = "done"]
    <3>1. /\ r \in SdxCalls /\ r.op = q.op /\ r.at = "done" /\ r.all = q.all /\ r.todo = q.todo
          /\ r.add = q.add /\ r.seen = q.seen /\ r.same = q.same /\ r.drop = q.drop
      BY <1>1 DEF SdxCalls
    <3>2. SdxGoes(c, r)
      BY <2>2
    <3> HIDE DEF r
    <3> QED BY <1>1, <3>1, <3>2 DEF SdxGoes
  <2>3. CASE hasClient /\ SdxGoes(c, [q EXCEPT !.at = "change", !.drop = removed, !.same = TRUE])
    <3> DEFINE r == [q EXCEPT !.at = "change", !.drop = removed, !.same = TRUE]
    <3>1. removed \in SUBSET SdxService /\ removed \subseteq inherited
      BY DEF SdxInv, SdxTypeOK
    <3> HIDE DEF removed
    <3>2. /\ r \in SdxCalls /\ r.op = q.op /\ r.at = "change" /\ r.all = q.all /\ r.todo = q.todo
          /\ r.add = q.add /\ r.seen = q.seen /\ r.drop = removed
      BY <1>1, <3>1 DEF SdxCalls
    <3>3. SdxGoes(c, r)
      BY <2>3
    <3> HIDE DEF r
    <3> QED BY <1>1, <2>3, <3>1, <3>2, <3>3 DEF SdxGoes
  <2> QED BY <2>1, <2>2, <2>3 DEF ReadApproved
<1>3. /\ UNCHANGED <<defined, exchanger, hasExchanger, hasClient, default, inherited, optional, requested, sdxCalls>>
      /\ sdxFaults' \in 0..MaxSdxFaults
  BY SdxAssumption DEF ReadApproved, SdxFault, SdxInv, SdxTypeOK, clientScopes, realmScopes
<1>4. SdxCallInv(call)'
  <2>1. CASE call = SdxIdle
    BY <2>1, IdleOwesNothing DEF SdxCallInv, SdxReads, SdxProgress
  <2>2. CASE call # SdxIdle
    BY <1>1, <1>2, <1>3, <2>2 DEF SdxCallInv, SdxReads, SdxProgress
  <2> QED BY <2>1, <2>2
<1> QED BY <1>2, <1>3, <1>4, SdxMoves DEF SdxInv, SdxTypeOK

(* A pass decides what it takes away and adds: nothing moves yet, and the     *)
(* service is to be added or was inherited.                                   *)
LEMMA ReadScopesStep ==
  ASSUME NEW c \in SdxCaller, NEW s \in SdxService, SdxInv, ReadScopes(c, s)
  PROVE  SdxInv'
<1> DEFINE q == sdxCall[c]
<1>1. q \in SdxCalls /\ SdxCallInv(q) /\ q.op = "callback" /\ q.at = "scopes" /\ s \in q.todo
  BY DEF SdxInv, SdxTypeOK, SdxCalls, ReadScopes
<1>2. PICK call \in SdxCalls :
        /\ sdxCall' = [sdxCall EXCEPT ![c] = call] /\ call.op = "callback" /\ call.all = q.all
        /\ \/ /\ call.at = "change" /\ call.todo = q.todo \ {s} /\ call.kept = q.kept
              /\ hasClient /\ call.seen \subseteq defined /\ call.drop \subseteq inherited
              /\ call.add = {s} \ default
           \/ /\ call.at \in {"scopes", "done"} /\ ~call.kept /\ (call.at = "done" => call.todo = {})
              /\ call.seen = q.seen /\ call.same = q.same /\ call.drop = q.drop /\ call.add = q.add
  <2>1. CASE hasClient
    <3> DEFINE add == {s} \ default
               seen == defined \cap {s}
               r == [q EXCEPT !.at = "change", !.todo = @ \ {s}, !.seen = seen, !.same = TRUE,
                              !.drop = Withdrawn(s), !.add = add]
    <3>1. /\ Withdrawn(s) \in SUBSET SdxService /\ Withdrawn(s) \subseteq inherited
          /\ add \in SUBSET SdxService /\ seen \in SUBSET SdxService /\ seen \subseteq defined
      BY DEF SdxInv, SdxTypeOK, Withdrawn
    <3>2. SdxGoes(c, r)
      BY <2>1 DEF ReadScopes
    <3> HIDE DEF seen, add
    <3>3. /\ r \in SdxCalls /\ r.op = q.op /\ r.all = q.all /\ r.at = "change" /\ r.todo = q.todo \ {s}
          /\ r.kept = q.kept /\ r.seen = seen /\ r.drop = Withdrawn(s) /\ r.add = add
      BY <1>1, <3>1 DEF SdxCalls
    <3> HIDE DEF r
    <3> QED BY <1>1, <2>1, <3>1, <3>2, <3>3 DEF SdxGoes, add
  <2>2. CASE ~hasClient
    <3> DEFINE r == [q EXCEPT !.todo = @ \ {s}, !.kept = FALSE, !.at = IF q.todo = {s} THEN "done" ELSE @]
    <3>1. /\ r \in SdxCalls /\ r.op = q.op /\ r.all = q.all /\ r.todo = q.todo \ {s} /\ ~r.kept
          /\ r.seen = q.seen /\ r.same = q.same /\ r.drop = q.drop /\ r.add = q.add
          /\ r.at = IF q.todo = {s} THEN "done" ELSE q.at
      BY <1>1 DEF SdxCalls
    <3>2. SdxGoes(c, r)
      BY <2>2 DEF ReadScopes
    <3>3. r.at \in {"scopes", "done"} /\ (r.at = "done" => r.todo = {})
      BY <1>1, <3>1
    <3> HIDE DEF r
    <3> QED BY <1>1, <3>1, <3>2, <3>3 DEF SdxGoes
  <2> QED BY <2>1, <2>2
<1>3. UNCHANGED <<defined, exchanger, hasExchanger, hasClient, default, inherited, optional, requested, sdxCalls, sdxFaults>>
  BY DEF ReadScopes, realmScopes, clientScopes
<1>4. SdxCallInv(call)'
  <2>1. default \subseteq inherited
    BY DEF SdxInv, SdxTypeOK
  <2>2. SdxReads(call)'
    BY <1>1, <1>2, <1>3 DEF SdxCallInv, SdxReads
  <2>3. CASE call.at = "change"
    <3>1. call.op = "callback" /\ call.todo = q.todo \ {s} /\ call.kept = q.kept /\ {s} \subseteq call.add \cup inherited
      BY <1>2, <2>1, <2>3
    <3>2. q.kept => q.all \ (q.todo \cup inherited) \subseteq optional
      BY <1>1 DEF SdxCallInv, SdxProgress
    <3>3. call.kept => call.all \ (call.todo \cup call.add \cup inherited) \subseteq optional
      BY <1>2, <3>1, <3>2
    <3> QED BY <1>3, <2>2, <2>3, <3>1, <3>3 DEF SdxCallInv, SdxProgress
  <2>4. CASE call.at # "change"
    BY <1>1, <1>2, <1>3, <2>2, <2>4 DEF SdxCallInv, SdxProgress
  <2> QED BY <2>3, <2>4
<1> QED BY <1>2, <1>3, <1>4, SdxMoves DEF SdxInv, SdxTypeOK

(* What is taken away was inherited: no callback relies on it. *)
LEMMA DropScopeStep ==
  ASSUME NEW c \in SdxCaller, NEW s \in SdxService, SdxInv, DropScope(c, s)
  PROVE  SdxInv'
<1> DEFINE q == sdxCall[c]
<1>1. q \in SdxCalls /\ SdxCallInv(q) /\ q.at = "change" /\ s \in q.drop
  BY DEF SdxInv, SdxTypeOK, SdxCalls, DropScope
<1>2. PICK call \in SdxCalls :
        /\ sdxCall' = [sdxCall EXCEPT ![c] = call]
        /\ \/ call = SdxIdle
           \/ /\ call.op = q.op /\ call.at = q.at /\ call.all = q.all /\ call.todo = q.todo /\ call.seen = q.seen
              /\ call.add = q.add /\ call.same = q.same /\ call.kept = q.kept /\ call.drop = q.drop \ {s}
  <2>1. CASE SdxGoes(c, SdxIdle)
    BY <2>1, IdleOwesNothing DEF SdxGoes
  <2>2. CASE SdxGoes(c, [q EXCEPT !.drop = @ \ {s}])
    <3> DEFINE r == [q EXCEPT !.drop = @ \ {s}]
    <3>1. /\ r \in SdxCalls /\ r.op = q.op /\ r.at = q.at /\ r.all = q.all /\ r.todo = q.todo /\ r.seen = q.seen
          /\ r.add = q.add /\ r.same = q.same /\ r.kept = q.kept /\ r.drop = q.drop \ {s}
      BY <1>1 DEF SdxCalls
    <3>2. SdxGoes(c, r)
      BY <2>2
    <3> HIDE DEF r
    <3> QED BY <3>1, <3>2 DEF SdxGoes
  <2> QED BY <2>1, <2>2 DEF DropScope
<1>3. /\ UNCHANGED <<defined, exchanger, hasExchanger, hasClient, inherited, requested, sdxCalls>>
      /\ sdxFaults' \in 0..MaxSdxFaults
      /\ \/ q.same /\ default' = default \ {s} /\ optional' = optional \ {s}
         \/ UNCHANGED <<default, optional>>
  BY SdxAssumption DEF DropScope, SdxFault, SdxInv, SdxTypeOK, realmScopes
<1>4. /\ optional \ inherited \subseteq optional' /\ optional' \subseteq optional /\ default' \subseteq default
  BY <1>1, <1>3 DEF SdxCallInv, SdxReads
<1>5. SdxCallInv(call)'
  <2>1. CASE call = SdxIdle
    BY <2>1, IdleOwesNothing DEF SdxCallInv, SdxReads, SdxProgress
  <2>2. CASE call # SdxIdle
    BY <1>1, <1>2, <1>3, <1>4, <2>2 DEF SdxCallInv, SdxReads, SdxProgress
  <2> QED BY <2>1, <2>2
<1> QED BY <1>2, <1>3, <1>4, <1>5, SdxMoves DEF SdxInv, SdxTypeOK

(* The second half of a pass adds the service's scope to what the client has. *)
LEMMA AddScopeStep ==
  ASSUME NEW c \in SdxCaller, SdxInv, AddScope(c)
  PROVE  SdxInv'
<1> DEFINE q == sdxCall[c]
<1>1. q \in SdxCalls /\ SdxCallInv(q) /\ q.at = "change"
  BY DEF SdxInv, SdxTypeOK, SdxCalls, AddScope
<1>2. PICK call \in SdxCalls :
        /\ sdxCall' = [sdxCall EXCEPT ![c] = call]
        /\ \/ call = SdxIdle
           \/ /\ call.op = q.op /\ call.at = (IF q.todo = {} THEN "done" ELSE "scopes")
              /\ call.all = q.all /\ call.todo = q.todo /\ call.kept = q.kept
              /\ call.seen = {} /\ call.add = {} /\ ~call.same
              /\ optional' = optional \cup q.add
  <2>1. CASE SdxGoes(c, SdxIdle)
    BY <2>1, IdleOwesNothing DEF SdxGoes
  <2> DEFINE r == [q EXCEPT !.seen = {}, !.add = {}, !.same = FALSE, !.at = IF q.todo = {} THEN "done" ELSE "scopes"]
  <2>2. CASE SdxGoes(c, r) /\ optional' = optional \cup q.add
    <3>1. /\ r \in SdxCalls /\ r.op = q.op /\ r.all = q.all /\ r.todo = q.todo /\ r.kept = q.kept
          /\ r.seen = {} /\ r.add = {} /\ ~r.same /\ r.at = IF q.todo = {} THEN "done" ELSE "scopes"
      BY <1>1 DEF SdxCalls
    <3> HIDE DEF r
    <3> QED BY <2>2, <3>1 DEF SdxGoes
  <2> QED BY <2>1, <2>2 DEF AddScope
<1>3. /\ UNCHANGED <<defined, exchanger, hasExchanger, hasClient, default, inherited, requested, sdxCalls>>
      /\ sdxFaults' \in 0..MaxSdxFaults
      /\ \/ optional' = optional
         \/ optional' = optional \cup q.add /\ (q.add = {} \/ (q.same /\ q.add \subseteq q.seen))
  BY SdxAssumption DEF AddScope, SdxFault, SdxInv, SdxTypeOK, realmScopes
<1>4. optional \subseteq optional' /\ optional' \subseteq defined /\ (~hasClient => optional' = {})
  BY <1>1, <1>3 DEF SdxCallInv, SdxReads, SdxInv, SdxTypeOK
<1>5. SdxCallInv(call)'
  <2>1. CASE call = SdxIdle
    BY <2>1, IdleOwesNothing DEF SdxCallInv, SdxReads, SdxProgress
  <2>2. CASE call # SdxIdle
    BY <1>1, <1>2, <1>3, <1>4, <2>2 DEF SdxCallInv, SdxReads, SdxProgress
  <2> QED BY <2>1, <2>2
<1> QED BY <1>2, <1>3, <1>4, <1>5, SdxMoves DEF SdxInv, SdxTypeOK

(* With the client go its scopes; no callback is held to what it gave before, *)
(* and no call that read it can change the next one.                          *)
LEMMA ToggleClientStep ==
  ASSUME SdxInv, ToggleClient
  PROVE  SdxInv'
<1>1. /\ UNCHANGED <<defined, exchanger, hasExchanger, requested, sdxFaults>>
      /\ optional' = {} /\ default' = {} /\ inherited' = {}
      /\ hasClient' \in BOOLEAN /\ sdxCalls' \in 0..MaxSdxCalls
  <2>1. sdxCalls' \in 0..MaxSdxCalls
    <3>1. sdxCalls \in 0..MaxSdxCalls /\ MaxSdxCalls \in Nat
      BY SdxAssumption DEF SdxInv, SdxTypeOK
    <3>2. sdxCalls' = sdxCalls \/ (sdxCalls < MaxSdxCalls /\ sdxCalls' = sdxCalls + 1)
      BY Zenon DEF ToggleClient
    <3> QED BY <3>1, <3>2
  <2>2. hasClient' \in BOOLEAN
    BY DEF ToggleClient
  <2> QED BY <2>1, <2>2 DEF ToggleClient, realmScopes
<1>2. ASSUME NEW c \in SdxCaller
      PROVE  LET q == sdxCall[c] IN
             /\ sdxCall'[c] \in SdxCalls /\ sdxCall'[c].at = q.at /\ sdxCall'[c].op = q.op
             /\ sdxCall'[c].all = q.all /\ sdxCall'[c].todo = q.todo /\ sdxCall'[c].seen = q.seen
             /\ sdxCall'[c].add = q.add /\ ~sdxCall'[c].same /\ (q.op = "callback" => ~sdxCall'[c].kept)
  BY DEF ToggleClient, SdxInv, SdxTypeOK, SdxCalls
<1>3. sdxCall' \in [SdxCaller -> SdxCalls]
  BY <1>2 DEF ToggleClient
<1>4. SdxTypeOK'
  BY <1>1, <1>3 DEF SdxInv, SdxTypeOK, SdxCalls
<1>5. ASSUME NEW c \in SdxCaller PROVE SdxCallInv(sdxCall[c])'
  BY <1>1, <1>2 DEF SdxInv, SdxCallInv, SdxReads, SdxProgress
<1> QED BY <1>4, <1>5 DEF SdxInv

(* Every step of a request, of a callback and of the engine keeps the invariant. *)
LEMMA SdxNextInv == SdxInv /\ [SdxNext]_sdxVars => SdxInv'
<1> SUFFICES ASSUME SdxInv, [SdxNext]_sdxVars PROVE SdxInv'
  OBVIOUS
<1>1. CASE ToggleClient
  BY <1>1, ToggleClientStep
<1>2. ASSUME NEW c \in SdxCaller, NEW services \in SUBSET SdxService, AskServices(c, services) \/ Approve(c, services)
      PROVE  SdxInv'
  BY <1>2, SdxBeginsStep
<1>3. ASSUME NEW c \in SdxCaller, PostRequest(c) PROVE SdxInv'
  BY <1>3, PostRequestStep
<1>4. ASSUME NEW c \in SdxCaller, AddScope(c) PROVE SdxInv'
  BY <1>4, AddScopeStep
<1>5. ASSUME NEW c \in SdxCaller, NEW s \in SdxService, InitializeScope(c, s) PROVE SdxInv'
  BY <1>5, InitializeScopeStep
<1>6. ASSUME NEW c \in SdxCaller, NEW s \in SdxService, ReadScopes(c, s) PROVE SdxInv'
  BY <1>6, ReadScopesStep
<1>7. ASSUME NEW c \in SdxCaller, NEW s \in SdxService, DropScope(c, s) PROVE SdxInv'
  BY <1>7, DropScopeStep
<1>8. ASSUME NEW c \in SdxCaller, NEW approved \in SUBSET requested, ReadApproved(c, approved) PROVE SdxInv'
  BY <1>8, ReadApprovedStep
<1>9. CASE UNCHANGED sdxVars
  BY <1>9 DEF sdxVars, SdxInv, SdxTypeOK, SdxCallInv, SdxReads, SdxProgress
<1> QED BY <1>1, <1>2, <1>3, <1>4, <1>5, <1>6, <1>7, <1>8, <1>9 DEF SdxNext

(* What a request or a callback has dealt with stays dealt with. *)
THEOREM SdxInvariant == SdxSpec => []SdxInv
<1> QED BY SdxInitInv, SdxNextInv, PTL DEF SdxSpec

(* controllers/sdx-services.ts: for any number of services and of requests    *)
(* and callbacks that overlap, and whatever calls fail, a callback that was   *)
(* answered leaves the client with every scope it approved that it did not    *)
(* have among its default ones, unless the client was deleted; an answered    *)
(* request leaves its scopes defined, and with the exchanger if there is one. *)
THEOREM ApprovedStaysAssigned == SdxSpec => []ApprovedIsAssigned
<1>1. SdxInv => ApprovedIsAssigned
  BY DEF SdxInv, SdxCallInv, SdxProgress, ApprovedIsAssigned
<1> QED BY <1>1, SdxInvariant, PTL

-----------------------------------------------------------------------------
(* The replication of roles *)

ReplSpec == ReplInit /\ [][ReplNext]_replVars

Runs ==
  [at : {"idle", "plan", "lookup", "resolve", "grant", "done", "threw"},
   status : [Pair -> {"unread", "absent", "pending", "already", "notFound", "replicated", "error"}],
   target : [Guid -> {"unknown", "create", "link", "found", "none", "failed"}],
   known : SUBSET Guid, missed : SUBSET Guid, unread : SUBSET Guid, alone : BOOLEAN]

\* What a run may report errors for.
Excused(k) == replFaults > 0 \/ ~run[k].alone

\* Whom a run may report as not found.
Unheard(k, g) == g \notin accounts \/ g \in run[k].missed

\* What a run has come to know of each pair, by the stage it is at.
StatusAgrees(k) ==
  \A p \in Pair : LET status == run[k].status[p] IN
    /\ run[k].at = "plan" => status \in {"unread", "absent", "already", "pending"}
    /\ run[k].at = "lookup" => status \in {"absent", "already", "pending"}
    /\ run[k].at = "lookup" /\ status = "absent" => p[1] \in run[k].unread \cup run[k].known \/ Unheard(k, p[1])
    /\ run[k].at = "resolve" => status \in {"pending", "already", "notFound"}
    /\ run[k].at = "grant" /\ status = "pending" => run[k].target[p[1]] \in {"found", "failed"}
    /\ status \in {"already", "replicated"} => p \in granted
    /\ status = "notFound" => Unheard(k, p[1])
    /\ status = "error" => Excused(k)

\* What became of each counterpart a run looked for: it is about to create one
\* only where there is none, unless another run may have come first.
TargetAgrees(k) ==
  \A g \in Guid : LET target == run[k].target[g] IN
    /\ target \in {"create", "link"} => run[k].at = "resolve" /\ g \in GuidsIn(k, "pending")
    /\ target = "create" => counterpart[g] = "none" \/ Excused(k)
    /\ target = "failed" => Excused(k)
    /\ target = "none" => Unheard(k, g)

\* Two runs that are under way at once know that they are not alone.
OverlapsAreKnown == \A j, k \in Run : j # k /\ Under(j) /\ Under(k) => ~run[k].alone

ReplInv ==
  /\ ReplTypeOK /\ run \in [Run -> Runs]
  /\ OverlapsAreKnown
  /\ \A k \in Run : StatusAgrees(k) /\ TargetAgrees(k)

(* What one run does leaves what the others know: nothing granted is taken    *)
(* back, and a counterpart only appears while the run that made it is under   *)
(* way, which every other run under way allows for.                           *)
LEMMA RunMoves ==
  ASSUME NEW k \in Run, ReplInv, ReplTypeOK',
         run' \in [Run -> Runs], \A j \in Run \ {k} : run'[j] = run[j],
         accounts' = accounts, granted \subseteq granted', replFaults <= replFaults',
         \A g \in Guid : counterpart[g] = "none" => counterpart'[g] = "none" \/ Under(k),
         Under(k)' => Under(k), run'[k].alone = run[k].alone,
         StatusAgrees(k)', TargetAgrees(k)'
  PROVE  ReplInv'
<1>1. OverlapsAreKnown'
  BY DEF ReplInv, OverlapsAreKnown, Under
<1>2. ASSUME NEW j \in Run, j # k PROVE StatusAgrees(j)' /\ TargetAgrees(j)'
  <2>1. run'[j] = run[j] /\ StatusAgrees(j) /\ TargetAgrees(j)
    BY <1>2 DEF ReplInv
  <2>2. replFaults \in Nat /\ replFaults' \in Nat
    BY ReplicationAssumption DEF ReplInv, ReplTypeOK
  <2>3. Excused(j) => Excused(j)'
    BY <2>1, <2>2 DEF Excused
  <2>4. StatusAgrees(j)'
    BY <2>1, <2>3 DEF StatusAgrees, Unheard
  <2>5. ASSUME NEW g \in Guid, run[j].target[g] = "create", counterpart[g] = "none", counterpart'[g] # "none"
        PROVE  Excused(j)'
    <3>1. Under(k) /\ Under(j)
      BY <2>1, <2>5 DEF TargetAgrees, Under
    <3>2. ~run[j].alone
      BY <1>2, <3>1 DEF ReplInv, OverlapsAreKnown
    <3> QED BY <2>1, <3>2 DEF Excused
  <2>6. TargetAgrees(j)'
    <3>1. GuidsIn(j, "pending")' = GuidsIn(j, "pending")
      BY <2>1 DEF GuidsIn, PairsIn
    <3> QED BY <2>1, <2>3, <2>5, <3>1 DEF TargetAgrees, Unheard
  <2> QED BY <2>4, <2>6
<1> QED BY <1>1, <1>2 DEF ReplInv

(* The invariant holds at the start: no run has begun. *)
LEMMA ReplInitInv == ReplInit => ReplInv
<1> SUFFICES ASSUME ReplInit PROVE ReplInv
  OBVIOUS
<1>1. /\ NotRun \in Runs /\ NotRun.at = "idle" /\ \A p \in Pair : NotRun.status[p] = "unread"
      /\ \A g \in Guid : NotRun.target[g] = "unknown"
  BY DEF NotRun, Runs
<1>2. run \in [Run -> Runs] /\ \A k \in Run : run[k] = NotRun
  BY <1>1 DEF ReplInit
<1>3. ReplTypeOK
  BY <1>2, ReplicationAssumption DEF ReplInit, ReplTypeOK, Runs
<1>4. OverlapsAreKnown
  BY <1>1, <1>2 DEF OverlapsAreKnown, Under
<1>5. \A k \in Run : StatusAgrees(k) /\ TargetAgrees(k)
  BY <1>1, <1>2 DEF StatusAgrees, TargetAgrees
<1> QED BY <1>2, <1>3, <1>4, <1>5 DEF ReplInv

(* A run that starts while another is under way tells both of it. *)
LEMMA StartRunStep ==
  ASSUME NEW k \in Run, ReplInv, StartRun(k)
  PROVE  ReplInv'
<1> DEFINE overlaps == \E j \in Run \ {k} : Under(j)
<1>1. UNCHANGED <<accounts, counterpart, granted, replFaults>> /\ run[k] = NotRun
  BY DEF StartRun
<1>2. /\ run'[k] = [NotRun EXCEPT !.at = "plan", !.alone = ~overlaps]
      /\ \A j \in Run \ {k} : run'[j] = [run[j] EXCEPT !.alone = @ /\ ~Under(j)]
  BY DEF StartRun
<1>3. /\ run'[k] \in Runs /\ run'[k].at = "plan" /\ (run'[k].alone <=> ~overlaps)
      /\ \A p \in Pair : run'[k].status[p] = "unread"
      /\ \A g \in Guid : run'[k].target[g] = "unknown"
  <2>1. /\ NotRun \in Runs /\ \A p \in Pair : NotRun.status[p] = "unread"
        /\ \A g \in Guid : NotRun.target[g] = "unknown"
    BY DEF NotRun, Runs
  <2>2. overlaps \in BOOLEAN
    OBVIOUS
  <2> HIDE DEF overlaps
  <2> QED BY <1>2, <2>1, <2>2 DEF Runs
<1>4. ASSUME NEW j \in Run, j # k
      PROVE  /\ run'[j] \in Runs /\ run'[j].at = run[j].at /\ run'[j].status = run[j].status
             /\ run'[j].target = run[j].target /\ run'[j].known = run[j].known
             /\ run'[j].missed = run[j].missed /\ run'[j].unread = run[j].unread
             /\ run'[j].alone <=> (run[j].alone /\ ~Under(j))
  <2> DEFINE still == run[j].alone /\ ~Under(j)
  <2>1. run[j] \in Runs /\ still \in BOOLEAN
    BY DEF ReplInv
  <2>2. run'[j] = [run[j] EXCEPT !.alone = still]
    BY <1>2, <1>4
  <2> HIDE DEF still
  <2>3. /\ run'[j] \in Runs /\ run'[j].at = run[j].at /\ run'[j].status = run[j].status
        /\ run'[j].target = run[j].target /\ run'[j].known = run[j].known
             /\ run'[j].missed = run[j].missed /\ run'[j].unread = run[j].unread
        /\ run'[j].alone = still
    BY ONLY <2>1, <2>2 DEF Runs
  <2> QED BY <2>3 DEF still
<1>5. run' \in [Run -> Runs]
  BY <1>3, <1>4 DEF StartRun
<1>6. ReplTypeOK'
  BY <1>1, <1>5 DEF ReplInv, ReplTypeOK, Runs
<1>7. OverlapsAreKnown'
  BY <1>3, <1>4 DEF ReplInv, OverlapsAreKnown, Under
<1>8. ASSUME NEW j \in Run, j # k PROVE StatusAgrees(j)' /\ TargetAgrees(j)'
  <2>1. StatusAgrees(j) /\ TargetAgrees(j) /\ (Excused(j) => Excused(j)')
    BY <1>1, <1>4, <1>8 DEF ReplInv, Excused
  <2>2. GuidsIn(j, "pending")' = GuidsIn(j, "pending")
    BY <1>4, <1>8 DEF GuidsIn, PairsIn
  <2> QED BY <1>1, <1>4, <1>8, <2>1, <2>2 DEF StatusAgrees, TargetAgrees, Unheard
<1>9. StatusAgrees(k)' /\ TargetAgrees(k)'
  BY <1>1, <1>3 DEF StatusAgrees, TargetAgrees
<1> QED BY <1>5, <1>6, <1>7, <1>8, <1>9 DEF ReplInv

(* The dry run of a pair reads what is granted and who has a counterpart. *)
LEMMA PlanPairStep ==
  ASSUME NEW k \in Run, NEW p \in Pair, ReplInv, PlanPair(k, p)
  PROVE  ReplInv'
<1>1. PICK s \in {"absent", "already", "pending"} :
        /\ run' = [run EXCEPT ![k].status[p] = s]
        /\ s = "already" => p \in granted
        /\ replFaults' = replFaults \/ ReplFault
  BY DEF PlanPair
<1>2. run[k] \in Runs /\ run[k].at = "plan" /\ StatusAgrees(k) /\ TargetAgrees(k)
  BY DEF PlanPair, ReplInv
<1>3. UNCHANGED <<accounts, counterpart, granted>> /\ replFaults' \in 0..MaxReplFaults /\ replFaults <= replFaults'
  BY <1>1, ReplicationAssumption DEF PlanPair, ReplFault, ReplInv, ReplTypeOK
<1>4. /\ run' \in [Run -> Runs] /\ \A j \in Run \ {k} : run'[j] = run[j]
      /\ run'[k].at = "plan" /\ run'[k].alone = run[k].alone
      /\ run'[k].target = run[k].target /\ run'[k].status = [run[k].status EXCEPT ![p] = s]
      /\ run'[k].missed = run[k].missed
  BY <1>1, <1>2 DEF ReplInv, Runs
<1>5. ReplTypeOK'
  BY <1>3, <1>4 DEF ReplInv, ReplTypeOK, Runs
<1>6. StatusAgrees(k)'
  <2> SUFFICES ASSUME NEW o \in Pair PROVE
        /\ run'[k].status[o] \in {"absent", "already", "pending", "unread"}
        /\ run'[k].status[o] = "already" => o \in granted
    BY <1>3, <1>4 DEF StatusAgrees
  <2>1. run'[k].status[o] = IF o = p THEN s ELSE run[k].status[o]
    BY <1>2, <1>4 DEF Runs
  <2> QED BY <1>1, <1>2, <2>1 DEF StatusAgrees
<1>7. TargetAgrees(k)'
  BY <1>2, <1>3, <1>4 DEF TargetAgrees, Excused, Unheard, ReplInv, ReplTypeOK
<1> QED BY <1>2, <1>3, <1>4, <1>5, <1>6, <1>7, RunMoves DEF Under

(* A run that is abandoned knows what it knew. *)
LEMMA AbandonPlanStep ==
  ASSUME NEW k \in Run, ReplInv, AbandonPlan(k)
  PROVE  ReplInv'
<1>1. run[k] \in Runs /\ run[k].at = "plan" /\ StatusAgrees(k) /\ TargetAgrees(k)
  BY DEF AbandonPlan, ReplInv
<1>2. /\ UNCHANGED <<accounts, counterpart, granted>> /\ replFaults' \in 0..MaxReplFaults /\ replFaults <= replFaults'
      /\ replFaults' > 0
  BY ReplicationAssumption DEF AbandonPlan, ReplFault, ReplInv, ReplTypeOK
<1>3. /\ run' \in [Run -> Runs] /\ \A j \in Run \ {k} : run'[j] = run[j]
      /\ run'[k].at = "threw" /\ run'[k].alone = run[k].alone /\ run'[k].missed = run[k].missed
      /\ run'[k].target = run[k].target /\ run'[k].status = run[k].status
  BY <1>1 DEF AbandonPlan, ReplInv, Runs
<1>4. ReplTypeOK'
  BY <1>2, <1>3 DEF ReplInv, ReplTypeOK, Runs
<1>5. StatusAgrees(k)' /\ TargetAgrees(k)'
  BY <1>1, <1>2, <1>3 DEF StatusAgrees, TargetAgrees, Excused, Unheard
<1> QED BY <1>1, <1>2, <1>3, <1>4, <1>5, RunMoves DEF Under

(* Between two stages a run only decides what it will look up next. *)
LEMMA StartLookupStep ==
  ASSUME NEW k \in Run, ReplInv, StartLookup(k)
  PROVE  ReplInv'
<1>1. run[k] \in Runs /\ run[k].at = "plan" /\ StatusAgrees(k) /\ TargetAgrees(k)
  BY DEF StartLookup, ReplInv
<1>2. UNCHANGED <<accounts, counterpart, granted, replFaults>>
  BY DEF StartLookup
<1>3. GuidsIn(k, "absent") \subseteq Guid /\ \A p \in Pair : run[k].status[p] = "absent" => p[1] \in GuidsIn(k, "absent")
  BY DEF GuidsIn, PairsIn, Pair
<1>4. /\ run' \in [Run -> Runs] /\ \A j \in Run \ {k} : run'[j] = run[j]
      /\ run'[k].at = "lookup" /\ run'[k].alone = run[k].alone /\ run'[k].unread = GuidsIn(k, "absent")
      /\ run'[k].missed = run[k].missed
      /\ run'[k].target = run[k].target /\ run'[k].status = run[k].status
  <2> HIDE DEF GuidsIn
  <2> QED BY <1>1, <1>3 DEF StartLookup, ReplInv, Runs
<1>5. ReplTypeOK'
  BY <1>2, <1>4 DEF ReplInv, ReplTypeOK, Runs
<1>6. StatusAgrees(k)'
  <2>1. \A p \in Pair : run[k].status[p] # "unread"
    BY DEF StartLookup, PairsIn
  <2> QED BY <1>1, <1>2, <1>3, <1>4, <2>1 DEF StatusAgrees, Excused, Unheard
<1>7. TargetAgrees(k)'
  BY <1>1, <1>2, <1>4 DEF TargetAgrees, Excused, Unheard
<1>8. replFaults <= replFaults'
  BY <1>2, ReplicationAssumption DEF ReplInv, ReplTypeOK
<1> QED BY <1>1, <1>2, <1>4, <1>5, <1>6, <1>7, <1>8, RunMoves DEF Under

(* Whoever MS Graph has been asked about is known, has no account, or was not *)
(* heard of.                                                                  *)
LEMMA LookupStep ==
  ASSUME NEW k \in Run, NEW g \in Guid, ReplInv, Lookup(k, g)
  PROVE  ReplInv'
<1>1. run[k] \in Runs /\ run[k].at = "lookup" /\ StatusAgrees(k) /\ TargetAgrees(k)
  BY DEF Lookup, ReplInv
<1>2. UNCHANGED <<accounts, counterpart, granted>> /\ replFaults' \in 0..MaxReplFaults /\ replFaults <= replFaults'
  BY ReplicationAssumption DEF Lookup, ReplFault, ReplInv, ReplTypeOK
<1>3. PICK known \in SUBSET Guid, missed \in SUBSET Guid :
        /\ run' = [run EXCEPT ![k] = [run[k] EXCEPT !.unread = @ \ {g}, !.known = known, !.missed = missed]]
        /\ run[k].known \subseteq known /\ run[k].missed \subseteq missed
        /\ g \in accounts => g \in known \cup missed
  <2>1. CASE run' = [run EXCEPT ![k].unread = @ \ {g}, ![k].known = @ \cup ({g} \cap accounts)]
    <3> DEFINE found == run[k].known \cup ({g} \cap accounts)
    <3>1. found \in SUBSET Guid /\ run[k].missed \in SUBSET Guid /\ run[k].known \subseteq found /\ (g \in accounts => g \in found)
      BY <1>1 DEF Runs
    <3>2. run' = [run EXCEPT ![k] = [run[k] EXCEPT !.unread = @ \ {g}, !.known = found, !.missed = run[k].missed]]
      BY <2>1, <1>1 DEF ReplInv, Runs
    <3> QED BY <3>1, <3>2
  <2>2. CASE run' = [run EXCEPT ![k].unread = @ \ {g}, ![k].missed = @ \cup {g}]
    <3> DEFINE lost == run[k].missed \cup {g}
    <3>1. lost \in SUBSET Guid /\ run[k].known \in SUBSET Guid /\ run[k].missed \subseteq lost /\ g \in lost
      BY <1>1 DEF Runs
    <3>2. run' = [run EXCEPT ![k] = [run[k] EXCEPT !.unread = @ \ {g}, !.known = run[k].known, !.missed = lost]]
      BY <2>2, <1>1 DEF ReplInv, Runs
    <3> QED BY <3>1, <3>2
  <2> QED BY <2>1, <2>2 DEF Lookup
<1>4. /\ run' \in [Run -> Runs] /\ \A j \in Run \ {k} : run'[j] = run[j]
      /\ run'[k].at = run[k].at /\ run'[k].alone = run[k].alone
      /\ run'[k].target = run[k].target /\ run'[k].status = run[k].status
      /\ run'[k].unread = run[k].unread \ {g} /\ run'[k].known = known /\ run'[k].missed = missed
  BY <1>1, <1>3 DEF ReplInv, Runs
<1>5. ReplTypeOK'
  BY <1>2, <1>4 DEF ReplInv, ReplTypeOK, Runs
<1>6. Excused(k) => Excused(k)'
  BY <1>2, <1>4, ReplicationAssumption DEF Excused, ReplInv, ReplTypeOK
<1>7. StatusAgrees(k)'
  BY <1>1, <1>2, <1>3, <1>4, <1>6 DEF StatusAgrees, Unheard
<1>8. TargetAgrees(k)'
  BY <1>1, <1>2, <1>3, <1>4, <1>6 DEF TargetAgrees, Unheard
<1> QED BY <1>1, <1>2, <1>4, <1>5, <1>7, <1>8, RunMoves DEF Under

(* The lookups are over: who is not known has no account or was not heard of. *)
LEMMA StartResolvingStep ==
  ASSUME NEW k \in Run, ReplInv, StartResolving(k)
  PROVE  ReplInv'
<1>1. run[k] \in Runs /\ run[k].at = "lookup" /\ run[k].unread = {} /\ StatusAgrees(k) /\ TargetAgrees(k)
  BY DEF StartResolving, ReplInv
<1>2. UNCHANGED <<accounts, counterpart, granted, replFaults>>
  BY DEF StartResolving
<1>3. /\ run' \in [Run -> Runs] /\ \A j \in Run \ {k} : run'[j] = run[j]
      /\ run'[k].at = "resolve" /\ run'[k].alone = run[k].alone /\ run'[k].target = run[k].target
      /\ run'[k].missed = run[k].missed
      /\ run'[k].status = [p \in Pair |-> IF run[k].status[p] # "absent" THEN run[k].status[p]
                                          ELSE IF p[1] \in run[k].known THEN "pending" ELSE "notFound"]
  BY <1>1 DEF StartResolving, ReplInv, Runs
<1>4. ReplTypeOK'
  BY <1>2, <1>3 DEF ReplInv, ReplTypeOK, Runs
<1>5. StatusAgrees(k)'
  <2> SUFFICES ASSUME NEW p \in Pair PROVE
        /\ run'[k].status[p] \in {"pending", "already", "notFound"}
        /\ run'[k].status[p] = "already" => p \in granted
        /\ run'[k].status[p] = "notFound" => Unheard(k, p[1])
    BY <1>2, <1>3 DEF StatusAgrees, Unheard
  <2> QED BY <1>1, <1>3 DEF StatusAgrees
<1>6. TargetAgrees(k)'
  BY <1>1, <1>2, <1>3 DEF TargetAgrees, Excused, Unheard
<1>7. replFaults <= replFaults'
  BY <1>2, ReplicationAssumption DEF ReplInv, ReplTypeOK
<1> QED BY <1>1, <1>2, <1>3, <1>4, <1>5, <1>6, <1>7, RunMoves DEF Under

(* What the three steps on one counterpart have in common: one target moves,  *)
(* and what it says of the counterpart is so.                                 *)
LEMMA TargetMoves ==
  ASSUME NEW k \in Run, NEW g \in Guid, ReplInv,
         NEW to \in {"create", "link", "found", "none", "failed"},
         run[k].at = "resolve", g \in GuidsIn(k, "pending"),
         SetTarget(k, g, to) \/ (to = "none" /\ Overlook(k, g)), UNCHANGED <<accounts, granted>>,
         counterpart' \in [Guid -> {"none", "unlinked", "linked"}],
         \A h \in Guid \ {g} : counterpart'[h] = counterpart[h],
         replFaults' = replFaults \/ ReplFault,
         to = "create" => counterpart'[g] = "none",
         to = "failed" => Excused(k) \/ ReplFault,
         to = "none" => g \notin accounts \/ Overlook(k, g)
  PROVE  ReplInv'
<1>1. run[k] \in Runs /\ StatusAgrees(k) /\ TargetAgrees(k)
  BY DEF ReplInv
<1>2. replFaults' \in 0..MaxReplFaults /\ replFaults <= replFaults' /\ (ReplFault => replFaults' > 0)
  BY ReplicationAssumption DEF ReplFault, ReplInv, ReplTypeOK
<1>3. /\ run' \in [Run -> Runs] /\ \A j \in Run \ {k} : run'[j] = run[j]
      /\ run'[k].at = "resolve" /\ run'[k].alone = run[k].alone /\ run'[k].status = run[k].status
      /\ run'[k].target = [run[k].target EXCEPT ![g] = to]
      /\ run[k].missed \subseteq run'[k].missed /\ (Overlook(k, g) => g \in run'[k].missed)
  <2>1. PICK missed \in SUBSET Guid :
          /\ run' = [run EXCEPT ![k] = [run[k] EXCEPT !.target[g] = to, !.missed = missed]]
          /\ run[k].missed \subseteq missed /\ (Overlook(k, g) => g \in missed)
    <3>1. CASE to = "none" /\ Overlook(k, g)
      <4> DEFINE lost == run[k].missed \cup {g}
      <4>1. lost \in SUBSET Guid /\ run[k].missed \subseteq lost /\ g \in lost
        BY <1>1 DEF Runs
      <4>2. run' = [run EXCEPT ![k] = [run[k] EXCEPT !.target[g] = to, !.missed = lost]]
        BY <1>1, <3>1 DEF Overlook, ReplInv, Runs
      <4> QED BY <4>1, <4>2
    <3>2. CASE SetTarget(k, g, to) /\ ~Overlook(k, g)
      <4>1. run[k].missed \in SUBSET Guid
        BY <1>1 DEF Runs
      <4>2. run' = [run EXCEPT ![k] = [run[k] EXCEPT !.target[g] = to, !.missed = run[k].missed]]
        BY <1>1, <3>2 DEF SetTarget, ReplInv, Runs
      <4> QED BY <3>2, <4>1, <4>2
    <3>3. CASE SetTarget(k, g, to) /\ Overlook(k, g)
      <4>1. run'[k] = [run[k] EXCEPT !.target[g] = to] /\ run'[k] = [run[k] EXCEPT !.target[g] = "none", !.missed = @ \cup {g}]
        BY <1>1, <3>3 DEF SetTarget, Overlook, ReplInv, Runs
      <4>2. run[k].missed = run[k].missed \cup {g}
        BY <1>1, <4>1 DEF Runs
      <4>3. run[k].missed \in SUBSET Guid /\ g \in run[k].missed
        BY <1>1, <4>2 DEF Runs
      <4>4. run' = [run EXCEPT ![k] = [run[k] EXCEPT !.target[g] = to, !.missed = run[k].missed]]
        BY <1>1, <3>3 DEF SetTarget, ReplInv, Runs
      <4> QED BY <4>3, <4>4
    <3> QED BY <3>1, <3>2, <3>3
  <2> QED BY <1>1, <2>1 DEF ReplInv, Runs
<1>4. ReplTypeOK'
  BY <1>2, <1>3 DEF ReplInv, ReplTypeOK, Runs
<1>5. (Excused(k) \/ ReplFault) => Excused(k)'
  BY <1>2, <1>3, ReplicationAssumption DEF Excused, ReplInv, ReplTypeOK
<1>6. StatusAgrees(k)'
  BY <1>1, <1>3, <1>5 DEF StatusAgrees, Unheard
<1>7. TargetAgrees(k)'
  <2>1. GuidsIn(k, "pending")' = GuidsIn(k, "pending")
    BY <1>3 DEF GuidsIn, PairsIn
  <2>2. \A h \in Guid : run'[k].target[h] = IF h = g THEN to ELSE run[k].target[h]
    BY <1>1, <1>3 DEF Runs
  <2> QED BY <1>1, <1>3, <1>5, <2>1, <2>2 DEF TargetAgrees, Unheard
<1>8. Under(k)
  BY DEF Under
<1> QED BY <1>2, <1>3, <1>4, <1>6, <1>7, <1>8, RunMoves DEF Under

(* Finding a counterpart: one is created only if there is none, and nobody is *)
(* found only where there is no account or MS Graph did not answer.           *)
LEMMA FindCounterpartStep ==
  ASSUME NEW k \in Run, NEW g \in Guid, ReplInv, FindCounterpart(k, g)
  PROVE  ReplInv'
<1>1. /\ run[k].at = "resolve" /\ g \in GuidsIn(k, "pending") /\ UNCHANGED <<accounts, counterpart, granted>>
      /\ counterpart \in [Guid -> {"none", "unlinked", "linked"}]
  BY DEF FindCounterpart, ReplInv, ReplTypeOK
<1>2. CASE SetTarget(k, g, "failed") /\ ReplFault
  BY <1>1, <1>2, TargetMoves
<1>3. CASE SetTarget(k, g, "found") /\ UNCHANGED replFaults
  BY <1>1, <1>3, TargetMoves
<1>4. CASE /\ counterpart[g] = "none" /\ UNCHANGED replFaults
           /\ SetTarget(k, g, IF g \in run[k].known \cup accounts THEN "create" ELSE "none")
  <2>1. CASE g \in run[k].known \cup accounts
    BY <1>1, <1>4, <2>1, TargetMoves
  <2>2. CASE g \notin run[k].known \cup accounts
    BY <1>1, <1>4, <2>2, TargetMoves
  <2> QED BY <2>1, <2>2
<1>5. CASE Overlook(k, g) /\ ReplFault
  BY <1>1, <1>5, TargetMoves
<1> QED BY <1>2, <1>3, <1>4, <1>5 DEF FindCounterpart

(* Creating one: a duplicate can only be another run's doing. *)
LEMMA CreateCounterpartStep ==
  ASSUME NEW k \in Run, NEW g \in Guid, ReplInv, CreateCounterpart(k, g)
  PROVE  ReplInv'
<1>1. /\ UNCHANGED <<accounts, granted>> /\ counterpart \in [Guid -> {"none", "unlinked", "linked"}]
      /\ run[k].at = "resolve" /\ g \in GuidsIn(k, "pending") /\ (counterpart[g] = "none" \/ Excused(k))
  BY DEF CreateCounterpart, ReplInv, ReplTypeOK, TargetAgrees
<1>2. CASE counterpart[g] # "none" /\ UNCHANGED <<counterpart, replFaults>> /\ SetTarget(k, g, "found")
  BY <1>1, <1>2, TargetMoves
<1>3. CASE counterpart[g] # "none" /\ UNCHANGED <<counterpart, replFaults>> /\ SetTarget(k, g, "failed")
  BY <1>1, <1>3, TargetMoves
<1>4. CASE counterpart' = [counterpart EXCEPT ![g] = "unlinked"] /\ SetTarget(k, g, "link") /\ UNCHANGED replFaults
  BY <1>1, <1>4, TargetMoves
<1>5. CASE counterpart' = [counterpart EXCEPT ![g] = "unlinked"] /\ SetTarget(k, g, "failed") /\ ReplFault
  BY <1>1, <1>5, TargetMoves
<1>6. CASE SetTarget(k, g, "failed") /\ ReplFault /\ UNCHANGED counterpart
  BY <1>1, <1>6, TargetMoves
<1> QED BY <1>2, <1>3, <1>4, <1>5, <1>6 DEF CreateCounterpart

(* Linking one, answered or not. *)
LEMMA LinkCounterpartStep ==
  ASSUME NEW k \in Run, NEW g \in Guid, ReplInv, LinkCounterpart(k, g)
  PROVE  ReplInv'
<1>1. /\ UNCHANGED <<accounts, granted>> /\ counterpart \in [Guid -> {"none", "unlinked", "linked"}]
      /\ run[k].at = "resolve" /\ g \in GuidsIn(k, "pending")
  BY DEF LinkCounterpart, ReplInv, ReplTypeOK, TargetAgrees
<1>2. /\ counterpart' \in [Guid -> {"none", "unlinked", "linked"}]
      /\ \A h \in Guid \ {g} : counterpart'[h] = counterpart[h]
  BY <1>1 DEF LinkCounterpart
<1>3. CASE SetTarget(k, g, "found") /\ UNCHANGED replFaults
  BY <1>1, <1>2, <1>3, TargetMoves
<1>4. CASE SetTarget(k, g, "failed") /\ ReplFault
  BY <1>1, <1>2, <1>4, TargetMoves
<1> QED BY <1>3, <1>4 DEF LinkCounterpart

(* The counterparts are settled: a pending role has one, or its lookup failed. *)
LEMMA StartGrantingStep ==
  ASSUME NEW k \in Run, ReplInv, StartGranting(k)
  PROVE  ReplInv'
<1>1. run[k] \in Runs /\ run[k].at = "resolve" /\ StatusAgrees(k) /\ TargetAgrees(k)
  BY DEF StartGranting, ReplInv
<1>2. UNCHANGED <<accounts, counterpart, granted, replFaults>>
  BY DEF StartGranting
<1>3. /\ run' \in [Run -> Runs] /\ \A j \in Run \ {k} : run'[j] = run[j]
      /\ run'[k].at = "grant" /\ run'[k].alone = run[k].alone /\ run'[k].target = run[k].target
      /\ run'[k].missed = run[k].missed
      /\ run'[k].status = [p \in Pair |->
           IF run[k].status[p] = "pending" /\ Missing(k, p[1]) THEN "notFound" ELSE run[k].status[p]]
  BY <1>1 DEF StartGranting, ReplInv, Runs
<1>4. ReplTypeOK'
  BY <1>2, <1>3 DEF ReplInv, ReplTypeOK, Runs
<1>5. \A p \in Pair : run[k].status[p] = "pending" => run[k].target[p[1]] \in {"found", "none", "failed"}
  BY DEF StartGranting, GuidsIn, PairsIn
<1>6. StatusAgrees(k)'
  <2> SUFFICES ASSUME NEW p \in Pair PROVE
        /\ run'[k].status[p] \in {"pending", "already", "notFound"}
        /\ run'[k].status[p] = "pending" => run'[k].target[p[1]] \in {"found", "failed"}
        /\ run'[k].status[p] = "already" => p \in granted
        /\ run'[k].status[p] = "notFound" => Unheard(k, p[1])
    BY <1>2, <1>3 DEF StatusAgrees, Unheard
  <2>1. p[1] \in Guid
    BY DEF Pair
  <2> QED BY <1>1, <1>3, <1>5, <2>1 DEF StatusAgrees, TargetAgrees, Missing, Unheard
<1>7. TargetAgrees(k)'
  <2>1. \A g \in Guid : run[k].target[g] \notin {"create", "link"}
    BY <1>1 DEF TargetAgrees, StartGranting
  <2> QED BY <1>1, <1>2, <1>3, <2>1 DEF TargetAgrees, Excused, Unheard
<1>8. replFaults <= replFaults'
  BY <1>2, ReplicationAssumption DEF ReplInv, ReplTypeOK
<1> QED BY <1>1, <1>2, <1>3, <1>4, <1>6, <1>7, <1>8, RunMoves DEF Under

(* A role is reported as replicated only when it was granted, and as an error *)
(* only when a call failed.                                                   *)
LEMMA GrantStep ==
  ASSUME NEW k \in Run, NEW p \in Pair, ReplInv, Grant(k, p)
  PROVE  ReplInv'
<1>1. /\ run[k] \in Runs /\ run[k].at = "grant" /\ run[k].status[p] = "pending"
      /\ StatusAgrees(k) /\ TargetAgrees(k) /\ run[k].target[p[1]] \in {"found", "failed"}
  BY DEF Grant, ReplInv, PairsIn, StatusAgrees
<1>2. p[1] \in Guid
  BY DEF Pair
<1>3. PICK s \in {"replicated", "error"} :
        /\ run' = [run EXCEPT ![k].status[p] = s]
        /\ s = "replicated" => p \in granted'
        /\ s = "error" => ReplFault \/ Excused(k)
  BY <1>1, <1>2 DEF Grant, TargetAgrees
<1>4. UNCHANGED <<accounts, counterpart>> /\ granted \subseteq granted' /\ granted' \subseteq Pair
  BY DEF Grant, ReplInv, ReplTypeOK
<1>5. replFaults' \in 0..MaxReplFaults /\ replFaults <= replFaults' /\ (ReplFault => replFaults' > 0)
  BY ReplicationAssumption DEF Grant, ReplFault, ReplInv, ReplTypeOK
<1>6. /\ run' \in [Run -> Runs] /\ \A j \in Run \ {k} : run'[j] = run[j]
      /\ run'[k].at = "grant" /\ run'[k].alone = run[k].alone
      /\ run'[k].target = run[k].target /\ run'[k].status = [run[k].status EXCEPT ![p] = s]
      /\ run'[k].missed = run[k].missed
  BY <1>1, <1>3 DEF ReplInv, Runs
<1>7. ReplTypeOK'
  BY <1>4, <1>5, <1>6 DEF ReplInv, ReplTypeOK, Runs
<1>8. (Excused(k) \/ ReplFault) => Excused(k)'
  BY <1>5, <1>6, ReplicationAssumption DEF Excused, ReplInv, ReplTypeOK
<1>9. StatusAgrees(k)'
  <2>1. \A o \in Pair : run'[k].status[o] = IF o = p THEN s ELSE run[k].status[o]
    BY <1>1, <1>6 DEF Runs
  <2> QED BY <1>1, <1>3, <1>4, <1>6, <1>8, <2>1 DEF StatusAgrees, Unheard
<1>10. TargetAgrees(k)'
  BY <1>1, <1>4, <1>6, <1>8 DEF TargetAgrees, Unheard
<1> QED BY <1>1, <1>4, <1>5, <1>6, <1>7, <1>9, <1>10, RunMoves DEF Under

(* A run that ends reports what it knows. *)
LEMMA FinishRunStep ==
  ASSUME NEW k \in Run, ReplInv, FinishRun(k)
  PROVE  ReplInv'
<1>1. run[k] \in Runs /\ run[k].at = "grant" /\ StatusAgrees(k) /\ TargetAgrees(k)
  BY DEF FinishRun, ReplInv
<1>2. UNCHANGED <<accounts, counterpart, granted, replFaults>>
  BY DEF FinishRun
<1>3. /\ run' \in [Run -> Runs] /\ \A j \in Run \ {k} : run'[j] = run[j]
      /\ run'[k].at = "done" /\ run'[k].alone = run[k].alone /\ run'[k].target = run[k].target
      /\ run'[k].status = run[k].status /\ run'[k].missed = run[k].missed
  BY <1>1 DEF FinishRun, ReplInv, Runs
<1>4. ReplTypeOK'
  BY <1>2, <1>3 DEF ReplInv, ReplTypeOK, Runs
<1>5. StatusAgrees(k)' /\ TargetAgrees(k)'
  BY <1>1, <1>2, <1>3 DEF StatusAgrees, TargetAgrees, Excused, Unheard
<1>6. replFaults <= replFaults'
  BY <1>2, ReplicationAssumption DEF ReplInv, ReplTypeOK
<1> QED BY <1>1, <1>2, <1>3, <1>4, <1>5, <1>6, RunMoves DEF Under

(* Every step of every run keeps the invariant. *)
LEMMA ReplNextInv == ReplInv /\ [ReplNext]_replVars => ReplInv'
<1> SUFFICES ASSUME ReplInv, [ReplNext]_replVars PROVE ReplInv'
  OBVIOUS
<1>1. ASSUME NEW k \in Run, StartRun(k) \/ AbandonPlan(k) \/ StartLookup(k) \/ StartResolving(k) \/ StartGranting(k) \/ FinishRun(k)
      PROVE  ReplInv'
  BY <1>1, StartRunStep, AbandonPlanStep, StartLookupStep, StartResolvingStep, StartGrantingStep, FinishRunStep
<1>2. ASSUME NEW k \in Run, NEW p \in Pair, PlanPair(k, p) \/ Grant(k, p) PROVE ReplInv'
  BY <1>2, PlanPairStep, GrantStep
<1>3. ASSUME NEW k \in Run, NEW g \in Guid,
             Lookup(k, g) \/ FindCounterpart(k, g) \/ CreateCounterpart(k, g) \/ LinkCounterpart(k, g)
      PROVE  ReplInv'
  BY <1>3, LookupStep, FindCounterpartStep, CreateCounterpartStep, LinkCounterpartStep
<1>4. CASE UNCHANGED replVars
  BY <1>4 DEF replVars, ReplInv, ReplTypeOK, OverlapsAreKnown, Under, StatusAgrees, TargetAgrees, Excused, Unheard, GuidsIn, PairsIn
<1> QED BY <1>1, <1>2, <1>3, <1>4 DEF ReplNext

(* What every run knows stays so for as long as any run is under way. *)
THEOREM ReplInvariant == ReplSpec => []ReplInv
<1> QED BY ReplInitInv, ReplNextInv, PTL DEF ReplSpec

(* keycloak/roleReplication.ts: for any number of users, roles and runs that  *)
(* overlap, a run reports a role as replicated only if it is granted, a user  *)
(* as not found only if he has no account or MS Graph failed to answer this   *)
(* run about him, and an error only if a call failed or another run was       *)
(* beside it.                                                                 *)
THEOREM EveryReportIsTrue == ReplSpec => []ReportIsTrue
<1>1. ReplInv => ReportIsTrue
  BY DEF ReplInv, StatusAgrees, Excused, Unheard, ReportIsTrue
<1> QED BY <1>1, ReplInvariant, PTL

-----------------------------------------------------------------------------
(* Roles *)

RolesSpec == RolesInit /\ [][RolesNext]_roleVars

Clean == Role \ blurred
InFlight == {c \in RoleCaller : rcall[c] # NoRequest}
Sits(n, op, at) == \E c \in InFlight : rcall[c].role = n /\ rcall[c].op = op /\ rcall[c].at = at

\* A change that was asked for is worth at most one row.
RoleCounts == IsFiniteSet(InFlight) /\ lastRow + Cardinality(InFlight) <= changes /\ IsFiniteSet(Rows)

\* An id is one row's, and what a row lists are rows.
RowIds ==
  /\ \A n \in Role : rowId[n] <= lastRow /\ rowLinks[n] \subseteq {rowId[m] : m \in Rows}
  /\ \A m, n \in Rows : rowId[m] = rowId[n] => m = n

\* Keycloak links what it has.
LinksExist == \A n \in Role : links[n] \subseteq kc /\ (n \notin kc => links[n] = {})

RequestShape ==
  \A c \in RoleCaller :
    /\ rcall[c] # NoRequest <=> rcall[c].at # "idle"
    /\ rcall[c].at # "idle" => rcall[c].role \in Role /\ rcall[c].op \in {"create", "delete", "compose"}
    /\ rcall[c].op # "compose" => rcall[c].set = {} /\ rcall[c].at # "link"

\* Requests that name the same role have blurred it.
OverlapsBlur == \A c, d \in InFlight : c # d => Names(c) \cap Names(d) \subseteq blurred

\* Where a request is with the role it changes.
RequestStands(c) ==
  LET n == rcall[c].role
  IN /\ rcall[c].op = "create" => /\ n \notin Rows
                                  /\ rcall[c].at = "call" => n \notin kc
                                  /\ rcall[c].at = "mirror" => n \in kc /\ links[n] = {} /\ \A m \in Role : n \notin links[m]
     /\ rcall[c].op = "delete" => n \in Rows /\ (n \in kc <=> rcall[c].at = "call")
     /\ rcall[c].op = "compose" => n \in kc
     /\ rcall[c].op = "compose" /\ rcall[c].at = "mirror" => links[n] \subseteq rcall[c].set

MirrorStands ==
  phase = "active" =>
    /\ \A c \in InFlight : rcall[c].role \in Clean => RequestStands(c)
    /\ \A n \in Clean : (\A c \in InFlight : rcall[c].role = n => rcall[c].op = "compose") => (n \in kc <=> n \in Rows)
    /\ \A n \in Clean : ~Sits(n, "compose", "mirror") => links[n] \cap Clean \subseteq LinkedRows(n)

\* The rows keep what the deleted client had.
RowsRemember ==
  phase # "active" =>
    /\ \A c \in RoleCaller : Names(c) \subseteq blurred
    /\ phase = "archived" => kc = {}
    /\ phase # "archived" => InFlight = {}
    /\ \A n \in was.roles \ blurred : n \in Rows /\ was.links[n] \ blurred \subseteq LinkedRows(n)

NothingRestored ==
  phase \in {"active", "archived"} => snapshot = NotStored /\ \A r \in Restorer : restorer[r] = NoRestore

\* Where an attempt is, when it had every row to re-create.
AttemptStands(a) ==
  /\ a.at \in {"snapshot", "create"} => Rows \subseteq a.todo \cup a.made \cup blurred /\ a.made \subseteq kc
  /\ a.at = "record" => Rows \subseteq a.made \cup blurred /\ a.made \subseteq kc /\ \A n \in a.made \ a.todo : recorded[n] = 1
  /\ a.at \in {"clear", "link"} =>
       /\ \A n \in Rows \ blurred : n \in kc /\ recorded[n] = 1
       /\ \A n \in Rows : n \notin a.todo /\ ~(a.at = "link" /\ n = a.on) => LinkedRows(n) \subseteq links[n]

OneAttempt ==
  ~late /\ phase \in {"restoring", "restored"} =>
    /\ snapshot.roles = {} /\ (~snapshot.stored => kc = {})
    /\ \A r \in Restorer : restorer[r] # NoRestore =>
         /\ restorer[r].awaited /\ restorer[r].snap = {} /\ phase = "restoring"
         /\ restorer[r].at = "snapshot" <=> ~snapshot.stored
         /\ \A q \in Restorer : restorer[q] # NoRestore => q = r
         /\ Cardinality(Rows) <= BulkLimit => AttemptStands(restorer[r])
    /\ phase = "restored" /\ Cardinality(Rows) <= BulkLimit =>
         /\ \A n \in Rows \ blurred : n \in kc /\ recorded[n] = 1
         /\ \A n \in Rows : LinkedRows(n) \subseteq links[n]

RestorerShape ==
  /\ \A r \in Restorer : /\ restorer[r] # NoRestore <=> restorer[r].at # "idle"
                         /\ restorer[r].at = "link" => restorer[r].on \in Role
  /\ \A n \in Role : recorded[n] <= 1

RolesInv ==
  /\ RolesTypeOK /\ RoleCounts /\ RowIds /\ LinksExist /\ RequestShape /\ OverlapsBlur
  /\ MirrorStands /\ RowsRemember /\ NothingRestored /\ RestorerShape /\ OneAttempt

RequestType == [op : {"none", "create", "delete", "compose"}, role : Role \cup {"none"},
                set : SUBSET Role, at : {"idle", "call", "link", "mirror"}]
AttemptType == [at : {"idle", "snapshot", "create", "record", "clear", "link"},
                todo : SUBSET Role, made : SUBSET Role, on : Role \cup {"none"},
                snap : SUBSET Role, awaited : BOOLEAN]

(* A request that asks for nothing, and an attempt that does not run. *)
LEMMA Nothing ==
  /\ NoRequest \in RequestType /\ NoRequest.at = "idle" /\ NoRequest.op = "none" /\ NoRequest.set = {}
  /\ NoRestore \in AttemptType /\ NoRestore.at = "idle" /\ ~NoRestore.awaited
  BY DEF NoRequest, NoRestore, RequestType, AttemptType

(* One request moves. *)
LEMMA RequestMoves ==
  ASSUME RolesTypeOK, NEW c \in RoleCaller, NEW v \in RequestType, rcall' = [rcall EXCEPT ![c] = v]
  PROVE  /\ rcall' \in [RoleCaller -> RequestType] /\ rcall'[c] = v
         /\ \A d \in RoleCaller : d # c => rcall'[d] = rcall[d]
  BY DEF RolesTypeOK, RequestType

(* One attempt moves. *)
LEMMA AttemptMoves ==
  ASSUME RolesTypeOK, NEW r \in Restorer, NEW v \in AttemptType, restorer' = [restorer EXCEPT ![r] = v]
  PROVE  /\ restorer' \in [Restorer -> AttemptType] /\ restorer'[r] = v
         /\ \A q \in Restorer : q # r => restorer'[q] = restorer[q]
  BY DEF RolesTypeOK, AttemptType

(* What a request in flight is. *)
LEMMA RequestIs ==
  ASSUME RolesInv, NEW c \in RoleCaller, rcall[c].at # "idle"
  PROVE  /\ c \in InFlight /\ rcall[c] \in RequestType /\ rcall[c].role \in Role /\ rcall[c].set \subseteq Role
         /\ rcall[c].op \in {"create", "delete", "compose"} /\ rcall[c].at \in {"call", "link", "mirror"}
         /\ rcall[c].op # "compose" => rcall[c].set = {} /\ rcall[c].at # "link"
         /\ Names(c) = {rcall[c].role} \cup rcall[c].set
<1>1. rcall[c] \in RequestType
  BY DEF RolesInv, RolesTypeOK, RequestType
<1>2. rcall[c] # NoRequest /\ rcall[c].role \in Role /\ rcall[c].op \in {"create", "delete", "compose"}
      /\ (rcall[c].op # "compose" => rcall[c].set = {} /\ rcall[c].at # "link")
  BY DEF RolesInv, RequestShape
<1> QED BY <1>1, <1>2 DEF RequestType, InFlight, Names

(* A role only one request names, unless it is blurred. *)
LEMMA OwnRole ==
  ASSUME RolesInv, NEW c \in InFlight, NEW d \in InFlight, c # d,
         NEW n \in Clean, n \in Names(d)
  PROVE  n \notin Names(c)
  BY DEF RolesInv, OverlapsBlur, Clean

(* What the deleted client had, and the attempts, while no request runs. *)
LEMMA RequestsRest ==
  ASSUME RolesInv, UNCHANGED <<phase, was, snapshot, restorer, recorded, late>>, phase \in {"active", "archived"}
  PROVE  /\ NothingRestored' /\ OneAttempt'
         /\ RestorerShape'
  BY DEF RolesInv, NothingRestored, OneAttempt, RestorerShape

(* What is asked for overlaps with what is in flight where it is blurred. *)
LEMMA AskRoleKeeps ==
  ASSUME RolesInv, NEW c \in RoleCaller, NEW op \in {"create", "delete", "compose"}, NEW n \in Role,
         NEW set \in SUBSET Role, AskRole(c, op, n, set)
  PROVE  RolesInv'
<1> DEFINE v == [op |-> op, role |-> n, set |-> set, at |-> "call"]
<1>1. /\ rcall[c] = NoRequest /\ phase = "active" /\ changes < MaxChanges /\ changes' = changes + 1
      /\ rcall' = [rcall EXCEPT ![c] = v]
      /\ blurred' = blurred \cup UNION {Names(d) \cap ({n} \cup set) : d \in RoleCaller}
      /\ UNCHANGED <<kc, links, rowId, rowLinks, lastRow, phase, was, snapshot, restorer, recorded, late, roleFaults>>
  BY DEF AskRole
<1>2. /\ op = "create" => n \notin kc /\ set = {}
      /\ op = "delete" => n \in kc /\ set = {}
      /\ op = "compose" => {n} \cup set \subseteq kc /\ n \notin set
  BY DEF AskRole
<1>3. v \in RequestType /\ v.op = op /\ v.role = n /\ v.set = set /\ v.at = "call" /\ v # NoRequest
  BY DEF RequestType, NoRequest
<1> HIDE DEF v
<1>4. /\ rcall' \in [RoleCaller -> RequestType] /\ rcall'[c] = v
      /\ \A d \in RoleCaller : d # c => rcall'[d] = rcall[d]
  BY <1>1, <1>3, RequestMoves DEF RolesInv
<1>5. /\ InFlight' = InFlight \cup {c} /\ c \notin InFlight
      /\ Names(c)' = {n} \cup set /\ \A d \in RoleCaller : d # c => Names(d)' = Names(d)
  BY <1>1, <1>3, <1>4 DEF InFlight, Names
<1>6. /\ blurred \subseteq blurred' /\ blurred' \subseteq Role
      /\ \A d \in RoleCaller : Names(d) \cap ({n} \cup set) \subseteq blurred'
  <2>1. blurred \subseteq Role
    BY DEF RolesInv, RolesTypeOK
  <2> QED BY <1>1, <2>1
<1>7. RolesTypeOK'
  <2>1. changes' \in 0..MaxChanges
    BY <1>1, RolesAssumption DEF RolesInv, RolesTypeOK
  <2> QED BY <1>1, <1>4, <1>6, <2>1 DEF RolesInv, RolesTypeOK, RequestType
<1>8. RoleCounts'
  <2>1. IsFiniteSet(InFlight') /\ Cardinality(InFlight') = Cardinality(InFlight) + 1
    BY <1>5, FS_AddElement DEF RolesInv, RoleCounts
  <2>2. Cardinality(InFlight) \in Nat /\ lastRow \in Nat /\ changes \in Nat /\ lastRow + Cardinality(InFlight) <= changes
    BY FS_CardinalityType, RolesAssumption DEF RolesInv, RoleCounts, RolesTypeOK
  <2>3. lastRow' + Cardinality(InFlight') <= changes'
    BY <1>1, <2>1, <2>2
  <2>4. IsFiniteSet(Rows')
    BY <1>1 DEF RolesInv, RoleCounts, Rows
  <2> QED BY <2>1, <2>3, <2>4 DEF RoleCounts
<1>9. RowIds' /\ LinksExist'
  BY <1>1 DEF RolesInv, RowIds, LinksExist, Rows
<1>10. RequestShape'
  <2>1. rcall'[c] # NoRequest /\ rcall'[c].at # "idle" /\ rcall'[c].role \in Role
        /\ rcall'[c].op \in {"create", "delete", "compose"} /\ (rcall'[c].op # "compose" => rcall'[c].set = {})
        /\ rcall'[c].at # "link"
    BY <1>2, <1>3, <1>4
  <2> QED BY <1>4, <2>1 DEF RolesInv, RequestShape
<1>11. OverlapsBlur'
  <2> SUFFICES ASSUME NEW d \in InFlight', NEW e \in InFlight', d # e
               PROVE  Names(d)' \cap Names(e)' \subseteq blurred'
    BY DEF OverlapsBlur
  <2>1. CASE d # c /\ e # c
    BY <1>5, <1>6, <2>1 DEF RolesInv, OverlapsBlur, InFlight
  <2>2. CASE d = c \/ e = c
    BY <1>5, <1>6, <2>2 DEF InFlight
  <2> QED BY <2>1, <2>2
<1>12. MirrorStands'
  <2>1. UNCHANGED <<Rows, kc, links>> /\ Clean' \subseteq Clean
    BY <1>1, <1>6 DEF Rows, Clean
  <2>2. \A d \in InFlight : rcall'[d] = rcall[d] /\ d # c
    BY <1>4, <1>5 DEF InFlight
  <2>3. ASSUME n \in Clean' PROVE (n \in kc <=> n \in Rows) /\ n \in Clean
    <3>1. \A d \in InFlight : rcall[d].role # n
      BY <1>6, <2>3 DEF InFlight, Names, Clean
    <3> QED BY <1>1, <2>1, <2>3, <3>1 DEF RolesInv, MirrorStands
  <2>4. ASSUME NEW d \in InFlight', rcall'[d].role \in Clean' PROVE RequestStands(d)'
    <3>1. CASE d = c
      <4>1. n \in Clean' /\ rcall'[d].role = n /\ rcall'[d].op = op /\ rcall'[d].at = "call"
        BY <1>3, <1>4, <2>4, <3>1
      <4> QED BY <1>1, <1>2, <2>1, <2>3, <4>1 DEF RequestStands
    <3>2. CASE d # c
      <4>1. d \in InFlight /\ rcall'[d] = rcall[d]
        BY <1>5, <2>2, <3>2
      <4>2. RequestStands(d)
        BY <1>1, <2>1, <2>4, <4>1 DEF RolesInv, MirrorStands
      <4> QED BY <2>1, <4>1, <4>2 DEF RequestStands
    <3> QED BY <3>1, <3>2
  <2>5. ASSUME NEW m \in Clean', \A d \in InFlight' : rcall'[d].role = m => rcall'[d].op = "compose"
        PROVE  m \in kc <=> m \in Rows
    <3>1. \A d \in InFlight : rcall[d].role = m => rcall[d].op = "compose"
      BY <1>5, <2>2, <2>5
    <3> QED BY <1>1, <2>1, <2>5, <3>1 DEF RolesInv, MirrorStands
  <2>6. ASSUME NEW m \in Clean', ~Sits(m, "compose", "mirror")' PROVE links[m] \cap Clean' \subseteq LinkedRows(m)
    <3>1. ~Sits(m, "compose", "mirror")
      BY <1>5, <2>2, <2>6 DEF Sits
    <3> QED BY <1>1, <2>1, <2>6, <3>1 DEF RolesInv, MirrorStands
  <2>7. \A m \in Role : LinkedRows(m)' = LinkedRows(m)
    BY <1>1 DEF LinkedRows, Rows
  <2>8. Clean' \subseteq Role
    BY DEF Clean
  <2> QED BY <2>1, <2>4, <2>5, <2>6, <2>7, <2>8 DEF MirrorStands
<1>13. RowsRemember'
  BY <1>1 DEF RowsRemember
<1>14. NothingRestored' /\ OneAttempt' /\ RestorerShape'
  BY <1>1, RequestsRest
<1> QED BY <1>7, <1>8, <1>9, <1>10, <1>11, <1>12, <1>13, <1>14 DEF RolesInv

(* A request that ends. *)
LEMMA RequestEnds ==
  ASSUME RolesInv, NEW c \in RoleCaller, rcall[c].at # "idle", rcall' = [rcall EXCEPT ![c] = NoRequest],
         blurred \subseteq blurred'
  PROVE  /\ rcall' \in [RoleCaller -> RequestType] /\ \A d \in RoleCaller : d # c => rcall'[d] = rcall[d]
         /\ InFlight' = InFlight \ {c} /\ IsFiniteSet(InFlight')
         /\ lastRow + Cardinality(InFlight') + 1 <= changes /\ Cardinality(InFlight') \in Nat
         /\ \A d \in RoleCaller : Names(d)' \subseteq Names(d)
         /\ RequestShape' /\ OverlapsBlur'
<1>1. /\ rcall' \in [RoleCaller -> RequestType] /\ rcall'[c] = NoRequest
      /\ \A d \in RoleCaller : d # c => rcall'[d] = rcall[d]
  BY Nothing, RequestMoves DEF RolesInv
<1>2. c \in InFlight /\ InFlight' = InFlight \ {c}
  BY <1>1, RequestIs DEF InFlight
<1>3. IsFiniteSet(InFlight') /\ Cardinality(InFlight') = Cardinality(InFlight) - 1
  BY <1>2, FS_RemoveElement DEF RolesInv, RoleCounts
<1>4. Cardinality(InFlight) \in Nat /\ Cardinality(InFlight') \in Nat
      /\ lastRow \in Nat /\ changes \in Nat /\ lastRow + Cardinality(InFlight) <= changes
  BY <1>3, FS_CardinalityType, RolesAssumption DEF RolesInv, RoleCounts, RolesTypeOK
<1>5. \A d \in RoleCaller : Names(d)' \subseteq Names(d)
  BY <1>1 DEF Names
<1>6. RequestShape'
  BY <1>1, Nothing DEF RolesInv, RequestShape
<1>7. OverlapsBlur'
  BY <1>2, <1>5 DEF RolesInv, OverlapsBlur, InFlight
<1> QED BY <1>1, <1>2, <1>3, <1>4, <1>5, <1>6, <1>7

(* What an accepted call changes in Keycloak: the role it names, and its links. *)
LEMMA KeycloakMoves ==
  ASSUME RolesInv, NEW c \in RoleCaller, rcall[c].at \in {"call", "link"}, Accepts(rcall[c]), InKeycloak(rcall[c])
  PROVE  /\ kc' \subseteq Role /\ links' \in [Role -> SUBSET Role] /\ LinksExist'
         /\ \A m \in Role : m # rcall[c].role => (m \in kc' <=> m \in kc)
         /\ \A m \in Role : m # rcall[c].role => links'[m] \subseteq links[m]
         /\ links'[rcall[c].role] \subseteq links[rcall[c].role] \cup rcall[c].set
         /\ rcall[c].op = "create" => rcall[c].role \in kc' /\ rcall[c].role \notin kc /\ links' = links
         /\ rcall[c].op = "delete" => rcall[c].role \notin kc'
         /\ rcall[c].op = "compose" => /\ rcall[c].role \in kc'
                                       /\ links'[rcall[c].role] = IF rcall[c].at = "link" THEN rcall[c].set ELSE {}
<1> DEFINE q == rcall[c]
           n == q.role
<1>1. n \in Role /\ q.set \subseteq Role /\ q.op \in {"create", "delete", "compose"} /\ q.at \in {"call", "link"}
  BY RequestIs
<1>2. kc \subseteq Role /\ links \in [Role -> SUBSET Role] /\ LinksExist
  BY DEF RolesInv, RolesTypeOK
<1>3. CASE q.op = "create"
  <2>1. n \notin kc /\ kc' = kc \cup {n} /\ links' = links
    BY <1>3 DEF Accepts, InKeycloak
  <2>2. LinksExist'
    BY <1>2, <2>1 DEF LinksExist
  <2> QED BY <1>1, <1>2, <1>3, <2>1, <2>2
<1>4. CASE q.op = "delete"
  <2>1. kc' = kc \ {n} /\ links' = [m \in Role |-> IF m = n THEN {} ELSE links[m] \ {n}]
    BY <1>4 DEF Accepts, InKeycloak
  <2>2. \A m \in Role : links'[m] = IF m = n THEN {} ELSE links[m] \ {n}
    BY <2>1
  <2>3. LinksExist'
    BY <1>2, <2>1, <2>2 DEF LinksExist
  <2>4. links' \in [Role -> SUBSET Role]
    BY <1>2, <2>1
  <2> QED BY <1>1, <1>2, <1>4, <2>1, <2>2, <2>3, <2>4
<1>5. CASE q.op = "compose"
  <2>1. /\ n \in kc /\ kc' = kc /\ (q.at = "link" => q.set \subseteq kc)
        /\ links' = [links EXCEPT ![n] = IF q.at = "link" THEN q.set ELSE {}]
    BY <1>5 DEF Accepts, InKeycloak
  <2>2. /\ links'[n] = (IF q.at = "link" THEN q.set ELSE {}) /\ \A m \in Role : m # n => links'[m] = links[m]
        /\ links' \in [Role -> SUBSET Role]
    BY <1>1, <1>2, <2>1
  <2>3. LinksExist'
    BY <1>2, <2>1, <2>2 DEF LinksExist
  <2> QED BY <1>1, <1>2, <1>5, <2>1, <2>2, <2>3
<1> QED BY <1>1, <1>3, <1>4, <1>5

(* What holds of the other requests, whatever one does with the role it names. *)
LEMMA OthersStand ==
  ASSUME RolesInv, phase = "active", NEW c \in InFlight, NEW d \in InFlight, d # c, rcall[d].role \in Clean,
         UNCHANGED rowId, rcall'[d] = rcall[d],
         \A m \in Role : m # rcall[c].role => (m \in kc' <=> m \in kc),
         \A m \in Role : m # rcall[c].role => links'[m] \subseteq links[m],
         links'[rcall[c].role] \subseteq links[rcall[c].role] \cup rcall[c].set
  PROVE  RequestStands(d)'
<1> DEFINE m == rcall[d].role
<1>1. /\ m \in Role /\ Names(d) = {m} \cup rcall[d].set /\ m \in Names(d)
      /\ Names(c) = {rcall[c].role} \cup rcall[c].set
  BY RequestIs DEF RolesInv, RequestShape, InFlight
<1>2. m \notin Names(c)
  BY <1>1, OwnRole
<1>3. m # rcall[c].role /\ m \notin rcall[c].set
  BY <1>1, <1>2
<1>4. RequestStands(d)
  BY DEF RolesInv, MirrorStands
<1>5. Rows' = Rows
  BY DEF Rows
<1>6. (m \in kc' <=> m \in kc) /\ links'[m] \subseteq links[m]
  BY <1>1, <1>3
<1>7. \A k \in Role : m \in links'[k] => m \in links[k]
  BY <1>3
<1> QED BY <1>4, <1>5, <1>6, <1>7 DEF RequestStands

(* A request that gives up blurs its role, whatever Keycloak did. *)
LEMMA GivingUpKeeps ==
  ASSUME RolesInv, NEW c \in RoleCaller, rcall[c].at # "idle", GivesUp(c),
         UNCHANGED <<rowId, rowLinks, lastRow, changes, phase, was, snapshot, restorer, recorded, late>>,
         roleFaults' \in 0..MaxRoleFaults,
         \/ UNCHANGED <<kc, links>>
         \/ rcall[c].at \in {"call", "link"} /\ Accepts(rcall[c]) /\ InKeycloak(rcall[c])
  PROVE  RolesInv'
<1> DEFINE n == rcall[c].role
<1>1. /\ rcall' = [rcall EXCEPT ![c] = NoRequest] /\ blurred' = blurred \cup {n}
      /\ c \in InFlight /\ n \in Role
  BY RequestIs DEF GivesUp
<1>2. /\ rcall' \in [RoleCaller -> RequestType] /\ \A d \in RoleCaller : d # c => rcall'[d] = rcall[d]
      /\ InFlight' = InFlight \ {c} /\ IsFiniteSet(InFlight')
      /\ lastRow + Cardinality(InFlight') + 1 <= changes /\ Cardinality(InFlight') \in Nat
      /\ \A d \in RoleCaller : Names(d)' \subseteq Names(d)
      /\ RequestShape' /\ OverlapsBlur'
  BY <1>1, RequestEnds
<1>3. /\ kc' \subseteq Role /\ links' \in [Role -> SUBSET Role] /\ LinksExist'
      /\ \A m \in Role : m # n => (m \in kc' <=> m \in kc)
      /\ \A m \in Role : m # n => links'[m] \subseteq links[m]
      /\ links'[n] \subseteq links[n] \cup rcall[c].set
  <2>1. CASE UNCHANGED <<kc, links>>
    BY <2>1 DEF RolesInv, RolesTypeOK, LinksExist
  <2>2. CASE rcall[c].at \in {"call", "link"} /\ Accepts(rcall[c]) /\ InKeycloak(rcall[c])
    BY <2>2, KeycloakMoves
  <2> QED BY <2>1, <2>2
<1>4. phase \in {"active", "archived"} /\ (phase # "active" => UNCHANGED <<kc, links>>)
  <2>1. phase # "active" /\ phase # "archived" => InFlight = {}
    BY DEF RolesInv, RowsRemember
  <2>2. phase \in {"active", "archived", "restoring", "restored"}
    BY DEF RolesInv, RolesTypeOK
  <2> QED BY <1>1, <2>1, <2>2 DEF Accepts, ClientExists
<1>5. RolesTypeOK'
  BY <1>1, <1>2, <1>3 DEF RolesInv, RolesTypeOK, RequestType
<1>6. RoleCounts' /\ RowIds'
  <2>1. Rows' = Rows
    BY DEF Rows
  <2>2. lastRow \in Nat /\ changes \in Nat
    BY RolesAssumption DEF RolesInv, RolesTypeOK
  <2>3. lastRow' + Cardinality(InFlight') <= changes'
    BY <1>2, <2>2
  <2>4. RowIds'
    BY <2>1 DEF RolesInv, RowIds
  <2> QED BY <1>2, <2>1, <2>3, <2>4 DEF RolesInv, RoleCounts
<1>7. MirrorStands'
  <2> SUFFICES ASSUME phase = "active" PROVE MirrorStands'
    BY DEF MirrorStands
  <2>1. Rows' = Rows /\ Clean' = Clean \ {n} /\ \A m \in Role : LinkedRows(m)' = LinkedRows(m)
    BY <1>1 DEF Rows, Clean, LinkedRows
  <2>2. ASSUME NEW d \in InFlight', rcall'[d].role \in Clean' PROVE RequestStands(d)'
    <3>1. d \in InFlight /\ d # c /\ rcall'[d] = rcall[d] /\ rcall[d].role \in Clean
      BY <1>2, <2>1, <2>2 DEF InFlight
    <3> QED BY <1>1, <1>3, <3>1, OthersStand
  <2>3. ASSUME NEW m \in Clean', \A d \in InFlight' : rcall'[d].role = m => rcall'[d].op = "compose"
        PROVE  m \in kc' <=> m \in Rows'
    <3>1. m \in Role /\ m \in Clean /\ m # n
      BY <2>1 DEF Clean
    <3>2. \A d \in InFlight : rcall[d].role = m => rcall[d].op = "compose"
      BY <1>2, <2>3, <3>1 DEF InFlight
    <3>3. m \in kc <=> m \in Rows
      BY <3>1, <3>2 DEF RolesInv, MirrorStands
    <3> QED BY <1>3, <2>1, <3>1, <3>3
  <2>4. ASSUME NEW m \in Clean', ~Sits(m, "compose", "mirror")' PROVE links'[m] \cap Clean' \subseteq LinkedRows(m)'
    <3>1. m \in Role /\ m \in Clean /\ m # n
      BY <2>1 DEF Clean
    <3>2. ~Sits(m, "compose", "mirror")
      BY <1>2, <2>4, <3>1 DEF Sits, InFlight
    <3>3. links[m] \cap Clean \subseteq LinkedRows(m)
      BY <3>1, <3>2 DEF RolesInv, MirrorStands
    <3> QED BY <1>3, <2>1, <3>1, <3>3
  <2> QED BY <2>2, <2>3, <2>4 DEF MirrorStands
<1>8. RowsRemember'
  <2> SUFFICES ASSUME phase = "archived" PROVE RowsRemember'
    BY <1>4 DEF RowsRemember
  <2>1. UNCHANGED <<Rows, kc, links>> /\ \A m \in Role : LinkedRows(m)' = LinkedRows(m)
    BY <1>4 DEF Rows, LinkedRows
  <2>2. was.roles \subseteq Role
    BY DEF RolesInv, RolesTypeOK
  <2>3. /\ \A d \in RoleCaller : Names(d) \subseteq blurred
        /\ kc = {} /\ \A m \in was.roles \ blurred : m \in Rows /\ was.links[m] \ blurred \subseteq LinkedRows(m)
    BY DEF RolesInv, RowsRemember
  <2>4. \A d \in RoleCaller : Names(d)' \subseteq blurred'
    BY <1>1, <1>2, <2>3
  <2>5. ASSUME NEW m \in was.roles \ blurred' PROVE m \in Rows' /\ was.links[m] \ blurred' \subseteq LinkedRows(m)'
    BY <1>1, <2>1, <2>2, <2>3
  <2> QED BY <2>1, <2>3, <2>4, <2>5 DEF RowsRemember
<1>9. NothingRestored' /\ OneAttempt' /\ RestorerShape'
  BY <1>4, RequestsRest
<1> QED BY <1>2, <1>3, <1>5, <1>6, <1>7, <1>8, <1>9 DEF RolesInv

(* A call that Keycloak accepts and answers. *)
LEMMA AcceptedKeeps ==
  ASSUME RolesInv, NEW c \in RoleCaller, rcall[c].at \in {"call", "link"}, Accepts(rcall[c]), InKeycloak(rcall[c]),
         rcall' = [rcall EXCEPT ![c].at = IF rcall[c].op = "compose" /\ rcall[c].at = "call" THEN "link" ELSE "mirror"],
         UNCHANGED <<rowId, rowLinks, lastRow, changes, phase, was, snapshot, restorer, recorded, late, blurred, roleFaults>>
  PROVE  RolesInv'
<1> DEFINE q == rcall[c]
           n == q.role
           v == [q EXCEPT !.at = IF q.op = "compose" /\ q.at = "call" THEN "link" ELSE "mirror"]
<1>1. /\ c \in InFlight /\ q \in RequestType /\ n \in Role /\ q.op \in {"create", "delete", "compose"}
      /\ Names(c) = {n} \cup q.set /\ (q.op # "compose" => q.set = {} /\ q.at # "link") /\ q.set \subseteq Role
  BY RequestIs
<1>2. /\ v \in RequestType /\ v.op = q.op /\ v.role = n /\ v.set = q.set
      /\ v.at = IF q.op = "compose" /\ q.at = "call" THEN "link" ELSE "mirror"
  BY <1>1 DEF RequestType
<1>3. rcall' = [rcall EXCEPT ![c] = v]
  BY DEF RolesInv, RolesTypeOK
<1> HIDE DEF v
<1>4. /\ rcall' \in [RoleCaller -> RequestType] /\ rcall'[c] = v
      /\ \A d \in RoleCaller : d # c => rcall'[d] = rcall[d]
  BY <1>2, <1>3, RequestMoves DEF RolesInv
<1>5. v # NoRequest /\ rcall[c] # NoRequest
  BY <1>1, <1>2, Nothing
<1>6. InFlight' = InFlight /\ \A d \in RoleCaller : Names(d)' = Names(d)
  BY <1>2, <1>4, <1>5 DEF InFlight, Names
<1>7. /\ kc' \subseteq Role /\ links' \in [Role -> SUBSET Role] /\ LinksExist'
      /\ \A m \in Role : m # n => (m \in kc' <=> m \in kc)
      /\ \A m \in Role : m # n => links'[m] \subseteq links[m]
      /\ links'[n] \subseteq links[n] \cup q.set
      /\ q.op = "create" => n \in kc' /\ n \notin kc /\ links' = links
      /\ q.op = "delete" => n \notin kc'
      /\ q.op = "compose" => n \in kc' /\ links'[n] = IF q.at = "link" THEN q.set ELSE {}
  BY KeycloakMoves
<1>8. phase = "active"
  <2>1. phase # "active" /\ phase # "archived" => InFlight = {}
    BY DEF RolesInv, RowsRemember
  <2> QED BY <1>1, <2>1 DEF Accepts, ClientExists
<1>9. RolesTypeOK'
  BY <1>4, <1>7 DEF RolesInv, RolesTypeOK, RequestType
<1>10. UNCHANGED <<Rows, Clean>> /\ \A m \in Role : LinkedRows(m)' = LinkedRows(m)
  BY DEF Rows, Clean, LinkedRows
<1>11. RoleCounts' /\ RowIds'
  BY <1>6, <1>10 DEF RolesInv, RoleCounts, RowIds
<1>12. RequestShape'
  <2>1. v.at # "idle" /\ (v.op # "compose" => v.set = {} /\ v.at # "link")
    BY <1>1, <1>2
  <2> QED BY <1>1, <1>2, <1>4, <1>5, <2>1 DEF RolesInv, RequestShape
<1>13. OverlapsBlur'
  BY <1>6 DEF RolesInv, OverlapsBlur, InFlight
<1>14. MirrorStands'
  <2>1. ASSUME NEW d \in InFlight', rcall'[d].role \in Clean' PROVE RequestStands(d)'
    <3>1. CASE d = c
      <4>1. n \in Clean /\ RequestStands(c)
        BY <1>1, <1>2, <1>4, <1>8, <1>10, <2>1, <3>1 DEF RolesInv, MirrorStands
      <4>2. rcall'[d].role = n /\ rcall'[d].op = q.op /\ rcall'[d].at = v.at /\ rcall'[d].set = q.set
        BY <1>2, <1>4, <3>1
      <4>3. CASE q.op = "create"
        <5>1. n \notin Rows /\ n \notin kc /\ links' = links /\ n \in kc'
          BY <1>7, <4>1, <4>3 DEF RequestStands
        <5>2. links[n] = {} /\ \A m \in Role : n \notin links[m]
          BY <1>1, <5>1 DEF RolesInv, LinksExist
        <5> QED BY <1>2, <1>10, <4>2, <4>3, <5>1, <5>2 DEF RequestStands
      <4>4. CASE q.op = "delete"
        BY <1>2, <1>7, <1>10, <4>1, <4>2, <4>4 DEF RequestStands
      <4>5. CASE q.op = "compose"
        BY <1>2, <1>7, <1>10, <4>2, <4>5 DEF RequestStands
      <4> QED BY <1>1, <4>3, <4>4, <4>5
    <3>2. CASE d # c
      <4>1. d \in InFlight /\ rcall'[d] = rcall[d] /\ rcall[d].role \in Clean
        BY <1>4, <1>6, <1>10, <2>1, <3>2 DEF InFlight
      <4> QED BY <1>1, <1>7, <1>8, <3>2, <4>1, OthersStand
    <3> QED BY <3>1, <3>2
  <2>2. ASSUME NEW m \in Clean', \A d \in InFlight' : rcall'[d].role = m => rcall'[d].op = "compose"
        PROVE  m \in kc' <=> m \in Rows'
    <3>1. m \in Role /\ m \in Clean
      BY <1>10 DEF Clean
    <3>2. \A d \in InFlight : rcall[d].role = m => rcall[d].op = "compose"
      BY <1>2, <1>4, <1>6, <2>2 DEF InFlight
    <3>3. m \in kc <=> m \in Rows
      BY <1>8, <3>1, <3>2 DEF RolesInv, MirrorStands
    <3>4. CASE m = n
      <4>1. q.op = "compose"
        BY <1>1, <3>2, <3>4
      <4>2. n \in kc /\ n \in kc'
        BY <1>7, <4>1 DEF Accepts
      <4> QED BY <1>10, <3>3, <3>4, <4>2
    <3>5. CASE m # n
      BY <1>7, <1>10, <3>1, <3>3, <3>5
    <3> QED BY <3>4, <3>5
  <2>3. ASSUME NEW m \in Clean', ~Sits(m, "compose", "mirror")' PROVE links'[m] \cap Clean' \subseteq LinkedRows(m)'
    <3>1. m \in Role /\ m \in Clean
      BY <1>10 DEF Clean
    <3>2. CASE m # n
      <4>1. ~Sits(m, "compose", "mirror")
        BY <1>1, <1>4, <1>6, <2>3, <3>2 DEF Sits, InFlight
      <4>2. links[m] \cap Clean \subseteq LinkedRows(m)
        BY <1>8, <3>1, <4>1 DEF RolesInv, MirrorStands
      <4> QED BY <1>7, <1>10, <3>1, <3>2, <4>2
    <3>3. CASE m = n
      <4>1. CASE q.op = "compose"
        <5>1. q.at = "call"
          BY <1>1, <1>2, <1>4, <1>6, <2>3, <3>3, <4>1 DEF Sits
        <5> QED BY <1>7, <3>3, <4>1, <5>1
      <4>2. CASE q.op = "create"
        <5>1. links'[n] = {}
          BY <1>1, <1>7, <4>2 DEF RolesInv, LinksExist
        <5> QED BY <3>3, <5>1
      <4>3. CASE q.op = "delete"
        <5>1. links'[n] = {}
          BY <1>1, <1>7, <4>3 DEF LinksExist
        <5> QED BY <3>3, <5>1
      <4> QED BY <1>1, <4>1, <4>2, <4>3
    <3> QED BY <3>2, <3>3
  <2> QED BY <2>1, <2>2, <2>3 DEF MirrorStands
<1>15. RowsRemember'
  BY <1>8 DEF RowsRemember
<1>16. NothingRestored' /\ OneAttempt' /\ RestorerShape'
  BY <1>8, RequestsRest
<1> QED BY <1>7, <1>9, <1>11, <1>12, <1>13, <1>14, <1>15, <1>16 DEF RolesInv

(* A call to Keycloak is answered, refused or lost. *)
LEMMA CallKeycloakKeeps ==
  ASSUME RolesInv, NEW c \in RoleCaller, CallKeycloak(c)
  PROVE  RolesInv'
<1> DEFINE q == rcall[c]
<1>1. /\ q.at \in {"call", "link"} /\ q.at # "idle"
      /\ UNCHANGED <<rowId, rowLinks, lastRow, changes, phase, was, snapshot, restorer, recorded, late>>
      /\ roleFaults \in 0..MaxRoleFaults
  BY DEF CallKeycloak, RolesInv, RolesTypeOK
<1>2. CASE /\ Accepts(q) /\ InKeycloak(q)
           /\ rcall' = [rcall EXCEPT ![c].at = IF q.op = "compose" /\ q.at = "call" THEN "link" ELSE "mirror"]
           /\ UNCHANGED <<blurred, roleFaults>>
  BY <1>1, <1>2, AcceptedKeeps
<1>3. CASE ~Accepts(q) /\ GivesUp(c) /\ UNCHANGED <<kc, links, roleFaults>>
  BY <1>1, <1>3, GivingUpKeeps
<1>4. CASE Accepts(q) /\ RoleFault /\ GivesUp(c) /\ (InKeycloak(q) \/ UNCHANGED <<kc, links>>)
  <2>1. roleFaults' \in 0..MaxRoleFaults
    BY <1>1, <1>4, RolesAssumption DEF RoleFault
  <2> QED BY <1>1, <1>4, <2>1, GivingUpKeeps
<1> QED BY <1>2, <1>3, <1>4 DEF CallKeycloak

(* The rows once a change is mirrored. *)
LEMMA MirrorWrites ==
  ASSUME RolesInv, NEW c \in RoleCaller, NEW n, n = rcall[c].role, rcall[c].at = "mirror", rcall[c].set \subseteq Rows,
         rowId' = IF rcall[c].op = "create" \/ (rcall[c].op = "compose" /\ n \notin Rows) THEN [rowId EXCEPT ![n] = lastRow + 1]
                  ELSE IF rcall[c].op = "delete" THEN [rowId EXCEPT ![n] = 0] ELSE rowId,
         lastRow' = IF rowId' = [rowId EXCEPT ![n] = lastRow + 1] THEN lastRow + 1 ELSE lastRow,
         rowLinks' = IF rcall[c].op = "compose" THEN Linked(n, rowId', rcall[c].set) ELSE Unlinked(n),
         lastRow + 1 <= MaxChanges
  PROVE  /\ rowId' \in [Role -> 0..MaxChanges] /\ rowLinks' \in [Role -> SUBSET (1..MaxChanges)]
         /\ lastRow' \in 0..MaxChanges /\ lastRow' <= lastRow + 1 /\ IsFiniteSet(Rows') /\ RowIds'
         /\ Rows' = IF rcall[c].op = "delete" THEN Rows \ {n} ELSE Rows \cup {n}
         /\ \A m \in Role \ {n} : LinkedRows(m) \ {n} \subseteq LinkedRows(m)'
         /\ rcall[c].op = "compose" => /\ \A m \in Role : LinkedRows(m) \subseteq LinkedRows(m)'
                                       /\ rcall[c].set \subseteq LinkedRows(n)'
<1> DEFINE q == rcall[c]
<1>1. n \in Role /\ q.op \in {"create", "delete", "compose"} /\ q.set \subseteq Role /\ (q.op # "compose" => q.set = {})
  BY RequestIs
<1>2. /\ rowId \in [Role -> 0..MaxChanges] /\ rowLinks \in [Role -> SUBSET (1..MaxChanges)] /\ lastRow \in 0..MaxChanges
      /\ MaxChanges \in Nat /\ IsFiniteSet(Rows)
  BY RolesAssumption DEF RolesInv, RolesTypeOK, RoleCounts
<1>3. /\ \A m \in Role : rowId[m] <= lastRow /\ rowLinks[m] \subseteq {rowId[k] : k \in Rows}
      /\ \A m, k \in Rows : rowId[m] = rowId[k] => m = k
  BY DEF RolesInv, RowIds
<1>4. Rows = {m \in Role : rowId[m] # 0} /\ Rows' = {m \in Role : rowId'[m] # 0}
  BY DEF Rows
<1>5. \A m \in Role : /\ LinkedRows(m) = {k \in Rows : rowId[k] \in rowLinks[m]}
                      /\ LinkedRows(m)' = {k \in Rows' : rowId'[k] \in rowLinks'[m]}
  BY DEF LinkedRows
<1>6. \A m \in Role : 0 \notin rowLinks[m] /\ lastRow + 1 \notin rowLinks[m]
  <2>1. \A x \in 1..MaxChanges : x # 0
    BY <1>2
  <2>2. \A m \in Role : rowId[m] # lastRow + 1
    BY <1>2, <1>3
  <2> QED BY <1>2, <1>3, <1>4, <2>1, <2>2
<1>7. CASE q.op = "compose" /\ n \in Rows
  <2>1. rowId' = rowId /\ rowLinks' = [rowLinks EXCEPT ![n] = @ \cup {rowId[m] : m \in q.set}]
    BY <1>7 DEF Linked
  <2>2. lastRow' = lastRow
    <3>1. rowId[n] # lastRow + 1
      BY <1>1, <1>2, <1>3
    <3>2. rowId' # [rowId EXCEPT ![n] = lastRow + 1]
      BY <1>1, <1>2, <2>1, <3>1
    <3> QED BY <3>2
  <2>3. Rows' = Rows /\ n \in Rows
    BY <1>4, <1>7, <2>1
  <2>4. /\ rowLinks'[n] = rowLinks[n] \cup {rowId[m] : m \in q.set}
        /\ \A m \in Role : m # n => rowLinks'[m] = rowLinks[m]
    BY <1>1, <1>2, <2>1
  <2>5. {rowId[m] : m \in q.set} \subseteq {rowId[m] : m \in Rows} /\ {rowId[m] : m \in Rows} \subseteq 1..MaxChanges
    BY <1>2, <1>4
  <2>6. rowLinks' \in [Role -> SUBSET (1..MaxChanges)]
    BY <1>1, <1>2, <2>1, <2>5
  <2>7. RowIds'
    <3>1. {rowId'[m] : m \in Rows'} = {rowId[m] : m \in Rows}
      BY <2>1, <2>3
    <3>2. \A m \in Role : rowLinks'[m] \subseteq {rowId'[k] : k \in Rows'}
      BY <1>3, <2>4, <2>5, <3>1
    <3>3. /\ \A m \in Role : rowId'[m] <= lastRow'
          /\ \A m, k \in Rows' : rowId'[m] = rowId'[k] => m = k
      BY <1>3, <2>1, <2>2, <2>3
    <3> QED BY <3>2, <3>3 DEF RowIds
  <2>8. \A m \in Role : LinkedRows(m) \subseteq LinkedRows(m)'
    BY <1>5, <2>1, <2>3, <2>4
  <2>9. q.set \subseteq LinkedRows(n)'
    <3> SUFFICES ASSUME NEW k \in q.set PROVE k \in LinkedRows(n)'
      OBVIOUS
    <3>1. k \in Rows' /\ rowId'[k] \in rowLinks'[n]
      BY <2>1, <2>3, <2>4
    <3> QED BY <1>1, <1>5, <3>1
  <2>10. Rows' = Rows \cup {n}
    BY <2>3
  <2> QED BY <1>2, <1>7, <2>1, <2>2, <2>3, <2>6, <2>7, <2>8, <2>9, <2>10
<1>8. CASE q.op = "compose" /\ n \notin Rows
  <2>1. /\ rowId' = [rowId EXCEPT ![n] = lastRow + 1] /\ lastRow' = lastRow + 1
        /\ rowLinks' = [rowLinks EXCEPT ![n] = @ \cup {rowId'[m] : m \in q.set}]
    BY <1>8 DEF Linked
  <2>2. /\ rowId'[n] = lastRow + 1 /\ \A m \in Role : m # n => rowId'[m] = rowId[m]
        /\ rowId' \in [Role -> 0..MaxChanges] /\ lastRow' \in 0..MaxChanges
    BY <1>1, <1>2, <2>1
  <2>3. Rows' = Rows \cup {n}
    BY <1>1, <1>2, <1>4, <2>2
  <2>4. /\ rowLinks'[n] = rowLinks[n] \cup {rowId'[m] : m \in q.set}
        /\ \A m \in Role : m # n => rowLinks'[m] = rowLinks[m]
    BY <1>1, <1>2, <2>1
  <2>5. {rowId'[m] : m \in q.set} \subseteq {rowId'[m] : m \in Rows'} /\ {rowId'[m] : m \in Rows'} \subseteq 1..MaxChanges
    <3>1. \A m \in Rows' : rowId'[m] \in 1..MaxChanges
      BY <1>2, <1>4, <2>2
    <3> QED BY <2>3, <3>1
  <2>6. rowLinks' \in [Role -> SUBSET (1..MaxChanges)]
    BY <1>1, <1>2, <2>1, <2>5
  <2>7. RowIds'
    <3>1. {rowId[m] : m \in Rows} \subseteq {rowId'[m] : m \in Rows'}
      BY <1>4, <1>8, <2>2, <2>3
    <3>2. \A m \in Role : rowLinks'[m] \subseteq {rowId'[k] : k \in Rows'}
      BY <1>3, <2>4, <2>5, <3>1
    <3>3. \A m \in Role : rowId'[m] <= lastRow'
      BY <1>2, <1>3, <2>1, <2>2
    <3>4. \A m, k \in Rows' : rowId'[m] = rowId'[k] => m = k
      BY <1>1, <1>2, <1>3, <1>4, <2>2, <2>3
    <3> QED BY <3>2, <3>3, <3>4 DEF RowIds
  <2>8. \A m \in Role : LinkedRows(m) \subseteq LinkedRows(m)'
    <3> SUFFICES ASSUME NEW m \in Role, NEW k \in LinkedRows(m) PROVE k \in LinkedRows(m)'
      OBVIOUS
    <3>1. k \in Rows /\ k \in Role /\ k # n /\ rowId[k] \in rowLinks[m]
      BY <1>4, <1>5, <1>8
    <3>2. k \in Rows' /\ rowId'[k] = rowId[k] /\ rowLinks[m] \subseteq rowLinks'[m]
      BY <2>2, <2>3, <2>4, <3>1
    <3> QED BY <1>5, <3>1, <3>2
  <2>9. q.set \subseteq LinkedRows(n)'
    <3> SUFFICES ASSUME NEW k \in q.set PROVE k \in LinkedRows(n)'
      OBVIOUS
    <3>1. k \in Rows' /\ rowId'[k] \in rowLinks'[n]
      BY <2>3, <2>4
    <3> QED BY <1>1, <1>5, <3>1
  <2>10. IsFiniteSet(Rows')
    BY <1>2, <2>3, FS_AddElement
  <2>11. lastRow' <= lastRow + 1
    BY <1>2, <2>1
  <2> QED BY <1>8, <2>2, <2>3, <2>6, <2>7, <2>8, <2>9, <2>10, <2>11
<1>9. CASE q.op = "create"
  <2>1. /\ rowId' = [rowId EXCEPT ![n] = lastRow + 1] /\ lastRow' = lastRow + 1
        /\ rowLinks' = [m \in Role |-> IF m = n THEN {} ELSE rowLinks[m] \ {rowId[n]}]
    BY <1>9 DEF Unlinked
  <2>2. /\ rowId'[n] = lastRow + 1 /\ \A m \in Role : m # n => rowId'[m] = rowId[m]
        /\ rowId' \in [Role -> 0..MaxChanges] /\ lastRow' \in 0..MaxChanges
    BY <1>1, <1>2, <2>1
  <2>3. Rows' = Rows \cup {n}
    BY <1>1, <1>2, <1>4, <2>2
  <2>4. /\ rowLinks'[n] = {} /\ \A m \in Role : m # n => rowLinks'[m] = rowLinks[m] \ {rowId[n]}
        /\ rowLinks' \in [Role -> SUBSET (1..MaxChanges)]
    <3> DEFINE f(m) == IF m = n THEN {} ELSE rowLinks[m] \ {rowId[n]}
    <3>1. \A m \in Role : f(m) \in SUBSET (1..MaxChanges)
      BY <1>2
    <3>2. f(n) = {} /\ \A m \in Role : m # n => f(m) = rowLinks[m] \ {rowId[n]}
      OBVIOUS
    <3>3. rowLinks' = [m \in Role |-> f(m)]
      BY <2>1
    <3> HIDE DEF f
    <3>4. rowLinks' \in [Role -> SUBSET (1..MaxChanges)]
      BY <3>1, <3>3
    <3> QED BY <1>1, <3>2, <3>3, <3>4
  <2>5. RowIds'
    <3>1. \A m \in Role : rowLinks'[m] \subseteq {rowId'[k] : k \in Rows'}
      <4> SUFFICES ASSUME NEW m \in Role, NEW x \in rowLinks'[m] PROVE \E k \in Rows' : x = rowId'[k]
        OBVIOUS
      <4>1. m # n /\ x \in rowLinks[m] /\ x # rowId[n]
        BY <2>4
      <4>2. PICK k \in Rows : x = rowId[k]
        BY <1>3, <4>1
      <4> QED BY <1>4, <2>2, <2>3, <4>1, <4>2
    <3>2. \A m \in Role : rowId'[m] <= lastRow'
      BY <1>2, <1>3, <2>1, <2>2
    <3>3. \A m, k \in Rows' : rowId'[m] = rowId'[k] => m = k
      BY <1>1, <1>2, <1>3, <1>4, <2>2, <2>3
    <3> QED BY <3>1, <3>2, <3>3 DEF RowIds
  <2>6. \A m \in Role \ {n} : LinkedRows(m) \ {n} \subseteq LinkedRows(m)'
    <3> SUFFICES ASSUME NEW m \in Role \ {n}, NEW k \in LinkedRows(m), k # n PROVE k \in LinkedRows(m)'
      OBVIOUS
    <3>1. k \in Rows /\ k \in Role /\ rowId[k] \in rowLinks[m] /\ rowId[k] # 0
      BY <1>4, <1>5
    <3>2. rowId[k] # rowId[n]
      BY <1>1, <1>3, <1>4, <3>1
    <3>3. k \in Rows' /\ rowId'[k] = rowId[k] /\ rowId[k] \in rowLinks'[m]
      BY <2>2, <2>3, <2>4, <3>1, <3>2
    <3> QED BY <1>5, <3>3
  <2>7. IsFiniteSet(Rows')
    BY <1>2, <2>3, FS_AddElement
  <2> QED BY <1>2, <1>9, <2>1, <2>2, <2>3, <2>4, <2>5, <2>6, <2>7
<1>10. CASE q.op = "delete"
  <2>1. /\ rowId' = [rowId EXCEPT ![n] = 0]
        /\ rowLinks' = [m \in Role |-> IF m = n THEN {} ELSE rowLinks[m] \ {rowId[n]}]
    BY <1>10 DEF Unlinked
  <2>2. /\ rowId'[n] = 0 /\ \A m \in Role : m # n => rowId'[m] = rowId[m]
        /\ rowId' \in [Role -> 0..MaxChanges]
    BY <1>1, <1>2, <2>1
  <2>3. lastRow' = lastRow
    <3>1. rowId' # [rowId EXCEPT ![n] = lastRow + 1]
      BY <1>1, <1>2, <2>1, <2>2
    <3> QED BY <3>1
  <2>4. Rows' = Rows \ {n}
    BY <1>1, <1>4, <2>2
  <2>5. /\ rowLinks'[n] = {} /\ \A m \in Role : m # n => rowLinks'[m] = rowLinks[m] \ {rowId[n]}
        /\ rowLinks' \in [Role -> SUBSET (1..MaxChanges)]
    <3> DEFINE f(m) == IF m = n THEN {} ELSE rowLinks[m] \ {rowId[n]}
    <3>1. \A m \in Role : f(m) \in SUBSET (1..MaxChanges)
      BY <1>2
    <3>2. f(n) = {} /\ \A m \in Role : m # n => f(m) = rowLinks[m] \ {rowId[n]}
      OBVIOUS
    <3>3. rowLinks' = [m \in Role |-> f(m)]
      BY <2>1
    <3> HIDE DEF f
    <3>4. rowLinks' \in [Role -> SUBSET (1..MaxChanges)]
      BY <3>1, <3>3
    <3> QED BY <1>1, <3>2, <3>3, <3>4
  <2>6. RowIds'
    <3>1. \A m \in Role : rowLinks'[m] \subseteq {rowId'[k] : k \in Rows'}
      <4> SUFFICES ASSUME NEW m \in Role, NEW x \in rowLinks'[m] PROVE \E k \in Rows' : x = rowId'[k]
        OBVIOUS
      <4>1. m # n /\ x \in rowLinks[m] /\ x # rowId[n]
        BY <2>5
      <4>2. PICK k \in Rows : x = rowId[k]
        BY <1>3, <4>1
      <4> QED BY <1>4, <2>2, <2>4, <4>1, <4>2
    <3>2. \A m \in Role : rowId'[m] <= lastRow'
      BY <1>2, <1>3, <2>2, <2>3
    <3>3. \A m, k \in Rows' : rowId'[m] = rowId'[k] => m = k
      BY <1>3, <1>4, <2>2, <2>4
    <3> QED BY <3>1, <3>2, <3>3 DEF RowIds
  <2>7. \A m \in Role \ {n} : LinkedRows(m) \ {n} \subseteq LinkedRows(m)'
    <3> SUFFICES ASSUME NEW m \in Role \ {n}, NEW k \in LinkedRows(m), k # n PROVE k \in LinkedRows(m)'
      OBVIOUS
    <3>1. k \in Rows /\ k \in Role /\ rowId[k] \in rowLinks[m] /\ rowId[k] # 0
      BY <1>4, <1>5
    <3>2. rowId[k] # rowId[n]
      BY <1>1, <1>3, <1>4, <3>1
    <3>3. k \in Rows' /\ rowId'[k] = rowId[k] /\ rowId[k] \in rowLinks'[m]
      BY <2>2, <2>4, <2>5, <3>1, <3>2
    <3> QED BY <1>5, <3>3
  <2>8. IsFiniteSet(Rows')
    BY <1>2, <2>4, FS_RemoveElement
  <2> QED BY <1>2, <1>10, <2>1, <2>2, <2>3, <2>4, <2>5, <2>6, <2>7, <2>8
<1> QED BY <1>1, <1>7, <1>8, <1>9, <1>10

(* A change that is mirrored: its role's row follows Keycloak again. *)
LEMMA MirroredKeeps ==
  ASSUME RolesInv, NEW c \in RoleCaller, NEW n, n = rcall[c].role, rcall[c].at = "mirror", rcall[c].set \subseteq Rows,
         rowId' = IF rcall[c].op = "create" \/ (rcall[c].op = "compose" /\ n \notin Rows) THEN [rowId EXCEPT ![n] = lastRow + 1]
                  ELSE IF rcall[c].op = "delete" THEN [rowId EXCEPT ![n] = 0] ELSE rowId,
         lastRow' = IF rowId' = [rowId EXCEPT ![n] = lastRow + 1] THEN lastRow + 1 ELSE lastRow,
         rowLinks' = IF rcall[c].op = "compose" THEN Linked(n, rowId', rcall[c].set) ELSE Unlinked(n),
         rcall' = [rcall EXCEPT ![c] = NoRequest],
         UNCHANGED <<kc, links, changes, phase, blurred, was, snapshot, restorer, recorded, late, roleFaults>>
  PROVE  RolesInv'
<1> DEFINE q == rcall[c]
<1>1. /\ c \in InFlight /\ n \in Role /\ q.op \in {"create", "delete", "compose"} /\ Names(c) = {n} \cup q.set
      /\ q.at = "mirror" /\ q.at # "idle"
  BY RequestIs
<1>2. /\ rcall' \in [RoleCaller -> RequestType] /\ \A d \in RoleCaller : d # c => rcall'[d] = rcall[d]
      /\ InFlight' = InFlight \ {c} /\ IsFiniteSet(InFlight')
      /\ lastRow + Cardinality(InFlight') + 1 <= changes /\ Cardinality(InFlight') \in Nat
      /\ \A d \in RoleCaller : Names(d)' \subseteq Names(d)
      /\ RequestShape' /\ OverlapsBlur'
  BY <1>1, RequestEnds
<1>3. lastRow \in Nat /\ changes \in Nat /\ changes <= MaxChanges /\ MaxChanges \in Nat
  BY RolesAssumption DEF RolesInv, RolesTypeOK
<1>4. lastRow + 1 <= MaxChanges
  BY <1>2, <1>3
<1>5. /\ rowId' \in [Role -> 0..MaxChanges] /\ rowLinks' \in [Role -> SUBSET (1..MaxChanges)]
      /\ lastRow' \in 0..MaxChanges /\ lastRow' <= lastRow + 1 /\ IsFiniteSet(Rows') /\ RowIds'
      /\ Rows' = IF q.op = "delete" THEN Rows \ {n} ELSE Rows \cup {n}
      /\ \A m \in Role \ {n} : LinkedRows(m) \ {n} \subseteq LinkedRows(m)'
      /\ q.op = "compose" => /\ \A m \in Role : LinkedRows(m) \subseteq LinkedRows(m)'
                             /\ q.set \subseteq LinkedRows(n)'
  BY <1>4, MirrorWrites
<1>6. phase \in {"active", "archived"}
  <2>1. phase # "active" /\ phase # "archived" => InFlight = {}
    BY DEF RolesInv, RowsRemember
  <2>2. phase \in {"active", "archived", "restoring", "restored"}
    BY DEF RolesInv, RolesTypeOK
  <2> QED BY <1>1, <2>1, <2>2
<1>7. RolesTypeOK'
  BY <1>2, <1>5 DEF RolesInv, RolesTypeOK, RequestType
<1>8. RoleCounts'
  <2>1. lastRow' + Cardinality(InFlight') <= changes'
    BY <1>2, <1>3, <1>5
  <2> QED BY <1>2, <1>5, <2>1 DEF RoleCounts
<1>9. LinksExist'
  BY DEF RolesInv, LinksExist
<1>10. Clean' = Clean /\ Clean \subseteq Role
  BY DEF Clean
<1>11. MirrorStands'
  <2> SUFFICES ASSUME phase = "active" PROVE MirrorStands'
    BY DEF MirrorStands
  <2>1. n \in Clean => RequestStands(c) /\ \A d \in InFlight : d # c => rcall[d].role # n
    <3>1. ASSUME n \in Clean, NEW d \in InFlight, d # c PROVE rcall[d].role # n
      <4>1. n \notin Names(d)
        BY <1>1, <3>1, OwnRole
      <4> QED BY <4>1 DEF Names, InFlight
    <3> QED BY <1>1, <3>1 DEF RolesInv, MirrorStands
  <2>2. ASSUME NEW d \in InFlight', rcall'[d].role \in Clean' PROVE RequestStands(d)'
    <3>1. d \in InFlight /\ d # c /\ rcall'[d] = rcall[d] /\ rcall[d].role \in Clean
      BY <1>2, <1>10, <2>2 DEF InFlight
    <3>2. rcall[d].role # n
      BY <2>1, <3>1
    <3>3. RequestStands(d)
      BY <3>1 DEF RolesInv, MirrorStands
    <3>4. rcall[d].role \in Rows' <=> rcall[d].role \in Rows
      BY <1>5, <3>2
    <3> QED BY <3>1, <3>3, <3>4 DEF RequestStands
  <2>3. ASSUME NEW m \in Clean', \A d \in InFlight' : rcall'[d].role = m => rcall'[d].op = "compose"
        PROVE  m \in kc' <=> m \in Rows'
    <3>1. CASE m # n
      <4>1. \A d \in InFlight : rcall[d].role = m => rcall[d].op = "compose"
        BY <1>2, <2>3, <3>1 DEF InFlight
      <4>2. m \in kc <=> m \in Rows
        BY <1>10, <4>1 DEF RolesInv, MirrorStands
      <4> QED BY <1>5, <3>1, <4>2
    <3>2. CASE m = n
      <4>1. RequestStands(c)
        BY <1>10, <2>1, <3>2
      <4>2. CASE q.op = "create"
        BY <1>1, <1>5, <3>2, <4>1, <4>2 DEF RequestStands
      <4>3. CASE q.op = "delete"
        BY <1>1, <1>5, <3>2, <4>1, <4>3 DEF RequestStands
      <4>4. CASE q.op = "compose"
        BY <1>1, <1>5, <3>2, <4>1, <4>4 DEF RequestStands
      <4> QED BY <1>1, <4>2, <4>3, <4>4
    <3> QED BY <3>1, <3>2
  <2>4. ASSUME NEW m \in Clean', ~Sits(m, "compose", "mirror")' PROVE links'[m] \cap Clean' \subseteq LinkedRows(m)'
    <3>1. m \in Role /\ m \in Clean
      BY <1>10
    <3>2. CASE m # n
      <4>1. ~Sits(m, "compose", "mirror")
        BY <1>2, <2>4, <3>2 DEF Sits, InFlight
      <4>2. links[m] \cap Clean \subseteq LinkedRows(m)
        BY <3>1, <4>1 DEF RolesInv, MirrorStands
      <4>3. CASE q.op = "compose"
        BY <1>5, <1>10, <3>1, <4>2, <4>3
      <4>4. CASE q.op # "compose"
        <5>1. n \in Clean => n \notin links[m]
          <6>1. CASE q.op = "create"
            BY <1>1, <2>1, <3>1, <6>1 DEF RequestStands
          <6>2. CASE q.op = "delete"
            BY <1>1, <2>1, <3>1, <6>2 DEF RequestStands, RolesInv, LinksExist
          <6> QED BY <1>1, <4>4, <6>1, <6>2
        <5> QED BY <1>5, <1>10, <3>1, <3>2, <4>2, <5>1
      <4> QED BY <4>3, <4>4
    <3>3. CASE m = n
      <4>1. RequestStands(c)
        BY <2>1, <3>1, <3>3
      <4>2. CASE q.op = "create"
        BY <1>1, <3>3, <4>1, <4>2 DEF RequestStands
      <4>3. CASE q.op = "delete"
        BY <1>1, <3>3, <4>1, <4>3 DEF RequestStands, RolesInv, LinksExist
      <4>4. CASE q.op = "compose"
        <5>1. links[n] \subseteq q.set
          BY <1>1, <4>1, <4>4 DEF RequestStands
        <5> QED BY <1>5, <3>3, <4>4, <5>1
      <4> QED BY <1>1, <4>2, <4>3, <4>4
    <3> QED BY <3>2, <3>3
  <2> QED BY <2>2, <2>3, <2>4 DEF MirrorStands
<1>12. RowsRemember'
  <2> SUFFICES ASSUME phase = "archived" PROVE RowsRemember'
    BY <1>6 DEF RowsRemember
  <2>1. was.roles \subseteq Role
    BY DEF RolesInv, RolesTypeOK
  <2>2. /\ \A d \in RoleCaller : Names(d) \subseteq blurred
        /\ kc = {} /\ \A m \in was.roles \ blurred : m \in Rows /\ was.links[m] \ blurred \subseteq LinkedRows(m)
    BY DEF RolesInv, RowsRemember
  <2>3. n \in blurred
    BY <1>1, <2>2
  <2>4. ASSUME NEW m \in was.roles \ blurred PROVE m \in Rows' /\ was.links[m] \ blurred \subseteq LinkedRows(m)'
    <3>1. m \in Role \ {n} /\ m \in Rows /\ was.links[m] \ blurred \subseteq LinkedRows(m)
      BY <2>1, <2>2, <2>3
    <3> QED BY <1>5, <2>3, <3>1
  <2> QED BY <1>2, <2>2, <2>4 DEF RowsRemember
<1>13. NothingRestored' /\ OneAttempt' /\ RestorerShape'
  BY <1>6, RequestsRest
<1> QED BY <1>2, <1>5, <1>7, <1>8, <1>9, <1>11, <1>12, <1>13 DEF RolesInv

(* The rows are written, or the request gives up. *)
LEMMA MirrorRoleKeeps ==
  ASSUME RolesInv, NEW c \in RoleCaller, MirrorRole(c)
  PROVE  RolesInv'
<1> DEFINE q == rcall[c]
           renewed == [rowId EXCEPT ![q.role] = lastRow + 1]
           id == IF q.op = "create" \/ (q.op = "compose" /\ q.role \notin Rows) THEN renewed
                 ELSE IF q.op = "delete" THEN [rowId EXCEPT ![q.role] = 0] ELSE rowId
<1>1. /\ q.at = "mirror" /\ UNCHANGED <<kc, links, changes, phase, was, snapshot, restorer, recorded, late>>
      /\ roleFaults \in 0..MaxRoleFaults
  BY DEF MirrorRole, RolesInv, RolesTypeOK
<1>2. CASE /\ q.set \subseteq Rows /\ rowId' = id /\ lastRow' = IF id = renewed THEN lastRow + 1 ELSE lastRow
           /\ rowLinks' = IF q.op = "compose" THEN Linked(q.role, id, q.set) ELSE Unlinked(q.role)
           /\ rcall' = [rcall EXCEPT ![c] = NoRequest] /\ UNCHANGED <<blurred, roleFaults>>
  <2> HIDE DEF renewed
  <2> QED BY <1>1, <1>2, MirroredKeeps DEF renewed
<1>3. CASE GivesUp(c) /\ UNCHANGED <<rowId, rowLinks, lastRow>> /\ (UNCHANGED roleFaults \/ RoleFault)
  <2>1. roleFaults' \in 0..MaxRoleFaults
    BY <1>1, <1>3, RolesAssumption DEF RoleFault
  <2> QED BY <1>1, <1>3, <2>1, GivingUpKeeps
<1> QED BY <1>2, <1>3 DEF MirrorRole

(* The client is deleted: what its roles were, the rows remember. *)
LEMMA ArchiveClientKeeps ==
  ASSUME RolesInv, ArchiveClient
  PROVE  RolesInv'
<1>1. /\ phase = "active" /\ phase' = "archived" /\ was' = [roles |-> kc, links |-> links]
      /\ kc' = {} /\ links' = NoLinks
      /\ blurred' = blurred \cup UNION {Names(c) : c \in RoleCaller}
      /\ UNCHANGED <<rowId, rowLinks, lastRow, changes, rcall, snapshot, restorer, recorded, late, roleFaults>>
  BY DEF ArchiveClient
<1>2. \A c \in RoleCaller : Names(c) \subseteq Role
  BY RequestIs DEF RolesInv, RequestShape, Names
<1>3. blurred' \subseteq Role /\ blurred \subseteq blurred' /\ \A c \in RoleCaller : Names(c) \subseteq blurred'
  BY <1>1, <1>2 DEF RolesInv, RolesTypeOK
<1>4. links' \in [Role -> SUBSET Role] /\ \A m \in Role : links'[m] = {}
  BY <1>1 DEF NoLinks
<1>5. RolesTypeOK'
  BY <1>1, <1>3, <1>4 DEF RolesInv, RolesTypeOK
<1>6. UNCHANGED <<Rows, InFlight>> /\ (\A m \in Role : LinkedRows(m)' = LinkedRows(m))
      /\ (\A c \in RoleCaller : Names(c)' = Names(c))
  BY <1>1 DEF Rows, InFlight, LinkedRows, Names
<1>7. RoleCounts' /\ RowIds' /\ RequestShape'
  BY <1>1, <1>6 DEF RolesInv, RoleCounts, RowIds, RequestShape
<1>8. LinksExist'
  BY <1>4 DEF LinksExist
<1>9. OverlapsBlur'
  BY <1>3, <1>6 DEF RolesInv, OverlapsBlur, InFlight
<1>10. MirrorStands'
  BY <1>1 DEF MirrorStands
<1>11. RowsRemember'
  <2>1. ASSUME NEW n \in kc \ blurred' PROVE n \in Rows /\ links[n] \ blurred' \subseteq LinkedRows(n)
    <3>1. n \in Role /\ n \in Clean /\ links[n] \subseteq Role
      BY <1>3 DEF RolesInv, RolesTypeOK, Clean
    <3>2. \A c \in InFlight : rcall[c].role # n
      BY <1>3, <2>1 DEF InFlight, Names
    <3>3. n \in kc <=> n \in Rows
      BY <1>1, <3>1, <3>2 DEF RolesInv, MirrorStands
    <3>4. ~Sits(n, "compose", "mirror")
      BY <3>2 DEF Sits
    <3>5. links[n] \cap Clean \subseteq LinkedRows(n)
      BY <1>1, <3>1, <3>4 DEF RolesInv, MirrorStands
    <3>6. links[n] \ blurred' \subseteq links[n] \cap Clean
      BY <1>3, <3>1 DEF Clean
    <3> QED BY <2>1, <3>3, <3>5, <3>6
  <2>2. was'.roles = kc /\ was'.links = links /\ kc \subseteq Role
    BY <1>1 DEF RolesInv, RolesTypeOK
  <2>3. ASSUME NEW n \in was'.roles \ blurred' PROVE n \in Rows' /\ was'.links[n] \ blurred' \subseteq LinkedRows(n)'
    BY <1>6, <2>1, <2>2
  <2> QED BY <1>1, <1>3, <1>6, <2>3 DEF RowsRemember
<1>12. NothingRestored' /\ RestorerShape'
  BY <1>1 DEF RolesInv, NothingRestored, RestorerShape
<1>13. OneAttempt'
  BY <1>1 DEF OneAttempt
<1> QED BY <1>5, <1>7, <1>8, <1>9, <1>10, <1>11, <1>12, <1>13 DEF RolesInv

(* The client is created again, without a role. *)
LEMMA RecreateClientKeeps ==
  ASSUME RolesInv, RecreateClient
  PROVE  RolesInv'
<1>1. /\ phase = "archived" /\ phase' = "restoring" /\ \A c \in RoleCaller : rcall[c] = NoRequest
      /\ UNCHANGED <<kc, links, rowId, rowLinks, lastRow, changes, rcall, blurred, was, snapshot, restorer, recorded, late, roleFaults>>
  BY DEF RecreateClient
<1>2. UNCHANGED <<Rows, InFlight>> /\ (\A m \in Role : LinkedRows(m)' = LinkedRows(m))
      /\ (\A c \in RoleCaller : Names(c)' = Names(c)) /\ InFlight = {}
  BY <1>1 DEF Rows, InFlight, LinkedRows, Names
<1>3. RolesTypeOK' /\ RoleCounts' /\ RowIds' /\ LinksExist' /\ RequestShape' /\ OverlapsBlur' /\ RestorerShape'
  <2>1. RolesTypeOK'
    BY <1>1 DEF RolesInv, RolesTypeOK
  <2>2. RoleCounts' /\ RowIds' /\ LinksExist'
    BY <1>1, <1>2 DEF RolesInv, RoleCounts, RowIds, LinksExist
  <2>3. RequestShape' /\ OverlapsBlur' /\ RestorerShape'
    BY <1>1, <1>2 DEF RolesInv, RequestShape, OverlapsBlur, RestorerShape
  <2> QED BY <2>1, <2>2, <2>3
<1>4. MirrorStands' /\ NothingRestored'
  BY <1>1 DEF MirrorStands, NothingRestored
<1>5. kc = {} /\ snapshot = NotStored /\ \A r \in Restorer : restorer[r] = NoRestore
  BY <1>1 DEF RolesInv, RowsRemember, NothingRestored
<1>6. RowsRemember'
  <2>1. was.roles \subseteq Role
    BY DEF RolesInv, RolesTypeOK
  <2>2. /\ \A c \in RoleCaller : Names(c) \subseteq blurred
        /\ \A n \in was.roles \ blurred : n \in Rows /\ was.links[n] \ blurred \subseteq LinkedRows(n)
    BY <1>1 DEF RolesInv, RowsRemember
  <2>3. \A n \in was'.roles \ blurred' : n \in Rows' /\ was'.links[n] \ blurred' \subseteq LinkedRows(n)'
    BY <1>1, <1>2, <2>1, <2>2
  <2> QED BY <1>1, <1>2, <2>2, <2>3 DEF RowsRemember
<1>7. OneAttempt'
  <2>1. snapshot'.roles = {} /\ kc' = {} /\ phase' # "restored" /\ \A r \in Restorer : restorer'[r] = NoRestore
    BY <1>1, <1>5 DEF NotStored
  <2> QED BY <2>1 DEF OneAttempt
<1> QED BY <1>3, <1>4, <1>6, <1>7 DEF RolesInv

(* Steps of a restore: the rows and what was deleted rest. *)
LEMMA RestoringKeeps ==
  ASSUME RolesInv, phase \in {"restoring", "restored"}, phase' \in {"restoring", "restored"},
         UNCHANGED <<rowId, rowLinks, lastRow, changes, rcall, was>>, blurred \subseteq blurred',
         RolesTypeOK', LinksExist', RestorerShape', OneAttempt'
  PROVE  RolesInv'
<1>1. UNCHANGED <<Rows, InFlight>> /\ (\A m \in Role : LinkedRows(m)' = LinkedRows(m))
      /\ (\A c \in RoleCaller : Names(c)' = Names(c))
  BY DEF Rows, InFlight, LinkedRows, Names
<1>2. RoleCounts' /\ RowIds' /\ RequestShape' /\ OverlapsBlur'
  <2>1. RoleCounts' /\ RowIds'
    BY <1>1 DEF RolesInv, RoleCounts, RowIds
  <2>2. RequestShape'
    BY DEF RolesInv, RequestShape
  <2>3. OverlapsBlur'
    BY <1>1 DEF RolesInv, OverlapsBlur, InFlight
  <2> QED BY <2>1, <2>2, <2>3
<1>3. MirrorStands' /\ NothingRestored'
  BY DEF MirrorStands, NothingRestored
<1>4. RowsRemember'
  <2>1. was.roles \subseteq Role
    BY DEF RolesInv, RolesTypeOK
  <2>2. /\ \A c \in RoleCaller : Names(c) \subseteq blurred
        /\ InFlight = {} /\ \A n \in was.roles \ blurred : n \in Rows /\ was.links[n] \ blurred \subseteq LinkedRows(n)
    BY DEF RolesInv, RowsRemember
  <2>3. ASSUME NEW n \in was.roles \ blurred' PROVE n \in Rows' /\ was.links[n] \ blurred' \subseteq LinkedRows(n)'
    BY <1>1, <2>1, <2>2
  <2> QED BY <1>1, <2>2, <2>3 DEF RowsRemember
<1> QED BY <1>2, <1>3, <1>4 DEF RolesInv

(* An attempt that runs, runs alone unless one timed out. *)
LEMMA AttemptIs ==
  ASSUME RolesInv, NEW r \in Restorer, restorer[r].at # "idle"
  PROVE  /\ phase \in {"restoring", "restored"} /\ restorer[r] \in AttemptType /\ restorer[r] # NoRestore
         /\ ~late => /\ snapshot.roles = {} /\ (~snapshot.stored => kc = {})
                     /\ restorer[r].awaited /\ restorer[r].snap = {} /\ phase = "restoring"
                     /\ restorer[r].at = "snapshot" <=> ~snapshot.stored
                     /\ \A q \in Restorer : restorer[q] # NoRestore => q = r
                     /\ Cardinality(Rows) <= BulkLimit => AttemptStands(restorer[r])
<1>1. phase \in {"active", "archived", "restoring", "restored"} /\ restorer[r] \in AttemptType
  BY DEF RolesInv, RolesTypeOK, AttemptType
<1>2. restorer[r] # NoRestore
  BY Nothing
<1>3. phase \notin {"active", "archived"}
  BY <1>2 DEF RolesInv, NothingRestored
<1> QED BY <1>1, <1>2, <1>3 DEF RolesInv, OneAttempt

(* A step of an attempt past its snapshot. *)
LEMMA AttemptSteps ==
  ASSUME RolesInv, NEW r \in Restorer, restorer[r].at \notin {"idle", "snapshot"},
         NEW v \in AttemptType, restorer' = [restorer EXCEPT ![r] = v], v.at \notin {"idle", "snapshot"},
         v.at = "link" => v.on \in Role, v.awaited = restorer[r].awaited, v.snap = restorer[r].snap,
         UNCHANGED <<rowId, rowLinks, lastRow, changes, rcall, phase, was, snapshot, late>>,
         blurred \subseteq blurred', blurred' \subseteq Role, kc' \subseteq Role, links' \in [Role -> SUBSET Role],
         LinksExist', recorded' \in [Role -> 0..2], \A n \in Role : recorded'[n] <= 1, roleFaults' \in 0..MaxRoleFaults,
         restorer[r].snap = {} /\ AttemptStands(restorer[r]) => AttemptStands(v)'
  PROVE  RolesInv'
<1>1. /\ restorer' \in [Restorer -> AttemptType] /\ restorer'[r] = v
      /\ \A q \in Restorer : q # r => restorer'[q] = restorer[q]
  BY AttemptMoves DEF RolesInv
<1>2. /\ phase \in {"restoring", "restored"} /\ restorer[r] # NoRestore
      /\ ~late => /\ snapshot.roles = {}
                  /\ restorer[r].awaited /\ restorer[r].snap = {} /\ phase = "restoring"
                  /\ restorer[r].at = "snapshot" <=> ~snapshot.stored
                  /\ \A q \in Restorer : restorer[q] # NoRestore => q = r
                  /\ Cardinality(Rows) <= BulkLimit => AttemptStands(restorer[r])
  BY AttemptIs
<1>3. v # NoRestore
  BY Nothing
<1>4. RolesTypeOK'
  BY <1>1 DEF RolesInv, RolesTypeOK, AttemptType
<1>5. RestorerShape'
  BY <1>1, <1>3 DEF RolesInv, RestorerShape
<1>6. OneAttempt'
  <2> SUFFICES ASSUME ~late PROVE OneAttempt'
    BY DEF OneAttempt
  <2>1. Rows' = Rows
    BY DEF Rows
  <2>2. ASSUME NEW q \in Restorer, restorer'[q] # NoRestore PROVE q = r
    BY <1>1, <1>2, <2>2
  <2>3. Cardinality(Rows) <= BulkLimit => AttemptStands(v)'
    BY <1>2
  <2>4. v.awaited /\ v.snap = {} /\ (v.at = "snapshot" <=> ~snapshot.stored) /\ snapshot.stored
    BY <1>2
  <2>5. ASSUME NEW q \in Restorer, restorer'[q] # NoRestore
        PROVE  /\ restorer'[q].awaited /\ restorer'[q].snap = {} /\ phase' = "restoring"
               /\ restorer'[q].at = "snapshot" <=> ~snapshot'.stored
               /\ \A p \in Restorer : restorer'[p] # NoRestore => p = q
               /\ Cardinality(Rows') <= BulkLimit => AttemptStands(restorer[q])'
    <3>1. q = r /\ restorer'[q] = v
      BY <1>1, <2>2, <2>5
    <3>2. AttemptStands(v)' => AttemptStands(restorer[q])'
      BY <3>1
    <3> QED BY <1>2, <2>1, <2>2, <2>3, <2>4, <3>1, <3>2
  <2> QED BY <1>2, <2>4, <2>5 DEF OneAttempt
<1> QED BY <1>2, <1>4, <1>5, <1>6, RestoringKeeps

(* An attempt begins with every row, where there are not too many. *)
LEMMA StartRestoreKeeps ==
  ASSUME RolesInv, NEW r \in Restorer, StartRestore(r)
  PROVE  RolesInv'
<1>1. PICK s \in Taken :
        restorer' = [restorer EXCEPT ![r] = [NoRestore EXCEPT !.at = IF snapshot.stored THEN "create" ELSE "snapshot",
                                                              !.todo = s, !.snap = snapshot.roles, !.awaited = TRUE]]
  BY DEF StartRestore
<1>2. /\ phase = "restoring" /\ restorer[r] = NoRestore /\ \A q \in Restorer : ~restorer[q].awaited
      /\ UNCHANGED <<kc, links, rowId, rowLinks, lastRow, changes, rcall, phase, blurred, was, snapshot, recorded, late, roleFaults>>
  BY DEF StartRestore
<1>0. PICK v : v = [NoRestore EXCEPT !.at = IF snapshot.stored THEN "create" ELSE "snapshot",
                                      !.todo = s, !.snap = snapshot.roles, !.awaited = TRUE]
  OBVIOUS
<1>3. s \subseteq Rows /\ Rows \subseteq Role /\ snapshot \in [stored : BOOLEAN, roles : SUBSET Role]
  BY DEF Taken, Rows, RolesInv, RolesTypeOK
<1>4. /\ v \in AttemptType /\ v.at = (IF snapshot.stored THEN "create" ELSE "snapshot") /\ v.todo = s
      /\ v.snap = snapshot.roles /\ v.awaited /\ v.made = {}
  BY <1>0, <1>3 DEF NoRestore, AttemptType
<1>5. restorer' = [restorer EXCEPT ![r] = v]
  BY <1>0, <1>1
<1>6. /\ restorer' \in [Restorer -> AttemptType] /\ restorer'[r] = v
      /\ \A q \in Restorer : q # r => restorer'[q] = restorer[q]
  BY <1>4, <1>5, AttemptMoves DEF RolesInv
<1>7. v # NoRestore /\ v.at # "idle" /\ v.at # "link"
  BY <1>4, Nothing
<1>8. RolesTypeOK'
  BY <1>2, <1>6 DEF RolesInv, RolesTypeOK, AttemptType
<1>9. RestorerShape' /\ LinksExist'
  BY <1>2, <1>6, <1>7 DEF RolesInv, RestorerShape, LinksExist
<1>10. Cardinality(Rows) <= BulkLimit => s = Rows
  <2>1. Cardinality(s) = IF Cardinality(Rows) < BulkLimit THEN Cardinality(Rows) ELSE BulkLimit
    BY DEF Taken
  <2>2. IsFiniteSet(Rows) /\ Cardinality(Rows) \in Nat
    BY FS_CardinalityType DEF RolesInv, RoleCounts
  <2>3. Cardinality(Rows) <= BulkLimit => Cardinality(s) = Cardinality(Rows)
    BY <2>1, <2>2, RolesAssumption
  <2> QED BY <1>3, <2>2, <2>3, FS_Subset
<1>11. OneAttempt'
  <2> SUFFICES ASSUME ~late PROVE OneAttempt'
    BY <1>2 DEF OneAttempt
  <2>1. Rows' = Rows
    BY <1>2 DEF Rows
  <2>2. \A q \in Restorer : restorer[q] = NoRestore
    BY <1>2 DEF RolesInv, OneAttempt
  <2>3. snapshot.roles = {} /\ (~snapshot.stored => kc = {})
    BY <1>2 DEF RolesInv, OneAttempt
  <2>4. Cardinality(Rows) <= BulkLimit => AttemptStands(v)'
    BY <1>2, <1>4, <1>10, <2>1 DEF AttemptStands
  <2>5. ASSUME NEW q \in Restorer, restorer'[q] # NoRestore
        PROVE  /\ restorer'[q].awaited /\ restorer'[q].snap = {} /\ phase' = "restoring"
               /\ restorer'[q].at = "snapshot" <=> ~snapshot'.stored
               /\ \A p \in Restorer : restorer'[p] # NoRestore => p = q
               /\ Cardinality(Rows') <= BulkLimit => AttemptStands(restorer[q])'
    <3>1. q = r /\ restorer'[q] = v
      BY <1>6, <2>2, <2>5
    <3>2. AttemptStands(v)' => AttemptStands(restorer[q])'
      BY <3>1
    <3>3. \A p \in Restorer : restorer'[p] # NoRestore => p = r
      BY <1>6, <2>2
    <3> QED BY <1>2, <1>4, <2>1, <2>3, <2>4, <3>1, <3>2, <3>3
  <2> QED BY <1>2, <2>3, <2>5 DEF OneAttempt
<1> QED BY <1>2, <1>8, <1>9, <1>11, RestoringKeeps

(* The first attempt finds a client without roles. *)
LEMMA TakeSnapshotKeeps ==
  ASSUME RolesInv, NEW r \in Restorer, TakeSnapshot(r)
  PROVE  RolesInv'
<1> DEFINE a == restorer[r]
<1>0. PICK v : v = [a EXCEPT !.at = "create", !.snap = kc]
  OBVIOUS
<1>1. /\ a.at = "snapshot" /\ snapshot' = [stored |-> TRUE, roles |-> kc]
      /\ UNCHANGED <<kc, links, rowId, rowLinks, lastRow, changes, rcall, phase, blurred, was, recorded, late, roleFaults>>
  BY DEF TakeSnapshot
<1>2. /\ phase \in {"restoring", "restored"} /\ a \in AttemptType /\ a # NoRestore
      /\ ~late => /\ snapshot.roles = {} /\ (~snapshot.stored => kc = {})
                  /\ a.awaited /\ a.snap = {} /\ phase = "restoring"
                  /\ a.at = "snapshot" <=> ~snapshot.stored
                  /\ \A q \in Restorer : restorer[q] # NoRestore => q = r
                  /\ Cardinality(Rows) <= BulkLimit => AttemptStands(a)
  BY <1>1, AttemptIs
<1>3. kc \subseteq Role
  BY DEF RolesInv, RolesTypeOK
<1>4. /\ v \in AttemptType /\ v.at = "create" /\ v.snap = kc /\ v.todo = a.todo /\ v.made = a.made
      /\ v.awaited = a.awaited
  BY <1>0, <1>2, <1>3 DEF AttemptType
<1>5. restorer' = [restorer EXCEPT ![r] = v]
  BY <1>0, <1>1 DEF TakeSnapshot, RolesInv, RolesTypeOK
<1>6. /\ restorer' \in [Restorer -> AttemptType] /\ restorer'[r] = v
      /\ \A q \in Restorer : q # r => restorer'[q] = restorer[q]
  BY <1>4, <1>5, AttemptMoves DEF RolesInv
<1>7. v # NoRestore
  BY <1>4, Nothing
<1>8. RolesTypeOK'
  <2>1. snapshot' \in [stored : BOOLEAN, roles : SUBSET Role]
    BY <1>1, <1>3
  <2> QED BY <1>1, <1>6, <2>1 DEF RolesInv, RolesTypeOK, AttemptType
<1>9. RestorerShape' /\ LinksExist'
  BY <1>1, <1>4, <1>6, <1>7 DEF RolesInv, RestorerShape, LinksExist
<1>10. OneAttempt'
  <2> SUFFICES ASSUME ~late PROVE OneAttempt'
    BY <1>1 DEF OneAttempt
  <2>1. Rows' = Rows
    BY <1>1 DEF Rows
  <2>2. kc = {} /\ snapshot'.roles = {} /\ snapshot'.stored /\ kc' = {} /\ v.snap = {} /\ v.awaited /\ phase = "restoring"
    BY <1>1, <1>2, <1>4
  <2>3. Cardinality(Rows) <= BulkLimit => AttemptStands(v)'
    BY <1>1, <1>2, <1>4, <2>1 DEF AttemptStands
  <2>4. ASSUME NEW q \in Restorer, restorer'[q] # NoRestore
        PROVE  /\ restorer'[q].awaited /\ restorer'[q].snap = {} /\ phase' = "restoring"
               /\ restorer'[q].at = "snapshot" <=> ~snapshot'.stored
               /\ \A p \in Restorer : restorer'[p] # NoRestore => p = q
               /\ Cardinality(Rows') <= BulkLimit => AttemptStands(restorer[q])'
    <3>1. q = r /\ restorer'[q] = v /\ v.at # "snapshot"
      BY <1>2, <1>4, <1>6, <2>4
    <3>2. AttemptStands(v)' => AttemptStands(restorer[q])'
      BY <3>1
    <3>3. \A p \in Restorer : restorer'[p] # NoRestore => p = r
      BY <1>2, <1>6
    <3> QED BY <1>1, <2>1, <2>2, <2>3, <3>1, <3>2, <3>3
  <2> QED BY <1>1, <2>2, <2>4 DEF OneAttempt
<1> QED BY <1>1, <1>2, <1>8, <1>9, <1>10, RestoringKeeps

(* A role is re-created, or refused and passed over. *)
LEMMA RecreateKeeps ==
  ASSUME RolesInv, NEW r \in Restorer, NEW n \in Role, Recreate(r, n)
  PROVE  RolesInv'
<1> DEFINE a == restorer[r]
<1>1. /\ a.at = "create" /\ n \in a.todo
      /\ UNCHANGED <<links, rowId, rowLinks, lastRow, changes, rcall, phase, was, snapshot, recorded, late>>
  BY DEF Recreate
<1>2. a \in AttemptType /\ kc \subseteq Role /\ blurred \subseteq Role
  BY DEF RolesInv, RolesTypeOK, AttemptType
<1>3. UNCHANGED Rows /\ Rows \subseteq Role
  BY <1>1 DEF Rows
<1>4. LinksExist /\ links \in [Role -> SUBSET Role] /\ recorded \in [Role -> 0..2] /\ \A m \in Role : recorded[m] <= 1
  BY DEF RolesInv, RolesTypeOK, RestorerShape
<1>5. CASE /\ kc' = kc \cup {n} /\ UNCHANGED <<blurred, roleFaults>>
           /\ restorer' = [restorer EXCEPT ![r].todo = @ \ {n}, ![r].made = @ \cup {n}]
  <2>0. PICK v : v = [a EXCEPT !.todo = @ \ {n}, !.made = @ \cup {n}]
    OBVIOUS
  <2>1. /\ v \in AttemptType /\ v.at = "create" /\ v.todo = a.todo \ {n} /\ v.made = a.made \cup {n}
        /\ v.awaited = a.awaited /\ v.snap = a.snap
    BY <1>1, <1>2, <2>0 DEF AttemptType
  <2>2. restorer' = [restorer EXCEPT ![r] = v]
    BY <1>5, <2>0 DEF RolesInv, RolesTypeOK
  <2>3. AttemptStands(a) => AttemptStands(v)'
    BY <1>1, <1>3, <1>5, <2>1 DEF AttemptStands
  <2>4. LinksExist' /\ roleFaults' \in 0..MaxRoleFaults
    BY <1>1, <1>4, <1>5 DEF LinksExist, RolesInv, RolesTypeOK
  <2> QED BY <1>1, <1>2, <1>4, <1>5, <2>1, <2>2, <2>3, <2>4, AttemptSteps
<1>6. CASE /\ RoleFault /\ n \notin kc /\ restorer' = [restorer EXCEPT ![r].todo = @ \ {n}]
           /\ blurred' = blurred \cup {n} /\ UNCHANGED kc
  <2>0. PICK v : v = [a EXCEPT !.todo = @ \ {n}]
    OBVIOUS
  <2>1. /\ v \in AttemptType /\ v.at = "create" /\ v.todo = a.todo \ {n} /\ v.made = a.made
        /\ v.awaited = a.awaited /\ v.snap = a.snap
    BY <1>1, <1>2, <2>0 DEF AttemptType
  <2>2. restorer' = [restorer EXCEPT ![r] = v]
    BY <1>6, <2>0 DEF RolesInv, RolesTypeOK
  <2>3. AttemptStands(a) => AttemptStands(v)'
    BY <1>1, <1>3, <1>6, <2>1 DEF AttemptStands
  <2>4. LinksExist' /\ roleFaults' \in 0..MaxRoleFaults
    BY <1>1, <1>4, <1>6, RolesAssumption DEF LinksExist, RoleFault, RolesInv, RolesTypeOK
  <2> QED BY <1>1, <1>2, <1>4, <1>6, <2>1, <2>2, <2>3, <2>4, AttemptSteps
<1> QED BY <1>5, <1>6 DEF Recreate

(* What was re-created and not there before is to be recorded. *)
LEMMA StartRecordingKeeps ==
  ASSUME RolesInv, NEW r \in Restorer, StartRecording(r)
  PROVE  RolesInv'
<1> DEFINE a == restorer[r]
<1>0. PICK v : v = [a EXCEPT !.at = "record", !.todo = a.made \ a.snap]
  OBVIOUS
<1>1. /\ a.at = "create" /\ a.todo = {}
      /\ UNCHANGED <<kc, links, rowId, rowLinks, lastRow, changes, rcall, phase, blurred, was, snapshot, recorded, late, roleFaults>>
  BY DEF StartRecording
<1>2. a \in AttemptType /\ kc \subseteq Role /\ blurred \subseteq Role /\ roleFaults \in 0..MaxRoleFaults
  BY DEF RolesInv, RolesTypeOK, AttemptType
<1>3. LinksExist' /\ links \in [Role -> SUBSET Role] /\ recorded \in [Role -> 0..2] /\ \A m \in Role : recorded[m] <= 1
  BY <1>1 DEF RolesInv, RolesTypeOK, RestorerShape, LinksExist
<1>4. /\ v \in AttemptType /\ v.at = "record" /\ v.todo = a.made \ a.snap /\ v.made = a.made
      /\ v.awaited = a.awaited /\ v.snap = a.snap
  BY <1>0, <1>2 DEF AttemptType
<1>5. restorer' = [restorer EXCEPT ![r] = v]
  BY <1>0 DEF StartRecording, RolesInv, RolesTypeOK
<1>6. UNCHANGED Rows
  BY <1>1 DEF Rows
<1>7. a.snap = {} /\ AttemptStands(a) => AttemptStands(v)'
  BY <1>1, <1>4, <1>6 DEF AttemptStands
<1> QED BY <1>1, <1>2, <1>3, <1>4, <1>5, <1>7, AttemptSteps

(* A creation is recorded unless it has been. *)
LEMMA RecordCreationKeeps ==
  ASSUME RolesInv, NEW r \in Restorer, NEW n \in Role, RecordCreation(r, n)
  PROVE  RolesInv'
<1> DEFINE a == restorer[r]
<1>0. PICK v : v = [a EXCEPT !.todo = @ \ {n}]
  OBVIOUS
<1>1. /\ a.at = "record" /\ n \in a.todo
      /\ recorded' = IF Unrecorded(n) THEN [recorded EXCEPT ![n] = @ + 1] ELSE recorded
      /\ UNCHANGED <<kc, links, rowId, rowLinks, lastRow, changes, rcall, phase, blurred, was, snapshot, late, roleFaults>>
  BY DEF RecordCreation
<1>2. a \in AttemptType /\ kc \subseteq Role /\ blurred \subseteq Role /\ roleFaults \in 0..MaxRoleFaults
  BY DEF RolesInv, RolesTypeOK, AttemptType
<1>3. LinksExist' /\ links \in [Role -> SUBSET Role]
  BY <1>1 DEF RolesInv, RolesTypeOK, LinksExist
<1>4. recorded \in [Role -> 0..2] /\ \A m \in Role : recorded[m] <= 1
  BY DEF RolesInv, RolesTypeOK, RestorerShape
<1>5. recorded' \in [Role -> 0..2] /\ recorded'[n] = 1 /\ \A m \in Role : m # n => recorded'[m] = recorded[m]
  <2>1. CASE recorded[n] = 0
    BY <1>1, <1>4, <2>1 DEF Unrecorded
  <2>2. CASE recorded[n] # 0
    BY <1>1, <1>4, <2>2 DEF Unrecorded
  <2> QED BY <2>1, <2>2
<1>6. /\ v \in AttemptType /\ v.at = "record" /\ v.todo = a.todo \ {n} /\ v.made = a.made
      /\ v.awaited = a.awaited /\ v.snap = a.snap
  BY <1>0, <1>1, <1>2 DEF AttemptType
<1>7. restorer' = [restorer EXCEPT ![r] = v]
  BY <1>0 DEF RecordCreation, RolesInv, RolesTypeOK
<1>8. UNCHANGED Rows
  BY <1>1 DEF Rows
<1>9. AttemptStands(a) => AttemptStands(v)'
  <2>1. a.made \subseteq Role
    BY <1>2 DEF AttemptType
  <2> QED BY <1>1, <1>5, <1>6, <1>8, <2>1 DEF AttemptStands
<1>10. \A m \in Role : recorded'[m] <= 1
  BY <1>4, <1>5
<1> QED BY <1>1, <1>2, <1>3, <1>5, <1>6, <1>7, <1>9, <1>10, AttemptSteps

(* Every row with links is to be linked again. *)
LEMMA StartLinkingKeeps ==
  ASSUME RolesInv, NEW r \in Restorer, StartLinking(r)
  PROVE  RolesInv'
<1> DEFINE a == restorer[r]
<1>0. PICK v : v = [a EXCEPT !.at = "clear", !.todo = {n \in Rows : rowLinks[n] # {}}]
  OBVIOUS
<1>1. /\ a.at = "record" /\ a.todo = {}
      /\ UNCHANGED <<kc, links, rowId, rowLinks, lastRow, changes, rcall, phase, blurred, was, snapshot, recorded, late, roleFaults>>
  BY DEF StartLinking
<1>2. a \in AttemptType /\ kc \subseteq Role /\ blurred \subseteq Role /\ roleFaults \in 0..MaxRoleFaults /\ Rows \subseteq Role
  BY DEF RolesInv, RolesTypeOK, AttemptType, Rows
<1>3. LinksExist' /\ links \in [Role -> SUBSET Role] /\ recorded \in [Role -> 0..2] /\ \A m \in Role : recorded[m] <= 1
  BY <1>1 DEF RolesInv, RolesTypeOK, RestorerShape, LinksExist
<1>4. /\ v \in AttemptType /\ v.at = "clear" /\ v.todo = {n \in Rows : rowLinks[n] # {}}
      /\ v.awaited = a.awaited /\ v.snap = a.snap
  BY <1>0, <1>2 DEF AttemptType
<1>5. restorer' = [restorer EXCEPT ![r] = v]
  BY <1>0 DEF StartLinking, RolesInv, RolesTypeOK
<1>6. UNCHANGED Rows /\ \A m \in Role : LinkedRows(m)' = LinkedRows(m)
  BY <1>1 DEF Rows, LinkedRows
<1>7. AttemptStands(a) => AttemptStands(v)'
  <2> SUFFICES ASSUME AttemptStands(a) PROVE AttemptStands(v)'
    OBVIOUS
  <2>1. \A n \in Rows \ blurred : n \in kc /\ recorded[n] = 1
    BY <1>1 DEF AttemptStands
  <2>2. ASSUME NEW n \in Rows, n \notin v.todo PROVE LinkedRows(n) = {}
    <3>1. rowLinks[n] = {}
      BY <1>4, <2>2
    <3> QED BY <3>1 DEF LinkedRows
  <2>3. \A n \in Rows' : n \notin v.todo /\ ~(v.at = "link" /\ n = v.on) => LinkedRows(n)' \subseteq links'[n]
    BY <1>2, <1>6, <2>2
  <2> QED BY <1>1, <1>4, <1>6, <2>1, <2>3 DEF AttemptStands
<1> QED BY <1>1, <1>2, <1>3, <1>4, <1>5, <1>7, AttemptSteps

(* The links of one role are taken away before they are set. *)
LEMMA ClearLinksKeeps ==
  ASSUME RolesInv, NEW r \in Restorer, NEW n \in Role, ClearLinks(r, n)
  PROVE  RolesInv'
<1> DEFINE a == restorer[r]
<1>0. PICK v : v = [a EXCEPT !.at = "link", !.on = n, !.todo = @ \ {n}]
  OBVIOUS
<1>1. /\ a.at = "clear" /\ n \in a.todo /\ n \in kc /\ links' = [links EXCEPT ![n] = {}]
      /\ UNCHANGED <<kc, rowId, rowLinks, lastRow, changes, rcall, phase, blurred, was, snapshot, recorded, late, roleFaults>>
  BY DEF ClearLinks
<1>2. a \in AttemptType /\ kc \subseteq Role /\ blurred \subseteq Role /\ roleFaults \in 0..MaxRoleFaults
  BY DEF RolesInv, RolesTypeOK, AttemptType
<1>3. recorded \in [Role -> 0..2] /\ (\A m \in Role : recorded[m] <= 1) /\ links \in [Role -> SUBSET Role]
  BY DEF RolesInv, RolesTypeOK, RestorerShape
<1>4. links' \in [Role -> SUBSET Role] /\ links'[n] = {} /\ \A m \in Role : m # n => links'[m] = links[m]
  BY <1>1, <1>3
<1>5. LinksExist'
  BY <1>1, <1>4 DEF RolesInv, LinksExist
<1>6. /\ v \in AttemptType /\ v.at = "link" /\ v.on = n /\ v.todo = a.todo \ {n}
      /\ v.awaited = a.awaited /\ v.snap = a.snap
  BY <1>0, <1>1, <1>2 DEF AttemptType
<1>7. restorer' = [restorer EXCEPT ![r] = v]
  BY <1>0 DEF ClearLinks, RolesInv, RolesTypeOK
<1>8. UNCHANGED Rows /\ Rows \subseteq Role /\ \A m \in Role : LinkedRows(m)' = LinkedRows(m)
  BY <1>1 DEF Rows, LinkedRows
<1>9. AttemptStands(a) => AttemptStands(v)'
  <2> SUFFICES ASSUME AttemptStands(a) PROVE AttemptStands(v)'
    OBVIOUS
  <2>1. /\ \A m \in Rows \ blurred : m \in kc /\ recorded[m] = 1
        /\ \A m \in Rows : m \notin a.todo => LinkedRows(m) \subseteq links[m]
    BY <1>1 DEF AttemptStands
  <2>2. \A m \in Rows' : m \notin v.todo /\ ~(v.at = "link" /\ m = v.on) => LinkedRows(m)' \subseteq links'[m]
    BY <1>4, <1>6, <1>8, <2>1
  <2> QED BY <1>1, <1>6, <1>8, <2>1, <2>2 DEF AttemptStands
<1> QED BY <1>1, <1>2, <1>3, <1>4, <1>5, <1>6, <1>7, <1>9, AttemptSteps

(* They are set to what the row lists. *)
LEMMA LinkAgainKeeps ==
  ASSUME RolesInv, NEW r \in Restorer, LinkAgain(r)
  PROVE  RolesInv'
<1> DEFINE a == restorer[r]
<1>0. PICK v : v = [a EXCEPT !.at = "clear", !.on = "none"]
  OBVIOUS
<1>n. PICK n : n = a.on
  OBVIOUS
<1>1. /\ a.at = "link" /\ n \in kc /\ LinkedRows(n) \subseteq kc /\ links' = [links EXCEPT ![n] = LinkedRows(n)]
      /\ UNCHANGED <<kc, rowId, rowLinks, lastRow, changes, rcall, phase, blurred, was, snapshot, recorded, late, roleFaults>>
  BY <1>n DEF LinkAgain
<1>2. a \in AttemptType /\ kc \subseteq Role /\ blurred \subseteq Role /\ roleFaults \in 0..MaxRoleFaults
  BY DEF RolesInv, RolesTypeOK, AttemptType
<1>3. recorded \in [Role -> 0..2] /\ (\A m \in Role : recorded[m] <= 1) /\ links \in [Role -> SUBSET Role]
  BY DEF RolesInv, RolesTypeOK, RestorerShape
<1>4. n \in Role /\ links' \in [Role -> SUBSET Role] /\ links'[n] = LinkedRows(n)
      /\ \A m \in Role : m # n => links'[m] = links[m]
  BY <1>1, <1>2, <1>3
<1>5. LinksExist'
  BY <1>1, <1>4 DEF RolesInv, LinksExist
<1>6. /\ v \in AttemptType /\ v.at = "clear" /\ v.todo = a.todo
      /\ v.awaited = a.awaited /\ v.snap = a.snap
  BY <1>0, <1>1, <1>2 DEF AttemptType
<1>7. restorer' = [restorer EXCEPT ![r] = v]
  BY <1>0 DEF LinkAgain, RolesInv, RolesTypeOK
<1>8. UNCHANGED Rows /\ Rows \subseteq Role /\ \A m \in Role : LinkedRows(m)' = LinkedRows(m)
  BY <1>1 DEF Rows, LinkedRows
<1>9. AttemptStands(a) => AttemptStands(v)'
  <2> SUFFICES ASSUME AttemptStands(a) PROVE AttemptStands(v)'
    OBVIOUS
  <2>1. /\ \A m \in Rows \ blurred : m \in kc /\ recorded[m] = 1
        /\ \A m \in Rows : m \notin a.todo /\ m # n => LinkedRows(m) \subseteq links[m]
    BY <1>1, <1>n DEF AttemptStands
  <2>2. \A m \in Rows' : m \notin v.todo /\ ~(v.at = "link" /\ m = v.on) => LinkedRows(m)' \subseteq links'[m]
    BY <1>4, <1>6, <1>8, <2>1
  <2> QED BY <1>1, <1>6, <1>8, <2>1, <2>2 DEF AttemptStands
<1> QED BY <1>1, <1>2, <1>3, <1>4, <1>5, <1>6, <1>7, <1>9, AttemptSteps

(* An attempt that ends. *)
LEMMA AttemptEnds ==
  ASSUME RolesInv, NEW r \in Restorer, restorer[r].at # "idle", restorer' = [restorer EXCEPT ![r] = NoRestore],
         UNCHANGED <<links, rowId, rowLinks, lastRow, changes, rcall, was, snapshot, recorded, late, blurred>>,
         phase' \in {"restoring", "restored"}, kc \subseteq kc', kc' \subseteq Role, roleFaults' \in 0..MaxRoleFaults,
         kc' # kc => restorer[r].at # "snapshot",
         phase' = phase
           \/ (/\ restorer[r].at = "clear" /\ restorer[r].todo = {} /\ kc' = kc)
  PROVE  RolesInv'
<1> DEFINE a == restorer[r]
<1>1. /\ restorer' \in [Restorer -> AttemptType] /\ restorer'[r] = NoRestore
      /\ \A q \in Restorer : q # r => restorer'[q] = restorer[q]
  BY Nothing, AttemptMoves DEF RolesInv
<1>2. /\ phase \in {"restoring", "restored"} /\ a # NoRestore
      /\ ~late => /\ snapshot.roles = {} /\ (~snapshot.stored => kc = {}) /\ phase = "restoring"
                  /\ a.at = "snapshot" <=> ~snapshot.stored
                  /\ \A q \in Restorer : restorer[q] # NoRestore => q = r
                  /\ Cardinality(Rows) <= BulkLimit => AttemptStands(a)
  BY AttemptIs
<1>3. RolesTypeOK'
  <2>1. phase' \in {"active", "archived", "restoring", "restored"}
    OBVIOUS
  <2> QED BY <1>1, <2>1 DEF RolesInv, RolesTypeOK, AttemptType
<1>4. RestorerShape' /\ LinksExist'
  <2>1. RestorerShape'
    BY <1>1, Nothing DEF RolesInv, RestorerShape
  <2> QED BY <2>1 DEF RolesInv, LinksExist
<1>5. OneAttempt'
  <2> SUFFICES ASSUME ~late PROVE OneAttempt'
    BY DEF OneAttempt
  <2>1. Rows' = Rows /\ Rows \subseteq Role /\ \A m \in Role : LinkedRows(m)' = LinkedRows(m)
    BY DEF Rows, LinkedRows
  <2>2. \A q \in Restorer : restorer'[q] = NoRestore
    BY <1>1, <1>2
  <2>3. snapshot'.roles = {} /\ (~snapshot'.stored => kc' = {})
    BY <1>2
  <2>4. ASSUME phase' = "restored", Cardinality(Rows') <= BulkLimit
        PROVE  /\ \A n \in Rows' \ blurred' : n \in kc' /\ recorded'[n] = 1
               /\ \A n \in Rows' : LinkedRows(n)' \subseteq links'[n]
    <3>1. a.at = "clear" /\ a.todo = {} /\ kc' = kc /\ AttemptStands(a)
      BY <1>2, <2>1, <2>4
    <3>2. /\ \A n \in Rows \ blurred : n \in kc /\ recorded[n] = 1
          /\ \A n \in Rows : LinkedRows(n) \subseteq links[n]
      BY <3>1 DEF AttemptStands
    <3> QED BY <2>1, <3>1, <3>2
  <2> QED BY <2>2, <2>3, <2>4 DEF OneAttempt
<1> QED BY <1>2, <1>3, <1>4, <1>5, RestoringKeeps

(* An attempt that throws leaves what it did. *)
LEMMA RestoreThrowsKeeps ==
  ASSUME RolesInv, NEW r \in Restorer, RestoreThrows(r)
  PROVE  RolesInv'
<1> DEFINE a == restorer[r]
<1>1. /\ a.at # "idle" /\ restorer' = [restorer EXCEPT ![r] = NoRestore]
      /\ UNCHANGED <<links, rowId, rowLinks, lastRow, changes, rcall, phase, blurred, was, snapshot, recorded, late>>
  BY DEF RestoreThrows
<1>2. a \in AttemptType /\ kc \subseteq Role /\ roleFaults \in 0..MaxRoleFaults
  BY DEF RolesInv, RolesTypeOK, AttemptType
<1>3. \/ UNCHANGED <<kc, roleFaults>>
      \/ RoleFault /\ (kc' = kc \/ (a.at = "create" /\ \E n \in a.todo : kc' = kc \cup {n}))
  BY DEF RestoreThrows
<1>4. roleFaults' \in 0..MaxRoleFaults
  BY <1>2, <1>3, RolesAssumption DEF RoleFault
<1>5. kc \subseteq kc' /\ kc' \subseteq Role /\ (kc' # kc => a.at # "snapshot")
  BY <1>2, <1>3 DEF AttemptType
<1>6. phase \in {"restoring", "restored"}
  BY <1>1, AttemptIs
<1> QED BY <1>1, <1>4, <1>5, <1>6, AttemptEnds

(* The workflow is restored when the attempt it waits for has ended. *)
LEMMA FinishRestoreKeeps ==
  ASSUME RolesInv, NEW r \in Restorer, FinishRestore(r)
  PROVE  RolesInv'
<1>1. /\ restorer[r].at = "clear" /\ restorer[r].todo = {} /\ restorer' = [restorer EXCEPT ![r] = NoRestore]
      /\ phase' = IF restorer[r].awaited THEN "restored" ELSE phase
      /\ UNCHANGED <<kc, links, rowId, rowLinks, lastRow, changes, rcall, blurred, was, snapshot, recorded, late, roleFaults>>
  BY DEF FinishRestore
<1>2. kc \subseteq Role /\ roleFaults \in 0..MaxRoleFaults
  BY DEF RolesInv, RolesTypeOK
<1>3. phase \in {"restoring", "restored"}
  BY <1>1, AttemptIs
<1> QED BY <1>1, <1>2, <1>3, AttemptEnds

(* An attempt that times out goes on, and nothing is promised of it. *)
LEMMA RestoreTimesOutKeeps ==
  ASSUME RolesInv, NEW r \in Restorer, RestoreTimesOut(r)
  PROVE  RolesInv'
<1> DEFINE a == restorer[r]
           v == [a EXCEPT !.awaited = FALSE]
<1>1. /\ a.awaited /\ RoleFault /\ late' = TRUE
      /\ UNCHANGED <<kc, links, rowId, rowLinks, lastRow, changes, rcall, phase, blurred, was, snapshot, recorded>>
  BY DEF RestoreTimesOut
<1>2. a.at # "idle"
  BY <1>1, Nothing DEF RolesInv, RestorerShape
<1>3. a \in AttemptType /\ roleFaults \in 0..MaxRoleFaults
  BY DEF RolesInv, RolesTypeOK, AttemptType
<1>4. v \in AttemptType /\ v.at = a.at /\ v.on = a.on /\ ~v.awaited
  BY <1>3 DEF AttemptType
<1>5. restorer' = [restorer EXCEPT ![r] = v]
  BY DEF RestoreTimesOut, RolesInv, RolesTypeOK
<1> HIDE DEF v
<1>6. /\ restorer' \in [Restorer -> AttemptType] /\ restorer'[r] = v
      /\ \A q \in Restorer : q # r => restorer'[q] = restorer[q]
  BY <1>4, <1>5, AttemptMoves DEF RolesInv
<1>7. v # NoRestore
  BY <1>2, <1>4, Nothing
<1>8. RolesTypeOK'
  <2>1. roleFaults' \in 0..MaxRoleFaults /\ late' \in BOOLEAN
    BY <1>1, <1>3, RolesAssumption DEF RoleFault
  <2> QED BY <1>1, <1>6, <2>1 DEF RolesInv, RolesTypeOK, AttemptType
<1>9. RestorerShape' /\ LinksExist' /\ OneAttempt'
  <2>1. RestorerShape'
    BY <1>1, <1>2, <1>4, <1>6, <1>7 DEF RolesInv, RestorerShape
  <2> QED BY <1>1, <2>1 DEF RolesInv, LinksExist, OneAttempt
<1>10. phase \in {"restoring", "restored"}
  BY <1>2, AttemptIs
<1> QED BY <1>1, <1>8, <1>9, <1>10, RestoringKeeps

(* Roles, rows and restores, for any number of roles, requests, attempts and
   faults: rows follow Keycloak where changes neither failed nor overlapped,
   they keep what a deleted client had, and an attempt that no other runs
   beside goes through all of it. *)
THEOREM RolesInvariant == RolesSpec => []RolesInv
<1>1. RolesInit => RolesInv
  <2> SUFFICES ASSUME RolesInit PROVE RolesInv
    OBVIOUS
  <2>1. InFlight = {} /\ Rows = {} /\ IsFiniteSet({}) /\ Cardinality({}) = 0
    BY FS_EmptySet DEF RolesInit, InFlight, Rows
  <2>2. NoLinks \in [Role -> SUBSET Role] /\ NoLinks \in [Role -> SUBSET (1..MaxChanges)] /\ \A n \in Role : NoLinks[n] = {}
    BY DEF NoLinks
  <2>3. RolesTypeOK
    <3>1. /\ kc \subseteq Role /\ links \in [Role -> SUBSET Role] /\ rowLinks \in [Role -> SUBSET (1..MaxChanges)]
          /\ rowId \in [Role -> 0..MaxChanges] /\ lastRow \in 0..MaxChanges /\ changes \in 0..MaxChanges
      BY <2>2, RolesAssumption DEF RolesInit
    <3>2. rcall \in [RoleCaller -> RequestType] /\ restorer \in [Restorer -> AttemptType]
      BY Nothing DEF RolesInit
    <3>3. /\ was \in [roles : SUBSET Role, links : [Role -> SUBSET Role]]
          /\ snapshot \in [stored : BOOLEAN, roles : SUBSET Role]
      BY <2>2 DEF RolesInit, NotStored
    <3>4. /\ recorded \in [Role -> 0..2]
          /\ roleFaults \in 0..MaxRoleFaults
          /\ late \in BOOLEAN /\ phase \in {"active", "archived", "restoring", "restored"} /\ blurred \subseteq Role
      <4>1. recorded = [n \in Role |-> 0]
        BY DEF RolesInit
      <4>2. recorded \in [Role -> 0..2]
        BY <4>1
      <4>3. roleFaults \in 0..MaxRoleFaults
        BY RolesAssumption DEF RolesInit
      <4>4. late = FALSE /\ phase = "active" /\ blurred = {}
        BY DEF RolesInit
      <4> QED BY <4>2, <4>3, <4>4
    <3> QED BY <3>1, <3>2, <3>3, <3>4 DEF RolesTypeOK, RequestType, AttemptType
  <2>4. RoleCounts /\ RowIds /\ LinksExist
    BY <2>1, <2>2 DEF RolesInit, RoleCounts, RowIds, LinksExist
  <2>5. RequestShape /\ OverlapsBlur /\ RowsRemember /\ NothingRestored /\ RestorerShape /\ OneAttempt
    BY <2>1, Nothing
    DEF RolesInit, RequestShape, OverlapsBlur, RowsRemember, NothingRestored, RestorerShape, OneAttempt
  <2>6. MirrorStands
    <3>1. kc = {} /\ Clean \subseteq Role /\ \A n \in Role : links[n] = {}
      BY <2>2 DEF RolesInit, Clean
    <3> QED BY <2>1, <3>1 DEF MirrorStands
  <2> QED BY <2>3, <2>4, <2>5, <2>6 DEF RolesInv
<1>2. RolesInv /\ [RolesNext]_roleVars => RolesInv'
  <2> SUFFICES ASSUME RolesInv, [RolesNext]_roleVars PROVE RolesInv'
    OBVIOUS
  <2>1. CASE UNCHANGED roleVars
    <3>1. UNCHANGED <<Rows, InFlight, Clean>> /\ (\A m \in Role : LinkedRows(m)' = LinkedRows(m))
          /\ (\A c \in RoleCaller : Names(c)' = Names(c)) /\ Clean \subseteq Role
      BY <2>1 DEF roleVars, Rows, InFlight, LinkedRows, Names, Clean
    <3>2. RolesTypeOK' /\ RoleCounts' /\ RowIds' /\ LinksExist' /\ RequestShape' /\ OverlapsBlur'
      <4>1. RolesTypeOK'
        BY <2>1 DEF roleVars, RolesInv, RolesTypeOK
      <4>2. RoleCounts' /\ RowIds' /\ LinksExist'
        BY <2>1, <3>1 DEF roleVars, RolesInv, RoleCounts, RowIds, LinksExist
      <4>3. RequestShape' /\ OverlapsBlur'
        BY <2>1, <3>1 DEF roleVars, RolesInv, RequestShape, OverlapsBlur, InFlight
      <4> QED BY <4>1, <4>2, <4>3
    <3>3. MirrorStands'
      <4>1. \A c \in RoleCaller : RequestStands(c)' <=> RequestStands(c)
        BY <2>1, <3>1 DEF roleVars, RequestStands
      <4>2. \A m \in Role : Sits(m, "compose", "mirror")' <=> Sits(m, "compose", "mirror")
        BY <2>1, <3>1 DEF roleVars, Sits
      <4> QED BY <2>1, <3>1, <4>1, <4>2 DEF roleVars, RolesInv, MirrorStands, InFlight
    <3>4. RowsRemember'
      <4>1. was.roles \subseteq Role
        BY DEF RolesInv, RolesTypeOK
      <4> QED BY <2>1, <3>1, <4>1 DEF roleVars, RolesInv, RowsRemember
    <3>5. NothingRestored' /\ RestorerShape'
      BY <2>1 DEF roleVars, RolesInv, NothingRestored, RestorerShape
    <3>6. OneAttempt'
      <4>1. \A r \in Restorer : AttemptStands(restorer[r])' <=> AttemptStands(restorer[r])
        BY <2>1, <3>1 DEF roleVars, AttemptStands, Rows
      <4> QED BY <2>1, <3>1, <4>1 DEF roleVars, RolesInv, OneAttempt, Rows
    <3> QED BY <3>2, <3>3, <3>4, <3>5, <3>6 DEF RolesInv
  <2>2. CASE \E c \in RoleCaller :
               \/ \E op \in {"create", "delete", "compose"}, n \in Role, set \in SUBSET Role : AskRole(c, op, n, set)
               \/ CallKeycloak(c) \/ MirrorRole(c)
    BY <2>2, AskRoleKeeps, CallKeycloakKeeps, MirrorRoleKeeps
  <2>3. CASE ArchiveClient
    BY <2>3, ArchiveClientKeeps
  <2>4. CASE RecreateClient
    BY <2>4, RecreateClientKeeps
  <2>5. CASE \E r \in Restorer : StartRestore(r) \/ TakeSnapshot(r) \/ StartRecording(r) \/ StartLinking(r)
    BY <2>5, StartRestoreKeeps, TakeSnapshotKeeps, StartRecordingKeeps, StartLinkingKeeps
  <2>6. CASE \E r \in Restorer : LinkAgain(r) \/ RestoreThrows(r) \/ RestoreTimesOut(r) \/ FinishRestore(r)
    BY <2>6, LinkAgainKeeps, RestoreThrowsKeeps, RestoreTimesOutKeeps, FinishRestoreKeeps
  <2>7. CASE \E r \in Restorer, n \in Role : Recreate(r, n) \/ RecordCreation(r, n) \/ ClearLinks(r, n)
    BY <2>7, RecreateKeeps, RecordCreationKeeps, ClearLinksKeeps
  <2> QED BY <2>1, <2>2, <2>3, <2>4, <2>5, <2>6, <2>7 DEF RolesNext
<1> QED BY <1>1, <1>2, PTL DEF RolesSpec

(* "The role row mirrors Keycloak, so it is written only once Keycloak has the
   role": a role whose changes all succeeded, one at a time, has a row exactly
   when Keycloak has it, and its row lists every role it is composed of. *)
THEOREM RowsFollowKeycloak == RolesSpec => []RowsMirrorKeycloak
<1>1. ASSUME RolesInv, phase = "active" PROVE RowsMirrorKeycloak
  <2>1. ASSUME NEW n \in Steady PROVE n \in Role /\ n \in Clean /\ \A c \in InFlight : rcall[c].role # n
    BY <2>1 DEF Steady, Clean, InFlight, Names
  <2>2. ASSUME NEW n \in Steady PROVE (n \in kc <=> n \in Rows) /\ links[n] \cap Steady \subseteq LinkedRows(n)
    <3>1. n \in kc <=> n \in Rows
      BY <1>1, <2>1 DEF RolesInv, MirrorStands
    <3>2. ~Sits(n, "compose", "mirror")
      BY <2>1 DEF Sits
    <3>3. links[n] \cap Clean \subseteq LinkedRows(n)
      BY <1>1, <2>1, <3>2 DEF RolesInv, MirrorStands
    <3> QED BY <2>1, <3>1, <3>3
  <2>3. \A n \in Rows : rowLinks[n] \subseteq {rowId[m] : m \in Rows}
    BY <1>1 DEF RolesInv, RowIds, Rows
  <2> QED BY <2>2, <2>3 DEF RowsMirrorKeycloak
<1>2. RolesInv => RowsMirrorKeycloak
  BY <1>1 DEF RowsMirrorKeycloak
<1> QED BY <1>2, RolesInvariant, PTL

(* "Re-creates the client roles (and composite links) that existed before an
   integration was archived", whichever attempts failed and where. *)
THEOREM RestoreIsWhole == RolesSpec => []RestoreBringsBack
<1>1. ASSUME RolesInv, Attended, NEW n \in was.roles \ blurred
      PROVE  n \in kc /\ was.links[n] \ blurred \subseteq links[n]
  <2>1. n \in Rows /\ was.links[n] \ blurred \subseteq LinkedRows(n)
    BY <1>1 DEF RolesInv, RowsRemember, Attended
  <2>2. n \in kc /\ LinkedRows(n) \subseteq links[n]
    BY <1>1, <2>1 DEF RolesInv, OneAttempt, Attended
  <2> QED BY <2>1, <2>2
<1>2. RolesInv => RestoreBringsBack
  BY <1>1 DEF RestoreBringsBack
<1> QED BY <1>2, RolesInvariant, PTL

(* An attempt that timed out but kept running and its retry never both record
   the creation of a role, and a restore that ended recorded each of them. *)
THEOREM EachCreationIsRecorded == RolesSpec => []CreationsRecordedOnce
<1>1. ASSUME RolesInv, Attended, NEW n \in was.roles \ blurred PROVE recorded[n] = 1
  <2>1. n \in Rows
    BY <1>1 DEF RolesInv, RowsRemember, Attended
  <2> QED BY <1>1, <2>1 DEF RolesInv, OneAttempt, Attended
<1>2. RolesInv => CreationsRecordedOnce
  BY <1>1 DEF CreationsRecordedOnce, RolesInv, RestorerShape
<1> QED BY <1>2, RolesInvariant, PTL

-----------------------------------------------------------------------------
(* Keycloak client convergence.                                             *)

\* The component on its own.
AssetsSpec == AssetsInit /\ [][AssetsNext]_assetVars

AssetStep == [do : {"add", "drop", "put", "update", "read"}, what : Asset \cup {"scopes"}]
AssetAttempt ==
  [todo : Seq(AssetStep), want : Wants, of : 0..MaxWants, seen : SUBSET Asset,
   state : {"idle", "awaited", "abandoned"}, beside : BOOLEAN]
StepsLeft(todo) == {todo[i] : i \in DOMAIN todo}

\* The steps of a plan, and which step of the Entra integration comes before which.
CardUpSteps == {Read("cardRow"), Add("bcscClient"), Add("cardRow"), Update("bcscClient"),
                Add("cardIdp"), Add("cardScope")}
CardDownSteps == {Read("cardRow"), Drop("bcscClient"), Drop("cardRow"), Drop("cardIdp"), Drop("cardScope")}
EntraUpSteps == {Read("entraRow"), Add("app"), Add("sp"), Add("entraRow"), Update("app"), Update("sp"),
                 Add("entraIdp")}
EntraDownSteps == {Read("entraRow"), Drop("sp"), Drop("app"), Drop("entraIdp"), Drop("entraRow")}
ClientUpSteps == {Put("client"), Update("scopes"), Add("realmRole"), Add("mappers")}
BuildSteps(w) == (IF w.bcsc THEN CardUpSteps ELSE {}) \cup (IF w.entra THEN EntraUpSteps ELSE EntraDownSteps)
                 \cup ClientUpSteps
TearDownSteps == CardDownSteps \cup EntraDownSteps \cup {Drop("client"), Drop("realmRole")}
PlanSteps(w) == IF w.gone THEN TearDownSteps ELSE BuildSteps(w)
Earlier(x, y) ==
  \/ x = Add("app") /\ y = Update("app")
  \/ x = Add("entraRow") /\ y = Add("entraIdp")
  \/ x = Read("entraRow") /\ y \in {Drop("entraIdp"), Drop("entraRow")}
  \/ x = Drop("entraIdp") /\ y = Drop("entraRow")
InOrder(todo) == \A i, j \in DOMAIN todo : Earlier(todo[i], todo[j]) => i < j

GoingOn == {r \in Attempt : attempts[r].state # "idle"}

PlansFit ==
  /\ attempts \in [Attempt -> AssetAttempt]
  /\ \A r \in Attempt : attempts[r].state = "idle" => attempts[r] = AtRest
  /\ \A r \in GoingOn :
       /\ attempts[r].of \in 1..version
       /\ attempts[r].of = version => attempts[r].want = want
       /\ attempts[r].state = "awaited" => attempts[r].of = version
       /\ StepsLeft(attempts[r].todo) \subseteq PlanSteps(attempts[r].want) /\ InOrder(attempts[r].todo)
  /\ \A q, r \in GoingOn : attempts[q].of = attempts[r].of => attempts[q].want = attempts[r].want

\* An attempt that nothing of another submission disturbs.
Undisturbed(r) == ~tangled \/ (attempts[r].of = version /\ ~attempts[r].beside)
OneSubmission == \A q, r \in GoingOn : Undisturbed(r) => attempts[q].of = attempts[r].of

\* What an attempt has done of the client and the card, and of the Entra integration.
ClientSoFar(a, h, p, c) ==
  LET left == StepsLeft(a.todo)
  IN /\ a.want.gone =>
          \A x \in {"client", "realmRole"} : IF Drop(x) \in left THEN x \in a.seen ELSE x \notin h
     /\ ~a.want.gone =>
          /\ a.seen \cap {"realmRole", "cardRow"} \subseteq h
          /\ Put("client") \notin left => "client" \in h /\ p = a.of
          /\ Update("scopes") \notin left => c = a.of
          /\ \A x \in {"realmRole", "mappers"} \cup (IF a.want.bcsc THEN {"cardRow", "cardIdp", "cardScope"} ELSE {}) :
               Add(x) \notin left => x \in h
EntraUpSoFar(a, h) ==
  LET left == StepsLeft(a.todo)
  IN /\ a.seen \cap {"entraRow"} \subseteq h
     /\ Add("app") \notin left => "app" \in h \/ "entraRow" \in a.seen
     /\ Update("app") \notin left => "app" \in h
     /\ \A x \in {"entraRow", "entraIdp"} : Add(x) \notin left => x \in h
EntraDownSoFar(a, h) ==
  LET left == StepsLeft(a.todo)
  IN /\ Read("entraRow") \notin left /\ {Drop("entraIdp"), Drop("entraRow")} \cap left # {}
          => ("entraRow" \in h => "entraRow" \in a.seen)
     /\ Drop("entraIdp") \notin left /\ Drop("entraRow") \in left => "entraIdp" \notin h
     /\ ~a.want.gone => \A x \in {"entraRow", "entraIdp"} : Drop(x) \notin left => x \notin h
EntraSoFar(a, h) == IF a.want.entra /\ ~a.want.gone THEN EntraUpSoFar(a, h) ELSE EntraDownSoFar(a, h)

AttemptsConverge ==
  \A r \in GoingOn : /\ Undisturbed(r) => ClientSoFar(attempts[r], have, profileOf, scopesOf)
                     /\ ~tangled => EntraSoFar(attempts[r], have)
IdpHasRow == ~tangled /\ "entraIdp" \in have => "entraRow" \in have
AppliedStands == verdict = "applied" => AppliedConverges /\ \A r \in GoingOn : attempts[r].of = version

\* The inductive invariant.
AssetsInv == AssetsTypeOK /\ PlansFit /\ OneSubmission /\ AttemptsConverge /\ IdpHasRow /\ AppliedStands

-----------------------------------------------------------------------------
(* Plans.                                                                   *)

\* The next step of a plan and the steps after it: nothing that comes before
\* the next step is left.
LEMMA NextStep ==
  ASSUME NEW todo \in Seq(AssetStep), todo # <<>>, InOrder(todo)
  PROVE  /\ Head(todo) \in AssetStep /\ Tail(todo) \in Seq(AssetStep)
         /\ StepsLeft(todo) = {Head(todo)} \cup StepsLeft(Tail(todo))
         /\ InOrder(Tail(todo))
         /\ \A x : Earlier(x, Head(todo)) => x \notin StepsLeft(todo)
<1> DEFINE n == Len(todo)  t == Tail(todo)
<1>1. /\ n \in Nat \ {0} /\ DOMAIN todo = 1..n /\ Head(todo) = todo[1] /\ \A i \in 1..n : todo[i] \in AssetStep
  BY LenProperties, ElementOfSeq, EmptySeq
<1>2. t \in Seq(AssetStep) /\ DOMAIN t = 1..(n - 1) /\ \A i \in 1..(n - 1) : t[i] = todo[i + 1]
  BY <1>1, HeadTailProperties, LenProperties
<1>3. StepsLeft(todo) = {Head(todo)} \cup StepsLeft(t)
  <2>1. ASSUME NEW i \in 1..n PROVE todo[i] \in {todo[1]} \cup {t[j] : j \in 1..(n - 1)}
    <3>1. i = 1 \/ (i - 1 \in 1..(n - 1) /\ t[i - 1] = todo[i])
      BY <1>1, <1>2
    <3> QED BY <3>1
  <2>2. ASSUME NEW j \in 1..(n - 1) PROVE t[j] \in {todo[i] : i \in 1..n}
    BY <1>1, <1>2
  <2>3. todo[1] \in {todo[i] : i \in 1..n}
    BY <1>1
  <2> QED BY <1>1, <1>2, <2>1, <2>2, <2>3 DEF StepsLeft
<1>4. InOrder(t)
  <2> SUFFICES ASSUME NEW i \in 1..(n - 1), NEW j \in 1..(n - 1), Earlier(t[i], t[j]) PROVE i < j
    BY <1>2 DEF InOrder
  <2>1. i + 1 \in DOMAIN todo /\ j + 1 \in DOMAIN todo /\ Earlier(todo[i + 1], todo[j + 1])
    BY <1>1, <1>2
  <2>2. i + 1 < j + 1
    BY <2>1 DEF InOrder
  <2> QED BY <2>2
<1>5. ASSUME NEW x, Earlier(x, Head(todo)), x \in StepsLeft(todo) PROVE FALSE
  <2>1. PICK i \in DOMAIN todo : x = todo[i]
    BY <1>5 DEF StepsLeft
  <2>2. i < 1
    BY <1>1, <1>5, <2>1 DEF InOrder
  <2> QED BY <1>1, <2>1, <2>2
<1> QED BY <1>1, <1>2, <1>3, <1>4, <1>5

\* One plan after another.
LEMMA PlansJoin ==
  ASSUME NEW x \in Seq(AssetStep), NEW y \in Seq(AssetStep), InOrder(x), InOrder(y),
         \A u \in StepsLeft(y), v \in StepsLeft(x) : ~Earlier(u, v)
  PROVE  x \o y \in Seq(AssetStep) /\ StepsLeft(x \o y) = StepsLeft(x) \cup StepsLeft(y) /\ InOrder(x \o y)
<1> DEFINE m == Len(x)  n == Len(y)  z == x \o y
<1>1. m \in Nat /\ n \in Nat /\ DOMAIN x = 1..m /\ DOMAIN y = 1..n
  BY LenProperties
<1>2. z \in Seq(AssetStep) /\ DOMAIN z = 1..(m + n)
      /\ (\A i \in 1..m : z[i] = x[i]) /\ (\A i \in (m + 1)..(m + n) : z[i] = y[i - m])
  BY <1>1, ConcatProperties, LenProperties
<1>3. StepsLeft(z) = StepsLeft(x) \cup StepsLeft(y)
  <2>1. ASSUME NEW i \in 1..(m + n) PROVE z[i] \in {x[j] : j \in 1..m} \cup {y[j] : j \in 1..n}
    <3>1. CASE i <= m
      BY <1>1, <1>2, <3>1
    <3>2. CASE i > m
      <4>1. i \in (m + 1)..(m + n) /\ i - m \in 1..n
        BY <1>1, <3>2
      <4> QED BY <1>2, <4>1
    <3> QED BY <1>1, <3>1, <3>2
  <2>2. ASSUME NEW j \in 1..m PROVE x[j] \in {z[i] : i \in 1..(m + n)}
    BY <1>1, <1>2
  <2>3. ASSUME NEW j \in 1..n PROVE y[j] \in {z[i] : i \in 1..(m + n)}
    <3>1. m + j \in (m + 1)..(m + n) /\ m + j \in 1..(m + n) /\ (m + j) - m = j
      BY <1>1
    <3> QED BY <1>2, <3>1
  <2> QED BY <1>1, <1>2, <2>1, <2>2, <2>3 DEF StepsLeft
<1>4. InOrder(z)
  <2> SUFFICES ASSUME NEW i \in 1..(m + n), NEW j \in 1..(m + n), Earlier(z[i], z[j]), ~(i < j) PROVE FALSE
    BY <1>2 DEF InOrder
  <2>1. CASE i <= m /\ j <= m
    BY <1>1, <1>2, <2>1 DEF InOrder
  <2>2. CASE i > m /\ j > m
    <3>1. i \in (m + 1)..(m + n) /\ j \in (m + 1)..(m + n) /\ i - m \in DOMAIN y /\ j - m \in DOMAIN y
      BY <1>1, <2>2
    <3>2. Earlier(y[i - m], y[j - m])
      BY <1>2, <3>1
    <3>3. i - m < j - m
      BY <3>1, <3>2 DEF InOrder
    <3> QED BY <1>1, <3>3
  <2>3. CASE i > m /\ j <= m
    <3>1. i \in (m + 1)..(m + n) /\ i - m \in DOMAIN y /\ j \in DOMAIN x /\ j \in 1..m
      BY <1>1, <2>3
    <3>2. Earlier(y[i - m], x[j]) /\ y[i - m] \in StepsLeft(y) /\ x[j] \in StepsLeft(x)
      BY <1>2, <3>1 DEF StepsLeft
    <3> QED BY <3>2
  <2> QED BY <1>1, <2>1, <2>2, <2>3
<1> QED BY <1>2, <1>3, <1>4

\* A part of a plan: its steps are those named for it, in order.
IsPart(todo, steps) == todo \in Seq(AssetStep) /\ StepsLeft(todo) = steps /\ InOrder(todo)

\* The empty part.
LEMMA EmptyPart == IsPart(<<>>, {})
<1>1. <<>> \in Seq(AssetStep) /\ DOMAIN <<>> = {}
  BY EmptySeq, LenProperties
<1> QED BY <1>1 DEF IsPart, StepsLeft, InOrder

\* What brings the card.
LEMMA CardUpPart == IsPart(CardUp, CardUpSteps)
<1>1. CardUp \in Seq(AssetStep) /\ DOMAIN CardUp = 1..6
  BY DEF CardUp, AssetStep, Asset, Read, Add, Update
<1>2. StepsLeft(CardUp) = CardUpSteps
  BY <1>1 DEF CardUp, StepsLeft, CardUpSteps
<1>3. ASSUME NEW x \in CardUpSteps, NEW y \in CardUpSteps PROVE ~Earlier(x, y)
  BY DEF CardUpSteps, Earlier, Read, Add, Update, Drop
<1>4. InOrder(CardUp)
  BY <1>2, <1>3 DEF InOrder, StepsLeft
<1> QED BY <1>1, <1>2, <1>4 DEF IsPart

\* What a deletion takes down of the card.
LEMMA CardDownPart == IsPart(CardDown, CardDownSteps)
<1>1. CardDown \in Seq(AssetStep) /\ DOMAIN CardDown = 1..5
  BY DEF CardDown, AssetStep, Asset, Read, Drop
<1>2. StepsLeft(CardDown) = CardDownSteps
  BY <1>1 DEF CardDown, StepsLeft, CardDownSteps
<1>3. ASSUME NEW x \in CardDownSteps, NEW y \in CardDownSteps PROVE ~Earlier(x, y)
  BY DEF CardDownSteps, Earlier, Read, Add, Update, Drop
<1>4. InOrder(CardDown)
  BY <1>2, <1>3 DEF InOrder, StepsLeft
<1> QED BY <1>1, <1>2, <1>4 DEF IsPart

\* What brings the Entra integration.
LEMMA EntraUpPart == IsPart(EntraUp, EntraUpSteps)
<1>1. EntraUp \in Seq(AssetStep) /\ DOMAIN EntraUp = 1..7
  BY DEF EntraUp, AssetStep, Asset, Read, Add, Update
<1>2. StepsLeft(EntraUp) = EntraUpSteps
  BY <1>1 DEF EntraUp, StepsLeft, EntraUpSteps
<1>3. ASSUME NEW i \in 1..7, NEW j \in 1..7, Earlier(EntraUp[i], EntraUp[j]) PROVE i < j
  <2>1. EntraUp[i] = Add("app") => i = 2
    BY DEF EntraUp, Read, Add, Update
  <2>2. EntraUp[i] = Add("entraRow") => i = 4
    BY DEF EntraUp, Read, Add, Update
  <2>3. EntraUp[j] = Update("app") => j = 5
    BY DEF EntraUp, Read, Add, Update
  <2>4. EntraUp[j] = Add("entraIdp") => j = 7
    BY DEF EntraUp, Read, Add, Update
  <2>5. EntraUp[j] \notin {Drop("entraIdp"), Drop("entraRow")}
    BY DEF EntraUp, Read, Add, Update, Drop
  <2> QED BY <1>3, <2>1, <2>2, <2>3, <2>4, <2>5 DEF Earlier
<1> QED BY <1>1, <1>2, <1>3 DEF IsPart, InOrder

\* What takes the Entra integration away.
LEMMA EntraDownPart == IsPart(EntraDown, EntraDownSteps)
<1>1. EntraDown \in Seq(AssetStep) /\ DOMAIN EntraDown = 1..5
  BY DEF EntraDown, AssetStep, Asset, Read, Drop
<1>2. StepsLeft(EntraDown) = EntraDownSteps
  BY <1>1 DEF EntraDown, StepsLeft, EntraDownSteps
<1>3. ASSUME NEW i \in 1..5, NEW j \in 1..5, Earlier(EntraDown[i], EntraDown[j]) PROVE i < j
  <2>1. EntraDown[i] = Read("entraRow") => i = 1
    BY DEF EntraDown, Read, Drop
  <2>2. EntraDown[i] = Drop("entraIdp") => i = 4
    BY DEF EntraDown, Read, Drop
  <2>3. EntraDown[j] = Drop("entraIdp") => j = 4
    BY DEF EntraDown, Read, Drop
  <2>4. EntraDown[j] = Drop("entraRow") => j = 5
    BY DEF EntraDown, Read, Drop
  <2>5. EntraDown[j] \notin {Update("app"), Add("entraIdp")}
    BY DEF EntraDown, Read, Add, Update, Drop
  <2> QED BY <1>3, <2>1, <2>2, <2>3, <2>4, <2>5 DEF Earlier
<1> QED BY <1>1, <1>2, <1>3 DEF IsPart, InOrder

\* What brings the client.
LEMMA ClientUpPart == IsPart(ClientUp, ClientUpSteps)
<1>1. ClientUp \in Seq(AssetStep) /\ DOMAIN ClientUp = 1..4
  BY DEF ClientUp, AssetStep, Asset, Put, Add, Update
<1>2. StepsLeft(ClientUp) = ClientUpSteps
  BY <1>1 DEF ClientUp, StepsLeft, ClientUpSteps
<1>3. ASSUME NEW x \in ClientUpSteps, NEW y \in ClientUpSteps PROVE ~Earlier(x, y)
  BY DEF ClientUpSteps, Earlier, Read, Add, Update, Drop, Put
<1>4. InOrder(ClientUp)
  BY <1>2, <1>3 DEF InOrder, StepsLeft
<1> QED BY <1>1, <1>2, <1>4 DEF IsPart

\* What takes the client and its realm role away.
LEMMA ClientDownPart ==
  /\ IsPart(<<Drop("client")>>, {Drop("client")})
  /\ IsPart(<<Drop("realmRole")>>, {Drop("realmRole")})
<1>1. ASSUME NEW x \in {"client", "realmRole"} PROVE IsPart(<<Drop(x)>>, {Drop(x)})
  <2>1. <<Drop(x)>> \in Seq(AssetStep) /\ DOMAIN <<Drop(x)>> = 1..1
    BY <1>1 DEF AssetStep, Asset, Drop
  <2>2. StepsLeft(<<Drop(x)>>) = {Drop(x)}
    BY <2>1 DEF StepsLeft
  <2>3. ~Earlier(Drop(x), Drop(x))
    BY <1>1 DEF Earlier, Read, Add, Update, Drop
  <2> QED BY <2>1, <2>2, <2>3 DEF IsPart, InOrder
<1> QED BY <1>1

\* Two parts whose steps are not mixed up in order make one.
LEMMA PartsJoin ==
  ASSUME NEW x, NEW y, NEW X, NEW Y, IsPart(x, X), IsPart(y, Y), \A u \in Y, v \in X : ~Earlier(u, v)
  PROVE  IsPart(x \o y, X \cup Y)
BY PlansJoin DEF IsPart

\* What a submission has built: all the steps of its plan are to be made.
LEMMA BuildIsPlan ==
  ASSUME NEW w \in Wants
  PROVE  IsPart(Build(w), BuildSteps(w))
<1> DEFINE card == If(w.bcsc, CardUp)  Card == IF w.bcsc THEN CardUpSteps ELSE {}
           entra == IF w.entra THEN EntraUp ELSE EntraDown  Entra == IF w.entra THEN EntraUpSteps ELSE EntraDownSteps
<1>1. IsPart(card, Card)
  BY CardUpPart, EmptyPart DEF If
<1>2. IsPart(entra, Entra)
  BY EntraUpPart, EntraDownPart
<1>3. IsPart(card \o entra, Card \cup Entra)
  <2>1. \A u \in EntraUpSteps \cup EntraDownSteps, v \in CardUpSteps : ~Earlier(u, v)
    BY DEF EntraUpSteps, EntraDownSteps, CardUpSteps, Earlier, Read, Add, Update, Drop
  <2>2. Entra \subseteq EntraUpSteps \cup EntraDownSteps /\ Card \subseteq CardUpSteps
    OBVIOUS
  <2> QED BY <1>1, <1>2, <2>1, <2>2, PartsJoin
<1>4. IsPart((card \o entra) \o ClientUp, (Card \cup Entra) \cup ClientUpSteps)
  <2>1. \A v : \A u \in ClientUpSteps : ~Earlier(u, v)
    BY DEF ClientUpSteps, Earlier, Read, Add, Update, Drop, Put
  <2> QED BY <1>3, <2>1, ClientUpPart, PartsJoin
<1> QED BY <1>4 DEF Build, BuildSteps

\* What a deletion takes down: the client and the realm role where they are
\* found, and the whole of the Entra integration or nothing of it.
LEMMA TearDownIsPlan ==
  ASSUME NEW w \in Wants
  PROVE  /\ TearDown(w) \in Seq(AssetStep) /\ InOrder(TearDown(w))
         /\ StepsLeft(TearDown(w)) \subseteq TearDownSteps
         /\ \A x \in {"client", "realmRole"} : Drop(x) \in StepsLeft(TearDown(w)) <=> x \in have
         /\ \/ EntraDownSteps \subseteq StepsLeft(TearDown(w))
            \/ EntraDownSteps \cap StepsLeft(TearDown(w)) = {}
<1> DEFINE card == If(w.bcsc, CardDown)  Card == IF w.bcsc THEN CardDownSteps ELSE {}
           entra == If(w.entra, EntraDown)  Entra == IF w.entra THEN EntraDownSteps ELSE {}
           all == card \o entra \o <<Drop("client")>>
           mine == If("client" \in have, all)
           Mine == IF "client" \in have THEN (Card \cup Entra) \cup {Drop("client")} ELSE {}
           roleToo == If("realmRole" \in have, <<Drop("realmRole")>>)
           RoleToo == IF "realmRole" \in have THEN {Drop("realmRole")} ELSE {}
<1>1. IsPart(card, Card) /\ IsPart(entra, Entra)
  BY CardDownPart, EntraDownPart, EmptyPart DEF If
<1>2. IsPart(card \o entra, Card \cup Entra)
  <2>1. \A u \in EntraDownSteps, v \in CardDownSteps : ~Earlier(u, v)
    BY DEF EntraDownSteps, CardDownSteps, Earlier, Read, Add, Update, Drop
  <2>2. Entra \subseteq EntraDownSteps /\ Card \subseteq CardDownSteps
    OBVIOUS
  <2> QED BY <1>1, <2>1, <2>2, PartsJoin
<1>3. \A v : \A u \in {Drop("client"), Drop("realmRole")} : ~Earlier(u, v)
  BY DEF Earlier, Read, Add, Update, Drop
<1>4. IsPart(all, (Card \cup Entra) \cup {Drop("client")})
  BY <1>2, <1>3, ClientDownPart, PartsJoin
<1>5. IsPart(mine, Mine) /\ IsPart(roleToo, RoleToo)
  BY <1>4, ClientDownPart, EmptyPart DEF If
<1>6. IsPart(mine \o roleToo, Mine \cup RoleToo)
  <2>1. \A v : \A u \in RoleToo : ~Earlier(u, v)
    BY <1>3
  <2> QED BY <1>5, <2>1, PartsJoin
<1>7. TearDown(w) = mine \o roleToo
  BY DEF TearDown
<1>8. /\ TearDown(w) \in Seq(AssetStep) /\ InOrder(TearDown(w))
      /\ StepsLeft(TearDown(w)) = Mine \cup RoleToo
  BY <1>6, <1>7 DEF IsPart
<1>9. Card \subseteq CardDownSteps /\ (Entra = EntraDownSteps \/ Entra = {})
  OBVIOUS
<1>10. /\ Drop("client") \notin CardDownSteps \cup EntraDownSteps \cup {Drop("realmRole")}
       /\ Drop("realmRole") \notin CardDownSteps \cup EntraDownSteps \cup {Drop("client")}
       /\ EntraDownSteps \cap (CardDownSteps \cup {Drop("client"), Drop("realmRole")}) = {}
  BY DEF CardDownSteps, EntraDownSteps, Drop, Read
<1> HIDE DEF Card, Entra
<1>11. Mine \cup RoleToo \subseteq TearDownSteps
  BY <1>9 DEF TearDownSteps
<1>12. /\ Drop("client") \in Mine \cup RoleToo <=> "client" \in have
       /\ Drop("realmRole") \in Mine \cup RoleToo <=> "realmRole" \in have
  BY <1>9, <1>10
<1>13. EntraDownSteps \subseteq Mine \cup RoleToo \/ EntraDownSteps \cap (Mine \cup RoleToo) = {}
  BY <1>9, <1>10
<1> QED BY <1>8, <1>11, <1>12, <1>13

-----------------------------------------------------------------------------
(* Steps.                                                                   *)

\* What a step is, by its two parts.
LEMMA StepIs ==
  ASSUME NEW s \in AssetStep
  PROVE  /\ \A x : s = Add(x) <=> s.do = "add" /\ s.what = x
         /\ \A x : s = Drop(x) <=> s.do = "drop" /\ s.what = x
         /\ \A x : s = Put(x) <=> s.do = "put" /\ s.what = x
         /\ \A x : s = Update(x) <=> s.do = "update" /\ s.what = x
         /\ \A x : s = Read(x) <=> s.do = "read" /\ s.what = x
BY DEF AssetStep, Add, Drop, Put, Update, Read

\* What a plan does not do: a submission that builds removes at most the Entra
\* integration, and only where it wants none; a deletion creates nothing.
LEMMA PlanStep ==
  ASSUME NEW w \in Wants, NEW s \in PlanSteps(w)
  PROVE  /\ s \in AssetStep
         /\ s.do \in {"add", "put"} => s.what \in Asset
         /\ w.gone => s.do \in {"read", "drop"}
         /\ ~w.gone /\ s.do = "drop" => s.what \in {"sp", "app", "entraIdp", "entraRow"} /\ ~w.entra
         /\ (w.gone \/ ~w.entra) /\ s.do \in {"add", "put"} => s.what \notin {"entraRow", "entraIdp"}
         /\ s.do = "read" => s.what \in {"cardRow", "entraRow"}
         /\ s.do = "put" => s.what = "client"
<1>1. CASE s \in CardUpSteps \ CardDownSteps
  <2>1. ~w.gone
    BY <1>1 DEF PlanSteps, TearDownSteps, CardUpSteps, CardDownSteps, EntraDownSteps, Read, Add, Update, Drop
  <2> QED BY <1>1, <2>1 DEF CardUpSteps, AssetStep, Asset, Read, Add, Update
<1>2. CASE s \in EntraUpSteps \ EntraDownSteps
  <2>1. ~w.gone /\ w.entra
    BY <1>2 DEF PlanSteps, BuildSteps, TearDownSteps, CardUpSteps, CardDownSteps, EntraUpSteps, EntraDownSteps,
              ClientUpSteps, Read, Add, Update, Drop, Put
  <2> QED BY <1>2, <2>1 DEF EntraUpSteps, AssetStep, Asset, Read, Add, Update
<1>3. CASE s \in ClientUpSteps
  <2>1. ~w.gone
    BY <1>3 DEF PlanSteps, TearDownSteps, ClientUpSteps, CardDownSteps, EntraDownSteps, Read, Add, Update, Drop, Put
  <2> QED BY <1>3, <2>1 DEF ClientUpSteps, AssetStep, Asset, Put, Add, Update
<1>4. CASE s \in EntraDownSteps
  <2>1. s.do = "drop" /\ ~w.gone => ~w.entra
    BY <1>4 DEF PlanSteps, BuildSteps, CardUpSteps, EntraUpSteps, EntraDownSteps, ClientUpSteps,
              Read, Add, Update, Drop, Put
  <2> QED BY <1>4, <2>1 DEF EntraDownSteps, AssetStep, Asset, Read, Drop
<1>5. CASE s \in CardDownSteps \cup {Drop("client"), Drop("realmRole")}
  <2>1. w.gone \/ s = Read("cardRow")
    BY <1>5 DEF PlanSteps, BuildSteps, CardUpSteps, CardDownSteps, EntraUpSteps, EntraDownSteps, ClientUpSteps,
              Read, Add, Update, Drop, Put
  <2> QED BY <1>5, <2>1 DEF CardDownSteps, AssetStep, Asset, Read, Drop
<1> QED BY <1>1, <1>2, <1>3, <1>4, <1>5 DEF PlanSteps, BuildSteps, TearDownSteps

\* What a step leaves to every attempt for the same submission: what it relies on
\* stays, what it removed stays away, and the client's profile and scopes are its own.
Serves(a, h, g) ==
  /\ ~a.want.gone => h \cap {"client", "realmRole", "mappers", "cardRow", "cardIdp", "cardScope"} \subseteq g
  /\ ~a.want.gone /\ a.want.entra => h \cap {"app", "entraRow", "entraIdp"} \subseteq g
  /\ a.want.gone => g \cap {"client", "realmRole"} \subseteq h
  /\ a.want.gone \/ ~a.want.entra => g \cap {"entraRow", "entraIdp"} \subseteq h
Stamps(a, p, q) == ~a.want.gone => q \in {p, a.of}

\* What the effect of a step is, by what it does.
LEMMA EffectIs ==
  ASSUME NEW a, NEW s
  PROVE  /\ s.do \in {"add", "put"} =>
              Effect(a, s) = have \cup {IF s.what = "bcscClient" /\ s.what \in have THEN "bcscSpare" ELSE s.what}
         /\ s.do = "drop" => Effect(a, s) = (have \ (IF s.what = "client" THEN {"client", "mappers"} ELSE {s.what}))
                                             \cup (IF s.what = "cardRow" THEN {"oldRow"} ELSE {})
         /\ s.do = "read" => Effect(a, s) \in {have, (have \ {"oldRow"}) \cup {"cardRow"}}
         /\ s.do = "read" /\ a.want.gone => Effect(a, s) \subseteq have
         /\ s.do = "read" /\ s.what # "cardRow" => Effect(a, s) = have
         /\ s.do = "read" /\ s.what = "cardRow" => RowsRead(a, "cardRow") \subseteq Effect(a, s)
         /\ s.do = "update" => Effect(a, s) = have
<1>1. CASE s.do \in {"add", "put"}
  BY <1>1 DEF Effect
<1>2. CASE s.do = "drop"
  BY <1>2 DEF Effect
<1>3. CASE s.do = "read"
  <2>1. Effect(a, s) = IF s.what = "cardRow" /\ RowsRead(a, "cardRow") # {}
                       THEN (have \ {"oldRow"}) \cup {"cardRow"} ELSE have
    BY <1>3 DEF Effect
  <2>2. RowsRead(a, "cardRow") \subseteq {"cardRow"} /\ (a.want.gone => RowsRead(a, "cardRow") \subseteq have)
    BY DEF RowsRead
  <2>3. CASE s.what = "cardRow" /\ RowsRead(a, "cardRow") # {}
    <3>1. a.want.gone => "cardRow" \in have /\ RowsRead(a, "cardRow") = {"cardRow"}
      BY <2>2, <2>3
    <3> QED BY <1>3, <2>1, <2>2, <2>3, <3>1
  <2>4. CASE ~(s.what = "cardRow" /\ RowsRead(a, "cardRow") # {})
    BY <1>3, <2>1, <2>4
  <2> QED BY <2>3, <2>4
<1>4. CASE s.do = "update"
  BY <1>4 DEF Effect
<1> QED BY <1>1, <1>2, <1>3, <1>4

\* The effect of a step of a plan serves every attempt of that plan.
LEMMA EffectServes ==
  ASSUME NEW a \in AssetAttempt, NEW s \in PlanSteps(a.want), have \subseteq Asset
  PROVE  Effect(a, s) \subseteq Asset /\ Serves(a, have, Effect(a, s))
<1>0. PICK g : g = Effect(a, s)
  OBVIOUS
<1>1. a.want \in Wants
  BY DEF AssetAttempt
<1>2. /\ s \in AssetStep /\ s.do \in {"add", "drop", "put", "update", "read"}
      /\ s.do \in {"add", "put"} => s.what \in Asset
      /\ a.want.gone => s.do \in {"read", "drop"}
      /\ ~a.want.gone /\ s.do = "drop" => s.what \in {"sp", "app", "entraIdp", "entraRow"} /\ ~a.want.entra
      /\ (a.want.gone \/ ~a.want.entra) /\ s.do \in {"add", "put"} => s.what \notin {"entraRow", "entraIdp"}
  BY <1>1, PlanStep DEF AssetStep
<1>3. {"bcscSpare", "oldRow", "cardRow"} \subseteq Asset
  BY DEF Asset
<1>4. CASE s.do \in {"add", "put"}
  <2>1. g = have \cup {IF s.what = "bcscClient" /\ s.what \in have THEN "bcscSpare" ELSE s.what}
    BY <1>0, <1>4, EffectIs
  <2>2. ~a.want.gone
    BY <1>2, <1>4
  <2> QED BY <1>0, <1>2, <1>3, <1>4, <2>1, <2>2 DEF Serves
<1>5. CASE s.do = "drop"
  <2>1. g = (have \ (IF s.what = "client" THEN {"client", "mappers"} ELSE {s.what}))
            \cup (IF s.what = "cardRow" THEN {"oldRow"} ELSE {})
    BY <1>0, <1>5, EffectIs
  <2> QED BY <1>0, <1>2, <1>3, <1>5, <2>1 DEF Serves
<1>6. CASE s.do = "read"
  <2>1. g \in {have, (have \ {"oldRow"}) \cup {"cardRow"}}
    BY <1>0, <1>6, EffectIs
  <2> QED BY <1>0, <1>3, <2>1 DEF Serves
<1>7. CASE s.do = "update"
  <2>1. g = have
    BY <1>0, <1>7, EffectIs
  <2> QED BY <1>0, <2>1 DEF Serves
<1> QED BY <1>2, <1>4, <1>5, <1>6, <1>7

\* A step that serves an attempt leaves it as far as it was.
LEMMA OthersKeep ==
  ASSUME NEW a, NEW h, NEW g, Serves(a, h, g)
  PROVE  /\ \A p, q, c, d : ClientSoFar(a, h, p, c) /\ Stamps(a, p, q) /\ Stamps(a, c, d) => ClientSoFar(a, g, q, d)
         /\ EntraSoFar(a, h) => EntraSoFar(a, g)
<1>1. ASSUME NEW p, NEW q, NEW c, NEW d, ClientSoFar(a, h, p, c), Stamps(a, p, q), Stamps(a, c, d)
      PROVE  ClientSoFar(a, g, q, d)
  <2>1. CASE a.want.gone
    BY <1>1, <2>1 DEF ClientSoFar, Serves
  <2>2. CASE ~a.want.gone
    <3> DEFINE all == {"realmRole", "mappers"} \cup (IF a.want.bcsc THEN {"cardRow", "cardIdp", "cardScope"} ELSE {})
    <3>1. \A x \in all : Add(x) \notin StepsLeft(a.todo) => x \in h
      BY <1>1, <2>2 DEF ClientSoFar
    <3>2. all \cap h \subseteq g
      BY <2>2 DEF Serves
    <3>3. \A x \in all : Add(x) \notin StepsLeft(a.todo) => x \in g
      BY <3>1, <3>2
    <3>4. a.seen \cap {"realmRole", "cardRow"} \subseteq g
      BY <1>1, <2>2 DEF ClientSoFar, Serves
    <3>5. /\ Put("client") \notin StepsLeft(a.todo) => "client" \in g /\ q = a.of
          /\ Update("scopes") \notin StepsLeft(a.todo) => d = a.of
      BY <1>1, <2>2 DEF ClientSoFar, Serves, Stamps
    <3> QED BY <2>2, <3>3, <3>4, <3>5 DEF ClientSoFar
  <2> QED BY <2>1, <2>2
<1>2. ASSUME EntraSoFar(a, h) PROVE EntraSoFar(a, g)
  <2>1. CASE a.want.entra /\ ~a.want.gone
    <3>1. EntraUpSoFar(a, h)
      BY <1>2, <2>1 DEF EntraSoFar
    <3>2. h \cap {"app", "entraRow", "entraIdp"} \subseteq g
      BY <2>1 DEF Serves
    <3>3. EntraUpSoFar(a, g)
      BY <3>1, <3>2 DEF EntraUpSoFar
    <3> QED BY <2>1, <3>3 DEF EntraSoFar
  <2>2. CASE ~(a.want.entra /\ ~a.want.gone)
    <3>1. EntraDownSoFar(a, h)
      BY <1>2, <2>2 DEF EntraSoFar
    <3>2. g \cap {"entraRow", "entraIdp"} \subseteq h
      BY <2>2 DEF Serves
    <3>3. EntraDownSoFar(a, g)
      BY <3>1, <3>2 DEF EntraDownSoFar
    <3> QED BY <2>2, <3>3 DEF EntraSoFar
  <2> QED BY <2>1, <2>2
<1> QED BY <1>1, <1>2

\* What an attempt takes to exist.
LEMMA FoundIs ==
  ASSUME NEW a
  PROVE  /\ \A x \in {"client", "realmRole", "cardRow", "entraRow"} : Found(a, x) <=> x \in a.seen
         /\ \A x \in {"app", "sp"} : Found(a, x) <=> "entraRow" \in a.seen
         /\ \A x \in {"mappers", "cardIdp", "cardScope", "entraIdp"} : Found(a, x) <=> x \in have
<1>1. DOMAIN ReadAs = {"client", "realmRole", "bcscClient", "cardRow", "app", "sp", "entraRow"}
  BY DEF ReadAs
<1>2. /\ ReadAs["client"] = "client" /\ ReadAs["realmRole"] = "realmRole" /\ ReadAs["cardRow"] = "cardRow"
      /\ ReadAs["app"] = "entraRow" /\ ReadAs["sp"] = "entraRow" /\ ReadAs["entraRow"] = "entraRow"
  BY DEF ReadAs
<1> QED BY <1>1, <1>2 DEF Found

\* An attempt after a step, and what the step was: passed over, or a call answered.
StepsOnTo(a, s, b) ==
  /\ b.want = a.want /\ b.of = a.of /\ b.todo = Tail(a.todo)
  /\ b.seen = IF s.do = "read" THEN a.seen \cup RowsRead(a, s.what) ELSE a.seen
Passed(a, s, g, q, d) == (Skips(a, s) \/ Optional(s)) /\ g = have /\ q = profileOf /\ d = scopesOf
Called(a, s, g, q, d) ==
  /\ ~Skips(a, s) /\ ~Refused(a, s) /\ g = Effect(a, s)
  /\ q = IF s = Put("client") THEN a.of ELSE IF s = Drop("client") THEN 0 ELSE profileOf
  /\ d = IF s = Update("scopes") THEN a.of ELSE IF s = Drop("client") THEN 0 ELSE scopesOf

\* A step makes what it is there for: it is passed over only where that is so already.
LEMMA StepMakes ==
  ASSUME NEW a \in AssetAttempt, NEW s \in AssetStep, NEW g, NEW q, NEW d,
         Passed(a, s, g, q, d) \/ Called(a, s, g, q, d)
  PROVE  /\ s.do = "add" /\ s.what \in {"mappers", "cardIdp", "cardScope", "entraIdp"} => s.what \in g
         /\ s.do = "add" /\ s.what \in {"realmRole", "cardRow", "entraRow"} => s.what \in g \/ (s.what \in a.seen /\ g = have)
         /\ s.do = "add" /\ s.what = "app" => "app" \in g \/ "entraRow" \in a.seen
         /\ s.do = "update" /\ s.what = "app" => g = have /\ ("app" \in have \/ "entraRow" \notin a.seen)
         /\ s.do = "drop" /\ s.what \in {"client", "realmRole", "entraRow"} => s.what \notin g \/ (s.what \notin a.seen /\ g = have)
         /\ s.do = "drop" /\ s.what = "entraIdp" => s.what \notin g \/ ("entraRow" \notin a.seen /\ g = have)
         /\ s.do = "read" => g = Effect(a, s)
         /\ s.do = "put" => g = Effect(a, s) /\ q = (IF s.what = "client" THEN a.of ELSE profileOf)
         /\ s.do = "update" /\ s.what = "scopes" => d = a.of
         /\ ~(s.do = "drop" /\ s.what = "client") => q \in {profileOf, a.of} /\ d \in {scopesOf, a.of}
<1>1. CASE s.do = "add"
  <2>1. CASE Called(a, s, g, q, d)
    <3>1. g = have \cup {IF s.what = "bcscClient" /\ s.what \in have THEN "bcscSpare" ELSE s.what}
      BY <1>1, <2>1, EffectIs DEF Called
    <3>2. q = profileOf /\ d = scopesOf
      BY <1>1, <2>1, StepIs DEF Called
    <3> QED BY <1>1, <3>1, <3>2
  <2>2. CASE Passed(a, s, g, q, d)
    <3>1. Found(a, s.what) \/ s.what \in {"app", "sp"} \cap have
      BY <1>1, <2>2 DEF Passed, Skips, Optional
    <3> QED BY <1>1, <2>2, <3>1, FoundIs DEF Passed
  <2> QED BY <2>1, <2>2
<1>2. CASE s.do = "drop"
  <2>1. CASE Called(a, s, g, q, d)
    <3>1. g = (have \ (IF s.what = "client" THEN {"client", "mappers"} ELSE {s.what}))
              \cup (IF s.what = "cardRow" THEN {"oldRow"} ELSE {})
      BY <1>2, <2>1, EffectIs DEF Called
    <3>2. s.what # "client" => q = profileOf /\ d = scopesOf
      BY <1>2, <2>1, StepIs DEF Called
    <3> QED BY <1>2, <3>1, <3>2
  <2>2. CASE Passed(a, s, g, q, d)
    <3>1. ~Found(a, s.what) \/ NoRowFor(a, s.what)
      BY <1>2, <2>2 DEF Passed, Skips, Optional
    <3>2. NoRowFor(a, s.what) => s.what \in {"cardIdp", "cardScope"} \/ (s.what = "entraIdp" /\ "entraRow" \notin a.seen)
      BY DEF NoRowFor
    <3> QED BY <1>2, <2>2, <3>1, <3>2, FoundIs DEF Passed
  <2> QED BY <2>1, <2>2
<1>3. CASE s.do \in {"read", "put"}
  <2>1. Called(a, s, g, q, d)
    BY <1>3 DEF Passed, Skips, Optional
  <2> QED BY <1>3, <2>1, StepIs DEF Called
<1>4. CASE s.do = "update"
  <2>1. CASE Called(a, s, g, q, d)
    <3>1. g = have /\ q = profileOf /\ (s.what = "scopes" => d = a.of) /\ d \in {scopesOf, a.of}
      BY <1>4, <2>1, EffectIs, StepIs DEF Called
    <3>2. s.what = "app" => "app" \in have
      BY <1>4, <2>1 DEF Called, Refused
    <3> QED BY <1>4, <3>1, <3>2
  <2>2. CASE Passed(a, s, g, q, d)
    <3>1. s.what \in {"bcscClient", "sp"} \/ (s.what # "scopes" /\ ~Found(a, s.what))
      BY <1>4, <2>2 DEF Passed, Skips, Optional
    <3> QED BY <1>4, <2>2, <3>1, FoundIs DEF Passed
  <2> QED BY <2>1, <2>2
<1> QED BY <1>1, <1>2, <1>3, <1>4 DEF AssetStep

\* What an attempt reads, it adds to what it saw.
LEMMA AttemptReads ==
  ASSUME NEW a, NEW s, NEW b, StepsOnTo(a, s, b)
  PROVE  /\ a.seen \subseteq b.seen
         /\ ~(s.do = "read") => b.seen = a.seen
         /\ s.do = "read" => b.seen = a.seen \cup RowsRead(a, s.what)
         /\ RowsRead(a, "cardRow") \subseteq {"cardRow"}
         /\ RowsRead(a, "entraRow") = {"entraRow"} \cap have
BY DEF StepsOnTo, RowsRead

\* An attempt goes on: the client and the card.
LEMMA ClientGoesOn ==
  ASSUME NEW a \in AssetAttempt, a.todo # <<>>, InOrder(a.todo), StepsLeft(a.todo) \subseteq PlanSteps(a.want),
         have \subseteq Asset, NEW s, s = Head(a.todo), NEW b, StepsOnTo(a, s, b), NEW g, NEW q, NEW d,
         Passed(a, s, g, q, d) \/ Called(a, s, g, q, d), ClientSoFar(a, have, profileOf, scopesOf)
  PROVE  ClientSoFar(b, g, q, d)
<1> DEFINE left == StepsLeft(a.todo)  todo == StepsLeft(b.todo)
<1>1. a.todo \in Seq(AssetStep) /\ a.want \in Wants /\ b.want = a.want /\ b.of = a.of /\ b.todo = Tail(a.todo)
  BY DEF AssetAttempt, StepsOnTo
<1>2. s \in AssetStep /\ left = {s} \cup todo /\ s \in PlanSteps(a.want)
  BY <1>1, NextStep
<1>3. /\ a.want.gone => s.do \in {"read", "drop"}
      /\ ~a.want.gone /\ s.do = "drop" => s.what \notin {"client", "realmRole"}
      /\ s.do = "read" => s.what \in {"cardRow", "entraRow"}
      /\ s.do = "put" => s.what = "client"
  BY <1>1, <1>2, PlanStep
<1>4. Serves(a, have, g)
  <2>1. Serves(a, have, have)
    BY DEF Serves
  <2> QED BY <1>2, <2>1, EffectServes DEF Passed, Called
<1>5. Stamps(a, profileOf, q) /\ Stamps(a, scopesOf, d)
  BY <1>2, <1>3, StepMakes DEF Stamps
<1>6. ClientSoFar(a, g, q, d)
  BY <1>4, <1>5, OthersKeep
<1>7. CASE a.want.gone
  <2>1. ASSUME NEW x \in {"client", "realmRole"}
        PROVE  IF Drop(x) \in todo THEN x \in b.seen ELSE x \notin g
    <3>1. IF Drop(x) \in left THEN x \in a.seen ELSE x \notin g
      BY <1>6, <1>7 DEF ClientSoFar
    <3>2. CASE Drop(x) \in todo
      BY <1>2, <3>1, <3>2, AttemptReads
    <3>3. CASE Drop(x) \notin left
      BY <1>2, <3>1, <3>3
    <3>4. CASE Drop(x) \notin todo /\ Drop(x) = s
      <4>1. s.do = "drop" /\ s.what = x /\ x \in a.seen
        BY <1>2, <3>1, <3>4, StepIs
      <4> QED BY <1>2, <3>4, <4>1, StepMakes
    <3> QED BY <1>2, <3>2, <3>3, <3>4
  <2> QED BY <1>1, <1>7, <2>1 DEF ClientSoFar
<1>8. CASE ~a.want.gone
  <2> DEFINE all == {"realmRole", "mappers"} \cup (IF a.want.bcsc THEN {"cardRow", "cardIdp", "cardScope"} ELSE {})
  <2>1. /\ a.seen \cap {"realmRole", "cardRow"} \subseteq g /\ a.seen \cap {"realmRole", "cardRow"} \subseteq have
        /\ Put("client") \notin left => "client" \in g /\ q = a.of
        /\ Update("scopes") \notin left => d = a.of
        /\ \A x \in all : Add(x) \notin left => x \in g
    BY <1>6, <1>8 DEF ClientSoFar
  <2>2. b.seen \cap {"realmRole", "cardRow"} \subseteq g
    <3>1. CASE s.do = "read" /\ s.what = "cardRow"
      <4>1. RowsRead(a, "cardRow") \subseteq g
        BY <1>2, <3>1, StepMakes, EffectIs
      <4> QED BY <2>1, <3>1, <4>1, AttemptReads
    <3>2. CASE s.do = "read" /\ s.what = "entraRow"
      BY <2>1, <3>2, AttemptReads
    <3>3. CASE s.do # "read"
      BY <2>1, <3>3, AttemptReads
    <3> QED BY <1>3, <3>1, <3>2, <3>3
  <2>3. s = Put("client") => "client" \in g /\ q = a.of
    <3> SUFFICES ASSUME s = Put("client") PROVE "client" \in g /\ q = a.of
      OBVIOUS
    <3>1. s.do = "put" /\ s.what = "client"
      BY <1>2, StepIs
    <3>2. g = Effect(a, s) /\ q = a.of
      BY <1>2, <3>1, StepMakes
    <3>3. Effect(a, s) = have \cup {s.what}
      BY <3>1, EffectIs
    <3> QED BY <3>1, <3>2, <3>3
  <2>4. s = Update("scopes") => d = a.of
    BY <1>2, StepIs, StepMakes
  <2>5. ASSUME NEW x \in all, Add(x) = s PROVE x \in g
    <3>1. s.do = "add" /\ s.what = x /\ x \in {"realmRole", "mappers", "cardRow", "cardIdp", "cardScope"}
      BY <1>2, <2>5, StepIs
    <3>2. CASE x \in {"mappers", "cardIdp", "cardScope"}
      BY <1>2, <3>1, <3>2, StepMakes
    <3>3. CASE x \in {"realmRole", "cardRow"}
      <4>1. x \in g \/ (x \in a.seen /\ g = have)
        BY <1>2, <3>1, <3>3, StepMakes
      <4> QED BY <2>1, <3>3, <4>1
    <3> QED BY <3>1, <3>2, <3>3
  <2>6. /\ Put("client") \notin todo => "client" \in g /\ q = a.of
        /\ Update("scopes") \notin todo => d = a.of
        /\ \A x \in all : Add(x) \notin todo => x \in g
    BY <1>2, <2>1, <2>3, <2>4, <2>5
  <2> QED BY <1>1, <1>8, <2>2, <2>6 DEF ClientSoFar
<1> QED BY <1>7, <1>8

\* An attempt goes on: the Entra integration, where no identity provider is without its row.
LEMMA EntraGoesOn ==
  ASSUME NEW a \in AssetAttempt, a.todo # <<>>, InOrder(a.todo), StepsLeft(a.todo) \subseteq PlanSteps(a.want),
         have \subseteq Asset, NEW s, s = Head(a.todo), NEW b, StepsOnTo(a, s, b), NEW g, NEW q, NEW d,
         Passed(a, s, g, q, d) \/ Called(a, s, g, q, d), EntraSoFar(a, have),
         "entraIdp" \in have => "entraRow" \in have
  PROVE  EntraSoFar(b, g)
<1> DEFINE left == StepsLeft(a.todo)  todo == StepsLeft(b.todo)
<1>1. a.todo \in Seq(AssetStep) /\ a.want \in Wants /\ b.want = a.want /\ b.of = a.of /\ b.todo = Tail(a.todo)
  BY DEF AssetAttempt, StepsOnTo
<1>2. /\ s \in AssetStep /\ left = {s} \cup todo /\ s \in PlanSteps(a.want)
      /\ \A x : Earlier(x, s) => x \notin left
  BY <1>1, NextStep
<1>3. s.do = "read" => s.what \in {"cardRow", "entraRow"}
  BY <1>1, <1>2, PlanStep
<1>4. EntraSoFar(a, g)
  <2>1. Serves(a, have, have)
    BY DEF Serves
  <2>2. Serves(a, have, g)
    BY <1>2, <2>1, EffectServes DEF Passed, Called
  <2> QED BY <2>2, OthersKeep
<1>5. /\ s # Read("entraRow") => b.seen \cap {"entraRow"} = a.seen \cap {"entraRow"}
      /\ s = Read("entraRow") => g = have /\ b.seen \cap {"entraRow"} = (a.seen \cup have) \cap {"entraRow"}
  <2>1. CASE s = Read("entraRow")
    <3>1. s.do = "read" /\ s.what = "entraRow"
      BY <1>2, <2>1, StepIs
    <3>2. g = have
      BY <1>2, <3>1, StepMakes, EffectIs
    <3> QED BY <2>1, <3>1, <3>2, AttemptReads
  <2>2. CASE s # Read("entraRow")
    <3>1. s.do = "read" => s.what = "cardRow"
      BY <1>2, <1>3, <2>2, StepIs
    <3> QED BY <2>2, <3>1, AttemptReads
  <2> QED BY <2>1, <2>2
<1>6. CASE a.want.entra /\ ~a.want.gone
  <2>1. EntraUpSoFar(a, have) /\ EntraUpSoFar(a, g)
    BY <1>4, <1>6 DEF EntraSoFar
  <2>2. b.seen \cap {"entraRow"} \subseteq g
    BY <1>5, <2>1 DEF EntraUpSoFar
  <2>3. Add("app") \notin todo => "app" \in g \/ "entraRow" \in b.seen
    <3>1. s = Add("app") => "app" \in g \/ "entraRow" \in a.seen
      BY <1>2, StepIs, StepMakes
    <3> QED BY <1>2, <1>5, <2>1, <3>1 DEF EntraUpSoFar
  <2>4. Update("app") \notin todo => "app" \in g
    <3>1. ASSUME s = Update("app") PROVE "app" \in g
      <4>1. g = have /\ ("app" \in have \/ "entraRow" \notin a.seen)
        BY <1>2, <3>1, StepIs, StepMakes
      <4>2. Add("app") \notin left
        BY <1>2, <3>1 DEF Earlier
      <4> QED BY <2>1, <4>1, <4>2 DEF EntraUpSoFar
    <3> QED BY <1>2, <2>1, <3>1 DEF EntraUpSoFar
  <2>5. ASSUME NEW x \in {"entraRow", "entraIdp"}, Add(x) \notin todo PROVE x \in g
    <3>1. CASE s = Add(x)
      <4>1. s.do = "add" /\ s.what = x
        BY <1>2, <3>1, StepIs
      <4>2. CASE x = "entraRow"
        <5>1. x \in g \/ (x \in a.seen /\ g = have)
          BY <1>2, <4>1, <4>2, StepMakes
        <5> QED BY <2>1, <4>2, <5>1 DEF EntraUpSoFar
      <4>3. CASE x = "entraIdp"
        BY <1>2, <4>1, <4>3, StepMakes
      <4> QED BY <4>2, <4>3
    <3>2. CASE s # Add(x)
      BY <1>2, <2>1, <2>5, <3>2 DEF EntraUpSoFar
    <3> QED BY <3>1, <3>2
  <2>6. EntraUpSoFar(b, g)
    BY <2>2, <2>3, <2>4, <2>5 DEF EntraUpSoFar
  <2> QED BY <1>1, <1>6, <2>6 DEF EntraSoFar
<1>7. CASE ~(a.want.entra /\ ~a.want.gone)
  <2>1. EntraDownSoFar(a, have) /\ EntraDownSoFar(a, g)
    BY <1>4, <1>7 DEF EntraSoFar
  <2>2. ASSUME s \in {Drop("entraIdp"), Drop("entraRow")}
        PROVE  "entraRow" \in have => "entraRow" \in a.seen
    <3>1. Read("entraRow") \notin left /\ s \in left
      BY <1>2, <2>2 DEF Earlier
    <3> QED BY <2>1, <2>2, <3>1 DEF EntraDownSoFar
  <2>3. s = Drop("entraIdp") => "entraIdp" \notin g
    <3> SUFFICES ASSUME s = Drop("entraIdp") PROVE "entraIdp" \notin g
      OBVIOUS
    <3>1. s.do = "drop" /\ s.what = "entraIdp"
      BY <1>2, StepIs
    <3>2. "entraIdp" \notin g \/ ("entraRow" \notin a.seen /\ g = have)
      BY <1>2, <3>1, StepMakes
    <3> QED BY <2>2, <3>2
  <2>4. s = Drop("entraRow") => "entraRow" \notin g
    <3> SUFFICES ASSUME s = Drop("entraRow") PROVE "entraRow" \notin g
      OBVIOUS
    <3>1. s.do = "drop" /\ s.what = "entraRow"
      BY <1>2, StepIs
    <3>2. "entraRow" \notin g \/ ("entraRow" \notin a.seen /\ g = have)
      BY <1>2, <3>1, StepMakes
    <3> QED BY <2>2, <3>2
  <2>5. ASSUME Read("entraRow") \notin todo, {Drop("entraIdp"), Drop("entraRow")} \cap todo # {}, "entraRow" \in g
        PROVE  "entraRow" \in b.seen
    <3>1. CASE s = Read("entraRow")
      BY <1>5, <2>5, <3>1
    <3>2. CASE s # Read("entraRow")
      <4>1. Read("entraRow") \notin left /\ {Drop("entraIdp"), Drop("entraRow")} \cap left # {}
        BY <1>2, <2>5, <3>2
      <4> QED BY <1>5, <2>1, <2>5, <3>2, <4>1 DEF EntraDownSoFar
    <3> QED BY <3>1, <3>2
  <2>6. Drop("entraIdp") \notin todo /\ Drop("entraRow") \in todo => "entraIdp" \notin g
    BY <1>2, <2>1, <2>3 DEF EntraDownSoFar
  <2>7. ~a.want.gone => \A x \in {"entraRow", "entraIdp"} : Drop(x) \notin todo => x \notin g
    BY <1>2, <2>1, <2>3, <2>4 DEF EntraDownSoFar
  <2>8. EntraDownSoFar(b, g)
    BY <1>1, <2>5, <2>6, <2>7 DEF EntraDownSoFar
  <2> QED BY <1>1, <1>7, <2>8 DEF EntraSoFar
<1> QED BY <1>6, <1>7

\* No step leaves an identity provider without its row.
LEMMA IdpKeepsRow ==
  ASSUME NEW a \in AssetAttempt, a.todo # <<>>, InOrder(a.todo), StepsLeft(a.todo) \subseteq PlanSteps(a.want),
         have \subseteq Asset, NEW s, s = Head(a.todo), EntraSoFar(a, have),
         "entraIdp" \in have => "entraRow" \in have
  PROVE  "entraIdp" \in Effect(a, s) => "entraRow" \in Effect(a, s)
<1>0. PICK g : g = Effect(a, s)
  OBVIOUS
<1> DEFINE left == StepsLeft(a.todo)
<1>1. a.todo \in Seq(AssetStep) /\ a.want \in Wants
  BY DEF AssetAttempt
<1>2. s \in AssetStep /\ s \in left /\ s \in PlanSteps(a.want) /\ \A x : Earlier(x, s) => x \notin left
  BY <1>1, NextStep
<1>3. Serves(a, have, g)
  BY <1>0, <1>2, EffectServes
<1>4. CASE a.want.entra /\ ~a.want.gone
  <2>1. have \cap {"entraRow"} \subseteq g
    BY <1>3, <1>4 DEF Serves
  <2>2. s = Add("entraIdp") => "entraRow" \in have
    <3>1. s = Add("entraIdp") => Add("entraRow") \notin left
      BY <1>2 DEF Earlier
    <3> QED BY <1>4, <3>1 DEF EntraSoFar, EntraUpSoFar
  <2>3. "entraIdp" \in g => "entraIdp" \in have \/ s = Add("entraIdp")
    <3>1. ~(s.do = "put" /\ s.what = "entraIdp")
      BY <1>1, <1>2, PlanStep
    <3>2. s.do \in {"add", "drop", "put", "update", "read"}
      BY <1>2 DEF AssetStep
    <3>3. s = Add("entraIdp") <=> s.do = "add" /\ s.what = "entraIdp"
      BY <1>2, StepIs
    <3>4. CASE s.do \in {"add", "put"}
      BY <1>0, <3>1, <3>3, <3>4, EffectIs
    <3>5. CASE s.do = "drop"
      BY <1>0, <3>5, EffectIs
    <3>6. CASE s.do \in {"read", "update"}
      BY <1>0, <3>6, EffectIs
    <3> QED BY <3>2, <3>4, <3>5, <3>6
  <2> QED BY <1>0, <2>1, <2>2, <2>3
<1>5. CASE ~(a.want.entra /\ ~a.want.gone)
  <2>1. g \cap {"entraRow", "entraIdp"} \subseteq have
    BY <1>3, <1>5 DEF Serves
  <2>2. s = Drop("entraRow") => "entraIdp" \notin have
    <3>1. s = Drop("entraRow") => Drop("entraIdp") \notin left
      BY <1>2 DEF Earlier
    <3> QED BY <1>2, <1>5, <3>1 DEF EntraSoFar, EntraDownSoFar
  <2>3. "entraRow" \in have => "entraRow" \in g \/ s = Drop("entraRow")
    <3>1. s.do \in {"add", "drop", "put", "update", "read"}
      BY <1>2 DEF AssetStep
    <3>2. s = Drop("entraRow") <=> s.do = "drop" /\ s.what = "entraRow"
      BY <1>2, StepIs
    <3>3. CASE s.do \in {"add", "put"}
      BY <1>0, <3>3, EffectIs
    <3>4. CASE s.do = "drop"
      BY <1>0, <3>2, <3>4, EffectIs
    <3>5. CASE s.do \in {"read", "update"}
      BY <1>0, <3>5, EffectIs
    <3> QED BY <3>1, <3>3, <3>4, <3>5
  <2> QED BY <1>0, <2>1, <2>2, <2>3
<1> QED BY <1>4, <1>5

-----------------------------------------------------------------------------
(* The invariant is kept.                                                   *)

\* What stands for no attempt.
LEMMA NoAttempt ==
  ASSUME want \in Wants
  PROVE  /\ AtRest \in AssetAttempt /\ AtRest.state = "idle" /\ AtRest.todo = <<>> /\ AtRest.of = 0
         /\ AtRest.want \in Wants
<1>1. (CHOOSE w \in Wants : TRUE) \in Wants
  OBVIOUS
<1>2. 0 \in 0..MaxWants
  BY ConvergenceAssumption
<1>3. <<>> \in Seq(AssetStep)
  BY EmptySeq
<1> QED BY <1>1, <1>2, <1>3 DEF AtRest, AssetAttempt

\* Attempts and the rest of the state have their types.
LEMMA AssetsTyped ==
  ASSUME PlansFit, want \in Wants, version \in 1..MaxWants, have \subseteq Asset,
         profileOf \in 0..MaxWants, scopesOf \in 0..MaxWants, tangled \in BOOLEAN,
         verdict \in {"pending", "failed", "applied", "appliedBeside"}, assetFaults \in 0..MaxAssetFaults
  PROVE  AssetsTypeOK
BY DEF PlansFit, AssetAttempt, AssetsTypeOK

\* A step of an attempt that is going on: it serves the others of its submission, it
\* ends or stands as far as it came, and an attempt is reported as applied only where
\* that converged.
LEMMA CarriedOn ==
  ASSUME AssetsInv, NEW r \in GoingOn, UNCHANGED <<want, version, tangled>>,
         have' \subseteq Asset, profileOf' \in 0..MaxWants, scopesOf' \in 0..MaxWants, assetFaults' \in 0..MaxAssetFaults,
         verdict' \in {"pending", "failed", "applied", "appliedBeside"},
         attempts' \in [Attempt -> AssetAttempt], \A q \in Attempt \ {r} : attempts'[q] = attempts[q],
         Serves(attempts[r], have, have'), Stamps(attempts[r], profileOf, profileOf'),
         Stamps(attempts[r], scopesOf, scopesOf'), IdpHasRow',
         \/ attempts'[r] = AtRest
         \/ /\ attempts'[r].state # "idle" /\ (attempts'[r].state = "awaited" => attempts[r].state = "awaited")
            /\ attempts'[r].of = attempts[r].of /\ attempts'[r].want = attempts[r].want
            /\ attempts'[r].beside = attempts[r].beside
            /\ StepsLeft(attempts'[r].todo) \subseteq PlanSteps(attempts[r].want) /\ InOrder(attempts'[r].todo)
            /\ Undisturbed(r) => ClientSoFar(attempts'[r], have', profileOf', scopesOf')
            /\ ~tangled => EntraSoFar(attempts'[r], have'),
         verdict' = "applied" => verdict = "applied" \/ (AppliedConverges' /\ \A q \in GoingOn : attempts[q].of = version)
  PROVE  AssetsInv'
<1>1. AssetsTypeOK /\ PlansFit /\ OneSubmission /\ AttemptsConverge /\ AppliedStands
  BY DEF AssetsInv
<1>2. AtRest.state = "idle"
  BY <1>1, NoAttempt DEF AssetsTypeOK
<1>3. ASSUME NEW q \in GoingOn'
      PROVE  /\ q \in GoingOn /\ attempts'[q].of = attempts[q].of /\ attempts'[q].want = attempts[q].want
             /\ attempts'[q].beside = attempts[q].beside
             /\ attempts'[q].state = "awaited" => attempts[q].state = "awaited"
  <2>1. CASE q = r
    BY <1>2, <1>3, <2>1 DEF GoingOn
  <2>2. CASE q # r
    BY <1>3, <2>2 DEF GoingOn
  <2> QED BY <2>1, <2>2
<1>4. PlansFit'
  <2>1. ASSUME NEW q \in Attempt, attempts'[q].state = "idle" PROVE attempts'[q] = AtRest
    BY <1>1, <2>1 DEF PlansFit
  <2>2. ASSUME NEW q \in GoingOn'
        PROVE  /\ attempts'[q].of \in 1..version'
               /\ attempts'[q].of = version' => attempts'[q].want = want'
               /\ attempts'[q].state = "awaited" => attempts'[q].of = version'
    BY <1>1, <1>3, <2>2 DEF PlansFit
  <2>3. ASSUME NEW q \in GoingOn'
        PROVE  StepsLeft(attempts'[q].todo) \subseteq PlanSteps(attempts'[q].want) /\ InOrder(attempts'[q].todo)
    <3>1. CASE q = r
      BY <1>2, <2>3, <3>1 DEF GoingOn
    <3>2. CASE q # r
      BY <1>1, <1>3, <2>3, <3>2 DEF PlansFit, GoingOn
    <3> QED BY <3>1, <3>2
  <2>4. ASSUME NEW p \in GoingOn', NEW q \in GoingOn', attempts'[p].of = attempts'[q].of
        PROVE  attempts'[p].want = attempts'[q].want
    BY <1>1, <1>3, <2>4 DEF PlansFit
  <2> QED BY <2>1, <2>2, <2>3, <2>4 DEF PlansFit
<1>5. OneSubmission'
  <2> SUFFICES ASSUME NEW p \in GoingOn', NEW q \in GoingOn', Undisturbed(q)'
               PROVE  attempts'[p].of = attempts'[q].of
    BY DEF OneSubmission
  <2>1. Undisturbed(q)
    BY <1>3 DEF Undisturbed
  <2> QED BY <1>1, <1>3, <2>1 DEF OneSubmission
<1>6. AttemptsConverge'
  <2> SUFFICES ASSUME NEW q \in GoingOn'
               PROVE  /\ Undisturbed(q)' => ClientSoFar(attempts'[q], have', profileOf', scopesOf')
                      /\ ~tangled' => EntraSoFar(attempts'[q], have')
    BY DEF AttemptsConverge
  <2>1. q \in GoingOn /\ (Undisturbed(q)' => Undisturbed(q)) /\ (~tangled => Undisturbed(q))
    BY <1>3 DEF Undisturbed
  <2>2. CASE q = r
    <3>1. attempts'[r] # AtRest
      BY <1>2, <2>2 DEF GoingOn
    <3> QED BY <2>1, <2>2, <3>1
  <2>3. CASE q # r
    <3>1. attempts'[q] = attempts[q]
      BY <2>1, <2>3 DEF GoingOn
    <3>2. ASSUME Undisturbed(q)
          PROVE  /\ Serves(attempts[q], have, have') /\ Stamps(attempts[q], profileOf, profileOf')
                 /\ Stamps(attempts[q], scopesOf, scopesOf')
      <4>1. attempts[q].of = attempts[r].of /\ attempts[q].want = attempts[r].want
        BY <1>1, <2>1, <3>2 DEF OneSubmission, PlansFit
      <4> QED BY <4>1 DEF Serves, Stamps
    <3>3. Undisturbed(q)' => ClientSoFar(attempts[q], have', profileOf', scopesOf')
      BY <1>1, <2>1, <3>2, OthersKeep DEF AttemptsConverge
    <3>4. ~tangled' => EntraSoFar(attempts[q], have')
      BY <1>1, <2>1, <3>2, OthersKeep DEF AttemptsConverge
    <3> QED BY <3>1, <3>3, <3>4
  <2> QED BY <2>2, <2>3
<1>7. AppliedStands'
  <2> SUFFICES ASSUME verdict' = "applied"
               PROVE  AppliedConverges' /\ \A q \in GoingOn' : attempts'[q].of = version'
    BY DEF AppliedStands
  <2>1. CASE verdict = "applied"
    <3>1. AppliedConverges /\ \A q \in GoingOn : attempts[q].of = version
      BY <1>1, <2>1 DEF AppliedStands
    <3>2. attempts[r].of = version /\ attempts[r].want = want
      BY <1>1, <3>1 DEF PlansFit
    <3>3. ClientConverges'
      BY <2>1, <3>1, <3>2 DEF AppliedConverges, ClientConverges, Converged, Serves, Stamps
    <3>4. EntraConverges'
      BY <2>1, <3>1, <3>2 DEF AppliedConverges, EntraConverges, Converged, Serves
    <3> QED BY <1>3, <3>1, <3>3, <3>4 DEF AppliedConverges
  <2>2. CASE verdict # "applied"
    BY <1>3, <2>2
  <2> QED BY <2>1, <2>2
<1>8. AssetsTypeOK'
  <2>1. want' \in Wants /\ version' \in 1..MaxWants /\ tangled' \in BOOLEAN
    BY <1>1 DEF AssetsTypeOK
  <2> QED BY <1>4, <2>1 DEF PlansFit, AssetAttempt, AssetsTypeOK
<1> QED BY <1>4, <1>5, <1>6, <1>7, <1>8 DEF AssetsInv

\* Where an attempt with steps left stands.
LEMMA AttemptFits ==
  ASSUME AssetsInv, NEW r \in Attempt, attempts[r].todo # <<>>
  PROVE  /\ r \in GoingOn /\ attempts[r] \in AssetAttempt /\ InOrder(attempts[r].todo)
         /\ StepsLeft(attempts[r].todo) \subseteq PlanSteps(attempts[r].want)
         /\ Head(attempts[r].todo) \in PlanSteps(attempts[r].want) /\ Head(attempts[r].todo) \in AssetStep
         /\ have \subseteq Asset
<1>1. AssetsTypeOK /\ PlansFit
  BY DEF AssetsInv
<1>2. r \in GoingOn
  BY <1>1, NoAttempt DEF PlansFit, GoingOn, AssetsTypeOK
<1>3. attempts[r] \in AssetAttempt /\ attempts[r].todo \in Seq(AssetStep)
  BY <1>1 DEF PlansFit, AssetAttempt
<1>4. /\ InOrder(attempts[r].todo) /\ StepsLeft(attempts[r].todo) \subseteq PlanSteps(attempts[r].want)
      /\ have \subseteq Asset
  BY <1>1, <1>2 DEF PlansFit, AssetsTypeOK
<1>5. Head(attempts[r].todo) \in AssetStep /\ Head(attempts[r].todo) \in StepsLeft(attempts[r].todo)
  BY <1>3, <1>4, NextStep
<1> QED BY <1>2, <1>3, <1>4, <1>5

\* An attempt goes on to its next step.
LEMMA AttemptGoesOn ==
  ASSUME AssetsInv, NEW r \in Attempt, attempts[r].todo # <<>>, NEW s, s = Head(attempts[r].todo), Goes(r, s)
  PROVE  /\ attempts' \in [Attempt -> AssetAttempt] /\ \A q \in Attempt \ {r} : attempts'[q] = attempts[q]
         /\ StepsOnTo(attempts[r], s, attempts'[r])
         /\ attempts'[r].state = attempts[r].state /\ attempts'[r].beside = attempts[r].beside
<1> DEFINE a == attempts[r]
           seen == IF s.do = "read" THEN a.seen \cup RowsRead(a, s.what) ELSE a.seen
           b == [a EXCEPT !.todo = Tail(a.todo), !.seen = seen]
<1>1. attempts \in [Attempt -> AssetAttempt] /\ a \in AssetAttempt /\ a.todo \in Seq(AssetStep) /\ have \subseteq Asset
  BY DEF AssetsInv, AssetsTypeOK, PlansFit, AssetAttempt
<1>2. attempts' = [attempts EXCEPT ![r] = b]
  BY <1>1 DEF Goes, AssetAttempt
<1>3. Tail(a.todo) \in Seq(AssetStep)
  BY <1>1, HeadTailProperties
<1>4. seen \subseteq Asset
  <2>1. RowsRead(a, s.what) \subseteq {"cardRow"} \cup have
    BY DEF RowsRead
  <2> QED BY <1>1, <2>1 DEF AssetAttempt, Asset
<1> HIDE DEF seen
<1>5. /\ b \in AssetAttempt /\ b.todo = Tail(a.todo) /\ b.seen = seen /\ b.want = a.want /\ b.of = a.of
      /\ b.state = a.state /\ b.beside = a.beside
  BY <1>1, <1>3, <1>4 DEF AssetAttempt
<1> HIDE DEF b
<1>6. attempts' \in [Attempt -> AssetAttempt] /\ attempts'[r] = b /\ \A q \in Attempt \ {r} : attempts'[q] = attempts[q]
  BY <1>1, <1>2, <1>5
<1> QED BY <1>5, <1>6 DEF StepsOnTo, seen

\* An attempt that ends.
LEMMA AttemptOver ==
  ASSUME AssetsInv, NEW r \in Attempt, NEW v, Ends(r, v)
  PROVE  /\ attempts' \in [Attempt -> AssetAttempt] /\ \A q \in Attempt \ {r} : attempts'[q] = attempts[q]
         /\ attempts'[r] = AtRest /\ verdict' \in {v, verdict}
BY NoAttempt DEF AssetsInv, AssetsTypeOK, PlansFit, Ends

-----------------------------------------------------------------------------
(* The actions.                                                             *)

\* A step that changes nothing serves every attempt.
LEMMA NothingServes ==
  ASSUME NEW a
  PROVE  Serves(a, have, have) /\ Stamps(a, profileOf, profileOf) /\ Stamps(a, scopesOf, scopesOf)
BY DEF Serves, Stamps

\* A new submission: no attempt is one for it yet.
LEMMA SubmitKeeps ==
  ASSUME AssetsInv, NEW w \in Wants, Submit(w)
  PROVE  AssetsInv'
<1>1. /\ \A r \in Attempt : attempts[r].state # "awaited"
      /\ version < MaxWants /\ want' = w /\ version' = version + 1 /\ verdict' = "pending"
      /\ UNCHANGED <<have, profileOf, scopesOf, attempts, tangled, assetFaults>>
  BY DEF Submit, NoneAwaited
<1>2. AssetsTypeOK /\ PlansFit /\ OneSubmission /\ AttemptsConverge /\ IdpHasRow
  BY DEF AssetsInv
<1>3. version \in 1..MaxWants /\ MaxWants \in Nat
  BY <1>2, ConvergenceAssumption DEF AssetsTypeOK
<1>4. GoingOn' = GoingOn /\ \A r \in GoingOn : attempts[r].of \in 1..version /\ attempts[r].of # version'
  BY <1>1, <1>2, <1>3 DEF GoingOn, PlansFit
<1>5. PlansFit'
  <2>1. ASSUME NEW r \in GoingOn
        PROVE  /\ attempts[r].of \in 1..version' /\ attempts[r].of # version' /\ attempts[r].state # "awaited"
               /\ StepsLeft(attempts[r].todo) \subseteq PlanSteps(attempts[r].want) /\ InOrder(attempts[r].todo)
    BY <1>1, <1>2, <1>3, <1>4 DEF GoingOn, PlansFit
  <2> QED BY <1>1, <1>2, <1>4, <2>1 DEF PlansFit
<1>6. \A r \in GoingOn : Undisturbed(r)' => ~tangled /\ Undisturbed(r)
  BY <1>1, <1>4 DEF Undisturbed
<1>7. OneSubmission' /\ AttemptsConverge'
  BY <1>1, <1>2, <1>4, <1>6 DEF OneSubmission, AttemptsConverge
<1>8. IdpHasRow' /\ AppliedStands' /\ AssetsTypeOK'
  BY <1>1, <1>2, <1>3 DEF IdpHasRow, AppliedStands, AssetsTypeOK
<1> QED BY <1>5, <1>7, <1>8 DEF AssetsInv

\* A time-out: the attempt goes on as it was.
LEMMA TimeOutKeeps ==
  ASSUME AssetsInv, NEW r \in Attempt, TimeOut(r)
  PROVE  AssetsInv'
<1> DEFINE a == attempts[r]  b == [a EXCEPT !.state = "abandoned"]
<1>1. /\ a.state = "awaited" /\ assetFaults < MaxAssetFaults /\ attempts' = [attempts EXCEPT ![r] = b]
      /\ verdict' = "failed" /\ assetFaults' = assetFaults + 1
      /\ UNCHANGED <<want, version, have, profileOf, scopesOf, tangled>>
  BY DEF TimeOut
<1>2. AssetsTypeOK /\ PlansFit /\ AttemptsConverge /\ IdpHasRow
  BY DEF AssetsInv
<1>3. attempts \in [Attempt -> AssetAttempt] /\ a \in AssetAttempt /\ r \in GoingOn
  BY <1>1, <1>2 DEF PlansFit, GoingOn
<1>4. /\ b \in AssetAttempt /\ b.state = "abandoned" /\ b.todo = a.todo /\ b.of = a.of /\ b.want = a.want
      /\ b.seen = a.seen /\ b.beside = a.beside
  BY <1>3 DEF AssetAttempt
<1> HIDE DEF b
<1>5. attempts' \in [Attempt -> AssetAttempt] /\ attempts'[r] = b /\ \A q \in Attempt \ {r} : attempts'[q] = attempts[q]
  BY <1>1, <1>3, <1>4
<1>6. StepsLeft(b.todo) \subseteq PlanSteps(a.want) /\ InOrder(b.todo)
  BY <1>2, <1>3, <1>4 DEF PlansFit
<1>7. /\ Undisturbed(r) => ClientSoFar(b, have', profileOf', scopesOf')
      /\ ~tangled => EntraSoFar(b, have')
  <2>1. /\ Undisturbed(r) => ClientSoFar(a, have, profileOf, scopesOf)
        /\ ~tangled => EntraSoFar(a, have)
    BY <1>2, <1>3 DEF AttemptsConverge
  <2>2. ClientSoFar(a, have, profileOf, scopesOf) => ClientSoFar(b, have, profileOf, scopesOf)
    BY <1>4 DEF ClientSoFar
  <2>3. EntraSoFar(a, have) => EntraSoFar(b, have)
    BY <1>4 DEF EntraSoFar, EntraUpSoFar, EntraDownSoFar
  <2> QED BY <1>1, <2>1, <2>2, <2>3
<1>8. Serves(a, have, have') /\ Stamps(a, profileOf, profileOf') /\ Stamps(a, scopesOf, scopesOf')
  BY <1>1, NothingServes
<1>9. /\ have' \subseteq Asset /\ profileOf' \in 0..MaxWants /\ scopesOf' \in 0..MaxWants
      /\ assetFaults' \in 0..MaxAssetFaults /\ IdpHasRow'
  BY <1>1, <1>2, ConvergenceAssumption DEF AssetsTypeOK, IdpHasRow
<1> QED BY <1>1, <1>3, <1>4, <1>5, <1>6, <1>7, <1>8, <1>9, CarriedOn

\* A step that is passed over.
LEMMA PassOverKeeps ==
  ASSUME AssetsInv, NEW r \in Attempt, PassOver(r)
  PROVE  AssetsInv'
<1>0. PICK s : s = Head(attempts[r].todo)
  OBVIOUS
<1>1. /\ attempts[r].todo # <<>> /\ (Skips(attempts[r], s) \/ Optional(s)) /\ Goes(r, s)
      /\ UNCHANGED <<want, version, have, profileOf, scopesOf, tangled, assetFaults>> /\ verdict' = verdict
  BY <1>0 DEF PassOver, Goes
<1>2. AssetsTypeOK /\ PlansFit /\ AttemptsConverge /\ IdpHasRow
  BY DEF AssetsInv
<1>3. /\ r \in GoingOn /\ attempts[r] \in AssetAttempt /\ InOrder(attempts[r].todo)
      /\ StepsLeft(attempts[r].todo) \subseteq PlanSteps(attempts[r].want) /\ have \subseteq Asset
  BY <1>1, AttemptFits
<1>4. PICK b : b = attempts'[r]
  OBVIOUS
<1>5. /\ attempts' \in [Attempt -> AssetAttempt] /\ \A q \in Attempt \ {r} : attempts'[q] = attempts[q]
      /\ StepsOnTo(attempts[r], s, b) /\ b.state = attempts[r].state /\ b.beside = attempts[r].beside
  BY <1>0, <1>1, <1>4, AttemptGoesOn
<1>6. Passed(attempts[r], s, have, profileOf, scopesOf)
  BY <1>1 DEF Passed
<1>7. StepsLeft(b.todo) \subseteq PlanSteps(attempts[r].want) /\ InOrder(b.todo)
  BY <1>1, <1>3, <1>5, NextStep DEF StepsOnTo, AssetAttempt
<1>8. /\ Undisturbed(r) => ClientSoFar(b, have, profileOf, scopesOf)
      /\ ~tangled => EntraSoFar(b, have)
  <2>1. /\ Undisturbed(r) => ClientSoFar(attempts[r], have, profileOf, scopesOf)
        /\ ~tangled => EntraSoFar(attempts[r], have) /\ ("entraIdp" \in have => "entraRow" \in have)
    BY <1>2, <1>3 DEF AttemptsConverge, IdpHasRow
  <2>2. Undisturbed(r) => ClientSoFar(b, have, profileOf, scopesOf)
    BY <1>0, <1>1, <1>3, <1>5, <1>6, <2>1, ClientGoesOn
  <2>3. ~tangled => EntraSoFar(b, have)
    BY <1>0, <1>1, <1>3, <1>5, <1>6, <2>1, EntraGoesOn
  <2> QED BY <2>2, <2>3
<1>9. Serves(attempts[r], have, have') /\ Stamps(attempts[r], profileOf, profileOf') /\ Stamps(attempts[r], scopesOf, scopesOf')
  BY <1>1, NothingServes
<1>10. /\ have' \subseteq Asset /\ profileOf' \in 0..MaxWants /\ scopesOf' \in 0..MaxWants
       /\ assetFaults' \in 0..MaxAssetFaults /\ IdpHasRow'
       /\ verdict' \in {"pending", "failed", "applied", "appliedBeside"}
  BY <1>1, <1>2 DEF AssetsTypeOK, IdpHasRow
<1>11. /\ attempts'[r].state # "idle" /\ (attempts'[r].state = "awaited" => attempts[r].state = "awaited")
       /\ attempts'[r].of = attempts[r].of /\ attempts'[r].want = attempts[r].want
       /\ attempts'[r].beside = attempts[r].beside
       /\ StepsLeft(attempts'[r].todo) \subseteq PlanSteps(attempts[r].want) /\ InOrder(attempts'[r].todo)
       /\ Undisturbed(r) => ClientSoFar(attempts'[r], have', profileOf', scopesOf')
       /\ ~tangled => EntraSoFar(attempts'[r], have')
  BY <1>1, <1>3, <1>4, <1>5, <1>7, <1>8 DEF StepsOnTo, GoingOn
<1> QED BY <1>1, <1>3, <1>5, <1>9, <1>10, <1>11, CarriedOn

\* A call, however it is answered.
LEMMA CallKeeps ==
  ASSUME AssetsInv, NEW r \in Attempt, NEW answer \in {"ok", "refused", "lost"}, Call(r, answer)
  PROVE  AssetsInv'
<1>0. PICK s : s = Head(attempts[r].todo)
  OBVIOUS
<1>1. /\ attempts[r].todo # <<>> /\ ~Skips(attempts[r], s) /\ UNCHANGED <<want, version, tangled>>
      /\ \/ answer = "ok" /\ ~Refused(attempts[r], s) /\ Goes(r, s)
         \/ answer # "ok" /\ Ends(r, "failed")
      /\ assetFaults' = assetFaults \/ (assetFaults < MaxAssetFaults /\ assetFaults' = assetFaults + 1)
      /\ answer = "refused" => UNCHANGED <<have, profileOf, scopesOf>>
      /\ answer # "refused" =>
           /\ have' = Effect(attempts[r], s)
           /\ profileOf' = IF s = Put("client") THEN attempts[r].of ELSE IF s = Drop("client") THEN 0 ELSE profileOf
           /\ scopesOf' = IF s = Update("scopes") THEN attempts[r].of ELSE IF s = Drop("client") THEN 0 ELSE scopesOf
  BY <1>0 DEF Call
<1>2. AssetsTypeOK /\ PlansFit /\ AttemptsConverge /\ IdpHasRow
  BY DEF AssetsInv
<1>3. /\ r \in GoingOn /\ attempts[r] \in AssetAttempt /\ InOrder(attempts[r].todo)
      /\ StepsLeft(attempts[r].todo) \subseteq PlanSteps(attempts[r].want) /\ have \subseteq Asset
      /\ s \in PlanSteps(attempts[r].want) /\ s \in AssetStep /\ attempts[r].of \in 0..MaxWants /\ attempts[r].want \in Wants
  BY <1>0, <1>1, AttemptFits DEF AssetAttempt
<1>4. /\ Undisturbed(r) => ClientSoFar(attempts[r], have, profileOf, scopesOf)
      /\ ~tangled => EntraSoFar(attempts[r], have) /\ ("entraIdp" \in have => "entraRow" \in have)
  BY <1>2, <1>3 DEF AttemptsConverge, IdpHasRow
<1>5. Serves(attempts[r], have, have') /\ have' \subseteq Asset
  BY <1>1, <1>3, NothingServes, EffectServes
<1>6. Stamps(attempts[r], profileOf, profileOf') /\ Stamps(attempts[r], scopesOf, scopesOf')
  <2>1. ~attempts[r].want.gone => s # Drop("client")
    BY <1>3, PlanStep, StepIs
  <2> QED BY <1>1, <2>1, NothingServes DEF Stamps
<1>7. profileOf' \in 0..MaxWants /\ scopesOf' \in 0..MaxWants /\ assetFaults' \in 0..MaxAssetFaults
  <2>1. 0 \in 0..MaxWants /\ MaxAssetFaults \in Nat
    BY ConvergenceAssumption
  <2>2. assetFaults' \in 0..MaxAssetFaults
    BY <1>1, <1>2, <2>1 DEF AssetsTypeOK
  <2>3. profileOf \in 0..MaxWants /\ scopesOf \in 0..MaxWants
    BY <1>2 DEF AssetsTypeOK
  <2>4. CASE answer = "refused"
    BY <1>1, <2>2, <2>3, <2>4
  <2>5. CASE answer # "refused"
    BY <1>1, <1>3, <2>1, <2>2, <2>3, <2>5
  <2> QED BY <2>4, <2>5
<1>8. IdpHasRow'
  <2>1. CASE answer = "refused"
    BY <1>1, <1>2, <2>1 DEF IdpHasRow
  <2>2. CASE answer # "refused"
    BY <1>0, <1>1, <1>3, <1>4, <2>2, IdpKeepsRow DEF IdpHasRow
  <2> QED BY <2>1, <2>2
<1>9. CASE answer = "ok"
  <2>0. PICK b : b = attempts'[r]
    OBVIOUS
  <2>1. /\ attempts' \in [Attempt -> AssetAttempt] /\ \A q \in Attempt \ {r} : attempts'[q] = attempts[q]
        /\ StepsOnTo(attempts[r], s, b) /\ b.state = attempts[r].state /\ b.beside = attempts[r].beside
        /\ verdict' = verdict
    BY <1>0, <1>1, <1>9, <2>0, AttemptGoesOn DEF Goes
  <2>2. Called(attempts[r], s, have', profileOf', scopesOf')
    BY <1>1, <1>9 DEF Called
  <2>3. StepsLeft(b.todo) \subseteq PlanSteps(attempts[r].want) /\ InOrder(b.todo)
    BY <1>1, <1>3, <2>1, NextStep DEF StepsOnTo, AssetAttempt
  <2>4. Undisturbed(r) => ClientSoFar(b, have', profileOf', scopesOf')
    BY <1>0, <1>1, <1>3, <1>4, <2>1, <2>2, ClientGoesOn
  <2>5. ~tangled => EntraSoFar(b, have')
    BY <1>0, <1>1, <1>3, <1>4, <2>1, <2>2, EntraGoesOn
  <2>6. /\ attempts'[r].state # "idle" /\ (attempts'[r].state = "awaited" => attempts[r].state = "awaited")
        /\ attempts'[r].of = attempts[r].of /\ attempts'[r].want = attempts[r].want
        /\ attempts'[r].beside = attempts[r].beside
        /\ StepsLeft(attempts'[r].todo) \subseteq PlanSteps(attempts[r].want) /\ InOrder(attempts'[r].todo)
        /\ Undisturbed(r) => ClientSoFar(attempts'[r], have', profileOf', scopesOf')
        /\ ~tangled => EntraSoFar(attempts'[r], have')
    BY <1>3, <2>0, <2>1, <2>3, <2>4, <2>5 DEF StepsOnTo, GoingOn
  <2>7. verdict' \in {"pending", "failed", "applied", "appliedBeside"}
    BY <1>2, <2>1 DEF AssetsTypeOK
  <2> QED BY <1>1, <1>3, <1>5, <1>6, <1>7, <1>8, <2>1, <2>6, <2>7, CarriedOn
<1>10. CASE answer # "ok"
  <2>1. /\ attempts' \in [Attempt -> AssetAttempt] /\ \A q \in Attempt \ {r} : attempts'[q] = attempts[q]
        /\ attempts'[r] = AtRest /\ verdict' \in {"failed", verdict}
    BY <1>1, <1>10, AttemptOver
  <2>2. verdict' \in {"pending", "failed", "applied", "appliedBeside"} /\ (verdict' = "applied" => verdict = "applied")
    BY <1>2, <2>1 DEF AssetsTypeOK
  <2> QED BY <1>1, <1>3, <1>5, <1>6, <1>7, <1>8, <2>1, <2>2, CarriedOn
<1> QED BY <1>9, <1>10

\* An attempt that ran to its end, and nothing of another submission was going on:
\* the client and, where nothing was ever mixed up, the Entra integration are as wanted.
LEMMA ConcludeKeeps ==
  ASSUME AssetsInv, NEW r \in Attempt, Conclude(r)
  PROVE  AssetsInv'
<1> DEFINE a == attempts[r]
<1>1. /\ a.state # "idle" /\ a.todo = <<>> /\ Ends(r, IF a.beside THEN "appliedBeside" ELSE "applied")
      /\ UNCHANGED <<want, version, have, profileOf, scopesOf, tangled, assetFaults>>
  BY DEF Conclude
<1>2. AssetsTypeOK /\ PlansFit /\ OneSubmission /\ AttemptsConverge /\ IdpHasRow
  BY DEF AssetsInv
<1>3. r \in GoingOn
  BY <1>1 DEF GoingOn
<1>4. /\ attempts' \in [Attempt -> AssetAttempt] /\ \A q \in Attempt \ {r} : attempts'[q] = attempts[q]
      /\ attempts'[r] = AtRest
      /\ verdict' \in {IF a.beside THEN "appliedBeside" ELSE "applied", verdict}
  BY <1>1, AttemptOver
<1>5. verdict' = IF a.state = "awaited" THEN (IF a.beside THEN "appliedBeside" ELSE "applied") ELSE verdict
  BY <1>1 DEF Ends
<1>6. ASSUME verdict' = "applied", verdict # "applied"
      PROVE  AppliedConverges' /\ \A q \in GoingOn : attempts[q].of = version
  <2>1. a.state = "awaited" /\ ~a.beside
    BY <1>5, <1>6
  <2>2. a.of = version /\ a.want = want /\ Undisturbed(r)
    BY <1>2, <1>3, <2>1 DEF PlansFit, Undisturbed
  <2>3. StepsLeft(a.todo) = {}
    BY <1>1, EmptyPart DEF IsPart
  <2>4. ClientConverges'
    <3>1. ClientSoFar(a, have, profileOf, scopesOf)
      BY <1>2, <1>3, <2>2 DEF AttemptsConverge
    <3>2. CASE want.gone
      BY <1>1, <2>2, <2>3, <3>1, <3>2 DEF ClientSoFar, ClientConverges
    <3>3. CASE ~want.gone
      BY <1>1, <2>2, <2>3, <3>1, <3>3 DEF ClientSoFar, ClientConverges
    <3> QED BY <3>2, <3>3
  <2>5. EntraConverges'
    <3> SUFFICES ASSUME ~tangled, ~want.gone
                 PROVE  IF want.entra THEN {"app", "entraRow", "entraIdp"} \subseteq have
                        ELSE {"entraRow", "entraIdp"} \cap have = {}
      BY <1>1 DEF EntraConverges
    <3>1. EntraSoFar(a, have)
      BY <1>2, <1>3 DEF AttemptsConverge
    <3>2. CASE want.entra
      BY <2>2, <2>3, <3>1, <3>2 DEF EntraSoFar, EntraUpSoFar
    <3>3. CASE ~want.entra
      BY <2>2, <2>3, <3>1, <3>3 DEF EntraSoFar, EntraDownSoFar
    <3> QED BY <3>2, <3>3
  <2>6. \A q \in GoingOn : attempts[q].of = version
    BY <1>2, <1>3, <2>2 DEF OneSubmission
  <2> QED BY <2>4, <2>5, <2>6 DEF AppliedConverges
<1>7. Serves(a, have, have') /\ Stamps(a, profileOf, profileOf') /\ Stamps(a, scopesOf, scopesOf')
  BY <1>1, NothingServes
<1>8. /\ have' \subseteq Asset /\ profileOf' \in 0..MaxWants /\ scopesOf' \in 0..MaxWants
      /\ assetFaults' \in 0..MaxAssetFaults /\ IdpHasRow'
      /\ verdict' \in {"pending", "failed", "applied", "appliedBeside"}
  BY <1>1, <1>2, <1>4 DEF AssetsTypeOK, IdpHasRow
<1> QED BY <1>1, <1>3, <1>4, <1>6, <1>7, <1>8, CarriedOn

\* What an attempt starts from: everything of its plan is still to be done.
LEMMA StartStands ==
  ASSUME want \in Wants, NEW b, b.want = want, b.todo = (IF want.gone THEN TearDown(want) ELSE Build(want)),
         b.seen = have \cap {"client", "realmRole"}
  PROVE  /\ b.todo \in Seq(AssetStep) /\ StepsLeft(b.todo) \subseteq PlanSteps(want) /\ InOrder(b.todo)
         /\ ClientSoFar(b, have, profileOf, scopesOf) /\ EntraSoFar(b, have)
<1>1. CASE want.gone
  <2>1. /\ b.todo \in Seq(AssetStep) /\ InOrder(b.todo) /\ StepsLeft(b.todo) \subseteq TearDownSteps
        /\ \A x \in {"client", "realmRole"} : Drop(x) \in StepsLeft(b.todo) <=> x \in have
        /\ EntraDownSteps \subseteq StepsLeft(b.todo) \/ EntraDownSteps \cap StepsLeft(b.todo) = {}
    BY <1>1, TearDownIsPlan
  <2>2. ClientSoFar(b, have, profileOf, scopesOf)
    BY <1>1, <2>1 DEF ClientSoFar
  <2>3. {Read("entraRow"), Drop("entraIdp"), Drop("entraRow")} \subseteq EntraDownSteps
    BY DEF EntraDownSteps
  <2>4. EntraDownSoFar(b, have)
    BY <1>1, <2>1, <2>3 DEF EntraDownSoFar
  <2> QED BY <1>1, <2>1, <2>2, <2>4 DEF EntraSoFar, PlanSteps
<1>2. CASE ~want.gone
  <2>1. b.todo \in Seq(AssetStep) /\ InOrder(b.todo) /\ StepsLeft(b.todo) = BuildSteps(want)
    BY <1>2, BuildIsPlan DEF IsPart
  <2>2. /\ {Put("client"), Update("scopes"), Add("realmRole"), Add("mappers")} \subseteq BuildSteps(want)
        /\ want.bcsc => {Add("cardRow"), Add("cardIdp"), Add("cardScope")} \subseteq BuildSteps(want)
        /\ want.entra => {Add("app"), Update("app"), Add("entraRow"), Add("entraIdp")} \subseteq BuildSteps(want)
        /\ ~want.entra => {Read("entraRow"), Drop("entraIdp"), Drop("entraRow")} \subseteq BuildSteps(want)
    BY DEF BuildSteps, CardUpSteps, EntraUpSteps, EntraDownSteps, ClientUpSteps
  <2>3. ClientSoFar(b, have, profileOf, scopesOf)
    BY <1>2, <2>1, <2>2 DEF ClientSoFar
  <2>4. CASE want.entra
    <3>1. EntraUpSoFar(b, have)
      BY <2>1, <2>2, <2>4 DEF EntraUpSoFar
    <3> QED BY <1>2, <2>1, <2>3, <2>4, <3>1 DEF EntraSoFar, PlanSteps
  <2>5. CASE ~want.entra
    <3>1. EntraDownSoFar(b, have)
      BY <2>1, <2>2, <2>5 DEF EntraDownSoFar
    <3> QED BY <1>2, <2>1, <2>3, <2>5, <3>1 DEF EntraSoFar, PlanSteps
  <2> QED BY <2>4, <2>5
<1> QED BY <1>1, <1>2

\* A new attempt: everything of its plan is still to be done.
LEMMA StartAttemptKeeps ==
  ASSUME AssetsInv, NEW r \in Attempt, StartAttempt(r)
  PROVE  AssetsInv'
<1>0. PICK b : b = [todo |-> IF want.gone THEN TearDown(want) ELSE Build(want), want |-> want, of |-> version,
                    seen |-> have \cap {"client", "realmRole"}, state |-> "awaited", beside |-> OlderGoesOn]
  OBVIOUS
<1>1. /\ verdict \in {"pending", "failed"} /\ attempts[r] = AtRest /\ attempts' = [attempts EXCEPT ![r] = b]
      /\ tangled' = (tangled \/ OlderGoesOn)
      /\ UNCHANGED <<want, version, have, profileOf, scopesOf, verdict, assetFaults>>
  BY <1>0 DEF StartAttempt
<1>2. AssetsTypeOK /\ PlansFit /\ OneSubmission /\ AttemptsConverge /\ IdpHasRow
  BY DEF AssetsInv
<1>3. want \in Wants /\ version \in 1..MaxWants /\ MaxWants \in Nat /\ have \subseteq Asset /\ tangled \in BOOLEAN
  BY <1>2, ConvergenceAssumption DEF AssetsTypeOK
<1>4. /\ b.todo = (IF want.gone THEN TearDown(want) ELSE Build(want)) /\ b.want = want /\ b.of = version
      /\ b.seen = have \cap {"client", "realmRole"} /\ b.state = "awaited" /\ b.beside = OlderGoesOn
  BY <1>0
<1>5. /\ b.todo \in Seq(AssetStep) /\ StepsLeft(b.todo) \subseteq PlanSteps(want) /\ InOrder(b.todo)
      /\ ClientSoFar(b, have, profileOf, scopesOf) /\ EntraSoFar(b, have)
  BY <1>3, <1>4, StartStands
<1>6. b \in AssetAttempt
  <2>1. OlderGoesOn \in BOOLEAN
    BY DEF OlderGoesOn
  <2>2. have \cap {"client", "realmRole"} \subseteq Asset /\ version \in 0..MaxWants
    BY <1>3
  <2> QED BY <1>0, <1>3, <1>4, <1>5, <2>1, <2>2 DEF AssetAttempt
<1>7. attempts' \in [Attempt -> AssetAttempt] /\ attempts'[r] = b /\ \A q \in Attempt \ {r} : attempts'[q] = attempts[q]
  BY <1>1, <1>2, <1>6 DEF PlansFit
<1>8. r \notin GoingOn /\ GoingOn' = GoingOn \cup {r}
  <2>1. attempts[r].state = "idle"
    BY <1>1, <1>3, NoAttempt
  <2> QED BY <1>4, <1>7, <2>1 DEF GoingOn
<1>9. ASSUME NEW q \in GoingOn
      PROVE  /\ attempts'[q] = attempts[q] /\ attempts[q].of \in 1..version
             /\ attempts[q].of = version => attempts[q].want = want
             /\ attempts[q].of # version => OlderGoesOn
  <2>1. q \in Attempt /\ q # r
    BY <1>8, <1>9 DEF GoingOn
  <2>2. /\ attempts[q].of \in 1..version /\ (attempts[q].of = version => attempts[q].want = want)
    BY <1>2, <1>9 DEF PlansFit
  <2>3. attempts[q].of # version => attempts[q].of \in 1..(version - 1)
    BY <1>3, <2>2
  <2> QED BY <1>7, <2>1, <2>2, <2>3 DEF OlderGoesOn
<1>10. PlansFit'
  <2>1. ASSUME NEW q \in Attempt, attempts'[q].state = "idle" PROVE attempts'[q] = AtRest
    BY <1>2, <1>4, <1>7, <2>1 DEF PlansFit
  <2>2. ASSUME NEW q \in GoingOn'
        PROVE  /\ attempts'[q].of \in 1..version
               /\ attempts'[q].of = version => attempts'[q].want = want
               /\ attempts'[q].state = "awaited" => attempts'[q].of = version
               /\ StepsLeft(attempts'[q].todo) \subseteq PlanSteps(attempts'[q].want) /\ InOrder(attempts'[q].todo)
    <3>1. CASE q = r
      BY <1>3, <1>4, <1>5, <1>7, <3>1
    <3>2. CASE q \in GoingOn
      BY <1>2, <1>9, <3>2 DEF PlansFit
    <3> QED BY <1>8, <2>2, <3>1, <3>2
  <2>3. ASSUME NEW p \in GoingOn', NEW q \in GoingOn', attempts'[p].of = attempts'[q].of
        PROVE  attempts'[p].want = attempts'[q].want
    <3>1. ASSUME p \in GoingOn, q \in GoingOn PROVE attempts'[p].want = attempts'[q].want
      BY <1>2, <1>9, <2>3, <3>1 DEF PlansFit
    <3>2. ASSUME p = r \/ q = r PROVE attempts'[p].want = attempts'[q].want
      <4>1. attempts'[p].of = version /\ attempts'[q].of = version
        BY <1>4, <1>7, <2>3, <3>2
      <4> QED BY <2>2, <4>1
    <3> QED BY <1>8, <3>1, <3>2
  <2> QED BY <1>1, <1>7, <2>1, <2>2, <2>3 DEF PlansFit
<1>11. ASSUME NEW q \in GoingOn', Undisturbed(q)'
       PROVE  \A p \in GoingOn' : attempts'[p].of = version
  <2>1. \A p \in GoingOn : attempts[p].of = version
    <3>1. CASE ~tangled'
      BY <1>1, <1>9, <3>1
    <3>2. CASE tangled' /\ q = r
      <4>1. ~OlderGoesOn
        BY <1>4, <1>7, <1>11, <3>2 DEF Undisturbed
      <4> QED BY <1>9, <4>1
    <3>3. CASE tangled' /\ q \in GoingOn
      <4>1. attempts[q].of = version /\ ~attempts[q].beside
        BY <1>1, <1>9, <1>11, <3>3 DEF Undisturbed
      <4>2. Undisturbed(q)
        BY <4>1 DEF Undisturbed
      <4> QED BY <1>2, <3>3, <4>1, <4>2 DEF OneSubmission
    <3> QED BY <1>8, <1>11, <3>1, <3>2, <3>3
  <2> QED BY <1>4, <1>7, <1>8, <1>9, <2>1
<1>12. OneSubmission'
  <2> SUFFICES ASSUME NEW p \in GoingOn', NEW q \in GoingOn', Undisturbed(q)'
               PROVE  attempts'[p].of = attempts'[q].of
    BY DEF OneSubmission
  <2> QED BY <1>11
<1>13. AttemptsConverge'
  <2> SUFFICES ASSUME NEW q \in GoingOn'
               PROVE  /\ Undisturbed(q)' => ClientSoFar(attempts'[q], have', profileOf', scopesOf')
                      /\ ~tangled' => EntraSoFar(attempts'[q], have')
    BY DEF AttemptsConverge
  <2>1. CASE q = r
    BY <1>1, <1>5, <1>7, <2>1
  <2>2. CASE q \in GoingOn
    <3>1. Undisturbed(q)' => Undisturbed(q)
      BY <1>1, <1>9, <2>2 DEF Undisturbed
    <3>2. /\ Undisturbed(q) => ClientSoFar(attempts[q], have, profileOf, scopesOf)
          /\ ~tangled => EntraSoFar(attempts[q], have)
      BY <1>2, <2>2 DEF AttemptsConverge
    <3> QED BY <1>1, <1>9, <2>2, <3>1, <3>2
  <2> QED BY <1>8, <2>1, <2>2
<1>14. IdpHasRow' /\ AppliedStands'
  BY <1>1, <1>2 DEF IdpHasRow, AppliedStands
<1>15. AssetsTypeOK'
  <2>1. tangled' \in BOOLEAN
    BY <1>1, <1>3 DEF OlderGoesOn
  <2> QED BY <1>1, <1>2, <1>10, <2>1 DEF PlansFit, AssetAttempt, AssetsTypeOK
<1> QED BY <1>10, <1>12, <1>13, <1>14, <1>15 DEF AssetsInv

\* At first nothing exists and nothing goes on.
LEMMA AssetsInitStands == AssetsInit => AssetsInv
<1> SUFFICES ASSUME AssetsInit PROVE AssetsInv
  OBVIOUS
<1>1. /\ want \in Wants /\ version = 1 /\ have = {} /\ profileOf = 0 /\ scopesOf = 0
      /\ attempts = [r \in Attempt |-> AtRest] /\ tangled = FALSE /\ verdict = "pending" /\ assetFaults = 0
  BY DEF AssetsInit
<1>2. AtRest \in AssetAttempt /\ AtRest.state = "idle"
  BY <1>1, NoAttempt
<1>3. GoingOn = {}
  BY <1>1, <1>2 DEF GoingOn
<1>4. attempts \in [Attempt -> AssetAttempt] /\ \A r \in Attempt : attempts[r] = AtRest
  BY <1>1, <1>2
<1>5. PlansFit
  BY <1>3, <1>4 DEF PlansFit
<1>6. AssetsTypeOK
  <2>1. 1 \in 1..MaxWants /\ 0 \in 0..MaxWants /\ 0 \in 0..MaxAssetFaults
    BY ConvergenceAssumption
  <2> QED BY <1>1, <1>5, <2>1 DEF PlansFit, AssetAttempt, AssetsTypeOK
<1> QED BY <1>1, <1>3, <1>5, <1>6 DEF AssetsInv, OneSubmission, AttemptsConverge, IdpHasRow, AppliedStands

\* A step that changes nothing keeps the invariant.
LEMMA AssetsStutter ==
  ASSUME AssetsInv, UNCHANGED assetVars
  PROVE  AssetsInv'
<1>1. UNCHANGED <<want, version, have, profileOf, scopesOf, attempts, tangled, verdict, assetFaults>>
  BY DEF assetVars
<1>2. AssetsTypeOK' /\ PlansFit' /\ OneSubmission'
  BY <1>1 DEF AssetsInv, AssetsTypeOK, PlansFit, OneSubmission, GoingOn, Undisturbed
<1>3. AttemptsConverge'
  BY <1>1 DEF AssetsInv, AttemptsConverge, GoingOn, Undisturbed
<1>4. IdpHasRow' /\ AppliedStands'
  BY <1>1 DEF AssetsInv, IdpHasRow, AppliedStands, AppliedConverges, ClientConverges, EntraConverges, Converged, GoingOn
<1> QED BY <1>2, <1>3, <1>4 DEF AssetsInv

\* Whatever is refused, lost or times out, and however attempts overlap: what an
\* attempt that nothing of another submission disturbs has done so far stands, and so
\* does what an attempt reported as applied left (keycloakClient,
\* app/keycloak/integration.ts).
THEOREM AssetsInvariant == AssetsSpec => []AssetsInv
<1>1. AssetsInit => AssetsInv
  BY AssetsInitStands
<1>2. AssetsInv /\ [AssetsNext]_assetVars => AssetsInv'
  <2> SUFFICES ASSUME AssetsInv, [AssetsNext]_assetVars PROVE AssetsInv'
    OBVIOUS
  <2>1. CASE \E w \in Wants : Submit(w)
    BY <2>1, SubmitKeeps
  <2>2. ASSUME NEW r \in Attempt,
               \/ StartAttempt(r) \/ TimeOut(r) \/ PassOver(r) \/ Conclude(r)
               \/ \E answer \in {"ok", "refused", "lost"} : Call(r, answer)
        PROVE  AssetsInv'
    BY <2>2, StartAttemptKeeps, TimeOutKeeps, PassOverKeeps, ConcludeKeeps, CallKeeps
  <2>3. CASE UNCHANGED assetVars
    BY <2>3, AssetsStutter
  <2> QED BY <2>1, <2>2, <2>3 DEF AssetsNext
<1> QED BY <1>1, <1>2, PTL DEF AssetsSpec

\* An attempt of keycloakClient that is reported as applied has brought the client,
\* its realm role, mappers, profile and default scopes, the card's provider and scope
\* and the Entra integration to what the latest submission wants, after any failures,
\* lost answers and time-outs before it, and later attempts leave it so.
THEOREM AppliedIsConverged == AssetsSpec => []AppliedConverges
<1>1. AssetsInv => AppliedConverges
  <2>1. CASE verdict = "applied"
    BY <2>1 DEF AssetsInv, AppliedStands
  <2>2. CASE verdict # "applied"
    BY <2>2 DEF AppliedConverges, ClientConverges, EntraConverges, Converged
  <2> QED BY <2>1, <2>2
<1> QED BY <1>1, AssetsInvariant, PTL

=============================================================================
