---------------------------- MODULE KeyRotation ----------------------------
(***************************************************************************)
(* The rotation of the PS256 key that Keycloak signs client assertions     *)
(* with, for one environment: rotateEnvironment of                         *)
(* pages/api/ms-graph/refreshApplicationKeyCredentials.ts, one action per  *)
(* call to Keycloak or Microsoft Graph.  A call is answered, refused       *)
(* before it had an effect, or has its effect and is lost; the process may *)
(* die between two calls; the next rotation starts from what is left.      *)
(*                                                                         *)
(* Keycloak signs with a provider of the highest priority; which one, when *)
(* several share it, is its own choice and not the one                     *)
(* getActivePS256KeyProvider makes.                                        *)
(***************************************************************************)
EXTENDS Integers, FiniteSets

CONSTANTS
  App,           \* Entra applications: the rows of entra_clients
  MaxKeys,       \* bound on the key providers ever created
  MaxKeyFaults   \* bound on refused and lost calls and on crashes

ASSUME KeyRotationAssumption == MaxKeys \in Nat \ {0} /\ MaxKeyFaults \in Nat

Key == 1..MaxKeys
ActivePriority == 100
StandbyPriority == 0
CutoverPriority == 200
Absent == -1

VARIABLES
  priority,   \* the providers and their priorities
  lastKey,    \* the last provider created
  apps,       \* the applications that exist
  trusted,    \* the key credentials of each application
  exposed,    \* applications made after a rotation listed them, or prepared without
              \* the certificate in use
  rot,        \* the rotation
  keyFaults   \* faults so far

keyVars == <<priority, lastKey, apps, trusted, exposed, rot, keyFaults>>

NotRotating ==
  [at |-> "idle", current |-> 0, new |-> 0, stale |-> FALSE, todo |-> {}, updated |-> {}]

KeysTypeOK ==
  /\ priority \in [Key -> {Absent, StandbyPriority, ActivePriority, CutoverPriority}]
  /\ lastKey \in Key
  /\ apps \subseteq App /\ exposed \subseteq App
  /\ trusted \in [App -> SUBSET Key]
  /\ rot \in [at : {"idle", "normalize", "create", "certify", "prepare", "undo",
                    "retire", "remove", "rename"},
              current : 0..MaxKeys, new : 0..MaxKeys, stale : BOOLEAN,
              todo : SUBSET App, updated : SUBSET App]
  /\ keyFaults \in 0..MaxKeyFaults

Providers == {k \in Key : priority[k] # Absent}
\* The providers of the highest priority: any of them may be the one that signs.
Signing == {k \in Providers : \A j \in Providers : priority[j] <= priority[k]}

-----------------------------------------------------------------------------
KeysInit ==
  /\ priority = [k \in Key |-> IF k = 1 THEN ActivePriority ELSE Absent]
  /\ lastKey = 1
  /\ apps \in SUBSET App
  /\ trusted = [a \in App |-> IF a \in apps THEN {1} ELSE {}]
  /\ exposed = {}
  /\ rot = NotRotating
  /\ keyFaults = 0

Answer == {"ok", "refused", "lost"}
Lands(f) == f # "refused"
Counts(f) == /\ f # "ok" => keyFaults < MaxKeyFaults
             /\ keyFaults' = IF f = "ok" THEN keyFaults ELSE keyFaults + 1

SetPriority(k, p, f) == priority' = IF Lands(f) THEN [priority EXCEPT ![k] = p] ELSE priority
SetTrusted(a, keys, f) == trusted' = IF Lands(f) THEN [trusted EXCEPT ![a] = keys] ELSE trusted
GoesTo(to) == rot' = [rot EXCEPT !.at = to]
OrThrows(f, to) == IF f = "ok" THEN GoesTo(to) ELSE rot' = NotRotating

\* getActivePS256KeyProvider: the first listed of the highest priority.
StartRotation ==
  /\ rot = NotRotating /\ lastKey < MaxKeys
  /\ \E k \in Signing : rot' = [NotRotating EXCEPT !.at = "normalize", !.current = k]
  /\ UNCHANGED <<priority, lastKey, apps, trusted, exposed, keyFaults>>

Normalize(f) ==
  /\ rot.at = "normalize"
  /\ priority[rot.current] = ActivePriority => f = "ok"
  /\ SetPriority(rot.current, ActivePriority, f)
  /\ OrThrows(f, "create") /\ Counts(f)
  /\ UNCHANGED <<lastKey, apps, trusted, exposed>>

CreateStandby(f) ==
  /\ rot.at = "create"
  /\ lastKey' = lastKey + 1
  /\ SetPriority(lastKey', StandbyPriority, f)
  /\ rot' = IF f = "ok" THEN [rot EXCEPT !.at = "certify", !.new = lastKey'] ELSE NotRotating
  /\ Counts(f)
  /\ UNCHANGED <<apps, trusted, exposed>>

\* The certificates, then the clients to update, read once.  staleCert: Keycloak
\* may fail to show the certificate of the current key, which stops nothing.
Certify(shown) ==
  /\ rot.at = "certify"
  /\ rot' = [rot EXCEPT !.at = "prepare", !.stale = shown, !.todo = apps, !.updated = {}]
  /\ ~shown => keyFaults < MaxKeyFaults
  /\ keyFaults' = IF shown THEN keyFaults ELSE keyFaults + 1
  /\ UNCHANGED <<priority, lastKey, apps, trusted, exposed>>

\* Keycloak shows no certificate for the new key: the provider is removed.
NoCertificate(f) ==
  /\ rot.at = "certify" /\ keyFaults < MaxKeyFaults
  /\ SetPriority(rot.new, Absent, f)
  /\ rot' = NotRotating
  /\ keyFaults' = keyFaults + 1
  /\ UNCHANGED <<lastKey, apps, trusted, exposed>>

(* Mutant: the previous key is dropped at once. *)
NewKeyOnly == {rot.new}
\* An application trusts both keys, or the new one alone without the current
\* certificate; one that cannot be verified counts as lost.
OverlapKeys == IF rot.stale THEN {rot.current, rot.new} ELSE {rot.new}
Prepare(a, f) ==
  /\ rot.at = "prepare" /\ a \in rot.todo
  /\ SetTrusted(a, OverlapKeys, f)
  /\ rot' = IF f = "ok" THEN [rot EXCEPT !.todo = @ \ {a}, !.updated = @ \cup {a}]
            ELSE [rot EXCEPT !.at = "undo"]
  /\ exposed' = IF ~Lands(f) THEN exposed
                ELSE IF rot.stale THEN exposed \ {a} ELSE exposed \cup {a}
  /\ Counts(f)
  /\ UNCHANGED <<priority, lastKey, apps>>

\* The applications that were verified trust the previous key alone again, or
\* nothing without its certificate.
Undo(a, f) ==
  /\ rot.at = "undo" /\ a \in rot.updated
  /\ SetTrusted(a, IF rot.stale THEN {rot.current} ELSE {}, f)
  /\ rot' = [rot EXCEPT !.updated = @ \ {a}]
  /\ Counts(f)
  /\ UNCHANGED <<priority, lastKey, apps, exposed>>

Withdraw(f) ==
  /\ rot.at = "undo" /\ rot.updated = {}
  /\ SetPriority(rot.new, Absent, f)
  /\ rot' = NotRotating
  /\ Counts(f)
  /\ UNCHANGED <<lastKey, apps, trusted, exposed>>

\* Without the previous certificate there is none to take from the applications.
EveryAppIsReady == rot.todo = {}
CutOver(f) ==
  /\ rot.at = "prepare" /\ EveryAppIsReady
  /\ SetPriority(rot.new, CutoverPriority, f)
  /\ rot' = IF f = "ok" THEN [rot EXCEPT !.at = "retire", !.todo = IF rot.stale THEN rot.updated ELSE {}]
            ELSE NotRotating
  /\ exposed' = IF Lands(f) THEN exposed \ rot.updated ELSE exposed
  /\ Counts(f)
  /\ UNCHANGED <<lastKey, apps, trusted>>

\* Clean up: problems are collected, the next application is tried anyway.
Retire(a, f) ==
  /\ rot.at = "retire" /\ a \in rot.todo
  /\ SetTrusted(a, {rot.new}, f)
  /\ rot' = [rot EXCEPT !.todo = @ \ {a}]
  /\ Counts(f)
  /\ UNCHANGED <<priority, lastKey, apps, exposed>>

RemoveOld(f) ==
  /\ rot.at = "retire" /\ rot.todo = {}
  /\ SetPriority(rot.current, Absent, f)
  /\ OrThrows(f, "rename") /\ Counts(f)
  /\ UNCHANGED <<lastKey, apps, trusted, exposed>>

Rename(f) ==
  /\ rot.at = "rename"
  /\ SetPriority(rot.new, ActivePriority, f)
  /\ rot' = NotRotating
  /\ Counts(f)
  /\ UNCHANGED <<lastKey, apps, trusted, exposed>>

RotationDies ==
  /\ rot # NotRotating /\ keyFaults < MaxKeyFaults
  /\ rot' = NotRotating
  /\ keyFaults' = keyFaults + 1
  /\ UNCHANGED <<priority, lastKey, apps, trusted, exposed>>

\* createEntraIntegration registers the certificate of the provider in use.
RegisterApp(a) ==
  /\ a \notin apps
  /\ apps' = apps \cup {a}
  /\ \E k \in Signing : trusted' = [trusted EXCEPT ![a] = {k}]
  /\ exposed' = IF rot.at = "prepare" THEN exposed \cup {a} ELSE exposed
  /\ UNCHANGED <<priority, lastKey, rot, keyFaults>>

KeysNext ==
  \/ StartRotation \/ RotationDies \/ \E shown \in BOOLEAN : Certify(shown)
  \/ \E f \in Answer :
       \/ Normalize(f) \/ CreateStandby(f) \/ NoCertificate(f) \/ Withdraw(f)
       \/ CutOver(f) \/ RemoveOld(f) \/ Rename(f)
       \/ \E a \in App : Prepare(a, f) \/ Undo(a, f) \/ Retire(a, f)
  \/ \E a \in App : RegisterApp(a)

-----------------------------------------------------------------------------
CoveredApps == apps \ exposed

(* "Both certificates are trusted by Entra during the overlap": whatever     *)
(* call fails, and wherever the process dies, in this rotation or an earlier *)
(* one, every application trusts the key in use, as long as one provider has *)
(* the highest priority.  Two kinds are excepted: one made after a rotation  *)
(* listed them, until the next prepares it, and one prepared while Keycloak  *)
(* showed no certificate of the key in use, until the new key is in use or a *)
(* later rotation prepares it with both.                                     *)
SigningKeyIsTrusted ==
  \A a \in CoveredApps : \A k \in Key : Signing = {k} => k \in trusted[a]
=============================================================================
