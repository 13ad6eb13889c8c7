----------------------------- MODULE TokenClient -----------------------------
(***************************************************************************)
(* Calls made with an access token that one process shares: callAzureGraph *)
(* Api of utils/graph-api.ts ("graph") and fetchUpstream of                *)
(* utils/chat-proxy.ts over utils/rag-token.ts ("rag").  The token is      *)
(* cached until it is about to expire; callers that find none share one    *)
(* fetch; a 401 drops the cached token and is retried once.  Between two   *)
(* actions other callers move, the token can expire, and the other side    *)
(* can revoke every token it issued so far.                                *)
(***************************************************************************)
EXTENDS Integers

CONSTANTS
  TokenCaller,     \* concurrent calls
  MaxRetries,      \* GRAPH_API_MAX_RETRIES: 5 in the code
  MaxTokens,       \* bound on tokens issued
  MaxTokenFaults   \* bound on answers that are lost, refusals and failed fetches

ASSUME TokenAssumption == MaxRetries \in Nat /\ MaxTokens \in Nat /\ MaxTokenFaults \in Nat

NoToken == 0
NoFetch == -1   \* no fetch is in flight; 0: asked for; otherwise the token on its way

VARIABLES
  clientKind,   \* "graph" or "rag"
  issued,       \* the last token issued
  revoked,      \* tokens up to this one are no longer accepted
  cached,       \* the token in the cache
  fetching,     \* the shared fetch
  tokenCall,    \* the calls
  tokenFaults   \* faults so far

tokenVars == <<clientKind, issued, revoked, cached, fetching, tokenCall, tokenFaults>>

NoCall == [at |-> "idle", post |-> FALSE, token |-> NoToken, tries |-> 0, refreshed |-> FALSE,
           answer |-> "none", processed |-> 0, began |-> 0]

TokensTypeOK ==
  /\ clientKind \in {"graph", "rag"}
  /\ issued \in 0..MaxTokens /\ revoked \in 0..issued /\ cached \in 0..issued
  /\ fetching \in NoFetch..issued
  /\ tokenCall \in [TokenCaller ->
       [at : {"idle", "asking", "waiting", "sent", "answered", "ok", "denied", "failed"},
        post : BOOLEAN, token : 0..MaxTokens, tries : 0..(MaxRetries + 1), refreshed : BOOLEAN,
        answer : {"none", "done", "401", "lost", "unprocessed"},
        processed : 0..(MaxRetries + 2), began : 0..MaxTokens]]
  /\ tokenFaults \in 0..MaxTokenFaults

TokenFault == tokenFaults < MaxTokenFaults /\ tokenFaults' = tokenFaults + 1

-----------------------------------------------------------------------------
TokensInit ==
  /\ clientKind \in {"graph", "rag"}
  /\ issued = 0 /\ revoked = 0 /\ cached = NoToken /\ fetching = NoFetch
  /\ tokenCall = [c \in TokenCaller |-> NoCall]
  /\ tokenFaults = 0

BeginCall(c, post) ==
  /\ tokenCall[c] = NoCall
  /\ tokenCall' = [tokenCall EXCEPT ![c].at = "asking", ![c].post = post, ![c].began = revoked]
  /\ UNCHANGED <<clientKind, issued, revoked, cached, fetching, tokenFaults>>

\* getAzureAccessToken, getRagAccessToken: the cache, or the shared fetch.
AskToken(c) ==
  /\ tokenCall[c].at = "asking"
  /\ IF cached # NoToken
     THEN tokenCall' = [tokenCall EXCEPT ![c].at = "sent", ![c].token = cached] /\ UNCHANGED fetching
     ELSE /\ tokenCall' = [tokenCall EXCEPT ![c].at = "waiting"]
          /\ fetching' = IF fetching = NoFetch THEN NoToken ELSE fetching
  /\ UNCHANGED <<clientKind, issued, revoked, cached, tokenFaults>>

\* The Entra library keeps tokens of its own, and may answer with the last one.
IssueToken ==
  /\ fetching = NoToken
  /\ \/ issued < MaxTokens /\ issued' = issued + 1
     \/ clientKind = "graph" /\ issued > 0 /\ issued' = issued
  /\ fetching' = issued'
  /\ UNCHANGED <<clientKind, revoked, cached, tokenCall, tokenFaults>>

(* Mutant: the settled fetch is not cleared. *)
ClearedNever(f) == f
\* finally: the next caller that finds no token fetches again.
Cleared(f) == NoFetch

LandToken ==
  /\ fetching \notin {NoFetch, NoToken}
  /\ cached' = fetching
  /\ tokenCall' = [c \in TokenCaller |-> IF tokenCall[c].at = "waiting"
                   THEN [tokenCall[c] EXCEPT !.at = "sent", !.token = fetching] ELSE tokenCall[c]]
  /\ fetching' = Cleared(fetching)
  /\ UNCHANGED <<clientKind, issued, revoked, tokenFaults>>

\* Everybody who waits fails, with an error of its own.
FetchFails ==
  /\ fetching # NoFetch /\ TokenFault
  /\ tokenCall' = [c \in TokenCaller |-> IF tokenCall[c].at = "waiting"
                   THEN [tokenCall[c] EXCEPT !.at = "failed"] ELSE tokenCall[c]]
  /\ fetching' = NoFetch
  /\ UNCHANGED <<clientKind, issued, revoked, cached>>

TokenExpires ==
  /\ cached # NoToken /\ cached' = NoToken
  /\ UNCHANGED <<clientKind, issued, revoked, fetching, tokenCall, tokenFaults>>

\* The secret is rotated, or the tokens are revoked.
RevokeTokens ==
  /\ revoked < issued /\ revoked' = issued
  /\ UNCHANGED <<clientKind, issued, cached, fetching, tokenCall, tokenFaults>>

-----------------------------------------------------------------------------
\* The other side: refuses the token, does what it is asked, says that it did
\* not, or gives no usable answer and may have done it.
Respond(c, answer) ==
  /\ tokenCall[c].at = "sent"
  /\ (answer = "401") <=> tokenCall[c].token <= revoked
  /\ IF answer \in {"lost", "unprocessed"} THEN TokenFault ELSE UNCHANGED tokenFaults
  /\ \E n \in CASE answer = "done" -> {1} [] answer = "lost" -> {0, 1} [] OTHER -> {0} :
       tokenCall' = [tokenCall EXCEPT ![c].at = "answered", ![c].answer = answer, ![c].processed = @ + n]
  /\ UNCHANGED <<clientKind, issued, revoked, cached, fetching>>

(* Mutant: whatever is safe to repeat for GET is repeated. *)
RepeatableByAll(q) == q.answer \in {"unprocessed", "lost"}
\* A POST is repeated only after an answer that says it was not processed.
Repeatable(q) == q.answer = "unprocessed" \/ (q.answer = "lost" /\ ~q.post)

\* Of the two, only the chat proxy says which token was refused.
Invalidated(token) == IF clientKind = "graph" \/ cached = token THEN NoToken ELSE cached

Retried(q) == [q EXCEPT !.at = "asking", !.token = NoToken, !.tries = @ + 1, !.answer = "none"]

Receive(c) ==
  LET q == tokenCall[c]
      ends(how) == [q EXCEPT !.at = how]
  IN /\ q.at = "answered"
     /\ cached' = IF q.answer = "401" /\ ~q.refreshed THEN Invalidated(q.token) ELSE cached
     /\ tokenCall' = [tokenCall EXCEPT ![c] =
          CASE q.answer = "done" -> ends("ok")
            [] q.answer = "401" /\ ~q.refreshed -> [Retried(q) EXCEPT !.refreshed = TRUE]
            [] q.answer = "401" /\ q.refreshed -> ends("denied")
            [] OTHER -> IF clientKind = "graph" /\ q.tries < MaxRetries /\ Repeatable(q)
                        THEN Retried(q) ELSE ends("failed")]
     /\ UNCHANGED <<clientKind, issued, revoked, fetching, tokenFaults>>

TokensNext ==
  \/ IssueToken \/ LandToken \/ FetchFails \/ TokenExpires \/ RevokeTokens
  \/ \E c \in TokenCaller :
       \/ \E post \in BOOLEAN : BeginCall(c, post)
       \/ AskToken(c) \/ Receive(c)
       \/ \E answer \in {"done", "401", "lost", "unprocessed"} : Respond(c, answer)

-----------------------------------------------------------------------------
(* "Non-idempotent methods only retry on statuses that guarantee the request *)
(* wasn't processed": however tokens expire and answers get lost, what a     *)
(* POST asks for is done at most once, the retry after a 401 included.       *)
PostedOnce == \A c \in TokenCaller : tokenCall[c].post => tokenCall[c].processed <= 1

(* "If the RAG API rejects the token ... the call is retried once with a new *)
(* one": tokens revoked before a call began never make it fail, whatever     *)
(* fetch it shares and whoever drops the cached token meanwhile; only a      *)
(* revocation during the call does.                                          *)
RevocationIsSurvived ==
  \A c \in TokenCaller : tokenCall[c].at = "denied" /\ clientKind = "rag" => tokenCall[c].began < revoked
=============================================================================
