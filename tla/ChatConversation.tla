-------------------------- MODULE ChatConversation --------------------------
(***************************************************************************)
(* The assistant's conversations in one browser: the tabs' useChat         *)
(* (components/ChatWidget/useChat.ts), the copy each tab keeps in its      *)
(* session storage (utils/chat/history.ts), the proxy's cookie, which the  *)
(* tabs share (utils/chat-proxy.ts, pages/api/chat), and the RAG API,      *)
(* which is external: it keeps a turn under the session and the tab id it  *)
(* was asked with once the turn has ended.  A reload may sign another user *)
(* in, and the cookie is read when a call leaves and written when its      *)
(* answer arrives.                                                         *)
(***************************************************************************)
EXTENDS Integers, Sequences

CONSTANTS
  ChatUser, Tab,
  MaxTurns,      \* bound on questions
  MaxRemovals,   \* bound on New chat and Delete history
  MaxReloads     \* bound on reloads

ASSUME ChatAssumption == MaxTurns \in Nat /\ MaxRemovals \in Nat /\ MaxReloads \in Nat

VARIABLES
  chatUser,   \* the user signed in when the tab was loaded
  conv,       \* the tab id, counted up when it rotates
  turns,      \* every question asked, in order
  screen,     \* the turns a tab shows
  kept,       \* its copy in session storage, under its present tab id
  cookie,     \* css_chat_session: its owner's tag and the upstream session
  removal,    \* calls of DELETE /chat and DELETE /chat/history under way
  removals, reloads

chatVars == <<chatUser, conv, turns, screen, kept, cookie, removal, removals, reloads>>

NoSession == 0
NoCookie == [owner |-> CHOOSE u \in ChatUser : TRUE, session |-> NoSession]
TurnIds == 1..MaxTurns
Turn == [by : ChatUser, tab : Tab, conv : 0..(MaxRemovals + 1), session : 0..MaxTurns,
         phase : {"asked", "sent", "streaming", "answered", "failed", "aborted"}, stored : {"no", "yes", "deleted"}]
Removal == [op : {"reset", "history"}, by : ChatUser, tab : Tab, conv : 0..(MaxRemovals + 1),
            session : 0..MaxTurns, awaited : BOOLEAN]

ChatTypeOK ==
  /\ chatUser \in [Tab -> ChatUser] /\ conv \in [Tab -> 0..(MaxRemovals + 1)]
  /\ turns \in Seq(Turn) /\ Len(turns) <= MaxTurns
  /\ screen \in [Tab -> SUBSET (DOMAIN turns)]
  /\ kept \in [Tab -> [owner : ChatUser, turns : SUBSET (DOMAIN turns)]]
  /\ cookie \in [owner : ChatUser, session : 0..MaxTurns]
  /\ removal \subseteq Removal
  /\ removals \in 0..MaxRemovals /\ reloads \in 0..MaxReloads

\* The turn abortRef holds: one per tab.
LiveTurns(t) == {i \in DOMAIN turns : turns[i].tab = t /\ turns[i].phase \in {"asked", "sent", "streaming"}}
\* stopStreaming; the question goes with its answer ("aborted") or stays ("failed").
Stopped(t, phase) == [i \in DOMAIN turns |-> IF i \in LiveTurns(t) THEN [turns[i] EXCEPT !.phase = phase] ELSE turns[i]]

\* saveHistory, which runs after every change of the messages, and leaves an
\* answer that still streams out, with its question.
Kept(all, streaming) == all \ streaming
Shows(t, all, streaming) ==
  /\ screen' = [screen EXCEPT ![t] = all]
  /\ kept' = [kept EXCEPT ![t] = [owner |-> chatUser[t], turns |-> Kept(all, streaming)]]

(* Mutant: the cookie's tag is not compared. *)
AnySession(u) == cookie.session
\* ownedSessionId.
OwnedSession(u) == IF cookie.owner = u THEN cookie.session ELSE NoSession

-----------------------------------------------------------------------------
ChatInit ==
  /\ \E u \in ChatUser : chatUser = [t \in Tab |-> u]
  /\ conv = [t \in Tab |-> 0] /\ turns = <<>> /\ screen = [t \in Tab |-> {}]
  /\ kept = [t \in Tab |-> [owner |-> chatUser[t], turns |-> {}]]
  /\ cookie = NoCookie /\ removal = {} /\ removals = 0 /\ reloads = 0

\* sendMessage, up to its first await.
Ask(t) ==
  LET i == Len(turns) + 1
  IN /\ LiveTurns(t) = {} /\ i \in TurnIds
     /\ turns' = Append(turns, [by |-> chatUser[t], tab |-> t, conv |-> conv[t], session |-> NoSession,
                                phase |-> "asked", stored |-> "no"])
     /\ Shows(t, screen[t] \cup {i}, {i})
     /\ UNCHANGED <<chatUser, conv, cookie, removal, removals, reloads>>

\* The call leaves with the tab id and the cookie of this moment; the RAG API
\* begins a session where none came along.
Send(i) ==
  LET carried == OwnedSession(turns[i].by)
  IN /\ turns[i].phase = "asked"
     /\ turns' = [turns EXCEPT ![i].phase = "sent", ![i].conv = conv[turns[i].tab],
                               ![i].session = IF carried = NoSession THEN i ELSE carried]
     /\ UNCHANGED <<chatUser, conv, screen, kept, cookie, removal, removals, reloads>>

\* The answer's headers: applyUpstreamSessionCookie.
BeginAnswer(i) ==
  /\ turns[i].phase = "sent"
  /\ turns' = [turns EXCEPT ![i].phase = "streaming"]
  /\ cookie' = [owner |-> turns[i].by, session |-> turns[i].session]
  /\ UNCHANGED <<chatUser, conv, screen, kept, removal, removals, reloads>>

\* The RAG API saves a turn when it ends: also, at times, one the caller gave up.
UpstreamEnds(i) ==
  /\ turns[i].session # NoSession /\ turns[i].stored = "no" /\ turns[i].phase # "sent"
  /\ turns' = [turns EXCEPT ![i].stored = "yes"]
  /\ UNCHANGED <<chatUser, conv, screen, kept, cookie, removal, removals, reloads>>

Complete(i) ==
  LET t == turns[i].tab
  IN /\ turns[i].phase = "streaming" /\ turns[i].stored # "no"
     /\ turns' = [turns EXCEPT ![i].phase = "answered"]
     /\ Shows(t, screen[t], {})
     /\ UNCHANGED <<chatUser, conv, cookie, removal, removals, reloads>>

\* 400, 401, 429, 502, a broken stream: the answer goes, the question stays.
FailTurn(i) ==
  LET t == turns[i].tab
  IN /\ i \in LiveTurns(t)
     /\ turns' = [turns EXCEPT ![i].phase = "failed"]
     /\ Shows(t, screen[t], {})
     /\ UNCHANGED <<chatUser, conv, cookie, removal, removals, reloads>>

Calls(t, op) ==
  /\ removals < MaxRemovals /\ removals' = removals + 1
  /\ removal' = removal \cup {[op |-> op, by |-> chatUser[t], tab |-> t, conv |-> conv[t],
                               session |-> OwnedSession(chatUser[t]), awaited |-> TRUE]}

\* clearMessages.
NewChat(t) ==
  /\ screen[t] # {}
  /\ Calls(t, "reset") /\ turns' = Stopped(t, "aborted")
  /\ conv' = [conv EXCEPT ![t] = @ + 1] /\ Shows(t, {}, {})
  /\ UNCHANGED <<chatUser, cookie, reloads>>

\* deleteHistory: the answer under way is stopped first, its question stays.
DeleteHistory(t) ==
  /\ Calls(t, "history") /\ turns' = Stopped(t, "failed")
  /\ Shows(t, screen[t], {})
  /\ UNCHANGED <<chatUser, conv, cookie, reloads>>

\* What a removal deletes of what the RAG API has: a conversation, or the session.
Deleted(c) ==
  [i \in DOMAIN turns |->
    IF /\ c.session # NoSession /\ turns[i].session = c.session /\ turns[i].stored = "yes"
       /\ c.op = "reset" => turns[i].conv = c.conv /\ turns[i].tab = c.tab
    THEN [turns[i] EXCEPT !.stored = "deleted"] ELSE turns[i]]

\* A removal is done and answered; the history's answer ends the cookie, clears
\* the tab that still waits for it and gives it a new id.
RemovalDone(c) ==
  /\ c \in removal /\ removal' = removal \ {c} /\ turns' = Deleted(c)
  /\ IF c.op = "history" /\ c.awaited
     THEN /\ Shows(c.tab, {}, {}) /\ conv' = [conv EXCEPT ![c.tab] = @ + 1]
          /\ cookie' = NoCookie
     ELSE UNCHANGED <<screen, kept, conv, cookie>>
  /\ UNCHANGED <<chatUser, removals, reloads>>

\* A removal fails, on the way out or on the way back: nothing changes here.
RemovalFails(c) ==
  /\ c \in removal /\ removal' = removal \ {c} /\ turns' \in {turns, Deleted(c)}
  /\ UNCHANGED <<chatUser, conv, screen, kept, cookie, removals, reloads>>

\* loadHistory.
Restored(t, u) == IF kept[t].owner = u THEN kept[t].turns ELSE {}

\* The page is loaded again, by the same user or by another.
Reload(t, u) ==
  /\ reloads < MaxReloads /\ reloads' = reloads + 1
  /\ turns' = Stopped(t, "aborted")
  /\ removal' = {IF c.tab = t THEN [c EXCEPT !.awaited = FALSE] ELSE c : c \in removal}
  /\ chatUser' = [chatUser EXCEPT ![t] = u]
  /\ screen' = [screen EXCEPT ![t] = Restored(t, u)]
  /\ kept' = [kept EXCEPT ![t] = [owner |-> u, turns |-> Restored(t, u)]]
  /\ UNCHANGED <<conv, cookie, removals>>

ChatNext ==
  \/ \E t \in Tab : Ask(t) \/ NewChat(t) \/ DeleteHistory(t) \/ (\E u \in ChatUser : Reload(t, u))
  \/ \E i \in DOMAIN turns : Send(i) \/ BeginAnswer(i) \/ UpstreamEnds(i) \/ Complete(i) \/ FailTurn(i)
  \/ \E c \in removal : RemovalDone(c) \/ RemovalFails(c)

-----------------------------------------------------------------------------
(* ADR 0003, sections 5 and 8: whatever the order in which tabs, users and   *)
(* answers come, a tab shows its user nothing another user asked, each       *)
(* session of the RAG API is one user's, the conversation a tab goes on with *)
(* is the one on its screen, and after a reload the answers on the screen    *)
(* are answers the RAG API has saved.                                        *)
ConversationIsOnesOwn ==
  /\ \A t \in Tab : \A i \in screen[t] :
       /\ turns[i].by = chatUser[t] /\ turns[i].tab = t
       /\ turns[i].phase = "answered" => turns[i].conv = conv[t] /\ turns[i].stored # "no"
       /\ turns[i].phase # "aborted"
  /\ \A i, j \in DOMAIN turns :
       turns[i].session = turns[j].session /\ turns[i].session # NoSession => turns[i].by = turns[j].by
=============================================================================
