------------------------------- MODULE ChatPage -------------------------------
(***************************************************************************)
(* The assistant's page of one browser: the choice of an agent and of a    *)
(* conversation (assistant-client.tsx), the chat (AssistantChat.tsx) and   *)
(* the store both act on (assistant.store.ts).  Its requests are answered  *)
(* in any order, each with what the server held when it served it, while   *)
(* the events of answers come in on the sockets.                           *)
(*                                                                         *)
(* A conversation is named by the question that opened it (the store draws *)
(* a fresh uuid).  The answer to a question is one chunk and its end;      *)
(* AssistantStream has the way of an answer in full.                       *)
(***************************************************************************)
EXTENDS Integers, FiniteSets

CONSTANTS
    Agents, Questions,       \* agents to choose from, questions to ask
    Links,              \* sockets the page may open
    MaxCalls,           \* bound on the requests in flight
    MaxClicks,          \* bound on clicks (besides asking) and lost sockets
    Nil                 \* null

ASSUME ChatAssumption ==
    /\ MaxCalls \in Nat /\ MaxClicks \in Nat
    /\ Nil \notin Agents \cup Questions \cup Links

VARIABLES
    agentId, openConversation, messages, conversations, typing,   \* the store:
    current, isConnected,       \* agentId, conversationId, .., isTyping, socket, ..
    link, joined,                \* each socket, and the rooms it has joined
    question,                   \* each question: its conversation, agent, phase
    table, kept,                 \* PostgreSQL: agent of each conversation, questions
    calls,                      \* requests in flight
    clicks,                     \* of the user, besides asking
    left, late, losses          \* history

pageVars == <<agentId, openConversation, messages, conversations, typing>>
linkVars == <<current, isConnected, link, joined>>
serverVars == <<table, kept>>
chatVars == <<pageVars, linkVars, question, serverVars, calls, clicks, left, late, losses>>

Conversation == Questions \cup {Nil}
Stages == {"new", "asked", "streamed", "done", "failed"}
Bubbles == [role : {"user", "assistant"}, ask : Questions, live : BOOLEAN]
Unserved == [served |-> FALSE, ids |-> {}]
Replies == [served : BOOLEAN, ids : SUBSET Questions]
Calls == [kind : {"list", "back", "load", "delete", "clear"}, agent : Agents,
          conv : Conversation, opened : BOOLEAN, seen : SUBSET Questions, reply : Replies]

ChatTypeOK ==
    /\ agentId \in Agents \cup {Nil} /\ openConversation \in Conversation
    /\ messages \subseteq Bubbles /\ conversations \subseteq Questions
    /\ typing \in BOOLEAN /\ isConnected \in BOOLEAN
    /\ current \in Links \cup {Nil}
    /\ link \in [Links -> {"none", "down", "up", "gone"}]
    /\ joined \in [Links -> SUBSET Questions]
    /\ \A l \in Links : joined[l] # {} => link[l] = "up"
    /\ question \in [Questions -> [conv : Conversation, agent : Agents \cup {Nil}, phase : Stages]]
    /\ table \in [Questions -> Agents \cup {Nil}] /\ kept \subseteq Questions
    /\ calls \subseteq Calls /\ Cardinality(calls) <= MaxCalls
    /\ clicks \in 0..(MaxClicks - losses) /\ left \subseteq Questions /\ late \in BOOLEAN /\ losses \in 0..MaxClicks
    /\ isConnected => link[current] = "up"

ChatInit ==
    /\ agentId = Nil /\ openConversation = Nil /\ messages = {} /\ conversations = {}
    /\ typing = FALSE /\ isConnected = FALSE /\ current = Nil
    /\ link = [l \in Links |-> "none"] /\ joined = [l \in Links |-> {}]
    /\ question = [q \in Questions |-> [conv |-> Nil, agent |-> Nil, phase |-> "new"]]
    /\ table = [c \in Questions |-> Nil] /\ kept = {} /\ calls = {}
    /\ clicks = 0 /\ left = {} /\ late = FALSE /\ losses = 0

Awaited(q) == question[q].phase \in {"asked", "streamed"}

\* The conversation shown becomes c; questions without their answer are left.
Shows(c, ms) ==
    /\ openConversation' = c /\ messages' = ms
    /\ left' = left \cup {q \in Questions : Awaited(q) /\ question[q].conv # c}

-------------------------------------------------------------------------------
(* What the page offers.                                                   *)

\* Without an agent the page is the choice of one, else the list and the chat.
ChoosesAgent == agentId = Nil
ShowsChat == agentId # Nil
ShowsRow(c) == ShowsChat /\ c \in conversations
OffersClear == ShowsChat /\ isConnected /\ messages # {}
OffersSend == ShowsChat /\ isConnected /\ ~typing

-------------------------------------------------------------------------------
(* Requests                                                                *)

Request(k, c) ==
    [kind |-> k, agent |-> agentId, conv |-> c, opened |-> FALSE, seen |-> {},
     reply |-> Unserved]

Sends(r) == Cardinality(calls) < MaxCalls /\ calls' = calls \cup {r}
SameStore == UNCHANGED <<pageVars, linkVars, question, serverVars, left, late, losses>>

Clicks == clicks + losses < MaxClicks /\ clicks' = clicks + 1

\* fetchConversations is asked for an agent that may not be in the store yet;
\* one beyond the bound is taken to fail.
FetchConversations(a) ==
    IF Cardinality(calls) < MaxCalls
    THEN Sends([Request("list", Nil) EXCEPT !.agent = a]) ELSE UNCHANGED calls

\* handleSelectAgent, and the effect that follows.
SelectAgent(a) ==
    /\ Clicks /\ ChoosesAgent
    /\ agentId' = a /\ conversations' = {} /\ Shows(Nil, {})
    /\ FetchConversations(a)
    /\ UNCHANGED <<typing, linkVars, question, serverVars, late, losses>>

StartNew ==
    /\ Clicks /\ ShowsChat
    /\ Shows(Nil, {})
    /\ UNCHANGED <<agentId, conversations, typing, linkVars, question, serverVars,
                   calls, late, losses>>

HandleLoad(c) == Clicks /\ ShowsRow(c) /\ Sends(Request("load", c)) /\ SameStore

\* deleteConversation keeps the list and the conversation it was called with.
HandleDelete(c) ==
    /\ Clicks /\ ShowsRow(c)
    /\ Sends([Request("delete", c) EXCEPT !.opened = (openConversation = c),
                                          !.seen = conversations])
    /\ SameStore

HandleClear ==
    /\ Clicks /\ OffersClear /\ openConversation # Nil
    /\ Sends(Request("clear", openConversation)) /\ SameStore

\* setAgentId(null)
LeavesAgent == agentId' = Nil /\ conversations' = {} /\ Shows(Nil, {})

\* handleBackToAgents: after an interaction the list is awaited first.
Back ==
    /\ Clicks /\ ShowsChat
    /\ IF messages # {} /\ openConversation # Nil
       THEN Sends(Request("back", Nil)) /\ UNCHANGED <<pageVars, left>>
       ELSE LeavesAgent /\ UNCHANGED <<calls, typing>>
    /\ UNCHANGED <<linkVars, question, serverVars, late, losses>>

\* The routes of assistant.controller.ts.
Reply(r) ==
    [served |-> TRUE,
     ids |-> CASE r.kind \in {"list", "back"} -> {c \in Questions : table[c] = r.agent}
               [] r.kind = "load" -> {q \in kept : question[q].conv = r.conv}
               [] OTHER -> {}]

Serve(r) ==
    /\ r \in calls /\ ~r.reply.served
    /\ calls' = (calls \ {r}) \cup {[r EXCEPT !.reply = Reply(r)]}
    /\ IF r.kind = "delete"
       THEN /\ table' = [table EXCEPT ![r.conv] = Nil]
            /\ kept' = {q \in kept : question[q].conv # r.conv}
       ELSE UNCHANGED serverVars
    /\ UNCHANGED <<pageVars, linkVars, question, left, clicks, late, losses>>

-------------------------------------------------------------------------------
(* Answers                                                                 *)

SameView == UNCHANGED <<agentId, conversations, openConversation, messages, left>>

AnsweredList(r) ==
    conversations' = r.reply.ids /\ UNCHANGED <<agentId, openConversation, messages, left>>

Loaded(qs) ==
    [role : {"user"}, ask : qs, live : {FALSE}]
    \cup [role : {"assistant"}, ask : {q \in qs : question[q].phase = "done"}, live : {FALSE}]

\* Mutant: the conversation loaded is not the one the next question goes to.
AnsweredLoadMessages(r) ==
    messages' = Loaded(r.reply.ids) /\ UNCHANGED <<agentId, conversations, openConversation, left>>

AnsweredLoad(r) == Shows(r.conv, Loaded(r.reply.ids)) /\ UNCHANGED <<agentId, conversations>>

AnsweredDelete(r) ==
    /\ conversations' = r.seen \ {r.conv}
    /\ IF r.opened THEN Shows(Nil, {}) ELSE UNCHANGED <<openConversation, messages, left>>
    /\ UNCHANGED agentId

\* clearSessionCache looks at no status.
AnsweredClear == Shows(Nil, {}) /\ UNCHANGED <<agentId, conversations>>

Arrive(r) ==
    /\ r \in calls /\ r.reply.served
    /\ calls' = calls \ {r}
    /\ late' = (late \/ agentId # r.agent)
    /\ \/ r.kind = "list" /\ AnsweredList(r)
       \/ r.kind = "back" /\ LeavesAgent
       \/ r.kind = "load" /\ AnsweredLoad(r)
       \/ r.kind = "delete" /\ AnsweredDelete(r)
       \/ r.kind = "clear" /\ AnsweredClear
    /\ UNCHANGED <<typing, linkVars, question, serverVars, clicks, losses>>

\* Refused, or no answer at all; handleBackToAgents goes on after either.
CallFails(r) ==
    /\ r \in calls
    /\ calls' = calls \ {r}
    /\ \/ r.kind = "back" /\ LeavesAgent
       \/ r.kind # "back" /\ SameView
       \/ r.kind = "clear" /\ AnsweredClear
    /\ UNCHANGED <<typing, linkVars, question, serverVars, clicks, late, losses>>

-------------------------------------------------------------------------------
(* Sockets                                                                 *)

SameChat == UNCHANGED <<pageVars, question, serverVars, calls, clicks, left, late>>

\* connect, which the effect of AssistantChat calls while isConnected is false,
\* also when a new session object comes in.
OpenSocket(l) ==
    /\ ShowsChat /\ ~isConnected /\ link[l] = "none"
    /\ current # Nil => link[current] # "up"
    /\ link' = [link EXCEPT ![l] = "down"] /\ current' = l
    /\ UNCHANGED <<isConnected, joined, losses>> /\ SameChat

SocketConnects(l) ==
    /\ link[l] = "down"
    /\ link' = [link EXCEPT ![l] = "up"]
    /\ isConnected' = TRUE /\ current' = l
    /\ UNCHANGED <<joined, losses>> /\ SameChat

\* connect_error; after five attempts the socket gives up.
SocketFails(l) ==
    /\ link[l] = "down"
    /\ \E after \in {"down", "gone"} : link' = [link EXCEPT ![l] = after]
    /\ isConnected' = FALSE
    /\ UNCHANGED <<current, joined, losses>> /\ SameChat

\* disconnect; a socket the server closed does not come back.
SocketLost(l) ==
    /\ link[l] = "up" /\ clicks + losses < MaxClicks
    /\ losses' = losses + 1
    /\ \E after \in {"down", "gone"} : link' = [link EXCEPT ![l] = after]
    /\ joined' = [joined EXCEPT ![l] = {}]
    /\ isConnected' = FALSE
    /\ UNCHANGED current /\ SameChat

-------------------------------------------------------------------------------
(* Questions and their answers                                             *)

\* sendMessage, and handleQuery of the gateway, which joins the room.
Send(q) ==
    /\ OffersSend /\ question[q].phase = "new"
    /\ LET c == IF openConversation = Nil THEN q ELSE openConversation IN
          /\ openConversation' = c
          /\ question' = [question EXCEPT ![q] = [conv |-> c, agent |-> agentId, phase |-> "asked"]]
          /\ joined' = [joined EXCEPT ![current] = @ \cup {c}]
    /\ messages' = messages \cup {[role |-> "user", ask |-> q, live |-> TRUE]}
    /\ typing' = TRUE
    /\ UNCHANGED <<agentId, conversations, current, isConnected, link, serverVars,
                   calls, left, clicks, late, losses>>

Turns(q, from, to) ==
    /\ question[q].phase \in from
    /\ question' = [question EXCEPT ![q].phase = to]

\* The worker saves the question, under a conversation it creates if need be,
\* before it streams the answer.
Saved(q) ==
    /\ kept' = kept \cup {q}
    /\ table' = [table EXCEPT ![question[q].conv] = IF @ = Nil THEN question[q].agent ELSE @]

Heard(q) == \E l \in Links : question[q].conv \in joined[l]
AnswerShown(q) ==
    messages' = IF Heard(q) THEN messages \cup {[role |-> "assistant", ask |-> q, live |-> TRUE]}
                ELSE messages
SameList == UNCHANGED <<agentId, openConversation, conversations, linkVars,
                        left, clicks, late, losses>>

ChunkArrives(q) ==
    /\ Turns(q, {"asked"}, "streamed")
    /\ Saved(q) /\ AnswerShown(q)
    /\ typing' = (typing \/ Heard(q))
    /\ SameList /\ UNCHANGED calls

\* Mutant: the end of an answer to a conversation that was left is not for the page.
DoneArrivesHere(q) ==
    /\ Turns(q, {"streamed"}, "done")
    /\ typing' = (typing /\ openConversation # question[q].conv)
    /\ IF Heard(q) /\ ShowsChat THEN FetchConversations(agentId) ELSE UNCHANGED calls
    /\ SameList /\ UNCHANGED <<messages, serverVars>>

DoneArrives(q) ==
    /\ Turns(q, {"streamed"}, "done")
    /\ typing' = (typing /\ ~Heard(q))
    /\ IF Heard(q) /\ ShowsChat THEN FetchConversations(agentId) ELSE UNCHANGED calls
    /\ SameList /\ UNCHANGED <<messages, serverVars>>

\* The turn failed: it is retried or given up.
ErrorArrives(q) ==
    /\ \E to \in {"asked", "failed"} : Turns(q, {"asked", "streamed"}, to)
    /\ AnswerShown(q)
    /\ Saved(q) \/ UNCHANGED serverVars
    /\ typing' = (typing /\ ~Heard(q))
    /\ SameList /\ UNCHANGED calls

-------------------------------------------------------------------------------
ChatNext ==
    \/ \E a \in Agents : SelectAgent(a)
    \/ StartNew \/ Back \/ HandleClear
    \/ \E c \in Questions : HandleLoad(c) \/ HandleDelete(c)
    \/ \E r \in calls : Serve(r) \/ Arrive(r) \/ CallFails(r)
    \/ \E l \in Links : OpenSocket(l) \/ SocketConnects(l) \/ SocketFails(l) \/ SocketLost(l)
    \/ \E q \in Questions : Send(q) \/ ChunkArrives(q) \/ DoneArrives(q) \/ ErrorArrives(q)

ChatSpec == ChatInit /\ [][ChatNext]_chatVars

-------------------------------------------------------------------------------
(* Properties                                                              *)

\* What is on the screen is the conversation the next question goes to: each
\* question shown is of it, and so is each answer, save those to questions that
\* were still open when their conversation was left (they come in on the socket
\* and are appended to whatever is shown).  And it and the list are the agent's
\* whom that question is sent to, as long as no answer came in after its agent
\* had been left.
ShowsOneConversation ==
    /\ \A m \in messages :
          \/ question[m.ask].conv = openConversation
          \/ m.role = "assistant" /\ m.live /\ m.ask \in left
    /\ ~late =>
          /\ \A c \in conversations : question[c].agent = agentId
          /\ openConversation # Nil => question[openConversation].agent \in {Nil, agentId}

\* The send button comes back: unless a socket was lost, the page shows an
\* answer as being typed only while a question waits for one, also when the
\* user has gone to another conversation or agent meanwhile.
TypingMeansAwaited ==
    losses = 0 /\ typing => \E q \in Questions : Awaited(q)

===============================================================================
