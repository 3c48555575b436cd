---------------------------- MODULE AssistantStream ----------------------------
(***************************************************************************)
(* The assistant's answer on its way: the browser's store sends a query    *)
(* through a socket to a backend replica (assistant.gateway.ts), which     *)
(* publishes it for the worker (assistant-query.consumer.ts); the worker   *)
(* streams chunks to the response queue of every backend replica           *)
(* (assistant-response.consumer.ts), which emits them to the Socket.IO     *)
(* room of the session; the store renders them (assistant.store.ts).       *)
(*                                                                         *)
(* A chunk is its number in the stream.  A conversation is named by the    *)
(* query that opened it (the store draws a fresh uuid).  The queue of      *)
(* queries is Subscriber's, abstracted to a phase per query: Subscriber    *)
(* shows that a message has one live copy while no process dies.           *)
(***************************************************************************)
EXTENDS Integers, Sequences, FiniteSets

CONSTANTS
    Backends,       \* replicas of apps/backend
    Clients,        \* browsers, one socket each
    Queries,        \* what the clients ask, one messageId each
    Chunks,         \* chunks of an answer
    MaxRetries,     \* retry.maxRetries of AssistantQueryConsumer
    RetryRouted,    \* what a retry may find: is the retry exchange bound?
    MaxFailures,    \* bound on lost sockets, crashes and throwing streams
    MaxLag,         \* bound on the length of a response queue
    None

ASSUME StreamAssumption ==
    /\ Chunks \in Nat \ {0} /\ MaxRetries \in Nat
    /\ RetryRouted \subseteq BOOLEAN /\ RetryRouted # {}
    /\ MaxFailures \in Nat /\ MaxLag \in Nat \ {0}
    /\ None \notin Backends \cup Clients \cup Queries

VARIABLES
    boot, redisClient, adapter,   \* start of each backend, main.ts
    socket, rooms,                \* where each client is connected, its rooms
    phase, asker, session,        \* the queries
    tries, sent,                  \* the worker's attempts at them
    responseBound, inbox,         \* response queue of each backend
    conversationId, shown, isTyping,           \* the store of each client
    steady,         \* history: queries whose asker's socket has lived since
    completed,      \* history: ... of which the asker has heard the end last
    answered,       \* history: ... an end or an error, at some time
    failures        \* history: how many of them

bootVars == <<boot, redisClient, adapter>>
socketVars == <<socket, rooms>>
queryVars == <<phase, asker, session>>
workVars == <<tries, sent>>
queueVars == <<responseBound, inbox>>
storeVars == <<conversationId, shown, isTyping>>
seenVars == <<steady, completed, answered>>
vars == <<bootVars, socketVars, queryVars, workVars, queueVars, storeVars,
          seenVars, failures>>

Nothing == [text |-> <<>>, streaming |-> FALSE]
Failure == 0       \* the text of an error, among chunk numbers
Phases == {"new", "emitted", "queued", "streaming", "ending", "failing",
           "rethrowing", "settled", "buried", "dropped"}
Events == [kind : {"chunk", "done", "error"}, query : Queries, chunk : 0..Chunks]

StreamTypeOK ==
    /\ boot \in [Backends -> {"down", "created", "serving"}]
    /\ redisClient \in [Backends -> BOOLEAN]
    /\ adapter \in [Backends -> {"memory", "redis"}]
    /\ socket \in [Clients -> Backends \cup {None}]
    /\ \A c \in Clients : socket[c] # None => boot[socket[c]] = "serving"
    /\ rooms \in [Clients -> SUBSET Queries]
    /\ phase \in [Queries -> Phases]
    /\ asker \in [Queries -> Clients \cup {None}]
    /\ session \in [Queries -> Queries \cup {None}]
    /\ tries \in [Queries -> 0..MaxRetries]
    /\ sent \in [Queries -> 0..Chunks]
    /\ responseBound \subseteq Backends
    /\ inbox \in [Backends -> Seq(Events)]
    /\ conversationId \in [Clients -> Queries \cup {None}]
    /\ shown \in [Clients -> [Queries -> [text : Seq(0..Chunks), streaming : BOOLEAN]]]
    /\ isTyping \in [Clients -> BOOLEAN]
    /\ completed \subseteq answered /\ answered \subseteq Queries
    /\ steady \subseteq Queries
    /\ failures \in 0..MaxFailures

Init ==
    /\ boot = [b \in Backends |-> "down"]
    /\ redisClient = [b \in Backends |-> FALSE]
    /\ adapter = [b \in Backends |-> "memory"]
    /\ socket = [c \in Clients |-> None] /\ rooms = [c \in Clients |-> {}]
    /\ phase = [q \in Queries |-> "new"]
    /\ asker = [q \in Queries |-> None] /\ session = [q \in Queries |-> None]
    /\ tries = [q \in Queries |-> 0] /\ sent = [q \in Queries |-> 0]
    /\ responseBound = {}
    /\ inbox = [b \in Backends |-> <<>>]
    /\ conversationId = [c \in Clients |-> None]
    /\ shown = [c \in Clients |-> [q \in Queries |-> Nothing]]
    /\ isTyping = [c \in Clients |-> FALSE]
    /\ steady = {} /\ completed = {} /\ answered = {}
    /\ failures = 0

--------------------------------------------------------------------------------
(* A backend starts: main.ts. *)

\* Mutant: the adapter is installed as its document says, with Redis.
CreateAppAfterRedis(b) ==
    /\ boot[b] = "down"
    /\ boot' = [boot EXCEPT ![b] = "created"]
    /\ adapter' = [adapter EXCEPT ![b] = "redis"]
    /\ UNCHANGED <<redisClient, socketVars, queryVars, workVars, queueVars,
                   storeVars, seenVars, failures>>

\* The application is created and RedisIoAdapter.connectToRedis asks
\* RedisService for its client.
CreateApp(b) ==
    /\ boot[b] = "down"
    /\ boot' = [boot EXCEPT ![b] = "created"]
    /\ adapter' = [adapter EXCEPT
                     ![b] = IF redisClient[b] THEN "redis" ELSE "memory"]
    /\ UNCHANGED <<redisClient, socketVars, queryVars, workVars, queueVars,
                   storeVars, seenVars, failures>>

\* app.listen: the onModuleInit hooks connect RedisService and bind the
\* response queue of the replica (named by HOSTNAME, durable).
Listen(b) ==
    /\ boot[b] = "created"
    /\ boot' = [boot EXCEPT ![b] = "serving"]
    /\ redisClient' = [redisClient EXCEPT ![b] = TRUE]
    /\ responseBound' = responseBound \cup {b}
    /\ UNCHANGED <<adapter, socketVars, queryVars, workVars, inbox,
                   storeVars, seenVars, failures>>

--------------------------------------------------------------------------------
(* Sockets. *)

Connect(c, b) ==
    /\ socket[c] = None /\ boot[b] = "serving"
    /\ socket' = [socket EXCEPT ![c] = b]
    /\ UNCHANGED <<bootVars, rooms, queryVars, workVars, queueVars, storeVars,
                   seenVars, failures>>

\* The sockets of clients cs are lost, with their rooms and perhaps with what
\* they had emitted.
LoseSockets(cs) ==
    /\ socket' = [c \in Clients |-> IF c \in cs THEN None ELSE socket[c]]
    /\ rooms' = [c \in Clients |-> IF c \in cs THEN {} ELSE rooms[c]]
    /\ \E lost \in SUBSET {q \in Queries : phase[q] = "emitted" /\ asker[q] \in cs} :
          phase' = [q \in Queries |-> IF q \in lost THEN "dropped" ELSE phase[q]]
    /\ steady' = {q \in steady : asker[q] \notin cs}

DropSocket(c) ==
    /\ socket[c] # None /\ failures < MaxFailures
    /\ failures' = failures + 1
    /\ LoseSockets({c})
    /\ UNCHANGED <<bootVars, asker, session, workVars, queueVars, storeVars,
                   completed, answered>>

--------------------------------------------------------------------------------
(* The store of the browser: assistant.store.ts. *)

\* sendMessage; an emit of a disconnected socket waits for the connection.
SendMessage(c, q) ==
    /\ phase[q] = "new"
    /\ phase' = [phase EXCEPT ![q] = "emitted"]
    /\ asker' = [asker EXCEPT ![q] = c]
    /\ session' = [session EXCEPT ![q] = IF conversationId[c] = None
                                         THEN q ELSE conversationId[c]]
    /\ conversationId' = [conversationId EXCEPT ![c] = session'[q]]
    /\ isTyping' = [isTyping EXCEPT ![c] = TRUE]
    /\ steady' = steady \cup {q}
    /\ UNCHANGED <<bootVars, socketVars, workVars, queueVars, shown, completed,
                   answered, failures>>

\* startNewConversation, clearMessages.
StartNewConversation(c) ==
    /\ conversationId[c] # None
    /\ conversationId' = [conversationId EXCEPT ![c] = None]
    /\ shown' = [shown EXCEPT ![c] = [q \in Queries |-> Nothing]]
    /\ steady' = {q \in steady : asker[q] # c}
    /\ UNCHANGED <<bootVars, socketVars, queryVars, workVars, queueVars, isTyping,
                   completed, answered, failures>>

\* The listeners of assistant:chunk, assistant:done and assistant:error.
OnChunk(messages, e) ==
    [messages EXCEPT ![e.query] =
        [text |-> Append(@.text, e.chunk), streaming |-> TRUE]]
OnDone(messages, e) == [messages EXCEPT ![e.query].streaming = FALSE]
OnError(messages, e) ==
    [q \in Queries |->
        [text |-> IF q = e.query THEN <<Failure>> ELSE messages[q].text,
         streaming |-> FALSE]]

Rendered(messages, e) ==
    CASE e.kind = "chunk" -> OnChunk(messages, e)
      [] e.kind = "done"  -> OnDone(messages, e)
      [] e.kind = "error" -> OnError(messages, e)

\* Clients cs receive event e.
Receive(cs, e) ==
    /\ shown' = [c \in Clients |-> IF c \in cs THEN Rendered(shown[c], e) ELSE shown[c]]
    /\ isTyping' = [c \in Clients |-> IF c \in cs THEN e.kind = "chunk" ELSE isTyping[c]]
    /\ answered' = IF e.kind # "chunk" /\ asker[e.query] \in cs
                   THEN answered \cup {e.query} ELSE answered
    /\ completed' = IF asker[e.query] \notin cs THEN completed
                    ELSE IF e.kind = "done" THEN completed \cup {e.query}
                    ELSE completed \ {e.query}

--------------------------------------------------------------------------------
(* The gateway and the worker. *)

Event(k, q, i) == [kind |-> k, query |-> q, chunk |-> i]

\* handleQuery: join the room of the session, then publish (the worker's
\* durable queue is bound) ...
HandleQuery(q) ==
    /\ phase[q] = "emitted" /\ socket[asker[q]] # None
    /\ rooms' = [rooms EXCEPT ![asker[q]] = @ \cup {session[q]}]
    /\ phase' = [phase EXCEPT ![q] = "queued"]
    /\ UNCHANGED <<bootVars, socket, asker, session, workVars, queueVars,
                   storeVars, seenVars, failures>>

\* ... or the publication fails and the socket is told so.
HandleQueryFails(q) ==
    /\ phase[q] = "emitted" /\ socket[asker[q]] # None
    /\ rooms' = [rooms EXCEPT ![asker[q]] = @ \cup {session[q]}]
    /\ phase' = [phase EXCEPT ![q] = "dropped"]
    /\ Receive({asker[q]}, Event("error", q, 0))
    /\ UNCHANGED <<bootVars, socket, asker, session, workVars, queueVars,
                   conversationId, steady, failures>>

Goes(q, p) == phase' = [phase EXCEPT ![q] = p]

TakeQuery(q) ==
    /\ phase[q] = "queued" /\ Goes(q, "streaming")
    /\ UNCHANGED <<bootVars, socketVars, asker, session, workVars, queueVars,
                   storeVars, seenVars, failures>>

\* A response is published with the key assistant.response.<session>: it
\* reaches the queue of every replica, each bound with assistant.response.#.
Respond(e) ==
    /\ \A b \in responseBound : Len(inbox[b]) < MaxLag
    /\ inbox' = [b \in Backends |-> IF b \in responseBound
                                    THEN Append(inbox[b], e) ELSE inbox[b]]

\* Mutant: one chunk more than the stream has.
YieldsOneMore(q) == sent[q] <= Chunks

\* streamQuery has more to yield.
Yields(q) == sent[q] < Chunks

PublishChunk(q) ==
    /\ phase[q] = "streaming" /\ Yields(q)
    /\ sent' = [sent EXCEPT ![q] = @ + 1]
    /\ Respond(Event("chunk", q, sent[q] + 1))
    /\ UNCHANGED <<bootVars, socketVars, queryVars, tries,
                   responseBound, storeVars, seenVars, failures>>

\* Mutant: the end is announced while a chunk is still to come.
PublishDoneEarly(q) ==
    /\ phase[q] = "streaming" /\ sent[q] >= Chunks - 1 /\ Goes(q, "ending")
    /\ Respond(Event("done", q, 0))
    /\ UNCHANGED <<bootVars, socketVars, asker, session, workVars, responseBound,
                   storeVars, seenVars, failures>>

\* Mutant: the end is not announced.
PublishDoneNot(q) ==
    /\ phase[q] = "streaming" /\ ~Yields(q) /\ Goes(q, "ending")
    /\ UNCHANGED <<bootVars, socketVars, asker, session, workVars, queueVars,
                   storeVars, seenVars, failures>>

\* The end is published; the handler waits for the broker to confirm it ...
PublishDone(q) ==
    /\ phase[q] = "streaming" /\ ~Yields(q) /\ Goes(q, "ending")
    /\ Respond(Event("done", q, 0))
    /\ UNCHANGED <<bootVars, socketVars, asker, session, workVars, responseBound,
                   storeVars, seenVars, failures>>

\* The query is acknowledged: its attempt and its headers are gone.
Forget(q) == sent' = [sent EXCEPT ![q] = 0] /\ tries' = [tries EXCEPT ![q] = 0]

\* ... and returns.
Acknowledge(q) ==
    /\ phase[q] = "ending" /\ Goes(q, "settled")
    /\ Forget(q)
    /\ UNCHANGED <<bootVars, socketVars, asker, session, queueVars,
                   storeVars, seenVars, failures>>

\* The history, the agent, the retrieval or the model throws, or the end is not
\* confirmed.
StreamFails(q) ==
    /\ phase[q] \in {"streaming", "ending"} /\ Goes(q, "failing")
    /\ failures < MaxFailures /\ failures' = failures + 1
    /\ UNCHANGED <<bootVars, socketVars, asker, session, workVars, queueVars,
                   storeVars, seenVars>>

\* Mutant: the handler rethrows without telling the browser.
PublishErrorNot(q) ==
    /\ phase[q] = "failing" /\ Goes(q, "rethrowing")
    /\ UNCHANGED <<bootVars, socketVars, asker, session, workVars, queueVars,
                   storeVars, seenVars, failures>>

\* "Publica evento de erro antes de relançar" ...
PublishError(q) ==
    /\ phase[q] = "failing" /\ Goes(q, "rethrowing")
    /\ Respond(Event("error", q, 0))
    /\ UNCHANGED <<bootVars, socketVars, asker, session, workVars,
                   responseBound, storeVars, seenVars, failures>>

\* ... and Subscriber retries the query, or it is gone: dead-lettered when its
\* retries are used up, dropped by a retry exchange nothing is bound to (this
\* code binds nothing; an operator may have, and may undo it).
Rethrow(q) ==
    /\ phase[q] = "rethrowing"
    /\ \E routed \in RetryRouted :
         IF tries[q] < MaxRetries /\ routed
         THEN /\ Goes(q, "queued")
              /\ tries' = [tries EXCEPT ![q] = @ + 1]
              /\ sent' = [sent EXCEPT ![q] = 0]
         ELSE Goes(q, "buried") /\ Forget(q)
    /\ UNCHANGED <<bootVars, socketVars, asker, session, queueVars, storeVars,
                   seenVars, failures>>

\* The worker dies, perhaps when the end has been published: the broker
\* delivers the query again.
CrashWorker(q) ==
    /\ phase[q] \in {"streaming", "ending", "failing", "rethrowing"}
    /\ failures < MaxFailures
    /\ failures' = failures + 1
    /\ Goes(q, "queued") /\ sent' = [sent EXCEPT ![q] = 0]
    /\ UNCHANGED <<bootVars, socketVars, asker, session, tries, queueVars,
                   storeVars, seenVars>>

--------------------------------------------------------------------------------
(* The response consumer of a backend. *)

\* The sockets an emit to the room of e's session reaches from replica b.
Audience(b, e) ==
    {c \in Clients :
        /\ session[e.query] \in rooms[c]
        /\ \/ socket[c] = b
           \/ /\ socket[c] # None
              /\ adapter[b] = "redis" /\ adapter[socket[c]] = "redis"}

Emit(b) ==
    /\ boot[b] = "serving" /\ inbox[b] # <<>>
    /\ inbox' = [inbox EXCEPT ![b] = Tail(@)]
    /\ Receive(Audience(b, Head(inbox[b])), Head(inbox[b]))
    /\ UNCHANGED <<bootVars, socketVars, queryVars, workVars,
                   responseBound, conversationId, steady, failures>>

\* The process dies, perhaps between an emit and its acknowledgement: the
\* queue keeps what was not acknowledged.
CrashBackend(b) ==
    /\ boot[b] = "serving" /\ failures < MaxFailures
    /\ failures' = failures + 1
    /\ boot' = [boot EXCEPT ![b] = "down"]
    /\ redisClient' = [redisClient EXCEPT ![b] = FALSE]
    /\ LoseSockets({c \in Clients : socket[c] = b})
    /\ \/ UNCHANGED <<shown, isTyping, answered, completed>>
       \/ /\ inbox[b] # <<>>
          /\ Receive(Audience(b, Head(inbox[b])), Head(inbox[b]))
    /\ UNCHANGED <<adapter, asker, session, workVars, queueVars, conversationId>>

--------------------------------------------------------------------------------

BackendStep(b) == CreateApp(b) \/ Listen(b) \/ Emit(b)

WorkStep(q) ==
    \/ TakeQuery(q) \/ PublishChunk(q) \/ PublishDone(q) \/ Acknowledge(q)
    \/ StreamFails(q) \/ PublishError(q) \/ Rethrow(q)

Next ==
    \/ \E b \in Backends : BackendStep(b) \/ CrashBackend(b)
    \/ \E c \in Clients : \/ DropSocket(c) \/ StartNewConversation(c)
                          \/ \E b \in Backends : Connect(c, b)
                          \/ \E q \in Queries : SendMessage(c, q)
    \/ \E q \in Queries : HandleQuery(q) \/ HandleQueryFails(q)
                          \/ WorkStep(q) \/ CrashWorker(q)

Spec == Init /\ [][Next]_vars

\* Replicas start and drain their queues, the worker takes and ends queries;
\* browsers, operators and failures do as they please.
FairSpec ==
    /\ Spec
    /\ \A b \in Backends : WF_vars(BackendStep(b))
    /\ \A q \in Queries : WF_vars(WorkStep(q))

--------------------------------------------------------------------------------
(* Properties. *)

Descents(s) == Cardinality({i \in 1..(Len(s) - 1) : s[i + 1] <= s[i]})

\* Every replica receives every chunk and each client must render it once: while
\* the asker's socket lives, the text of its answer steps back only where a
\* worker that crashed or threw began again.  (A socket that comes back at a
\* replica that lags behind the first is sent what it has seen once more.)
RenderedOnce ==
    \A q \in steady : Descents(shown[asker[q]][q].text) <= failures

\* A text that ends with the first n chunks of the answer.
EndsWith(text, n) ==
    Len(text) >= n /\ \A i \in 1..n : text[Len(text) - n + i] = i

\* refactoring-assistant-async.md, assistant:done "Fim do stream": while the end
\* is the last an asker has heard of its answer, and its socket has lived since
\* the question, the text ends with the whole answer (whatever attempts, ends
\* and errors came before).
DoneMeansComplete ==
    \A q \in completed \cap steady : EndsWith(shown[asker[q]][q].text, Chunks)

\* refactoring-assistant-async.md "garantindo que o frontend receba feedback
\* imediato": a query the broker took is answered or refused in the end, while
\* its socket lives.  A query whose stream throws may be retried, dead-lettered
\* or dropped by the retry exchange: what refuses it then is the error event the
\* handler publishes before it rethrows.
EventuallyAnswered ==
    \A q \in Queries :
        phase[q] = "queued" /\ q \in steady ~> q \in answered \/ q \notin steady
================================================================================
