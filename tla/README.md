# Formal models of cube_starsoft

TLA+ specifications of the parts of this monorepo in which order, failure and
concurrency decide whether the program is right: the messaging package and its
consumers, the assistant from the browser's page to its history, the sessions
of browser and backend, the rate limits, users and agents, the documents and
the configuration. Every module is written from the source under `src/`; a definition's
lines are listed in `PROJECT.json` ("map"). TLC checks the models on small
instances, TLAPS proves the theorems at the end of this page for every value of
the constants.

    tlc -workers 2 -config SubscriberGate.cfg MCServices    # a run
    tlapm SubscriberProof.tla                               # a proof

## 1. The system

| Part | State it keeps | Operations | Interacts with |
|---|---|---|---|
| `packages/messaging`, Subscriber | gate (`activeSlots`, `pendingSlots`), deliveries in the handler's hands, `x-retries` | subscribe, deliver, retry, dead-letter, ack/nack | RabbitMQ, any handler |
| `packages/messaging`, RabbitMqService | `conn`, `channel`, `connected`, reconnection timers | connect, events, waitForChannel, publish, consume, close | RabbitMQ, Subscriber |
| `apps/backend-worker-notification`, notifications | idempotency keys (Redis or memory) | process: setNx, send, rethrow | Subscriber, RedisService, SMTP |
| `apps/backend-worker-notification`, assistant worker | the stream of each query | take a query, publish chunks, done, error | Subscriber, model, response exchange |
| `packages/assistant` | history list in Redis, conversations and messages in Postgres | getHistory, saveMessage, delete; the graph of a query; the filter of `<think>` blocks | RedisService, database, model |
| `apps/backend`, gateway and response consumer | rooms of sockets, the adapter, a response queue per replica | connect, query, emit | browser, exchanges |
| `apps/frontend`, assistant page and store | agent and conversation shown, `isTyping`, messages, the socket | select, load, delete, send, receive | gateway, HTTP routes |
| `apps/frontend`, session | the cookie of NextAuth with a pair of tokens | sign in, evaluate (jwt callback), refresh, sign out | `auth` of the backend |
| `apps/frontend`, tables | page, filter and its timer, dialogs, calls in flight | type, page, open, confirm | HTTP routes |
| `apps/backend/src/auth` | keys `auth:access`, `auth:refresh`, `auth:session` | login, refresh, logout, guard | RedisService, users |
| `apps/backend/src/user`, `agent` | rows, the cached list of users | create, update, remove, list | database, RedisService, publisher |
| `apps/backend/src/document` | objects, artifacts, rows, embeddings, cached list | upload + vectorize, delete, list, download, search | bucket, Postgres, RedisService, embeddings model |
| `packages/redis` | client, failure counter, `fallbackActive`, in-memory store and its timers, rate counters | commands, activateFallback, tryReset | everything above |
| `packages/rate-limit` | counters per IP and e-mail | incr, expire | RedisService, bootstrap |
| `packages/config` | `config.yaml`, the `.env` of each application | parse, validate, generate | every application |
| database, bucket, e-mail, logging, tooling | configuration, or nothing | single statements, rendering | |

Processes are Node.js event loops: between two `await`s a handler runs alone in
its process, and the replicas of a service interleave freely. What is hard
here, and what a test would hardly reach (each at its line in "hazards"):

* *interleaving inside one process*: deliveries waiting at the gate, several
  `connect()` calls, polls that overlap, two refreshes with one token, a
  deletion during an upload, `Promise.all` that rejects while its other writes
  go on, two cold fills of one history;
* *in the browser*: answers to calls made for another page, agent or
  conversation, handlers that go on with the state of an older render,
  evaluations of one session in parallel;
* *crashes*: between a retry's publication and the ack, between the idempotency
  key and the send, in the middle of a stream, of an upload or of a saveMessage;
* *lost answers*: a command of Redis, SMTP or the bucket that threw may have
  been done; a PEXPIRE nobody waits for may never be;
* *two stores*: a replica whose Redis fallback is active works on its own
  memory, for ever, and the others do not see it; the timers of that memory
  delete keys that have been set again;
* *delivery*: publications to exchanges without bindings, redelivery, one
  response queue per replica;
* *liveness*: reconnection, start before the broker, a stream that throws.

## 2. Modules

| Module | Models | Extends / uses |
|---|---|---|
| `Semaphore` | the abstract specification of a concurrency gate: at most `Limit` inside, first come first served, a leaving task hands its place over in the same step | |
| `Subscriber` | `subscriber.ts`, `publisher.ts`, `retry-strategy.ts`, the acks of `rabbitmq.service.ts`, the broker's queues | implements `Semaphore` (`GateRefined`) |
| `NotificationWorker` | the e-mail consumer's handler as awaits inside the subscriber's steps, composed with `Subscriber` | EXTENDS `Subscriber` |
| `RabbitConnection` | `connect()`, its timers and events, `waitForChannel`, the polling of `subscribe` | |
| `AssistantStream` | browser store, gateway, query worker, response consumers, start of a replica | |
| `ConversationHistory` | one conversation: rows in Postgres, list in Redis; the turns of the graph, the readers and the deletion, a step per command | |
| `AnswerText` | the text of an answer: streamed in chunks without `<think>` blocks, cleaned and saved, rendered | |
| `ChatPage` | the assistant's page and its store: agent, conversation, calls in flight, sockets, events of answers | |
| `ListPage` | the pages of documents, embeddings, users and agents: filter, paging, dialogs, calls, the loading counter | |
| `WebSession` | the session of one browser (`auth.ts`): concurrent evaluations that refresh, store or do not store their token | |
| `Lifetimes` | the abstract specification of sessions: each begins once, and one that is over does not come back | |
| `AuthSession` | login, refresh, logout and the guard as sequences of cache commands | implements `Lifetimes` (`SessionsEndOnce`) |
| `RateLimit` | `RedisService` (client, failure counter, fallback, reset timer) and the two rate limits counted through it | |
| `Accounts` | create, update, remove of users and agents as statements beside each other; the cached list of users | |
| `DocumentStore` | upload, vectorization, deletion and the cached list as commands to bucket, tables and cache | |
| `DocumentReading` | a download beside them: the row first, then the object | EXTENDS `DocumentStore` |
| `FallbackStore` | the in-memory store (`fallback.service.ts`) with its late timers, under the sessions of a user and a cached list | |
| `EnvFiles` | the parser of `config.yaml`, the schema as far as a variable is required, defaulted or stripped, the three generators beside an editing operator | |
| `SubscriberProof` | theorems about `Subscriber`, its gate as a `Semaphore`; the lemmas on waiting lines | EXTENDS `Subscriber` |
| `MessagingProof` | theorems about the worker and the connection | EXTENDS `NotificationWorker`, `RabbitConnection`, `SubscriberProof` |
| `StreamProof` | theorems about the streaming pipeline | EXTENDS `AssistantStream` |
| `ConversationProof` | theorems about a conversation's rows and its list, and about the text of an answer | EXTENDS `ConversationHistory`, `AnswerText` |
| `PagesProof` | theorems about the session of a browser and the pages | EXTENDS `WebSession`, `ChatPage`, `ListPage` |
| `AccessProof` | theorems about sessions of the backend and the login limit | EXTENDS `AuthSession`, `RateLimit` |
| `AccountsProof` | theorems about users and agents | EXTENDS `Accounts` |
| `StoresProof` | theorems about documents, downloads, the fallback store and the .env files | EXTENDS `DocumentReading`, `FallbackStore`, `EnvFiles` |
| `MC*` | what TLC needs beside constants: symmetries, bindings of an operator, the bound on runs, and the sums described next | EXTEND the modules they instantiate |

### Modules that share a run

`MCMessaging`, `MCServices`, `MCConversations`, `MCAccess` and `MCStores` each
put several modules that share no state into one run. A variable `part`, chosen
initially and never changed, says which of them takes the steps; the others
stay at (one of) their initial states. The behaviours are exactly those of the
modules one by one, so each module's properties are checked as if it were
alone; `TypesOK` is the type invariant of the part that moves. `part` is also
what keeps the number of states a sum and not a product.

### How state and actions correspond to the code

**Subscriber.** A *copy* is a message as the broker stores it; `body` is the
message it carries and `tries` its `x-retries` header. `stage` says where it is:
in a queue, `waiting` at the gate (`acquireSlot`), `running` in the handler,
`retrying`/`burying` (a publication of `handleFailure` waits for its confirm),
`retried`/`buried` (the broker has it, the handler does not know yet), `acking`/
`nacking` (the frame is on the wire). `Deliver` is the consumer callback up to
its first await; `HandlerSucceeds`, `HandlerFails` and `HandlerFailsForGood`
are the handler's end with everything the same turn of the event loop does:
the release of the slot (`ReleaseSlot`, which starts the first waiter in the
same step) and the ack. `frames` counts what has been sent for a delivery.
`OperatorRoute` is the part of the topology the code does not make: the code
binds no queue to the retry and dead-letter exchanges, so what they reach
depends on who operates the broker.

**NotificationWorker.** `phase` is the await a handler is at. Each step of the
subscriber that starts or ends a handler is taken together with the handler's;
`Elsewhere` is every other step of `Subscriber`. `SetNxFails`
and `SendFails` may have taken effect. `SetNxFallsBack` is the failing command
that reaches the threshold and is answered from memory.

**RabbitConnection.** Calls of `connect()` are counted while they dial
(`dialing`); from then on a call is its connection (`phase`). `Lost` is the
"error" and "close" pair of events of one connection, which clears the flag and
sets the timers. `polls` are the callbacks of `setInterval` that are still in
`waitForChannel`.

**AssistantStream.** A chunk is its number. `boot`, `redisClient` and `adapter`
follow `main.ts` from `create` through `connectToRedis` to `listen`. `inbox` is
the response queue of a replica, which all chunks of all queries enter;
`rooms` are the Socket.IO rooms of a client's socket. `Rethrow` routes a failed
query to the retry or not, in one of the ways `RetryRouted` allows: the code
binds no queue to the retry exchange, so as built the error event is all the
browser gets. The queue of queries is
`Subscriber`'s, abstracted to `phase`; `EventuallySettled` is what that
abstraction relies on. A query is `ending` from the publication of the end to
the ack: the handler awaits the confirm in between, so a worker that dies there,
or a confirm that fails, has the query streamed again after its end. `completed`
holds the queries whose browser has heard the end last.

**AuthSession.** `pc` is the cache command a request is about to send. A pair
of tokens is named by the request that issues it. `Visible(b)` is what replica
b reads: Redis, or its memory once its fallback is active. A command that
throws may have been done. A session is named by its login (`root`). It is
`Open` while some store has a refresh key of one of its pairs or a request is
issuing one of them, and `Over` once neither is so.

**DocumentStore.** `upload` and `deletion` are the command each handler is
about to send. `chunk` is the state of each chunk's writes, which run in
parallel inside a batch (`Promise.all`) and go on after one of them has
rejected it. `StartWrites` leaves any of a batch's chunks "skipped", those the
model has sent no embedding for. `rows` and `embedded` change together where
Postgres cascades.
`DocumentReading` adds one download: `FindDocument` is the lookup of the row
and `OpenObject` the read of the bucket, with everything else in between.

**ConversationHistory.** `at` is the command a turn is about to send: to fill
the list (`range`, `find`, `fill`, `ttl`), to save a message (`conv`, `create`,
`refind`, `insert`, `bump`, `push`, `trim`, `renew`) or a node of the graph
(`build`, `route`, `model`, `answered`). `log` is the table, `cache` the list, a
message being the query it belongs to and its role. `alone`, `whole` and
`faulty` remember whether operations overlapped, something was deleted,
something failed. A query delivered again runs its turn again.

**AnswerText.** A text is a sequence of tokens, two tags and two words. A chunk
may end inside a tag and the next begin with the rest of it: neither half is a
tag to `StreamChunk`, `Join` makes them one where the texts meet, and `cut`
remembers it.
`StreamChunk` is the loop of `streamQuery` with its `isThinking` flag,
`FullMessage` the final message of a node that streamed nothing, `Clean` and
`Shown` the two regular expressions by what they replace. `CleanFrom(s)[i]` is
what is left of a text from its i-th token on.

**ChatPage.** A conversation is named by the question that opened it. A call is
in flight, then served (`reply` holds what the server had), then arrives; calls
arrive in any order. `question[q].phase` follows an answer of one chunk;
`late` remembers that an answer came in after its agent had been left.

**ListPage.** One model of four tables that differ in the calls they make and
the order of their rows (agents have none: `SetToSeqs`). A call carries the page
and the term of the render that created its handler, and `ListArrives` sets
the data whatever is shown by now. `loadingCount` is `loading-store.ts`.

**WebSession.** `eval` is the position of each evaluation of the jwt callback.
`RefreshReads`, `RefreshRotates` split the backend's refresh where it awaits;
`Ends` stores the token for the proxy and the session route and not for a
layout. `refreshable` is what `AuthSession` has in detail.

**RateLimit.** `boot` follows `main.ts`: the global limit is registered before
`app.listen` connects Redis, so its `store` is memory. `IncrIp` and `IncrEmail`
are the two commands of an attempt; each may send a PEXPIRE, which is in
`expiring` until Redis has done it or its connection is lost.

**Accounts.** `change[r]` is where a request is, the body it was given and the
row it has read; `SaveUser` is TypeORM's `save` (an update, or an insert of a row
that has gone). `atomic` is the table if each request had been one step, and
`raced` the users for whom another request wrote in between.

**FallbackStore.** The commands of the memory do not leave the process, so a
handler's commands are one step; what comes in between are the timers, which
may be late: `timers` of `set` are never cleared and look at `expiresAt` when
they fire, the one of `expire` is replaced by the next and looks at nothing.

**EnvFiles.** A setting stands for its own value. The operators named after
sections give the variables a setting assigns, those it assigns only if its
section has not yet, and `Assigned` is the order of the document. `Generate` is
one generator, `Edit` a change of the file between two of them.

## 3. Runs

All runs pass or fail as `PROJECT.json` says. "Violation" runs state what a
document or comment of the repository says and show that the code does
otherwise; the quotation is in "findings".

| Run | Instance | Question |
|---|---|---|
| `subscriber_gate` (`MCServices`) | *gate*: 2 replicas (one without retries), 3 messages, 3 copies, cap 1, prefetch 3, a crash, refused publications, retries that return | Is the cap kept, no wake-up lost, every delivery settled once, and is the gate a `Semaphore`? |
| | *users*, *agents*: 2 rows of each, 2 requests, a reader | Are the tables those of changes one after the other (`AccountsKept`), is an outdated list about to be dropped (`UserListFresh`)? |
| `subscriber_dead_letter` (violation) | the bindings the code makes | `NoFailedMessageLost`: a failed message ends in `.dlq`? No: nothing is bound to the retry and dead-letter exchanges. |
| `messaging` (`MCMessaging`) | *worker*: 2 replicas, 1 message, a crash, a failing Redis and SMTP server, one fallback | E-mails per message bounded, no silent loss without a failure, nothing lost, everything settled in the end? |
| | *connection*: 4 connections, one outage, polls that overlap, a prefetch | Does `connected` name a channel not seen closed, is growth bounded, is there a channel in the end, does a subscriber started before the broker consume (`ConnectionRecovers`)? |
| `worker_lost` (violation) | 1 replica, a send that throws | `NoEmailLost`: sent, retried or dead-lettered? No: the retry meets its own idempotency key. |
| `connection_prefetch` (violation) | two outages | `EventuallyUsable`: no, two calls that overlap in `prefetch` leave the flag set beside a dead channel. |
| `connection_consumes` (violation) | one outage | `EventuallyConsumes`: no, nobody subscribes on the new channel. |
| `assistant` | 2 backends, 1 browser, 2 queries of 2 chunks, one failure of any kind, retries that return and retries no queue is bound for | Is each attempt rendered once, does an answer whose last word is its end stand there whole, is every query answered in the end? |
| `conversations` (`MCConversations`) | *history*: 2 turns (a greeting, and one delivered up to twice), one deletion, failure or crash | Is the list the end of the table, is no message lost when two create the conversation, does every list expire? |
| | *text*: answers of 6 tokens in chunks of 3, which may end inside a tag | Is an answer no chunk of which ends inside a tag shown live as it is when reloaded? |
| | *chat*: 2 agents, 2 questions, 1 socket, 2 calls, 3 clicks or lost sockets | Is what the page shows of one conversation, does the send button come back? |
| | *list*: 4 tables, 3 items, 2 calls, 3 inputs, 1 failing call | Does the page settle on what the backend has, unless a call failed, two lists overlapped, or the page was left while a change of the data was in flight? |
| | *web*: 2 evaluations, 3 pairs, 1 failing call | Is the session lost only where the code gives it up? |
| `auth` (`MCAccess`) | *auth*: 3 requests, 2 backends, 2 failing commands, 2 fallbacks | Revoked tokens stay revoked, surviving keys are bounded by failures, nobody's keys are taken, and a session that is over stays over (`SessionsEndOnce`)? |
| | *limit*: 2 replicas, 4 attempts at one account of which 2 are allowed, windows of two ticks, one outage beside the first attempt | Do no more than three attempts pass in any window (`LoginCapped`)? |
| `auth_logout` (violation) | login, refresh, logout | `LogoutEndsSession`: no, the first access token survives. |
| `rate_limit_window` (violation) | one replica, one request per window | `RefusedInWindow`: no, the counter in memory never starts again. |
| `documents` (`MCStores`) | *lists*: a knowledge-base document of 3 chunks in 2 batches, a plain one, a reader of the list, 1 failure or crash | Is the cached list fresh? |
| | *downloads*: the same documents, a download, 2 failures or crashes, or chunks the model passes over | Answered uploads complete but for those, downloads served, failed uploads gone? |
| | *memory*: 2 tokens and a list, lifetimes of 2 and 1 ticks, 3 ticks | Is every living session listed (`SessionsListed`)? |
| | *config*: 3 settings out of 24 in any order, one edit | Do the `.env` files agree (`FilesAgree`)? |

### Bounds, and why they are enough

* Two replicas show every interleaving between processes the properties tell
  apart: keys, queues and rooms are compared between "this replica" and "another".
* *gate*: three copies at a cap of one are one inside and two in line, so the
  order of the line, a wake-up with waiters behind it and a crash of a full
  gate all occur. `RunsCapped` lets one message be handled twice (the loop
  through the retry queue has no end). Messages are symmetric; copies are not,
  because the broker's choice of a free token is `CHOOSE`.
* `MaxRetries = 1` reaches both sides of the limit: a first failure that is
  retried and one that is dead-lettered.
* *connection*: four connections and one outage, because `GrowthBounded` allows
  three to one outage. `connection_prefetch` needs the second outage: with one,
  each connection that is lost while another call sets its prefetch is
  followed by a timer that finds the flag cleared.
* *history*: two turns overlap, and one of them may run twice; the trim of the
  list to two messages happens with the first turn's end.
* *text*: six tokens are two whole blocks with a word outside, or one with words
  on both sides; chunks of three hold a whole block with its word, or a word and
  halves of two tags.
* *chat*, *list*: three inputs are a change, a second one before the first is
  answered, and one that meets its answer. One row a page (the code: ten) makes
  three items three pages.
* *limit*: a window meets two counters at most, so three attempts pass at a limit
  of two when the first counter ends between them, and the fourth is the one
  that must not. That takes windows of two ticks and three moments. One
  replica takes all attempts but the last to come (`InTurn`): replicas meet only
  in the counters, each command for itself. An outage begins in the first tick,
  beside the first request, and lets one more come (`Few`); other requests come
  only then. The theorem `LoginCapHolds` has none of these bounds.
* *memory*: the second session is issued before the first expires, at its last
  moment and after it; three ticks see each timer fire early, late and never.
* *config*: two settings that assign one variable and a third that only stands
  in for one; all orders of three.
* `documents`: three chunks in batches of two make a full and a partial batch.
  `ListBound` allows one failure and no passed-over chunk beside the reader,
  whose property depends on neither; beside the download there are two
  failures, and any chunks passed over.
* `MaxFailures`, `MaxFallbacks`, `MaxCrashes`, `MaxOutages`, `MaxDisturbed`,
  `MaxBroken`, `MaxRefusals` bound how often the environment misbehaves.
  Properties that count them (`EmailsBounded`, `StaleKeysBounded`,
  `FailedUploadGone`, `GrowthBounded`, `RenderedOnce`) are checked at every
  value up to the bound.
* `MaxLag` bounds a response queue, `MaxPolls` the polls in one wait (10 s / 2 s).
* Symmetries are of values the modules compare only for equality: messages and
  requests (`MCServices`), requests, the attempts among them and replicas (`MCAccess`), agents
  and questions (`MCConversations`). No run with symmetry checks a liveness
  property.

`CHECK_DEADLOCK FALSE` everywhere: each system may really stop (all messages
handled, all requests answered, all documents deleted).

### Fairness

Weak fairness of what the runtime and the services do by themselves, never of
what people, producers or failures do. `Subscriber`, `NotificationWorker`:
processes are restarted, handlers and SMTP answer (with success or an error),
the broker delivers, confirms and settles; crashes and publications are not
fair. `RabbitConnection`: timers fire, a dial ends, events are emitted, polls
go on; `BrokerReturns` is not fair, the properties assume `<>[](broker = "up")`
instead. `AssistantStream`: replicas start and drain their queues, the worker
goes on; sockets need not come back. `MCMessaging` states the fairness of its
two modules again, with `part`. The other modules state no liveness.

## 4. Proofs

About 15800 proof obligations. No statement is assumed but the named `ASSUME`s
on constants (`SubscriberAssumption`, `FallbackAssumption`, ...), which TLC
evaluates in every run, and the one hypothesis a theorem names: `Dependable`, of
`NothingLost`. Each theorem speaks of every value of the constants: any number
of replicas, requests, messages, documents, failures, and texts of any length.
Every safety property the passing runs check is a theorem.

Where a proof is about numbers or positions without a bound, it does not
use an induction theorem (those take an operator as a parameter) but the least element
of a set of naturals (`WFMin`): the numbers for which the claim fails have a
least one, and that one leads to a contradiction. `CountingUp` and `Minimum` state
it once each.

The lines below name the inductive invariant of each proof and why the
property is not inductive without it.

**SubscriberProof** — `TypeCorrect`, `CapHolds` (`ConcurrencyCap`), `WakeupsHold`
(`NoLostWakeup`), `SettledOnceHolds` (`SettledOnce`), `NothingLost`
(`NoFailedMessageLost`), `GateImplements` (`GateRefined`).

* The cap: a release hands the slot to the head of the line, so the counter is
  right only if the line holds exactly the waiting copies, each once; and that a
  crash empties exactly the replica's deliveries needs to know who holds
  what. `IndInv` is `TypeOK`, `Located` (a copy has a holder iff it is in
  flight, at a running replica), the cap and the line together; lemmas say what
  `Append`, `Head` and `Tail` do to lines without repetition. The run checks the
  cap as part of `GateRefined`: a counter that is off admits or refuses somebody
  the semaphore does not.
* `NothingLost` assumes `Dependable` (the exchanges are bound, no publication is
  refused, every replica retries) and adds `Kept`: some copy still *answers* for
  every accepted message. Without `Dependable` the run `subscriber_dead_letter`
  is the counterexample.
* `GateImplements`: under `IndInv` the counter is the size of `Holding(r)`, so
  `SlotFree` is the abstract `Room`; a delivery maps to `Enter` or `Queue`, the
  three ends of a handler to `Leave`, a crash and a start to `Reset`, everything
  else to a stutter.

**MessagingProof** — of the worker `WorkerIsSubscriber` (it implements
`Subscriber`, so the theorems above hold of it), `WorkerTypeCorrect`,
`AtMostOneEmail` (`EmailsBounded` without fallbacks) and `SilentLossHolds`
(`SilentLossNeedsFailure`); of the connection `ConnectionTypeCorrect`,
`ConnectedUsableHolds` (`ConnectedMeansUsable`) and `GrowthBoundedHolds`
(`GrowthBounded`).

* `Locks`: at most one handler has got the key of a message, and none once it
  has been sent.
* `LossInv`, of every message without a failure (`Unfailed`): whoever finds its
  key finds it sent or in the hands of a handler, so a duplicate may be
  acknowledged; and the message is sent or a copy of it stands. Keys survive in
  Redis and in memories, so the claim is about both stores.
* `ConnectionInv`: before the first outage there is one connection or one
  attempt (`Single`); after one, the calls that wait for their prefetch began
  after it (`Fieldset`). The second outage breaks that, which is the run
  `connection_prefetch`; without a prefetch nobody waits (`NoQos`).
* `GrowthBounded` follows from a `Weight` that counts a connection that is cut
  three times (its two events and the failing call set a timer each): no step
  but an outage adds to it, and an outage triples it at most. The bound is
  `Tripled`, a recursive function; `CountingUp` shows that it is what its
  equation says at every number (`TripledIs`).

**StreamProof** — `StreamTypeCorrect`, `RenderedOnceHolds` (`RenderedOnce`),
`DoneCompleteHolds` (`DoneMeansComplete`). What a browser has been shown says
nothing of what is on its way. `Flows` ties the two: for each query whose
socket lives, the text shown followed by the queue of the socket's replica is a
row of beginnings of the answer, each chunk after the one before it, the end
after the last one, a new attempt perhaps after an end; and the beginnings in text and
queue, with the one the worker still owes, are one more than the failures at
most. `Placed` says where a query may be heard of at all, `InMemory` that every
serving replica has its own queue bound and its adapter in memory.

**ConversationProof** — `HistoryTypeCorrect`, `ExpiryPendingHolds`
(`ExpiryPending`, inductive beside the types), `NoMessageLost`
(`NoMessageLostInRace`), `SequentialSuffixHolds` (`SequentialSuffix`); of the text
`TextTypeCorrect` and `LiveAsReloadedHolds` (`LiveAsReloaded`).

* `RaceInv`: a process that found or created the conversation holds the id of
  *the* row (two that create meet on the unique key), and what it asked is in
  the table once it is past saving it.
* `AloneInv`: in the middle of an operation the list is not the end of the table
  but a part of it that ends so many messages before (`Part`, `Behind`), and
  what is still to be pushed is that rest. Lemmas say what `Append`, `Tail`
  and the trim do to parts.
* `TextInv`: while the answer streams and no chunk has ended inside a tag, what was
  streamed is what `Clean` leaves of its closed blocks, and `isThinking` says
  whether one more is open behind them (`Parted`). This is a claim about what a recursive function makes of every
  text: `Backward` argues from the end of a text to its start, with `Minimum` for
  the step, `Forward` the other way. At the end of the answer `Clean` keeps an
  open block and `Shown` cuts it off, which is what `streamQuery` did.

**PagesProof** — `WebTypeCorrect`, `SessionSurvivesHolds` (`SessionSurvives`);
`ChatTypeCorrect`, `TypingAwaitedHolds` (`TypingMeansAwaited`),
`OneConversationHolds` (`ShowsOneConversation`); `PageSettlesHolds`
(`PageSettles`), `ListTypeCorrect`.

* `WebInv`: undisturbed, either the cookie can be refreshed and everybody at work
  has it as it is (`Rests`), or its pair has been exchanged and the only
  evaluation at work holds the one that follows (`Exchanged`).
* `ChatInv`: every awaited answer is heard while no socket was lost
  (`TypingInv`); what loads bring and the screen shows belongs to its
  conversation, and one that is awaited elsewhere was left (`Screen`); until an
  answer came late, conversations, rows and calls are of their agent (`Owned`).
  Questions keep what they were asked in (`QuestionsKept`).
* `ListInv`: calls have ids of their own and the overlay counts no more than there
  are (`FlightOK`; that a free id exists is the pigeonhole principle); while
  nothing overlaps, the calls in flight are of what the page shows, one is of
  the list at most, and unless a change that was made has its fetch still to come
  the one answered, or else the table, has what the backend has (`RowsKept`).
  This proof found what the runs' bounds had not: a change of the data in flight
  when the page is turned answers with a fetch of the *old* page, so the history
  variable `mixed`, and with it the exception of `PageSettles`, also counts a
  change in flight when a list is fetched for another page.
* `ListTyped`: what is shown and every answer under way is a page of the table as
  it was (`Tabled`), and at most one creation is under way, of an item there is
  room for (`CallsTyped`).

**AccessProof** — `AuthTypeCorrect`, `RevokedStays` (`RevokedHere`), `UsableHolds`
(`UsableOnceIssued`), `StaleKeysHold` (`StaleKeysBounded`), `SessionsEndHolds`
(`SessionsEndOnce`); of the limits
`LimitTypeCorrect` and `LoginCapHolds` (`LoginCapped`).

* `Revocation`: the memory of a replica is empty until its fallback starts, and
  only issued pairs are revoked, so nobody writes their keys again.
  `Undisturbed` says which keys each request has written at each command.
* `DeadlineInv`, while Redis serves: an access key is gone once its logout has come
  past the deletion, and every refresh key that should be gone, that nobody can
  find by its session any more, or whose session a logout is about to delete,
  has a failed command of its own (`Blamed`). The property counts only finished
  requests; the charge must be made when the command fails, before anything is
  late.
* `Descent`: the pair a refresh presents and the one it issues belong to one login,
  and every refresh key belongs to a session that has begun. A refresh key is
  read before a new one is written, and the request counts as issuing from its
  read on, so a session is open at every step of a refresh that has found it
  open. A step that takes a session's last key maps to `End`, the arrival of a login to
  `Begin`, all else stutters; no step takes the last keys of two.
* `LimitInv`: counters have their types, and an attempt that is about to count was
  taken by a replica.
* `CapInv`: every account's counter counts since some moment `a` (`CountsSince`): it
  ends a window after `a` at the earliest, has let no more through than it has
  counted and one less after `a`, and in the window before `a` at most one less
  than the limit passed. A window that meets now is then the rest of the
  predecessor and this counter: twice the limit, less one. When a counter
  expires, `a` becomes now. Nothing is asked of the PEXPIREs: a late or lost one
  only makes a counter last longer.

**AccountsProof** — `AccountTypeCorrect`, `AccountsKeptHolds` (`AccountsKept`),
`UserListFreshHolds` (`UserListFresh`). `AccountInv`: what a request has read of
a row is there while no other change wrote it (`ReadsOf`), so writing what
differs is writing the whole body (`Over`), and each request carries columns its
table has (`Carries`).

**StoresProof** — `DocumentTypeCorrect`, `UploadedHolds` (`UploadedComplete`),
`ListStaysFresh` (`ListFresh`), `FailedUploadsGo` (`FailedUploadGone`),
`DownloadsServedHolds` (`DownloadsServed`, and the two about uploads beside the
download), `SessionsStayListed` (`SessionsListed`), `EnvTypeCorrect`,
`FilesAgreeHolds` (`FilesAgree`).

* `Progress`: `Complete(d)` ties the upload's position to what has been written:
  every chunk of the batches behind it is embedded or was passed over, and every
  chunk is in a batch, so behind the last one nothing else is missing. `ListFresh` is inductive beside the types: every
  step that changes the rows leaves its handler where it is about to drop the
  list, or failed.
* `Accounted`: an upload that is being taken back has met one failure, a row left
  behind two, a deletion that failed one; so twice the rows left behind, the
  uploads taken back and the failed deletions are at most the failures.
* `ReadingInv`: a document whose row was found had its object, and who removed it
  since is an excuse that stays one (`Opened`).
* The timer of `expire` deletes the set of a user's sessions without looking; that
  no living session is in it then holds because every login replaces the timer
  and all sessions live equally long. `Bounded` says that: no session outlives
  `now + TokenTtl`, nor the timer that is set.
* `EnvInv`: while nobody edits, every file behind the generators' `turn` is what its
  generator writes of the document as it is (`Current`); the frontend's own
  `predev` keeps that. Which of a variable's settings counts is an argument about
  positions: a stopgap behind the setting it stands in for assigns nothing
  (`Assigned`), one before it is overwritten, and the document gives neither
  twice. `EnvAssumption` leaves out documents that give such a variable a third
  time, by its own name outside the sections: who does has chosen. A document
  starts with each section in one place (`WellNested`), which no edit takes away.

Only model-checked are the liveness properties (`EventuallySettled`,
`ConnectionRecovers`, `EventuallyAnswered`): TLAPS does not reason about ENABLED.
`TypesOK` of an `MC` module is the conjunction of types that are theorems. No
module declares a RECURSIVE operator.

## 5. What is not modelled

* `close()` at shutdown, and an ack that reaches another channel than its
  delivery's (`rabbitmq.service.ts:210`): `RabbitConnection` has no deliveries.
  That overlapping polls (`subscriber.ts:53`) each subscribe is in the model
  (`consumers` may exceed one); no document promises one consumer, so no run
  refutes it.
* In `AssistantStream`: a worker that dies between publishing a retry and its ack
  leaves two copies of a query (`Subscriber` has that; here a query has one
  phase), and a publication of the worker's error event that is refused.
* The 24 h of an idempotency key; the per-user token sets in Redis (written,
  never read); passwords and signatures; a restart of a backend in fallback.
* The model's answers, prompts, guard rails and greeting patterns.
* Filters and search of documents, and the second cached list
  (`list_all_kb`); one owner stands for all. A statement of the database that
  throws has not been done.
* The formats zod checks, the quoting of values and the validate-config tool.
* `apps/backend/src/assistant/{assistant.service,conversation.service,langgraph.flow}.ts`
  are copies of `packages/assistant` that only LangGraph Studio's entry and
  their own tests import.
* The parts listed as `not_modelled` in `PROJECT.json`, with the reason for each:
  wiring, rendering, single statements, tooling.

### Met while modelling, and not checked

Each follows from the code by reading, and no property states it: no document
claims the contrary, or it is a single assignment, or the model has it and a
property of a run says for which behaviours it does not speak.

* A tag that two chunks share is seen in neither (`assistant.service.ts:176` and
  `:185` search each chunk by itself). Behind a closing one `isThinking` stays
  true: the rest of the answer is not streamed and stands in the conversation
  only when it is loaded again. `LiveAsReloaded` leaves such answers out
  (`cut`); `assistant.service.spec.ts:93` promises their visible text.
* `vectorization.service.ts:103` passes over a chunk the model sent no embedding
  for, without an error, and `createEmbeddingsAdapter.ts:213` does not compare
  counts. The upload is answered like any other, though
  `document.service.ts:240` says that errors of the API fail the whole flow.
  `UploadedComplete` leaves such chunks out ("skipped").
* `rate-limit-store.ts:61`: only who reads 1 sends the PEXPIRE, once and
  without waiting. When the answer to that INCR is lost, or the PEXPIRE is
  rejected, the counter stays for good and past the maximum every attempt is
  refused, which `packages/rate-limit/README.md:14` says cannot happen
  (`RateLimit` has both: `IncrFails`, `ExpiryRejected`).
* The window of a login counter is fixed, not the "janela móvel" of
  `packages/rate-limit/README.md:11`: up to twice the maximum less one pass in a
  window, which is what `LoginCapped` says.

* `redis.service.ts:79`: `connect()` returns at once when a client exists, so
  `tryReset` never reactivates Redis once a running replica has fallen back
  (`RateLimit.TryReset` does what the code does: the fallback stays).
  `packages/redis/README.md:26` says it does.
* The login guard builds a store per call (`login-rate-limit.guard.ts:32`): in
  fallback its memory is empty each time and nothing is refused.
* `document.service.ts:111`: the artifacts `chunks/<id>/<n>.txt` are never deleted.
* A query redelivered after its question was saved saves the question again
  (`langgraph.flow.ts`); `SequentialSuffix` compares two copies of the same log.
* A logout whose access key has expired leaves the refresh key
  (`auth.service.ts:73`).
* `PATCH` of an agent without `isActive` activates it (a zod default under
  `partial()`); `Accounts.Parsed` has it.
* The page of agents orders and filters nothing; the timer of the filter that
  starts with the page sends its table back to page 1 (`ListPage` has both).
* `parser.ts:103` and 246 write the headers of OTLP in two forms; `README.md:105`
  lists a `.env` of the database package no generator writes.

## 6. What is left

1. `RabbitConnection` with deliveries: acks on a foreign channel, `close()`.
   With it the composition of `Subscriber` and the connection it runs on.
2. `WebSession` composed with `AuthSession`, the refresh split where the
   backend awaits, in place of `refreshable`.
3. Violation runs for what section 5 lists as promised otherwise: the counter
   without an expiry, the cut tag, the chunk passed over, the reactivation of
   Redis.
4. Abstract specifications for more components, beside `Semaphore` and
   `Lifetimes`: a table of atomic changes that `Accounts` implements while no
   changes cross, a mailbox that `NotificationWorker` implements without
   fallbacks.
