-------------------------- MODULE ConversationHistory --------------------------
(***************************************************************************)
(* One conversation of the assistant: its messages in PostgreSQL and its   *)
(* history in a Redis list (conversation.service.ts), as the turns of the  *)
(* worker's graph (langgraph.flow.ts) and the HTTP routes of the backend   *)
(* (assistant.controller.ts) read and write them.  Each command to Redis   *)
(* or to the database is a step, so that turns, readers and a deletion     *)
(* interleave as their awaits let them.                                    *)
(*                                                                         *)
(* Conversations share nothing but code: the session is left out.  The     *)
(* row of the conversation is its id, 0 while there is none.               *)
(***************************************************************************)
EXTENDS Integers, Sequences, FiniteSets, SequencesExt

CONSTANTS
    Asks,           \* queries the worker receives, one message each
    Greetings,      \* those isGreetingQuery recognises
    MaxHistory,     \* MAX_HISTORY_MESSAGES
    MaxTries,       \* deliveries of each query before it is given up
    MaxDisturbed    \* bound on deletions, failing commands and crashes

ASSUME HistoryAssumption ==
    /\ Greetings \subseteq Asks
    /\ MaxHistory \in Nat \ {0} /\ MaxTries \in [Asks -> Nat \ {0}]
    /\ MaxDisturbed \in Nat

VARIABLES
    row, lastId, log,       \* the conversation and its messages, PostgreSQL
    cache, ttl,             \* the list in Redis, whether it will expire
    at, toPush,             \* getHistory, per process: what is left to push
    role, conv, attempt,    \* saveMessage and the turn of each query
    removal,                \* deleteConversation: the id it found and its step
    alone, whole, faulty,   \* history: no overlap, no deletion, a fault
    disturbed               \* history: how many deletions and faults

tableVars == <<row, lastId, log>>
listVars == <<cache, ttl>>
turnVars == <<role, conv, attempt>>
countVars == <<alone, whole, faulty, disturbed>>
historyVars == <<tableVars, listVars, at, toPush, turnVars, removal, countVars>>

Chat == [ask : Asks, role : {"user", "assistant"}]
Reading == {"range", "find", "fill", "ttl"}
Saving == {"conv", "create", "refind", "insert", "bump", "push", "trim", "renew"}
Turning == {"build", "route", "model", "answered"}
NoRemoval == [id |-> 0, step |-> "none"]

HistoryTypeOK ==
    /\ row \in Nat /\ lastId \in Nat /\ row <= lastId
    /\ log \in Seq(Chat) /\ cache \in Seq(Chat) /\ ttl \in BOOLEAN
    /\ at \in [Asks -> {"idle", "done", "dead"} \cup Reading \cup Saving \cup Turning]
    /\ toPush \in [Asks -> Seq(Chat)]
    /\ role \in [Asks -> {"user", "assistant"}]
    /\ conv \in [Asks -> Nat] /\ attempt \in [Asks -> Nat]
    /\ \A q \in Asks : attempt[q] <= MaxTries[q]
    /\ removal \in [id : Nat, step : {"none", "del", "delete"}]
    /\ {alone, whole, faulty} \subseteq BOOLEAN /\ disturbed \in 0..MaxDisturbed

HistoryInit ==
    /\ row = 0 /\ lastId = 0 /\ log = <<>>
    /\ cache = <<>> /\ ttl = FALSE
    /\ at = [q \in Asks |-> "idle"]
    /\ toPush = [q \in Asks |-> <<>>]
    /\ role = [q \in Asks |-> "user"] /\ conv = [q \in Asks |-> 0]
    /\ attempt = [q \in Asks |-> 0]
    /\ removal = NoRemoval
    /\ alone = TRUE /\ whole = TRUE /\ faulty = FALSE /\ disturbed = 0

Active == {q \in Asks : at[q] \notin {"idle", "done", "dead"}}
Quiet == Active = {} /\ removal = NoRemoval

Moves(q, from, to) == at[q] = from /\ at' = [at EXCEPT ![q] = to]

-------------------------------------------------------------------------------
(* getHistory: the list of Redis, else the table, then filling the list.   *)

\* streamQuery: the query is delivered.  GET history/:sessionId is the same
\* getHistory alone, as a turn that fails right after it (TurnFails, "build").
Start(q) ==
    /\ Moves(q, "idle", "range")
    /\ alone' = (alone /\ Quiet)
    /\ attempt' = [attempt EXCEPT ![q] = @ + 1]
    /\ role' = [role EXCEPT ![q] = "user"]
    /\ UNCHANGED <<tableVars, listVars, toPush, conv, removal, whole, faulty, disturbed>>

ReadList(q) ==
    /\ Moves(q, "range", IF cache # <<>> THEN "build" ELSE "find")
    /\ UNCHANGED <<tableVars, listVars, toPush, turnVars, removal, countVars>>

Latest(s) == SubSeq(s, IF Len(s) > MaxHistory THEN Len(s) - MaxHistory + 1 ELSE 1, Len(s))

FindMessages(q) ==
    /\ Moves(q, "find", IF log = <<>> THEN "build" ELSE "fill")
    /\ toPush' = [toPush EXCEPT ![q] = Latest(log)]
    /\ UNCHANGED <<tableVars, listVars, turnVars, removal, countVars>>

Filled(q) ==
    /\ Moves(q, "fill", IF Len(toPush[q]) = 1 THEN "ttl" ELSE "fill")
    /\ toPush' = [toPush EXCEPT ![q] = Tail(@)]

FillNext(q) ==
    /\ Filled(q)
    /\ cache' = Append(cache, Head(toPush[q]))
    /\ UNCHANGED <<tableVars, ttl, turnVars, removal, countVars>>

\* Mutant: a fill that leaves the list without an expiry.
FillEndsNoExpiry(q) ==
    /\ Moves(q, "ttl", "build")
    /\ UNCHANGED <<tableVars, listVars, toPush, turnVars, removal, countVars>>

\* EXPIRE of a key that is gone does nothing.
FillEnds(q) ==
    /\ Moves(q, "ttl", "build")
    /\ ttl' = (cache # <<>>)
    /\ UNCHANGED <<tableVars, cache, toPush, turnVars, removal, countVars>>

-------------------------------------------------------------------------------
(* saveMessage                                                             *)

AfterSave(q) == IF role[q] = "user" THEN "route" ELSE "answered"

FindConversation(q) ==
    /\ Moves(q, "conv", IF row = 0 THEN "create" ELSE "insert")
    /\ conv' = [conv EXCEPT ![q] = row]
    /\ UNCHANGED <<tableVars, listVars, toPush, role, attempt, removal, countVars>>

\* Mutant: the unique violation of session_id is not told from other errors.
CreateConversationRethrows(q) ==
    /\ Moves(q, "create", IF row = 0 THEN "insert" ELSE AfterSave(q))
    /\ IF row = 0
       THEN row' = lastId + 1 /\ lastId' = lastId + 1 /\ conv' = [conv EXCEPT ![q] = lastId + 1]
       ELSE UNCHANGED <<row, lastId, conv>>
    /\ UNCHANGED <<log, listVars, toPush, role, attempt, removal, countVars>>

CreateConversation(q) ==
    /\ Moves(q, "create", IF row = 0 THEN "insert" ELSE "refind")
    /\ IF row = 0
       THEN row' = lastId + 1 /\ lastId' = lastId + 1 /\ conv' = [conv EXCEPT ![q] = lastId + 1]
       ELSE UNCHANGED <<row, lastId, conv>>
    /\ UNCHANGED <<log, listVars, toPush, role, attempt, removal, countVars>>

\* Another replica created it first; "Could not create/find" is swallowed.
RefindConversation(q) ==
    /\ Moves(q, "refind", IF row = 0 THEN AfterSave(q) ELSE "insert")
    /\ conv' = [conv EXCEPT ![q] = row]
    /\ UNCHANGED <<tableVars, listVars, toPush, role, attempt, removal, countVars>>

\* A deleted conversation is refused by the foreign key; the error is swallowed.
InsertMessage(q) ==
    /\ Moves(q, "insert", IF row = conv[q] THEN "bump" ELSE AfterSave(q))
    /\ log' = IF row = conv[q] THEN Append(log, [ask |-> q, role |-> role[q]]) ELSE log
    /\ UNCHANGED <<row, lastId, listVars, toPush, turnVars, removal, countVars>>

\* save(conversation) of a row deleted meanwhile inserts it again, unless a
\* newer conversation has its session_id.
SaveConversation(q) ==
    /\ Moves(q, "bump", IF row \in {0, conv[q]} THEN "push" ELSE AfterSave(q))
    /\ row' = IF row = 0 THEN conv[q] ELSE row
    /\ UNCHANGED <<lastId, log, listVars, toPush, turnVars, removal, countVars>>

PushMessage(q) ==
    /\ Moves(q, "push", "trim")
    /\ cache' = Append(cache, [ask |-> q, role |-> role[q]])
    /\ UNCHANGED <<tableVars, ttl, toPush, turnVars, removal, countVars>>

TrimList(q) ==
    /\ Moves(q, "trim", "renew")
    /\ cache' = Latest(cache)
    /\ UNCHANGED <<tableVars, ttl, toPush, turnVars, removal, countVars>>

RenewExpiry(q) ==
    /\ Moves(q, "renew", AfterSave(q))
    /\ ttl' = (cache # <<>>)
    /\ UNCHANGED <<tableVars, cache, toPush, turnVars, removal, countVars>>

-------------------------------------------------------------------------------
(* The nodes of the graph, and the end of a delivery.                      *)

Saves(q, r) == role' = [role EXCEPT ![q] = r]
SameStores == UNCHANGED <<tableVars, listVars, toPush, conv, removal, countVars>>

\* getGraphForAgent, then START -> input_processor.
ProcessInput(q) ==
    /\ Moves(q, "build", "conv")
    /\ UNCHANGED attempt /\ Saves(q, "user") /\ SameStores

\* input_processor -> greeting_handler, or -> retriever -> agent: findRelevantContext
\* of the worker answers "" when it fails.
Route(q) ==
    /\ Moves(q, "route", IF q \in Greetings THEN "conv" ELSE "model")
    /\ Saves(q, IF q \in Greetings THEN "assistant" ELSE "user")
    /\ UNCHANGED attempt /\ SameStores

\* agent: an answer that is empty once cleaned is not saved.
CallModel(q) ==
    /\ \/ Moves(q, "model", "conv") /\ Saves(q, "assistant")
       \/ Moves(q, "model", "answered") /\ UNCHANGED role
    /\ UNCHANGED attempt /\ SameStores

\* Mutant: one delivery more than the limit.
RedeliveryOnceMore(q) == IF attempt[q] <= MaxTries[q] THEN "idle" ELSE "dead"

Redelivery(q) == IF attempt[q] < MaxTries[q] THEN "idle" ELSE "dead"

\* The agent is gone (getGraphForAgent), the model fails (callModel) or a chunk
\* cannot be published: the query goes back to its queue.
TurnFails(q) ==
    /\ at[q] \in {"build", "model", "answered"}
    /\ at' = [at EXCEPT ![q] = Redelivery(q)]
    /\ UNCHANGED <<attempt, role>> /\ SameStores

Answered(q) ==
    /\ Moves(q, "answered", "done")
    /\ UNCHANGED <<attempt, role>> /\ SameStores

-------------------------------------------------------------------------------
(* DELETE conversations/:id, POST clear-cache/:sessionId, the expiry.      *)

Delete ==
    /\ disturbed < MaxDisturbed /\ row # 0 /\ removal = NoRemoval
    /\ disturbed' = disturbed + 1 /\ whole' = FALSE
    /\ alone' = (alone /\ Quiet)
    /\ removal' = [id |-> row, step |-> "del"]
    /\ UNCHANGED <<tableVars, listVars, at, toPush, turnVars, faulty>>

\* Mutant: the list is left to its expiry.
DeleteListNot ==
    /\ removal.step = "del"
    /\ removal' = [removal EXCEPT !.step = "delete"]
    /\ UNCHANGED <<tableVars, listVars, at, toPush, turnVars, countVars>>

DeleteList ==
    /\ removal.step = "del"
    /\ cache' = <<>> /\ ttl' = FALSE
    /\ removal' = [removal EXCEPT !.step = "delete"]
    /\ UNCHANGED <<tableVars, at, toPush, turnVars, countVars>>

\* The messages go with the row (onDelete: CASCADE).
DeleteRow ==
    /\ removal.step = "delete"
    /\ removal' = NoRemoval
    /\ row' = IF row = removal.id THEN 0 ELSE row
    /\ log' = IF row = removal.id THEN <<>> ELSE log
    /\ UNCHANGED <<lastId, listVars, at, toPush, turnVars, countVars>>

ClearSessionCache ==
    /\ cache # <<>>
    /\ cache' = <<>> /\ ttl' = FALSE
    /\ UNCHANGED <<tableVars, at, toPush, turnVars, removal, countVars>>

ExpireList ==
    /\ ttl
    /\ cache' = <<>> /\ ttl' = FALSE
    /\ UNCHANGED <<tableVars, at, toPush, turnVars, removal, countVars>>

-------------------------------------------------------------------------------
(* Faults                                                                  *)

Spoilt == alone' = FALSE /\ whole' = FALSE /\ faulty' = TRUE
Fault == disturbed < MaxDisturbed /\ disturbed' = disturbed + 1 /\ Spoilt

\* The catch of getHistory answers [].
ReadThrows(q) ==
    /\ Fault /\ at[q] \in Reading
    /\ at' = [at EXCEPT ![q] = "build"]
    /\ toPush' = [toPush EXCEPT ![q] = <<>>]
    /\ UNCHANGED <<tableVars, listVars, turnVars, removal>>

\* The catch of saveMessage logs and goes on.
SaveThrows(q) ==
    /\ Fault /\ at[q] \in Saving
    /\ at' = [at EXCEPT ![q] = AfterSave(q)]
    /\ UNCHANGED <<tableVars, listVars, toPush, turnVars, removal>>

\* RedisService has fallen back: lRange answers [], rPush 0, lTrim "OK" and
\* expire 0, for the lists have no fallback.
FallsBackReading(q) ==
    /\ Fault /\ at[q] \in {"range", "fill", "ttl"}
    /\ \/ Moves(q, "range", "find") /\ UNCHANGED toPush
       \/ Filled(q)
       \/ Moves(q, "ttl", "build") /\ UNCHANGED toPush
    /\ UNCHANGED <<tableVars, listVars, turnVars, removal>>

FallsBackSaving(q) ==
    /\ Fault
    /\ \/ Moves(q, "push", "trim")
       \/ Moves(q, "trim", "renew")
       \/ Moves(q, "renew", AfterSave(q))
    /\ UNCHANGED <<tableVars, listVars, toPush, turnVars, removal>>

\* Either command of a deletion fails, or RedisService has fallen back.
RemovalFails ==
    /\ Spoilt /\ UNCHANGED disturbed
    /\ \/ removal.step # "none" /\ removal' = NoRemoval
       \/ removal.step = "del" /\ removal' = [removal EXCEPT !.step = "delete"]
    /\ UNCHANGED <<tableVars, listVars, at, toPush, turnVars>>

\* A worker dies with the turns qs it runs: the broker delivers them again.
CrashHistory(qs) ==
    /\ Fault /\ qs # {} /\ qs \subseteq Active
    /\ at' = [q \in Asks |-> IF q \in qs THEN Redelivery(q) ELSE at[q]]
    /\ toPush' = [q \in Asks |-> IF q \in qs THEN <<>> ELSE toPush[q]]
    /\ UNCHANGED <<tableVars, listVars, turnVars, removal>>

-------------------------------------------------------------------------------
ReadStep(q) == Start(q) \/ ReadList(q) \/ FindMessages(q) \/ FillNext(q) \/ FillEnds(q)

SaveStep(q) ==
    \/ FindConversation(q) \/ CreateConversation(q) \/ RefindConversation(q)
    \/ InsertMessage(q) \/ SaveConversation(q)
    \/ PushMessage(q) \/ TrimList(q) \/ RenewExpiry(q)

TurnStep(q) == ProcessInput(q) \/ Route(q) \/ CallModel(q) \/ TurnFails(q) \/ Answered(q)

HistoryNext ==
    \/ \E q \in Asks : ReadStep(q) \/ ReadThrows(q) \/ FallsBackReading(q)
    \/ \E q \in Asks : SaveStep(q) \/ TurnStep(q) \/ SaveThrows(q) \/ FallsBackSaving(q)
    \/ \E qs \in SUBSET Asks : CrashHistory(qs)
    \/ Delete \/ DeleteList \/ DeleteRow \/ ClearSessionCache \/ ExpireList \/ RemovalFails

HistorySpec == HistoryInit /\ [][HistoryNext]_historyVars

-------------------------------------------------------------------------------
(* Properties                                                              *)

\* While no two operations on the conversation have overlapped and no command
\* has failed, the list of Redis is the end of the table: the prompt of the
\* next turn (getHistory) holds no message twice, out of order or of a deleted
\* conversation.  Cold fills that overlap are what breaks it.
SequentialSuffix ==
    alone /\ Quiet => IsSuffix(cache, log)

\* The race of two replicas that create the conversation loses no message: with
\* no fault and no deletion, a turn past its saveMessage has its message in the
\* table (docs/redis_adapter_socketio.md, "Problema 3").
NoMessageLostInRace ==
    whole =>
        \A q \in Asks :
            at[q] \in {"route", "model"} \/ (at[q] \in Saving /\ role[q] = "assistant") =>
                [ask |-> q, role |-> "user"] \in Range(log)

\* A history never stays in Redis for good: a list without an expiry has a
\* process on its way to set one, unless a command failed or a worker died.
ExpiryPending ==
    ~faulty /\ cache # <<>> /\ ~ttl =>
        \E q \in Asks : at[q] \in {"fill", "ttl", "trim", "renew"}

===============================================================================
