------------------------------ MODULE Subscriber -------------------------------
(***************************************************************************)
(* packages/messaging: subscribers that consume one RabbitMQ queue, with   *)
(* the concurrency gate of subscriber.ts, its retry and dead-letter        *)
(* publications, the acknowledgements of rabbitmq.service.ts and the       *)
(* topology declared by retry-strategy.ts.                                 *)
(*                                                                         *)
(* A copy is a physical message the broker stores: a token that names the  *)
(* message it carries (body) and its "x-retries" header (tries).  A        *)
(* subscriber replica is one process; a step of a replica is one turn of   *)
(* its event loop (what it does between two awaits on the outside world).  *)
(***************************************************************************)
EXTENDS Integers, Sequences, FiniteSets

CONSTANTS
    Replicas,         \* subscriber processes on the same queue
    Messages,         \* what producers publish, one message id each
    Copies,           \* tokens for the copies the broker stores at one time
    MaxConcurrency,   \* SubscriberOptions.maxConcurrency, 0 when unset
    Prefetch,         \* RABBITMQ_PREFETCH, 0 when unset
    Retrying,         \* replicas whose SubscriberOptions.retry is given
    MaxRetries,       \* RetryConfig.maxRetries
    OperatorRoute,    \* bindings of .retry and .dlx made outside the code
    PublishMayFail,   \* the broker may refuse a publication
    MaxCrashes,       \* bound on process crashes
    None              \* no replica, no message

Queues == {"main", "retry_q", "dlq"}
Exchanges == {"exchange", "retry", "dlx"}

ASSUME SubscriberAssumption ==
    /\ IsFiniteSet(Copies)
    /\ MaxConcurrency \in Nat /\ Prefetch \in Nat
    /\ MaxRetries \in Nat /\ MaxCrashes \in Nat
    /\ Retrying \subseteq Replicas /\ PublishMayFail \in BOOLEAN
    /\ OperatorRoute \in [{"retry", "dlx"} -> Queues \cup {"nowhere"}]
    /\ None \notin Replicas \cup Messages

VARIABLES
    route,         \* broker: the queue each exchange delivers to
    stage,         \* where each copy is
    holder,        \* the replica a copy is unacknowledged at
    body, tries,   \* contents of a copy: message and x-retries
    frames,        \* ack/nack frames sent for the current delivery
    consumer,      \* progress of Subscriber.subscribe in each replica
    activeSlots, pendingSlots,   \* the gate of each replica
    published, accepted, handled, runs, crashes  \* history

brokerVars == <<route, body, tries>>
historyVars == <<published, accepted, handled, runs, crashes>>
vars == <<route, stage, holder, body, tries, frames, consumer,
          activeSlots, pendingSlots, historyVars>>

Slotted == {"running", "retrying", "retried", "burying", "buried"}
Stages == Queues \cup Slotted \cup {"free", "waiting", "acking", "nacking"}

Holding(r) == {c \in Copies : holder[c] = r /\ stage[c] \in Slotted}
Waiting(r) == {c \in Copies : holder[c] = r /\ stage[c] = "waiting"}
InLine(r) == {pendingSlots[r][i] : i \in DOMAIN pendingSlots[r]}
Unacked(r) == {c \in Copies : holder[c] = r}
Live(m) == {c \in Copies : body[c] = m /\ stage[c] # "free"}

TypeOK ==
    /\ route \in [Exchanges -> Queues \cup {"nowhere"}]
    /\ stage \in [Copies -> Stages]
    /\ holder \in [Copies -> Replicas \cup {None}]
    /\ body \in [Copies -> Messages \cup {None}]
    /\ tries \in [Copies -> 0..MaxRetries]
    /\ frames \in [Copies -> Nat]
    /\ consumer \in [Replicas -> {"down", "consuming", "bound"}]
    /\ activeSlots \in [Replicas -> Nat]
    /\ pendingSlots \in [Replicas -> Seq(Copies)]
    /\ published \subseteq Messages /\ accepted \subseteq published
    /\ handled \subseteq accepted
    /\ runs \in [Messages -> Nat] /\ crashes \in 0..MaxCrashes

Init ==
    /\ route = [e \in Exchanges |->
                  IF e = "exchange" THEN "nowhere" ELSE OperatorRoute[e]]
    /\ stage = [c \in Copies |-> "free"]
    /\ holder = [c \in Copies |-> None]
    /\ body = [c \in Copies |-> None]
    /\ tries = [c \in Copies |-> 0]
    /\ frames = [c \in Copies |-> 0]
    /\ consumer = [r \in Replicas |-> "down"]
    /\ activeSlots = [r \in Replicas |-> 0]
    /\ pendingSlots = [r \in Replicas |-> <<>>]
    /\ published = {} /\ accepted = {} /\ handled = {}
    /\ runs = [m \in Messages |-> 0] /\ crashes = 0

--------------------------------------------------------------------------------
(* The broker's side. *)

FreeCopy == CHOOSE c \in Copies : stage[c] = "free"

\* The broker stores a copy of message m with header n in the queue that
\* exchange e delivers to; at an exchange without a binding the message is
\* dropped (no publication sets the mandatory flag).  st is stage after the
\* other effects of the step.
Deposit(e, m, n, st) ==
    IF route[e] = "nowhere"
    THEN stage' = st /\ UNCHANGED <<body, tries>>
    ELSE /\ \E c \in Copies : stage[c] = "free"
         /\ stage' = [st EXCEPT ![FreeCopy] = route[e]]
         /\ body' = [body EXCEPT ![FreeCopy] = m]
         /\ tries' = [tries EXCEPT ![FreeCopy] = n]

\* Publisher.publish of a new message to the subscriber's exchange.
Publish(m) ==
    /\ m \notin published
    /\ Deposit("exchange", m, 0, stage)
    /\ published' = published \cup {m}
    /\ accepted' = IF route["exchange"] = "main"
                   THEN accepted \cup {m} ELSE accepted
    /\ UNCHANGED <<route, holder, frames, consumer, activeSlots, pendingSlots,
                   handled, runs, crashes>>

\* A message of the retry queue outlives x-message-ttl: it is dead-lettered
\* to x-dead-letter-exchange, which is the .dlx exchange.
Expire(c) ==
    /\ stage[c] = "retry_q"
    /\ stage' = [stage EXCEPT ![c] =
                   IF route["dlx"] = "nowhere" THEN "free" ELSE route["dlx"]]
    /\ body' = IF route["dlx"] = "nowhere"
               THEN [body EXCEPT ![c] = None] ELSE body
    /\ tries' = IF route["dlx"] = "nowhere"
                THEN [tries EXCEPT ![c] = 0] ELSE tries
    /\ UNCHANGED <<route, holder, frames, consumer, activeSlots, pendingSlots,
                   historyVars>>

\* An acknowledgement reaches the broker.  The main queue has no dead-letter
\* exchange, so a nack without requeue discards the message like an ack.
BrokerSettles(c) ==
    /\ stage[c] \in {"acking", "nacking"}
    /\ stage' = [stage EXCEPT ![c] = "free"]
    /\ holder' = [holder EXCEPT ![c] = None]
    /\ body' = [body EXCEPT ![c] = None]
    /\ tries' = [tries EXCEPT ![c] = 0]
    /\ frames' = [frames EXCEPT ![c] = 0]
    /\ UNCHANGED <<route, consumer, activeSlots, pendingSlots, historyVars>>

--------------------------------------------------------------------------------
(* Subscriber.subscribe: declarations and consume, then the binding. *)

Consume(r) ==
    /\ consumer[r] = "down"
    /\ consumer' = [consumer EXCEPT ![r] = "consuming"]
    /\ activeSlots' = [activeSlots EXCEPT ![r] = 0]
    /\ pendingSlots' = [pendingSlots EXCEPT ![r] = <<>>]
    /\ UNCHANGED <<route, stage, holder, body, tries, frames, historyVars>>

BindMain(r) ==
    /\ consumer[r] = "consuming"
    /\ consumer' = [consumer EXCEPT ![r] = "bound"]
    /\ route' = [route EXCEPT !["exchange"] = "main"]
    /\ UNCHANGED <<stage, holder, body, tries, frames, activeSlots,
                   pendingSlots, historyVars>>

--------------------------------------------------------------------------------
(* The gate. *)

\* Mutant: one handler too many.
SlotFreeOffByOne(r) == MaxConcurrency = 0 \/ activeSlots[r] <= MaxConcurrency

SlotFree(r) == MaxConcurrency = 0 \/ activeSlots[r] < MaxConcurrency

Count(m) == runs' = [runs EXCEPT ![m] = @ + 1]

\* acquireSlot: take a slot and run the handler, or line up.
AcquireSlot(r, c) ==
    \/ /\ SlotFree(r)
       /\ activeSlots' = [activeSlots EXCEPT ![r] = @ + 1]
       /\ stage' = [stage EXCEPT ![c] = "running"]
       /\ Count(body[c])
       /\ UNCHANGED pendingSlots
    \/ /\ ~SlotFree(r)
       /\ pendingSlots' = [pendingSlots EXCEPT ![r] = Append(@, c)]
       /\ stage' = [stage EXCEPT ![c] = "waiting"]
       /\ UNCHANGED <<activeSlots, runs>>

\* Mutant: releasing does not wake the first waiter.
ReleaseSlotNoWakeup(r, c, s) ==
    /\ activeSlots' = [activeSlots EXCEPT ![r] = @ - 1]
    /\ stage' = [stage EXCEPT ![c] = s]
    /\ UNCHANGED <<pendingSlots, runs>>

\* Mutant: the last waiter is woken (pop instead of shift).
ReleaseSlotPop(r, c, s) ==
    LET line == pendingSlots[r]
    IN  IF line = <<>>
        THEN ReleaseSlotNoWakeup(r, c, s)
        ELSE /\ stage' = [stage EXCEPT ![c] = s, ![line[Len(line)]] = "running"]
             /\ Count(body[line[Len(line)]])
             /\ pendingSlots' = [pendingSlots EXCEPT
                                   ![r] = SubSeq(@, 1, Len(@) - 1)]
             /\ UNCHANGED activeSlots

\* releaseSlot by copy c, whose stage becomes s: the first waiter, if any,
\* takes the slot over and its handler starts.
ReleaseSlot(r, c, s) ==
    \/ /\ pendingSlots[r] = <<>>
       /\ activeSlots' = [activeSlots EXCEPT ![r] = @ - 1]
       /\ stage' = [stage EXCEPT ![c] = s]
       /\ UNCHANGED <<pendingSlots, runs>>
    \/ /\ pendingSlots[r] # <<>>
       /\ LET next == Head(pendingSlots[r])
          IN  /\ stage' = [stage EXCEPT ![c] = s, ![next] = "running"]
              /\ Count(body[next])
       /\ pendingSlots' = [pendingSlots EXCEPT ![r] = Tail(@)]
       /\ activeSlots' = [activeSlots EXCEPT ![r] = (@ - 1) + 1]

\* Acks sent for a delivery whose processing ended well: the handler's own
\* one, which sets __acknowledged, and that of RabbitMqService.subscribe's
\* callback, which looks at the flag.
HandlerAcks(acknowledged) == IF acknowledged THEN 1 ELSE 0
\* Mutant: the service does not look at the flag.
ServiceAcksAlways(acknowledged) == 1

ServiceAcks(acknowledged) == IF acknowledged THEN 0 ELSE 1

Ack(c, acknowledged) ==
    frames' = [frames EXCEPT ![c] =
                 @ + HandlerAcks(acknowledged) + ServiceAcks(acknowledged)]

\* The callback's catch clause.
Nack(c) == frames' = [frames EXCEPT ![c] = @ + 1]

--------------------------------------------------------------------------------
(* The consumer callback. *)

Deliver(r, c) ==
    /\ consumer[r] # "down"
    /\ stage[c] = "main"
    /\ Prefetch = 0 \/ Cardinality(Unacked(r)) < Prefetch
    /\ holder' = [holder EXCEPT ![c] = r]
    /\ AcquireSlot(r, c)
    /\ UNCHANGED <<route, body, tries, frames, consumer, published, accepted,
                   handled, crashes>>

HandlerSucceeds(c) ==
    /\ stage[c] = "running"
    /\ ReleaseSlot(holder[c], c, "acking")
    /\ Ack(c, FALSE)
    /\ handled' = handled \cup {body[c]}
    /\ UNCHANGED <<route, holder, body, tries, consumer, published, accepted,
                   crashes>>

\* Mutant: at the last try the message is acked without being dead-lettered.
HandlerFailsNoDeadLetter(c) ==
    /\ stage[c] = "running" /\ holder[c] \in Retrying
    /\ IF tries[c] < MaxRetries
       THEN /\ stage' = [stage EXCEPT ![c] = "retrying"]
            /\ UNCHANGED <<activeSlots, pendingSlots, runs, frames>>
       ELSE ReleaseSlot(holder[c], c, "acking") /\ Ack(c, FALSE)
    /\ UNCHANGED <<route, holder, body, tries, consumer, published, accepted,
                   handled, crashes>>

\* Mutant: one retry too many.
HandlerFailsOffByOne(c) ==
    /\ stage[c] = "running" /\ holder[c] \in Retrying
    /\ stage' = [stage EXCEPT ![c] =
                   IF tries[c] <= MaxRetries THEN "retrying" ELSE "burying"]
    /\ UNCHANGED <<route, holder, body, tries, frames, consumer, activeSlots,
                   pendingSlots, historyVars>>

\* The handler throws: publish for a retry or to the dead-letter exchange,
\* keeping the slot while the confirmation is awaited ...
HandlerFails(c) ==
    /\ stage[c] = "running" /\ holder[c] \in Retrying
    /\ stage' = [stage EXCEPT ![c] =
                   IF tries[c] < MaxRetries THEN "retrying" ELSE "burying"]
    /\ UNCHANGED <<route, holder, body, tries, frames, consumer, activeSlots,
                   pendingSlots, historyVars>>

\* Mutant: the slot is not released on this path (no finally).
HandlerFailsKeepingSlot(c) ==
    /\ stage[c] = "running" /\ holder[c] \notin Retrying
    /\ stage' = [stage EXCEPT ![c] = "nacking"]
    /\ Nack(c)
    /\ UNCHANGED <<route, holder, body, tries, consumer, activeSlots,
                   pendingSlots, historyVars>>

\* ... or, without a retry configuration, rethrow: the service nacks.
HandlerFailsForGood(c) ==
    /\ stage[c] = "running" /\ holder[c] \notin Retrying
    /\ ReleaseSlot(holder[c], c, "nacking")
    /\ Nack(c)
    /\ UNCHANGED <<route, holder, body, tries, consumer, published, accepted,
                   handled, crashes>>

\* The broker takes the retry publication: x-retries is one higher.
BrokerTakesRetry(c) ==
    /\ stage[c] = "retrying"
    /\ Deposit("retry", body[c], tries[c] + 1,
               [stage EXCEPT ![c] = "retried"])
    /\ UNCHANGED <<route, holder, frames, consumer, activeSlots, pendingSlots,
                   historyVars>>

\* The broker takes the dead-letter publication: the headers are unchanged.
BrokerTakesDead(c) ==
    /\ stage[c] = "burying"
    /\ Deposit("dlx", body[c], tries[c], [stage EXCEPT ![c] = "buried"])
    /\ UNCHANGED <<route, holder, frames, consumer, activeSlots, pendingSlots,
                   historyVars>>

\* Mutant: the original is requeued although its retry has been published.
ConfirmedRequeues(c) ==
    /\ stage[c] \in {"retried", "buried"}
    /\ ReleaseSlot(holder[c], c, "main")
    /\ holder' = [holder EXCEPT ![c] = None]
    /\ UNCHANGED <<route, body, tries, frames, consumer, published, accepted,
                   handled, crashes>>

\* The confirmation arrives: ack the original and release the slot.
Confirmed(c) ==
    /\ stage[c] \in {"retried", "buried"}
    /\ ReleaseSlot(holder[c], c, "acking")
    /\ Ack(c, TRUE)
    /\ UNCHANGED <<route, holder, body, tries, consumer, published, accepted,
                   handled, crashes>>

\* The broker refuses the publication: the error leaves the handler, the slot
\* is released and the service nacks without requeue.
PublishRejected(c) ==
    /\ PublishMayFail
    /\ stage[c] \in {"retrying", "burying"}
    /\ ReleaseSlot(holder[c], c, "nacking")
    /\ Nack(c)
    /\ UNCHANGED <<route, holder, body, tries, consumer, published, accepted,
                   handled, crashes>>

\* The process dies: the broker requeues everything unacknowledged there,
\* what an ack still on the wire was about to settle included.
Crash(r) ==
    /\ consumer[r] # "down" /\ crashes < MaxCrashes
    /\ crashes' = crashes + 1
    /\ consumer' = [consumer EXCEPT ![r] = "down"]
    /\ stage' = [c \in Copies |-> IF holder[c] = r THEN "main" ELSE stage[c]]
    /\ frames' = [c \in Copies |-> IF holder[c] = r THEN 0 ELSE frames[c]]
    /\ holder' = [c \in Copies |-> IF holder[c] = r THEN None ELSE holder[c]]
    /\ activeSlots' = [activeSlots EXCEPT ![r] = 0]
    /\ pendingSlots' = [pendingSlots EXCEPT ![r] = <<>>]
    /\ UNCHANGED <<route, body, tries, published, accepted, handled, runs>>

--------------------------------------------------------------------------------

ReplicaStep(r) == Consume(r) \/ BindMain(r) \/ \E c \in Copies : Deliver(r, c)

CopyStep(c) ==
    \/ Expire(c) \/ BrokerSettles(c)
    \/ HandlerSucceeds(c) \/ HandlerFails(c) \/ HandlerFailsForGood(c)
    \/ BrokerTakesRetry(c) \/ BrokerTakesDead(c)
    \/ Confirmed(c) \/ PublishRejected(c)

Next ==
    \/ \E m \in Messages : Publish(m)
    \/ \E r \in Replicas : ReplicaStep(r) \/ Crash(r)
    \/ \E c \in Copies : CopyStep(c)

Spec == Init /\ [][Next]_vars

\* Processes are restarted, handlers terminate, the broker answers and
\* delivers.  Producers publish and processes crash when they please.
Fairness ==
    /\ \A r \in Replicas : WF_vars(ReplicaStep(r))
    /\ \A c \in Copies : WF_vars(CopyStep(c))

FairSpec == Spec /\ Fairness

--------------------------------------------------------------------------------
(* Properties. *)

\* subscriber.ts:74-98 "caps how many messages are processed in parallel per
\* subscriber instance": the counter says how many copies hold a slot,
\* waiting for a publication's confirmation included, and never passes the cap.
ConcurrencyCap ==
    \A r \in Replicas :
        /\ activeSlots[r] = Cardinality(Holding(r))
        /\ MaxConcurrency # 0 => activeSlots[r] <= MaxConcurrency

\* A delivery waits only while every slot is taken, and is in line exactly
\* once: no release loses a wake-up, no crash leaves a ghost in line.
NoLostWakeup ==
    \A r \in Replicas :
        /\ pendingSlots[r] # <<>> =>
              MaxConcurrency # 0 /\ activeSlots[r] = MaxConcurrency
        /\ \A i, j \in DOMAIN pendingSlots[r] :
              i # j => pendingSlots[r][i] # pendingSlots[r][j]
        /\ InLine(r) = Waiting(r)

\* README.md:17,169: every delivery is acknowledged at most once, whichever
\* of the handler and the service does it, and not before it has been dealt
\* with (a second frame closes the channel with PRECONDITION_FAILED).
SettledOnce ==
    \A c \in Copies :
        frames[c] = IF stage[c] \in {"acking", "nacking"} THEN 1 ELSE 0

\* A message a subscriber's queue accepted is handled in the end or still
\* stored somewhere: a failing handler never makes it vanish.
NoFailedMessageLost == \A m \in accepted : m \in handled \/ Live(m) # {}

\* Every message in the main queue leaves it for good: all its copies end
\* acknowledged or in the dead-letter queue.
EventuallySettled ==
    \A m \in Messages :
        m \in accepted ~> [](\A c \in Live(m) : stage[c] = "dlq")

\* The gates of the replicas implement the abstract ones.
Gate == INSTANCE Semaphore WITH
            Gates <- Replicas, Tasks <- Copies, Limit <- MaxConcurrency,
            inside <- [r \in Replicas |-> Holding(r)], line <- pendingSlots
GateRefined == Gate!GateSpec
================================================================================
