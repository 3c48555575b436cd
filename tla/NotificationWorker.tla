-------------------------- MODULE NotificationWorker ---------------------------
(***************************************************************************)
(* apps/backend-worker-notification: the e-mail consumer, composed with    *)
(* the subscriber it is a handler of.  The handler of a delivery is a      *)
(* sequence of awaits: the idempotency key (RedisService.setNx), then      *)
(* EmailService.sendTemplate.  Every replica reaches the shared Redis or,  *)
(* in fallback, its own memory.  Keys are not modelled to expire (24 h).   *)
(***************************************************************************)
EXTENDS Subscriber

CONSTANTS
    RedisMayFail,     \* a command may fail, before or after it took effect
    SmtpMayFail,      \* a send may fail, before or after the server took it
    MaxFallbacks      \* bound on activations of the fallback

ASSUME WorkerAssumption ==
    RedisMayFail \in BOOLEAN /\ SmtpMayFail \in BOOLEAN /\ MaxFallbacks \in Nat

VARIABLES
    redisKeys,        \* idempotency keys in Redis, by message
    memoryKeys,       \* ... in the FallbackService of each replica
    fallbackActive,   \* RedisService.fallbackActive of each replica
    phase,            \* how far the handler of each copy is
    emails,           \* history: e-mails the SMTP server took
    failed,           \* history: messages one of whose handlers has failed
    fallbacks         \* history: activations of the fallback

storeVars == <<redisKeys, memoryKeys, fallbackActive>>
workerVars == <<storeVars, phase, emails, failed, fallbacks>>
allVars == <<vars, workerVars>>

WorkerTypeOK ==
    /\ TypeOK
    /\ redisKeys \subseteq Messages
    /\ memoryKeys \in [Replicas -> SUBSET Messages]
    /\ fallbackActive \in [Replicas -> BOOLEAN]
    /\ phase \in [Copies -> {"idle", "locked", "duplicate", "sent", "failed"}]
    /\ \A c \in Copies : phase[c] # "idle" => stage[c] = "running"
    /\ emails \in [Messages -> Nat] /\ failed \subseteq Messages
    /\ fallbacks \in 0..MaxFallbacks

WorkerInit ==
    /\ Init
    /\ redisKeys = {} /\ memoryKeys = [r \in Replicas |-> {}]
    /\ fallbackActive = [r \in Replicas |-> FALSE]
    /\ phase = [c \in Copies |-> "idle"]
    /\ emails = [m \in Messages |-> 0] /\ failed = {} /\ fallbacks = 0

--------------------------------------------------------------------------------
(* NotificationProcessorService.process. *)

Goes(c, p) == phase' = [phase EXCEPT ![c] = p]

Starting(c) == stage[c] = "running" /\ phase[c] = "idle"

\* Mutant: the test of the answer is the wrong way round.
AnswerSwapped(c, keys) ==
    Goes(c, IF body[c] \in keys THEN "locked" ELSE "duplicate")

\* The answer of setNx: "OK" on a new key, null on a key that exists.
Answer(c, keys) == Goes(c, IF body[c] \in keys THEN "duplicate" ELSE "locked")

\* Redis answers.
SetNx(c) ==
    /\ Starting(c) /\ ~fallbackActive[holder[c]]
    /\ redisKeys' = redisKeys \cup {body[c]}
    /\ Answer(c, redisKeys)
    /\ UNCHANGED <<vars, memoryKeys, fallbackActive, emails, failed, fallbacks>>

\* Redis fails, with or without having set the key, below the threshold: the
\* error leaves the handler.
SetNxFails(c) ==
    /\ RedisMayFail
    /\ Starting(c) /\ ~fallbackActive[holder[c]]
    /\ redisKeys' \in {redisKeys, redisKeys \cup {body[c]}}
    /\ Goes(c, "failed")
    /\ failed' = failed \cup {body[c]}
    /\ UNCHANGED <<vars, memoryKeys, fallbackActive, emails, fallbacks>>

InMemory(c) ==
    /\ memoryKeys' = [memoryKeys EXCEPT ![holder[c]] = @ \cup {body[c]}]
    /\ Answer(c, memoryKeys[holder[c]])

\* ... at the threshold: the fallback is activated and answers instead.
SetNxFallsBack(c) ==
    /\ RedisMayFail /\ fallbacks < MaxFallbacks
    /\ Starting(c) /\ ~fallbackActive[holder[c]]
    /\ redisKeys' \in {redisKeys, redisKeys \cup {body[c]}}
    /\ fallbackActive' = [fallbackActive EXCEPT ![holder[c]] = TRUE]
    /\ fallbacks' = fallbacks + 1
    /\ InMemory(c)
    /\ UNCHANGED <<vars, emails, failed>>

\* The fallback is active.
SetNxInMemory(c) ==
    /\ Starting(c) /\ fallbackActive[holder[c]]
    /\ InMemory(c)
    /\ UNCHANGED <<vars, redisKeys, fallbackActive, emails, failed, fallbacks>>

Send(c) ==
    /\ phase[c] = "locked"
    /\ emails' = [emails EXCEPT ![body[c]] = @ + 1]
    /\ Goes(c, "sent")
    /\ UNCHANGED <<vars, storeVars, failed, fallbacks>>

\* Mutant: a failed send drops the key, so that the retry can send.
SendFailsUnlocking(c) ==
    /\ SmtpMayFail
    /\ phase[c] = "locked"
    /\ emails' \in {emails, [emails EXCEPT ![body[c]] = @ + 1]}
    /\ redisKeys' = redisKeys \ {body[c]}
    /\ Goes(c, "failed")
    /\ failed' = failed \cup {body[c]}
    /\ UNCHANGED <<vars, memoryKeys, fallbackActive, fallbacks>>

\* sendTemplate throws: an invalid payload, an unknown type or an SMTP error,
\* which may come after the server took the e-mail.  The key stays.
SendFails(c) ==
    /\ SmtpMayFail
    /\ phase[c] = "locked"
    /\ emails' \in {emails, [emails EXCEPT ![body[c]] = @ + 1]}
    /\ Goes(c, "failed")
    /\ failed' = failed \cup {body[c]}
    /\ UNCHANGED <<vars, storeVars, fallbacks>>

--------------------------------------------------------------------------------
(* The consumer's callback around it, within Subscriber's steps. *)

Return(c) ==
    /\ phase[c] \in {"duplicate", "sent"}
    /\ HandlerSucceeds(c)
    /\ Goes(c, "idle")
    /\ UNCHANGED <<storeVars, emails, failed, fallbacks>>

\* "let Subscriber trigger retry/DLQ".
Throw(c) ==
    /\ phase[c] = "failed"
    /\ HandlerFails(c)
    /\ Goes(c, "idle")
    /\ UNCHANGED <<storeVars, emails, failed, fallbacks>>

\* The process starts: RedisService connects, or keeps the fallback active.
StartWorker(r) ==
    /\ Consume(r)
    /\ memoryKeys' = [memoryKeys EXCEPT ![r] = {}]
    /\ \/ /\ fallbackActive' = [fallbackActive EXCEPT ![r] = FALSE]
          /\ UNCHANGED fallbacks
       \/ /\ RedisMayFail /\ fallbacks < MaxFallbacks
          /\ fallbackActive' = [fallbackActive EXCEPT ![r] = TRUE]
          /\ fallbacks' = fallbacks + 1
    /\ UNCHANGED <<redisKeys, phase, emails, failed>>

CrashWorker(r) ==
    /\ Crash(r)
    /\ phase' = [c \in Copies |-> IF holder[c] = r THEN "idle" ELSE phase[c]]
    /\ failed' = failed \cup {body[c] : c \in Unacked(r)}
    /\ UNCHANGED <<storeVars, emails, fallbacks>>

\* What goes on around the handlers.
Elsewhere ==
    /\ \/ \E m \in Messages : Publish(m)
       \/ \E r \in Replicas : BindMain(r) \/ \E c \in Copies : Deliver(r, c)
       \/ \E c \in Copies : \/ Expire(c) \/ BrokerSettles(c)
                            \/ BrokerTakesRetry(c) \/ BrokerTakesDead(c)
                            \/ Confirmed(c) \/ PublishRejected(c)
    /\ UNCHANGED workerVars

HandlerStep(c) ==
    \/ SetNx(c) \/ SetNxFails(c) \/ SetNxFallsBack(c) \/ SetNxInMemory(c)
    \/ Send(c) \/ SendFails(c) \/ Return(c) \/ Throw(c)

WorkerNext ==
    \/ Elsewhere
    \/ \E r \in Replicas : StartWorker(r) \/ CrashWorker(r)
    \/ \E c \in Copies : HandlerStep(c)

WorkerSpec == WorkerInit /\ [][WorkerNext]_allVars

\* Processes start, handlers go on, the broker delivers and answers.
WorkerFairness ==
    /\ \A r \in Replicas :
          WF_allVars(StartWorker(r) \/ (BindMain(r) /\ UNCHANGED workerVars))
    /\ \A r \in Replicas, c \in Copies :
          WF_allVars(Deliver(r, c) /\ UNCHANGED workerVars)
    /\ \A c \in Copies :
          /\ WF_allVars(HandlerStep(c))
          /\ WF_allVars(/\ \/ Expire(c) \/ BrokerSettles(c) \/ Confirmed(c)
                           \/ BrokerTakesRetry(c) \/ BrokerTakesDead(c)
                        /\ UNCHANGED workerVars)

FairWorkerSpec == WorkerSpec /\ WorkerFairness

--------------------------------------------------------------------------------
(* Properties. *)

\* messaging/README.md:41-49: the lock on the message id makes a message sent
\* once although it is delivered again after a crash, a lost answer or a
\* retry; each activation of a fallback forgets the keys once.
EmailsBounded == \A m \in Messages : emails[m] <= 1 + fallbacks

\* Only a failed or interrupted handler can leave a message without its
\* e-mail once all its copies are gone: no duplicate of an unsent message is
\* acknowledged otherwise.
SilentLossNeedsFailure ==
    \A m \in accepted \ failed : emails[m] > 0 \/ Live(m) # {}

\* The worker's README.md:226 and notification.consumer.service.ts:48: a
\* message is sent, dead-lettered or still to be retried.
NoEmailLost == \A m \in accepted : emails[m] > 0 \/ Live(m) # {}
================================================================================
