---------------------------- MODULE MessagingProof -----------------------------
(*****************************************************************************)
(* Theorems about what the workers and their clients do over RabbitMQ.       *)
(* NotificationWorker: the composition implements Subscriber, the            *)
(* idempotency key in Redis makes a message sent at most once, whatever the  *)
(* crashes, retries, lost answers and refusals, and without a failure none   *)
(* is lost in silence.  RabbitConnection: after any number of overlapping    *)
(* calls of connect(), timers and outages the flag means a channel, and      *)
(* there are no more connections than the outages explain.                   *)
(*****************************************************************************)
EXTENDS NotificationWorker, RabbitConnection, SubscriberProof, WellFoundedInduction

-------------------------------------------------------------------------------
(* The worker of the e-mails.                                                *)

\* The worker's handlers take only the steps of a subscriber.
THEOREM WorkerIsSubscriber == WorkerSpec => Spec
<1>1. WorkerInit => Init
  BY DEF WorkerInit
<1>2. [WorkerNext]_allVars => [Next]_vars
  <2>1. SUFFICES ASSUME [WorkerNext]_allVars PROVE [Next]_vars
    OBVIOUS
  <2>2. CASE UNCHANGED allVars
    BY <2>2 DEF allVars
  <2>3. CASE Elsewhere
    BY <2>3 DEF Elsewhere, Next, ReplicaStep, CopyStep
  <2>4. ASSUME NEW r \in Replicas, StartWorker(r) \/ CrashWorker(r) PROVE [Next]_vars
    BY <2>4 DEF StartWorker, CrashWorker, Next, ReplicaStep
  <2>5. ASSUME NEW c \in Copies, HandlerStep(c) PROVE [Next]_vars
    <3>1. CASE Return(c) \/ Throw(c)
      BY <3>1 DEF Return, Throw, Next, CopyStep
    <3>2. CASE ~(Return(c) \/ Throw(c))
      BY <2>5, <3>2 DEF HandlerStep, SetNx, SetNxFails, SetNxFallsBack,
          SetNxInMemory, Send, SendFails
    <3>3. QED BY <3>1, <3>2
  <2>6. QED BY <2>1, <2>2, <2>3, <2>4, <2>5 DEF WorkerNext
<1>3. QED BY <1>1, <1>2, PTL DEF WorkerSpec, Spec

--------------------------------------------------------------------------------
(* At most one e-mail. *)

\* Only a running handler is past its start.
PhaseOK ==
    /\ redisKeys \subseteq Messages
    /\ phase \in [Copies -> {"idle", "locked", "duplicate", "sent", "failed"}]
    /\ emails \in [Messages -> Nat]
    /\ fallbackActive \in [Replicas -> BOOLEAN]
    /\ \A c \in Copies : phase[c] # "idle" => stage[c] = "running"

\* A key is held by at most one handler at a time, and by none once the
\* message has been sent.
Locks ==
    /\ fallbacks = 0 /\ \A r \in Replicas : ~fallbackActive[r]
    /\ \A c \in Copies : phase[c] = "locked" =>
          body[c] \in redisKeys /\ emails[body[c]] = 0
    /\ \A c, d \in Copies :
          phase[c] = "locked" /\ phase[d] = "locked" /\ body[c] = body[d] => c = d
    /\ \A m \in Messages : emails[m] <= 1 /\ (emails[m] > 0 => m \in redisKeys)

WorkerInv == PhaseOK /\ Locks

\* A step in which no handler moves leaves the running copies alone.
LEMMA RunningKept ==
    ASSUME IndInv, Elsewhere, NEW c \in Copies, stage[c] = "running"
    PROVE  stage'[c] = "running" /\ body'[c] = body[c]
<1>1. TypeOK /\ Located
  BY DEF IndInv
<1>2. CASE \E m \in Messages : Publish(m)
  <2>1. stage \in [Copies -> Stages] /\ "exchange" \in Exchanges
    BY <1>1 DEF TypeOK, Exchanges
  <2>2. QED BY <1>2, <2>1, DepositKeeps DEF Publish
<1>3. CASE \E r \in Replicas : BindMain(r)
  BY <1>3 DEF BindMain
<1>4. CASE \E r \in Replicas, d \in Copies : Deliver(r, d)
  BY <1>1, <1>4 DEF Deliver, AcquireSlot, TypeOK
<1>5. ASSUME NEW d \in Copies, Expire(d) \/ BrokerSettles(d)
      PROVE  stage'[c] = "running" /\ body'[c] = body[c]
  BY <1>1, <1>5 DEF Expire, BrokerSettles, TypeOK
<1>6. ASSUME NEW d \in Copies, BrokerTakesRetry(d) \/ BrokerTakesDead(d)
      PROVE  stage'[c] = "running" /\ body'[c] = body[c]
  <2>1. ASSUME NEW e \in {"retry", "dlx"}, NEW n, NEW s \in {"retried", "buried"},
               stage[d] \in {"retrying", "burying"},
               Deposit(e, body[d], n, [stage EXCEPT ![d] = s])
        PROVE  stage'[c] = "running" /\ body'[c] = body[c]
    <3> DEFINE st == [stage EXCEPT ![d] = s]
    <3>1. /\ st \in [Copies -> Stages] /\ e \in Exchanges /\ st[c] = "running"
          /\ \A x \in Copies : stage[x] = "free" => st[x] = "free"
      BY <1>1, <2>1 DEF TypeOK, Stages, Slotted, Exchanges
    <3>2. body[d] \in Messages /\ Deposit(e, body[d], n, st)
      BY <1>1, <2>1 DEF TypeOK, Located
    <3> HIDE DEF st
    <3>3. QED BY <3>1, <3>2, DepositKeeps
  <2>2. QED BY <1>6, <2>1 DEF BrokerTakesRetry, BrokerTakesDead
<1>7. ASSUME NEW d \in Copies, Confirmed(d) \/ PublishRejected(d)
      PROVE  stage'[c] = "running" /\ body'[c] = body[c]
  <2>1. /\ stage[d] \in Slotted /\ d # c /\ holder[d] \in Replicas /\ body' = body
        /\ \E s \in {"acking", "nacking"} : ReleaseSlot(holder[d], d, s)
        /\ UNCHANGED holder
    BY <1>1, <1>7 DEF Confirmed, PublishRejected, Slotted, Located, TypeOK, InFlight
  <2>2. QED BY <2>1, ReleaseGate
<1>8. QED BY <1>2, <1>3, <1>4, <1>5, <1>6, <1>7 DEF Elsewhere

\* The locks are kept by every step when no fallback may be activated.
LEMMA LocksStep ==
    ASSUME MaxFallbacks = 0, IndInv, WorkerInv, [WorkerNext]_allVars
    PROVE  WorkerInv'
<1>1. TypeOK /\ Located
  BY DEF IndInv
<1>2. CASE UNCHANGED allVars
  BY <1>2 DEF allVars, vars, brokerVars, historyVars, workerVars, storeVars,
      WorkerInv, PhaseOK, Locks
<1>3. CASE Elsewhere
  <2>1. UNCHANGED workerVars
    BY <1>3 DEF Elsewhere
  <2>2. \A c \in Copies : phase[c] # "idle" => stage'[c] = "running" /\ body'[c] = body[c]
    BY <1>3, RunningKept DEF WorkerInv, PhaseOK
  <2>3. QED BY <2>1, <2>2 DEF workerVars, storeVars, WorkerInv, PhaseOK, Locks
<1>4. ASSUME NEW r \in Replicas, StartWorker(r) PROVE WorkerInv'
  <2>1. /\ fallbackActive' = [fallbackActive EXCEPT ![r] = FALSE]
        /\ UNCHANGED <<fallbacks, redisKeys, phase, emails, stage, body>>
    BY <1>4 DEF StartWorker, Consume, WorkerInv, Locks
  <2>2. \A x \in Replicas : ~fallbackActive'[x]
    BY <2>1 DEF WorkerInv, PhaseOK, Locks
  <2>3. QED BY <2>1, <2>2 DEF WorkerInv, PhaseOK, Locks
<1>5. ASSUME NEW r \in Replicas, CrashWorker(r) PROVE WorkerInv'
  <2>1. /\ phase' = [c \in Copies |-> IF holder[c] = r THEN "idle" ELSE phase[c]]
        /\ stage' = [c \in Copies |-> IF holder[c] = r THEN "main" ELSE stage[c]]
        /\ UNCHANGED <<fallbacks, fallbackActive, redisKeys, emails, body>>
    BY <1>5 DEF CrashWorker, Crash, storeVars
  <2>2. QED BY <2>1 DEF WorkerInv, PhaseOK, Locks
<1>6. ASSUME NEW c \in Copies, HandlerStep(c) PROVE WorkerInv'
  <2>1. body[c] \in Messages \/ stage[c] = "free"
    BY <1>1 DEF TypeOK, Located
  <2>2. holder[c] \in Replicas \/ stage[c] # "running"
    BY <1>1 DEF TypeOK, Located, InFlight, Slotted
  <2>3. CASE SetNx(c) \/ SetNxFails(c)
    BY <2>1, <2>3 DEF SetNx, SetNxFails, Starting, Answer, Goes, vars,
        WorkerInv, PhaseOK, Locks
  <2>4. CASE SetNxFallsBack(c) \/ SetNxInMemory(c)
    BY <2>2, <2>4 DEF SetNxFallsBack, SetNxInMemory, Starting, WorkerInv, Locks
  <2>5. CASE Send(c) \/ SendFails(c)
    BY <2>1, <2>5 DEF Send, SendFails, Goes, vars, storeVars, WorkerInv, PhaseOK, Locks
  <2>6. CASE Return(c)
    <3>1. /\ ReleaseSlot(holder[c], c, "acking") /\ stage[c] \in Slotted
          /\ UNCHANGED <<holder, body>> /\ holder[c] \in Replicas
      BY <2>2, <2>6 DEF Return, HandlerSucceeds, Slotted
    <3>2. \A d \in Copies \ {c} : stage'[d] = stage[d] \/ stage'[d] = "running"
      BY <3>1, ReleaseGate
    <3>3. /\ phase' = [phase EXCEPT ![c] = "idle"]
          /\ UNCHANGED <<fallbacks, fallbackActive, redisKeys, emails>>
      BY <2>6 DEF Return, Goes, storeVars
    <3>4. QED BY <3>1, <3>2, <3>3 DEF WorkerInv, PhaseOK, Locks
  <2>7. CASE Throw(c)
    <3>1. /\ \E s \in Stages : stage' = [stage EXCEPT ![c] = s]
          /\ phase' = [phase EXCEPT ![c] = "idle"]
          /\ UNCHANGED <<body, fallbacks, fallbackActive, redisKeys, emails>>
      BY <2>7 DEF Throw, HandlerFails, Goes, storeVars, Stages, Slotted
    <3>2. QED BY <1>1, <3>1 DEF WorkerInv, PhaseOK, Locks, TypeOK
  <2>8. QED BY <1>6, <2>3, <2>4, <2>5, <2>6, <2>7 DEF HandlerStep
<1>7. QED BY <1>2, <1>3, <1>4, <1>5, <1>6 DEF WorkerNext

\* messaging/README.md:41-49: while Redis serves, the lock on the message id
\* makes every message sent at most once.
THEOREM AtMostOneEmail == ASSUME MaxFallbacks = 0 PROVE WorkerSpec => []EmailsBounded
<1>1. WorkerInit => WorkerInv
  BY DEF WorkerInit, WorkerInv, PhaseOK, Locks
<1>2. IndInv /\ WorkerInv /\ [WorkerNext]_allVars => WorkerInv'
  BY LocksStep
<1>3. WorkerInv => EmailsBounded
  BY DEF WorkerInv, PhaseOK, Locks, EmailsBounded
<1>4. WorkerSpec => []IndInv
  BY WorkerIsSubscriber, GateAlways, PTL
<1>5. QED BY <1>1, <1>2, <1>3, <1>4, PTL DEF WorkerSpec

--------------------------------------------------------------------------------
(* No message goes without its e-mail in silence. *)

\* The stages of a copy that no handler has given up yet.
Standing == {"main", "waiting", "running"}

\* Somebody has sent m, or is about to.
InHand(m) == emails[m] > 0 \/ \E c \in Copies : body[c] = m /\ phase[c] = "locked"

\* A message none of whose handlers has failed: whoever finds its key finds it
\* in hand, so a duplicate may be acknowledged; and it is sent or stands.
Unfailed(m) ==
    /\ m \in redisKeys \/ (\E r \in Replicas : m \in memoryKeys[r]) => InHand(m)
    /\ \A c \in Copies : body[c] = m =>
          /\ phase[c] = "duplicate" => InHand(m)
          /\ phase[c] = "sent" => emails[m] > 0
          /\ phase[c] # "failed"
    /\ m \in accepted =>
          emails[m] > 0 \/ \E c \in Copies : body[c] = m /\ stage[c] \in Standing

LossInv == WorkerTypeOK /\ \A m \in Messages \ failed : Unfailed(m)

\* The same of a step in which no handler moves: standing copies stand.
LEMMA StandingKept ==
    ASSUME IndInv, Elsewhere, NEW c \in Copies, stage[c] \in Standing
    PROVE  stage'[c] \in Standing /\ body'[c] = body[c]
<1>1. TypeOK /\ Located
  BY DEF IndInv
<1>2. CASE \E m \in Messages : Publish(m)
  <2>1. stage \in [Copies -> Stages] /\ "exchange" \in Exchanges
    BY <1>1 DEF TypeOK, Exchanges
  <2>2. QED BY <1>2, <2>1, DepositKeeps DEF Publish, Standing
<1>3. CASE \E r \in Replicas : BindMain(r)
  BY <1>3 DEF BindMain
<1>4. CASE \E r \in Replicas, d \in Copies : Deliver(r, d)
  BY <1>1, <1>4 DEF Deliver, AcquireSlot, TypeOK, Standing
<1>5. ASSUME NEW d \in Copies, Expire(d) \/ BrokerSettles(d)
      PROVE  stage'[c] \in Standing /\ body'[c] = body[c]
  BY <1>1, <1>5 DEF Expire, BrokerSettles, TypeOK, Standing
<1>6. ASSUME NEW d \in Copies, BrokerTakesRetry(d) \/ BrokerTakesDead(d)
      PROVE  stage'[c] \in Standing /\ body'[c] = body[c]
  <2>1. ASSUME NEW e \in {"retry", "dlx"}, NEW n, NEW s \in {"retried", "buried"},
               stage[d] \in {"retrying", "burying"},
               Deposit(e, body[d], n, [stage EXCEPT ![d] = s])
        PROVE  stage'[c] \in Standing /\ body'[c] = body[c]
    <3> DEFINE st == [stage EXCEPT ![d] = s]
    <3>1. /\ st \in [Copies -> Stages] /\ e \in Exchanges
          /\ st[c] = stage[c] /\ st[c] # "free"
          /\ \A x \in Copies : stage[x] = "free" => st[x] = "free"
      BY <1>1, <2>1 DEF TypeOK, Stages, Slotted, Exchanges, Standing
    <3>2. body[d] \in Messages /\ Deposit(e, body[d], n, st)
      BY <1>1, <2>1 DEF TypeOK, Located
    <3> HIDE DEF st
    <3>3. QED BY <3>1, <3>2, DepositKeeps
  <2>2. QED BY <1>6, <2>1 DEF BrokerTakesRetry, BrokerTakesDead
<1>7. ASSUME NEW d \in Copies, Confirmed(d) \/ PublishRejected(d)
      PROVE  stage'[c] \in Standing /\ body'[c] = body[c]
  <2>1. /\ stage[d] \in Slotted /\ d # c /\ holder[d] \in Replicas /\ body' = body
        /\ \E s \in {"acking", "nacking"} : ReleaseSlot(holder[d], d, s)
        /\ UNCHANGED holder
    BY <1>1, <1>7 DEF Confirmed, PublishRejected, Slotted, Located, TypeOK, InFlight, Standing
  <2>2. \A x \in Copies \ {d} : stage'[x] = stage[x] \/ stage'[x] = "running"
    BY <2>1, ReleaseGate
  <2>3. QED BY <2>1, <2>2 DEF Standing
<1>8. QED BY <1>2, <1>3, <1>4, <1>5, <1>6, <1>7 DEF Elsewhere

\* What handlers have, in a step that moves none of them.
LEMMA InHandKept ==
    ASSUME WorkerTypeOK, emails' = emails, NEW m \in Messages, InHand(m),
           \A c \in Copies : phase[c] = "locked" =>
              phase'[c] = "locked" /\ body'[c] = body[c]
    PROVE  InHand(m)'
BY DEF InHand

\* Steps around the handlers.
LEMMA LossElsewhere ==
    ASSUME IndInv, TypeOK', LossInv, Elsewhere
    PROVE  LossInv'
<1>1. /\ UNCHANGED <<redisKeys, memoryKeys, fallbackActive, phase, emails, failed, fallbacks>>
      /\ WorkerTypeOK
  BY DEF Elsewhere, workerVars, storeVars, LossInv
<1>2. \A c \in Copies : phase[c] # "idle" => stage'[c] = "running" /\ body'[c] = body[c]
  BY <1>1, RunningKept DEF WorkerTypeOK
<1>3. WorkerTypeOK'
  BY <1>1, <1>2 DEF WorkerTypeOK
<1>4. ASSUME NEW m \in Messages \ failed PROVE Unfailed(m)'
  <2>1. Unfailed(m)
    BY DEF LossInv
  <2>2. InHand(m) => InHand(m)'
    BY <1>1, <1>2, InHandKept
  <2>3. m \in accepted' =>
            emails[m] > 0 \/ \E c \in Copies : body'[c] = m /\ stage'[c] \in Standing
    <3>1. CASE m \in accepted
      BY <2>1, <3>1, StandingKept DEF Unfailed
    <3>2. CASE m \notin accepted /\ m \in accepted'
      <4>1. Publish(m) /\ route["exchange"] = "main"
        <5>1. CASE \E x \in Messages : Publish(x)
          BY <3>2, <5>1 DEF Publish
        <5>2. CASE ~\E x \in Messages : Publish(x)
          BY <3>2, <5>2 DEF Elsewhere, BindMain, Deliver, Expire, BrokerSettles,
              BrokerTakesRetry, BrokerTakesDead, Confirmed, PublishRejected, historyVars
        <5>3. QED BY <5>1, <5>2
      <4>2. /\ FreeCopy \in Copies
            /\ stage' = [stage EXCEPT ![FreeCopy] = "main"]
            /\ body' = [body EXCEPT ![FreeCopy] = m]
        BY <4>1, FreeCopyIsFree DEF Publish, Deposit
      <4>3. stage'[FreeCopy] = "main" /\ body'[FreeCopy] = m
        BY <4>2 DEF IndInv, TypeOK
      <4>4. QED BY <4>2, <4>3 DEF Standing
    <3>3. QED BY <3>1, <3>2
  <2>4. QED BY <1>1, <1>2, <2>1, <2>2, <2>3 DEF Unfailed
<1>5. QED BY <1>1, <1>3, <1>4 DEF LossInv

\* A process starts or dies.
LEMMA LossProcess ==
    ASSUME IndInv, TypeOK', LossInv, NEW r \in Replicas, StartWorker(r) \/ CrashWorker(r)
    PROVE  LossInv'
<1>1. CASE StartWorker(r)
  <2>0. fallbacks \in Nat /\ fallbacks <= MaxFallbacks /\ fallbackActive \in [Replicas -> BOOLEAN]
    BY WorkerAssumption DEF LossInv, WorkerTypeOK
  <2>1. /\ UNCHANGED <<redisKeys, phase, emails, failed, stage, body, accepted>>
        /\ memoryKeys' = [memoryKeys EXCEPT ![r] = {}]
    BY <1>1 DEF StartWorker, Consume, historyVars
  <2>5. fallbackActive' \in [Replicas -> BOOLEAN] /\ fallbacks' \in 0..MaxFallbacks
    <3>1. CASE /\ fallbackActive' = [fallbackActive EXCEPT ![r] = FALSE]
               /\ UNCHANGED fallbacks
      BY <2>0, <3>1, WorkerAssumption
    <3>2. CASE /\ fallbacks < MaxFallbacks
               /\ fallbackActive' = [fallbackActive EXCEPT ![r] = TRUE]
               /\ fallbacks' = fallbacks + 1
      BY <2>0, <3>2, WorkerAssumption
    <3>3. QED BY <1>1, <3>1, <3>2 DEF StartWorker
  <2>2. WorkerTypeOK'
    BY <2>1, <2>5 DEF LossInv, WorkerTypeOK
  <2>3. \A q \in Replicas : memoryKeys'[q] \subseteq memoryKeys[q]
    BY <2>1 DEF LossInv, WorkerTypeOK
  <2>4. QED BY <2>1, <2>2, <2>3 DEF LossInv, Unfailed, InHand
<1>2. CASE CrashWorker(r)
  <2>1. /\ UNCHANGED <<redisKeys, memoryKeys, fallbackActive, fallbacks, emails, body, accepted>>
        /\ phase' = [c \in Copies |-> IF holder[c] = r THEN "idle" ELSE phase[c]]
        /\ stage' = [c \in Copies |-> IF holder[c] = r THEN "main" ELSE stage[c]]
        /\ failed' = failed \cup {body[c] : c \in Unacked(r)}
    BY <1>2 DEF CrashWorker, Crash, storeVars
  <2>2. {body[c] : c \in Unacked(r)} \subseteq Messages
    <3>1. \A c \in Unacked(r) : c \in Copies /\ holder[c] # None
      BY SubscriberAssumption DEF Unacked
    <3>2. \A c \in Unacked(r) : body[c] \in accepted
      BY <3>1 DEF IndInv, Located, InFlight, Slotted
    <3>3. accepted \subseteq Messages
      BY DEF IndInv, TypeOK
    <3>4. QED BY <3>2, <3>3
  <2>3. WorkerTypeOK'
    BY <2>1, <2>2 DEF LossInv, WorkerTypeOK
  <2>4. ASSUME NEW m \in Messages \ failed' PROVE Unfailed(m)'
    <3>1. Unfailed(m) /\ m \notin failed
      BY <2>1 DEF LossInv
    <3>2. \A c \in Copies : body[c] = m => phase'[c] = phase[c] /\ stage'[c] = stage[c]
      BY <2>1 DEF Unacked
    <3>3. QED BY <2>1, <3>1, <3>2 DEF Unfailed, InHand
  <2>5. QED BY <2>3, <2>4 DEF LossInv
<1>3. QED BY <1>1, <1>2

\* A key is set, or an e-mail sent.  The handler moved is that of c.
LEMMA LossHandler ==
    ASSUME IndInv, TypeOK', LossInv, NEW c \in Copies,
           \/ SetNx(c) \/ SetNxFails(c) \/ SetNxFallsBack(c) \/ SetNxInMemory(c)
           \/ Send(c) \/ SendFails(c)
    PROVE  LossInv'
<1>1. /\ UNCHANGED vars /\ stage[c] = "running"
      /\ DOMAIN phase = Copies /\ \E p : phase' = [phase EXCEPT ![c] = p]
  BY DEF SetNx, SetNxFails, SetNxFallsBack, SetNxInMemory, Send, SendFails, Starting,
      InMemory, Answer, Goes, LossInv, WorkerTypeOK
<1>2. /\ body[c] \in Messages /\ holder[c] \in Replicas
      /\ UNCHANGED <<stage, body, accepted>>
  BY <1>1, SubscriberAssumption
     DEF IndInv, TypeOK, Located, InFlight, Slotted, vars, historyVars
<1>3. WorkerTypeOK
  BY DEF LossInv
<1> DEFINE m == body[c]
\* Sent: everybody who finds the key may acknowledge.
<1>4. CASE Send(c)
  <2>1. /\ emails' = [emails EXCEPT ![m] = @ + 1] /\ phase' = [phase EXCEPT ![c] = "sent"]
        /\ UNCHANGED <<redisKeys, memoryKeys, fallbackActive, failed, fallbacks>>
    BY <1>4 DEF Send, Goes, storeVars
  <2>2. WorkerTypeOK'
    BY <1>1, <1>2, <1>3, <2>1 DEF WorkerTypeOK
  <2>3. emails'[m] > 0 /\ \A x \in Messages : emails[x] > 0 => emails'[x] > 0
    BY <1>2, <1>3, <2>1 DEF WorkerTypeOK
  <2>4. \A x \in Messages : InHand(x) => InHand(x)'
    BY <1>1, <1>2, <2>1, <2>3 DEF InHand
  <2>5. ASSUME NEW x \in Messages \ failed PROVE Unfailed(x)'
    BY <1>1, <1>2, <2>1, <2>3, <2>4 DEF LossInv, Unfailed
  <2>6. QED BY <2>1, <2>2, <2>5 DEF LossInv
\* Failed: of m nothing more is promised, and the others keep what they have.
<1>5. CASE SetNxFails(c) \/ SendFails(c)
  <2>1. /\ redisKeys' \in {redisKeys, redisKeys \cup {m}}
        /\ emails' \in {emails, [emails EXCEPT ![m] = @ + 1]}
        /\ phase' = [phase EXCEPT ![c] = "failed"] /\ failed' = failed \cup {m}
        /\ UNCHANGED <<memoryKeys, fallbackActive, fallbacks>>
    BY <1>5 DEF SetNxFails, SendFails, Goes, storeVars
  <2>2. WorkerTypeOK'
    BY <1>1, <1>2, <1>3, <2>1 DEF WorkerTypeOK
  <2>3. \A x \in Messages \ {m} : emails'[x] = emails[x]
    BY <1>3, <2>1 DEF WorkerTypeOK
  <2>4. \A x \in Messages \ {m} : InHand(x) => InHand(x)'
    BY <1>1, <1>2, <2>1, <2>3 DEF InHand
  <2>5. ASSUME NEW x \in Messages \ failed' PROVE Unfailed(x)'
    BY <1>1, <1>2, <2>1, <2>3, <2>4 DEF LossInv, Unfailed
  <2>6. QED BY <2>2, <2>5 DEF LossInv
\* A key: who sets it sends next.
<1>6. CASE SetNx(c) \/ SetNxFallsBack(c) \/ SetNxInMemory(c)
  <2>1. PICK keys : /\ keys = redisKeys \/ \E r \in Replicas : keys = memoryKeys[r]
                    /\ phase' = [phase EXCEPT ![c] = IF m \in keys THEN "duplicate" ELSE "locked"]
    BY <1>2, <1>6 DEF SetNx, SetNxFallsBack, SetNxInMemory, InMemory, Answer, Goes
  <2>2. UNCHANGED <<emails, failed>> /\ phase[c] = "idle"
    BY <1>6 DEF SetNx, SetNxFallsBack, SetNxInMemory, Starting
  <2>3. redisKeys' \in {redisKeys, redisKeys \cup {m}}
    BY <1>6 DEF SetNx, SetNxFallsBack, SetNxInMemory
  <2>4. memoryKeys' \in {memoryKeys, [memoryKeys EXCEPT ![holder[c]] = @ \cup {m}]}
    BY <1>6 DEF SetNx, SetNxFallsBack, SetNxInMemory, InMemory
  <2>5. fallbackActive' \in {fallbackActive, [fallbackActive EXCEPT ![holder[c]] = TRUE]}
    BY <1>6 DEF SetNx, SetNxFallsBack, SetNxInMemory
  <2>6. fallbacks' \in 0..MaxFallbacks
    <3>1. fallbacks \in Nat /\ fallbacks <= MaxFallbacks
      BY <1>3, WorkerAssumption DEF WorkerTypeOK
    <3>2. CASE SetNx(c) \/ SetNxInMemory(c)
      BY <1>3, <3>2 DEF SetNx, SetNxInMemory, WorkerTypeOK
    <3>3. CASE SetNxFallsBack(c)
      BY <3>1, <3>3, WorkerAssumption DEF SetNxFallsBack
    <3>4. QED BY <1>6, <3>2, <3>3
  <2>0. phase' \in {[phase EXCEPT ![c] = "duplicate"], [phase EXCEPT ![c] = "locked"]}
    BY <2>1
  <2>7. WorkerTypeOK'
    <3>1. redisKeys' \subseteq Messages /\ memoryKeys' \in [Replicas -> SUBSET Messages]
      BY <1>2, <1>3, <2>3, <2>4 DEF WorkerTypeOK
    <3>2. fallbackActive' \in [Replicas -> BOOLEAN]
      BY <1>2, <1>3, <2>5 DEF WorkerTypeOK
    <3>3. /\ phase' \in [Copies -> {"idle", "locked", "duplicate", "sent", "failed"}]
          /\ \A d \in Copies : phase'[d] # "idle" => stage[d] = "running"
      BY <1>1, <1>3, <2>0 DEF WorkerTypeOK
    <3>4. QED BY <1>2, <1>3, <2>2, <2>6, <3>1, <3>2, <3>3 DEF WorkerTypeOK
  <2>8. \A x \in Messages : InHand(x) => InHand(x)'
    BY <1>1, <1>2, <2>1, <2>2 DEF InHand
  <2>9. ASSUME NEW x \in Messages \ failed, x = m PROVE InHand(x)'
    <3>1. CASE m \in keys
      BY <1>2, <2>1, <2>8, <2>9, <3>1 DEF LossInv, Unfailed
    <3>2. CASE m \notin keys
      BY <1>1, <1>2, <2>1, <2>9, <3>2 DEF InHand
    <3>3. QED BY <3>1, <3>2
  <2>10. \A x \in Messages \ {m} :
            x \in redisKeys' \/ (\E r \in Replicas : x \in memoryKeys'[r]) =>
               x \in redisKeys \/ (\E r \in Replicas : x \in memoryKeys[r])
    BY <1>3, <2>3, <2>4 DEF WorkerTypeOK
  <2>11. ASSUME NEW x \in Messages \ failed PROVE Unfailed(x)'
    <3>1. Unfailed(x)
      BY DEF LossInv
    <3>2. x \in redisKeys' \/ (\E r \in Replicas : x \in memoryKeys'[r]) => InHand(x)'
      <4>1. CASE x = m
        BY <2>9, <4>1
      <4>2. CASE x # m
        BY <2>8, <2>10, <3>1, <4>2 DEF Unfailed
      <4>3. QED BY <4>1, <4>2
    <3>3. \A d \in Copies \ {c} : phase'[d] = phase[d]
      BY <1>1
    <3>4. phase'[c] \in {"duplicate", "locked"} /\ (body[c] = x => InHand(x)')
      BY <1>1, <2>0, <2>9
    <3>5. QED BY <1>2, <2>2, <2>8, <3>1, <3>2, <3>3, <3>4 DEF Unfailed
  <2>12. QED BY <2>2, <2>7, <2>11 DEF LossInv
<1>7. QED BY <1>4, <1>5, <1>6

\* The handler of c ends.
LEMMA LossEnd ==
    ASSUME IndInv, TypeOK', LossInv, NEW c \in Copies, Return(c) \/ Throw(c)
    PROVE  LossInv'
<1>1. /\ phase' = [phase EXCEPT ![c] = "idle"] /\ DOMAIN phase = Copies
      /\ UNCHANGED <<redisKeys, memoryKeys, fallbackActive, emails, failed, fallbacks>>
      /\ UNCHANGED <<body, accepted>> /\ stage[c] = "running"
  BY DEF Return, Throw, HandlerSucceeds, HandlerFails, Goes, storeVars, historyVars,
      LossInv, WorkerTypeOK
<1>2. body[c] \in Messages /\ holder[c] \in Replicas
  BY <1>1, SubscriberAssumption DEF IndInv, TypeOK, Located, InFlight, Slotted
<1>3. \A d \in Copies \ {c} : stage'[d] = stage[d] \/ stage'[d] = "running"
  <2>1. CASE Return(c)
    <3>1. ReleaseSlot(holder[c], c, "acking") /\ UNCHANGED holder
      BY <2>1 DEF Return, HandlerSucceeds
    <3>2. QED BY <1>1, <1>2, <3>1, ReleaseGate DEF Slotted
  <2>2. CASE Throw(c)
    <3>1. \E s : stage' = [stage EXCEPT ![c] = s]
      BY <2>2 DEF Throw, HandlerFails
    <3>2. QED BY <3>1 DEF IndInv, TypeOK
  <2>3. QED BY <2>1, <2>2
<1>4. WorkerTypeOK'
  BY <1>1, <1>3 DEF LossInv, WorkerTypeOK
<1>5. phase[c] \in {"duplicate", "sent", "failed"}
  BY DEF Return, Throw
<1>6. ASSUME NEW m \in Messages \ failed PROVE Unfailed(m)'
  <2>1. Unfailed(m)
    BY DEF LossInv
  <2>2. InHand(m) => InHand(m)'
    BY <1>1, <1>5 DEF InHand
  <2>3. ASSUME m \in accepted, ~(emails[m] > 0)
        PROVE  \E d \in Copies : body[d] = m /\ stage'[d] \in Standing
    <3>1. CASE body[c] = m
      <4>1. InHand(m)
        BY <1>5, <2>1, <2>3, <3>1 DEF Unfailed
      <4>2. PICK d \in Copies : body[d] = m /\ phase[d] = "locked"
        BY <2>3, <4>1 DEF InHand
      <4>3. d # c /\ stage[d] = "running"
        BY <1>5, <4>2 DEF LossInv, WorkerTypeOK
      <4>4. QED BY <1>3, <4>2, <4>3 DEF Standing
    <3>2. CASE body[c] # m
      BY <1>3, <2>1, <2>3, <3>2 DEF Unfailed, Standing
    <3>3. QED BY <3>1, <3>2
  <2>4. QED BY <1>1, <2>1, <2>2, <2>3 DEF Unfailed
<1>7. QED BY <1>1, <1>4, <1>6 DEF LossInv

\* Every step keeps the messages without a failure sent, or in hand.
LEMMA LossStep ==
    ASSUME IndInv, IndInv', LossInv, [WorkerNext]_allVars
    PROVE  LossInv'
<1>1. TypeOK'
  BY DEF IndInv
<1>2. CASE UNCHANGED allVars
  BY <1>2 DEF allVars, vars, historyVars, workerVars, storeVars,
      LossInv, WorkerTypeOK, TypeOK, Unfailed, InHand
<1>3. CASE WorkerNext
  BY <1>1, <1>3, LossElsewhere, LossProcess, LossHandler, LossEnd DEF WorkerNext, HandlerStep
<1>4. QED BY <1>2, <1>3

\* ... so they are for ever.
LEMMA LossAlways == WorkerSpec => []LossInv
<1>1. WorkerInit /\ IndInv => LossInv
  BY WorkerAssumption DEF WorkerInit, Init, IndInv, LossInv, WorkerTypeOK, Unfailed
<1>2. IndInv /\ IndInv' /\ LossInv /\ [WorkerNext]_allVars => LossInv'
  BY LossStep
<1>3. WorkerSpec => []IndInv
  BY WorkerIsSubscriber, GateAlways, PTL
<1>4. QED BY <1>1, <1>2, <1>3, PTL DEF WorkerSpec

\* Locks, phases and e-mails have their types, and only the handler of a
\* running copy is past its start.
THEOREM WorkerTypeCorrect == WorkerSpec => []WorkerTypeOK
BY LossAlways, PTL DEF LossInv

\* No message goes silently: whatever keys crashes, lost answers and fallbacks
\* leave behind, a duplicate is acknowledged only while the message is sent,
\* is in the hands of another handler or has failed once.
THEOREM SilentLossHolds == WorkerSpec => []SilentLossNeedsFailure
<1>1. LossInv => SilentLossNeedsFailure
  <2>1. LossInv => accepted \subseteq Messages
    BY DEF LossInv, WorkerTypeOK, TypeOK
  <2>2. QED BY <2>1 DEF LossInv, Unfailed, SilentLossNeedsFailure, Live, Standing
<1>2. QED BY <1>1, LossAlways, PTL

-------------------------------------------------------------------------------
(* The connection.                                                           *)

\* Until a connection is lost there is one, or one attempt at one.
Single ==
    outages = 0 =>
        /\ cut = {} /\ dialing + timers <= 1
        /\ \A j, k \in Up : j = k
        /\ Up # {} => dialing = 0 /\ timers = 0

\* After one outage the calls that wait for their prefetch began after it: the
\* channel field names their channel or a later one.
Fieldset ==
    outages <= 1 /\ (\E k \in Up \ cut : connPhase[k] \in {"qos", "open"}) => channel \in Up \ cut

NoQos == ~HasPrefetch => \A k \in Conns : connPhase[k] # "qos"

ConnectionInv == ConnectionTypeOK /\ Single /\ Fieldset /\ NoQos /\ ConnectedMeansUsable

\* What the connections and attempts can come to when every loss is noticed:
\* a connection that is cut may leave three timers.
Weight == Cardinality(Up \ cut) + 3 * Cardinality(cut) + dialing + timers

--------------------------------------------------------------------------------

\* At first one call dials.
LEMMA ConnectionInitially ==
    ConnectionInit => ConnectionInv
<1> SUFFICES ASSUME ConnectionInit PROVE ConnectionInv
  OBVIOUS
<1>1. /\ Up = {} /\ cut = {} /\ connected = FALSE /\ dialing = 1 /\ timers = 0
      /\ \A k \in Conns : connPhase[k] = "free"
  BY DEF ConnectionInit, Up
<1>2. ConnectionTypeOK
  <2>1. /\ connPhase \in [Conns -> {"free", "creating", "qos", "open"}] /\ consumers \in [Conns -> Nat]
        /\ conn = NoConn /\ channel = NoConn /\ broker \in {"up", "down"} /\ sub = "boot"
    BY DEF ConnectionInit
  <2>2. outages \in 0..MaxOutages /\ polls \in 0..MaxPolls /\ subscribing \in Nat
    BY ConnectionAssumption DEF ConnectionInit, ConnectionAssumption
  <2> QED BY <1>1, <2>1, <2>2 DEF ConnectionTypeOK
<1> QED BY <1>1, <1>2 DEF ConnectionInv, Single, Fieldset, NoQos, ConnectedMeansUsable

\* Every step keeps the types.
LEMMA TypeStep ==
    ASSUME ConnectionTypeOK, [ConnectionNext]_connectionVars
    PROVE  ConnectionTypeOK'
<1> USE DEF ConnectionTypeOK, svcVars, subVars
<1>0. MaxOutages \in Nat /\ MaxPolls \in Nat
  BY ConnectionAssumption DEF ConnectionAssumption
<1>u. connPhase' = connPhase => Up' = Up
  BY DEF Up
<1>1. CASE TimerFires
  BY <1>u, <1>1 DEF TimerFires
<1>2. CASE DialSucceeds
  <2>1. PICK k \in FreeConns : conn' = k /\ connPhase' = [connPhase EXCEPT ![k] = "creating"]
    BY <1>2 DEF DialSucceeds
  <2>2. k \in Conns
    BY DEF FreeConns
  <2>3. connPhase' \in [Conns -> {"free", "creating", "qos", "open"}] /\ cut \subseteq Up'
    BY <2>1, <2>2 DEF Up
  <2> QED BY <1>2, <2>1, <2>2, <2>3 DEF DialSucceeds
<1>3. CASE DialFails
  <2>1. dialing' \in Nat /\ timers' \in Nat
    BY <1>3 DEF DialFails
  <2>2. sub' \in {"boot", "waiting", "polling", "done"}
    BY <1>3 DEF DialFails, Booted
  <2> QED BY <1>u, <1>3, <2>1, <2>2 DEF DialFails
<1>4. ASSUME NEW k \in Conns, ChannelCreated(k) PROVE ConnectionTypeOK'
  <2>1. connPhase' \in [Conns -> {"free", "creating", "qos", "open"}] /\ Up' = Up
    BY <1>4 DEF ChannelCreated, Up
  <2> QED BY <1>4, <2>1 DEF ChannelCreated, Booted
<1>5. ASSUME NEW k \in Conns, PrefetchSet(k) PROVE ConnectionTypeOK'
  <2>1. connPhase' \in [Conns -> {"free", "creating", "qos", "open"}] /\ Up' = Up
    BY <1>5 DEF PrefetchSet, Up
  <2> QED BY <1>5, <2>1 DEF PrefetchSet, Booted
<1>6. ASSUME NEW k \in Conns, Lost(k) PROVE ConnectionTypeOK'
  <2>1. timers' \in Nat
    BY <1>6 DEF Lost
  <2>2. connPhase' \in [Conns -> {"free", "creating", "qos", "open"}] /\ cut' \subseteq Up'
    BY <1>6 DEF Lost, Up
  <2> QED BY <1>6, <2>1, <2>2 DEF Lost, Booted
<1>7. CASE Subscribing
  <2>1. CASE SubscribeFails
    <3>1. UNCHANGED <<broker, outages>> /\ cut' \subseteq Up'
      BY <2>1 DEF SubscribeFails, Fresh
    <3>2. 0 \in 0..MaxPolls
      BY <1>0
    <3> QED BY <2>1, <3>1, <3>2 DEF SubscribeFails, Fresh
  <2>2. CASE Subscribes
    <3>1. subscribing' \in Nat
      BY <2>2 DEF Subscribes
    <3>2. consumers' \in [Conns -> Nat]
      <4>1. consumers' = [consumers EXCEPT ![channel] = consumers[channel] + 1]
        BY <2>2 DEF Subscribes
      <4>2. CASE channel \in Conns
        <5>1. consumers[channel] + 1 \in Nat
          BY <4>2
        <5> QED BY <4>1, <4>2, <5>1
      <4>3. CASE channel \notin Conns
        BY <4>1, <4>3
      <4> QED BY <4>2, <4>3
    <3> QED BY <1>u, <2>2, <3>1, <3>2 DEF Subscribes
  <2>3. CASE WaitEnds \/ WaitExpires \/ PollStarts \/ PollExpires \/ PollEnds
    BY <1>0, <1>u, <2>3 DEF WaitEnds, WaitExpires, PollStarts, PollExpires, PollEnds
  <2> QED BY <1>7, <2>1, <2>2, <2>3 DEF Subscribing
<1>8. CASE Outage
  BY <1>0, <1>u, <1>8 DEF Outage
<1>9. CASE BrokerReturns
  BY <1>u, <1>9 DEF BrokerReturns
<1>10. CASE UNCHANGED connectionVars
  BY <1>u, <1>10 DEF connectionVars
<1> QED BY <1>1, <1>2, <1>3, <1>4, <1>5, <1>6, <1>7, <1>8, <1>9, <1>10 DEF ConnectionNext, Connecting

\* A subscription leaves the connections alone, or starts a call of connect().
LEMMA SubscribingKeeps ==
    ASSUME Subscribing
    PROVE  \/ UNCHANGED <<broker, outages, connPhase, cut, conn, channel, connected, dialing, timers>>
           \/ Fresh /\ UNCHANGED <<broker, outages>>
  BY DEF Subscribing, WaitEnds, WaitExpires, PollStarts, PollExpires, PollEnds, Subscribes, SubscribeFails,
         svcVars

\* Every step keeps the flag true to the channel.
LEMMA ConnectionStep ==
    ConnectionInv /\ [ConnectionNext]_connectionVars => ConnectionInv'
<1> SUFFICES ASSUME ConnectionInv, [ConnectionNext]_connectionVars PROVE ConnectionInv'
  OBVIOUS
<1> DEFINE Rest == Single /\ Fieldset /\ NoQos /\ ConnectedMeansUsable
<1>0. ConnectionTypeOK /\ Rest /\ HasPrefetch \in BOOLEAN /\ NoConn \notin Conns
  BY ConnectionAssumption DEF ConnectionInv, ConnectionAssumption
<1>a. ConnectionTypeOK'
  BY <1>0, TypeStep
<1> USE DEF ConnectionTypeOK, Single, Fieldset, NoQos, ConnectedMeansUsable, Up
<1>1. ASSUME TimerFires PROVE Rest'
  BY <1>0, <1>1 DEF TimerFires, svcVars
<1>2. ASSUME DialSucceeds PROVE Rest'
  <2>1. PICK k \in FreeConns : connPhase' = [connPhase EXCEPT ![k] = "creating"]
    BY <1>2 DEF DialSucceeds
  <2>2. /\ dialing > 0 /\ dialing' = dialing - 1 /\ Up' = Up \cup {k} /\ k \notin Up /\ k \in Conns
        /\ UNCHANGED <<broker, outages, cut, channel, connected, timers>>
    BY <1>0, <1>2, <2>1 DEF DialSucceeds, FreeConns
  <2>3. Single'
    BY <1>0, <2>2
  <2>4. \A j \in Up : connPhase'[j] = connPhase[j]
    BY <1>0, <2>1, <2>2
  <2>5. Fieldset'
    BY <1>0, <2>1, <2>2, <2>4
  <2>6. NoQos' /\ ConnectedMeansUsable'
    BY <1>0, <2>1, <2>2, <2>4
  <2> QED BY <2>3, <2>5, <2>6
<1>3. ASSUME DialFails PROVE Rest'
  BY <1>0, <1>3 DEF DialFails
<1>4. ASSUME NEW k \in Conns, ChannelCreated(k) PROVE Rest'
  <2>1. /\ connPhase[k] = "creating" /\ k \notin cut /\ channel' = k /\ Up' = Up
        /\ UNCHANGED <<outages, cut, dialing, timers>>
        /\ HasPrefetch => connected' = connected
    BY <1>0, <1>4 DEF ChannelCreated
  <2>2. ~HasPrefetch => \A j \in Conns : connPhase'[j] # "qos"
    BY <1>0, <1>4 DEF ChannelCreated
  <2> QED BY <1>0, <2>1, <2>2
<1>5. ASSUME NEW k \in Conns, PrefetchSet(k) PROVE Rest'
  <2>1. /\ connPhase[k] = "qos" /\ k \notin cut /\ Up' = Up /\ connPhase' = [connPhase EXCEPT ![k] = "open"]
        /\ UNCHANGED <<outages, cut, channel, dialing, timers>> /\ HasPrefetch
    BY <1>0, <1>5 DEF PrefetchSet
  <2>2. outages <= 1 => channel \in Up \ cut
    BY <1>0, <2>1
  <2> QED BY <1>0, <2>1, <2>2
<1>6. ASSUME NEW k \in Conns, Lost(k) PROVE Rest'
  <2>1. /\ k \in cut /\ connected' = FALSE /\ connPhase' = [connPhase EXCEPT ![k] = "free"]
        /\ cut' = cut \ {k} /\ UNCHANGED <<outages, channel>>
    BY <1>6 DEF Lost
  <2>2. Up' = Up \ {k} /\ Up' \ cut' = Up \ cut /\ outages # 0
    BY <1>0, <2>1
  <2> QED BY <1>0, <2>1, <2>2
<1>7. ASSUME Subscribing PROVE Rest'
  <2>1. CASE UNCHANGED <<broker, outages, connPhase, cut, conn, channel, connected, dialing, timers>>
    BY <1>0, <2>1
  <2>2. CASE Fresh /\ UNCHANGED <<broker, outages>>
    <3>1. /\ Up' = {} /\ cut' = {} /\ connected' = FALSE /\ dialing' = 1 /\ timers' = 0
          /\ \A k \in Conns : connPhase'[k] = "free"
      BY <2>2 DEF Fresh
    <3> QED BY <3>1
  <2> QED BY <1>7, <2>1, <2>2, SubscribingKeeps
<1>8. ASSUME Outage PROVE Rest'
  <2>1. PICK lost \in (SUBSET (Up \ cut)) \ {{}} : cut' = cut \cup lost
    BY <1>8 DEF Outage
  <2>2. outages' = outages + 1 /\ UNCHANGED <<connPhase, channel, connected, dialing, timers>>
    BY <1>8 DEF Outage, svcVars
  <2>3. outages' = 1 => Up' \ cut' = {}
    BY <1>0, <2>1, <2>2
  <2>4. outages' # 0 /\ Up' = Up /\ (outages' <= 1 => outages' = 1 /\ outages <= 1)
    BY <1>0, <2>2
  <2> QED BY <1>0, <2>2, <2>3, <2>4
<1>9. ASSUME BrokerReturns PROVE Rest'
  BY <1>0, <1>9 DEF BrokerReturns, svcVars
<1>10. ASSUME UNCHANGED connectionVars PROVE Rest'
  BY <1>0, <1>10 DEF connectionVars, svcVars
<1>11. Rest'
  BY <1>1, <1>2, <1>3, <1>4, <1>5, <1>6, <1>7, <1>8, <1>9, <1>10 DEF ConnectionNext, Connecting
<1> QED BY <1>a, <1>11 DEF ConnectionInv

\* The service's fields and its subscriber's counters keep their types.
THEOREM ConnectionTypeCorrect ==
    ConnectionSpec => []ConnectionTypeOK
<1>1. ConnectionInv => ConnectionTypeOK
  BY DEF ConnectionInv
<1> QED BY <1>1, ConnectionInitially, ConnectionStep, PTL DEF ConnectionSpec

\* A flag that is set means a channel (rabbitmq.service.ts:64): for any number
\* of outages without a prefetch, up to the second one with it.
THEOREM ConnectedUsableHolds ==
    ConnectionSpec => []ConnectedMeansUsable
<1>1. ConnectionInv => ConnectedMeansUsable
  BY DEF ConnectionInv
<1> QED BY <1>1, ConnectionInitially, ConnectionStep, PTL DEF ConnectionSpec

--------------------------------------------------------------------------------
(* Connections, attempts and timers. *)

\* What is up is what is cut and what is not.
LEMMA Counted ==
    ASSUME NEW U \in SUBSET Conns, NEW C \in SUBSET U
    PROVE  /\ IsFiniteSet(U) /\ IsFiniteSet(C) /\ IsFiniteSet(U \ C)
           /\ Cardinality(U \ C) \in Nat /\ Cardinality(C) \in Nat /\ Cardinality(U) \in Nat
           /\ Cardinality(U) = Cardinality(U \ C) + Cardinality(C)
<1>1. IsFiniteSet(Conns)
  BY ConnectionAssumption DEF ConnectionAssumption
<1>2. IsFiniteSet(U) /\ IsFiniteSet(C)
  <2>1. C \subseteq Conns
    OBVIOUS
  <2> QED BY <1>1, <2>1, FS_Subset
<1>3. IsFiniteSet(U \ C) /\ Cardinality(U \ C) = Cardinality(U) - Cardinality(U \cap C)
  BY <1>2, FS_Difference
<1>4. Cardinality(U) \in Nat /\ Cardinality(U \ C) \in Nat /\ Cardinality(C) \in Nat
  BY <1>2, <1>3, FS_CardinalityType
<1>5. U \cap C = C
  OBVIOUS
<1> QED BY <1>2, <1>3, <1>4, <1>5

\* Fewer attempts weigh less, and a cut connection outweighs the timers it
\* leaves.
LEMMA Lighter ==
    ASSUME NEW a \in Nat, NEW b \in Nat, NEW d \in Nat, NEW t \in Nat, NEW d2 \in Nat, NEW t2 \in Nat,
           d2 + t2 <= d + t
    PROVE  a + 3 * b + d2 + t2 <= a + 3 * b + d + t
  OBVIOUS

LEMMA CutLighter ==
    ASSUME NEW a \in Nat, NEW b \in Nat, b > 0, NEW d \in Nat, NEW t \in Nat, NEW t2 \in Nat, t2 <= t + 3
    PROVE  a + 3 * (b - 1) + d + t2 <= a + 3 * b + d + t
  OBVIOUS

\* The weight is a number.
LEMMA WeightIs ==
    ConnectionTypeOK =>
        /\ Up \in SUBSET Conns /\ cut \in SUBSET Up /\ dialing \in Nat /\ timers \in Nat
        /\ Weight \in Nat
<1> SUFFICES ASSUME ConnectionTypeOK
             PROVE  /\ Up \in SUBSET Conns /\ cut \in SUBSET Up /\ dialing \in Nat /\ timers \in Nat
                    /\ Weight \in Nat
  OBVIOUS
<1>1. Up \in SUBSET Conns /\ cut \in SUBSET Up /\ dialing \in Nat /\ timers \in Nat
  BY DEF ConnectionTypeOK, Up
<1>2. Cardinality(Up \ cut) \in Nat /\ Cardinality(cut) \in Nat
  BY <1>1, Counted
<1> QED BY <1>1, <1>2 DEF Weight

\* A step of the service weighs nothing, a new process one, an outage three
\* times what was.
LEMMA WeightStep ==
    ASSUME ConnectionTypeOK, ConnectionTypeOK', [ConnectionNext]_connectionVars
    PROVE  \/ outages' = outages /\ (Weight' <= Weight \/ Weight' = 1)
           \/ outages' = outages + 1 /\ Weight' <= 3 * Weight
<1> DEFINE live == Cardinality(Up \ cut)
           lost == Cardinality(cut)
           Stays == outages' = outages /\ Weight' <= Weight
           Goal == Stays \/ (outages' = outages /\ Weight' = 1)
                         \/ (outages' = outages + 1 /\ Weight' <= 3 * Weight)
<1>0. Up \in SUBSET Conns /\ cut \in SUBSET Up /\ dialing \in Nat /\ timers \in Nat
  BY WeightIs
<1>1. /\ IsFiniteSet(cut) /\ IsFiniteSet(Up \ cut) /\ live \in Nat /\ lost \in Nat
      /\ dialing \in Nat /\ timers \in Nat
  BY <1>0, Counted
<1>2. Weight = live + 3 * lost + dialing + timers
  BY DEF Weight
<1>3. Weight' = live' + 3 * lost' + dialing' + timers'
  BY DEF Weight
<1>4. live' \in Nat /\ lost' \in Nat /\ dialing' \in Nat /\ timers' \in Nat
  <2>1. Up' \in SUBSET Conns /\ cut' \in SUBSET Up' /\ dialing' \in Nat /\ timers' \in Nat
    BY DEF ConnectionTypeOK, Up
  <2>2. Cardinality(Up' \ cut') \in Nat /\ Cardinality(cut') \in Nat
    BY <2>1, Counted
  <2> QED BY <2>1, <2>2
<1>5. ASSUME UNCHANGED <<outages, connPhase, cut>>, dialing' + timers' <= dialing + timers PROVE Stays
  <2>1. live' = live /\ lost' = lost
    BY <1>5 DEF Up
  <2> HIDE DEF live, lost
  <2>2. Weight' = live + 3 * lost + dialing' + timers'
    BY <1>3, <2>1
  <2>3. dialing' \in Nat /\ timers' \in Nat
    BY <1>4
  <2>4. Weight' <= Weight
    <3>1. live + 3 * lost + dialing' + timers' <= live + 3 * lost + dialing + timers
      BY <1>1, <1>5, <2>3, Lighter
    <3> QED BY <1>2, <2>2, <3>1
  <2> QED BY <1>5, <2>4
<1>6. ASSUME TimerFires PROVE Goal
  <2>1. UNCHANGED <<outages, connPhase, cut>> /\ dialing' + timers' <= dialing + timers
    BY <1>1, <1>6 DEF TimerFires
  <2> QED BY <1>5, <2>1
<1>7. ASSUME DialSucceeds PROVE Goal
  <2>1. PICK k \in FreeConns : connPhase' = [connPhase EXCEPT ![k] = "creating"]
    BY <1>7 DEF DialSucceeds
  <2>2. /\ Up' = Up \cup {k} /\ k \notin Up /\ cut' = cut /\ cut \subseteq Up /\ outages' = outages
        /\ dialing > 0 /\ dialing' = dialing - 1 /\ timers' = timers
    BY <1>7, <2>1 DEF DialSucceeds, FreeConns, Up, ConnectionTypeOK
  <2>3. Up' \ cut' = (Up \ cut) \cup {k} /\ k \notin Up \ cut
    BY <2>2
  <2>4. live' = live + 1
    BY <1>1, <2>3, FS_AddElement
  <2>5. lost' = lost
    BY <2>2
  <2> HIDE DEF live, lost
  <2> QED BY <1>1, <1>2, <1>3, <2>2, <2>4, <2>5
<1>8. ASSUME DialFails PROVE Goal
  <2>1. UNCHANGED <<outages, connPhase, cut>> /\ dialing' + timers' <= dialing + timers
    BY <1>1, <1>8 DEF DialFails
  <2> QED BY <1>5, <2>1
<1>9. ASSUME NEW k \in Conns, ChannelCreated(k) \/ PrefetchSet(k) PROVE Goal
  <2>1. Up' = Up /\ cut' = cut /\ UNCHANGED <<outages, dialing, timers>>
    BY <1>9 DEF ChannelCreated, PrefetchSet, Up, ConnectionTypeOK
  <2>2. live' = live /\ lost' = lost
    BY <2>1
  <2> HIDE DEF live, lost
  <2> QED BY <1>1, <1>2, <1>3, <2>1, <2>2
<1>10. ASSUME NEW k \in Conns, Lost(k) PROVE Goal
  <2>1. /\ k \in cut /\ cut' = cut \ {k} /\ outages' = outages /\ dialing' = dialing
        /\ timers' <= timers + 3
    BY <1>1, <1>10 DEF Lost
  <2>2. Up' \ cut' = Up \ cut
    BY <1>10 DEF Lost, Up, ConnectionTypeOK
  <2>3. lost' = lost - 1
    BY <1>1, <2>1, FS_RemoveElement
  <2>4. live' = live
    BY <2>2
  <2> HIDE DEF live, lost
  <2>5. Weight' = live + 3 * (lost - 1) + dialing + timers'
    BY <1>3, <2>1, <2>3, <2>4
  <2>6. timers' \in Nat
    BY <1>4
  <2>7. Weight' <= Weight
    <3>1. lost \in Nat /\ lost > 0
      BY <1>1, <1>4, <2>3
    <3>2. live + 3 * (lost - 1) + dialing + timers' <= live + 3 * lost + dialing + timers
      BY <1>1, <2>1, <2>6, <3>1, CutLighter
    <3> QED BY <1>2, <2>5, <3>2
  <2> QED BY <2>1, <2>7
<1>11. ASSUME Subscribing PROVE Goal
  <2>1. CASE UNCHANGED <<broker, outages, connPhase, cut, conn, channel, connected, dialing, timers>>
    BY <1>1, <1>5, <2>1
  <2>2. CASE Fresh /\ UNCHANGED <<broker, outages>>
    <3>1. Up' \ cut' = {} /\ cut' = {} /\ dialing' = 1 /\ timers' = 0
      BY <2>2 DEF Fresh, Up
    <3>2. live' = 0 /\ lost' = 0
      BY <3>1, FS_EmptySet
    <3> HIDE DEF live, lost
    <3> QED BY <1>3, <2>2, <3>1, <3>2
  <2> QED BY <1>11, <2>1, <2>2, SubscribingKeeps
<1>12. ASSUME Outage PROVE Goal
  <2>1. PICK gone \in (SUBSET (Up \ cut)) \ {{}} : cut' = cut \cup gone
    BY <1>12 DEF Outage
  <2>2. Up' = Up /\ outages' = outages + 1 /\ dialing' = dialing /\ timers' = timers /\ cut \subseteq Up
    BY <1>12 DEF Outage, Up, ConnectionTypeOK
  <2>3. IsFiniteSet(gone) /\ Cardinality(gone) \in Nat /\ gone \cap cut = {}
    <3>1. IsFiniteSet(gone)
      BY <1>1, FS_Subset
    <3> QED BY <3>1, FS_CardinalityType
  <2>4. lost' = lost + Cardinality(gone)
    <3>1. Cardinality(cut \cup gone) = Cardinality(cut) + Cardinality(gone) - Cardinality(cut \cap gone)
      BY <1>1, <2>3, FS_Union
    <3>2. Cardinality(cut \cap gone) = 0
      <4>1. cut \cap gone = {}
        BY <2>3
      <4> QED BY <4>1, FS_EmptySet
    <3> QED BY <1>1, <2>1, <2>3, <3>1, <3>2
  <2>5. live = live' + Cardinality(gone)
    <3>1. Up' \ cut' = (Up \ cut) \ gone /\ gone = (Up \ cut) \cap gone
      BY <2>1, <2>2
    <3>2. Cardinality((Up \ cut) \ gone) = Cardinality(Up \ cut) - Cardinality((Up \ cut) \cap gone)
      BY <1>1, FS_Difference
    <3>3. live' = Cardinality((Up \ cut) \ gone)
      BY <3>1
    <3>4. Cardinality((Up \ cut) \cap gone) = Cardinality(gone)
      BY <3>1
    <3> QED BY <1>1, <2>3, <3>2, <3>3, <3>4
  <2> HIDE DEF live, lost
  <2> QED BY <1>1, <1>2, <1>3, <1>4, <2>2, <2>3, <2>4, <2>5
<1>13. ASSUME BrokerReturns PROVE Goal
  BY <1>1, <1>5, <1>13 DEF BrokerReturns
<1>14. ASSUME UNCHANGED connectionVars PROVE Goal
  BY <1>1, <1>5, <1>14 DEF connectionVars
<1>15. Goal
  BY <1>6, <1>7, <1>8, <1>9, <1>10, <1>11, <1>12, <1>13, <1>14 DEF ConnectionNext, Connecting
<1> QED BY <1>15

\* The order of the naturals has no infinite descent: what holds of 0, and of a
\* number when it holds of the one before, holds of all.
LEMMA CountingUp ==
    ASSUME NEW n \in Nat, NEW S, 0 \in S, \A i \in 1..n : i - 1 \in S => i \in S
    PROVE  \A i \in 0..n : i \in S
<1> DEFINE R == {q \in Nat \X Nat : q[1] < q[2]}
           T == {k \in 0..n : k \notin S}
<1>1. SUFFICES ASSUME T # {} PROVE FALSE
  OBVIOUS
<1>2. IsWellFoundedOn(R, Nat)
  BY NatLessThanWellFounded DEF OpToRel
<1>3. T \subseteq Nat
  OBVIOUS
<1>4. PICK k \in T : \A y \in T : ~ (<<y, k>> \in R)
  <2> HIDE DEF R, T
  <2> QED BY <1>1, <1>2, <1>3, WFMin
<1>5. k \in 1..n /\ k - 1 \in 0..n /\ k \notin S
  OBVIOUS
<1>6. <<k - 1, k>> \in R
  BY <1>5
<1>7. k - 1 \notin T
  <2> HIDE DEF R, T
  <2> QED BY <1>4, <1>6
<1> QED BY <1>5, <1>7

\* The recursion is well defined: it is on longer and longer beginnings.
LEMMA TripledIs ==
    /\ \A n \in 0..MaxOutages : Tripled[n] \in Nat \ {0}
    /\ \A n \in 0..MaxOutages : n + 1 \in 0..MaxOutages => Tripled[n + 1] = 3 * Tripled[n]
<1> DEFINE Rule(f, n) == IF n = 0 THEN 1 ELSE 3 * f[n - 1]
           Upto(f, n) == f = [j \in 0..n |-> Rule(f, j)]
           S == {n \in 0..MaxOutages : \E f : Upto(f, n)}
<1>0. MaxOutages \in Nat
  BY ConnectionAssumption
<1>1. 0 \in S
  <2> DEFINE f == [j \in 0..0 |-> 1]
  <2>1. Upto(f, 0) OBVIOUS
  <2>2. 0 \in 0..MaxOutages BY <1>0
  <2>3. \E g : Upto(g, 0)
    <3> HIDE DEF f, Upto
    <3> QED BY <2>1
  <2> QED BY <2>2, <2>3
<1>2. ASSUME NEW n \in 1..MaxOutages, n - 1 \in S PROVE n \in S
  <2>1. PICK f : Upto(f, n - 1) BY <1>2
  <2> DEFINE g == [j \in 0..n |-> IF j = n THEN 3 * f[n - 1] ELSE f[j]]
  <2>2. \A j \in 0..(n - 1) : f[j] = Rule(f, j) BY <2>1
  <2>3. \A j \in 0..(n - 1) : g[j] = f[j] OBVIOUS
  <2>4. ASSUME NEW j \in 0..n PROVE g[j] = Rule(g, j)
    <3>1. CASE j = 0 BY <3>1, <2>2, <2>3
    <3>2. CASE j # 0 /\ j < n
      <4>1. j \in 0..(n - 1) /\ j - 1 \in 0..(n - 1) BY <3>2
      <4>2. g[j] = Rule(f, j) /\ g[j - 1] = f[j - 1] BY <4>1, <2>2, <2>3
      <4> HIDE DEF g
      <4> QED BY <4>2
    <3>3. CASE j = n
      <4>1. n - 1 \in 0..(n - 1) /\ n # 0 OBVIOUS
      <4>2. g[n] = 3 * f[n - 1] /\ g[n - 1] = f[n - 1] BY <4>1, <2>3
      <4> HIDE DEF g
      <4> QED BY <3>3, <4>1, <4>2
    <3> QED BY <3>1, <3>2, <3>3
  <2>5. g = [j \in 0..n |-> g[j]] OBVIOUS
  <2>6. Upto(g, n)
    <3> HIDE DEF g, Rule
    <3> QED BY <2>4, <2>5
  <2>7. \E h : Upto(h, n)
    <3> HIDE DEF g, Upto
    <3> QED BY <2>6
  <2> QED BY <2>7
<1>3. \A n \in 0..MaxOutages : n \in S
  <2> HIDE DEF S
  <2> QED BY <1>0, <1>1, <1>2, CountingUp
<1>4. \E f : Upto(f, MaxOutages)
  <2>1. MaxOutages \in 0..MaxOutages BY <1>0
  <2> QED BY <2>1, <1>3
<1>5. Upto(CHOOSE f : Upto(f, MaxOutages), MaxOutages)
  <2> HIDE DEF Upto
  <2> QED BY <1>4
<1>6. Tripled = CHOOSE f : Upto(f, MaxOutages)
  BY DEF Tripled
<1>7. Upto(Tripled, MaxOutages)
  <2> HIDE DEF Upto
  <2> QED BY <1>5, <1>6
<1>8. \A n \in 0..MaxOutages : Tripled[n] = Rule(Tripled, n)
  BY <1>7
<1>9. \A n \in 0..MaxOutages : n + 1 \in 0..MaxOutages => Tripled[n + 1] = 3 * Tripled[n]
  <2> SUFFICES ASSUME NEW n \in 0..MaxOutages, n + 1 \in 0..MaxOutages
               PROVE  Tripled[n + 1] = 3 * Tripled[n]
    OBVIOUS
  <2>1. Tripled[n + 1] = Rule(Tripled, n + 1) BY <1>8
  <2>2. n + 1 # 0 /\ n + 1 - 1 = n BY <1>0
  <2> QED BY <2>1, <2>2
<1> DEFINE P == {n \in 0..MaxOutages : Tripled[n] \in Nat \ {0}}
<1>10. 0 \in P
  <2>1. 0 \in 0..MaxOutages BY <1>0
  <2>2. Tripled[0] = 1 BY <2>1, <1>8
  <2> QED BY <2>1, <2>2
<1>11. ASSUME NEW n \in 1..MaxOutages, n - 1 \in P PROVE n \in P
  <2>1. n - 1 \in 0..MaxOutages /\ n \in 0..MaxOutages /\ n - 1 + 1 = n BY <1>0
  <2>2. Tripled[n] = 3 * Tripled[n - 1] BY <2>1, <1>9
  <2>3. Tripled[n - 1] \in Nat \ {0} BY <1>11
  <2> QED BY <2>1, <2>2, <2>3
<1>12. \A n \in 0..MaxOutages : n \in P
  <2> HIDE DEF P
  <2> QED BY <1>0, <1>10, <1>11, CountingUp
<1> QED BY <1>9, <1>12

\* One connection or attempt until one is lost and three times as many after
\* each outage (rabbitmq.service.ts: the handlers of "error" and "close" and
\* the catch clause of connect() each set a timer).
THEOREM GrowthBoundedHolds == ConnectionSpec => []GrowthBounded
<1> DEFINE Within == Weight <= Tripled[outages]
<1>1. ConnectionInit => Within
  <2> SUFFICES ASSUME ConnectionInit PROVE Within
    OBVIOUS
  <2>1. Up \ cut = {} /\ cut = {} /\ dialing = 1 /\ timers = 0 /\ outages = 0
    BY DEF ConnectionInit, Up
  <2>2. Weight = 0 + 3 * 0 + 1 + 0
    BY <2>1, FS_EmptySet DEF Weight
  <2>3. Tripled[outages] \in Nat \ {0}
    BY <2>1, TripledIs, ConnectionAssumption
  <2> QED BY <2>2, <2>3
<1>2. ConnectionInv /\ Within /\ [ConnectionNext]_connectionVars => Within'
  <2> SUFFICES ASSUME ConnectionInv, Within, [ConnectionNext]_connectionVars PROVE Within'
    OBVIOUS
  <2>1. ConnectionTypeOK /\ ConnectionTypeOK' /\ outages \in Nat
    BY TypeStep DEF ConnectionInv, ConnectionTypeOK
  <2>2. Weight \in Nat /\ Weight' \in Nat
    <3>1. /\ Up' \in SUBSET Conns /\ cut' \in SUBSET Up' /\ dialing' \in Nat /\ timers' \in Nat
      BY <2>1 DEF ConnectionTypeOK, Up
    <3>2. Cardinality(Up' \ cut') \in Nat /\ Cardinality(cut') \in Nat
      BY <3>1, Counted
    <3>3. Weight' \in Nat
      BY <3>1, <3>2 DEF Weight
    <3> QED BY <2>1, <3>3, WeightIs
  <2>6. outages \in 0..MaxOutages /\ outages' \in 0..MaxOutages
    BY <2>1 DEF ConnectionTypeOK
  <2>3. Tripled[outages] \in Nat \ {0}
    BY <2>6, TripledIs
  <2>4. CASE outages' = outages /\ (Weight' <= Weight \/ Weight' = 1)
    <3>1. Tripled[outages'] = Tripled[outages]
      BY <2>4
    <3> HIDE DEF Weight
    <3> QED BY <2>2, <2>3, <2>4, <3>1
  <2>5. CASE outages' = outages + 1 /\ Weight' <= 3 * Weight
    <3>1. Tripled[outages'] = 3 * Tripled[outages]
      BY <2>5, <2>6, TripledIs
    <3> QED BY <2>2, <2>3, <2>5, <3>1
  <2> QED BY <2>1, <2>4, <2>5, WeightStep
<1>3. ConnectionInv /\ Within => GrowthBounded
  <2> SUFFICES ASSUME ConnectionInv, Within PROVE GrowthBounded
    OBVIOUS
  <2>1. /\ Cardinality(Up \ cut) \in Nat /\ Cardinality(cut) \in Nat /\ dialing \in Nat /\ timers \in Nat
        /\ Cardinality(Up) = Cardinality(Up \ cut) + Cardinality(cut) /\ outages \in Nat
    <3>1. ConnectionTypeOK /\ Up \in SUBSET Conns /\ cut \in SUBSET Up /\ dialing \in Nat /\ timers \in Nat
      BY WeightIs DEF ConnectionInv
    <3>2. /\ Cardinality(Up \ cut) \in Nat /\ Cardinality(cut) \in Nat
          /\ Cardinality(Up) = Cardinality(Up \ cut) + Cardinality(cut)
      BY <3>1, Counted
    <3>3. outages \in Nat
      BY <3>1 DEF ConnectionTypeOK
    <3> QED BY <3>1, <3>2, <3>3
  <2>2. Tripled[outages] \in Nat
    BY TripledIs DEF ConnectionInv, ConnectionTypeOK
  <2>3. Cardinality(Up) + dialing + timers <= Weight /\ Weight \in Nat /\ Cardinality(Up) \in Nat
    BY <2>1 DEF Weight
  <2> QED BY <2>1, <2>2, <2>3 DEF GrowthBounded
<1> QED BY <1>1, <1>2, <1>3, ConnectionInitially, ConnectionStep, PTL DEF ConnectionSpec
================================================================================
