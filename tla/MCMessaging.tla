------------------------------ MODULE MCMessaging ------------------------------
(***************************************************************************)
(* Messaging for TLC: the connection of a process to RabbitMQ, and the     *)
(* e-mail worker on connections that last.  They share no state, so a      *)
(* behaviour is that of one of them, the other staying where it starts.    *)
(***************************************************************************)
EXTENDS MCNotificationWorker, RabbitConnection

VARIABLE part      \* the module that takes the steps

bothVars == <<part, allVars, connectionVars>>

BothInit ==
    /\ part \in {"worker", "connection"} /\ WorkerInit /\ ConnectionInit
    /\ part = "worker" => broker = "up"

W == part = "worker"
C == part = "connection"
OfWorker == UNCHANGED <<part, connectionVars>>
OfConnection == UNCHANGED <<part, allVars>>

BothNext ==
    \/ W /\ Elsewhere /\ OfWorker
    \/ \E r \in Replicas : W /\ StartWorker(r) /\ OfWorker
    \/ \E r \in Replicas : W /\ CrashWorker(r) /\ OfWorker
    \/ \E c \in Copies : W /\ SetNx(c) /\ OfWorker
    \/ \E c \in Copies : W /\ SetNxFails(c) /\ OfWorker
    \/ \E c \in Copies : W /\ SetNxFallsBack(c) /\ OfWorker
    \/ \E c \in Copies : W /\ SetNxInMemory(c) /\ OfWorker
    \/ \E c \in Copies : W /\ Send(c) /\ OfWorker
    \/ \E c \in Copies : W /\ SendFails(c) /\ OfWorker
    \/ \E c \in Copies : W /\ Return(c) /\ OfWorker
    \/ \E c \in Copies : W /\ Throw(c) /\ OfWorker
    \/ C /\ TimerFires /\ OfConnection
    \/ C /\ DialSucceeds /\ OfConnection
    \/ C /\ DialFails /\ OfConnection
    \/ \E k \in Conns : C /\ ChannelCreated(k) /\ OfConnection
    \/ \E k \in Conns : C /\ PrefetchSet(k) /\ OfConnection
    \/ \E k \in Conns : C /\ Lost(k) /\ OfConnection
    \/ C /\ WaitEnds /\ OfConnection
    \/ C /\ WaitExpires /\ OfConnection
    \/ C /\ PollStarts /\ OfConnection
    \/ C /\ PollExpires /\ OfConnection
    \/ C /\ PollEnds /\ OfConnection
    \/ C /\ Subscribes /\ OfConnection
    \/ C /\ SubscribeFails /\ OfConnection
    \/ C /\ Outage /\ OfConnection
    \/ C /\ BrokerReturns /\ OfConnection

\* The fairness of the two modules, of the one that takes the steps.
BothFairness ==
    /\ \A r \in Replicas :
          WF_bothVars(W /\ OfWorker /\ (StartWorker(r) \/ (BindMain(r) /\ UNCHANGED workerVars)))
    /\ \A r \in Replicas, c \in Copies :
          WF_bothVars(W /\ Deliver(r, c) /\ OfWorker /\ UNCHANGED workerVars)
    /\ \A c \in Copies :
          /\ WF_bothVars(W /\ HandlerStep(c) /\ OfWorker)
          /\ WF_bothVars(/\ W
                         /\ \/ Expire(c) \/ BrokerSettles(c) \/ Confirmed(c)
                            \/ BrokerTakesRetry(c) \/ BrokerTakesDead(c)
                         /\ OfWorker /\ UNCHANGED workerVars)
    /\ WF_bothVars(C /\ TimerFires /\ OfConnection)
    /\ WF_bothVars(C /\ DialSucceeds /\ OfConnection)
    /\ WF_bothVars(C /\ DialFails /\ OfConnection)
    /\ \A k \in Conns :
          WF_bothVars(C /\ (ChannelCreated(k) \/ PrefetchSet(k) \/ Lost(k)) /\ OfConnection)
    /\ WF_bothVars(C /\ (WaitEnds \/ WaitExpires) /\ OfConnection)
    /\ WF_bothVars(C /\ PollStarts /\ OfConnection)
    /\ WF_bothVars(C /\ PollEnds /\ OfConnection)
    /\ WF_bothVars(C /\ (Subscribes \/ SubscribeFails) /\ OfConnection)

BothSpec == BothInit /\ [][BothNext]_bothVars /\ BothFairness

\* The type invariant of the module that takes the steps.
TypesOK ==
    /\ part = "worker" => WorkerTypeOK
    /\ part = "connection" => ConnectionTypeOK

\* EventuallyUsable and StartupSubscribes of the behaviours in which the
\* connection moves at all.
ConnectionRecovers == part = "connection" => EventuallyUsable /\ StartupSubscribes
================================================================================
