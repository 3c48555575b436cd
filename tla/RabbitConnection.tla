--------------------------- MODULE RabbitConnection ----------------------------
(***************************************************************************)
(* packages/messaging: how RabbitMqService connects and reconnects, and    *)
(* how a Subscriber waits for its channel and subscribes.                  *)
(*                                                                         *)
(* connect() runs once from onModuleInit and again from every timer its    *)
(* failures and the "error" and "close" events set, so several calls may   *)
(* be under way.  A call is "dialing" until amqplib.connect answers; from  *)
(* then on it is named by its connection, which is "creating" its channel  *)
(* and then setting its prefetch ("qos").                                  *)
(***************************************************************************)
EXTENDS Integers, FiniteSets

CONSTANTS
    Conns,        \* tokens for connections
    NoConn,       \* conn or channel is undefined
    HasPrefetch,  \* RABBITMQ_PREFETCH is set
    MaxOutages,   \* bound on losses of connections
    MaxPolls      \* polls that fit into one waitForChannel (10 s / 2 s)

ASSUME ConnectionAssumption ==
    /\ IsFiniteSet(Conns) /\ NoConn \notin Conns
    /\ HasPrefetch \in BOOLEAN /\ MaxOutages \in Nat /\ MaxPolls \in Nat

VARIABLES
    broker,             \* "up" or "down"
    outages,            \* losses so far
    connPhase,              \* of each connection
    cut,                \* connections lost, whose events are still to come
    conn, channel, connected,   \* the service's fields
    dialing,            \* calls of connect() that wait for amqplib.connect
    timers,             \* reconnection timers set
    sub,                \* the Subscriber: "boot", "waiting", "polling", "done"
    polls,              \* interval callbacks inside waitForChannel
    subscribing,        \* runs of subscribe() past their wait
    consumers           \* consumers of each connection's channel

svcVars == <<conn, channel, connected>>
subVars == <<sub, polls, subscribing, consumers>>
connectionVars == <<broker, outages, connPhase, cut, svcVars, dialing, timers, subVars>>

Up == {k \in Conns : connPhase[k] # "free"}
FreeConns == {k \in Conns \ {conn, channel} : connPhase[k] = "free"}

ConnectionTypeOK ==
    /\ broker \in {"up", "down"} /\ outages \in 0..MaxOutages
    /\ connPhase \in [Conns -> {"free", "creating", "qos", "open"}]
    /\ cut \subseteq Up
    /\ conn \in Conns \cup {NoConn} /\ channel \in Conns \cup {NoConn}
    /\ connected \in BOOLEAN
    /\ dialing \in Nat /\ timers \in Nat
    /\ sub \in {"boot", "waiting", "polling", "done"}
    /\ polls \in 0..MaxPolls /\ subscribing \in Nat
    /\ consumers \in [Conns -> Nat]

\* A process that starts: onModuleInit calls connect().
Fresh ==
    /\ connPhase' = [k \in Conns |-> "free"] /\ cut' = {}
    /\ conn' = NoConn /\ channel' = NoConn /\ connected' = FALSE
    /\ dialing' = 1 /\ timers' = 0
    /\ sub' = "boot" /\ polls' = 0 /\ subscribing' = 0
    /\ consumers' = [k \in Conns |-> 0]

ConnectionInit ==
    /\ broker \in {"up", "down"} /\ outages = 0
    /\ connPhase = [k \in Conns |-> "free"] /\ cut = {}
    /\ conn = NoConn /\ channel = NoConn /\ connected = FALSE
    /\ dialing = 1 /\ timers = 0
    /\ sub = "boot" /\ polls = 0 /\ subscribing = 0
    /\ consumers = [k \in Conns |-> 0]

--------------------------------------------------------------------------------
(* connect(). *)

\* A call has ended: after the first one the modules' onModuleInit go on.
Booted == sub' = IF sub = "boot" THEN "waiting" ELSE sub

\* A timer fires: return if there is a live connection, dial otherwise.
TimerFires ==
    /\ timers > 0
    /\ timers' = timers - 1
    /\ dialing' = IF conn # NoConn /\ connected THEN dialing ELSE dialing + 1
    /\ UNCHANGED <<broker, outages, connPhase, cut, svcVars, subVars>>

DialSucceeds ==
    /\ dialing > 0 /\ broker = "up"
    /\ \E k \in FreeConns : /\ conn' = k
                            /\ connPhase' = [connPhase EXCEPT ![k] = "creating"]
    /\ dialing' = dialing - 1
    /\ UNCHANGED <<broker, outages, cut, channel, connected, timers, subVars>>

\* Mutant: a failed call sets two timers.
DialFailsTwice ==
    /\ dialing > 0 /\ broker = "down"
    /\ dialing' = dialing - 1
    /\ timers' = timers + 2
    /\ connected' = FALSE
    /\ Booted
    /\ UNCHANGED <<broker, outages, connPhase, cut, conn, channel, polls,
                   subscribing, consumers>>

\* Mutant: a failed call sets no timer.
DialFailsForGood ==
    /\ dialing > 0 /\ broker = "down"
    /\ dialing' = dialing - 1
    /\ connected' = FALSE
    /\ Booted
    /\ UNCHANGED <<broker, outages, connPhase, cut, conn, channel, timers, polls,
                   subscribing, consumers>>

DialFails ==
    /\ dialing > 0 /\ broker = "down"
    /\ dialing' = dialing - 1
    /\ timers' = timers + 1
    /\ connected' = FALSE
    /\ Booted
    /\ UNCHANGED <<broker, outages, connPhase, cut, conn, channel, polls,
                   subscribing, consumers>>

\* createConfirmChannel answers: the prefetch is awaited or the call ends.
ChannelCreated(k) ==
    /\ connPhase[k] = "creating" /\ k \notin cut
    /\ channel' = k
    /\ IF HasPrefetch
       THEN /\ connPhase' = [connPhase EXCEPT ![k] = "qos"]
            /\ UNCHANGED <<connected, sub>>
       ELSE /\ connPhase' = [connPhase EXCEPT ![k] = "open"]
            /\ connected' = TRUE /\ Booted
    /\ UNCHANGED <<broker, outages, cut, conn, dialing, timers, polls,
                   subscribing, consumers>>

PrefetchSet(k) ==
    /\ connPhase[k] = "qos" /\ k \notin cut
    /\ connPhase' = [connPhase EXCEPT ![k] = "open"]
    /\ connected' = TRUE /\ Booted
    /\ UNCHANGED <<broker, outages, cut, conn, channel, dialing, timers, polls,
                   subscribing, consumers>>

\* Mutant: the close handler does not reset the flag.
LostKeepingFlag(k) ==
    /\ k \in cut
    /\ \E events \in {1, 2} :
          timers' = timers + events + (IF connPhase[k] = "open" THEN 0 ELSE 1)
    /\ IF connPhase[k] = "open" THEN UNCHANGED sub ELSE Booted
    /\ connPhase' = [connPhase EXCEPT ![k] = "free"]
    /\ cut' = cut \ {k}
    /\ consumers' = [consumers EXCEPT ![k] = 0]
    /\ UNCHANGED <<broker, outages, conn, channel, connected, dialing, polls,
                   subscribing>>

\* The events of a lost connection: "close", after "error" or not, each of
\* which sets a timer; a call still at work on it fails and sets its own.
Lost(k) ==
    /\ k \in cut
    /\ \E events \in {1, 2} :
          timers' = timers + events + (IF connPhase[k] = "open" THEN 0 ELSE 1)
    /\ connected' = FALSE
    /\ IF connPhase[k] = "open" THEN UNCHANGED sub ELSE Booted
    /\ connPhase' = [connPhase EXCEPT ![k] = "free"]
    /\ cut' = cut \ {k}
    /\ consumers' = [consumers EXCEPT ![k] = 0]
    /\ UNCHANGED <<broker, outages, conn, channel, dialing, polls, subscribing>>

--------------------------------------------------------------------------------
(* Subscriber.subscribe and waitForChannel. *)

Ready == channel # NoConn

\* The wait finds a channel field that is set ...
WaitEnds ==
    /\ sub = "waiting" /\ Ready
    /\ sub' = "done" /\ subscribing' = subscribing + 1
    /\ UNCHANGED <<broker, outages, connPhase, cut, svcVars, dialing, timers, polls,
                   consumers>>

\* Mutant: the time-out is not followed by polls.
WaitExpiresForGood ==
    /\ sub = "waiting" /\ ~Ready
    /\ sub' = "done"
    /\ UNCHANGED <<broker, outages, connPhase, cut, svcVars, dialing, timers, polls,
                   subscribing, consumers>>

\* ... or runs into its time-out: an interval of polls is started.
WaitExpires ==
    /\ sub = "waiting" /\ ~Ready
    /\ sub' = "polling"
    /\ UNCHANGED <<broker, outages, connPhase, cut, svcVars, dialing, timers, polls,
                   subscribing, consumers>>

\* The interval ticks, whether or not the last poll has ended.
PollStarts ==
    /\ sub = "polling" /\ polls < MaxPolls
    /\ polls' = polls + 1
    /\ UNCHANGED <<broker, outages, connPhase, cut, svcVars, dialing, timers, sub,
                   subscribing, consumers>>

PollExpires ==
    /\ polls > 0 /\ ~Ready
    /\ polls' = polls - 1
    /\ UNCHANGED <<broker, outages, connPhase, cut, svcVars, dialing, timers, sub,
                   subscribing, consumers>>

\* A poll finds the channel: clear the interval and subscribe.
PollEnds ==
    /\ polls > 0 /\ Ready
    /\ polls' = polls - 1
    /\ sub' = "done" /\ subscribing' = subscribing + 1
    /\ UNCHANGED <<broker, outages, connPhase, cut, svcVars, dialing, timers,
                   consumers>>

\* The declarations and the consumer, on a channel that is still there ...
Subscribes ==
    /\ subscribing > 0
    /\ connPhase[channel] # "free" /\ channel \notin cut
    /\ subscribing' = subscribing - 1
    /\ consumers' = [consumers EXCEPT ![channel] = @ + 1]
    /\ UNCHANGED <<broker, outages, connPhase, cut, svcVars, dialing, timers, sub,
                   polls>>

\* ... or on one that is gone, the field not having been cleared: nobody
\* handles the rejection, the process exits and is started anew.
SubscribeFails ==
    /\ subscribing > 0
    /\ connPhase[channel] = "free" \/ channel \in cut
    /\ Fresh
    /\ UNCHANGED <<broker, outages>>

--------------------------------------------------------------------------------
(* The broker and the network. *)

Outage ==
    /\ outages < MaxOutages
    /\ broker' \in {"up", "down"}
    /\ \E lost \in (SUBSET (Up \ cut)) \ {{}} :
          /\ broker' = "down" => lost = Up \ cut
          /\ cut' = cut \cup lost
    /\ outages' = outages + 1
    /\ UNCHANGED <<connPhase, svcVars, dialing, timers, subVars>>

BrokerReturns ==
    /\ broker = "down"
    /\ broker' = "up"
    /\ UNCHANGED <<outages, connPhase, cut, svcVars, dialing, timers, subVars>>

Connecting ==
    \/ TimerFires \/ DialSucceeds \/ DialFails
    \/ \E k \in Conns : ChannelCreated(k) \/ PrefetchSet(k) \/ Lost(k)

Subscribing ==
    WaitEnds \/ WaitExpires \/ PollStarts \/ PollExpires \/ PollEnds
        \/ Subscribes \/ SubscribeFails

ConnectionNext == Connecting \/ Subscribing \/ Outage \/ BrokerReturns

ConnectionSpec == ConnectionInit /\ [][ConnectionNext]_connectionVars

\* Timers fire, the broker answers or refuses, events are emitted and polls
\* go on; the broker need not come back.
ConnectionFairness ==
    /\ WF_connectionVars(TimerFires) /\ WF_connectionVars(DialSucceeds) /\ WF_connectionVars(DialFails)
    /\ \A k \in Conns : WF_connectionVars(ChannelCreated(k) \/ PrefetchSet(k) \/ Lost(k))
    /\ WF_connectionVars(WaitEnds \/ WaitExpires) /\ WF_connectionVars(PollStarts) /\ WF_connectionVars(PollEnds)
    /\ WF_connectionVars(Subscribes \/ SubscribeFails)

FairConnectionSpec == ConnectionSpec /\ ConnectionFairness

--------------------------------------------------------------------------------
(* Properties. *)

Usable == connected /\ channel \in Up \ cut

\* rabbitmq.service.ts:64 "if (this.conn && this.connected) return": when the
\* flag is set the channel field names a channel not seen closed, however
\* many calls of connect() have overlapped.  With a prefetch that holds up to
\* the second outage: a call that awaits its prefetch (:84) sets the flag even
\* when the field names, by then, the lost channel of another call.
ConnectedMeansUsable ==
    connected /\ (HasPrefetch => outages <= 1) => channel \in Up

Tripled[n \in 0..MaxOutages] == IF n = 0 THEN 1 ELSE 3 * Tripled[n - 1]

\* There is one connection or attempt until one is lost, and every outage at
\* most triples their number: "error", "close" and the catch clause of a call
\* at work each set a timer, and nothing closes a connection that is replaced.
GrowthBounded == Cardinality(Up) + dialing + timers <= Tripled[outages]

\* The worker's README.md:164 "Intervalo de reconexao em ms ao perder conexao
\* com o broker": the service ends up with a channel once the broker stays up.
EventuallyUsable == <>[](broker = "up") => <>[]Usable

\* subscriber.ts:42-51: if the broker comes up and no connection is lost,
\* the subscriber consumes, whichever wait finds the channel.
StartupSubscribes ==
    [](outages = 0) /\ <>[](broker = "up") => <>(\E k \in Conns : consumers[k] > 0)

\* subscriber.ts:74-78 "caps how many messages are processed in parallel per
\* subscriber instance": a subscriber has one consumer, with one gate.
OneConsumer == \A k \in Conns : consumers[k] <= 1

\* README.md:120 "at-least-once delivery": while the broker stays up a
\* subscriber consumes from its queue in the end.
EventuallyConsumes ==
    <>[](broker = "up") => <>[](\E k \in Conns : consumers[k] > 0)
================================================================================
