------------------------------- MODULE MCServices ------------------------------
(***************************************************************************)
(* Two services for TLC: the slots of a subscriber, and the administration *)
(* of users and agents.  They share no state (users and agents only the    *)
(* requests), so as in MCConversations a behaviour is that of one of them. *)
(***************************************************************************)
EXTENDS MCSubscriber, Accounts

VARIABLE part      \* what takes the steps

servicesVars == <<part, vars, accountVars>>

\* Nothing tells messages apart, nor the requests of the administrators.
Alike == MessagesAlike \cup Permutations(Changes)

ServicesInit == part \in {"gate", "users", "agents"} /\ Init /\ AccountInit

G == part = "gate"
U == part = "users"
A == part = "agents"
OfGate == UNCHANGED <<part, accountVars>>
OfAccounts == UNCHANGED <<part, vars>>

GateSteps ==
    \/ \E m \in Messages : G /\ Publish(m) /\ OfGate
    \/ \E r \in Replicas : G /\ Consume(r) /\ OfGate
    \/ \E r \in Replicas : G /\ BindMain(r) /\ OfGate
    \/ \E r \in Replicas, c \in Copies : G /\ Deliver(r, c) /\ OfGate
    \/ \E r \in Replicas : G /\ Crash(r) /\ OfGate
    \/ \E c \in Copies : G /\ Expire(c) /\ OfGate
    \/ \E c \in Copies : G /\ BrokerSettles(c) /\ OfGate
    \/ \E c \in Copies : G /\ HandlerSucceeds(c) /\ OfGate
    \/ \E c \in Copies : G /\ HandlerFails(c) /\ OfGate
    \/ \E c \in Copies : G /\ HandlerFailsForGood(c) /\ OfGate
    \/ \E c \in Copies : G /\ BrokerTakesRetry(c) /\ OfGate
    \/ \E c \in Copies : G /\ BrokerTakesDead(c) /\ OfGate
    \/ \E c \in Copies : G /\ Confirmed(c) /\ OfGate
    \/ \E c \in Copies : G /\ PublishRejected(c) /\ OfGate

UserSteps ==
    \/ \E r \in Changes, row \in Created(First) : U /\ CreateUser(r, row) /\ OfAccounts
    \/ \E r \in Changes : U /\ InsertUser(r) /\ OfAccounts
    \/ \E r \in Changes, a \in Users : \E given \in Bodies(a) :
          U /\ Update(r, a, given) /\ OfAccounts
    \/ \E r \in Changes : U /\ FindAgain(r) /\ OfAccounts
    \/ \E r \in Changes : U /\ LoadRow(r) /\ OfAccounts
    \/ \E r \in Changes : U /\ SaveUser(r) /\ OfAccounts
    \/ \E r \in Changes : U /\ ReinsertUser(r) /\ OfAccounts
    \/ \E r \in Changes, a \in Users : U /\ Remove(r, a) /\ OfAccounts
    \/ \E r \in Changes : U /\ RemoveRowOf(r) /\ OfAccounts
    \/ \E r \in Changes : U /\ KeysOfList(r) /\ OfAccounts
    \/ \E r \in Changes : U /\ DropList(r) /\ OfAccounts
    \/ \E r \in Changes : U /\ RequestThrows(r) /\ OfAccounts
    \/ \E l \in Lists : U /\ ListUsers(l) /\ OfAccounts
    \/ \E l \in Lists : U /\ CacheList(l) /\ OfAccounts
    \/ \E l \in Lists : U /\ ListThrows(l) /\ OfAccounts
    \/ U /\ ListExpires /\ OfAccounts
    \/ U /\ ReplicaDies /\ OfAccounts

AgentSteps ==
    \/ \E r \in Changes, a \in Agents : \E row \in Created(a) :
          A /\ CreateAgent(r, a, row) /\ OfAccounts
    \/ \E r \in Changes, a \in Agents : \E given \in Bodies(a) :
          A /\ Update(r, a, given) /\ OfAccounts
    \/ \E r \in Changes : A /\ UpdateAgent(r) /\ OfAccounts
    \/ \E r \in Changes, a \in Agents : A /\ Remove(r, a) /\ OfAccounts
    \/ \E r \in Changes : A /\ RemoveRowOf(r) /\ OfAccounts
    \/ \E r \in Changes : A /\ RequestThrows(r) /\ OfAccounts
    \/ A /\ ReplicaDies /\ OfAccounts

ServicesNext == GateSteps \/ UserSteps \/ AgentSteps

ServicesSpec == ServicesInit /\ [][ServicesNext]_servicesVars
================================================================================
