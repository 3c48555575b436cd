------------------------------- MODULE Semaphore -------------------------------
(***************************************************************************)
(* What the concurrency gates of a set of processes promise, stated        *)
(* without counters or callbacks: at most Limit tasks are inside a gate,   *)
(* whoever does not fit waits in order of arrival, nobody overtakes a      *)
(* waiting task, and a task that leaves hands its place to the first       *)
(* waiter in the same step.  Limit = 0 means "no cap" (the option is       *)
(* unset).                                                                 *)
(***************************************************************************)
EXTENDS Naturals, Sequences, FiniteSets

CONSTANTS Gates, Tasks, Limit

VARIABLES inside,   \* inside[g]: the tasks being processed
          line      \* line[g]: the tasks waiting for a place, first come first

gateVars == <<inside, line>>

Present(g) == inside[g] \cup {line[g][i] : i \in DOMAIN line[g]}

Room(g) == Limit = 0 \/ Cardinality(inside[g]) < Limit

GateInit == /\ inside = [g \in Gates |-> {}]
            /\ line = [g \in Gates |-> <<>>]

\* A task arrives: it enters if there is room and nobody is waiting ...
Enter(g, t) ==
    /\ t \notin Present(g)
    /\ Room(g) /\ line[g] = <<>>
    /\ inside' = [inside EXCEPT ![g] = @ \cup {t}]
    /\ UNCHANGED line

\* ... and joins the end of the line if there is none.
Queue(g, t) ==
    /\ t \notin Present(g)
    /\ ~Room(g)
    /\ line' = [line EXCEPT ![g] = Append(@, t)]
    /\ UNCHANGED inside

\* A task leaves; the first waiter, if any, takes its place.
Leave(g, t) ==
    /\ t \in inside[g]
    /\ \/ /\ line[g] = <<>>
          /\ inside' = [inside EXCEPT ![g] = @ \ {t}]
          /\ UNCHANGED line
       \/ /\ line[g] # <<>>
          /\ inside' = [inside EXCEPT ![g] = (@ \ {t}) \cup {Head(line[g])}]
          /\ line' = [line EXCEPT ![g] = Tail(@)]

\* The process holding the gate dies.
Reset(g) == /\ inside' = [inside EXCEPT ![g] = {}]
            /\ line' = [line EXCEPT ![g] = <<>>]

GateNext ==
    \E g \in Gates :
        Reset(g) \/ \E t \in Tasks : Enter(g, t) \/ Queue(g, t) \/ Leave(g, t)

GateSpec == GateInit /\ [][GateNext]_gateVars
================================================================================
