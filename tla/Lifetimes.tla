------------------------------- MODULE Lifetimes -------------------------------
(***************************************************************************)
(* What a server that keeps sessions promises its users, without tokens,   *)
(* keys or stores: a session starts once, goes on for a while, and one     *)
(* that is over does not come back.                                        *)
(***************************************************************************)
CONSTANT Sessions

VARIABLES open,   \* the sessions somebody may go on with
          over    \* those that were open

lifeVars == <<open, over>>

LifeInit == open = {} /\ over = {}

\* Each session starts once.
Begin(s) ==
    /\ s \notin open \cup over
    /\ open' = open \cup {s}
    /\ UNCHANGED over

\* No step ends two of them.
End(s) ==
    /\ s \in open
    /\ open' = open \ {s}
    /\ over' = over \cup {s}

LifeNext == \E s \in Sessions : Begin(s) \/ End(s)

LifeSpec == LifeInit /\ [][LifeNext]_lifeVars
================================================================================
