------------------------------ MODULE FallbackStore ----------------------------
(***************************************************************************)
(* The store of a replica's memory that RedisService turns to when Redis   *)
(* has failed too often (fallback.service.ts), under the commands of the   *)
(* backend: the sessions of one user (JwtAuthStrategy, AuthService) and a  *)
(* cached list.  The commands do not leave the process, so a handler's     *)
(* commands are one step; what runs between them are the timers of the     *)
(* store, which may be late.                                               *)
(***************************************************************************)
EXTENDS Integers, FiniteSets

CONSTANTS
    Tokens,      \* auth:access:<jti>, all with the same lifetime
    Lists,       \* keys of cached lists
    TokenTtl, ListTtl,
    MaxNow       \* bound on the clock

ASSUME FallbackAssumption ==
    /\ Tokens \cap Lists = {} /\ {TokenTtl, ListTtl} \subseteq Nat \ {0} /\ MaxNow \in Nat

VARIABLES
    now,
    store,       \* expiresAt of a key, 0 without it
    listed,      \* the set auth:access:user:<id>
    timers,      \* of set(): <<key, due>>
    expiry,      \* of expire(): due
    issued       \* history: tokens that have been issued (bound: each once)

fallbackVars == <<now, store, listed, timers, expiry, issued>>

Keys == Tokens \cup Lists
Times == 0..(MaxNow + TokenTtl + ListTtl)

FallbackTypeOK ==
    /\ now \in 0..MaxNow /\ store \in [Keys -> Times]
    /\ listed \subseteq Tokens /\ issued \subseteq Tokens
    /\ timers \subseteq Keys \X Times /\ expiry \subseteq Times

FallbackInit ==
    /\ now = 0 /\ store = [k \in Keys |-> 0]
    /\ listed = {} /\ timers = {} /\ expiry = {} /\ issued = {}

Ttl(k) == IF k \in Tokens THEN TokenTtl ELSE ListTtl

\* set
Set(k) ==
    /\ store' = [store EXCEPT ![k] = now + Ttl(k)]
    /\ timers' = timers \cup {<<k, now + Ttl(k)>>}

\* Mutant: the timer of the last expire() is not cleared.
ExpireAgain == expiry' = expiry \cup {now + TokenTtl}

\* expire: the timer of the last one is cleared.
Expire == expiry' = {now + TokenTtl}

\* JwtAuthStrategy.login: set, sAdd, expire.  For the first token, Redis may have
\* done the set and failed after it.
Issue(t) ==
    /\ t \notin issued /\ issued' = issued \cup {t}
    /\ \/ Set(t)
       \/ issued = {} /\ UNCHANGED <<store, timers>>
    /\ listed' = listed \cup {t}
    /\ Expire
    /\ UNCHANGED now

\* AuthService.logout: del, sRem.  The timers stay.
Logout(t) ==
    /\ t \in issued
    /\ store' = [store EXCEPT ![t] = 0]
    /\ listed' = listed \ {t}
    /\ UNCHANGED <<now, timers, expiry, issued>>

\* get of a cached list, and set if there is none
List(k) ==
    /\ store[k] <= now
    /\ Set(k)
    /\ UNCHANGED <<now, listed, expiry, issued>>

\* get of an expired key
Forget(k) ==
    /\ store[k] \in 1..now
    /\ store' = [store EXCEPT ![k] = 0]
    /\ UNCHANGED <<now, listed, timers, expiry, issued>>

\* RedisService.invalidate: keys, and del of each (which leaves sets alone).
Invalidate ==
    /\ store' = [k \in Keys |-> IF k \in Lists THEN 0 ELSE store[k]]
    /\ UNCHANGED <<now, listed, timers, expiry, issued>>

\* The timer of set() looks whether the value has been set again.
TimerFires(k, due) ==
    /\ <<k, due>> \in timers /\ due <= now
    /\ timers' = timers \ {<<k, due>>}
    /\ store' = [store EXCEPT ![k] = IF @ <= now THEN 0 ELSE @]
    /\ UNCHANGED <<now, listed, expiry, issued>>

\* That of expire() does not look.
ExpiryFires(due) ==
    /\ due \in expiry /\ due <= now
    /\ expiry' = expiry \ {due}
    /\ listed' = {}
    /\ UNCHANGED <<now, store, timers, issued>>

TimePasses ==
    /\ now < MaxNow /\ now' = now + 1
    /\ UNCHANGED <<store, listed, timers, expiry, issued>>

FallbackNext ==
    \/ \E t \in Tokens : Issue(t) \/ Logout(t)
    \/ \E k \in Lists : List(k)
    \/ \E k \in Keys : Forget(k)
    \/ \E k \in Keys, due \in Times : TimerFires(k, due)
    \/ \E due \in Times : ExpiryFires(due)
    \/ Invalidate \/ TimePasses

FallbackSpec == FallbackInit /\ [][FallbackNext]_fallbackVars

-------------------------------------------------------------------------------
\* jwt.strategy.ts:79 "set TTL on the per-user set to avoid orphaned entries":
\* a session that is alive is listed among those of its user, however many
\* timers were set before its own; and nothing stays in the memory of the
\* replica without a timer that will delete it.
SessionsListed ==
    /\ \A t \in Tokens : store[t] > now => t \in listed
    /\ listed # {} => expiry # {}
    /\ \A k \in Keys : store[k] > 0 => <<k, store[k]>> \in timers
===============================================================================
