-------------------------------- MODULE MCAccess -------------------------------
(***************************************************************************)
(* Who gets in, for TLC: the pairs of tokens of the backend, and the       *)
(* limits on requests and logins.  As in MCConversations a behaviour is    *)
(* that of one of the modules.                                             *)
(***************************************************************************)
EXTENDS AuthSession, RateLimit, TLC

VARIABLE part      \* the module that takes the steps

allVars == <<part, vars, limitVars>>

\* Requests are interchangeable, and so are replicas, the same in both modules:
\* all attempts to log in are requests but one.
Interchangeable == Permutations(Requests) \cup Permutations(Backends)

\* The attempt that is no request is the last to come (without loss).  Bound: one
\* replica takes all the others.
InTurn(p, b) ==
    IF p \in Requests THEN \A o \in Attempts : attempt[o].by \in {"none", b}
    ELSE \A o \in Attempts \cap Requests : attempt[o].step # "new"

\* Bound: beside an outage n requests are served, and one more.
Few(n) == outages > 0 => SumFunction([b \in Servers |-> Len(served[b])]) <= n

AllInit ==
    /\ part \in {"auth", "limit"}
    /\ Init /\ LimitInit
    /\ part # "limit" => up /\ \A b \in Servers : ~fallback[b]

A == part = "auth"
L == part = "limit"
OfAuth == UNCHANGED <<part, limitVars>>
OfLimit == UNCHANGED <<part, vars>>

AuthSteps ==
    \/ \E q \in Requests, b \in Backends : A /\ Login(q, b) /\ OfAuth
    \/ \E q, p \in Requests, b \in Backends : A /\ Refresh(q, b, p) /\ OfAuth
    \/ \E q, p \in Requests, b \in Backends : A /\ Logout(q, b, p) /\ OfAuth
    \/ \E q, p \in Requests, b \in Backends : A /\ Use(q, b, p) /\ OfAuth
    \/ \E q \in Requests : A /\ Command(q) /\ OfAuth
    \/ \E q \in Requests : A /\ CommandFallsBack(q) /\ OfAuth
    \/ \E q \in Requests : A /\ CommandThrows(q) /\ OfAuth
    \/ \E k \in {"access", "refresh", "session"}, p \in Requests : A /\ Expire(k, p) /\ OfAuth

\* Bound: other requests come beside an outage only, which stands in the first
\* tick and lets one more pass.
LimitSteps ==
    \/ \E b \in Servers : L /\ Register(b) /\ OfLimit
    \/ \E b \in Servers : L /\ Connect(b) /\ OfLimit
    \/ \E b \in Servers : L /\ Connected(b) /\ OfLimit
    \/ \E b \in Servers : L /\ ConnectFails(b) /\ OfLimit
    \/ \E b \in Servers : L /\ ConnectionError(b) /\ OfLimit
    \/ \E b \in Servers : L /\ Exec(b) /\ OfLimit
    \/ \E b \in Servers : L /\ TryReset(b) /\ OfLimit
    \/ \E b \in Servers : L /\ outages > 0 /\ Few(1) /\ OtherRequest(b) /\ OfLimit
    \/ \E b \in Servers, k \in CounterKeys : L /\ SetExpiry(b, k) /\ OfLimit
    \/ \E b \in Servers, k \in CounterKeys : L /\ ExpiryRejected(b, k) /\ OfLimit
    \/ \E p \in Attempts, b \in Servers, e \in Emails :
          L /\ Few(1) /\ InTurn(p, b) /\ Attempt(p, b, e) /\ OfLimit
    \/ \E p \in Attempts : L /\ IncrIp(p) /\ OfLimit
    \/ \E p \in Attempts : L /\ IncrEmail(p) /\ OfLimit
    \/ \E p \in Attempts : L /\ IncrFails(p) /\ OfLimit
    \/ L /\ (outages > 0 => clock = 0) /\ Tick /\ OfLimit
    \/ L /\ clock = 0 /\ RedisStops /\ Few(1)' /\ OfLimit
    \/ L /\ RedisReturns /\ OfLimit

AllNext == AuthSteps \/ LimitSteps

AllSpec == AllInit /\ [][AllNext]_allVars

\* The type invariant of the module that takes the steps.
TypesOK ==
    /\ part = "auth" => AuthTypeOK
    /\ part = "limit" => LimitTypeOK
================================================================================
