------------------------------- MODULE RateLimit -------------------------------
(***************************************************************************)
(* Redis as the replicas of apps/backend see it (redis.service.ts), and    *)
(* the two rate limits counted through it: the global plugin's, by IP      *)
(* (packages/rate-limit), and the login guard's, by IP and by e-mail       *)
(* (login-rate-limit.guard.ts).                                            *)
(*                                                                         *)
(* Time is a clock of ticks.  All requests come from one IP.  A counter of *)
(* Redis is [count, until]; a key that is gone has count 0.  ioredis holds *)
(* a command while Redis is away, or fails it, and connects again by itself. *)
(***************************************************************************)
EXTENDS Integers, Sequences, FiniteSets, Functions

CONSTANTS
    Servers,            \* replicas of apps/backend
    Attempts, Emails,   \* attempts to log in, the accounts they try
    MaxPerEmail,        \* AUTH_LOGIN_RATE_LIMIT_MAX
    MaxPerIp,           \* RATE_LIMIT_MAX_REQUESTS, also of the global plugin
    Window,             \* both windows, in ticks
    Threshold,          \* REDIS_FAILURE_THRESHOLD
    MaxTime,            \* bound on the clock
    MaxServed,          \* bound on the requests the replicas answer
    MaxOutages          \* bound on outages of Redis, one of which may come first

ASSUME RateLimitAssumption ==
    /\ {MaxPerEmail, MaxPerIp, Window, Threshold} \subseteq Nat \ {0}
    /\ {MaxTime, MaxServed, MaxOutages} \subseteq Nat

VARIABLES
    clock,
    boot,               \* each replica: bootstrap of main.ts
    client,             \* its RedisService: a client has been created,
    errors, fallback, resetTimer,   \* consecutiveErrors, fallbackActive
    store, entry,       \* its global limit: the store chosen, its counter
    served,             \* history: the requests it has answered
    up, counter,        \* Redis
    expiring,           \* PEXPIREs sent and not yet done
    attempt,            \* the attempts to log in
    outages, blind      \* history: outages, attempts that were not counted

redisVars == <<client, errors, fallback, resetTimer>>
globalVars == <<store, entry, served>>
loginVars == <<counter, expiring, attempt, blind>>
limitVars == <<clock, boot, redisVars, globalVars, loginVars, up, outages>>

CounterKeys == {"ip"} \cup Emails
Never == MaxTime + Window + 1
NoCounter == [count |-> 0, until |-> Never]
NewAttempt == [step |-> "new", email |-> "ip", by |-> "none", ip |-> 0, time |-> 0]

LimitTypeOK ==
    /\ clock \in 0..MaxTime /\ up \in BOOLEAN /\ outages \in 0..MaxOutages
    /\ boot \in [Servers -> {"registering", "connecting", "dialing", "serving", "stopped"}]
    /\ errors \in [Servers -> Nat]
    /\ {client, fallback, resetTimer} \subseteq [Servers -> BOOLEAN]
    /\ \A b \in Servers : errors[b] >= Threshold => fallback[b]
    /\ store \in [Servers -> {"none", "memory"}]
    /\ entry \in [Servers -> [count : Nat, until : 0..Never]]
    /\ served \in [Servers -> Seq([time : 0..MaxTime, admitted : BOOLEAN])]
    /\ counter \in [CounterKeys -> [count : Nat, until : 0..Never]]
    /\ expiring \subseteq Servers \X CounterKeys
    /\ \A p \in Attempts : attempt[p].step \in {"new", "ip", "email", "passed", "refused", "lost"}
    /\ blind \subseteq Attempts

LimitInit ==
    /\ clock = 0 /\ outages \in {0, 1} \cap 0..MaxOutages /\ up = (outages = 0)
    /\ boot = [b \in Servers |-> "registering"]
    /\ client = [b \in Servers |-> FALSE] /\ errors = [b \in Servers |-> 0]
    /\ \E enabled \in BOOLEAN : fallback = [b \in Servers |-> enabled]
    /\ resetTimer = [b \in Servers |-> FALSE]
    /\ store = [b \in Servers |-> "none"] /\ entry = [b \in Servers |-> NoCounter]
    /\ served = [b \in Servers |-> <<>>]
    /\ counter = [k \in CounterKeys |-> NoCounter] /\ expiring = {}
    /\ attempt = [p \in Attempts |-> NewAttempt] /\ blind = {}

\* Bound: clients and outages come when every replica has booted.
Started == \A b \in Servers : boot[b] \in {"serving", "stopped"}

Boots(b, from, to) == boot[b] = from /\ boot' = [boot EXCEPT ![b] = to]

-------------------------------------------------------------------------------
(* RedisService                                                            *)

\* getInternalClient
InternalClient(b) == client[b] /\ ~fallback[b]

\* onClientError, n times
ClientErrors(b, n) ==
    LET trips == errors[b] + n >= Threshold /\ ~fallback[b] IN
    /\ errors' = [errors EXCEPT ![b] = @ + n]
    /\ fallback' = [fallback EXCEPT ![b] = @ \/ trips]
    /\ resetTimer' = [resetTimer EXCEPT ![b] = @ \/ trips]

SameRedis == UNCHANGED <<clock, globalVars, loginVars, up, outages>>

\* onModuleInit, which app.listen runs, creates the client and awaits it.
Connect(b) ==
    /\ Boots(b, "connecting", "dialing")
    /\ client' = [client EXCEPT ![b] = TRUE]
    /\ UNCHANGED <<errors, fallback, resetTimer>> /\ SameRedis

Connected(b) ==
    /\ up /\ Boots(b, "dialing", "serving")
    /\ errors' = [errors EXCEPT ![b] = 0]
    /\ fallback' = [fallback EXCEPT ![b] = FALSE]
    /\ UNCHANGED <<client, resetTimer>> /\ SameRedis

\* The "error" event and the catch of connect both count it.
ConnectFails(b) ==
    /\ ~up /\ Boots(b, "dialing", "serving")
    /\ ClientErrors(b, 2)
    /\ UNCHANGED client /\ SameRedis

\* The connection is lost, or a reconnection of ioredis fails (bound: errors are
\* not counted any more once the fallback is active; they would change nothing).
ConnectionError(b) ==
    /\ Started /\ boot[b] = "serving" /\ ~up /\ ~fallback[b]
    /\ ClientErrors(b, 1)
    /\ UNCHANGED <<boot, client>> /\ SameRedis

\* exec: another command succeeds.
Exec(b) ==
    /\ boot[b] = "serving" /\ up /\ InternalClient(b) /\ errors[b] > 0
    /\ errors' = [errors EXCEPT ![b] = 0]
    /\ UNCHANGED <<boot, client, fallback, resetTimer>> /\ SameRedis

\* tryReset: connect returns at once, for the client is set.
TryReset(b) ==
    /\ resetTimer[b] /\ boot[b] = "serving"
    /\ resetTimer' = [resetTimer EXCEPT ![b] = FALSE]
    /\ errors' = [errors EXCEPT ![b] = 0]
    /\ UNCHANGED <<boot, client, fallback>> /\ SameRedis

-------------------------------------------------------------------------------
(* The global limit                                                        *)

\* bootstrap registers it before app.listen: getRateLimitStore finds no client,
\* and the adapter counts in the memory of the replica from then on.
Register(b) ==
    /\ Boots(b, "registering", "connecting")
    /\ ~InternalClient(b)
    /\ store' = [store EXCEPT ![b] = "memory"]
    /\ UNCHANGED <<clock, redisVars, entry, served, loginVars, up, outages>>

\* incr of the adapter in memory
Counted(e) ==
    IF e.count = 0 \/ clock >= e.until
    THEN [count |-> 1, until |-> clock + Window]
    ELSE [e EXCEPT !.count = @ + 1]

\* incr of the store built for the plugin: an entry whose pttl is negative gets
\* another window first (pttl is 0 at the very end of one).
Extended(e) == IF e.count > 0 /\ e.until < clock THEN [e EXCEPT !.until = clock + Window] ELSE e

Admitted(b) == Counted(Extended(entry[b])).count <= MaxPerIp

\* Every request of a replica is counted first (the plugin is global).
Request(b) ==
    /\ Started /\ boot[b] = "serving" /\ store[b] = "memory"
    /\ SumFunction([x \in Servers |-> Len(served[x])]) < MaxServed
    /\ entry' = [entry EXCEPT ![b] = Counted(Extended(@))]
    /\ served' = [served EXCEPT ![b] = Append(@, [time |-> clock, admitted |-> Admitted(b)])]
    /\ UNCHANGED <<clock, boot, redisVars, store, up, outages>>

OtherRequest(b) == Request(b) /\ UNCHANGED loginVars

-------------------------------------------------------------------------------
(* The login guard                                                         *)

SameGuard == UNCHANGED <<clock, boot, redisVars, globalVars, up, outages>>

\* Mutant: the guard looks at the count of the IP alone.
VerdictByIp(ip, email) == IF ip > MaxPerIp THEN "refused" ELSE "passed"

Verdict(ip, email) == IF ip > MaxPerIp \/ email > MaxPerEmail THEN "refused" ELSE "passed"

\* canActivate takes a store of its own: Redis, or a memory that starts empty,
\* where both counts are 1.
Attempt(p, b, e) ==
    /\ attempt[p].step = "new" /\ Request(b)
    /\ attempt' = [attempt EXCEPT ![p] =
          [step |-> IF ~Admitted(b) THEN "refused"
                    ELSE IF InternalClient(b) THEN "ip" ELSE Verdict(1, 1),
           email |-> e, by |-> b, ip |-> 0, time |-> clock]]
    /\ blind' = IF InternalClient(b) THEN blind ELSE blind \cup {p}
    /\ UNCHANGED <<counter, expiring>>

\* incr of the adapter in Redis: INCR, and whoever reads 1 sends a PEXPIRE that
\* is not awaited.
Incr(p, k) ==
    /\ up
    /\ counter' = [counter EXCEPT ![k].count = @ + 1]
    /\ expiring' = IF counter[k].count = 0
                   THEN expiring \cup {<<attempt[p].by, k>>} ELSE expiring
    /\ UNCHANGED blind /\ SameGuard

IncrIp(p) ==
    /\ attempt[p].step = "ip" /\ Incr(p, "ip")
    /\ attempt' = [attempt EXCEPT ![p].step = "email", ![p].ip = counter'["ip"].count]

IncrEmail(p) ==
    /\ attempt[p].step = "email" /\ Incr(p, attempt[p].email)
    /\ attempt' = [attempt EXCEPT ![p].time = clock,
          ![p].step = Verdict(attempt[p].ip, counter'[attempt[p].email].count)]

\* A command that fails, before Redis counts it or after, counts nothing here.
IncrFails(p) ==
    LET k == IF attempt[p].step = "ip" THEN "ip" ELSE attempt[p].email IN
    /\ attempt[p].step \in {"ip", "email"} /\ ~up
    /\ attempt' = [attempt EXCEPT ![p].time = clock,
          ![p].step = IF attempt[p].step = "ip" THEN "email" ELSE Verdict(attempt[p].ip, 0)]
    /\ blind' = blind \cup {p}
    /\ counter' \in {counter} \cup {[counter EXCEPT ![k].count = @ + 1] : n \in 1..outages}
    /\ UNCHANGED expiring /\ SameGuard

SetExpiry(b, k) ==
    /\ <<b, k>> \in expiring /\ up
    /\ expiring' = expiring \ {<<b, k>>}
    /\ counter' = [counter EXCEPT ![k].until = IF counter[k].count > 0 THEN clock + Window ELSE @]
    /\ UNCHANGED <<attempt, blind>> /\ SameGuard

\* Nobody catches its rejection: bootstrap shuts the replica down.
ExpiryRejected(b, k) ==
    /\ <<b, k>> \in expiring /\ ~up
    /\ expiring' = {x \in expiring : x[1] # b}
    /\ Boots(b, "serving", "stopped")
    /\ attempt' = [p \in Attempts |-> IF attempt[p].by = b /\ attempt[p].step \in {"ip", "email"}
                                      THEN [attempt[p] EXCEPT !.step = "lost"] ELSE attempt[p]]
    /\ UNCHANGED <<clock, redisVars, globalVars, counter, blind, up, outages>>

-------------------------------------------------------------------------------
(* Time, and Redis                                                         *)

Expired(c) == IF c.until <= clock' THEN NoCounter ELSE c

Tick ==
    /\ Started /\ clock < MaxTime /\ clock' = clock + 1
    /\ counter' = [k \in CounterKeys |-> Expired(counter[k])]
    /\ UNCHANGED <<boot, redisVars, globalVars, expiring, attempt, blind, up, outages>>

RedisStops ==
    /\ Started /\ up /\ outages < MaxOutages
    /\ up' = FALSE /\ outages' = outages + 1
    /\ UNCHANGED <<clock, boot, redisVars, globalVars, loginVars>>

RedisReturns ==
    /\ ~up /\ up' = TRUE
    /\ UNCHANGED <<clock, boot, redisVars, globalVars, loginVars, outages>>

ServerStep(b) ==
    \/ Register(b) \/ Connect(b) \/ Connected(b) \/ ConnectFails(b)
    \/ ConnectionError(b) \/ Exec(b) \/ TryReset(b)
    \/ OtherRequest(b)

LimitNext ==
    \/ \E b \in Servers : ServerStep(b)
    \/ \E b \in Servers, k \in CounterKeys : SetExpiry(b, k) \/ ExpiryRejected(b, k)
    \/ \E p \in Attempts : IncrIp(p) \/ IncrEmail(p) \/ IncrFails(p)
    \/ \E p \in Attempts, b \in Servers, e \in Emails : Attempt(p, b, e)
    \/ Tick \/ RedisStops \/ RedisReturns

LimitSpec == LimitInit /\ [][LimitNext]_limitVars

-------------------------------------------------------------------------------
(* Properties                                                              *)

\* The attempts at an account that Redis counted and that were let through in the
\* window of time from t on.
PassedFrom(e, t) ==
    {p \in Attempts \ blind :
        /\ attempt[p].step = "passed" /\ attempt[p].email = e
        /\ attempt[p].time \in t..(t + Window - 1)}

\* login-rate-limit.guard.ts:47: an account's counter lets so many attempts pass
\* and lasts a window of time at least, so any such window meets two counters at
\* most, and not the first attempt of the older: whatever the replicas and the
\* order in which they count and time out, twice the maximum less one pass.  (Not
\* the maximum: the window is that of a counter and does not move.)
LoginCapped ==
    \A e \in Emails, t \in 0..MaxTime :
        Cardinality(PassedFrom(e, t)) <= 2 * MaxPerEmail - 1

\* redis/README.md:28, the in-memory store counts "com uma janela de TTL": a
\* request is refused only if more than the limit came in the window before it.
RefusedInWindow ==
    \A b \in Servers : \A i \in DOMAIN served[b] :
        ~served[b][i].admitted =>
            Cardinality({j \in 1..i : served[b][j].time > served[b][i].time - Window}) > MaxPerIp
===============================================================================
