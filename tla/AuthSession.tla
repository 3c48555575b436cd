------------------------------ MODULE AuthSession ------------------------------
(***************************************************************************)
(* apps/backend/src/auth: login, refresh, logout and the guard of every    *)
(* other route, as sequences of cache commands of concurrent requests at   *)
(* several replicas.                                                       *)
(*                                                                         *)
(* A request that issues tokens gives its name to the pair it issues (the  *)
(* uuids jti and refreshJti).  The keys of a pair p are                    *)
(*     <<"access", p>>    auth:access:<jti>                                *)
(*     <<"refresh", p>>   auth:refresh:<refreshJti>                        *)
(*     <<"session", p>>   auth:session:<jti>, whose value is p's refresh   *)
(* The per-user sets beside them are written and never read, and left out. *)
(* A replica uses Redis or, once its fallback is active, its own memory.   *)
(***************************************************************************)
EXTENDS Integers, FiniteSets

CONSTANTS
    Requests,       \* HTTP requests, and the pairs some of them issue
    Backends,       \* replicas of apps/backend
    MaxFailures,    \* bound on cache commands that throw
    MaxFallbacks,   \* bound on activations of the fallback
    None

ASSUME AuthAssumption ==
    /\ MaxFailures \in Nat /\ MaxFallbacks \in Nat
    /\ None \notin Requests \cup Backends

VARIABLES
    pc,              \* the next command of each request, or its outcome
    kind, token, at, \* what it asks, the pair it presents, its replica
    redis,           \* keys in Redis
    memory,          \* keys in the FallbackService of each replica
    fallbackActive,  \* RedisService.fallbackActive of each replica
    issued,          \* history: pairs a client has been given
    root,            \* history: the login a pair descends from
    revoked,         \* history: <<replica, pair>> whose access was deleted
    loggedOut, rotated,   \* history: pairs whose logout, refresh succeeded
    touched,         \* history: pairs presented for those, or expired
    failures, fallbacks   \* history, bounded

requestVars == <<pc, kind, token, at>>
storeVars == <<redis, memory, fallbackActive, failures, fallbacks>>
historyVars == <<issued, root, revoked, loggedOut, rotated, touched>>
vars == <<requestVars, storeVars, historyVars>>

Keys == {"access", "refresh", "session"} \X Requests
Issuing == {"setAccess", "setRefresh", "setSession", "delOld"}
Commands == Issuing \cup {"getRefresh", "guard", "delAccess", "getSession",
                          "delRefresh", "delSession"}
Outcomes == {"issued", "accepted", "rejected", "loggedOut", "failed"}

AuthTypeOK ==
    /\ pc \in [Requests -> Commands \cup Outcomes \cup {"new"}]
    /\ kind \in [Requests -> {"login", "refresh", "logout", "use", None}]
    /\ token \in [Requests -> Requests \cup {None}]
    /\ at \in [Requests -> Backends \cup {None}]
    /\ redis \subseteq Keys /\ memory \in [Backends -> SUBSET Keys]
    /\ fallbackActive \in [Backends -> BOOLEAN]
    /\ issued \subseteq Requests /\ root \in [Requests -> Requests \cup {None}]
    /\ revoked \subseteq Backends \X Requests
    /\ loggedOut \subseteq issued /\ rotated \subseteq issued
    /\ touched \subseteq Requests
    /\ failures \in 0..MaxFailures /\ fallbacks \in 0..MaxFallbacks

Init ==
    /\ pc = [q \in Requests |-> "new"] /\ kind = [q \in Requests |-> None]
    /\ token = [q \in Requests |-> None] /\ at = [q \in Requests |-> None]
    /\ redis = {} /\ memory = [b \in Backends |-> {}]
    /\ fallbackActive = [b \in Backends |-> FALSE]
    /\ issued = {} /\ root = [q \in Requests |-> None]
    /\ revoked = {} /\ loggedOut = {} /\ rotated = {} /\ touched = {}
    /\ failures = 0 /\ fallbacks = 0

--------------------------------------------------------------------------------
(* Requests arrive.  A client presents a pair it has been given. *)

Arrives(q, b, k, p, first) ==
    /\ pc[q] = "new"
    /\ pc' = [pc EXCEPT ![q] = first]
    /\ kind' = [kind EXCEPT ![q] = k]
    /\ token' = [token EXCEPT ![q] = p]
    /\ at' = [at EXCEPT ![q] = b]

\* AuthService.login has checked the password.
Login(q, b) ==
    /\ Arrives(q, b, "login", None, "setAccess")
    /\ root' = [root EXCEPT ![q] = q]
    /\ UNCHANGED <<storeVars, issued, revoked, loggedOut, rotated, touched>>

\* Mutant: the signature is not verified, any pair will do.
RefreshUnverified(q, b, p) ==
    /\ Arrives(q, b, "refresh", p, "getRefresh")
    /\ root' = [root EXCEPT ![q] = root[p]]
    /\ touched' = touched \cup {p}
    /\ UNCHANGED <<storeVars, issued, revoked, loggedOut, rotated>>

\* Mutant: nobody asks whether the refresh key is there.
RefreshUnchecked(q, b, p) ==
    /\ p \in issued
    /\ Arrives(q, b, "refresh", p, "setAccess")
    /\ root' = [root EXCEPT ![q] = root[p]]
    /\ touched' = touched \cup {p}
    /\ UNCHANGED <<storeVars, issued, revoked, loggedOut, rotated>>

\* JwtAuthStrategy.refresh has verified the signature.
Refresh(q, b, p) ==
    /\ p \in issued
    /\ Arrives(q, b, "refresh", p, "getRefresh")
    /\ root' = [root EXCEPT ![q] = root[p]]
    /\ touched' = touched \cup {p}
    /\ UNCHANGED <<storeVars, issued, revoked, loggedOut, rotated>>

\* JwtAuthGuard has verified the signature of the access token.
Logout(q, b, p) ==
    /\ p \in issued
    /\ Arrives(q, b, "logout", p, "guard")
    /\ touched' = touched \cup {p}
    /\ UNCHANGED <<storeVars, issued, root, revoked, loggedOut, rotated>>

Use(q, b, p) ==
    /\ p \in issued
    /\ Arrives(q, b, "use", p, "guard")
    /\ UNCHANGED <<storeVars, historyVars>>

--------------------------------------------------------------------------------
(* RedisService.exec: a command of a request at replica b adds and removes  *)
(* keys; Redis or the memory of the replica serves it, or it fails.         *)

Update(keys, add, remove) == (keys \cup add) \ remove

Visible(b) == IF fallbackActive[b] THEN memory[b] ELSE redis

Serves(b, add, remove) ==
    IF fallbackActive[b]
    THEN /\ memory' = [memory EXCEPT ![b] = Update(@, add, remove)]
         /\ UNCHANGED <<redis, fallbackActive, failures, fallbacks>>
    ELSE /\ redis' = Update(redis, add, remove)
         /\ UNCHANGED <<memory, fallbackActive, failures, fallbacks>>

\* A failed command may have taken effect before its answer was lost.
MaybeDone(add, remove) == redis' \in {redis, Update(redis, add, remove)}

\* It fails at the threshold of errors: the fallback is activated and serves.
FallsBack(b, add, remove) ==
    /\ ~fallbackActive[b] /\ fallbacks < MaxFallbacks
    /\ MaybeDone(add, remove)
    /\ fallbackActive' = [fallbackActive EXCEPT ![b] = TRUE]
    /\ memory' = [memory EXCEPT ![b] = Update(@, add, remove)]
    /\ fallbacks' = fallbacks + 1
    /\ UNCHANGED failures

\* It fails below the threshold: the error is thrown.
Throws(b, add, remove) ==
    /\ ~fallbackActive[b] /\ failures < MaxFailures
    /\ MaybeDone(add, remove)
    /\ failures' = failures + 1
    /\ UNCHANGED <<memory, fallbackActive, fallbacks>>

--------------------------------------------------------------------------------
(* The commands of the handlers. *)

\* The keys a request's next command writes and deletes.
Adds(q) == CASE pc[q] = "setAccess"  -> {<<"access", q>>}
             [] pc[q] = "setRefresh" -> {<<"refresh", q>>}
             [] pc[q] = "setSession" -> {<<"session", q>>}
             [] OTHER -> {}
\* Mutant: refresh deletes the key it has just written.
RemovesNew(q) ==
    CASE pc[q] = "delOld"     -> {<<"refresh", q>>}
      [] pc[q] = "delRefresh" -> {<<"refresh", token[q]>>}
      [] pc[q] = "delAccess"  -> {<<"access", token[q]>>}
      [] pc[q] = "delSession" -> {<<"session", token[q]>>}
      [] OTHER -> {}
\* Mutant: logout deletes the mapping and not the refresh key.
RemovesNoRefresh(q) ==
    CASE pc[q] = "delOld"     -> {<<"refresh", token[q]>>}
      [] pc[q] = "delAccess"  -> {<<"access", token[q]>>}
      [] pc[q] \in {"delRefresh", "delSession"} -> {<<"session", token[q]>>}
      [] OTHER -> {}

Removes(q) ==
    CASE pc[q] \in {"delOld", "delRefresh"} -> {<<"refresh", token[q]>>}
      [] pc[q] = "delAccess"                -> {<<"access", token[q]>>}
      [] pc[q] = "delSession"               -> {<<"session", token[q]>>}
      [] OTHER -> {}

\* What follows the login steps: login returns, refresh deletes the old key.
AfterLogin(q) == IF kind[q] = "refresh" THEN "delOld" ELSE "issued"

\* The command that follows when the store answers from the given keys ...
AfterAnswer(q, keys) ==
    CASE pc[q] = "getRefresh" ->
            IF <<"refresh", token[q]>> \in keys THEN "setAccess" ELSE "rejected"
      [] pc[q] = "guard" ->
            IF <<"access", token[q]>> \notin keys THEN "rejected"
            ELSE IF kind[q] = "logout" THEN "delAccess" ELSE "accepted"
      [] pc[q] = "setAccess"  -> "setRefresh"
      [] pc[q] = "setRefresh" -> "setSession"
      [] pc[q] = "setSession" -> AfterLogin(q)
      [] pc[q] = "delOld"     -> "issued"
      [] pc[q] = "delAccess"  -> "getSession"
      [] pc[q] = "getSession" ->
            IF <<"session", token[q]>> \in keys THEN "delRefresh" ELSE "loggedOut"
      [] pc[q] = "delRefresh" -> "delSession"
      [] pc[q] = "delSession" -> "loggedOut"

\* Mutant: logout goes on when the access key could not be deleted.
AfterErrorGoesOn(q) ==
    CASE pc[q] \in {"getRefresh", "guard"}    -> "rejected"
      [] pc[q] = "setAccess"                  -> "setRefresh"
      [] pc[q] \in {"setRefresh", "setSession"} -> AfterLogin(q)
      [] pc[q] = "delOld"                     -> "issued"
      [] pc[q] = "delAccess"                  -> "getSession"
      [] pc[q] \in {"getSession", "delSession"} -> "loggedOut"
      [] pc[q] = "delRefresh"                 -> "delSession"

\* ... and when it throws: the handlers swallow every error but those of
\* their first command.
AfterError(q) ==
    CASE pc[q] \in {"getRefresh", "guard"}    -> "rejected"
      [] pc[q] = "setAccess"                  -> "setRefresh"
      [] pc[q] \in {"setRefresh", "setSession"} -> AfterLogin(q)
      [] pc[q] = "delOld"                     -> "issued"
      [] pc[q] = "delAccess"                  -> "failed"
      [] pc[q] \in {"getSession", "delSession"} -> "loggedOut"
      [] pc[q] = "delRefresh"                 -> "delSession"

Goes(q, next) ==
    /\ pc' = [pc EXCEPT ![q] = next]
    /\ issued' = IF next = "issued" THEN issued \cup {q} ELSE issued
    /\ rotated' = IF next = "issued" /\ kind[q] = "refresh"
                  THEN rotated \cup {token[q]} ELSE rotated
    /\ loggedOut' = IF next = "loggedOut"
                    THEN loggedOut \cup {token[q]} ELSE loggedOut
    /\ revoked' = IF pc[q] = "delAccess" /\ next = "getSession"
                  THEN revoked \cup {<<at[q], token[q]>>} ELSE revoked
    /\ UNCHANGED <<kind, token, at, root, touched>>

Command(q) ==
    /\ pc[q] \in Commands
    /\ Serves(at[q], Adds(q), Removes(q))
    /\ Goes(q, AfterAnswer(q, Visible(at[q])))

CommandFallsBack(q) ==
    /\ pc[q] \in Commands
    /\ FallsBack(at[q], Adds(q), Removes(q))
    /\ Goes(q, AfterAnswer(q, memory[at[q]]))

CommandThrows(q) ==
    /\ pc[q] \in Commands
    /\ Throws(at[q], Adds(q), Removes(q))
    /\ Goes(q, AfterError(q))

\* A key outlives its TTL; auth:session is set after auth:refresh, with the
\* same TTL.
Expire(k, p) ==
    /\ <<k, p>> \in redis /\ p \in issued
    /\ k = "session" => <<"refresh", p>> \notin redis
    /\ redis' = redis \ {<<k, p>>}
    /\ touched' = touched \cup {p}
    /\ UNCHANGED <<requestVars, memory, fallbackActive, failures, fallbacks,
                   issued, root, revoked, loggedOut, rotated>>

Next ==
    \/ \E q \in Requests, b \in Backends :
          \/ Login(q, b)
          \/ \E p \in Requests : Refresh(q, b, p) \/ Logout(q, b, p) \/ Use(q, b, p)
    \/ \E q \in Requests : Command(q) \/ CommandFallsBack(q) \/ CommandThrows(q)
    \/ \E k \in {"access", "refresh", "session"}, p \in Requests : Expire(k, p)

Spec == Init /\ [][Next]_vars

--------------------------------------------------------------------------------
(* Properties. *)

\* A replica that has revoked an access token never accepts it again, around
\* failing commands, concurrent requests and the activation of its fallback.
RevokedHere ==
    \A b \in Backends, p \in Requests :
        <<b, p>> \in revoked => <<"access", p>> \notin Visible(b)

\* auth README.md:51, "revoga o access token ... tambem revoga o refresh";
\* jwt.strategy.ts:177: a key that a finished logout or refresh should have
\* killed survives in Redis only if a command has failed for it.
StaleKeysBounded ==
    fallbacks = 0 =>
        Cardinality({key \in redis :
            \/ key[1] \in {"access", "refresh"} /\ key[2] \in loggedOut
            \/ key[1] = "refresh" /\ key[2] \in rotated}) <= failures

\* Without failures a client's pair works at every replica until it is used
\* for a refresh or a logout or expires, whatever the other requests do.
UsableOnceIssued ==
    failures + fallbacks = 0 =>
        \A p \in issued \ touched :
            {<<"access", p>>, <<"refresh", p>>, <<"session", p>>} \subseteq redis

\* auth.service.ts:83-84 "so logout fully terminates the session": no pair of
\* the session is accepted when its logout has succeeded.
LogoutEndsSession ==
    \A p \in loggedOut, q \in issued :
        root[q] = root[p] => <<"access", q>> \notin redis

\* jwt.strategy.ts:167-170: a session goes on only from a refresh key that is
\* there.  It is open while a store has a refresh key of one of its pairs, or
\* a request is issuing one of its pairs, and over when there is neither;
\* then no failing command, fallback or late request brings it back.
Refreshable(p) ==
    <<"refresh", p>> \in redis \/ \E b \in Backends : <<"refresh", p>> \in memory[b]
Open == {root[p] : p \in {q \in Requests : Refreshable(q) \/ pc[q] \in Issuing}}
Over == {s \in Requests : root[s] = s} \ Open

Life == INSTANCE Lifetimes WITH Sessions <- Requests, open <- Open, over <- Over
SessionsEndOnce == Life!LifeSpec
================================================================================
