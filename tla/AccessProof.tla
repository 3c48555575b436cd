------------------------------ MODULE AccessProof ------------------------------
(*****************************************************************************)
(* What AuthSession promises for every number of requests, replicas and      *)
(* failures: its types, that a revoked access token stays revoked at its     *)
(* replica, that no request takes a key from a pair nobody touched, how many *)
(* keys outlive the end of their pair, and that no session comes back; and,  *)
(* of RateLimit, for every number of replicas, attempts and accounts, every  *)
(* limit and every window, that no counter is left without an expiry, and    *)
(* how many logins of an account pass in a window.                           *)
(*****************************************************************************)
EXTENDS AuthSession, RateLimit, FiniteSetTheorems, SequenceTheorems, TLAPS

--------------------------------------------------------------------------------
(* Sessions.                                                                 *)

\* A pair that was handed out is complete: its request is over.
IssuedDone == \A p \in issued : pc[p] = "issued"

\* The commands that work on the presented pair.
OnPresented == {"guard", "getRefresh", "delOld", "delAccess", "getSession",
                "delRefresh", "delSession"}

\* A handler is at a replica and works on a pair a client was given.
Presented ==
    \A q \in Requests :
        /\ pc[q] # "new" => at[q] \in Backends
        /\ pc[q] \in OnPresented => token[q] \in issued
        /\ pc[q] # "new" /\ kind[q] = "refresh" => token[q] \in issued

Shape == AuthTypeOK /\ IssuedDone /\ Presented

\* What may follow a command of q.
Follows(q, next) ==
    /\ next \in (Commands \cup Outcomes) \ {"guard", "getRefresh"}
    /\ next \in Issuing \cup {"issued"} => pc[q] \in Issuing \cup {"getRefresh"}
    /\ next \in {"delAccess", "getSession", "delRefresh", "delSession", "loggedOut"}
       => pc[q] \in OnPresented
    /\ next = "delOld" => kind[q] = "refresh"
    /\ next = "delAccess" => kind[q] = "logout"
    /\ next \in {"getSession", "delRefresh", "delSession"}
       => pc[q] \in {"delAccess", "getSession", "delRefresh"}

--------------------------------------------------------------------------------
(* The commands of the handlers. *)

\* Whatever the store answers, the handler goes on as it is written.
LEMMA AnswerFollows ==
    ASSUME NEW q \in Requests, NEW keys, pc[q] \in Commands
    PROVE  Follows(q, AfterAnswer(q, keys))
<1> DEFINE n == AfterAnswer(q, keys)
<1> USE DEF AfterAnswer, AfterLogin, Follows, Commands, Issuing, Outcomes, OnPresented
<1>1. CASE pc[q] = "getRefresh"
  <2>1. n \in {"setAccess", "rejected"} BY <1>1
  <2> QED BY <1>1, <2>1
<1>2. CASE pc[q] = "guard"
  <2>1. n \in {"rejected", "delAccess", "accepted"} BY <1>2
  <2> QED BY <1>2, <2>1
<1>3. CASE pc[q] = "setAccess" BY <1>3
<1>4. CASE pc[q] = "setRefresh" BY <1>4
<1>5. CASE pc[q] = "setSession"
  <2>1. n = "issued" \/ (n = "delOld" /\ kind[q] = "refresh") BY <1>5
  <2> QED BY <1>5, <2>1
<1>6. CASE pc[q] = "delOld" BY <1>6
<1>7. CASE pc[q] = "delAccess" BY <1>7
<1>8. CASE pc[q] = "getSession"
  <2>1. n \in {"delRefresh", "loggedOut"} BY <1>8
  <2> QED BY <1>8, <2>1
<1>9. CASE pc[q] \in {"delRefresh", "delSession"} BY <1>9
<1> QED BY <1>1, <1>2, <1>3, <1>4, <1>5, <1>6, <1>7, <1>8, <1>9

\* So it does when a command throws; a logout that could not delete the access
\* key ends there.
LEMMA ErrorFollows ==
    ASSUME NEW q \in Requests, pc[q] \in Commands
    PROVE  Follows(q, AfterError(q)) /\ (pc[q] = "delAccess" => AfterError(q) = "failed")
<1> DEFINE n == AfterError(q)
<1> USE DEF AfterError, AfterLogin, Follows, Commands, Issuing, Outcomes, OnPresented
<1>1. CASE pc[q] \in {"getRefresh", "guard"} BY <1>1
<1>2. CASE pc[q] = "setAccess" BY <1>2
<1>3. CASE pc[q] \in {"setRefresh", "setSession"}
  <2>1. n = "issued" \/ (n = "delOld" /\ kind[q] = "refresh") BY <1>3
  <2> QED BY <1>3, <2>1
<1>4. CASE pc[q] = "delOld" BY <1>4
<1>5. CASE pc[q] = "delAccess" BY <1>5
<1>6. CASE pc[q] \in {"getSession", "delSession"} BY <1>6
<1>7. CASE pc[q] = "delRefresh" BY <1>7
<1> QED BY <1>1, <1>2, <1>3, <1>4, <1>5, <1>6, <1>7

\* The keys a command writes are its own, those it deletes of the pair it
\* was given.
LEMMA AddsOwn ==
    ASSUME NEW q \in Requests, pc[q] \in Commands
    PROVE  /\ Adds(q) \subseteq {"access", "refresh", "session"} \X {q}
           /\ Removes(q) \subseteq {"access", "refresh", "session"} \X {token[q]}
           /\ Adds(q) # {} => pc[q] \in {"setAccess", "setRefresh", "setSession"}
           /\ Removes(q) # {} => pc[q] \in OnPresented
BY DEF Adds, Removes, OnPresented, Commands, Issuing

\* What a command does to the store: one of the three ways it may go.
Stores(q) == \/ Serves(at[q], Adds(q), Removes(q))
             \/ FallsBack(at[q], Adds(q), Removes(q))
             \/ Throws(at[q], Adds(q), Removes(q))

\* Each step of a request is a change of the store and a step of its handler.
LEMMA CommandSteps ==
    ASSUME NEW q \in Requests, Command(q) \/ CommandFallsBack(q) \/ CommandThrows(q)
    PROVE  /\ pc[q] \in Commands /\ Stores(q)
           /\ \E next : Follows(q, next) /\ Goes(q, next)
BY AnswerFollows, ErrorFollows DEF Command, CommandFallsBack, CommandThrows, Stores

--------------------------------------------------------------------------------
(* Types. *)

StoreTyped ==
    /\ redis \subseteq Keys /\ memory \in [Backends -> SUBSET Keys]
    /\ fallbackActive \in [Backends -> BOOLEAN]
    /\ failures \in 0..MaxFailures /\ fallbacks \in 0..MaxFallbacks

\* Whatever becomes of a command, the stores keep their types.
LEMMA StoresTyped ==
    ASSUME Shape, NEW q \in Requests, pc[q] \in Commands, Stores(q)
    PROVE  StoreTyped'
<1>1. at[q] \in Backends BY DEF Shape, Presented, Commands, Issuing
<1>2. Adds(q) \subseteq Keys BY AddsOwn DEF Keys
<1>3. StoreTyped BY DEF Shape, AuthTypeOK, StoreTyped
<1>4. \A keys \in SUBSET Keys : Update(keys, Adds(q), Removes(q)) \in SUBSET Keys
  BY <1>2 DEF Update
<1>5. CASE Serves(at[q], Adds(q), Removes(q))
  BY <1>1, <1>3, <1>4, <1>5 DEF Serves, StoreTyped
<1>6. CASE FallsBack(at[q], Adds(q), Removes(q))
  BY <1>1, <1>3, <1>4, <1>6, AuthAssumption DEF FallsBack, MaybeDone, StoreTyped
<1>7. CASE Throws(at[q], Adds(q), Removes(q))
  BY <1>1, <1>3, <1>4, <1>7, AuthAssumption DEF Throws, MaybeDone, StoreTyped
<1> QED BY <1>5, <1>6, <1>7 DEF Stores

\* A request that goes on as written keeps the types and what they rest on.
LEMMA GoesShape ==
    ASSUME Shape, NEW q \in Requests, pc[q] \in Commands, StoreTyped',
           NEW next, Follows(q, next), Goes(q, next)
    PROVE  Shape'
<1> USE DEF Shape
<1>1. /\ next \in Commands \cup Outcomes
      /\ next \in OnPresented \cup {"loggedOut"} => token[q] \in issued
      /\ q \notin issued
  BY DEF Follows, Presented, IssuedDone, OnPresented, Commands, Issuing
<1>2. issued \subseteq issued' /\ issued' \subseteq Requests
  BY DEF Goes, AuthTypeOK
<1>3. loggedOut' \subseteq issued' /\ rotated' \subseteq issued'
  BY <1>1, <1>2 DEF Goes, AuthTypeOK, Presented, OnPresented, Commands, Issuing
<1>4. revoked' \subseteq Backends \X Requests
  <2>1. pc[q] = "delAccess" => token[q] \in Requests
    BY DEF Presented, AuthTypeOK, OnPresented
  <2>2. at[q] \in Backends BY DEF Presented, Commands, Issuing
  <2> QED BY <2>1, <2>2 DEF Goes, AuthTypeOK
<1>5. AuthTypeOK'
  BY <1>1, <1>2, <1>3, <1>4 DEF AuthTypeOK, StoreTyped, Goes
<1>6. IssuedDone'
  BY <1>1 DEF IssuedDone, Goes, AuthTypeOK
<1>7. Presented'
  BY <1>1, <1>2 DEF Presented, Goes, AuthTypeOK, OnPresented, Commands,
                       Issuing, Outcomes
<1> QED BY <1>5, <1>6, <1>7

\* A request that arrives presents a pair that was issued, or none at all.
LEMMA ArrivesShape ==
    ASSUME Shape, NEW q \in Requests, NEW b \in Backends,
           NEW k \in {"login", "refresh", "logout", "use"},
           NEW p \in Requests \cup {None}, k # "login" => p \in issued,
           NEW first \in {"setAccess", "getRefresh", "guard"},
           k = "login" <=> first = "setAccess",
           Arrives(q, b, k, p, first), UNCHANGED <<storeVars, issued, revoked, loggedOut, rotated>>,
           root' \in [Requests -> Requests \cup {None}], touched' \subseteq Requests
    PROVE  Shape'
<1> USE DEF Shape
<1>1. AuthTypeOK'
  <2>1. /\ pc' \in [Requests -> Commands \cup Outcomes \cup {"new"}]
        /\ kind' \in [Requests -> {"login", "refresh", "logout", "use", None}]
        /\ token' \in [Requests -> Requests \cup {None}]
        /\ at' \in [Requests -> Backends \cup {None}]
    BY DEF AuthTypeOK, Arrives, Commands, Issuing
  <2> QED BY <2>1 DEF AuthTypeOK, storeVars
<1>2. IssuedDone'
  BY DEF IssuedDone, Arrives, AuthTypeOK
<1>3. Presented'
  BY DEF Presented, Arrives, AuthTypeOK, OnPresented
<1> QED BY <1>1, <1>2, <1>3

\* At first nothing has been handed out.
LEMMA ShapeInit == Init => Shape
BY AuthAssumption DEF Init, Shape, AuthTypeOK, IssuedDone, Presented, OnPresented,
                      Commands, Issuing, Outcomes

\* Every step keeps the types.
LEMMA ShapeStep == Shape /\ [Next]_vars => Shape'
<1> SUFFICES ASSUME Shape, [Next]_vars PROVE Shape'
  OBVIOUS
<1> USE DEF Shape
<1>1. ASSUME NEW q \in Requests, NEW b \in Backends, Login(q, b) PROVE Shape'
  BY <1>1, ArrivesShape DEF Login, AuthTypeOK, storeVars
<1>2. ASSUME NEW q \in Requests, NEW b \in Backends, NEW p \in Requests, Refresh(q, b, p)
      PROVE  Shape'
  <2>1. root' \in [Requests -> Requests \cup {None}] /\ touched' \subseteq Requests
    BY <1>2 DEF Refresh, AuthTypeOK
  <2> QED BY <1>2, <2>1, ArrivesShape DEF Refresh
<1>3. ASSUME NEW q \in Requests, NEW b \in Backends, NEW p \in Requests, Logout(q, b, p)
      PROVE  Shape'
  <2>1. root' \in [Requests -> Requests \cup {None}] /\ touched' \subseteq Requests
    BY <1>3 DEF Logout, AuthTypeOK
  <2> QED BY <1>3, <2>1, ArrivesShape DEF Logout
<1>4. ASSUME NEW q \in Requests, NEW b \in Backends, NEW p \in Requests, Use(q, b, p)
      PROVE  Shape'
  <2>1. /\ root' \in [Requests -> Requests \cup {None}] /\ touched' \subseteq Requests
        /\ UNCHANGED <<storeVars, issued, revoked, loggedOut, rotated>>
    BY <1>4 DEF Use, AuthTypeOK, historyVars
  <2> QED BY <1>4, <2>1, ArrivesShape DEF Use
<1>5. ASSUME NEW q \in Requests, Command(q) \/ CommandFallsBack(q) \/ CommandThrows(q)
      PROVE  Shape'
  <2>1. PICK next : Follows(q, next) /\ Goes(q, next) BY <1>5, CommandSteps
  <2>2. pc[q] \in Commands /\ Stores(q) BY <1>5, CommandSteps
  <2>3. StoreTyped' BY <2>2, StoresTyped
  <2> QED BY <2>1, <2>2, <2>3, GoesShape
<1>6. ASSUME NEW k, NEW p \in Requests, Expire(k, p) PROVE Shape'
  BY <1>6 DEF Expire, requestVars, AuthTypeOK, IssuedDone, Presented
<1>7. CASE UNCHANGED vars
  BY <1>7 DEF vars, requestVars, storeVars, historyVars, AuthTypeOK, IssuedDone, Presented
<1> QED BY <1>1, <1>2, <1>3, <1>4, <1>5, <1>6, <1>7 DEF Next

\* The requests, the pairs they present, both stores and the history keep
\* their types: a pair is presented only once it has been handed out, and
\* what logout and refresh report as done they did to such a pair.
THEOREM AuthTypeCorrect == Spec => []AuthTypeOK
<1>1. Shape => AuthTypeOK BY DEF Shape
<1> QED BY ShapeInit, ShapeStep, <1>1, PTL DEF Spec

--------------------------------------------------------------------------------
(* Revocation. *)

\* The memory of a replica is empty until its fallback is active, and only
\* pairs that were handed out are revoked: nobody writes their keys again.
Revocation ==
    /\ Shape
    /\ RevokedHere
    /\ \A b \in Backends : ~fallbackActive[b] => memory[b] = {}
    /\ \A kept \in revoked : kept[2] \in issued

\* A command writes no access key of a pair that was handed out.
LEMMA NoAccessWritten ==
    ASSUME Shape, NEW q \in Requests, pc[q] \in Commands, NEW p \in issued,
           NEW keys, <<"access", p>> \notin keys
    PROVE  <<"access", p>> \notin Update(keys, Adds(q), Removes(q))
<1>1. p # q BY DEF Shape, IssuedDone, Commands, Issuing
<1>2. <<"access", p>> \notin Adds(q) BY <1>1, AddsOwn
<1> QED BY <1>2 DEF Update

\* The key whose deletion is acknowledged is gone where it was deleted.
LEMMA AccessDeleted ==
    ASSUME NEW q \in Requests, pc[q] = "delAccess", NEW keys
    PROVE  <<"access", token[q]>> \notin Update(keys, Adds(q), Removes(q))
BY DEF Update, Removes

\* No command brings a revoked key back, whichever store it ends in.
LEMMA RevocationCommand ==
    ASSUME Revocation, NEW q \in Requests, pc[q] \in Commands,
           Stores(q), NEW next, Goes(q, next), Shape',
           pc[q] = "delAccess" /\ next = "getSession" =>
               \/ Serves(at[q], Adds(q), Removes(q))
               \/ FallsBack(at[q], Adds(q), Removes(q))
    PROVE  Revocation'
<1> USE DEF Revocation
<1> DEFINE b0 == at[q]
           After(keys) == Update(keys, Adds(q), Removes(q))
<1>1. b0 \in Backends BY DEF Shape, Presented, Commands, Issuing
<1>2. issued \subseteq issued' BY DEF Goes
<1>3. /\ memory \in [Backends -> SUBSET Keys]
      /\ fallbackActive \in [Backends -> BOOLEAN]
      /\ revoked \subseteq Backends \X Requests
  BY DEF Shape, AuthTypeOK
<1>4. \A b \in Backends : ~fallbackActive'[b] => memory'[b] = {}
  BY <1>1, <1>3 DEF Stores, Serves, FallsBack, Throws
<1>5. \A kept \in revoked' : kept[2] \in issued'
  <2>1. pc[q] = "delAccess" => token[q] \in issued
    BY DEF Shape, Presented, OnPresented
  <2> QED BY <1>2, <2>1 DEF Goes
<1>6. ASSUME NEW b \in Backends, NEW p \in Requests, <<b, p>> \in revoked'
      PROVE  <<"access", p>> \notin Visible(b)'
  <2>1. p \in issued
    <3>1. pc[q] = "delAccess" => token[q] \in issued
      BY DEF Shape, Presented, OnPresented
    <3> QED BY <1>6, <3>1 DEF Goes
  <2>2. CASE <<b, p>> \in revoked
    <3>1. <<"access", p>> \notin Visible(b) BY <2>2, <1>3 DEF RevokedHere
    <3>2. CASE fallbackActive[b]
      <4>1. <<"access", p>> \notin memory[b] BY <3>1, <3>2 DEF Visible
      <4>2. <<"access", p>> \notin After(memory[b]) BY <4>1, <2>1, NoAccessWritten
      <4>3. /\ fallbackActive'[b] = TRUE
            /\ memory'[b] = memory[b] \/ memory'[b] = After(memory[b])
        BY <1>1, <1>3, <3>2 DEF Stores, Serves, FallsBack, Throws
      <4> QED BY <4>1, <4>2, <4>3 DEF Visible
    <3>3. CASE ~fallbackActive[b]
      <4>1. <<"access", p>> \notin redis BY <3>1, <3>3 DEF Visible
      <4>2. <<"access", p>> \notin After(redis) BY <4>1, <2>1, NoAccessWritten
      <4>3. <<"access", p>> \notin After({}) BY <2>1, NoAccessWritten
      <4>4. memory[b] = {} BY <3>3
      <4>5. redis' = redis \/ redis' = After(redis)
        BY DEF Stores, Serves, FallsBack, Throws, MaybeDone
      <4>6. fallbackActive'[b] => memory'[b] = After({})
        BY <1>1, <1>3, <3>3, <4>4 DEF Stores, Serves, FallsBack, Throws
      <4> QED BY <4>1, <4>2, <4>3, <4>5, <4>6 DEF Visible
    <3> QED BY <3>2, <3>3, <1>3
  <2>3. CASE <<b, p>> \notin revoked
    <3>1. b = b0 /\ p = token[q] /\ pc[q] = "delAccess" /\ next = "getSession"
      BY <1>6, <2>3 DEF Goes
    <3>2. \A keys : <<"access", p>> \notin After(keys) BY <3>1, AccessDeleted
    <3>3. Visible(b)' = After(Visible(b)) \/ Visible(b)' = After(memory[b])
      BY <3>1, <1>1, <1>3 DEF Stores, Serves, FallsBack, Visible
    <3> QED BY <3>2, <3>3
  <2> QED BY <2>2, <2>3
<1>7. RevokedHere' BY <1>6 DEF RevokedHere
<1> QED BY <1>4, <1>5, <1>7

\* Nor does any other step.
LEMMA RevocationStep == Revocation /\ [Next]_vars => Revocation'
<1> SUFFICES ASSUME Revocation, [Next]_vars PROVE Revocation'
  OBVIOUS
<1> USE DEF Revocation
<1>1. Shape' BY ShapeStep
<1>2. ASSUME UNCHANGED <<redis, memory, fallbackActive, issued, revoked>>
      PROVE  Revocation'
  BY <1>1, <1>2 DEF RevokedHere, Visible
<1>3. ASSUME NEW q \in Requests, Command(q) \/ CommandFallsBack(q) PROVE Revocation'
  BY <1>1, <1>3, RevocationCommand DEF Command, CommandFallsBack, Stores
<1>4. ASSUME NEW q \in Requests, CommandThrows(q) PROVE Revocation'
  <2>1. pc[q] = "delAccess" => AfterError(q) = "failed"
    BY <1>4, ErrorFollows DEF CommandThrows
  <2> QED BY <1>1, <1>4, <2>1, RevocationCommand DEF CommandThrows, Stores
<1>5. ASSUME NEW k, NEW p \in Requests, Expire(k, p) PROVE Revocation'
  BY <1>1, <1>5 DEF Expire, RevokedHere, Visible
<1>6. ASSUME NEW q \in Requests, NEW b \in Backends,
             Login(q, b) \/ \E p \in Requests : Refresh(q, b, p) \/ Logout(q, b, p) \/ Use(q, b, p)
      PROVE  Revocation'
  BY <1>2, <1>6 DEF Login, Refresh, Logout, Use, storeVars, historyVars
<1>7. CASE UNCHANGED vars
  BY <1>2, <1>7 DEF vars, storeVars, historyVars
<1> QED BY <1>3, <1>4, <1>5, <1>6, <1>7 DEF Next

\* A replica that has revoked an access token never accepts it again: no
\* request writes the key of a pair that was handed out, and the memory the
\* fallback starts with is empty.
THEOREM RevokedStays == Spec => []RevokedHere
<1>1. Init => Revocation
  BY ShapeInit DEF Revocation, RevokedHere, Init
<1>2. Revocation => RevokedHere BY DEF Revocation
<1> QED BY <1>1, <1>2, RevocationStep, PTL DEF Spec

--------------------------------------------------------------------------------
(* Requests do not disturb each other's pairs. *)

\* The keys that a request has written by the time it is about to do pc.
Written(q) ==
    CASE pc[q] = "setRefresh" -> {<<"access", q>>}
      [] pc[q] = "setSession" -> {<<"access", q>>, <<"refresh", q>>}
      [] pc[q] \in {"delOld", "issued"} ->
            {<<"access", q>>, <<"refresh", q>>, <<"session", q>>}
      [] OTHER -> {}

\* A command that deletes works on a pair that was presented for it, and the
\* keys of a pair nobody has touched are there as soon as they are written.
Undisturbed ==
    /\ Shape
    /\ touched \subseteq issued
    /\ \A q \in Requests :
          /\ pc[q] # "new" /\ kind[q] \in {"refresh", "logout"} => token[q] \in touched
          /\ pc[q] \in OnPresented \ {"guard", "getRefresh"} => token[q] \in touched
    /\ failures + fallbacks = 0 =>
          /\ \A b \in Backends : ~fallbackActive[b]
          /\ \A q \in Requests : q \notin touched => Written(q) \subseteq redis

\* The login writes its three keys in order.
LEMMA LoginOrder ==
    ASSUME Shape, NEW q \in Requests, NEW keys, pc[q] \in Commands,
           Goes(q, AfterAnswer(q, keys))
    PROVE  Written(q)' \subseteq Written(q) \cup Adds(q)
<1> DEFINE n == AfterAnswer(q, keys)
<1>1. pc'[q] = n BY DEF Goes, Shape, AuthTypeOK
<1> HIDE DEF n
<1> USE DEF Written, Adds
<1>2. CASE pc[q] = "setAccess"
  <2>1. n = "setRefresh" BY <1>2 DEF n, AfterAnswer
  <2> QED BY <1>1, <1>2, <2>1
<1>3. CASE pc[q] = "setRefresh"
  <2>1. n = "setSession" BY <1>3 DEF n, AfterAnswer
  <2> QED BY <1>1, <1>3, <2>1
<1>4. CASE pc[q] = "setSession"
  <2>1. n \in {"delOld", "issued"} BY <1>4 DEF n, AfterAnswer, AfterLogin
  <2> QED BY <1>1, <1>4, <2>1
<1>5. CASE pc[q] = "delOld"
  <2>1. n = "issued" BY <1>5 DEF n, AfterAnswer
  <2> QED BY <1>1, <1>5, <2>1
<1>6. CASE pc[q] \in {"getRefresh", "guard", "delAccess", "getSession", "delRefresh", "delSession"}
  <2>1. n \in {"setAccess", "rejected", "accepted"} \cup OnPresented \cup {"loggedOut"}
    BY <1>6 DEF n, AfterAnswer, OnPresented
  <2>2. n # "delOld"
    BY <1>6 DEF n, AfterAnswer
  <2> QED BY <1>1, <1>6, <2>1, <2>2 DEF OnPresented
<1> QED BY <1>2, <1>3, <1>4, <1>5, <1>6 DEF Commands, Issuing

\* What other requests have written is not changed by a step of q.
LEMMA OthersWritten ==
    ASSUME Shape, NEW q \in Requests, NEW r \in Requests, r # q,
           NEW next, Goes(q, next)
    PROVE  Written(r)' = Written(r)
<1>1. pc'[r] = pc[r] BY DEF Goes, Shape, AuthTypeOK
<1> QED BY <1>1 DEF Written

\* The keys written for r are r's own.
LEMMA WrittenOwn ==
    ASSUME NEW r
    PROVE  Written(r) \subseteq {"access", "refresh", "session"} \X {r}
BY DEF Written

\* A command writes the keys of its own pair or deletes those of one that was
\* presented.
LEMMA UndisturbedCommand ==
    ASSUME Undisturbed, NEW q \in Requests, Shape',
           Command(q) \/ CommandFallsBack(q) \/ CommandThrows(q)
    PROVE  Undisturbed'
<1> USE DEF Undisturbed
<1>1. PICK next : Follows(q, next) /\ Goes(q, next) BY CommandSteps
<1>2. pc[q] \in Commands /\ Stores(q) BY CommandSteps
<1>3. /\ pc \in [Requests -> Commands \cup Outcomes \cup {"new"}]
      /\ fallbackActive \in [Backends -> BOOLEAN]
      /\ failures \in Nat /\ fallbacks \in Nat
      /\ at[q] \in Backends
  BY <1>2, AuthAssumption DEF Shape, AuthTypeOK, Presented, Commands, Issuing
<1>4. /\ pc' = [pc EXCEPT ![q] = next]
      /\ kind' = kind /\ token' = token /\ touched' = touched /\ issued \subseteq issued'
  BY <1>1 DEF Goes
<1>5. touched' \subseteq issued' BY <1>4
<1>6. ASSUME NEW r \in Requests
      PROVE  /\ pc'[r] # "new" /\ kind'[r] \in {"refresh", "logout"} => token'[r] \in touched'
             /\ pc'[r] \in OnPresented \ {"guard", "getRefresh"} => token'[r] \in touched'
  <2>1. CASE r # q BY <2>1, <1>3, <1>4
  <2>2. CASE r = q
    BY <2>2, <1>1, <1>2, <1>3, <1>4 DEF Follows, OnPresented, Commands, Issuing
  <2> QED BY <2>1, <2>2
<1>7. ASSUME failures' + fallbacks' = 0
      PROVE  /\ \A b \in Backends : ~fallbackActive'[b]
             /\ \A r \in Requests : r \notin touched' => Written(r)' \subseteq redis'
  <2>1. /\ Command(q)
        /\ Serves(at[q], Adds(q), Removes(q))
        /\ failures' = failures /\ fallbacks' = fallbacks
    BY <1>3, <1>7 DEF Command, CommandFallsBack, CommandThrows, Serves, FallsBack, Throws
  <2>2. /\ \A b \in Backends : ~fallbackActive[b]
        /\ \A r \in Requests : r \notin touched => Written(r) \subseteq redis
    BY <1>7, <2>1
  <2>3. fallbackActive' = fallbackActive /\ redis' = Update(redis, Adds(q), Removes(q))
    BY <1>3, <2>1, <2>2 DEF Serves
  <2>4. Removes(q) \subseteq {"access", "refresh", "session"} \X touched
    <3>1. pc[q] \notin OnPresented \ {"guard", "getRefresh"} => Removes(q) = {}
      BY <1>2 DEF Removes, OnPresented, Commands, Issuing
    <3> QED BY <1>2, <3>1, AddsOwn
  <2>5. ASSUME NEW r \in Requests, r \notin touched PROVE Written(r)' \subseteq redis'
    <3>1. Written(r)' \subseteq Written(r) \cup Adds(q)
      <4>1. CASE r = q BY <1>2, <2>1, <4>1, LoginOrder DEF Command
      <4>2. CASE r # q BY <1>1, <4>2, OthersWritten
      <4> QED BY <4>1, <4>2
    <3>2. Written(r)' \subseteq {"access", "refresh", "session"} \X {r}
      BY WrittenOwn DEF Written
    <3>3. Written(r)' \cap Removes(q) = {} BY <2>4, <2>5, <3>2
    <3> QED BY <2>2, <2>3, <2>5, <3>1, <3>3 DEF Update
  <2> QED BY <1>4, <2>2, <2>3, <2>5
<1> QED BY <1>5, <1>6, <1>7

\* A request that arrives has written nothing yet, and its pair is touched.
LEMMA UndisturbedArrives ==
    ASSUME Undisturbed, NEW q \in Requests, NEW b \in Backends, Shape',
           NEW k, NEW p, NEW first \in {"setAccess", "getRefresh", "guard"},
           Arrives(q, b, k, p, first), UNCHANGED <<storeVars, issued>>,
           touched \subseteq touched', touched' \subseteq issued,
           k \in {"refresh", "logout"} => p \in touched'
    PROVE  Undisturbed'
<1> USE DEF Undisturbed
<1>1. /\ pc' = [pc EXCEPT ![q] = first] /\ kind' = [kind EXCEPT ![q] = k]
      /\ token' = [token EXCEPT ![q] = p]
      /\ DOMAIN pc = Requests /\ DOMAIN kind = Requests /\ DOMAIN token = Requests
  BY DEF Arrives, Shape, AuthTypeOK
<1>2. ASSUME NEW r \in Requests
      PROVE  /\ pc'[r] # "new" /\ kind'[r] \in {"refresh", "logout"} => token'[r] \in touched'
             /\ pc'[r] \in OnPresented \ {"guard", "getRefresh"} => token'[r] \in touched'
  <2>1. CASE r # q BY <1>1, <2>1
  <2>2. CASE r = q BY <1>1, <2>2 DEF OnPresented
  <2> QED BY <2>1, <2>2
<1>3. ASSUME NEW r \in Requests PROVE Written(r)' = Written(r) \/ Written(r)' = {}
  <2>1. CASE r # q
    <3>1. pc'[r] = pc[r] BY <1>1, <2>1
    <3> QED BY <3>1 DEF Written
  <2>2. CASE r = q
    <3>1. pc'[r] = first BY <1>1, <2>2
    <3> QED BY <3>1 DEF Written
  <2> QED BY <2>1, <2>2
<1> QED BY <1>2, <1>3 DEF storeVars

\* Every step keeps the keys of the pairs nobody touched.
LEMMA UndisturbedStep == Undisturbed /\ [Next]_vars => Undisturbed'
<1> SUFFICES ASSUME Undisturbed, [Next]_vars PROVE Undisturbed'
  OBVIOUS
<1>1. Shape' BY ShapeStep DEF Undisturbed
<1>2. ASSUME NEW q \in Requests, NEW b \in Backends, Login(q, b) PROVE Undisturbed'
  BY <1>1, <1>2, UndisturbedArrives DEF Login, Undisturbed
<1>3. ASSUME NEW q \in Requests, NEW b \in Backends, NEW p \in Requests, Refresh(q, b, p)
      PROVE  Undisturbed'
  BY <1>1, <1>3, UndisturbedArrives DEF Refresh, Undisturbed
<1>4. ASSUME NEW q \in Requests, NEW b \in Backends, NEW p \in Requests, Logout(q, b, p)
      PROVE  Undisturbed'
  BY <1>1, <1>4, UndisturbedArrives DEF Logout, Undisturbed
<1>5. ASSUME NEW q \in Requests, NEW b \in Backends, NEW p \in Requests, Use(q, b, p)
      PROVE  Undisturbed'
  BY <1>1, <1>5, UndisturbedArrives DEF Use, Undisturbed, historyVars
<1>6. ASSUME NEW q \in Requests, Command(q) \/ CommandFallsBack(q) \/ CommandThrows(q)
      PROVE  Undisturbed'
  BY <1>1, <1>6, UndisturbedCommand
<1>7. ASSUME NEW k, NEW p \in Requests, Expire(k, p) PROVE Undisturbed'
  <2>1. /\ UNCHANGED <<pc, kind, token, fallbackActive, failures, fallbacks, issued>>
        /\ redis' = redis \ {<<k, p>>} /\ touched' = touched \cup {p} /\ p \in issued
    BY <1>7 DEF Expire, requestVars
  <2>2. \A r : Written(r)' = Written(r) BY <2>1 DEF Written
  <2>3. \A r : r # p => <<k, p>> \notin Written(r) BY WrittenOwn
  <2> QED BY <1>1, <2>1, <2>2, <2>3 DEF Undisturbed
<1>8. CASE UNCHANGED vars
  <2>1. UNCHANGED <<pc, kind, token, redis, fallbackActive, failures, fallbacks, issued, touched>>
    BY <1>8 DEF vars, requestVars, storeVars, historyVars
  <2>2. \A r : Written(r)' = Written(r) BY <2>1 DEF Written
  <2> QED BY <1>1, <2>1, <2>2 DEF Undisturbed
<1> QED BY <1>2, <1>3, <1>4, <1>5, <1>6, <1>7, <1>8 DEF Next

\* Without failures a client's pair works at every replica until it is used
\* for a refresh or a logout or expires: the handlers only delete keys of the
\* pair they were given.
THEOREM UsableHolds == Spec => []UsableOnceIssued
<1>1. Init => Undisturbed
  <2>1. Init => Shape BY ShapeInit
  <2> QED BY <2>1 DEF Undisturbed, Init, OnPresented, Written
<1>2. Undisturbed => UsableOnceIssued
  <2>1. ASSUME Undisturbed, NEW p \in issued
        PROVE  Written(p) = {<<"access", p>>, <<"refresh", p>>, <<"session", p>>} /\ p \in Requests
    <3>1. pc[p] = "issued" /\ p \in Requests
      BY <2>1 DEF Undisturbed, Shape, IssuedDone, AuthTypeOK
    <3> QED BY <3>1 DEF Written
  <2> QED BY <2>1 DEF Undisturbed, UsableOnceIssued
<1> QED BY <1>1, <1>2, UndisturbedStep, PTL DEF Spec

--------------------------------------------------------------------------------
(* Keys that should be dead. *)

\* The refresh key of p should be gone, nobody can find it any more by p's
\* session, or a logout that could not delete it is about to delete the session.
Suspect(p) ==
    \/ p \in loggedOut \cup rotated
    \/ pc[p] \in {"delOld", "issued"} /\ <<"session", p>> \notin redis
    \/ \E q \in Requests : pc[q] = "delSession" /\ token[q] = p

Blamed == {key \in redis : key[1] = "refresh" /\ Suspect(key[2])}

\* A logout that has come past the deletion of the access key of p.
LeftAccess(p) ==
    \/ p \in loggedOut
    \/ \E q \in Requests : pc[q] \in {"getSession", "delRefresh", "delSession"} /\ token[q] = p

\* While Redis serves everybody, those access keys are gone, and every refresh
\* key that survives its end has a failed command of its own.
Deadline ==
    fallbacks = 0 =>
        /\ \A b \in Backends : ~fallbackActive[b]
        /\ \A p \in Requests : LeftAccess(p) => <<"access", p>> \notin redis
        /\ IsFiniteSet(Blamed) /\ Cardinality(Blamed) <= failures

DeadlineInv == Shape /\ Deadline

\* The pair a failing command is charged to.
Charge(q) == IF pc[q] \in {"setRefresh", "setSession"} THEN q ELSE token[q]

\* What a command that Redis serves may do to its keys.
Touches(q) ==
    redis' \in {redis, Update(redis, Adds(q), Removes(q))}

\* One key more is one more to blame.
LEMMA BlamedAtMost ==
    ASSUME IsFiniteSet(Blamed), NEW key, Blamed' \subseteq Blamed \cup {key}
    PROVE  /\ IsFiniteSet(Blamed') /\ Cardinality(Blamed') \in Nat /\ Cardinality(Blamed) \in Nat
           /\ Cardinality(Blamed') <= Cardinality(Blamed) + 1
           /\ Blamed' \subseteq Blamed => Cardinality(Blamed') <= Cardinality(Blamed)
<1>0. Cardinality(Blamed) \in Nat BY FS_CardinalityType
<1>1. /\ IsFiniteSet(Blamed \cup {key})
      /\ Cardinality(Blamed \cup {key}) <= Cardinality(Blamed) + 1
      /\ Cardinality(Blamed \cup {key}) \in Nat
  BY <1>0, FS_AddElement, FS_CardinalityType
<1>2. IsFiniteSet(Blamed') /\ Cardinality(Blamed') \in Nat
      /\ Cardinality(Blamed') <= Cardinality(Blamed \cup {key})
  BY <1>1, FS_Subset, FS_CardinalityType
<1>3. Blamed' \subseteq Blamed => Cardinality(Blamed') <= Cardinality(Blamed)
  BY FS_Subset
<1> QED BY <1>0, <1>1, <1>2, <1>3

\* Where the handlers go from each command, exactly: when the store answers from
\* the given keys, and when it throws.
GoesOnAnswer(q, next, keys) ==
    \/ pc[q] = "getRefresh" /\ next \in {"setAccess", "rejected"}
    \/ pc[q] = "guard" /\ next \in {"rejected", "delAccess", "accepted"}
    \/ pc[q] = "setAccess" /\ next = "setRefresh"
    \/ pc[q] = "setRefresh" /\ next = "setSession"
    \/ pc[q] = "setSession" /\ next = "delOld"
    \/ pc[q] = "setSession" /\ next = "issued" /\ kind[q] # "refresh"
    \/ pc[q] = "delOld" /\ next = "issued"
    \/ pc[q] = "delAccess" /\ next = "getSession"
    \/ pc[q] = "getSession" /\ next = "delRefresh"
    \/ pc[q] = "getSession" /\ next = "loggedOut" /\ <<"session", token[q]>> \notin keys
    \/ pc[q] = "delRefresh" /\ next = "delSession"
    \/ pc[q] = "delSession" /\ next = "loggedOut"

GoesOnError(q, next) ==
    \/ pc[q] \in {"getRefresh", "guard"} /\ next = "rejected"
    \/ pc[q] = "setAccess" /\ next = "setRefresh"
    \/ pc[q] \in {"setRefresh", "setSession"} /\ next = "delOld"
    \/ pc[q] \in {"setRefresh", "setSession"} /\ next = "issued" /\ kind[q] # "refresh"
    \/ pc[q] = "delOld" /\ next = "issued"
    \/ pc[q] = "delAccess" /\ next = "failed"
    \/ pc[q] \in {"getSession", "delSession"} /\ next = "loggedOut"
    \/ pc[q] = "delRefresh" /\ next = "delSession"

\* What follows an answer, command by command ...
LEMMA AnswerExact ==
    ASSUME NEW q \in Requests, NEW keys, pc[q] \in Commands
    PROVE  GoesOnAnswer(q, AfterAnswer(q, keys), keys)
<1> USE DEF AfterAnswer, AfterLogin, GoesOnAnswer, Commands, Issuing
<1>1. CASE pc[q] = "getRefresh" BY <1>1
<1>2. CASE pc[q] = "guard" BY <1>2
<1>3. CASE pc[q] \in {"setAccess", "setRefresh"} BY <1>3
<1>4. CASE pc[q] = "setSession" BY <1>4
<1>5. CASE pc[q] \in {"delOld", "delAccess"} BY <1>5
<1>6. CASE pc[q] = "getSession" BY <1>6
<1>7. CASE pc[q] \in {"delRefresh", "delSession"} BY <1>7
<1> QED BY <1>1, <1>2, <1>3, <1>4, <1>5, <1>6, <1>7

\* ... and what follows an error.
LEMMA ErrorExact ==
    ASSUME NEW q \in Requests, pc[q] \in Commands
    PROVE  GoesOnError(q, AfterError(q))
<1> USE DEF AfterError, AfterLogin, GoesOnError, Commands, Issuing
<1>1. CASE pc[q] \in {"getRefresh", "guard"} BY <1>1
<1>2. CASE pc[q] = "setAccess" BY <1>2
<1>3. CASE pc[q] \in {"setRefresh", "setSession"} BY <1>3
<1>4. CASE pc[q] \in {"delOld", "delAccess"} BY <1>4
<1>5. CASE pc[q] \in {"getSession", "delSession", "delRefresh"} BY <1>5
<1> QED BY <1>1, <1>2, <1>3, <1>4, <1>5

\* What Goes does to the state that matters here.
Moved(q, next) ==
    /\ pc' = [pc EXCEPT ![q] = next] /\ token' = token
    /\ loggedOut' = IF next = "loggedOut" THEN loggedOut \cup {token[q]} ELSE loggedOut
    /\ rotated' = IF next = "issued" /\ kind[q] = "refresh" THEN rotated \cup {token[q]} ELSE rotated

\* A request that goes on moves itself alone.
LEMMA GoesMoves == \A q \in Requests : \A next : Goes(q, next) => Moved(q, next)
BY DEF Goes, Moved

\* No command brings back the access key of a pair a logout is done with.
LEMMA AccessStaysLeft ==
    ASSUME Shape, NEW q \in Requests, pc[q] \in Commands, Touches(q), NEW next, Moved(q, next),
           \/ GoesOnAnswer(q, next, redis) /\ redis' = Update(redis, Adds(q), Removes(q))
           \/ GoesOnError(q, next),
           \A p \in Requests : LeftAccess(p) => <<"access", p>> \notin redis,
           NEW p \in Requests, LeftAccess(p)'
    PROVE  <<"access", p>> \notin redis'
<1>1. pc \in [Requests -> Commands \cup Outcomes \cup {"new"}]
  BY DEF Shape, AuthTypeOK
<1>2. \/ LeftAccess(p)
      \/ pc[q] = "delAccess" /\ next = "getSession" /\ token[q] = p
  <2>1. CASE \E r \in Requests : pc'[r] \in {"getSession", "delRefresh", "delSession"} /\ token[r] = p
    <3>1. PICK r \in Requests : pc'[r] \in {"getSession", "delRefresh", "delSession"} /\ token[r] = p
      BY <2>1
    <3>2. CASE r # q BY <1>1, <3>1, <3>2 DEF Moved, LeftAccess
    <3>3. CASE r = q
      <4>1. next \in {"getSession", "delRefresh", "delSession"} /\ token[q] = p
        BY <1>1, <3>1, <3>3 DEF Moved
      <4>2. \/ pc[q] = "delAccess" /\ next = "getSession"
            \/ pc[q] \in {"getSession", "delRefresh"}
        BY <4>1 DEF GoesOnAnswer, GoesOnError
      <4> QED BY <4>1, <4>2 DEF LeftAccess
    <3> QED BY <3>2, <3>3
  <2>2. CASE p \in loggedOut'
    <3>1. CASE p \in loggedOut BY <3>1 DEF LeftAccess
    <3>2. CASE p \notin loggedOut
      <4>1. next = "loggedOut" /\ token[q] = p BY <2>2, <3>2 DEF Moved
      <4>2. pc[q] \in {"getSession", "delSession"} BY <4>1 DEF GoesOnAnswer, GoesOnError
      <4> QED BY <4>1, <4>2 DEF LeftAccess
    <3> QED BY <3>1, <3>2
  <2>3. token' = token BY DEF Moved
  <2> QED BY <2>1, <2>2, <2>3 DEF LeftAccess
<1>3. p \in issued
  BY <1>2 DEF LeftAccess, Shape, AuthTypeOK, Presented, OnPresented
<1>4. CASE LeftAccess(p)
  BY <1>3, <1>4, NoAccessWritten DEF Touches
<1>5. CASE pc[q] = "delAccess" /\ next = "getSession" /\ token[q] = p
  <2>1. redis' = Update(redis, Adds(q), Removes(q)) BY <1>5 DEF GoesOnError
  <2> QED BY <1>5, <2>1, AccessDeleted
<1> QED BY <1>2, <1>4, <1>5

\* A refresh key is written once, by a request whose pair nobody has yet.
LEMMA RefreshWas ==
    ASSUME Shape, NEW q \in Requests, pc[q] \in Commands, Touches(q), NEW next, Moved(q, next),
           GoesOnAnswer(q, next, redis) \/ GoesOnError(q, next),
           NEW p \in Requests, <<"refresh", p>> \in redis', Suspect(p)', p # Charge(q) \/ ~GoesOnError(q, next)
    PROVE  <<"refresh", p>> \in redis
<1> SUFFICES ASSUME <<"refresh", p>> \notin redis PROVE FALSE OBVIOUS
<1>1. <<"refresh", p>> \in Adds(q) BY DEF Touches, Update
<1>2. pc[q] = "setRefresh" /\ p = q BY <1>1 DEF Adds
<1>3. next = "setSession" BY <1>2 DEF Charge, GoesOnAnswer, GoesOnError
<1>4. pc \in [Requests -> Commands \cup Outcomes \cup {"new"}] /\ q \notin issued
      /\ loggedOut \subseteq issued /\ rotated \subseteq issued
  BY <1>2 DEF Shape, AuthTypeOK, IssuedDone
<1>5. pc'[q] = "setSession" /\ loggedOut' = loggedOut /\ rotated' = rotated /\ token' = token
  BY <1>3, <1>4 DEF Moved
<1>6. PICK r \in Requests : pc'[r] = "delSession" /\ token[r] = q
  BY <1>2, <1>4, <1>5 DEF Suspect
<1>7. r # q /\ pc[r] = "delSession" BY <1>4, <1>5, <1>6 DEF Moved
<1>8. token[r] \in issued BY <1>7 DEF Shape, Presented, OnPresented
<1> QED BY <1>4, <1>6, <1>8

\* A command that is answered leaves no more refresh keys to blame somebody for.
LEMMA AnswerBlames ==
    ASSUME Shape, NEW q \in Requests, pc[q] \in Commands, NEW next, Moved(q, next),
           redis' = Update(redis, Adds(q), Removes(q)), GoesOnAnswer(q, next, redis),
           NEW p \in Requests, <<"refresh", p>> \in redis', Suspect(p)',
           <<"refresh", p>> \in redis
    PROVE  Suspect(p)
<1>1. /\ pc \in [Requests -> Commands \cup Outcomes \cup {"new"}] /\ token' = token
      /\ pc'[q] = next /\ \A r \in Requests \ {q} : pc'[r] = pc[r]
  BY DEF Shape, AuthTypeOK, Moved
<1>2. pc[q] \in OnPresented => token[q] \in issued /\ pc[token[q]] = "issued"
  BY DEF Shape, Presented, IssuedDone
<1>3. CASE p \in loggedOut' \ loggedOut
  <2>1. next = "loggedOut" /\ token[q] = p BY <1>3 DEF Moved
  <2>2. \/ pc[q] = "getSession" /\ <<"session", p>> \notin redis
        \/ pc[q] = "delSession"
    BY <2>1 DEF GoesOnAnswer
  <2> QED BY <1>2, <2>1, <2>2 DEF Suspect, OnPresented
<1>4. CASE p \in rotated' \ rotated
  <2>1. next = "issued" /\ kind[q] = "refresh" /\ token[q] = p BY <1>4 DEF Moved
  <2>2. pc[q] = "delOld" BY <2>1 DEF GoesOnAnswer
  <2>3. <<"refresh", p>> \in Removes(q) BY <2>1, <2>2 DEF Removes
  <2> QED BY <2>3 DEF Update
<1>5. CASE pc'[p] \in {"delOld", "issued"} /\ <<"session", p>> \notin redis'
  <2>1. CASE <<"session", p>> \in redis
    <3>1. <<"session", p>> \in Removes(q) BY <1>5, <2>1 DEF Update
    <3>2. pc[q] = "delSession" /\ token[q] = p BY <3>1 DEF Removes
    <3> QED BY <3>2 DEF Suspect
  <2>2. CASE <<"session", p>> \notin redis
    <3>1. CASE p # q BY <1>1, <1>5, <2>2, <3>1 DEF Suspect
    <3>2. CASE p = q
      <4>1. pc[q] \in {"setSession", "delOld"} BY <1>1, <1>5, <3>2 DEF GoesOnAnswer
      <4>2. CASE pc[q] = "setSession"
        <5>1. <<"session", p>> \in Adds(q) /\ Removes(q) = {} BY <3>2, <4>2 DEF Adds, Removes
        <5> QED BY <1>5, <5>1 DEF Update
      <4>3. CASE pc[q] = "delOld" BY <2>2, <3>2, <4>3 DEF Suspect
      <4> QED BY <4>1, <4>2, <4>3
    <3> QED BY <3>1, <3>2
  <2> QED BY <2>1, <2>2
<1>6. CASE \E r \in Requests : pc'[r] = "delSession" /\ token'[r] = p
  <2>1. PICK r \in Requests : pc'[r] = "delSession" /\ token[r] = p BY <1>1, <1>6
  <2>2. CASE r # q BY <1>1, <2>1, <2>2 DEF Suspect
  <2>3. CASE r = q
    <3>1. pc[q] = "delRefresh" BY <1>1, <2>1, <2>3 DEF GoesOnAnswer
    <3>2. <<"refresh", p>> \in Removes(q) BY <2>1, <2>3, <3>1 DEF Removes
    <3> QED BY <3>2 DEF Update
  <2> QED BY <2>2, <2>3
<1> QED BY <1>3, <1>4, <1>5, <1>6 DEF Suspect

\* One that throws, for one pair at most.
LEMMA ErrorBlames ==
    ASSUME Shape, NEW q \in Requests, pc[q] \in Commands, NEW next, Moved(q, next),
           Touches(q), GoesOnError(q, next),
           NEW p \in Requests, p # Charge(q), Suspect(p)'
    PROVE  Suspect(p)
<1>1. /\ pc \in [Requests -> Commands \cup Outcomes \cup {"new"}] /\ token' = token
      /\ pc'[q] = next /\ \A r \in Requests \ {q} : pc'[r] = pc[r]
  BY DEF Shape, AuthTypeOK, Moved
<1>2. CASE p \in loggedOut' \ loggedOut
  <2>1. next = "loggedOut" /\ token[q] = p BY <1>2 DEF Moved
  <2> QED BY <2>1 DEF GoesOnError, Charge
<1>3. CASE p \in rotated' \ rotated
  <2>1. next = "issued" /\ kind[q] = "refresh" /\ token[q] = p BY <1>3 DEF Moved
  <2> QED BY <2>1 DEF GoesOnError, Charge
<1>4. CASE pc'[p] \in {"delOld", "issued"} /\ <<"session", p>> \notin redis'
  <2>1. CASE <<"session", p>> \in redis
    <3>1. <<"session", p>> \in Removes(q) BY <1>4, <2>1 DEF Touches, Update
    <3>2. pc[q] = "delSession" /\ token[q] = p BY <3>1 DEF Removes
    <3> QED BY <3>2 DEF Charge
  <2>2. CASE <<"session", p>> \notin redis
    <3>1. CASE p # q BY <1>1, <1>4, <2>2, <3>1 DEF Suspect
    <3>2. CASE p = q
      <4>1. pc[q] = "delOld" BY <1>1, <1>4, <3>2 DEF GoesOnError, Charge
      <4> QED BY <2>2, <3>2, <4>1 DEF Suspect
    <3> QED BY <3>1, <3>2
  <2> QED BY <2>1, <2>2
<1>5. CASE \E r \in Requests : pc'[r] = "delSession" /\ token'[r] = p
  <2>1. PICK r \in Requests : pc'[r] = "delSession" /\ token[r] = p BY <1>1, <1>5
  <2>2. CASE r # q BY <1>1, <2>1, <2>2 DEF Suspect
  <2>3. CASE r = q
    <3>1. pc[q] = "delRefresh" BY <1>1, <2>1, <2>3 DEF GoesOnError
    <3> QED BY <2>1, <2>3, <3>1 DEF Charge
  <2> QED BY <2>2, <2>3
<1> QED BY <1>2, <1>3, <1>4, <1>5 DEF Suspect

\* A command adds a key to blame only if it fails.
LEMMA DeadlineCommand ==
    ASSUME DeadlineInv, fallbacks' = 0, NEW q \in Requests,
           Command(q) \/ CommandFallsBack(q) \/ CommandThrows(q), Shape'
    PROVE  Deadline'
<1> USE DEF DeadlineInv
<1>1. /\ fallbacks \in Nat /\ failures \in Nat /\ redis \subseteq Keys /\ redis' \subseteq Keys
      /\ pc[q] \in Commands /\ at[q] \in Backends
  BY AuthAssumption, CommandSteps DEF Shape, AuthTypeOK, Presented, Commands, Issuing
<1>2. ~CommandFallsBack(q) BY <1>1 DEF CommandFallsBack, FallsBack
<1>3. fallbacks = 0 BY <1>2 DEF Command, CommandThrows, Serves, Throws
<1>4. /\ \A b \in Backends : ~fallbackActive[b]
      /\ \A p \in Requests : LeftAccess(p) => <<"access", p>> \notin redis
      /\ IsFiniteSet(Blamed) /\ Cardinality(Blamed) <= failures
  BY <1>3 DEF Deadline
<1>5. \A key \in redis : key = <<key[1], key[2]>> /\ key[2] \in Requests
  BY <1>1 DEF Keys
<1>6. \A key \in redis' : key = <<key[1], key[2]>> /\ key[2] \in Requests
  BY <1>1 DEF Keys
<1>7. CASE Command(q)
  <2>1. /\ redis' = Update(redis, Adds(q), Removes(q)) /\ fallbackActive' = fallbackActive
        /\ failures' = failures /\ Visible(at[q]) = redis
    BY <1>1, <1>4, <1>7 DEF Command, Serves, Visible
  <2>2. PICK next : Moved(q, next) /\ GoesOnAnswer(q, next, redis)
    BY <1>1, <1>7, <2>1, GoesMoves, AnswerExact DEF Command
  <2>3. Touches(q) BY <2>1 DEF Touches
  <2>4. \A p \in Requests : LeftAccess(p)' => <<"access", p>> \notin redis'
    BY <1>1, <1>4, <2>1, <2>2, <2>3, AccessStaysLeft
  <2>5. ASSUME NEW key \in Blamed' PROVE key \in Blamed
    <3>1. PICK p \in Requests : key = <<"refresh", p>> /\ <<"refresh", p>> \in redis' /\ Suspect(p)'
      BY <1>6, <2>5 DEF Blamed
    <3>2. <<"refresh", p>> \in redis
      <4>1. CASE GoesOnError(q, next)
        <5>1. pc[q] # "setRefresh" BY <2>2, <4>1 DEF GoesOnAnswer, GoesOnError
        <5>2. <<"refresh", p>> \notin Adds(q) BY <5>1 DEF Adds
        <5> QED BY <2>1, <3>1, <5>2 DEF Update
      <4>2. CASE ~GoesOnError(q, next) BY <1>1, <2>2, <2>3, <3>1, <4>2, RefreshWas
      <4> QED BY <4>1, <4>2
    <3>3. Suspect(p) BY <1>1, <2>1, <2>2, <3>1, <3>2, AnswerBlames
    <3> QED BY <3>1, <3>2, <3>3 DEF Blamed
  <2>6. IsFiniteSet(Blamed') /\ Cardinality(Blamed') <= failures'
    <3>1. Blamed' \subseteq Blamed BY <2>5
    <3>2. IsFiniteSet(Blamed') /\ Cardinality(Blamed') \in Nat /\ Cardinality(Blamed) \in Nat
          /\ Cardinality(Blamed') <= Cardinality(Blamed)
      <4>1. PICK key : key = <<"refresh", q>> OBVIOUS
      <4>2. Blamed' \subseteq Blamed \cup {key} BY <3>1
      <4> QED BY <1>4, <3>1, <4>2, BlamedAtMost
    <3> QED BY <1>1, <1>4, <2>1, <3>2
  <2> QED BY <1>4, <2>1, <2>4, <2>6 DEF Deadline
<1>8. CASE CommandThrows(q)
  <2>1. Touches(q) /\ fallbackActive' = fallbackActive /\ failures' = failures + 1
    BY <1>8 DEF CommandThrows, Throws, MaybeDone, Touches
  <2>2. PICK next : Moved(q, next) /\ GoesOnError(q, next)
    BY <1>1, <1>8, GoesMoves, ErrorExact DEF CommandThrows
  <2>3. \A p \in Requests : LeftAccess(p)' => <<"access", p>> \notin redis'
    BY <1>1, <1>4, <2>1, <2>2, AccessStaysLeft
  <2>4. ASSUME NEW key \in Blamed', key # <<"refresh", Charge(q)>> PROVE key \in Blamed
    <3>1. PICK p \in Requests : key = <<"refresh", p>> /\ <<"refresh", p>> \in redis' /\ Suspect(p)'
      BY <1>6, <2>4 DEF Blamed
    <3>2. p # Charge(q) BY <2>4, <3>1
    <3>3. <<"refresh", p>> \in redis BY <1>1, <2>1, <2>2, <3>1, <3>2, RefreshWas
    <3>4. Suspect(p) BY <1>1, <2>1, <2>2, <3>1, <3>2, ErrorBlames
    <3> QED BY <3>1, <3>3, <3>4 DEF Blamed
  <2>5. IsFiniteSet(Blamed') /\ Cardinality(Blamed') <= failures'
    <3>1. PICK key : key = <<"refresh", Charge(q)>> OBVIOUS
    <3>2. Blamed' \subseteq Blamed \cup {key} BY <2>4, <3>1
    <3>3. IsFiniteSet(Blamed') /\ Cardinality(Blamed') \in Nat /\ Cardinality(Blamed) \in Nat
          /\ Cardinality(Blamed') <= Cardinality(Blamed) + 1
      BY <1>4, <3>2, BlamedAtMost
    <3> QED BY <1>1, <1>4, <2>1, <3>3
  <2> QED BY <1>4, <2>1, <2>3, <2>5 DEF Deadline
<1> QED BY <1>2, <1>7, <1>8

\* A step that changes no store, and after which nobody else is to blame.
LEMMA DeadlineSame ==
    ASSUME DeadlineInv, Shape', redis' \subseteq redis, UNCHANGED <<fallbackActive, failures, fallbacks>>,
           \A p \in Requests : LeftAccess(p)' => LeftAccess(p),
           \A p \in Requests : <<"refresh", p>> \in redis' /\ Suspect(p)' => Suspect(p)
    PROVE  DeadlineInv'
<1> SUFFICES ASSUME fallbacks = 0 PROVE Deadline' BY DEF DeadlineInv, Deadline
<1>1. /\ \A b \in Backends : ~fallbackActive[b]
      /\ \A p \in Requests : LeftAccess(p) => <<"access", p>> \notin redis
      /\ IsFiniteSet(Blamed) /\ Cardinality(Blamed) <= failures
      /\ redis \subseteq Keys /\ failures \in Nat
  BY AuthAssumption DEF DeadlineInv, Deadline, Shape, AuthTypeOK
<1>2. ASSUME NEW key \in Blamed' PROVE key \in Blamed
  <2>1. PICK p \in Requests : key = <<"refresh", p>> /\ key \in redis' /\ Suspect(p)'
    BY <1>1, <1>2 DEF Blamed, Keys
  <2> QED BY <2>1 DEF Blamed
<1>3. IsFiniteSet(Blamed') /\ Cardinality(Blamed') <= failures'
  <2>1. PICK key : key = 0 OBVIOUS
  <2>2. Blamed' \subseteq Blamed /\ Blamed' \subseteq Blamed \cup {key} BY <1>2
  <2>3. IsFiniteSet(Blamed') /\ Cardinality(Blamed') \in Nat /\ Cardinality(Blamed) \in Nat
        /\ Cardinality(Blamed') <= Cardinality(Blamed)
    BY <1>1, <2>2, BlamedAtMost
  <2> QED BY <1>1, <2>3
<1> QED BY <1>1, <1>3 DEF Deadline

\* A request that arrives adds none: its pair was handed out.
LEMMA DeadlineArrives ==
    ASSUME DeadlineInv, Shape', NEW q \in Requests, NEW b, NEW k, NEW p0,
           NEW first \in {"setAccess", "getRefresh", "guard"}, Arrives(q, b, k, p0, first),
           UNCHANGED <<storeVars, loggedOut, rotated>>
    PROVE  DeadlineInv'
<1>1. /\ DOMAIN pc = Requests /\ DOMAIN token = Requests BY DEF DeadlineInv, Shape, AuthTypeOK
<1>2. /\ \A r \in Requests \ {q} : pc'[r] = pc[r] /\ token'[r] = token[r]
      /\ pc'[q] = first /\ pc[q] = "new"
      /\ UNCHANGED <<redis, fallbackActive, failures, fallbacks, loggedOut, rotated>>
  BY <1>1 DEF Arrives, storeVars
<1>3. \A p \in Requests : LeftAccess(p)' => LeftAccess(p)
  BY <1>2 DEF LeftAccess
<1>4. \A p \in Requests : Suspect(p)' => Suspect(p)
  BY <1>2 DEF Suspect
<1> QED BY <1>2, <1>3, <1>4, DeadlineSame

\* Every step keeps the account of keys and failures.
LEMMA DeadlineStep == DeadlineInv /\ [Next]_vars => DeadlineInv'
<1> SUFFICES ASSUME DeadlineInv, [Next]_vars PROVE DeadlineInv' OBVIOUS
<1>1. Shape' BY ShapeStep DEF DeadlineInv
<1>2. ASSUME NEW q \in Requests, NEW b \in Backends,
             Login(q, b) \/ \E p \in Requests : Refresh(q, b, p) \/ Logout(q, b, p) \/ Use(q, b, p)
      PROVE  DeadlineInv'
  BY <1>1, <1>2, DeadlineArrives DEF Login, Refresh, Logout, Use, historyVars
<1>3. ASSUME NEW q \in Requests, Command(q) \/ CommandFallsBack(q) \/ CommandThrows(q)
      PROVE  DeadlineInv'
  <2>1. CASE fallbacks' = 0 BY <1>1, <1>3, <2>1, DeadlineCommand DEF DeadlineInv
  <2>2. CASE fallbacks' # 0 BY <1>1, <2>2 DEF DeadlineInv, Deadline
  <2> QED BY <2>1, <2>2
<1>4. ASSUME NEW k, NEW p \in Requests, Expire(k, p) PROVE DeadlineInv'
  <2>1. /\ UNCHANGED <<pc, token, loggedOut, rotated, fallbackActive, failures, fallbacks>>
        /\ redis' = redis \ {<<k, p>>} /\ (k = "session" => <<"refresh", p>> \notin redis)
    BY <1>4 DEF Expire, requestVars
  <2>2. \A r \in Requests : LeftAccess(r)' => LeftAccess(r) BY <2>1 DEF LeftAccess
  <2>3. ASSUME NEW r \in Requests, <<"refresh", r>> \in redis', Suspect(r)' PROVE Suspect(r)
    <3>1. <<"session", r>> \notin redis' => <<"session", r>> \notin redis
      BY <2>1, <2>3
    <3> QED BY <2>1, <2>3, <3>1 DEF Suspect
  <2> QED BY <1>1, <2>1, <2>2, <2>3, DeadlineSame
<1>5. CASE UNCHANGED vars
  <2>1. UNCHANGED <<pc, token, loggedOut, rotated, redis, fallbackActive, failures, fallbacks>>
    BY <1>5 DEF vars, requestVars, storeVars, historyVars
  <2>2. \A r \in Requests : LeftAccess(r)' => LeftAccess(r) BY <2>1 DEF LeftAccess
  <2>3. \A r \in Requests : Suspect(r)' => Suspect(r) BY <2>1 DEF Suspect
  <2> QED BY <1>1, <2>1, <2>2, <2>3, DeadlineSame
<1> QED BY <1>2, <1>3, <1>4, <1>5 DEF Next

\* auth README.md:51 and jwt.strategy.ts:177: while Redis serves everybody, a key
\* that a finished logout or refresh should have killed survives only with a
\* failed command of its own: however many requests log out of and refresh the
\* same pairs at once, and whichever of their commands fail.
THEOREM StaleKeysHold == Spec => []StaleKeysBounded
<1>1. Init => DeadlineInv
  <2> SUFFICES ASSUME Init PROVE DeadlineInv OBVIOUS
  <2>1. Shape BY ShapeInit
  <2>2. Blamed = {} BY DEF Init, Blamed
  <2>3. IsFiniteSet(Blamed) /\ Cardinality(Blamed) = 0 BY <2>2, FS_EmptySet
  <2>4. \A b \in Backends : ~fallbackActive[b] BY DEF Init
  <2>5. redis = {} /\ failures = 0 BY DEF Init
  <2> QED BY <2>1, <2>3, <2>4, <2>5 DEF DeadlineInv, Deadline
<1>2. DeadlineInv => StaleKeysBounded
  <2> SUFFICES ASSUME DeadlineInv, fallbacks = 0 PROVE StaleKeysBounded
    BY DEF StaleKeysBounded
  <2> DEFINE stale == {key \in redis :
                          \/ key[1] \in {"access", "refresh"} /\ key[2] \in loggedOut
                          \/ key[1] = "refresh" /\ key[2] \in rotated}
  <2>1. redis \subseteq Keys /\ failures \in Nat /\ loggedOut \subseteq Requests
    BY AuthAssumption DEF DeadlineInv, Shape, AuthTypeOK
  <2>2. \A p \in loggedOut : <<"access", p>> \notin redis
    BY <2>1 DEF DeadlineInv, Deadline, LeftAccess
  <2>3. stale \subseteq Blamed
    <3> SUFFICES ASSUME NEW key \in stale PROVE key \in Blamed OBVIOUS
    <3>1. key = <<key[1], key[2]>> BY <2>1 DEF Keys
    <3>2. key[1] # "access" BY <2>2, <3>1
    <3> QED BY <3>2 DEF Blamed, Suspect
  <2>4. IsFiniteSet(Blamed) /\ Cardinality(Blamed) <= failures BY DEF DeadlineInv, Deadline
  <2>5. Cardinality(stale) <= Cardinality(Blamed) /\ Cardinality(stale) \in Nat
        /\ Cardinality(Blamed) \in Nat
    BY <2>3, <2>4, FS_Subset, FS_CardinalityType
  <2>6. Cardinality(stale) <= failures
    <3> HIDE DEF stale
    <3> QED BY <2>1, <2>4, <2>5
  <2> QED BY <2>6 DEF StaleKeysBounded
<1> QED BY <1>1, <1>2, DeadlineStep, PTL DEF Spec

--------------------------------------------------------------------------------
(* Sessions end once.                                                        *)

\* A request that issues a pair, or asks whether it may, belongs to a session.
Issues(q) == pc[q] \in Issuing \cup {"getRefresh", "issued"}

\* Which session a pair belongs to: the login it descends from, which is its
\* own; the pair a refresh presents belongs to the same, and so does every
\* refresh key to one.
Descent ==
    /\ Shape
    /\ \A q \in Requests : pc[q] = "new" => root[q] = None
    /\ \A q \in Requests : Issues(q) => root[q] \in Requests
    /\ \A q \in Requests : root[q] # None => root[root[q]] = root[q]
    /\ \A q \in Requests : Issues(q) /\ kind[q] = "refresh" => root[token[q]] = root[q]
    /\ \A q \in Requests : pc[q] \in {"getRefresh", "delOld"} => kind[q] = "refresh"
    /\ \A p \in Requests : Refreshable(p) => root[p] \in Requests

\* At first there are neither sessions nor keys.
LEMMA DescentInit == Init => Descent /\ Open = {} /\ Over = {}
<1> SUFFICES ASSUME Init PROVE Descent /\ Open = {} /\ Over = {}
  OBVIOUS
<1>1. Shape BY ShapeInit
<1>2. \A p \in Requests : ~Refreshable(p) /\ ~Issues(p) /\ pc[p] = "new" /\ root[p] = None
  BY DEF Init, Refreshable, Issues, Issuing
<1>3. Open = {} BY <1>2 DEF Open, Issuing
<1>4. Over = {} BY <1>2, AuthAssumption DEF Over
<1> QED BY <1>1, <1>2, <1>3, <1>4 DEF Descent

\* What a command leaves of the refresh keys: the new ones are its own, those
\* that go are of the pair it was given.
LEMMA RefreshKeys ==
    ASSUME Shape, NEW q \in Requests, pc[q] \in Commands, Stores(q), NEW p \in Requests
    PROVE  /\ Refreshable(p)' /\ ~Refreshable(p) => p = q /\ pc[q] = "setRefresh"
           /\ Refreshable(p) /\ ~Refreshable(p)' =>
                  p = token[q] /\ pc[q] \in {"delOld", "delRefresh"}
<1> DEFINE k == <<"refresh", p>>
           After(keys) == Update(keys, Adds(q), Removes(q))
<1>1. k \in Adds(q) => p = q /\ pc[q] = "setRefresh"
  BY DEF Adds, Commands, Issuing
<1>2. k \in Removes(q) => p = token[q] /\ pc[q] \in {"delOld", "delRefresh"}
  BY DEF Removes, Commands, Issuing
<1>3. \A keys : /\ k \in After(keys) => k \in keys \cup Adds(q)
                /\ k \in keys => k \in After(keys) \cup Removes(q)
  BY DEF Update
<1>4. at[q] \in Backends /\ memory \in [Backends -> SUBSET Keys]
  BY DEF Shape, AuthTypeOK, Presented, Commands, Issuing
<1>5. redis' = redis \/ redis' = After(redis)
  BY DEF Stores, Serves, FallsBack, Throws, MaybeDone
<1>6. \A b \in Backends : memory'[b] = memory[b] \/ memory'[b] = After(memory[b])
  BY <1>4 DEF Stores, Serves, FallsBack, Throws
<1> HIDE DEF k, After
<1>7. k \in redis' => k \in redis \cup Adds(q) BY <1>3, <1>5
<1>8. k \in redis => k \in redis' \cup Removes(q) BY <1>3, <1>5
<1>9. \A b \in Backends : /\ k \in memory'[b] => k \in memory[b] \cup Adds(q)
                          /\ k \in memory[b] => k \in memory'[b] \cup Removes(q)
  BY <1>3, <1>6
<1>10. Refreshable(p) <=> k \in redis \/ \E b \in Backends : k \in memory[b]
  BY DEF Refreshable, k
<1>11. Refreshable(p)' <=> k \in redis' \/ \E b \in Backends : k \in memory'[b]
  BY DEF Refreshable, k
<1>12. Refreshable(p)' /\ ~Refreshable(p) => k \in Adds(q)
  BY <1>7, <1>9, <1>10, <1>11
<1>13. Refreshable(p) /\ ~Refreshable(p)' => k \in Removes(q)
  BY <1>8, <1>9, <1>10, <1>11
<1> QED BY <1>1, <1>2, <1>12, <1>13

\* What a handler needs to issue a pair: to be at it, or to have found the
\* refresh key it was given.
LEMMA IssuesOnlyRefreshed ==
    ASSUME NEW q \in Requests, Command(q) \/ CommandFallsBack(q) \/ CommandThrows(q),
           pc'[q] \in Issuing \cup {"issued"}, pc[q] \notin Issuing, Shape
    PROVE  pc[q] = "getRefresh" /\ Refreshable(token[q])
<1>1. pc[q] = "getRefresh" /\ pc[q] \in Commands
  <2>1. PICK next : Follows(q, next) /\ Goes(q, next) BY CommandSteps
  <2>2. pc'[q] = next BY <2>1 DEF Goes, Shape, AuthTypeOK
  <2> QED BY <2>1, <2>2, CommandSteps DEF Follows
<1>2. at[q] \in Backends BY <1>1 DEF Shape, Presented
<1>3. ~CommandThrows(q)
  <2>1. AfterError(q) = "rejected" BY <1>1 DEF AfterError
  <2> QED BY <2>1, <1>1 DEF CommandThrows, Goes, Shape, AuthTypeOK, Issuing
<1>4. PICK keys \in {redis, memory[at[q]]} : Goes(q, AfterAnswer(q, keys))
  BY <1>3 DEF Command, CommandFallsBack, Visible
<1>5. pc'[q] = AfterAnswer(q, keys) BY <1>4 DEF Goes, Shape, AuthTypeOK
<1>6. AfterAnswer(q, keys) = IF <<"refresh", token[q]>> \in keys THEN "setAccess" ELSE "rejected"
  BY <1>1 DEF AfterAnswer
<1>7. <<"refresh", token[q]>> \in keys BY <1>5, <1>6 DEF Issuing
<1> QED BY <1>1, <1>2, <1>4, <1>7 DEF Refreshable

\* A request that arrives belongs to no session yet.
LEMMA NobodysRoot ==
    ASSUME Descent, NEW q \in Requests, pc[q] = "new"
    PROVE  /\ root[q] = None /\ ~Issues(q) /\ ~Refreshable(q)
           /\ \A p \in Requests : root[p] # q
<1>1. root[q] = None /\ None \notin Requests BY AuthAssumption DEF Descent
<1> QED BY <1>1 DEF Descent, Issues, Issuing

\* A request that arrives begins a session, goes on with that of the pair it
\* presents, or has none.
LEMMA DescentArrives ==
    ASSUME Descent, Shape', NEW q \in Requests, NEW b \in Backends, NEW k,
           NEW p \in Requests \cup {None}, NEW first, Arrives(q, b, k, p, first),
           \/ k = "login" /\ first = "setAccess" /\ root' = [root EXCEPT ![q] = q]
           \/ /\ k = "refresh" /\ first = "getRefresh" /\ p \in issued
              /\ root' = [root EXCEPT ![q] = root[p]]
           \/ k \in {"logout", "use"} /\ first = "guard" /\ UNCHANGED root,
           UNCHANGED storeVars
    PROVE  Descent'
<1>1. /\ pc[q] = "new"
      /\ root \in [Requests -> Requests \cup {None}]
      /\ DOMAIN pc = Requests /\ DOMAIN kind = Requests /\ DOMAIN token = Requests
  BY DEF Arrives, Descent, Shape, AuthTypeOK, Commands, Issuing, Outcomes
<1>2. /\ root[q] = None /\ ~Issues(q) /\ ~Refreshable(q)
      /\ \A r \in Requests : root[r] # q
  BY <1>1, NobodysRoot
<1>3. /\ pc'[q] = first /\ kind'[q] = k /\ token'[q] = p
      /\ \A r \in Requests \ {q} : /\ pc'[r] = pc[r] /\ kind'[r] = kind[r]
                                   /\ token'[r] = token[r] /\ root'[r] = root[r]
  BY <1>1 DEF Arrives
<1>4. \A r \in Requests : Refreshable(r)' <=> Refreshable(r)
  BY DEF Refreshable, storeVars
<1>5. p \in issued => p \in Requests /\ p # q /\ pc[p] = "issued" /\ Issues(p)
  BY <1>1 DEF Descent, Shape, AuthTypeOK, IssuedDone, Issues
<1>6. \A r \in Requests \ {q} : Issues(r)' <=> Issues(r)
  BY <1>3 DEF Issues
<1>7. \/ k = "login" /\ root'[q] = q
      \/ k = "refresh" /\ p \in issued /\ root'[q] = root[p] /\ root[p] \in Requests
      \/ k \in {"logout", "use"} /\ root'[q] = None /\ ~Issues(q)'
  BY <1>1, <1>2, <1>3, <1>5 DEF Descent, Issues, Issuing
<1>8. ASSUME NEW r \in Requests, root'[r] # None PROVE root'[root'[r]] = root'[r]
  <2>1. CASE r = q
    <3>1. CASE k = "refresh"
      <4>1. root[root[p]] = root[p] /\ root[p] # q
        BY <1>2, <1>5, <1>7, <3>1, AuthAssumption DEF Descent
      <4> QED BY <1>3, <1>7, <2>1, <3>1, <4>1
    <3> QED BY <1>7, <1>8, <2>1, <3>1
  <2>2. CASE r # q
    <3>1. root[r] # q /\ root[root[r]] = root[r] /\ root[r] \in Requests
      BY <1>1, <1>2, <1>3, <1>8, <2>2 DEF Descent
    <3> QED BY <1>3, <2>2, <3>1
  <2> QED BY <2>1, <2>2
<1>9. \A r \in Requests : Issues(r)' => root'[r] \in Requests
  BY <1>3, <1>6, <1>7 DEF Descent
<1>10. ASSUME NEW r \in Requests, Issues(r)', kind'[r] = "refresh"
       PROVE  root'[token'[r]] = root'[r]
  <2>1. CASE r = q
    <3>1. k = "refresh" BY <1>3, <1>10, <2>1
    <3> QED BY <1>3, <1>5, <1>7, <2>1, <3>1
  <2>2. CASE r # q
    <3>1. token[r] \in issued /\ root[token[r]] = root[r]
      BY <1>3, <1>6, <1>10, <2>2 DEF Descent, Shape, Presented, Issues, Issuing
    <3>2. token[r] \in Requests \ {q}
      BY <3>1, <1>1 DEF Descent, Shape, AuthTypeOK, IssuedDone
    <3> QED BY <1>3, <2>2, <3>1, <3>2
  <2> QED BY <2>1, <2>2
<1>11. \A r \in Requests : pc'[r] = "new" => root'[r] = None
  BY <1>3 DEF Descent
<1>12. \A r \in Requests : pc'[r] \in {"getRefresh", "delOld"} => kind'[r] = "refresh"
  BY <1>3 DEF Descent
<1>13. \A r \in Requests : Refreshable(r)' => root'[r] \in Requests
  BY <1>2, <1>3, <1>4 DEF Descent
<1> QED BY <1>8, <1>9, <1>10, <1>11, <1>12, <1>13 DEF Descent

\* A command leaves every pair in its session: a key is written by the request
\* that issues its pair.
LEMMA DescentCommand ==
    ASSUME Descent, Shape', NEW q \in Requests, pc[q] \in Commands, Stores(q),
           NEW next, Follows(q, next), Goes(q, next)
    PROVE  Descent'
<1>1. /\ pc'[q] = next /\ root' = root /\ kind' = kind /\ token' = token
      /\ \A r \in Requests \ {q} : pc'[r] = pc[r]
  BY DEF Goes, Descent, Shape, AuthTypeOK
<1>2. next # "new" /\ pc[q] # "new" /\ next # "getRefresh"
  BY DEF Follows, Commands, Issuing, Outcomes
<1>3. Issues(q)' => Issues(q) BY <1>1, <1>2 DEF Follows, Issues
<1>4. \A r \in Requests : Issues(r)' => Issues(r)
  BY <1>1, <1>3 DEF Issues
<1>5. ASSUME NEW p \in Requests, Refreshable(p)' PROVE root'[p] \in Requests
  <2>1. Refreshable(p) \/ (p = q /\ pc[q] = "setRefresh")
    BY <1>5, RefreshKeys DEF Descent
  <2> QED BY <1>1, <2>1 DEF Descent, Issues, Issuing
<1>6. \A r \in Requests : pc'[r] \in {"getRefresh", "delOld"} => kind'[r] = "refresh"
  BY <1>1, <1>2 DEF Descent, Follows
<1>7. \A r \in Requests : pc'[r] = "new" => root'[r] = None
  BY <1>1, <1>2 DEF Descent
<1> QED BY <1>1, <1>4, <1>5, <1>6, <1>7 DEF Descent

\* Nor does any other step move one.
LEMMA DescentStep == Descent /\ [Next]_vars => Descent'
<1> SUFFICES ASSUME Descent, [Next]_vars PROVE Descent'
  OBVIOUS
<1>1. Shape' BY ShapeStep DEF Descent
<1>2. ASSUME NEW q \in Requests, NEW b \in Backends, Login(q, b) PROVE Descent'
  BY <1>1, <1>2, DescentArrives DEF Login
<1>3. ASSUME NEW q \in Requests, NEW b \in Backends, NEW p \in Requests,
             Refresh(q, b, p) \/ Logout(q, b, p) \/ Use(q, b, p)
      PROVE  Descent'
  <2>1. CASE Refresh(q, b, p) BY <1>1, <2>1, DescentArrives DEF Refresh
  <2>2. CASE Logout(q, b, p) BY <1>1, <2>2, DescentArrives DEF Logout
  <2>3. CASE Use(q, b, p)
    <3>1. UNCHANGED root BY <2>3 DEF Use, historyVars
    <3> QED BY <1>1, <2>3, <3>1, DescentArrives DEF Use
  <2> QED BY <1>3, <2>1, <2>2, <2>3
<1>4. ASSUME NEW q \in Requests, Command(q) \/ CommandFallsBack(q) \/ CommandThrows(q)
      PROVE  Descent'
  BY <1>1, <1>4, CommandSteps, DescentCommand
<1>5. ASSUME NEW k, NEW p \in Requests, Expire(k, p) PROVE Descent'
  <2>1. UNCHANGED <<requestVars, root>> BY <1>5 DEF Expire
  <2>2. \A r \in Requests : Refreshable(r)' => Refreshable(r)
    BY <1>5 DEF Expire, Refreshable
  <2> QED BY <1>1, <2>1, <2>2 DEF Descent, requestVars, Issues
<1>6. CASE UNCHANGED vars
  <2>1. UNCHANGED <<requestVars, root, redis, memory>>
    BY <1>6 DEF vars, storeVars, historyVars
  <2> QED BY <1>1, <2>1 DEF Descent, requestVars, Issues, Refreshable
<1> QED BY <1>2, <1>3, <1>4, <1>5, <1>6 DEF Next

\* A session is open while it has a pair of which there is a refresh key, or
\* that is being issued.
Lives(p) == Refreshable(p) \/ pc[p] \in Issuing

LEMMA OpenIs ==
    \A s : s \in Open <=> \E p \in Requests : Lives(p) /\ root[p] = s
BY DEF Open, Lives

\* The step ends a session, or none: the open ones are fewer by that one at most.
LEMMA EndsOne ==
    ASSUME Descent, UNCHANGED root, NEW s, Open' \subseteq Open, Open \subseteq Open' \cup {s}
    PROVE  [Life!LifeNext]_(Life!lifeVars)
<1>1. CASE Open' = Open
  <2>1. Over' = Over BY <1>1 DEF Over
  <2> QED BY <1>1, <2>1 DEF Life!lifeVars
<1>2. CASE Open' # Open
  <2>1. s \in Open /\ Open' = Open \ {s} BY <1>2
  <2>2. PICK p \in Requests : Lives(p) /\ root[p] = s BY <2>1, OpenIs
  <2>3. s \in Requests BY <2>2 DEF Descent, Lives, Issues
  <2>4. root[s] = s BY <2>2, <2>3, AuthAssumption DEF Descent
  <2>5. Over' = Over \cup {s} BY <2>1, <2>3, <2>4 DEF Over
  <2>6. Life!End(s) BY <2>1, <2>5 DEF Life!End
  <2> QED BY <2>3, <2>6 DEF Life!LifeNext
<1> QED BY <1>1, <1>2

\* A login begins a session.
LEMMA LoginBegins ==
    ASSUME Descent, NEW q \in Requests, NEW b \in Backends, Login(q, b)
    PROVE  [Life!LifeNext]_(Life!lifeVars)
<1>1. pc[q] = "new" /\ pc' = [pc EXCEPT ![q] = "setAccess"] /\ root' = [root EXCEPT ![q] = q]
  BY DEF Login, Arrives
<1>2. DOMAIN pc = Requests /\ DOMAIN root = Requests
  BY DEF Descent, Shape, AuthTypeOK
<1>3. /\ root[q] = None /\ ~Refreshable(q) /\ None # q
      /\ \A p \in Requests : root[p] # q
  BY <1>1, NobodysRoot, AuthAssumption
<1>4. \A p \in Requests : Refreshable(p)' <=> Refreshable(p)
  BY DEF Login, Refreshable, storeVars
<1>5. /\ root'[q] = q /\ Lives(q)' /\ ~Lives(q)
      /\ \A p \in Requests \ {q} : root'[p] = root[p] /\ (Lives(p)' <=> Lives(p))
  BY <1>1, <1>2, <1>3, <1>4 DEF Lives, Issuing
<1>6. \A s : s \in Open' <=> \E p \in Requests : Lives(p)' /\ root'[p] = s
  BY DEF Open, Lives
<1>7. Open' = Open \cup {q}
  <2>1. \A s : s \in Open' <=> s \in Open \/ s = q BY <1>5, <1>6, OpenIs
  <2> QED BY <2>1
<1>8. q \notin Open \cup Over BY <1>3, OpenIs DEF Over
<1>9. Over' = Over
  <2>1. \A s \in Requests : s \in Over' <=> s \in Over
    BY <1>3, <1>5, <1>7 DEF Over
  <2> QED BY <2>1 DEF Over
<1>10. Life!Begin(q) BY <1>7, <1>8, <1>9 DEF Life!Begin
<1> QED BY <1>10 DEF Life!LifeNext

\* Whoever presents a pair changes nothing yet.
LEMMA ArrivalsStutter ==
    ASSUME Descent, NEW q \in Requests, NEW b \in Backends, NEW p \in Requests,
           Refresh(q, b, p) \/ Logout(q, b, p) \/ Use(q, b, p)
    PROVE  UNCHANGED <<Open, Over>>
<1>1. /\ pc[q] = "new" /\ UNCHANGED <<redis, memory>>
      /\ \/ pc' = [pc EXCEPT ![q] = "getRefresh"]
         \/ pc' = [pc EXCEPT ![q] = "guard"]
      /\ \/ p \in issued /\ root' = [root EXCEPT ![q] = root[p]]
         \/ UNCHANGED root
  BY DEF Refresh, Logout, Use, Arrives, storeVars, historyVars
<1>2. DOMAIN pc = Requests /\ DOMAIN root = Requests /\ issued \subseteq Requests
  BY DEF Descent, Shape, AuthTypeOK
<1>3. /\ root[q] = None /\ ~Refreshable(q) /\ None # q
      /\ \A r \in Requests : root[r] # q
  BY <1>1, NobodysRoot, AuthAssumption
<1>4. \A r \in Requests : Refreshable(r)' <=> Refreshable(r)
  BY <1>1 DEF Refreshable
<1>5. /\ root'[q] # q /\ ~Lives(q)' /\ ~Lives(q)
      /\ \A r \in Requests \ {q} : root'[r] = root[r] /\ (Lives(r)' <=> Lives(r))
  BY <1>1, <1>2, <1>3, <1>4 DEF Lives, Issuing
<1>6. \A s : s \in Open' <=> \E r \in Requests : Lives(r)' /\ root'[r] = s
  BY DEF Open, Lives
<1>7. Open' = Open
  <2>1. \A s : s \in Open' <=> s \in Open BY <1>5, <1>6, OpenIs
  <2> QED BY <2>1
<1>8. Over' = Over
  <2>1. \A s \in Requests : s \in Over' <=> s \in Over
    BY <1>3, <1>5, <1>7 DEF Over
  <2> QED BY <2>1 DEF Over
<1> QED BY <1>7, <1>8

\* A command of a handler ends the session of the pair it issues or was given,
\* or none; no other session is begun by it or ended.
LEMMA CommandEnds ==
    ASSUME Descent, NEW q \in Requests,
           Command(q) \/ CommandFallsBack(q) \/ CommandThrows(q)
    PROVE  [Life!LifeNext]_(Life!lifeVars)
<1> DEFINE s == IF pc[q] = "delRefresh" THEN root[token[q]] ELSE root[q]
<1>1. PICK next : Follows(q, next) /\ Goes(q, next) BY CommandSteps
<1>2. pc[q] \in Commands /\ Stores(q) BY CommandSteps
<1>3. /\ pc'[q] = next /\ root' = root
      /\ \A r \in Requests \ {q} : pc'[r] = pc[r]
  BY <1>1 DEF Goes, Descent, Shape, AuthTypeOK
<1>4. \A p \in Requests :
          /\ Refreshable(p)' /\ ~Refreshable(p) => p = q /\ pc[q] = "setRefresh"
          /\ Refreshable(p) /\ ~Refreshable(p)' =>
                 p = token[q] /\ pc[q] \in {"delOld", "delRefresh"}
  BY <1>2, RefreshKeys DEF Descent
<1>5. \A t : t \in Open' <=> \E r \in Requests : Lives(r)' /\ root'[r] = t
  BY DEF Open, Lives
<1>6. ASSUME NEW t \in Open' PROVE t \in Open
  <2>1. PICK p \in Requests : Lives(p)' /\ root[p] = t BY <1>3, <1>5
  <2>2. CASE Lives(p) BY <2>1, <2>2, OpenIs
  <2>3. CASE ~Lives(p)
    <3>1. p = q /\ pc'[q] \in Issuing /\ pc[q] \notin Issuing
      BY <1>3, <1>4, <2>1, <2>3 DEF Lives, Issuing
    <3>2. pc[q] = "getRefresh" /\ Refreshable(token[q])
      BY <3>1, IssuesOnlyRefreshed DEF Descent
    <3>3. token[q] \in Requests /\ root[token[q]] = root[q]
      BY <3>2 DEF Descent, Issues, Shape, Presented, OnPresented, AuthTypeOK
    <3> QED BY <2>1, <3>1, <3>2, <3>3, OpenIs DEF Lives
  <2> QED BY <2>2, <2>3
<1>7. ASSUME NEW t \in Open, t \notin Open' PROVE t = s
  <2>1. PICK p \in Requests : Lives(p) /\ root[p] = t BY OpenIs
  <2>2. ~Lives(p)' BY <1>3, <1>5, <1>7, <2>1
  <2>3. CASE p = q /\ pc[q] \in Issuing BY <2>1, <2>3 DEF Issuing
  <2>4. CASE ~(p = q /\ pc[q] \in Issuing)
    <3>1. CASE Refreshable(p)
      <4>1. p = token[q] /\ pc[q] \in {"delOld", "delRefresh"}
        BY <1>4, <2>2, <3>1 DEF Lives
      <4>2. pc[q] = "delOld" => root[token[q]] = root[q]
        BY DEF Descent, Issues, Issuing
      <4> QED BY <2>1, <4>1, <4>2
    <3>2. CASE ~Refreshable(p)
      <4>1. pc[p] \in Issuing /\ p # q BY <2>1, <2>4, <3>2 DEF Lives
      <4> QED BY <1>3, <2>2, <4>1 DEF Lives
    <3> QED BY <3>1, <3>2
  <2> QED BY <2>3, <2>4
<1> HIDE DEF s
<1> QED BY <1>3, <1>6, <1>7, EndsOne

\* A key whose time is over ends its session, if it was the last.
LEMMA ExpiryEnds ==
    ASSUME Descent, NEW k, NEW p \in Requests, Expire(k, p)
    PROVE  [Life!LifeNext]_(Life!lifeVars)
<1>1. UNCHANGED <<pc, root, memory>> /\ redis' = redis \ {<<k, p>>}
  BY DEF Expire, requestVars
<1>2. \A r \in Requests : /\ Lives(r)' => Lives(r)
                          /\ Lives(r) /\ r # p => Lives(r)'
  BY <1>1 DEF Lives, Refreshable
<1>3. \A s : s \in Open' <=> \E r \in Requests : Lives(r)' /\ root'[r] = s
  BY DEF Open, Lives
<1>4. Open' \subseteq Open BY <1>1, <1>2, <1>3, OpenIs
<1>5. Open \subseteq Open' \cup {root[p]} BY <1>1, <1>2, <1>3, OpenIs
<1> QED BY <1>1, <1>4, <1>5, EndsOne

\* Every step begins a session, ends one, or touches none.
LEMMA LifeStep == Descent /\ [Next]_vars => [Life!LifeNext]_(Life!lifeVars)
<1> SUFFICES ASSUME Descent, [Next]_vars PROVE [Life!LifeNext]_(Life!lifeVars)
  OBVIOUS
<1>1. ASSUME NEW q \in Requests, NEW b \in Backends, NEW p \in Requests,
             Refresh(q, b, p) \/ Logout(q, b, p) \/ Use(q, b, p)
      PROVE  [Life!LifeNext]_(Life!lifeVars)
  BY <1>1, ArrivalsStutter DEF Life!lifeVars
<1>2. CASE UNCHANGED vars
  BY <1>2 DEF vars, requestVars, storeVars, historyVars, Life!lifeVars,
              Open, Over, Refreshable
<1> QED BY <1>1, <1>2, LoginBegins, CommandEnds, ExpiryEnds DEF Next

\* A session that is over is over for good: once no store has a refresh key of
\* it and nobody is issuing one, no request that comes late, no failing command
\* and no fallback brings it back.  AuthSession implements Lifetimes.
THEOREM SessionsEndHolds == Spec => SessionsEndOnce
<1>1. Init => Descent /\ Life!LifeInit BY DescentInit DEF Life!LifeInit
<1> QED BY <1>1, DescentStep, LifeStep, PTL DEF Spec, SessionsEndOnce, Life!LifeSpec

--------------------------------------------------------------------------------
(* Counters.                                                                 *)

Steps == {"new", "ip", "email", "passed", "refused", "lost"}

\* An attempt that counts is one a replica has taken, for an account.
Counting ==
    /\ attempt \in [Attempts -> [step : Steps, email : CounterKeys, by : Servers \cup {"none"},
                                 ip : Nat, time : Nat]]
    /\ \A p \in Attempts : attempt[p].step \in {"ip", "email"} => attempt[p].by \in Servers

CountersTyped ==
    /\ clock \in 0..MaxTime /\ outages \in Nat
    /\ counter \in [CounterKeys -> [count : Nat, until : Nat]]

LimitInv == CountersTyped /\ Counting

\* No expiry that is set is never.
LEMMA NeverLater == Never \in Nat /\ \A t \in 0..MaxTime : t + Window \in Nat /\ t + Window < Never
  BY RateLimitAssumption DEF Never

\* At first nothing is counted.
LEMMA LimitInvInit == LimitInit => LimitInv
<1> SUFFICES ASSUME LimitInit PROVE LimitInv
  OBVIOUS
<1>1. CountersTyped
  BY NeverLater, RateLimitAssumption DEF LimitInit, CountersTyped, NoCounter
<1>2. Counting
  BY DEF LimitInit, Counting, NewAttempt, CounterKeys, Steps
<1> QED BY <1>1, <1>2 DEF LimitInv

\* What Incr does to the counters.
LEMMA IncrKeeps ==
    ASSUME LimitInv, NEW p \in Attempts, NEW k \in CounterKeys, Incr(p, k)
    PROVE  CountersTyped' /\ counter'[k].count \in Nat
  BY DEF LimitInv, CountersTyped, Incr, SameGuard

\* Every step keeps the invariant.
LEMMA LimitInvStep == LimitInv /\ [LimitNext]_limitVars => LimitInv'
<1> SUFFICES ASSUME LimitInv, [LimitNext]_limitVars PROVE LimitInv'
  OBVIOUS
<1>1. ASSUME UNCHANGED <<clock, loginVars, up, outages>> PROVE LimitInv'
  BY <1>1 DEF LimitInv, CountersTyped, Counting, loginVars, Never
<1>2. ASSUME NEW b \in Servers, ServerStep(b) PROVE LimitInv'
  <2>1. UNCHANGED <<clock, loginVars, up, outages>>
    BY <1>2 DEF ServerStep, Register, Connect, Connected, ConnectFails, ConnectionError, Exec,
       TryReset, OtherRequest, Request, SameRedis
  <2> QED BY <2>1, <1>1
<1>3. ASSUME NEW b \in Servers, NEW k \in CounterKeys, SetExpiry(b, k) PROVE LimitInv'
  <2>0. /\ UNCHANGED <<clock, up, outages, attempt>>
        /\ expiring' = expiring \ {<<b, k>>}
        /\ counter' = [counter EXCEPT ![k].until = IF counter[k].count > 0 THEN clock + Window ELSE @]
    BY <1>3 DEF SetExpiry, SameGuard
  <2>1. CountersTyped' /\ Counting'
    BY <2>0, NeverLater DEF LimitInv, CountersTyped, Counting
  <2> QED BY <2>1 DEF LimitInv
<1>4. ASSUME NEW b \in Servers, NEW k \in CounterKeys, ExpiryRejected(b, k) PROVE LimitInv'
  <2>0. /\ ~up /\ UNCHANGED <<clock, up, outages, counter>>
        /\ attempt' = [p \in Attempts |-> IF attempt[p].by = b /\ attempt[p].step \in {"ip", "email"}
                                      THEN [attempt[p] EXCEPT !.step = "lost"] ELSE attempt[p]]
    BY <1>4 DEF ExpiryRejected
  <2>1. CountersTyped'
    BY <2>0 DEF LimitInv, CountersTyped
  <2>2. Counting'
    BY <2>0 DEF LimitInv, Counting, Steps
  <2> QED BY <2>1, <2>2 DEF LimitInv
<1>5. ASSUME NEW p \in Attempts, IncrIp(p) PROVE LimitInv'
  <2>1. CountersTyped' /\ counter'["ip"].count \in Nat
    BY <1>5, IncrKeeps DEF IncrIp, LimitInv, Counting, CounterKeys
  <2>2. Counting'
    <3>1. /\ attempt[p].step = "ip" /\ \A x \in Attempts \ {p} : attempt'[x] = attempt[x]
          /\ attempt'[p] = [attempt[p] EXCEPT !.step = "email", !.ip = counter'["ip"].count]
          /\ DOMAIN attempt' = Attempts /\ attempt' = [x \in Attempts |-> attempt'[x]]
      BY <1>5 DEF IncrIp, LimitInv, Counting
    <3>2. attempt'[p].by = attempt[p].by /\ attempt[p].by \in Servers
      BY <3>1 DEF LimitInv, Counting
    <3>3. \A x \in Attempts :
             attempt'[x] \in [step : Steps, email : CounterKeys, by : Servers \cup {"none"},
                              ip : Nat, time : Nat]
      <4>1. ASSUME NEW x \in Attempts, x # p
            PROVE  attempt'[x] \in [step : Steps, email : CounterKeys,
                                   by : Servers \cup {"none"}, ip : Nat, time : Nat]
        BY <3>1, <4>1 DEF LimitInv, Counting
      <4>2. attempt'[p] \in [step : Steps, email : CounterKeys,
                             by : Servers \cup {"none"}, ip : Nat, time : Nat]
        BY <2>1, <3>1 DEF LimitInv, Counting, Steps
      <4> QED BY <4>1, <4>2
    <3> QED BY <3>1, <3>2, <3>3 DEF LimitInv, Counting
  <2> QED BY <2>1, <2>2 DEF LimitInv
<1>6. ASSUME NEW p \in Attempts, IncrEmail(p) PROVE LimitInv'
  <2>1. attempt[p].by \in Servers /\ attempt[p].email \in CounterKeys
    BY <1>6 DEF IncrEmail, LimitInv, Counting
  <2>2. CountersTyped'
    BY <1>6, <2>1, IncrKeeps DEF IncrEmail
  <2>3. Counting'
    BY <1>6 DEF IncrEmail, Verdict, LimitInv, Counting, CountersTyped, Steps
  <2> QED BY <2>2, <2>3 DEF LimitInv
<1>7. ASSUME NEW p \in Attempts, IncrFails(p) PROVE LimitInv'
  <2> DEFINE k == IF attempt[p].step = "ip" THEN "ip" ELSE attempt[p].email
  <2>0. /\ ~up /\ UNCHANGED <<clock, up, outages>> /\ attempt[p].step \in {"ip", "email"}
        /\ attempt' = [attempt EXCEPT ![p].time = clock,
             ![p].step = IF attempt[p].step = "ip" THEN "email" ELSE Verdict(attempt[p].ip, 0)]
        /\ counter' = counter \/ counter' = [counter EXCEPT ![k].count = @ + 1]
    BY <1>7 DEF IncrFails, SameGuard
  <2>1. CountersTyped'
    BY <2>0 DEF LimitInv, CountersTyped
  <2>2. Counting'
    BY <2>0 DEF Verdict, LimitInv, Counting, CountersTyped, Steps
  <2> QED BY <2>1, <2>2 DEF LimitInv
<1>8. ASSUME NEW p \in Attempts, NEW b \in Servers, NEW e \in Emails, Attempt(p, b, e)
      PROVE LimitInv'
  <2>0. /\ UNCHANGED <<clock, up, outages, counter, expiring>>
        /\ attempt' = [attempt EXCEPT ![p] =
             [step |-> IF ~Admitted(b) THEN "refused"
                       ELSE IF InternalClient(b) THEN "ip" ELSE Verdict(1, 1),
              email |-> e, by |-> b, ip |-> 0, time |-> clock]]
    BY <1>8 DEF Attempt, Request
  <2>1. CountersTyped'
    BY <2>0 DEF LimitInv, CountersTyped, Never
  <2>2. Counting'
    <3> DEFINE s == IF ~Admitted(b) THEN "refused"
                    ELSE IF InternalClient(b) THEN "ip" ELSE Verdict(1, 1)
    <3>1. s \in Steps
      BY DEF Verdict, Steps
    <3> HIDE DEF s
    <3> QED BY <2>0, <3>1 DEF s, LimitInv, Counting, CountersTyped, CounterKeys
  <2> QED BY <2>1, <2>2 DEF LimitInv
<1>9. ASSUME Tick PROVE LimitInv'
  <2>0. /\ clock' \in 0..MaxTime /\ UNCHANGED <<up, outages, attempt, expiring>>
        /\ \A k \in CounterKeys : counter'[k] \in {NoCounter, counter[k]}
        /\ counter' \in [CounterKeys -> [count : Nat, until : Nat]]
    BY <1>9, NeverLater, RateLimitAssumption
    DEF Tick, Expired, NoCounter, LimitInv, CountersTyped
  <2>1. CountersTyped' /\ Counting'
    BY <2>0 DEF LimitInv, CountersTyped, Counting
  <2> QED BY <2>1 DEF LimitInv
<1>10. ASSUME RedisStops PROVE LimitInv'
  BY <1>10 DEF RedisStops, loginVars, LimitInv, CountersTyped, Counting
<1>11. ASSUME RedisReturns PROVE LimitInv'
  BY <1>11 DEF RedisReturns, loginVars, LimitInv, CountersTyped, Counting
<1>12. ASSUME UNCHANGED limitVars PROVE LimitInv'
  BY <1>12, <1>1 DEF limitVars
<1> QED
  BY <1>2, <1>3, <1>4, <1>5, <1>6, <1>7, <1>8, <1>9, <1>10, <1>11, <1>12 DEF LimitNext

--------------------------------------------------------------------------------
(* The login limit.                                                          *)

\* The attempts of an account that Redis counted and that were let through, and
\* those of them in a span of time.
Passed(e) == {p \in Attempts \ blind : attempt[p].step = "passed" /\ attempt[p].email = e}
Between(e, from, to) == {p \in Passed(e) : from <= attempt[p].time /\ attempt[p].time <= to}

\* The counter of e that stands, or the next one, started at a: it ends a window
\* later at the earliest, has let no more through than it has counted, one less
\* after its start, and no more than one less than the limit passed in the window
\* before it, which its predecessor did not start in.
CountsSince(e, a) ==
    /\ a \in Nat /\ a <= clock
    /\ counter[e].count = 0 => Between(e, a, MaxTime) = {}
    /\ counter[e].count > 0 =>
          /\ counter[e].until >= a + Window
          /\ Cardinality(Between(e, a, MaxTime)) <= counter[e].count
          /\ Cardinality(Between(e, a, MaxTime)) <= MaxPerEmail
          /\ Cardinality(Between(e, a + 1, MaxTime)) <= counter[e].count - 1
          /\ Cardinality(Between(e, a + 1, MaxTime)) <= MaxPerEmail - 1
    /\ Cardinality(Between(e, a - Window + 1, a - 1)) <= MaxPerEmail - 1

\* Nobody has passed later than now, and a counter that is gone has no expiry.
Clocked ==
    \A k \in CounterKeys :
        /\ \A p \in Passed(k) : attempt[p].time <= clock
        /\ counter[k].count = 0 => counter[k].until = Never

Generations ==
    \A e \in CounterKeys : IsFiniteSet(Passed(e)) /\ \E a \in Nat : CountsSince(e, a)

CapInv == LimitInv /\ Clocked /\ Generations /\ LoginCapped

\* The limits as the arithmetic needs them.
LEMMA LimitNumbers ==
    /\ MaxPerEmail \in Nat /\ MaxPerEmail > 0 /\ Window \in Nat /\ Window > 0 /\ MaxTime \in Nat
    /\ Never = MaxTime + Window + 1
BY RateLimitAssumption DEF Never

\* A step after which the same attempts of e have passed, at the same times.
SamePasses(e) ==
    /\ Passed(e)' = Passed(e)
    /\ \A p \in Passed(e) : attempt'[p].time = attempt[p].time

\* One that lets p through.
Passes(e, p) ==
    /\ Passed(e)' = Passed(e) \cup {p}
    /\ attempt'[p].time = clock
    /\ \A x \in Passed(e) : attempt'[x].time = attempt[x].time

\* The counter of e counts one more, or as many as before, and ends no earlier
\* than it did or a window from now.
Counts(e) ==
    counter'[e].count = counter[e].count + 1 /\ counter'[e].until = counter[e].until

Rests(e) ==
    /\ counter'[e].count = counter[e].count
    /\ counter'[e].until >= counter[e].until \/ counter'[e].until >= clock + Window
    /\ counter'[e].count = 0 => counter'[e].until = counter[e].until

\* A step that does not take time, as one account sees it.
AccountStep(e) ==
    /\ clock' = clock
    /\ \/ SamePasses(e) /\ (Rests(e) \/ Counts(e))
       \/ \E p \in Attempts :
             Passes(e, p) /\ Counts(e) /\ counter'[e].count <= MaxPerEmail

\* What passed has passed by now.
LEMMA PassedTyped ==
    ASSUME CountersTyped, Counting, Clocked, NEW e \in CounterKeys, NEW p \in Passed(e)
    PROVE  /\ p \in Attempts /\ attempt[p].time \in Nat /\ clock \in 0..MaxTime
           /\ attempt[p].time <= clock
BY DEF CountersTyped, Counting, Clocked, Passed

\* Where nobody has passed, no span has changed ...
LEMMA BetweenSame ==
    ASSUME NEW e, SamePasses(e), NEW from, NEW to
    PROVE  Between(e, from, to)' = Between(e, from, to)
BY DEF Between, SamePasses

\* ... and one that passes is in the spans that meet now.
LEMMA BetweenPassed ==
    ASSUME NEW e, NEW p, Passes(e, p), NEW from \in Int, NEW to \in Int, clock \in Int
    PROVE  /\ Between(e, from, to)' \subseteq Between(e, from, to) \cup {p}
           /\ ~(from <= clock /\ clock <= to) =>
                 Between(e, from, to)' \subseteq Between(e, from, to)
BY DEF Between, Passes

\* All spans are finite.
LEMMA BetweenFinite ==
    ASSUME NEW e, IsFiniteSet(Passed(e)), NEW from, NEW to
    PROVE  IsFiniteSet(Between(e, from, to)) /\ Cardinality(Between(e, from, to)) \in Nat
<1>1. Between(e, from, to) \subseteq Passed(e) BY DEF Between
<1>2. IsFiniteSet(Between(e, from, to)) BY <1>1, FS_Subset
<1> QED BY <1>2, FS_CardinalityType

\* A subset has no more elements, and one element added is one more.
LEMMA SubsetSmaller ==
    ASSUME NEW S, IsFiniteSet(S), NEW T, T \subseteq S
    PROVE  IsFiniteSet(T) /\ Cardinality(T) \in Nat /\ Cardinality(S) \in Nat
           /\ Cardinality(T) <= Cardinality(S)
<1>1. IsFiniteSet(T) /\ Cardinality(T) <= Cardinality(S) BY FS_Subset
<1> QED BY <1>1, FS_CardinalityType

LEMMA OneMore ==
    ASSUME NEW S, IsFiniteSet(S), NEW p, NEW T, T \subseteq S \cup {p}
    PROVE  IsFiniteSet(T) /\ Cardinality(T) \in Nat /\ Cardinality(S) \in Nat
           /\ Cardinality(T) <= Cardinality(S) + 1
<1>1. Cardinality(S) \in Nat BY FS_CardinalityType
<1>2. IsFiniteSet(S \cup {p}) /\ Cardinality(S \cup {p}) <= Cardinality(S) + 1
  BY <1>1, FS_AddElement
<1>3. IsFiniteSet(T) /\ Cardinality(T) \in Nat /\ Cardinality(S \cup {p}) \in Nat
      /\ Cardinality(T) <= Cardinality(S \cup {p})
  BY <1>2, SubsetSmaller
<1> QED BY <1>1, <1>2, <1>3

LEMMA EmptyCounts == IsFiniteSet({}) /\ Cardinality({}) = 0
BY FS_EmptySet

--------------------------------------------------------------------------------
\* A counter that counts nobody still counts since the same moment.
LEMMA SinceSame ==
    ASSUME NEW e, NEW a, CountsSince(e, a), clock' = clock, SamePasses(e), Rests(e),
           clock \in Nat, counter[e].until \in Nat, counter'[e].until \in Nat
    PROVE  CountsSince(e, a)'
<1>1. \A from, to : Between(e, from, to)' = Between(e, from, to) BY BetweenSame
<1>2. Window \in Nat /\ a \in Nat BY LimitNumbers DEF CountsSince
<1>3. counter'[e].count = counter[e].count BY DEF Rests
<1>4. counter'[e].count > 0 => counter'[e].until >= a + Window
  BY <1>2 DEF CountsSince, Rests
<1> QED BY <1>1, <1>3, <1>4 DEF CountsSince

\* Before the first, nobody has passed since a: the count may start now.
LEMMA StartsNow ==
    ASSUME CountersTyped, Counting, Clocked, NEW e \in CounterKeys, NEW a, CountsSince(e, a),
           IsFiniteSet(Passed(e)), counter[e].count = 0
    PROVE  /\ clock \in 0..MaxTime
           /\ \A to \in Nat : Between(e, clock, to) = {} /\ Between(e, clock + 1, to) = {}
           /\ Cardinality(Between(e, clock - Window + 1, clock - 1)) \in Nat
           /\ Cardinality(Between(e, clock - Window + 1, clock - 1)) <= MaxPerEmail - 1
<1>1. a \in Nat /\ a <= clock /\ Window \in Nat /\ MaxTime \in Nat /\ clock \in 0..MaxTime
      /\ MaxPerEmail \in Nat
  BY LimitNumbers DEF CountsSince, CountersTyped
<1>2. Between(e, a, MaxTime) = {} BY DEF CountsSince
<1>3. \A p \in Passed(e) : attempt[p].time \in Nat /\ attempt[p].time <= clock BY PassedTyped
<1>4. \A p \in Passed(e) : attempt[p].time < a BY <1>1, <1>2, <1>3 DEF Between
<1>5. \A to \in Nat : Between(e, clock, to) = {} /\ Between(e, clock + 1, to) = {}
  BY <1>1, <1>3, <1>4 DEF Between
<1>6. Between(e, clock - Window + 1, clock - 1) \subseteq Between(e, a - Window + 1, a - 1)
  BY <1>1, <1>3, <1>4 DEF Between
<1>7. /\ Cardinality(Between(e, clock - Window + 1, clock - 1)) \in Nat
      /\ Cardinality(Between(e, a - Window + 1, a - 1)) \in Nat
      /\ Cardinality(Between(e, clock - Window + 1, clock - 1))
            <= Cardinality(Between(e, a - Window + 1, a - 1))
  BY <1>6, BetweenFinite, SubsetSmaller
<1>8. Cardinality(Between(e, a - Window + 1, a - 1)) <= MaxPerEmail - 1 BY DEF CountsSince
<1> QED BY <1>1, <1>5, <1>7, <1>8

\* A counter that counts, and lets nobody through.
LEMMA SinceCounted ==
    ASSUME CountersTyped, Counting, Clocked, NEW e \in CounterKeys, NEW a, CountsSince(e, a),
           IsFiniteSet(Passed(e)), clock' = clock, SamePasses(e), Counts(e)
    PROVE  \E x \in Nat : CountsSince(e, x)'
<1>1. \A from, to : Between(e, from, to)' = Between(e, from, to) BY BetweenSame
<1>2. /\ a \in Nat /\ a <= clock /\ clock \in 0..MaxTime /\ counter[e].count \in Nat
      /\ MaxPerEmail \in Nat /\ MaxPerEmail > 0 /\ Window \in Nat /\ MaxTime \in Nat
      /\ Never = MaxTime + Window + 1
  BY LimitNumbers DEF CountsSince, CountersTyped
<1>3. CASE counter[e].count > 0
  <2>1. /\ Cardinality(Between(e, a, MaxTime)) \in Nat
        /\ Cardinality(Between(e, a + 1, MaxTime)) \in Nat
    BY BetweenFinite
  <2>2. CountsSince(e, a)'
    BY <1>1, <1>2, <1>3, <2>1 DEF CountsSince, Counts
  <2> QED BY <1>2, <2>2
<1>4. CASE counter[e].count = 0
  <2>0. PICK t \in Nat : t = clock /\ clock' = t BY <1>2
  <2>1. /\ Between(e, t, MaxTime) = {} /\ Between(e, t + 1, MaxTime) = {}
        /\ Cardinality(Between(e, t - Window + 1, t - 1)) <= MaxPerEmail - 1
    BY <1>2, <1>4, <2>0, StartsNow
  <2>2. Cardinality(Between(e, t, MaxTime)) = 0 /\ Cardinality(Between(e, t + 1, MaxTime)) = 0
    BY <2>1, EmptyCounts
  <2>3. counter'[e].count = 1 /\ counter'[e].until = Never
    BY <1>2, <1>4 DEF Counts, Clocked
  <2>4. /\ Cardinality(Between(e, t, MaxTime)') = 0 /\ Cardinality(Between(e, t + 1, MaxTime)') = 0
        /\ Cardinality(Between(e, t - Window + 1, t - 1)') <= MaxPerEmail - 1
    BY <1>1, <2>1, <2>2
  <2>5. counter'[e].until >= t + Window /\ 0 <= MaxPerEmail - 1 /\ 0 <= MaxPerEmail BY <1>2, <2>0, <2>3
  <2>6. CountsSince(e, t)' BY <2>0, <2>3, <2>4, <2>5 DEF CountsSince
  <2> QED BY <2>6
<1> QED BY <1>2, <1>3, <1>4

\* One that counts and lets an attempt through, within the limit.
LEMMA SincePassed ==
    ASSUME CountersTyped, Counting, Clocked, NEW e \in CounterKeys, NEW a, CountsSince(e, a),
           IsFiniteSet(Passed(e)), clock' = clock, NEW p, Passes(e, p), Counts(e),
           counter'[e].count <= MaxPerEmail
    PROVE  \E x \in Nat : CountsSince(e, x)' /\ counter'[e].count > 0
<1>1. /\ a \in Nat /\ a <= clock /\ clock \in 0..MaxTime /\ counter[e].count \in Nat
      /\ MaxPerEmail \in Nat /\ MaxPerEmail > 0 /\ Window \in Nat /\ MaxTime \in Nat
      /\ Never = MaxTime + Window + 1 /\ counter'[e].count = counter[e].count + 1
  BY LimitNumbers DEF CountsSince, CountersTyped, Counts
<1>0. /\ a \in Int /\ a + 1 \in Int /\ a - 1 \in Int /\ a - Window + 1 \in Int /\ MaxTime \in Int
      /\ clock \in Int /\ clock + 1 \in Int /\ clock - 1 \in Int /\ clock - Window + 1 \in Int
      /\ ~(clock + 1 <= clock) /\ ~(clock <= clock - 1) /\ ~(clock <= a - 1)
  BY <1>1
<1>2. \A from \in Int, to \in Int :
        /\ IsFiniteSet(Between(e, from, to)) /\ Cardinality(Between(e, from, to)) \in Nat
        /\ Cardinality(Between(e, from, to)') \in Nat
        /\ Cardinality(Between(e, from, to)') <= Cardinality(Between(e, from, to)) + 1
        /\ ~(from <= clock /\ clock <= to) =>
              Cardinality(Between(e, from, to)') <= Cardinality(Between(e, from, to))
  <2> TAKE from \in Int, to \in Int
  <2>1. IsFiniteSet(Between(e, from, to)) BY BetweenFinite
  <2>2. /\ Between(e, from, to)' \subseteq Between(e, from, to) \cup {p}
        /\ ~(from <= clock /\ clock <= to) =>
              Between(e, from, to)' \subseteq Between(e, from, to)
    BY <1>1, BetweenPassed
  <2>3. /\ Cardinality(Between(e, from, to)') \in Nat /\ Cardinality(Between(e, from, to)) \in Nat
        /\ Cardinality(Between(e, from, to)') <= Cardinality(Between(e, from, to)) + 1
    BY <2>1, <2>2, OneMore
  <2>4. ~(from <= clock /\ clock <= to) =>
           Cardinality(Between(e, from, to)') <= Cardinality(Between(e, from, to))
    BY <2>1, <2>2, SubsetSmaller
  <2> QED BY <2>1, <2>3, <2>4
<1>3. CASE counter[e].count > 0
  <2>1. /\ Cardinality(Between(e, a, MaxTime)') <= counter'[e].count
        /\ Cardinality(Between(e, a + 1, MaxTime)') <= counter'[e].count - 1
        /\ Cardinality(Between(e, a - Window + 1, a - 1)') <= MaxPerEmail - 1
    <3>1. /\ Cardinality(Between(e, a, MaxTime)) <= counter[e].count
          /\ Cardinality(Between(e, a + 1, MaxTime)) <= counter[e].count - 1
          /\ Cardinality(Between(e, a - Window + 1, a - 1)) <= MaxPerEmail - 1
      BY <1>3 DEF CountsSince
    <3>2. Cardinality(Between(e, a, MaxTime)') <= Cardinality(Between(e, a, MaxTime)) + 1
          /\ Cardinality(Between(e, a, MaxTime)) \in Nat /\ Cardinality(Between(e, a, MaxTime)') \in Nat
      BY <1>0, <1>2
    <3>3. /\ Cardinality(Between(e, a + 1, MaxTime)') <= Cardinality(Between(e, a + 1, MaxTime)) + 1
          /\ Cardinality(Between(e, a + 1, MaxTime)) \in Nat
          /\ Cardinality(Between(e, a + 1, MaxTime)') \in Nat
      BY <1>0, <1>2
    <3>4. /\ Cardinality(Between(e, a - Window + 1, a - 1)')
                <= Cardinality(Between(e, a - Window + 1, a - 1))
          /\ Cardinality(Between(e, a - Window + 1, a - 1)) \in Nat
          /\ Cardinality(Between(e, a - Window + 1, a - 1)') \in Nat
      BY <1>0, <1>2
    <3> QED BY <1>1, <3>1, <3>2, <3>3, <3>4
  <2>2. counter'[e].until >= a + Window
    BY <1>3 DEF CountsSince, Counts
  <2>3. /\ Cardinality(Between(e, a, MaxTime)') \in Nat
        /\ Cardinality(Between(e, a + 1, MaxTime)') \in Nat
    BY <1>0, <1>2
  <2>4. CountsSince(e, a)'
    BY <1>1, <1>3, <2>1, <2>2, <2>3 DEF CountsSince
  <2> QED BY <1>1, <2>4
<1>4. CASE counter[e].count = 0
  <2>1. /\ Between(e, clock, MaxTime) = {} /\ Between(e, clock + 1, MaxTime) = {}
        /\ Cardinality(Between(e, clock - Window + 1, clock - 1)) <= MaxPerEmail - 1
    BY <1>1, <1>4, StartsNow
  <2>2. /\ Cardinality(Between(e, clock, MaxTime)) = 0
        /\ Cardinality(Between(e, clock + 1, MaxTime)) = 0
    BY <2>1, EmptyCounts
  <2>3. Cardinality(Between(e, clock, MaxTime)') <= 1 BY <1>0, <1>2, <2>2
  <2>4. Cardinality(Between(e, clock + 1, MaxTime)') <= 0 BY <1>0, <1>2, <2>2
  <2>5. Cardinality(Between(e, clock - Window + 1, clock - 1)') <= MaxPerEmail - 1
    <3>1. /\ Cardinality(Between(e, clock - Window + 1, clock - 1)')
                <= Cardinality(Between(e, clock - Window + 1, clock - 1))
          /\ Cardinality(Between(e, clock - Window + 1, clock - 1)) \in Nat
          /\ Cardinality(Between(e, clock - Window + 1, clock - 1)') \in Nat
      BY <1>0, <1>2
    <3> QED BY <1>1, <2>1, <3>1
  <2>6. counter'[e].count = 1 /\ counter'[e].until = Never
    BY <1>1, <1>4 DEF Counts, Clocked
  <2>7. /\ Cardinality(Between(e, clock, MaxTime)') \in Nat
        /\ Cardinality(Between(e, clock + 1, MaxTime)') \in Nat
    BY <1>0, <1>2
  <2>8. CountsSince(e, clock)'
    BY <1>1, <2>3, <2>4, <2>5, <2>6, <2>7 DEF CountsSince
  <2> QED BY <1>1, <2>6, <2>8
<1> QED BY <1>1, <1>3, <1>4

\* A tick of the clock, at the end of the counter or not.
LEMMA SinceTick ==
    ASSUME CountersTyped, Counting, Clocked, NEW e \in CounterKeys, NEW a, CountsSince(e, a),
           IsFiniteSet(Passed(e)), Tick
    PROVE  \E x \in Nat : CountsSince(e, x)'
<1>1. /\ a \in Nat /\ a <= clock /\ clock \in 0..MaxTime /\ counter[e].count \in Nat
      /\ MaxPerEmail \in Nat /\ MaxPerEmail > 0 /\ Window \in Nat /\ MaxTime \in Nat
      /\ Never = MaxTime + Window + 1 /\ clock' = clock + 1 /\ clock' <= MaxTime
      /\ counter[e].until \in Nat
  BY LimitNumbers DEF CountsSince, CountersTyped, Tick
<1>2. counter'[e] = IF counter[e].until <= clock' THEN NoCounter ELSE counter[e]
  BY DEF Tick, Expired
<1>3. SamePasses(e) BY DEF Tick, SamePasses, Passed
<1>4. \A from, to : Between(e, from, to)' = Between(e, from, to) BY <1>3, BetweenSame
<1>5. CASE counter[e].count > 0 /\ counter[e].until <= clock'
  <2>1. a + Window <= clock' BY <1>1, <1>5 DEF CountsSince
  <2>2. \A p \in Passed(e) : attempt[p].time \in Nat /\ attempt[p].time <= clock BY PassedTyped
  <2>3. Between(e, clock', MaxTime) = {} BY <1>1, <2>2 DEF Between
  <2>4. Between(e, clock' - Window + 1, clock' - 1) \subseteq Between(e, a + 1, MaxTime)
    BY <1>1, <2>1, <2>2 DEF Between
  <2>5. /\ Cardinality(Between(e, clock' - Window + 1, clock' - 1)) \in Nat
        /\ Cardinality(Between(e, a + 1, MaxTime)) \in Nat
        /\ Cardinality(Between(e, clock' - Window + 1, clock' - 1))
              <= Cardinality(Between(e, a + 1, MaxTime))
    BY <2>4, BetweenFinite, SubsetSmaller
  <2>6. Cardinality(Between(e, a + 1, MaxTime)) <= MaxPerEmail - 1 BY <1>5 DEF CountsSince
  <2>7. Cardinality(Between(e, clock' - Window + 1, clock' - 1)) <= MaxPerEmail - 1
    BY <1>1, <2>5, <2>6
  <2>8. counter'[e].count = 0 BY <1>2, <1>5 DEF NoCounter
  <2> PICK now \in Nat : now = clock' BY <1>1
  <2>9. /\ Between(e, now, MaxTime)' = {}
        /\ Cardinality(Between(e, now - Window + 1, now - 1)') <= MaxPerEmail - 1
    BY <1>1, <1>4, <2>3, <2>7
  <2>10. CountsSince(e, now)'
    BY <1>1, <2>8, <2>9 DEF CountsSince
  <2> QED BY <2>10
<1>6. CASE ~(counter[e].count > 0 /\ counter[e].until <= clock')
  <2>1. counter'[e].count = counter[e].count
        /\ (counter'[e].count > 0 => counter'[e].until = counter[e].until)
    BY <1>1, <1>2, <1>6 DEF NoCounter
  <2>2. CountsSince(e, a)'
    BY <1>1, <1>4, <2>1 DEF CountsSince
  <2> QED BY <1>1, <2>2
<1> QED BY <1>5, <1>6

--------------------------------------------------------------------------------
\* What each step is to an account.
LEMMA IncrCounts ==
    ASSUME CountersTyped, NEW p, NEW k \in CounterKeys, Incr(p, k), NEW e \in CounterKeys
    PROVE  clock' = clock /\ blind' = blind /\ (IF e = k THEN Counts(e) ELSE Rests(e))
BY DEF CountersTyped, Incr, SameGuard, Counts, Rests

\* Attempts that do not pass, and those that pass uncounted, are nobody's.
LEMMA NonePasses ==
    ASSUME NEW e, NEW p \in Attempts, attempt[p].step # "passed",
           \A x \in Attempts \ {p} : attempt'[x] = attempt[x],
           blind' \in {blind, blind \cup {p}},
           attempt'[p].step # "passed" \/ p \in blind' \/ attempt'[p].email # e
    PROVE  SamePasses(e)
BY DEF SamePasses, Passed

\* Every step but a tick leaves the account, counts for it, or lets one
\* through.
LEMMA StepOfAccount ==
    ASSUME LimitInv, LimitNext, ~Tick, NEW e \in CounterKeys
    PROVE  AccountStep(e)
<1>0. /\ CountersTyped /\ Counting /\ clock \in Nat /\ Window \in Nat
      /\ counter[e].until \in Nat /\ counter[e].count \in Nat
  BY LimitNumbers DEF LimitInv, CountersTyped
<1>1. ASSUME UNCHANGED <<clock, loginVars>> PROVE AccountStep(e)
  <2>1. SamePasses(e) /\ Rests(e) /\ clock' = clock
    BY <1>0, <1>1 DEF loginVars, SamePasses, Passed, Rests
  <2> QED BY <2>1 DEF AccountStep
<1>2. ASSUME NEW b \in Servers, ServerStep(b) PROVE AccountStep(e)
  <2>1. UNCHANGED <<clock, loginVars>>
    BY <1>2 DEF ServerStep, Register, Connect, Connected, ConnectFails, ConnectionError, Exec,
       TryReset, OtherRequest, Request, SameRedis
  <2> QED BY <2>1, <1>1
<1>3. ASSUME NEW b \in Servers, NEW k \in CounterKeys, SetExpiry(b, k) PROVE AccountStep(e)
  <2>1. UNCHANGED <<clock, attempt, blind>>
        /\ counter' = [counter EXCEPT ![k].until = IF counter[k].count > 0 THEN clock + Window ELSE @]
    BY <1>3 DEF SetExpiry, SameGuard
  <2>2. SamePasses(e) BY <2>1 DEF SamePasses, Passed
  <2>3. Rests(e) BY <1>0, <2>1 DEF CountersTyped, Rests
  <2> QED BY <2>1, <2>2, <2>3 DEF AccountStep
<1>4. ASSUME NEW b \in Servers, NEW k \in CounterKeys, ExpiryRejected(b, k) PROVE AccountStep(e)
  <2>1. UNCHANGED <<clock, counter, blind>>
        /\ attempt' = [p \in Attempts |-> IF attempt[p].by = b /\ attempt[p].step \in {"ip", "email"}
                                      THEN [attempt[p] EXCEPT !.step = "lost"] ELSE attempt[p]]
    BY <1>4 DEF ExpiryRejected
  <2>2. \A p \in Attempts :
           \/ attempt'[p] = attempt[p]
           \/ attempt[p].step \in {"ip", "email"} /\ attempt'[p].step = "lost"
    BY <1>0, <2>1 DEF Counting
  <2>3. SamePasses(e) BY <2>1, <2>2 DEF SamePasses, Passed
  <2>4. Rests(e) BY <1>0, <2>1 DEF Rests
  <2> QED BY <2>1, <2>3, <2>4 DEF AccountStep
<1>5. ASSUME NEW p \in Attempts, IncrIp(p) PROVE AccountStep(e)
  <2>1. /\ attempt[p].step = "ip" /\ \A x \in Attempts \ {p} : attempt'[x] = attempt[x]
        /\ attempt'[p].step = "email" /\ Incr(p, "ip") /\ "ip" \in CounterKeys
    BY <1>0, <1>5 DEF IncrIp, Counting, CounterKeys
  <2>2. clock' = clock /\ blind' = blind /\ (Counts(e) \/ Rests(e))
    BY <1>0, <2>1, IncrCounts
  <2>3. SamePasses(e) BY <2>1, <2>2, NonePasses
  <2> QED BY <2>2, <2>3 DEF AccountStep
<1>6. ASSUME NEW p \in Attempts, IncrEmail(p) PROVE AccountStep(e)
  <2> DEFINE k == attempt[p].email
  <2>1. /\ attempt[p].step = "email" /\ \A x \in Attempts \ {p} : attempt'[x] = attempt[x]
        /\ attempt'[p].step = Verdict(attempt[p].ip, counter'[k].count)
        /\ attempt'[p].email = k /\ attempt'[p].time = clock
        /\ Incr(p, k) /\ k \in CounterKeys
    BY <1>0, <1>6 DEF IncrEmail, Counting
  <2>2. clock' = clock /\ blind' = blind /\ (IF e = k THEN Counts(e) ELSE Rests(e))
    BY <1>0, <2>1, IncrCounts
  <2>3. CASE e # k \/ p \in blind \/ attempt'[p].step # "passed"
    <3>1. SamePasses(e) BY <2>1, <2>2, <2>3, NonePasses
    <3> QED BY <2>2, <3>1 DEF AccountStep
  <2>4. CASE e = k /\ p \notin blind /\ attempt'[p].step = "passed"
    <3>1. Passes(e, p) BY <2>1, <2>2, <2>4 DEF Passes, Passed
    <3>2. counter'[e].count <= MaxPerEmail
      <4>1. ~(counter'[e].count > MaxPerEmail) BY <2>1, <2>4 DEF Verdict
      <4>2. counter'[e].count = counter[e].count + 1 BY <2>2, <2>4 DEF Counts
      <4> QED BY <1>0, <4>1, <4>2, LimitNumbers
    <3> QED BY <2>2, <2>4, <3>1, <3>2 DEF AccountStep
  <2> QED BY <2>3, <2>4
<1>7. ASSUME NEW p \in Attempts, IncrFails(p) PROVE AccountStep(e)
  <2> DEFINE k == IF attempt[p].step = "ip" THEN "ip" ELSE attempt[p].email
  <2>1. /\ clock' = clock /\ attempt[p].step \in {"ip", "email"} /\ blind' = blind \cup {p}
        /\ \A x \in Attempts \ {p} : attempt'[x] = attempt[x]
        /\ counter' = counter \/ counter' = [counter EXCEPT ![k].count = @ + 1]
    BY <1>0, <1>7 DEF IncrFails, SameGuard, Counting
  <2>2. SamePasses(e) BY <2>1, NonePasses
  <2>3. Rests(e) \/ Counts(e)
    <3> HIDE DEF k
    <3> QED BY <1>0, <2>1 DEF CountersTyped, Rests, Counts
  <2> QED BY <2>1, <2>2, <2>3 DEF AccountStep
<1>8. ASSUME NEW p \in Attempts, NEW b \in Servers, NEW f \in Emails, Attempt(p, b, f)
      PROVE AccountStep(e)
  <2>1. /\ UNCHANGED <<clock, counter>> /\ attempt[p].step = "new"
        /\ \A x \in Attempts \ {p} : attempt'[x] = attempt[x]
        /\ attempt'[p].step = (IF ~Admitted(b) THEN "refused"
                               ELSE IF InternalClient(b) THEN "ip" ELSE Verdict(1, 1))
        /\ blind' = IF InternalClient(b) THEN blind ELSE blind \cup {p}
    BY <1>0, <1>8 DEF Attempt, Request, Counting
  <2>2. attempt'[p].step # "passed" \/ p \in blind' BY <2>1
  <2>3. SamePasses(e) BY <2>1, <2>2, NonePasses
  <2>4. Rests(e) BY <1>0, <2>1 DEF Rests
  <2> QED BY <2>1, <2>3, <2>4 DEF AccountStep
<1>9. ASSUME RedisStops \/ RedisReturns PROVE AccountStep(e)
  BY <1>1, <1>9 DEF RedisStops, RedisReturns
<1> QED BY <1>2, <1>3, <1>4, <1>5, <1>6, <1>7, <1>8, <1>9 DEF LimitNext

\* Nobody passes before now, and only a counter that counts has an expiry set.
LEMMA ClockedStep == LimitInv /\ Clocked /\ LimitNext => Clocked'
<1> SUFFICES ASSUME LimitInv, Clocked, LimitNext, NEW k \in CounterKeys
             PROVE  /\ \A p \in Passed(k)' : attempt'[p].time <= clock'
                    /\ counter'[k].count = 0 => counter'[k].until = Never
  BY DEF Clocked, Never
<1>0. /\ CountersTyped /\ Counting /\ counter[k].count \in Nat /\ clock \in Nat
      /\ \A p \in Passed(k) : attempt[p].time \in Nat /\ attempt[p].time <= clock
      /\ counter[k].count = 0 => counter[k].until = Never
  BY PassedTyped DEF LimitInv, CountersTyped, Clocked
<1>1. CASE Tick
  <2>1. /\ clock' = clock + 1 /\ UNCHANGED <<attempt, blind>>
        /\ counter'[k] = NoCounter \/ counter'[k] = counter[k]
    BY <1>1 DEF Tick, Expired
  <2> QED BY <1>0, <2>1 DEF Passed, NoCounter
<1>2. CASE ~Tick
  <2>1. AccountStep(k) BY <1>2, StepOfAccount
  <2>2. CASE SamePasses(k) /\ (Rests(k) \/ Counts(k))
    BY <1>0, <2>1, <2>2 DEF AccountStep, SamePasses, Rests, Counts
  <2>3. CASE \E p \in Attempts : Passes(k, p) /\ Counts(k)
    <3> PICK p \in Attempts : Passes(k, p) /\ Counts(k) BY <2>3
    <3> QED BY <1>0, <2>1 DEF AccountStep, Passes, Counts
  <2> QED BY <2>1, <2>2, <2>3 DEF AccountStep
<1> QED BY <1>1, <1>2

\* The spans the limit is about.
Capped ==
    \A e \in Emails, t \in 0..MaxTime :
        Cardinality(Between(e, t, t + Window - 1)) <= 2 * MaxPerEmail - 1

\* That is the property.
LEMMA CappedBetween == Counting => (LoginCapped <=> Capped)
<1> SUFFICES ASSUME Counting PROVE LoginCapped <=> Capped OBVIOUS
<1>1. ASSUME NEW e \in Emails, NEW t \in 0..MaxTime
      PROVE  PassedFrom(e, t) = Between(e, t, t + Window - 1)
  <2>1. \A p \in Attempts : attempt[p].time \in Nat BY DEF Counting
  <2> QED BY <2>1, LimitNumbers DEF PassedFrom, Between, Passed
<1> QED BY <1>1 DEF LoginCapped, Capped

\* Every step leaves a counter that counts since some moment.
LEMMA GenerationsStep ==
    LimitInv /\ Clocked /\ Generations /\ LimitNext => Generations'
<1> SUFFICES ASSUME LimitInv, Clocked, Generations, LimitNext, NEW e \in CounterKeys
             PROVE  IsFiniteSet(Passed(e))' /\ \E a \in Nat : CountsSince(e, a)'
  BY DEF Generations
<1>0. CountersTyped /\ Counting /\ CountersTyped' BY LimitInvStep DEF LimitInv
<1>1. IsFiniteSet(Passed(e)) BY DEF Generations
<1> PICK a \in Nat : CountsSince(e, a) BY DEF Generations
<1>2. CASE Tick
  <2>1. Passed(e)' = Passed(e) BY <1>2 DEF Tick, Passed
  <2> QED BY <1>0, <1>1, <1>2, <2>1, SinceTick
<1>3. CASE ~Tick
  <2>1. AccountStep(e) BY <1>3, StepOfAccount
  <2>2. clock' = clock BY <2>1 DEF AccountStep
  <2>3. CASE SamePasses(e) /\ Rests(e)
    <3>1. clock \in Nat /\ counter[e].until \in Nat /\ counter'[e].until \in Nat
      BY <1>0 DEF CountersTyped
    <3>2. CountsSince(e, a)' BY <2>2, <2>3, <3>1, SinceSame
    <3>3. Passed(e)' = Passed(e) BY <2>3 DEF SamePasses
    <3> QED BY <1>1, <3>2, <3>3
  <2>4. CASE SamePasses(e) /\ Counts(e)
    <3>1. \E x \in Nat : CountsSince(e, x)' BY <1>0, <1>1, <2>2, <2>4, SinceCounted
    <3>2. Passed(e)' = Passed(e) BY <2>4 DEF SamePasses
    <3> QED BY <1>1, <3>1, <3>2
  <2>5. CASE \E p \in Attempts : Passes(e, p) /\ Counts(e) /\ counter'[e].count <= MaxPerEmail
    <3> PICK p \in Attempts : Passes(e, p) /\ Counts(e) /\ counter'[e].count <= MaxPerEmail
      BY <2>5
    <3>1. \E x \in Nat : CountsSince(e, x)' BY <1>0, <1>1, <2>2, SincePassed
    <3>2. Passed(e)' = Passed(e) \cup {p} BY DEF Passes
    <3>3. IsFiniteSet(Passed(e) \cup {p}) BY <1>1, FS_AddElement
    <3> QED BY <3>1, <3>2, <3>3
  <2> QED BY <2>1, <2>3, <2>4, <2>5 DEF AccountStep
<1> QED BY <1>2, <1>3

\* A span that meets now is covered by the counter and the window before it.
SpanCovered ==
    \A e \in CounterKeys, a \in Nat, t \in 0..MaxTime :
        CountsSince(e, a) /\ counter[e].count > 0 /\ clock <= t + Window - 1 =>
            Cardinality(Between(e, t, t + Window - 1)) <= 2 * MaxPerEmail - 1

LEMMA SpanCapped == CountersTyped /\ Counting /\ Clocked /\ Generations => SpanCovered
<1> SUFFICES ASSUME CountersTyped, Counting, Clocked, Generations, NEW e \in CounterKeys,
                    NEW a \in Nat, NEW t \in 0..MaxTime, CountsSince(e, a),
                    counter[e].count > 0, clock <= t + Window - 1
             PROVE  Cardinality(Between(e, t, t + Window - 1)) <= 2 * MaxPerEmail - 1
  BY DEF SpanCovered
<1>0. /\ IsFiniteSet(Passed(e))
      /\ \A p \in Passed(e) : attempt[p].time \in Nat /\ attempt[p].time <= clock
  BY PassedTyped DEF Generations
<1> DEFINE late == Between(e, a, MaxTime)
           early == Between(e, a - Window + 1, a - 1)
           span == Between(e, t, t + Window - 1)
<1>1. /\ a \in Nat /\ a <= clock /\ clock \in 0..MaxTime /\ Window \in Nat /\ MaxTime \in Nat
      /\ MaxPerEmail \in Nat
  BY LimitNumbers DEF CountsSince, CountersTyped
<1>2. span \subseteq late \cup early BY <1>0, <1>1 DEF Between
<1>3. /\ IsFiniteSet(late) /\ IsFiniteSet(early) /\ IsFiniteSet(span)
      /\ Cardinality(late) \in Nat /\ Cardinality(early) \in Nat /\ Cardinality(span) \in Nat
  BY <1>0, BetweenFinite
<1>4. Cardinality(late) <= MaxPerEmail /\ Cardinality(early) <= MaxPerEmail - 1
  BY DEF CountsSince
<1> HIDE DEF late, early, span
<1>5. IsFiniteSet(late \cup early)
      /\ Cardinality(late \cup early)
            = Cardinality(late) + Cardinality(early) - Cardinality(late \cap early)
  BY <1>3, FS_Union
<1>6. Cardinality(late \cap early) \in Nat BY <1>3, FS_Intersection, FS_CardinalityType
<1>7. Cardinality(span) <= Cardinality(late \cup early) BY <1>2, <1>5, SubsetSmaller
<1>8. Cardinality(span) <= 2 * MaxPerEmail - 1
  BY <1>1, <1>3, <1>4, <1>5, <1>6, <1>7
<1> QED BY <1>8 DEF span

\* A step that lets one through keeps the spans that meet now within the limit.
LEMMA CappedStep ==
    LimitInv /\ Clocked /\ Generations /\ Capped /\ LimitNext => Capped'
<1> SUFFICES ASSUME LimitInv, Clocked, Generations, Capped, LimitNext,
                    NEW e \in Emails, NEW t \in 0..MaxTime
             PROVE  Cardinality(Between(e, t, t + Window - 1)') <= 2 * MaxPerEmail - 1
  BY DEF Capped
<1>0. /\ CountersTyped /\ Counting /\ CountersTyped' /\ Counting' /\ Clocked' /\ Generations'
      /\ e \in CounterKeys /\ clock \in Nat /\ Window \in Nat
  BY LimitInvStep, ClockedStep, GenerationsStep, LimitNumbers
  DEF LimitInv, CounterKeys, CountersTyped
<1>1. Cardinality(Between(e, t, t + Window - 1)) <= 2 * MaxPerEmail - 1 BY DEF Capped
<1>2. CASE SamePasses(e)
  <2>1. Between(e, t, t + Window - 1)' = Between(e, t, t + Window - 1) BY <1>2, BetweenSame
  <2> QED BY <1>1, <2>1
<1>3. CASE Tick
  <2>1. SamePasses(e) BY <1>3 DEF Tick, SamePasses, Passed
  <2> QED BY <1>2, <2>1
<1>4. ASSUME NEW p \in Attempts, Passes(e, p), Counts(e), counter'[e].count <= MaxPerEmail,
             clock' = clock
      PROVE  Cardinality(Between(e, t, t + Window - 1)') <= 2 * MaxPerEmail - 1
  <2>1. CASE t <= clock /\ clock <= t + Window - 1
    <3>1. PICK a \in Nat : CountsSince(e, a)' BY <1>0 DEF Generations
    <3>2. counter'[e].count > 0 BY <1>0, <1>4 DEF Counts, CountersTyped
    <3>3. clock' <= t + Window - 1 BY <1>4, <2>1
    <3>4. SpanCovered' BY <1>0, SpanCapped, PTL
    <3> QED BY <1>0, <3>1, <3>2, <3>3, <3>4 DEF SpanCovered
  <2>2. CASE ~(t <= clock /\ clock <= t + Window - 1)
    <3>1. Between(e, t, t + Window - 1)' \subseteq Between(e, t, t + Window - 1)
      BY <1>0, <1>4, <2>2, BetweenPassed
    <3>2. IsFiniteSet(Between(e, t, t + Window - 1)) BY <1>0, BetweenFinite DEF Generations
    <3>3. Cardinality(Between(e, t, t + Window - 1)')
             <= Cardinality(Between(e, t, t + Window - 1))
          /\ Cardinality(Between(e, t, t + Window - 1)') \in Nat
          /\ Cardinality(Between(e, t, t + Window - 1)) \in Nat
      BY <3>1, <3>2, SubsetSmaller
    <3> QED BY <1>1, <3>3, LimitNumbers
  <2> QED BY <2>1, <2>2
<1>5. CASE ~Tick
  <2>1. AccountStep(e) BY <1>0, <1>5, StepOfAccount
  <2> QED BY <1>2, <1>4, <2>1 DEF AccountStep
<1> QED BY <1>3, <1>5

\* Every step keeps the limit of the logins.
LEMMA CapInvStep == CapInv /\ [LimitNext]_limitVars => CapInv'
<1> SUFFICES ASSUME CapInv, [LimitNext]_limitVars PROVE CapInv' OBVIOUS
<1>0. LimitInv' /\ Counting /\ Counting' BY LimitInvStep DEF CapInv, LimitInv
<1>1. CASE LimitNext
  <2>1. Capped BY <1>0, CappedBetween DEF CapInv
  <2>2. Clocked' /\ Generations' /\ Capped'
    BY <1>1, <2>1, ClockedStep, GenerationsStep, CappedStep DEF CapInv
  <2>3. LoginCapped' BY <1>0, <2>2, CappedBetween, PTL
  <2> QED BY <1>0, <2>2, <2>3 DEF CapInv
<1>2. CASE UNCHANGED limitVars
  <2>1. UNCHANGED <<clock, counter, attempt, blind>> BY <1>2 DEF limitVars, loginVars
  <2>2. Clocked' BY <2>1 DEF CapInv, Clocked, Passed, Never
  <2>3. \A e, x, y : Between(e, x, y)' = Between(e, x, y) BY <2>1 DEF Between, Passed
  <2>4. \A e : Passed(e)' = Passed(e) BY <2>1 DEF Passed
  <2>5. \A e, a : CountsSince(e, a)' = CountsSince(e, a) BY <2>1, <2>3 DEF CountsSince
  <2>6. Generations' BY <2>4, <2>5 DEF CapInv, Generations
  <2>7. LoginCapped' BY <2>1 DEF CapInv, LoginCapped, PassedFrom
  <2> QED BY <1>0, <2>2, <2>6, <2>7 DEF CapInv
<1> QED BY <1>1, <1>2

\* login-rate-limit.guard.ts:47, "Too many login attempts for this account":
\* however the replicas' requests interleave, and whatever becomes of Redis and
\* of the PEXPIREs, the attempts on an account that Redis counted and that were let
\* through within a window are at most twice the maximum less one.
THEOREM LoginCapHolds == LimitSpec => []LoginCapped
<1>1. LimitInit => CapInv
  <2> SUFFICES ASSUME LimitInit PROVE CapInv OBVIOUS
  <2>1. LimitInv /\ Counting BY LimitInvInit DEF LimitInv
  <2>2. \A e : Passed(e) = {} BY DEF LimitInit, Passed, NewAttempt
  <2>3. \A e, x, y : Between(e, x, y) = {} BY <2>2 DEF Between
  <2>4. \A k \in CounterKeys : counter[k].count = 0 /\ counter[k].until = Never
    BY DEF LimitInit, NoCounter
  <2>5. Clocked BY <2>2, <2>4 DEF Clocked
  <2>6. ASSUME NEW e \in CounterKeys PROVE CountsSince(e, 0)
    <3>1. clock = 0 BY DEF LimitInit
    <3>2. Cardinality(Between(e, 0 - Window + 1, 0 - 1)) = 0 BY <2>3, EmptyCounts
    <3> QED BY <2>3, <2>4, <3>1, <3>2, LimitNumbers DEF CountsSince
  <2>7. Generations BY <2>2, <2>6, EmptyCounts DEF Generations
  <2>8. Capped BY <2>3, LimitNumbers, EmptyCounts DEF Capped
  <2>9. LoginCapped BY <2>1, <2>8, CappedBetween
  <2> QED BY <2>1, <2>5, <2>7, <2>9 DEF CapInv
<1>2. CapInv => LoginCapped BY DEF CapInv
<1> QED BY <1>1, <1>2, CapInvStep, PTL DEF LimitSpec

--------------------------------------------------------------------------------
(* The types of the limits.                                                  *)

\* What a replica knows of Redis and of its own requests.
ServersTyped ==
    /\ boot \in [Servers -> {"registering", "connecting", "dialing", "serving", "stopped"}]
    /\ errors \in [Servers -> Nat]
    /\ {client, fallback, resetTimer} \subseteq [Servers -> BOOLEAN]
    /\ \A b \in Servers : errors[b] >= Threshold => fallback[b]
    /\ store \in [Servers -> {"none", "memory"}]

RequestsTyped ==
    /\ entry \in [Servers -> [count : Nat, until : 0..Never]]
    /\ served \in [Servers -> Seq([time : 0..MaxTime, admitted : BOOLEAN])]

CountersDue ==
    /\ up \in BOOLEAN /\ outages \in 0..MaxOutages
    /\ \A k \in CounterKeys : counter[k].until <= Never
    /\ expiring \subseteq Servers \X CounterKeys /\ blind \subseteq Attempts

LimitTyped == LimitInv /\ ServersTyped /\ RequestsTyped /\ CountersDue

LEMMA LimitTypedTypes == LimitTyped => LimitTypeOK
<1> SUFFICES ASSUME LimitTyped PROVE LimitTypeOK
  OBVIOUS
<1>1. counter \in [CounterKeys -> [count : Nat, until : 0..Never]]
  <2>1. counter \in [CounterKeys -> [count : Nat, until : Nat]] /\ Never \in Nat
    BY NeverLater DEF LimitTyped, LimitInv, CountersTyped
  <2>2. \A k \in CounterKeys : counter[k].until \in 0..Never
    BY <2>1 DEF LimitTyped, CountersDue
  <2> QED BY <2>1, <2>2
<1>2. \A p \in Attempts : attempt[p].step \in {"new", "ip", "email", "passed", "refused", "lost"}
  BY DEF LimitTyped, LimitInv, Counting, Steps
<1>3. clock \in 0..MaxTime BY DEF LimitTyped, LimitInv, CountersTyped
<1> QED BY <1>1, <1>2, <1>3 DEF LimitTyped, ServersTyped, RequestsTyped, CountersDue, LimitTypeOK

LEMMA LimitTypedInit == LimitInit => LimitTyped
<1> SUFFICES ASSUME LimitInit PROVE LimitTyped
  OBVIOUS
<1>1. LimitInv BY LimitInvInit
<1>2. ServersTyped
  BY RateLimitAssumption DEF LimitInit, ServersTyped
<1>3. RequestsTyped
  BY NeverLater DEF LimitInit, RequestsTyped, NoCounter
<1>4. CountersDue
  BY NeverLater, RateLimitAssumption DEF LimitInit, CountersDue, NoCounter
<1> QED BY <1>1, <1>2, <1>3, <1>4 DEF LimitTyped

\* A fallback that is active stays so until a connection, which clears the errors.
LEMMA ServersStep ==
    ASSUME LimitTyped, [LimitNext]_limitVars
    PROVE  ServersTyped'
<1>0. /\ ServersTyped /\ Threshold \in Nat /\ Threshold > 0
  BY RateLimitAssumption DEF LimitTyped
<1>1. ASSUME UNCHANGED redisVars, UNCHANGED store,
             boot' = boot \/ \E b \in Servers, v \in {"connecting", "stopped"} :
                                boot' = [boot EXCEPT ![b] = v]
      PROVE  ServersTyped'
  BY <1>0, <1>1 DEF ServersTyped, redisVars
<1>2. ASSUME NEW b \in Servers, Register(b) PROVE ServersTyped'
  BY <1>0, <1>2 DEF Register, Boots, ServersTyped, redisVars
<1>3. ASSUME NEW b \in Servers, NEW n \in Nat, ClientErrors(b, n), UNCHANGED <<client, store>>,
             boot' = boot \/ boot' = [boot EXCEPT ![b] = "serving"]
      PROVE  ServersTyped'
  <2>1. boot' \in [Servers -> {"registering", "connecting", "dialing", "serving", "stopped"}]
    BY <1>0, <1>3 DEF ServersTyped
  <2>2. errors' \in [Servers -> Nat] BY <1>0, <1>3 DEF ServersTyped, ClientErrors
  <2>3. fallback' \in [Servers -> BOOLEAN] /\ resetTimer' \in [Servers -> BOOLEAN]
    BY <1>0, <1>3 DEF ServersTyped, ClientErrors
  <2>4. \A x \in Servers : errors'[x] >= Threshold => fallback'[x]
    BY <1>0, <1>3 DEF ServersTyped, ClientErrors
  <2> QED BY <1>0, <1>3, <2>1, <2>2, <2>3, <2>4 DEF ServersTyped
<1>4. ASSUME NEW b \in Servers, ConnectFails(b) \/ ConnectionError(b) PROVE ServersTyped'
  BY <1>3, <1>4 DEF ConnectFails, ConnectionError, Boots, SameRedis, globalVars
<1>5. ASSUME NEW b \in Servers, Connect(b) \/ Connected(b) \/ Exec(b) \/ TryReset(b)
      PROVE  ServersTyped'
  <2>1. UNCHANGED store BY <1>5 DEF Connect, Connected, Exec, TryReset, SameRedis, globalVars
  <2>2. CASE Connect(b) BY <1>0, <2>1, <2>2 DEF Connect, Boots, ServersTyped
  <2>3. CASE Connected(b) BY <1>0, <2>1, <2>3 DEF Connected, Boots, ServersTyped
  <2>4. CASE Exec(b) BY <1>0, <2>1, <2>4 DEF Exec, ServersTyped
  <2>5. CASE TryReset(b) BY <1>0, <2>1, <2>5 DEF TryReset, ServersTyped
  <2> QED BY <1>5, <2>2, <2>3, <2>4, <2>5
<1>6. ASSUME NEW b \in Servers, ServerStep(b) PROVE ServersTyped'
  BY <1>1, <1>2, <1>4, <1>5, <1>6 DEF ServerStep, OtherRequest, Request
<1>7. ASSUME NEW b \in Servers, NEW k \in CounterKeys, SetExpiry(b, k) \/ ExpiryRejected(b, k)
      PROVE  ServersTyped'
  BY <1>1, <1>7 DEF SetExpiry, ExpiryRejected, SameGuard, Boots, globalVars
<1>8. ASSUME NEW p \in Attempts, IncrIp(p) \/ IncrEmail(p) \/ IncrFails(p) PROVE ServersTyped'
  BY <1>1, <1>8 DEF IncrIp, IncrEmail, IncrFails, Incr, SameGuard, globalVars
<1>9. ASSUME NEW p \in Attempts, NEW b \in Servers, NEW e \in Emails, Attempt(p, b, e)
      PROVE  ServersTyped'
  BY <1>1, <1>9 DEF Attempt, Request
<1>10. CASE Tick \/ RedisStops \/ RedisReturns \/ UNCHANGED limitVars
  BY <1>1, <1>10 DEF Tick, RedisStops, RedisReturns, limitVars, globalVars
<1> QED BY <1>6, <1>7, <1>8, <1>9, <1>10 DEF LimitNext

LEMMA RequestsStep ==
    ASSUME LimitTyped, [LimitNext]_limitVars
    PROVE  RequestsTyped'
<1>0. RequestsTyped /\ clock \in 0..MaxTime /\ MaxTime \in Nat
  BY RateLimitAssumption DEF LimitTyped, LimitInv, CountersTyped
<1>1. ASSUME UNCHANGED <<entry, served>> PROVE RequestsTyped'
  BY <1>0, <1>1 DEF RequestsTyped
<1>2. ASSUME NEW b \in Servers, Request(b) PROVE RequestsTyped'
  <2>1. clock + Window \in 0..Never BY <1>0, NeverLater
  <2>2. \A e \in [count : Nat, until : 0..Never] :
           Extended(e) \in [count : Nat, until : 0..Never]
    BY <2>1 DEF Extended
  <2>3. \A e \in [count : Nat, until : 0..Never] :
           Counted(e) \in [count : Nat, until : 0..Never]
    BY <2>1 DEF Counted
  <2>4. entry' \in [Servers -> [count : Nat, until : 0..Never]]
    BY <1>0, <1>2, <2>2, <2>3 DEF RequestsTyped, Request
  <2>5. [time |-> clock, admitted |-> Admitted(b)] \in [time : 0..MaxTime, admitted : BOOLEAN]
    BY <1>0 DEF Admitted
  <2>6. served' \in [Servers -> Seq([time : 0..MaxTime, admitted : BOOLEAN])]
    <3>1. PICK q \in [time : 0..MaxTime, admitted : BOOLEAN] :
             served' = [served EXCEPT ![b] = Append(@, q)]
      BY <1>2, <2>5 DEF Request
    <3>2. Append(served[b], q) \in Seq([time : 0..MaxTime, admitted : BOOLEAN])
      BY <1>0, AppendProperties DEF RequestsTyped
    <3> QED BY <1>0, <3>1, <3>2 DEF RequestsTyped
  <2> QED BY <2>4, <2>6 DEF RequestsTyped
<1>3. ASSUME NEW b \in Servers, ServerStep(b) PROVE RequestsTyped'
  BY <1>1, <1>2, <1>3 DEF ServerStep, Register, Connect, Connected, ConnectFails, ConnectionError,
     Exec, TryReset, OtherRequest, SameRedis, globalVars
<1>4. ASSUME NEW b \in Servers, NEW k \in CounterKeys, SetExpiry(b, k) \/ ExpiryRejected(b, k)
      PROVE  RequestsTyped'
  BY <1>1, <1>4 DEF SetExpiry, ExpiryRejected, SameGuard, globalVars
<1>5. ASSUME NEW p \in Attempts, IncrIp(p) \/ IncrEmail(p) \/ IncrFails(p) PROVE RequestsTyped'
  BY <1>1, <1>5 DEF IncrIp, IncrEmail, IncrFails, Incr, SameGuard, globalVars
<1>6. ASSUME NEW p \in Attempts, NEW b \in Servers, NEW e \in Emails, Attempt(p, b, e)
      PROVE  RequestsTyped'
  BY <1>2, <1>6 DEF Attempt
<1>7. CASE Tick \/ RedisStops \/ RedisReturns \/ UNCHANGED limitVars
  BY <1>1, <1>7 DEF Tick, RedisStops, RedisReturns, limitVars, globalVars
<1> QED BY <1>3, <1>4, <1>5, <1>6, <1>7 DEF LimitNext

LEMMA DueStep ==
    ASSUME LimitTyped, [LimitNext]_limitVars
    PROVE  CountersDue'
<1>0. /\ CountersDue /\ counter \in [CounterKeys -> [count : Nat, until : Nat]]
      /\ \A p \in Attempts : attempt[p].email \in CounterKeys
      /\ \A p \in Attempts : attempt[p].step \in {"ip", "email"} => attempt[p].by \in Servers
      /\ Never \in Nat /\ \A t \in 0..MaxTime : t + Window \in Nat /\ t + Window < Never
      /\ clock \in 0..MaxTime /\ MaxOutages \in Nat /\ "ip" \in CounterKeys
  BY NeverLater, RateLimitAssumption DEF LimitTyped, LimitInv, CountersTyped, Counting, CounterKeys
<1>1. ASSUME UNCHANGED <<counter, expiring, up, outages>>, blind' \subseteq Attempts
      PROVE  CountersDue'
  BY <1>0, <1>1 DEF CountersDue, Never
<1>2. ASSUME NEW b \in Servers, ServerStep(b) PROVE CountersDue'
  BY <1>0, <1>1, <1>2 DEF ServerStep, Register, Connect, Connected, ConnectFails, ConnectionError,
     Exec, TryReset, OtherRequest, Request, SameRedis, loginVars, CountersDue
<1>3. ASSUME NEW b \in Servers, NEW k \in CounterKeys, SetExpiry(b, k) PROVE CountersDue'
  <2>1. /\ UNCHANGED <<blind, up, outages>> /\ expiring' \subseteq expiring
        /\ counter' = [counter EXCEPT ![k].until = IF counter[k].count > 0 THEN clock + Window ELSE @]
    BY <1>3 DEF SetExpiry, SameGuard
  <2>2. \A j \in CounterKeys : counter'[j].until <= Never
    BY <1>0, <2>1 DEF CountersDue
  <2> QED BY <1>0, <2>1, <2>2 DEF CountersDue, Never
<1>4. ASSUME NEW b \in Servers, NEW k \in CounterKeys, ExpiryRejected(b, k) PROVE CountersDue'
  <2>1. UNCHANGED <<blind, up, outages, counter>> /\ expiring' \subseteq expiring
    BY <1>4 DEF ExpiryRejected
  <2> QED BY <1>0, <2>1 DEF CountersDue, Never
<1>5. ASSUME NEW p \in Attempts, NEW k \in CounterKeys, Incr(p, k), attempt[p].by \in Servers
      PROVE  CountersDue'
  <2>1. /\ UNCHANGED <<blind, up, outages>> /\ expiring' \subseteq expiring \cup {<<attempt[p].by, k>>}
        /\ counter' = [counter EXCEPT ![k].count = @ + 1]
    BY <1>5 DEF Incr, SameGuard
  <2>2. \A j \in CounterKeys : counter'[j].until = counter[j].until
    BY <1>0, <2>1
  <2> QED BY <1>0, <1>5, <2>1, <2>2 DEF CountersDue, Never
<1>6. ASSUME NEW p \in Attempts, IncrIp(p) \/ IncrEmail(p) PROVE CountersDue'
  BY <1>0, <1>5, <1>6 DEF IncrIp, IncrEmail
<1>7. ASSUME NEW p \in Attempts, IncrFails(p) PROVE CountersDue'
  <2>1. PICK k \in CounterKeys : \/ counter' = counter
                                 \/ counter' = [counter EXCEPT ![k].count = @ + 1]
    BY <1>0, <1>7 DEF IncrFails
  <2>2. /\ UNCHANGED <<expiring, up, outages>> /\ blind' = blind \cup {p}
    BY <1>7 DEF IncrFails, SameGuard
  <2>3. \A j \in CounterKeys : counter'[j].until = counter[j].until
    BY <1>0, <2>1
  <2> QED BY <1>0, <2>2, <2>3 DEF CountersDue, Never
<1>8. ASSUME NEW p \in Attempts, NEW b \in Servers, NEW e \in Emails, Attempt(p, b, e)
      PROVE  CountersDue'
  BY <1>0, <1>1, <1>8 DEF Attempt, Request, CountersDue
<1>9. CASE Tick
  <2>1. /\ UNCHANGED <<expiring, up, outages, blind>>
        /\ \A k \in CounterKeys : counter'[k] \in {NoCounter, counter[k]}
    BY <1>9 DEF Tick, Expired
  <2>2. \A k \in CounterKeys : counter'[k].until <= Never
    BY <1>0, <2>1 DEF CountersDue, NoCounter
  <2> QED BY <1>0, <2>1, <2>2 DEF CountersDue, Never
<1>10. CASE RedisStops \/ RedisReturns
  <2>1. UNCHANGED loginVars /\ up' \in BOOLEAN
    BY <1>10 DEF RedisStops, RedisReturns
  <2>2. outages' = outages \/ (outages < MaxOutages /\ outages' = outages + 1)
    BY <1>10 DEF RedisStops, RedisReturns
  <2>3. outages' \in 0..MaxOutages BY <1>0, <2>2 DEF CountersDue
  <2> QED BY <1>0, <2>1, <2>3 DEF CountersDue, loginVars, Never
<1>11. CASE UNCHANGED limitVars
  BY <1>0, <1>1, <1>11 DEF limitVars, loginVars, CountersDue
<1> QED BY <1>2, <1>3, <1>4, <1>6, <1>7, <1>8, <1>9, <1>10, <1>11 DEF LimitNext

\* redis.service.ts: the types of the limits, and a replica that has met as many
\* errors as it may goes on in its memory until it is connected again.
THEOREM LimitTypeCorrect == LimitSpec => []LimitTypeOK
<1>1. LimitTyped /\ [LimitNext]_limitVars => LimitTyped'
  BY LimitInvStep, ServersStep, RequestsStep, DueStep DEF LimitTyped
<1> QED BY <1>1, LimitTypedInit, LimitTypedTypes, PTL DEF LimitSpec
================================================================================
