------------------------------- MODULE WebSession ------------------------------
(***************************************************************************)
(* The session of one browser in apps/frontend (auth.ts): the JWT in the   *)
(* cookie of NextAuth holds a pair of tokens of the backend, and whoever   *)
(* evaluates the session (the jwt callback) after the access token expired *)
(* exchanges the refresh token.  Several evaluations run at once: the      *)
(* proxy and GET /api/auth/session store the token they end with, auth()   *)
(* in a layout or a page does not.  What NextAuth does is external.        *)
(*                                                                         *)
(* A pair is a number, a token [pair, error].  Of the backend there is the *)
(* set of pairs whose refresh key it has (AuthSession has the rest).       *)
(***************************************************************************)
EXTENDS Integers

CONSTANTS
    Evaluations,   \* evaluations of the session at work at once
    MaxPairs,      \* bound on the pairs the backend issues
    MaxRefusals,   \* bound on calls of the backend that fail
    NoToken        \* no cookie

ASSUME WebAssumption ==
    /\ MaxPairs \in Nat /\ MaxRefusals \in Nat
    /\ NoToken \notin [pair : 1..MaxPairs, error : BOOLEAN]

VARIABLES
    cookie,        \* the token the browser has
    sessionError,  \* session.error as SessionAuthListener sees it
    eval,          \* the evaluations
    refreshable,   \* pairs whose refresh token the backend takes
    expired,       \* pairs whose access token has expired
    pairs,         \* how many pairs the backend has issued
    refusals,      \* history, bounded
    raced          \* history: a pair was exchanged twice at once or not stored,
                   \* or the browser signed out during an evaluation

webVars == <<cookie, sessionError, eval, refreshable, expired, pairs, refusals, raced>>

Pairs == 1..MaxPairs
Jwts == [pair : Pairs, error : BOOLEAN]
Idle == [step |-> "idle", by |-> "proxy", token |-> NoToken, read |-> 0]

WebTypeOK ==
    /\ cookie \in Jwts \cup {NoToken}
    /\ sessionError \in BOOLEAN /\ raced \in BOOLEAN
    /\ eval \in [Evaluations -> [step : {"idle", "read", "rotate", "done"},
                                 by : {"proxy", "session", "layout"},
                                 token : Jwts \cup {NoToken}, read : 0..pairs]]
    /\ \A e \in Evaluations : eval[e].step # "idle" => eval[e].token # NoToken
    /\ refreshable \subseteq 1..pairs /\ expired \subseteq 1..pairs
    /\ pairs \in 0..MaxPairs /\ refusals \in 0..MaxRefusals

WebInit ==
    /\ cookie = NoToken /\ sessionError = FALSE
    /\ eval = [e \in Evaluations |-> Idle]
    /\ refreshable = {} /\ expired = {} /\ pairs = 0
    /\ refusals = 0 /\ raced = FALSE

\* The backend issues another pair.
Issues == pairs < MaxPairs /\ pairs' = pairs + 1

Working(e) == eval[e].step # "idle"
Uses(e, p) == Working(e) /\ eval[e].read = p

-------------------------------------------------------------------------------
\* onSubmit of the login page, authorize, and the jwt callback with a user.
SignIn ==
    /\ cookie = NoToken /\ Issues
    /\ cookie' = [pair |-> pairs', error |-> FALSE]
    /\ refreshable' = refreshable \cup {pairs'}
    /\ sessionError' = FALSE
    /\ UNCHANGED <<eval, expired, refusals, raced>>

AccessExpires ==
    /\ cookie # NoToken /\ cookie.pair \notin expired
    /\ expired' = expired \cup {cookie.pair}
    /\ UNCHANGED <<cookie, sessionError, eval, refreshable, pairs, refusals, raced>>

\* Somebody evaluates the session: the jwt callback returns a token that has
\* not expired, and refreshes another.
Evaluate(e, by) ==
    /\ eval[e].step = "idle" /\ cookie # NoToken
    /\ eval' = [eval EXCEPT ![e] =
          [step |-> IF cookie.pair \in expired THEN "read" ELSE "done",
           by |-> by, token |-> cookie, read |-> cookie.pair]]
    /\ raced' = (raced \/ (cookie.pair \in expired /\ \E f \in Evaluations : Uses(f, cookie.pair)))
    /\ UNCHANGED <<cookie, sessionError, refreshable, expired, pairs, refusals>>

\* Mutant: the refresh token of the answer is not taken over.
RefreshedKeepsOld(token) == token

\* The token after a successful refresh; whatever error it had stays.
Refreshed(token) == [token EXCEPT !.pair = pairs + 1]

Failed(token) == [token EXCEPT !.error = TRUE]

\* POST /auth/refresh finds the refresh key (jwt.strategy.ts:168) ...
RefreshReads(e) ==
    /\ eval[e].step = "read"
    /\ eval' = [eval EXCEPT ![e] =
          IF @.token.pair \in refreshable THEN [@ EXCEPT !.step = "rotate"]
          ELSE [@ EXCEPT !.step = "done", !.token = Failed(eval[e].token)]]
    /\ UNCHANGED <<cookie, sessionError, refreshable, expired, pairs, refusals, raced>>

\* ... issues another pair and deletes it.
RefreshRotates(e) ==
    /\ eval[e].step = "rotate" /\ Issues
    /\ refreshable' = (refreshable \cup {pairs'}) \ {eval[e].token.pair}
    /\ eval' = [eval EXCEPT ![e].step = "done", ![e].token = Refreshed(eval[e].token)]
    /\ UNCHANGED <<cookie, sessionError, expired, refusals, raced>>

\* The backend cannot be reached, or fails: refreshAccessToken catches it.
RefreshFails(e) ==
    /\ eval[e].step \in {"read", "rotate"} /\ refusals < MaxRefusals
    /\ refusals' = refusals + 1
    /\ eval' = [eval EXCEPT ![e].step = "done", ![e].token = Failed(eval[e].token)]
    /\ UNCHANGED <<cookie, sessionError, refreshable, expired, pairs, raced>>

\* The response stores the token; the page takes the session over if it asked
\* for it (useSession) or was rendered with it (the providers of the layout).
Ends(e) ==
    LET x == eval[e] IN
    /\ x.step = "done"
    /\ eval' = [eval EXCEPT ![e] = Idle]
    /\ cookie' = IF x.by = "layout" THEN cookie ELSE x.token
    /\ sessionError' = IF x.by = "proxy" THEN sessionError ELSE x.token.error
    /\ raced' = (raced \/ (x.by = "layout" /\ x.token # cookie))
    /\ UNCHANGED <<refreshable, expired, pairs, refusals>>

\* The response never arrives: the user has navigated on.
Abandoned(e) ==
    /\ eval[e].step = "done"
    /\ eval' = [eval EXCEPT ![e] = Idle]
    /\ raced' = (raced \/ eval[e].token # cookie)
    /\ UNCHANGED <<cookie, sessionError, refreshable, expired, pairs, refusals>>

\* SessionAuthListener or the user menu signs out: the cookie goes, and the
\* signOut event asks the backend to log the pair out and swallows a failure.
SignOut(answered) ==
    /\ cookie # NoToken
    /\ answered \/ refusals < MaxRefusals
    /\ refusals' = IF answered THEN refusals ELSE refusals + 1
    /\ refreshable' = IF answered /\ cookie.pair \notin expired
                      THEN refreshable \ {cookie.pair} ELSE refreshable
    /\ cookie' = NoToken /\ sessionError' = FALSE
    /\ raced' = (raced \/ \E e \in Evaluations : Working(e))
    /\ UNCHANGED <<eval, expired, pairs>>

WebNext ==
    \/ SignIn \/ AccessExpires
    \/ \E e \in Evaluations, by \in {"proxy", "session", "layout"} : Evaluate(e, by)
    \/ \E e \in Evaluations :
          RefreshReads(e) \/ RefreshRotates(e) \/ RefreshFails(e) \/ Ends(e) \/ Abandoned(e)
    \/ \E answered \in BOOLEAN : SignOut(answered)

WebSpec == WebInit /\ [][WebNext]_webVars

-------------------------------------------------------------------------------
\* auth.ts:15-54: a session outlives its access tokens.  Unless the backend
\* failed, two evaluations exchanged a pair at once, an exchange was not stored or
\* a sign-out came in between, the cookie can be refreshed and no error ends it.
SessionSurvives ==
    refusals = 0 /\ ~raced /\ (\A e \in Evaluations : ~Working(e)) =>
        /\ cookie # NoToken => cookie.pair \in refreshable /\ ~cookie.error
        /\ ~sessionError
===============================================================================
