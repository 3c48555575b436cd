-------------------------------- MODULE PagesProof -----------------------------
(*****************************************************************************)
(* What the frontend promises for every number of evaluations of the session *)
(* at work at once, of agents, questions and sockets: a session nobody       *)
(* disturbs outlives its access tokens (WebSession), the page of the         *)
(* assistant shows the conversation the next question goes to, and an answer *)
(* as being typed only while one is awaited (ChatPage), and the pages of the *)
(* tables settle to what the backend has (ListPage).                         *)
(*****************************************************************************)
EXTENDS WebSession, ChatPage, ListPage, FiniteSetTheorems, SequenceTheorems, TLAPS

--------------------------------------------------------------------------------
(* The session.                                                              *)

\* Every pair somebody has was issued.
Issued ==
    /\ cookie # NoToken => cookie.pair <= pairs
    /\ \A e \in Evaluations : Working(e) => eval[e].token.pair <= pairs

\* The types of the evaluations, with n pairs issued.
JobOK(x, n) ==
    /\ x \in [step : {"idle", "read", "rotate", "done"}, by : {"proxy", "session", "layout"},
              token : Jwts \cup {NoToken}, read : 0..n]
    /\ x.step # "idle" => x.token \in Jwts /\ x.token.pair <= n

JobsOK ==
    /\ DOMAIN eval = Evaluations /\ eval = [e \in Evaluations |-> eval[e]]
    /\ \A e \in Evaluations : JobOK(eval[e], pairs)

Others ==
    /\ cookie \in Jwts \cup {NoToken} /\ (cookie # NoToken => cookie.pair <= pairs)
    /\ sessionError \in BOOLEAN /\ raced \in BOOLEAN
    /\ refreshable \subseteq 1..pairs /\ expired \subseteq 1..pairs
    /\ pairs \in 0..MaxPairs /\ refusals \in 0..MaxRefusals

\* The types, by the variables of the store and those of the evaluations.
LEMMA TypeSplit == WebTypeOK /\ Issued <=> Others /\ JobsOK
<1>1. NoToken \notin Jwts
  BY WebAssumption DEF Jwts, Pairs
<1>2. WebTypeOK /\ Issued => Others /\ JobsOK
  BY <1>1 DEF WebTypeOK, Issued, Others, JobsOK, JobOK, Working
<1>3. Others /\ JobsOK => WebTypeOK /\ Issued
  BY <1>1 DEF WebTypeOK, Issued, Others, JobsOK, JobOK, Working
<1>4. QED BY <1>2, <1>3

\* A step that moves one evaluation.
LEMMA JobMoves ==
    ASSUME Others, JobsOK, pairs' \in Nat, pairs <= pairs', NEW e \in Evaluations,
           \E x : JobOK(x, pairs') /\ eval' = [eval EXCEPT ![e] = x]
    PROVE  JobsOK'
<1>1. \A f \in Evaluations : JobOK(eval[f], pairs')
  <2>1. pairs \in Nat
    BY WebAssumption DEF Others
  <2>2. \A f \in Evaluations : eval[f].step # "idle" => eval[f].token.pair \in Nat
    BY WebAssumption DEF JobsOK, JobOK, Jwts, Pairs
  <2>3. QED BY <2>1, <2>2 DEF JobsOK, JobOK
<1>2. QED BY <1>1, WebAssumption DEF JobsOK

\* The types, and that pairs are issued before anybody has them.
LEMMA WebTypeStep ==
    ASSUME Others, JobsOK, [WebNext]_webVars
    PROVE  Others' /\ JobsOK'
<1>0. /\ pairs \in Nat /\ pairs <= MaxPairs /\ MaxPairs \in Nat /\ MaxRefusals \in Nat
      /\ refusals \in Nat /\ NoToken \notin Jwts
  BY WebAssumption DEF Others, Jwts, Pairs
<1>1. CASE UNCHANGED webVars
  BY <1>1 DEF webVars, Others, JobsOK, JobOK
<1>2. ASSUME pairs' = pairs, NEW e \in Evaluations,
             \E x : JobOK(x, pairs) /\ eval' = [eval EXCEPT ![e] = x]
      PROVE  JobsOK'
  <2>1. \E x : JobOK(x, pairs') /\ eval' = [eval EXCEPT ![e] = x]
    BY <1>2
  <2>2. pairs' \in Nat /\ pairs <= pairs'
    BY <1>0, <1>2
  <2>3. QED BY <1>2, <2>1, <2>2, JobMoves
<1>3. CASE SignIn
  <2>1. /\ cookie' = [pair |-> pairs + 1, error |-> FALSE] /\ pairs' = pairs + 1
        /\ pairs < MaxPairs /\ refreshable' = refreshable \cup {pairs + 1}
        /\ sessionError' = FALSE /\ UNCHANGED <<eval, expired, refusals, raced>>
    BY <1>3 DEF SignIn, Issues
  <2>2. Others'
    <3>1. refreshable' \subseteq 1..pairs' /\ expired' \subseteq 1..pairs'
      BY <1>0, <2>1 DEF Others
    <3>2. /\ pairs' \in 0..MaxPairs /\ cookie' \in Jwts /\ cookie'.pair <= pairs'
      BY <1>0, <2>1 DEF Jwts, Pairs
    <3>3. QED BY <2>1, <3>1, <3>2 DEF Others
  <2>3. JobsOK'
    BY <1>0, <2>1 DEF JobsOK, JobOK, Jwts, Pairs
  <2>4. QED BY <2>2, <2>3
<1>4. CASE AccessExpires
  <2>1. UNCHANGED <<cookie, sessionError, eval, refreshable, pairs, refusals, raced>>
        /\ expired' = expired \cup {cookie.pair} /\ cookie # NoToken
    BY <1>4 DEF AccessExpires
  <2>2. QED BY <1>0, <2>1 DEF Others, JobsOK, JobOK, Jwts, Pairs
<1>5. ASSUME NEW e \in Evaluations, NEW by \in {"proxy", "session", "layout"}, Evaluate(e, by)
      PROVE  Others' /\ JobsOK'
  <2>1. /\ UNCHANGED <<cookie, sessionError, refreshable, expired, pairs, refusals>>
        /\ cookie # NoToken /\ raced' \in BOOLEAN
    BY <1>5 DEF Evaluate, Others
  <2>2. PICK s \in {"read", "done"} : eval' = [eval EXCEPT ![e] =
            [step |-> s, by |-> by, token |-> cookie, read |-> cookie.pair]]
    BY <1>5 DEF Evaluate
  <2>3. JobOK([step |-> s, by |-> by, token |-> cookie, read |-> cookie.pair], pairs)
    BY <1>0, <2>1 DEF Others, JobOK, Jwts, Pairs
  <2>4. QED BY <1>2, <2>1, <2>2, <2>3 DEF Others
<1>6. ASSUME NEW e \in Evaluations, RefreshReads(e) \/ RefreshFails(e)
      PROVE  Others' /\ JobsOK'
  <2>1. /\ UNCHANGED <<cookie, sessionError, refreshable, expired, pairs, raced>>
        /\ eval[e].step \in {"read", "rotate"} /\ JobOK(eval[e], pairs)
        /\ \/ UNCHANGED refusals
           \/ refusals < MaxRefusals /\ refusals' = refusals + 1
    BY <1>6 DEF RefreshReads, RefreshFails, JobsOK
  <2>2. \/ eval' = [eval EXCEPT ![e] = [eval[e] EXCEPT !.step = "rotate"]]
        \/ eval' = [eval EXCEPT ![e] =
              [eval[e] EXCEPT !.step = "done", !.token = Failed(eval[e].token)]]
    <3>1. CASE RefreshReads(e)
      <4>1. CASE eval[e].token.pair \in refreshable
        BY <3>1, <4>1 DEF RefreshReads, JobsOK
      <4>2. CASE eval[e].token.pair \notin refreshable
        BY <3>1, <4>2 DEF RefreshReads, JobsOK
      <4>3. QED BY <4>1, <4>2
    <3>2. CASE RefreshFails(e)
      BY <3>2 DEF RefreshFails, JobsOK
    <3>3. QED BY <1>6, <3>1, <3>2
  <2>3. /\ JobOK([eval[e] EXCEPT !.step = "rotate"], pairs)
        /\ JobOK([eval[e] EXCEPT !.step = "done", !.token = Failed(eval[e].token)], pairs)
    BY <1>0, <2>1 DEF JobOK, Failed, Jwts
  <2>4. QED BY <1>0, <1>2, <2>1, <2>2, <2>3 DEF Others
<1>7. ASSUME NEW e \in Evaluations, RefreshRotates(e)
      PROVE  Others' /\ JobsOK'
  <2> DEFINE x == [eval[e] EXCEPT !.step = "done", !.token = Refreshed(eval[e].token)]
  <2>1. /\ eval[e].step = "rotate" /\ pairs < MaxPairs /\ pairs' = pairs + 1
        /\ refreshable' = (refreshable \cup {pairs + 1}) \ {eval[e].token.pair}
        /\ UNCHANGED <<cookie, sessionError, expired, refusals, raced>>
    BY <1>7 DEF RefreshRotates, Issues
  <2>2. eval' = [eval EXCEPT ![e] = x]
    BY <1>7 DEF RefreshRotates, JobsOK
  <2>3. JobOK(x, pairs + 1)
    <3>1. JobOK(eval[e], pairs)
      BY DEF JobsOK
    <3>2. Refreshed(eval[e].token) \in Jwts /\ Refreshed(eval[e].token).pair = pairs + 1
      BY <1>0, <2>1, <3>1 DEF JobOK, Refreshed, Jwts, Pairs
    <3>3. JobOK(eval[e], pairs + 1)
      <4>1. eval[e].step # "idle" => eval[e].token.pair <= pairs + 1
        BY <1>0, <3>1 DEF JobOK, Jwts, Pairs
      <4>2. 0..pairs \subseteq 0..(pairs + 1)
        BY <1>0
      <4>3. QED BY <3>1, <4>1, <4>2 DEF JobOK
    <3>4. ASSUME NEW n, NEW t \in Jwts, t.pair <= n, JobOK(eval[e], n)
          PROVE  JobOK([eval[e] EXCEPT !.step = "done", !.token = t], n)
      BY <3>4 DEF JobOK
    <3>5. Refreshed(eval[e].token).pair <= pairs + 1
      BY <1>0, <3>2
    <3>6. QED BY <3>2, <3>3, <3>4, <3>5
  <2>4. JobsOK'
    <3>1. pairs' \in Nat /\ pairs <= pairs'
      BY <1>0, <2>1
    <3>2. \E y : JobOK(y, pairs') /\ eval' = [eval EXCEPT ![e] = y]
      BY <2>1, <2>2, <2>3
    <3>3. QED BY <3>1, <3>2, JobMoves
  <2>5. Others'
    <3>0. refreshable' \subseteq refreshable \cup {pairs + 1} /\ expired' = expired
      BY <2>1
    <3>1. refreshable' \subseteq 1..pairs' /\ expired' \subseteq 1..pairs'
      <4>1. refreshable \subseteq 1..pairs /\ expired \subseteq 1..pairs
        BY DEF Others
      <4>2. 1..pairs \subseteq 1..(pairs + 1) /\ pairs + 1 \in 1..(pairs + 1)
        BY <1>0
      <4>3. pairs' = pairs + 1
        BY <2>1
      <4>4. QED BY <3>0, <4>1, <4>2, <4>3
    <3>2. pairs' \in 0..MaxPairs /\ (cookie # NoToken => cookie.pair <= pairs')
      BY <1>0, <2>1 DEF Others, Jwts, Pairs
    <3>3. QED BY <2>1, <3>1, <3>2 DEF Others
  <2>6. QED BY <2>4, <2>5
<1>8. ASSUME NEW e \in Evaluations, Ends(e) \/ Abandoned(e)
      PROVE  Others' /\ JobsOK'
  <2>1. JobOK(eval[e], pairs) /\ eval[e].step = "done" /\ JobOK(Idle, pairs)
    BY <1>0, <1>8 DEF Ends, Abandoned, JobsOK, JobOK, Idle
  <2>2. /\ UNCHANGED <<refreshable, expired, pairs, refusals>>
        /\ eval' = [eval EXCEPT ![e] = Idle] /\ raced' \in BOOLEAN
        /\ cookie' \in {cookie, eval[e].token}
        /\ sessionError' \in {sessionError, eval[e].token.error}
    BY <1>8 DEF Ends, Abandoned, Others
  <2>3. QED BY <1>0, <1>2, <2>1, <2>2 DEF Others, JobOK, Jwts
<1>9. ASSUME NEW answered \in BOOLEAN, SignOut(answered) PROVE Others' /\ JobsOK'
  <2>1. /\ cookie' = NoToken /\ sessionError' = FALSE /\ raced' \in BOOLEAN
        /\ refreshable' \subseteq refreshable /\ UNCHANGED <<eval, expired, pairs>>
        /\ \/ UNCHANGED refusals
           \/ refusals < MaxRefusals /\ refusals' = refusals + 1
    BY <1>9 DEF SignOut, Others
  <2>2. refusals' \in 0..MaxRefusals
    BY <1>0, <2>1 DEF Others
  <2>3. Others'
    BY <2>1, <2>2 DEF Others
  <2>4. QED BY <2>1, <2>3 DEF JobsOK, JobOK
<1>10. QED BY <1>1, <1>3, <1>4, <1>5, <1>6, <1>7, <1>8, <1>9 DEF WebNext
\* An evaluation that may rotate the pair works alone.
Alone(e) == \A f \in Evaluations : Working(f) => f = e

\* The cookie can be refreshed, and who works on it has it unchanged.
Rests ==
    /\ cookie # NoToken => cookie.pair \in refreshable /\ ~cookie.error
    /\ \A e \in Evaluations : Working(e) =>
          /\ cookie # NoToken /\ eval[e].token = cookie /\ eval[e].read = cookie.pair
          /\ eval[e].step # "done" => cookie.pair \in expired /\ Alone(e)

\* The pair of the cookie has been exchanged, and the only evaluation at work
\* holds the one that follows.
Exchanged ==
    \E e \in Evaluations :
        /\ cookie # NoToken /\ cookie.pair \in expired
        /\ eval[e].step = "done" /\ eval[e].read = cookie.pair /\ Alone(e)
        /\ eval[e].token.pair \in refreshable /\ ~eval[e].token.error

Undisturbed == refusals = 0 /\ ~raced

WebInv ==
    /\ Others /\ JobsOK
    /\ Undisturbed => ~sessionError /\ (Rests \/ Exchanged)

\* Without refusal and race the session rests, or one evaluation has exchanged
\* its pair; every step keeps that, or is itself a refusal or a race.
LEMMA WebInvStep ==
    ASSUME WebInv, [WebNext]_webVars PROVE WebInv'
<1>1. Others' /\ JobsOK'
  BY WebTypeStep DEF WebInv
<1>2. SUFFICES ASSUME Undisturbed' PROVE ~sessionError' /\ (Rests \/ Exchanged)'
  BY <1>1 DEF WebInv
<1>3. CASE UNCHANGED webVars
  BY <1>2, <1>3 DEF webVars, WebInv, Undisturbed, Rests, Exchanged, Working, Alone
<1>4. WebNext => Undisturbed
  <2>1. refusals \in Nat /\ raced \in BOOLEAN
    BY WebAssumption DEF WebInv, Others
  <2>2. WebNext => (raced => raced')
    BY DEF WebNext, SignIn, AccessExpires, Evaluate, RefreshReads,
        RefreshRotates, RefreshFails, Ends, Abandoned, SignOut
  <2>3. WebNext => refusals' = refusals \/ refusals' = refusals + 1
    BY DEF WebNext, SignIn, AccessExpires, Evaluate, RefreshReads,
        RefreshRotates, RefreshFails, Ends, Abandoned, SignOut
  <2>4. refusals + 1 # 0
    BY <2>1
  <2>5. QED BY <1>2, <2>2, <2>3, <2>4 DEF Undisturbed
<1>5. SUFFICES ASSUME WebNext, ~sessionError, Rests \/ Exchanged
      PROVE  ~sessionError' /\ (Rests \/ Exchanged)'
  BY <1>3, <1>4 DEF WebInv
<1>6. JobsOK /\ Others /\ pairs \in Nat /\ pairs + 1 > pairs
  BY WebAssumption DEF WebInv, Others
<1>7. CASE SignIn
  <2>1. Rests'
    BY <1>5, <1>7 DEF SignIn, Rests, Exchanged, Working, JobsOK
  <2>2. QED BY <1>7, <2>1 DEF SignIn
<1>8. CASE AccessExpires
  <2>1. UNCHANGED <<cookie, sessionError, eval, refreshable>> /\ expired \subseteq expired'
    BY <1>8 DEF AccessExpires
  <2>2. QED BY <1>5, <2>1 DEF Rests, Exchanged, Working, Alone
<1>9. ASSUME NEW e \in Evaluations, NEW by \in {"proxy", "session", "layout"}, Evaluate(e, by)
      PROVE  ~sessionError' /\ (Rests \/ Exchanged)'
  <2>1. cookie.pair \notin expired \/ \A f \in Evaluations : ~Uses(f, cookie.pair)
    BY <1>2, <1>9 DEF Evaluate, Undisturbed
  <2>2. Rests
    BY <1>5, <2>1 DEF Exchanged, Uses, Working
  <2>3. /\ UNCHANGED <<cookie, sessionError, refreshable, expired>> /\ cookie # NoToken
        /\ eval' = [eval EXCEPT ![e] =
              [step |-> IF cookie.pair \in expired THEN "read" ELSE "done",
               by |-> by, token |-> cookie, read |-> cookie.pair]]
    BY <1>9 DEF Evaluate
  <2>4. \A f \in Evaluations \ {e} : eval'[f] = eval[f]
    BY <2>3
  <2>5. /\ eval'[e].token = cookie /\ eval'[e].read = cookie.pair
        /\ eval'[e].step = IF cookie.pair \in expired THEN "read" ELSE "done"
    BY <1>6, <2>3 DEF JobsOK
  <2>6. Rests'
    BY <2>1, <2>2, <2>3, <2>4, <2>5 DEF Rests, Working, Alone, Uses
  <2>7. QED BY <1>5, <2>3, <2>6
<1>10. ASSUME NEW e \in Evaluations, RefreshReads(e)
       PROVE  ~sessionError' /\ (Rests \/ Exchanged)'
  <2>1. Rests
    BY <1>5, <1>10 DEF RefreshReads, Exchanged, Alone, Working
  <2>2. eval[e].token.pair \in refreshable /\ UNCHANGED <<cookie, sessionError, refreshable, expired>>
    BY <1>10, <2>1 DEF RefreshReads, Rests, Working
  <2>3. eval' = [eval EXCEPT ![e] = [eval[e] EXCEPT !.step = "rotate"]]
    BY <1>10, <2>2 DEF RefreshReads
  <2>4. eval'[e] = [eval[e] EXCEPT !.step = "rotate"] /\ \A f \in Evaluations \ {e} : eval'[f] = eval[f]
    BY <1>6, <2>3 DEF JobsOK
  <2>5. eval'[e].step = "rotate" /\ eval'[e].token = eval[e].token /\ eval'[e].read = eval[e].read
    BY <1>6, <2>4 DEF JobsOK, JobOK
  <2>6. Rests'
    BY <1>10, <2>1, <2>2, <2>4, <2>5 DEF RefreshReads, Rests, Working, Alone
  <2>7. QED BY <1>5, <2>2, <2>6
<1>11. ASSUME NEW e \in Evaluations, RefreshRotates(e)
       PROVE  ~sessionError' /\ (Rests \/ Exchanged)'
  <2>1. Rests
    BY <1>5, <1>11 DEF RefreshRotates, Exchanged, Alone, Working
  <2>2. /\ UNCHANGED <<cookie, sessionError, expired>> /\ eval[e].step = "rotate"
        /\ refreshable' = (refreshable \cup {pairs + 1}) \ {eval[e].token.pair}
        /\ eval' = [eval EXCEPT ![e].step = "done", ![e].token = Refreshed(eval[e].token)]
    BY <1>11 DEF RefreshRotates, Issues
  <2>3. eval'[e] = [eval[e] EXCEPT !.step = "done", !.token = Refreshed(eval[e].token)]
        /\ \A f \in Evaluations \ {e} : eval'[f] = eval[f]
    BY <1>6, <2>2 DEF JobsOK
  <2>4. /\ eval'[e].step = "done" /\ eval'[e].token = Refreshed(eval[e].token)
        /\ eval'[e].read = eval[e].read
    BY <1>6, <2>3 DEF JobsOK, JobOK
  <2>5. /\ eval[e].token \in Jwts /\ eval[e].token.pair <= pairs
        /\ eval[e].token = cookie /\ eval[e].read = cookie.pair /\ ~cookie.error
        /\ cookie # NoToken /\ cookie.pair \in expired /\ Alone(e)
    BY <1>6, <2>1, <2>2 DEF JobsOK, JobOK, Rests, Working
  <2>6. Refreshed(eval[e].token).pair = pairs + 1 /\ ~Refreshed(eval[e].token).error
    BY <2>5 DEF Refreshed, Jwts
  <2>7. pairs + 1 # eval[e].token.pair
    BY <1>6, <2>5 DEF Jwts, Pairs
  <2>8. Exchanged'
    <3>1. cookie' = cookie /\ expired' = expired
      BY <2>2
    <3>2. pairs + 1 \in refreshable'
      BY <2>2, <2>7
    <3>3. Alone(e)'
      BY <2>3, <2>5 DEF Alone, Working
    <3>4. QED BY <2>4, <2>5, <2>6, <3>1, <3>2, <3>3 DEF Exchanged
  <2>9. QED BY <1>5, <2>2, <2>8
<1>12. ASSUME NEW e \in Evaluations, RefreshFails(e) PROVE FALSE
  BY <1>2, <1>6, <1>12, WebAssumption DEF RefreshFails, Undisturbed, Others
<1>13. ASSUME NEW e \in Evaluations, Ends(e) \/ Abandoned(e)
       PROVE  ~sessionError' /\ (Rests \/ Exchanged)'
  <2>1. /\ eval[e].step = "done" /\ UNCHANGED <<refreshable, expired>>
        /\ eval' = [eval EXCEPT ![e] = Idle]
        /\ cookie' \in {cookie, eval[e].token}
        /\ cookie' = eval[e].token \/ eval[e].token = cookie
        /\ sessionError' \in {sessionError, eval[e].token.error}
    BY <1>2, <1>13 DEF Ends, Abandoned, Undisturbed
  <2>2. ~Working(e)' /\ \A f \in Evaluations \ {e} : eval'[f] = eval[f]
    BY <1>6, <2>1 DEF JobsOK, Idle, Working
  <2>3. CASE Rests
    BY <1>5, <2>1, <2>2, <2>3 DEF Rests, Working, Alone
  <2>4. CASE Exchanged
    <3>1. /\ eval[e].token.pair \in refreshable /\ ~eval[e].token.error /\ Alone(e)
      BY <2>1, <2>4 DEF Exchanged, Alone, Working
    <3>2. \A f \in Evaluations : ~Working(f)'
      BY <2>2, <3>1 DEF Alone, Working
    <3>3. QED BY <1>5, <2>1, <3>1, <3>2 DEF Rests
  <2>5. QED BY <1>5, <2>3, <2>4
<1>14. ASSUME NEW answered \in BOOLEAN, SignOut(answered)
       PROVE  ~sessionError' /\ (Rests \/ Exchanged)'
  <2>1. /\ cookie' = NoToken /\ sessionError' = FALSE /\ UNCHANGED eval
        /\ \A e \in Evaluations : ~Working(e)
    BY <1>2, <1>14 DEF SignOut, Undisturbed
  <2>2. QED BY <2>1 DEF Rests, Working
<1>15. QED BY <1>5, <1>7, <1>8, <1>9, <1>10, <1>11, <1>12, <1>13, <1>14 DEF WebNext

\* A session begins with its first pair and no evaluation at work.
LEMMA WebInitially == WebInit => WebInv
<1>1. SUFFICES ASSUME WebInit PROVE WebInv
  OBVIOUS
<1>2. \A e \in Evaluations : eval[e] = Idle /\ ~Working(e)
  BY <1>1 DEF WebInit, Working, Idle
<1>3. JobsOK
  <2>1. JobOK(Idle, pairs)
    BY <1>1 DEF WebInit, JobOK, Idle
  <2>2. QED BY <1>1, <1>2, <2>1 DEF WebInit, JobsOK
<1>4. Others
  <2>1. 0 \in 0..MaxPairs /\ 0 \in 0..MaxRefusals
    BY WebAssumption
  <2>2. QED BY <1>1, <2>1 DEF WebInit, Others
<1>5. QED BY <1>1, <1>2, <1>3, <1>4 DEF WebInit, WebInv, Rests

\* The cookie, the evaluations and the pairs have their types.
THEOREM WebTypeCorrect == WebSpec => []WebTypeOK
<1>1. WebInv => WebTypeOK
  BY TypeSplit DEF WebInv
<1>2. QED BY <1>1, WebInitially, WebInvStep, PTL DEF WebSpec

\* auth.ts:15-54: a session outlives its access tokens, for every number of
\* evaluations and pairs: unless the backend failed, a pair was exchanged twice
\* at once, an exchange was not stored or a sign-out came in between, what the
\* browser holds can be refreshed and no error ends the session.
THEOREM SessionSurvivesHolds == WebSpec => []SessionSurvives
<1>1. WebInv => SessionSurvives
  BY DEF WebInv, SessionSurvives, Undisturbed, Rests, Exchanged, Working
<1>2. QED BY <1>1, WebInitially, WebInvStep, PTL DEF WebSpec

--------------------------------------------------------------------------------
(* The chat.                                                                 *)

\* The requests in flight.
CallsOK == calls \subseteq Calls /\ IsFiniteSet(calls) /\ Cardinality(calls) <= MaxCalls

ViewOK ==
    /\ agentId \in Agents \cup {Nil} /\ openConversation \in Conversation
    /\ messages \subseteq Bubbles /\ conversations \subseteq Questions
    /\ typing \in BOOLEAN /\ left \subseteq Questions /\ late \in BOOLEAN

LinksOK ==
    /\ isConnected \in BOOLEAN /\ current \in Links \cup {Nil}
    /\ link \in [Links -> {"none", "down", "up", "gone"}]
    /\ joined \in [Links -> SUBSET Questions]
    /\ \A l \in Links : joined[l] # {} => link[l] = "up"
    /\ isConnected => current \in Links /\ link[current] = "up"

ServerOK ==
    /\ question \in [Questions -> [conv : Conversation, agent : Agents \cup {Nil}, phase : Stages]]
    /\ table \in [Questions -> Agents \cup {Nil}] /\ kept \subseteq Questions

BoundsOK == clicks \in Nat /\ losses \in Nat /\ clicks + losses <= MaxClicks

\* One more request.
LEMMA SendsCalls ==
    ASSUME CallsOK, \E r \in Calls : Sends(r)
    PROVE  CallsOK'
<1>1. PICK r \in Calls : Cardinality(calls) < MaxCalls /\ calls' = calls \cup {r}
  BY DEF Sends
<1>2. IsFiniteSet(calls') /\ Cardinality(calls') \in {Cardinality(calls), Cardinality(calls) + 1}
  BY <1>1, FS_AddElement DEF CallsOK
<1>3. Cardinality(calls) \in Nat
  BY FS_CardinalityType DEF CallsOK
<1>4. Cardinality(calls') <= MaxCalls
  BY <1>1, <1>2, <1>3, ChatAssumption DEF CallsOK
<1>5. QED BY <1>1, <1>2, <1>4 DEF CallsOK

\* A request is answered by the server, or over.
LEMMA AnswersCalls ==
    ASSUME CallsOK, NEW r \in calls,
           calls' = calls \ {r} \/ \E x \in Calls : calls' = (calls \ {r}) \cup {x}
    PROVE  CallsOK'
<1>1. Cardinality(calls) \in Nat /\ Cardinality(calls) <= MaxCalls
  BY FS_CardinalityType DEF CallsOK
<1>2. IsFiniteSet(calls \ {r}) /\ Cardinality(calls \ {r}) = Cardinality(calls) - 1
  BY FS_RemoveElement DEF CallsOK
<1>3. \A x : /\ IsFiniteSet((calls \ {r}) \cup {x})
             /\ \/ Cardinality((calls \ {r}) \cup {x}) = Cardinality(calls \ {r})
                \/ Cardinality((calls \ {r}) \cup {x}) = Cardinality(calls \ {r}) + 1
  BY <1>2, FS_AddElement
<1>4. IsFiniteSet(calls')
  BY <1>2, <1>3
<1>5. Cardinality(calls') \in {Cardinality(calls) - 1, Cardinality(calls)}
  <2>1. \/ Cardinality(calls') = Cardinality(calls \ {r})
        \/ Cardinality(calls') = Cardinality(calls \ {r}) + 1
    BY <1>3
  <2>2. QED BY <1>1, <1>2, <2>1
<1>6. Cardinality(calls') <= MaxCalls
  BY <1>1, <1>5, ChatAssumption
<1>7. calls' \subseteq Calls
  BY DEF CallsOK
<1>8. QED BY <1>4, <1>6, <1>7 DEF CallsOK

\* Every request the page makes is one.
LEMMA RequestIsCall ==
    ASSUME ViewOK, NEW k \in {"list", "back", "load", "delete", "clear"}, NEW c \in Conversation
    PROVE  /\ ShowsChat => Request(k, c) \in Calls
           /\ \A a \in Agents : [Request(k, c) EXCEPT !.agent = a] \in Calls
           /\ ShowsChat => \A o \in BOOLEAN, s \in SUBSET Questions :
                 [Request(k, c) EXCEPT !.opened = o, !.seen = s] \in Calls
BY DEF Request, Calls, ShowsChat, ViewOK, Unserved, Replies

\* Asking for the list keeps the bound.
LEMMA FetchCalls ==
    ASSUME ViewOK, CallsOK, \E a \in Agents : FetchConversations(a)
    PROVE  CallsOK'
<1>1. PICK a \in Agents : FetchConversations(a)
  OBVIOUS
<1>2. [Request("list", Nil) EXCEPT !.agent = a] \in Calls
  BY RequestIsCall DEF Conversation
<1>3. CASE UNCHANGED calls
  BY <1>3 DEF CallsOK
<1>4. CASE Sends([Request("list", Nil) EXCEPT !.agent = a])
  BY <1>2, <1>4, SendsCalls
<1>5. QED BY <1>1, <1>3, <1>4 DEF FetchConversations

\* What the user does.
LEMMA ClickTypes ==
    ASSUME ViewOK, LinksOK, ServerOK, BoundsOK, CallsOK,
           \/ \E a \in Agents : SelectAgent(a)
           \/ StartNew \/ Back \/ HandleClear
           \/ \E c \in Questions : HandleLoad(c) \/ HandleDelete(c)
    PROVE  ViewOK' /\ LinksOK' /\ ServerOK' /\ BoundsOK' /\ CallsOK'
<1>1. UNCHANGED <<typing, linkVars, question, serverVars, late, losses>> /\ Clicks
  BY DEF SelectAgent, StartNew, Back, HandleClear, HandleLoad, HandleDelete, SameStore,
      pageVars, LeavesAgent
<1>2. LinksOK' /\ ServerOK' /\ BoundsOK'
  BY <1>1, ChatAssumption DEF LinksOK, ServerOK, BoundsOK, linkVars, serverVars, Clicks
<1>3. ViewOK'
  <2>1. /\ agentId' \in Agents \cup {Nil} /\ conversations' \subseteq Questions
        /\ \/ UNCHANGED <<openConversation, messages, left>>
           \/ Shows(Nil, {})
    BY DEF SelectAgent, StartNew, Back, HandleClear, HandleLoad, HandleDelete, SameStore,
        pageVars, LeavesAgent, ViewOK
  <2>2. QED BY <1>1, <2>1 DEF ViewOK, Shows, Conversation
<1>4. CallsOK'
  <2>1. CASE \E a \in Agents : SelectAgent(a)
    BY <2>1, FetchCalls DEF SelectAgent
  <2>2. CASE StartNew
    BY <2>2 DEF StartNew, CallsOK
  <2>3. CASE Back
    <3>1. Request("back", Nil) \in Calls
      BY <2>3, RequestIsCall DEF Back, Conversation
    <3>2. Sends(Request("back", Nil)) \/ UNCHANGED calls
      BY <2>3 DEF Back
    <3>3. QED BY <3>1, <3>2, SendsCalls DEF CallsOK
  <2>4. CASE HandleClear
    <3>1. Request("clear", openConversation) \in Calls
      BY <2>4, RequestIsCall DEF HandleClear, OffersClear, ViewOK
    <3>2. QED BY <2>4, <3>1, SendsCalls DEF HandleClear
  <2>5. ASSUME NEW c \in Questions, HandleLoad(c) PROVE CallsOK'
    <3>1. Request("load", c) \in Calls
      BY <2>5, RequestIsCall DEF HandleLoad, ShowsRow, Conversation
    <3>2. QED BY <2>5, <3>1, SendsCalls DEF HandleLoad
  <2>6. ASSUME NEW c \in Questions, HandleDelete(c) PROVE CallsOK'
    <3>1. [Request("delete", c) EXCEPT !.opened = (openConversation = c),
                                       !.seen = conversations] \in Calls
      BY <2>6, RequestIsCall DEF HandleDelete, ShowsRow, Conversation, ViewOK
    <3>2. QED BY <2>6, <3>1, SendsCalls DEF HandleDelete
  <2>7. QED BY <2>1, <2>2, <2>3, <2>4, <2>5, <2>6
<1>5. QED BY <1>2, <1>3, <1>4

\* What becomes of a request.
LEMMA CallTypes ==
    ASSUME ViewOK, LinksOK, ServerOK, BoundsOK, CallsOK, NEW r \in calls,
           Serve(r) \/ Arrive(r) \/ CallFails(r)
    PROVE  ViewOK' /\ LinksOK' /\ ServerOK' /\ BoundsOK' /\ CallsOK'
<1>1. UNCHANGED <<typing, linkVars, question, clicks, losses>>
  BY DEF Serve, Arrive, CallFails, pageVars
<1>2. LinksOK' /\ BoundsOK'
  BY <1>1 DEF LinksOK, BoundsOK, linkVars
<1>3. r \in Calls
  BY DEF CallsOK
<1>4. ServerOK'
  BY <1>1, <1>3 DEF Serve, Arrive, CallFails, serverVars, ServerOK
<1>5. CallsOK'
  <2>1. CASE Serve(r)
    <3>1. Reply(r) \in Replies
      BY DEF Reply, Replies, ServerOK
    <3>2. [r EXCEPT !.reply = Reply(r)] \in Calls
      BY <1>3, <3>1 DEF Calls
    <3>3. QED BY <2>1, <3>2, AnswersCalls DEF Serve
  <2>2. CASE Arrive(r) \/ CallFails(r)
    BY <2>2, AnswersCalls DEF Arrive, CallFails
  <2>3. QED BY <2>1, <2>2
<1>6. ViewOK'
  <2>1. CASE Serve(r)
    BY <2>1 DEF Serve, pageVars, ViewOK
  <2>2. CASE Arrive(r) \/ CallFails(r)
    <3>1. late' \in BOOLEAN
      BY <2>2 DEF Arrive, CallFails, ViewOK
    <3>2. agentId' \in Agents \cup {Nil} /\ conversations' \subseteq Questions
      BY <1>3, <2>2 DEF Arrive, CallFails, AnsweredList, LeavesAgent, AnsweredLoad,
          AnsweredDelete, AnsweredClear, SameView, Calls, Replies, ViewOK
    <3>3. \/ UNCHANGED <<openConversation, messages, left>>
          \/ \E c \in Conversation : Shows(c, {}) \/ Shows(c, Loaded(r.reply.ids))
      BY <1>3, <2>2 DEF Arrive, CallFails, AnsweredList, LeavesAgent, AnsweredLoad,
          AnsweredDelete, AnsweredClear, SameView, Calls, Conversation
    <3>4. Loaded(r.reply.ids) \subseteq Bubbles
      BY <1>3 DEF Loaded, Bubbles, Calls, Replies
    <3>5. QED BY <1>1, <3>1, <3>2, <3>3, <3>4 DEF Shows, ViewOK
  <2>3. QED BY <2>1, <2>2
<1>7. QED BY <1>2, <1>4, <1>5, <1>6

\* Sockets come and go.
LEMMA SocketTypes ==
    ASSUME ViewOK, LinksOK, ServerOK, BoundsOK, CallsOK, NEW l \in Links,
           OpenSocket(l) \/ SocketConnects(l) \/ SocketFails(l) \/ SocketLost(l)
    PROVE  ViewOK' /\ LinksOK' /\ ServerOK' /\ BoundsOK' /\ CallsOK'
<1>1. SameChat
  BY DEF OpenSocket, SocketConnects, SocketFails, SocketLost
<1>2. ViewOK' /\ ServerOK' /\ CallsOK'
  BY <1>1 DEF SameChat, pageVars, serverVars, ViewOK, ServerOK, CallsOK
<1>3. BoundsOK'
  BY <1>1, ChatAssumption
     DEF SameChat, BoundsOK, OpenSocket, SocketConnects, SocketFails, SocketLost
<1>4. LinksOK'
  <2>1. CASE OpenSocket(l)
    BY <2>1 DEF OpenSocket, LinksOK
  <2>4. CASE SocketConnects(l)
    <3>1. /\ link' = [link EXCEPT ![l] = "up"] /\ isConnected' = TRUE /\ current' = l
          /\ joined' = joined
      BY <2>4 DEF SocketConnects
    <3>2. link' \in [Links -> {"none", "down", "up", "gone"}] /\ link'[l] = "up"
          /\ \A k \in Links : joined'[k] # {} => link'[k] = "up"
      BY <3>1 DEF LinksOK
    <3>3. QED BY <3>1, <3>2 DEF LinksOK
  <2>2. CASE SocketFails(l) \/ SocketLost(l)
    BY <2>2 DEF SocketFails, SocketLost, LinksOK
  <2>3. QED BY <2>1, <2>2, <2>4
<1>5. QED BY <1>2, <1>3, <1>4

\* Questions and answers.
LEMMA QuestionTypes ==
    ASSUME ViewOK, LinksOK, ServerOK, BoundsOK, CallsOK, NEW q \in Questions,
           Send(q) \/ ChunkArrives(q) \/ DoneArrives(q) \/ ErrorArrives(q)
    PROVE  ViewOK' /\ LinksOK' /\ ServerOK' /\ BoundsOK' /\ CallsOK'
<1>1. BoundsOK'
  BY DEF Send, ChunkArrives, DoneArrives, ErrorArrives, SameList, BoundsOK
<1>2. CASE Send(q)
  <2>1. PICK c \in Questions :
           /\ openConversation' = c
           /\ question' = [question EXCEPT ![q] = [conv |-> c, agent |-> agentId, phase |-> "asked"]]
           /\ joined' = [joined EXCEPT ![current] = @ \cup {c}]
    BY <1>2 DEF Send, ViewOK, Conversation
  <2>2. /\ messages' = messages \cup {[role |-> "user", ask |-> q, live |-> TRUE]}
        /\ typing' = TRUE /\ isConnected
        /\ UNCHANGED <<agentId, conversations, current, isConnected, link, table, kept, calls, left, late>>
    BY <1>2 DEF Send, OffersSend, serverVars
  <2>3. ViewOK'
    <3>0. [role |-> "user", ask |-> q, live |-> TRUE] \in Bubbles
      BY DEF Bubbles
    <3>1. messages' \subseteq Bubbles
      BY <2>2, <3>0 DEF ViewOK
    <3>2. QED BY <2>1, <2>2, <3>1 DEF ViewOK, Conversation
  <2>4. LinksOK'
    BY <2>1, <2>2 DEF LinksOK
  <2>5. ServerOK'
    BY <2>1, <2>2 DEF ServerOK, ViewOK, Conversation, Stages
  <2>6. QED BY <1>1, <2>2, <2>3, <2>4, <2>5 DEF CallsOK
<1>3. CASE ChunkArrives(q) \/ DoneArrives(q) \/ ErrorArrives(q)
  <2>1. SameList
    BY <1>3 DEF ChunkArrives, DoneArrives, ErrorArrives
  <2>2. LinksOK'
    BY <2>1 DEF SameList, linkVars, LinksOK
  <2>3. \/ UNCHANGED messages
        \/ messages' = messages \cup {[role |-> "assistant", ask |-> q, live |-> TRUE]}
    BY <1>3 DEF ChunkArrives, DoneArrives, ErrorArrives, AnswerShown
  <2>4. typing' \in BOOLEAN
    BY <1>3 DEF ChunkArrives, DoneArrives, ErrorArrives, ViewOK
  <2>5. ViewOK'
    <3>0. [role |-> "assistant", ask |-> q, live |-> TRUE] \in Bubbles
      BY DEF Bubbles
    <3>1. messages' \subseteq Bubbles
      BY <2>3, <3>0 DEF ViewOK
    <3>2. QED BY <2>1, <2>4, <3>1 DEF ViewOK, SameList
  <2>6. CallsOK'
    <3>1. CASE DoneArrives(q) /\ Heard(q) /\ ShowsChat
      BY <3>1, FetchCalls DEF DoneArrives, ShowsChat, ViewOK
    <3>2. CASE UNCHANGED calls
      BY <3>2 DEF CallsOK
    <3>3. QED BY <1>3, <3>1, <3>2 DEF ChunkArrives, DoneArrives, ErrorArrives
  <2>7. ServerOK'
    <3>1. PICK to \in Stages : question' = [question EXCEPT ![q].phase = to]
      BY <1>3 DEF ChunkArrives, DoneArrives, ErrorArrives, Turns, Stages
    <3>2. question' \in [Questions -> [conv : Conversation, agent : Agents \cup {Nil}, phase : Stages]]
      BY <3>1 DEF ServerOK
    <3>3. Saved(q) \/ UNCHANGED serverVars
      BY <1>3 DEF ChunkArrives, DoneArrives, ErrorArrives, serverVars
    <3>4. table' \in [Questions -> Agents \cup {Nil}] /\ kept' \subseteq Questions
      BY <3>3 DEF ServerOK, Saved, serverVars
    <3>5. QED BY <3>2, <3>4 DEF ServerOK
  <2>8. QED BY <1>1, <2>2, <2>5, <2>6, <2>7
<1>4. QED BY <1>2, <1>3

ChatTypes == ViewOK /\ LinksOK /\ ServerOK /\ BoundsOK /\ CallsOK

\* Every step of the page keeps the types.
LEMMA ChatTypeStep == ChatTypes /\ [ChatNext]_chatVars => ChatTypes'
<1>1. SUFFICES ASSUME ChatTypes, [ChatNext]_chatVars PROVE ChatTypes'
  OBVIOUS
<1>2. CASE UNCHANGED chatVars
  BY <1>1, <1>2 DEF chatVars, pageVars, linkVars, serverVars, ChatTypes,
      ViewOK, LinksOK, ServerOK, BoundsOK, CallsOK
<1>3. CASE ChatNext
  BY <1>1, <1>3, ClickTypes, CallTypes, SocketTypes, QuestionTypes DEF ChatNext, ChatTypes
<1>4. QED BY <1>1, <1>2, <1>3

--------------------------------------------------------------------------------
(* Questions keep the conversation and the agent they were asked in.         *)

Asked(q) == question[q].phase # "new"

QuestionsKept ==
    \A q \in Questions : Asked(q) =>
        Asked(q)' /\ question'[q].conv = question[q].conv /\ question'[q].agent = question[q].agent

\* No step takes a question back or puts it elsewhere.
LEMMA KeepsQuestions == ChatTypes /\ [ChatNext]_chatVars => QuestionsKept
<1>1. SUFFICES ASSUME ChatTypes, [ChatNext]_chatVars PROVE QuestionsKept
  OBVIOUS
<1>2. CASE UNCHANGED question
  BY <1>2 DEF QuestionsKept, Asked
<1>3. ASSUME NEW q \in Questions, Send(q) PROVE QuestionsKept
  BY <1>1, <1>3 DEF Send, QuestionsKept, Asked, ChatTypes, ServerOK
<1>4. ASSUME NEW q \in Questions, ChunkArrives(q) \/ DoneArrives(q) \/ ErrorArrives(q)
      PROVE  QuestionsKept
  <2>1. PICK to \in Stages \ {"new"} : question' = [question EXCEPT ![q].phase = to]
    BY <1>4 DEF ChunkArrives, DoneArrives, ErrorArrives, Turns, Stages
  <2>2. QED BY <1>1, <2>1 DEF QuestionsKept, Asked, ChatTypes, ServerOK
<1>5. QED BY <1>1, <1>2, <1>3, <1>4 DEF ChatNext, SelectAgent, StartNew, Back, HandleClear,
    HandleLoad, HandleDelete, SameStore, Serve, Arrive, CallFails, SameChat,
    OpenSocket, SocketConnects, SocketFails, SocketLost, chatVars

--------------------------------------------------------------------------------
(* The button to send.                                                       *)

\* While no socket was lost every awaited answer is heard, and there is one if
\* the page shows it as being typed.
TypingInv ==
    losses = 0 =>
        /\ \A q \in Questions : Awaited(q) => Heard(q)
        /\ typing => \E q \in Questions : Awaited(q)

\* Every step of the page keeps what is known of the button.
LEMMA TypingStep == ChatTypes /\ TypingInv /\ [ChatNext]_chatVars => TypingInv'
<1>1. SUFFICES ASSUME ChatTypes, TypingInv, [ChatNext]_chatVars, losses' = 0 PROVE TypingInv'
  BY DEF TypingInv
<1>2. losses = 0
  <2>1. losses' = losses \/ losses' = losses + 1
    BY <1>1 DEF ChatNext, SelectAgent, StartNew, Back, HandleClear, HandleLoad, HandleDelete,
        SameStore, Serve, Arrive, CallFails, OpenSocket, SocketConnects, SocketFails, SocketLost,
        Send, ChunkArrives, DoneArrives, ErrorArrives, SameList, chatVars
  <2>2. losses \in Nat
    BY <1>1 DEF ChatTypes, BoundsOK
  <2>3. QED BY <1>1, <2>1, <2>2
<1>3. /\ \A q \in Questions : Awaited(q) => Heard(q)
      /\ typing => \E q \in Questions : Awaited(q)
  BY <1>1, <1>2 DEF TypingInv
<1>4. CASE UNCHANGED <<question, joined, typing>>
  BY <1>3, <1>4 DEF TypingInv, Awaited, Heard
<1>5. ASSUME NEW l \in Links, SocketLost(l) PROVE TypingInv'
  BY <1>1, <1>2, <1>5 DEF SocketLost
<1>6. ASSUME NEW q \in Questions, Send(q) PROVE TypingInv'
  <2>1. PICK c \in Questions :
           /\ question' = [question EXCEPT ![q] = [conv |-> c, agent |-> agentId, phase |-> "asked"]]
           /\ joined' = [joined EXCEPT ![current] = @ \cup {c}]
    BY <1>1, <1>6 DEF Send, ChatTypes, ViewOK, Conversation
  <2>2. current \in Links
    BY <1>1, <1>6 DEF Send, OffersSend, ChatTypes, LinksOK
  <2>3. /\ Awaited(q)' /\ question'[q].conv = c
        /\ \A p \in Questions \ {q} : question'[p] = question[p]
    BY <1>1, <2>1 DEF Awaited, ChatTypes, ServerOK
  <2>4. c \in joined'[current] /\ \A l \in Links : joined[l] \subseteq joined'[l]
    BY <1>1, <2>1, <2>2 DEF ChatTypes, LinksOK
  <2>5. QED BY <1>3, <2>2, <2>3, <2>4 DEF TypingInv, Awaited, Heard
<1>7. ASSUME NEW q \in Questions, ChunkArrives(q) \/ DoneArrives(q) \/ ErrorArrives(q)
      PROVE  TypingInv'
  <2>1. PICK to \in Stages : question' = [question EXCEPT ![q].phase = to]
    BY <1>7 DEF ChunkArrives, DoneArrives, ErrorArrives, Turns, Stages
  <2>2. /\ question'[q].conv = question[q].conv /\ question'[q].phase = to
        /\ \A p \in Questions \ {q} : question'[p] = question[p]
    BY <1>1, <2>1 DEF ChatTypes, ServerOK
  <2>3. Heard(q) /\ UNCHANGED joined
    BY <1>3, <1>7 DEF ChunkArrives, DoneArrives, ErrorArrives, Turns, Awaited, SameList, linkVars
  <2>4. \A p \in Questions : Awaited(p)' => Heard(p)'
    BY <1>3, <2>2, <2>3 DEF Awaited, Heard
  <2>5. CASE ChunkArrives(q)
    <3>1. Awaited(q)'
      BY <1>1, <2>5 DEF ChunkArrives, Turns, Awaited, ChatTypes, ServerOK
    <3>2. QED BY <2>4, <3>1 DEF TypingInv
  <2>6. CASE DoneArrives(q) \/ ErrorArrives(q)
    <3>1. ~typing'
      BY <2>3, <2>6 DEF DoneArrives, ErrorArrives
    <3>2. QED BY <2>4, <3>1 DEF TypingInv
  <2>7. QED BY <1>7, <2>5, <2>6
<1>8. QED BY <1>1, <1>4, <1>5, <1>6, <1>7 DEF ChatNext, SelectAgent, StartNew, Back, HandleClear,
    HandleLoad, HandleDelete, SameStore, Serve, Arrive, CallFails, SameChat, LeavesAgent, pageVars,
    linkVars, OpenSocket, SocketConnects, SocketFails, chatVars

--------------------------------------------------------------------------------
(* The conversation on the screen.                                           *)

\* A bubble is of the conversation shown, or answers a question left open.
Belongs(m) ==
    /\ Asked(m.ask)
    /\ \/ question[m.ask].conv = openConversation
       \/ m.role = "assistant" /\ m.live /\ m.ask \in left

\* What the server has, what a load brings and what is shown are questions
\* asked in their conversation; one that is awaited is of the conversation
\* shown, or was left.
Screen ==
    /\ \A q \in Questions : Asked(q) => question[q].conv \in Questions
    /\ \A q \in kept : Asked(q)
    /\ \A r \in calls : r.kind = "load" =>
          \A q \in r.reply.ids : Asked(q) /\ question[q].conv = r.conv
    /\ \A m \in messages : Belongs(m)
    /\ \A q \in Questions : Awaited(q) => question[q].conv = openConversation \/ q \in left

\* A step that asks nothing new and gets no new reply.
LEMMA ScreenFrame ==
    ASSUME Screen, UNCHANGED question,
           kept' \subseteq kept,
           \A r \in calls' : r \in calls \/ r.reply.ids = {} \/ r.kind # "load",
           \/ UNCHANGED <<openConversation, messages, left>>
           \/ \E c : Shows(c, {})
    PROVE  Screen'
<1>1. /\ \A q \in Questions : Asked(q)' <=> Asked(q)
      /\ \A q : Awaited(q)' <=> Awaited(q)
  BY DEF Asked, Awaited
<1>2. /\ \A q \in Questions : Asked(q)' => question'[q].conv \in Questions
      /\ \A q \in kept' : Asked(q)'
  BY DEF Screen, Asked
<1>3. \A r \in calls' : r.kind = "load" =>
          \A q \in r.reply.ids : Asked(q)' /\ question'[q].conv = r.conv
  BY DEF Screen, Asked
<1>4. /\ \A m \in messages' : Belongs(m)'
      /\ \A q \in Questions : Awaited(q)' => question'[q].conv = openConversation' \/ q \in left'
  <2>1. CASE UNCHANGED <<openConversation, messages, left>>
    BY <2>1 DEF Screen, Belongs, Asked, Awaited
  <2>2. CASE \E c : Shows(c, {})
    BY <2>2 DEF Shows, Awaited
  <2>3. QED BY <2>1, <2>2
<1>5. QED BY <1>2, <1>3, <1>4 DEF Screen

\* A conversation that was loaded is shown.
LEMMA ScreenLoads ==
    ASSUME ChatTypes, Screen, NEW r \in calls, r.kind = "load", AnsweredLoad(r),
           UNCHANGED <<question, kept>>, calls' = calls \ {r}
    PROVE  Screen'
<1>1. /\ openConversation' = r.conv /\ messages' = Loaded(r.reply.ids)
      /\ left' = left \cup {q \in Questions : Awaited(q) /\ question[q].conv # r.conv}
  BY DEF AnsweredLoad, Shows
<1>2. \A q \in r.reply.ids : Asked(q) /\ question[q].conv = r.conv
  BY DEF Screen
<1>3. \A m \in messages' : Belongs(m)'
  BY <1>1, <1>2 DEF Loaded, Belongs, Asked
<1>4. \A q \in Questions : Awaited(q)' => question'[q].conv = openConversation' \/ q \in left'
  BY <1>1 DEF Awaited
<1>5. QED BY <1>3, <1>4 DEF Screen, Asked

\* The server answers.
LEMMA ScreenServes ==
    ASSUME ChatTypes, Screen, NEW r \in calls, Serve(r)
    PROVE  Screen'
<1>1. /\ UNCHANGED <<question, openConversation, messages, left>> /\ kept' \subseteq kept
      /\ calls' = (calls \ {r}) \cup {[r EXCEPT !.reply = Reply(r)]}
  BY DEF Serve, pageVars, serverVars
<1>2. r \in Calls
  BY DEF ChatTypes, CallsOK
<1>3. [r EXCEPT !.reply = Reply(r)].kind = r.kind /\ [r EXCEPT !.reply = Reply(r)].conv = r.conv
      /\ [r EXCEPT !.reply = Reply(r)].reply = Reply(r)
  BY <1>2 DEF Calls
<1>4. r.kind = "load" => \A q \in Reply(r).ids : Asked(q) /\ question[q].conv = r.conv
  BY DEF Reply, Screen
<1>5. \A x \in calls' : x.kind = "load" =>
          \A q \in x.reply.ids : Asked(q) /\ question[q].conv = x.conv
  BY <1>1, <1>3, <1>4 DEF Screen
<1>6. QED BY <1>1, <1>5 DEF Screen, Belongs, Asked, Awaited

\* A question is asked: in the conversation shown, or it opens one.
LEMMA ScreenAsks ==
    ASSUME ChatTypes, Screen, NEW q \in Questions, Send(q)
    PROVE  Screen'
<1>1. PICK c \in Questions :
         /\ c = IF openConversation = Nil THEN q ELSE openConversation
         /\ openConversation' = c
         /\ question' = [question EXCEPT ![q] = [conv |-> c, agent |-> agentId, phase |-> "asked"]]
  BY DEF Send, ChatTypes, ViewOK, Conversation
<1>2. /\ messages' = messages \cup {[role |-> "user", ask |-> q, live |-> TRUE]}
      /\ UNCHANGED <<kept, calls, left>> /\ ~Asked(q)
  BY DEF Send, serverVars, Asked
<1>3. /\ Asked(q)' /\ question'[q].conv = c
      /\ \A p \in Questions \ {q} : question'[p] = question[p]
  BY <1>1 DEF ChatTypes, ServerOK, Asked
<1>4. Nil \notin Questions /\ kept \subseteq Questions /\ messages \subseteq Bubbles /\ calls \subseteq Calls
  BY ChatAssumption DEF ChatTypes, ServerOK, ViewOK, CallsOK
<1>5. \A p \in Questions : Asked(p) => p # q /\ Asked(p)' /\ question'[p] = question[p]
  BY <1>2, <1>3 DEF Asked
<1>6. /\ \A p \in Questions : Asked(p)' => question'[p].conv \in Questions
      /\ \A p \in kept' : Asked(p)'
  BY <1>2, <1>3, <1>4, <1>5 DEF Screen, Asked
<1>7. \A r \in calls' : r.kind = "load" =>
          \A p \in r.reply.ids : Asked(p)' /\ question'[p].conv = r.conv
  BY <1>2, <1>4, <1>5 DEF Screen, Calls, Replies
<1>8. ASSUME NEW m \in messages' PROVE Belongs(m)'
  <2>1. CASE m \in messages
    <3>1. m.ask \in Questions
      BY <1>4, <2>1 DEF Bubbles
    <3>2. Belongs(m)
      BY <2>1 DEF Screen
    <3>3. QED BY <1>1, <1>2, <1>4, <1>5, <3>1, <3>2 DEF Belongs, Screen
  <2>2. CASE m = [role |-> "user", ask |-> q, live |-> TRUE]
    BY <1>1, <1>3, <2>2 DEF Belongs
  <2>3. QED BY <1>2, <2>1, <2>2
<1>9. ASSUME NEW p \in Questions, Awaited(p)' PROVE question'[p].conv = openConversation' \/ p \in left'
  <2>1. CASE p = q
    BY <1>1, <1>3, <2>1
  <2>2. CASE p # q
    <3>1. Awaited(p) /\ Asked(p)
      BY <1>3, <1>9, <2>2 DEF Awaited, Asked
    <3>2. QED BY <1>1, <1>2, <1>3, <1>4, <2>2, <3>1 DEF Screen
  <2>3. QED BY <2>1, <2>2
<1>10. QED BY <1>6, <1>7, <1>8, <1>9 DEF Screen

\* Something of an answer comes in, and is appended to whatever is shown.
LEMMA ScreenAnswers ==
    ASSUME ChatTypes, Screen, NEW q \in Questions,
           ChunkArrives(q) \/ DoneArrives(q) \/ ErrorArrives(q)
    PROVE  Screen'
<1>1. PICK to \in Stages \ {"new"} : question' = [question EXCEPT ![q].phase = to]
  BY DEF ChunkArrives, DoneArrives, ErrorArrives, Turns, Stages
<1>2. Awaited(q)
  BY DEF ChunkArrives, DoneArrives, ErrorArrives, Turns, Awaited
<1>3. \A p \in Questions : question'[p].conv = question[p].conv /\ (Asked(p)' <=> Asked(p))
  BY <1>1, <1>2 DEF ChatTypes, ServerOK, Asked, Awaited
<1>4. \A p \in Questions : Awaited(p)' => Awaited(p)
  BY <1>1, <1>2 DEF ChatTypes, ServerOK, Awaited
<1>5. /\ UNCHANGED <<openConversation, left>> /\ kept' \subseteq kept \cup {q}
      /\ \/ UNCHANGED messages
         \/ messages' = messages \cup {[role |-> "assistant", ask |-> q, live |-> TRUE]}
  BY DEF ChunkArrives, DoneArrives, ErrorArrives, SameList, AnswerShown, Saved, serverVars
<1>6. Asked(q) /\ (question[q].conv = openConversation \/ q \in left)
  BY <1>2 DEF Screen, Awaited, Asked
<1>7. \A r \in calls' : r \in calls \/ r.kind = "list"
  BY DEF ChunkArrives, DoneArrives, ErrorArrives, FetchConversations, Sends, Request
<1>8. kept \subseteq Questions /\ messages \subseteq Bubbles /\ calls \subseteq Calls
  BY DEF ChatTypes, ServerOK, ViewOK, CallsOK
<1>9. /\ \A p \in Questions : Asked(p)' => question'[p].conv \in Questions
      /\ \A p \in kept' : Asked(p)'
  BY <1>3, <1>5, <1>6, <1>8 DEF Screen
<1>10. \A r \in calls' : r.kind = "load" =>
          \A p \in r.reply.ids : Asked(p)' /\ question'[p].conv = r.conv
  BY <1>3, <1>7, <1>8 DEF Screen, Calls, Replies
<1>11. ASSUME NEW m \in messages' PROVE Belongs(m)'
  <2>1. CASE m \in messages
    <3>1. m.ask \in Questions
      BY <1>8, <2>1 DEF Bubbles
    <3>2. Belongs(m)
      BY <2>1 DEF Screen
    <3>3. QED BY <1>3, <1>5, <3>1, <3>2 DEF Belongs
  <2>2. CASE m = [role |-> "assistant", ask |-> q, live |-> TRUE]
    BY <1>3, <1>5, <1>6, <2>2 DEF Belongs
  <2>3. QED BY <1>5, <2>1, <2>2
<1>12. \A p \in Questions : Awaited(p)' => question'[p].conv = openConversation' \/ p \in left'
  BY <1>3, <1>4, <1>5 DEF Screen
<1>13. QED BY <1>9, <1>10, <1>11, <1>12 DEF Screen

\* A new request has no reply.
LEMMA NewCalls ==
    ASSUME ChatTypes,
           \/ \E a \in Agents : SelectAgent(a)
           \/ StartNew \/ Back \/ HandleClear
           \/ \E c \in Questions : HandleLoad(c) \/ HandleDelete(c)
    PROVE  \A r \in calls' : r \in calls \/ r.reply.ids = {}
<1>1. ASSUME NEW k, NEW c, NEW x, NEW y
      PROVE  /\ Request(k, c).reply.ids = {}
             /\ [Request(k, c) EXCEPT !.agent = x].reply.ids = {}
             /\ [Request(k, c) EXCEPT !.opened = x, !.seen = y].reply.ids = {}
  BY DEF Request, Unserved
<1>2. \A r : Sends(r) /\ r.reply.ids = {} => \A x \in calls' : x \in calls \/ x.reply.ids = {}
  BY DEF Sends
<1>3. ASSUME NEW a \in Agents, SelectAgent(a)
      PROVE  \A r \in calls' : r \in calls \/ r.reply.ids = {}
  <2>1. Sends([Request("list", Nil) EXCEPT !.agent = a]) \/ UNCHANGED calls
    BY <1>3 DEF SelectAgent, FetchConversations
  <2>2. [Request("list", Nil) EXCEPT !.agent = a].reply.ids = {}
    BY <1>1
  <2>3. QED BY <1>2, <2>1, <2>2
<1>4. CASE StartNew \/ Back \/ HandleClear
  BY <1>1, <1>4 DEF StartNew, Back, HandleClear, Sends
<1>5. ASSUME NEW c \in Questions, HandleLoad(c)
      PROVE  \A r \in calls' : r \in calls \/ r.reply.ids = {}
  BY <1>1, <1>2, <1>5 DEF HandleLoad
<1>6. ASSUME NEW c \in Questions, HandleDelete(c)
      PROVE  \A r \in calls' : r \in calls \/ r.reply.ids = {}
  <2>1. Sends([Request("delete", c) EXCEPT !.opened = (openConversation = c),
                                           !.seen = conversations])
    BY <1>6 DEF HandleDelete
  <2>2. [Request("delete", c) EXCEPT !.opened = (openConversation = c),
                                     !.seen = conversations].reply.ids = {}
    BY <1>1
  <2>3. QED BY <1>2, <2>1, <2>2
<1>7. QED BY <1>3, <1>4, <1>5, <1>6

\* Every step of the page keeps what is known of the screen.
LEMMA ScreenStep == ChatTypes /\ Screen /\ [ChatNext]_chatVars => Screen'
<1>1. SUFFICES ASSUME ChatTypes, Screen, [ChatNext]_chatVars PROVE Screen'
  OBVIOUS
<1>2. CASE UNCHANGED <<question, kept, calls, openConversation, messages, left>>
  BY <1>1, <1>2, ScreenFrame
<1>3. CASE \/ \E a \in Agents : SelectAgent(a)
           \/ StartNew \/ Back \/ HandleClear
           \/ \E c \in Questions : HandleLoad(c) \/ HandleDelete(c)
  <2>1. UNCHANGED <<question, kept>>
    BY <1>3 DEF SelectAgent, StartNew, Back, HandleClear, HandleLoad, HandleDelete,
        SameStore, serverVars
  <2>2. \/ UNCHANGED <<openConversation, messages, left>>
        \/ Shows(Nil, {})
    BY <1>3 DEF SelectAgent, StartNew, Back, HandleClear, HandleLoad, HandleDelete,
        SameStore, pageVars, LeavesAgent
  <2>3. QED BY <1>1, <1>3, <2>1, <2>2, NewCalls, ScreenFrame
<1>4. ASSUME NEW r \in calls, Serve(r) \/ Arrive(r) \/ CallFails(r) PROVE Screen'
  <2>1. CASE Serve(r)
    BY <1>1, <2>1, ScreenServes
  <2>2. CASE Arrive(r) \/ CallFails(r)
    <3>1. UNCHANGED <<question, kept>> /\ calls' = calls \ {r}
      BY <2>2 DEF Arrive, CallFails, serverVars
    <3>2. \/ r.kind = "load" /\ AnsweredLoad(r)
          \/ UNCHANGED <<openConversation, messages, left>>
          \/ Shows(Nil, {})
      BY <2>2 DEF Arrive, CallFails, AnsweredList, LeavesAgent, AnsweredDelete, AnsweredClear,
          SameView
    <3>3. QED BY <1>1, <3>1, <3>2, ScreenLoads, ScreenFrame
  <2>3. QED BY <1>4, <2>1, <2>2
<1>5. ASSUME NEW l \in Links, OpenSocket(l) \/ SocketConnects(l) \/ SocketFails(l) \/ SocketLost(l)
      PROVE  Screen'
  BY <1>2, <1>5 DEF OpenSocket, SocketConnects, SocketFails, SocketLost, SameChat, pageVars, serverVars
<1>6. CASE UNCHANGED chatVars
  BY <1>2, <1>6 DEF chatVars, pageVars, serverVars
<1>7. QED BY <1>1, <1>3, <1>4, <1>5, <1>6, ScreenAsks, ScreenAnswers DEF ChatNext

--------------------------------------------------------------------------------
(* Whose conversations are offered.                                          *)

OfAgent(c, a) == Asked(c) /\ question[c].agent = a

\* What a request brings is of the agent it was made for.
OwnedCall(r) ==
    /\ r.kind = "list" => \A c \in r.reply.ids : OfAgent(c, r.agent)
    /\ \A c \in r.seen : OfAgent(c, r.agent)
    /\ r.kind = "load" => r.conv \in Questions /\ OfAgent(r.conv, r.agent)

Owned ==
    /\ \A q \in Questions : Asked(q) => OfAgent(question[q].conv, question[q].agent)
    /\ \A c \in Questions : table[c] # Nil => OfAgent(c, table[c])
    /\ \A c \in conversations : OfAgent(c, agentId)
    /\ openConversation # Nil => OfAgent(openConversation, agentId)
    /\ \A r \in calls : OwnedCall(r)

OwnedInv == ~late => Owned

\* Whose a conversation is does not change once it is somebody's.
LEMMA OwnerKept ==
    ASSUME QuestionsKept
    PROVE  /\ \A c \in Questions : \A a : OfAgent(c, a) => OfAgent(c, a)'
           /\ \A r \in Calls : OwnedCall(r) => OwnedCall(r)'
<1>1. \A c \in Questions : \A a : OfAgent(c, a) => OfAgent(c, a)'
  BY DEF QuestionsKept, OfAgent
<1>2. ASSUME NEW r \in Calls, OwnedCall(r) PROVE OwnedCall(r)'
  <2>1. r.reply.ids \subseteq Questions /\ r.seen \subseteq Questions
    BY DEF Calls, Replies
  <2>2. r.kind = "load" => OfAgent(r.conv, r.agent)'
    BY <1>1, <1>2 DEF OwnedCall
  <2>3. QED BY <1>1, <1>2, <2>1, <2>2 DEF OwnedCall
<1>3. QED BY <1>1, <1>2

\* A step that asks, saves and brings nothing, in which what is offered is left
\* as it was or emptied.
LEMMA OwnedFrame ==
    ASSUME ChatTypes, Owned, UNCHANGED <<question, table>>,
           conversations' = {} \/ UNCHANGED <<agentId, conversations>>,
           openConversation' = Nil \/ UNCHANGED <<agentId, openConversation>>,
           \A r \in calls' : r \in calls \/ OwnedCall(r)
    PROVE  Owned'
<1>1. \A c, a : OfAgent(c, a)' <=> OfAgent(c, a)
  BY DEF OfAgent, Asked
<1>2. \A r : OwnedCall(r)' <=> OwnedCall(r)
  BY <1>1 DEF OwnedCall
<1>3. \A q : Asked(q)' <=> Asked(q)
  BY DEF Asked
<1>4. QED BY <1>1, <1>2, <1>3 DEF Owned

\* The page asks only for what it offers.
LEMMA ClicksOwned ==
    ASSUME ChatTypes, Owned,
           \/ \E a \in Agents : SelectAgent(a)
           \/ StartNew \/ Back \/ HandleClear
           \/ \E c \in Questions : HandleLoad(c) \/ HandleDelete(c)
    PROVE  Owned'
<1>1. UNCHANGED <<question, table>>
  BY DEF SelectAgent, StartNew, Back, HandleClear, HandleLoad, HandleDelete, SameStore, serverVars
<1>2. /\ conversations' = {} \/ UNCHANGED <<agentId, conversations>>
      /\ openConversation' = Nil \/ UNCHANGED <<agentId, openConversation>>
  BY DEF SelectAgent, StartNew, Back, HandleClear, HandleLoad, HandleDelete, SameStore, pageVars,
      LeavesAgent, Shows
<1>3. ASSUME NEW c, NEW a, NEW k, k # "load"
      PROVE  /\ OwnedCall(Request(k, c))
             /\ OwnedCall([Request(k, c) EXCEPT !.agent = a])
  BY <1>3 DEF Request, Unserved, OwnedCall
<1>4. \A r : Sends(r) /\ OwnedCall(r) => \A x \in calls' : x \in calls \/ OwnedCall(x)
  BY DEF Sends
<1>5. ASSUME NEW a \in Agents, SelectAgent(a)
      PROVE  \A r \in calls' : r \in calls \/ OwnedCall(r)
  <2>1. Sends([Request("list", Nil) EXCEPT !.agent = a]) \/ UNCHANGED calls
    BY <1>5 DEF SelectAgent, FetchConversations
  <2>2. OwnedCall([Request("list", Nil) EXCEPT !.agent = a])
    BY <1>3
  <2>3. QED BY <1>4, <2>1, <2>2
<1>6. ASSUME StartNew \/ Back \/ HandleClear
      PROVE  \A r \in calls' : r \in calls \/ OwnedCall(r)
  <2>1. \/ Sends(Request("back", Nil)) \/ Sends(Request("clear", openConversation))
        \/ UNCHANGED calls
    BY <1>6 DEF StartNew, Back, HandleClear
  <2>2. OwnedCall(Request("back", Nil)) /\ \A c : OwnedCall(Request("clear", c))
    BY <1>3
  <2>3. QED BY <1>4, <2>1, <2>2
<1>7. ASSUME NEW c \in Questions, HandleLoad(c)
      PROVE  \A r \in calls' : r \in calls \/ OwnedCall(r)
  <2>1. Sends(Request("load", c)) /\ c \in conversations
    BY <1>7 DEF HandleLoad, ShowsRow
  <2>2. OwnedCall(Request("load", c))
    BY <2>1 DEF Owned, OwnedCall, Request, Unserved
  <2>3. QED BY <1>4, <2>1, <2>2
<1>8. ASSUME NEW c \in Questions, HandleDelete(c)
      PROVE  \A r \in calls' : r \in calls \/ OwnedCall(r)
  <2> DEFINE d == [Request("delete", c) EXCEPT !.opened = (openConversation = c),
                                               !.seen = conversations]
  <2>1. Sends(d)
    BY <1>8 DEF HandleDelete
  <2>2. d.kind = "delete" /\ d.seen = conversations /\ d.agent = agentId
    BY DEF Request
  <2>3. OwnedCall(d)
    BY <2>2 DEF Owned, OwnedCall
  <2>4. QED BY <1>4, <2>1, <2>3
<1>9. \A r \in calls' : r \in calls \/ OwnedCall(r)
  BY <1>5, <1>6, <1>7, <1>8
<1>10. QED BY <1>1, <1>2, <1>9, OwnedFrame

\* The server gives the list of the agent it was asked for.
LEMMA ServeOwned ==
    ASSUME ChatTypes, Owned, NEW r \in calls, Serve(r)
    PROVE  Owned'
<1>1. /\ UNCHANGED <<agentId, openConversation, conversations, question>>
      /\ calls' = (calls \ {r}) \cup {[r EXCEPT !.reply = Reply(r)]}
      /\ UNCHANGED table \/ table' = [table EXCEPT ![r.conv] = Nil]
  BY DEF Serve, pageVars, serverVars
<1>2. r \in Calls
  BY DEF ChatTypes, CallsOK
<1>3. [r EXCEPT !.reply = Reply(r)] = [kind |-> r.kind, agent |-> r.agent, conv |-> r.conv,
          opened |-> r.opened, seen |-> r.seen, reply |-> Reply(r)]
  BY <1>2 DEF Calls
<1>4. r.kind = "list" => \A c \in Reply(r).ids : OfAgent(c, r.agent)
  BY <1>2, ChatAssumption DEF Reply, Owned, Calls
<1>5. OwnedCall([r EXCEPT !.reply = Reply(r)])
  BY <1>3, <1>4 DEF OwnedCall, Owned
<1>6. \A c, a : OfAgent(c, a)' <=> OfAgent(c, a)
  BY <1>1 DEF OfAgent, Asked
<1>7. \A x : OwnedCall(x)' <=> OwnedCall(x)
  BY <1>6 DEF OwnedCall
<1>8. \A c \in Questions : table'[c] # Nil => table'[c] = table[c]
  BY <1>1 DEF ChatTypes, ServerOK
<1>9. \A q : Asked(q)' <=> Asked(q)
  BY <1>1 DEF Asked
<1>10. QED BY <1>1, <1>5, <1>6, <1>7, <1>8, <1>9 DEF Owned

\* A reply that does not come late is for the agent the page is at.
LEMMA ArriveOwned ==
    ASSUME ChatTypes, Owned, NEW r \in calls, Arrive(r), ~late'
    PROVE  Owned'
<1>1. /\ UNCHANGED <<question, table>> /\ calls' = calls \ {r} /\ agentId = r.agent
  BY DEF Arrive, serverVars
<1>2. OwnedCall(r) /\ \A x \in calls' : x \in calls
  BY <1>1 DEF Owned
<1>3. CASE r.kind \in {"back", "clear"}
  <2>1. /\ conversations' = {} \/ UNCHANGED <<agentId, conversations>>
        /\ openConversation' = Nil
    BY <1>3 DEF Arrive, LeavesAgent, AnsweredClear, Shows
  <2>2. QED BY <1>1, <1>2, <2>1, OwnedFrame
<1>4. CASE r.kind \in {"list", "load", "delete"}
  <2>1. /\ agentId' = agentId
        /\ \A c \in conversations' : OfAgent(c, agentId)
        /\ openConversation' # Nil => OfAgent(openConversation', agentId)
    <3>1. CASE r.kind = "list"
      BY <1>1, <1>2, <3>1 DEF Arrive, AnsweredList, OwnedCall, Owned
    <3>2. CASE r.kind = "load"
      BY <1>1, <1>2, <3>2 DEF Arrive, AnsweredLoad, Shows, OwnedCall, Owned
    <3>3. CASE r.kind = "delete"
      BY <1>1, <1>2, <3>3 DEF Arrive, AnsweredDelete, Shows, OwnedCall, Owned
    <3>4. QED BY <1>4, <3>1, <3>2, <3>3
  <2>2. \A c, a : OfAgent(c, a)' <=> OfAgent(c, a)
    BY <1>1 DEF OfAgent, Asked
  <2>3. \A x : OwnedCall(x)' <=> OwnedCall(x)
    BY <2>2 DEF OwnedCall
  <2>4. \A q : Asked(q)' <=> Asked(q)
    BY <1>1 DEF Asked
  <2>5. QED BY <1>1, <1>2, <2>1, <2>2, <2>3, <2>4 DEF Owned
<1>5. QED BY <1>3, <1>4 DEF Arrive

\* A call that failed brings nothing.
LEMMA FailureOwned ==
    ASSUME ChatTypes, Owned, NEW r \in calls, CallFails(r)
    PROVE  Owned'
<1>1. UNCHANGED <<question, table>> /\ calls' = calls \ {r}
  BY DEF CallFails, serverVars
<1>2. /\ conversations' = {} \/ UNCHANGED <<agentId, conversations>>
      /\ openConversation' = Nil \/ UNCHANGED <<agentId, openConversation>>
  BY DEF CallFails, LeavesAgent, SameView, AnsweredClear, Shows
<1>3. QED BY <1>1, <1>2, OwnedFrame

\* A question is asked of the agent of the page, in a conversation of its own.
LEMMA SendOwned ==
    ASSUME ChatTypes, Screen, Owned, QuestionsKept, NEW q \in Questions, Send(q)
    PROVE  Owned'
<1>1. PICK c \in Questions :
         /\ c = IF openConversation = Nil THEN q ELSE openConversation
         /\ openConversation' = c
         /\ question' = [question EXCEPT ![q] = [conv |-> c, agent |-> agentId, phase |-> "asked"]]
  BY DEF Send, ChatTypes, ViewOK, Conversation
<1>2. UNCHANGED <<agentId, conversations, table, calls>> /\ ~Asked(q)
  BY DEF Send, serverVars, Asked
<1>3. /\ OfAgent(q, agentId)' /\ question'[q].conv = c /\ question'[q].agent = agentId
      /\ \A p \in Questions \ {q} : question'[p] = question[p]
  BY <1>1, <1>2 DEF ChatTypes, ServerOK, Asked, OfAgent
<1>4. calls \subseteq Calls /\ conversations \subseteq Questions
      /\ \A p \in Questions : question[p].conv \in Conversation
  BY DEF ChatTypes, CallsOK, ViewOK, ServerOK
<1>5. /\ \A x \in Questions : \A a : OfAgent(x, a) => OfAgent(x, a)'
      /\ \A r \in Calls : OwnedCall(r) => OwnedCall(r)'
  BY OwnerKept
<1>6. OfAgent(c, agentId)'
  BY <1>1, <1>2, <1>3, <1>5 DEF Owned
<1>7. \A p \in Questions : Asked(p)' => OfAgent(question[p].conv, question[p].agent)'
  <2>1. SUFFICES ASSUME NEW p \in Questions, Asked(p)'
                 PROVE  OfAgent(question[p].conv, question[p].agent)'
    OBVIOUS
  <2>2. CASE p = q
    BY <1>3, <1>6, <2>2 DEF OfAgent
  <2>3. CASE p # q
    <3>1. Asked(p) /\ question'[p] = question[p]
      BY <1>3, <2>1, <2>3 DEF Asked
    <3>2. question[p].conv \in Questions /\ OfAgent(question[p].conv, question[p].agent)
      BY <3>1 DEF Owned, Screen
    <3>3. PICK x, a : x \in Questions /\ x = question[p].conv /\ a = question[p].agent
      BY <3>2
    <3>4. OfAgent(x, a)'
      BY <1>5, <3>2, <3>3
    <3>5. QED BY <3>1, <3>3, <3>4 DEF OfAgent, Asked
  <2>4. QED BY <2>2, <2>3
<1>8. /\ \A x \in Questions : table'[x] # Nil => OfAgent(x, table[x])'
      /\ \A x \in conversations' : OfAgent(x, agentId)'
      /\ \A r \in calls' : OwnedCall(r)'
  BY <1>2, <1>4, <1>5 DEF Owned
<1>9. QED BY <1>1, <1>6, <1>7, <1>8 DEF Owned

\* The first of an answer saves the question, for the agent it was put to.
LEMMA AnswersOwned ==
    ASSUME ChatTypes, Screen, Owned, QuestionsKept, NEW q \in Questions,
           ChunkArrives(q) \/ DoneArrives(q) \/ ErrorArrives(q)
    PROVE  Owned'
<1>1. PICK to \in Stages \ {"new"} : question' = [question EXCEPT ![q].phase = to]
  BY DEF ChunkArrives, DoneArrives, ErrorArrives, Turns, Stages
<1>2. Asked(q)
  BY DEF ChunkArrives, DoneArrives, ErrorArrives, Turns, Asked
<1>3. \A p \in Questions : /\ question'[p].conv = question[p].conv
                           /\ question'[p].agent = question[p].agent
                           /\ Asked(p)' <=> Asked(p)
  BY <1>1, <1>2 DEF ChatTypes, ServerOK, Asked
<1>4. \A c \in Questions : \A a : OfAgent(c, a)' <=> OfAgent(c, a)
  BY <1>3 DEF OfAgent
<1>5. UNCHANGED <<agentId, openConversation, conversations>>
  BY DEF ChunkArrives, DoneArrives, ErrorArrives, SameList
<1>6. \A r \in calls' : r \in calls \/ (r.kind = "list" /\ r.seen = {} /\ r.reply.ids = {})
  <2> DEFINE fetch == [Request("list", Nil) EXCEPT !.agent = agentId]
  <2>1. UNCHANGED calls \/ calls' = calls \cup {fetch}
    BY DEF ChunkArrives, DoneArrives, ErrorArrives, FetchConversations, Sends
  <2>2. fetch.kind = "list" /\ fetch.seen = {} /\ fetch.reply.ids = {}
    BY DEF Request, Unserved
  <2> HIDE DEF fetch
  <2>3. QED BY <2>1, <2>2
<1>7. \A p \in Questions : Asked(p) => question[p].conv \in Questions
  BY DEF Screen
<1>8. \A p \in Questions : Asked(p)' => OfAgent(question[p].conv, question[p].agent)'
  <2>1. SUFFICES ASSUME NEW p \in Questions, Asked(p)
                 PROVE  OfAgent(question[p].conv, question[p].agent)'
    BY <1>3
  <2>2. OfAgent(question[p].conv, question[p].agent) /\ question[p].conv \in Questions
    BY <1>7, <2>1 DEF Owned
  <2>3. QED BY <1>3, <2>2 DEF OfAgent
<1>9. \A c \in Questions : table'[c] # Nil => OfAgent(c, table[c])'
  <2>1. SUFFICES ASSUME NEW c \in Questions, table'[c] # Nil
                 PROVE  OfAgent(c, table'[c])
    BY <1>4 DEF OfAgent, Asked
  <2>2. CASE table'[c] = table[c]
    BY <2>1, <2>2 DEF Owned
  <2>3. CASE c = question[q].conv /\ table'[c] = question[q].agent
    BY <1>2, <2>3 DEF Owned
  <2>4. UNCHANGED table \/ Saved(q)
    BY DEF ChunkArrives, DoneArrives, ErrorArrives, serverVars
  <2>5. QED BY <2>2, <2>3, <2>4 DEF Saved, ChatTypes, ServerOK
<1>10. /\ \A c \in conversations' : OfAgent(c, agentId)'
       /\ openConversation' # Nil => OfAgent(openConversation, agentId)'
  <2>1. conversations \subseteq Questions /\ (openConversation # Nil => openConversation \in Questions)
    BY DEF ChatTypes, ViewOK, Conversation
  <2>2. QED BY <1>3, <1>5, <2>1 DEF Owned, OfAgent
<1>11. \A r \in calls' : OwnedCall(r)'
  <2>1. ASSUME NEW r \in calls, r \in calls' PROVE OwnedCall(r)'
    BY OwnerKept DEF Owned, ChatTypes, CallsOK
  <2>2. ASSUME NEW r \in calls', r.kind = "list", r.seen = {}, r.reply.ids = {} PROVE OwnedCall(r)'
    BY <2>2 DEF OwnedCall
  <2>3. QED BY <1>6, <2>1, <2>2
<1>12. QED BY <1>8, <1>9, <1>10, <1>11 DEF Owned

\* Every step keeps to one agent, as long as nothing came late.
LEMMA OwnedStep ==
    ChatTypes /\ Screen /\ OwnedInv /\ [ChatNext]_chatVars => OwnedInv'
<1>1. SUFFICES ASSUME ChatTypes, Screen, OwnedInv, [ChatNext]_chatVars, ~late' PROVE Owned'
  BY DEF OwnedInv
<1>2. ~late
  BY <1>1 DEF ChatNext, SelectAgent, StartNew, Back, HandleClear, HandleLoad, HandleDelete,
      SameStore, Serve, Arrive, CallFails, OpenSocket, SocketConnects, SocketFails, SocketLost,
      SameChat, Send, ChunkArrives, DoneArrives, ErrorArrives, SameList, chatVars
<1>3. Owned /\ QuestionsKept
  BY <1>1, <1>2, KeepsQuestions DEF OwnedInv
<1>4. CASE UNCHANGED <<agentId, openConversation, conversations, question, table, calls>>
  BY <1>1, <1>3, <1>4, OwnedFrame
<1>5. CASE \E l \in Links : OpenSocket(l) \/ SocketConnects(l) \/ SocketFails(l) \/ SocketLost(l)
  BY <1>4, <1>5 DEF OpenSocket, SocketConnects, SocketFails, SocketLost, SameChat, pageVars, serverVars
<1>6. CASE UNCHANGED chatVars
  BY <1>4, <1>6 DEF chatVars, pageVars, serverVars
<1>7. ASSUME NEW r \in calls, Serve(r) \/ Arrive(r) \/ CallFails(r) PROVE Owned'
  BY <1>1, <1>3, <1>7, ServeOwned, ArriveOwned, FailureOwned
<1>8. QED BY <1>1, <1>3, <1>5, <1>6, <1>7, ClicksOwned, SendOwned, AnswersOwned DEF ChatNext

--------------------------------------------------------------------------------
(* The theorems about the chat.                                              *)

ChatInv == ChatTypes /\ TypingInv /\ Screen /\ OwnedInv

\* An empty page has nothing that could be of another conversation or agent.
LEMMA ChatInitInv == ChatInit => ChatInv
<1>1. SUFFICES ASSUME ChatInit PROVE ChatInv
  OBVIOUS
<1>2. /\ agentId = Nil /\ openConversation = Nil /\ messages = {} /\ conversations = {}
      /\ typing = FALSE /\ kept = {} /\ calls = {} /\ left = {} /\ late = FALSE
      /\ clicks = 0 /\ losses = 0 /\ isConnected = FALSE /\ current = Nil
      /\ link = [l \in Links |-> "none"] /\ joined = [l \in Links |-> {}]
      /\ question = [q \in Questions |-> [conv |-> Nil, agent |-> Nil, phase |-> "new"]]
      /\ table = [c \in Questions |-> Nil]
  BY <1>1 DEF ChatInit
<1>3. \A q \in Questions : ~Asked(q) /\ ~Awaited(q)
  BY <1>2 DEF Asked, Awaited
<1>4. CallsOK
  <2>1. IsFiniteSet({}) /\ Cardinality({}) = 0
    BY FS_EmptySet
  <2>2. QED BY <1>2, <2>1, ChatAssumption DEF CallsOK
<1>5. ViewOK /\ LinksOK /\ BoundsOK
  <2>1. ViewOK
    BY <1>2 DEF ViewOK, Conversation
  <2>2. LinksOK
    BY <1>2 DEF LinksOK
  <2>3. BoundsOK
    BY <1>2, ChatAssumption DEF BoundsOK
  <2>4. QED BY <2>1, <2>2, <2>3
<1>6. ServerOK
  BY <1>2 DEF ServerOK, Conversation, Stages
<1>7. TypingInv /\ Screen
  BY <1>2, <1>3 DEF TypingInv, Screen
<1>8. OwnedInv
  BY <1>2, <1>3 DEF OwnedInv, Owned
<1>9. QED BY <1>4, <1>5, <1>6, <1>7, <1>8 DEF ChatInv, ChatTypes

\* The invariant the theorems follow from.
LEMMA ChatInvariant == ChatSpec => []ChatInv
<1>1. ChatInv /\ [ChatNext]_chatVars => ChatInv'
  BY ChatTypeStep, TypingStep, ScreenStep, OwnedStep DEF ChatInv
<1>2. QED BY <1>1, ChatInitInv, PTL DEF ChatSpec

\* The store, the sockets, the rows of the server and the requests have their
\* types, and no more is clicked or in flight than the bounds allow.
THEOREM ChatTypeCorrect == ChatSpec => []ChatTypeOK
<1>1. ChatInv => ChatTypeOK
  <2>1. SUFFICES ASSUME ChatTypes PROVE ChatTypeOK
    BY DEF ChatInv
  <2>2. clicks \in 0..(MaxClicks - losses) /\ losses \in 0..MaxClicks
    BY <2>1, ChatAssumption DEF ChatTypes, BoundsOK
  <2>3. QED BY <2>1, <2>2
     DEF ChatTypeOK, ChatTypes, ViewOK, LinksOK, ServerOK, CallsOK
<1>2. QED BY <1>1, ChatInvariant, PTL

\* The send button comes back: unless a socket was lost, an answer is shown as
\* being typed only while a question waits for one.
THEOREM TypingAwaitedHolds == ChatSpec => []TypingMeansAwaited
<1>1. ChatInv => TypingMeansAwaited
  BY DEF ChatInv, TypingInv, TypingMeansAwaited
<1>2. QED BY <1>1, ChatInvariant, PTL

\* What is on the screen is the conversation the next question goes to, and it
\* and the list are of the agent it is sent to.
THEOREM OneConversationHolds == ChatSpec => []ShowsOneConversation
<1>1. ChatInv => ShowsOneConversation
  <2>1. SUFFICES ASSUME ChatInv PROVE ShowsOneConversation
    OBVIOUS
  <2>2. \A m \in messages : \/ question[m.ask].conv = openConversation
                            \/ m.role = "assistant" /\ m.live /\ m.ask \in left
    <3>1. \A m \in messages : Belongs(m)
      BY <2>1 DEF ChatInv, Screen
    <3>2. QED BY <3>1 DEF Belongs
  <2>3. ~late => /\ \A c \in conversations : question[c].agent = agentId
                 /\ openConversation # Nil => question[openConversation].agent \in {Nil, agentId}
    BY <2>1 DEF ChatInv, OwnedInv, Owned, OfAgent
  <2>4. QED BY <2>2, <2>3 DEF ShowsOneConversation
<1>2. QED BY <1>1, ChatInvariant, PTL

--------------------------------------------------------------------------------
(* The tables.                                                               *)

\* Calls are told apart by their ids, and the overlay counts no more than there
\* are.
FlightOK ==
    /\ IsFiniteSet(flight) /\ Cardinality(flight) <= MaxFlight
    /\ \A r \in flight :
          /\ r.id \in 1..MaxFlight
          /\ r = [id |-> r.id, call |-> r.call, item |-> r.item, page |-> r.page,
                  term |-> r.term, step |-> r.step, answer |-> r.answer]
    /\ \A r, s \in flight : r.id = s.id => r = s
    /\ loadingCount \in Nat /\ loadingCount <= Cardinality(flight)
    /\ broken \in Nat

\* While there is room for a call there is an id for it.
LEMMA FreeId ==
    ASSUME NEW rest, IsFiniteSet(rest), Cardinality(rest) < MaxFlight
    PROVE  \E i \in 1..MaxFlight : \A r \in rest : r.id # i
<1> DEFINE ids == {r.id : r \in rest}
           f == [r \in rest |-> r.id]
<1>1. f \in Surjection(rest, ids)
  BY DEF Surjection
<1>2. IsFiniteSet(ids) /\ Cardinality(ids) <= Cardinality(rest)
  BY <1>1, FS_Surjection
<1>3. MaxFlight \in Nat /\ MaxFlight # 0
  BY ListAssumption
<1>4. Cardinality(1..MaxFlight) = MaxFlight
  BY <1>3, FS_Interval
<1>5. Cardinality(rest) \in Nat /\ Cardinality(ids) \in Nat
  BY <1>2, FS_CardinalityType
<1>6. ~(1..MaxFlight \subseteq ids)
  <2>1. SUFFICES ASSUME 1..MaxFlight \subseteq ids PROVE FALSE
    OBVIOUS
  <2>2. Cardinality(1..MaxFlight) <= Cardinality(ids)
    BY <1>2, <2>1, FS_Subset
  <2>3. QED BY <1>2, <1>3, <1>4, <1>5, <2>2
<1>7. QED BY <1>6

\* A call has its fields, and an id of its own.
LEMMA CallMade ==
    \A call, item, p, t, rest :
        LET c == Call(call, item, p, t, rest) IN
        /\ c.call = call /\ c.item = item /\ c.page = p /\ c.term = t /\ c.step = "sent"
        /\ c = [id |-> c.id, call |-> c.call, item |-> c.item, page |-> c.page,
                term |-> c.term, step |-> c.step, answer |-> c.answer]
        /\ IsFiniteSet(rest) /\ Cardinality(rest) < MaxFlight =>
              c.id \in 1..MaxFlight /\ \A r \in rest : r.id # c.id
<1>1. SUFFICES ASSUME NEW call, NEW item, NEW p, NEW t, NEW rest
      PROVE LET c == Call(call, item, p, t, rest) IN
        /\ c.call = call /\ c.item = item /\ c.page = p /\ c.term = t /\ c.step = "sent"
        /\ c = [id |-> c.id, call |-> c.call, item |-> c.item, page |-> c.page,
                term |-> c.term, step |-> c.step, answer |-> c.answer]
        /\ IsFiniteSet(rest) /\ Cardinality(rest) < MaxFlight =>
              c.id \in 1..MaxFlight /\ \A r \in rest : r.id # c.id
  OBVIOUS
<1> DEFINE c == Call(call, item, p, t, rest)
<1>2. /\ c.call = call /\ c.item = item /\ c.page = p /\ c.term = t /\ c.step = "sent"
      /\ c = [id |-> c.id, call |-> c.call, item |-> c.item, page |-> c.page,
              term |-> c.term, step |-> c.step, answer |-> c.answer]
      /\ c.id = CHOOSE i \in 1..MaxFlight : \A r \in rest : r.id # i
  BY DEF Call
<1>3. IsFiniteSet(rest) /\ Cardinality(rest) < MaxFlight =>
         c.id \in 1..MaxFlight /\ \A r \in rest : r.id # c.id
  <2> HIDE DEF c
  <2>1. QED BY <1>2, FreeId
<1>4. QED BY <1>2, <1>3

\* A call begins.
LEMMA FlightBegins ==
    ASSUME FlightOK, \E call, item, p, t : Begins(call, item, p, t), broken' = broken
    PROVE  FlightOK'
<1>1. PICK call, item, p, t : Begins(call, item, p, t)
  OBVIOUS
<1>2. PICK c : c = Call(call, item, p, t, flight)
  OBVIOUS
<1>3. /\ Cardinality(flight) < MaxFlight /\ flight' = flight \cup {c}
      /\ loadingCount' = loadingCount + 1
  BY <1>1, <1>2 DEF Begins
<1>4. /\ c.id \in 1..MaxFlight /\ \A r \in flight : r.id # c.id
      /\ c = [id |-> c.id, call |-> c.call, item |-> c.item, page |-> c.page,
              term |-> c.term, step |-> c.step, answer |-> c.answer]
  BY <1>2, <1>3, CallMade DEF FlightOK
<1>5. /\ IsFiniteSet(flight') /\ Cardinality(flight') = Cardinality(flight) + 1
      /\ Cardinality(flight) \in Nat
  BY <1>3, <1>4, FS_AddElement, FS_CardinalityType DEF FlightOK
<1>6. /\ Cardinality(flight') <= MaxFlight
      /\ loadingCount' \in Nat /\ loadingCount' <= Cardinality(flight')
  BY <1>3, <1>5, ListAssumption DEF FlightOK
<1>7. QED BY <1>3, <1>4, <1>5, <1>6 DEF FlightOK

\* A call is over.
LEMMA FlightEnds ==
    ASSUME FlightOK, NEW r \in flight, EndsOnly(r), broken' = broken
    PROVE  FlightOK'
<1>1. flight' = flight \ {r} /\ loadingCount' = IF loadingCount = 0 THEN 0 ELSE loadingCount - 1
  BY DEF EndsOnly, Uncounted
<1>2. /\ IsFiniteSet(flight') /\ Cardinality(flight') = Cardinality(flight) - 1
      /\ Cardinality(flight) \in Nat /\ Cardinality(flight') \in Nat
  BY <1>1, FS_RemoveElement, FS_CardinalityType DEF FlightOK
<1>3. /\ Cardinality(flight') <= MaxFlight
      /\ loadingCount' \in Nat /\ loadingCount' <= Cardinality(flight')
  BY <1>1, <1>2, ListAssumption DEF FlightOK
<1>4. QED BY <1>1, <1>2, <1>3 DEF FlightOK

\* A call is over and the list is fetched.
LEMMA FlightFetches ==
    ASSUME FlightOK, NEW r \in flight, \E p, t : EndsAndFetches(r, p, t), broken' = broken
    PROVE  FlightOK'
<1>1. PICK p, t : EndsAndFetches(r, p, t)
  OBVIOUS
<1>2. PICK rest, c : rest = flight \ {r} /\ c = Call("list", NoItem, p, t, rest)
  OBVIOUS
<1>3. /\ flight' = rest \cup {c}
      /\ loadingCount' = (IF loadingCount = 0 THEN 0 ELSE loadingCount - 1) + 1
  BY <1>1, <1>2 DEF EndsAndFetches, Uncounted
<1>4. /\ IsFiniteSet(rest) /\ Cardinality(rest) = Cardinality(flight) - 1
      /\ Cardinality(flight) \in Nat /\ Cardinality(rest) \in Nat
  BY <1>2, FS_RemoveElement, FS_CardinalityType DEF FlightOK
<1>5. Cardinality(rest) < MaxFlight
  BY <1>4, ListAssumption DEF FlightOK
<1>6. /\ c.id \in 1..MaxFlight /\ \A x \in rest : x.id # c.id
      /\ c = [id |-> c.id, call |-> c.call, item |-> c.item, page |-> c.page,
              term |-> c.term, step |-> c.step, answer |-> c.answer]
  <2>1. IsFiniteSet(rest) /\ Cardinality(rest) < MaxFlight /\ c = Call("list", NoItem, p, t, rest)
    BY <1>2, <1>4, <1>5
  <2>2. QED BY <2>1, CallMade
<1>7. IsFiniteSet(flight') /\ Cardinality(flight') = Cardinality(rest) + 1
  BY <1>3, <1>4, <1>6, FS_AddElement
<1>8. /\ Cardinality(flight') <= MaxFlight
      /\ loadingCount' \in Nat /\ loadingCount' <= Cardinality(flight')
  BY <1>3, <1>4, <1>7, ListAssumption DEF FlightOK
<1>9. \A x \in flight' :
          /\ x.id \in 1..MaxFlight
          /\ x = [id |-> x.id, call |-> x.call, item |-> x.item, page |-> x.page,
                  term |-> x.term, step |-> x.step, answer |-> x.answer]
  BY <1>2, <1>3, <1>6 DEF FlightOK
<1>10. \A x, y \in flight' : x.id = y.id => x = y
  BY <1>2, <1>3, <1>6 DEF FlightOK
<1>11. QED BY <1>7, <1>8, <1>9, <1>10 DEF FlightOK

\* What the backend makes of a call.
Becomes(r, s, a) ==
    [id |-> r.id, call |-> r.call, item |-> r.item, page |-> r.page, term |-> r.term,
     step |-> s, answer |-> a]

\* What the backend has served, accepted or refused, with its rows.
LEMMA BackendAnswers ==
    ASSUME FlightOK, NEW r \in flight, BackendServes(r)
    PROVE  \E s, a : /\ s = IF Accepted(r) THEN "ok" ELSE "refused"
                     /\ flight' = (flight \ {r}) \cup {Becomes(r, s, a)}
                     /\ r.call = "list" => a \in Answers(r.page, r.term)
<1>1. PICK s : s = IF Accepted(r) THEN "ok" ELSE "refused"
  OBVIOUS
<1>2. PICK a : /\ flight' = (flight \ {r}) \cup {[r EXCEPT !.step = s, !.answer = a]}
               /\ r.call = "list" => a \in Answers(r.page, r.term)
  BY <1>1 DEF BackendServes
<1>3. [r EXCEPT !.step = s] = Becomes(r, s, r.answer)
  BY DEF FlightOK, Becomes
<1>4. [r EXCEPT !.step = s, !.answer = a] = [[r EXCEPT !.step = s] EXCEPT !.answer = a]
  OBVIOUS
<1>5. [Becomes(r, s, r.answer) EXCEPT !.answer = a] = Becomes(r, s, a)
  BY DEF Becomes
<1>6. [r EXCEPT !.step = s, !.answer = a] = Becomes(r, s, a)
  BY <1>3, <1>4, <1>5
<1>7. QED BY <1>1, <1>2, <1>6

\* What has failed.
LEMMA BackendFailed ==
    ASSUME FlightOK, NEW r \in flight, BackendFails(r)
    PROVE  \E a : flight' = (flight \ {r}) \cup {Becomes(r, "failed", a)}
<1>1. [r EXCEPT !.step = "failed"] = Becomes(r, "failed", r.answer)
  BY DEF FlightOK, Becomes
<1>2. QED BY <1>1 DEF BackendFails

\* A call the backend is done with is still the one call of its id.
LEMMA FlightServed ==
    ASSUME FlightOK, NEW r \in flight, loadingCount' = loadingCount, broken' \in Nat,
           \E s, a : flight' = (flight \ {r}) \cup {Becomes(r, s, a)}
    PROVE  FlightOK'
<1>1. PICK x : /\ x.id = r.id /\ flight' = (flight \ {r}) \cup {x}
               /\ x = [id |-> x.id, call |-> x.call, item |-> x.item, page |-> x.page,
                       term |-> x.term, step |-> x.step, answer |-> x.answer]
  <2>1. PICK s, a : flight' = (flight \ {r}) \cup {Becomes(r, s, a)}
    OBVIOUS
  <2>2. /\ Becomes(r, s, a).id = r.id
        /\ LET x == Becomes(r, s, a) IN
              x = [id |-> x.id, call |-> x.call, item |-> x.item, page |-> x.page,
                   term |-> x.term, step |-> x.step, answer |-> x.answer]
    BY DEF Becomes
  <2>3. QED BY <2>1, <2>2
<1>3. /\ IsFiniteSet(flight \ {r}) /\ Cardinality(flight \ {r}) = Cardinality(flight) - 1
      /\ Cardinality(flight) \in Nat
  BY FS_RemoveElement, FS_CardinalityType DEF FlightOK
<1>4. x \notin flight \ {r}
  BY <1>1 DEF FlightOK
<1>5. IsFiniteSet(flight') /\ Cardinality(flight') = Cardinality(flight \ {r}) + 1
  BY <1>1, <1>3, <1>4, FS_AddElement
<1>6. /\ Cardinality(flight') <= MaxFlight
      /\ loadingCount' \in Nat /\ loadingCount' <= Cardinality(flight')
  BY <1>3, <1>5 DEF FlightOK
<1>7. QED BY <1>1, <1>5, <1>6 DEF FlightOK

\* Every step keeps the calls apart.
LEMMA FlightStep == FlightOK /\ [ListNext]_screenVars => FlightOK'
<1>1. SUFFICES ASSUME FlightOK, [ListNext]_screenVars PROVE FlightOK'
  OBVIOUS
<1>2. CASE UNCHANGED <<flight, loadingCount, broken>>
  BY <1>1, <1>2 DEF FlightOK
<1>3. CASE UNCHANGED screenVars
  BY <1>2, <1>3 DEF screenVars, callVars
<1>4. ASSUME Debounce \/ OpenCreate \/ CloseDialog \/ Confirm \/ Download
             \/ (\E t \in {"", "name"} : Type(t))
             \/ (\E p \in 1..(Cardinality(Items) + 1) : GoTo(p)) \/ (\E d \in Dialogs : OpenRow(d))
      PROVE  FlightOK'
  <2>1. broken' = broken
    BY <1>4 DEF Debounce, OpenCreate, CloseDialog, Confirm, Download, Type, GoTo, OpenRow
  <2>2. UNCHANGED <<flight, loadingCount>> \/ \E call, item, p, t : Begins(call, item, p, t)
    BY <1>4 DEF Debounce, OpenCreate, CloseDialog, Confirm, Download, Type, GoTo, OpenRow,
        Presents, callVars
  <2>3. QED BY <1>1, <1>2, <2>1, <2>2, FlightBegins
<1>5. ASSUME NEW r \in flight, BackendServes(r) \/ BackendFails(r) PROVE FlightOK'
  <2>1. loadingCount' = loadingCount /\ (broken' = broken \/ broken' = broken + 1)
    BY <1>5 DEF BackendServes, BackendFails
  <2>2. \E s, a : flight' = (flight \ {r}) \cup {Becomes(r, s, a)}
    BY <1>1, <1>5, BackendAnswers, BackendFailed
  <2>3. broken' \in Nat
    BY <1>1, <2>1 DEF FlightOK
  <2>4. QED BY <1>1, <2>1, <2>2, <2>3, FlightServed
<1>7. ASSUME NEW r \in flight,
             \/ ListArrives(r) \/ AgentsArrive(r) \/ ChunksArrive(r) \/ Downloaded(r)
             \/ CreateArrives(r) \/ DeleteArrives(r) \/ EditArrives(r)
      PROVE  FlightOK'
  <2>1. broken' = broken
    BY <1>7 DEF ListArrives, AgentsArrive, ChunksArrive, Downloaded, CreateArrives, DeleteArrives,
        EditArrives
  <2>2. EndsOnly(r) \/ \E p, t : EndsAndFetches(r, p, t)
    BY <1>7 DEF ListArrives, AgentsArrive, ChunksArrive, Downloaded, CreateArrives, Created,
        DeleteArrives, EditArrives
  <2>3. QED BY <1>1, <2>1, <2>2, FlightEnds, FlightFetches
<1>8. QED BY <1>1, <1>3, <1>4, <1>5, <1>7 DEF ListNext

\* A form to create is about no row; a list is not refused, nor does it fail
\* while nothing does.
TargetsOK ==
    /\ dialog = "create" => target = NoItem
    /\ \A r \in flight : r.call \in {"create", "list"} => r.item = NoItem
    /\ broken = 0 => \A r \in flight : r.call = "list" => r.step \in {"sent", "ok"}

\* Every step keeps to that.
LEMMA TargetsStep ==
    FlightOK /\ TargetsOK /\ [ListNext]_screenVars => TargetsOK'
<1>1. SUFFICES ASSUME FlightOK, TargetsOK, [ListNext]_screenVars PROVE TargetsOK'
  OBVIOUS
<1>2. ASSUME dialog' = "create" => target' = NoItem, broken' = broken,
             \A x \in flight' :
                x \in flight \/ (x.step = "sent" /\ (x.call \in {"create", "list"} => x.item = NoItem))
      PROVE  TargetsOK'
  BY <1>1, <1>2 DEF TargetsOK
<1>3. CASE UNCHANGED screenVars
  BY <1>1, <1>3 DEF screenVars, callVars, dialogVars, TargetsOK
<1>4. \A call, item, p, t :
         Begins(call, item, p, t) /\ (call \in {"create", "list"} => item = NoItem) =>
            \A x \in flight' :
               x \in flight \/ (x.step = "sent" /\ (x.call \in {"create", "list"} => x.item = NoItem))
  BY CallMade DEF Begins
<1>5. ASSUME Debounce \/ (\E t \in {"", "name"} : Type(t))
             \/ (\E p \in 1..(Cardinality(Items) + 1) : GoTo(p))
      PROVE  TargetsOK'
  <2>1. UNCHANGED <<dialog, target, broken>>
    BY <1>5 DEF Debounce, Type, GoTo, dialogVars
  <2>2. UNCHANGED flight \/ \E p, t : Begins("list", NoItem, p, t)
    BY <1>5 DEF Debounce, Type, GoTo, Presents, callVars
  <2>3. dialog' = "create" => target' = NoItem
    BY <1>1, <2>1 DEF TargetsOK
  <2>4. QED BY <1>2, <1>4, <2>1, <2>2, <2>3
<1>6. ASSUME NEW d \in Dialogs, OpenRow(d) PROVE TargetsOK'
  <2>1. dialog' = d /\ d # "create" /\ broken' = broken
    BY <1>6 DEF OpenRow, Offered
  <2>2. UNCHANGED flight \/ \E i : Begins("chunks", i, page, debounced)
    BY <1>6 DEF OpenRow, callVars
  <2>3. QED BY <1>2, <1>4, <2>1, <2>2
<1>7. CASE OpenCreate \/ CloseDialog
  <2>1. target' = NoItem /\ broken' = broken
    BY <1>7 DEF OpenCreate, CloseDialog
  <2>2. UNCHANGED flight \/ Begins("agents", NoItem, page, debounced)
    BY <1>7 DEF OpenCreate, CloseDialog, callVars
  <2>3. QED BY <1>2, <1>4, <2>1, <2>2
<1>8. CASE Confirm \/ Download
  <2>1. UNCHANGED <<dialog, target, broken>> /\ (dialog' = "create" => target' = NoItem)
    BY <1>1, <1>8 DEF Confirm, Download, dialogVars, TargetsOK
  <2>2. \/ dialog \in Mutations /\ Begins(dialog, target, page, debounced)
        \/ \E i : Begins("download", i, page, debounced)
    BY <1>8 DEF Confirm, Download
  <2>3. dialog \in Mutations => (dialog \in {"create", "list"} => target = NoItem)
    BY <1>1 DEF TargetsOK, Mutations
  <2>4. QED BY <1>2, <1>4, <2>1, <2>2, <2>3
<1>9. ASSUME NEW r \in flight, BackendServes(r) \/ BackendFails(r) PROVE TargetsOK'
  <2>1. PICK s, a : flight' = (flight \ {r}) \cup {Becomes(r, s, a)}
                    /\ (BackendServes(r) => s = IF Accepted(r) THEN "ok" ELSE "refused")
    BY <1>1, <1>9, BackendAnswers, BackendFailed
  <2>2. LET x == Becomes(r, s, a) IN x.call = r.call /\ x.item = r.item /\ x.step = s
    BY DEF Becomes
  <2>3. UNCHANGED <<dialog, target>>
    BY <1>9 DEF BackendServes, BackendFails, dialogVars
  <2>4. broken' = 0 => broken = 0 /\ BackendServes(r)
    <3>1. (BackendServes(r) /\ broken' = broken) \/ broken' = broken + 1
      BY <1>9 DEF BackendServes, BackendFails
    <3>2. broken \in Nat
      BY <1>1 DEF FlightOK
    <3>3. QED BY <3>1, <3>2
  <2>5. r.call = "list" => Accepted(r)
    BY <1>1 DEF TargetsOK, Accepted
  <2>6. broken' = 0 => \A y \in flight' : y.call = "list" => y.step \in {"sent", "ok"}
    BY <1>1, <2>1, <2>2, <2>4, <2>5 DEF TargetsOK
  <2>7. \A y \in flight' : y.call \in {"create", "list"} => y.item = NoItem
    BY <1>1, <2>1, <2>2 DEF TargetsOK
  <2>8. QED BY <1>1, <2>3, <2>6, <2>7 DEF TargetsOK
<1>10. ASSUME NEW r \in flight,
             \/ ListArrives(r) \/ AgentsArrive(r) \/ ChunksArrive(r) \/ Downloaded(r)
             \/ CreateArrives(r) \/ DeleteArrives(r) \/ EditArrives(r)
      PROVE  TargetsOK'
  <2>1. broken' = broken
    BY <1>10 DEF ListArrives, AgentsArrive, ChunksArrive, Downloaded, CreateArrives, DeleteArrives,
        EditArrives
  <2>2. UNCHANGED <<dialog, target>> \/ target' = NoItem
    BY <1>10 DEF ListArrives, AgentsArrive, ChunksArrive, Downloaded, CreateArrives, DeleteArrives,
        EditArrives, dialogVars, Closes
  <2>3. EndsOnly(r) \/ \E p, t : EndsAndFetches(r, p, t)
    BY <1>10 DEF ListArrives, AgentsArrive, ChunksArrive, Downloaded, CreateArrives, Created,
        DeleteArrives, EditArrives
  <2>4. \A x \in flight' : x \in flight
              \/ (x.step = "sent" /\ (x.call \in {"create", "list"} => x.item = NoItem))
    BY <2>3, CallMade DEF EndsOnly, EndsAndFetches
  <2>5. dialog' = "create" => target' = NoItem
    BY <1>1, <2>2 DEF TargetsOK
  <2>6. QED BY <1>2, <2>1, <2>4, <2>5
<1>11. QED BY <1>1, <1>3, <1>5, <1>6, <1>7, <1>8, <1>9, <1>10 DEF ListNext

\* A call of what the page shows now.
Timely(r) == r.page = page /\ r.term = debounced

\* A change of the data is made that the page has yet to fetch the list for.
Overdue == \E r \in flight : r.call \in Mutations /\ r.step = "ok"

\* While calls do not overlap: those in flight are of the page and the term there
\* are, at most one is of the list, and unless a fetch is still to come the one
\* answered, or else the table, has what the backend has.
RowsKept ==
    broken = 0 /\ ~mixed =>
        /\ \A r \in flight : r.call \in Mutations \cup {"list"} => Timely(r)
        /\ \A r, s \in flight : r.call = "list" /\ s.call = "list" => r = s
        /\ ~Overdue =>
              /\ (\A r \in flight : r.call # "list") => shown \in Answers(page, debounced)
              /\ \A r \in flight :
                    r.call = "list" /\ r.step = "ok" => r.answer \in Answers(page, debounced)

\* What the backend may answer hangs on its rows alone.
LEMMA AnswersFrame ==
    ASSUME UNCHANGED <<screen, stored>>
    PROVE  \A p, t : Answers(p, t)' = Answers(p, t)
<1>1. \A t : Found(t)' = Found(t)
  BY DEF Found
<1>2. \A t : Orders(t)' = Orders(t)
  BY <1>1 DEF Orders
<1>3. QED BY <1>2 DEF Answers

\* A step that changes no data and neither fetches nor gets a list.
LEMMA RowsFrame ==
    ASSUME RowsKept, UNCHANGED <<screen, stored, page, debounced, shown>>,
           broken' = 0 => broken = 0, mixed => mixed',
           \A x \in flight' :
              \/ x \in flight
              \/ x.call \notin Mutations \cup {"list"}
              \/ x.call \in Mutations /\ x.step # "ok" /\ (broken = 0 /\ ~mixed => Timely(x)),
           \A x \in flight :
              x.call = "list" \/ (x.call \in Mutations /\ x.step = "ok") => x \in flight'
    PROVE  RowsKept'
<1>1. SUFFICES ASSUME broken = 0, ~mixed PROVE RowsKept'
  BY DEF RowsKept
<1>2. "list" \notin Mutations
  BY DEF Mutations
<1>3. \A x : Timely(x)' <=> Timely(x)
  BY DEF Timely
<1>4. Overdue' <=> Overdue
  BY <1>2 DEF Overdue
<1>5. Answers(page, debounced)' = Answers(page, debounced)
  BY AnswersFrame
<1>6. \A x \in flight' : x.call = "list" => x \in flight
  BY <1>2
<1>7. \A r \in flight' : r.call \in Mutations \cup {"list"} => Timely(r)'
  BY <1>1, <1>2, <1>3 DEF RowsKept
<1>8. \A r, s \in flight' : r.call = "list" /\ s.call = "list" => r = s
  BY <1>1, <1>6 DEF RowsKept
<1>9. ~Overdue' => /\ (\A r \in flight' : r.call # "list") => shown' \in Answers(page, debounced)'
                   /\ \A r \in flight' : r.call = "list" /\ r.step = "ok" =>
                         r.answer \in Answers(page, debounced)'
  BY <1>1, <1>4, <1>5, <1>6 DEF RowsKept
<1>10. QED BY <1>7, <1>8, <1>9 DEF RowsKept

\* The list is fetched while no change and no other fetch is under way; a change
\* that ended may have asked for it.
LEMMA RowsFetched ==
    ASSUME RowsKept,
           broken' = 0 /\ ~mixed' =>
              \E rest, c : /\ flight' = rest \cup {c}
                           /\ c.call = "list" /\ c.step = "sent" /\ Timely(c)'
                           /\ \A x \in rest : x.call # "list"
                           /\ \A x \in rest : x.call \in Mutations => Timely(x)'
    PROVE  RowsKept'
<1>1. SUFFICES ASSUME broken' = 0, ~mixed' PROVE RowsKept'
  BY DEF RowsKept
<1>2. PICK rest, c : /\ flight' = rest \cup {c}
                     /\ c.call = "list" /\ c.step = "sent" /\ Timely(c)'
                     /\ \A x \in rest : x.call # "list"
                     /\ \A x \in rest : x.call \in Mutations => Timely(x)'
  BY <1>1
<1>3. \A r \in flight' : r.call = "list" => r = c
  BY <1>2
<1>4. \A r \in flight' : r.call \in Mutations \cup {"list"} => Timely(r)'
  BY <1>2
<1>5. ~(\A r \in flight' : r.call # "list")
  BY <1>2
<1>6. \A r \in flight' : ~(r.call = "list" /\ r.step = "ok")
  BY <1>2, <1>3
<1>7. \A r, s \in flight' : r.call = "list" /\ s.call = "list" => r = s
  BY <1>3
<1>8. QED BY <1>4, <1>5, <1>6, <1>7 DEF RowsKept

\* The page or the term changes.
LEMMA RowsPresents ==
    ASSUME FlightOK, RowsKept, \E p, t : Presents(p, t),
           UNCHANGED <<screen, stored, shown, broken>>
    PROVE  RowsKept'
<1>1. PICK p, t : Presents(p, t)
  OBVIOUS
<1>2. CASE <<p, t>> = <<page, debounced>>
  <2>1. UNCHANGED <<page, debounced, flight, mixed>>
    BY <1>1, <1>2 DEF Presents, callVars
  <2>2. QED BY <2>1, RowsFrame
<1>3. CASE <<p, t>> # <<page, debounced>>
  <2>1. /\ page' = p /\ debounced' = t /\ flight' = flight \cup {Call("list", NoItem, p, t, flight)}
        /\ mixed' = (mixed \/ InFlight(Mutations \cup {"list"}) # {})
    BY <1>1, <1>3 DEF Presents, Begins
  <2>2. ~mixed' => \A x \in flight : x.call \notin Mutations \cup {"list"}
    BY <2>1 DEF InFlight
  <2>3. PICK c : /\ flight' = flight \cup {c}
                 /\ c.call = "list" /\ c.step = "sent" /\ c.page = page' /\ c.term = debounced'
    BY <2>1, CallMade
  <2>4. QED BY <2>2, <2>3, RowsFetched DEF Timely
<1>4. QED BY <1>2, <1>3

\* What is refused changes nothing, nor does what only reads.
LEMMA EffectFrame ==
    ASSUME TargetsOK, NEW r \in flight, r.call \notin Mutations \/ ~Accepted(r)
    PROVE  Effect(r) = stored
<1>1. CASE r.call \notin Mutations
  BY <1>1 DEF Mutations, Effect
<1>2. CASE ~Accepted(r)
  <2>1. r.call # "create" /\ \A x \in stored : x.item # r.item
    BY <1>2 DEF TargetsOK, Accepted
  <2>2. {x \in stored : x.item # r.item} = stored
    BY <2>1
  <2>3. {IF x.item = r.item THEN [x EXCEPT !.version = inputs] ELSE x : x \in stored} = stored
    BY <2>1
  <2>4. QED BY <2>1, <2>2, <2>3 DEF Effect
<1>3. QED BY <1>1, <1>2

\* The backend answers.
LEMMA RowsServed ==
    ASSUME FlightOK, TargetsOK, RowsKept, NEW r \in flight, BackendServes(r)
    PROVE  RowsKept'
<1>1. PICK s, a : /\ s = IF Accepted(r) THEN "ok" ELSE "refused"
                  /\ flight' = (flight \ {r}) \cup {Becomes(r, s, a)}
                  /\ r.call = "list" => a \in Answers(r.page, r.term)
  BY BackendAnswers
<1>2. PICK x : /\ flight' = (flight \ {r}) \cup {x}
               /\ x.call = r.call /\ x.page = r.page /\ x.term = r.term
               /\ x.step = s /\ x.answer = a
  <2>1. LET x == Becomes(r, s, a) IN
          /\ x.call = r.call /\ x.page = r.page /\ x.term = r.term
          /\ x.step = s /\ x.answer = a
    BY DEF Becomes
  <2>2. QED BY <1>1, <2>1
<1>3. UNCHANGED <<screen, page, debounced, shown, broken, mixed>> /\ r.step = "sent"
      /\ stored' = Effect(r)
  BY DEF BackendServes, queryVars, Applies
<1>4. SUFFICES ASSUME broken = 0, ~mixed PROVE RowsKept'
  BY <1>3 DEF RowsKept
<1>5. CASE r.call = "list"
  <2>1. Accepted(r) /\ r.call \notin Mutations
    BY <1>5 DEF TargetsOK, Accepted, Mutations
  <2>2. stored' = stored
    BY <1>3, <2>1, EffectFrame
  <2>3. r.page = page /\ r.term = debounced /\ \A y \in flight : y.call = "list" => y = r
    BY <1>4, <1>5 DEF RowsKept, Timely
  <2>4. a \in Answers(page, debounced)'
    BY <1>1, <1>3, <1>5, <2>2, <2>3, AnswersFrame
  <2>5. \A y \in flight' : y.call = "list" => y = x
    BY <1>2, <2>3
  <2>6. \A y \in flight' : y.call \in Mutations \cup {"list"} => Timely(y)'
    BY <1>2, <1>3, <1>4, <2>3 DEF RowsKept, Timely
  <2>7. ~(\A y \in flight' : y.call # "list")
    BY <1>2, <1>5
  <2>8. \A y \in flight' : y.call = "list" /\ y.step = "ok" => y.answer \in Answers(page, debounced)'
    BY <1>2, <2>4, <2>5
  <2>9. \A y, z \in flight' : y.call = "list" /\ z.call = "list" => y = z
    BY <2>5
  <2>10. QED BY <2>6, <2>7, <2>8, <2>9 DEF RowsKept
<1>6. CASE r.call \in Mutations /\ Accepted(r)
  <2>1. Overdue'
    BY <1>1, <1>2, <1>6 DEF Overdue
  <2>2. Timely(x)' /\ x.call # "list"
    BY <1>2, <1>3, <1>4, <1>6 DEF RowsKept, Timely, Mutations
  <2>3. \A y \in flight' : y.call \in Mutations \cup {"list"} => Timely(y)'
    BY <1>2, <1>3, <1>4, <2>2 DEF RowsKept, Timely
  <2>4. \A y, z \in flight' : y.call = "list" /\ z.call = "list" => y = z
    BY <1>2, <1>4, <2>2 DEF RowsKept
  <2>5. QED BY <2>1, <2>3, <2>4 DEF RowsKept
<1>7. CASE r.call # "list" /\ (r.call \notin Mutations \/ ~Accepted(r))
  <2>1. stored' = stored
    BY <1>3, <1>7, EffectFrame
  <2>2. r.call \in Mutations => s # "ok" /\ Timely(x)
    BY <1>1, <1>2, <1>4, <1>7 DEF RowsKept, Timely
  <2>3. \A y \in flight' :
              \/ y \in flight
              \/ y.call \notin Mutations \cup {"list"}
              \/ y.call \in Mutations /\ y.step # "ok" /\ (broken = 0 /\ ~mixed => Timely(y))
    BY <1>2, <1>7, <2>2
  <2>4. \A y \in flight :
              y.call = "list" \/ (y.call \in Mutations /\ y.step = "ok") => y \in flight'
    BY <1>2, <1>3, <1>7
  <2>5. QED BY <1>3, <2>1, <2>3, <2>4, RowsFrame
<1>8. QED BY <1>5, <1>6, <1>7

\* The list comes in.
LEMMA RowsListed ==
    ASSUME FlightOK, TargetsOK, RowsKept, NEW r \in flight, ListArrives(r)
    PROVE  RowsKept'
<1>1. /\ UNCHANGED <<screen, stored, page, debounced, broken, mixed>>
      /\ r.call = "list" /\ r.step # "sent" /\ flight' = flight \ {r}
      /\ shown' = IF r.step = "ok" THEN r.answer ELSE shown
  BY DEF ListArrives, EndsOnly, queryVars
<1>2. SUFFICES ASSUME broken = 0, ~mixed PROVE RowsKept'
  BY <1>1 DEF RowsKept
<1>3. shown' = r.answer
  BY <1>1, <1>2 DEF TargetsOK
<1>4. Answers(page, debounced)' = Answers(page, debounced) /\ \A y : Timely(y)' <=> Timely(y)
  BY <1>1, AnswersFrame DEF Timely
<1>5. Overdue' <=> Overdue
  BY <1>1 DEF Overdue, Mutations
<1>6. \A y \in flight' : y.call # "list"
  BY <1>1, <1>2 DEF RowsKept
<1>7. ~Overdue' => shown' \in Answers(page, debounced)'
  BY <1>1, <1>2, <1>3, <1>4, <1>5, TargetsOK DEF RowsKept, TargetsOK
<1>8. \A y \in flight' : y.call \in Mutations \cup {"list"} => Timely(y)'
  BY <1>1, <1>2, <1>4 DEF RowsKept
<1>9. QED BY <1>6, <1>7, <1>8 DEF RowsKept

\* A change is answered: the list is fetched after one that was made.
LEMMA RowsChanged ==
    ASSUME FlightOK, RowsKept, NEW r \in flight,
           CreateArrives(r) \/ DeleteArrives(r) \/ EditArrives(r)
    PROVE  RowsKept'
<1>1. UNCHANGED <<screen, stored, debounced, shown, broken>> /\ r.call \in Mutations
  BY DEF CreateArrives, DeleteArrives, EditArrives, queryVars, Mutations
<1>2. \/ EndsOnly(r) /\ UNCHANGED page /\ (r.step # "ok" \/ page # r.page)
      \/ EndsAndFetches(r, r.page, r.term) /\ UNCHANGED page
      \/ EndsAndFetches(r, 1, debounced) /\ page' = 1
  <2>1. CASE CreateArrives(r)
    BY <2>1 DEF CreateArrives, Created
  <2>2. CASE DeleteArrives(r) \/ EditArrives(r)
    BY <2>2 DEF DeleteArrives, EditArrives, queryVars
  <2>3. QED BY <2>1, <2>2
<1>3. CASE EndsOnly(r) /\ UNCHANGED page /\ r.step # "ok"
  <2>1. flight' = flight \ {r} /\ UNCHANGED mixed
    BY <1>3 DEF EndsOnly
  <2>2. QED BY <1>1, <1>3, <2>1, RowsFrame DEF Mutations
<1>4. ASSUME NEW p, NEW t, EndsAndFetches(r, p, t),
             (p = r.page /\ t = r.term /\ UNCHANGED page) \/ (page' = p /\ t = debounced)
      PROVE  RowsKept'
  <2>0. PICK rest, c : rest = flight \ {r} /\ c = Call("list", NoItem, p, t, rest)
    OBVIOUS
  <2>1. /\ rest = flight \ {r} /\ flight' = rest \cup {c}
        /\ c.call = "list" /\ c.step = "sent" /\ c.page = p /\ c.term = t
    BY <1>4, <2>0, CallMade DEF EndsAndFetches
  <2>2. mixed' = (mixed \/ \E x \in rest : x.call = "list" \/ (p # page /\ x.call \in Mutations))
    BY <1>4, <2>1 DEF EndsAndFetches
  <2>3. SUFFICES ASSUME broken' = 0, ~mixed' PROVE RowsKept'
    BY DEF RowsKept
  <2>4. broken = 0 /\ ~mixed /\ \A x \in rest : x.call # "list" /\ (x.call \in Mutations => p = page)
    BY <1>1, <2>2, <2>3
  <2>5. r.page = page /\ r.term = debounced
    BY <1>1, <2>4 DEF RowsKept, Timely
  <2>6. page' = p /\ debounced' = t
    BY <1>1, <1>4, <2>5
  <2>7. \A x \in rest : x.call \in Mutations => Timely(x)'
    BY <1>1, <2>1, <2>4, <2>6 DEF RowsKept, Timely
  <2>8. QED BY <2>1, <2>4, <2>6, <2>7, RowsFetched DEF Timely
<1>5. CASE EndsOnly(r) /\ UNCHANGED page /\ page # r.page
  <2>1. broken # 0 \/ mixed
    BY <1>1, <1>5 DEF RowsKept, Timely
  <2>2. QED BY <1>1, <1>5, <2>1 DEF EndsOnly, RowsKept
<1>6. QED BY <1>2, <1>3, <1>4, <1>5

\* A call begins that is not for the list.
LEMMA RowsBegins ==
    ASSUME RowsKept, UNCHANGED <<screen, stored, page, debounced, shown, broken>>, mixed => mixed',
           \E call, i : Begins(call, i, page, debounced) /\ call # "list"
    PROVE  RowsKept'
<1>1. PICK call, i : Begins(call, i, page, debounced) /\ call # "list"
  OBVIOUS
<1>2. PICK c : c = Call(call, i, page, debounced, flight)
  OBVIOUS
<1>3. /\ flight' = flight \cup {c} /\ c.call # "list" /\ c.step = "sent"
      /\ c.page = page /\ c.term = debounced
  BY <1>1, <1>2, CallMade DEF Begins
<1>4. QED BY <1>3, RowsFrame DEF Timely

\* What the user does and what goes no further than a dialog.
LEMMA RowsElsewhere ==
    ASSUME FlightOK, RowsKept,
           \/ \E t \in {"", "name"} : Type(t)
           \/ \E d \in Dialogs : OpenRow(d)
           \/ OpenCreate \/ CloseDialog \/ Confirm \/ Download
           \/ \E r \in flight : AgentsArrive(r) \/ ChunksArrive(r) \/ Downloaded(r)
    PROVE  RowsKept'
<1>1. ASSUME UNCHANGED <<screen, stored, page, debounced, shown, broken>>, mixed => mixed',
             \/ UNCHANGED flight
             \/ \E call, i : Begins(call, i, page, debounced) /\ call # "list"
             \/ \E r \in flight : flight' = flight \ {r} /\ r.call \notin Mutations \cup {"list"}
      PROVE  RowsKept'
  <2>1. CASE UNCHANGED flight
    BY <1>1, <2>1, RowsFrame
  <2>2. CASE \E call, i : Begins(call, i, page, debounced) /\ call # "list"
    BY <1>1, <2>2, RowsBegins
  <2>3. ASSUME NEW r \in flight, flight' = flight \ {r}, r.call \notin Mutations \cup {"list"}
        PROVE  RowsKept'
    BY <1>1, <2>3, RowsFrame
  <2>4. QED BY <1>1, <2>1, <2>2, <2>3
<1>2. CASE CloseDialog \/ \E t \in {"", "name"} : Type(t)
  <2>1. /\ UNCHANGED <<screen, stored, page, debounced, shown, broken>>
        /\ UNCHANGED flight /\ UNCHANGED mixed
    BY <1>2 DEF CloseDialog, Type, queryVars, callVars
  <2>2. QED BY <1>1, <2>1
<1>3. ASSUME NEW d \in Dialogs, OpenRow(d) PROVE RowsKept'
  <2>1. UNCHANGED <<screen, stored, page, debounced, shown, broken>>
    BY <1>3 DEF OpenRow, queryVars
  <2>2. PICK x : \/ UNCHANGED callVars
                 \/ Begins("chunks", x.item, page, debounced) /\ (mixed => mixed')
    BY <1>3 DEF OpenRow
  <2>3. "chunks" # "list"
    OBVIOUS
  <2>4. CASE UNCHANGED callVars
    BY <1>1, <2>1, <2>4 DEF callVars
  <2>5. CASE Begins("chunks", x.item, page, debounced) /\ (mixed => mixed')
    BY <1>1, <2>1, <2>3, <2>5
  <2>6. QED BY <2>2, <2>4, <2>5
<1>4. CASE OpenCreate
  <2>1. UNCHANGED <<screen, stored, page, debounced, shown, broken>> /\ UNCHANGED mixed
    BY <1>4 DEF OpenCreate, queryVars, callVars
  <2>2. UNCHANGED flight \/ Begins("agents", NoItem, page, debounced)
    BY <1>4 DEF OpenCreate, callVars
  <2>3. "agents" # "list"
    OBVIOUS
  <2>4. QED BY <1>1, <2>1, <2>2, <2>3
<1>5. CASE Confirm
  <2>1. UNCHANGED <<screen, stored, page, debounced, shown, broken>> /\ UNCHANGED mixed
    BY <1>5 DEF Confirm, queryVars
  <2>2. Begins(dialog, target, page, debounced) /\ dialog # "list"
    BY <1>5 DEF Confirm, Mutations
  <2>3. QED BY <1>1, <2>1, <2>2
<1>6. CASE Download
  <2>1. UNCHANGED <<screen, stored, page, debounced, shown, broken>> /\ UNCHANGED mixed
    BY <1>6 DEF Download, queryVars
  <2>2. \E i : Begins("download", i, page, debounced)
    BY <1>6 DEF Download
  <2>3. "download" # "list"
    OBVIOUS
  <2>4. QED BY <1>1, <2>1, <2>2, <2>3
<1>7. ASSUME NEW r \in flight, AgentsArrive(r) \/ ChunksArrive(r) \/ Downloaded(r) PROVE RowsKept'
  <2>1. UNCHANGED <<screen, stored, page, debounced, shown, broken>> /\ EndsOnly(r)
    BY <1>7 DEF AgentsArrive, ChunksArrive, Downloaded, queryVars
  <2>2. r.call \notin Mutations \cup {"list"}
    BY <1>7 DEF AgentsArrive, ChunksArrive, Downloaded, Mutations
  <2>3. QED BY <1>1, <2>1, <2>2 DEF EndsOnly
<1>8. QED BY <1>2, <1>3, <1>4, <1>5, <1>6, <1>7

\* Every step keeps what is known of the rows.
LEMMA RowsStep ==
    FlightOK /\ TargetsOK /\ RowsKept /\ [ListNext]_screenVars => RowsKept'
<1>1. SUFFICES ASSUME FlightOK, TargetsOK, RowsKept, [ListNext]_screenVars PROVE RowsKept'
  OBVIOUS
<1>2. ASSUME UNCHANGED screenVars, UNCHANGED mixed PROVE RowsKept'
  BY <1>1, <1>2, RowsFrame DEF screenVars, queryVars, callVars
<1>3. ASSUME Debounce \/ \E p \in 1..(Cardinality(Items) + 1) : GoTo(p) PROVE RowsKept'
  <2>1. UNCHANGED <<screen, stored, shown, broken>> /\ \E p, t : Presents(p, t)
    BY <1>3 DEF Debounce, GoTo
  <2>2. QED BY <1>1, <2>1, RowsPresents
<1>4. ASSUME NEW r \in flight, BackendFails(r) PROVE RowsKept'
  <2>1. broken' = broken + 1 /\ broken \in Nat
    BY <1>1, <1>4 DEF BackendFails, FlightOK
  <2>2. QED BY <2>1 DEF RowsKept
<1>5. QED BY <1>1, <1>2, <1>3, <1>4, RowsServed, RowsListed, RowsChanged, RowsElsewhere
    DEF ListNext, screenVars, callVars

\* The dialog of the chunks has those of its document or is about to get them.
ChunksKept ==
    /\ ~mixed /\ dialog = "chunks" =>
          /\ chunks \in {NoItem, target}
          /\ \A r \in flight : r.call = "chunks" => r.item = target
    /\ chunksLoading => \E r \in flight : r.call = "chunks"

\* A step that neither asks for chunks nor gets some.
LEMMA ChunksFrame ==
    ASSUME ChunksKept, UNCHANGED <<chunks, chunksLoading>>, mixed => mixed',
           UNCHANGED <<dialog, target>> \/ dialog' # "chunks",
           \A x \in flight' : x.call = "chunks" =>
              \E y \in flight : y.call = "chunks" /\ y.item = x.item,
           \A y \in flight : y.call = "chunks" => \E x \in flight' : x.call = "chunks"
    PROVE  ChunksKept'
BY DEF ChunksKept

\* Every step keeps what is known of the chunks.
LEMMA ChunksStep == FlightOK /\ ChunksKept /\ [ListNext]_screenVars => ChunksKept'
<1>1. SUFFICES ASSUME FlightOK, ChunksKept, [ListNext]_screenVars PROVE ChunksKept'
  OBVIOUS
<1>2. ASSUME UNCHANGED <<chunks, chunksLoading>>, mixed => mixed',
             UNCHANGED <<dialog, target>> \/ dialog' # "chunks",
             \/ UNCHANGED flight
             \/ \E call, i, p, t : Begins(call, i, p, t) /\ call # "chunks"
      PROVE  ChunksKept'
  <2>1. CASE UNCHANGED flight
    BY <1>1, <1>2, <2>1, ChunksFrame
  <2>2. ASSUME NEW call, NEW i, NEW p, NEW t, Begins(call, i, p, t), call # "chunks"
        PROVE  ChunksKept'
    <3>1. PICK c : c = Call(call, i, p, t, flight)
      OBVIOUS
    <3>2. flight' = flight \cup {c} /\ c.call # "chunks"
      BY <2>2, <3>1, CallMade DEF Begins
    <3>3. QED BY <1>1, <1>2, <3>2, ChunksFrame
  <2>3. QED BY <1>2, <2>1, <2>2
<1>3. ASSUME UNCHANGED screenVars PROVE ChunksKept'
  BY <1>1, <1>3 DEF ChunksKept, screenVars, callVars, dialogVars
<1>4. ASSUME Debounce \/ (\E t \in {"", "name"} : Type(t))
             \/ (\E p \in 1..(Cardinality(Items) + 1) : GoTo(p))
      PROVE  ChunksKept'
  <2>1. UNCHANGED <<chunks, chunksLoading, dialog, target>> /\ (mixed => mixed')
    BY <1>4 DEF Debounce, Type, GoTo, dialogVars, callVars, Presents
  <2>2. UNCHANGED flight \/ \E p, t : Begins("list", NoItem, p, t)
    BY <1>4 DEF Debounce, Type, GoTo, Presents, callVars
  <2>3. "list" # "chunks"
    OBVIOUS
  <2>4. QED BY <1>2, <2>1, <2>2, <2>3
<1>5. ASSUME NEW d \in Dialogs, OpenRow(d) PROVE ChunksKept'
  <2>1. CASE d # "chunks"
    <3>1. UNCHANGED <<chunks, chunksLoading, flight, mixed>> /\ dialog' # "chunks"
      BY <1>5, <2>1 DEF OpenRow, callVars
    <3>2. QED BY <1>2, <3>1
  <2>2. CASE d = "chunks"
    <3>1. PICK x : /\ target' = x.item /\ chunks' = NoItem
                   /\ Begins("chunks", x.item, page, debounced)
                   /\ mixed' = (mixed \/ InFlight({"chunks"}) # {})
      BY <1>5, <2>2 DEF OpenRow
    <3>2. PICK c : c = Call("chunks", x.item, page, debounced, flight)
      OBVIOUS
    <3>3. flight' = flight \cup {c} /\ c.call = "chunks" /\ c.item = target'
      BY <3>1, <3>2, CallMade DEF Begins
    <3>4. ~mixed' => \A y \in flight : y.call # "chunks"
      BY <3>1 DEF InFlight
    <3>5. QED BY <3>1, <3>3, <3>4 DEF ChunksKept
  <2>3. QED BY <2>1, <2>2
<1>6. CASE OpenCreate
  <2>1. UNCHANGED <<chunks, chunksLoading, mixed>> /\ dialog' # "chunks"
    BY <1>6 DEF OpenCreate, callVars
  <2>2. UNCHANGED flight \/ Begins("agents", NoItem, page, debounced)
    BY <1>6 DEF OpenCreate, callVars
  <2>3. "agents" # "chunks"
    OBVIOUS
  <2>4. QED BY <1>2, <2>1, <2>2, <2>3
<1>7. CASE CloseDialog
  <2>1. UNCHANGED <<chunks, chunksLoading, mixed, flight>> /\ dialog' # "chunks"
    BY <1>7 DEF CloseDialog, callVars
  <2>2. QED BY <1>2, <2>1
<1>8. CASE Confirm
  <2>1. UNCHANGED <<chunks, chunksLoading, mixed, dialog, target>>
    BY <1>8 DEF Confirm, dialogVars
  <2>2. Begins(dialog, target, page, debounced) /\ dialog # "chunks"
    BY <1>8 DEF Confirm, Mutations
  <2>3. QED BY <1>2, <2>1, <2>2
<1>9. CASE Download
  <2>1. UNCHANGED <<chunks, chunksLoading, mixed, dialog, target>>
    BY <1>9 DEF Download, dialogVars
  <2>2. \E i : Begins("download", i, page, debounced)
    BY <1>9 DEF Download
  <2>3. "download" # "chunks"
    OBVIOUS
  <2>4. QED BY <1>2, <2>1, <2>2, <2>3
<1>10. ASSUME NEW r \in flight, BackendServes(r) \/ BackendFails(r) PROVE ChunksKept'
  <2>1. UNCHANGED <<chunks, chunksLoading, mixed, dialog, target>>
    BY <1>10 DEF BackendServes, BackendFails, dialogVars
  <2>2. PICK s, a : flight' = (flight \ {r}) \cup {Becomes(r, s, a)}
    BY <1>1, <1>10, BackendAnswers, BackendFailed
  <2>3. Becomes(r, s, a).call = r.call /\ Becomes(r, s, a).item = r.item
    BY DEF Becomes
  <2>4. PICK x : flight' = (flight \ {r}) \cup {x} /\ x.call = r.call /\ x.item = r.item
    BY <2>2, <2>3
  <2>5. QED BY <1>1, <2>1, <2>4, ChunksFrame
<1>11. ASSUME NEW r \in flight, ChunksArrive(r) PROVE ChunksKept'
  <2>1. /\ flight' = flight \ {r} /\ UNCHANGED <<dialog, target, mixed>>
        /\ chunks' = (IF r.step = "ok" THEN r.item ELSE chunks) /\ chunksLoading' = FALSE
        /\ r.call = "chunks"
    BY <1>11 DEF ChunksArrive, EndsOnly
  <2>2. QED BY <1>1, <2>1 DEF ChunksKept
<1>12. ASSUME NEW r \in flight,
              \/ ListArrives(r) \/ AgentsArrive(r) \/ Downloaded(r)
              \/ CreateArrives(r) \/ DeleteArrives(r) \/ EditArrives(r)
       PROVE  ChunksKept'
  <2>1. UNCHANGED <<chunks, chunksLoading>> /\ r.call # "chunks"
    BY <1>12 DEF ListArrives, AgentsArrive, Downloaded, CreateArrives, DeleteArrives, EditArrives,
        dialogVars
  <2>2. UNCHANGED <<dialog, target>> \/ dialog' # "chunks"
    BY <1>12 DEF ListArrives, AgentsArrive, Downloaded, CreateArrives, DeleteArrives, EditArrives,
        dialogVars, Closes
  <2>3. EndsOnly(r) \/ \E p, t : EndsAndFetches(r, p, t)
    BY <1>12 DEF ListArrives, AgentsArrive, Downloaded, CreateArrives, Created, DeleteArrives,
        EditArrives
  <2>4. CASE EndsOnly(r)
    BY <1>1, <2>1, <2>2, <2>4, ChunksFrame DEF EndsOnly
  <2>5. ASSUME NEW p, NEW t, EndsAndFetches(r, p, t) PROVE ChunksKept'
    <3>1. PICK c : c = Call("list", NoItem, p, t, flight \ {r})
      OBVIOUS
    <3>2. flight' = (flight \ {r}) \cup {c} /\ (mixed => mixed')
      BY <2>5, <3>1 DEF EndsAndFetches
    <3>3. c.call = "list"
      BY <3>1, CallMade
    <3>4. QED BY <1>1, <2>1, <2>2, <3>2, <3>3, ChunksFrame
  <2>6. QED BY <2>3, <2>4, <2>5
<1>13. QED BY <1>1, <1>3, <1>4, <1>5, <1>6, <1>7, <1>8, <1>9, <1>10, <1>11, <1>12 DEF ListNext

ListInv == FlightOK /\ TargetsOK /\ RowsKept /\ ChunksKept

\* The mount has the list, and on the page of the embeddings the agents, in flight.
LEMMA ListInitInv == ListInit => ListInv
<1>1. SUFFICES ASSUME ListInit PROVE ListInv
  OBVIOUS
<1>2. PICK l : l = Call("list", NoItem, 1, "", {})
  OBVIOUS
<1>3. PICK a : a = Call("agents", NoItem, 1, "", {l})
  OBVIOUS
<1>4. /\ flight = (IF screen = "embeddings" THEN {l, a} ELSE {l})
      /\ loadingCount \in {0, Cardinality(flight)}
      /\ page = 1 /\ debounced = "" /\ dialog = "none" /\ chunksLoading = FALSE /\ broken = 0
  BY <1>1, <1>2, <1>3 DEF ListInit
<1>5. /\ IsFiniteSet({}) /\ Cardinality({}) = 0
      /\ IsFiniteSet({l}) /\ Cardinality({l}) = 1
  BY FS_EmptySet, FS_Singleton
<1>6. MaxFlight \in Nat /\ 1 < MaxFlight
  BY ListAssumption
<1> DEFINE Made(c) == c = [id |-> c.id, call |-> c.call, item |-> c.item, page |-> c.page,
                           term |-> c.term, step |-> c.step, answer |-> c.answer]
<1>7. /\ l.call = "list" /\ l.item = NoItem /\ l.step = "sent" /\ l.page = 1 /\ l.term = ""
      /\ l.id \in 1..MaxFlight
      /\ Made(l)
  <2>1. IsFiniteSet({}) /\ Cardinality({}) < MaxFlight
    BY <1>5, <1>6
  <2>2. PICK k, i, p, t : k = "list" /\ i = NoItem /\ p = 1 /\ t = ""
    OBVIOUS
  <2>3. l = Call(k, i, p, t, {})
    BY <1>2, <2>2
  <2>4. /\ l.id \in 1..MaxFlight /\ Made(l) /\ l.step = "sent"
        /\ l.call = k /\ l.item = i /\ l.page = p /\ l.term = t
    BY <2>1, <2>3, CallMade
  <2>5. QED BY <2>2, <2>4
<1>8. /\ a.call = "agents" /\ a.item = NoItem
      /\ a.id \in 1..MaxFlight /\ l.id # a.id
      /\ Made(a)
  <2>1. IsFiniteSet({l}) /\ Cardinality({l}) < MaxFlight
    BY <1>5, <1>6
  <2>2. PICK k, i, p, t : k = "agents" /\ i = NoItem /\ p = 1 /\ t = ""
    OBVIOUS
  <2>3. a = Call(k, i, p, t, {l})
    BY <1>3, <2>2
  <2>4. /\ a.call = k /\ a.item = i
        /\ a.id \in 1..MaxFlight /\ \A r \in {l} : r.id # a.id
    BY <2>1, <2>3, CallMade
  <2>5. Made(a)
    BY <2>3, CallMade
  <2>6. QED BY <2>2, <2>4, <2>5
<1>9. IsFiniteSet({l, a}) /\ Cardinality({l, a}) = 2
  <2>1. {l, a} = {l} \cup {a} /\ a \notin {l}
    BY <1>8
  <2>2. IsFiniteSet({l} \cup {a}) /\ Cardinality({l} \cup {a}) = Cardinality({l}) + 1
    BY <1>5, <2>1, FS_AddElement
  <2>3. QED BY <1>5, <2>1, <2>2
<1>10. FlightOK
  <2>1. IsFiniteSet(flight) /\ Cardinality(flight) \in {1, 2}
    BY <1>4, <1>5, <1>9
  <2>2. /\ Cardinality(flight) <= MaxFlight
        /\ loadingCount \in Nat /\ loadingCount <= Cardinality(flight)
    <3>1. PICK n \in {1, 2} : n = Cardinality(flight)
      BY <2>1
    <3>2. n <= MaxFlight /\ \A k \in {0, n} : k \in Nat /\ k <= n
      BY <1>6
    <3>3. QED BY <1>4, <3>1, <3>2
  <2>3. /\ \A r \in flight :
              /\ r.id \in 1..MaxFlight
              /\ r = [id |-> r.id, call |-> r.call, item |-> r.item, page |-> r.page,
                      term |-> r.term, step |-> r.step, answer |-> r.answer]
        /\ \A r, s \in flight : r.id = s.id => r = s
    BY <1>4, <1>7, <1>8
  <2>4. QED BY <1>4, <2>1, <2>2, <2>3 DEF FlightOK
<1>11. TargetsOK /\ ChunksKept
  BY <1>4, <1>7, <1>8 DEF TargetsOK, ChunksKept
<1>12. RowsKept
  BY <1>4, <1>7, <1>8 DEF RowsKept, Timely, Mutations
<1>13. QED BY <1>10, <1>11, <1>12 DEF ListInv

\* When every call is answered the overlay is gone, and unless calls overlapped
\* or failed the table and the dialog show what the backend has.
THEOREM PageSettlesHolds == ListSpec => []PageSettles
<1>1. ListInv /\ [ListNext]_screenVars => ListInv'
  BY FlightStep, TargetsStep, RowsStep, ChunksStep DEF ListInv
<1>2. ListInv => PageSettles
  <2>1. SUFFICES ASSUME ListInv, flight = {} PROVE PageSettles
    BY DEF PageSettles
  <2>2. loadingCount = 0
    <3>1. Cardinality(flight) = 0
      BY <2>1, FS_EmptySet
    <3>2. QED BY <2>1, <3>1 DEF ListInv, FlightOK
  <2>3. broken = 0 /\ ~mixed => shown \in Answers(page, debounced)
    BY <2>1 DEF ListInv, RowsKept, Overdue
  <2>4. ~mixed /\ dialog = "chunks" => ~chunksLoading /\ chunks \in {NoItem, target}
    BY <2>1 DEF ListInv, ChunksKept
  <2>5. QED BY <2>2, <2>3, <2>4 DEF PageSettles
<1>3. QED BY <1>1, <1>2, ListInitInv, PTL DEF ListSpec

--------------------------------------------------------------------------------
(* The types of the tables.                                                  *)

\* What the backend may answer: a page of one row, and how many there are.
Tabled == {a \in [rows : Seq(Rows), total : 0..Cardinality(Items)] : Len(a.rows) <= 1}

PageNumbers == 1..(Cardinality(Items) + 1)

\* Items are created in the order of their numbers.
TableTyped ==
    /\ stored \subseteq Rows /\ born \in 0..Cardinality(Items)
    /\ \A x \in stored : x.item <= born
    /\ \A x, y \in stored : x.item = y.item => x = y

CallTyped(r) == r.item \in Items \cup {NoItem} /\ r.page \in PageNumbers /\ r.answer \in Tabled

\* One form of creation is submitted at a time, and for an item there is room for.
CallsTyped ==
    /\ \A r \in flight : CallTyped(r)
    /\ \A r, s \in flight : r.call = "create" /\ s.call = "create" => r = s
    /\ \A r \in flight : r.call = "create" /\ r.step = "sent" => born < Cardinality(Items)

ScreenTyped ==
    /\ screen \in Tables /\ page \in PageNumbers /\ {search, debounced} \subseteq {"", "name"}
    /\ shown \in Tabled
    /\ dialog \in Dialogs /\ {target, chunks} \subseteq Items \cup {NoItem}
    /\ {timer, chunksLoading, agentsKnown, mixed} \subseteq BOOLEAN
    /\ inputs \in 0..MaxInputs /\ broken \in 0..MaxBroken

ListTyped == FlightOK /\ TableTyped /\ CallsTyped /\ ScreenTyped

LEMMA ListNumbers ==
    /\ Cardinality(Items) \in Nat /\ Cardinality(Items) >= 2 /\ Items = 1..Cardinality(Items)
    /\ MaxInputs \in Nat /\ MaxBroken \in Nat /\ MaxFlight \in Nat /\ NoItem = 0
    /\ Empty \in Tabled /\ 1 \in PageNumbers
<1>1. /\ Cardinality(Items) \in Nat /\ Cardinality(Items) >= 2 /\ Items = 1..Cardinality(Items)
      /\ MaxInputs \in Nat /\ MaxBroken \in Nat /\ MaxFlight \in Nat /\ NoItem = 0
  BY ListAssumption DEF NoItem
<1>2. Empty \in Tabled BY <1>1 DEF Empty, Tabled
<1> QED BY <1>1, <1>2 DEF PageNumbers

\* The answers of the backend are pages of its table.
LEMMA AnswersTyped ==
    ASSUME TableTyped, NEW p \in PageNumbers, NEW t
    PROVE  Answers(p, t) \subseteq Tabled
<1>0. Cardinality(Items) \in Nat BY ListNumbers
<1>1. Found(t) \subseteq stored BY DEF Found
<1>2. IsFiniteSet(Found(t)) /\ Cardinality(Found(t)) \in 0..Cardinality(Items)
  <2> DEFINE f == [x \in Found(t) |-> x.item]
  <2>1. \A x \in Found(t) : x.item \in 1..Cardinality(Items)
    BY <1>1, ListNumbers DEF TableTyped, Rows
  <2>2. f \in Injection(Found(t), 1..Cardinality(Items))
    BY <1>1, <2>1 DEF TableTyped, Injection, IsInjective
  <2>3. IsFiniteSet(1..Cardinality(Items)) /\ Cardinality(1..Cardinality(Items)) = Cardinality(Items)
    BY <1>0, ListNumbers, FS_Interval
  <2> HIDE DEF f
  <2>4. IsFiniteSet(Found(t)) /\ Cardinality(Found(t)) <= Cardinality(1..Cardinality(Items))
    BY <2>2, <2>3, FS_Injection
  <2>5. Cardinality(Found(t)) \in Nat BY <2>4, FS_CardinalityType
  <2> QED BY <1>0, <2>3, <2>4, <2>5
<1>3. ASSUME NEW all \in Orders(t)
      PROVE  [rows |-> SubSeq(all, p, IF p > Len(all) THEN Len(all) ELSE p), total |-> Len(all)] \in Tabled
  <2>1. PICK n \in 0..Cardinality(Items) : n = Cardinality(Found(t)) BY <1>2
  <2>2. all \in [1..n -> Found(t)] BY <2>1 DEF Orders, SetToSeqs
  <2>3. n \in Nat BY <1>0, <2>1
  <2>4. Len(all) = n BY <2>2, <2>3
  <2>5. \A i \in 1..n : all[i] \in Rows BY <1>1, <2>2 DEF TableTyped
  <2>6. PICK m : m = IF p > n THEN n ELSE p OBVIOUS
  <2>7. p \in Int /\ p >= 1 /\ m \in Int /\ m <= n /\ m <= p
    BY <1>0, <2>3, <2>6 DEF PageNumbers
  <2>8. \A i \in p..m : all[i] \in Rows BY <2>3, <2>5, <2>7
  <2>9. SubSeq(all, p, m) \in Seq(Rows) /\ Len(SubSeq(all, p, m)) = IF p <= m THEN m - p + 1 ELSE 0
    BY <2>7, <2>8, SubSeqProperties
  <2>10. Len(SubSeq(all, p, m)) <= 1 BY <2>7, <2>9
  <2> QED BY <2>1, <2>4, <2>6, <2>9, <2>10 DEF Tabled
<1> QED BY <1>3 DEF Answers

LEMMA CallIsTyped ==
    \A call, item, p, t, rest : item \in Items \cup {NoItem} /\ p \in PageNumbers =>
        /\ CallTyped(Call(call, item, p, t, rest))
        /\ Call(call, item, p, t, rest).call = call
BY ListNumbers DEF Call, CallTyped

\* Calls end, and another begins that creates nothing.
LEMMA CallsMove ==
    ASSUME CallsTyped, born' = born, NEW c, CallTyped(c), c.call # "create",
           flight' \subseteq flight \cup {c}
    PROVE  CallsTyped'
BY DEF CallsTyped, CallTyped

LEMMA CallsEnd ==
    ASSUME CallsTyped, born' = born, flight' \subseteq flight
    PROVE  CallsTyped'
BY DEF CallsTyped, CallTyped

LEMMA CallsBegin ==
    ASSUME CallsTyped, born' = born, NEW call, NEW item \in Items \cup {NoItem}, NEW p \in PageNumbers,
           NEW t, Begins(call, item, p, t),
           call = "create" => InFlight({"create"}) = {} /\ born < Cardinality(Items)
    PROVE  CallsTyped'
<1>1. PICK c : c = Call(call, item, p, t, flight) OBVIOUS
<1>2. flight' = flight \cup {c} /\ CallTyped(c) /\ c.call = call BY <1>1, CallIsTyped DEF Begins
<1>3. CASE call # "create" BY <1>2, <1>3, CallsMove
<1>4. CASE call = "create"
  <2>1. \A r \in flight : r.call # "create" BY <1>4 DEF InFlight
  <2> QED BY <1>2, <1>4, <2>1 DEF CallsTyped, CallTyped
<1> QED BY <1>3, <1>4

LEMMA CallsFetch ==
    ASSUME CallsTyped, born' = born, NEW r \in flight, NEW p \in PageNumbers, NEW t,
           EndsAndFetches(r, p, t)
    PROVE  CallsTyped'
<1>1. PICK c : c = Call("list", NoItem, p, t, flight \ {r}) OBVIOUS
<1>2. flight' = (flight \ {r}) \cup {c} /\ CallTyped(c) /\ c.call = "list"
  BY <1>1, CallIsTyped DEF EndsAndFetches
<1> QED BY <1>2, CallsMove

\* The table after a call is a table, and one creation makes one item.
LEMMA TableServed ==
    ASSUME TableTyped, CallsTyped, ScreenTyped, NEW r \in flight, r.step = "sent",
           Applies(r) \/ UNCHANGED <<stored, born>>
    PROVE  TableTyped' /\ (r.call # "create" => born' = born)
<1>0. /\ Cardinality(Items) \in Nat /\ Items = 1..Cardinality(Items) /\ MaxInputs \in Nat
      /\ inputs \in 0..MaxInputs
  BY ListNumbers DEF ScreenTyped
<1>1. CASE UNCHANGED <<stored, born>> BY <1>1 DEF TableTyped
<1>2. CASE Applies(r) /\ r.call = "create"
  <2>1. born < Cardinality(Items) /\ born \in Nat BY <1>0, <1>2 DEF CallsTyped, TableTyped
  <2>2. stored' = stored \cup {[item |-> born + 1, version |-> 0]} /\ born' = born + 1
    BY <1>2 DEF Applies, Effect
  <2>3. [item |-> born + 1, version |-> 0] \in Rows BY <1>0, <2>1 DEF Rows
  <2>4. \A x \in stored : x.item \in Int /\ x.item <= born BY <1>0 DEF TableTyped, Rows
  <2>5. \A x \in stored : x.item # born + 1 /\ x.item <= born + 1 BY <2>1, <2>4
  <2> QED BY <1>0, <1>2, <2>1, <2>2, <2>3, <2>5 DEF TableTyped
<1>3. CASE Applies(r) /\ r.call = "delete"
  <2>0. Effect(r) = {x \in stored : x.item # r.item} BY <1>3 DEF Effect
  <2>1. stored' \subseteq stored /\ born' = born
    <3>1. born' = born + 0 BY <1>3 DEF Applies
    <3> QED BY <1>0, <1>3, <2>0, <3>1 DEF Applies, TableTyped
  <2> QED BY <2>1 DEF TableTyped
<1>4. CASE Applies(r) /\ r.call = "edit"
  <2>0. Effect(r) = {IF x.item = r.item THEN [x EXCEPT !.version = inputs] ELSE x : x \in stored}
    BY <1>4 DEF Effect
  <2>1. /\ stored' = {IF x.item = r.item THEN [x EXCEPT !.version = inputs] ELSE x : x \in stored}
        /\ born' = born
    <3>1. born' = born + 0 BY <1>4 DEF Applies
    <3> QED BY <1>0, <1>4, <2>0, <3>1 DEF Applies, TableTyped
  <2>2. \A x \in Rows : [x EXCEPT !.version = inputs] \in Rows /\ [x EXCEPT !.version = inputs].item = x.item
    BY <1>0 DEF Rows
  <2>3. \A y \in stored' : \E x \in stored :
           /\ y.item = x.item /\ y \in Rows
           /\ y = IF x.item = r.item THEN [x EXCEPT !.version = inputs] ELSE x
    BY <2>1, <2>2 DEF TableTyped
  <2> QED BY <2>1, <2>3 DEF TableTyped
<1>5. CASE Applies(r) /\ r.call \notin {"create", "delete", "edit"}
  BY <1>1, <1>5 DEF Applies, Effect, TableTyped
<1> QED BY <1>1, <1>2, <1>3, <1>4, <1>5

LEMMA CallsServed ==
    ASSUME CallsTyped, NEW r \in flight, NEW x, CallTyped(x), x.call = r.call, x.step # "sent",
           flight' = (flight \ {r}) \cup {x}, r.call # "create" => born' = born
    PROVE  CallsTyped'
BY DEF CallsTyped, CallTyped

LEMMA ListTypedTypes == ListTyped => ListTypeOK
<1> SUFFICES ASSUME ListTyped PROVE ListTypeOK
  OBVIOUS
<1>1. Range(shown.rows) \subseteq Rows /\ Len(shown.rows) <= 1 /\ shown.total \in 0..Cardinality(Items)
  <2>1. shown.rows \in Seq(Rows) /\ Len(shown.rows) <= 1 /\ shown.total \in 0..Cardinality(Items)
    BY DEF ListTyped, ScreenTyped, Tabled
  <2>2. Range(shown.rows) \subseteq Rows BY <2>1, ElementOfSeq, LenProperties DEF Range
  <2> QED BY <2>1, <2>2
<1>2. Cardinality(flight) <= MaxFlight /\ loadingCount \in 0..MaxFlight
  <2>1. Cardinality(flight) \in Nat BY FS_CardinalityType DEF ListTyped, FlightOK
  <2> QED BY <2>1, ListNumbers DEF ListTyped, FlightOK
<1> QED BY <1>1, <1>2 DEF ListTyped, TableTyped, ScreenTyped, PageNumbers, ListTypeOK

\* Every step keeps the types.
LEMMA ListTypedStep ==
    ASSUME ListTyped, [ListNext]_screenVars
    PROVE  TableTyped' /\ CallsTyped' /\ ScreenTyped'
<1>0. /\ FlightOK /\ TableTyped /\ CallsTyped /\ ScreenTyped
      /\ \A p, t : p \in PageNumbers => Answers(p, t) \subseteq Tabled
  BY AnswersTyped DEF ListTyped
<1>00. /\ Cardinality(Items) \in Nat /\ Items = 1..Cardinality(Items) /\ MaxInputs \in Nat
       /\ MaxBroken \in Nat /\ inputs \in 0..MaxInputs /\ broken \in 0..MaxBroken /\ NoItem = 0
       /\ 1 \in PageNumbers /\ page \in PageNumbers /\ target \in Items \cup {NoItem}
       /\ Empty \in Tabled
  BY <1>0, ListNumbers DEF ScreenTyped
<1>000. /\ shown \in Tabled /\ \A x \in Range(shown.rows) : x.item \in Items
  <2>1. shown \in Tabled /\ shown.rows \in Seq(Rows) BY <1>0 DEF ScreenTyped, Tabled
  <2>2. Range(shown.rows) \subseteq Rows BY <2>1, ElementOfSeq, LenProperties DEF Range
  <2> QED BY <2>1, <2>2 DEF Rows
<1>1. ASSUME UNCHANGED <<stored, born>> PROVE TableTyped' /\ born' = born
  BY <1>0, <1>1 DEF TableTyped
<1>2. ASSUME Input PROVE inputs' \in 0..MaxInputs
  BY <1>00, <1>2 DEF Input
<1>3. ASSUME NEW p \in PageNumbers, NEW t \in {"", "name"}, Presents(p, t), UNCHANGED <<stored, born>>
      PROVE  CallsTyped' /\ page' \in PageNumbers /\ debounced' \in {"", "name"} /\ mixed' \in BOOLEAN
  <2>1. page' = p /\ debounced' = t BY <1>3 DEF Presents
  <2>2. CASE UNCHANGED callVars
    BY <1>0, <1>3, <2>1, <2>2, CallsEnd DEF callVars, ScreenTyped
  <2>3. CASE Begins("list", NoItem, p, t) /\ mixed' \in BOOLEAN
    BY <1>0, <1>3, <2>1, <2>3, CallsBegin
  <2>4. mixed \in BOOLEAN BY <1>0 DEF ScreenTyped
  <2> QED BY <1>3, <2>2, <2>3, <2>4 DEF Presents
<1>4. ASSUME NEW t \in {"", "name"}, Type(t) PROVE TableTyped' /\ CallsTyped' /\ ScreenTyped'
  <2>1. TableTyped' /\ born' = born BY <1>1, <1>4 DEF Type
  <2>2. CallsTyped' BY <1>0, <1>4, <2>1, CallsEnd DEF Type, callVars
  <2>3. inputs' \in 0..MaxInputs BY <1>2, <1>4 DEF Type
  <2>4. ScreenTyped' BY <1>0, <1>4, <2>3 DEF Type, ScreenTyped, dialogVars, callVars
  <2> QED BY <2>1, <2>2, <2>4
<1>5. CASE Debounce
  <2>1. TableTyped' /\ born' = born BY <1>1, <1>5 DEF Debounce
  <2>2. search \in {"", "name"} BY <1>0 DEF ScreenTyped
  <2>3. CallsTyped' /\ page' \in PageNumbers /\ debounced' \in {"", "name"} /\ mixed' \in BOOLEAN
    BY <1>00, <1>3, <1>5, <2>2 DEF Debounce
  <2>4. ScreenTyped' BY <1>0, <1>5, <2>3 DEF Debounce, ScreenTyped, dialogVars
  <2> QED BY <2>1, <2>3, <2>4
<1>6. ASSUME NEW p \in 1..(Cardinality(Items) + 1), GoTo(p) PROVE TableTyped' /\ CallsTyped' /\ ScreenTyped'
  <2>1. TableTyped' /\ born' = born BY <1>1, <1>6 DEF GoTo
  <2>2. p \in PageNumbers /\ debounced \in {"", "name"} BY <1>0, <1>6 DEF ScreenTyped, PageNumbers
  <2>3. CallsTyped' /\ page' \in PageNumbers /\ debounced' \in {"", "name"} /\ mixed' \in BOOLEAN
    BY <1>3, <1>6, <2>2 DEF GoTo
  <2>4. inputs' \in 0..MaxInputs BY <1>2, <1>6 DEF GoTo
  <2>5. ScreenTyped' BY <1>0, <1>6, <2>3, <2>4 DEF GoTo, ScreenTyped, dialogVars
  <2> QED BY <2>1, <2>3, <2>5
<1>7. ASSUME UNCHANGED <<stored, born>>, UNCHANGED flight \/ (\E call, item, p, t :
                item \in Items \cup {NoItem} /\ p \in PageNumbers /\ Begins(call, item, p, t)
                /\ (call = "create" => InFlight({"create"}) = {} /\ born < Cardinality(Items)))
      PROVE  CallsTyped'
  BY <1>0, <1>7, CallsBegin, CallsEnd
<1>8. ASSUME NEW d \in Dialogs, OpenRow(d) PROVE TableTyped' /\ CallsTyped' /\ ScreenTyped'
  <2>1. TableTyped' /\ born' = born BY <1>1, <1>8 DEF OpenRow
  <2>2. PICK x \in Range(shown.rows) :
           /\ dialog' = d /\ target' = x.item
           /\ \/ /\ chunks' = NoItem /\ chunksLoading' = TRUE
                 /\ Begins("chunks", x.item, page, debounced) /\ mixed' \in BOOLEAN
              \/ UNCHANGED <<chunks, chunksLoading, callVars>>
    BY <1>8 DEF OpenRow
  <2>3. UNCHANGED <<screen, stored, born, queryVars, shown, agentsKnown, broken>> /\ Input
    BY <1>8 DEF OpenRow
  <2>4. CallsTyped'
    BY <1>00, <1>000, <1>7, <2>2, <2>3 DEF callVars
  <2>5. inputs' \in 0..MaxInputs BY <1>2, <2>3
  <2>6. mixed' \in BOOLEAN /\ chunksLoading' \in BOOLEAN /\ chunks' \in Items \cup {NoItem}
    BY <1>0, <2>2 DEF ScreenTyped, callVars
  <2>7. dialog' \in Dialogs /\ target' \in Items \cup {NoItem} BY <1>000, <2>2
  <2>8. ScreenTyped' BY <1>0, <2>3, <2>5, <2>6, <2>7 DEF ScreenTyped, queryVars
  <2> QED BY <2>1, <2>4, <2>8
<1>9. CASE OpenCreate \/ CloseDialog
  <2>1. TableTyped' /\ born' = born BY <1>1, <1>9 DEF OpenCreate, CloseDialog
  <2>2. UNCHANGED flight \/ Begins("agents", NoItem, page, debounced)
    BY <1>9 DEF OpenCreate, CloseDialog, callVars
  <2>3. CallsTyped'
    BY <1>00, <1>7, <1>9, <2>2 DEF OpenCreate, CloseDialog
  <2>4. inputs' \in 0..MaxInputs BY <1>2, <1>9 DEF OpenCreate, CloseDialog
  <2>5. dialog' \in Dialogs /\ target' = NoItem /\ mixed' = mixed
    BY <1>9 DEF OpenCreate, CloseDialog, callVars, Dialogs, Mutations
  <2>6. ScreenTyped' BY <1>0, <1>9, <2>4, <2>5 DEF OpenCreate, CloseDialog, ScreenTyped, queryVars
  <2> QED BY <2>1, <2>3, <2>6
<1>10. CASE Confirm
  <2>1. TableTyped' /\ born' = born BY <1>1, <1>10 DEF Confirm
  <2>2. /\ Begins(dialog, target, page, debounced)
        /\ dialog = "create" => InFlight({"create"}) = {} /\ born < Cardinality(Items)
    BY <1>10 DEF Confirm
  <2>3. CallsTyped' BY <1>0, <1>00, <2>1, <2>2, CallsBegin
  <2>4. inputs' \in 0..MaxInputs BY <1>2, <1>10 DEF Confirm
  <2>5. ScreenTyped' BY <1>0, <1>10, <2>4 DEF Confirm, ScreenTyped, queryVars, dialogVars
  <2> QED BY <2>1, <2>3, <2>5
<1>11. CASE Download
  <2>1. TableTyped' /\ born' = born BY <1>1, <1>11 DEF Download
  <2>2. PICK x \in Range(shown.rows) : Begins("download", x.item, page, debounced)
    BY <1>11 DEF Download
  <2>3. CallsTyped' BY <1>0, <1>00, <1>000, <2>1, <2>2, CallsBegin
  <2>4. inputs' \in 0..MaxInputs BY <1>2, <1>11 DEF Download
  <2>5. ScreenTyped' BY <1>0, <1>11, <2>4 DEF Download, ScreenTyped, queryVars, dialogVars
  <2> QED BY <2>1, <2>3, <2>5
<1>12. ASSUME NEW r \in flight, BackendServes(r) PROVE TableTyped' /\ CallsTyped' /\ ScreenTyped'
  <2>1. TableTyped' /\ (r.call # "create" => born' = born)
    BY <1>0, <1>12, TableServed DEF BackendServes
  <2>2. PICK a : /\ a \in IF r.call = "list" THEN Answers(r.page, r.term) ELSE {Empty}
                 /\ flight' = (flight \ {r}) \cup
                       {[r EXCEPT !.step = IF Accepted(r) THEN "ok" ELSE "refused", !.answer = a]}
    BY <1>12 DEF BackendServes
  <2>3. a \in Tabled BY <1>0, <1>00, <2>2 DEF CallsTyped, CallTyped
  <2>4. PICK s \in {"ok", "refused"} : s = IF Accepted(r) THEN "ok" ELSE "refused"
    OBVIOUS
  <2>5. PICK x : x = Becomes(r, s, a) OBVIOUS
  <2>6. [r EXCEPT !.step = s, !.answer = a] = x
    <3>1. [r EXCEPT !.step = s] = Becomes(r, s, r.answer) BY <1>0 DEF FlightOK, Becomes
    <3>2. [r EXCEPT !.step = s, !.answer = a] = [[r EXCEPT !.step = s] EXCEPT !.answer = a] OBVIOUS
    <3>3. [Becomes(r, s, r.answer) EXCEPT !.answer = a] = Becomes(r, s, a) BY DEF Becomes
    <3> QED BY <2>5, <3>1, <3>2, <3>3
  <2>7. CallTyped(x) /\ x.call = r.call /\ x.step # "sent"
    BY <1>0, <2>3, <2>4, <2>5 DEF Becomes, CallsTyped, CallTyped
  <2>8. flight' = (flight \ {r}) \cup {x} BY <2>2, <2>4, <2>6
  <2>9. CallsTyped' BY <1>0, <2>1, <2>7, <2>8, CallsServed
  <2>10. ScreenTyped' BY <1>0, <1>12 DEF BackendServes, ScreenTyped, queryVars, dialogVars
  <2> QED BY <2>1, <2>9, <2>10
<1>13. ASSUME NEW r \in flight, BackendFails(r) PROVE TableTyped' /\ CallsTyped' /\ ScreenTyped'
  <2>1. TableTyped' /\ (r.call # "create" => born' = born)
    BY <1>0, <1>13, TableServed DEF BackendFails
  <2>2. PICK x : x = Becomes(r, "failed", r.answer) OBVIOUS
  <2>3. [r EXCEPT !.step = "failed"] = x
    BY <1>0, <2>2 DEF FlightOK, Becomes
  <2>4. CallTyped(x) /\ x.call = r.call /\ x.step # "sent"
    BY <1>0, <2>2 DEF Becomes, CallsTyped, CallTyped
  <2>5. flight' = (flight \ {r}) \cup {x} BY <1>13, <2>3 DEF BackendFails
  <2>6. CallsTyped' BY <1>0, <2>1, <2>4, <2>5, CallsServed
  <2>7. broken' \in 0..MaxBroken BY <1>00, <1>13 DEF BackendFails
  <2>8. ScreenTyped' BY <1>0, <1>13, <2>7 DEF BackendFails, ScreenTyped, queryVars, dialogVars
  <2> QED BY <2>1, <2>6, <2>8
<1>14. ASSUME NEW r \in flight,
              \/ ListArrives(r) \/ AgentsArrive(r) \/ ChunksArrive(r) \/ Downloaded(r)
              \/ CreateArrives(r) \/ DeleteArrives(r) \/ EditArrives(r)
       PROVE  TableTyped' /\ CallsTyped' /\ ScreenTyped'
  <2>1. TableTyped' /\ born' = born
    BY <1>1, <1>14 DEF ListArrives, AgentsArrive, ChunksArrive, Downloaded, CreateArrives,
       DeleteArrives, EditArrives
  <2>2. r.item \in Items \cup {NoItem} /\ r.page \in PageNumbers /\ r.answer \in Tabled
    BY <1>0 DEF CallsTyped, CallTyped
  <2>3. EndsOnly(r) \/ \E p, t : p \in PageNumbers /\ EndsAndFetches(r, p, t)
    BY <1>00, <1>14, <2>2 DEF ListArrives, AgentsArrive, ChunksArrive, Downloaded, CreateArrives,
       Created, DeleteArrives, EditArrives
  <2>4. CallsTyped' /\ mixed' \in BOOLEAN
    <3>1. CASE EndsOnly(r)
      BY <1>0, <2>1, <3>1, CallsEnd DEF EndsOnly, ScreenTyped
    <3>2. ASSUME NEW p, NEW t, p \in PageNumbers, EndsAndFetches(r, p, t)
          PROVE  CallsTyped' /\ mixed' \in BOOLEAN
      <4>1. CallsTyped' BY <1>0, <2>1, <3>2, CallsFetch
      <4>2. mixed' \in BOOLEAN BY <3>2 DEF EndsAndFetches
      <4> QED BY <4>1, <4>2
    <3> QED BY <2>3, <3>1, <3>2
  <2>5. UNCHANGED <<screen, search, debounced, timer, inputs, broken>>
    BY <1>14 DEF ListArrives, AgentsArrive, ChunksArrive, Downloaded, CreateArrives, DeleteArrives,
       EditArrives, queryVars
  <2>6. page' \in PageNumbers
    BY <1>00, <1>14 DEF ListArrives, AgentsArrive, ChunksArrive, Downloaded, CreateArrives, Created,
       DeleteArrives, EditArrives, queryVars
  <2>7. dialog' \in Dialogs /\ target' \in Items \cup {NoItem}
    <3>1. UNCHANGED <<dialog, target>> \/ (dialog' = "none" /\ target' = NoItem)
      BY <1>14 DEF ListArrives, AgentsArrive, ChunksArrive, Downloaded, CreateArrives, DeleteArrives,
         EditArrives, dialogVars, Closes
    <3> QED BY <1>0, <3>1 DEF ScreenTyped, Dialogs
  <2>8. shown' \in Tabled /\ chunks' \in Items \cup {NoItem}
    BY <1>0, <1>14, <2>2 DEF ListArrives, AgentsArrive, ChunksArrive, Downloaded, CreateArrives,
       DeleteArrives, EditArrives, dialogVars, ScreenTyped
  <2>9. chunksLoading' \in BOOLEAN /\ agentsKnown' \in BOOLEAN
    BY <1>0, <1>14 DEF ListArrives, AgentsArrive, ChunksArrive, Downloaded, CreateArrives,
       DeleteArrives, EditArrives, dialogVars, ScreenTyped
  <2>10. ScreenTyped' BY <1>0, <2>4, <2>5, <2>6, <2>7, <2>8, <2>9 DEF ScreenTyped
  <2> QED BY <2>1, <2>4, <2>10
<1>15. CASE UNCHANGED screenVars
  <2>1. CallsTyped' BY <1>0, <1>15, CallsEnd DEF screenVars, callVars
  <2> QED BY <1>0, <1>1, <1>15, <2>1 DEF screenVars, queryVars, dialogVars, callVars, ScreenTyped
<1> QED BY <1>4, <1>5, <1>6, <1>8, <1>9, <1>10, <1>11, <1>12, <1>13, <1>14, <1>15 DEF ListNext

LEMMA ListTypedInit == ListInit => ListTyped
<1> SUFFICES ASSUME ListInit PROVE ListTyped
  OBVIOUS
<1>1. FlightOK BY ListInitInv DEF ListInv
<1>2. TableTyped
  <2>1. born \in {1, 2} /\ stored = [item : 1..born, version : {0}] BY DEF ListInit
  <2> QED BY <2>1, ListNumbers DEF TableTyped, Rows
<1>3. CallsTyped
  <2>1. PICK l : l = Call("list", NoItem, 1, "", {}) OBVIOUS
  <2>2. PICK a : a = Call("agents", NoItem, 1, "", {l}) OBVIOUS
  <2>3. flight \subseteq {l, a} BY <2>1, <2>2 DEF ListInit
  <2>7. PICK i \in Items \cup {NoItem}, p \in PageNumbers : i = NoItem /\ p = 1
    BY ListNumbers
  <2>8. PICK k, m, t, e : k = "list" /\ m = "agents" /\ t = "" /\ e = {}
    OBVIOUS
  <2>4. CallTyped(Call(k, i, p, t, e)) /\ Call(k, i, p, t, e).call = k
    BY CallIsTyped
  <2>5. CallTyped(Call(m, i, p, t, {l})) /\ Call(m, i, p, t, {l}).call = m
    BY CallIsTyped
  <2>6. CallTyped(l) /\ l.call = "list" /\ CallTyped(a) /\ a.call = "agents"
    BY <2>1, <2>2, <2>4, <2>5, <2>7, <2>8
  <2> QED BY <2>3, <2>6 DEF CallsTyped
<1>4. ScreenTyped
  <2>1. /\ screen \in Tables /\ page = 1 /\ search = "" /\ debounced = "" /\ shown = Empty
        /\ dialog = "none" /\ target = NoItem /\ chunks = NoItem /\ inputs = 0 /\ broken = 0
    BY DEF ListInit
  <2>2. {timer, chunksLoading, agentsKnown, mixed} \subseteq BOOLEAN BY DEF ListInit
  <2>6. MaxInputs \in Nat /\ MaxBroken \in Nat BY ListNumbers
  <2>8. inputs = 0 /\ broken = 0 BY DEF ListInit
  <2>9. 0 \in 0..MaxInputs BY <2>6
  <2>10. 0 \in 0..MaxBroken BY <2>6
  <2>7. inputs \in 0..MaxInputs BY <2>8, <2>9
  <2>3. broken \in 0..MaxBroken BY <2>8, <2>10
  <2>4. shown \in Tabled /\ page \in PageNumbers BY <2>1, ListNumbers
  <2>5. dialog \in Dialogs BY <2>1 DEF Dialogs
  <2> QED BY <2>1, <2>2, <2>3, <2>4, <2>5, <2>7 DEF ScreenTyped
<1> QED BY <1>1, <1>2, <1>3, <1>4 DEF ListTyped

\* The types of the tables: no page and no row is shown that the backend cannot
\* have, and no more calls are counted than there may be.
THEOREM ListTypeCorrect == ListSpec => []ListTypeOK
<1>1. ListTyped /\ [ListNext]_screenVars => ListTyped'
  BY FlightStep, ListTypedStep DEF ListTyped
<1> QED BY <1>1, ListTypedInit, ListTypedTypes, PTL DEF ListSpec
================================================================================
