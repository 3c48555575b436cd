---------------------------- MODULE MCConversations ----------------------------
(***************************************************************************)
(* The assistant's conversations and the web pages for TLC: how a          *)
(* conversation is kept, what becomes of the text of an answer, the page   *)
(* that shows it, the pages of the tables, and the session of the browser. *)
(* The modules share no state (what one needs of another it abstracts), so *)
(* a behaviour is that of one, the others staying where they start.        *)
(***************************************************************************)
EXTENDS ConversationHistory, AnswerText, ChatPage, ListPage, WebSession, TLC

VARIABLE part      \* the module that takes the steps

allVars == <<part, historyVars, textVars, chatVars, screenVars, webVars>>

\* A query that is no greeting may be delivered twice.
Tries == [q \in Asks |-> IF q \in Greetings THEN 1 ELSE 2]

\* Nothing tells agents or questions of the page apart.
Interchangeable == Permutations(Agents) \cup Permutations(Questions)

AllInit ==
    /\ part \in {"history", "text", "chat", "list", "web"}
    /\ HistoryInit /\ TextInit /\ ChatInit /\ ListInit /\ WebInit
    /\ part # "list" => screen = "users" /\ born = 1 /\ loadingCount = 0

H == part = "history"
T == part = "text"
P == part = "chat"
L == part = "list"
W == part = "web"
OfHistory == UNCHANGED <<part, textVars, chatVars, screenVars, webVars>>
OfText == UNCHANGED <<part, historyVars, chatVars, screenVars, webVars>>
OfChat == UNCHANGED <<part, historyVars, textVars, screenVars, webVars>>
OfList == UNCHANGED <<part, historyVars, textVars, chatVars, webVars>>
OfWeb == UNCHANGED <<part, historyVars, textVars, chatVars, screenVars>>

HistorySteps ==
    \/ \E q \in Asks : H /\ Start(q) /\ OfHistory
    \/ \E q \in Asks : H /\ ReadList(q) /\ OfHistory
    \/ \E q \in Asks : H /\ FindMessages(q) /\ OfHistory
    \/ \E q \in Asks : H /\ FillNext(q) /\ OfHistory
    \/ \E q \in Asks : H /\ FillEnds(q) /\ OfHistory
    \/ \E q \in Asks : H /\ ReadThrows(q) /\ OfHistory
    \/ \E q \in Asks : H /\ FallsBackReading(q) /\ OfHistory
    \/ \E q \in Asks : H /\ FindConversation(q) /\ OfHistory
    \/ \E q \in Asks : H /\ CreateConversation(q) /\ OfHistory
    \/ \E q \in Asks : H /\ RefindConversation(q) /\ OfHistory
    \/ \E q \in Asks : H /\ InsertMessage(q) /\ OfHistory
    \/ \E q \in Asks : H /\ SaveConversation(q) /\ OfHistory
    \/ \E q \in Asks : H /\ PushMessage(q) /\ OfHistory
    \/ \E q \in Asks : H /\ TrimList(q) /\ OfHistory
    \/ \E q \in Asks : H /\ RenewExpiry(q) /\ OfHistory
    \/ \E q \in Asks : H /\ SaveThrows(q) /\ OfHistory
    \/ \E q \in Asks : H /\ FallsBackSaving(q) /\ OfHistory
    \/ \E q \in Asks : H /\ ProcessInput(q) /\ OfHistory
    \/ \E q \in Asks : H /\ Route(q) /\ OfHistory
    \/ \E q \in Asks : H /\ CallModel(q) /\ OfHistory
    \/ \E q \in Asks : H /\ TurnFails(q) /\ OfHistory
    \/ \E q \in Asks : H /\ Answered(q) /\ OfHistory
    \/ \E qs \in SUBSET Asks : H /\ CrashHistory(qs) /\ OfHistory
    \/ H /\ Delete /\ OfHistory
    \/ H /\ DeleteList /\ OfHistory
    \/ H /\ DeleteRow /\ OfHistory
    \/ H /\ ClearSessionCache /\ OfHistory
    \/ H /\ ExpireList /\ OfHistory
    \/ H /\ RemovalFails /\ OfHistory

TextSteps ==
    \/ T /\ (\E c \in ChunkTexts : StreamChunk(c)) /\ OfText
    \/ T /\ (\E c \in WholeTexts : FullMessage(c)) /\ OfText
    \/ T /\ StreamEnds /\ OfText

ChatSteps ==
    \/ \E a \in Agents : P /\ SelectAgent(a) /\ OfChat
    \/ P /\ StartNew /\ OfChat
    \/ P /\ Back /\ OfChat
    \/ P /\ HandleClear /\ OfChat
    \/ \E c \in Questions : P /\ HandleLoad(c) /\ OfChat
    \/ \E c \in Questions : P /\ HandleDelete(c) /\ OfChat
    \/ \E r \in calls : P /\ Serve(r) /\ OfChat
    \/ \E r \in calls : P /\ Arrive(r) /\ OfChat
    \/ \E r \in calls : P /\ CallFails(r) /\ OfChat
    \/ \E l \in Links : P /\ OpenSocket(l) /\ OfChat
    \/ \E l \in Links : P /\ SocketConnects(l) /\ OfChat
    \/ \E l \in Links : P /\ SocketFails(l) /\ OfChat
    \/ \E l \in Links : P /\ SocketLost(l) /\ OfChat
    \/ \E q \in Questions : P /\ Send(q) /\ OfChat
    \/ \E q \in Questions : P /\ ChunkArrives(q) /\ OfChat
    \/ \E q \in Questions : P /\ DoneArrives(q) /\ OfChat
    \/ \E q \in Questions : P /\ ErrorArrives(q) /\ OfChat

ListSteps ==
    \/ \E t \in {"", "name"} : L /\ Type(t) /\ OfList
    \/ L /\ Debounce /\ OfList
    \/ \E p \in 1..(Cardinality(Items) + 1) : L /\ GoTo(p) /\ OfList
    \/ \E d \in Dialogs : L /\ OpenRow(d) /\ OfList
    \/ L /\ OpenCreate /\ OfList
    \/ L /\ CloseDialog /\ OfList
    \/ L /\ Confirm /\ OfList
    \/ L /\ Download /\ OfList
    \/ \E r \in flight : L /\ BackendServes(r) /\ OfList
    \/ \E r \in flight : L /\ BackendFails(r) /\ OfList
    \/ \E r \in flight : L /\ ListArrives(r) /\ OfList
    \/ \E r \in flight : L /\ AgentsArrive(r) /\ OfList
    \/ \E r \in flight : L /\ ChunksArrive(r) /\ OfList
    \/ \E r \in flight : L /\ Downloaded(r) /\ OfList
    \/ \E r \in flight : L /\ CreateArrives(r) /\ OfList
    \/ \E r \in flight : L /\ DeleteArrives(r) /\ OfList
    \/ \E r \in flight : L /\ EditArrives(r) /\ OfList

WebSteps ==
    \/ W /\ SignIn /\ OfWeb
    \/ W /\ AccessExpires /\ OfWeb
    \/ \E e \in Evaluations, by \in {"proxy", "session", "layout"} : W /\ Evaluate(e, by) /\ OfWeb
    \/ \E e \in Evaluations : W /\ RefreshReads(e) /\ OfWeb
    \/ \E e \in Evaluations : W /\ RefreshRotates(e) /\ OfWeb
    \/ \E e \in Evaluations : W /\ RefreshFails(e) /\ OfWeb
    \/ \E e \in Evaluations : W /\ Ends(e) /\ OfWeb
    \/ \E e \in Evaluations : W /\ Abandoned(e) /\ OfWeb
    \/ \E answered \in BOOLEAN : W /\ SignOut(answered) /\ OfWeb

AllNext == HistorySteps \/ TextSteps \/ ChatSteps \/ ListSteps \/ WebSteps

AllSpec == AllInit /\ [][AllNext]_allVars

\* The type invariant of the module that takes the steps.
TypesOK ==
    /\ part = "history" => HistoryTypeOK
    /\ part = "text" => TextTypeOK
    /\ part = "chat" => ChatTypeOK
    /\ part = "list" => ListTypeOK
    /\ part = "web" => WebTypeOK
================================================================================
