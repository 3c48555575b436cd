-------------------------------- MODULE ListPage -------------------------------
(***************************************************************************)
(* The administration pages of apps/frontend: the tables of documents,     *)
(* embeddings, users and agents, with their filter, their pages and their  *)
(* dialogs.  Every handler that awaits goes on with the page and the term  *)
(* of the render it was created in, and the answers of the calls come in   *)
(* any order.  The calls also count for the loading overlay (api-fetch.ts).*)
(*                                                                         *)
(* A row is [item, version]; items are numbered in the order they are      *)
(* created, and a page holds one row (the code: ten).  The backend answers *)
(* from its table: its caches are the matter of other modules.             *)
(***************************************************************************)
EXTENDS Integers, Sequences, FiniteSets, SequencesExt

CONSTANTS
    Items,       \* a set 1..n; the tables start with one or two of them
    Named,       \* items the term "name" finds; the term "" finds all
    MaxFlight,   \* bound on calls in flight
    MaxInputs,   \* bound on what the user does
    MaxBroken    \* bound on calls that fail

ASSUME ListAssumption ==
    /\ Cardinality(Items) \in Nat \ {0, 1} /\ Items = 1..Cardinality(Items) /\ Named \subseteq Items
    /\ MaxFlight \in Nat \ {0, 1} /\ {MaxInputs, MaxBroken} \subseteq Nat

VARIABLES
    screen,                 \* which of the four tables
    stored, born,           \* rows the backend has, items ever created
    page, search, debounced, timer,
    shown,                  \* data and total
    dialog, target,         \* the dialog that is open, the row it is about
    chunks, chunksLoading,  \* item whose chunks the embeddings page holds
    agentsKnown,            \* the upload dialog can offer an agent
    flight, loadingCount,   \* calls in flight, loading-store.ts
    inputs, broken,         \* bounds on the user, on failures
    mixed                   \* history: lists, or a list and a change elsewhere, overlapped

queryVars == <<page, search, debounced, timer>>
dialogVars == <<dialog, target, chunks, chunksLoading>>
callVars == <<flight, loadingCount, mixed>>
screenVars == <<screen, stored, born, queryVars, shown, dialogVars, agentsKnown,
              callVars, inputs, broken>>

Tables == {"documents", "embeddings", "users", "agents"}
Mutations == {"create", "delete", "edit"}
Dialogs == {"none", "chunks"} \cup Mutations
NoItem == 0
Empty == [rows |-> <<>>, total |-> 0]
Rows == [item : Items, version : 0..MaxInputs]

-------------------------------------------------------------------------------
(* The backend. *)

\* The list of agents takes no account of the term (agent.repository.ts).
Found(t) ==
    IF t = "name" /\ screen # "agents" THEN {r \in stored : r.item \in Named} ELSE stored

\* Agents are in no order (no ORDER BY unless the query has a sort).
NewestFirst(all) == \A i, j \in DOMAIN all : i < j => all[i].item > all[j].item
Orders(t) == {all \in SetToSeqs(Found(t)) : screen # "agents" => NewestFirst(all)}

Answers(p, t) ==
    {[rows |-> SubSeq(all, p, IF p > Len(all) THEN Len(all) ELSE p), total |-> Len(all)] :
        all \in Orders(t)}

\* Deleting, changing or reading what is not there is refused.
Accepted(r) == r.item = NoItem \/ \E x \in stored : x.item = r.item

Effect(r) ==
    CASE r.call = "create" -> stored \cup {[item |-> born + 1, version |-> 0]}
      [] r.call = "delete" -> {x \in stored : x.item # r.item}
      [] r.call = "edit"   -> {IF x.item = r.item THEN [x EXCEPT !.version = inputs] ELSE x : x \in stored}
      [] OTHER -> stored

Applies(r) == stored' = Effect(r) /\ born' = born + (IF r.call = "create" THEN 1 ELSE 0)

-------------------------------------------------------------------------------
(* Calls. *)

InFlight(calls) == {r \in flight : r.call \in calls}

\* A call with the page and the term of the render that makes it, among rest.
Call(call, item, p, t, rest) ==
    [id |-> CHOOSE i \in 1..MaxFlight : \A r \in rest : r.id # i,
     call |-> call, item |-> item, page |-> p, term |-> t, step |-> "sent", answer |-> Empty]

\* apiFetch: onStart when the call begins, onEnd in its finally.
Begins(call, item, p, t) ==
    /\ Cardinality(flight) < MaxFlight
    /\ flight' = flight \cup {Call(call, item, p, t, flight)}
    /\ loadingCount' = loadingCount + 1

\* onEnd: Math.max(0, loadingCount - 1).
Uncounted == IF loadingCount = 0 THEN 0 ELSE loadingCount - 1

\* The answer of r is handled and no call follows.
EndsOnly(r) ==
    /\ flight' = flight \ {r}
    /\ loadingCount' = Uncounted
    /\ UNCHANGED mixed

\* It is handled and the page fetches the list at p, t.
EndsAndFetches(r, p, t) ==
    LET rest == flight \ {r} IN
    /\ flight' = rest \cup {Call("list", NoItem, p, t, rest)}
    /\ loadingCount' = Uncounted + 1
    /\ mixed' = (mixed \/ \E x \in rest : x.call = "list" \/ (p # page /\ x.call \in Mutations))

-------------------------------------------------------------------------------
(* The filter and the pages. *)

\* The mount fetches the list; on the first page of the application the hooks
\* of the overlay are registered after it.  Only the agents table's debounce
\* runs when nothing was typed.
ListInit ==
    /\ screen \in Tables
    /\ born \in {1, 2} /\ stored = [item : 1..born, version : {0}]
    /\ page = 1 /\ search = "" /\ debounced = "" /\ timer = (screen = "agents")
    /\ shown = Empty
    /\ dialog = "none" /\ target = NoItem /\ chunks = NoItem /\ chunksLoading = FALSE
    /\ agentsKnown = FALSE
    /\ flight = LET list == Call("list", NoItem, 1, "", {}) IN
                IF screen = "embeddings" THEN {list, Call("agents", NoItem, 1, "", {list})} ELSE {list}
    /\ loadingCount \in {0, Cardinality(flight)}
    /\ inputs = 0 /\ broken = 0 /\ mixed = FALSE

Input == inputs < MaxInputs /\ inputs' = inputs + 1

\* fetchX is a new function, and its effect runs, when page or term changed.
Presents(p, t) ==
    /\ page' = p /\ debounced' = t
    /\ IF <<p, t>> = <<page, debounced>>
       THEN UNCHANGED callVars
       ELSE /\ Begins("list", NoItem, p, t)
            /\ mixed' = (mixed \/ InFlight(Mutations \cup {"list"}) # {})

Type(t) ==
    /\ Input /\ dialog = "none" /\ t # search
    /\ search' = t
    /\ timer' = (screen = "agents" \/ t # debounced)
    /\ UNCHANGED <<screen, stored, born, page, debounced, shown, dialogVars, agentsKnown, callVars, broken>>

Debounce ==
    /\ timer /\ timer' = FALSE
    /\ Presents(1, search)
    /\ UNCHANGED <<screen, stored, born, search, shown, dialogVars, agentsKnown, inputs, broken>>

\* DataTable: the buttons are disabled at the ends of what it was told.
GoTo(p) ==
    /\ Input /\ dialog = "none"
    /\ p = page - 1 \/ p = page + 1
    /\ p >= 1 /\ (p > page => page < shown.total)
    /\ Presents(p, debounced)
    /\ UNCHANGED <<screen, stored, born, search, timer, shown, dialogVars, agentsKnown, broken>>

-------------------------------------------------------------------------------
(* Dialogs. *)

Offered(d) ==
    CASE d = "delete" -> screen # "agents"
      [] d = "edit"   -> screen = "agents"
      [] d = "chunks" -> screen = "embeddings"
      [] OTHER        -> FALSE

\* A button of a row; reading chunks starts with the dialog (fetchChunks).
OpenRow(d) ==
    /\ Input /\ dialog = "none" /\ Offered(d)
    /\ \E x \in Range(shown.rows) :
          /\ dialog' = d /\ target' = x.item
          /\ IF d = "chunks"
             THEN /\ chunks' = NoItem /\ chunksLoading' = TRUE
                  /\ Begins("chunks", x.item, page, debounced)
                  /\ mixed' = (mixed \/ InFlight({"chunks"}) # {})
             ELSE UNCHANGED <<chunks, chunksLoading, callVars>>
    /\ UNCHANGED <<screen, stored, born, queryVars, shown, agentsKnown, broken>>

\* The upload dialog asks for the agents again if it has none to offer.
OpenCreate ==
    /\ Input /\ dialog = "none"
    /\ dialog' = "create" /\ target' = NoItem
    /\ IF screen = "embeddings" /\ ~agentsKnown
       THEN Begins("agents", NoItem, page, debounced) /\ UNCHANGED mixed
       ELSE UNCHANGED callVars
    /\ UNCHANGED <<screen, stored, born, queryVars, shown, chunks, chunksLoading, agentsKnown, broken>>

CloseDialog ==
    /\ Input /\ dialog # "none"
    /\ dialog' = "none" /\ target' = NoItem
    /\ UNCHANGED <<screen, stored, born, queryVars, shown, chunks, chunksLoading, agentsKnown, callVars, broken>>

\* The button of the dialog.  That of a form is disabled while it is submitted;
\* that of a deletion is not.
Confirm ==
    /\ Input /\ dialog \in Mutations
    /\ dialog # "delete" => InFlight({dialog}) = {}
    /\ dialog = "create" => born < Cardinality(Items) /\ (screen = "embeddings" => agentsKnown)
    /\ Begins(dialog, target, page, debounced)
    /\ UNCHANGED <<screen, stored, born, queryVars, shown, dialogVars, agentsKnown, mixed, broken>>

Download ==
    /\ Input /\ dialog = "none" /\ screen \in {"documents", "embeddings"}
    /\ \E x \in Range(shown.rows) : Begins("download", x.item, page, debounced)
    /\ UNCHANGED <<screen, stored, born, queryVars, shown, dialogVars, agentsKnown, mixed, broken>>

-------------------------------------------------------------------------------
(* Answers. *)

BackendServes(r) ==
    /\ r.step = "sent"
    /\ Applies(r)
    /\ \E rows \in IF r.call = "list" THEN Answers(r.page, r.term) ELSE {Empty} :
          flight' = (flight \ {r}) \cup
             {[r EXCEPT !.step = IF Accepted(r) THEN "ok" ELSE "refused", !.answer = rows]}
    /\ UNCHANGED <<screen, queryVars, shown, dialogVars, agentsKnown, loadingCount, inputs, broken, mixed>>

\* The call fails before or after the backend has served it.
BackendFails(r) ==
    /\ r.step = "sent" /\ broken < MaxBroken
    /\ broken' = broken + 1
    /\ Applies(r) \/ UNCHANGED <<stored, born>>
    /\ flight' = (flight \ {r}) \cup {[r EXCEPT !.step = "failed"]}
    /\ UNCHANGED <<screen, queryVars, shown, dialogVars, agentsKnown, loadingCount, inputs, mixed>>

\* setXDialogOpen(false), whichever row the dialog is about by now.
Closes(d) ==
    IF dialog = d THEN dialog' = "none" /\ target' = NoItem ELSE UNCHANGED <<dialog, target>>

ListArrives(r) ==
    /\ r.call = "list" /\ r.step # "sent"
    /\ shown' = IF r.step = "ok" THEN r.answer ELSE shown
    /\ EndsOnly(r)
    /\ UNCHANGED <<screen, stored, born, queryVars, dialogVars, agentsKnown, inputs, broken>>

AgentsArrive(r) ==
    /\ r.call = "agents" /\ r.step # "sent"
    /\ agentsKnown' = (agentsKnown \/ r.step = "ok")
    /\ EndsOnly(r)
    /\ UNCHANGED <<screen, stored, born, queryVars, shown, dialogVars, inputs, broken>>

ChunksArrive(r) ==
    /\ r.call = "chunks" /\ r.step # "sent"
    /\ chunks' = IF r.step = "ok" THEN r.item ELSE chunks
    /\ chunksLoading' = FALSE
    /\ EndsOnly(r)
    /\ UNCHANGED <<screen, stored, born, queryVars, shown, dialog, target, agentsKnown, inputs, broken>>

Downloaded(r) ==
    /\ r.call = "download" /\ r.step # "sent"
    /\ EndsOnly(r)
    /\ UNCHANGED <<screen, stored, born, queryVars, shown, dialogVars, agentsKnown, inputs, broken>>

\* Mutant: after an upload the documents table goes to page 1, which fetches
\* nothing for whoever is there already.
UploadedToFirst(r) ==
    IF screen = "documents"
    THEN IF page = 1 THEN EndsOnly(r) /\ UNCHANGED page
         ELSE EndsAndFetches(r, 1, debounced) /\ page' = 1
    ELSE EndsAndFetches(r, r.page, r.term) /\ UNCHANGED page

\* onUploadSuccess, onSuccess: of the render that submitted.  The documents
\* table goes to page 1, the others fetch what they showed.
Created(r) ==
    IF screen = "documents" /\ r.page # 1
    THEN IF page = 1 THEN EndsOnly(r) /\ UNCHANGED page
         ELSE EndsAndFetches(r, 1, debounced) /\ page' = 1
    ELSE EndsAndFetches(r, r.page, r.term) /\ UNCHANGED page

CreateArrives(r) ==
    /\ r.call = "create" /\ r.step # "sent"
    /\ IF r.step = "ok" THEN Closes("create") /\ Created(r)
       ELSE EndsOnly(r) /\ UNCHANGED <<dialog, target, page>>
    /\ UNCHANGED <<screen, stored, born, search, debounced, timer, shown, chunks, chunksLoading,
                   agentsKnown, inputs, broken>>

DeleteArrives(r) ==
    /\ r.call = "delete" /\ r.step # "sent"
    /\ Closes("delete")
    /\ IF r.step = "ok" THEN EndsAndFetches(r, r.page, r.term) ELSE EndsOnly(r)
    /\ UNCHANGED <<screen, stored, born, queryVars, shown, chunks, chunksLoading, agentsKnown, inputs, broken>>

EditArrives(r) ==
    /\ r.call = "edit" /\ r.step # "sent"
    /\ IF r.step = "ok" THEN Closes("edit") /\ EndsAndFetches(r, r.page, r.term)
       ELSE EndsOnly(r) /\ UNCHANGED <<dialog, target>>
    /\ UNCHANGED <<screen, stored, born, queryVars, shown, chunks, chunksLoading, agentsKnown, inputs, broken>>

ListNext ==
    \/ \E t \in {"", "name"} : Type(t)
    \/ Debounce
    \/ \E p \in 1..(Cardinality(Items) + 1) : GoTo(p)
    \/ \E d \in Dialogs : OpenRow(d)
    \/ OpenCreate \/ CloseDialog \/ Confirm \/ Download
    \/ \E r \in flight :
          \/ BackendServes(r) \/ BackendFails(r) \/ ListArrives(r) \/ AgentsArrive(r) \/ ChunksArrive(r)
          \/ Downloaded(r) \/ CreateArrives(r) \/ DeleteArrives(r) \/ EditArrives(r)

ListSpec == ListInit /\ [][ListNext]_screenVars

-------------------------------------------------------------------------------
ListTypeOK ==
    /\ screen \in Tables /\ stored \subseteq Rows /\ born \in 0..Cardinality(Items)
    /\ \A x, y \in stored : x.item = y.item => x = y
    /\ page \in 1..(Cardinality(Items) + 1) /\ {search, debounced} \subseteq {"", "name"}
    /\ Range(shown.rows) \subseteq Rows /\ Len(shown.rows) <= 1
    /\ shown.total \in 0..Cardinality(Items)
    /\ dialog \in Dialogs /\ {target, chunks} \subseteq Items \cup {NoItem}
    /\ {timer, chunksLoading, agentsKnown, mixed} \subseteq BOOLEAN
    /\ Cardinality(flight) <= MaxFlight /\ loadingCount \in 0..MaxFlight
    /\ inputs \in 0..MaxInputs /\ broken \in 0..MaxBroken

\* When every call is answered and the filter is at rest, the overlay is gone;
\* and unless a call failed, two lists were fetched at a time, or the page or the
\* term changed under a change of the data, the table shows what the backend has
\* on this page (one of the pages it may answer: agents are in no order), and the
\* dialog of the chunks shows those of its document.
PageSettles ==
    flight = {} =>
        /\ loadingCount = 0
        /\ ~timer /\ broken = 0 /\ ~mixed =>
              /\ shown \in Answers(page, debounced)
              /\ dialog = "chunks" => ~chunksLoading /\ chunks \in {NoItem, target}
===============================================================================
