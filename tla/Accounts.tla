-------------------------------- MODULE Accounts -------------------------------
(***************************************************************************)
(* Administration of users and agents: apps/backend/src/user and agent     *)
(* with their repositories, as the statements that concurrent requests     *)
(* send to the database and the commands they send to the cached list of   *)
(* users (agents are not cached).                                          *)
(*                                                                         *)
(* A row has the columns its PATCH may write, each of two values; an id is *)
(* used once.  Of a list it matters whether it shows the users as they are *)
(* ("fresh") or as they were ("stale").  The welcome message of a new user *)
(* is handed to the publisher and not waited for: Subscriber starts there. *)
(***************************************************************************)
EXTENDS Integers, FiniteSets

CONSTANTS
    Users, Agents,      \* ids of rows of the two tables
    Changes,            \* requests that create, update or remove at one time
    Lists,              \* requests of GET /users at one time
    Gone                \* no row

ASSUME AccountAssumption ==
    /\ Users \cap Agents = {} /\ Users # {} /\ Agents # {}
    /\ Gone \notin Users \cup Agents

VARIABLES
    table,      \* the row of each id, or Gone
    known,      \* ids that have been given
    change,     \* each request: where it is, its id, its body, what it read
    listed,     \* users:list in Redis ("late": set late or not invalidated)
    page,       \* each GET: what it read
    atomic,     \* history: the rows if every change had been one step
    raced       \* history: users written while another change had them read

accountVars == <<table, known, change, listed, page, atomic, raced>>

Ids == Users \cup Agents
Values == {0, 1}
Columns(a) == IF a \in Users THEN {"email", "name"} ELSE {"name", "isActive"}
Rows(a) == [Columns(a) -> Values]

\* A name is 1 as created and 0 as changed.
Created(a) == {row \in Rows(a) : row["name"] = 1}
Bodies(a) == {body \in UNION {[D -> Values] : D \in (SUBSET Columns(a)) \ {{}}} :
                 "name" \in DOMAIN body => body["name"] = 0}

\* UpdateAgentSchema keeps the default of isActive (zod 4 applies defaults
\* under partial()): an agent changed without it becomes active.
Parsed(a, body) ==
    IF a \in Users THEN body
    ELSE [k \in DOMAIN body \cup {"isActive"} |-> IF k \in DOMAIN body THEN body[k] ELSE 1]

\* The row with the columns of the body.
Over(row, body) == [k \in DOMAIN row |-> IF k \in DOMAIN body THEN body[k] ELSE row[k]]

Set(row, body) == IF row = Gone THEN Gone ELSE Over(row, body)

Idle == [at |-> "idle"]
At(r, p) == change[r].at = p
Goes(r, c) == change' = [change EXCEPT ![r] = c]

AccountTypeOK ==
    /\ \A a \in Ids : {table[a], atomic[a]} \subseteq Rows(a) \cup {Gone}
    /\ known \subseteq Ids /\ raced \subseteq Users
    /\ \A a \in Ids \ known : table[a] = Gone
    /\ \A r \in Changes :
          \/ change[r] = Idle
          \/ /\ change[r].at \in {"insert", "find", "load", "save", "reinsert", "update",
                                  "remove", "keys", "del"}
             /\ "id" \in DOMAIN change[r] => change[r].id \in known
    /\ listed \in {"none", "fresh", "stale", "late"}
    /\ page \in [Lists -> {"idle", "fresh", "stale"}]

First == CHOOSE u \in Users : TRUE
FirstAgent == CHOOSE a \in Agents : TRUE

\* One user and one agent exist.
AccountInit ==
    /\ known = {First, FirstAgent}
    /\ table = [a \in Ids |-> IF a \in known THEN [c \in Columns(a) |-> 1] ELSE Gone]
    /\ change = [r \in Changes |-> Idle]
    /\ listed = "none" /\ page = [l \in Lists |-> "idle"]
    /\ atomic = table /\ raced = {}

--------------------------------------------------------------------------------
(* What a statement leaves.                                                 *)

Outdated(s) == IF s = "fresh" THEN "stale" ELSE s

\* The requests that have read a row they may write.
Reading == {"load", "save", "reinsert"}

\* The row of a is now row.  Whoever has read it and not yet written races.
Written(r, a, row, ideal) ==
    /\ table' = [table EXCEPT ![a] = row]
    /\ raced' = raced \cup {u \in Users \cap {a} :
                   \E o \in Changes \ {r} :
                      change[o].at \in Reading /\ change[o].id = u}
    /\ atomic' = [atomic EXCEPT ![a] = IF a \in raced' THEN Gone ELSE ideal]
    /\ IF a \in Users /\ row # table[a]
       THEN /\ listed' = Outdated(listed)
            /\ page' = [l \in Lists |-> Outdated(page[l])]
       ELSE UNCHANGED <<listed, page>>
    /\ UNCHANGED known

\* The unique column of users (agents have none).
Taken(a, row) ==
    \E u \in Users \ {a} : table[u] # Gone /\ table[u]["email"] = row["email"]

Nothing == UNCHANGED <<table, known, listed, page, atomic, raced>>

\* Mutant: no handler invalidates the list.
InvalidatingNot(a) == Idle

\* After its change a handler of users invalidates the list.
Invalidating(a) == IF a \in Users THEN [at |-> "keys"] ELSE Idle

--------------------------------------------------------------------------------
(* POST: findByEmail, then the password is hashed, then INSERT.             *)

CreateUser(r, row) ==
    /\ At(r, "idle") /\ Users \ known # {}
    /\ ~ \E u \in Users : table[u] # Gone /\ table[u]["email"] = row["email"]
    /\ Goes(r, [at |-> "insert", row |-> row])
    /\ Nothing

InsertUser(r) ==
    /\ At(r, "insert")
    /\ \E u \in Users \ known :
          IF Taken(u, change[r].row)
          THEN Goes(r, Idle) /\ Nothing
          ELSE /\ table' = [table EXCEPT ![u] = change[r].row]
               /\ atomic' = [atomic EXCEPT ![u] = change[r].row]
               /\ known' = known \cup {u}
               /\ listed' = Outdated(listed)
               /\ page' = [l \in Lists |-> Outdated(page[l])]
               /\ Goes(r, Invalidating(u))
               /\ UNCHANGED raced

CreateAgent(r, a, row) ==
    /\ At(r, "idle") /\ a \in Agents \ known
    /\ table' = [table EXCEPT ![a] = row] /\ atomic' = [atomic EXCEPT ![a] = row]
    /\ known' = known \cup {a}
    /\ UNCHANGED <<change, listed, page, raced>>

--------------------------------------------------------------------------------
(* PATCH.                                                                   *)

\* The service finds the row (404 without it).
Update(r, a, body) ==
    /\ At(r, "idle") /\ table[a] # Gone
    /\ Goes(r, [at |-> IF a \in Users THEN "find" ELSE "update",
                id |-> a, body |-> Parsed(a, body)])
    /\ Nothing

\* UserRepository.update reads it again and sets the columns of the body.
FindAgain(r) ==
    /\ At(r, "find")
    /\ LET a == change[r].id
       IN  Goes(r, IF table[a] = Gone THEN Idle
                   ELSE [at |-> "load", id |-> a, body |-> change[r].body,
                         entity |-> Set(table[a], change[r].body)])
    /\ Nothing

\* save(): TypeORM loads the row to compare.  Without one it will insert the
\* entity; with one it will write the columns that differ.
LoadRow(r) ==
    /\ At(r, "load")
    /\ LET c == change[r]
           row == table[c.id]
       IN  Goes(r, IF row = Gone
                   THEN [at |-> "reinsert", id |-> c.id, row |-> c.entity]
                   ELSE [at |-> "save", id |-> c.id, body |-> c.body,
                         differ |-> [k \in {k \in Columns(c.id) : c.entity[k] # row[k]}
                                        |-> c.entity[k]]])
    /\ Nothing

\* UPDATE changes nothing, unnoticed, when the row has gone.
SaveUser(r) ==
    /\ At(r, "save")
    /\ LET c == change[r]
           row == Set(table[c.id], c.differ)
       IN  \/ /\ row # Gone /\ Taken(c.id, row)
              /\ Goes(r, Idle) /\ Nothing
           \/ /\ row # Gone => ~ Taken(c.id, row)
              /\ Written(r, c.id, row, Set(atomic[c.id], c.body))
              /\ Goes(r, Invalidating(c.id))

\* The account that was removed is there again (unless it already is).
ReinsertUser(r) ==
    /\ At(r, "reinsert")
    /\ LET c == change[r]
       IN  \/ /\ table[c.id] # Gone \/ Taken(c.id, c.row)
              /\ Goes(r, Idle) /\ Nothing
           \/ /\ table[c.id] = Gone /\ ~ Taken(c.id, c.row)
              /\ Written(r, c.id, c.row, atomic[c.id])
              /\ Goes(r, Invalidating(c.id))

\* Mutant: an agent that has gone is inserted again.
UpdateAgentUpserts(r) ==
    /\ At(r, "update")
    /\ LET c == change[r]
           row == IF table[c.id] = Gone THEN [k \in Columns(c.id) |-> 1] ELSE table[c.id]
       IN  /\ Written(r, c.id, Set(row, c.body), Set(atomic[c.id], c.body))
           /\ Goes(r, Idle)

\* AgentRepository.updateAgent: one UPDATE of the columns given, by id (an
\* agent that has gone is found out by the read after it).
UpdateAgent(r) ==
    /\ At(r, "update")
    /\ LET c == change[r]
       IN  /\ Written(r, c.id, Set(table[c.id], c.body), Set(atomic[c.id], c.body))
           /\ Goes(r, Idle)

--------------------------------------------------------------------------------
(* DELETE: the service finds the row (404 without it), then it is deleted   *)
(* by id.                                                                   *)

Remove(r, a) ==
    /\ At(r, "idle") /\ table[a] # Gone
    /\ Goes(r, [at |-> "remove", id |-> a])
    /\ Nothing

RemoveRowOf(r) ==
    /\ At(r, "remove")
    /\ Written(r, change[r].id, Gone, Gone)
    /\ Goes(r, Invalidating(change[r].id))

--------------------------------------------------------------------------------
(* UserController.invalidateUserCache: KEYS, then DEL of what it found.     *)

KeysOfList(r) ==
    /\ At(r, "keys")
    /\ Goes(r, IF listed = "none" THEN Idle ELSE [at |-> "del"])
    /\ Nothing

DropList(r) ==
    /\ At(r, "del") /\ Goes(r, Idle)
    /\ listed' = "none"
    /\ UNCHANGED <<table, known, page, atomic, raced>>

--------------------------------------------------------------------------------
(* UserController.findAll.                                                  *)

Turns(l, from, to) == page[l] = from /\ page' = [page EXCEPT ![l] = to]

\* A hit ends the request; after a miss the rows are read (what happens to the
\* key in between does not matter to the query).
ListUsers(l) ==
    /\ listed = "none" /\ Turns(l, "idle", "fresh")
    /\ UNCHANGED <<table, known, change, listed, atomic, raced>>

CacheList(l) ==
    /\ page[l] \in {"fresh", "stale"} /\ Turns(l, page[l], "idle")
    /\ listed' = IF page[l] = "stale" THEN "late" ELSE "fresh"
    /\ UNCHANGED <<table, known, change, atomic, raced>>

\* 60 seconds.
ListExpires ==
    /\ listed # "none" /\ listed' = "none"
    /\ UNCHANGED <<table, known, change, page, atomic, raced>>

--------------------------------------------------------------------------------
(* A statement or a command throws, undone, or a replica dies in all its   *)
(* requests: any number of times.                                          *)

Invalidates(r) == At(r, "keys") \/ At(r, "del")

NotInvalidated(R) ==
    IF listed = "stale" /\ \E r \in R : Invalidates(r) THEN "late" ELSE listed

RequestThrows(r) ==
    /\ ~ At(r, "idle") /\ Goes(r, Idle)
    /\ listed' = NotInvalidated({r})
    /\ UNCHANGED <<table, known, page, atomic, raced>>

ListThrows(l) ==
    /\ page[l] # "idle" /\ page' = [page EXCEPT ![l] = "idle"]
    /\ UNCHANGED <<table, known, change, listed, atomic, raced>>

ReplicaDies ==
    /\ \E r \in Changes : ~ At(r, "idle")
    /\ change' = [r \in Changes |-> Idle] /\ page' = [l \in Lists |-> "idle"]
    /\ listed' = NotInvalidated(Changes)
    /\ UNCHANGED <<table, known, atomic, raced>>

AccountNext ==
    \/ \E r \in Changes :
          \/ \E row \in Created(First) : CreateUser(r, row)
          \/ \E a \in Agents : \E row \in Created(a) : CreateAgent(r, a, row)
          \/ \E a \in known : \E body \in Bodies(a) : Update(r, a, body)
          \/ \E a \in known : Remove(r, a)
          \/ InsertUser(r) \/ FindAgain(r) \/ LoadRow(r) \/ SaveUser(r)
          \/ ReinsertUser(r) \/ UpdateAgent(r) \/ RemoveRowOf(r)
          \/ KeysOfList(r) \/ DropList(r)
          \/ RequestThrows(r)
    \/ \E l \in Lists : \/ ListUsers(l) \/ CacheList(l) \/ ListThrows(l)
    \/ ListExpires \/ ReplicaDies

AccountSpec == AccountInit /\ [][AccountNext]_accountVars

--------------------------------------------------------------------------------
(* Properties. *)

\* user.repository.ts:110 "fetch the existing entity, apply allowed changes,
\* and persist the update": the tables are those of changes made one at a
\* time, nothing written is lost and nobody removed comes back.  Of users
\* this needs that no other change wrote the row between the read and the
\* write of the request; of agents it always holds.
AccountsKept == \A a \in Ids \ raced : table[a] = atomic[a]

\* user/README.md:32 "invalidam automaticamente o cache de listagem": a list
\* in Redis is that of the users now unless a handler is about to drop it, its
\* reader was outdated when it set it, or its invalidation failed.
UserListFresh ==
    listed = "stale" => \E r \in Changes : Invalidates(r)
================================================================================
