----------------------------- MODULE AccountsProof -----------------------------
(***************************************************************************)
(* The tables of users and agents, for every number of rows, concurrent    *)
(* changes and readers of the list: no change is lost and nobody removed   *)
(* comes back unless two changes of a user cross, and an outdated list is  *)
(* about to be dropped.                                                    *)
(***************************************************************************)
EXTENDS Accounts, TLAPS

\* What a request writes of a row.
Writes(a) == UNION {[D -> Values] : D \in SUBSET Columns(a)}

Places == {"idle", "insert", "find", "load", "save", "reinsert", "update", "remove", "keys", "del"}

\* What a request carries to where it is.
Carries(c) ==
    /\ c.at \in Places /\ (c.at = "idle" => c = Idle)
    /\ "id" \in DOMAIN c => c.id \in known
    /\ c.at \in {"find", "load", "save", "reinsert"} => c.id \in known \cap Users
    /\ c.at = "update" => c.id \in known \cap Agents
    /\ c.at = "remove" => c.id \in known
    /\ c.at \in {"find", "load", "save", "update"} => c.body \in Writes(c.id)
    /\ c.at = "insert" => c.row \in Rows(First)
    /\ c.at = "load" => c.entity \in Rows(c.id)
    /\ c.at = "save" => c.differ \in Writes(c.id)
    /\ c.at = "reinsert" => c.row \in Rows(c.id)

\* While no other change wrote the row, what a request has read of it is there.
ReadsOf(c) ==
    /\ c.at = "load" /\ c.id \notin raced => table[c.id] # Gone /\ c.entity = Over(table[c.id], c.body)
    /\ c.at = "save" /\ c.id \notin raced =>
          table[c.id] # Gone /\ Over(table[c.id], c.differ) = Over(table[c.id], c.body)
    /\ c.at = "reinsert" => c.id \in raced

\* The variables are functions, the rows rows.
RowsOK ==
    /\ \A a \in Ids : {table[a], atomic[a]} \subseteq Rows(a) \cup {Gone}
    /\ \A a \in Ids \ known : table[a] = Gone
    /\ known \subseteq Ids /\ raced \subseteq Users
    /\ table = [a \in Ids |-> table[a]] /\ atomic = [a \in Ids |-> atomic[a]]

ListOK ==
    /\ listed \in {"none", "fresh", "stale", "late"}
    /\ page \in [Lists -> {"idle", "fresh", "stale"}]

AccountInv ==
    /\ RowsOK /\ ListOK /\ AccountsKept
    /\ change = [r \in Changes |-> change[r]]
    /\ \A r \in Changes : Carries(change[r]) /\ ReadsOf(change[r])

\* The invariant gives every variable its type.
LEMMA TypeFollows == AccountInv => AccountTypeOK
<1> SUFFICES ASSUME AccountInv PROVE AccountTypeOK
  OBVIOUS
<1>1. ASSUME NEW r \in Changes
      PROVE  \/ change[r] = Idle
             \/ /\ change[r].at \in {"insert", "find", "load", "save", "reinsert", "update",
                                     "remove", "keys", "del"}
                /\ "id" \in DOMAIN change[r] => change[r].id \in known
  BY DEF AccountInv, Carries, Places
<1> QED BY <1>1 DEF AccountInv, RowsOK, ListOK, AccountTypeOK

--------------------------------------------------------------------------------
(* Rows. *)

\* A row that is written over is a row ...
LEMMA OverIs ==
    ASSUME NEW a \in Ids, NEW row \in Rows(a), NEW body \in Writes(a)
    PROVE  Over(row, body) \in Rows(a)
<1>1. PICK D \in SUBSET Columns(a) : body \in [D -> Values]
  BY DEF Writes
<1> QED BY <1>1 DEF Rows, Over

\* ... and so is what an UPDATE leaves of one.
LEMMA SetIs ==
    ASSUME NEW a \in Ids, NEW row \in Rows(a) \cup {Gone}, NEW body \in Writes(a)
    PROVE  Set(row, body) \in Rows(a) \cup {Gone}
  BY OverIs DEF Set

\* save() writes the columns that differ: the row becomes the entity.
LEMMA DifferIs ==
    ASSUME NEW a \in Ids, NEW row \in Rows(a), NEW entity \in Rows(a),
           NEW differ, differ = [k \in {k \in Columns(a) : entity[k] # row[k]} |-> entity[k]]
    PROVE  differ \in Writes(a) /\ Over(row, differ) = entity
<1> DEFINE D == {k \in Columns(a) : entity[k] # row[k]}
<1>1. row \in [Columns(a) -> Values] /\ entity \in [Columns(a) -> Values]
  BY DEF Rows
<1>2. D \in SUBSET Columns(a) /\ differ \in [D -> Values]
  BY <1>1
<1>3. Over(row, differ) = [k \in Columns(a) |-> entity[k]]
  BY <1>1 DEF Over
<1> QED BY <1>1, <1>2, <1>3 DEF Writes

\* What the schema lets through writes columns of the table.
LEMMA BodiesWrite ==
    ASSUME NEW a \in Ids, NEW body \in Bodies(a)
    PROVE  Parsed(a, body) \in Writes(a)
<1>1. PICK D \in SUBSET Columns(a) : body \in [D -> Values]
  BY DEF Bodies
<1>2. CASE a \in Users
  BY <1>1, <1>2 DEF Parsed, Writes
<1>3. CASE a \notin Users
  <2>1. D \cup {"isActive"} \in SUBSET Columns(a)
    BY <1>3 DEF Columns
  <2>2. Parsed(a, body) \in [D \cup {"isActive"} -> Values]
    BY <1>1, <1>3 DEF Parsed, Values
  <2> QED BY <2>1, <2>2 DEF Writes
<1> QED BY <1>2, <1>3

\* The first user and the first agent are rows like the others.
LEMMA FirstIs ==
    /\ First \in Users /\ FirstAgent \in Agents /\ Users \cap Agents = {}
    /\ \A u \in Users : Columns(u) = Columns(First) /\ Rows(u) = Rows(First)
<1>1. First \in Users /\ FirstAgent \in Agents /\ Users \cap Agents = {}
  BY AccountAssumption DEF AccountAssumption, First, FirstAgent
<1> QED BY <1>1 DEF Columns, Rows

--------------------------------------------------------------------------------
(* Steps. *)

\* A request that goes on leaves the others where they are.
LEMMA GoesIs ==
    ASSUME AccountInv, NEW r \in Changes, NEW c, Goes(r, c)
    PROVE  /\ change'[r] = c /\ change' = [p \in Changes |-> change'[p]]
           /\ \A p \in Changes : p # r => change'[p] = change[p]
<1>1. change = [p \in Changes |-> change[p]] /\ change' = [change EXCEPT ![r] = c]
  BY DEF AccountInv, Goes
<1> QED BY <1>1

\* A request takes a step: what the others carry and have read stands.
LEMMA RequestStep ==
    ASSUME AccountInv, NEW r \in Changes,
           change' = [p \in Changes |-> change'[p]],
           \A p \in Changes : p # r => change'[p] = change[p],
           RowsOK', ListOK', AccountsKept', known \subseteq known', raced \subseteq raced',
           \A p \in Changes \ {r} : change[p].at \in Reading =>
               table'[change[p].id] = table[change[p].id] \/ change[p].id \in raced',
           (Carries(change[r]) /\ ReadsOf(change[r]))'
    PROVE  AccountInv'
<1>1. ASSUME NEW p \in Changes, p # r PROVE (Carries(change[p]) /\ ReadsOf(change[p]))'
  <2>1. Carries(change[p]) /\ ReadsOf(change[p]) /\ change'[p] = change[p]
    BY <1>1 DEF AccountInv
  <2>2. Carries(change[p])'
    BY <2>1 DEF Carries
  <2>3. ReadsOf(change[p])'
    <3>1. change[p].at \in Reading => table'[change[p].id] = table[change[p].id] \/ change[p].id \in raced'
      BY <1>1
    <3> QED BY <2>1, <3>1 DEF ReadsOf, Reading
  <2> QED BY <2>2, <2>3
<1> QED BY <1>1 DEF AccountInv

\* A step that only moves a request.
LEMMA MoveStep ==
    ASSUME AccountInv, NEW r \in Changes, NEW c, Goes(r, c), UNCHANGED <<table, known, atomic, raced>>,
           ListOK', Carries(c), ReadsOf(c)
    PROVE  AccountInv'
<1>1. RowsOK' /\ AccountsKept'
  BY DEF AccountInv, RowsOK, AccountsKept
<1>2. (Carries(change[r]) /\ ReadsOf(change[r]))'
  BY GoesIs DEF Carries, ReadsOf
<1>3. /\ change' = [p \in Changes |-> change'[p]]
      /\ \A p \in Changes : p # r => change'[p] = change[p]
  BY GoesIs
<1> QED BY <1>1, <1>2, <1>3, RequestStep

\* A row is written by a request that is then done with it.
LEMMA WriteStep ==
    ASSUME AccountInv, NEW r \in Changes, NEW a \in known, NEW c, Goes(r, c),
           c \in {Idle, [at |-> "keys"]},
           NEW row \in Rows(a) \cup {Gone}, NEW ideal \in Rows(a) \cup {Gone},
           Written(r, a, row, ideal), a \notin raced' => row = ideal
    PROVE  AccountInv'
<1>0. /\ a \in Ids /\ known \subseteq Ids /\ raced \subseteq Users
      /\ table = [b \in Ids |-> table[b]] /\ atomic = [b \in Ids |-> atomic[b]]
      /\ \A b \in Ids : {table[b], atomic[b]} \subseteq Rows(b) \cup {Gone}
      /\ \A b \in Ids \ known : table[b] = Gone
  BY DEF AccountInv, RowsOK
<1>1. /\ table' = [table EXCEPT ![a] = row] /\ known' = known
      /\ raced' = raced \cup {u \in Users \cap {a} :
                   \E o \in Changes \ {r} : change[o].at \in Reading /\ change[o].id = u}
      /\ atomic' = [atomic EXCEPT ![a] = IF a \in raced' THEN Gone ELSE ideal]
  BY DEF Written
<1>2. /\ table'[a] = row /\ \A b \in Ids : b # a => table'[b] = table[b] /\ atomic'[b] = atomic[b]
      /\ atomic'[a] = IF a \in raced' THEN Gone ELSE ideal
      /\ table' = [b \in Ids |-> table'[b]] /\ atomic' = [b \in Ids |-> atomic'[b]]
  BY <1>0, <1>1
<1>3. raced \subseteq raced' /\ raced' \subseteq Users
  BY <1>0, <1>1
<1>4. RowsOK'
  <2>1. \A b \in Ids : {table'[b], atomic'[b]} \subseteq Rows(b) \cup {Gone}
    BY <1>0, <1>2
  <2>2. \A b \in Ids \ known' : table'[b] = Gone
    BY <1>0, <1>1, <1>2
  <2> QED BY <1>0, <1>1, <1>2, <1>3, <2>1, <2>2 DEF RowsOK, Rows
<1>5. AccountsKept'
  <2>1. \A b \in Ids \ raced : table[b] = atomic[b]
    BY DEF AccountInv, AccountsKept
  <2>2. ASSUME NEW b \in Ids \ raced' PROVE table'[b] = atomic'[b]
    BY <1>2, <1>3, <2>1
  <2> QED BY <2>2 DEF AccountsKept
<1>6. ListOK'
  <2>1. ListOK
    BY DEF AccountInv
  <2> QED BY <2>1 DEF Written, Outdated, ListOK
<1>7. /\ change'[r] = c /\ change' = [p \in Changes |-> change'[p]]
      /\ \A p \in Changes : p # r => change'[p] = change[p]
  BY GoesIs
<1>8. (Carries(change[r]) /\ ReadsOf(change[r]))'
  BY <1>7 DEF Carries, ReadsOf, Places, Idle
<1>9. ASSUME NEW p \in Changes \ {r}, change[p].at \in Reading
      PROVE  table'[change[p].id] = table[change[p].id] \/ change[p].id \in raced'
  <2>1. change[p].id \in Users /\ change[p].id \in Ids
    BY <1>0, <1>9 DEF AccountInv, Carries, Reading
  <2> QED BY <1>1, <1>2, <1>9, <2>1
<1> QED BY <1>1, <1>3, <1>4, <1>5, <1>6, <1>7, <1>8, <1>9, RequestStep

\* A row nobody had is inserted.
LEMMA InsertStep ==
    ASSUME AccountInv, NEW r \in Changes, NEW a \in Ids \ known, NEW row \in Rows(a),
           change' = change \/ \E c \in {Idle, [at |-> "keys"]} : Goes(r, c),
           table' = [table EXCEPT ![a] = row], atomic' = [atomic EXCEPT ![a] = row],
           known' = known \cup {a}, raced' = raced, ListOK'
    PROVE  AccountInv'
<1>1. /\ known \subseteq Ids /\ raced \subseteq Users
      /\ table = [b \in Ids |-> table[b]] /\ atomic = [b \in Ids |-> atomic[b]]
      /\ \A b \in Ids : {table[b], atomic[b]} \subseteq Rows(b) \cup {Gone}
      /\ \A b \in Ids \ known : table[b] = Gone
  BY DEF AccountInv, RowsOK
<1>2. /\ table'[a] = row /\ atomic'[a] = row
      /\ \A b \in Ids : b # a => table'[b] = table[b] /\ atomic'[b] = atomic[b]
      /\ table' = [b \in Ids |-> table'[b]] /\ atomic' = [b \in Ids |-> atomic'[b]]
  BY <1>1
<1>3. RowsOK'
  <2>1. \A b \in Ids : {table'[b], atomic'[b]} \subseteq Rows(b) \cup {Gone}
    BY <1>1, <1>2
  <2>2. \A b \in Ids \ known' : table'[b] = Gone
    BY <1>1, <1>2
  <2> QED BY <1>1, <1>2, <2>1, <2>2 DEF RowsOK, Rows
<1>4. AccountsKept'
  <2>1. \A b \in Ids \ raced : table[b] = atomic[b]
    BY DEF AccountInv, AccountsKept
  <2>2. ASSUME NEW b \in Ids \ raced' PROVE table'[b] = atomic'[b]
    BY <1>2, <2>1
  <2> QED BY <2>2 DEF AccountsKept
<1>5. ASSUME NEW p \in Changes, change[p].at \in Reading
      PROVE  table'[change[p].id] = table[change[p].id]
  <2>1. change[p].id \in known
    BY <1>5 DEF AccountInv, Carries, Reading
  <2> QED BY <1>1, <1>2, <2>1
<1>6. CASE change' = change
  <2>1. change' = [p \in Changes |-> change'[p]] /\ \A p \in Changes : change'[p] = change[p]
    BY <1>6 DEF AccountInv
  <2>2. Carries(change[r]) /\ ReadsOf(change[r])
    BY DEF AccountInv
  <2>3. Carries(change[r])'
    BY <2>1, <2>2 DEF Carries
  <2>4. ReadsOf(change[r])'
    <3>1. change[r].at \in Reading => table'[change[r].id] = table[change[r].id]
      BY <1>5
    <3> QED BY <2>1, <2>2, <3>1 DEF ReadsOf, Reading
  <2> QED BY <1>3, <1>4, <1>5, <2>1, <2>3, <2>4, RequestStep
<1>7. ASSUME NEW c \in {Idle, [at |-> "keys"]}, Goes(r, c) PROVE AccountInv'
  <2>1. /\ change'[r] = c /\ change' = [p \in Changes |-> change'[p]]
        /\ \A p \in Changes : p # r => change'[p] = change[p]
    BY <1>7, GoesIs
  <2>2. (Carries(change[r]) /\ ReadsOf(change[r]))'
    BY <2>1 DEF Carries, ReadsOf, Places, Idle
  <2> QED BY <1>3, <1>4, <1>5, <2>1, <2>2, RequestStep
<1> QED BY <1>6, <1>7

\* Only the list changes.
LEMMA ListStep ==
    ASSUME AccountInv, UNCHANGED <<table, known, change, atomic, raced>>, ListOK'
    PROVE  AccountInv'
BY DEF AccountInv, RowsOK, AccountsKept, Carries, ReadsOf

\* A request without a row carries nothing.
LEMMA SimpleCarries == Carries(Idle) /\ ReadsOf(Idle) /\
    \A p \in {"keys", "del"} : Carries([at |-> p]) /\ ReadsOf([at |-> p])
BY DEF Carries, ReadsOf, Idle, Places

\* After its statement a change is done or about to drop the list.
LEMMA InvalidatingIs == \A a : Invalidating(a) \in {Idle, [at |-> "keys"]}
BY DEF Invalidating

\* A statement of a change keeps the tables and what the other changes have
\* read.
LEMMA ChangeStep ==
    ASSUME AccountInv, NEW r \in Changes,
           \/ InsertUser(r) \/ FindAgain(r) \/ LoadRow(r) \/ SaveUser(r)
           \/ ReinsertUser(r) \/ UpdateAgent(r) \/ RemoveRowOf(r)
    PROVE  AccountInv'
<1>1. Carries(change[r]) /\ ReadsOf(change[r]) /\ RowsOK /\ ListOK /\ AccountsKept
  BY DEF AccountInv
<1>2. ASSUME Nothing PROVE UNCHANGED <<table, known, atomic, raced>> /\ ListOK'
  BY <1>1, <1>2 DEF Nothing, ListOK
<1>3. ASSUME NEW a \in known
      PROVE  a \in Ids /\ table[a] \in Rows(a) \cup {Gone} /\ atomic[a] \in Rows(a) \cup {Gone}
  BY <1>1 DEF RowsOK
<1>4. CASE InsertUser(r)
  <2>1. At(r, "insert") /\ change[r].row \in Rows(First)
    BY <1>1, <1>4 DEF InsertUser, At, Carries
  <2>2. PICK u \in Users \ known :
          \/ Goes(r, Idle) /\ Nothing
          \/ /\ table' = [table EXCEPT ![u] = change[r].row]
             /\ atomic' = [atomic EXCEPT ![u] = change[r].row]
             /\ known' = known \cup {u}
             /\ listed' = Outdated(listed)
             /\ page' = [l \in Lists |-> Outdated(page[l])]
             /\ Goes(r, Invalidating(u))
             /\ UNCHANGED raced
    BY <1>4 DEF InsertUser
  <2>3. CASE Goes(r, Idle) /\ Nothing
    BY <1>2, <2>3, SimpleCarries, MoveStep
  <2>4. CASE ~(Goes(r, Idle) /\ Nothing)
    <3>1. ListOK'
      BY <1>1, <2>2, <2>4 DEF ListOK, Outdated, Nothing
    <3>2. u \in Ids \ known /\ change[r].row \in Rows(u)
      BY <2>1, FirstIs DEF Ids
    <3>3. \E c \in {Idle, [at |-> "keys"]} : Goes(r, c)
      BY <2>2, <2>4, InvalidatingIs
    <3> QED BY <2>2, <2>4, <3>1, <3>2, <3>3, InsertStep
  <2> QED BY <2>3, <2>4
<1>5. CASE FindAgain(r)
  <2> DEFINE a == change[r].id
  <2>1. change[r].at = "find" /\ a \in known \cap Users /\ change[r].body \in Writes(a)
    BY <1>1, <1>5 DEF FindAgain, At, Carries
  <2>2. UNCHANGED <<table, known, atomic, raced>> /\ ListOK'
    BY <1>2, <1>5 DEF FindAgain
  <2>3. CASE table[a] = Gone
    <3>1. Goes(r, Idle)
      BY <1>5, <2>3 DEF FindAgain
    <3> QED BY <2>2, <3>1, SimpleCarries, MoveStep
  <2>4. CASE table[a] # Gone
    <3> DEFINE c == [at |-> "load", id |-> a, body |-> change[r].body,
                     entity |-> Over(table[a], change[r].body)]
    <3>1. Goes(r, c)
      BY <1>5, <2>4 DEF FindAgain, Set
    <3>2. table[a] \in Rows(a) /\ Over(table[a], change[r].body) \in Rows(a)
      BY <1>3, <2>1, <2>4, OverIs
    <3>3. Carries(c) /\ ReadsOf(c)
      BY <2>1, <2>4, <3>2 DEF Carries, ReadsOf, Places
    <3> HIDE DEF c
    <3> QED BY <2>2, <3>1, <3>3, MoveStep
  <2> QED BY <2>3, <2>4
<1>6. CASE LoadRow(r)
  <2> DEFINE a == change[r].id
             entity == change[r].entity
  <2>1. /\ change[r].at = "load" /\ a \in known \cap Users /\ change[r].body \in Writes(a)
        /\ entity \in Rows(a)
    BY <1>1, <1>6 DEF LoadRow, At, Carries
  <2>2. UNCHANGED <<table, known, atomic, raced>> /\ ListOK'
    BY <1>2, <1>6 DEF LoadRow
  <2>3. a \notin raced => table[a] # Gone /\ entity = Over(table[a], change[r].body)
    BY <1>1, <2>1 DEF ReadsOf
  <2>4. CASE table[a] = Gone
    <3> DEFINE c == [at |-> "reinsert", id |-> a, row |-> entity]
    <3>1. Goes(r, c)
      BY <1>6, <2>4 DEF LoadRow
    <3>2. Carries(c) /\ ReadsOf(c)
      BY <2>1, <2>3, <2>4 DEF Carries, ReadsOf, Places
    <3> HIDE DEF c
    <3> QED BY <2>2, <3>1, <3>2, MoveStep
  <2>5. CASE table[a] # Gone
    <3> DEFINE d == [k \in {k \in Columns(a) : entity[k] # table[a][k]} |-> entity[k]]
    <3>1. table[a] \in Rows(a) /\ a \in Ids
      BY <1>3, <2>1, <2>5
    <3>2. d \in Writes(a) /\ Over(table[a], d) = entity
      BY <2>1, <3>1, DifferIs
    <3>3. Goes(r, [at |-> "save", id |-> a, body |-> change[r].body, differ |-> d])
      BY <1>6, <2>5 DEF LoadRow
    <3> HIDE DEF d
    <3> DEFINE c == [at |-> "save", id |-> a, body |-> change[r].body, differ |-> d]
    <3>4. Carries(c) /\ ReadsOf(c)
      BY <2>1, <2>3, <2>5, <3>2 DEF Carries, ReadsOf, Places
    <3>5. Goes(r, c)
      BY <3>3
    <3> HIDE DEF c
    <3> QED BY <2>2, <3>4, <3>5, MoveStep
  <2> QED BY <2>4, <2>5
<1>7. CASE SaveUser(r)
  <2> DEFINE a == change[r].id
  <2>1. /\ change[r].at = "save" /\ a \in known \cap Users
        /\ change[r].body \in Writes(a) /\ change[r].differ \in Writes(a)
        /\ a \notin raced => table[a] # Gone /\ Over(table[a], change[r].differ) = Over(table[a], change[r].body)
    BY <1>1, <1>7 DEF SaveUser, At, Carries, ReadsOf
  <2>2. CASE Goes(r, Idle) /\ Nothing
    BY <1>2, <2>2, SimpleCarries, MoveStep
  <2>3. CASE ~(Goes(r, Idle) /\ Nothing)
    <3> DEFINE row == Set(table[a], change[r].differ)
               ideal == Set(atomic[a], change[r].body)
    <3>1. Written(r, a, row, ideal) /\ Goes(r, Invalidating(a))
      BY <1>7, <2>3 DEF SaveUser
    <3>2. row \in Rows(a) \cup {Gone} /\ ideal \in Rows(a) \cup {Gone}
      BY <1>3, <2>1, SetIs
    <3>3. ASSUME a \notin raced' PROVE row = ideal
      <4>1. a \notin raced /\ a \in Ids
        BY <1>3, <2>1, <3>1, <3>3 DEF Written
      <4>2. table[a] = atomic[a]
        BY <1>1, <4>1 DEF AccountsKept
      <4> QED BY <2>1, <4>1, <4>2 DEF Set
    <3>4. PICK c \in {Idle, [at |-> "keys"]} : Goes(r, c)
      BY <3>1, InvalidatingIs
    <3> HIDE DEF row, ideal
    <3> QED BY <2>1, <3>1, <3>2, <3>3, <3>4, WriteStep
  <2> QED BY <2>2, <2>3
<1>8. CASE ReinsertUser(r)
  <2> DEFINE a == change[r].id
  <2>1. change[r].at = "reinsert" /\ a \in known \cap Users /\ change[r].row \in Rows(a) /\ a \in raced
    BY <1>1, <1>8 DEF ReinsertUser, At, Carries, ReadsOf
  <2>2. CASE Goes(r, Idle) /\ Nothing
    BY <1>2, <2>2, SimpleCarries, MoveStep
  <2>3. CASE ~(Goes(r, Idle) /\ Nothing)
    <3>1. Written(r, a, change[r].row, atomic[a]) /\ Goes(r, Invalidating(a))
      BY <1>8, <2>3 DEF ReinsertUser
    <3>2. change[r].row \in Rows(a) \cup {Gone} /\ atomic[a] \in Rows(a) \cup {Gone} /\ a \in known
      BY <1>3, <2>1
    <3>3. a \in raced'
      BY <2>1, <3>1 DEF Written
    <3>4. PICK c \in {Idle, [at |-> "keys"]} : Goes(r, c)
      BY <3>1, InvalidatingIs
    <3> QED BY <3>1, <3>2, <3>3, <3>4, WriteStep
  <2> QED BY <2>2, <2>3
<1>9. CASE UpdateAgent(r)
  <2> DEFINE a == change[r].id
             row == Set(table[a], change[r].body)
             ideal == Set(atomic[a], change[r].body)
  <2>1. change[r].at = "update" /\ a \in known \cap Agents /\ change[r].body \in Writes(a)
    BY <1>1, <1>9 DEF UpdateAgent, At, Carries
  <2>2. Written(r, a, row, ideal) /\ Goes(r, Idle)
    BY <1>9 DEF UpdateAgent
  <2>3. row \in Rows(a) \cup {Gone} /\ ideal \in Rows(a) \cup {Gone}
    BY <1>3, <2>1, SetIs
  <2>4. row = ideal
    <3>1. a \in Ids \ raced
      BY <1>1, <1>3, <2>1, FirstIs DEF RowsOK
    <3> QED BY <1>1, <3>1 DEF AccountsKept
  <2>5. PICK c \in {Idle, [at |-> "keys"]} : Goes(r, c)
    BY <2>2
  <2> HIDE DEF row, ideal
  <2> QED BY <2>1, <2>2, <2>3, <2>4, <2>5, WriteStep
<1>10. CASE RemoveRowOf(r)
  <2> DEFINE a == change[r].id
  <2>1. a \in known
    BY <1>1, <1>10 DEF RemoveRowOf, At, Carries
  <2>2. Written(r, a, Gone, Gone) /\ Goes(r, Invalidating(a))
    BY <1>10 DEF RemoveRowOf
  <2>3. PICK c \in {Idle, [at |-> "keys"]} : Goes(r, c)
    BY <2>2, InvalidatingIs
  <2>4. Gone \in Rows(a) \cup {Gone}
    OBVIOUS
  <2> QED BY <2>1, <2>2, <2>3, <2>4, WriteStep
<1> QED BY <1>4, <1>5, <1>6, <1>7, <1>8, <1>9, <1>10

\* Every step keeps the invariant.
LEMMA AccountStep ==
    AccountInv /\ [AccountNext]_accountVars => AccountInv'
<1> SUFFICES ASSUME AccountInv, [AccountNext]_accountVars PROVE AccountInv'
  OBVIOUS
<1>1. ListOK /\ RowsOK
  BY DEF AccountInv
<1>2. ASSUME Nothing PROVE UNCHANGED <<table, known, atomic, raced>> /\ ListOK'
  BY <1>1, <1>2 DEF Nothing, ListOK
<1>3. ASSUME NEW r \in Changes, NEW row \in Created(First), CreateUser(r, row) PROVE AccountInv'
  <2> DEFINE c == [at |-> "insert", row |-> row]
  <2>1. Goes(r, c) /\ Nothing /\ row \in Rows(First)
    BY <1>3 DEF CreateUser, Created
  <2>2. Carries(c) /\ ReadsOf(c)
    BY <2>1 DEF Carries, ReadsOf, Places
  <2> HIDE DEF c
  <2> QED BY <1>2, <2>1, <2>2, MoveStep
<1>4. ASSUME NEW r \in Changes, NEW a \in Agents, NEW row \in Created(a), CreateAgent(r, a, row)
      PROVE  AccountInv'
  <2>1. /\ a \in Ids \ known /\ row \in Rows(a) /\ change' = change
        /\ table' = [table EXCEPT ![a] = row] /\ atomic' = [atomic EXCEPT ![a] = row]
        /\ known' = known \cup {a} /\ raced' = raced
    BY <1>4 DEF CreateAgent, Created, Ids
  <2>2. ListOK'
    BY <1>1, <1>4 DEF CreateAgent, ListOK
  <2> QED BY <2>1, <2>2, InsertStep
<1>5. ASSUME NEW r \in Changes, NEW a \in known, NEW body \in Bodies(a), Update(r, a, body)
      PROVE  AccountInv'
  <2> DEFINE c == [at |-> IF a \in Users THEN "find" ELSE "update", id |-> a, body |-> Parsed(a, body)]
  <2>1. Goes(r, c) /\ Nothing
    BY <1>5 DEF Update
  <2>2. a \in Ids /\ Parsed(a, body) \in Writes(a)
    BY <1>1, BodiesWrite DEF RowsOK
  <2>3. Carries(c) /\ ReadsOf(c)
    BY <2>2 DEF Carries, ReadsOf, Places, Ids
  <2> HIDE DEF c
  <2> QED BY <1>2, <2>1, <2>3, MoveStep
<1>6. ASSUME NEW r \in Changes, NEW a \in known, Remove(r, a) PROVE AccountInv'
  <2> DEFINE c == [at |-> "remove", id |-> a]
  <2>1. Goes(r, c) /\ Nothing
    BY <1>6 DEF Remove
  <2>2. Carries(c) /\ ReadsOf(c)
    BY DEF Carries, ReadsOf, Places
  <2> HIDE DEF c
  <2> QED BY <1>2, <2>1, <2>2, MoveStep
<1>7. ASSUME NEW r \in Changes, KeysOfList(r) \/ DropList(r) \/ RequestThrows(r) PROVE AccountInv'
  <2>1. UNCHANGED <<table, known, atomic, raced>>
    BY <1>7 DEF KeysOfList, DropList, RequestThrows, Nothing
  <2>2. ListOK'
    BY <1>1, <1>7 DEF KeysOfList, DropList, RequestThrows, Nothing, ListOK, NotInvalidated
  <2>3. Goes(r, Idle) \/ Goes(r, [at |-> "del"])
    BY <1>7 DEF KeysOfList, DropList, RequestThrows
  <2> QED BY <2>1, <2>2, <2>3, SimpleCarries, MoveStep
<1>8. ASSUME NEW l \in Lists, ListUsers(l) \/ CacheList(l) \/ ListThrows(l) PROVE AccountInv'
  <2>1. UNCHANGED <<table, known, change, atomic, raced>>
    BY <1>8 DEF ListUsers, CacheList, ListThrows
  <2>2. ListOK'
    BY <1>1, <1>8 DEF ListUsers, CacheList, ListThrows, Turns, ListOK
  <2> QED BY <2>1, <2>2, ListStep
<1>9. CASE ListExpires \/ UNCHANGED accountVars
  <2>1. UNCHANGED <<table, known, change, atomic, raced>>
    BY <1>9 DEF ListExpires, accountVars
  <2>2. ListOK'
    BY <1>1, <1>9 DEF ListExpires, accountVars, ListOK
  <2> QED BY <2>1, <2>2, ListStep
<1>10. CASE ReplicaDies
  <2>1. /\ change' = [r \in Changes |-> Idle] /\ page' = [l \in Lists |-> "idle"]
        /\ listed' = NotInvalidated(Changes) /\ UNCHANGED <<table, known, atomic, raced>>
    BY <1>10 DEF ReplicaDies
  <2>2. ListOK'
    BY <1>1, <2>1 DEF ListOK, NotInvalidated
  <2>3. \A r \in Changes : (Carries(change[r]) /\ ReadsOf(change[r]))'
    BY <2>1 DEF Carries, ReadsOf, Idle, Places
  <2>4. RowsOK' /\ AccountsKept'
    BY <2>1 DEF AccountInv, RowsOK, AccountsKept
  <2>5. change' = [r \in Changes |-> change'[r]]
    BY <2>1
  <2> QED BY <2>2, <2>3, <2>4, <2>5 DEF AccountInv
<1> QED BY <1>3, <1>4, <1>5, <1>6, <1>7, <1>8, <1>9, <1>10, ChangeStep DEF AccountNext

\* At first nobody has read anything.
LEMMA AccountInitially == AccountInit => AccountInv
<1> SUFFICES ASSUME AccountInit PROVE AccountInv
  OBVIOUS
<1>1. /\ known = {First, FirstAgent} /\ known \subseteq Ids
      /\ table = [a \in Ids |-> IF a \in known THEN [c \in Columns(a) |-> 1] ELSE Gone]
      /\ atomic = table /\ raced = {} /\ change = [r \in Changes |-> Idle]
  BY FirstIs DEF AccountInit, Ids
<1>2. \A a \in Ids : [c \in Columns(a) |-> 1] \in Rows(a)
  BY DEF Rows, Values
<1>3. RowsOK
  BY <1>1, <1>2 DEF RowsOK
<1>4. ListOK /\ AccountsKept
  BY <1>1 DEF AccountInit, ListOK, AccountsKept
<1>5. \A r \in Changes : Carries(change[r]) /\ ReadsOf(change[r])
  BY <1>1, SimpleCarries
<1> QED BY <1>1, <1>3, <1>4, <1>5 DEF AccountInv

\* The rows keep the columns of their table, an id is never used by a request
\* before it was given, and the list is one of four things.
THEOREM AccountTypeCorrect ==
    AccountSpec => []AccountTypeOK
BY AccountInitially, AccountStep, TypeFollows, PTL DEF AccountSpec

\* The tables are those of changes made one at a time, except where two
\* changes of a user cross: save() may insert a removed user again or write
\* what another has changed only while that user was written meanwhile.
THEOREM AccountsKeptHolds ==
    AccountSpec => []AccountsKept
<1>1. AccountInv => AccountsKept
  BY DEF AccountInv
<1> QED BY <1>1, AccountInitially, AccountStep, PTL DEF AccountSpec

--------------------------------------------------------------------------------
(* The cached list. *)

\* Of the requests only r moves, to c.
LEMMA ListFreshGoes ==
    ASSUME AccountInv, UserListFresh, NEW r \in Changes, NEW c, Goes(r, c),
           listed' = "stale" => listed = "stale" \/ c.at = "keys",
           listed = "stale" /\ listed' = "stale" /\ Invalidates(r) => c.at \in {"keys", "del"}
    PROVE  UserListFresh'
<1>1. change'[r] = c /\ \A p \in Changes : p # r => change'[p] = change[p]
  BY GoesIs
<1> SUFFICES ASSUME listed' = "stale" PROVE \E p \in Changes : change'[p].at \in {"keys", "del"}
  BY DEF UserListFresh, Invalidates, At
<1>2. CASE c.at \in {"keys", "del"}
  BY <1>1, <1>2
<1>3. CASE c.at \notin {"keys", "del"}
  <2>1. PICK p \in Changes : change[p].at \in {"keys", "del"}
    BY <1>3 DEF UserListFresh, Invalidates, At
  <2>2. p # r
    BY <1>3, <2>1 DEF UserListFresh, Invalidates, At
  <2> QED BY <1>1, <2>1, <2>2
<1> QED BY <1>2, <1>3

\* Every step keeps the cached list fresh, or excused.
LEMMA UserListStep ==
    AccountInv /\ UserListFresh /\ [AccountNext]_accountVars => UserListFresh'
<1> SUFFICES ASSUME AccountInv, UserListFresh, [AccountNext]_accountVars PROVE UserListFresh'
  OBVIOUS
<1>1. ASSUME NEW r \in Changes, NEW c, Goes(r, c), ~ Invalidates(r), UNCHANGED listed PROVE UserListFresh'
  BY <1>1, ListFreshGoes
<1>2. ASSUME NEW r \in Changes, ~ Invalidates(r), NEW a, Goes(r, Invalidating(a)),
             UNCHANGED listed \/ a \in Users
      PROVE  UserListFresh'
  <2>1. CASE UNCHANGED listed
    BY <1>1, <1>2, <2>1
  <2>2. CASE a \in Users
    <3>1. Goes(r, [at |-> "keys"])
      BY <1>2, <2>2 DEF Invalidating
    <3> QED BY <1>2, <3>1, ListFreshGoes
  <2> QED BY <1>2, <2>1, <2>2
<1>3. ASSUME NEW r \in Changes,
             \/ \E row \in Created(First) : CreateUser(r, row)
             \/ \E a \in known : \E body \in Bodies(a) : Update(r, a, body)
             \/ \E a \in known : Remove(r, a)
             \/ FindAgain(r) \/ LoadRow(r)
      PROVE  UserListFresh'
  <2>1. ~ Invalidates(r) /\ UNCHANGED listed /\ \E c : Goes(r, c)
    BY <1>3 DEF CreateUser, Update, Remove, FindAgain, LoadRow, Invalidates, At, Nothing
  <2> QED BY <1>1, <2>1
<1>4. ASSUME NEW r \in Changes, InsertUser(r) PROVE UserListFresh'
  <2>1. ~ Invalidates(r)
    BY <1>4 DEF InsertUser, Invalidates, At
  <2>2. PICK u \in Users : (Goes(r, Idle) /\ UNCHANGED listed) \/ Goes(r, Invalidating(u))
    BY <1>4 DEF InsertUser, Nothing
  <2> QED BY <1>1, <1>2, <2>1, <2>2
<1>5. ASSUME NEW r \in Changes, SaveUser(r) \/ ReinsertUser(r) \/ RemoveRowOf(r) PROVE UserListFresh'
  <2>1. ~ Invalidates(r)
    BY <1>5 DEF SaveUser, ReinsertUser, RemoveRowOf, Invalidates, At
  <2>2. \/ Goes(r, Idle) /\ UNCHANGED listed
        \/ Goes(r, Invalidating(change[r].id)) /\ (UNCHANGED listed \/ change[r].id \in Users)
    BY <1>5 DEF SaveUser, ReinsertUser, RemoveRowOf, Written, Nothing
  <2> QED BY <1>1, <1>2, <2>1, <2>2
<1>6. ASSUME NEW r \in Changes, UpdateAgent(r) PROVE UserListFresh'
  <2>1. ~ Invalidates(r) /\ change[r].at = "update"
    BY <1>6 DEF UpdateAgent, Invalidates, At
  <2>2. change[r].id \notin Users
    BY <2>1, FirstIs DEF AccountInv, Carries
  <2>3. Goes(r, Idle) /\ UNCHANGED listed
    BY <1>6, <2>2 DEF UpdateAgent, Written
  <2> QED BY <1>1, <2>1, <2>3
<1>7. ASSUME NEW r \in Changes, KeysOfList(r) PROVE UserListFresh'
  <2>1. UNCHANGED listed
    BY <1>7 DEF KeysOfList, Nothing
  <2>2. CASE listed = "none"
    BY <2>1, <2>2 DEF UserListFresh
  <2>3. CASE listed # "none"
    <3>1. Goes(r, [at |-> "del"])
      BY <1>7, <2>3 DEF KeysOfList
    <3> QED BY <2>1, <3>1, ListFreshGoes
  <2> QED BY <2>2, <2>3
<1>8. ASSUME NEW r \in Changes, RequestThrows(r) PROVE UserListFresh'
  <2>1. Goes(r, Idle) /\ listed' = NotInvalidated({r})
    BY <1>8 DEF RequestThrows
  <2>2. /\ listed' = "stale" => listed = "stale"
        /\ listed = "stale" /\ listed' = "stale" => ~ Invalidates(r)
    BY <2>1 DEF NotInvalidated
  <2> QED BY <2>1, <2>2, ListFreshGoes
<1>9. CASE ReplicaDies
  <2>1. listed' = NotInvalidated(Changes)
    BY <1>9 DEF ReplicaDies
  <2>2. listed' # "stale"
    BY <2>1 DEF NotInvalidated, UserListFresh
  <2> QED BY <2>2 DEF UserListFresh
<1>10. CASE \/ \E r \in Changes : DropList(r)
            \/ \E l \in Lists : CacheList(l)
            \/ ListExpires
  <2>1. listed' # "stale"
    BY <1>10 DEF DropList, CacheList, ListExpires
  <2> QED BY <2>1 DEF UserListFresh
<1>11. CASE \/ \E r \in Changes, a \in Agents : \E row \in Created(a) : CreateAgent(r, a, row)
            \/ \E l \in Lists : ListUsers(l) \/ ListThrows(l)
            \/ UNCHANGED accountVars
  <2>1. UNCHANGED <<listed, change>>
    BY <1>11 DEF CreateAgent, ListUsers, ListThrows, accountVars
  <2> QED BY <2>1 DEF UserListFresh, Invalidates, At
<1> QED BY <1>3, <1>4, <1>5, <1>6, <1>7, <1>8, <1>9, <1>10, <1>11 DEF AccountNext

\* A list in Redis shows the users as they are, unless a handler is about to
\* drop it, its reader was outdated when it set it, or its invalidation failed:
\* KEYS finds the list that a change has made outdated, whoever sets it when.
THEOREM UserListFreshHolds ==
    AccountSpec => []UserListFresh
<1>1. AccountInit => UserListFresh
  BY DEF AccountInit, UserListFresh
<1> QED BY <1>1, AccountInitially, AccountStep, UserListStep, PTL DEF AccountSpec
================================================================================
