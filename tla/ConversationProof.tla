--------------------------- MODULE ConversationProof ---------------------------
(***************************************************************************)
(* The history of a conversation for every number of queries, deliveries,  *)
(* messages kept and disturbances: no message is lost in the race of two   *)
(* replicas, the list of Redis always has an expiry or a process about to  *)
(* set one, and while operations do not overlap it is the end of the table.*)
(* And the text of an answer, of any length and in chunks of any size: what*)
(* the page shows of it live is what it shows when it is loaded again.     *)
(***************************************************************************)
EXTENDS ConversationHistory, AnswerText, SequenceTheorems, WellFoundedInduction, TLAPS

\* s is the part of t that ends k elements before the end.
Part(s, t, k) ==
    /\ Len(s) + k <= Len(t)
    /\ \A i \in 1..Len(s) : s[i] = t[Len(t) - k - Len(s) + i]

--------------------------------------------------------------------------------
(* Sequences. *)

\* What Append, Tail and Latest (the trim of the list) do to each place.
LEMMA AppendIs ==
    ASSUME NEW S, NEW s \in Seq(S), NEW e \in S
    PROVE  /\ Append(s, e) \in Seq(S) /\ Len(s) \in Nat /\ Len(Append(s, e)) = Len(s) + 1
           /\ \A i \in 1..Len(s) : Append(s, e)[i] = s[i]
           /\ Append(s, e)[Len(s) + 1] = e
  BY LenProperties

LEMMA TailIs ==
    ASSUME NEW S, NEW s \in Seq(S), s # <<>>
    PROVE  /\ Tail(s) \in Seq(S) /\ Len(s) \in Nat \ {0} /\ Len(Tail(s)) = Len(s) - 1
           /\ \A i \in 1..(Len(s) - 1) : Tail(s)[i] = s[i + 1]
           /\ Head(s) = s[1] /\ Head(s) \in S
  BY EmptySeq, LenProperties, HeadTailProperties

LEMMA LatestIs ==
    ASSUME NEW S, NEW s \in Seq(S)
    PROVE  /\ Latest(s) \in Seq(S) /\ Len(Latest(s)) \in Nat /\ Len(Latest(s)) <= Len(s)
           /\ \A i \in 1..Len(Latest(s)) : Latest(s)[i] = s[Len(s) - Len(Latest(s)) + i]
           /\ s # <<>> => Latest(s) # <<>>
<1> DEFINE m == IF Len(s) > MaxHistory THEN Len(s) - MaxHistory + 1 ELSE 1
           n == Len(s)
<1>1. n \in Nat /\ MaxHistory \in Nat \ {0}
  BY LenProperties, HistoryAssumption DEF HistoryAssumption
<1>2. m \in Int /\ n \in Int /\ m >= 1 /\ m <= n + 1 /\ (n > 0 => m <= n)
  BY <1>1
<1>3. \A i \in m..n : s[i] \in S
  BY <1>1, <1>2, ElementOfSeq
<1> HIDE DEF m, n
<1>4. /\ SubSeq(s, m, n) \in Seq(S) /\ Len(SubSeq(s, m, n)) = IF m <= n THEN n - m + 1 ELSE 0
      /\ \A i \in 1..(n - m + 1) : SubSeq(s, m, n)[i] = s[m + i - 1]
  BY <1>2, <1>3, SubSeqProperties
<1>5. Latest(s) = SubSeq(s, m, n)
  BY DEF Latest, m, n
<1>6. Len(SubSeq(s, m, n)) = n - m + 1 /\ n - m + 1 \in Nat /\ n - m + 1 <= n
  BY <1>1, <1>2, <1>4
<1>7. \A i \in 1..(n - m + 1) : SubSeq(s, m, n)[i] = s[n - (n - m + 1) + i]
  <2> SUFFICES ASSUME NEW i \in 1..(n - m + 1) PROVE SubSeq(s, m, n)[i] = s[n - (n - m + 1) + i]
    OBVIOUS
  <2>1. m + i - 1 = n - (n - m + 1) + i
    BY <1>1, <1>2
  <2> QED BY <1>4, <2>1
<1>8. s # <<>> => Latest(s) # <<>>
  <2> SUFFICES ASSUME s # <<>> PROVE Latest(s) # <<>>
    OBVIOUS
  <2>1. n > 0
    BY EmptySeq DEF n
  <2>2. Len(Latest(s)) > 0
    BY <1>1, <1>2, <1>5, <1>6, <2>1
  <2> QED BY <2>2, EmptySeq
<1> QED BY <1>4, <1>5, <1>6, <1>7, <1>8 DEF n

\* An element appended is in the range.
LEMMA RangeAppend ==
    ASSUME NEW S, NEW s \in Seq(S), NEW e \in S
    PROVE  Range(Append(s, e)) = Range(s) \cup {e}
<1>1. /\ Len(s) \in Nat /\ Append(s, e) \in Seq(S) /\ Len(Append(s, e)) = Len(s) + 1
      /\ \A i \in 1..Len(s) : Append(s, e)[i] = s[i]
      /\ Append(s, e)[Len(s) + 1] = e
  BY AppendIs
<1>2. Range(Append(s, e)) = {Append(s, e)[i] : i \in 1..Len(Append(s, e))} /\ Range(s) = {s[i] : i \in 1..Len(s)}
  BY <1>1, RangeEquality
<1>3. \A i \in 1..(Len(s) + 1) : i \in 1..Len(s) \/ i = Len(s) + 1
  BY <1>1
<1>4. 1..Len(s) \subseteq 1..(Len(s) + 1) /\ Len(s) + 1 \in 1..(Len(s) + 1)
  BY <1>1
<1> QED BY <1>1, <1>2, <1>3, <1>4

\* No messages are a part, wherever it ends.
LEMMA PartEmpty ==
    ASSUME NEW S, NEW s \in Seq(S), NEW t \in Seq(S), NEW k \in Nat, Part(s, t, k)
    PROVE  Part(<<>>, t, k)
<1>1. Len(s) \in Nat /\ Len(t) \in Nat
  BY LenProperties
<1> QED BY <1>1 DEF Part

\* The element behind a part may be appended to it.
LEMMA PartAppend ==
    ASSUME NEW S, NEW s \in Seq(S), NEW t \in Seq(S), NEW k \in Nat, k > 0, Part(s, t, k)
    PROVE  Part(Append(s, t[Len(t) - k + 1]), t, k - 1)
<1>1. Len(s) \in Nat /\ Len(t) \in Nat /\ Len(s) + k <= Len(t)
  BY LenProperties DEF Part
<1> DEFINE e == t[Len(t) - k + 1]
           u == Append(s, e)
<1>2. e \in S
  BY <1>1, ElementOfSeq
<1> HIDE DEF e
<1>3. /\ Len(u) = Len(s) + 1 /\ u[Len(s) + 1] = e /\ \A i \in 1..Len(s) : u[i] = s[i]
  BY <1>2, AppendIs
<1> HIDE DEF u
<1>4. ASSUME NEW i \in 1..Len(u) PROVE u[i] = t[Len(t) - (k - 1) - Len(u) + i]
  <2>1. CASE i = Len(s) + 1
    <3>1. Len(t) - (k - 1) - Len(u) + i = Len(t) - k + 1
      BY <1>1, <1>3, <2>1
    <3> QED BY <1>3, <2>1, <3>1 DEF e
  <2>2. CASE i \in 1..Len(s)
    <3>1. Len(t) - (k - 1) - Len(u) + i = Len(t) - k - Len(s) + i
      BY <1>1, <1>3
    <3>2. s[i] = t[Len(t) - k - Len(s) + i]
      BY <2>2 DEF Part
    <3> QED BY <1>3, <2>2, <3>1, <3>2
  <2> QED BY <1>1, <1>3, <2>1, <2>2
<1>5. Len(u) + (k - 1) <= Len(t)
  BY <1>1, <1>3
<1>6. Part(u, t, k - 1)
  BY <1>4, <1>5 DEF Part
<1> QED BY <1>6 DEF u, e

\* What was the end of a table is one short of the end when it grows.
LEMMA PartGrown ==
    ASSUME NEW S, NEW s \in Seq(S), NEW t \in Seq(S), NEW e \in S, Part(s, t, 0)
    PROVE  Part(s, Append(t, e), 1)
<1>1. /\ Len(s) \in Nat /\ Len(t) \in Nat /\ Len(s) <= Len(t) /\ Len(Append(t, e)) = Len(t) + 1
      /\ \A i \in 1..Len(t) : Append(t, e)[i] = t[i]
  BY LenProperties, AppendIs DEF Part
<1>2. ASSUME NEW i \in 1..Len(s) PROVE s[i] = Append(t, e)[Len(t) + 1 - 1 - Len(s) + i]
  <2>1. s[i] = t[Len(t) - 0 - Len(s) + i] /\ Len(t) - 0 - Len(s) + i \in 1..Len(t)
    BY <1>1 DEF Part
  <2>2. Len(t) + 1 - 1 - Len(s) + i = Len(t) - 0 - Len(s) + i
    BY <1>1
  <2> QED BY <1>1, <2>1, <2>2
<1> QED BY <1>1, <1>2 DEF Part

\* The end of an end is an end.
LEMMA PartLatest ==
    ASSUME NEW S, NEW s \in Seq(S), NEW t \in Seq(S), Part(s, t, 0)
    PROVE  Part(Latest(s), t, 0)
<1> DEFINE u == Latest(s)
<1>1. /\ Len(u) \in Nat /\ Len(u) <= Len(s) /\ Len(s) \in Nat /\ Len(t) \in Nat /\ Len(s) <= Len(t)
      /\ \A i \in 1..Len(u) : u[i] = s[Len(s) - Len(u) + i]
  BY LatestIs, LenProperties DEF Part
<1> HIDE DEF u
<1>2. ASSUME NEW i \in 1..Len(u) PROVE u[i] = t[Len(t) - 0 - Len(u) + i]
  <2>1. Len(s) - Len(u) + i \in 1..Len(s)
    BY <1>1
  <2>2. s[Len(s) - Len(u) + i] = t[Len(t) - 0 - Len(s) + (Len(s) - Len(u) + i)]
    BY <2>1 DEF Part
  <2>3. Len(t) - 0 - Len(s) + (Len(s) - Len(u) + i) = Len(t) - 0 - Len(u) + i
    BY <1>1
  <2> QED BY <1>1, <2>2, <2>3
<1>3. Part(u, t, 0)
  BY <1>1, <1>2 DEF Part
<1> QED BY <1>3 DEF u

LEMMA PartOfItself ==
    ASSUME NEW S, NEW s \in Seq(S)
    PROVE  Part(s, s, 0)
<1>1. Len(s) \in Nat
  BY LenProperties
<1>2. \A i \in 1..Len(s) : Len(s) - 0 - Len(s) + i = i
  BY <1>1
<1> QED BY <1>1, <1>2 DEF Part

\* What follows the head of an end is an end, and the head is where it began.
LEMMA PartTail ==
    ASSUME NEW S, NEW s \in Seq(S), s # <<>>, NEW t \in Seq(S), Part(s, t, 0)
    PROVE  Part(Tail(s), t, 0) /\ Head(s) = t[Len(t) - Len(s) + 1]
<1> DEFINE u == Tail(s)
<1>1. /\ Len(s) \in Nat \ {0} /\ Len(u) = Len(s) - 1 /\ Len(t) \in Nat /\ Len(s) <= Len(t)
      /\ \A i \in 1..(Len(s) - 1) : u[i] = s[i + 1]
      /\ Head(s) = s[1]
  BY TailIs, LenProperties DEF Part
<1> HIDE DEF u
<1>2. ASSUME NEW i \in 1..Len(u) PROVE u[i] = t[Len(t) - 0 - Len(u) + i]
  <2>1. i + 1 \in 1..Len(s) /\ Len(t) - 0 - Len(s) + (i + 1) = Len(t) - 0 - Len(u) + i
    BY <1>1
  <2>2. s[i + 1] = t[Len(t) - 0 - Len(s) + (i + 1)]
    BY <2>1 DEF Part
  <2> QED BY <1>1, <2>1, <2>2
<1>3. Part(u, t, 0)
  BY <1>1, <1>2 DEF Part
<1>4. s[1] = t[Len(t) - 0 - Len(s) + 1] /\ Len(t) - 0 - Len(s) + 1 = Len(t) - Len(s) + 1
  BY <1>1 DEF Part
<1> QED BY <1>1, <1>3, <1>4 DEF u

\* What IsSuffix of the community modules says.
LEMMA PartIsSuffix ==
    ASSUME NEW S, NEW s \in Seq(S), NEW t \in Seq(S), Part(s, t, 0)
    PROVE  IsSuffix(s, t)
<1>0. Len(s) \in Nat /\ Len(t) \in Nat /\ Len(s) <= Len(t)
  BY LenProperties DEF Part
<1>1. ASSUME NEW w \in Seq(S)
      PROVE  /\ Reverse(w) \in Seq(S) /\ Len(Reverse(w)) = Len(w)
             /\ \A i \in 1..Len(w) : Reverse(w)[i] = w[Len(w) - i + 1]
  <2>1. Len(w) \in Nat /\ \A i \in 1..Len(w) : w[Len(w) - i + 1] \in S
    <3>1. \A i \in 1..Len(w) : Len(w) - i + 1 \in 1..Len(w)
      BY LenProperties
    <3> QED BY <3>1, LenProperties, ElementOfSeq
  <2>2. Reverse(w) \in [1..Len(w) -> S]
    BY <2>1 DEF Reverse
  <2> QED BY <2>1, <2>2 DEF Reverse
<1> DEFINE n == Len(s)
           a == SubSeq(Reverse(s), 1, n)
           b == SubSeq(Reverse(t), 1, n)
<1>2. /\ a \in Seq(S) /\ Len(a) = n /\ \A i \in 1..n : a[i] = Reverse(s)[i]
      /\ b \in Seq(S) /\ Len(b) = n /\ \A i \in 1..n : b[i] = Reverse(t)[i]
  <2>1. ASSUME NEW w \in Seq(S), n <= Len(w)
        PROVE  /\ SubSeq(w, 1, n) \in Seq(S) /\ Len(SubSeq(w, 1, n)) = n
               /\ \A i \in 1..n : SubSeq(w, 1, n)[i] = w[i]
    <3>1. Len(w) \in Nat /\ \A i \in 1..n : w[i] \in S
      BY <1>0, <2>1, LenProperties, ElementOfSeq
    <3>2. /\ SubSeq(w, 1, n) \in Seq(S) /\ Len(SubSeq(w, 1, n)) = IF 1 <= n THEN n - 1 + 1 ELSE 0
          /\ \A i \in 1..(n - 1 + 1) : SubSeq(w, 1, n)[i] = w[1 + i - 1]
      BY <1>0, <3>1, SubSeqProperties
    <3>3. \A i \in 1..n : 1 + i - 1 = i
      BY <1>0
    <3> QED BY <1>0, <3>2, <3>3
  <2> QED BY <1>0, <1>1, <2>1
<1>3. \A i \in 1..n : a[i] = b[i]
  <2> SUFFICES ASSUME NEW i \in 1..n PROVE a[i] = b[i]
    OBVIOUS
  <2>1. n - i + 1 \in 1..n /\ Len(t) - 0 - n + (n - i + 1) = Len(t) - i + 1 /\ i \in 1..Len(t)
    BY <1>0
  <2>2. s[n - i + 1] = t[Len(t) - i + 1]
    BY <2>1 DEF Part
  <2> QED BY <1>1, <1>2, <2>1, <2>2
<1>4. a = b
  BY <1>2, <1>3, SeqEqual
<1> QED BY <1>0, <1>1, <1>4 DEF IsSuffix, IsPrefix

--------------------------------------------------------------------------------
(* Types. *)

Statuses == {"idle", "done", "dead"} \cup Reading \cup Saving \cup Turning

\* A row comes from lastId, a fill has something to push, a query that waits
\* has a delivery left.
TypeInv ==
    /\ HistoryTypeOK
    /\ \A q \in Asks :
          /\ conv[q] <= lastId
          /\ at[q] = "fill" => toPush[q] # <<>>
          /\ at[q] = "idle" => attempt[q] < MaxTries[q]

\* At first the conversation has no row.
LEMMA TypeInit ==
    HistoryInit => TypeInv
<1> SUFFICES ASSUME HistoryInit PROVE TypeInv
  OBVIOUS
<1>1. <<>> \in Seq(Chat)
  BY EmptySeq
<1>2. \A q \in Asks : MaxTries[q] > 0 /\ MaxTries[q] \in Nat
  BY HistoryAssumption DEF HistoryAssumption
<1>3. HistoryTypeOK
  <2>1. /\ row = 0 /\ lastId = 0 /\ log = <<>> /\ cache = <<>> /\ ttl = FALSE
        /\ at = [q \in Asks |-> "idle"] /\ toPush = [q \in Asks |-> <<>>]
        /\ role = [q \in Asks |-> "user"] /\ conv = [q \in Asks |-> 0]
        /\ attempt = [q \in Asks |-> 0] /\ removal = [id |-> 0, step |-> "none"]
        /\ alone = TRUE /\ whole = TRUE /\ faulty = FALSE /\ disturbed = 0
    BY DEF HistoryInit, NoRemoval
  <2>2. MaxDisturbed \in Nat
    BY HistoryAssumption DEF HistoryAssumption
  <2>3. /\ at \in [Asks -> Statuses] /\ toPush \in [Asks -> Seq(Chat)]
        /\ role \in [Asks -> {"user", "assistant"}]
        /\ conv \in [Asks -> Nat] /\ attempt \in [Asks -> Nat]
        /\ \A q \in Asks : attempt[q] <= MaxTries[q]
    BY <1>1, <1>2, <2>1 DEF Statuses
  <2>4. removal \in [id : Nat, step : {"none", "del", "delete"}] /\ disturbed \in 0..MaxDisturbed
    BY <2>1, <2>2
  <2>5. log \in Seq(Chat) /\ cache \in Seq(Chat) /\ row \in Nat /\ lastId \in Nat /\ row <= lastId
    BY <1>1, <2>1
  <2>6. ttl \in BOOLEAN /\ {alone, whole, faulty} \subseteq BOOLEAN
    BY <2>1
  <2> QED BY <2>3, <2>4, <2>5, <2>6 DEF HistoryTypeOK, Statuses
<1>4. \A q \in Asks : conv[q] <= lastId /\ at[q] # "fill" /\ attempt[q] < MaxTries[q]
  BY <1>2 DEF HistoryInit
<1> QED BY <1>3, <1>4 DEF TypeInv

\* A process goes to a new status; nothing else is removed or delivered.
LEMMA TypeMoves ==
    ASSUME TypeInv, NEW q \in Asks, NEW v \in Statuses, at' = [at EXCEPT ![q] = v],
           attempt' = attempt, removal' = removal,
           ttl' \in BOOLEAN, alone' \in BOOLEAN, whole' \in BOOLEAN, faulty' \in BOOLEAN,
           disturbed' \in 0..MaxDisturbed,
           row' \in Nat, lastId' \in Nat, row' <= lastId',
           log' \in Seq(Chat), cache' \in Seq(Chat),
           role' \in [Asks -> {"user", "assistant"}],
           conv' \in [Asks -> Nat], \A p \in Asks : conv'[p] <= lastId',
           toPush' \in [Asks -> Seq(Chat)],
           \A p \in Asks : p # q /\ at[p] = "fill" => toPush'[p] = toPush[p],
           v = "fill" => toPush'[q] # <<>>, v = "idle" => attempt[q] < MaxTries[q]
    PROVE  TypeInv'
<1>1. at \in [Asks -> Statuses] /\ at' \in [Asks -> Statuses]
  BY DEF Statuses, TypeInv, HistoryTypeOK
<1>2. HistoryTypeOK'
  BY <1>1 DEF Statuses, TypeInv, HistoryTypeOK
<1>3. ASSUME NEW p \in Asks
      PROVE  /\ conv'[p] <= lastId'
             /\ at'[p] = "fill" => toPush'[p] # <<>>
             /\ at'[p] = "idle" => attempt'[p] < MaxTries[p]
  <2>1. CASE p = q
    BY <1>1, <2>1
  <2>2. CASE p # q
    BY <1>1, <2>2 DEF TypeInv
  <2> QED BY <2>1, <2>2
<1> QED BY <1>2, <1>3 DEF TypeInv

\* What TypeMoves needs of a variable that keeps its value.
LEMMA TypeKeeps ==
    ASSUME TypeInv
    PROVE  /\ at \in [Asks -> Statuses] /\ attempt \in [Asks -> Nat]
           /\ ttl \in BOOLEAN /\ alone \in BOOLEAN /\ whole \in BOOLEAN /\ faulty \in BOOLEAN
           /\ disturbed \in 0..MaxDisturbed
           /\ row \in Nat /\ lastId \in Nat /\ row <= lastId
           /\ log \in Seq(Chat) /\ cache \in Seq(Chat)
           /\ role \in [Asks -> {"user", "assistant"}]
           /\ conv \in [Asks -> Nat] /\ \A p \in Asks : conv[p] <= lastId
           /\ toPush \in [Asks -> Seq(Chat)]
  BY DEF TypeInv, HistoryTypeOK, Statuses

\* A disturbance is counted.
LEMMA TypeFault ==
    ASSUME TypeInv, Fault
    PROVE  alone' \in BOOLEAN /\ whole' \in BOOLEAN /\ faulty' \in BOOLEAN /\ disturbed' \in 0..MaxDisturbed
<1>1. disturbed \in 0..MaxDisturbed /\ MaxDisturbed \in Nat
  BY TypeKeeps, HistoryAssumption DEF HistoryAssumption
<1>2. /\ disturbed < MaxDisturbed /\ disturbed' = disturbed + 1
      /\ alone' = FALSE /\ whole' = FALSE /\ faulty' = TRUE
  BY DEF Fault, Spoilt
<1>3. disturbed' \in 0..MaxDisturbed
  BY <1>1, <1>2
<1> QED BY <1>2, <1>3

\* The commands that fill the list keep the types, fail or fall back ...
LEMMA TypeReads ==
    ASSUME TypeInv, NEW q \in Asks, ReadStep(q) \/ ReadThrows(q) \/ FallsBackReading(q)
    PROVE  TypeInv'
<1>1. /\ at \in [Asks -> Statuses] /\ attempt \in [Asks -> Nat]
      /\ ttl \in BOOLEAN /\ alone \in BOOLEAN /\ whole \in BOOLEAN /\ faulty \in BOOLEAN
      /\ disturbed \in 0..MaxDisturbed
      /\ row \in Nat /\ lastId \in Nat /\ row <= lastId
      /\ log \in Seq(Chat) /\ cache \in Seq(Chat)
      /\ role \in [Asks -> {"user", "assistant"}]
      /\ conv \in [Asks -> Nat] /\ \A p \in Asks : conv[p] <= lastId
      /\ toPush \in [Asks -> Seq(Chat)]
  BY TypeKeeps
<1>2. \A v \in {"range", "find", "fill", "ttl", "build"} : v \in Statuses
  BY DEF Statuses, Reading, Turning
<1>3. CASE Start(q)
  <2>1. /\ at[q] = "idle" /\ at' = [at EXCEPT ![q] = "range"] /\ alone' = (alone /\ Quiet)
        /\ attempt' = [attempt EXCEPT ![q] = attempt[q] + 1] /\ role' = [role EXCEPT ![q] = "user"]
        /\ UNCHANGED <<row, lastId, log, cache, ttl, toPush, conv, removal, whole, faulty, disturbed>>
    BY <1>3 DEF Start, Moves, tableVars, listVars
  <2>2. attempt[q] < MaxTries[q] /\ MaxTries[q] \in Nat
    BY <2>1, HistoryAssumption DEF HistoryAssumption, TypeInv
  <2>3. /\ at' \in [Asks -> Statuses] /\ role' \in [Asks -> {"user", "assistant"}]
        /\ attempt' \in [Asks -> Nat] /\ \A p \in Asks : attempt'[p] <= MaxTries[p]
    <3>1. at' \in [Asks -> Statuses] /\ role' \in [Asks -> {"user", "assistant"}]
      BY <1>1, <1>2, <2>1 DEF TypeInv, HistoryTypeOK
    <3>2. attempt' \in [Asks -> Nat] /\ \A p \in Asks : attempt'[p] <= MaxTries[p]
      BY <1>1, <2>1, <2>2 DEF TypeInv, HistoryTypeOK
    <3> QED BY <3>1, <3>2
  <2>4. alone' \in BOOLEAN
    BY <2>1
  <2>5. HistoryTypeOK'
    BY <2>1, <2>3, <2>4 DEF TypeInv, HistoryTypeOK, Statuses
  <2>6. ASSUME NEW p \in Asks
        PROVE  /\ conv'[p] <= lastId'
               /\ at'[p] = "fill" => toPush'[p] # <<>>
               /\ at'[p] = "idle" => attempt'[p] < MaxTries[p]
    <3>1. CASE p = q
      BY <1>1, <2>1, <3>1
    <3>2. CASE p # q
      BY <1>1, <2>1, <3>2 DEF TypeInv, HistoryTypeOK
    <3> QED BY <3>1, <3>2
  <2> QED BY <2>5, <2>6 DEF TypeInv
<1>4. CASE ReadList(q)
  <2>1. PICK v \in {"find", "build"} :
          /\ at' = [at EXCEPT ![q] = v]
          /\ UNCHANGED <<row, lastId, log, cache, ttl, toPush, role, conv, attempt, removal,
                        alone, whole, faulty, disturbed>>
    BY <1>4 DEF ReadList, Moves, tableVars, listVars, turnVars, countVars
  <2> QED BY <1>1, <1>2, <2>1, TypeMoves
<1>5. CASE FindMessages(q)
  <2>1. /\ at' = [at EXCEPT ![q] = IF log = <<>> THEN "build" ELSE "fill"]
        /\ toPush' = [toPush EXCEPT ![q] = Latest(log)]
        /\ UNCHANGED <<row, lastId, log, cache, ttl, role, conv, attempt, removal,
                      alone, whole, faulty, disturbed>>
    BY <1>5 DEF FindMessages, Moves, tableVars, listVars, turnVars, countVars
  <2>2. Latest(log) \in Seq(Chat) /\ (log # <<>> => Latest(log) # <<>>)
    BY <1>1, LatestIs
  <2>3. PICK v \in {"build", "fill"} : /\ at' = [at EXCEPT ![q] = v]
                                       /\ v = "fill" => Latest(log) # <<>>
    BY <2>1, <2>2
  <2> QED BY <1>1, <1>2, <2>1, <2>2, <2>3, TypeMoves
<1>6. ASSUME Filled(q)
      PROVE  /\ toPush[q] # <<>> /\ Tail(toPush[q]) \in Seq(Chat) /\ Head(toPush[q]) \in Chat
             /\ toPush' \in [Asks -> Seq(Chat)] /\ \A p \in Asks : p # q => toPush'[p] = toPush[p]
             /\ \E v \in {"fill", "ttl"} : /\ at' = [at EXCEPT ![q] = v]
                                           /\ v = "fill" => toPush'[q] # <<>>
  <2>1. /\ at[q] = "fill" /\ toPush' = [toPush EXCEPT ![q] = Tail(toPush[q])]
        /\ at' = [at EXCEPT ![q] = IF Len(toPush[q]) = 1 THEN "ttl" ELSE "fill"]
    BY <1>6 DEF Filled, Moves
  <2>2. toPush[q] # <<>>
    BY <2>1 DEF TypeInv
  <2>3. /\ Tail(toPush[q]) \in Seq(Chat) /\ Head(toPush[q]) \in Chat
        /\ Len(toPush[q]) \in Nat \ {0} /\ Len(Tail(toPush[q])) = Len(toPush[q]) - 1
    BY <1>1, <2>2, TailIs
  <2>4. ASSUME Len(toPush[q]) # 1 PROVE Tail(toPush[q]) # <<>>
    <3>1. Len(Tail(toPush[q])) # 0
      BY <2>3, <2>4
    <3> QED BY <3>1, EmptySeq
  <2>5. /\ toPush' \in [Asks -> Seq(Chat)] /\ \A p \in Asks : p # q => toPush'[p] = toPush[p]
        /\ toPush'[q] = Tail(toPush[q])
    BY <1>1, <2>1, <2>3
  <2> QED BY <2>1, <2>2, <2>3, <2>4, <2>5
<1>7. CASE FillNext(q)
  <2>1. /\ Filled(q) /\ cache' = Append(cache, Head(toPush[q]))
        /\ UNCHANGED <<row, lastId, log, ttl, role, conv, attempt, removal,
                      alone, whole, faulty, disturbed>>
    BY <1>7 DEF FillNext, tableVars, turnVars, countVars
  <2>2. PICK v \in {"fill", "ttl"} : /\ at' = [at EXCEPT ![q] = v]
                                     /\ v = "fill" => toPush'[q] # <<>>
    BY <1>6, <2>1
  <2>3. /\ toPush' \in [Asks -> Seq(Chat)] /\ \A p \in Asks : p # q => toPush'[p] = toPush[p]
        /\ Head(toPush[q]) \in Chat
    BY <1>6, <2>1
  <2>4. cache' \in Seq(Chat)
    BY <1>1, <2>1, <2>3, AppendIs
  <2>5. UNCHANGED <<row, lastId, log, ttl, role, conv, attempt, removal, alone, whole, faulty, disturbed>>
    BY <2>1
  <2>6. v \in Statuses /\ v # "idle"
    BY <1>2
  <2>7. /\ attempt' = attempt /\ removal' = removal
        /\ ttl' \in BOOLEAN /\ alone' \in BOOLEAN /\ whole' \in BOOLEAN /\ faulty' \in BOOLEAN
        /\ disturbed' \in 0..MaxDisturbed
        /\ row' \in Nat /\ lastId' \in Nat /\ row' <= lastId' /\ log' \in Seq(Chat)
        /\ role' \in [Asks -> {"user", "assistant"}]
        /\ conv' \in [Asks -> Nat] /\ \A p \in Asks : conv'[p] <= lastId'
    BY <1>1, <2>5
  <2> QED BY <2>2, <2>3, <2>4, <2>6, <2>7, TypeMoves
<1>8. CASE FillEnds(q)
  <2>1. /\ at' = [at EXCEPT ![q] = "build"] /\ ttl' = (cache # <<>>)
        /\ UNCHANGED <<row, lastId, log, cache, toPush, role, conv, attempt, removal,
                      alone, whole, faulty, disturbed>>
    BY <1>8 DEF FillEnds, Moves, tableVars, turnVars, countVars
  <2>2. ttl' \in BOOLEAN
    BY <2>1
  <2> QED BY <1>1, <1>2, <2>1, <2>2, TypeMoves
<1>9. ASSUME Fault PROVE alone' \in BOOLEAN /\ whole' \in BOOLEAN /\ faulty' \in BOOLEAN /\ disturbed' \in 0..MaxDisturbed
  BY <1>9, TypeFault
<1>10. CASE ReadThrows(q)
  <2>1. /\ Fault /\ at' = [at EXCEPT ![q] = "build"] /\ toPush' = [toPush EXCEPT ![q] = <<>>]
        /\ UNCHANGED <<row, lastId, log, cache, ttl, role, conv, attempt, removal>>
    BY <1>10 DEF ReadThrows, tableVars, listVars, turnVars
  <2>2. <<>> \in Seq(Chat)
    BY EmptySeq
  <2> QED BY <1>1, <1>2, <1>9, <2>1, <2>2, TypeMoves
<1>11. CASE FallsBackReading(q)
  <2>1. /\ Fault /\ UNCHANGED <<row, lastId, log, cache, ttl, role, conv, attempt, removal>>
        /\ \/ \E v \in {"find", "build"} : at' = [at EXCEPT ![q] = v] /\ UNCHANGED toPush
           \/ Filled(q)
    BY <1>11 DEF FallsBackReading, Moves, tableVars, listVars, turnVars
  <2>2. CASE Filled(q)
    <3>1. PICK v \in {"fill", "ttl"} : /\ at' = [at EXCEPT ![q] = v]
                                       /\ v = "fill" => toPush'[q] # <<>>
      BY <1>6, <2>2
    <3>2. toPush' \in [Asks -> Seq(Chat)] /\ \A p \in Asks : p # q => toPush'[p] = toPush[p]
      BY <1>6, <2>2
    <3>3. v \in Statuses /\ v # "idle"
      BY <1>2
    <3>4. alone' \in BOOLEAN /\ whole' \in BOOLEAN /\ faulty' \in BOOLEAN /\ disturbed' \in 0..MaxDisturbed
      BY <2>1, TypeFault
    <3>5. UNCHANGED <<row, lastId, log, cache, ttl, role, conv, attempt, removal>>
      BY <2>1
    <3>6. /\ attempt' = attempt /\ removal' = removal /\ ttl' \in BOOLEAN
          /\ row' \in Nat /\ lastId' \in Nat /\ row' <= lastId'
          /\ log' \in Seq(Chat) /\ cache' \in Seq(Chat)
          /\ role' \in [Asks -> {"user", "assistant"}]
          /\ conv' \in [Asks -> Nat] /\ \A p \in Asks : conv'[p] <= lastId'
      BY <1>1, <3>5
    <3> QED BY <3>1, <3>2, <3>3, <3>4, <3>6, TypeMoves
  <2>3. ASSUME NEW v \in {"find", "build"}, at' = [at EXCEPT ![q] = v], UNCHANGED toPush
        PROVE  TypeInv'
    BY <1>1, <1>2, <1>9, <2>1, <2>3, TypeMoves
  <2> QED BY <2>1, <2>2, <2>3
<1> QED BY <1>3, <1>4, <1>5, <1>7, <1>8, <1>10, <1>11 DEF ReadStep

\* ... and so do those that save a message and the nodes of the graph.
LEMMA TypeTurns ==
    ASSUME TypeInv, NEW q \in Asks, SaveStep(q) \/ TurnStep(q) \/ SaveThrows(q) \/ FallsBackSaving(q)
    PROVE  TypeInv'
<1>1. /\ at \in [Asks -> Statuses] /\ attempt \in [Asks -> Nat]
      /\ ttl \in BOOLEAN /\ alone \in BOOLEAN /\ whole \in BOOLEAN /\ faulty \in BOOLEAN
      /\ disturbed \in 0..MaxDisturbed
      /\ row \in Nat /\ lastId \in Nat /\ row <= lastId
      /\ log \in Seq(Chat) /\ cache \in Seq(Chat)
      /\ role \in [Asks -> {"user", "assistant"}]
      /\ conv \in [Asks -> Nat] /\ \A p \in Asks : conv[p] <= lastId
      /\ toPush \in [Asks -> Seq(Chat)]
  BY TypeKeeps
<1>2. \A v \in {"create", "refind", "insert", "bump", "push", "trim", "renew", "conv", "model",
               "answered", "route", "done", "idle", "dead"} : v \in Statuses /\ v # "fill"
  BY DEF Statuses, Saving, Turning
<1>3. AfterSave(q) \in {"route", "answered"}
  BY DEF AfterSave
<1>4. [ask |-> q, role |-> role[q]] \in Chat
  BY <1>1 DEF Chat
<1>5. CASE FindConversation(q)
  <2>1. /\ conv' = [conv EXCEPT ![q] = row]
        /\ UNCHANGED <<row, lastId, log, cache, ttl, toPush, role, attempt, removal,
                      alone, whole, faulty, disturbed>>
        /\ \E v \in {"create", "insert"} : at' = [at EXCEPT ![q] = v]
    BY <1>5 DEF FindConversation, Moves, tableVars, listVars, countVars
  <2>2. conv' \in [Asks -> Nat] /\ \A p \in Asks : conv'[p] <= lastId'
    BY <1>1, <2>1
  <2> QED BY <1>1, <1>2, <2>1, <2>2, TypeMoves
<1>6. CASE CreateConversation(q)
  <2>1. /\ UNCHANGED <<log, cache, ttl, toPush, role, attempt, removal, alone, whole, faulty, disturbed>>
        /\ \E v \in {"refind", "insert"} : at' = [at EXCEPT ![q] = v]
        /\ \/ row' = lastId + 1 /\ lastId' = lastId + 1 /\ conv' = [conv EXCEPT ![q] = lastId + 1]
           \/ UNCHANGED <<row, lastId, conv>>
    BY <1>6 DEF CreateConversation, Moves, listVars, countVars
  <2>2. /\ row' \in Nat /\ lastId' \in Nat /\ row' <= lastId'
        /\ conv' \in [Asks -> Nat] /\ \A p \in Asks : conv'[p] <= lastId'
    <3>1. CASE UNCHANGED <<row, lastId, conv>>
      BY <1>1, <3>1
    <3>2. CASE row' = lastId + 1 /\ lastId' = lastId + 1 /\ conv' = [conv EXCEPT ![q] = lastId + 1]
      <4>1. lastId + 1 \in Nat /\ conv' \in [Asks -> Nat]
        BY <1>1, <3>2
      <4>2. ASSUME NEW p \in Asks PROVE conv'[p] <= lastId'
        <5>1. conv[p] \in Nat /\ conv[p] <= lastId /\ conv'[p] \in {conv[p], lastId + 1}
          BY <1>1, <3>2
        <5> QED BY <1>1, <3>2, <5>1
      <4> QED BY <1>1, <3>2, <4>1, <4>2
    <3> QED BY <2>1, <3>1, <3>2
  <2> QED BY <1>1, <1>2, <2>1, <2>2, TypeMoves
<1>7. CASE RefindConversation(q)
  <2>1. /\ conv' = [conv EXCEPT ![q] = row]
        /\ UNCHANGED <<row, lastId, log, cache, ttl, toPush, role, attempt, removal,
                      alone, whole, faulty, disturbed>>
        /\ \E v \in {"route", "answered", "insert"} : at' = [at EXCEPT ![q] = v]
    BY <1>3, <1>7 DEF RefindConversation, Moves, tableVars, listVars, countVars
  <2>2. conv' \in [Asks -> Nat] /\ \A p \in Asks : conv'[p] <= lastId'
    BY <1>1, <2>1
  <2> QED BY <1>1, <1>2, <2>1, <2>2, TypeMoves
<1>8. CASE InsertMessage(q)
  <2>1. /\ log' = IF row = conv[q] THEN Append(log, [ask |-> q, role |-> role[q]]) ELSE log
        /\ UNCHANGED <<row, lastId, cache, ttl, toPush, role, conv, attempt, removal,
                      alone, whole, faulty, disturbed>>
        /\ \E v \in {"route", "answered", "bump"} : at' = [at EXCEPT ![q] = v]
    BY <1>3, <1>8 DEF InsertMessage, Moves, listVars, turnVars, countVars
  <2>2. log' \in Seq(Chat)
    BY <1>1, <1>4, <2>1, AppendIs
  <2> QED BY <1>1, <1>2, <2>1, <2>2, TypeMoves
<1>9. CASE SaveConversation(q)
  <2>1. /\ row' = IF row = 0 THEN conv[q] ELSE row
        /\ UNCHANGED <<lastId, log, cache, ttl, toPush, role, conv, attempt, removal,
                      alone, whole, faulty, disturbed>>
        /\ \E v \in {"route", "answered", "push"} : at' = [at EXCEPT ![q] = v]
    BY <1>3, <1>9 DEF SaveConversation, Moves, listVars, turnVars, countVars
  <2>2. row' \in Nat /\ row' <= lastId'
    BY <1>1, <2>1
  <2> QED BY <1>1, <1>2, <2>1, <2>2, TypeMoves
<1>10. CASE PushMessage(q) \/ TrimList(q) \/ RenewExpiry(q)
  <2>1. /\ UNCHANGED <<row, lastId, log, toPush, role, conv, attempt, removal,
                      alone, whole, faulty, disturbed>>
        /\ \E v \in {"route", "answered", "trim", "renew"} : at' = [at EXCEPT ![q] = v]
        /\ cache' \in {cache, Append(cache, [ask |-> q, role |-> role[q]]), Latest(cache)}
        /\ ttl' \in {ttl, cache # <<>>}
    BY <1>3, <1>10 DEF PushMessage, TrimList, RenewExpiry, Moves, tableVars, turnVars, countVars
  <2>2. cache' \in Seq(Chat)
    <3>1. Append(cache, [ask |-> q, role |-> role[q]]) \in Seq(Chat)
      BY <1>1, <1>4, AppendIs
    <3>2. Latest(cache) \in Seq(Chat)
      BY <1>1, LatestIs
    <3> QED BY <1>1, <2>1, <3>1, <3>2
  <2>3. ttl' \in BOOLEAN
    BY <1>1, <2>1
  <2> QED BY <1>1, <1>2, <2>1, <2>2, <2>3, TypeMoves
<1>11. CASE TurnStep(q)
  <2>1. UNCHANGED <<row, lastId, log, cache, ttl, toPush, conv, attempt, removal,
                    alone, whole, faulty, disturbed>>
    BY <1>11 DEF TurnStep, ProcessInput, Route, CallModel, TurnFails, Answered, SameStores,
                 tableVars, listVars, countVars
  <2>2. role' \in [Asks -> {"user", "assistant"}]
    BY <1>1, <1>11 DEF TurnStep, ProcessInput, Route, CallModel, TurnFails, Answered, Saves
  <2>3. \E v \in {"conv", "model", "answered", "done", "idle", "dead"} :
            at' = [at EXCEPT ![q] = v] /\ (v = "idle" => attempt[q] < MaxTries[q])
    BY <1>11 DEF TurnStep, ProcessInput, Route, CallModel, TurnFails, Answered, Moves, Redelivery
  <2>4. PICK v \in {"conv", "model", "answered", "done", "idle", "dead"} :
            at' = [at EXCEPT ![q] = v] /\ (v = "idle" => attempt[q] < MaxTries[q])
    BY <2>3
  <2>5. v \in Statuses /\ v # "fill" BY <1>2
  <2> QED BY <1>1, <2>1, <2>2, <2>4, <2>5, TypeMoves
<1>12. CASE SaveThrows(q) \/ FallsBackSaving(q)
  <2>1. /\ Fault /\ UNCHANGED <<row, lastId, log, cache, ttl, toPush, role, conv, attempt, removal>>
        /\ \E v \in {"route", "answered", "trim", "renew"} : at' = [at EXCEPT ![q] = v]
    BY <1>3, <1>12 DEF SaveThrows, FallsBackSaving, Moves, tableVars, listVars, turnVars
  <2>2. alone' \in BOOLEAN /\ whole' \in BOOLEAN /\ faulty' \in BOOLEAN /\ disturbed' \in 0..MaxDisturbed
    BY <2>1, TypeFault
  <2> QED BY <1>1, <1>2, <2>1, <2>2, TypeMoves
<1> QED BY <1>5, <1>6, <1>7, <1>8, <1>9, <1>10, <1>11, <1>12 DEF SaveStep


\* Every step keeps the types.
LEMMA TypeStep ==
    TypeInv /\ [HistoryNext]_historyVars => TypeInv'
<1> SUFFICES ASSUME TypeInv, [HistoryNext]_historyVars PROVE TypeInv'
  OBVIOUS
<1>1. /\ at \in [Asks -> Statuses] /\ attempt \in [Asks -> Nat] /\ toPush \in [Asks -> Seq(Chat)]
      /\ disturbed \in 0..MaxDisturbed /\ row \in Nat /\ lastId \in Nat /\ row <= lastId
      /\ removal \in [id : Nat, step : {"none", "del", "delete"}] /\ MaxDisturbed \in Nat
      /\ <<>> \in Seq(Chat) /\ "idle" \in Statuses /\ "dead" \in Statuses
  BY TypeKeeps, EmptySeq, HistoryAssumption DEF HistoryAssumption, TypeInv, HistoryTypeOK, Statuses
<1>2. ASSUME NEW q \in Asks, ReadStep(q) \/ ReadThrows(q) \/ FallsBackReading(q) PROVE TypeInv'
  BY <1>2, TypeReads
<1>3. ASSUME NEW q \in Asks, SaveStep(q) \/ TurnStep(q) \/ SaveThrows(q) \/ FallsBackSaving(q) PROVE TypeInv'
  BY <1>3, TypeTurns
<1>4. ASSUME NEW qs \in SUBSET Asks, CrashHistory(qs) PROVE TypeInv'
  <2>1. /\ Fault /\ UNCHANGED <<row, lastId, log, cache, ttl, role, conv, attempt, removal>>
        /\ at' = [q \in Asks |-> IF q \in qs THEN Redelivery(q) ELSE at[q]]
        /\ toPush' = [q \in Asks |-> IF q \in qs THEN <<>> ELSE toPush[q]]
    BY <1>4 DEF CrashHistory, tableVars, listVars, turnVars
  <2>2. alone' \in BOOLEAN /\ whole' \in BOOLEAN /\ faulty' \in BOOLEAN /\ disturbed' \in 0..MaxDisturbed
    BY <2>1, TypeFault
  <2>3. \A q \in Asks : /\ Redelivery(q) \in {"idle", "dead"}
                        /\ Redelivery(q) = "idle" => attempt[q] < MaxTries[q]
    BY DEF Redelivery
  <2>4. at' \in [Asks -> Statuses] /\ toPush' \in [Asks -> Seq(Chat)]
    BY <1>1, <2>1, <2>3
  <2>5. HistoryTypeOK'
    BY <2>1, <2>2, <2>4 DEF TypeInv, HistoryTypeOK, Statuses
  <2>6. \A p \in Asks : /\ conv'[p] <= lastId'
                        /\ at'[p] = "fill" => toPush'[p] # <<>>
                        /\ at'[p] = "idle" => attempt'[p] < MaxTries[p]
    BY <1>1, <2>1, <2>3 DEF TypeInv
  <2> QED BY <2>5, <2>6 DEF TypeInv
<1>5. ASSUME UNCHANGED <<at, attempt, toPush, lastId, role, conv>>, row' \in Nat, row' <= lastId,
             log' \in Seq(Chat), cache' \in Seq(Chat), ttl' \in BOOLEAN,
             alone' \in BOOLEAN, whole' \in BOOLEAN, faulty' \in BOOLEAN, disturbed' \in 0..MaxDisturbed,
             removal' \in [id : Nat, step : {"none", "del", "delete"}]
      PROVE  TypeInv'
  BY <1>5 DEF TypeInv, HistoryTypeOK
<1>6. NoRemoval \in [id : Nat, step : {"none", "del", "delete"}]
  BY DEF NoRemoval
<1>7. /\ log \in Seq(Chat) /\ cache \in Seq(Chat) /\ ttl \in BOOLEAN
      /\ alone \in BOOLEAN /\ whole \in BOOLEAN /\ faulty \in BOOLEAN
  BY TypeKeeps
<1>8. CASE Delete
  <2>1. /\ disturbed < MaxDisturbed /\ disturbed' = disturbed + 1 /\ whole' = FALSE /\ alone' = (alone /\ Quiet)
        /\ removal' = [id |-> row, step |-> "del"]
        /\ UNCHANGED <<at, attempt, toPush, lastId, role, conv, row, log, cache, ttl, faulty>>
    BY <1>8 DEF Delete, tableVars, listVars, turnVars
  <2>2. disturbed' \in 0..MaxDisturbed
    BY <1>1, <2>1
  <2>3. removal' \in [id : Nat, step : {"none", "del", "delete"}]
    BY <1>1, <2>1
  <2>4. alone' \in BOOLEAN
    BY <2>1
  <2> QED BY <1>1, <1>5, <1>7, <2>1, <2>2, <2>3, <2>4
<1>9. CASE DeleteList \/ DeleteRow \/ ClearSessionCache \/ ExpireList
  <2>1. /\ UNCHANGED <<at, attempt, toPush, lastId, role, conv, alone, whole, faulty, disturbed>>
        /\ row' \in {row, 0} /\ log' \in {log, <<>>} /\ cache' \in {cache, <<>>} /\ ttl' \in {ttl, FALSE}
        /\ removal' \in {removal, [removal EXCEPT !.step = "delete"], NoRemoval}
    BY <1>9 DEF DeleteList, DeleteRow, ClearSessionCache, ExpireList, tableVars, listVars, turnVars, countVars
  <2>2. removal' \in [id : Nat, step : {"none", "del", "delete"}]
    BY <1>1, <1>6, <2>1
  <2>3. row' \in Nat /\ row' <= lastId
    BY <1>1, <2>1
  <2>4. ttl' \in BOOLEAN /\ log' \in Seq(Chat) /\ cache' \in Seq(Chat)
    BY <1>1, <1>7, <2>1
  <2> QED BY <1>1, <1>5, <1>7, <2>1, <2>2, <2>3, <2>4
<1>10. CASE RemovalFails
  <2>1. /\ UNCHANGED <<at, attempt, toPush, lastId, role, conv, row, log, cache, ttl, disturbed>>
        /\ alone' = FALSE /\ whole' = FALSE /\ faulty' = TRUE
        /\ removal' \in {[removal EXCEPT !.step = "delete"], NoRemoval}
    BY <1>10 DEF RemovalFails, Spoilt, tableVars, listVars, turnVars
  <2>2. removal' \in [id : Nat, step : {"none", "del", "delete"}]
    BY <1>1, <1>6, <2>1
  <2> QED BY <1>1, <1>5, <1>7, <2>1, <2>2
<1>11. CASE UNCHANGED historyVars
  BY <1>1, <1>5, <1>7, <1>11
     DEF historyVars, tableVars, listVars, turnVars, countVars
<1> QED BY <1>2, <1>3, <1>4, <1>8, <1>9, <1>10, <1>11 DEF HistoryNext

\* The row of the conversation is one its sequence has drawn, no query is
\* delivered more often than its queue allows, and a fill of the list always
\* has a message left to push.
THEOREM HistoryTypeCorrect ==
    HistorySpec => []HistoryTypeOK
<1>1. HistorySpec => []TypeInv
  BY TypeInit, TypeStep, PTL DEF HistorySpec
<1> QED BY <1>1, PTL DEF TypeInv

--------------------------------------------------------------------------------
(* The expiry. *)

Setting == {"fill", "ttl", "trim", "renew"}

\* Only a fill that ends, or a renewal, gives up the duty to set the expiry;
\* what pushes to the list takes it on.
LEMMA ExpiryMoves ==
    ASSUME TypeInv, ExpiryPending, NEW q \in Asks, at[q] \notin Setting, NEW v,
           at' = [at EXCEPT ![q] = v], UNCHANGED <<cache, ttl>>, faulty' = faulty
    PROVE  ExpiryPending'
<1> SUFFICES ASSUME ~faulty, cache # <<>>, ~ttl PROVE \E p \in Asks : at'[p] \in Setting
  BY DEF ExpiryPending, Setting
<1>1. PICK p \in Asks : at[p] \in Setting
  BY DEF ExpiryPending, Setting
<1>2. p # q /\ at'[p] = at[p]
  BY <1>1, TypeKeeps
<1> QED BY <1>1, <1>2

\* Every step leaves an expiry, or somebody about to set one.
LEMMA ExpiryStep ==
    TypeInv /\ ExpiryPending /\ [HistoryNext]_historyVars => ExpiryPending'
<1> SUFFICES ASSUME TypeInv, ExpiryPending, [HistoryNext]_historyVars PROVE ExpiryPending'
  OBVIOUS
<1>1. at \in [Asks -> Statuses]
  BY TypeKeeps
<1>2. ASSUME faulty' \/ cache' = <<>> \/ ttl' PROVE ExpiryPending'
  BY <1>2 DEF ExpiryPending
<1>3. ASSUME UNCHANGED <<at, cache, ttl, faulty>> PROVE ExpiryPending'
  BY <1>3 DEF ExpiryPending
<1>4. ASSUME NEW q \in Asks, ReadStep(q) \/ ReadThrows(q) \/ FallsBackReading(q) PROVE ExpiryPending'
  <2>1. CASE ReadThrows(q) \/ FallsBackReading(q)
    BY <1>2, <2>1 DEF ReadThrows, FallsBackReading, Fault, Spoilt
  <2>2. CASE Start(q) \/ ReadList(q) \/ FindMessages(q)
    <3>1. at[q] \notin Setting /\ (\E v : at' = [at EXCEPT ![q] = v]) /\ UNCHANGED <<cache, ttl>> /\ faulty' = faulty
      BY <2>2 DEF Start, ReadList, FindMessages, Moves, Setting, listVars, countVars
    <3> QED BY <3>1, ExpiryMoves
  <2>3. CASE FillNext(q)
    <3>1. at'[q] \in {"ttl", "fill"}
      BY <1>1, <2>3 DEF FillNext, Filled, Moves
    <3> QED BY <3>1 DEF ExpiryPending
  <2>4. CASE FillEnds(q)
    BY <2>4 DEF FillEnds, ExpiryPending
  <2> QED BY <1>4, <2>1, <2>2, <2>3, <2>4 DEF ReadStep
<1>5. ASSUME NEW q \in Asks, SaveStep(q) \/ TurnStep(q) \/ SaveThrows(q) \/ FallsBackSaving(q) PROVE ExpiryPending'
  <2>1. CASE SaveThrows(q) \/ FallsBackSaving(q)
    BY <1>2, <2>1 DEF SaveThrows, FallsBackSaving, Fault, Spoilt
  <2>2. CASE \/ FindConversation(q) \/ CreateConversation(q) \/ RefindConversation(q)
             \/ InsertMessage(q) \/ SaveConversation(q)
    <3>1. at[q] \notin Setting /\ (\E v : at' = [at EXCEPT ![q] = v]) /\ UNCHANGED <<cache, ttl>> /\ faulty' = faulty
      BY <2>2 DEF FindConversation, CreateConversation, RefindConversation, InsertMessage,
                  SaveConversation, Moves, Setting, listVars, countVars
    <3> QED BY <3>1, ExpiryMoves
  <2>3. CASE PushMessage(q) \/ TrimList(q)
    <3>1. at'[q] \in {"trim", "renew"}
      BY <1>1, <2>3 DEF PushMessage, TrimList, Moves
    <3> QED BY <3>1 DEF ExpiryPending
  <2>4. CASE RenewExpiry(q)
    BY <2>4 DEF RenewExpiry, ExpiryPending
  <2>5. CASE TurnStep(q)
    <3>1. UNCHANGED <<cache, ttl>> /\ faulty' = faulty
      BY <2>5 DEF TurnStep, ProcessInput, Route, CallModel, TurnFails, Answered, SameStores, listVars, countVars
    <3>2. at[q] \notin Setting /\ (\E v : at' = [at EXCEPT ![q] = v])
      BY <2>5 DEF TurnStep, ProcessInput, Route, CallModel, TurnFails, Answered, Moves, Setting
    <3> QED BY <3>1, <3>2, ExpiryMoves
  <2> QED BY <1>5, <2>1, <2>2, <2>3, <2>4, <2>5 DEF SaveStep
<1>6. CASE (\E qs \in SUBSET Asks : CrashHistory(qs)) \/ RemovalFails
  BY <1>2, <1>6 DEF CrashHistory, RemovalFails, Fault, Spoilt
<1>7. CASE Delete \/ DeleteRow \/ UNCHANGED historyVars
  BY <1>3, <1>7 DEF Delete, DeleteRow, historyVars, listVars, countVars
<1>8. CASE DeleteList \/ ClearSessionCache \/ ExpireList
  BY <1>2, <1>8 DEF DeleteList, ClearSessionCache, ExpireList
<1> QED BY <1>4, <1>5, <1>6, <1>7, <1>8 DEF HistoryNext

\* A history never stays in Redis for good: between the first command of a
\* getHistory or a saveMessage and its EXPIRE, whatever runs beside it, the
\* list has an expiry or a process that is about to set one.
THEOREM ExpiryPendingHolds ==
    HistorySpec => []ExpiryPending
<1>1. HistoryInit => ExpiryPending
  BY DEF HistoryInit, ExpiryPending
<1> QED BY <1>1, TypeInit, TypeStep, ExpiryStep, PTL DEF HistorySpec

--------------------------------------------------------------------------------
(* The race of two replicas. *)

\* Past the INSERT of saveMessage.
Inserted == {"bump", "push", "trim", "renew"}

\* A turn that needs its message to be in the table.
Recorded(q) ==
    at[q] \in {"route", "model"} \cup Inserted \/ (at[q] \in Saving /\ role[q] = "assistant")

\* A process that found or created the conversation holds its id, and what it
\* asked is in the table once it is past saving it.
Saved(q) ==
    /\ at[q] = "refind" => row # 0
    /\ at[q] \in {"insert"} \cup Inserted => row # 0 /\ conv[q] = row
    /\ Recorded(q) => [ask |-> q, role |-> "user"] \in Range(log)

RaceInv == whole => removal = NoRemoval /\ \A q \in Asks : Saved(q)

\* A step of q leaves what the others have saved.
LEMMA RaceMoves ==
    ASSUME TypeInv, RaceInv, NEW q \in Asks, whole' = whole, removal' = removal,
           \A p \in Asks : p # q => at'[p] = at[p] /\ role'[p] = role[p] /\ conv'[p] = conv[p],
           row' = row \/ row = 0, Range(log) \subseteq Range(log'),
           whole => Saved(q)'
    PROVE  RaceInv'
<1> SUFFICES ASSUME whole PROVE removal' = NoRemoval /\ \A p \in Asks : Saved(p)'
  BY DEF RaceInv
<1>1. ASSUME NEW p \in Asks, p # q PROVE Saved(p)'
  <2>1. Saved(p) /\ at'[p] = at[p] /\ role'[p] = role[p] /\ conv'[p] = conv[p]
    BY <1>1 DEF RaceInv
  <2>2. at'[p] = "refind" => row' # 0
    BY <2>1 DEF Saved
  <2>3. at'[p] \in {"insert"} \cup Inserted => row' # 0 /\ conv'[p] = row'
    BY <2>1 DEF Saved
  <2>4. Recorded(p)' => [ask |-> p, role |-> "user"] \in Range(log')
    BY <2>1 DEF Saved, Recorded
  <2> QED BY <2>2, <2>3, <2>4 DEF Saved
<1> QED BY <1>1 DEF RaceInv

\* A fill writes nothing that was saved ...
LEMMA RaceReads ==
    ASSUME TypeInv, RaceInv, NEW q \in Asks, ReadStep(q)
    PROVE  RaceInv'
<1>1. at \in [Asks -> Statuses] /\ role \in [Asks -> {"user", "assistant"}]
  BY TypeKeeps
<1>2. /\ \E v \in Reading \cup {"build"} : at' = [at EXCEPT ![q] = v]
      /\ role' = role \/ role' = [role EXCEPT ![q] = "user"]
      /\ UNCHANGED <<row, log, conv, removal, whole>>
  BY DEF ReadStep, Start, ReadList, FindMessages, FillNext, FillEnds, Filled, Moves, Reading,
         tableVars, listVars, turnVars, countVars
<1>3. at'[q] \in Reading \cup {"build"}
  BY <1>1, <1>2
<1>4. Saved(q)'
  BY <1>3 DEF Saved, Recorded, Inserted, Saving, Reading
<1>5. \A p \in Asks : p # q => at'[p] = at[p] /\ role'[p] = role[p] /\ conv'[p] = conv[p]
  BY <1>1, <1>2
<1>6. Range(log) \subseteq Range(log') /\ row' = row /\ removal' = removal /\ whole' = whole
  BY <1>2
<1> QED BY <1>4, <1>5, <1>6, RaceMoves

\* ... and a save writes to the row it found or created.
LEMMA RaceTurns ==
    ASSUME TypeInv, RaceInv, NEW q \in Asks, SaveStep(q) \/ TurnStep(q)
    PROVE  RaceInv'
<1>1. /\ at \in [Asks -> Statuses] /\ role \in [Asks -> {"user", "assistant"}]
      /\ conv \in [Asks -> Nat] /\ log \in Seq(Chat) /\ row \in Nat /\ lastId \in Nat
  BY TypeKeeps
<1>2. [ask |-> q, role |-> role[q]] \in Chat /\ role[q] \in {"user", "assistant"}
  BY <1>1 DEF Chat
<1>3. ASSUME Saved(q), at[q] \in Saving, at'[q] = AfterSave(q), role' = role, log' = log,
             role[q] = "user" => at[q] \in Inserted
      PROVE  Saved(q)'
  <2>1. CASE role[q] = "assistant"
    BY <1>3, <2>1 DEF AfterSave, Saved, Recorded, Inserted, Saving
  <2>2. CASE role[q] = "user"
    BY <1>3, <2>2 DEF AfterSave, Saved, Recorded, Inserted
  <2> QED BY <1>2, <2>1, <2>2
<1>4. CASE FindConversation(q)
  <2>1. /\ at[q] = "conv" /\ at' = [at EXCEPT ![q] = IF row = 0 THEN "create" ELSE "insert"]
        /\ conv' = [conv EXCEPT ![q] = row] /\ UNCHANGED <<row, log, role, removal, whole>>
    BY <1>4 DEF FindConversation, Moves, tableVars, countVars
  <2>2. /\ at'[q] = (IF row = 0 THEN "create" ELSE "insert") /\ conv'[q] = row
        /\ \A p \in Asks : p # q => at'[p] = at[p] /\ role'[p] = role[p] /\ conv'[p] = conv[p]
    BY <1>1, <2>1
  <2>3. ASSUME whole PROVE Saved(q)'
    <3>1. Saved(q)
      BY <2>3 DEF RaceInv
    <3> QED BY <2>1, <2>2, <3>1 DEF Saved, Recorded, Inserted, Saving
  <2> QED BY <2>1, <2>2, <2>3, RaceMoves
<1>5. CASE CreateConversation(q)
  <2>1. /\ at[q] = "create" /\ at' = [at EXCEPT ![q] = IF row = 0 THEN "insert" ELSE "refind"]
        /\ UNCHANGED <<log, role, removal, whole>>
        /\ \/ row = 0 /\ row' = lastId + 1 /\ conv' = [conv EXCEPT ![q] = lastId + 1]
           \/ row # 0 /\ UNCHANGED <<row, conv>>
    BY <1>5 DEF CreateConversation, Moves, countVars
  <2>2. /\ at'[q] = (IF row = 0 THEN "insert" ELSE "refind")
        /\ row = 0 => conv'[q] = row' /\ row' # 0
        /\ \A p \in Asks : p # q => at'[p] = at[p] /\ role'[p] = role[p] /\ conv'[p] = conv[p]
    BY <1>1, <2>1
  <2>3. ASSUME whole PROVE Saved(q)'
    <3>1. Saved(q)
      BY <2>3 DEF RaceInv
    <3> QED BY <2>1, <2>2, <3>1 DEF Saved, Recorded, Inserted, Saving
  <2> QED BY <2>1, <2>2, <2>3, RaceMoves
<1>6. CASE RefindConversation(q)
  <2>1. /\ at[q] = "refind" /\ at' = [at EXCEPT ![q] = IF row = 0 THEN AfterSave(q) ELSE "insert"]
        /\ conv' = [conv EXCEPT ![q] = row] /\ UNCHANGED <<row, log, role, removal, whole>>
    BY <1>6 DEF RefindConversation, Moves, tableVars, countVars
  <2>2. /\ at'[q] = (IF row = 0 THEN AfterSave(q) ELSE "insert") /\ conv'[q] = row
        /\ \A p \in Asks : p # q => at'[p] = at[p] /\ role'[p] = role[p] /\ conv'[p] = conv[p]
    BY <1>1, <2>1
  <2>3. ASSUME whole PROVE Saved(q)'
    <3>1. Saved(q) /\ row # 0
      BY <2>1, <2>3 DEF RaceInv, Saved
    <3> QED BY <2>1, <2>2, <3>1 DEF Saved, Recorded, Inserted, Saving
  <2> QED BY <2>1, <2>2, <2>3, RaceMoves
<1>7. CASE InsertMessage(q)
  <2>1. /\ at[q] = "insert" /\ at' = [at EXCEPT ![q] = IF row = conv[q] THEN "bump" ELSE AfterSave(q)]
        /\ log' = IF row = conv[q] THEN Append(log, [ask |-> q, role |-> role[q]]) ELSE log
        /\ UNCHANGED <<row, role, conv, removal, whole>>
    BY <1>7 DEF InsertMessage, Moves, turnVars, countVars
  <2>2. /\ at'[q] = (IF row = conv[q] THEN "bump" ELSE AfterSave(q))
        /\ \A p \in Asks : p # q => at'[p] = at[p] /\ role'[p] = role[p] /\ conv'[p] = conv[p]
    BY <1>1, <2>1
  <2>3. Range(Append(log, [ask |-> q, role |-> role[q]])) = Range(log) \cup {[ask |-> q, role |-> role[q]]}
    BY <1>1, <1>2, RangeAppend
  <2>4. Range(log) \subseteq Range(log')
    BY <2>1, <2>3
  <2>5. ASSUME whole PROVE Saved(q)'
    <3>1. Saved(q) /\ row # 0 /\ conv[q] = row
      BY <2>1, <2>5 DEF RaceInv, Saved
    <3>2. at'[q] = "bump" /\ [ask |-> q, role |-> role[q]] \in Range(log')
      BY <2>1, <2>2, <2>3, <3>1
    <3>3. role[q] = "assistant" => [ask |-> q, role |-> "user"] \in Range(log')
      BY <2>1, <2>4, <3>1 DEF Saved, Recorded, Saving
    <3>4. [ask |-> q, role |-> "user"] \in Range(log')
      BY <1>2, <3>2, <3>3
    <3> QED BY <2>1, <3>1, <3>2, <3>4 DEF Saved
  <2> QED BY <2>1, <2>2, <2>4, <2>5, RaceMoves
<1>8. CASE SaveConversation(q)
  <2>1. /\ at[q] = "bump" /\ at' = [at EXCEPT ![q] = IF row \in {0, conv[q]} THEN "push" ELSE AfterSave(q)]
        /\ row' = row \/ row = 0
        /\ row # 0 => row' = row
        /\ UNCHANGED <<log, role, conv, removal, whole>>
    BY <1>8 DEF SaveConversation, Moves, turnVars, countVars
  <2>2. /\ at'[q] = (IF row \in {0, conv[q]} THEN "push" ELSE AfterSave(q))
        /\ \A p \in Asks : p # q => at'[p] = at[p] /\ role'[p] = role[p] /\ conv'[p] = conv[p]
    BY <1>1, <2>1
  <2>3. ASSUME whole PROVE Saved(q)'
    <3>1. Saved(q)
      BY <2>3 DEF RaceInv
    <3>2. at[q] \in Inserted /\ row # 0 /\ conv[q] = row
      BY <2>1, <3>1 DEF Saved, Inserted
    <3>3. at'[q] = "push" /\ row' = row /\ conv'[q] = row
      BY <2>1, <2>2, <3>2
    <3>4. [ask |-> q, role |-> "user"] \in Range(log')
      BY <2>1, <3>1, <3>2 DEF Saved, Recorded
    <3> QED BY <3>2, <3>3, <3>4 DEF Saved
  <2>4. Range(log) \subseteq Range(log')
    BY <2>1
  <2> QED BY <2>1, <2>2, <2>3, <2>4, RaceMoves
<1>9. CASE PushMessage(q) \/ TrimList(q) \/ RenewExpiry(q)
  <2>1. /\ at[q] \in Inserted /\ \E v \in {"trim", "renew", AfterSave(q)} : at' = [at EXCEPT ![q] = v]
        /\ UNCHANGED <<row, log, role, conv, removal, whole>>
    BY <1>9 DEF PushMessage, TrimList, RenewExpiry, Moves, Inserted, tableVars, turnVars, countVars
  <2>2. /\ at'[q] \in {"trim", "renew", AfterSave(q)}
        /\ \A p \in Asks : p # q => at'[p] = at[p] /\ role'[p] = role[p] /\ conv'[p] = conv[p]
    BY <1>1, <2>1
  <2>3. ASSUME whole PROVE Saved(q)'
    <3>1. Saved(q) /\ at[q] \in Saving
      BY <2>1, <2>3 DEF RaceInv, Inserted, Saving
    <3>2. CASE at'[q] = AfterSave(q)
      BY <1>3, <2>1, <3>1, <3>2
    <3>3. CASE at'[q] \in {"trim", "renew"}
      BY <2>1, <3>1, <3>3 DEF Saved, Recorded, Inserted
    <3> QED BY <2>2, <3>2, <3>3
  <2>4. Range(log) \subseteq Range(log')
    BY <2>1
  <2> QED BY <2>1, <2>2, <2>3, <2>4, RaceMoves
<1>10. CASE TurnStep(q)
  <2>1. UNCHANGED <<row, log, conv, removal, whole>>
    BY <1>10 DEF TurnStep, ProcessInput, Route, CallModel, TurnFails, Answered, SameStores, tableVars, countVars
  <2>2. \/ at[q] = "build" /\ at' = [at EXCEPT ![q] = "conv"] /\ role' = [role EXCEPT ![q] = "user"]
        \/ /\ at[q] \in {"route", "model"} /\ \E v \in {"conv", "model", "answered"} : at' = [at EXCEPT ![q] = v]
           /\ \/ role' = role
              \/ \E r \in {"user", "assistant"} : role' = [role EXCEPT ![q] = r]
        \/ role' = role /\ \E v \in {"idle", "dead", "done"} : at' = [at EXCEPT ![q] = v]
    BY <1>10 DEF TurnStep, ProcessInput, Route, CallModel, TurnFails, Answered, Moves, Saves, Redelivery
  <2>3. \A p \in Asks : p # q => at'[p] = at[p] /\ role'[p] = role[p] /\ conv'[p] = conv[p]
    BY <1>1, <2>1, <2>2
  <2>4. \/ at'[q] = "conv" /\ role'[q] = "user"
        \/ at[q] \in {"route", "model"} /\ at'[q] \in {"conv", "model", "answered"}
        \/ at'[q] \in {"idle", "dead", "done"}
    BY <1>1, <2>2
  <2>5. ASSUME whole PROVE Saved(q)'
    <3>1. Saved(q)
      BY <2>5 DEF RaceInv
    <3>2. CASE at[q] \in {"route", "model"} /\ at'[q] \in {"conv", "model", "answered"}
      BY <2>1, <3>1, <3>2 DEF Saved, Recorded, Inserted
    <3>3. CASE (at'[q] = "conv" /\ role'[q] = "user") \/ at'[q] \in {"idle", "dead", "done"}
      BY <3>3 DEF Saved, Recorded, Inserted, Saving
    <3> QED BY <2>4, <3>2, <3>3
  <2>6. Range(log) \subseteq Range(log')
    BY <2>1
  <2> QED BY <2>1, <2>3, <2>5, <2>6, RaceMoves
<1> QED BY <1>4, <1>5, <1>6, <1>7, <1>8, <1>9, <1>10 DEF SaveStep

\* Every step keeps what was saved.
LEMMA RaceStep ==
    TypeInv /\ RaceInv /\ [HistoryNext]_historyVars => RaceInv'
<1> SUFFICES ASSUME TypeInv, RaceInv, [HistoryNext]_historyVars PROVE RaceInv'
  OBVIOUS
<1>1. ASSUME ~whole' PROVE RaceInv'
  BY <1>1 DEF RaceInv
<1>2. ASSUME UNCHANGED <<at, role, conv, row, log, removal, whole>> PROVE RaceInv'
  BY <1>2 DEF RaceInv, Saved, Recorded
<1>3. ASSUME NEW q \in Asks, ReadStep(q) \/ ReadThrows(q) \/ FallsBackReading(q) PROVE RaceInv'
  BY <1>1, <1>3, RaceReads DEF ReadThrows, FallsBackReading, Fault, Spoilt
<1>4. ASSUME NEW q \in Asks, SaveStep(q) \/ TurnStep(q) \/ SaveThrows(q) \/ FallsBackSaving(q) PROVE RaceInv'
  BY <1>1, <1>4, RaceTurns DEF SaveThrows, FallsBackSaving, Fault, Spoilt
<1>5. CASE (\E qs \in SUBSET Asks : CrashHistory(qs)) \/ RemovalFails \/ Delete
  BY <1>1, <1>5 DEF CrashHistory, RemovalFails, Delete, Fault, Spoilt
<1>6. CASE DeleteList \/ DeleteRow
  <2>1. removal # NoRemoval /\ whole' = whole
    BY <1>6 DEF DeleteList, DeleteRow, NoRemoval, countVars
  <2> QED BY <1>1, <2>1 DEF RaceInv
<1>7. CASE ClearSessionCache \/ ExpireList \/ UNCHANGED historyVars
  BY <1>2, <1>7 DEF ClearSessionCache, ExpireList, historyVars, tableVars, turnVars, countVars
<1> QED BY <1>3, <1>4, <1>5, <1>6, <1>7 DEF HistoryNext

\* Two replicas may both find no conversation and both create it: the one that
\* hits the unique session_id finds the row of the other and writes to that, so
\* no turn goes on without its message in the table.
THEOREM NoMessageLost ==
    HistorySpec => []NoMessageLostInRace
<1>1. HistoryInit => RaceInv
  BY DEF HistoryInit, RaceInv, Saved, Recorded, Inserted, Saving, NoRemoval
<1>2. RaceInv => NoMessageLostInRace
  BY DEF RaceInv, Saved, Recorded, NoMessageLostInRace
<1> QED BY <1>1, <1>2, TypeInit, TypeStep, RaceStep, PTL DEF HistorySpec

--------------------------------------------------------------------------------
(* Operations that do not overlap. *)

\* How many of the last messages of the table q has yet to put on the list.
Behind(q) ==
    IF at[q] = "fill" THEN Len(toPush[q]) ELSE IF at[q] \in {"bump", "push"} THEN 1 ELSE 0

KeptAt(q) ==
    /\ Part(cache, log, Behind(q))
    /\ at[q] = "find" => cache = <<>>
    /\ at[q] = "fill" => Part(toPush[q], log, 0)
    /\ at[q] \in {"bump", "push"} => log[Len(log)] = [ask |-> q, role |-> role[q]]
    /\ at[q] = "bump" => row = conv[q]

AloneInv ==
    alone =>
        /\ \A p, q \in Active : p = q
        /\ removal # NoRemoval => Active = {}
        /\ removal.step = "delete" => cache = <<>>
        /\ Active = {} => Part(cache, log, 0)
        /\ \A q \in Active : KeptAt(q)

\* The only turn there is takes a step.
LEMMA AloneMoves ==
    ASSUME TypeInv, AloneInv, NEW q \in Asks, NEW v, at' = [at EXCEPT ![q] = v],
           alone => alone' = alone /\ (q \in Active \/ (Quiet /\ UNCHANGED <<cache, log>>)),
           removal' = removal,
           alone /\ q \in Active => KeptAt(q)' /\ (v \in {"idle", "dead", "done"} => Part(cache', log', 0)),
           alone /\ q \notin Active => v = "range",
           ~alone => ~alone'
    PROVE  AloneInv'
<1> SUFFICES ASSUME alone PROVE AloneInv'
  BY DEF AloneInv
<1>1. \A p \in Asks : p # q => at'[p] = at[p]
  BY TypeKeeps
<1>2. at'[q] = v
  BY TypeKeeps
<1>3. Active' \subseteq Active \cup {q}
  BY <1>1 DEF Active
<1>4. Active \subseteq {q}
  <2>1. CASE q \in Active
    BY <2>1 DEF AloneInv
  <2>2. CASE q \notin Active
    BY <2>2 DEF Quiet
  <2> QED BY <2>1, <2>2
<1>5. Active' \subseteq {q}
  BY <1>3, <1>4
<1>6. removal = NoRemoval
  <2>1. CASE q \in Active
    BY <2>1 DEF AloneInv
  <2>2. CASE q \notin Active
    BY <2>2 DEF Quiet
  <2> QED BY <2>1, <2>2
<1>7. Part(cache', log', 0) \/ q \in Active'
  <2>1. CASE q \in Active
    BY <1>2, <2>1 DEF Active
  <2>2. CASE q \notin Active
    BY <2>2 DEF AloneInv, Quiet
  <2> QED BY <2>1, <2>2
<1>8. ASSUME q \in Active' PROVE KeptAt(q)'
  <2>1. CASE q \in Active
    BY <2>1
  <2>2. CASE q \notin Active
    <3>1. at'[q] = "range" /\ Part(cache', log', 0)
      BY <1>2, <2>2 DEF AloneInv, Quiet
    <3> QED BY <3>1 DEF KeptAt, Behind
  <2> QED BY <2>1, <2>2
<1>9. removal'.step # "delete"
  BY <1>6 DEF NoRemoval
<1> QED BY <1>5, <1>6, <1>7, <1>8, <1>9 DEF AloneInv


\* What remains to show of a step of the only turn, which then owes the list nothing.
LEMMA AloneActive ==
    ASSUME TypeInv, AloneInv, alone, alone' = alone, removal' = removal, NEW q \in Active,
           NEW v, at' = [at EXCEPT ![q] = v],
           v \notin {"find", "fill", "bump", "push"}, Part(cache', log', 0)
    PROVE  AloneInv'
<1>1. q \in Asks /\ at'[q] = v
  BY TypeKeeps DEF Active
<1>2. KeptAt(q)'
  BY <1>1 DEF KeptAt, Behind
<1> QED BY <1>1, <1>2, AloneMoves

\* A fill alone leaves the list a part of the table ...
LEMMA AloneReads ==
    ASSUME TypeInv, AloneInv, alone, alone', NEW q \in Asks, ReadStep(q)
    PROVE  AloneInv'
<1>1. /\ at \in [Asks -> Statuses] /\ toPush \in [Asks -> Seq(Chat)]
      /\ log \in Seq(Chat) /\ cache \in Seq(Chat)
  BY TypeKeeps
<1>2. ASSUME q \in Active PROVE KeptAt(q)
  BY <1>2 DEF AloneInv
<1>3. CASE Start(q)
  <2>1. /\ at[q] = "idle" /\ at' = [at EXCEPT ![q] = "range"] /\ Quiet
        /\ removal' = removal /\ cache' = cache /\ log' = log /\ alone' = alone
    BY <1>3 DEF Start, Moves, tableVars, listVars
  <2>2. q \notin Active
    BY <2>1 DEF Active
  <2> QED BY <2>1, <2>2, AloneMoves
<1>4. CASE ReadList(q)
  <2>1. /\ at[q] = "range" /\ at' = [at EXCEPT ![q] = IF cache # <<>> THEN "build" ELSE "find"]
        /\ UNCHANGED <<row, cache, log, toPush, conv, role, removal, alone>>
    BY <1>4 DEF ReadList, Moves, tableVars, listVars, turnVars, countVars
  <2>2. q \in Active
    BY <2>1 DEF Active
  <2>3. Part(cache, log, 0) /\ at'[q] = IF cache # <<>> THEN "build" ELSE "find"
    BY <1>1, <1>2, <2>1, <2>2 DEF KeptAt, Behind
  <2>4. KeptAt(q)'
    BY <2>1, <2>3 DEF KeptAt, Behind
  <2> QED BY <2>1, <2>2, <2>4, AloneMoves
<1>5. CASE FindMessages(q)
  <2>1. /\ at[q] = "find" /\ at' = [at EXCEPT ![q] = IF log = <<>> THEN "build" ELSE "fill"]
        /\ toPush' = [toPush EXCEPT ![q] = Latest(log)]
        /\ UNCHANGED <<row, cache, log, conv, role, removal, alone>>
    BY <1>5 DEF FindMessages, Moves, tableVars, listVars, turnVars, countVars
  <2>2. q \in Active
    BY <2>1 DEF Active
  <2>3. cache = <<>> /\ Part(cache, log, 0)
    BY <1>2, <2>1, <2>2 DEF KeptAt, Behind
  <2>4. /\ at'[q] = (IF log = <<>> THEN "build" ELSE "fill")
        /\ toPush'[q] = Latest(log) /\ cache' = <<>> /\ log' = log
    BY <1>1, <2>1, <2>3
  <2>5. Part(Latest(log), log, 0) /\ Len(Latest(log)) \in Nat /\ Len(Latest(log)) <= Len(log)
    BY <1>1, PartOfItself, PartLatest, LatestIs
  <2>6. Part(<<>>, log, Len(Latest(log)))
    <3>1. Len(<<>>) = 0 /\ 1..0 = {} /\ Len(log) \in Nat
      BY <1>1, LenProperties
    <3> QED BY <2>5, <3>1 DEF Part
  <2>7. KeptAt(q)'
    BY <2>3, <2>4, <2>5, <2>6 DEF KeptAt, Behind
  <2> QED BY <2>1, <2>2, <2>7, AloneMoves
<1>6. CASE FillNext(q)
  <2>1. /\ at[q] = "fill" /\ at' = [at EXCEPT ![q] = IF Len(toPush[q]) = 1 THEN "ttl" ELSE "fill"]
        /\ toPush' = [toPush EXCEPT ![q] = Tail(toPush[q])]
        /\ cache' = Append(cache, Head(toPush[q]))
        /\ UNCHANGED <<row, log, conv, role, removal, alone>>
    BY <1>6 DEF FillNext, Filled, Moves, tableVars, turnVars, countVars
  <2>2. q \in Active /\ toPush[q] # <<>> /\ toPush[q] \in Seq(Chat)
    BY <1>1, <2>1 DEF Active, TypeInv
  <2>3. Part(cache, log, Len(toPush[q])) /\ Part(toPush[q], log, 0)
    BY <1>2, <2>1, <2>2 DEF KeptAt, Behind
  <2>4. /\ Len(toPush[q]) \in Nat /\ Len(toPush[q]) > 0 /\ Len(Tail(toPush[q])) = Len(toPush[q]) - 1
        /\ Part(Tail(toPush[q]), log, 0) /\ Head(toPush[q]) = log[Len(log) - Len(toPush[q]) + 1]
    BY <1>1, <2>2, <2>3, TailIs, PartTail
  <2>5. Part(cache', log, Len(toPush[q]) - 1)
    BY <1>1, <2>1, <2>3, <2>4, PartAppend
  <2>6. /\ at'[q] = (IF Len(toPush[q]) = 1 THEN "ttl" ELSE "fill")
        /\ toPush'[q] = Tail(toPush[q]) /\ log' = log
    BY <1>1, <2>1
  <2>7. CASE Len(toPush[q]) = 1
    <3>1. Part(cache', log', 0) /\ at'[q] = "ttl"
      BY <2>5, <2>6, <2>7
    <3> QED BY <2>1, <2>2, <2>7, <3>1, AloneActive
  <2>8. CASE Len(toPush[q]) # 1
    <3>1. at'[q] = "fill" /\ Behind(q)' = Len(toPush[q]) - 1
      BY <2>4, <2>6, <2>8 DEF Behind
    <3>2. KeptAt(q)'
      BY <2>4, <2>5, <2>6, <3>1 DEF KeptAt
    <3>3. at' = [at EXCEPT ![q] = "fill"]
      BY <2>1, <2>8
    <3> QED BY <2>1, <2>2, <3>2, <3>3, AloneMoves
  <2> QED BY <2>7, <2>8
<1>7. CASE FillEnds(q)
  <2>1. /\ at[q] = "ttl" /\ at' = [at EXCEPT ![q] = "build"]
        /\ UNCHANGED <<cache, log, removal, alone>>
    BY <1>7 DEF FillEnds, Moves, tableVars, turnVars, countVars
  <2>2. q \in Active
    BY <2>1 DEF Active
  <2>3. Part(cache', log', 0)
    BY <1>2, <2>1, <2>2 DEF KeptAt, Behind
  <2> QED BY <2>1, <2>2, <2>3, AloneActive
<1> QED BY <1>3, <1>4, <1>5, <1>6, <1>7 DEF ReadStep

\* ... and so does a save.
LEMMA AloneTurns ==
    ASSUME TypeInv, AloneInv, alone, alone', NEW q \in Asks, SaveStep(q) \/ TurnStep(q)
    PROVE  AloneInv'
<1>1. /\ at \in [Asks -> Statuses] /\ role \in [Asks -> {"user", "assistant"}]
      /\ log \in Seq(Chat) /\ cache \in Seq(Chat)
  BY TypeKeeps
<1>2. ASSUME q \in Active PROVE KeptAt(q)
  BY <1>2 DEF AloneInv
<1>3. [ask |-> q, role |-> role[q]] \in Chat /\ AfterSave(q) \in {"route", "answered"}
  BY <1>1 DEF Chat, AfterSave
<1>4. CASE \/ FindConversation(q) \/ CreateConversation(q) \/ RefindConversation(q) \/ RenewExpiry(q)
           \/ TurnStep(q)
  <2>1. UNCHANGED <<log, cache, removal, alone>>
    BY <1>4 DEF FindConversation, CreateConversation, RefindConversation, RenewExpiry,
                TurnStep, ProcessInput, Route, CallModel, TurnFails, Answered, SameStores,
                tableVars, listVars, countVars
  <2>2. /\ at[q] \in {"conv", "create", "refind", "renew", "build", "route", "model", "answered"}
        /\ \E v \in {"create", "insert", "refind", "conv", "model", "route", "answered", "idle", "dead", "done"} :
              at' = [at EXCEPT ![q] = v]
    BY <1>3, <1>4 DEF FindConversation, CreateConversation, RefindConversation, RenewExpiry,
                TurnStep, ProcessInput, Route, CallModel, TurnFails, Answered, Moves, Redelivery
  <2>3. q \in Active
    BY <2>2 DEF Active
  <2>4. Part(cache', log', 0)
    BY <1>2, <2>1, <2>2, <2>3 DEF KeptAt, Behind
  <2> QED BY <2>1, <2>2, <2>3, <2>4, AloneActive
<1>5. CASE InsertMessage(q)
  <2>1. /\ at[q] = "insert" /\ at' = [at EXCEPT ![q] = IF row = conv[q] THEN "bump" ELSE AfterSave(q)]
        /\ log' = IF row = conv[q] THEN Append(log, [ask |-> q, role |-> role[q]]) ELSE log
        /\ UNCHANGED <<row, conv, cache, role, removal, alone>>
    BY <1>5 DEF InsertMessage, Moves, listVars, turnVars, countVars
  <2>2. q \in Active
    BY <2>1 DEF Active
  <2>3. Part(cache, log, 0)
    BY <1>2, <2>1, <2>2 DEF KeptAt, Behind
  <2>4. CASE row = conv[q]
    <3>1. at' = [at EXCEPT ![q] = "bump"] /\ at'[q] = "bump" /\ log' = Append(log, [ask |-> q, role |-> role[q]])
      BY <1>1, <2>1, <2>4
    <3>2. Part(cache, log', 1) /\ log'[Len(log')] = [ask |-> q, role |-> role[q]]
      BY <1>1, <1>3, <2>3, <3>1, PartGrown, AppendIs
    <3>3. KeptAt(q)'
      BY <2>1, <2>4, <3>1, <3>2 DEF KeptAt, Behind
    <3> QED BY <2>1, <2>2, <3>1, <3>3, AloneMoves
  <2>5. CASE row # conv[q]
    <3>1. at' = [at EXCEPT ![q] = AfterSave(q)] /\ Part(cache', log', 0)
      BY <2>1, <2>3, <2>5
    <3> QED BY <1>3, <2>1, <2>2, <3>1, AloneActive
  <2> QED BY <2>4, <2>5
<1>6. CASE SaveConversation(q)
  <2>1. /\ at[q] = "bump" /\ at' = [at EXCEPT ![q] = IF row \in {0, conv[q]} THEN "push" ELSE AfterSave(q)]
        /\ UNCHANGED <<log, cache, role, removal, alone>>
    BY <1>6 DEF SaveConversation, Moves, listVars, turnVars, countVars
  <2>2. q \in Active
    BY <2>1 DEF Active
  <2>3. row = conv[q] /\ Part(cache, log, 1) /\ log[Len(log)] = [ask |-> q, role |-> role[q]]
    BY <1>2, <2>1, <2>2 DEF KeptAt, Behind
  <2>4. at' = [at EXCEPT ![q] = "push"] /\ at'[q] = "push"
    BY <1>1, <2>1, <2>3
  <2>5. KeptAt(q)'
    BY <2>1, <2>3, <2>4 DEF KeptAt, Behind
  <2> QED BY <2>1, <2>2, <2>4, <2>5, AloneMoves
<1>7. CASE PushMessage(q)
  <2>1. /\ at[q] = "push" /\ at' = [at EXCEPT ![q] = "trim"]
        /\ cache' = Append(cache, [ask |-> q, role |-> role[q]])
        /\ UNCHANGED <<log, removal, alone>>
    BY <1>7 DEF PushMessage, Moves, tableVars, turnVars, countVars
  <2>2. q \in Active
    BY <2>1 DEF Active
  <2>3. Part(cache, log, 1) /\ log[Len(log)] = [ask |-> q, role |-> role[q]]
    BY <1>2, <2>1, <2>2 DEF KeptAt, Behind
  <2>4. Len(log) \in Nat /\ Len(log) - 1 + 1 = Len(log) /\ 1 - 1 = 0
    BY <1>1, LenProperties
  <2>5. Part(Append(cache, log[Len(log) - 1 + 1]), log, 1 - 1)
    BY <1>1, <2>3, PartAppend
  <2>6. Append(cache, log[Len(log) - 1 + 1]) = cache' /\ log' = log
    BY <2>1, <2>3, <2>4
  <2>7. Part(cache', log', 0)
    BY <2>4, <2>5, <2>6
  <2> QED BY <2>1, <2>2, <2>7, AloneActive
<1>8. CASE TrimList(q)
  <2>1. /\ at[q] = "trim" /\ at' = [at EXCEPT ![q] = "renew"]
        /\ cache' = Latest(cache) /\ UNCHANGED <<log, removal, alone>>
    BY <1>8 DEF TrimList, Moves, tableVars, turnVars, countVars
  <2>2. q \in Active
    BY <2>1 DEF Active
  <2>3. Part(cache, log, 0)
    BY <1>2, <2>1, <2>2 DEF KeptAt, Behind
  <2>4. Part(cache', log', 0)
    BY <1>1, <2>1, <2>3, PartLatest
  <2> QED BY <2>1, <2>2, <2>4, AloneActive
<1> QED BY <1>4, <1>5, <1>6, <1>7, <1>8 DEF SaveStep

\* Every step keeps the list the end of the table while operations do not
\* overlap.
LEMMA AloneStep ==
    TypeInv /\ AloneInv /\ [HistoryNext]_historyVars => AloneInv'
<1> SUFFICES ASSUME TypeInv, AloneInv, [HistoryNext]_historyVars PROVE AloneInv'
  OBVIOUS
<1>1. ASSUME ~alone' PROVE AloneInv'
  BY <1>1 DEF AloneInv
<1>2. alone' => alone
  BY DEF HistoryNext, ReadStep, Start, ReadList, FindMessages, FillNext, FillEnds,
         ReadThrows, FallsBackReading, SaveStep, FindConversation, CreateConversation,
         RefindConversation, InsertMessage, SaveConversation, PushMessage, TrimList, RenewExpiry,
         TurnStep, ProcessInput, Route, CallModel, TurnFails, Answered, SameStores,
         SaveThrows, FallsBackSaving, CrashHistory, Delete, DeleteList, DeleteRow,
         ClearSessionCache, ExpireList, RemovalFails, Fault, Spoilt, historyVars, countVars
<1> SUFFICES ASSUME alone, alone' PROVE AloneInv'
  BY <1>1, <1>2
<1>3. ASSUME NEW q \in Asks, ReadStep(q) \/ ReadThrows(q) \/ FallsBackReading(q) PROVE AloneInv'
  BY <1>1, <1>3, AloneReads DEF ReadThrows, FallsBackReading, Fault, Spoilt
<1>4. ASSUME NEW q \in Asks, SaveStep(q) \/ TurnStep(q) \/ SaveThrows(q) \/ FallsBackSaving(q) PROVE AloneInv'
  BY <1>1, <1>4, AloneTurns DEF SaveThrows, FallsBackSaving, Fault, Spoilt
<1>5. CASE (\E qs \in SUBSET Asks : CrashHistory(qs)) \/ RemovalFails
  BY <1>1, <1>5 DEF CrashHistory, RemovalFails, Fault, Spoilt
<1>6. /\ log \in Seq(Chat) /\ cache \in Seq(Chat) /\ toPush \in [Asks -> Seq(Chat)]
      /\ \A q \in Asks : Behind(q) \in Nat
  <2>1. log \in Seq(Chat) /\ cache \in Seq(Chat) /\ toPush \in [Asks -> Seq(Chat)]
    BY TypeKeeps
  <2>2. ASSUME NEW q \in Asks PROVE Behind(q) \in Nat
    BY <2>1, LenProperties DEF Behind
  <2> QED BY <2>1, <2>2
<1>7. CASE Delete
  <2>1. Quiet /\ UNCHANGED <<at, cache, log>> /\ removal' = [id |-> row, step |-> "del"]
    BY <1>7 DEF Delete, tableVars, listVars
  <2>2. Active' = {} /\ Part(cache', log', 0)
    BY <2>1 DEF Quiet, AloneInv, Active
  <2> QED BY <2>1, <2>2 DEF AloneInv
<1>8. CASE DeleteList \/ DeleteRow
  <2>1. removal # NoRemoval /\ UNCHANGED at
    BY <1>8 DEF DeleteList, DeleteRow, NoRemoval
  <2>2. Active = {} /\ Active' = {} /\ Part(cache, log, 0)
    BY <2>1 DEF AloneInv, Active
  <2>3. Part(<<>>, log, 0) /\ Part(<<>>, <<>>, 0)
    <3>1. <<>> \in Seq(Chat)
      BY EmptySeq
    <3> QED BY <1>6, <2>2, <3>1, PartEmpty, PartOfItself
  <2>4. cache' = <<>> /\ Part(cache', log', 0)
    <3>1. CASE DeleteList
      BY <2>3, <3>1 DEF DeleteList, tableVars
    <3>2. CASE DeleteRow
      <4>1. cache = <<>> /\ cache' = cache /\ log' \in {log, <<>>}
        BY <3>2 DEF DeleteRow, AloneInv, listVars
      <4> QED BY <2>3, <4>1
    <3> QED BY <1>8, <3>1, <3>2
  <2> QED BY <2>2, <2>4 DEF AloneInv
<1>9. CASE ClearSessionCache \/ ExpireList
  <2>1. cache' = <<>> /\ UNCHANGED <<row, log, at, toPush, role, conv, removal>>
    BY <1>9 DEF ClearSessionCache, ExpireList, tableVars, turnVars
  <2>2. ASSUME NEW k \in Nat, Part(cache, log, k) PROVE Part(cache', log', k)
    BY <1>6, <2>1, <2>2, PartEmpty
  <2>3. Active' = Active
    BY <2>1 DEF Active
  <2>4. ASSUME NEW q \in Active PROVE KeptAt(q)'
    <3>1. KeptAt(q) /\ q \in Asks /\ Behind(q)' = Behind(q)
      BY <2>1 DEF AloneInv, Active, Behind
    <3>2. Part(cache', log', Behind(q))
      BY <1>6, <2>2, <3>1 DEF KeptAt
    <3> QED BY <2>1, <3>1, <3>2 DEF KeptAt
  <2> QED BY <2>1, <2>2, <2>3, <2>4 DEF AloneInv
<1>10. CASE UNCHANGED historyVars
  BY <1>10 DEF historyVars, tableVars, listVars, turnVars, countVars, AloneInv, Active, KeptAt, Behind
<1> QED BY <1>3, <1>4, <1>5, <1>7, <1>8, <1>9, <1>10 DEF HistoryNext

\* While operations on a conversation do not overlap and no command fails, the
\* list of Redis is the end of the table whatever expires or is cleared in
\* between: a fill puts the rest of its messages behind what it has put, and a
\* save the message it has inserted.
THEOREM SequentialSuffixHolds ==
    HistorySpec => []SequentialSuffix
<1>1. HistoryInit => AloneInv
  <2> SUFFICES ASSUME HistoryInit PROVE AloneInv
    OBVIOUS
  <2>1. Active = {} /\ removal = NoRemoval /\ NoRemoval.step = "none" /\ cache = <<>> /\ log = <<>>
    BY DEF HistoryInit, Active, NoRemoval
  <2>2. <<>> \in Seq(Chat)
    BY EmptySeq
  <2>3. Part(cache, log, 0)
    BY <2>1, <2>2, PartOfItself
  <2> QED BY <2>1, <2>3 DEF AloneInv
<1>2. TypeInv /\ AloneInv => SequentialSuffix
  <2> SUFFICES ASSUME TypeInv, AloneInv, alone, Quiet PROVE IsSuffix(cache, log)
    BY DEF SequentialSuffix
  <2>1. log \in Seq(Chat) /\ cache \in Seq(Chat) /\ Part(cache, log, 0)
    BY TypeKeeps DEF AloneInv, Quiet
  <2> QED BY <2>1, PartIsSuffix
<1> QED BY <1>1, <1>2, TypeInit, TypeStep, AloneStep, PTL DEF HistorySpec

--------------------------------------------------------------------------------
(* Induction, over the numbers.                                              *)

\* The order of the naturals, by which the proofs below induct.
Ascending == {q \in Nat \X Nat : q[1] < q[2]}

LEMMA Minimum ==
    ASSUME NEW T \in SUBSET Nat, T # {}
    PROVE  \E x \in T : \A y \in T : x <= y
<1>1. IsWellFoundedOn(Ascending, Nat)
  BY NatLessThanWellFounded DEF OpToRel, Ascending
<1>2. PICK x \in T : \A y \in T : ~ (<<y, x>> \in Ascending)
  BY <1>1, WFMin
<1>3. x \in Nat
  OBVIOUS
<1>4. ASSUME NEW y \in T PROVE x <= y
  <2>1. y \in Nat OBVIOUS
  <2>2. ~ (<<y, x>> \in Ascending) BY <1>2
  <2>3. ~ (y < x) BY <1>3, <2>1, <2>2 DEF Ascending
  <2> QED BY <1>3, <2>1, <2>3
<1> QED BY <1>4

\* What holds of a position when it holds of the later ones holds of all.
LEMMA Backward ==
    ASSUME NEW n \in Nat, NEW S,
           \A i \in 1..n : (\A j \in (i + 1)..n : j \in S) => i \in S
    PROVE  \A i \in 1..n : i \in S
<1> DEFINE T == {k \in 0..n : n - k \in 1..n /\ n - k \notin S}
<1>1. SUFFICES ASSUME T # {} PROVE FALSE
  <2>1. ASSUME NEW i \in 1..n, i \notin S PROVE n - i \in T
    <3>1. n - i \in 0..n /\ n - (n - i) = i OBVIOUS
    <3> QED BY <2>1, <3>1
  <2> QED BY <2>1
<1>2. T \in SUBSET Nat
  OBVIOUS
<1>3. PICK k \in T : \A y \in T : k <= y
  <2> HIDE DEF T
  <2> QED BY <1>1, <1>2, Minimum
<1>4. k \in 0..n /\ n - k \in 1..n /\ n - k \notin S
  OBVIOUS
<1>5. ASSUME NEW j \in (n - k + 1)..n PROVE j \in S
  <2>1. n - j \in 0..n /\ n - j < k /\ n - (n - j) = j /\ j \in 1..n
    BY <1>4
  <2>2. n - j \notin T
    <3> HIDE DEF T
    <3> QED BY <1>3, <2>1, <1>4
  <2> QED BY <2>1, <2>2
<1> QED BY <1>4, <1>5

\* And what holds of 0 and of a number when it holds of the one before.
LEMMA Forward ==
    ASSUME NEW n \in Nat, NEW S, 0 \in S, \A i \in 1..n : i - 1 \in S => i \in S
    PROVE  \A i \in 0..n : i \in S
<1> DEFINE T == {k \in 0..n : k \notin S}
<1>1. SUFFICES ASSUME T # {} PROVE FALSE
  OBVIOUS
<1>2. PICK k \in T : \A y \in T : k <= y
  <2>1. T \in SUBSET Nat OBVIOUS
  <2> HIDE DEF T
  <2> QED BY <1>1, <2>1, Minimum
<1>3. k \in 1..n /\ k - 1 \in 0..n /\ k \notin S
  OBVIOUS
<1>4. k - 1 \notin T
  <2> HIDE DEF T
  <2> QED BY <1>2, <1>3
<1> QED BY <1>3, <1>4

--------------------------------------------------------------------------------
(* The expression that cleans a text.                                        *)

\* Least, of a set that has a least element and of any set of numbers.
LEMMA LeastIs ==
    ASSUME NEW S \in SUBSET Nat, NEW i \in S, \A j \in S : i <= j
    PROVE  Least(S) = i
<1>1. \E x \in S : \A j \in S : x <= j
  OBVIOUS
<1>2. Least(S) \in S /\ \A j \in S : Least(S) <= j
  BY <1>1 DEF Least
<1>3. Least(S) \in Nat /\ i \in Nat /\ Least(S) <= i /\ i <= Least(S)
  BY <1>2
<1> QED BY <1>3

LEMMA LeastOf ==
    ASSUME NEW S \in SUBSET Nat, S # {}
    PROVE  Least(S) \in S /\ \A j \in S : Least(S) <= j
BY Minimum DEF Least

\* The step of the replacement at a position.
Cut(s, g, i) ==
    IF i > Len(s) THEN <<>>
    ELSE IF s[i] = Open /\ Closing(s, i) # {} THEN g[Least(Closing(s, i)) + 1]
    ELSE <<s[i]>> \o g[i + 1]

\* The closing tags after a position, and the first of them.
LEMMA ClosingIs ==
    ASSUME NEW s \in Seq(Tokens), NEW i \in Nat
    PROVE  /\ Closing(s, i) \in SUBSET (1..Len(s))
           /\ Closing(s, i) \in SUBSET Nat
           /\ Closing(s, i) # {} => /\ Least(Closing(s, i)) \in 1..Len(s)
                                    /\ Least(Closing(s, i)) > i
                                    /\ s[Least(Closing(s, i))] = Close
                                    /\ \A j \in (i + 1)..(Least(Closing(s, i)) - 1) : s[j] # Close
<1>1. Closing(s, i) \in SUBSET (1..Len(s))
  BY DEF Closing, Places
<1>2. Closing(s, i) \in SUBSET Nat
  BY <1>1
<1>3. ASSUME Closing(s, i) # {}
      PROVE  Least(Closing(s, i)) \in Closing(s, i) /\ \A j \in Closing(s, i) : Least(Closing(s, i)) <= j
  BY <1>2, <1>3, LeastOf
<1>4. ASSUME Closing(s, i) # {}, NEW j \in (i + 1)..(Least(Closing(s, i)) - 1), s[j] = Close PROVE FALSE
  <2>1. Least(Closing(s, i)) \in 1..Len(s) BY <1>1, <1>3, <1>4
  <2>2. j \in 1..Len(s) /\ j > i /\ j < Least(Closing(s, i)) BY <2>1
  <2>3. j \in Closing(s, i) BY <2>2, <1>4 DEF Closing, Places
  <2> QED BY <2>3, <1>3, <1>4, <2>1, <2>2
<1> QED BY <1>1, <1>2, <1>3, <1>4 DEF Closing, Places

\* The recursion is well defined.
LEMMA CleanFromIs ==
    ASSUME NEW s \in Seq(Tokens)
    PROVE  CleanFrom(s) = [i \in 1..(Len(s) + 1) |-> Cut(s, CleanFrom(s), i)]
<1> DEFINE n == Len(s) + 1
           Good(i, g) == g = [j \in i..n |-> Cut(s, g, j)]
           S == {i \in 1..n : \E g : Good(i, g)}
<1>0. n \in Nat /\ 1 \in 1..n /\ n = Len(s) + 1 /\ Len(s) \in Nat
  OBVIOUS
<1>1. ASSUME NEW i \in 1..n, \A j \in (i + 1)..n : j \in S PROVE i \in S
  <2>1. \E g : Good(i + 1, g)
    <3>1. CASE i = n
      <4>1. (i + 1)..n = {} BY <3>1, <1>0
      <4>2. Good(i + 1, [j \in {} |-> 0]) BY <4>1
      <4> QED BY <4>2
    <3>2. CASE i < n
      <4>1. i + 1 \in (i + 1)..n BY <3>2, <1>0
      <4>2. i + 1 \in S BY <4>1, <1>1
      <4> QED BY <4>2
    <3> QED BY <3>1, <3>2, <1>0
  <2>2. PICK g : Good(i + 1, g) BY <2>1
  <2>3. \A j \in (i + 1)..n : g[j] = Cut(s, g, j) BY <2>2
  <2> DEFINE h == [j \in i..n |-> IF j = i THEN Cut(s, g, i) ELSE g[j]]
  <2>4. \A j \in (i + 1)..n : h[j] = g[j] BY <1>0
  <2>5. ASSUME NEW j \in i..n PROVE Cut(s, h, j) = Cut(s, g, j)
    <3>1. CASE j > Len(s) BY <3>1 DEF Cut
    <3>2. CASE j <= Len(s) /\ s[j] = Open /\ Closing(s, j) # {}
      <4>1. j \in Nat BY <1>0
      <4>2. Least(Closing(s, j)) + 1 \in (i + 1)..n
        BY <4>1, <3>2, <1>0, ClosingIs
      <4>3. h[Least(Closing(s, j)) + 1] = g[Least(Closing(s, j)) + 1]
        BY <4>2, <2>4
      <4> HIDE DEF h, n
      <4> QED BY <4>1, <4>3, <3>2, <1>0 DEF Cut
    <3>3. CASE j <= Len(s) /\ ~ (s[j] = Open /\ Closing(s, j) # {})
      <4>1. j + 1 \in (i + 1)..n BY <3>3, <1>0
      <4>2. h[j + 1] = g[j + 1] BY <4>1, <2>4
      <4> HIDE DEF h, n
      <4> QED BY <4>2, <3>3, <1>0 DEF Cut
    <3>4. j \in Nat BY <1>0
    <3> HIDE DEF h, n
    <3> QED BY <3>1, <3>2, <3>3, <3>4, <1>0
  <2>6. ASSUME NEW j \in i..n PROVE h[j] = Cut(s, h, j)
    <3>1. h[j] = Cut(s, g, j)
      <4>1. CASE j = i BY <4>1
      <4>2. CASE j # i
        <5>1. j \in (i + 1)..n BY <4>2, <1>0
        <5> QED BY <5>1, <2>3, <2>4
      <4> QED BY <4>1, <4>2
    <3> HIDE DEF h
    <3> QED BY <3>1, <2>5
  <2>7. h = [j \in i..n |-> h[j]] OBVIOUS
  <2>8. Good(i, h)
    <3> HIDE DEF h
    <3> QED BY <2>6, <2>7
  <2>9. \E f : Good(i, f)
    <3> HIDE DEF h, Good
    <3> QED BY <2>8
  <2> QED BY <2>9
<1>2. \A i \in 1..n : i \in S
  <2> HIDE DEF n, S
  <2> QED BY <1>0, <1>1, Backward
<1>3. \E g : g = [i \in 1..n |-> Cut(s, g, i)]
  BY <1>0, <1>2
<1>4. CleanFrom(s) = CHOOSE g : g = [i \in 1..n |-> Cut(s, g, i)]
  BY DEF CleanFrom, Cut
<1> DEFINE All(g) == g = [i \in 1..n |-> Cut(s, g, i)]
<1>5. All(CHOOSE g : All(g))
  <2>1. \E g : All(g) BY <1>3
  <2> HIDE DEF All
  <2> QED BY <2>1
<1> QED BY <1>4, <1>5

\* The recursion at a position, and its type.
LEMMA CleanStep ==
    ASSUME NEW s \in Seq(Tokens), NEW i \in 1..(Len(s) + 1)
    PROVE  CleanFrom(s)[i] = Cut(s, CleanFrom(s), i)
BY CleanFromIs

LEMMA CleanOf ==
    ASSUME NEW T \in SUBSET Tokens, NEW s \in Seq(T)
    PROVE  Clean(s) \in Seq(T) /\ \A i \in 1..(Len(s) + 1) : CleanFrom(s)[i] \in Seq(T)
<1> DEFINE n == Len(s) + 1
           f == CleanFrom(s)
           S == {i \in 1..n : f[i] \in Seq(T)}
<1>0. n \in Nat /\ 1 \in 1..n /\ n = Len(s) + 1 /\ Len(s) \in Nat
  OBVIOUS
<1>3. s \in Seq(Tokens)
  <2>1. \A k \in 1..Len(s) : s[k] \in Tokens OBVIOUS
  <2> QED BY <2>1
<1>1. ASSUME NEW i \in 1..n, \A j \in (i + 1)..n : j \in S PROVE f[i] \in Seq(T)
  <2>1. f[i] = Cut(s, f, i) BY <1>3, CleanStep
  <2>2. \A j \in (i + 1)..n : f[j] \in Seq(T) BY <1>1
  <2> HIDE DEF f, S
  <2>3. CASE i > Len(s) BY <2>1, <2>3 DEF Cut
  <2>4. CASE i <= Len(s) /\ s[i] = Open /\ Closing(s, i) # {}
    <3>1. i \in Nat BY <1>0
    <3>2. Least(Closing(s, i)) + 1 \in (i + 1)..n BY <3>1, <2>4, <1>0, <1>3, ClosingIs
    <3>3. f[i] = f[Least(Closing(s, i)) + 1] BY <2>1, <2>4, <3>1, <1>0 DEF Cut
    <3> QED BY <3>2, <3>3, <2>2
  <2>5. CASE i <= Len(s) /\ ~ (s[i] = Open /\ Closing(s, i) # {})
    <3>1. i + 1 \in (i + 1)..n /\ s[i] \in T /\ i \in Nat BY <2>5, <1>0
    <3>2. f[i] = <<s[i]>> \o f[i + 1] BY <2>1, <2>5, <3>1, <1>0 DEF Cut
    <3>3. f[i + 1] \in Seq(T) BY <3>1, <2>2
    <3>4. <<s[i]>> \in Seq(T) BY <3>1
    <3> QED BY <3>2, <3>3, <3>4
  <2> QED BY <2>3, <2>4, <2>5, <1>0
<1>2. \A i \in 1..n : i \in S
  <2>1. ASSUME NEW i \in 1..n, \A j \in (i + 1)..n : j \in S PROVE i \in S
    <3>1. f[i] \in Seq(T) BY <2>1, <1>1
    <3> HIDE DEF n, f
    <3> QED BY <3>1
  <2> HIDE DEF n, f, S
  <2> QED BY <1>0, <2>1, Backward
<1> QED BY <1>0, <1>2 DEF Clean

LEMMA CleanType ==
    ASSUME NEW s \in Seq(Tokens)
    PROVE  Clean(s) \in Seq(Tokens) /\ \A i \in 1..(Len(s) + 1) : CleanFrom(s)[i] \in Seq(Tokens)
BY CleanOf

LEMMA CleanUncut ==
    ASSUME NEW s \in Seq(Uncut)
    PROVE  Clean(s) \in Seq(Uncut)
<1>1. Uncut \in SUBSET Tokens BY DEF Tokens
<1> QED BY <1>1, CleanOf

\* A text without closing tags is left as it is.
LEMMA CleanKeeps ==
    ASSUME NEW s \in Seq(Tokens), Places(s, Close) = {}
    PROVE  Clean(s) = s
<1> DEFINE n == Len(s) + 1
           f == CleanFrom(s)
           S == {i \in 1..n : f[i] = SubSeq(s, i, Len(s))}
<1>0. n \in Nat /\ 1 \in 1..n /\ n = Len(s) + 1 /\ Len(s) \in Nat
  OBVIOUS
<1>1. ASSUME NEW i \in 1..n, \A j \in (i + 1)..n : j \in S PROVE f[i] = SubSeq(s, i, Len(s))
  <2>1. f[i] = Cut(s, f, i) BY CleanStep
  <2>2. \A j \in (i + 1)..n : f[j] = SubSeq(s, j, Len(s)) BY <1>1
  <2>3. i \in Nat /\ i >= 1 BY <1>0
  <2> HIDE DEF f, S
  <2>4. CASE i > Len(s)
    <3>1. SubSeq(s, i, Len(s)) = <<>> BY <2>3, <2>4
    <3> QED BY <2>1, <2>4, <3>1 DEF Cut
  <2>5. CASE i <= Len(s)
    <3>1. Closing(s, i) = {} BY DEF Closing
    <3>2. f[i] = <<s[i]>> \o f[i + 1] BY <2>1, <2>3, <2>5, <3>1, <1>0 DEF Cut
    <3>3. i + 1 \in (i + 1)..n BY <2>3, <2>5, <1>0
    <3>4. f[i + 1] = SubSeq(s, i + 1, Len(s)) BY <3>3, <2>2
    <3>5. SubSeq(s, i, Len(s)) = <<s[i]>> \o SubSeq(s, i + 1, Len(s)) BY <2>3, <2>5
    <3> QED BY <3>2, <3>4, <3>5
  <2> QED BY <2>3, <2>4, <2>5, <1>0
<1>2. \A i \in 1..n : i \in S
  <2>1. ASSUME NEW i \in 1..n, \A j \in (i + 1)..n : j \in S PROVE i \in S
    <3>1. f[i] = SubSeq(s, i, Len(s)) BY <2>1, <1>1
    <3> HIDE DEF n, f
    <3> QED BY <3>1
  <2> HIDE DEF n, f, S
  <2> QED BY <1>0, <2>1, Backward
<1>3. Clean(s) = SubSeq(s, 1, Len(s))
  BY <1>0, <1>2 DEF Clean
<1> QED BY <1>3

\* A block is cut whole.
LEMMA CleanBlock ==
    ASSUME NEW s \in Seq(Tokens), Len(s) >= 2, s[1] = Open, s[Len(s)] = Close,
           \A j \in 2..(Len(s) - 1) : s[j] # Close
    PROVE  Clean(s) = <<>>
<1>1. Len(s) \in Nat OBVIOUS
<1>2. Len(s) \in Closing(s, 1) BY <1>1 DEF Closing, Places
<1>3. \A j \in Closing(s, 1) : Len(s) <= j
  BY <1>1 DEF Closing, Places
<1>4. Closing(s, 1) \in SUBSET Nat BY ClosingIs
<1>5. Least(Closing(s, 1)) = Len(s) BY <1>2, <1>3, <1>4, LeastIs
<1>6. CleanFrom(s)[1] = Cut(s, CleanFrom(s), 1) BY <1>1, CleanStep
<1>7. CleanFrom(s)[1] = CleanFrom(s)[Len(s) + 1]
  BY <1>1, <1>2, <1>5, <1>6 DEF Cut
<1>8. CleanFrom(s)[Len(s) + 1] = Cut(s, CleanFrom(s), Len(s) + 1) BY <1>1, CleanStep
<1>9. CleanFrom(s)[Len(s) + 1] = <<>> BY <1>1, <1>8 DEF Cut
<1> QED BY <1>7, <1>9 DEF Clean

\* Every block of the text is closed.
Closed(s) == \A i \in Places(s, Open) : Closing(s, i) # {}

\* Laws of concatenation, for the provers.
LEMMA Associative ==
    ASSUME NEW u \in Seq(Tokens), NEW v \in Seq(Tokens), NEW w \in Seq(Tokens)
    PROVE  (u \o v) \o w = u \o (v \o w)
BY ConcatAssociative

LEMMA Joined ==
    ASSUME NEW p \in Seq(Tokens), NEW q \in Seq(Tokens)
    PROVE  /\ p \o q \in Seq(Tokens) /\ Len(p \o q) = Len(p) + Len(q)
           /\ Len(p) \in Nat /\ Len(q) \in Nat
           /\ \A i \in 1..Len(p) : (p \o q)[i] = p[i]
           /\ \A i \in 1..Len(q) : (p \o q)[Len(p) + i] = q[i]
OBVIOUS

\* After a text whose blocks are closed, the replacement goes on as if the text
\* began there.
LEMMA CleanTail ==
    ASSUME NEW p \in Seq(Tokens), NEW q \in Seq(Tokens)
    PROVE  \A i \in 1..(Len(q) + 1) : CleanFrom(p \o q)[Len(p) + i] = CleanFrom(q)[i]
<1> DEFINE n == Len(q) + 1
           s == p \o q
           f == CleanFrom(s)
           g == CleanFrom(q)
           S == {i \in 1..n : f[Len(p) + i] = g[i]}
<1>0. /\ n \in Nat /\ n = Len(q) + 1 /\ Len(q) \in Nat /\ Len(p) \in Nat
      /\ s \in Seq(Tokens) /\ Len(s) = Len(p) + Len(q)
      /\ \A i \in 1..Len(q) : s[Len(p) + i] = q[i]
  BY Joined
<1>1. ASSUME NEW i \in 1..n, \A j \in (i + 1)..n : j \in S PROVE f[Len(p) + i] = g[i]
  <2>0. i \in Nat /\ i >= 1 /\ Len(p) + i \in 1..(Len(s) + 1) BY <1>0
  <2>1. g[i] = Cut(q, g, i) BY CleanStep
  <2>2. f[Len(p) + i] = Cut(s, f, Len(p) + i) BY <1>0, <2>0, CleanStep
  <2>3. \A j \in (i + 1)..n : f[Len(p) + j] = g[j] BY <1>1
  <2> HIDE DEF f, g, S, s
  <2>4. CASE i > Len(q)
    <3>1. Len(p) + i > Len(s) BY <2>4, <1>0, <2>0
    <3> QED BY <2>1, <2>2, <2>4, <3>1 DEF Cut
  <2>5. ASSUME NEW j \in Nat PROVE Len(p) + j \in Closing(s, Len(p) + i) <=> j \in Closing(q, i)
    <3>1. ASSUME Len(p) + j \in Closing(s, Len(p) + i) PROVE j \in Closing(q, i)
      <4>1. Len(p) + j \in 1..Len(s) /\ s[Len(p) + j] = Close /\ Len(p) + j > Len(p) + i
        BY <3>1 DEF Closing, Places
      <4>2. j \in 1..Len(q) /\ j > i BY <4>1, <1>0, <2>0
      <4> QED BY <4>1, <4>2, <1>0 DEF Closing, Places
    <3>2. ASSUME j \in Closing(q, i) PROVE Len(p) + j \in Closing(s, Len(p) + i)
      <4>1. j \in 1..Len(q) /\ q[j] = Close /\ j > i BY <3>2 DEF Closing, Places
      <4>2. Len(p) + j \in 1..Len(s) /\ Len(p) + j > Len(p) + i /\ s[Len(p) + j] = Close
        BY <4>1, <1>0, <2>0
      <4> QED BY <4>2 DEF Closing, Places
    <3> QED BY <3>1, <3>2
  <2>6. ASSUME NEW k \in Closing(s, Len(p) + i) PROVE k - Len(p) \in Nat /\ k = Len(p) + (k - Len(p))
    <3>1. k \in 1..Len(s) /\ k > Len(p) + i BY DEF Closing, Places
    <3> QED BY <3>1, <1>0, <2>0
  <2>7. Closing(s, Len(p) + i) # {} <=> Closing(q, i) # {}
    <3>1. Closing(q, i) \in SUBSET Nat BY <2>0, ClosingIs
    <3>2. ASSUME NEW k \in Closing(s, Len(p) + i) PROVE Closing(q, i) # {}
      BY <2>5, <2>6
    <3> QED BY <3>1, <3>2, <2>5
  <2>8. CASE i <= Len(q) /\ q[i] = Open /\ Closing(q, i) # {}
    <3> DEFINE l == Least(Closing(q, i))
    <3>1. l \in Closing(q, i) /\ \A j \in Closing(q, i) : l <= j
      <4>1. Closing(q, i) \in SUBSET Nat BY <2>0, ClosingIs
      <4> QED BY <4>1, <2>8, LeastOf
    <3>2. l \in 1..Len(q) /\ l > i BY <2>0, <2>8, ClosingIs
    <3> HIDE DEF l
    <3>3. Len(p) + l \in Closing(s, Len(p) + i) BY <3>1, <3>2, <2>5
    <3>4. ASSUME NEW k \in Closing(s, Len(p) + i) PROVE Len(p) + l <= k
      <4>1. k - Len(p) \in Closing(q, i) BY <2>5, <2>6
      <4>2. l <= k - Len(p) BY <4>1, <3>1
      <4> QED BY <4>2, <2>6, <3>2, <1>0
    <3>5. Closing(s, Len(p) + i) \in SUBSET Nat BY <1>0, <2>0, ClosingIs
    <3>6. Least(Closing(s, Len(p) + i)) = Len(p) + l BY <3>3, <3>4, <3>5, LeastIs
    <3>7. s[Len(p) + i] = Open /\ ~ (Len(p) + i > Len(s)) BY <2>8, <2>0, <1>0
    <3>8. f[Len(p) + i] = f[Len(p) + l + 1] BY <2>2, <2>7, <2>8, <3>6, <3>7 DEF Cut
    <3>9. g[i] = g[l + 1] BY <2>1, <2>0, <2>8, <1>0 DEF Cut, l
    <3>10. l + 1 \in (i + 1)..n /\ Len(p) + l + 1 = Len(p) + (l + 1) BY <3>2, <1>0, <2>0
    <3> QED BY <3>8, <3>9, <3>10, <2>3
  <2>9. CASE i <= Len(q) /\ ~ (q[i] = Open /\ Closing(q, i) # {})
    <3>1. s[Len(p) + i] = q[i] /\ ~ (Len(p) + i > Len(s)) BY <2>9, <2>0, <1>0
    <3>2. f[Len(p) + i] = <<q[i]>> \o f[Len(p) + i + 1] BY <2>2, <2>7, <2>9, <3>1 DEF Cut
    <3>3. g[i] = <<q[i]>> \o g[i + 1] BY <2>1, <2>0, <2>9, <1>0 DEF Cut
    <3>4. i + 1 \in (i + 1)..n /\ Len(p) + i + 1 = Len(p) + (i + 1) BY <2>9, <1>0, <2>0
    <3> QED BY <3>2, <3>3, <3>4, <2>3
  <2> QED BY <2>4, <2>8, <2>9, <1>0, <2>0
<1>2. \A i \in 1..n : i \in S
  <2> HIDE DEF n, s, f, g
  <2> QED BY <1>0, <1>1, Backward
<1> QED BY <1>2

\* And the whole is cleaned part by part.
LEMMA CleanJoin ==
    ASSUME NEW p \in Seq(Tokens), NEW q \in Seq(Tokens), Closed(p)
    PROVE  Clean(p \o q) = Clean(p) \o Clean(q)
<1> DEFINE n == Len(p) + 1
           s == p \o q
           f == CleanFrom(s)
           g == CleanFrom(p)
           c == Clean(q)
           S == {i \in 1..n : f[i] = g[i] \o c}
<1>0. /\ n \in Nat /\ n = Len(p) + 1 /\ Len(q) \in Nat /\ Len(p) \in Nat /\ 1 \in 1..n
      /\ s \in Seq(Tokens) /\ Len(s) = Len(p) + Len(q)
      /\ \A i \in 1..Len(p) : s[i] = p[i]
      /\ c \in Seq(Tokens) /\ \A i \in 1..n : g[i] \in Seq(Tokens)
  BY Joined, CleanType
<1>1. ASSUME NEW i \in 1..n, \A j \in (i + 1)..n : j \in S PROVE f[i] = g[i] \o c
  <2>0. i \in Nat /\ i >= 1 /\ i \in 1..(Len(s) + 1) BY <1>0
  <2>1. g[i] = Cut(p, g, i) BY CleanStep
  <2>2. f[i] = Cut(s, f, i) BY <1>0, <2>0, CleanStep
  <2>3. \A j \in (i + 1)..n : f[j] = g[j] \o c BY <1>1
  <2>4. CASE i > Len(p)
    <3>1. i = Len(p) + 1 /\ 1 \in 1..(Len(q) + 1) BY <2>4, <1>0, <2>0
    <3>2. f[i] = c BY <3>1, CleanTail DEF Clean
    <3>3. g[i] = <<>> BY <2>1, <2>4 DEF Cut
    <3>4. <<>> \o c = c BY <1>0
    <3> QED BY <3>2, <3>3, <3>4
  <2> HIDE DEF f, g, S, s, c
  <2>5. CASE i <= Len(p) /\ p[i] = Open
    <3>1. Closing(p, i) # {} BY <2>0, <2>5 DEF Closed, Places
    <3> DEFINE l == Least(Closing(p, i))
    <3>2. l \in Closing(p, i) /\ \A j \in Closing(p, i) : l <= j
      <4>1. Closing(p, i) \in SUBSET Nat BY <2>0, ClosingIs
      <4> QED BY <4>1, <3>1, LeastOf
    <3>3. l \in 1..Len(p) /\ l > i /\ p[l] = Close BY <2>0, <3>1, ClosingIs
    <3> HIDE DEF l
    <3>4. l \in Closing(s, i) BY <3>3, <1>0 DEF Closing, Places
    <3>5. ASSUME NEW k \in Closing(s, i) PROVE l <= k
      <4>1. k \in 1..Len(s) /\ s[k] = Close /\ k > i BY DEF Closing, Places
      <4>2. CASE k <= Len(p)
        <5>1. k \in 1..Len(p) BY <4>1, <4>2, <1>0
        <5>2. k \in Closing(p, i) BY <5>1, <4>1, <1>0 DEF Closing, Places
        <5> QED BY <5>2, <3>2
      <4>3. CASE k > Len(p) BY <4>1, <4>3, <3>3, <1>0
      <4> QED BY <4>1, <4>2, <4>3, <1>0
    <3>6. Closing(s, i) \in SUBSET Nat BY <1>0, <2>0, ClosingIs
    <3>7. Least(Closing(s, i)) = l BY <3>4, <3>5, <3>6, LeastIs
    <3>8. s[i] = Open /\ ~ (i > Len(s)) /\ ~ (i > Len(p)) BY <2>5, <2>0, <1>0
    <3>9. f[i] = f[l + 1] BY <2>2, <3>4, <3>7, <3>8 DEF Cut
    <3>10. g[i] = g[l + 1] BY <2>1, <2>5, <3>1, <3>8 DEF Cut, l
    <3>11. l + 1 \in (i + 1)..n BY <3>3, <1>0, <2>0
    <3> QED BY <3>9, <3>10, <3>11, <2>3
  <2>6. CASE i <= Len(p) /\ p[i] # Open
    <3>1. s[i] = p[i] /\ ~ (i > Len(s)) /\ ~ (i > Len(p)) BY <2>6, <2>0, <1>0
    <3>2. f[i] = <<p[i]>> \o f[i + 1] BY <2>2, <2>6, <3>1 DEF Cut
    <3>3. g[i] = <<p[i]>> \o g[i + 1] BY <2>1, <2>6, <3>1 DEF Cut
    <3>4. i + 1 \in (i + 1)..n /\ i + 1 \in 1..n /\ p[i] \in Tokens BY <2>6, <1>0, <2>0
    <3>5. f[i + 1] = g[i + 1] \o c BY <3>4, <2>3
    <3>6. <<p[i]>> \in Seq(Tokens) BY <3>4
    <3>8. g[i + 1] \in Seq(Tokens) BY <3>4, <1>0
    <3>9. c \in Seq(Tokens) BY <1>0
    <3>7. (<<p[i]>> \o g[i + 1]) \o c = <<p[i]>> \o (g[i + 1] \o c) BY <3>6, <3>8, <3>9, Associative
    <3> QED BY <3>2, <3>3, <3>5, <3>7
  <2> QED BY <2>4, <2>5, <2>6, <1>0, <2>0
<1>2. \A i \in 1..n : i \in S
  <2> HIDE DEF n, s, f, g, c
  <2> QED BY <1>0, <1>1, Backward
<1> QED BY <1>0, <1>2 DEF Clean

--------------------------------------------------------------------------------
(* The parts of a text.                                                      *)

\* A text without tags.
Worded(w) == \A i \in 1..Len(w) : w[i] \notin {Open, Close}

\* A block that is not closed yet, if there is one.
Pending(r) == r # <<>> => r[1] = Open /\ \A i \in 2..Len(r) : r[i] \notin {Open, Close}

\* The text s is a text of closed blocks, which leaves the words w, and then r.
Parted(s, w, r) ==
    /\ w \in Seq(Tokens) /\ r \in Seq(Tokens) /\ Worded(w) /\ Pending(r)
    /\ \E p \in Seq(Tokens) : s = p \o r /\ Closed(p) /\ Clean(p) = w

LEMMA TwoTags == Open # Close /\ Open \in Tokens /\ Close \in Tokens
BY DEF Open, Close, Tokens, Uncut

LEMMA WordsKept ==
    ASSUME NEW c \in Seq(Tokens), Worded(c)
    PROVE  Closed(c) /\ Clean(c) = c /\ Places(c, Open) = {} /\ Places(c, Close) = {}
<1>1. Places(c, Open) = {} /\ Places(c, Close) = {}
  BY DEF Worded, Places
<1>2. Clean(c) = c BY <1>1, CleanKeeps
<1> QED BY <1>1, <1>2 DEF Closed

LEMMA ClosedJoin ==
    ASSUME NEW p \in Seq(Tokens), NEW q \in Seq(Tokens), Closed(p), Closed(q)
    PROVE  Closed(p \o q)
<1>1. /\ p \o q \in Seq(Tokens) /\ Len(p \o q) = Len(p) + Len(q)
      /\ Len(p) \in Nat /\ Len(q) \in Nat
      /\ \A i \in 1..Len(p) : (p \o q)[i] = p[i]
      /\ \A i \in 1..Len(q) : (p \o q)[Len(p) + i] = q[i]
  BY Joined
<1>2. ASSUME NEW i \in Places(p \o q, Open) PROVE Closing(p \o q, i) # {}
  <2>1. i \in 1..(Len(p) + Len(q)) /\ (p \o q)[i] = Open
    BY <1>1 DEF Places
  <2>2. CASE i <= Len(p)
    <3>1. i \in 1..Len(p) BY <2>1, <2>2, <1>1
    <3>2. i \in Places(p, Open) BY <3>1, <2>1, <1>1 DEF Places
    <3>3. PICK j \in Closing(p, i) : TRUE BY <3>2 DEF Closed
    <3>4. j \in 1..Len(p) /\ p[j] = Close /\ j > i BY <3>3 DEF Closing, Places
    <3>5. j \in 1..Len(p \o q) /\ (p \o q)[j] = Close BY <3>4, <1>1
    <3>6. j \in Closing(p \o q, i) BY <3>4, <3>5, <1>1 DEF Closing, Places
    <3> QED BY <3>6
  <2>3. CASE i > Len(p)
    <3> DEFINE k == i - Len(p)
    <3>1. k \in 1..Len(q) /\ i = Len(p) + k BY <2>1, <2>3, <1>1
    <3>2. k \in Places(q, Open) BY <3>1, <2>1, <1>1 DEF Places
    <3>3. PICK j \in Closing(q, k) : TRUE BY <3>2 DEF Closed
    <3>4. j \in 1..Len(q) /\ q[j] = Close /\ j > k BY <3>3 DEF Closing, Places
    <3>5. Len(p) + j \in 1..Len(p \o q) /\ (p \o q)[Len(p) + j] = Close /\ Len(p) + j > i
      BY <3>1, <3>4, <1>1
    <3>6. Len(p) + j \in Closing(p \o q, i) BY <3>5, <1>1 DEF Closing, Places
    <3> QED BY <3>6
  <2> QED BY <2>1, <2>2, <2>3, <1>1
<1> QED BY <1>2 DEF Closed

LEMMA BlockClosed ==
    ASSUME NEW s \in Seq(Tokens), Len(s) >= 1, s[Len(s)] = Close
    PROVE  Closed(s)
<1>1. ASSUME NEW i \in Places(s, Open) PROVE Closing(s, i) # {}
  <2>1. i \in 1..Len(s) /\ s[i] = Open /\ Len(s) \in 1..Len(s) BY DEF Places
  <2>2. i < Len(s) BY <2>1, TwoTags
  <2>3. Len(s) \in Closing(s, i) BY <2>1, <2>2 DEF Closing, Places
  <2> QED BY <2>3
<1> QED BY <1>1 DEF Closed

\* What words, the beginning of a block and its end make of a parted text.
LEMMA WordsFollow ==
    ASSUME NEW s \in Seq(Tokens), NEW w, Parted(s, w, <<>>), NEW c \in Seq(Tokens), Worded(c)
    PROVE  Parted(s \o c, w \o c, <<>>)
<1>1. PICK p \in Seq(Tokens) : s = p \o <<>> /\ Closed(p) /\ Clean(p) = w
  BY DEF Parted
<1>2. w \in Seq(Tokens) /\ Worded(w) BY DEF Parted
<1>3. p = s BY <1>1
<1>4. Closed(s \o c) BY <1>1, <1>3, ClosedJoin, WordsKept
<1>5. Clean(s \o c) = w \o c BY <1>1, <1>3, CleanJoin, WordsKept
<1>6. s \o c \in Seq(Tokens) /\ s \o c = (s \o c) \o <<>> /\ w \o c \in Seq(Tokens) BY <1>2
<1>7. Worded(w \o c)
  <2>1. /\ Len(w \o c) = Len(w) + Len(c) /\ Len(w) \in Nat /\ Len(c) \in Nat
        /\ \A i \in 1..Len(w) : (w \o c)[i] = w[i]
        /\ \A i \in 1..Len(c) : (w \o c)[Len(w) + i] = c[i]
    BY <1>2, Joined
  <2>2. ASSUME NEW i \in 1..Len(w \o c) PROVE (w \o c)[i] \notin {Open, Close}
    <3>1. CASE i <= Len(w) BY <3>1, <2>1, <1>2 DEF Worded
    <3>2. CASE i > Len(w)
      <4>1. i - Len(w) \in 1..Len(c) /\ i = Len(w) + (i - Len(w)) BY <3>2, <2>1
      <4> QED BY <4>1, <2>1 DEF Worded
    <3> QED BY <3>1, <3>2, <2>1
  <2> QED BY <2>2 DEF Worded
<1>8. Pending(<<>>) /\ <<>> \in Seq(Tokens) BY DEF Pending
<1> QED BY <1>4, <1>5, <1>6, <1>7, <1>8 DEF Parted

LEMMA BlockBegins ==
    ASSUME NEW s \in Seq(Tokens), NEW w, Parted(s, w, <<>>), NEW c \in Seq(Tokens), Pending(c)
    PROVE  Parted(s \o c, w, c)
<1>1. PICK p \in Seq(Tokens) : s = p \o <<>> /\ Closed(p) /\ Clean(p) = w
  BY DEF Parted
<1>2. p = s BY <1>1
<1>3. w \in Seq(Tokens) /\ Worded(w) BY DEF Parted
<1> QED BY <1>1, <1>2, <1>3 DEF Parted

LEMMA BlockGoesOn ==
    ASSUME NEW s \in Seq(Tokens), NEW w, NEW r, r # <<>>, Parted(s, w, r),
           NEW c \in Seq(Tokens), Worded(c)
    PROVE  Parted(s \o c, w, r \o c) /\ r \o c # <<>>
<1>1. PICK p \in Seq(Tokens) : s = p \o r /\ Closed(p) /\ Clean(p) = w
  BY DEF Parted
<1>2. w \in Seq(Tokens) /\ Worded(w) /\ r \in Seq(Tokens) /\ Pending(r) BY DEF Parted
<1>3. s \o c = p \o (r \o c) BY <1>1, <1>2, Associative
<1>4. /\ r \o c \in Seq(Tokens) /\ Len(r \o c) = Len(r) + Len(c) /\ Len(r) \in Nat /\ Len(c) \in Nat
      /\ \A i \in 1..Len(r) : (r \o c)[i] = r[i]
      /\ \A i \in 1..Len(c) : (r \o c)[Len(r) + i] = c[i]
  BY <1>2, Joined
<1>5. Len(r) >= 1 BY <1>2
<1>6. (r \o c)[1] = Open BY <1>2, <1>4, <1>5 DEF Pending
<1>7. ASSUME NEW i \in 2..Len(r \o c) PROVE (r \o c)[i] \notin {Open, Close}
  <2>1. CASE i <= Len(r) BY <2>1, <1>2, <1>4, <1>5 DEF Pending
  <2>2. CASE i > Len(r)
    <3>1. i - Len(r) \in 1..Len(c) /\ i = Len(r) + (i - Len(r)) BY <2>2, <1>4
    <3> QED BY <3>1, <1>4 DEF Worded
  <2> QED BY <2>1, <2>2, <1>4
<1>8. Pending(r \o c) BY <1>6, <1>7 DEF Pending
<1>9. r \o c # <<>> BY <1>4, <1>5
<1> QED BY <1>1, <1>2, <1>3, <1>4, <1>8, <1>9 DEF Parted

LEMMA BlockEnds ==
    ASSUME NEW s \in Seq(Tokens), NEW w, NEW r, r # <<>>, Parted(s, w, r),
           NEW c \in Seq(Tokens), Worded(c)
    PROVE  Parted(s \o (c \o <<Close>>), w, <<>>)
<1> DEFINE d == r \o c
           b == d \o <<Close>>
<1>0. Parted(s \o c, w, d) /\ d # <<>> BY BlockGoesOn
<1> HIDE DEF d
<1>1. PICK p \in Seq(Tokens) : s \o c = p \o d /\ Closed(p) /\ Clean(p) = w
  BY <1>0 DEF Parted
<1>2. w \in Seq(Tokens) /\ Worded(w) /\ d \in Seq(Tokens) /\ Pending(d) /\ d # <<>>
  BY <1>0 DEF Parted
<1>3. <<Close>> \in Seq(Tokens) /\ Len(<<Close>>) = 1 /\ <<Close>>[1] = Close BY TwoTags
<1>4. /\ b \in Seq(Tokens) /\ Len(b) = Len(d) + 1 /\ Len(d) \in Nat
      /\ \A i \in 1..Len(d) : b[i] = d[i]
      /\ b[Len(d) + 1] = Close
  BY <1>2, <1>3, Joined
<1>5. Len(d) >= 1 BY <1>2
<1> HIDE DEF b
<1>6. Len(b) >= 2 /\ b[1] = Open /\ b[Len(b)] = Close BY <1>2, <1>4, <1>5 DEF Pending
<1>7. ASSUME NEW j \in 2..(Len(b) - 1) PROVE b[j] # Close
  <2>1. j \in 2..Len(d) /\ j \in 1..Len(d) BY <1>4
  <2>2. b[j] = d[j] BY <2>1, <1>4
  <2> QED BY <2>1, <2>2, <1>2 DEF Pending
<1>8. Clean(b) = <<>> BY <1>4, <1>6, <1>7, CleanBlock
<1>9. Closed(b) BY <1>4, <1>6, BlockClosed
<1>10. Closed(p \o b) BY <1>1, <1>4, <1>9, ClosedJoin
<1>11. Clean(p \o b) = w
  <2>1. Clean(p \o b) = Clean(p) \o Clean(b) BY <1>1, <1>4, CleanJoin
  <2> QED BY <2>1, <1>1, <1>2, <1>8
<1>12. s \o (c \o <<Close>>) = p \o b
  <2>1. s \o (c \o <<Close>>) = (s \o c) \o <<Close>> BY <1>3, Associative
  <2>2. (p \o d) \o <<Close>> = p \o (d \o <<Close>>) BY <1>2, <1>3, Associative
  <2> QED BY <2>1, <2>2, <1>1 DEF b
<1>13. p \o b \in Seq(Tokens) /\ p \o b = (p \o b) \o <<>> BY <1>4
<1>14. Pending(<<>>) /\ <<>> \in Seq(Tokens) BY DEF Pending
<1> QED BY <1>2, <1>10, <1>11, <1>12, <1>13, <1>14 DEF Parted

\* What is cleaned and what is shown of a parted text.
LEMMA PartedClean ==
    ASSUME NEW s \in Seq(Tokens), NEW w, NEW r, Parted(s, w, r)
    PROVE  Clean(s) = w \o r /\ Clean(w \o r) = w \o r
<1>1. PICK p \in Seq(Tokens) : s = p \o r /\ Closed(p) /\ Clean(p) = w
  BY DEF Parted
<1>2. w \in Seq(Tokens) /\ Worded(w) /\ r \in Seq(Tokens) /\ Pending(r) BY DEF Parted
<1>3. Places(r, Close) = {}
  <2>1. ASSUME NEW i \in Places(r, Close) PROVE FALSE
    <3>1. i \in 1..Len(r) /\ r[i] = Close BY <1>2 DEF Places
    <3>2. r # <<>> BY <3>1
    <3>3. i = 1 \/ i \in 2..Len(r) BY <3>1
    <3> QED BY <3>1, <3>2, <3>3, <1>2, TwoTags DEF Pending
  <2> QED BY <2>1
<1>4. Clean(r) = r BY <1>2, <1>3, CleanKeeps
<1>5. Clean(s) = w \o r BY <1>1, <1>2, <1>4, CleanJoin
<1>6. Clean(w) = w /\ Closed(w) BY <1>2, WordsKept
<1>7. Clean(w \o r) = w \o r BY <1>2, <1>4, <1>6, CleanJoin
<1> QED BY <1>5, <1>7

\* The page shows the words before the block that is open.
LEMMA PartedShown ==
    ASSUME NEW w \in Seq(Tokens), NEW r \in Seq(Tokens), Worded(w), Pending(r)
    PROVE  Shown(w \o r) = w /\ Places(w, Open) \cup Places(w, Close) = {}
<1> DEFINE s == w \o r
<1>1. Places(w, Open) = {} /\ Places(w, Close) = {} BY WordsKept
<1>2. CASE r = <<>>
  <2>1. w \o r = w BY <1>2
  <2> QED BY <2>1, <1>1 DEF Shown
<1>3. CASE r # <<>>
  <2>1. /\ s \in Seq(Tokens) /\ Len(s) = Len(w) + Len(r) /\ Len(w) \in Nat /\ Len(r) \in Nat
        /\ \A i \in 1..Len(w) : s[i] = w[i]
        /\ \A i \in 1..Len(r) : s[Len(w) + i] = r[i]
    BY Joined
  <2>2. Len(r) >= 1 /\ r[1] = Open /\ \A i \in 2..Len(r) : r[i] \notin {Open, Close}
    BY <1>3 DEF Pending
  <2> DEFINE k == Len(w) + 1
  <2>3. SubSeq(s, 1, k - 1) = w BY <2>1
  <2> HIDE DEF s
  <2>4. k \in Places(s, Open) BY <2>1, <2>2 DEF Places
  <2>5. ASSUME NEW j \in Places(s, Open) PROVE k <= j
    <3>1. j \in 1..Len(s) /\ s[j] = Open BY <2>1 DEF Places
    <3>2. ~ (j <= Len(w)) BY <3>1, <2>1 DEF Worded
    <3> QED BY <3>1, <3>2, <2>1
  <2>6. Places(s, Open) \in SUBSET Nat BY <2>1 DEF Places
  <2>7. Least(Places(s, Open)) = k BY <2>4, <2>5, <2>6, LeastIs
  <2> DEFINE rest == SubSeq(s, k + 1, Len(s))
  <2>8. Places(rest, Close) = {}
    <3>1. ASSUME NEW i \in Places(rest, Close) PROVE FALSE
      <4>1. i \in 1..(Len(s) - k) /\ s[k + i] = Close BY <2>1 DEF Places
      <4>2. i + 1 \in 2..Len(r) /\ k + i = Len(w) + (i + 1) BY <4>1, <2>1
      <4>3. s[k + i] = r[i + 1] BY <4>2, <2>1
      <4> QED BY <4>1, <4>2, <4>3, <2>2
    <3> QED BY <3>1
  <2>9. Shown(s) = SubSeq(s, 1, k - 1) \o <<>> BY <2>4, <2>7, <2>8 DEF Shown
  <2>10. Shown(s) = w BY <2>3, <2>9
  <2> QED BY <2>10, <1>1 DEF s
<1> QED BY <1>2, <1>3

--------------------------------------------------------------------------------
(* The tags in their order.                                                  *)

\* What the order of the tags says of a text that goes on.
LEMMA NoStrayEnd ==
    ASSUME NEW s \in Seq(Tokens), NEW w, Parted(s, w, <<>>), NEW c \in Seq(Tokens), Unnested(s \o c),
           NEW j \in Places(c, Close)
    PROVE  \E i \in Places(c, Open) : i < j
<1>0. /\ s \o c \in Seq(Tokens) /\ Len(s \o c) = Len(s) + Len(c)
      /\ Len(s) \in Nat /\ Len(c) \in Nat
      /\ \A i \in 1..Len(s) : (s \o c)[i] = s[i]
      /\ \A i \in 1..Len(c) : (s \o c)[Len(s) + i] = c[i]
  BY Joined
<1>1. Closed(s)
  <2>1. PICK p \in Seq(Tokens) : s = p \o <<>> /\ Closed(p) BY DEF Parted
  <2>2. p \o <<>> = p OBVIOUS
  <2> QED BY <2>1, <2>2
<1>2. j \in 1..Len(c) /\ c[j] = Close BY <1>0 DEF Places
<1>3. Len(s) + j \in Places(s \o c, Close) BY <1>0, <1>2 DEF Places
<1>4. PICK i \in Places(s \o c, Open) : i < Len(s) + j /\ Least(Closing(s \o c, i)) = Len(s) + j
  BY <1>3 DEF Unnested
<1>5. i \in 1..(Len(s) + Len(c)) /\ (s \o c)[i] = Open BY <1>0 DEF Places
<1>6. ASSUME i <= Len(s) PROVE FALSE
  <2>1. i \in 1..Len(s) BY <1>5, <1>6, <1>0
  <2>2. i \in Places(s, Open) BY <2>1, <1>5, <1>0 DEF Places
  <2>3. PICK k \in Closing(s, i) : TRUE BY <2>2, <1>1 DEF Closed
  <2>4. k \in 1..Len(s) /\ s[k] = Close /\ k > i BY <2>3 DEF Closing, Places
  <2>5. k \in Closing(s \o c, i) BY <2>4, <1>0 DEF Closing, Places
  <2>8. i \in Nat BY <2>1
  <2>9. s \o c \in Seq(Tokens) BY <1>0
  <2>6. Closing(s \o c, i) \in SUBSET Nat BY <2>8, <2>9, ClosingIs
  <2>7. Least(Closing(s \o c, i)) <= k BY <2>5, <2>6, LeastOf
  <2> QED BY <2>4, <2>7, <1>0, <1>2, <1>4
<1>7. i - Len(s) \in 1..Len(c) /\ i = Len(s) + (i - Len(s)) /\ i - Len(s) < j
  BY <1>0, <1>2, <1>4, <1>5, <1>6
<1>8. i - Len(s) \in Places(c, Open) BY <1>7, <1>5, <1>0 DEF Places
<1> QED BY <1>7, <1>8

LEMMA NoNesting ==
    ASSUME NEW s \in Seq(Tokens), NEW w, NEW r, r # <<>>, Parted(s, w, r),
           NEW c \in Seq(Tokens), Unnested(s \o c), NEW j \in Places(c, Open)
    PROVE  \E k \in Places(c, Close) : k < j
<1>0. /\ s \o c \in Seq(Tokens) /\ Len(s \o c) = Len(s) + Len(c)
      /\ Len(s) \in Nat /\ Len(c) \in Nat
      /\ \A i \in 1..Len(s) : (s \o c)[i] = s[i]
      /\ \A i \in 1..Len(c) : (s \o c)[Len(s) + i] = c[i]
  BY Joined
<1>1. PICK p \in Seq(Tokens) : s = p \o r BY DEF Parted
<1>2. r \in Seq(Tokens) /\ r[1] = Open /\ \A i \in 2..Len(r) : r[i] \notin {Open, Close}
  BY DEF Parted, Pending
<1>3. /\ Len(s) = Len(p) + Len(r) /\ Len(p) \in Nat /\ Len(r) \in Nat /\ Len(r) >= 1
      /\ \A i \in 1..Len(r) : s[Len(p) + i] = r[i]
  BY <1>1, <1>2
<1> DEFINE o == Len(p) + 1
<1>4. o \in 1..Len(s) /\ s[o] = Open BY <1>2, <1>3
<1>5. o \in Places(s \o c, Open) BY <1>4, <1>0 DEF Places
<1>6. j \in 1..Len(c) /\ c[j] = Open BY <1>0 DEF Places
<1>7. Len(s) + j \in Places(s \o c, Open) BY <1>6, <1>0 DEF Places
<1>8. o < Len(s) + j BY <1>3, <1>6
<1> HIDE DEF o
<1>9. PICK k \in Closing(s \o c, o) : k < Len(s) + j BY <1>5, <1>7, <1>8 DEF Unnested
<1>10. k \in 1..(Len(s) + Len(c)) /\ (s \o c)[k] = Close /\ k > o BY <1>0 DEF Closing, Places
<1>11. ASSUME k <= Len(s) PROVE FALSE
  <2>1. k \in 1..Len(s) /\ k - Len(p) \in 2..Len(r) /\ k - Len(p) \in 1..Len(r) /\ k = Len(p) + (k - Len(p))
    BY <1>10, <1>11, <1>3 DEF o
  <2>2. s[k] = r[k - Len(p)] BY <2>1, <1>3
  <2> QED BY <2>1, <2>2, <1>0, <1>2, <1>10
<1>12. k - Len(s) \in 1..Len(c) /\ k = Len(s) + (k - Len(s)) /\ k - Len(s) < j
  BY <1>0, <1>6, <1>9, <1>10, <1>11
<1>13. k - Len(s) \in Places(c, Close) BY <1>12, <1>10, <1>0 DEF Places
<1> QED BY <1>12, <1>13

\* The beginning of a text without nested blocks is one.
LEMMA UnnestedBegins ==
    ASSUME NEW s \in Seq(Tokens), NEW c \in Seq(Tokens), Unnested(s \o c)
    PROVE  Unnested(s)
<1>0. /\ s \o c \in Seq(Tokens) /\ Len(s \o c) = Len(s) + Len(c)
      /\ Len(s) \in Nat /\ Len(c) \in Nat
      /\ \A i \in 1..Len(s) : (s \o c)[i] = s[i]
  BY Joined
<1>1. \A t, i : i \in Places(s, t) => i \in Places(s \o c, t) /\ i \in 1..Len(s)
  BY <1>0 DEF Places
<1>2. \A t, i : i \in Places(s \o c, t) /\ i <= Len(s) => i \in Places(s, t)
  BY <1>0 DEF Places
<1>3. ASSUME NEW i \in Places(s, Open), NEW j \in Places(s, Open), i < j
      PROVE  \E k \in Closing(s, i) : k < j
  <2>1. i \in Places(s \o c, Open) /\ j \in Places(s \o c, Open) /\ j \in 1..Len(s) BY <1>1
  <2>2. PICK k \in Closing(s \o c, i) : k < j BY <2>1, <1>3 DEF Unnested
  <2>3. k \in Places(s \o c, Close) /\ k > i /\ k \in 1..(Len(s) + Len(c)) BY <1>0 DEF Closing, Places
  <2>4. k <= Len(s) BY <2>1, <2>2, <2>3, <1>0
  <2>5. k \in Closing(s, i) BY <2>3, <2>4, <1>2 DEF Closing
  <2> QED BY <2>2, <2>5
<1>4. ASSUME NEW j \in Places(s, Close)
      PROVE  \E i \in Places(s, Open) : i < j /\ Least(Closing(s, i)) = j
  <2>1. j \in Places(s \o c, Close) /\ j \in 1..Len(s) BY <1>1
  <2>2. PICK i \in Places(s \o c, Open) : i < j /\ Least(Closing(s \o c, i)) = j BY <2>1 DEF Unnested
  <2>3. i \in 1..(Len(s) + Len(c)) BY <1>0 DEF Places
  <2>4. i <= Len(s) BY <2>1, <2>2, <2>3, <1>0
  <2>5. i \in Places(s, Open) BY <2>4, <1>2
  <2>6. j \in Closing(s, i) BY <2>2, <2>1, <2>3, <1>0 DEF Closing
  <2>7. ASSUME NEW k \in Closing(s, i) PROVE j <= k
    <3>1. k \in Places(s, Close) /\ k > i BY DEF Closing
    <3>2. k \in Places(s \o c, Close) BY <3>1, <1>1
    <3>3. k \in Closing(s \o c, i) BY <3>1, <3>2 DEF Closing
    <3>4. i \in Nat BY <2>3
    <3>5. s \o c \in Seq(Tokens) BY <1>0
    <3>6. Closing(s \o c, i) \in SUBSET Nat BY <3>4, <3>5, ClosingIs
    <3> QED BY <3>3, <3>6, <2>2, LeastOf
  <2>8. Closing(s, i) \in SUBSET Nat BY <2>3, <1>0, ClosingIs
  <2>9. Least(Closing(s, i)) = j BY <2>6, <2>7, <2>8, LeastIs
  <2> QED BY <2>2, <2>5, <2>9
<1> QED BY <1>3, <1>4 DEF Unnested

\* A token more, and the text still has its parts.
LEMMA TokenFollows ==
    ASSUME NEW s \in Seq(Tokens), NEW w, NEW r, Parted(s, w, r), NEW x \in Tokens, Unnested(s \o <<x>>)
    PROVE  \E v, q : Parted(s \o <<x>>, v, q)
<1> DEFINE c == <<x>>
<1>0. c \in Seq(Tokens) /\ Len(c) = 1 /\ c[1] = x OBVIOUS
<1>1. CASE x \notin {Open, Close}
  <2>1. Worded(c) BY <1>0, <1>1 DEF Worded
  <2> HIDE DEF c
  <2>2. CASE r = <<>> BY <1>0, <2>1, <2>2, WordsFollow DEF c
  <2>3. CASE r # <<>> BY <1>0, <2>1, <2>3, BlockGoesOn DEF c
  <2> QED BY <2>2, <2>3
<1>2. CASE x = Open
  <2>1. Pending(c) BY <1>0, <1>2 DEF Pending
  <2>2. 1 \in Places(c, Open) /\ Places(c, Close) = {} BY <1>0, <1>2, TwoTags DEF Places
  <2> HIDE DEF c
  <2>3. r = <<>> BY <1>0, <2>2, NoNesting DEF c
  <2> QED BY <1>0, <2>1, <2>3, BlockBegins DEF c
<1>3. CASE x = Close
  <2>1. 1 \in Places(c, Close) /\ Places(c, Open) = {} BY <1>0, <1>3, TwoTags DEF Places
  <2>2. Worded(<<>>) /\ <<>> \in Seq(Tokens) /\ <<>> \o <<Close>> = <<Close>> BY DEF Worded
  <2> HIDE DEF c
  <2>3. r # <<>> BY <1>0, <2>1, NoStrayEnd DEF c
  <2>4. Parted(s \o (<<>> \o <<Close>>), w, <<>>) BY <2>2, <2>3, BlockEnds
  <2> QED BY <2>2, <2>4, <1>3
<1> QED BY <1>1, <1>2, <1>3

\* Every text of blocks that are not nested has its parts.
LEMMA UnnestedParted ==
    ASSUME NEW c \in Seq(Tokens), Unnested(c)
    PROVE  \E w, r : Parted(c, w, r)
<1> DEFINE n == Len(c)
           t(k) == SubSeq(c, 1, k)
           S == {k \in 0..n : \E w, r : Parted(t(k), w, r)}
<1>0. n \in Nat OBVIOUS
<1>1. 0 \in S
  <2>1. t(0) = <<>> OBVIOUS
  <2>2. Worded(<<>>) /\ <<>> \in Seq(Tokens) /\ Pending(<<>>) /\ <<>> = <<>> \o <<>> BY DEF Worded, Pending
  <2>3. Closed(<<>>) /\ Clean(<<>>) = <<>> BY <2>2, WordsKept
  <2>4. Parted(<<>>, <<>>, <<>>) BY <2>2, <2>3 DEF Parted
  <2>5. 0 \in 0..n BY <1>0
  <2>6. \E w, r : Parted(t(0), w, r)
    <3> HIDE DEF t
    <3> QED BY <2>1, <2>4
  <2> HIDE DEF t, n
  <2> QED BY <2>5, <2>6
<1>2. ASSUME NEW k \in 1..n, k - 1 \in S PROVE k \in S
  <2>1. PICK w, r : Parted(t(k - 1), w, r) BY <1>2
  <2>2. t(k - 1) \in Seq(Tokens) /\ c[k] \in Tokens /\ t(k) = t(k - 1) \o <<c[k]>> OBVIOUS
  <2>3. t(k) \in Seq(Tokens) /\ SubSeq(c, k + 1, n) \in Seq(Tokens) /\ c = t(k) \o SubSeq(c, k + 1, n)
    OBVIOUS
  <2> HIDE DEF t, n
  <2>4. Unnested(t(k)) BY <2>3, UnnestedBegins
  <2>5. \E v, q : Parted(t(k), v, q) BY <2>1, <2>2, <2>4, TokenFollows
  <2> QED BY <2>5, <1>0
<1>3. \A k \in 0..n : k \in S
  <2> HIDE DEF n, S
  <2> QED BY <1>0, <1>1, <1>2, Forward
<1>4. t(n) = c /\ n \in S BY <1>0, <1>3
<1> QED BY <1>4

--------------------------------------------------------------------------------
(* The chunks.                                                               *)

\* A tag that is in a text once splits it in two.
LEMMA SplitAt ==
    ASSUME NEW s \in Seq(Tokens), NEW t, NEW k \in 1..Len(s), s[k] = t,
           \A j \in 1..Len(s) : s[j] = t => j = k
    PROVE  Before(s, t) = SubSeq(s, 1, k - 1) /\ After(s, t) = SubSeq(s, k + 1, Len(s))
<1>1. k \in Places(s, t) /\ Places(s, t) \in SUBSET Nat /\ \A j \in Places(s, t) : k <= j
  BY DEF Places
<1>2. Least(Places(s, t)) = k BY <1>1, LeastIs
<1> DEFINE rest == SubSeq(s, k + 1, Len(s))
<1>3. Places(rest, t) = {}
  <2>1. ASSUME NEW i \in Places(rest, t) PROVE FALSE
    <3>1. i \in 1..(Len(s) - k) /\ s[k + i] = t BY DEF Places
    <3>2. k + i \in 1..Len(s) /\ k + i # k BY <3>1
    <3> QED BY <3>1, <3>2
  <2> QED BY <2>1
<1> QED BY <1>2, <1>3 DEF Before, After

LEMMA Cutting ==
    ASSUME NEW c \in Seq(Tokens), NEW k \in 1..Len(c)
    PROVE  /\ SubSeq(c, 1, k - 1) \in Seq(Tokens) /\ SubSeq(c, k + 1, Len(c)) \in Seq(Tokens)
           /\ SubSeq(c, k, Len(c)) \in Seq(Tokens)
           /\ c = SubSeq(c, 1, k - 1) \o SubSeq(c, k, Len(c))
           /\ c = (SubSeq(c, 1, k - 1) \o <<c[k]>>) \o SubSeq(c, k + 1, Len(c))
<1>1. /\ SubSeq(c, 1, k - 1) \in Seq(Tokens) /\ SubSeq(c, k + 1, Len(c)) \in Seq(Tokens)
      /\ SubSeq(c, k, Len(c)) \in Seq(Tokens)
  OBVIOUS
<1>2. c = SubSeq(c, 1, k - 1) \o SubSeq(c, k, Len(c))
  OBVIOUS
<1>3. c = SubSeq(c, 1, k) \o SubSeq(c, k + 1, Len(c))
  OBVIOUS
<1>4. SubSeq(c, 1, k) = SubSeq(c, 1, k - 1) \o <<c[k]>>
  OBVIOUS
<1>5. c = (SubSeq(c, 1, k - 1) \o <<c[k]>>) \o SubSeq(c, k + 1, Len(c))
  BY <1>3, <1>4
<1> QED BY <1>1, <1>2, <1>5

\* A chunk of one block at most, whole or part of it: the page gets the words.
LEMMA ChunkFollows ==
    ASSUME NEW s \in Seq(Tokens), NEW w, NEW r, Parted(s, w, r), NEW c \in Seq(Tokens),
           Tame(c), Unnested(s \o c), isThinking = (r # <<>>)
    PROVE  \E q : Parted(s \o c, w \o Yielded(c), q) /\ StillThinking(c) = (q # <<>>)
<1>0. w \in Seq(Tokens) /\ w \o <<>> = w BY DEF Parted
<1>1. CASE Places(c, Open) = {} /\ Places(c, Close) = {}
  <2>1. Worded(c) BY <1>1 DEF Worded, Places
  <2>2. Yielded(c) = IF isThinking THEN <<>> ELSE c BY <1>1 DEF Yielded
  <2>3. StillThinking(c) = isThinking BY <1>1 DEF StillThinking
  <2>4. CASE r = <<>>
    <3>1. Parted(s \o c, w \o c, <<>>) BY <2>1, <2>4, WordsFollow
    <3> QED BY <3>1, <2>2, <2>3, <2>4
  <2>5. CASE r # <<>>
    <3>1. Parted(s \o c, w, r \o c) /\ r \o c # <<>> BY <2>1, <2>5, BlockGoesOn
    <3> QED BY <3>1, <2>2, <2>3, <2>5, <1>0
  <2> QED BY <2>4, <2>5
<1>2. CASE Places(c, Open) # {} /\ Places(c, Close) = {}
  <2>1. PICK k \in 1..Len(c) : c[k] = Open BY <1>2 DEF Places
  <2>2. \A j \in 1..Len(c) : c[j] = Open => j = k BY <2>1 DEF Tame, Places
  <2>3. r = <<>> BY <1>2, NoNesting
  <2> DEFINE b == SubSeq(c, 1, k - 1)
             o == SubSeq(c, k, Len(c))
             a == SubSeq(c, k + 1, Len(c))
  <2>4. Before(c, Open) = b /\ After(c, Open) = a BY <2>1, <2>2, SplitAt
  <2>5. b \in Seq(Tokens) /\ o \in Seq(Tokens) /\ c = b \o o BY Cutting
  <2>6. Worded(b)
    <3>1. ASSUME NEW i \in 1..Len(b) PROVE b[i] \notin {Open, Close}
      <4>1. i \in 1..Len(c) /\ i # k /\ b[i] = c[i] OBVIOUS
      <4> QED BY <4>1, <2>2, <1>2 DEF Places
    <3> QED BY <3>1 DEF Worded
  <2>7. o # <<>> /\ o[1] = Open
    <3>1. Len(o) = Len(c) - k + 1 /\ Len(o) >= 1 OBVIOUS
    <3>2. o[1] = c[k] OBVIOUS
    <3> HIDE DEF o
    <3> QED BY <3>1, <3>2, <2>1
  <2>8. Pending(o)
    <3>1. ASSUME NEW i \in 2..Len(o) PROVE o[i] \notin {Open, Close}
      <4>1. i + k - 1 \in 1..Len(c) /\ i + k - 1 # k /\ o[i] = c[i + k - 1] OBVIOUS
      <4> QED BY <4>1, <2>2, <1>2 DEF Places
    <3> QED BY <3>1, <2>7 DEF Pending
  <2>9. Places(a, Close) = {}
    <3>1. ASSUME NEW i \in Places(a, Close) PROVE FALSE
      <4>1. i \in 1..(Len(c) - k) /\ c[k + i] = Close BY DEF Places
      <4>2. k + i \in Places(c, Close) BY <4>1 DEF Places
      <4> QED BY <4>2, <1>2
    <3> QED BY <3>1
  <2> HIDE DEF a, b, o
  <2>10. Yielded(c) = b
    <3>1. Yielded(c) = b \o <<>> BY <1>2, <2>4, <2>9 DEF Yielded
    <3> QED BY <3>1, <2>5
  <2>11. StillThinking(c) = TRUE BY <1>2, <2>4, <2>9 DEF StillThinking
  <2>12. Parted(s \o b, w \o b, <<>>) BY <2>3, <2>5, <2>6, WordsFollow
  <2>13. s \o b \in Seq(Tokens) BY <2>5
  <2>14. Parted((s \o b) \o o, w \o b, o) BY <2>5, <2>8, <2>12, <2>13, BlockBegins
  <2>15. (s \o b) \o o = s \o c BY <2>5, Associative
  <2> QED BY <2>7, <2>10, <2>11, <2>14, <2>15
<1>3. CASE Places(c, Open) = {} /\ Places(c, Close) # {}
  <2>1. PICK k \in 1..Len(c) : c[k] = Close BY <1>3 DEF Places
  <2>2. \A j \in 1..Len(c) : c[j] = Close => j = k BY <2>1 DEF Tame, Places
  <2>3. r # <<>> BY <1>3, NoStrayEnd
  <2> DEFINE b == SubSeq(c, 1, k - 1)
             a == SubSeq(c, k + 1, Len(c))
  <2>4. Before(c, Close) = b /\ After(c, Close) = a BY <2>1, <2>2, SplitAt
  <2>5. b \in Seq(Tokens) /\ a \in Seq(Tokens) /\ c = (b \o <<Close>>) \o a BY <2>1, Cutting
  <2>6. Worded(b)
    <3>1. ASSUME NEW i \in 1..Len(b) PROVE b[i] \notin {Open, Close}
      <4>1. i \in 1..Len(c) /\ i # k /\ b[i] = c[i] OBVIOUS
      <4> QED BY <4>1, <2>2, <1>3 DEF Places
    <3> QED BY <3>1 DEF Worded
  <2>7. Worded(a)
    <3>1. ASSUME NEW i \in 1..Len(a) PROVE a[i] \notin {Open, Close}
      <4>1. k + i \in 1..Len(c) /\ k + i # k /\ a[i] = c[k + i] OBVIOUS
      <4> QED BY <4>1, <2>2, <1>3 DEF Places
    <3> QED BY <3>1 DEF Worded
  <2> HIDE DEF a, b
  <2>8. Yielded(c) = a
    <3>1. Yielded(c) = <<>> \o a BY <1>3, <2>3, <2>4 DEF Yielded
    <3> QED BY <3>1, <2>5
  <2>9. StillThinking(c) = FALSE BY <1>3 DEF StillThinking
  <2>10. <<Close>> \in Seq(Tokens) BY TwoTags
  <2>11. Parted(s \o (b \o <<Close>>), w, <<>>) BY <2>3, <2>5, <2>6, BlockEnds
  <2>12. b \o <<Close>> \in Seq(Tokens) BY <2>5, <2>10
  <2>13. s \o (b \o <<Close>>) \in Seq(Tokens) BY <2>12
  <2>14. Parted((s \o (b \o <<Close>>)) \o a, w \o a, <<>>) BY <2>5, <2>7, <2>11, <2>13, WordsFollow
  <2>15. (s \o (b \o <<Close>>)) \o a = s \o c BY <2>5, <2>12, Associative
  <2> QED BY <2>8, <2>9, <2>14, <2>15
<1>4. CASE Places(c, Open) # {} /\ Places(c, Close) # {}
  <2>1. PICK k \in 1..Len(c) : c[k] = Open BY <1>4 DEF Places
  <2>2. \A j \in 1..Len(c) : c[j] = Open => j = k BY <2>1 DEF Tame, Places
  <2>3. PICK l \in 1..Len(c) : c[l] = Close BY <1>4 DEF Places
  <2>4. (\A j \in 1..Len(c) : c[j] = Close => j = l) /\ k < l BY <2>1, <2>3 DEF Tame, Places
  <2>5. r = <<>>
    <3>1. k \in Places(c, Open) BY <2>1 DEF Places
    <3>2. \A j \in Places(c, Close) : k < j BY <3>1 DEF Tame
    <3>3. Places(c, Close) \in SUBSET Nat BY DEF Places
    <3>4. ~ \E j \in Places(c, Close) : j < k BY <3>2, <3>3
    <3> QED BY <3>1, <3>4, NoNesting
  <2> DEFINE b == SubSeq(c, 1, k - 1)
             o == SubSeq(c, k, l - 1)
             a == SubSeq(c, l + 1, Len(c))
             d == SubSeq(c, k + 1, Len(c))
  <2>6. Before(c, Open) = b /\ After(c, Open) = d BY <2>1, <2>2, SplitAt
  <2>7. b \in Seq(Tokens) /\ o \in Seq(Tokens) /\ a \in Seq(Tokens) /\ d \in Seq(Tokens) OBVIOUS
  <2>8. l - k \in 1..Len(d) /\ d[l - k] = Close BY <2>3, <2>4
  <2>9. ASSUME NEW j \in 1..Len(d), d[j] = Close PROVE j = l - k
    <3>1. k + j \in 1..Len(c) /\ d[j] = c[k + j] OBVIOUS
    <3>2. k + j = l BY <3>1, <2>9, <2>4
    <3> QED BY <3>2
  <2>10. After(d, Close) = a
    <3>1. After(d, Close) = SubSeq(d, l - k + 1, Len(d))
      <4> DEFINE m == l - k
      <4>1. m \in 1..Len(d) /\ d[m] = Close BY <2>8
      <4>2. \A j \in 1..Len(d) : d[j] = Close => j = m BY <2>9
      <4>3. d \in Seq(Tokens) BY <2>7
      <4> HIDE DEF d, m
      <4>5. PICK e, i : e = d /\ i = m OBVIOUS
      <4>6. e \in Seq(Tokens) /\ i \in 1..Len(e) /\ e[i] = Close
            /\ \A j \in 1..Len(e) : e[j] = Close => j = i
        BY <4>1, <4>2, <4>3, <4>5
      <4>7. Before(e, Close) = SubSeq(e, 1, i - 1) /\ After(e, Close) = SubSeq(e, i + 1, Len(e))
        BY <4>6, SplitAt
      <4>4. Before(d, Close) = SubSeq(d, 1, m - 1) /\ After(d, Close) = SubSeq(d, m + 1, Len(d))
        BY <4>5, <4>7
      <4> QED BY <4>4 DEF m
    <3>2. SubSeq(d, l - k + 1, Len(d)) = a BY <2>4
    <3> QED BY <3>1, <3>2
  <2>11. Worded(b)
    <3>1. ASSUME NEW i \in 1..Len(b) PROVE b[i] \notin {Open, Close}
      <4>1. i \in 1..Len(c) /\ i # k /\ i # l /\ b[i] = c[i] BY <2>4
      <4> QED BY <4>1, <2>2, <2>4
    <3> QED BY <3>1 DEF Worded
  <2>12. Worded(a)
    <3>1. ASSUME NEW i \in 1..Len(a) PROVE a[i] \notin {Open, Close}
      <4>1. l + i \in 1..Len(c) /\ l + i # k /\ l + i # l /\ a[i] = c[l + i] BY <2>4
      <4> QED BY <4>1, <2>2, <2>4
    <3> QED BY <3>1 DEF Worded
  <2>13. o # <<>> /\ o[1] = Open BY <2>1, <2>4
  <2>14. Pending(o)
    <3>1. ASSUME NEW i \in 2..Len(o) PROVE o[i] \notin {Open, Close}
      <4>1. i + k - 1 \in 1..Len(c) /\ i + k - 1 # k /\ i + k - 1 # l /\ o[i] = c[i + k - 1] BY <2>4
      <4> QED BY <4>1, <2>2, <2>4
    <3> QED BY <3>1, <2>13 DEF Pending
  <2>15. c = ((b \o o) \o <<Close>>) \o a
    <3>1. SubSeq(c, 1, l - 1) = b \o o BY <2>4
    <3>2. c = (SubSeq(c, 1, l - 1) \o <<Close>>) \o a BY <2>3, Cutting
    <3> DEFINE bo == SubSeq(c, 1, l - 1)
    <3> HIDE DEF a, b, o, d, bo
    <3>3. bo = b \o o BY <3>1 DEF bo
    <3>4. c = (bo \o <<Close>>) \o a BY <3>2 DEF bo
    <3> QED BY <3>3, <3>4
  <2>16. Places(d, Close) # {}
    <3> HIDE DEF d
    <3>1. l - k \in DOMAIN d BY <2>7, <2>8
    <3> QED BY <3>1, <2>8 DEF Places
  <2> HIDE DEF a, b, d, o
  <2>17. Yielded(c) = b \o a BY <1>4, <2>6, <2>10, <2>16 DEF Yielded
  <2>18. StillThinking(c) = FALSE BY <1>4, <2>6, <2>16 DEF StillThinking
  <2>19. Parted(s \o b, w \o b, <<>>) BY <2>5, <2>7, <2>11, WordsFollow
  <2>20. s \o b \in Seq(Tokens) BY <2>7
  <2>21. Parted((s \o b) \o o, w \o b, o) BY <2>7, <2>14, <2>19, <2>20, BlockBegins
  <2>22. (s \o b) \o o \in Seq(Tokens) /\ <<Close>> \in Seq(Tokens) BY <2>7, <2>20, TwoTags
  <2>23. Worded(<<>>) /\ <<>> \in Seq(Tokens) /\ <<>> \o <<Close>> = <<Close>> BY DEF Worded
  <2>24. Parted(((s \o b) \o o) \o <<Close>>, w \o b, <<>>)
    BY <2>13, <2>21, <2>22, <2>23, BlockEnds
  <2>25. ((s \o b) \o o) \o <<Close>> \in Seq(Tokens) BY <2>22
  <2>26. Parted((((s \o b) \o o) \o <<Close>>) \o a, (w \o b) \o a, <<>>)
    BY <2>7, <2>12, <2>24, <2>25, WordsFollow
  <2>27. (w \o b) \o a = w \o (b \o a) BY <1>0, <2>7, Associative
  <2>28. (((s \o b) \o o) \o <<Close>>) \o a = s \o c
    <3>1. b \o o \in Seq(Tokens) /\ (b \o o) \o <<Close>> \in Seq(Tokens) BY <2>7, <2>22
    <3>2. (s \o b) \o o = s \o (b \o o) BY <2>7, Associative
    <3>3. (s \o (b \o o)) \o <<Close>> = s \o ((b \o o) \o <<Close>>) BY <3>1, <2>22, Associative
    <3> DEFINE x == (b \o o) \o <<Close>>
    <3>5. x \in Seq(Tokens) /\ a \in Seq(Tokens) BY <3>1, <2>7
    <3> HIDE DEF x
    <3>4. (s \o x) \o a = s \o (x \o a) BY <3>5, Associative
    <3> QED BY <3>2, <3>3, <3>4, <2>15 DEF x
  <2> QED BY <2>17, <2>18, <2>26, <2>27, <2>28
<1> QED BY <1>1, <1>2, <1>3, <1>4

--------------------------------------------------------------------------------
(* The answer.                                                               *)

\* Until the answer is finished, what was streamed is what its closed blocks leave,
\* and streamQuery is thinking if and only if a block is open.
TextInv ==
    /\ TextTypeOK
    /\ ~finished /\ ~sawAgentChunk => text = <<>> /\ streamed = <<>> /\ ~isThinking
    /\ ~cut => text \in Seq(Uncut) /\ streamed \in Seq(Uncut)
    /\ ~finished /\ tame /\ ~cut /\ Unnested(text) =>
        \E r : Parted(text, streamed, r) /\ isThinking = (r # <<>>)
    /\ LiveAsReloaded

LEMMA ChunkTyped ==
    ASSUME NEW c \in ChunkTexts
    PROVE  /\ c \in Seq(Tokens) /\ Len(c) >= 1
           /\ c[1] # Rest /\ ~EndsInTag(c) => c \in Seq(Uncut)
<1>1. PICK n \in 1..MaxChunk : c \in [1..n -> Tokens]
  BY DEF ChunkTexts
<1>2. n \in Nat /\ n >= 1 BY TextAssumption
<1>3. c \in Seq(Tokens) /\ Len(c) = n /\ c # <<>> BY <1>1, <1>2
<1>4. \A i \in 1..n : (c[i] = Rest => i = 1) /\ (c[i] \in Heads => i = n)
  BY <1>1, <1>3 DEF ChunkTexts
<1>5. ASSUME c[1] # Rest, ~EndsInTag(c) PROVE c \in Seq(Uncut)
  <2>1. c[n] \notin Heads BY <1>3, <1>5 DEF EndsInTag
  <2>2. ASSUME NEW i \in 1..n PROVE c[i] \in Uncut
    <3>1. c[i] \in Tokens BY <1>1
    <3>2. c[i] # Rest /\ c[i] \notin Heads BY <1>4, <1>5, <2>1
    <3> QED BY <3>1, <3>2 DEF Tokens
  <2> QED BY <1>1, <1>2, <2>2
<1> QED BY <1>2, <1>3, <1>5

LEMMA WholeTyped ==
    ASSUME NEW c \in WholeTexts
    PROVE  c \in Seq(Uncut) /\ c \in Seq(Tokens)
<1>1. PICK n \in 1..MaxChunk : c \in [1..n -> Uncut] BY DEF WholeTexts
<1>2. n \in Nat BY TextAssumption
<1>3. c \in Seq(Uncut) BY <1>1, <1>2
<1>4. Uncut \subseteq Tokens BY DEF Tokens
<1> QED BY <1>3, <1>4

\* A text that is joined to stays one of tokens; where no tag is cut, joining is
\* appending.
LEMMA JoinTyped ==
    ASSUME NEW s \in Seq(Tokens), NEW c \in Seq(Tokens)
    PROVE  /\ Join(s, c) \in Seq(Tokens) /\ Len(Join(s, c)) <= Len(s) + Len(c)
           /\ s \in Seq(Uncut) => Join(s, c) = s \o c /\ ~EndsInTag(s)
<1>1. CASE EndsInTag(s) /\ c # <<>> /\ c[1] = Rest
  <2> DEFINE w == Whole(s[Len(s)])
             b == [s EXCEPT ![Len(s)] = w]
  <2>1. s # <<>> BY <1>1 DEF EndsInTag
  <2>2. Len(s) \in 1..Len(s) BY <2>1, EmptySeq
  <2>3. w \in Tokens BY TwoTags DEF Whole
  <2> HIDE DEF w
  <2>7. b \in Seq(Tokens) /\ Len(b) = Len(s) BY <2>2, <2>3, ExceptSeq
  <2> USE DEF w
  <2>4. Tail(c) \in Seq(Tokens) /\ Len(Tail(c)) <= Len(c) BY <1>1
  <2>5. Join(s, c) = b \o Tail(c) BY <1>1 DEF Join
  <2>6. s \notin Seq(Uncut)
    <3>1. s[Len(s)] \in Heads BY <1>1 DEF EndsInTag
    <3>2. Heads \cap Uncut = {} BY DEF Heads, Uncut, Open, Close
    <3>3. s \in Seq(Uncut) => s[Len(s)] \in Uncut BY <2>1
    <3> QED BY <3>1, <3>2, <3>3
  <2> HIDE DEF b
  <2> QED BY <2>7, <2>4, <2>5, <2>6
<1>2. CASE ~(EndsInTag(s) /\ c # <<>> /\ c[1] = Rest)
  <2>1. Join(s, c) = s \o c BY <1>2 DEF Join
  <2>2. ASSUME s \in Seq(Uncut), EndsInTag(s) PROVE FALSE
    <3>1. s # <<>> /\ s[Len(s)] \in Heads BY <2>2 DEF EndsInTag
    <3>2. Heads \cap Uncut = {} BY DEF Heads, Uncut, Open, Close
    <3>3. s[Len(s)] \in Uncut BY <2>2, <3>1
    <3> QED BY <3>1, <3>2, <3>3
  <2> QED BY <2>1, <2>2
<1> QED BY <1>1, <1>2

LEMMA AfterTyped ==
    ASSUME NEW T, NEW s \in Seq(T), NEW t, Places(s, t) # {}
    PROVE  Before(s, t) \in Seq(T) /\ After(s, t) \in Seq(T)
<1>1. Places(s, t) \in SUBSET Nat BY DEF Places
<1>2. Least(Places(s, t)) \in 1..Len(s)
  <2>1. Least(Places(s, t)) \in Places(s, t) BY <1>1, LeastOf
  <2> QED BY <2>1 DEF Places
<1>3. Before(s, t) \in Seq(T) BY <1>2 DEF Before
<1> DEFINE rest == SubSeq(s, Least(Places(s, t)) + 1, Len(s))
<1>4. rest \in Seq(T) BY <1>2
<1> HIDE DEF rest
<1>5. Places(rest, t) # {} => Before(rest, t) \in Seq(T)
  <2>1. ASSUME Places(rest, t) # {} PROVE Before(rest, t) \in Seq(T)
    <3>1. Places(rest, t) \in SUBSET Nat BY <1>4 DEF Places
    <3>3. Least(Places(rest, t)) \in Places(rest, t) BY <2>1, <3>1, LeastOf
    <3>2. Least(Places(rest, t)) \in 1..Len(rest) BY <1>4, <3>3 DEF Places
    <3> QED BY <1>4, <3>2 DEF Before
  <2> QED BY <2>1
<1>6. After(s, t) = IF Places(rest, t) = {} THEN rest ELSE Before(rest, t) BY DEF After, rest
<1> QED BY <1>3, <1>4, <1>5, <1>6

LEMMA YieldedTyped ==
    ASSUME NEW T, NEW c \in Seq(T)
    PROVE  Yielded(c) \in Seq(T) /\ StillThinking(c) \in BOOLEAN
<1> DEFINE opens == Places(c, Open) # {}
           content == IF opens THEN After(c, Open) ELSE c
           b == IF opens THEN Before(c, Open) ELSE <<>>
           a == IF ~isThinking /\ ~opens THEN content
                ELSE IF Places(content, Close) # {} THEN After(content, Close)
                ELSE <<>>
<1>1. content \in Seq(T) /\ b \in Seq(T) BY AfterTyped
<1>2. a \in Seq(T)
  <2> HIDE DEF content
  <2> QED BY <1>1, AfterTyped
<1>3. Yielded(c) = b \o a BY DEF Yielded
<1>4. StillThinking(c) \in BOOLEAN BY DEF StillThinking
<1> HIDE DEF a, b
<1> QED BY <1>1, <1>2, <1>3, <1>4

LEMMA TextStep == TextInv /\ [TextNext]_textVars => TextInv'
<1> SUFFICES ASSUME TextInv, [TextNext]_textVars PROVE TextInv'
  OBVIOUS
<1>0. /\ text \in Seq(Tokens) /\ Len(text) <= MaxLength
      /\ streamed \in Seq(Tokens) /\ saved \in Seq(Tokens)
      /\ {isThinking, sawAgentChunk, tame, cut, finished} \subseteq BOOLEAN
  BY DEF TextInv, TextTypeOK
<1>1. ASSUME NEW c \in ChunkTexts, StreamChunk(c) PROVE TextInv'
  <2>0. c \in Seq(Tokens) BY ChunkTyped
  <2>1. /\ ~finished /\ Len(text) + Len(c) <= MaxLength
        /\ c[1] = Rest <=> EndsInTag(text)
        /\ text' = Join(text, c) /\ streamed' = Join(streamed, Yielded(c))
        /\ isThinking' = StillThinking(c) /\ sawAgentChunk' = TRUE
        /\ tame' = (tame /\ Tame(c)) /\ cut' = (cut \/ EndsInTag(c))
        /\ saved' = saved /\ finished' = finished
    BY <1>1 DEF StreamChunk
  <2>2. Yielded(c) \in Seq(Tokens) /\ StillThinking(c) \in BOOLEAN BY <2>0, YieldedTyped
  <2>3. TextTypeOK'
    <3>1. text' \in Seq(Tokens) /\ Len(text') <= MaxLength
      <4>1. Join(text, c) \in Seq(Tokens) /\ Len(Join(text, c)) <= Len(text) + Len(c)
        BY <1>0, <2>0, JoinTyped
      <4> QED BY <4>1, <1>0, <2>0, <2>1, TextAssumption
    <3>2. streamed' \in Seq(Tokens) BY <1>0, <2>1, <2>2, JoinTyped
    <3>3. tame' \in BOOLEAN /\ cut' \in BOOLEAN BY <2>1
    <3> QED BY <3>1, <3>2, <3>3, <1>0, <2>1, <2>2 DEF TextTypeOK
  <2>6. ASSUME ~cut'
        PROVE  /\ ~cut /\ text' = text \o c /\ streamed' = streamed \o Yielded(c)
               /\ text' \in Seq(Uncut) /\ streamed' \in Seq(Uncut)
    <3>1. ~cut /\ ~EndsInTag(c) BY <2>1, <2>6
    <3>2. text \in Seq(Uncut) /\ streamed \in Seq(Uncut) BY <3>1 DEF TextInv
    <3>3. Join(text, c) = text \o c /\ ~EndsInTag(text) BY <1>0, <2>0, <3>2, JoinTyped
    <3>4. c \in Seq(Uncut) BY <2>1, <3>1, <3>3, ChunkTyped
    <3>5. Yielded(c) \in Seq(Uncut) BY <3>4, YieldedTyped
    <3>6. Join(streamed, Yielded(c)) = streamed \o Yielded(c) BY <1>0, <2>2, <3>2, JoinTyped
    <3> QED BY <2>1, <3>1, <3>2, <3>3, <3>4, <3>5, <3>6
  <2>4. ASSUME tame', ~cut', Unnested(text')
        PROVE  \E q : Parted(text', streamed', q) /\ isThinking' = (q # <<>>)
    <3>1. tame /\ Tame(c) /\ ~cut /\ Unnested(text \o c) BY <2>1, <2>4, <2>6
    <3>2. Unnested(text) BY <3>1, <1>0, <2>0, UnnestedBegins
    <3>3. PICK r : Parted(text, streamed, r) /\ isThinking = (r # <<>>)
      BY <3>1, <3>2, <2>1 DEF TextInv
    <3>4. \E q : Parted(text \o c, streamed \o Yielded(c), q) /\ StillThinking(c) = (q # <<>>)
      BY <3>1, <3>3, <1>0, <2>0, ChunkFollows
    <3> QED BY <3>4, <2>1, <2>4, <2>6
  <2>5. LiveAsReloaded' BY <2>1 DEF LiveAsReloaded
  <2> QED BY <2>1, <2>3, <2>4, <2>5, <2>6 DEF TextInv
<1>2. ASSUME StreamEnds PROVE TextInv'
  <2>1. /\ ~finished /\ saved' = Clean(text) /\ finished' = TRUE
        /\ text' = text /\ streamed' = streamed /\ isThinking' = isThinking
        /\ sawAgentChunk' = sawAgentChunk /\ tame' = tame /\ cut' = cut
    BY <1>2 DEF StreamEnds
  <2>2. TextTypeOK'
    <3>1. Clean(text) \in Seq(Tokens) BY <1>0, CleanType
    <3> QED BY <3>1, <1>0, <2>1 DEF TextTypeOK
  <2>3. LiveAsReloaded'
    <3>1. SUFFICES ASSUME tame', ~cut, Unnested(text)
                   PROVE  /\ Shown(streamed) = Shown(Clean(text))
                          /\ Places(Shown(Clean(text)), Open) \cup Places(Shown(Clean(text)), Close) = {}
      BY <2>1 DEF LiveAsReloaded
    <3>2. PICK r : Parted(text, streamed, r) BY <2>1, <3>1 DEF TextInv
    <3>3. r \in Seq(Tokens) /\ Worded(streamed) /\ Pending(r) BY <3>2 DEF Parted
    <3>4. Clean(text) = streamed \o r BY <1>0, <3>2, PartedClean
    <3>5. /\ Shown(streamed \o r) = streamed
          /\ Places(streamed, Open) \cup Places(streamed, Close) = {}
      BY <1>0, <3>3, PartedShown
    <3>6. Shown(streamed) = streamed
      <4>1. Pending(<<>>) /\ <<>> \in Seq(Tokens) /\ streamed \o <<>> = streamed BY <1>0 DEF Pending
      <4>2. Shown(streamed \o <<>>) = streamed BY <4>1, <1>0, <3>3, PartedShown
      <4> QED BY <4>1, <4>2
    <3> QED BY <3>4, <3>5, <3>6
  <2> QED BY <2>1, <2>2, <2>3 DEF TextInv
<1>3. ASSUME NEW c \in WholeTexts, FullMessage(c) PROVE TextInv'
  <2>0. c \in Seq(Tokens) /\ c \in Seq(Uncut) BY WholeTyped
  <2>1. /\ ~finished /\ ~sawAgentChunk /\ Len(c) <= MaxLength
        /\ text' = c /\ saved' = Clean(c) /\ streamed' = streamed \o Clean(Clean(c)) /\ finished' = TRUE
        /\ isThinking' = isThinking /\ sawAgentChunk' = sawAgentChunk /\ tame' = tame /\ cut' = cut
    BY <1>3 DEF FullMessage
  <2>2. Clean(c) \in Seq(Tokens) /\ Clean(c) \in Seq(Uncut) BY <2>0, CleanType, CleanUncut
  <2>3. Clean(Clean(c)) \in Seq(Tokens) /\ Clean(Clean(c)) \in Seq(Uncut) BY <2>2, CleanType, CleanUncut
  <2>4. streamed = <<>> BY <2>1 DEF TextInv
  <2>5. streamed' = Clean(Clean(c)) BY <2>1, <2>3, <2>4
  <2>6. TextTypeOK' BY <1>0, <2>0, <2>1, <2>2, <2>3, <2>5 DEF TextTypeOK
  <2>7. LiveAsReloaded'
    <3>1. SUFFICES ASSUME Unnested(c)
                   PROVE  /\ Shown(Clean(Clean(c))) = Shown(Clean(c))
                          /\ Places(Shown(Clean(c)), Open) \cup Places(Shown(Clean(c)), Close) = {}
      BY <2>1, <2>5 DEF LiveAsReloaded
    <3>2. PICK w, r : Parted(c, w, r) BY <2>0, <3>1, UnnestedParted
    <3>3. w \in Seq(Tokens) /\ r \in Seq(Tokens) /\ Worded(w) /\ Pending(r) BY <3>2 DEF Parted
    <3>4. Clean(c) = w \o r /\ Clean(w \o r) = w \o r BY <2>0, <3>2, PartedClean
    <3>5. Shown(w \o r) = w /\ Places(w, Open) \cup Places(w, Close) = {} BY <3>3, PartedShown
    <3> QED BY <3>4, <3>5
  <2> QED BY <2>0, <2>1, <2>3, <2>5, <2>6, <2>7 DEF TextInv
<1>4. ASSUME UNCHANGED textVars PROVE TextInv'
  <2>1. /\ text' = text /\ streamed' = streamed /\ isThinking' = isThinking
        /\ sawAgentChunk' = sawAgentChunk /\ tame' = tame /\ cut' = cut
        /\ saved' = saved /\ finished' = finished
    BY <1>4 DEF textVars
  <2> QED BY <2>1 DEF TextInv, TextTypeOK, LiveAsReloaded
<1> QED BY <1>1, <1>2, <1>3, <1>4 DEF TextNext

LEMMA TextBegins == TextInit => TextInv
<1> SUFFICES ASSUME TextInit PROVE TextInv
  OBVIOUS
<1>1. /\ text = <<>> /\ streamed = <<>> /\ saved = <<>> /\ ~isThinking /\ ~finished /\ tame = TRUE
      /\ sawAgentChunk = FALSE /\ isThinking = FALSE /\ finished = FALSE /\ cut = FALSE
  BY DEF TextInit
<1>2. Worded(<<>>) /\ <<>> \in Seq(Tokens) /\ Pending(<<>>) /\ <<>> = <<>> \o <<>> BY DEF Worded, Pending
<1>3. Closed(<<>>) /\ Clean(<<>>) = <<>> BY <1>2, WordsKept
<1>4. Parted(<<>>, <<>>, <<>>) BY <1>2, <1>3 DEF Parted
<1>7. Len(<<>>) <= MaxLength BY TextAssumption
<1>5. TextTypeOK BY <1>1, <1>2, <1>7 DEF TextTypeOK
<1>6. LiveAsReloaded BY <1>1 DEF LiveAsReloaded
<1>8. <<>> \in Seq(Uncut) OBVIOUS
<1> QED BY <1>1, <1>4, <1>5, <1>6, <1>8 DEF TextInv

\* The types of the text: what is streamed and saved are texts of tokens, for any
\* bounds on answers and chunks.
THEOREM TextTypeCorrect == TextSpec => []TextTypeOK
<1>1. TextInv => TextTypeOK BY DEF TextInv
<1> QED BY <1>1, TextBegins, TextStep, PTL DEF TextSpec

\* The page shows of an answer that streams in what it shows of the saved message,
\* without a tag, whatever the length of the answer and of its chunks, when no
\* block is in another, no chunk holds more than one, and no chunk ends inside a
\* tag.
THEOREM LiveAsReloadedHolds == TextSpec => []LiveAsReloaded
<1>1. TextInv => LiveAsReloaded BY DEF TextInv
<1> QED BY <1>1, TextBegins, TextStep, PTL DEF TextSpec
================================================================================
