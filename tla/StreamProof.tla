------------------------------ MODULE StreamProof ------------------------------
(***************************************************************************)
(* What a browser is shown of an answer, for every number of replicas,     *)
(* browsers, queries, chunks, retries and failures and queues of any       *)
(* length: while its socket lives, each attempt of the worker once, in     *)
(* order, and all of it before the end.                                    *)
(***************************************************************************)
EXTENDS AssistantStream, SequenceTheorems, FiniteSetTheorems, TLAPS

\* Where a queue s speaks of q.
OfQuery(s, q) == {i \in 1..Len(s) : s[i].query = q}

\* What a client with this text has heard of q before position i of its
\* replica's queue s ends with chunk n.
Follows(s, q, i, text, n) ==
    \/ \E k \in OfQuery(s, q) :
          /\ k < i /\ s[k].kind = "chunk" /\ s[k].chunk = n
          /\ \A j \in OfQuery(s, q) : j <= k \/ j >= i
    \/ (\A j \in OfQuery(s, q) : j >= i) /\ EndsWith(text, n)

\* A chunk follows the one before it, or begins, and an end follows the whole
\* answer.
InOrder(s, q, text) ==
    \A i \in OfQuery(s, q) :
        /\ s[i].kind = "chunk" =>
              s[i].chunk > 0 /\ (s[i].chunk > 1 => Follows(s, q, i, text, s[i].chunk - 1))
        /\ s[i].kind = "done" => Follows(s, q, i, text, Chunks)

\* A text, after an error or not, is a row of beginnings of the answer.
Rises(text) ==
    /\ \A i \in 1..(Len(text) - 1) : text[i + 1] > text[i] \/ text[i + 1] = 1
    /\ Len(text) > 0 => text[1] = 1 \/ (text[1] = Failure /\ (Len(text) > 1 => text[2] = 1))

BeginningsIn(text) == {i \in 1..Len(text) : text[i] = 1}
BeginningsTo(s, q) == {i \in OfQuery(s, q) : s[i].kind = "chunk" /\ s[i].chunk = 1}

\* The worker will begin (again) at a query in phase p, n chunks into it.
ToBegin(p, n) ==
    IF p \in {"queued", "failing", "rethrowing"} \/ (p = "streaming" /\ n = 0) THEN 1 ELSE 0

\* An answer on its way to a client with this text, through queue s; f counts
\* the failures, complete says that its end was heard last.
FlowOf(q, s, text, p, n, f, complete) ==
    /\ InOrder(s, q, text)
    /\ p = "streaming" /\ n > 0 => Follows(s, q, Len(s) + 1, text, n)
    /\ complete => EndsWith(text, Chunks)
    /\ Rises(text)
    /\ Cardinality(BeginningsIn(text)) + Cardinality(BeginningsTo(s, q)) + ToBegin(p, n) <= f + 1

Early == {"new", "emitted", "dropped"}

Flow(q) == FlowOf(q, inbox[socket[asker[q]]], shown[asker[q]][q].text, phase[q], sent[q],
                  failures, q \in completed)

\* Every replica serves with the adapter of its memory, its queue bound.
InMemory ==
    \A b \in Backends :
        /\ adapter[b] = "memory" /\ (redisClient[b] => boot[b] = "serving")
        /\ boot[b] = "serving" => b \in responseBound

\* Where a query is and what has been heard of it.
Place(q) ==
    /\ phase[q] # "new" => asker[q] \in Clients /\ session[q] \in Queries
    /\ phase[q] = "new" => q \notin steady
    /\ phase[q] \in Early => q \notin completed /\ \A b \in Backends : OfQuery(inbox[b], q) = {}
    /\ phase[q] \in {"new", "emitted"} => \A c \in Clients : shown[c][q].text = <<>>
    /\ phase[q] = "dropped" => \A c \in Clients : shown[c][q].text \in {<<>>, <<Failure>>}
    /\ phase[q] \notin {"streaming", "ending", "failing", "rethrowing"} => sent[q] = 0
    /\ q \in steady /\ phase[q] \notin Early =>
          socket[asker[q]] # None /\ session[q] \in rooms[asker[q]]

Placed == \A q \in Queries : Place(q)

Flows == \A q \in steady : phase[q] \notin Early => Flow(q)

StreamInv == StreamTypeOK /\ InMemory /\ Placed /\ Flows

--------------------------------------------------------------------------------
(* Queues and texts. *)

\* What Append and Tail do to each place.
LEMMA AppendIs ==
    ASSUME NEW S, NEW s \in Seq(S), NEW e \in S
    PROVE  /\ Append(s, e) \in Seq(S) /\ Len(s) \in Nat /\ Len(Append(s, e)) = Len(s) + 1
           /\ \A i \in 1..Len(s) : Append(s, e)[i] = s[i]
           /\ Append(s, e)[Len(s) + 1] = e
  BY LenProperties

LEMMA TailIs ==
    ASSUME NEW S, NEW s \in Seq(S), s # <<>>
    PROVE  /\ Tail(s) \in Seq(S) /\ Len(s) \in Nat \ {0} /\ Len(Tail(s)) = Len(s) - 1
           /\ \A i \in 1..(Len(s) - 1) : Tail(s)[i] = s[i + 1]
           /\ Head(s) = s[1] /\ Head(s) \in S
  BY EmptySeq, LenProperties, HeadTailProperties

\* An event at the end of a queue.
LEMMA OfQueryAppend ==
    ASSUME NEW s \in Seq(Events), NEW e \in Events, NEW q
    PROVE  OfQuery(Append(s, e), q) =
               OfQuery(s, q) \cup (IF e.query = q THEN {Len(s) + 1} ELSE {})
  BY AppendIs DEF OfQuery

\* What was heard before a place is not changed by an event behind it.
LEMMA FollowsAppend ==
    ASSUME NEW s \in Seq(Events), NEW e \in Events, NEW q, NEW text, NEW n,
           NEW i \in 1..(Len(s) + 1), Follows(s, q, i, text, n)
    PROVE  Follows(Append(s, e), q, i, text, n)
<1>1. /\ Len(s) \in Nat /\ \A j \in 1..Len(s) : Append(s, e)[j] = s[j]
      /\ OfQuery(s, q) \subseteq 1..Len(s)
      /\ OfQuery(s, q) \subseteq OfQuery(Append(s, e), q)
      /\ \A j \in OfQuery(Append(s, e), q) : j \in OfQuery(s, q) \/ j = Len(s) + 1
  BY AppendIs, OfQueryAppend DEF OfQuery
<1>2. CASE \E k \in OfQuery(s, q) :
             /\ k < i /\ s[k].kind = "chunk" /\ s[k].chunk = n
             /\ \A j \in OfQuery(s, q) : j <= k \/ j >= i
  <2>1. PICK k \in OfQuery(s, q) : /\ k < i /\ s[k].kind = "chunk" /\ s[k].chunk = n
                                   /\ \A j \in OfQuery(s, q) : j <= k \/ j >= i
    BY <1>2
  <2>2. /\ Append(s, e)[k].kind = "chunk" /\ Append(s, e)[k].chunk = n
        /\ \A j \in OfQuery(Append(s, e), q) : j <= k \/ j >= i
    BY <1>1, <2>1
  <2> QED BY <1>1, <2>1, <2>2 DEF Follows
<1>3. CASE (\A j \in OfQuery(s, q) : j >= i) /\ EndsWith(text, n)
  BY <1>1, <1>3 DEF Follows
<1> QED BY <1>2, <1>3 DEF Follows

\* What has been heard after an event that is not about q ...
LEMMA FollowsOther ==
    ASSUME NEW s \in Seq(Events), NEW e \in Events, NEW q, NEW text, NEW n,
           e.query # q, Follows(s, q, Len(s) + 1, text, n)
    PROVE  Follows(Append(s, e), q, Len(s) + 2, text, n)
<1>1. /\ Len(s) \in Nat /\ \A j \in 1..Len(s) : Append(s, e)[j] = s[j]
      /\ OfQuery(s, q) \subseteq 1..Len(s) /\ OfQuery(Append(s, e), q) = OfQuery(s, q)
  BY AppendIs, OfQueryAppend DEF OfQuery
<1> QED BY <1>1 DEF Follows

\* ... and after its chunk n.
LEMMA FollowsChunk ==
    ASSUME NEW s \in Seq(Events), NEW e \in Events, NEW text,
           e.kind = "chunk"
    PROVE  Follows(Append(s, e), e.query, Len(s) + 2, text, e.chunk)
<1>1. /\ Len(s) \in Nat /\ Append(s, e)[Len(s) + 1] = e
      /\ Len(s) + 1 \in OfQuery(Append(s, e), e.query)
      /\ \A j \in OfQuery(Append(s, e), e.query) : j <= Len(s) + 1
  BY AppendIs, OfQueryAppend DEF OfQuery
<1> QED BY <1>1 DEF Follows

\* Appending keeps the order if the event is in order.
LEMMA InOrderAppend ==
    ASSUME NEW s \in Seq(Events), NEW e \in Events, NEW q, NEW text,
           InOrder(s, q, text),
           e.query = q /\ e.kind = "chunk" =>
               e.chunk > 0 /\ (e.chunk > 1 => Follows(s, q, Len(s) + 1, text, e.chunk - 1)),
           e.query = q /\ e.kind = "done" => Follows(s, q, Len(s) + 1, text, Chunks)
    PROVE  InOrder(Append(s, e), q, text)
<1> DEFINE t == Append(s, e)
<1>1. /\ Len(s) \in Nat /\ \A j \in 1..Len(s) : t[j] = s[j]
      /\ t[Len(s) + 1] = e /\ OfQuery(s, q) \subseteq 1..Len(s)
      /\ OfQuery(t, q) = OfQuery(s, q) \cup (IF e.query = q THEN {Len(s) + 1} ELSE {})
  BY AppendIs, OfQueryAppend DEF OfQuery
<1>2. \A i \in 1..(Len(s) + 1) : \A n : Follows(s, q, i, text, n) => Follows(t, q, i, text, n)
  BY FollowsAppend
<1> SUFFICES ASSUME NEW i \in OfQuery(t, q)
             PROVE  /\ t[i].kind = "chunk" =>
                          t[i].chunk > 0 /\ (t[i].chunk > 1 => Follows(t, q, i, text, t[i].chunk - 1))
                    /\ t[i].kind = "done" => Follows(t, q, i, text, Chunks)
  BY Zenon DEF InOrder
<1> HIDE DEF t
<1>3. CASE i \in OfQuery(s, q)
  BY <1>1, <1>2, <1>3 DEF InOrder
<1>4. CASE i = Len(s) + 1 /\ e.query = q
  <2>1. t[i] = e
    BY <1>1, <1>4
  <2>2. i \in 1..(Len(s) + 1)
    BY <1>1, <1>4
  <2>3. \A n : Follows(s, q, Len(s) + 1, text, n) => Follows(t, q, i, text, n)
    BY <1>2, <1>4, <2>2
  <2> QED BY <1>4, <2>1, <2>3
<1> QED BY <1>1, <1>3, <1>4

\* Beginnings can be counted.
LEMMA CountsFinite ==
    /\ \A s \in Seq(Events) : \A q : /\ IsFiniteSet(BeginningsTo(s, q))
                                     /\ Cardinality(BeginningsTo(s, q)) \in Nat
    /\ \A text \in Seq(0..Chunks) : /\ IsFiniteSet(BeginningsIn(text))
                                     /\ Cardinality(BeginningsIn(text)) \in Nat
<1>1. ASSUME NEW n \in Nat, NEW T \in SUBSET (1..n)
      PROVE  IsFiniteSet(T) /\ Cardinality(T) \in Nat
  <2>1. IsFiniteSet(1..n)
    BY FS_Interval
  <2>2. IsFiniteSet(T)
    BY <2>1, FS_Subset
  <2> QED BY <2>2, FS_CardinalityType
<1>2. \A s \in Seq(Events) : \A q : Len(s) \in Nat /\ BeginningsTo(s, q) \subseteq 1..Len(s)
  BY LenProperties DEF BeginningsTo, OfQuery
<1>3. \A text \in Seq(0..Chunks) : Len(text) \in Nat /\ BeginningsIn(text) \subseteq 1..Len(text)
  BY LenProperties DEF BeginningsIn
<1> QED BY <1>1, <1>2, <1>3

\* A first chunk is one beginning more, in the queue ...
LEMMA BeginningsToAppend ==
    ASSUME NEW s \in Seq(Events), NEW e \in Events, NEW q
    PROVE  Cardinality(BeginningsTo(Append(s, e), q)) = Cardinality(BeginningsTo(s, q))
               + (IF e.query = q /\ e.kind = "chunk" /\ e.chunk = 1 THEN 1 ELSE 0)
<1>1. /\ Len(s) \in Nat /\ \A j \in 1..Len(s) : Append(s, e)[j] = s[j]
      /\ Append(s, e)[Len(s) + 1] = e /\ OfQuery(s, q) \subseteq 1..Len(s)
      /\ OfQuery(Append(s, e), q) = OfQuery(s, q) \cup (IF e.query = q THEN {Len(s) + 1} ELSE {})
  BY AppendIs, OfQueryAppend DEF OfQuery
<1>2. /\ IsFiniteSet(BeginningsTo(s, q)) /\ Len(s) + 1 \notin BeginningsTo(s, q)
      /\ Cardinality(BeginningsTo(s, q)) \in Nat
  BY <1>1, CountsFinite DEF BeginningsTo
<1>3. CASE e.query = q /\ e.kind = "chunk" /\ e.chunk = 1
  <2>1. BeginningsTo(Append(s, e), q) = BeginningsTo(s, q) \cup {Len(s) + 1}
    BY <1>1, <1>3 DEF BeginningsTo
  <2>2. Cardinality(BeginningsTo(s, q) \cup {Len(s) + 1}) = Cardinality(BeginningsTo(s, q)) + 1
    BY <1>2, FS_AddElement
  <2> QED BY <1>3, <2>1, <2>2
<1>4. CASE ~(e.query = q /\ e.kind = "chunk" /\ e.chunk = 1)
  <2>1. BeginningsTo(Append(s, e), q) = BeginningsTo(s, q)
    BY <1>1, <1>4 DEF BeginningsTo
  <2> QED BY <1>2, <1>4, <2>1
<1> QED BY <1>3, <1>4

\* ... and in the text ...
LEMMA BeginningsInAppend ==
    ASSUME NEW text \in Seq(0..Chunks), NEW m \in 0..Chunks
    PROVE  Cardinality(BeginningsIn(Append(text, m))) =
               Cardinality(BeginningsIn(text)) + (IF m = 1 THEN 1 ELSE 0)
<1>1. /\ Len(text) \in Nat /\ \A j \in 1..Len(text) : Append(text, m)[j] = text[j]
      /\ Append(text, m)[Len(text) + 1] = m /\ Len(Append(text, m)) = Len(text) + 1
  BY AppendIs
<1>2. /\ IsFiniteSet(BeginningsIn(text)) /\ Len(text) + 1 \notin BeginningsIn(text)
      /\ Cardinality(BeginningsIn(text)) \in Nat
  BY <1>1, CountsFinite DEF BeginningsIn
<1>3. CASE m = 1
  <2>1. BeginningsIn(Append(text, m)) = BeginningsIn(text) \cup {Len(text) + 1}
    BY <1>1, <1>3 DEF BeginningsIn
  <2>2. Cardinality(BeginningsIn(text) \cup {Len(text) + 1}) = Cardinality(BeginningsIn(text)) + 1
    BY <1>2, FS_AddElement
  <2> QED BY <1>3, <2>1, <2>2
<1>4. CASE m # 1
  <2>1. BeginningsIn(Append(text, m)) = BeginningsIn(text)
    BY <1>1, <1>4 DEF BeginningsIn
  <2> QED BY <1>2, <1>4, <2>1
<1> QED BY <1>3, <1>4

\* The queue without its first event.
LEMMA OfQueryTail ==
    ASSUME NEW s \in Seq(Events), s # <<>>, NEW q
    PROVE  /\ \A i \in OfQuery(Tail(s), q) : i + 1 \in OfQuery(s, q) /\ Tail(s)[i] = s[i + 1]
           /\ \A i \in OfQuery(s, q) : i > 1 => i - 1 \in OfQuery(Tail(s), q)
           /\ 1 \in OfQuery(s, q) <=> Head(s).query = q
  BY TailIs DEF OfQuery

\* ... and leaves the queue when it is handled.
LEMMA BeginningsToTail ==
    ASSUME NEW s \in Seq(Events), s # <<>>, NEW q
    PROVE  Cardinality(BeginningsTo(Tail(s), q))
               + (IF Head(s).query = q /\ Head(s).kind = "chunk" /\ Head(s).chunk = 1 THEN 1 ELSE 0)
               <= Cardinality(BeginningsTo(s, q))
<1> DEFINE S == BeginningsTo(s, q)
           T == BeginningsTo(Tail(s), q)
           f == [i \in T |-> i + 1]
           first == Head(s).query = q /\ Head(s).kind = "chunk" /\ Head(s).chunk = 1
<1>a. \A i \in OfQuery(Tail(s), q) : i + 1 \in OfQuery(s, q) /\ Tail(s)[i] = s[i + 1]
  BY OfQueryTail
<1>0. Tail(s) \in Seq(Events) /\ Head(s) = s[1]
  BY TailIs
<1>1. /\ IsFiniteSet(S) /\ Cardinality(S) \in Nat /\ Cardinality(T) \in Nat
      /\ \A i \in T : i \in Nat /\ i > 0
  <2>1. \A i \in T : i \in Nat /\ i > 0
    BY <1>0, LenProperties DEF BeginningsTo, OfQuery
  <2> QED BY <1>0, <2>1, CountsFinite
<1>2. 1 \in S <=> first
  BY <1>0, OfQueryTail DEF BeginningsTo
<1>3. \A i \in T : i + 1 \in S /\ i + 1 # 1
  <2> SUFFICES ASSUME NEW i \in T PROVE i + 1 \in S /\ i + 1 # 1
    OBVIOUS
  <2>1. i \in OfQuery(Tail(s), q) /\ Tail(s)[i].kind = "chunk" /\ Tail(s)[i].chunk = 1
    BY DEF BeginningsTo
  <2>2. i + 1 \in OfQuery(s, q) /\ Tail(s)[i] = s[i + 1]
    BY <1>a, <2>1
  <2>3. i + 1 \in S
    BY <2>1, <2>2 DEF BeginningsTo
  <2> QED BY <1>1, <2>3
<1>4. f \in Injection(T, S \ {1})
  <2>1. f \in [T -> S \ {1}]
    BY <1>3
  <2>2. \A i, j \in T : f[i] = f[j] => i = j
    BY <1>1
  <2> QED BY <2>1, <2>2 DEF Injection, IsInjective
<1>5. IsFiniteSet(S \ {1}) /\ Cardinality(S \ {1}) = IF first THEN Cardinality(S) - 1 ELSE Cardinality(S)
  BY <1>1, <1>2, FS_RemoveElement
<1>6. Cardinality(T) <= Cardinality(S \ {1})
  BY <1>4, <1>5, FS_Injection
<1> HIDE DEF S, T, first
<1>7. Cardinality(T) + (IF first THEN 1 ELSE 0) <= Cardinality(S)
  BY <1>1, <1>5, <1>6
<1> QED BY <1>7 DEF S, T, first

--------------------------------------------------------------------------------
(* An answer on its way: events are published and shown. *)

\* A text with one chunk more.
LEMMA EndsWithAppend ==
    ASSUME NEW text \in Seq(0..Chunks), NEW m \in 1..Chunks, m > 1 => EndsWith(text, m - 1)
    PROVE  EndsWith(Append(text, m), m)
<1>1. /\ Len(text) \in Nat /\ \A j \in 1..Len(text) : Append(text, m)[j] = text[j]
      /\ Append(text, m)[Len(text) + 1] = m /\ Len(Append(text, m)) = Len(text) + 1
  BY AppendIs
<1>2. CASE m = 1
  BY <1>1, <1>2 DEF EndsWith
<1>3. CASE m > 1
  <2>1. Len(text) >= m - 1 /\ \A i \in 1..(m - 1) : text[Len(text) - (m - 1) + i] = i
    BY <1>3 DEF EndsWith
  <2>2. ASSUME NEW i \in 1..m
        PROVE  Append(text, m)[Len(text) + 1 - m + i] = i
    <3>1. CASE i = m
      BY <1>1, <3>1
    <3>2. CASE i # m
      <4>1. Len(text) + 1 - m + i \in 1..Len(text) /\ Len(text) - (m - 1) + i = Len(text) + 1 - m + i
            /\ i \in 1..(m - 1)
        BY <1>1, <2>1, <3>2
      <4> QED BY <1>1, <2>1, <4>1
    <3> QED BY <3>1, <3>2
  <2> QED BY <1>1, <2>1, <2>2 DEF EndsWith
<1> QED BY <1>2, <1>3

\* The next chunk, or the first again, keeps a text a row of beginnings.
LEMMA RisesAppend ==
    ASSUME NEW text \in Seq(0..Chunks), NEW m \in 1..Chunks, Rises(text),
           m > 1 => EndsWith(text, m - 1)
    PROVE  Rises(Append(text, m))
<1> DEFINE t == Append(text, m)
<1>1. /\ Len(text) \in Nat /\ \A j \in 1..Len(text) : t[j] = text[j]
      /\ t[Len(text) + 1] = m /\ Len(t) = Len(text) + 1
  BY AppendIs
<1>2. m > 1 => Len(text) > 0 /\ text[Len(text)] = m - 1
  <2>1. CASE m > 1
    <3>1. Len(text) >= m - 1 /\ text[Len(text) - (m - 1) + (m - 1)] = m - 1
      BY <2>1 DEF EndsWith
    <3> QED BY <1>1, <2>1, <3>1
  <2> QED BY <2>1
<1> HIDE DEF t
<1>3. ASSUME NEW i \in 1..(Len(t) - 1) PROVE t[i + 1] > t[i] \/ t[i + 1] = 1
  <2>1. CASE i = Len(text)
    BY <1>1, <1>2, <2>1
  <2>2. CASE i < Len(text)
    BY <1>1, <2>2 DEF Rises
  <2> QED BY <1>1, <2>1, <2>2
<1>4. t[1] = 1 \/ (t[1] = Failure /\ (Len(t) > 1 => t[2] = 1))
  <2>1. CASE Len(text) = 0
    BY <1>1, <1>2, <2>1
  <2>2. CASE Len(text) = 1
    BY <1>1, <1>2, <2>2 DEF Rises, Failure
  <2>3. CASE Len(text) > 1
    BY <1>1, <2>3 DEF Rises
  <2>4. Len(text) \in Nat
    BY <1>1
  <2>5. Len(text) = 0 \/ Len(text) = 1 \/ Len(text) > 1
    BY <2>4
  <2> QED BY <2>1, <2>2, <2>3, <2>5
<1>5. Rises(t)
  BY <1>3, <1>4 DEF Rises
<1> QED BY <1>5 DEF t

\* Only the beginnings after the first step back.
LEMMA FewDescents ==
    ASSUME NEW text \in Seq(0..Chunks), Rises(text), NEW n \in Nat,
           Cardinality(BeginningsIn(text)) <= n + 1
    PROVE  Descents(text) <= n
<1> DEFINE D == {i \in 1..(Len(text) - 1) : text[i + 1] <= text[i]}
           B == BeginningsIn(text)
           f == [i \in D |-> i + 1]
<1>1. /\ Len(text) \in Nat /\ IsFiniteSet(B) /\ Cardinality(B) \in Nat
      /\ \A j \in 1..Len(text) : text[j] \in 0..Chunks
  BY CountsFinite, LenProperties
<1>2. CASE D = {}
  <2>1. Descents(text) = Cardinality({})
    BY <1>2 DEF Descents
  <2> QED BY <2>1, FS_EmptySet
<1>3. CASE D # {}
  <2>1. \A i \in D : i + 1 \in 1..Len(text) /\ text[i + 1] = 1 /\ text[i + 1] <= text[i]
    <3>1. StreamAssumption
      BY StreamAssumption
    <3> QED BY <1>1, <3>1 DEF Rises, StreamAssumption
  <2>2. PICK first \in B : \A i \in D : i + 1 # first
    <3>1. Len(text) > 1
      BY <1>1, <1>3
    <3>2. CASE text[1] = 1
      BY <1>1, <3>1, <3>2 DEF BeginningsIn
    <3>3. CASE text[1] = Failure /\ text[2] = 1
      <4>1. 2 \in B
        BY <1>1, <3>1, <3>3 DEF BeginningsIn
      <4>2. \A i \in D : i + 1 # 2
        BY <2>1, <3>3 DEF Failure
      <4> QED BY <4>1, <4>2
    <3> QED BY <3>1, <3>2, <3>3 DEF Rises
  <2>3. f \in Injection(D, B \ {first})
    <3>1. f \in [D -> B \ {first}]
      BY <2>1, <2>2 DEF BeginningsIn
    <3>2. \A i, j \in D : f[i] = f[j] => i = j
      OBVIOUS
    <3> QED BY <3>1, <3>2 DEF Injection, IsInjective
  <2>4. IsFiniteSet(B \ {first}) /\ Cardinality(B \ {first}) = Cardinality(B) - 1
    BY <1>1, <2>2, FS_RemoveElement
  <2>5. IsFiniteSet(D) /\ Cardinality(D) <= Cardinality(B \ {first})
    BY <2>3, <2>4, FS_Injection
  <2>6. Cardinality(D) \in Nat
    BY <2>5, FS_CardinalityType
  <2>7. Descents(text) = Cardinality(D) /\ Cardinality(B) <= n + 1
    BY DEF Descents
  <2> HIDE DEF D, B
  <2> QED BY <1>1, <2>4, <2>5, <2>6, <2>7
<1> QED BY <1>2, <1>3

\* Nothing about q is published.
LEMMA FlowOther ==
    ASSUME NEW s \in Seq(Events), NEW e \in Events, NEW q, e.query # q, NEW text, NEW p,
           NEW n, NEW f, NEW complete, FlowOf(q, s, text, p, n, f, complete)
    PROVE  FlowOf(q, Append(s, e), text, p, n, f, complete)
<1>1. /\ Len(s) \in Nat /\ Len(Append(s, e)) = Len(s) + 1
      /\ \A j \in 1..Len(s) : Append(s, e)[j] = s[j]
      /\ OfQuery(s, q) \subseteq 1..Len(s) /\ OfQuery(Append(s, e), q) = OfQuery(s, q)
  BY AppendIs, OfQueryAppend DEF OfQuery
<1>2. InOrder(Append(s, e), q, text)
  BY InOrderAppend DEF FlowOf
<1>3. p = "streaming" /\ n > 0 => Follows(Append(s, e), q, Len(Append(s, e)) + 1, text, n)
  <2>1. Follows(s, q, Len(s) + 1, text, n) => Follows(Append(s, e), q, Len(s) + 2, text, n)
    BY FollowsOther
  <2>2. Len(Append(s, e)) + 1 = Len(s) + 2
    BY <1>1
  <2> QED BY <2>1, <2>2 DEF FlowOf
<1>4. Cardinality(BeginningsTo(Append(s, e), q)) = Cardinality(BeginningsTo(s, q))
  <2>1. BeginningsTo(Append(s, e), q) = BeginningsTo(s, q)
    BY <1>1 DEF BeginningsTo
  <2> QED BY <2>1
<1> QED BY <1>1, <1>2, <1>3, <1>4 DEF FlowOf

\* The worker publishes the next chunk, ...
LEMMA FlowChunk ==
    ASSUME NEW s \in Seq(Events), NEW e \in Events, e.kind = "chunk", NEW text \in Seq(0..Chunks),
           NEW n \in Nat, e.chunk = n + 1, NEW f \in Nat, NEW complete,
           FlowOf(e.query, s, text, "streaming", n, f, complete)
    PROVE  FlowOf(e.query, Append(s, e), text, "streaming", n + 1, f, complete)
<1> DEFINE q == e.query
<1>1. /\ Len(s) \in Nat /\ Len(Append(s, e)) = Len(s) + 1
      /\ \A j \in 1..Len(s) : Append(s, e)[j] = s[j]
      /\ Append(s, e)[Len(s) + 1] = e /\ OfQuery(s, q) \subseteq 1..Len(s)
      /\ OfQuery(Append(s, e), q) = OfQuery(s, q) \cup {Len(s) + 1}
  BY AppendIs, OfQueryAppend DEF OfQuery
<1>3. InOrder(Append(s, e), q, text)
  <2>1. InOrder(s, q, text) /\ (n > 0 => Follows(s, q, Len(s) + 1, text, n))
    BY DEF FlowOf
  <2>2. e.chunk > 0 /\ (e.chunk > 1 => Follows(s, q, Len(s) + 1, text, e.chunk - 1))
    BY <2>1
  <2> QED BY <2>1, <2>2, InOrderAppend
<1>4. Follows(Append(s, e), q, Len(Append(s, e)) + 1, text, n + 1)
  <2>1. Len(Append(s, e)) + 1 = Len(s) + 2
    BY <1>1
  <2> QED BY <2>1, FollowsChunk
<1>6. Cardinality(BeginningsIn(text)) + Cardinality(BeginningsTo(Append(s, e), q))
          + ToBegin("streaming", n + 1) <= f + 1
  <2>1. /\ Cardinality(BeginningsTo(Append(s, e), q)) =
              Cardinality(BeginningsTo(s, q)) + (IF n = 0 THEN 1 ELSE 0)
        /\ Cardinality(BeginningsTo(s, q)) \in Nat /\ Cardinality(BeginningsIn(text)) \in Nat
    BY BeginningsToAppend, CountsFinite
  <2>2. ToBegin("streaming", n) = IF n = 0 THEN 1 ELSE 0
    BY DEF ToBegin
  <2>3. ToBegin("streaming", n + 1) = 0
    BY DEF ToBegin
  <2>4. Cardinality(BeginningsIn(text)) + Cardinality(BeginningsTo(s, q))
            + ToBegin("streaming", n) <= f + 1
    BY DEF FlowOf
  <2> QED BY <2>1, <2>2, <2>3, <2>4
<1>7. Rises(text)
  BY DEF FlowOf
<1> QED BY <1>3, <1>4, <1>6, <1>7 DEF FlowOf

\* ... the end of the answer, ...
LEMMA FlowDone ==
    ASSUME NEW s \in Seq(Events), NEW e \in Events, e.kind = "done", NEW text \in Seq(0..Chunks),
           NEW f \in Nat, NEW complete,
           FlowOf(e.query, s, text, "streaming", Chunks, f, complete)
    PROVE  FlowOf(e.query, Append(s, e), text, "ending", Chunks, f, complete)
<1> DEFINE q == e.query
<1>1. Chunks \in Nat /\ Chunks > 0
  BY StreamAssumption DEF StreamAssumption
<1>3. InOrder(Append(s, e), q, text)
  BY <1>1, InOrderAppend DEF FlowOf
<1>4. /\ Cardinality(BeginningsTo(Append(s, e), q)) = Cardinality(BeginningsTo(s, q))
      /\ Cardinality(BeginningsTo(s, q)) \in Nat /\ Cardinality(BeginningsIn(text)) \in Nat
  <2>1. /\ Cardinality(BeginningsTo(Append(s, e), q)) = Cardinality(BeginningsTo(s, q)) + 0
        /\ Cardinality(BeginningsTo(s, q)) \in Nat /\ Cardinality(BeginningsIn(text)) \in Nat
    BY BeginningsToAppend, CountsFinite
  <2> QED BY <2>1
<1>5. ToBegin("streaming", Chunks) = 0 /\ ToBegin("ending", Chunks) = 0
  BY <1>1 DEF ToBegin
<1>6. /\ Rises(text)
      /\ Cardinality(BeginningsIn(text)) + Cardinality(BeginningsTo(s, q))
             + ToBegin("streaming", Chunks) <= f + 1
  BY DEF FlowOf
<1> QED BY <1>3, <1>4, <1>5, <1>6 DEF FlowOf

\* ... or an error.
LEMMA FlowError ==
    ASSUME NEW s \in Seq(Events), NEW e \in Events, e.kind = "error", NEW text \in Seq(0..Chunks),
           NEW n, NEW m, NEW f \in Nat, NEW complete,
           FlowOf(e.query, s, text, "failing", n, f, complete)
    PROVE  FlowOf(e.query, Append(s, e), text, "rethrowing", m, f, complete)
<1> DEFINE q == e.query
<1>1. /\ Len(s) \in Nat /\ \A j \in 1..Len(s) : Append(s, e)[j] = s[j]
      /\ Append(s, e)[Len(s) + 1] = e /\ OfQuery(s, q) \subseteq 1..Len(s)
      /\ OfQuery(Append(s, e), q) = OfQuery(s, q) \cup {Len(s) + 1}
  BY AppendIs, OfQueryAppend DEF OfQuery
<1>3. InOrder(Append(s, e), q, text)
  BY InOrderAppend DEF FlowOf
<1>4. Cardinality(BeginningsTo(Append(s, e), q)) = Cardinality(BeginningsTo(s, q))
  <2>1. Cardinality(BeginningsTo(Append(s, e), q)) = Cardinality(BeginningsTo(s, q)) + 0
    BY BeginningsToAppend
  <2>2. Cardinality(BeginningsTo(s, q)) \in Nat
    BY CountsFinite
  <2> QED BY <2>1, <2>2
<1>5. ToBegin("rethrowing", m) = ToBegin("failing", n)
  BY DEF ToBegin
<1> QED BY <1>3, <1>4, <1>5 DEF FlowOf

\* The query changes its phase.
LEMMA FlowPhase ==
    ASSUME NEW q, NEW s \in Seq(Events), NEW text \in Seq(0..Chunks), NEW p, NEW n, NEW f \in Nat,
           NEW complete, FlowOf(q, s, text, p, n, f, complete),
           NEW p2, NEW n2, NEW f2 \in Nat, p2 = "streaming" => n2 = 0,
           ToBegin(p2, n2) + f <= ToBegin(p, n) + f2
    PROVE  FlowOf(q, s, text, p2, n2, f2, complete)
<1>1. /\ Cardinality(BeginningsTo(s, q)) \in Nat /\ Cardinality(BeginningsIn(text)) \in Nat
      /\ ToBegin(p, n) \in Nat /\ ToBegin(p2, n2) \in Nat
  BY CountsFinite DEF ToBegin
<1>2. Cardinality(BeginningsIn(text)) + Cardinality(BeginningsTo(s, q)) + ToBegin(p, n) <= f + 1
  BY DEF FlowOf
<1>3. Cardinality(BeginningsIn(text)) + Cardinality(BeginningsTo(s, q)) + ToBegin(p2, n2) <= f2 + 1
  BY <1>1, <1>2
<1> QED BY <1>3 DEF FlowOf

\* Something else fails.
LEMMA FlowLater ==
    ASSUME NEW q, NEW s \in Seq(Events), NEW text \in Seq(0..Chunks), NEW p, NEW n, NEW f \in Nat,
           NEW complete, FlowOf(q, s, text, p, n, f, complete)
    PROVE  FlowOf(q, s, text, p, n, f + 1, complete)
<1>1. /\ Cardinality(BeginningsTo(s, q)) \in Nat /\ Cardinality(BeginningsIn(text)) \in Nat
      /\ ToBegin(p, n) \in Nat
  BY CountsFinite DEF ToBegin
<1>2. Cardinality(BeginningsIn(text)) + Cardinality(BeginningsTo(s, q)) + ToBegin(p, n) <= f + 1
  BY DEF FlowOf
<1>3. Cardinality(BeginningsIn(text)) + Cardinality(BeginningsTo(s, q)) + ToBegin(p, n) <= f + 1 + 1
  BY <1>1, <1>2
<1> QED BY <1>3 DEF FlowOf

\* The query is published for the worker.
LEMMA FlowStarts ==
    ASSUME NEW q, NEW s \in Seq(Events), OfQuery(s, q) = {}, NEW f \in Nat
    PROVE  FlowOf(q, s, <<>>, "queued", 0, f, FALSE)
<1>1. BeginningsTo(s, q) = {} /\ BeginningsIn(<<>>) = {}
  BY DEF BeginningsTo, BeginningsIn
<1>2. Cardinality({}) = 0
  BY FS_EmptySet
<1>3. InOrder(s, q, <<>>) /\ Rises(<<>>)
  BY DEF InOrder, Rises
<1>4. ToBegin("queued", 0) = 1
  BY DEF ToBegin
<1>5. Cardinality(BeginningsIn(<<>>)) + Cardinality(BeginningsTo(s, q)) + ToBegin("queued", 0) <= f + 1
  <2>1. Cardinality(BeginningsIn(<<>>)) = 0 /\ Cardinality(BeginningsTo(s, q)) = 0
    BY <1>1, <1>2
  <2> QED BY <1>4, <2>1
<1> QED BY <1>3, <1>5 DEF FlowOf

\* The text of q after a client has been told of event e.
TextAfter(text, e, q) ==
    IF e.query # q \/ e.kind = "done" THEN text
    ELSE IF e.kind = "chunk" THEN Append(text, e.chunk) ELSE <<Failure>>

\* Whether the end is what it has heard last of q.
ToldAfter(told, e, q) == IF e.query = q THEN e.kind = "done" ELSE told

\* What has been heard before a position is not changed by hearing it.
LEMMA FollowsTail ==
    ASSUME NEW s \in Seq(Events), s # <<>>, NEW q, NEW text \in Seq(0..Chunks),
           InOrder(s, q, text), NEW i \in 2..(Len(s) + 1), NEW n, Follows(s, q, i, text, n)
    PROVE  Follows(Tail(s), q, i - 1, TextAfter(text, Head(s), q), n)
<1>1. /\ Head(s) = s[1] /\ Head(s) \in Events /\ Len(s) \in Nat
      /\ OfQuery(s, q) \subseteq 1..Len(s) /\ OfQuery(Tail(s), q) \subseteq 1..(Len(s) - 1)
  BY TailIs DEF OfQuery
<1>2. /\ \A j \in OfQuery(Tail(s), q) : j + 1 \in OfQuery(s, q) /\ Tail(s)[j] = s[j + 1]
      /\ \A j \in OfQuery(s, q) : j > 1 => j - 1 \in OfQuery(Tail(s), q)
      /\ 1 \in OfQuery(s, q) <=> Head(s).query = q
  BY OfQueryTail
<1>3. CASE \E k \in OfQuery(s, q) :
             /\ k < i /\ s[k].kind = "chunk" /\ s[k].chunk = n
             /\ \A j \in OfQuery(s, q) : j <= k \/ j >= i
  <2>1. PICK k \in OfQuery(s, q) : /\ k < i /\ s[k].kind = "chunk" /\ s[k].chunk = n
                                   /\ \A j \in OfQuery(s, q) : j <= k \/ j >= i
    BY <1>3
  <2>2. CASE k = 1
    <3>1. /\ TextAfter(text, Head(s), q) = Append(text, n)
          /\ \A j \in OfQuery(Tail(s), q) : j >= i - 1
      BY <1>1, <1>2, <2>1, <2>2 DEF TextAfter
    <3>2. n \in 1..Chunks
      BY <1>1, <2>1, <2>2 DEF InOrder, Events
    <3>3. n > 1 => EndsWith(text, n - 1)
      BY <1>1, <2>1, <2>2 DEF InOrder, Follows
    <3>4. EndsWith(Append(text, n), n)
      BY <3>2, <3>3, EndsWithAppend
    <3> QED BY <3>1, <3>4 DEF Follows
  <2>3. CASE k > 1
    <3>1. /\ k - 1 \in OfQuery(Tail(s), q) /\ Tail(s)[k - 1] = s[k] /\ k - 1 < i - 1
          /\ \A j \in OfQuery(Tail(s), q) : j <= k - 1 \/ j >= i - 1
      <4>1. k - 1 \in OfQuery(Tail(s), q)
        BY <1>2, <2>1, <2>3
      <4>2. Tail(s)[k - 1] = s[k - 1 + 1] /\ k - 1 + 1 = k
        BY <1>1, <1>2, <2>1, <4>1
      <4>3. \A j \in OfQuery(Tail(s), q) : j + 1 <= k \/ j + 1 >= i
        BY <1>2, <2>1
      <4>4. k \in Int /\ i \in Int /\ \A j \in OfQuery(Tail(s), q) : j \in Int
        BY <1>1, <2>1
      <4>5. k - 1 < i - 1 /\ \A j \in OfQuery(Tail(s), q) : j <= k - 1 \/ j >= i - 1
        BY <2>1, <4>3, <4>4
      <4> QED BY <4>1, <4>2, <4>5
    <3> QED BY <2>1, <3>1 DEF Follows
  <2> QED BY <1>1, <2>1, <2>2, <2>3
<1>4. CASE (\A j \in OfQuery(s, q) : j >= i) /\ EndsWith(text, n)
  <2>1. TextAfter(text, Head(s), q) = text
    BY <1>2, <1>4 DEF TextAfter
  <2>2. \A j \in OfQuery(Tail(s), q) : j >= i - 1
    BY <1>1, <1>2, <1>4
  <2> QED BY <1>4, <2>1, <2>2 DEF Follows
<1> QED BY <1>3, <1>4 DEF Follows

\* An event leaves a text.
LEMMA TextAfterIs ==
    ASSUME NEW text \in Seq(0..Chunks), NEW e \in Events, NEW q
    PROVE  TextAfter(text, e, q) \in Seq(0..Chunks)
<1>1. Chunks \in Nat
  BY StreamAssumption DEF StreamAssumption
<1>2. <<Failure>> \in Seq(0..Chunks)
  BY <1>1 DEF Failure
<1>3. Append(text, e.chunk) \in Seq(0..Chunks)
  BY AppendIs DEF Events
<1> QED BY <1>2, <1>3 DEF TextAfter

\* A client is told of the first event of its queue.
LEMMA FlowEmit ==
    ASSUME NEW s \in Seq(Events), s # <<>>, NEW q, NEW text \in Seq(0..Chunks), NEW p, NEW n,
           NEW f \in Nat, NEW complete \in BOOLEAN, FlowOf(q, s, text, p, n, f, complete)
    PROVE  FlowOf(q, Tail(s), TextAfter(text, Head(s), q), p, n, f,
                  ToldAfter(complete, Head(s), q))
<1> DEFINE e == Head(s)
           t == TextAfter(text, e, q)
           told == ToldAfter(complete, e, q)
<1>1. /\ e = s[1] /\ e \in Events /\ Len(s) \in Nat \ {0} /\ Len(Tail(s)) = Len(s) - 1
      /\ Tail(s) \in Seq(Events)
      /\ OfQuery(s, q) \subseteq 1..Len(s) /\ OfQuery(Tail(s), q) \subseteq 1..(Len(s) - 1)
  BY TailIs DEF OfQuery
<1>2. /\ \A j \in OfQuery(Tail(s), q) : j + 1 \in OfQuery(s, q) /\ Tail(s)[j] = s[j + 1]
      /\ 1 \in OfQuery(s, q) <=> e.query = q
  BY OfQueryTail
<1>3. /\ InOrder(s, q, text) /\ Rises(text)
      /\ p = "streaming" /\ n > 0 => Follows(s, q, Len(s) + 1, text, n)
      /\ complete => EndsWith(text, Chunks)
      /\ Cardinality(BeginningsIn(text)) + Cardinality(BeginningsTo(s, q)) + ToBegin(p, n) <= f + 1
  BY DEF FlowOf
<1>4. \A i \in 1..Len(s) : \A m : Follows(s, q, i + 1, text, m) => Follows(Tail(s), q, i, t, m)
  <2> SUFFICES ASSUME NEW i \in 1..Len(s), NEW m, Follows(s, q, i + 1, text, m)
               PROVE  Follows(Tail(s), q, i, t, m)
    OBVIOUS
  <2>1. i + 1 \in 2..(Len(s) + 1)
    BY <1>1
  <2>2. Follows(Tail(s), q, (i + 1) - 1, t, m)
    BY <1>3, <2>1, FollowsTail
  <2>3. (i + 1) - 1 = i
    BY <1>1
  <2> QED BY <2>2, <2>3
<1>5. e.query = q /\ e.kind = "chunk" =>
         e.chunk \in 1..Chunks /\ (e.chunk > 1 => EndsWith(text, e.chunk - 1))
  BY <1>1, <1>2, <1>3 DEF InOrder, Follows, Events
<1>6. e.query = q /\ e.kind = "done" => EndsWith(text, Chunks)
  BY <1>1, <1>2, <1>3 DEF InOrder, Follows
<1>7. InOrder(Tail(s), q, t)
  <2> SUFFICES ASSUME NEW i \in OfQuery(Tail(s), q)
               PROVE  /\ Tail(s)[i].kind = "chunk" =>
                            /\ Tail(s)[i].chunk > 0
                            /\ Tail(s)[i].chunk > 1 => Follows(Tail(s), q, i, t, Tail(s)[i].chunk - 1)
                      /\ Tail(s)[i].kind = "done" => Follows(Tail(s), q, i, t, Chunks)
    BY Zenon DEF InOrder
  <2>1. i + 1 \in OfQuery(s, q) /\ Tail(s)[i] = s[i + 1] /\ i \in 1..(Len(s) - 1)
    BY <1>1, <1>2
  <2>2. /\ s[i + 1].kind = "chunk" =>
              /\ s[i + 1].chunk > 0
              /\ s[i + 1].chunk > 1 => Follows(s, q, i + 1, text, s[i + 1].chunk - 1)
        /\ s[i + 1].kind = "done" => Follows(s, q, i + 1, text, Chunks)
    BY <1>3, <2>1 DEF InOrder
  <2>3. \A m : Follows(s, q, i + 1, text, m) => Follows(Tail(s), q, i, t, m)
    BY <1>1, <1>4, <2>1
  <2> HIDE DEF t
  <2> QED BY <2>1, <2>2, <2>3
<1>8. p = "streaming" /\ n > 0 => Follows(Tail(s), q, Len(Tail(s)) + 1, t, n)
  <2>1. Len(s) \in 1..Len(s) /\ Len(Tail(s)) + 1 = Len(s)
    BY <1>1
  <2> HIDE DEF t
  <2> QED BY <1>3, <1>4, <2>1
<1>9. told => EndsWith(t, Chunks)
  <2>1. CASE e.query = q
    BY <1>6, <2>1 DEF TextAfter, ToldAfter
  <2>2. CASE e.query # q
    BY <1>3, <2>2 DEF TextAfter, ToldAfter
  <2> QED BY <2>1, <2>2
<1>11. Rises(t)
  <2>1. CASE e.query = q /\ e.kind = "chunk"
    BY <1>3, <1>5, <2>1, RisesAppend DEF TextAfter
  <2>2. CASE e.query # q \/ e.kind = "done"
    BY <1>3, <2>2 DEF TextAfter
  <2>3. CASE e.query = q /\ e.kind = "error"
    BY <2>3 DEF TextAfter, Rises, Failure
  <2> QED BY <1>1, <2>1, <2>2, <2>3 DEF Events
<1>12. Cardinality(BeginningsIn(t)) + Cardinality(BeginningsTo(Tail(s), q)) + ToBegin(p, n) <= f + 1
  <2> DEFINE first == e.query = q /\ e.kind = "chunk" /\ e.chunk = 1
  <2>1. Cardinality(BeginningsTo(Tail(s), q)) + (IF first THEN 1 ELSE 0) <= Cardinality(BeginningsTo(s, q))
    BY BeginningsToTail
  <2>2. /\ Cardinality(BeginningsIn(text)) \in Nat /\ Cardinality(BeginningsTo(s, q)) \in Nat
        /\ Cardinality(BeginningsTo(Tail(s), q)) \in Nat /\ ToBegin(p, n) \in Nat
    BY <1>1, CountsFinite DEF ToBegin
  <2>3. Cardinality(BeginningsIn(t)) \in Nat
        /\ Cardinality(BeginningsIn(t)) <= Cardinality(BeginningsIn(text)) + (IF first THEN 1 ELSE 0)
    <3>1. CASE e.query = q /\ e.kind = "chunk"
      <4>1. t = Append(text, e.chunk) /\ e.chunk \in 0..Chunks
        BY <1>1, <3>1 DEF TextAfter, Events
      <4>2. Cardinality(BeginningsIn(t)) =
               Cardinality(BeginningsIn(text)) + (IF e.chunk = 1 THEN 1 ELSE 0)
        BY <4>1, BeginningsInAppend
      <4> QED BY <2>2, <3>1, <4>2
    <3>2. CASE e.query # q \/ e.kind = "done"
      BY <2>2, <3>2 DEF TextAfter
    <3>3. CASE e.query = q /\ e.kind = "error"
      <4>1. t = <<Failure>> /\ ~first
        BY <3>3 DEF TextAfter
      <4>2. BeginningsIn(t) = {}
        BY <4>1 DEF BeginningsIn, Failure
      <4>3. Cardinality(BeginningsIn(t)) = 0
        BY <4>2, FS_EmptySet
      <4> QED BY <2>2, <4>1, <4>3
    <3> QED BY <1>1, <3>1, <3>2, <3>3 DEF Events
  <2> HIDE DEF first, t
  <2>4. Cardinality(BeginningsIn(text)) + Cardinality(BeginningsTo(s, q)) + ToBegin(p, n) <= f + 1
    BY <1>3
  <2> QED BY <2>1, <2>2, <2>3, <2>4
<1> HIDE DEF t, told
<1>13. FlowOf(q, Tail(s), t, p, n, f, told)
  BY <1>7, <1>8, <1>9, <1>11, <1>12 DEF FlowOf
<1> QED BY <1>13 DEF t, told, e

--------------------------------------------------------------------------------
(* What the parts of the actions do. *)

\* What clients receive keeps the types of what they show.
LEMMA ReceiveTypes ==
    ASSUME StreamTypeOK, NEW cs \in SUBSET Clients, NEW e \in Events, Receive(cs, e)
    PROVE  /\ shown' \in [Clients -> [Queries -> [text : Seq(0..Chunks), streaming : BOOLEAN]]]
           /\ isTyping' \in [Clients -> BOOLEAN]
           /\ completed' \subseteq answered' /\ answered' \subseteq Queries
<1>1. \A c \in Clients : Rendered(shown[c], e) \in [Queries -> [text : Seq(0..Chunks), streaming : BOOLEAN]]
  <2> SUFFICES ASSUME NEW c \in Clients
               PROVE  Rendered(shown[c], e) \in [Queries -> [text : Seq(0..Chunks), streaming : BOOLEAN]]
    OBVIOUS
  <2>0. shown[c] \in [Queries -> [text : Seq(0..Chunks), streaming : BOOLEAN]] /\ Chunks \in Nat
    BY StreamAssumption DEF StreamTypeOK, StreamAssumption
  <2>1. CASE e.kind = "chunk"
    <3>1. Append(shown[c][e.query].text, e.chunk) \in Seq(0..Chunks)
      <4>1. shown[c][e.query].text \in Seq(0..Chunks) /\ e.chunk \in 0..Chunks
        BY <2>0 DEF Events
      <4> QED BY <4>1, AppendIs
    <3> QED BY <2>0, <2>1, <3>1 DEF Rendered, OnChunk
  <2>2. CASE e.kind = "done"
    BY <2>0, <2>2 DEF Rendered, OnDone, Events
  <2>3. CASE e.kind = "error"
    <3>1. <<Failure>> \in Seq(0..Chunks)
      BY <2>0 DEF Failure
    <3> QED BY <2>0, <2>3, <3>1 DEF Rendered, OnError
  <2> QED BY <2>1, <2>2, <2>3 DEF Events
<1>2. shown \in [Clients -> [Queries -> [text : Seq(0..Chunks), streaming : BOOLEAN]]]
  BY DEF StreamTypeOK
<1>3. isTyping' \in [Clients -> BOOLEAN]
  BY DEF Receive, StreamTypeOK
<1>4. completed' \subseteq answered' /\ answered' \subseteq Queries
  BY DEF Receive, StreamTypeOK, Events
<1> QED BY <1>1, <1>2, <1>3, <1>4 DEF Receive

\* What the clients that are told of an event read, and what has ended.
LEMMA ReceiveTexts ==
    ASSUME StreamTypeOK, NEW cs \in SUBSET Clients, NEW e \in Events, Receive(cs, e),
           NEW q \in Queries
    PROVE  /\ \A c \in Clients :
                 shown'[c][q].text = IF c \in cs THEN TextAfter(shown[c][q].text, e, q)
                                     ELSE shown[c][q].text
           /\ q \in completed' <=> IF asker[q] \in cs THEN ToldAfter(q \in completed, e, q)
                                   ELSE q \in completed
<1>1. ASSUME NEW c \in Clients PROVE Rendered(shown[c], e)[q].text = TextAfter(shown[c][q].text, e, q)
  <2>0. shown[c] \in [Queries -> [text : Seq(0..Chunks), streaming : BOOLEAN]]
    BY DEF StreamTypeOK
  <2>1. CASE e.kind = "chunk"
    BY <2>0, <2>1 DEF Rendered, OnChunk, TextAfter
  <2>2. CASE e.kind = "done"
    BY <2>0, <2>2 DEF Rendered, OnDone, TextAfter
  <2>3. CASE e.kind = "error"
    BY <2>0, <2>3 DEF Rendered, OnError, TextAfter
  <2> QED BY <2>1, <2>2, <2>3 DEF Events
<1>2. q \in completed' <=> IF asker[q] \in cs THEN ToldAfter(q \in completed, e, q)
                           ELSE q \in completed
  BY DEF Receive, ToldAfter
<1> QED BY <1>1, <1>2 DEF Receive

\* The sockets that are lost take their queries from the steady ones.
LEMMA LoseKeeps ==
    ASSUME StreamInv, NEW cs \in SUBSET Clients, LoseSockets(cs), UNCHANGED <<asker, session>>
    PROVE  /\ socket' \in [Clients -> Backends \cup {None}] /\ rooms' \in [Clients -> SUBSET Queries]
           /\ phase' \in [Queries -> Phases] /\ steady' \subseteq steady
           /\ \A c \in Clients : socket'[c] = IF c \in cs THEN None ELSE socket[c]
           /\ \A q \in Queries : phase'[q] = phase[q] \/ (phase[q] = "emitted" /\ phase'[q] = "dropped")
           /\ \A q \in steady' : /\ asker[q] \notin cs /\ asker[q] \in Clients /\ q \in Queries
                                 /\ phase'[q] = phase[q] /\ socket'[asker[q]] = socket[asker[q]]
                                 /\ rooms'[asker[q]] = rooms[asker[q]]
<1>1. /\ socket \in [Clients -> Backends \cup {None}] /\ rooms \in [Clients -> SUBSET Queries]
      /\ phase \in [Queries -> Phases] /\ steady \subseteq Queries
  BY DEF StreamInv, StreamTypeOK
<1>2. /\ socket' = [c \in Clients |-> IF c \in cs THEN None ELSE socket[c]]
      /\ rooms' = [c \in Clients |-> IF c \in cs THEN {} ELSE rooms[c]]
      /\ steady' = {q \in steady : asker[q] \notin cs}
  BY DEF LoseSockets
<1>3. PICK lost \in SUBSET {q \in Queries : phase[q] = "emitted" /\ asker[q] \in cs} :
         phase' = [q \in Queries |-> IF q \in lost THEN "dropped" ELSE phase[q]]
  BY DEF LoseSockets
<1>4. \A q \in steady : asker[q] \in Clients
  BY <1>1 DEF StreamInv, Placed, Place
<1> QED BY <1>1, <1>2, <1>3, <1>4 DEF Phases

\* An event of q reaches the queues that are bound.
LEMMA RespondTypes ==
    ASSUME StreamTypeOK, NEW e \in Events, Respond(e)
    PROVE  /\ inbox' \in [Backends -> Seq(Events)]
           /\ \A b \in Backends : inbox'[b] = IF b \in responseBound THEN Append(inbox[b], e)
                                              ELSE inbox[b]
  BY AppendIs DEF StreamTypeOK, Respond

\* An event at a replica reaches the sockets there that joined the room of its
\* session.
LEMMA AudienceIs ==
    ASSUME StreamInv, NEW b \in Backends, NEW e
    PROVE  Audience(b, e) = {c \in Clients : session[e.query] \in rooms[c] /\ socket[c] = b}
<1>1. adapter[b] # "redis"
  BY DEF StreamInv, InMemory
<1> QED BY <1>1 DEF Audience

\* An event is what it was made of.
LEMMA EventIs ==
    ASSUME NEW k \in {"chunk", "done", "error"}, NEW q \in Queries, NEW i \in 0..Chunks
    PROVE  /\ Event(k, q, i) \in Events
           /\ Event(k, q, i).kind = k /\ Event(k, q, i).query = q /\ Event(k, q, i).chunk = i
  BY DEF Event, Events

--------------------------------------------------------------------------------
(* The values are of their types. *)

\* Every step keeps the types.
LEMMA TypeStep ==
    ASSUME StreamInv, [Next]_vars
    PROVE  StreamTypeOK'
<1> USE DEF StreamInv
<1>0. StreamTypeOK /\ Placed /\ Chunks \in Nat /\ 0 \in 0..Chunks
  BY StreamAssumption DEF StreamAssumption
<1>1. ASSUME NEW b \in Backends, CreateApp(b) PROVE StreamTypeOK'
  BY <1>0, <1>1 DEF StreamTypeOK, CreateApp, socketVars, queryVars, workVars, queueVars, storeVars, seenVars
<1>2. ASSUME NEW b \in Backends, Listen(b) PROVE StreamTypeOK'
  BY <1>0, <1>2 DEF StreamTypeOK, Listen, socketVars, queryVars, workVars, storeVars, seenVars
<1>3. ASSUME NEW c \in Clients, NEW b \in Backends, Connect(c, b) PROVE StreamTypeOK'
  BY <1>0, <1>3 DEF StreamTypeOK, Connect, bootVars, queryVars, workVars, queueVars, storeVars, seenVars
<1>4. ASSUME NEW c \in Clients, DropSocket(c) PROVE StreamTypeOK'
  <2>1. /\ socket' \in [Clients -> Backends \cup {None}] /\ rooms' \in [Clients -> SUBSET Queries]
        /\ phase' \in [Queries -> Phases] /\ steady' \subseteq steady
        /\ \A d \in Clients : socket'[d] = IF d \in {c} THEN None ELSE socket[d]
    BY <1>4, LoseKeeps DEF DropSocket
  <2>2. failures' \in 0..MaxFailures
    BY <1>0, <1>4, StreamAssumption DEF DropSocket, StreamTypeOK, StreamAssumption
  <2> QED BY <1>0, <1>4, <2>1, <2>2 DEF StreamTypeOK, DropSocket, bootVars, workVars, queueVars, storeVars
<1>5. ASSUME NEW c \in Clients, StartNewConversation(c) PROVE StreamTypeOK'
  <2>1. Nothing \in [text : Seq(0..Chunks), streaming : BOOLEAN]
    BY <1>0 DEF Nothing
  <2> QED BY <1>0, <1>5, <2>1 DEF StreamTypeOK, StartNewConversation, bootVars, socketVars, queryVars,
                                  workVars, queueVars
<1>6. ASSUME NEW c \in Clients, NEW q \in Queries, SendMessage(c, q) PROVE StreamTypeOK'
  BY <1>0, <1>6 DEF StreamTypeOK, SendMessage, Phases, bootVars, socketVars, workVars, queueVars
<1>7. ASSUME NEW q \in Queries, HandleQuery(q) PROVE StreamTypeOK'
  BY <1>0, <1>7 DEF StreamTypeOK, Placed, Place, HandleQuery, Phases, bootVars, workVars, queueVars, storeVars, seenVars
<1>8. ASSUME NEW q \in Queries, HandleQueryFails(q) PROVE StreamTypeOK'
  <2>1. /\ shown' \in [Clients -> [Queries -> [text : Seq(0..Chunks), streaming : BOOLEAN]]]
        /\ isTyping' \in [Clients -> BOOLEAN]
        /\ completed' \subseteq answered' /\ answered' \subseteq Queries
    <3>1. asker[q] \in Clients /\ Event("error", q, 0) \in Events
      BY <1>0, <1>8, EventIs DEF Placed, Place, HandleQueryFails
    <3> QED BY <1>0, <1>8, <3>1, ReceiveTypes DEF HandleQueryFails
  <2>2. rooms' \in [Clients -> SUBSET Queries] /\ phase' \in [Queries -> Phases]
    BY <1>0, <1>8 DEF StreamTypeOK, Placed, Place, HandleQueryFails, Phases
  <2> QED BY <1>0, <1>8, <2>1, <2>2 DEF StreamTypeOK, HandleQueryFails, bootVars, workVars, queueVars
<1>9. ASSUME NEW q \in Queries, TakeQuery(q) PROVE StreamTypeOK'
  BY <1>0, <1>9 DEF StreamTypeOK, TakeQuery, Goes, Phases, bootVars, socketVars, workVars, queueVars, storeVars, seenVars
<1>10. ASSUME NEW q \in Queries, PublishChunk(q) PROVE StreamTypeOK'
  <2>1. sent[q] + 1 \in 0..Chunks /\ sent' \in [Queries -> 0..Chunks]
    BY <1>0, <1>10 DEF StreamTypeOK, PublishChunk, Yields
  <2>2. inbox' \in [Backends -> Seq(Events)]
    <3>1. Event("chunk", q, sent[q] + 1) \in Events
      BY <2>1, EventIs
    <3> QED BY <1>0, <1>10, <3>1, RespondTypes DEF PublishChunk
  <2> QED BY <1>0, <1>10, <2>1, <2>2 DEF StreamTypeOK, PublishChunk, bootVars, socketVars, queryVars, storeVars, seenVars
<1>11. ASSUME NEW q \in Queries, PublishDone(q) PROVE StreamTypeOK'
  <2>1. inbox' \in [Backends -> Seq(Events)]
    <3>1. Event("done", q, 0) \in Events
      BY <1>0, EventIs
    <3> QED BY <1>0, <1>11, <3>1, RespondTypes DEF PublishDone
  <2> QED BY <1>0, <1>11, <2>1 DEF StreamTypeOK, PublishDone, Goes, Phases, bootVars, socketVars, workVars,
                                   storeVars, seenVars
<1>19. ASSUME NEW q \in Queries, Acknowledge(q) PROVE StreamTypeOK'
  <2>1. sent' \in [Queries -> 0..Chunks] /\ tries' \in [Queries -> 0..MaxRetries]
    BY <1>0, <1>19, StreamAssumption DEF StreamTypeOK, Acknowledge, Forget, StreamAssumption
  <2> QED BY <1>0, <1>19, <2>1 DEF StreamTypeOK, Acknowledge, Goes, Phases, bootVars, socketVars, queueVars,
                                   storeVars, seenVars
<1>12. ASSUME NEW q \in Queries, StreamFails(q) PROVE StreamTypeOK'
  <2>1. failures' \in 0..MaxFailures
    BY <1>0, <1>12, StreamAssumption DEF StreamFails, StreamTypeOK, StreamAssumption
  <2> QED BY <1>0, <1>12, <2>1 DEF StreamTypeOK, StreamFails, Goes, Phases, bootVars, socketVars, workVars, queueVars,
                                   storeVars, seenVars
<1>13. ASSUME NEW q \in Queries, PublishError(q) PROVE StreamTypeOK'
  <2>1. inbox' \in [Backends -> Seq(Events)]
    <3>1. Event("error", q, 0) \in Events
      BY <1>0, EventIs
    <3> QED BY <1>0, <1>13, <3>1, RespondTypes DEF PublishError
  <2> QED BY <1>0, <1>13, <2>1 DEF StreamTypeOK, PublishError, Goes, Phases, bootVars, socketVars, workVars, storeVars,
                                   seenVars
<1>14. ASSUME NEW q \in Queries, Rethrow(q) PROVE StreamTypeOK'
  <2>1. sent' \in [Queries -> 0..Chunks] /\ tries' \in [Queries -> 0..MaxRetries] /\ phase' \in [Queries -> Phases]
    <3>0. /\ sent \in [Queries -> 0..Chunks] /\ tries \in [Queries -> 0..MaxRetries]
          /\ phase \in [Queries -> Phases] /\ MaxRetries \in Nat
      BY <1>0, StreamAssumption DEF StreamTypeOK, StreamAssumption
    <3>1. CASE /\ tries[q] < MaxRetries /\ phase' = [phase EXCEPT ![q] = "queued"]
               /\ tries' = [tries EXCEPT ![q] = @ + 1] /\ sent' = [sent EXCEPT ![q] = 0]
      BY <1>0, <3>0, <3>1 DEF Phases
    <3>2. CASE /\ phase' = [phase EXCEPT ![q] = "buried"]
               /\ tries' = [tries EXCEPT ![q] = 0] /\ sent' = [sent EXCEPT ![q] = 0]
      BY <1>0, <3>0, <3>2 DEF Phases
    <3> QED BY <1>14, <3>1, <3>2 DEF Rethrow, Forget, Goes
  <2> QED BY <1>0, <1>14, <2>1 DEF StreamTypeOK, Rethrow, bootVars, socketVars, queueVars, storeVars, seenVars
<1>15. ASSUME NEW q \in Queries, CrashWorker(q) PROVE StreamTypeOK'
  <2>1. failures' \in 0..MaxFailures
    BY <1>0, <1>15, StreamAssumption DEF CrashWorker, StreamTypeOK, StreamAssumption
  <2> QED BY <1>0, <1>15, <2>1 DEF StreamTypeOK, CrashWorker, Goes, Phases, bootVars, socketVars, queueVars, storeVars,
                                   seenVars
<1>16. ASSUME NEW b \in Backends, Emit(b) PROVE StreamTypeOK'
  <2>1. Tail(inbox[b]) \in Seq(Events) /\ Head(inbox[b]) \in Events
    BY <1>0, <1>16, TailIs DEF StreamTypeOK, Emit
  <2>2. /\ shown' \in [Clients -> [Queries -> [text : Seq(0..Chunks), streaming : BOOLEAN]]]
        /\ isTyping' \in [Clients -> BOOLEAN]
        /\ completed' \subseteq answered' /\ answered' \subseteq Queries
    <3>1. Audience(b, Head(inbox[b])) \in SUBSET Clients
      BY DEF Audience
    <3> QED BY <1>0, <1>16, <2>1, <3>1, ReceiveTypes DEF Emit
  <2> QED BY <1>0, <1>16, <2>1, <2>2 DEF StreamTypeOK, Emit, bootVars, socketVars, queryVars, workVars
<1>17. ASSUME NEW b \in Backends, CrashBackend(b) PROVE StreamTypeOK'
  <2> DEFINE cs == {c \in Clients : socket[c] = b}
  <2>1. /\ socket' \in [Clients -> Backends \cup {None}] /\ rooms' \in [Clients -> SUBSET Queries]
        /\ phase' \in [Queries -> Phases] /\ steady' \subseteq steady
        /\ \A d \in Clients : socket'[d] = IF d \in cs THEN None ELSE socket[d]
    BY <1>17, LoseKeeps DEF CrashBackend
  <2>2. failures' \in 0..MaxFailures
    BY <1>0, <1>17, StreamAssumption DEF CrashBackend, StreamTypeOK, StreamAssumption
  <2>3. /\ shown' \in [Clients -> [Queries -> [text : Seq(0..Chunks), streaming : BOOLEAN]]]
        /\ isTyping' \in [Clients -> BOOLEAN]
        /\ completed' \subseteq answered' /\ answered' \subseteq Queries
    <3>1. CASE UNCHANGED <<shown, isTyping, answered, completed>>
      BY <1>0, <3>1 DEF StreamTypeOK
    <3>2. CASE inbox[b] # <<>> /\ Receive(Audience(b, Head(inbox[b])), Head(inbox[b]))
      <4>1. Audience(b, Head(inbox[b])) \in SUBSET Clients /\ Head(inbox[b]) \in Events
        BY <1>0, <3>2, TailIs DEF Audience, StreamTypeOK
      <4> QED BY <1>0, <3>2, <4>1, ReceiveTypes
    <3> QED BY <1>17, <3>1, <3>2 DEF CrashBackend
  <2>4. boot' = [boot EXCEPT ![b] = "down"] /\ redisClient' = [redisClient EXCEPT ![b] = FALSE]
        /\ UNCHANGED <<adapter, asker, session, workVars, queueVars, conversationId>>
    BY <1>17 DEF CrashBackend
  <2>5. \A c \in Clients : socket'[c] # None => boot'[socket'[c]] = "serving"
    BY <1>0, <2>1, <2>4 DEF StreamTypeOK
  <2>6. /\ boot' \in [Backends -> {"down", "created", "serving"}] /\ redisClient' \in [Backends -> BOOLEAN]
        /\ steady' \subseteq Queries
    BY <1>0, <2>1, <2>4 DEF StreamTypeOK
  <2> HIDE DEF cs
  <2> QED BY <1>0, <2>1, <2>2, <2>3, <2>4, <2>5, <2>6 DEF StreamTypeOK, workVars, queueVars
<1>18. CASE UNCHANGED vars
  BY <1>0, <1>18 DEF StreamTypeOK, vars, bootVars, socketVars, queryVars, workVars, queueVars, storeVars, seenVars
<1> QED BY <1>1, <1>2, <1>3, <1>4, <1>5, <1>6, <1>7, <1>8, <1>9, <1>10, <1>11, <1>12, <1>13, <1>14, <1>15,
           <1>16, <1>17, <1>18, <1>19 DEF Next, BackendStep, WorkStep

--------------------------------------------------------------------------------
(* Where the queries are, and what has been heard of them. *)

\* Every replica keeps the adapter it started with.
LEMMA MemoryStep ==
    ASSUME StreamInv, [Next]_vars
    PROVE  InMemory'
<1>0. InMemory /\ StreamTypeOK
  BY DEF StreamInv
<1>1. ASSUME NEW b \in Backends, CreateApp(b) PROVE InMemory'
  BY <1>0, <1>1 DEF StreamTypeOK, InMemory, CreateApp, queueVars
<1>2. ASSUME NEW b \in Backends, Listen(b) PROVE InMemory'
  BY <1>0, <1>2 DEF StreamTypeOK, InMemory, Listen
<1>3. ASSUME NEW b \in Backends, CrashBackend(b) PROVE InMemory'
  BY <1>0, <1>3 DEF StreamTypeOK, InMemory, CrashBackend, queueVars
<1>4. CASE UNCHANGED <<bootVars, responseBound>>
  BY <1>0, <1>4 DEF InMemory, bootVars
<1>5. ASSUME NEW q \in Queries, HandleQuery(q) \/ HandleQueryFails(q) \/ WorkStep(q) \/ CrashWorker(q)
      PROVE  UNCHANGED <<bootVars, responseBound>>
  BY <1>5 DEF HandleQuery, HandleQueryFails, WorkStep, TakeQuery, PublishChunk, PublishDone, Acknowledge,
              StreamFails, PublishError, Rethrow, CrashWorker, queueVars
<1>6. ASSUME NEW c \in Clients, \/ DropSocket(c) \/ StartNewConversation(c)
                                \/ \E b \in Backends : Connect(c, b)
                                \/ \E q \in Queries : SendMessage(c, q)
      PROVE  UNCHANGED <<bootVars, responseBound>>
  BY <1>6 DEF DropSocket, StartNewConversation, Connect, SendMessage, queueVars
<1>7. ASSUME NEW b \in Backends, Emit(b) PROVE UNCHANGED <<bootVars, responseBound>>
  BY <1>7 DEF Emit
<1>8. UNCHANGED vars => UNCHANGED <<bootVars, responseBound>>
  BY DEF vars, queueVars
<1> QED BY <1>1, <1>2, <1>3, <1>4, <1>5, <1>6, <1>7, <1>8 DEF Next, BackendStep

\* Nothing that they speak of changes.
LEMMA StutterKeeps ==
    ASSUME StreamInv,
           UNCHANGED <<rooms, phase, asker, session, sent, inbox, shown, steady, completed, failures>>,
           \A c \in Clients : socket[c] # None => socket'[c] = socket[c]
    PROVE  Placed' /\ Flows'
<1>1. StreamTypeOK /\ Placed /\ Flows
  BY DEF StreamInv
<1>2. \A q \in Queries : q \in steady /\ phase[q] \notin Early => socket'[asker[q]] = socket[asker[q]]
  BY <1>1 DEF Placed, Place, Early
<1>3. Placed'
  BY <1>1, <1>2 DEF Placed, Place, Early
<1>4. Flows'
  <2> SUFFICES ASSUME NEW q \in steady, phase[q] \notin Early PROVE Flow(q)'
    BY DEF Flows
  <2>1. Flow(q) /\ socket'[asker[q]] = socket[asker[q]]
    BY <1>1, <1>2 DEF Flows, StreamTypeOK
  <2> QED BY <2>1 DEF Flow
<1> QED BY <1>3, <1>4

\* A socket that is lost takes its questions out of the steady ones.
LEMMA LoseStep ==
    ASSUME StreamInv, NEW cs \in SUBSET Clients, LoseSockets(cs), failures' = failures + 1,
           UNCHANGED <<asker, session, sent, inbox>>,
           \A q \in Queries : asker[q] \notin cs \/ phase[q] \in Early =>
                                  (q \in completed' <=> q \in completed),
           \A q \in Queries, c \in Clients : c \notin cs \/ phase[q] \in Early =>
                                  shown'[c][q].text = shown[c][q].text
    PROVE  Placed' /\ Flows'
<1>0. StreamTypeOK /\ Placed /\ Flows
  BY DEF StreamInv
<1>1. /\ \A q \in Queries : phase'[q] = phase[q] \/ (phase[q] = "emitted" /\ phase'[q] = "dropped")
      /\ \A q \in steady' : /\ asker[q] \notin cs /\ asker[q] \in Clients /\ q \in Queries
                            /\ phase'[q] = phase[q] /\ socket'[asker[q]] = socket[asker[q]]
                            /\ rooms'[asker[q]] = rooms[asker[q]] /\ q \in steady
  BY LoseKeeps
<1>2. ASSUME NEW q \in Queries PROVE Place(q)'
  <2>1. Place(q) /\ (phase'[q] = phase[q] \/ (phase[q] = "emitted" /\ phase'[q] = "dropped"))
    BY <1>0, <1>1 DEF Placed
  <2>2. phase[q] \in Early =>
          (q \in completed' <=> q \in completed) /\ \A c \in Clients : shown'[c][q].text = shown[c][q].text
    OBVIOUS
  <2>3. q \in steady' => /\ q \in steady /\ socket'[asker[q]] = socket[asker[q]]
                         /\ rooms'[asker[q]] = rooms[asker[q]]
    BY <1>1
  <2> QED BY <2>1, <2>2, <2>3 DEF Place, Early
<1>3. Flows'
  <2> SUFFICES ASSUME NEW q \in steady', phase'[q] \notin Early PROVE Flow(q)'
    BY DEF Flows
  <2>1. /\ Flow(q) /\ asker[q] \in Clients \ cs /\ phase'[q] = phase[q]
        /\ socket'[asker[q]] = socket[asker[q]] /\ (q \in completed') = (q \in completed)
        /\ shown'[asker[q]][q].text = shown[asker[q]][q].text /\ q \in Queries
    BY <1>0, <1>1 DEF Flows
  <2>2. /\ inbox[socket[asker[q]]] \in Seq(Events) /\ shown[asker[q]][q].text \in Seq(0..Chunks)
        /\ failures \in Nat
    <3>1. socket[asker[q]] \in Backends
      BY <1>0, <1>1, <2>1 DEF StreamTypeOK, Placed, Place
    <3> QED BY <1>0, <2>1, <3>1, StreamAssumption DEF StreamTypeOK, StreamAssumption
  <2>3. FlowOf(q, inbox[socket[asker[q]]], shown[asker[q]][q].text, phase[q], sent[q],
               failures + 1, q \in completed)
    BY <2>1, <2>2, FlowLater DEF Flow
  <2> QED BY <2>1, <2>3 DEF Flow
<1> QED BY <1>2, <1>3 DEF Placed

\* What a step of query r does to an answer on its way of another query.
LEMMA OtherFlows ==
    ASSUME StreamInv, NEW r \in Queries, NEW q \in steady, q # r, phase[q] \notin Early,
           UNCHANGED <<socket, asker>>, phase'[q] = phase[q], sent'[q] = sent[q],
           shown'[asker[q]][q].text = shown[asker[q]][q].text,
           (q \in completed') = (q \in completed),
           failures' \in {failures, failures + 1},
           inbox' = inbox \/ \E e \in Events : e.query = r /\ Respond(e)
    PROVE  Flow(q)'
<1>0. StreamTypeOK /\ Place(q) /\ Flow(q) /\ q \in Queries
  BY DEF StreamInv, StreamTypeOK, Placed, Flows
<1> DEFINE b == socket[asker[q]]
           text == shown[asker[q]][q].text
           told == q \in completed
<1>1. /\ asker[q] \in Clients /\ b \in Backends /\ inbox[b] \in Seq(Events)
      /\ text \in Seq(0..Chunks) /\ failures \in Nat /\ told \in BOOLEAN
  BY <1>0, StreamAssumption DEF StreamTypeOK, Place, Early, StreamAssumption
<1>2. FlowOf(q, inbox[b], text, phase[q], sent[q], failures', told)
  <2>1. FlowOf(q, inbox[b], text, phase[q], sent[q], failures, told)
    BY <1>0 DEF Flow
  <2> HIDE DEF b, text, told
  <2> QED BY <1>1, <2>1, FlowLater
<1>3. FlowOf(q, inbox'[b], text, phase[q], sent[q], failures', told)
  <2>1. CASE inbox' = inbox
    BY <1>2, <2>1
  <2>2. CASE \E e \in Events : e.query = r /\ Respond(e)
    <3>1. PICK e \in Events : e.query = r /\ Respond(e)
      BY <2>2
    <3>2. inbox'[b] = inbox[b] \/ inbox'[b] = Append(inbox[b], e)
      BY <1>0, <1>1, <3>1, RespondTypes
    <3> HIDE DEF b, text, told
    <3>3. FlowOf(q, Append(inbox[b], e), text, phase[q], sent[q], failures', told)
      BY <1>1, <1>2, <3>1, FlowOther
    <3> QED BY <1>2, <3>2, <3>3
  <2> QED BY <2>1, <2>2
<1> QED BY <1>3 DEF Flow

\* A step of the worker at query r.
LEMMA WorkKeeps ==
    ASSUME StreamInv, NEW r \in Queries, phase[r] \notin Early, phase'[r] \notin Early,
           UNCHANGED <<socketVars, asker, session, shown, steady, completed>>,
           failures' \in {failures, failures + 1},
           inbox' = inbox \/ \E e \in Events : e.query = r /\ Respond(e),
           \A q \in Queries \ {r} : phase'[q] = phase[q] /\ sent'[q] = sent[q],
           phase'[r] \notin {"streaming", "ending", "failing", "rethrowing"} => sent'[r] = 0,
           r \in steady => Flow(r)'
    PROVE  Placed' /\ Flows'
<1>0. StreamTypeOK /\ Placed /\ Flows
  BY DEF StreamInv
<1>1. UNCHANGED <<socket, rooms>>
  BY DEF socketVars
<1>2. ASSUME NEW q \in Queries PROVE Place(q)'
  <2>1. Place(q)
    BY <1>0 DEF Placed
  <2>2. phase[q] \in Early => \A b \in Backends : OfQuery(inbox'[b], q) = {}
    <3> SUFFICES ASSUME phase[q] \in Early, NEW b \in Backends PROVE OfQuery(inbox'[b], q) = {}
      OBVIOUS
    <3>1. OfQuery(inbox[b], q) = {} /\ inbox[b] \in Seq(Events)
      BY <1>0, <2>1 DEF Place, StreamTypeOK
    <3>2. CASE inbox' = inbox
      BY <3>1, <3>2
    <3>3. CASE \E e \in Events : e.query = r /\ Respond(e)
      <4>1. PICK e \in Events : e.query = r /\ Respond(e)
        BY <3>3
      <4>2. OfQuery(Append(inbox[b], e), q) = {}
        BY <3>1, <4>1, OfQueryAppend
      <4> QED BY <1>0, <3>1, <4>1, <4>2, RespondTypes
    <3> QED BY <3>2, <3>3
  <2> QED BY <1>1, <2>1, <2>2 DEF Place, Early
<1>3. Flows'
  <2> SUFFICES ASSUME NEW q \in steady, phase'[q] \notin Early PROVE Flow(q)'
    BY DEF Flows
  <2>1. CASE q = r
    BY <2>1
  <2>2. CASE q # r
    <3>1. /\ phase'[q] = phase[q] /\ sent'[q] = sent[q]
          /\ shown'[asker[q]][q].text = shown[asker[q]][q].text
          /\ (q \in completed') = (q \in completed) /\ UNCHANGED <<socket, asker>>
      BY <1>0, <1>1, <2>2 DEF StreamTypeOK
    <3> QED BY <2>2, <3>1, OtherFlows
  <2> QED BY <2>1, <2>2
<1> QED BY <1>2, <1>3 DEF Placed

\* A step of the worker, a crash and a dropped socket keep what is on its way.
LEMMA WorkKeepsPlaced ==
    ASSUME StreamInv, NEW r \in Queries, WorkStep(r) \/ CrashWorker(r)
    PROVE  Placed' /\ Flows'
<1> DEFINE s == inbox[socket[asker[r]]]
           text == shown[asker[r]][r].text
           told == r \in completed
           Steady == r \in steady /\ phase[r] \notin Early
<1>0. StreamTypeOK /\ Place(r) /\ Chunks \in Nat /\ failures \in Nat /\ 0 \in 0..Chunks
  BY StreamAssumption DEF StreamInv, StreamTypeOK, Placed, StreamAssumption
<1>1. Steady =>
        /\ asker[r] \in Clients /\ socket[asker[r]] \in Backends /\ socket[asker[r]] \in responseBound
        /\ s \in Seq(Events) /\ text \in Seq(0..Chunks)
        /\ FlowOf(r, s, text, phase[r], sent[r], failures, told)
  <2> SUFFICES ASSUME Steady
               PROVE  /\ asker[r] \in Clients /\ socket[asker[r]] \in Backends
                      /\ socket[asker[r]] \in responseBound
                      /\ s \in Seq(Events) /\ text \in Seq(0..Chunks)
                      /\ FlowOf(r, s, text, phase[r], sent[r], failures, told)
    OBVIOUS
  <2>1. asker[r] \in Clients /\ socket[asker[r]] \in Backends /\ socket[asker[r]] # None
    BY <1>0 DEF Place, Early, StreamTypeOK
  <2>2. socket[asker[r]] \in responseBound
    BY <1>0, <2>1 DEF StreamTypeOK, StreamInv, InMemory
  <2>3. Flow(r)
    BY DEF StreamInv, Flows
  <2> QED BY <1>0, <2>1, <2>2, <2>3 DEF Flow, StreamTypeOK
<1>2. /\ phase \in [Queries -> Phases] /\ sent \in [Queries -> 0..Chunks]
      /\ r \in Queries /\ tries \in [Queries -> 0..MaxRetries]
  BY <1>0 DEF StreamTypeOK
<1> DEFINE Keeps == UNCHANGED <<socketVars, asker, session, shown, steady, completed>>
<1>3. Steady /\ Keeps /\ FlowOf(r, inbox'[socket[asker[r]]], text, phase'[r], sent'[r], failures', told)
         => Flow(r)'
  BY DEF Flow, socketVars
<1>k. Keeps => UNCHANGED <<socketVars, asker, session, shown, steady, completed>>
  OBVIOUS
<1>h. /\ Early = {"new", "emitted", "dropped"}
      /\ \A p, n : ToBegin(p, n) = IF p \in {"queued", "failing", "rethrowing"} \/ (p = "streaming" /\ n = 0)
                                   THEN 1 ELSE 0
  BY DEF Early, ToBegin
<1> HIDE DEF s, text, told, Keeps
<1>4. ASSUME TakeQuery(r) PROVE Placed' /\ Flows'
  <2>1. /\ phase[r] = "queued" /\ phase' = [phase EXCEPT ![r] = "streaming"] /\ sent' = sent
        /\ Keeps /\ inbox' = inbox /\ failures' = failures
    BY <1>4 DEF TakeQuery, Goes, Keeps, workVars, queueVars, storeVars, seenVars
  <2>2. sent[r] = 0
    BY <1>0, <2>1 DEF Place
  <2>3. Steady => Flow(r)'
    <3>1. ToBegin("streaming", 0) + failures <= ToBegin(phase[r], sent[r]) + failures
      BY <1>0, <1>h, <2>1
    <3>2. Steady => FlowOf(r, s, text, "streaming", 0, failures, told)
      BY <1>0, <1>1, <2>1, <2>2, <3>1, FlowPhase
    <3> QED BY <1>2, <1>3, <2>1, <2>2, <3>2 DEF s
  <2> QED BY <1>2, <1>k, <1>h, <2>1, <2>3, WorkKeeps
<1>5. ASSUME PublishChunk(r) PROVE Placed' /\ Flows'
  <2> DEFINE e == Event("chunk", r, sent[r] + 1)
  <2>1. /\ phase[r] = "streaming" /\ phase' = phase /\ sent' = [sent EXCEPT ![r] = @ + 1] /\ sent[r] < Chunks
        /\ Keeps /\ Respond(e) /\ failures' = failures
    BY <1>5 DEF PublishChunk, Yields, Keeps, queryVars, storeVars, seenVars
  <2>2. e \in Events /\ e.kind = "chunk" /\ e.query = r /\ e.chunk = sent[r] + 1 /\ sent[r] \in Nat
    BY <1>0, <1>2, <2>1, EventIs
  <2> HIDE DEF e
  <2>3. Steady => Flow(r)'
    <3>1. Steady => FlowOf(r, Append(s, e), text, "streaming", sent[r] + 1, failures, told)
      BY <1>0, <1>1, <2>1, <2>2, FlowChunk
    <3>2. Steady => inbox'[socket[asker[r]]] = Append(s, e)
      BY <1>0, <1>1, <2>1, <2>2, RespondTypes DEF s
    <3> QED BY <1>2, <1>3, <2>1, <3>1, <3>2
  <2>4. \A q \in Queries \ {r} : phase'[q] = phase[q] /\ sent'[q] = sent[q]
    BY <1>2, <2>1
  <2> QED BY <1>2, <1>k, <1>h, <2>1, <2>2, <2>3, <2>4, WorkKeeps
<1>6. ASSUME PublishDone(r) PROVE Placed' /\ Flows'
  <2> DEFINE e == Event("done", r, 0)
  <2>1. /\ phase[r] = "streaming" /\ phase' = [phase EXCEPT ![r] = "ending"]
        /\ sent' = sent /\ ~(sent[r] < Chunks)
        /\ Keeps /\ Respond(e) /\ failures' = failures
    BY <1>6 DEF PublishDone, Goes, Yields, Keeps, workVars, storeVars, seenVars
  <2>2. e \in Events /\ e.kind = "done" /\ e.query = r /\ sent[r] = Chunks
    <3>1. sent[r] \in 0..Chunks /\ sent[r] = Chunks
      BY <1>0, <1>2, <2>1
    <3> QED BY <1>0, <3>1, EventIs
  <2> HIDE DEF e
  <2>3. Steady => Flow(r)'
    <3>1. Steady => FlowOf(r, Append(s, e), text, "ending", Chunks, failures, told)
      BY <1>0, <1>1, <2>1, <2>2, FlowDone
    <3>2. Steady => inbox'[socket[asker[r]]] = Append(s, e)
      BY <1>0, <1>1, <2>1, <2>2, RespondTypes DEF s
    <3> QED BY <1>2, <1>3, <2>1, <2>2, <3>1, <3>2
  <2>4. \A q \in Queries \ {r} : phase'[q] = phase[q] /\ sent'[q] = sent[q]
    BY <1>2, <2>1
  <2> QED BY <1>2, <1>k, <1>h, <2>1, <2>2, <2>3, <2>4, WorkKeeps
<1>11. ASSUME Acknowledge(r) PROVE Placed' /\ Flows'
  <2>1. /\ phase[r] = "ending" /\ phase' = [phase EXCEPT ![r] = "settled"]
        /\ sent' = [sent EXCEPT ![r] = 0]
        /\ Keeps /\ inbox' = inbox /\ failures' = failures
    BY <1>11 DEF Acknowledge, Goes, Forget, Keeps, queueVars, storeVars, seenVars
  <2>2. phase'[r] = "settled" /\ sent'[r] = 0
        /\ \A q \in Queries \ {r} : phase'[q] = phase[q] /\ sent'[q] = sent[q]
    BY <1>2, <2>1
  <2>3. Steady => Flow(r)'
    <3>1. ToBegin("settled", 0) + failures <= ToBegin(phase[r], sent[r]) + failures
      BY <1>0, <1>h, <2>1
    <3>2. Steady => FlowOf(r, s, text, "settled", 0, failures, told)
      BY <1>0, <1>1, <2>1, <3>1, FlowPhase
    <3> QED BY <1>2, <1>3, <2>1, <2>2, <3>2 DEF s
  <2> QED BY <1>2, <1>k, <1>h, <2>1, <2>2, <2>3, WorkKeeps
<1>7. ASSUME StreamFails(r) PROVE Placed' /\ Flows'
  <2>1. /\ phase[r] \in {"streaming", "ending"} /\ phase' = [phase EXCEPT ![r] = "failing"]
        /\ sent' = sent /\ Keeps /\ inbox' = inbox /\ failures' = failures + 1
    BY <1>7 DEF StreamFails, Goes, Keeps, workVars, queueVars, storeVars, seenVars
  <2>3. Steady => Flow(r)'
    <3>1. ToBegin("failing", sent[r]) + failures <= ToBegin(phase[r], sent[r]) + (failures + 1)
      BY <1>0, <1>h, <2>1
    <3>2. Steady => FlowOf(r, s, text, "failing", sent[r], failures + 1, told)
      BY <1>0, <1>1, <2>1, <3>1, FlowPhase
    <3> QED BY <1>2, <1>3, <2>1, <3>2 DEF s
  <2> QED BY <1>2, <1>k, <1>h, <2>1, <2>3, WorkKeeps
<1>8. ASSUME PublishError(r) PROVE Placed' /\ Flows'
  <2> DEFINE e == Event("error", r, 0)
  <2>1. /\ phase[r] = "failing" /\ phase' = [phase EXCEPT ![r] = "rethrowing"] /\ sent' = sent
        /\ Keeps /\ Respond(e) /\ failures' = failures
    BY <1>8 DEF PublishError, Goes, Keeps, workVars, storeVars, seenVars
  <2>2. e \in Events /\ e.kind = "error" /\ e.query = r
    BY <1>0, EventIs
  <2> HIDE DEF e
  <2>3. Steady => Flow(r)'
    <3>1. Steady => FlowOf(r, Append(s, e), text, "rethrowing", sent[r], failures, told)
      BY <1>0, <1>1, <2>1, <2>2, FlowError
    <3>2. Steady => inbox'[socket[asker[r]]] = Append(s, e)
      BY <1>0, <1>1, <2>1, <2>2, RespondTypes DEF s
    <3> QED BY <1>2, <1>3, <2>1, <3>1, <3>2
  <2>4. \A q \in Queries \ {r} : phase'[q] = phase[q] /\ sent'[q] = sent[q]
    BY <1>2, <2>1
  <2> QED BY <1>2, <1>k, <1>h, <2>1, <2>2, <2>3, <2>4, WorkKeeps
<1>9. ASSUME Rethrow(r) PROVE Placed' /\ Flows'
  <2>1. /\ phase[r] = "rethrowing" /\ Keeps /\ inbox' = inbox /\ failures' = failures
        /\ sent' = [sent EXCEPT ![r] = 0]
        /\ phase' = [phase EXCEPT ![r] = "queued"] \/ phase' = [phase EXCEPT ![r] = "buried"]
    BY <1>9 DEF Rethrow, Goes, Forget, Keeps, queueVars, storeVars, seenVars
  <2>2. phase'[r] \in {"queued", "buried"} /\ sent'[r] = 0
        /\ \A q \in Queries \ {r} : phase'[q] = phase[q] /\ sent'[q] = sent[q]
    BY <1>2, <2>1
  <2>3. Steady => Flow(r)'
    <3>1. Steady => FlowOf(r, s, text, phase'[r], 0, failures, told)
      BY <1>0, <1>1, <1>h, <2>1, <2>2, FlowPhase
    <3> QED BY <1>2, <1>3, <2>1, <2>2, <3>1 DEF s
  <2> QED BY <1>2, <1>k, <1>h, <2>1, <2>2, <2>3, WorkKeeps
<1>10. ASSUME CrashWorker(r) PROVE Placed' /\ Flows'
  <2>1. /\ phase[r] \in {"streaming", "ending", "failing", "rethrowing"} /\ Keeps /\ inbox' = inbox
        /\ failures' = failures + 1 /\ sent' = [sent EXCEPT ![r] = 0]
        /\ phase' = [phase EXCEPT ![r] = "queued"]
    BY <1>10 DEF CrashWorker, Goes, Keeps, queueVars, storeVars, seenVars
  <2>2. phase'[r] = "queued" /\ sent'[r] = 0
        /\ \A q \in Queries \ {r} : phase'[q] = phase[q] /\ sent'[q] = sent[q]
    BY <1>2, <2>1
  <2>3. Steady => Flow(r)'
    <3>1. ToBegin("queued", 0) + failures <= ToBegin(phase[r], sent[r]) + (failures + 1)
      BY <1>0, <1>h
    <3>2. Steady => FlowOf(r, s, text, "queued", 0, failures + 1, told)
      BY <1>0, <1>1, <2>1, <3>1, FlowPhase
    <3> QED BY <1>2, <1>3, <2>1, <2>2, <3>2 DEF s
  <2> QED BY <1>2, <1>k, <1>h, <2>1, <2>2, <2>3, WorkKeeps
<1> QED BY <1>4, <1>5, <1>6, <1>7, <1>8, <1>9, <1>10, <1>11 DEF WorkStep

\* A replica tells its clients of the first event of its queue.
LEMMA EmitKeepsPlaced ==
    ASSUME StreamInv, NEW b \in Backends, Emit(b)
    PROVE  Placed' /\ Flows'
<1> DEFINE e == Head(inbox[b])
           cs == Audience(b, e)
<1>0. StreamTypeOK /\ Placed /\ Flows
  BY DEF StreamInv
<1>a. /\ inbox[b] # <<>> /\ inbox' = [inbox EXCEPT ![b] = Tail(@)]
      /\ UNCHANGED <<socketVars, queryVars, sent, steady, failures>> /\ Receive(cs, e)
  BY DEF Emit, workVars
<1>b. inbox[b] \in Seq(Events) /\ inbox \in [Backends -> Seq(Events)]
  BY <1>0 DEF StreamTypeOK
<1>c. e \in Events
  BY <1>a, <1>b, TailIs
<1>d. e.query \in Queries
  BY <1>c DEF Events
<1>1. /\ inbox[b] \in Seq(Events) /\ inbox[b] # <<>> /\ e \in Events /\ e.query \in Queries
      /\ inbox' = [inbox EXCEPT ![b] = Tail(@)] /\ inbox \in [Backends -> Seq(Events)]
      /\ UNCHANGED <<socketVars, queryVars, sent, steady, failures>> /\ Receive(cs, e)
  BY <1>a, <1>b, <1>c, <1>d
<1>2. /\ cs = {c \in Clients : session[e.query] \in rooms[c] /\ socket[c] = b}
      /\ cs \in SUBSET Clients
  BY AudienceIs
<1> HIDE DEF cs, e
<1>3. \A q \in Queries :
         /\ \A c \in Clients :
               shown'[c][q].text = IF c \in cs THEN TextAfter(shown[c][q].text, e, q)
                                   ELSE shown[c][q].text
         /\ q \in completed' <=> IF asker[q] \in cs THEN ToldAfter(q \in completed, e, q)
                                 ELSE q \in completed
  <2>1. StreamTypeOK /\ cs \in SUBSET Clients /\ e \in Events /\ Receive(cs, e)
    BY <1>0, <1>1, <1>2
  <2> QED BY <2>1, ReceiveTexts
<1>u. UNCHANGED <<socket, rooms, phase, asker, session, sent, steady, failures>>
  BY <1>1 DEF socketVars, queryVars
<1> USE DEF e
<1>4. \A q \in Queries, d \in Backends : OfQuery(inbox[d], q) = {} => OfQuery(inbox'[d], q) = {}
  <2> SUFFICES ASSUME NEW q \in Queries, OfQuery(inbox[b], q) = {} PROVE OfQuery(Tail(inbox[b]), q) = {}
    BY <1>1
  <2> QED BY <1>1, OfQueryTail
<1>5. ASSUME NEW q \in Queries PROVE Place(q)'
  <2>1. Place(q)
    BY <1>0 DEF Placed
  <2>2. phase[q] \in Early =>
          /\ q \notin completed' /\ \A c \in Clients : shown'[c][q].text = shown[c][q].text
          /\ \A d \in Backends : OfQuery(inbox'[d], q) = {}
    <3> SUFFICES ASSUME phase[q] \in Early
                 PROVE  /\ q \notin completed' /\ \A c \in Clients : shown'[c][q].text = shown[c][q].text
                        /\ \A d \in Backends : OfQuery(inbox'[d], q) = {}
      OBVIOUS
    <3>1. q \notin completed /\ \A d \in Backends : OfQuery(inbox[d], q) = {}
      BY <2>1 DEF Place
    <3>2. e.query # q
      BY <1>1, <3>1, OfQueryTail
    <3> QED BY <1>3, <1>4, <3>1, <3>2 DEF TextAfter, ToldAfter
  <2> QED BY <1>u, <2>1, <2>2 DEF Place, Early
<1>6. Flows'
  <2> SUFFICES ASSUME NEW q \in steady, phase[q] \notin Early PROVE Flow(q)'
    BY <1>u DEF Flows
  <2> DEFINE d == socket[asker[q]]
             text == shown[asker[q]][q].text
             told == q \in completed
  <2>1. /\ q \in Queries /\ asker[q] \in Clients /\ d \in Backends /\ session[q] \in rooms[asker[q]]
        /\ inbox[d] \in Seq(Events) /\ text \in Seq(0..Chunks) /\ failures \in Nat /\ told \in BOOLEAN
        /\ FlowOf(q, inbox[d], text, phase[q], sent[q], failures, told)
    BY <1>0, StreamAssumption DEF StreamTypeOK, Placed, Place, Early, Flows, Flow, StreamAssumption
  <2>2. CASE d # b
    <3>1. inbox'[d] = inbox[d] /\ asker[q] \notin cs
      BY <1>1, <1>2, <2>1, <2>2
    <3>2. shown'[asker[q]][q].text = text /\ (q \in completed') = told
      BY <1>3, <2>1, <3>1
    <3> QED BY <1>u, <2>1, <3>1, <3>2 DEF Flow
  <2>3. CASE d = b
    <3>1. inbox'[d] = Tail(inbox[b]) /\ (e.query = q => asker[q] \in cs)
      BY <1>1, <1>2, <2>1, <2>3
    <3>2. /\ shown'[asker[q]][q].text = TextAfter(text, e, q)
          /\ (q \in completed') = ToldAfter(told, e, q)
      BY <1>3, <2>1, <3>1 DEF TextAfter, ToldAfter
    <3> HIDE DEF d, text, told
    <3>3. FlowOf(q, inbox[b], text, phase[q], sent[q], failures, told)
      BY <2>1, <2>3
    <3>4. FlowOf(q, Tail(inbox[b]), TextAfter(text, e, q), phase[q], sent[q], failures,
                 ToldAfter(told, e, q))
      BY <1>1, <2>1, <3>3, FlowEmit
    <3> QED BY <1>u, <3>1, <3>2, <3>4 DEF Flow, d
  <2> QED BY <2>2, <2>3
<1> QED BY <1>5, <1>6 DEF Placed

LEMMA CrashKeepsPlaced ==
    ASSUME StreamInv, NEW b \in Backends, CrashBackend(b)
    PROVE  Placed' /\ Flows'
<1> DEFINE e == Head(inbox[b])
           cs == {c \in Clients : socket[c] = b}
<1>0. StreamTypeOK /\ Placed
  BY DEF StreamInv
<1>1. /\ LoseSockets(cs) /\ failures' = failures + 1 /\ UNCHANGED <<asker, session, sent, inbox>>
      /\ cs \in SUBSET Clients
  BY DEF CrashBackend, workVars, queueVars
<1>2. /\ \A q \in Queries : asker[q] \notin cs \/ phase[q] \in Early => (q \in completed' <=> q \in completed)
      /\ \A q \in Queries, c \in Clients : c \notin cs \/ phase[q] \in Early =>
                                               shown'[c][q].text = shown[c][q].text
  <2>1. CASE UNCHANGED <<shown, isTyping, answered, completed>>
    BY <2>1
  <2>2. CASE inbox[b] # <<>> /\ Receive(Audience(b, e), e)
    <3>1. /\ Audience(b, e) \in SUBSET cs /\ Audience(b, e) \in SUBSET Clients
          /\ inbox[b] \in Seq(Events) /\ e \in Events
      BY <1>0, <2>2, AudienceIs, TailIs DEF StreamTypeOK
    <3>2. \A q \in Queries : phase[q] \in Early => e.query # q
      BY <1>0, <2>2, <3>1, OfQueryTail DEF Placed, Place
    <3>3. \A q \in Queries :
             /\ \A c \in Clients :
                   shown'[c][q].text = IF c \in Audience(b, e) THEN TextAfter(shown[c][q].text, e, q)
                                       ELSE shown[c][q].text
             /\ q \in completed' <=> IF asker[q] \in Audience(b, e)
                                     THEN ToldAfter(q \in completed, e, q) ELSE q \in completed
      BY <1>0, <2>2, <3>1, ReceiveTexts
    <3> HIDE DEF e, cs
    <3>4. \A q \in Queries, c \in Clients : phase[q] \in Early =>
             /\ TextAfter(shown[c][q].text, e, q) = shown[c][q].text
             /\ ToldAfter(q \in completed, e, q) <=> q \in completed
      BY <3>2 DEF TextAfter, ToldAfter
    <3> QED BY <3>1, <3>2, <3>3, <3>4
  <2> QED BY <2>1, <2>2 DEF CrashBackend
<1> HIDE DEF cs
<1> QED BY <1>1, <1>2, LoseStep

LEMMA DropKeepsPlaced ==
    ASSUME StreamInv, NEW c \in Clients, DropSocket(c)
    PROVE  Placed' /\ Flows'
<1>1. /\ LoseSockets({c}) /\ failures' = failures + 1
      /\ UNCHANGED <<asker, session, sent, inbox, shown, completed>>
  BY DEF DropSocket, workVars, queueVars, storeVars
<1> QED BY <1>1, LoseStep

\* The store starts on a new question or a new conversation.
LEMMA StoreKeepsPlaced ==
    ASSUME StreamInv, NEW c \in Clients,
           StartNewConversation(c) \/ \E q \in Queries : SendMessage(c, q)
    PROVE  Placed' /\ Flows'
<1>0. StreamTypeOK /\ Placed /\ Flows
  BY DEF StreamInv
<1>1. ASSUME StartNewConversation(c) PROVE Placed' /\ Flows'
  <2>1. /\ UNCHANGED <<socket, rooms, phase, asker, session, sent, inbox, completed, failures>>
        /\ shown' = [shown EXCEPT ![c] = [q \in Queries |-> Nothing]]
        /\ steady' = {q \in steady : asker[q] # c}
    BY <1>1 DEF StartNewConversation, socketVars, queryVars, workVars, queueVars
  <2>2. \A q \in Queries, d \in Clients :
           shown'[d][q].text = IF d = c THEN <<>> ELSE shown[d][q].text
    BY <1>0, <2>1 DEF StreamTypeOK, Nothing
  <2>3. ASSUME NEW q \in Queries PROVE Place(q)'
    <3>1. Place(q)
      BY <1>0 DEF Placed
    <3> QED BY <2>1, <2>2, <3>1 DEF Place
  <2>4. Flows'
    <3> SUFFICES ASSUME NEW q \in steady', phase'[q] \notin Early PROVE Flow(q)'
      BY DEF Flows
    <3>1. /\ q \in Queries /\ asker[q] \in Clients /\ Flow(q) /\ asker[q] # c
      BY <1>0, <2>1 DEF StreamTypeOK, Placed, Place, Early, Flows
    <3>2. shown'[asker[q]][q].text = shown[asker[q]][q].text
      BY <2>2, <3>1
    <3> QED BY <2>1, <3>1, <3>2 DEF Flow
  <2> QED BY <2>3, <2>4 DEF Placed
<1>2. ASSUME NEW r \in Queries, SendMessage(c, r) PROVE Placed' /\ Flows'
  <2>1. /\ UNCHANGED <<socket, rooms, sent, inbox, shown, completed, failures>>
        /\ phase[r] = "new" /\ phase' = [phase EXCEPT ![r] = "emitted"]
        /\ asker' = [asker EXCEPT ![r] = c] /\ steady' = steady \cup {r}
        /\ session' = [session EXCEPT ![r] = IF conversationId[c] = None THEN r ELSE conversationId[c]]
    BY <1>2 DEF SendMessage, socketVars, workVars, queueVars
  <2>2. ASSUME NEW q \in Queries PROVE Place(q)'
    <3>1. Place(q)
      BY <1>0 DEF Placed
    <3>2. CASE q = r
      <4>1. phase'[r] = "emitted" /\ asker'[r] = c /\ session'[r] \in Queries
        BY <1>0, <2>1 DEF StreamTypeOK
      <4> QED BY <2>1, <3>1, <3>2, <4>1 DEF Place, Early
    <3>3. CASE q # r
      <4>1. phase'[q] = phase[q] /\ asker'[q] = asker[q] /\ session'[q] = session[q]
            /\ (q \in steady' <=> q \in steady)
        BY <1>0, <2>1, <3>3 DEF StreamTypeOK
      <4> QED BY <2>1, <3>1, <4>1 DEF Place, Early
    <3> QED BY <3>2, <3>3
  <2>3. Flows'
    <3> SUFFICES ASSUME NEW q \in steady', phase'[q] \notin Early PROVE Flow(q)'
      BY DEF Flows
    <3>1. q # r /\ q \in steady /\ phase'[q] = phase[q] /\ asker'[q] = asker[q]
      BY <1>0, <2>1 DEF StreamTypeOK, Early
    <3> QED BY <1>0, <2>1, <3>1 DEF Flows, Flow
  <2> QED BY <2>2, <2>3 DEF Placed
<1> QED BY <1>1, <1>2

\* The gateway takes a question, or refuses it.
LEMMA HandleKeepsPlaced ==
    ASSUME StreamInv, NEW r \in Queries, HandleQuery(r) \/ HandleQueryFails(r)
    PROVE  Placed' /\ Flows'
<1>0. StreamTypeOK /\ Placed /\ Flows /\ Place(r) /\ failures \in Nat
  BY StreamAssumption DEF StreamInv, StreamTypeOK, Placed, StreamAssumption
<1> DEFINE c == asker[r]
<1>1. /\ phase[r] = "emitted" /\ socket[c] # None /\ c \in Clients
      /\ rooms' = [rooms EXCEPT ![c] = @ \cup {session[r]}]
      /\ \/ phase' = [phase EXCEPT ![r] = "queued"] /\ UNCHANGED <<shown, completed>>
         \/ phase' = [phase EXCEPT ![r] = "dropped"] /\ Receive({c}, Event("error", r, 0))
      /\ UNCHANGED <<socket, asker, session, sent, inbox, steady, failures>>
  BY <1>0 DEF HandleQuery, HandleQueryFails, Place, workVars, queueVars, storeVars, seenVars
<1>2. \A q \in Queries, d \in Clients :
         shown'[d][q].text = IF q = r /\ phase'[r] = "dropped" /\ d = c THEN <<Failure>>
                             ELSE shown[d][q].text
  <2>1. CASE phase' = [phase EXCEPT ![r] = "queued"] /\ UNCHANGED <<shown, completed>>
    BY <1>0, <2>1 DEF StreamTypeOK
  <2>2. CASE phase' = [phase EXCEPT ![r] = "dropped"] /\ Receive({c}, Event("error", r, 0))
    <3> DEFINE e == Event("error", r, 0)
    <3>1. e \in Events /\ e.kind = "error" /\ e.query = r /\ phase'[r] = "dropped"
      <4>1. 0 \in 0..Chunks
        BY StreamAssumption DEF StreamAssumption
      <4> QED BY <1>0, <2>2, <4>1, EventIs DEF StreamTypeOK
    <3> HIDE DEF e
    <3>2. \A q \in Queries, d \in Clients :
             shown'[d][q].text = IF d \in {c} THEN TextAfter(shown[d][q].text, e, q) ELSE shown[d][q].text
      <4>1. {c} \in SUBSET Clients /\ Receive({c}, e)
        BY <1>1, <2>2 DEF e
      <4> QED BY <1>0, <3>1, <4>1, ReceiveTexts
    <3> QED BY <3>1, <3>2 DEF TextAfter
  <2> QED BY <1>1, <2>1, <2>2
<1>3. \A q \in Queries : q \in completed' <=> q \in completed
  <2>1. r \notin completed
    BY <1>0, <1>1 DEF Place, Early
  <2>2. CASE Receive({c}, Event("error", r, 0))
    BY <2>1, <2>2 DEF Receive, Event
  <2> QED BY <1>1, <2>2
<1>4. \A q \in Queries \ {r} : phase'[q] = phase[q]
  BY <1>0, <1>1 DEF StreamTypeOK
<1>5. phase'[r] \in {"queued", "dropped"}
  BY <1>0, <1>1 DEF StreamTypeOK
<1>6. \A d \in Clients : rooms[d] \subseteq rooms'[d]
  BY <1>0, <1>1 DEF StreamTypeOK
<1>7. session[r] \in rooms'[c]
  BY <1>0, <1>1 DEF StreamTypeOK
<1>8. ASSUME NEW q \in Queries PROVE Place(q)'
  <2>1. Place(q)
    BY <1>0 DEF Placed
  <2>2. CASE q = r
    BY <1>1, <1>2, <1>3, <1>5, <1>7, <2>1, <2>2 DEF Place, Early
  <2>3. CASE q # r
    <3>1. \A d \in Clients : shown'[d][q].text = shown[d][q].text
      BY <1>2, <2>3
    <3>2. phase'[q] = phase[q]
      BY <1>4, <2>3
    <3> QED BY <1>1, <1>3, <1>6, <2>1, <3>1, <3>2 DEF Place, Early
  <2> QED BY <2>2, <2>3
<1>9. Flows'
  <2> SUFFICES ASSUME NEW q \in steady', phase'[q] \notin Early PROVE Flow(q)'
    BY DEF Flows
  <2>0. q \in Queries /\ q \in steady
    BY <1>0, <1>1 DEF StreamTypeOK
  <2>1. CASE q = r
    <3>1. /\ phase'[r] = "queued" /\ shown'[c][r].text = <<>> /\ sent'[r] = 0 /\ (r \in completed') = FALSE
          /\ \A d \in Backends : OfQuery(inbox[d], r) = {}
      BY <1>0, <1>1, <1>2, <1>3, <1>5, <2>1 DEF Place, Early
    <3>2. socket[c] \in Backends /\ inbox[socket[c]] \in Seq(Events)
      BY <1>0, <1>1 DEF StreamTypeOK
    <3>3. FlowOf(r, inbox[socket[c]], <<>>, "queued", 0, failures, FALSE)
      BY <1>0, <3>1, <3>2, FlowStarts
    <3> QED BY <1>1, <2>1, <3>1, <3>3 DEF Flow
  <2>2. CASE q # r
    <3>1. /\ phase'[q] = phase[q] /\ asker[q] \in Clients /\ Flow(q)
          /\ (q \in completed') = (q \in completed)
      BY <1>0, <1>3, <1>4, <2>0, <2>2 DEF Placed, Place, Early, Flows
    <3>2. shown'[asker[q]][q].text = shown[asker[q]][q].text
      BY <1>2, <2>0, <2>2, <3>1
    <3> QED BY <1>1, <3>1, <3>2 DEF Flow
  <2> QED BY <2>1, <2>2
<1> QED BY <1>8, <1>9 DEF Placed

--------------------------------------------------------------------------------
(* The theorems. *)

\* At first nothing has been asked.
LEMMA StreamInit ==
    Init => StreamInv
<1> SUFFICES ASSUME Init PROVE StreamInv
  OBVIOUS
<1>0. Chunks \in Nat /\ MaxRetries \in Nat /\ MaxFailures \in Nat
  BY StreamAssumption DEF StreamAssumption
<1>1. StreamTypeOK
  <2>1. Nothing \in [text : Seq(0..Chunks), streaming : BOOLEAN]
    BY <1>0 DEF Nothing
  <2> QED BY <1>0, <2>1 DEF Init, StreamTypeOK, Phases
<1>2. InMemory
  BY DEF Init, InMemory
<1>3. Placed
  BY DEF Init, Placed, Place, Early, OfQuery, Nothing
<1>4. Flows
  BY DEF Init, Flows
<1> QED BY <1>1, <1>2, <1>3, <1>4 DEF StreamInv

\* Every step keeps every answer on its way.
LEMMA StreamStep ==
    StreamInv /\ [Next]_vars => StreamInv'
<1> SUFFICES ASSUME StreamInv, [Next]_vars PROVE StreamInv'
  OBVIOUS
<1>1. StreamTypeOK' /\ InMemory'
  BY TypeStep, MemoryStep
<1>2. ASSUME NEW b \in Backends, BackendStep(b) \/ CrashBackend(b) PROVE Placed' /\ Flows'
  <2>1. ASSUME CreateApp(b) PROVE Placed' /\ Flows'
    <3>1. UNCHANGED <<rooms, phase, asker, session, sent, inbox, shown, steady, completed, failures, socket>>
      BY <2>1 DEF CreateApp, socketVars, queryVars, workVars, queueVars, storeVars, seenVars
    <3> QED BY <3>1, StutterKeeps
  <2>2. ASSUME Listen(b) PROVE Placed' /\ Flows'
    <3>1. UNCHANGED <<rooms, phase, asker, session, sent, inbox, shown, steady, completed, failures, socket>>
      BY <2>2 DEF Listen, socketVars, queryVars, workVars, storeVars, seenVars
    <3> QED BY <3>1, StutterKeeps
  <2> QED BY <1>2, <2>1, <2>2, EmitKeepsPlaced, CrashKeepsPlaced DEF BackendStep
<1>3. ASSUME NEW c \in Clients, NEW b \in Backends, Connect(c, b) PROVE Placed' /\ Flows'
  <2>1. /\ UNCHANGED <<rooms, phase, asker, session, sent, inbox, shown, steady, completed, failures>>
        /\ socket[c] = None /\ socket' = [socket EXCEPT ![c] = b]
    BY <1>3 DEF Connect, queryVars, workVars, queueVars, storeVars, seenVars
  <2>2. \A d \in Clients : socket[d] # None => socket'[d] = socket[d]
    BY <2>1 DEF StreamInv, StreamTypeOK
  <2> QED BY <2>1, <2>2, StutterKeeps
<1>4. ASSUME UNCHANGED vars PROVE Placed' /\ Flows'
  <2>1. UNCHANGED <<rooms, phase, asker, session, sent, inbox, shown, steady, completed, failures, socket>>
    BY <1>4 DEF vars, socketVars, queryVars, workVars, queueVars, storeVars, seenVars
  <2> QED BY <2>1, StutterKeeps
<1>5. Placed' /\ Flows'
  BY <1>2, <1>3, <1>4, DropKeepsPlaced, StoreKeepsPlaced, HandleKeepsPlaced, WorkKeepsPlaced DEF Next
<1> QED BY <1>1, <1>5 DEF StreamInv

\* The variables of the pipeline keep their types, whatever fails.
THEOREM StreamTypeCorrect ==
    Spec => []StreamTypeOK
<1>1. Init => StreamInv
  BY StreamInit
<1>2. StreamInv /\ [Next]_vars => StreamInv'
  BY StreamStep
<1>3. StreamInv => StreamTypeOK
  BY DEF StreamInv
<1> QED BY <1>1, <1>2, <1>3, PTL DEF Spec

\* Every replica is told of every chunk and still each client renders it once
\* (assistant-response.consumer.ts, assistant.store.ts): a text steps back no
\* more often than a worker failed.
THEOREM RenderedOnceHolds ==
    Spec => []RenderedOnce
<1>1. ASSUME StreamInv PROVE RenderedOnce
  <2> SUFFICES ASSUME NEW q \in steady PROVE Descents(shown[asker[q]][q].text) <= failures
    BY DEF RenderedOnce
  <2>0. /\ StreamTypeOK /\ Place(q) /\ asker[q] \in Clients /\ failures \in Nat /\ phase[q] # "new"
        /\ shown[asker[q]][q].text \in Seq(0..Chunks)
    BY <1>1, StreamAssumption DEF StreamInv, StreamTypeOK, Placed, Place, StreamAssumption
  <2>1. CASE phase[q] \in Early
    <3>1. shown[asker[q]][q].text \in {<<>>, <<Failure>>}
      BY <2>0, <2>1 DEF Place, Early
    <3>2. Descents(<<>>) = Cardinality({}) /\ Descents(<<Failure>>) = Cardinality({})
      <4>1. /\ {i \in 1..(Len(<<>>) - 1) : <<>>[i + 1] <= <<>>[i]} = {}
            /\ {i \in 1..(Len(<<Failure>>) - 1) : <<Failure>>[i + 1] <= <<Failure>>[i]} = {}
        OBVIOUS
      <4> QED BY <4>1 DEF Descents
    <3> QED BY <2>0, <3>1, <3>2, FS_EmptySet
  <2>2. CASE phase[q] \notin Early
    <3> DEFINE text == shown[asker[q]][q].text
               s == inbox[socket[asker[q]]]
    <3>1. s \in Seq(Events) /\ text \in Seq(0..Chunks)
      BY <2>0, <2>2 DEF StreamTypeOK, Place
    <3>2. /\ Rises(text)
          /\ Cardinality(BeginningsIn(text)) + Cardinality(BeginningsTo(s, q))
                 + ToBegin(phase[q], sent[q]) <= failures + 1
      BY <1>1, <2>2 DEF StreamInv, Flows, Flow, FlowOf
    <3>3. /\ Cardinality(BeginningsIn(text)) \in Nat /\ Cardinality(BeginningsTo(s, q)) \in Nat
          /\ ToBegin(phase[q], sent[q]) \in Nat
      BY <3>1, CountsFinite DEF ToBegin
    <3> HIDE DEF text, s
    <3>4. Cardinality(BeginningsIn(text)) <= failures + 1
      BY <2>0, <3>2, <3>3
    <3>5. Descents(text) <= failures
      BY <2>0, <3>1, <3>2, <3>4, FewDescents
    <3> QED BY <3>5 DEF text
  <2> QED BY <2>1, <2>2
<1> QED BY <1>1, StreamInit, StreamStep, PTL DEF Spec

\* Whoever is told that its answer is complete, its socket having lived since
\* the question, has been shown all of it (assistant:done).
THEOREM DoneCompleteHolds ==
    Spec => []DoneMeansComplete
<1>1. ASSUME StreamInv PROVE DoneMeansComplete
  <2> SUFFICES ASSUME NEW q \in completed \cap steady PROVE EndsWith(shown[asker[q]][q].text, Chunks)
    BY DEF DoneMeansComplete
  <2>1. phase[q] \notin Early
    BY <1>1 DEF StreamInv, StreamTypeOK, Placed, Place
  <2> QED BY <1>1, <2>1 DEF StreamInv, Flows, Flow, FlowOf
<1> QED BY <1>1, StreamInit, StreamStep, PTL DEF Spec
================================================================================
