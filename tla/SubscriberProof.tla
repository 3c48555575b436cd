---------------------------- MODULE SubscriberProof ----------------------------
(*****************************************************************************)
(* Theorems about Subscriber, for every number of replicas, messages,        *)
(* copies, slots, prefetched deliveries, retries and crashes, and that its   *)
(* gates implement Semaphore: initial states map to initial states and       *)
(* every step to a step of the abstract gate or to a stutter.                *)
(*****************************************************************************)
EXTENDS Subscriber, FiniteSetTheorems, SequenceTheorems, TLAPS

--------------------------------------------------------------------------------
(* Waiting lines: sequences without repetition whose elements leave at the   *)
(* head and arrive at the end.                                               *)

Distinct(s) == \A i, j \in DOMAIN s : i # j => s[i] # s[j]
Elements(s) == {s[i] : i \in DOMAIN s}

\* Nobody stands in an empty line.
LEMMA EmptyLine == DOMAIN <<>> = {} /\ Elements(<<>>) = {}
<1>1. DOMAIN <<>> = {}
  BY EmptySeq, LenProperties
<1>2. QED BY <1>1 DEF Elements

\* A new element at the end.
LEMMA AppendDistinct ==
    ASSUME NEW S, NEW s \in Seq(S), NEW x \in S
    PROVE  /\ Append(s, x) \in Seq(S) /\ Append(s, x) # <<>>
           /\ Elements(Append(s, x)) = Elements(s) \cup {x}
           /\ Distinct(s) /\ x \notin Elements(s) => Distinct(Append(s, x))
<1>1. /\ Append(s, x) \in Seq(S) /\ Len(Append(s, x)) = Len(s) + 1
      /\ \A i \in 1..Len(s) : Append(s, x)[i] = s[i]
      /\ Append(s, x)[Len(s) + 1] = x
  BY LenProperties
<1>2. /\ DOMAIN s = 1..Len(s) /\ Len(s) \in Nat
      /\ DOMAIN Append(s, x) = 1..(Len(s) + 1)
  BY <1>1
<1>3. Elements(Append(s, x)) = Elements(s) \cup {x}
  BY <1>1, <1>2 DEF Elements
<1>4. Distinct(s) /\ x \notin Elements(s) => Distinct(Append(s, x))
  BY <1>1, <1>2 DEF Distinct, Elements
<1>5. Append(s, x) # <<>>
  BY <1>1, <1>2, EmptySeq
<1>6. QED BY <1>1, <1>3, <1>4, <1>5

\* Taking the first element away.
LEMMA TailDistinct ==
    ASSUME NEW S, NEW s \in Seq(S), s # <<>>, Distinct(s)
    PROVE  /\ Tail(s) \in Seq(S) /\ Head(s) \in S /\ Head(s) \in Elements(s)
           /\ Elements(Tail(s)) = Elements(s) \ {Head(s)}
           /\ Distinct(Tail(s))
<1>1. /\ Len(s) \in Nat \ {0} /\ DOMAIN s = 1..Len(s) /\ Head(s) = s[1]
      /\ Tail(s) \in Seq(S) /\ Len(Tail(s)) = Len(s) - 1
      /\ DOMAIN Tail(s) = 1..(Len(s) - 1)
      /\ \A i \in 1..(Len(s) - 1) : Tail(s)[i] = s[i + 1]
  BY EmptySeq, LenProperties, HeadTailProperties
<1>2. \A i \in 1..(Len(s) - 1) : i + 1 \in DOMAIN s /\ i + 1 # 1
  BY <1>1
<1>3. \A j \in DOMAIN s : j # 1 => j - 1 \in 1..(Len(s) - 1) /\ (j - 1) + 1 = j
  BY <1>1
<1>4. Elements(Tail(s)) \subseteq Elements(s) \ {Head(s)}
  <2>1. SUFFICES ASSUME NEW i \in 1..(Len(s) - 1)
                 PROVE  Tail(s)[i] \in Elements(s) \ {Head(s)}
    BY <1>1 DEF Elements
  <2>2. QED BY <1>1, <1>2 DEF Elements, Distinct
<1>5. Elements(s) \ {Head(s)} \subseteq Elements(Tail(s))
  <2>1. SUFFICES ASSUME NEW j \in DOMAIN s, s[j] # s[1]
                 PROVE  s[j] \in Elements(Tail(s))
    BY <1>1 DEF Elements
  <2>2. Tail(s)[j - 1] = s[j] /\ j - 1 \in DOMAIN Tail(s)
    BY <1>1, <1>3, <2>1
  <2>3. QED BY <2>2 DEF Elements
<1>6. Distinct(Tail(s))
  BY <1>1, <1>2 DEF Distinct
<1>7. Head(s) \in S /\ Head(s) \in Elements(s)
  BY <1>1 DEF Elements
<1>8. QED BY <1>1, <1>4, <1>5, <1>6, <1>7

--------------------------------------------------------------------------------
(* Types, the cap and the line, the single settlement, the durability.       *)

InFlight == Slotted \cup {"waiting", "acking", "nacking"}

\* Where a copy is and what it carries: a copy is unacknowledged at a running
\* replica exactly while it is in flight; a stored copy carries an accepted
\* message; a retry is published only for a copy with a try left.
Located ==
    /\ route["exchange"] \in {"nowhere", "main"}
    /\ \A c \in Copies :
          /\ holder[c] # None <=> stage[c] \in InFlight
          /\ holder[c] # None => consumer[holder[c]] # "down"
          /\ stage[c] # "free" => body[c] \in accepted
          /\ stage[c] = "retrying" => tries[c] < MaxRetries

IndInv == TypeOK /\ Located /\ ConcurrencyCap /\ NoLostWakeup

--------------------------------------------------------------------------------

\* The token the broker stores a new copy under is a free one.
LEMMA FreeCopyIsFree ==
    ASSUME \E c \in Copies : stage[c] = "free"
    PROVE  FreeCopy \in Copies /\ stage[FreeCopy] = "free"
BY DEF FreeCopy

\* Typing and location hold initially.
LEMMA TypeInit == Init => TypeOK /\ Located
BY SubscriberAssumption
   DEF Init, TypeOK, Located, Queues, Exchanges, Stages, Slotted, InFlight

\* What storing a copy does to the copies' contents.
LEMMA DepositType ==
    ASSUME TypeOK, NEW e \in Exchanges, NEW m \in Messages,
           NEW n \in 0..MaxRetries, NEW st \in [Copies -> Stages],
           Deposit(e, m, n, st)
    PROVE  /\ stage' \in [Copies -> Stages]
           /\ body' \in [Copies -> Messages \cup {None}]
           /\ tries' \in [Copies -> 0..MaxRetries]
<1>1. CASE route[e] = "nowhere"
  BY <1>1 DEF Deposit, TypeOK
<1>2. CASE route[e] # "nowhere"
  <2>1. FreeCopy \in Copies
    BY <1>2, FreeCopyIsFree DEF Deposit
  <2>2. route[e] \in Stages
    BY <1>2 DEF TypeOK, Stages
  <2>3. QED BY <1>2, <2>1, <2>2 DEF Deposit, TypeOK
<1>3. QED BY <1>1, <1>2

--------------------------------------------------------------------------------
(* The gate. *)

\* The copies that hold a slot, or wait for one, form finite sets.
LEMMA HoldingFinite ==
    ASSUME NEW r \in Replicas
    PROVE  IsFiniteSet(Holding(r)) /\ Cardinality(Holding(r)) \in Nat
<1>1. Holding(r) \subseteq Copies
  BY DEF Holding
<1>2. QED BY <1>1, SubscriberAssumption, FS_Subset, FS_CardinalityType

\* The gate's invariants are about four things only.
LEMMA GateFrame ==
    ASSUME ConcurrencyCap, NoLostWakeup,
           UNCHANGED <<activeSlots, pendingSlots>>,
           \A r \in Replicas : Holding(r)' = Holding(r) /\ Waiting(r)' = Waiting(r)
    PROVE  ConcurrencyCap' /\ NoLostWakeup'
BY DEF ConcurrencyCap, NoLostWakeup, InLine

\* acquireSlot keeps them.
LEMMA AcquireGate ==
    ASSUME IndInv, NEW r \in Replicas, NEW c \in Copies, stage[c] = "main",
           holder' = [holder EXCEPT ![c] = r], AcquireSlot(r, c)
    PROVE  /\ ConcurrencyCap' /\ NoLostWakeup'
           /\ stage' \in [Copies -> Stages]
           /\ activeSlots' \in [Replicas -> Nat]
           /\ pendingSlots' \in [Replicas -> Seq(Copies)]
           /\ runs' \in [Messages -> Nat]
           /\ stage'[c] \in InFlight
           /\ \A d \in Copies \ {c} : stage'[d] = stage[d]
<1> USE SubscriberAssumption
<1>0. /\ TypeOK /\ Located /\ ConcurrencyCap /\ NoLostWakeup
      /\ holder[c] = None /\ c \notin Holding(r) /\ c \notin Waiting(r)
      /\ body[c] \in Messages
  BY DEF IndInv, Located, Holding, Waiting, InFlight, Slotted, TypeOK
<1>2. CASE SlotFree(r) /\ stage' = [stage EXCEPT ![c] = "running"]
  <2>1. /\ activeSlots' = [activeSlots EXCEPT ![r] = @ + 1]
        /\ Count(body[c]) /\ UNCHANGED pendingSlots
    BY <1>2, <1>0 DEF AcquireSlot, TypeOK
  <2>2. /\ Holding(r)' = Holding(r) \cup {c}
        /\ \A q \in Replicas \ {r} : Holding(q)' = Holding(q)
        /\ \A q \in Replicas : Waiting(q)' = Waiting(q)
    BY <1>0, <1>2 DEF Holding, Waiting, Slotted, TypeOK
  <2>3. Cardinality(Holding(r)') = Cardinality(Holding(r)) + 1
    BY <1>0, <2>2, HoldingFinite, FS_AddElement
  <2>4. ConcurrencyCap'
    <3>1. activeSlots'[r] = activeSlots[r] + 1 /\ activeSlots[r] \in Nat
          /\ \A q \in Replicas \ {r} : activeSlots'[q] = activeSlots[q]
      BY <1>0, <2>1 DEF TypeOK
    <3>2. activeSlots'[r] = Cardinality(Holding(r)')
      BY <1>0, <2>3, <3>1 DEF ConcurrencyCap
    <3>3. MaxConcurrency # 0 => activeSlots'[r] <= MaxConcurrency
      BY <1>2, <3>1 DEF SlotFree
    <3>4. QED BY <1>0, <2>2, <3>1, <3>2, <3>3 DEF ConcurrencyCap
  <2>5. pendingSlots[r] = <<>>
    BY <1>0, <1>2 DEF SlotFree, NoLostWakeup, TypeOK, ConcurrencyCap
  <2>6. NoLostWakeup'
    BY <1>0, <2>1, <2>2, <2>5 DEF NoLostWakeup, InLine, TypeOK
  <2>7. QED BY <1>0, <1>2, <2>1, <2>4, <2>6 DEF TypeOK, Count, Stages, Slotted, InFlight
<1>3. CASE ~SlotFree(r) /\ stage' = [stage EXCEPT ![c] = "waiting"]
  <2>1. /\ pendingSlots' = [pendingSlots EXCEPT ![r] = Append(@, c)]
        /\ UNCHANGED <<activeSlots, runs>>
    BY <1>3, <1>0 DEF AcquireSlot, TypeOK
  <2>2. /\ Waiting(r)' = Waiting(r) \cup {c}
        /\ \A q \in Replicas \ {r} : Waiting(q)' = Waiting(q)
        /\ \A q \in Replicas : Holding(q)' = Holding(q)
    BY <1>0, <1>3 DEF Holding, Waiting, Slotted, TypeOK
  <2>3. ConcurrencyCap'
    BY <1>0, <2>1, <2>2 DEF ConcurrencyCap
  <2>4. MaxConcurrency # 0 /\ activeSlots[r] = MaxConcurrency
    BY <1>0, <1>3 DEF SlotFree, ConcurrencyCap, TypeOK
  <2>5. /\ pendingSlots[r] \in Seq(Copies) /\ Distinct(pendingSlots[r])
        /\ Elements(pendingSlots[r]) = Waiting(r)
    BY <1>0 DEF TypeOK, NoLostWakeup, Distinct, Elements, InLine
  <2>6. /\ Distinct(pendingSlots'[r])
        /\ Elements(pendingSlots'[r]) = Waiting(r)'
        /\ pendingSlots'[r] \in Seq(Copies)
    BY <1>0, <2>1, <2>2, <2>5, AppendDistinct DEF TypeOK
  <2>7. \A q \in Replicas \ {r} : pendingSlots'[q] = pendingSlots[q]
    BY <1>0, <2>1 DEF TypeOK
  <2>8. NoLostWakeup'
    BY <1>0, <2>1, <2>2, <2>4, <2>6, <2>7
       DEF NoLostWakeup, Distinct, Elements, InLine
  <2>9. QED BY <1>0, <1>3, <2>1, <2>3, <2>6, <2>7, <2>8
            DEF TypeOK, Stages, Slotted, InFlight
<1>4. QED BY <1>2, <1>3 DEF AcquireSlot

\* releaseSlot keeps them.
LEMMA ReleaseGate ==
    ASSUME IndInv, NEW r \in Replicas, NEW c \in Copies, holder[c] = r,
           stage[c] \in Slotted, NEW s \in {"acking", "nacking"},
           UNCHANGED holder, ReleaseSlot(r, c, s)
    PROVE  /\ ConcurrencyCap' /\ NoLostWakeup'
           /\ stage' \in [Copies -> Stages]
           /\ activeSlots' \in [Replicas -> Nat]
           /\ pendingSlots' \in [Replicas -> Seq(Copies)]
           /\ runs' \in [Messages -> Nat]
           /\ stage'[c] = s
           /\ \A d \in Copies \ {c} :
                 \/ stage'[d] = stage[d]
                 \/ stage[d] = "waiting" /\ stage'[d] = "running"
<1>0. /\ TypeOK /\ Located /\ ConcurrencyCap /\ NoLostWakeup
      /\ c \in Holding(r) /\ c \notin Waiting(r)
      /\ activeSlots[r] \in Nat \ {0}
  <2>1. c \in Holding(r) /\ c \notin Waiting(r)
    BY DEF Holding, Waiting, Slotted
  <2>2. Cardinality(Holding(r)) # 0
    BY <2>1, HoldingFinite, FS_EmptySet
  <2>3. QED BY <2>1, <2>2, HoldingFinite DEF IndInv, ConcurrencyCap, TypeOK
<1>1. CASE pendingSlots[r] = <<>>
  <2>1. /\ activeSlots' = [activeSlots EXCEPT ![r] = @ - 1]
        /\ stage' = [stage EXCEPT ![c] = s]
        /\ UNCHANGED <<pendingSlots, runs>>
    BY <1>1 DEF ReleaseSlot
  <2>2. /\ Holding(r)' = Holding(r) \ {c}
        /\ \A q \in Replicas \ {r} : Holding(q)' = Holding(q)
        /\ \A q \in Replicas : Waiting(q)' = Waiting(q)
    BY <1>0, <2>1 DEF Holding, Waiting, Slotted, TypeOK
  <2>3. Cardinality(Holding(r)') = Cardinality(Holding(r)) - 1
    <3>1. c \in Holding(r) /\ IsFiniteSet(Holding(r))
      BY <1>0, HoldingFinite
    <3>2. Cardinality(Holding(r) \ {c}) = Cardinality(Holding(r)) - 1
      BY <3>1, FS_RemoveElement
    <3>3. QED BY <2>2, <3>2
  <2>4. ConcurrencyCap'
    <3>1. activeSlots'[r] = activeSlots[r] - 1
          /\ \A q \in Replicas \ {r} : activeSlots'[q] = activeSlots[q]
      BY <1>0, <2>1 DEF TypeOK
    <3>2. activeSlots'[r] = Cardinality(Holding(r)')
      BY <1>0, <2>3, <3>1 DEF ConcurrencyCap
    <3>3. MaxConcurrency # 0 => activeSlots'[r] <= MaxConcurrency
      BY <1>0, <3>1, SubscriberAssumption DEF ConcurrencyCap
    <3>4. ASSUME NEW q \in Replicas \ {r}
          PROVE  /\ activeSlots'[q] = Cardinality(Holding(q)')
                 /\ MaxConcurrency # 0 => activeSlots'[q] <= MaxConcurrency
      BY <1>0, <2>2, <3>1 DEF ConcurrencyCap
    <3>5. QED BY <3>2, <3>3, <3>4 DEF ConcurrencyCap
  <2>5. NoLostWakeup'
    BY <1>0, <1>1, <2>1, <2>2 DEF NoLostWakeup, InLine, TypeOK
  <2>6. QED BY <1>0, <2>1, <2>4, <2>5 DEF TypeOK, Stages
<1>2. CASE pendingSlots[r] # <<>>
  <2> DEFINE next == Head(pendingSlots[r])
  <2>1. /\ stage' = [stage EXCEPT ![c] = s, ![next] = "running"]
        /\ Count(body[next])
        /\ pendingSlots' = [pendingSlots EXCEPT ![r] = Tail(@)]
        /\ activeSlots' = [activeSlots EXCEPT ![r] = (@ - 1) + 1]
    BY <1>2 DEF ReleaseSlot
  <2>2. /\ pendingSlots[r] \in Seq(Copies) /\ Distinct(pendingSlots[r])
        /\ Elements(pendingSlots[r]) = Waiting(r)
    BY <1>0 DEF TypeOK, NoLostWakeup, Distinct, Elements, InLine
  <2>3. /\ Tail(pendingSlots[r]) \in Seq(Copies)
        /\ next \in Waiting(r)
        /\ Elements(Tail(pendingSlots[r])) = Waiting(r) \ {next}
        /\ Distinct(Tail(pendingSlots[r]))
    BY <1>2, <2>2, TailDistinct
  <2>4. /\ next \in Copies /\ next # c /\ holder[next] = r
        /\ stage[next] = "waiting" /\ next \notin Holding(r)
        /\ body[next] \in Messages
    BY <1>0, <2>3 DEF Waiting, Holding, Slotted, Located, TypeOK
  <2>5. /\ stage'[c] = s /\ stage'[next] = "running"
        /\ \A d \in Copies \ {c, next} : stage'[d] = stage[d]
        /\ stage' \in [Copies -> Stages]
    BY <1>0, <2>1, <2>4 DEF TypeOK, Stages, Slotted
  <2>6. /\ Holding(r)' = (Holding(r) \ {c}) \cup {next}
        /\ Waiting(r)' = Waiting(r) \ {next}
        /\ \A q \in Replicas \ {r} : Holding(q)' = Holding(q) /\ Waiting(q)' = Waiting(q)
    <3>1. /\ \A d \in Copies : d \in Holding(r)' <=>
                                  d \in (Holding(r) \ {c}) \cup {next}
          /\ \A d \in Copies : d \in Waiting(r)' <=> d \in Waiting(r) \ {next}
      BY <1>0, <2>4, <2>5 DEF Holding, Waiting, Slotted
    <3>2. \A q \in Replicas \ {r} : \A d \in Copies :
             /\ d \in Holding(q)' <=> d \in Holding(q)
             /\ d \in Waiting(q)' <=> d \in Waiting(q)
      BY <1>0, <2>4, <2>5 DEF Holding, Waiting, Slotted
    <3>3. \A q \in Replicas :
             /\ Holding(q) \subseteq Copies /\ Holding(q)' \subseteq Copies
             /\ Waiting(q) \subseteq Copies /\ Waiting(q)' \subseteq Copies
      BY DEF Holding, Waiting
    <3>4. QED BY <2>4, <3>1, <3>2, <3>3, ZenonT(40)
  <2>7. Cardinality(Holding(r)') = Cardinality(Holding(r))
    <3>1. /\ IsFiniteSet(Holding(r) \ {c})
          /\ Cardinality(Holding(r) \ {c}) = Cardinality(Holding(r)) - 1
      BY <1>0, HoldingFinite, FS_RemoveElement
    <3>2. Cardinality(Holding(r)') = Cardinality(Holding(r) \ {c}) + 1
      BY <2>4, <2>6, <3>1, FS_AddElement
    <3>3. QED BY <3>1, <3>2, HoldingFinite
  <2>8. activeSlots' = activeSlots
    BY <1>0, <2>1 DEF TypeOK
  <2>9. ConcurrencyCap'
    BY <1>0, <2>6, <2>7, <2>8 DEF ConcurrencyCap
  <2>10. /\ pendingSlots'[r] = Tail(pendingSlots[r])
         /\ \A q \in Replicas \ {r} : pendingSlots'[q] = pendingSlots[q]
         /\ pendingSlots' \in [Replicas -> Seq(Copies)]
    BY <1>0, <2>1, <2>3 DEF TypeOK
  <2>11. NoLostWakeup'
    <3>1. \A q \in Replicas : activeSlots'[q] = activeSlots[q]
      BY <2>8
    <3>2. MaxConcurrency # 0 /\ activeSlots[r] = MaxConcurrency
      BY <1>0, <1>2 DEF NoLostWakeup
    <3>3. InLine(r)' = Waiting(r)' /\ Distinct(pendingSlots'[r])
      BY <2>3, <2>6, <2>10 DEF Elements, InLine
    <3>4. \A q \in Replicas \ {r} : InLine(q)' = InLine(q)
      BY <2>10 DEF InLine
    <3>5. ASSUME NEW q \in Replicas, pendingSlots'[q] # <<>>
          PROVE  MaxConcurrency # 0 /\ activeSlots'[q] = MaxConcurrency
      BY <1>0, <2>10, <3>1, <3>2, <3>5 DEF NoLostWakeup
    <3>6. ASSUME NEW q \in Replicas
          PROVE  InLine(q)' = Waiting(q)' /\ Distinct(pendingSlots'[q])
      <4>1. CASE q = r
        BY <4>1, <3>3
      <4>2. CASE q # r
        BY <4>2, <1>0, <2>6, <2>10, <3>4 DEF NoLostWakeup, Distinct
      <4>3. QED BY <4>1, <4>2
    <3>7. QED BY <3>5, <3>6 DEF NoLostWakeup, Distinct
  <2>12. runs' \in [Messages -> Nat]
    <3>1. runs' = [runs EXCEPT ![body[next]] = runs[body[next]] + 1]
      BY <2>1 DEF Count
    <3>2. body[next] \in Messages /\ runs \in [Messages -> Nat]
      BY <1>0, <2>4 DEF TypeOK
    <3>3. QED BY <3>1, <3>2
  <2>13. QED BY <1>0, <2>4, <2>5, <2>8, <2>9, <2>10, <2>11, <2>12 DEF TypeOK
<1>3. QED BY <1>1, <1>2

--------------------------------------------------------------------------------
(* The steps. *)

\* A publication, and what the broker does with it.
LEMMA DepositGate ==
    ASSUME IndInv, NEW e \in Exchanges, NEW m \in Messages, NEW n \in 0..MaxRetries,
           NEW st \in [Copies -> Stages],
           \A c \in Copies : \/ st[c] = stage[c]
                             \/ stage[c] \in Slotted /\ st[c] \in Slotted,
           Deposit(e, m, n, st), UNCHANGED <<holder, activeSlots, pendingSlots>>
    PROVE  /\ ConcurrencyCap' /\ NoLostWakeup'
           /\ \A c \in Copies :
                 \/ stage'[c] = st[c] /\ body'[c] = body[c] /\ tries'[c] = tries[c]
                 \/ /\ stage[c] = "free" /\ stage'[c] = route[e]
                    /\ route[e] # "nowhere"
                    /\ body'[c] = m /\ tries'[c] = n
<1>1. TypeOK /\ Located /\ ConcurrencyCap /\ NoLostWakeup
  BY DEF IndInv
<1>2. \A c \in Copies :
         \/ stage'[c] = st[c] /\ body'[c] = body[c] /\ tries'[c] = tries[c]
         \/ /\ stage[c] = "free" /\ stage'[c] = route[e] /\ route[e] # "nowhere"
            /\ body'[c] = m /\ tries'[c] = n
  <2>1. CASE route[e] = "nowhere"
    BY <2>1 DEF Deposit
  <2>2. CASE route[e] # "nowhere"
    BY <1>1, <2>2, FreeCopyIsFree DEF Deposit, TypeOK
  <2>3. QED BY <2>1, <2>2
<1>3. \A c \in Copies :
         /\ stage'[c] \in Slotted <=> stage[c] \in Slotted
         /\ stage'[c] = "waiting" <=> stage[c] = "waiting"
  <2>1. \A c \in Copies :
           /\ st[c] \in Slotted <=> stage[c] \in Slotted
           /\ st[c] = "waiting" <=> stage[c] = "waiting"
    BY DEF Slotted
  <2>2. route[e] \in Queues \cup {"nowhere"}
    BY <1>1 DEF TypeOK
  <2>3. SUFFICES ASSUME NEW c \in Copies
                 PROVE  /\ stage'[c] \in Slotted <=> stage[c] \in Slotted
                        /\ stage'[c] = "waiting" <=> stage[c] = "waiting"
    OBVIOUS
  <2>4. CASE stage'[c] = st[c]
    BY <2>1, <2>4
  <2>5. CASE stage[c] = "free" /\ stage'[c] = route[e] /\ route[e] # "nowhere"
    BY <2>2, <2>5 DEF Slotted, Queues
  <2>6. QED BY <1>2, <2>4, <2>5
<1>4. \A r \in Replicas : Holding(r)' = Holding(r) /\ Waiting(r)' = Waiting(r)
  <2>1. \A r \in Replicas : \A d \in Copies :
            /\ (holder'[d] = r /\ stage'[d] \in Slotted)
                  <=> (holder[d] = r /\ stage[d] \in Slotted)
            /\ (holder'[d] = r /\ stage'[d] = "waiting")
                  <=> (holder[d] = r /\ stage[d] = "waiting")
    BY <1>3
  <2>2. QED BY <2>1 DEF Holding, Waiting
<1>5. QED BY <1>1, <1>2, <1>4, GateFrame

\* A producer publishes.
LEMMA StepPublish ==
    ASSUME IndInv, NEW m \in Messages, Publish(m)
    PROVE  IndInv'
<1>1. TypeOK /\ Located
  BY DEF IndInv
<1>2. Deposit("exchange", m, 0, stage) /\ UNCHANGED <<holder, activeSlots, pendingSlots>>
      /\ 0 \in 0..MaxRetries /\ "exchange" \in Exchanges /\ stage \in [Copies -> Stages]
  BY <1>1, SubscriberAssumption DEF Publish, Exchanges, TypeOK
<1>3. /\ ConcurrencyCap' /\ NoLostWakeup'
      /\ \A c \in Copies :
            \/ stage'[c] = stage[c] /\ body'[c] = body[c] /\ tries'[c] = tries[c]
            \/ /\ stage[c] = "free" /\ stage'[c] = route["exchange"]
               /\ route["exchange"] # "nowhere"
               /\ body'[c] = m /\ tries'[c] = 0
  BY <1>2, DepositGate
<1>4. TypeOK'
  BY <1>1, <1>2, DepositType DEF Publish, TypeOK
<1>5. Located'
  <2>1. accepted \subseteq accepted'
        /\ (route["exchange"] = "main" => m \in accepted')
    BY DEF Publish
  <2>2. UNCHANGED <<route, holder, consumer>>
    BY DEF Publish
  <2>3. ASSUME NEW c \in Copies
        PROVE  /\ holder'[c] # None <=> stage'[c] \in InFlight
               /\ holder'[c] # None => consumer'[holder'[c]] # "down"
               /\ stage'[c] # "free" => body'[c] \in accepted'
               /\ stage'[c] = "retrying" => tries'[c] < MaxRetries
    <3>1. CASE stage'[c] = stage[c] /\ body'[c] = body[c] /\ tries'[c] = tries[c]
      BY <1>1, <2>1, <2>2, <3>1 DEF Located
    <3>2. CASE /\ stage[c] = "free" /\ stage'[c] = "main" /\ body'[c] = m
               /\ route["exchange"] = "main"
      BY <1>1, <2>1, <2>2, <3>2 DEF Located, InFlight, Slotted
    <3>3. QED BY <1>1, <1>3, <3>1, <3>2 DEF Located
  <2>4. QED BY <1>1, <2>2, <2>3 DEF Located
<1>6. QED BY <1>3, <1>4, <1>5 DEF IndInv

\* A message of the retry queue expires.
LEMMA StepExpire ==
    ASSUME IndInv, NEW c \in Copies, Expire(c)
    PROVE  IndInv'
<1>1. TypeOK /\ Located /\ ConcurrencyCap /\ NoLostWakeup
  BY DEF IndInv
<1>2. /\ stage[c] = "retry_q" /\ stage'[c] \in Queues \cup {"free"}
      /\ body' \in [Copies -> Messages \cup {None}]
      /\ tries' \in [Copies -> 0..MaxRetries]
      /\ stage' \in [Copies -> Stages]
      /\ stage'[c] # "free" => body'[c] = body[c]
      /\ \A d \in Copies \ {c} :
            stage'[d] = stage[d] /\ body'[d] = body[d] /\ tries'[d] = tries[d]
  BY <1>1, SubscriberAssumption DEF Expire, TypeOK, Stages, Exchanges
<1>3. \A r \in Replicas : Holding(r)' = Holding(r) /\ Waiting(r)' = Waiting(r)
  BY <1>2 DEF Expire, Holding, Waiting, Slotted, Queues
<1>4. ConcurrencyCap' /\ NoLostWakeup'
  BY <1>1, <1>3, GateFrame DEF Expire
<1>5. TypeOK'
  BY <1>1, <1>2 DEF Expire, TypeOK, historyVars
<1>6. Located'
  BY <1>1, <1>2 DEF Expire, Located, historyVars, InFlight, Slotted, Queues
<1>7. QED BY <1>4, <1>5, <1>6 DEF IndInv

\* The broker settles a delivery.
LEMMA StepSettles ==
    ASSUME IndInv, NEW c \in Copies, BrokerSettles(c)
    PROVE  IndInv'
<1>1. TypeOK /\ Located /\ ConcurrencyCap /\ NoLostWakeup
  BY DEF IndInv
<1>2. \A r \in Replicas : Holding(r)' = Holding(r) /\ Waiting(r)' = Waiting(r)
  BY <1>1, SubscriberAssumption DEF BrokerSettles, Holding, Waiting, Slotted, TypeOK
<1>3. ConcurrencyCap' /\ NoLostWakeup'
  BY <1>1, <1>2, GateFrame DEF BrokerSettles
<1>4. TypeOK'
  BY <1>1, SubscriberAssumption DEF BrokerSettles, TypeOK, historyVars, Stages
<1>5. Located'
  BY <1>1 DEF BrokerSettles, Located, historyVars, InFlight, Slotted, TypeOK
<1>6. QED BY <1>3, <1>4, <1>5 DEF IndInv

\* A subscriber starts consuming: nothing is unacknowledged at it.
LEMMA StepConsume ==
    ASSUME IndInv, NEW r \in Replicas, Consume(r)
    PROVE  IndInv'
<1>1. TypeOK /\ Located /\ ConcurrencyCap /\ NoLostWakeup /\ consumer[r] = "down"
  BY DEF IndInv, Consume
<1>2. Holding(r) = {}
  BY <1>1, SubscriberAssumption DEF Located, Holding
<1>3. activeSlots[r] = 0
  BY <1>1, <1>2, FS_EmptySet DEF ConcurrencyCap
<1>4. pendingSlots[r] = <<>>
  BY <1>1, <1>3 DEF NoLostWakeup
<1>5. UNCHANGED <<activeSlots, pendingSlots>>
  BY <1>1, <1>3, <1>4 DEF Consume, TypeOK
<1>6. ConcurrencyCap' /\ NoLostWakeup'
  BY <1>1, <1>5, GateFrame DEF Consume, Holding, Waiting
<1>7. TypeOK'
  BY <1>1, <1>5 DEF Consume, TypeOK, historyVars
<1>8. Located'
  BY <1>1 DEF Consume, Located, historyVars, TypeOK
<1>9. QED BY <1>6, <1>7, <1>8 DEF IndInv

\* ... and binds its queue.
LEMMA StepBind ==
    ASSUME IndInv, NEW r \in Replicas, BindMain(r)
    PROVE  IndInv'
<1>1. TypeOK /\ Located /\ ConcurrencyCap /\ NoLostWakeup
  BY DEF IndInv
<1>2. ConcurrencyCap' /\ NoLostWakeup'
  BY <1>1, GateFrame DEF BindMain, Holding, Waiting
<1>3. TypeOK'
  BY <1>1 DEF BindMain, TypeOK, historyVars, Queues, Exchanges
<1>4. Located'
  BY <1>1 DEF BindMain, Located, historyVars, TypeOK, Exchanges
<1>5. QED BY <1>2, <1>3, <1>4 DEF IndInv

\* A delivery.
LEMMA StepDeliver ==
    ASSUME IndInv, NEW r \in Replicas, NEW c \in Copies, Deliver(r, c)
    PROVE  IndInv'
<1>1. TypeOK /\ Located
  BY DEF IndInv
<1>2. /\ ConcurrencyCap' /\ NoLostWakeup'
      /\ stage' \in [Copies -> Stages]
      /\ activeSlots' \in [Replicas -> Nat]
      /\ pendingSlots' \in [Replicas -> Seq(Copies)]
      /\ runs' \in [Messages -> Nat]
      /\ stage'[c] \in InFlight
      /\ \A d \in Copies \ {c} : stage'[d] = stage[d]
  BY AcquireGate DEF Deliver
<1>3. TypeOK'
  BY <1>1, <1>2 DEF Deliver, TypeOK
<1>4. Located'
  <2>1. stage'[c] # "retrying"
    BY <1>1 DEF Deliver, AcquireSlot, TypeOK
  <2>2. holder'[c] = r /\ r # None /\ body[c] \in accepted
        /\ \A d \in Copies \ {c} : holder'[d] = holder[d]
    BY <1>1, SubscriberAssumption DEF Deliver, Located, TypeOK
  <2>3. QED BY <1>1, <1>2, <2>1, <2>2 DEF Deliver, Located
<1>5. QED BY <1>2, <1>3, <1>4 DEF IndInv

\* A handler fails and its message is going to be published again.
LEMMA StepFails ==
    ASSUME IndInv, NEW c \in Copies, HandlerFails(c)
    PROVE  IndInv'
<1>1. TypeOK /\ Located /\ ConcurrencyCap /\ NoLostWakeup
  BY DEF IndInv
<1>2. /\ stage[c] = "running" /\ stage'[c] \in {"retrying", "burying"}
      /\ stage'[c] = "retrying" => tries[c] < MaxRetries
      /\ \A d \in Copies \ {c} : stage'[d] = stage[d]
      /\ stage' \in [Copies -> Stages]
  BY <1>1 DEF HandlerFails, TypeOK, Stages, Slotted
<1>3. \A r \in Replicas : Holding(r)' = Holding(r) /\ Waiting(r)' = Waiting(r)
  BY <1>2 DEF HandlerFails, Holding, Waiting, Slotted
<1>4. ConcurrencyCap' /\ NoLostWakeup'
  BY <1>1, <1>3, GateFrame DEF HandlerFails
<1>5. TypeOK'
  BY <1>1, <1>2 DEF HandlerFails, TypeOK, historyVars
<1>6. Located'
  BY <1>1, <1>2 DEF HandlerFails, Located, historyVars, InFlight, Slotted
<1>7. QED BY <1>4, <1>5, <1>6 DEF IndInv

\* Every step that ends the processing of a delivery and releases its slot.
LEMMA StepRelease ==
    ASSUME IndInv, NEW c \in Copies, stage[c] \in Slotted,
           NEW s \in {"acking", "nacking"}, ReleaseSlot(holder[c], c, s),
           frames' \in [Copies -> Nat],
           handled' \in {handled, handled \cup {body[c]}},
           UNCHANGED <<route, holder, body, tries, consumer, published,
                       accepted, crashes>>
    PROVE  IndInv'
<1>1. TypeOK /\ Located /\ holder[c] \in Replicas /\ body[c] \in accepted
  BY DEF IndInv, Located, TypeOK, InFlight, Slotted
<1>2. /\ ConcurrencyCap' /\ NoLostWakeup'
      /\ stage' \in [Copies -> Stages]
      /\ activeSlots' \in [Replicas -> Nat]
      /\ pendingSlots' \in [Replicas -> Seq(Copies)]
      /\ runs' \in [Messages -> Nat]
      /\ stage'[c] = s
      /\ \A d \in Copies \ {c} :
            \/ stage'[d] = stage[d]
            \/ stage[d] = "waiting" /\ stage'[d] = "running"
  BY <1>1, ReleaseGate
<1>3. TypeOK'
  BY <1>1, <1>2 DEF TypeOK
<1>4. Located'
  <2>1. ASSUME NEW d \in Copies
        PROVE  /\ stage'[d] \in InFlight <=> stage[d] \in InFlight
               /\ stage'[d] # "free" <=> stage[d] # "free"
               /\ stage'[d] = "retrying" => stage[d] = "retrying"
    BY <1>2 DEF InFlight, Slotted
  <2>2. QED BY <1>1, <2>1 DEF Located
<1>5. QED BY <1>2, <1>3, <1>4 DEF IndInv

\* The broker takes a publication of a subscriber.
LEMMA StepTakes ==
    ASSUME IndInv, NEW c \in Copies, NEW e \in {"retry", "dlx"},
           NEW n \in 0..MaxRetries, NEW s \in {"retried", "buried"},
           stage[c] \in {"retrying", "burying"},
           Deposit(e, body[c], n, [stage EXCEPT ![c] = s]),
           UNCHANGED <<route, holder, frames, consumer, activeSlots,
                       pendingSlots, historyVars>>
    PROVE  IndInv'
<1> DEFINE st == [stage EXCEPT ![c] = s]
<1>1. TypeOK /\ Located /\ body[c] \in accepted /\ body[c] \in Messages
  BY DEF IndInv, Located, TypeOK
<1>2. /\ st \in [Copies -> Stages] /\ e \in Exchanges
      /\ st[c] = s
      /\ \A d \in Copies \ {c} : st[d] = stage[d]
      /\ \A d \in Copies : \/ st[d] = stage[d]
                           \/ stage[d] \in Slotted /\ st[d] \in Slotted
  BY <1>1 DEF TypeOK, Stages, Slotted, Exchanges
<1>2a. /\ Deposit(e, body[c], n, st)
       /\ UNCHANGED <<holder, activeSlots, pendingSlots>>
  OBVIOUS
<1> HIDE DEF st
<1>3. /\ ConcurrencyCap' /\ NoLostWakeup'
      /\ \A d \in Copies :
            \/ stage'[d] = st[d] /\ body'[d] = body[d] /\ tries'[d] = tries[d]
            \/ /\ stage[d] = "free" /\ stage'[d] = route[e]
               /\ route[e] # "nowhere"
               /\ body'[d] = body[c] /\ tries'[d] = n
  BY <1>1, <1>2, <1>2a, DepositGate
<1>4. TypeOK'
  BY <1>1, <1>2, <1>2a, DepositType DEF TypeOK, historyVars
<1>5. Located'
  <2>1. ASSUME NEW d \in Copies
        PROVE  /\ holder'[d] # None <=> stage'[d] \in InFlight
               /\ holder'[d] # None => consumer'[holder'[d]] # "down"
               /\ stage'[d] # "free" => body'[d] \in accepted'
               /\ stage'[d] = "retrying" => tries'[d] < MaxRetries
    <3>1. CASE d = c
      <4>1. stage'[d] = s /\ body'[d] = body[d]
        BY <1>2, <1>3, <3>1
      <4>2. QED BY <1>1, <3>1, <4>1 DEF Located, InFlight, Slotted, historyVars
    <3>2. CASE d # c /\ stage'[d] = stage[d] /\ body'[d] = body[d] /\ tries'[d] = tries[d]
      BY <1>1, <3>2 DEF Located, historyVars
    <3>3. CASE /\ d # c /\ stage[d] = "free" /\ stage'[d] = route[e]
               /\ route[e] # "nowhere" /\ body'[d] = body[c]
      <4>1. stage'[d] \in Queues
        BY <1>1, <1>2, <3>3 DEF TypeOK
      <4>2. QED BY <1>1, <3>3, <4>1 DEF Located, InFlight, Slotted, historyVars, Queues
    <3>4. QED BY <1>2, <1>3, <3>1, <3>2, <3>3
  <2>2. QED BY <1>1, <2>1 DEF Located
<1>6. QED BY <1>3, <1>4, <1>5 DEF IndInv

\* A process dies.
LEMMA StepCrash ==
    ASSUME IndInv, NEW r \in Replicas, Crash(r)
    PROVE  IndInv'
<1>1. TypeOK /\ Located /\ ConcurrencyCap /\ NoLostWakeup
  BY DEF IndInv
<1>2. /\ Holding(r)' = {} /\ Waiting(r)' = {}
      /\ \A q \in Replicas \ {r} :
            Holding(q)' = Holding(q) /\ Waiting(q)' = Waiting(q)
  BY <1>1, SubscriberAssumption DEF Crash, Holding, Waiting, Slotted, TypeOK
<1>3. /\ activeSlots'[r] = 0 /\ pendingSlots'[r] = <<>>
      /\ \A q \in Replicas \ {r} :
            activeSlots'[q] = activeSlots[q] /\ pendingSlots'[q] = pendingSlots[q]
  BY <1>1 DEF Crash, TypeOK
<1>4. ConcurrencyCap'
  <2>1. activeSlots'[r] = Cardinality(Holding(r)')
    BY <1>2, <1>3, FS_EmptySet
  <2>2. MaxConcurrency # 0 => activeSlots'[r] <= MaxConcurrency
    BY <1>3, SubscriberAssumption
  <2>3. ASSUME NEW q \in Replicas \ {r}
        PROVE  /\ activeSlots'[q] = Cardinality(Holding(q)')
               /\ MaxConcurrency # 0 => activeSlots'[q] <= MaxConcurrency
    BY <1>1, <1>2, <1>3 DEF ConcurrencyCap
  <2>4. QED BY <2>1, <2>2, <2>3 DEF ConcurrencyCap
<1>5. NoLostWakeup'
  <2>1. InLine(r)' = {} /\ \A q \in Replicas \ {r} : InLine(q)' = InLine(q)
    BY <1>3, EmptyLine DEF InLine, Elements
  <2>2. ASSUME NEW q \in Replicas
        PROVE  /\ pendingSlots'[q] # <<>> =>
                     MaxConcurrency # 0 /\ activeSlots'[q] = MaxConcurrency
               /\ Distinct(pendingSlots'[q])
               /\ InLine(q)' = Waiting(q)'
    <3>1. CASE q = r
      BY <1>2, <1>3, <2>1, <3>1, EmptyLine DEF Distinct
    <3>2. CASE q # r
      BY <1>1, <1>2, <1>3, <2>1, <3>2 DEF NoLostWakeup, Distinct
    <3>3. QED BY <3>1, <3>2
  <2>3. QED BY <2>2 DEF NoLostWakeup, Distinct
<1>6. TypeOK'
  BY <1>1, SubscriberAssumption DEF Crash, TypeOK, Stages, Queues
<1>7. Located'
  BY <1>1, SubscriberAssumption DEF Crash, Located, TypeOK, InFlight, Slotted
<1>8. QED BY <1>4, <1>5, <1>6, <1>7 DEF IndInv

\* Every copy's step keeps the invariant.
LEMMA StepCopy ==
    ASSUME IndInv, NEW c \in Copies, CopyStep(c)
    PROVE  IndInv'
<1>0. TypeOK /\ Located /\ MaxRetries \in Nat
  BY SubscriberAssumption DEF IndInv
<1>0a. [frames EXCEPT ![c] = @ + 1] \in [Copies -> Nat] /\ frames[c] + 1 + 0 = frames[c] + 1
       /\ frames[c] + 0 + 1 = frames[c] + 1
  BY <1>0 DEF TypeOK
<1>1. CASE Expire(c)
  BY <1>1, StepExpire
<1>2. CASE BrokerSettles(c)
  BY <1>2, StepSettles
<1>3. CASE HandlerSucceeds(c)
  <2>1. /\ stage[c] \in Slotted /\ ReleaseSlot(holder[c], c, "acking")
        /\ handled' \in {handled, handled \cup {body[c]}}
        /\ UNCHANGED <<route, holder, body, tries, consumer, published, accepted, crashes>>
    BY <1>3 DEF HandlerSucceeds, Slotted
  <2>2. frames' \in [Copies -> Nat]
    BY <1>0a, <1>3 DEF HandlerSucceeds, Ack, HandlerAcks, ServiceAcks
  <2>3. QED BY <2>1, <2>2, StepRelease
<1>4. CASE HandlerFails(c)
  BY <1>4, StepFails
<1>5. CASE HandlerFailsForGood(c)
  <2>1. /\ stage[c] \in Slotted /\ ReleaseSlot(holder[c], c, "nacking")
        /\ handled' \in {handled, handled \cup {body[c]}}
        /\ frames' \in [Copies -> Nat]
        /\ UNCHANGED <<route, holder, body, tries, consumer, published, accepted, crashes>>
    BY <1>0a, <1>5 DEF HandlerFailsForGood, Nack, Slotted
  <2>2. QED BY <2>1, StepRelease
<1>6. CASE BrokerTakesRetry(c)
  <2>1. tries[c] + 1 \in 0..MaxRetries
    BY <1>0, <1>6 DEF BrokerTakesRetry, Located, TypeOK
  <2>2. QED BY <1>6, <2>1, StepTakes DEF BrokerTakesRetry
<1>7. CASE BrokerTakesDead(c)
  BY <1>0, <1>7, StepTakes DEF BrokerTakesDead, TypeOK
<1>8. CASE Confirmed(c)
  <2>1. /\ stage[c] \in Slotted /\ ReleaseSlot(holder[c], c, "acking")
        /\ handled' \in {handled, handled \cup {body[c]}}
        /\ UNCHANGED <<route, holder, body, tries, consumer, published, accepted, crashes>>
    BY <1>8 DEF Confirmed, Slotted
  <2>2. frames' \in [Copies -> Nat]
    BY <1>0a, <1>8 DEF Confirmed, Ack, HandlerAcks, ServiceAcks
  <2>3. QED BY <2>1, <2>2, StepRelease
<1>9. CASE PublishRejected(c)
  <2>1. /\ stage[c] \in Slotted /\ ReleaseSlot(holder[c], c, "nacking")
        /\ handled' \in {handled, handled \cup {body[c]}}
        /\ frames' \in [Copies -> Nat]
        /\ UNCHANGED <<route, holder, body, tries, consumer, published, accepted, crashes>>
    BY <1>0a, <1>9 DEF PublishRejected, Nack, Slotted
  <2>2. QED BY <2>1, StepRelease
<1>10. QED
  BY <1>1, <1>2, <1>3, <1>4, <1>5, <1>6, <1>7, <1>8, <1>9 DEF CopyStep

\* The invariant is inductive.
LEMMA GateInductive == IndInv /\ [Next]_vars => IndInv'
<1>1. SUFFICES ASSUME IndInv, [Next]_vars PROVE IndInv'
  OBVIOUS
<1>2. CASE UNCHANGED vars
  <2>1. UNCHANGED <<route, stage, holder, body, tries, frames, consumer,
                    activeSlots, pendingSlots, published, accepted, handled,
                    runs, crashes>>
    BY <1>2 DEF vars, historyVars
  <2>2. TypeOK' /\ Located'
    BY <1>1, <2>1 DEF IndInv, TypeOK, Located
  <2>3. \A r \in Replicas : Holding(r)' = Holding(r) /\ Waiting(r)' = Waiting(r)
    BY <2>1 DEF Holding, Waiting
  <2>4. QED BY <1>1, <2>1, <2>2, <2>3, GateFrame DEF IndInv
<1>3. CASE Next
  <2>1. ASSUME NEW m \in Messages, Publish(m) PROVE IndInv'
    BY <1>1, <2>1, StepPublish
  <2>2. ASSUME NEW r \in Replicas, ReplicaStep(r) \/ Crash(r) PROVE IndInv'
    BY <1>1, <2>2, StepConsume, StepBind, StepDeliver, StepCrash DEF ReplicaStep
  <2>3. ASSUME NEW c \in Copies, CopyStep(c) PROVE IndInv'
    BY <1>1, <2>3, StepCopy
  <2>4. QED BY <1>3, <2>1, <2>2, <2>3 DEF Next
<1>4. QED BY <1>1, <1>2, <1>3

\* The invariant holds initially.
LEMMA GateInitially == Init => IndInv
<1>1. SUFFICES ASSUME Init PROVE IndInv
  OBVIOUS
<1>2. TypeOK /\ Located
  BY <1>1, TypeInit
<1>3. \A r \in Replicas : /\ Holding(r) = {} /\ Waiting(r) = {} /\ InLine(r) = {}
                          /\ activeSlots[r] = 0 /\ pendingSlots[r] = <<>>
  BY <1>1, EmptyLine DEF Init, Holding, Waiting, InLine, Slotted
<1>4. ConcurrencyCap
  <2>1. Cardinality({}) = 0 /\ 0 <= MaxConcurrency
    BY FS_EmptySet, SubscriberAssumption
  <2>2. QED BY <1>3, <2>1 DEF ConcurrencyCap
<1>5. NoLostWakeup
  BY <1>3, EmptyLine DEF NoLostWakeup
<1>6. QED BY <1>2, <1>4, <1>5 DEF IndInv

\* ... and for ever.
LEMMA GateAlways == Spec => []IndInv
BY GateInitially, GateInductive, PTL DEF Spec

\* Every variable keeps its type, however many replicas and messages there are.
THEOREM TypeCorrect == Spec => []TypeOK
<1>1. Spec => []IndInv
  BY GateAlways
<1>2. IndInv => TypeOK
  BY DEF IndInv
<1>3. QED BY <1>1, <1>2, PTL

\* The gate of subscriber.ts:74-98 caps the concurrency for every value of
\* maxConcurrency and prefetch, with crashes and refused publications.
THEOREM CapHolds == Spec => []ConcurrencyCap
<1>1. Spec => []IndInv
  BY GateAlways
<1>2. IndInv => ConcurrencyCap
  BY DEF IndInv
<1>3. QED BY <1>1, <1>2, PTL

\* ... and never leaves a delivery waiting beside a free slot.
THEOREM WakeupsHold == Spec => []NoLostWakeup
<1>1. Spec => []IndInv
  BY GateAlways
<1>2. IndInv => NoLostWakeup
  BY DEF IndInv
<1>3. QED BY <1>1, <1>2, PTL

--------------------------------------------------------------------------------
(* Acknowledgements. *)

\* What the frames count is kept by every step.
LEMMA SettledStep == IndInv /\ SettledOnce /\ [Next]_vars => SettledOnce'
<1>1. SUFFICES ASSUME IndInv, SettledOnce, [Next]_vars PROVE SettledOnce'
  OBVIOUS
<1>2. TypeOK /\ Located
  BY <1>1 DEF IndInv
<1> DEFINE Owed(c) == frames[c] = IF stage[c] \in {"acking", "nacking"} THEN 1 ELSE 0
<1>3. \A c \in Copies : Owed(c)
  BY <1>1 DEF SettledOnce
\* Depositing a copy.
<1>4. ASSUME NEW e, NEW m, NEW n, NEW st \in [Copies -> Stages],
             \A c \in Copies : st[c] = stage[c] \/ (st[c] \in Slotted /\ stage[c] \in Slotted),
             e \in Exchanges, Deposit(e, m, n, st), UNCHANGED frames
      PROVE  SettledOnce'
  <2>1. CASE route[e] = "nowhere"
    BY <1>3, <1>4, <2>1 DEF Deposit, SettledOnce, Slotted
  <2>2. CASE route[e] # "nowhere"
    <3>1. /\ FreeCopy \in Copies /\ stage[FreeCopy] = "free"
          /\ stage' = [st EXCEPT ![FreeCopy] = route[e]] /\ route[e] \in Queues
      BY <1>2, <1>4, <2>2, FreeCopyIsFree DEF Deposit, TypeOK
    <3>2. QED BY <1>3, <1>4, <3>1 DEF SettledOnce, Slotted, Queues
  <2>3. QED BY <2>1, <2>2
\* Releasing a slot with one frame.
<1>5. ASSUME NEW c \in Copies, stage[c] \in Slotted, NEW s \in {"acking", "nacking"},
             ReleaseSlot(holder[c], c, s), frames' = [frames EXCEPT ![c] = @ + 1],
             UNCHANGED holder
      PROVE  SettledOnce'
  <2>1. holder[c] \in Replicas
    BY <1>2, <1>5 DEF Located, TypeOK, InFlight
  <2>2. /\ stage'[c] = s
        /\ \A d \in Copies \ {c} :
              \/ stage'[d] = stage[d]
              \/ stage[d] = "waiting" /\ stage'[d] = "running"
    BY <1>1, <1>5, <2>1, ReleaseGate
  <2>0. frames[c] = 0
    BY <1>3, <1>5 DEF Slotted
  <2>3. frames'[c] = 1 /\ \A d \in Copies \ {c} : frames'[d] = frames[d]
    BY <1>2, <1>5, <2>0 DEF TypeOK
  <2>4. QED BY <1>3, <2>2, <2>3 DEF SettledOnce
<1>6. CASE UNCHANGED vars
  BY <1>3, <1>6 DEF vars, historyVars, SettledOnce
<1>7. ASSUME NEW m \in Messages, Publish(m) PROVE SettledOnce'
  BY <1>2, <1>4, <1>7 DEF Publish, Exchanges, TypeOK
<1>8. ASSUME NEW r \in Replicas, ReplicaStep(r) PROVE SettledOnce'
  <2>1. CASE Consume(r) \/ BindMain(r)
    BY <1>3, <2>1 DEF Consume, BindMain, SettledOnce
  <2>2. ASSUME NEW c \in Copies, Deliver(r, c) PROVE SettledOnce'
    <3>1. stage' = [stage EXCEPT ![c] = "running"] \/ stage' = [stage EXCEPT ![c] = "waiting"]
      BY <2>2 DEF Deliver, AcquireSlot
    <3>2. QED BY <1>2, <1>3, <2>2, <3>1 DEF Deliver, SettledOnce, TypeOK
  <2>3. QED BY <1>8, <2>1, <2>2 DEF ReplicaStep
<1>9. ASSUME NEW r \in Replicas, Crash(r) PROVE SettledOnce'
  BY <1>2, <1>3, <1>9 DEF Crash, SettledOnce, TypeOK
<1>10. ASSUME NEW c \in Copies, CopyStep(c) PROVE SettledOnce'
  <2>0. frames[c] \in Nat /\ frames[c] + 1 + 0 = frames[c] + 1 /\ frames[c] + 0 + 1 = frames[c] + 1
    BY <1>2 DEF TypeOK
  <2>1. CASE Expire(c) \/ BrokerSettles(c) \/ HandlerFails(c)
    BY <1>2, <1>3, <2>1
       DEF Expire, BrokerSettles, HandlerFails, SettledOnce, TypeOK, Queues, Exchanges
  <2>2. CASE HandlerSucceeds(c) \/ Confirmed(c)
    <3>1. frames' = [frames EXCEPT ![c] = @ + 1]
      BY <2>0, <2>2 DEF HandlerSucceeds, Confirmed, Ack, HandlerAcks, ServiceAcks
    <3>2. QED BY <1>5, <2>2, <3>1 DEF HandlerSucceeds, Confirmed, Slotted
  <2>3. CASE HandlerFailsForGood(c) \/ PublishRejected(c)
    BY <1>5, <2>3 DEF HandlerFailsForGood, PublishRejected, Nack, Slotted
  <2>4. CASE BrokerTakesRetry(c) \/ BrokerTakesDead(c)
    <3>1. ASSUME NEW s \in {"retried", "buried"}, stage[c] \in {"retrying", "burying"}
          PROVE  /\ [stage EXCEPT ![c] = s] \in [Copies -> Stages]
                 /\ \A d \in Copies : \/ [stage EXCEPT ![c] = s][d] = stage[d]
                                      \/ /\ [stage EXCEPT ![c] = s][d] \in Slotted
                                         /\ stage[d] \in Slotted
      BY <1>2, <3>1 DEF TypeOK, Stages, Slotted
    <3>2. CASE BrokerTakesRetry(c)
      <4>1. Deposit("retry", body[c], tries[c] + 1, [stage EXCEPT ![c] = "retried"])
            /\ UNCHANGED frames /\ stage[c] \in {"retrying", "burying"} /\ "retry" \in Exchanges
        BY <3>2 DEF BrokerTakesRetry, Exchanges
      <4>2. QED BY <1>4, <3>1, <4>1
    <3>3. CASE BrokerTakesDead(c)
      <4>1. Deposit("dlx", body[c], tries[c], [stage EXCEPT ![c] = "buried"])
            /\ UNCHANGED frames /\ stage[c] \in {"retrying", "burying"} /\ "dlx" \in Exchanges
        BY <3>3 DEF BrokerTakesDead, Exchanges
      <4>2. QED BY <1>4, <3>1, <4>1
    <3>4. QED BY <2>4, <3>2, <3>3
  <2>5. QED BY <1>10, <2>1, <2>2, <2>3, <2>4 DEF CopyStep
<1>11. QED BY <1>1, <1>6, <1>7, <1>8, <1>9, <1>10 DEF Next

\* README.md:17,169: no delivery is acknowledged twice, whatever the order in
\* which handlers, confirmations, refusals and crashes come.
THEOREM SettledOnceHolds == Spec => []SettledOnce
<1>1. Init => SettledOnce
  BY DEF Init, SettledOnce
<1>2. QED BY <1>1, GateInitially, GateInductive, SettledStep, PTL DEF Spec

--------------------------------------------------------------------------------
(* Messages whose handler fails. *)

\* The stages in which a copy still answers for its message: in a retried,
\* buried, acking or nacking one another copy, or the handler's success, does.
Answering == Queues \cup {"waiting", "running", "retrying", "burying"}

\* Somebody outside the code has bound the retry and dead-letter exchanges,
\* the broker refuses nothing and the subscriber has a retry configuration.
Dependable ==
    /\ Retrying = Replicas /\ ~PublishMayFail
    /\ OperatorRoute["retry"] # "nowhere" /\ OperatorRoute["dlx"] # "nowhere"

Kept ==
    /\ route["retry"] # "nowhere" /\ route["dlx"] # "nowhere"
    /\ \A m \in accepted :
          m \in handled \/ \E c \in Copies : body[c] = m /\ stage[c] \in Answering

\* Storing one more copy disturbs no stored one, and the new one answers.
LEMMA DepositKeeps ==
    ASSUME IndInv, NEW e \in Exchanges, NEW m \in Messages, NEW n,
           NEW st \in [Copies -> Stages], Deposit(e, m, n, st),
           \A c \in Copies : stage[c] = "free" => st[c] = "free"
    PROVE  /\ \A c \in Copies : st[c] # "free" =>
                 stage'[c] = st[c] /\ body'[c] = body[c]
           /\ route[e] # "nowhere" =>
                 \E c \in Copies : body'[c] = m /\ stage'[c] \in Answering
<1>1. CASE route[e] = "nowhere"
  BY <1>1 DEF Deposit
<1>2. CASE route[e] # "nowhere"
  <2>1. FreeCopy \in Copies /\ stage[FreeCopy] = "free" /\ st[FreeCopy] = "free"
    BY <1>2, FreeCopyIsFree DEF Deposit
  <2>2. /\ stage' = [st EXCEPT ![FreeCopy] = route[e]]
        /\ body' = [body EXCEPT ![FreeCopy] = m]
    BY <1>2 DEF Deposit
  <2>3. route[e] \in Queues /\ body \in [Copies -> Messages \cup {None}]
    BY <1>2 DEF IndInv, TypeOK
  <2>4. stage'[FreeCopy] \in Answering /\ body'[FreeCopy] = m
    BY <2>1, <2>2, <2>3 DEF Answering
  <2>5. QED BY <2>1, <2>2, <2>3, <2>4
<1>3. QED BY <1>1, <1>2

\* A step that keeps every answering copy, or replaces it, keeps Kept.
LEMMA KeptStep == IndInv /\ Kept /\ Dependable /\ [Next]_vars => Kept'
<1>1. SUFFICES ASSUME IndInv, Kept, Dependable, [Next]_vars PROVE Kept'
  OBVIOUS
<1>2. TypeOK /\ Located
  BY <1>1 DEF IndInv
<1> DEFINE Answers(c) == stage[c] \in Answering
\* If an answering copy that stops doing so has its message in safe hands.
<1>3. ASSUME handled \subseteq handled', accepted' = accepted, 
             route'["retry"] = route["retry"], route'["dlx"] = route["dlx"],
             \A c \in Copies : Answers(c) =>
                \/ body'[c] = body[c] /\ stage'[c] \in Answering
                \/ body[c] \in handled'
                \/ \E d \in Copies : body'[d] = body[c] /\ stage'[d] \in Answering
      PROVE  Kept'
  BY <1>1, <1>3 DEF Kept
<1>4. CASE UNCHANGED vars
  BY <1>3, <1>4 DEF vars, historyVars, Kept
<1>5. ASSUME NEW m \in Messages, Publish(m) PROVE Kept'
  <2>1. stage \in [Copies -> Stages] /\ "exchange" \in Exchanges
    BY <1>2 DEF TypeOK, Exchanges
  <2>2. /\ \A c \in Copies : stage[c] # "free" => stage'[c] = stage[c] /\ body'[c] = body[c]
        /\ route["exchange"] # "nowhere" =>
              \E c \in Copies : body'[c] = m /\ stage'[c] \in Answering
    BY <1>1, <1>5, <2>1, DepositKeeps DEF Publish
  <2>3. route' = route /\ handled' = handled
        /\ accepted' \subseteq accepted \cup {m}
        /\ (m \in accepted' /\ m \notin accepted => route["exchange"] = "main")
    BY <1>5 DEF Publish
  <2>4. "free" \notin Answering
    BY DEF Answering, Queues
  <2>5. ASSUME NEW x \in accepted'
        PROVE  x \in handled' \/ \E c \in Copies : body'[c] = x /\ stage'[c] \in Answering
    <3>1. CASE x \in accepted
      BY <1>1, <2>2, <2>3, <2>4, <3>1 DEF Kept
    <3>2. CASE x \notin accepted
      BY <2>2, <2>3, <2>5, <3>2
    <3>3. QED BY <3>1, <3>2
  <2>6. QED BY <1>1, <2>3, <2>5 DEF Kept
<1>6. ASSUME NEW r \in Replicas, ReplicaStep(r) PROVE Kept'
  <2>1. CASE Consume(r) \/ BindMain(r)
    BY <1>2, <1>3, <2>1 DEF Consume, BindMain, historyVars, TypeOK, Exchanges
  <2>2. ASSUME NEW c \in Copies, Deliver(r, c) PROVE Kept'
    <3>1. /\ stage' = [stage EXCEPT ![c] = "running"] \/ stage' = [stage EXCEPT ![c] = "waiting"]
          /\ UNCHANGED <<route, body, accepted, handled>>
      BY <2>2 DEF Deliver, AcquireSlot
    <3>2. \A d \in Copies : Answers(d) => stage'[d] \in Answering
      BY <1>2, <3>1 DEF TypeOK, Answering
    <3>3. QED BY <1>3, <3>1, <3>2
  <2>3. QED BY <1>6, <2>1, <2>2 DEF ReplicaStep
<1>7. ASSUME NEW r \in Replicas, Crash(r) PROVE Kept'
  <2>1. \A d \in Copies : Answers(d) => stage'[d] \in Answering
    BY <1>7 DEF Crash, Answering, Queues
  <2>2. UNCHANGED <<route, body, accepted, handled>>
    BY <1>7 DEF Crash
  <2>3. QED BY <1>3, <2>1, <2>2
<1>8. ASSUME NEW c \in Copies, CopyStep(c) PROVE Kept'
  <2>0. handled \subseteq handled' /\ UNCHANGED <<route, accepted>>
    BY <1>8 DEF CopyStep, Expire, BrokerSettles, HandlerSucceeds, HandlerFails,
        HandlerFailsForGood, BrokerTakesRetry, BrokerTakesDead, Confirmed,
        PublishRejected, historyVars
  <2>1. CASE Expire(c) \/ BrokerSettles(c) \/ HandlerFails(c)
    <3>1. \A d \in Copies : Answers(d) => stage'[d] \in Answering /\ body'[d] = body[d]
      BY <1>1, <1>2, <2>1
         DEF Expire, BrokerSettles, HandlerFails, Kept, TypeOK, Answering, Queues, Exchanges
    <3>2. QED BY <1>3, <2>0, <3>1
  <2>2. CASE HandlerSucceeds(c) \/ Confirmed(c)
    <3>1. /\ stage[c] \in Slotted /\ holder[c] \in Replicas /\ body' = body
          /\ ReleaseSlot(holder[c], c, "acking") /\ UNCHANGED holder
      BY <1>2, <2>2 DEF HandlerSucceeds, Confirmed, Slotted, Located, TypeOK, InFlight
    <3>2. \A d \in Copies \ {c} : stage'[d] = stage[d] \/ stage'[d] = "running"
      BY <1>1, <3>1, ReleaseGate
    <3>3. ~Answers(c) \/ body[c] \in handled'
      BY <2>2 DEF HandlerSucceeds, Confirmed, Answering, Queues
    <3>4. "running" \in Answering
      BY DEF Answering
    <3>5. QED BY <1>3, <2>0, <3>1, <3>2, <3>3, <3>4
  <2>3. CASE HandlerFailsForGood(c) \/ PublishRejected(c)
    <3>1. holder[c] \in Replicas \/ stage[c] # "running"
      BY <1>2 DEF TypeOK, Located, InFlight, Slotted
    <3>2. QED BY <1>1, <2>3, <3>1 DEF HandlerFailsForGood, PublishRejected, Dependable
  <2>4. ASSUME NEW e \in {"retry", "dlx"}, NEW n, NEW s \in {"retried", "buried"},
               stage[c] \in {"retrying", "burying"},
               Deposit(e, body[c], n, [stage EXCEPT ![c] = s])
        PROVE  Kept'
    <3> DEFINE st == [stage EXCEPT ![c] = s]
    <3>1. /\ st \in [Copies -> Stages] /\ e \in Exchanges /\ route[e] # "nowhere"
          /\ \A d \in Copies : stage[d] = "free" => st[d] = "free"
          /\ \A d \in Copies \ {c} : st[d] = stage[d]
      BY <1>1, <1>2, <2>4 DEF TypeOK, Stages, Slotted, Exchanges, Kept
    <3>2. body[c] \in Messages
      BY <1>2, <2>4 DEF TypeOK, Located
    <3>0. Deposit(e, body[c], n, st)
      BY <2>4
    <3> HIDE DEF st
    <3>3. /\ \A d \in Copies : st[d] # "free" => stage'[d] = st[d] /\ body'[d] = body[d]
          /\ \E d \in Copies : body'[d] = body[c] /\ stage'[d] \in Answering
      BY <1>1, <3>1, <3>2, <3>0, DepositKeeps
    <3>4. \A d \in Copies \ {c} : Answers(d) => stage'[d] \in Answering /\ body'[d] = body[d]
      BY <3>1, <3>3 DEF Answering, Queues
    <3>5. QED BY <1>3, <2>0, <3>3, <3>4
  <2>5. CASE BrokerTakesRetry(c) \/ BrokerTakesDead(c)
    BY <2>4, <2>5 DEF BrokerTakesRetry, BrokerTakesDead
  <2>6. QED BY <1>8, <2>1, <2>2, <2>3, <2>5 DEF CopyStep
<1>9. QED BY <1>1, <1>4, <1>5, <1>6, <1>7, <1>8 DEF Next

\* README.md:136 of the package, under the bindings the code leaves to
\* somebody else: a message whose handler keeps failing is never lost, for any
\* number of replicas, retries and crashes.
THEOREM NothingLost == ASSUME Dependable PROVE Spec => []NoFailedMessageLost
<1>1. Init => Kept
  BY Dependable DEF Init, Kept, Dependable, Exchanges
<1>2. Kept => NoFailedMessageLost
  BY DEF Kept, NoFailedMessageLost, Live, Answering, Queues
<1>3. IndInv /\ Kept /\ [Next]_vars => Kept'
  BY KeptStep, Dependable
<1>4. QED BY <1>1, <1>2, <1>3, GateInitially, GateInductive, PTL DEF Spec

--------------------------------------------------------------------------------
(* The gates implement Semaphore.                                            *)

\* The abstract step a concrete one maps to.
GateStep == [Gate!GateNext]_(Gate!gateVars)

\* Steps that move nobody through a gate.
LEMMA GateStutters ==
    ASSUME \A r \in Replicas : Holding(r)' = Holding(r), UNCHANGED pendingSlots
    PROVE  GateStep
BY DEF GateStep, Gate!gateVars

\* The counter of a gate tells whether there is room in the abstract one.
LEMMA RoomIsSlotFree ==
    ASSUME IndInv, NEW r \in Replicas
    PROVE  Gate!Room(r) <=> SlotFree(r)
<1>1. \A S : Gate!Cardinality(S) = Cardinality(S)
  BY DEF Gate!Cardinality, Cardinality
<1>2. Cardinality(Holding(r)) = activeSlots[r] BY DEF IndInv, ConcurrencyCap
<1>3. Gate!Room(r) <=> MaxConcurrency = 0 \/ Cardinality(Holding(r)) < MaxConcurrency
  BY <1>1 DEF Gate!Room
<1> QED BY <1>2, <1>3 DEF SlotFree

\* A delivery that gets a slot enters, any other one joins the line.
LEMMA DeliverEnters ==
    ASSUME IndInv, NEW r \in Replicas, NEW c \in Copies, Deliver(r, c)
    PROVE  GateStep
<1>1. TypeOK /\ NoLostWakeup /\ Located BY DEF IndInv
<1>2. /\ stage[c] = "main" /\ holder' = [holder EXCEPT ![c] = r] /\ AcquireSlot(r, c)
  BY DEF Deliver
<1>3. c \notin Gate!Present(r)
  BY <1>1, <1>2 DEF Gate!Present, Holding, Slotted, NoLostWakeup, InLine, Waiting
<1>4. CASE SlotFree(r)
  <2>1. pendingSlots[r] = <<>>
    BY <1>1, <1>4, SubscriberAssumption DEF NoLostWakeup, SlotFree
  <2>2. stage' = [stage EXCEPT ![c] = "running"] /\ UNCHANGED pendingSlots
    BY <1>2, <1>4 DEF AcquireSlot
  <2>3. \A q \in Replicas : Holding(q)' = IF q = r THEN Holding(r) \cup {c} ELSE Holding(q)
    BY <1>1, <1>2, <2>2 DEF Holding, Slotted, TypeOK
  <2>4. Gate!Enter(r, c)
    BY <1>3, <1>4, <2>1, <2>2, <2>3, RoomIsSlotFree DEF Gate!Enter
  <2> QED BY <2>4 DEF GateStep, Gate!GateNext
<1>5. CASE ~SlotFree(r)
  <2>1. /\ stage' = [stage EXCEPT ![c] = "waiting"]
        /\ pendingSlots' = [pendingSlots EXCEPT ![r] = Append(@, c)]
    BY <1>2, <1>5 DEF AcquireSlot
  <2>2. \A q \in Replicas : Holding(q)' = Holding(q)
    BY <1>1, <1>2, <2>1 DEF Holding, Slotted, TypeOK
  <2>3. Gate!Queue(r, c)
    BY <1>3, <1>5, <2>1, <2>2, RoomIsSlotFree DEF Gate!Queue
  <2> QED BY <2>3 DEF GateStep, Gate!GateNext
<1> QED BY <1>4, <1>5

\* A release leaves, and hands the slot to the first in line.
LEMMA ReleaseLeaves ==
    ASSUME IndInv, NEW c \in Copies, NEW s \in {"acking", "nacking"},
           stage[c] \in Slotted, ReleaseSlot(holder[c], c, s), UNCHANGED holder
    PROVE  GateStep
<1> DEFINE r == holder[c]
<1>1. TypeOK /\ NoLostWakeup /\ Located BY DEF IndInv
<1>2. r \in Replicas /\ c \in Holding(r)
  BY <1>1 DEF Located, InFlight, Holding, TypeOK
<1>3. CASE pendingSlots[r] = <<>>
  <2>1. stage' = [stage EXCEPT ![c] = s] /\ UNCHANGED pendingSlots
    BY <1>3 DEF ReleaseSlot
  <2>2. \A q \in Replicas : Holding(q)' = IF q = r THEN Holding(r) \ {c} ELSE Holding(q)
    BY <1>1, <2>1 DEF Holding, Slotted, TypeOK
  <2>3. Gate!Leave(r, c) BY <1>2, <1>3, <2>1, <2>2 DEF Gate!Leave
  <2> QED BY <1>2, <2>3 DEF GateStep, Gate!GateNext
<1>4. CASE pendingSlots[r] # <<>>
  <2> DEFINE next == Head(pendingSlots[r])
  <2>1. /\ stage' = [stage EXCEPT ![c] = s, ![next] = "running"]
        /\ pendingSlots' = [pendingSlots EXCEPT ![r] = Tail(@)]
    BY <1>4 DEF ReleaseSlot
  <2>2. next \in Waiting(r) /\ next \in Copies /\ next # c
    <3>1. pendingSlots[r] \in Seq(Copies) BY <1>1, <1>2 DEF TypeOK
    <3>2. next \in InLine(r) BY <1>4, <3>1 DEF InLine
    <3> QED BY <1>1, <1>2, <3>2 DEF NoLostWakeup, Waiting, Slotted
  <2>3. \A q \in Replicas :
           Holding(q)' = IF q = r THEN (Holding(r) \ {c}) \cup {next} ELSE Holding(q)
    BY <1>1, <1>2, <2>1, <2>2 DEF Holding, Waiting, Slotted, TypeOK
  <2>4. Gate!Leave(r, c) BY <1>2, <1>4, <2>1, <2>3 DEF Gate!Leave
  <2> QED BY <1>2, <2>4 DEF GateStep, Gate!GateNext
<1> QED BY <1>3, <1>4

\* A process that dies, or starts, has an empty gate.
LEMMA ResetsGate ==
    ASSUME NEW r \in Replicas,
           pendingSlots' = [pendingSlots EXCEPT ![r] = <<>>],
           \A q \in Replicas : Holding(q)' = IF q = r THEN {} ELSE Holding(q)
    PROVE  GateStep
<1>1. Gate!Reset(r) BY DEF Gate!Reset
<1> QED BY <1>1 DEF GateStep, Gate!GateNext

\* A copy stored under a free token is in nobody's hands.
LEMMA DepositStutters ==
    ASSUME IndInv, NEW e \in Exchanges, NEW m, NEW n, NEW st \in [Copies -> Stages],
           \A c \in Copies : \/ st[c] = stage[c]
                             \/ stage[c] \in Slotted /\ st[c] \in Slotted,
           Deposit(e, m, n, st), UNCHANGED <<holder, pendingSlots>>
    PROVE  GateStep
<1>1. TypeOK /\ Located BY DEF IndInv
<1>2. CASE route[e] = "nowhere"
  <2>1. stage' = st BY <1>2 DEF Deposit
  <2>2. \A r \in Replicas : Holding(r)' = Holding(r) BY <2>1 DEF Holding, Slotted
  <2> QED BY <2>2, GateStutters
<1>3. CASE route[e] # "nowhere"
  <2>1. /\ FreeCopy \in Copies /\ stage[FreeCopy] = "free"
        /\ stage' = [st EXCEPT ![FreeCopy] = route[e]]
    BY <1>3, FreeCopyIsFree DEF Deposit
  <2>2. holder[FreeCopy] = None
    BY <1>1, <2>1 DEF Located, InFlight, Slotted, TypeOK
  <2>3. \A r \in Replicas : Holding(r)' = Holding(r)
    BY <2>1, <2>2, SubscriberAssumption DEF Holding, Slotted
  <2> QED BY <2>3, GateStutters
<1> QED BY <1>2, <1>3

--------------------------------------------------------------------------------

\* A step of a copy is an enter, a wait, a hand-over or a stutter of its gate
\* ...
LEMMA CopyStepRefines ==
    ASSUME IndInv, NEW c \in Copies, CopyStep(c)
    PROVE  GateStep
<1>1. TypeOK /\ Located BY DEF IndInv
<1>2. CASE Expire(c)
  <2>1. holder[c] = None BY <1>1, <1>2 DEF Expire, Located, InFlight, Slotted, TypeOK
  <2>2. \A r \in Replicas : Holding(r)' = Holding(r)
    BY <1>1, <1>2, <2>1, SubscriberAssumption DEF Expire, Holding, TypeOK
  <2> QED BY <1>2, <2>2, GateStutters DEF Expire
<1>3. CASE BrokerSettles(c)
  <2>1. \A r \in Replicas : Holding(r)' = Holding(r)
    BY <1>1, <1>3, SubscriberAssumption DEF BrokerSettles, Holding, Slotted, TypeOK
  <2> QED BY <1>3, <2>1, GateStutters DEF BrokerSettles
<1>4. CASE HandlerSucceeds(c)
  BY <1>4, ReleaseLeaves DEF HandlerSucceeds, Slotted
<1>5. CASE HandlerFails(c)
  <2>1. \A r \in Replicas : Holding(r)' = Holding(r)
    BY <1>1, <1>5 DEF HandlerFails, Holding, Slotted, TypeOK
  <2> QED BY <1>5, <2>1, GateStutters DEF HandlerFails
<1>6. CASE HandlerFailsForGood(c)
  BY <1>6, ReleaseLeaves DEF HandlerFailsForGood, Slotted
<1>7. CASE BrokerTakesRetry(c)
  <2> DEFINE st == [stage EXCEPT ![c] = "retried"]
  <2>1. /\ st \in [Copies -> Stages]
        /\ \A d \in Copies : st[d] = stage[d] \/ (stage[d] \in Slotted /\ st[d] \in Slotted)
    BY <1>1, <1>7 DEF BrokerTakesRetry, Stages, Slotted, TypeOK
  <2>2. "retry" \in Exchanges /\ Deposit("retry", body[c], tries[c] + 1, st)
        /\ UNCHANGED <<holder, pendingSlots>>
    BY <1>7 DEF BrokerTakesRetry, Exchanges
  <2> HIDE DEF st
  <2> QED BY <2>1, <2>2, DepositStutters
<1>8. CASE BrokerTakesDead(c)
  <2> DEFINE st == [stage EXCEPT ![c] = "buried"]
  <2>1. /\ st \in [Copies -> Stages]
        /\ \A d \in Copies : st[d] = stage[d] \/ (stage[d] \in Slotted /\ st[d] \in Slotted)
    BY <1>1, <1>8 DEF BrokerTakesDead, Stages, Slotted, TypeOK
  <2>2. "dlx" \in Exchanges /\ Deposit("dlx", body[c], tries[c], st)
        /\ UNCHANGED <<holder, pendingSlots>>
    BY <1>8 DEF BrokerTakesDead, Exchanges
  <2> HIDE DEF st
  <2> QED BY <2>1, <2>2, DepositStutters
<1>9. CASE Confirmed(c)
  BY <1>9, ReleaseLeaves DEF Confirmed, Slotted
<1>10. CASE PublishRejected(c)
  BY <1>10, ReleaseLeaves DEF PublishRejected, Slotted
<1> QED
  BY <1>2, <1>3, <1>4, <1>5, <1>6, <1>7, <1>8, <1>9, <1>10 DEF CopyStep

\* ... every other step a reset or a stutter ...
LEMMA StepRefines == IndInv /\ [Next]_vars => GateStep
<1> SUFFICES ASSUME IndInv, [Next]_vars PROVE GateStep OBVIOUS
<1>1. TypeOK /\ Located /\ NoLostWakeup BY DEF IndInv
<1>2. CASE UNCHANGED vars BY <1>2, GateStutters DEF vars, Holding
<1>3. ASSUME NEW m \in Messages, Publish(m) PROVE GateStep
  BY <1>1, <1>3, DepositStutters DEF Publish, Exchanges, TypeOK
<1>4. ASSUME NEW r \in Replicas, Consume(r) PROVE GateStep
  <2>1. Holding(r) = {} BY <1>1, <1>4, SubscriberAssumption DEF Consume, Located, Holding
  <2>2. \A q \in Replicas : Holding(q)' = Holding(q) BY <1>4 DEF Consume, Holding
  <2> QED BY <1>4, <2>1, <2>2, ResetsGate DEF Consume
<1>5. ASSUME NEW r \in Replicas, BindMain(r) PROVE GateStep
  BY <1>5, GateStutters DEF BindMain, Holding
<1>6. ASSUME NEW r \in Replicas, NEW c \in Copies, Deliver(r, c) PROVE GateStep
  BY <1>6, DeliverEnters
<1>7. ASSUME NEW r \in Replicas, Crash(r) PROVE GateStep
  <2>1. \A q \in Replicas : Holding(q)' = IF q = r THEN {} ELSE Holding(q)
    BY <1>1, <1>7, SubscriberAssumption DEF Crash, Holding, Slotted, TypeOK
  <2> QED BY <1>7, <2>1, ResetsGate DEF Crash
<1>8. ASSUME NEW c \in Copies, CopyStep(c) PROVE GateStep BY <1>8, CopyStepRefines
<1> QED BY <1>2, <1>3, <1>4, <1>5, <1>6, <1>7, <1>8 DEF Next, ReplicaStep

\* ... and at first every gate is empty.
LEMMA InitRefines == Init => Gate!GateInit
BY SubscriberAssumption DEF Init, Gate!GateInit, Holding, Slotted

\* acquireSlot and releaseSlot of subscriber.ts implement the abstract
\* semaphore: first come first served, no overtaking, a slot is handed over in
\* the step that gives it up, through every retry, refusal and crash.
THEOREM GateImplements == Spec => GateRefined
<1>1. Spec => []IndInv BY GateAlways
<1> QED BY <1>1, InitRefines, StepRefines, PTL DEF Spec, GateRefined, GateStep, Gate!GateSpec
================================================================================
