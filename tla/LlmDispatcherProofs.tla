------------------------- MODULE LlmDispatcherProofs -------------------------
(***************************************************************************)
(* Theorems about LlmDispatcher, for any callers, users, classes and caps: *)
(* no slot is lost or released twice, no release forgets the queue, and a  *)
(* user's calls of one class leave the queue in the order they came.       *)
(***************************************************************************)
EXTENDS LlmDispatcher, FiniteSetTheorems, SequenceTheorems, TLAPS

-----------------------------------------------------------------------------
(* The inductive invariant *)

\* A caller in the queue is waiting, and is there once.
QueuedOnce ==
  /\ \A i \in DOMAIN waiting : pc[waiting[i].call] = "waiting"
  /\ \A i, j \in DOMAIN waiting : waiting[i].call = waiting[j].call => i = j

\* Aging only promotes, and the older of two waiters of one class at least as far.
AgedInOrder ==
  /\ \A i \in DOMAIN waiting : waiting[i].rank <= PriorityOf[waiting[i].call]
  /\ \A i, j \in DOMAIN waiting :
       i < j /\ PriorityOf[waiting[i].call] = PriorityOf[waiting[j].call]
         => waiting[i].rank <= waiting[j].rank

\* A stream has its slot until it ends.
StreamsHoldSlots == slot = {c \in Calls : pc[c] = "streaming"}

IInv ==
  /\ TypeOK /\ QueuedOnce /\ AgedInOrder /\ StreamsHoldSlots
  /\ SlotsCounted /\ NoLostWakeup

-----------------------------------------------------------------------------
(* Lemmas *)

\* The caps are positive numbers.
LEMMA CapsPositive == \A m \in Limits \ {0} : m \in Nat /\ m > 0
BY LimitsAssumption

\* What is left of a sequence without its element i.
LEMMA RemoveAtFacts ==
  ASSUME NEW S, NEW s \in Seq(S), NEW i \in DOMAIN s
  PROVE  /\ RemoveAt(s, i) \in Seq(S)
         /\ DOMAIN RemoveAt(s, i) = 1..(Len(s) - 1)
         /\ \A k \in 1..(Len(s) - 1) : RemoveAt(s, i)[k] = s[IF k < i THEN k ELSE k + 1]
<1> DEFINE a == SubSeq(s, 1, i - 1)
           b == SubSeq(s, i + 1, Len(s))
<1>1. i \in 1..Len(s) /\ Len(s) \in Nat
  OBVIOUS
<1>2. a \in Seq(S) /\ Len(a) = i - 1 /\ \A k \in 1..(i - 1) : a[k] = s[k]
  BY <1>1
<1>3. b \in Seq(S) /\ Len(b) = Len(s) - i /\ \A k \in 1..(Len(s) - i) : b[k] = s[i + k]
  BY <1>1
<1> HIDE DEF a, b
<1>4. /\ a \o b \in Seq(S) /\ Len(a \o b) = Len(a) + Len(b)
      /\ \A k \in 1..(Len(a) + Len(b)) : (a \o b)[k] = IF k <= Len(a) THEN a[k] ELSE b[k - Len(a)]
  BY <1>2, <1>3, ConcatProperties
<1>5. Len(a) + Len(b) = Len(s) - 1
  BY <1>1, <1>2, <1>3
<1>6. ASSUME NEW k \in 1..(Len(s) - 1)
      PROVE  (a \o b)[k] = s[IF k < i THEN k ELSE k + 1]
  <2>1. CASE k < i
    BY <1>1, <1>2, <1>4, <1>5, <2>1
  <2>2. CASE ~(k < i)
    <3>1. k - (i - 1) \in 1..(Len(s) - i) /\ i + (k - (i - 1)) = k + 1
      BY <1>1, <2>2
    <3>2. (a \o b)[k] = b[k - (i - 1)]
      BY <1>1, <1>2, <1>4, <1>5, <2>2, SMTT(30)
    <3> QED BY <1>3, <2>2, <3>1, <3>2
  <2> QED BY <2>1, <2>2
<1>7. RemoveAt(s, i) = a \o b
  BY DEF RemoveAt, a, b
<1>8. DOMAIN (a \o b) = 1..(Len(s) - 1)
  BY <1>4, <1>5
<1> QED BY <1>4, <1>6, <1>7, <1>8

\* An element of the queue.
LEMMA WaiterFields ==
  ASSUME waiting \in Seq(Waiters), NEW i \in DOMAIN waiting
  PROVE  waiting[i].call \in Calls /\ waiting[i].rank \in 0..2 /\ waiting[i] \in Waiters
<1>1. waiting[i] \in Waiters
  <2> HIDE DEF Waiters
  <2> QED OBVIOUS
<1> QED BY <1>1 DEF Waiters

\* Sets of callers are finite.
LEMMA CallersFinite ==
  ASSUME NEW T \in SUBSET Calls
  PROVE  IsFiniteSet(T) /\ Cardinality(T) \in Nat
BY CallsAssumption, FS_Subset, FS_CardinalityType

\* The position of a user among the users served, and the list once it is served again.
LEMMA GrantFacts ==
  ASSUME rr \in Seq(Users), NEW u \in Users
  PROVE  LastServed(u) \in 0..Len(rr) /\ grant(u) \in Seq(Users)
<1>1. LastServed(u) \in 0..Len(rr)
  BY DEF LastServed
<1> DEFINE rest == IF LastServed(u) = 0 THEN rr ELSE RemoveAt(rr, LastServed(u))
<1>2. rest \in Seq(Users)
  <2>1. CASE LastServed(u) = 0
    BY <2>1
  <2>2. CASE LastServed(u) # 0
    <3>1. LastServed(u) \in DOMAIN rr
      BY <1>1, <2>2
    <3> QED BY <2>2, <3>1, RemoveAtFacts
  <2> QED BY <2>1, <2>2
<1> HIDE DEF rest
<1>3. Append(rest, u) \in Seq(Users)
  BY <1>2
<1> QED BY <1>1, <1>3 DEF grant, rest

\* Nobody can be woken who holds a slot, and what a caller in the queue does next is to
\* be woken.
Kept(after) == \A c \in Calls : (after[c] = "waiting" <=> pc[c] = "waiting")
                                /\ (after[c] = "woken" <=> pc[c] = "woken")

\* Starting the next waiter, whatever the releasing call does: the queue stays in
\* order, and somebody is woken whenever somebody waits.
LEMMA PickNextStep ==
  ASSUME IInv, NEW after \in [Calls -> Pcs], Kept(after), PickNext(after)
  PROVE  /\ waiting' \in Seq(Waiters) /\ pc' \in [Calls -> Pcs]
         /\ QueuedOnce' /\ AgedInOrder'
         /\ \/ waiting' = <<>> /\ pc' = after
            \/ \E w \in Calls : pc[w] = "waiting" /\ pc' = [after EXCEPT ![w] = "woken"]
<1>1. CASE waiting = <<>> /\ pc' = after /\ UNCHANGED waiting
  BY <1>1 DEF IInv, TypeOK, QueuedOnce, AgedInOrder
<1>2. ASSUME NEW i \in DOMAIN waiting,
             waiting' = RemoveAt(waiting, i),
             pc' = [after EXCEPT ![waiting[i].call] = "woken"]
      PROVE  /\ waiting' \in Seq(Waiters) /\ pc' \in [Calls -> Pcs]
             /\ QueuedOnce' /\ AgedInOrder'
             /\ \E w \in Calls : pc[w] = "waiting" /\ pc' = [after EXCEPT ![w] = "woken"]
  <2> DEFINE n == Len(waiting) - 1
             at(k) == IF k < i THEN k ELSE k + 1
  <2>1. waiting \in Seq(Waiters) /\ i \in 1..Len(waiting) /\ Len(waiting) \in Nat
    BY DEF IInv, TypeOK
  <2>2. /\ waiting' \in Seq(Waiters) /\ DOMAIN waiting' = 1..n
        /\ \A k \in 1..n : waiting'[k] = waiting[at(k)]
    BY <1>2, <2>1, RemoveAtFacts
  <2>3. \A k \in 1..n : at(k) \in DOMAIN waiting /\ at(k) # i
    BY <2>1
  <2>4. \A k, l \in 1..n : k < l <=> at(k) < at(l)
    BY <2>1
  <2>5. waiting[i].call \in Calls /\ pc[waiting[i].call] = "waiting"
    BY <2>1, WaiterFields DEF IInv, QueuedOnce
  <2>6. pc' \in [Calls -> Pcs]
    BY <1>2, <2>5 DEF Pcs
  <2>7. \A k \in 1..n : pc'[waiting'[k].call] = "waiting"
    <3> SUFFICES ASSUME NEW k \in 1..n
                 PROVE  pc'[waiting'[k].call] = "waiting"
      OBVIOUS
    <3> DEFINE c == waiting[at(k)].call
    <3>1. waiting'[k].call = c /\ at(k) \in DOMAIN waiting /\ at(k) # i
      BY <2>2, <2>3
    <3>2. c \in Calls /\ pc[c] = "waiting" /\ c # waiting[i].call
      <4>1. QueuedOnce
        BY DEF IInv
      <4>2. pc[c] = "waiting" /\ c # waiting[i].call
        BY <3>1, <4>1 DEF QueuedOnce
      <4>3. c \in Calls
        BY <2>1, <3>1, WaiterFields
      <4> QED BY <4>2, <4>3
    <3> QED BY <1>2, <3>1, <3>2 DEF Kept
  <2>8. \A k, l \in 1..n : waiting'[k].call = waiting'[l].call => k = l
    <3> SUFFICES ASSUME NEW k \in 1..n, NEW l \in 1..n, waiting'[k].call = waiting'[l].call
                 PROVE  k = l
      OBVIOUS
    <3>1. at(k) = at(l)
      <4>1. QueuedOnce
        BY DEF IInv
      <4> QED BY <2>2, <2>3, <4>1 DEF QueuedOnce
    <3> QED BY <3>1, <2>1
  <2>9. QueuedOnce'
    BY <2>2, <2>7, <2>8 DEF QueuedOnce
  <2>10. AgedInOrder'
    <3>1. AgedInOrder
      BY DEF IInv
    <3>2. \A k \in 1..n : waiting'[k].rank <= PriorityOf[waiting'[k].call]
      BY <2>2, <2>3, <3>1 DEF AgedInOrder
    <3>3. ASSUME NEW k \in 1..n, NEW l \in 1..n, k < l,
                 PriorityOf[waiting'[k].call] = PriorityOf[waiting'[l].call]
          PROVE  waiting'[k].rank <= waiting'[l].rank
      <4>1. /\ waiting'[k] = waiting[at(k)] /\ waiting'[l] = waiting[at(l)]
            /\ at(k) \in DOMAIN waiting /\ at(l) \in DOMAIN waiting /\ at(k) < at(l)
        BY <2>2, <2>3, <2>4, <3>3
      <4> HIDE DEF at
      <4> QED BY <3>1, <3>3, <4>1 DEF AgedInOrder
    <3> QED BY <2>2, <3>2, <3>3 DEF AgedInOrder
  <2> QED BY <1>2, <2>2, <2>5, <2>6, <2>9, <2>10
<1> QED BY <1>1, <1>2 DEF PickNext

\* A slot is given back: the caller was counted once, and the next in the queue is woken.
LEMMA ReleaseStep ==
  ASSUME IInv, NEW c \in Holders, NEW s \in {"idle", "exhausted"},
         release([pc EXCEPT ![c] = s]), slot' = slot \ {c}, maxConcurrency' = maxConcurrency
  PROVE  IInv'
<1> DEFINE after == [pc EXCEPT ![c] = s]
<1>1. /\ c \in Calls /\ pc \in [Calls -> Pcs] /\ pc[c] \in {"running", "streaming"}
      /\ s \in Pcs /\ slot \in SUBSET Calls /\ active \in Nat
  BY DEF IInv, TypeOK, StreamsHoldSlots, Holders, Pcs
<1>2. after \in [Calls -> Pcs] /\ Kept(after)
  BY <1>1 DEF Kept
<1>3. /\ waiting' \in Seq(Waiters) /\ pc' \in [Calls -> Pcs] /\ QueuedOnce' /\ AgedInOrder'
      /\ \/ waiting' = <<>> /\ pc' = after
         \/ \E w \in Calls : pc[w] = "waiting" /\ pc' = [after EXCEPT ![w] = "woken"]
  BY <1>2, PickNextStep DEF release
<1>4. \A d \in Calls : /\ pc'[d] = "running" <=> d # c /\ pc[d] = "running"
                       /\ pc'[d] = "streaming" <=> d # c /\ pc[d] = "streaming"
  BY <1>1, <1>3
<1>5. Holders' = Holders \ {c}
  BY <1>1, <1>4 DEF Holders
<1>6. active' = active - 1 /\ Holders \in SUBSET Calls
  BY <1>1 DEF release, Holders
<1>7. SlotsCounted' /\ active' \in Nat
  <2>1. IsFiniteSet(Holders) /\ Cardinality(Holders) \in Nat
    BY <1>6, CallersFinite
  <2>2. Cardinality(Holders \ {c}) = Cardinality(Holders) - 1 /\ Cardinality(Holders \ {c}) \in Nat
    BY <2>1, FS_RemoveElement, FS_CardinalityType
  <2> QED BY <1>5, <1>6, <2>2 DEF IInv, SlotsCounted
<1>8. StreamsHoldSlots'
  BY <1>4 DEF IInv, StreamsHoldSlots
<1>9. NoLostWakeup'
  <2>1. CASE waiting' = <<>>
    BY <2>1 DEF NoLostWakeup
  <2>2. ASSUME NEW w \in Calls, pc[w] = "waiting", pc' = [after EXCEPT ![w] = "woken"]
        PROVE  NoLostWakeup'
    <3>1. Woken' = Woken \cup {w} /\ w \notin Woken
      BY <1>1, <2>2 DEF Woken
    <3>2. Cardinality(Woken') = Cardinality(Woken) + 1 /\ Cardinality(Woken) \in Nat
      <4>1. Woken \in SUBSET Calls
        BY DEF Woken
      <4> QED BY <3>1, <4>1, CallersFinite, FS_AddElement
    <3>3. active' + Cardinality(Woken') = active + Cardinality(Woken)
      BY <1>1, <1>6, <3>2
    <3>4. waiting # <<>>
      <4>1. CASE waiting = <<>>
        BY <1>1, <2>2, <4>1 DEF release, PickNext
      <4> QED BY <4>1
    <3> QED BY <3>3, <3>4 DEF IInv, NoLostWakeup
  <2> QED BY <1>3, <2>1, <2>2
<1>10. TypeOK'
  <2>1. rr \in Seq(Users) /\ rr' \in {rr, <<>>} /\ maxConcurrency \in Limits
    BY DEF release, IInv, TypeOK
  <2>2. rr' \in Seq(Users)
    BY <2>1, EmptySeq
  <2> QED BY <1>1, <1>3, <1>7, <2>1, <2>2 DEF TypeOK
<1> QED BY <1>3, <1>7, <1>8, <1>9, <1>10 DEF IInv

\* A slot is taken: one more is counted, and a woken waiter stops counting as woken.
LEMMA TakeSlotStep ==
  ASSUME IInv, NEW c \in Calls, pc[c] \in {"idle", "woken"}, TakeSlot(c)
  PROVE  IInv'
<1>1. /\ pc' = [pc EXCEPT ![c] = "running"] /\ active' = active + 1
      /\ maxConcurrency' = maxConcurrency /\ waiting' = waiting /\ slot' = slot
      /\ pc \in [Calls -> Pcs] /\ "running" \in Pcs /\ active \in Nat
      /\ waiting \in Seq(Waiters) /\ slot \in SUBSET Calls /\ maxConcurrency \in Limits
  BY DEF TakeSlot, IInv, TypeOK, Pcs
<1>2. TypeOK'
  <2>1. rr \in Seq(Users) /\ UserOf[c] \in Users /\ rr' = grant(UserOf[c])
    BY UserOfAssumption DEF TakeSlot, IInv, TypeOK
  <2>2. rr' \in Seq(Users)
    BY <2>1, GrantFacts
  <2> QED BY <1>1, <2>2 DEF TypeOK
<1>3. QueuedOnce' /\ AgedInOrder'
  <2>1. \A i \in DOMAIN waiting : pc'[waiting[i].call] = "waiting"
    BY <1>1, WaiterFields DEF IInv, QueuedOnce
  <2> QED BY <1>1, <2>1 DEF IInv, QueuedOnce, AgedInOrder
<1>4. StreamsHoldSlots'
  BY <1>1 DEF IInv, StreamsHoldSlots
<1>5. SlotsCounted'
  <2>1. Holders' = Holders \cup {c} /\ c \notin Holders /\ Holders \in SUBSET Calls
    BY <1>1 DEF Holders, IInv, StreamsHoldSlots
  <2>2. IsFiniteSet(Holders)
    BY <2>1, CallersFinite
  <2>3. Cardinality(Holders \cup {c}) = Cardinality(Holders) + 1
    BY <2>1, <2>2, FS_AddElement
  <2> QED BY <1>1, <2>1, <2>3 DEF IInv, SlotsCounted
<1>6. NoLostWakeup'
  <2>1. Woken' = Woken \ {c} /\ Woken \in SUBSET Calls
    BY <1>1 DEF Woken
  <2>2. IsFiniteSet(Woken) /\ Cardinality(Woken) \in Nat
    BY <2>1, CallersFinite
  <2>3. Cardinality(Woken') \in Nat /\ Cardinality(Woken') + 1 >= Cardinality(Woken)
    <3>1. Cardinality(Woken \ {c}) = IF c \in Woken THEN Cardinality(Woken) - 1
                                      ELSE Cardinality(Woken)
      BY <2>2, FS_RemoveElement
    <3>2. Cardinality(Woken \ {c}) \in Nat
      BY <2>2, FS_RemoveElement, FS_CardinalityType
    <3> QED BY <2>1, <2>2, <3>1, <3>2
  <2>4. SUFFICES ASSUME waiting # <<>>
                 PROVE  \E m \in Limits \ {0} : active' + Cardinality(Woken') >= m
    BY <1>1 DEF NoLostWakeup
  <2>5. PICK m \in Limits \ {0} : active + Cardinality(Woken) >= m
    BY <2>4 DEF IInv, NoLostWakeup
  <2> QED BY <1>1, <2>2, <2>3, <2>5, CapsPositive
<1> QED BY <1>2, <1>3, <1>4, <1>5, <1>6 DEF IInv

\* A call that arrives at the cap joins the end of the queue.
LEMMA EnqueueStep ==
  ASSUME IInv, NEW c \in Calls, Enqueue(c)
  PROVE  IInv'
<1> DEFINE w == [call |-> c, rank |-> PriorityOf[c]]
           n == Len(waiting)
<1>1. /\ pc' = [pc EXCEPT ![c] = "waiting"] /\ waiting' = Append(waiting, w)
      /\ pc[c] = "idle" /\ active >= maxConcurrency /\ maxConcurrency # 0
      /\ maxConcurrency' = maxConcurrency /\ active' = active /\ slot' = slot /\ rr' = rr
      /\ rr \in Seq(Users) /\ pc \in [Calls -> Pcs] /\ "waiting" \in Pcs /\ active \in Nat
      /\ waiting \in Seq(Waiters) /\ slot \in SUBSET Calls /\ maxConcurrency \in Limits
  BY DEF Enqueue, Gated, IInv, TypeOK, Pcs
<1>2. w \in Waiters /\ n \in Nat
  <2>1. PriorityOf[c] \in 0..2 /\ c \in Calls
    BY PriorityOfAssumption
  <2>2. w \in Waiters
    BY <2>1 DEF Waiters
  <2> QED BY <1>1, <2>2
<1>3. /\ waiting' \in Seq(Waiters) /\ DOMAIN waiting' = 1..(n + 1) /\ waiting'[n + 1] = w
      /\ \A i \in 1..n : waiting'[i] = waiting[i]
  <2> HIDE DEF w
  <2> QED BY <1>1, <1>2
<1>4. TypeOK'
  BY <1>1, <1>3 DEF TypeOK
<1>5. \A i \in 1..n : waiting[i].call \in Calls /\ waiting[i].call # c
                      /\ pc[waiting[i].call] = "waiting" /\ waiting[i].rank \in 0..2
  BY <1>1, WaiterFields DEF IInv, QueuedOnce
<1>6. QueuedOnce'
  <2>1. \A i \in 1..(n + 1) : pc'[waiting'[i].call] = "waiting"
    <3> SUFFICES ASSUME NEW i \in 1..(n + 1)
                 PROVE  pc'[waiting'[i].call] = "waiting"
      OBVIOUS
    <3>1. CASE i = n + 1
      BY <1>1, <1>3, <3>1
    <3>2. CASE i \in 1..n
      BY <1>1, <1>3, <1>5, <3>2
    <3> QED BY <1>2, <3>1, <3>2
  <2>2. \A i, j \in 1..(n + 1) : waiting'[i].call = waiting'[j].call => i = j
    <3>1. \A i, j \in 1..n : waiting[i].call = waiting[j].call => i = j
      BY <1>1 DEF IInv, QueuedOnce
    <3> QED BY <1>2, <1>3, <1>5, <3>1
  <2> QED BY <1>3, <2>1, <2>2 DEF QueuedOnce
<1>7. AgedInOrder'
  <2>1. \A i \in 1..n : waiting[i].rank <= PriorityOf[waiting[i].call]
    <3>1. AgedInOrder /\ DOMAIN waiting = 1..n
      BY <1>1 DEF IInv
    <3> QED BY <3>1 DEF AgedInOrder
  <2>2. \A i, j \in 1..n : i < j /\ PriorityOf[waiting[i].call] = PriorityOf[waiting[j].call]
                             => waiting[i].rank <= waiting[j].rank
    <3>1. AgedInOrder /\ DOMAIN waiting = 1..n
      BY <1>1 DEF IInv
    <3> QED BY <3>1 DEF AgedInOrder
  <2>3. PriorityOf[c] \in 0..2
    BY PriorityOfAssumption
  <2>4. \A i \in 1..(n + 1) : waiting'[i].rank <= PriorityOf[waiting'[i].call]
    BY <1>2, <1>3, <2>1, <2>3
  <2>5. \A i, j \in 1..(n + 1) :
          i < j /\ PriorityOf[waiting'[i].call] = PriorityOf[waiting'[j].call]
            => waiting'[i].rank <= waiting'[j].rank
    BY <1>2, <1>3, <2>1, <2>2, <2>3
  <2> QED BY <1>3, <2>4, <2>5 DEF AgedInOrder
<1>8. StreamsHoldSlots'
  BY <1>1 DEF IInv, StreamsHoldSlots
<1>9. SlotsCounted'
  <2>1. Holders' = Holders
    BY <1>1 DEF Holders
  <2> QED BY <1>1, <2>1 DEF IInv, SlotsCounted
<1>10. NoLostWakeup'
  <2>1. Woken' = Woken /\ Woken \in SUBSET Calls
    BY <1>1 DEF Woken
  <2>2. active' + Cardinality(Woken') >= maxConcurrency
    BY <1>1, <2>1, CallersFinite, CapsPositive
  <2>3. maxConcurrency \in Limits \ {0}
    BY <1>1
  <2> QED BY <2>2, <2>3 DEF NoLostWakeup
<1> QED BY <1>4, <1>6, <1>7, <1>8, <1>9, <1>10 DEF IInv

\* A waiter moves up a class, after the older ones of its class have.
LEMMA AgeStep ==
  ASSUME IInv, NEW i \in DOMAIN waiting, Age(i)
  PROVE  IInv'
<1> DEFINE n == Len(waiting)
           w == waiting[i]
<1>1. /\ pc' = pc /\ active' = active /\ slot' = slot /\ maxConcurrency' = maxConcurrency
      /\ rr' = rr /\ rr \in Seq(Users)
      /\ waiting' = [waiting EXCEPT ![i].rank = Promoted(w)]
      /\ w.rank > 0
      /\ \A j \in 1..(i - 1) : waiting[j].rank = 0
            \/ PriorityOf[waiting[j].call] - waiting[j].rank > PriorityOf[w.call] - w.rank
      /\ pc \in [Calls -> Pcs] /\ active \in Nat /\ i \in 1..n /\ n \in Nat
      /\ waiting \in Seq(Waiters) /\ slot \in SUBSET Calls /\ maxConcurrency \in Limits
  BY DEF Age, IInv, TypeOK
<1>2. w.call \in Calls /\ w.rank \in 0..2 /\ w \in Waiters /\ Promoted(w) = w.rank - 1
  BY <1>1, WaiterFields DEF Promoted
<1>3. /\ [w EXCEPT !.rank = w.rank - 1] \in Waiters
      /\ [w EXCEPT !.rank = w.rank - 1].call = w.call
      /\ [w EXCEPT !.rank = w.rank - 1].rank = w.rank - 1
  BY <1>1, <1>2, SMTT(30) DEF Waiters
<1>4. waiting' = [waiting EXCEPT ![i] = [w EXCEPT !.rank = w.rank - 1]]
  BY <1>1, <1>2
<1>5. /\ waiting' \in Seq(Waiters) /\ DOMAIN waiting' = 1..n
      /\ waiting'[i].call = w.call /\ waiting'[i].rank = w.rank - 1
      /\ \A j \in 1..n : j # i => waiting'[j] = waiting[j]
  <2> DEFINE v == [w EXCEPT !.rank = w.rank - 1]
  <2> HIDE DEF v
  <2>1. v \in Waiters /\ v.call = w.call /\ v.rank = w.rank - 1 /\ waiting' = [waiting EXCEPT ![i] = v]
    BY <1>3, <1>4 DEF v
  <2>2. waiting' \in Seq(Waiters) /\ Len(waiting') = n
        /\ \A j \in 1..n : waiting'[j] = IF j = i THEN v ELSE waiting[j]
    <3>1. waiting \in Seq(Waiters) /\ i \in 1..Len(waiting)
      BY <1>1
    <3> QED BY <2>1, <3>1, ExceptSeq
  <2> QED BY <1>1, <2>1, <2>2, SMTT(30)
<1>6. \A j \in 1..n : /\ waiting[j].call \in Calls /\ waiting[j].rank \in 0..2
                      /\ PriorityOf[waiting[j].call] \in 0..2
                      /\ waiting'[j].call = waiting[j].call
  BY <1>1, <1>5, WaiterFields, PriorityOfAssumption
<1>7. QueuedOnce'
  BY <1>1, <1>5, <1>6 DEF IInv, QueuedOnce
<1>8. AgedInOrder'
  <2>1. \A j \in 1..n : waiting[j].rank <= PriorityOf[waiting[j].call]
    <3>1. AgedInOrder /\ DOMAIN waiting = 1..n
      BY <1>1 DEF IInv
    <3> QED BY <3>1 DEF AgedInOrder
  <2>2. \A j, k \in 1..n : j < k /\ PriorityOf[waiting[j].call] = PriorityOf[waiting[k].call]
                             => waiting[j].rank <= waiting[k].rank
    <3>1. AgedInOrder /\ DOMAIN waiting = 1..n
      BY <1>1 DEF IInv
    <3> QED BY <3>1 DEF AgedInOrder
  <2>3. \A j \in 1..n : waiting'[j].rank <= PriorityOf[waiting'[j].call]
    BY <1>5, <1>6, <2>1
  <2>4. ASSUME NEW j \in 1..n, NEW k \in 1..n, j < k,
               PriorityOf[waiting'[j].call] = PriorityOf[waiting'[k].call]
        PROVE  waiting'[j].rank <= waiting'[k].rank
    <3>1. PriorityOf[waiting[j].call] = PriorityOf[waiting[k].call] /\ waiting[j].rank <= waiting[k].rank
      BY <1>6, <2>2, <2>4
    <3>2. CASE k = i
      <4>1. j \in 1..(i - 1) /\ waiting'[j] = waiting[j] /\ waiting'[k].rank = w.rank - 1
        BY <1>1, <1>5, <2>4, <3>2
      <4>2. waiting[j].rank = 0 \/ waiting[j].rank < w.rank
        <5>1. waiting[j].rank = 0
              \/ PriorityOf[waiting[j].call] - waiting[j].rank > PriorityOf[w.call] - w.rank
          BY <1>1, <4>1
        <5>2. PriorityOf[waiting[j].call] = PriorityOf[w.call] /\ PriorityOf[w.call] \in 0..2
              /\ waiting[j].rank \in 0..2
          BY <1>6, <3>1, <3>2
        <5> QED BY <1>2, <5>1, <5>2
      <4> QED BY <1>1, <1>2, <1>6, <4>1, <4>2
    <3>3. CASE k # i
      BY <1>5, <1>6, <3>1, <3>3
    <3> QED BY <3>2, <3>3
  <2> QED BY <1>5, <2>3, <2>4 DEF AgedInOrder
<1>9. TypeOK' /\ StreamsHoldSlots' /\ SlotsCounted'
  <2>1. Holders' = Holders
    BY <1>1 DEF Holders
  <2> QED BY <1>1, <1>5, <2>1 DEF IInv, TypeOK, StreamsHoldSlots, SlotsCounted
<1>10. NoLostWakeup'
  <2>1. waiting # <<>> /\ Woken' = Woken
    BY <1>1 DEF Woken
  <2> QED BY <1>1, <2>1 DEF IInv, NoLostWakeup
<1> QED BY <1>7, <1>8, <1>9, <1>10 DEF IInv

\* A fn that returns a stream keeps its slot; an edited config changes the cap only.
LEMMA OtherSteps ==
  ASSUME IInv,
         \/ \E c \in Calls : HandToStream(c)
         \/ \E m \in Limits : Register(m)
         \/ UNCHANGED vars
  PROVE  IInv'
<1>1. ASSUME NEW c \in Calls, HandToStream(c)
      PROVE  IInv'
  <2>1. /\ pc' = [pc EXCEPT ![c] = "streaming"] /\ pc[c] = "running" /\ slot' = slot \cup {c}
        /\ UNCHANGED <<maxConcurrency, active, waiting, rr>>
        /\ pc \in [Calls -> Pcs] /\ "streaming" \in Pcs /\ slot \in SUBSET Calls
        /\ waiting \in Seq(Waiters)
    BY <1>1 DEF HandToStream, IInv, TypeOK, Pcs
  <2>2. TypeOK'
    BY <2>1 DEF IInv, TypeOK
  <2>3. Holders' = Holders /\ Woken' = Woken
    BY <2>1 DEF Holders, Woken
  <2>4. StreamsHoldSlots'
    BY <2>1 DEF IInv, StreamsHoldSlots
  <2>5. \A i \in DOMAIN waiting : pc'[waiting[i].call] = "waiting"
    BY <2>1, WaiterFields DEF IInv, QueuedOnce
  <2>6. QueuedOnce' /\ AgedInOrder'
    BY <2>1, <2>5 DEF IInv, QueuedOnce, AgedInOrder
  <2> QED BY <2>1, <2>2, <2>3, <2>4, <2>6 DEF IInv, SlotsCounted, NoLostWakeup
<1>2. ASSUME NEW m \in Limits, Register(m)
      PROVE  IInv'
  BY <1>2 DEF Register, IInv, TypeOK, QueuedOnce, AgedInOrder, StreamsHoldSlots, SlotsCounted,
     NoLostWakeup, Holders, Woken
<1>3. ASSUME UNCHANGED vars
      PROVE  IInv'
  BY <1>3 DEF vars, IInv, TypeOK, QueuedOnce, AgedInOrder, StreamsHoldSlots, SlotsCounted,
     NoLostWakeup, Holders, Woken
<1> QED BY <1>1, <1>2, <1>3

\* done() of a stream's iterator: the slot goes back the first time, nothing the second.
LEMMA DoneStep ==
  ASSUME IInv, NEW c \in Calls, NEW s \in {"idle", "exhausted"},
         pc[c] \in {"streaming", "exhausted"}, Done(c, [pc EXCEPT ![c] = s]),
         maxConcurrency' = maxConcurrency
  PROVE  IInv'
<1>1. CASE c \in slot
  <2>1. c \in Holders
    BY <1>1 DEF Holders
  <2> QED BY <1>1, <2>1, ReleaseStep DEF Done
<1>2. CASE c \notin slot
  <2>1. /\ pc' = [pc EXCEPT ![c] = s] /\ slot' = slot
        /\ UNCHANGED <<maxConcurrency, active, waiting, rr>>
        /\ pc \in [Calls -> Pcs] /\ s \in Pcs /\ slot \in SUBSET Calls
        /\ waiting \in Seq(Waiters) /\ pc[c] = "exhausted"
    BY <1>2 DEF Done, IInv, TypeOK, Pcs, StreamsHoldSlots
  <2>2. TypeOK'
    BY <2>1 DEF IInv, TypeOK
  <2>3. Holders' = Holders /\ Woken' = Woken
    BY <2>1 DEF Holders, Woken
  <2>4. StreamsHoldSlots'
    BY <2>1 DEF IInv, StreamsHoldSlots
  <2>5. \A i \in DOMAIN waiting : pc'[waiting[i].call] = "waiting"
    BY <2>1, WaiterFields DEF IInv, QueuedOnce
  <2>6. QueuedOnce' /\ AgedInOrder'
    BY <2>1, <2>5 DEF IInv, QueuedOnce, AgedInOrder
  <2> QED BY <2>1, <2>2, <2>3, <2>4, <2>6 DEF IInv, SlotsCounted, NoLostWakeup
<1> QED BY <1>1, <1>2

-----------------------------------------------------------------------------
(* Safety *)

LEMMA InitInv == Init => IInv
<1> SUFFICES ASSUME Init
             PROVE  IInv
  OBVIOUS
<1>1. TypeOK
  BY EmptySeq DEF Init, TypeOK, Pcs
<1>2. QueuedOnce /\ AgedInOrder /\ NoLostWakeup
  BY DEF Init, QueuedOnce, AgedInOrder, NoLostWakeup
<1>3. StreamsHoldSlots /\ Holders = {}
  BY DEF Init, StreamsHoldSlots, Holders
<1>4. SlotsCounted
  BY <1>3, FS_EmptySet DEF Init, SlotsCounted
<1> QED BY <1>1, <1>2, <1>3, <1>4 DEF IInv

LEMMA StepInv ==
  ASSUME IInv, [Next]_vars
  PROVE  IInv'
<1>1. ASSUME NEW c \in Calls, Admit(c) \/ Resume(c)
      PROVE  IInv'
  BY <1>1, TakeSlotStep DEF Admit, Resume
<1>2. ASSUME NEW c \in Calls, Enqueue(c)
      PROVE  IInv'
  BY <1>2, EnqueueStep
<1>3. ASSUME NEW c \in Calls, Settle(c)
      PROVE  IInv'
  <2>1. c \in Holders /\ slot \ {c} = slot
    BY <1>3 DEF Settle, Holders, IInv, StreamsHoldSlots
  <2>2. release([pc EXCEPT ![c] = "idle"]) /\ slot' = slot \ {c} /\ maxConcurrency' = maxConcurrency
    BY <1>3, <2>1 DEF Settle
  <2> QED BY <2>1, <2>2, ReleaseStep
<1>4. ASSUME NEW c \in Calls, StreamEnds(c)
      PROVE  IInv'
  BY <1>4, DoneStep DEF StreamEnds
<1>5. ASSUME NEW c \in Calls, StreamLeft(c)
      PROVE  IInv'
  BY <1>5, DoneStep DEF StreamLeft
<1>6. ASSUME NEW i \in DOMAIN waiting, Age(i)
      PROVE  IInv'
  BY <1>6, AgeStep
<1>7. ASSUME \/ \E c \in Calls : HandToStream(c)
             \/ \E m \in Limits : Register(m)
             \/ UNCHANGED vars
      PROVE  IInv'
  BY <1>7, OtherSteps
<1> QED BY <1>1, <1>2, <1>3, <1>4, <1>5, <1>6, <1>7 DEF Next

\* The inductive invariant of the dispatcher holds in every state.
THEOREM Invariance == Spec => []IInv
<1> QED BY InitInv, StepInv, PTL DEF Spec

\* The state of the queue and of its callers has its type, in every reachable state.
THEOREM TypeCorrect == Spec => []TypeOK
<1>1. IInv => TypeOK
  BY DEF IInv
<1> QED BY <1>1, Invariance, PTL

\* Every slot counted in q.active has one caller that will give it back, and every such
\* caller is counted: schedule() and holdSlotUntilDone() neither leak nor free twice.
THEOREM NoSlotLeaks == Spec => []SlotsCounted
<1>1. IInv => SlotsCounted
  BY DEF IInv
<1> QED BY <1>1, Invariance, PTL

\* Whenever a call waits, the slots taken and those on their way to woken waiters fill
\* some cap: release() never leaves the queue to itself.
THEOREM QueueNotForgotten == Spec => []NoLostWakeup
<1>1. IInv => NoLostWakeup
  BY DEF IInv
<1> QED BY <1>1, Invariance, PTL

-----------------------------------------------------------------------------
(* The order of a user's calls *)

\* Of two waiters of one user and one class, pickNext never prefers the later.
LEMMA OlderFirst ==
  ASSUME IInv, NEW i \in DOMAIN waiting, NEW j \in DOMAIN waiting, i < j,
         UserOf[waiting[i].call] = UserOf[waiting[j].call],
         PriorityOf[waiting[i].call] = PriorityOf[waiting[j].call]
  PROVE  ~Before(j, i)
<1>1. waiting \in Seq(Waiters) /\ rr \in Seq(Users) /\ AgedInOrder /\ i \in Int /\ j \in Int
  BY DEF IInv, TypeOK
<1>2. waiting[i].rank \in 0..2 /\ waiting[j].rank \in 0..2 /\ waiting[i].call \in Calls
  BY <1>1, WaiterFields
<1>3. waiting[i].rank <= waiting[j].rank
  BY <1>1 DEF AgedInOrder
<1> DEFINE r == LastServed(UserOf[waiting[i].call])
<1>4. r \in 0..Len(rr) /\ Len(rr) \in Nat
  <2>1. UserOf[waiting[i].call] \in Users
    BY <1>2, UserOfAssumption
  <2> QED BY <1>1, <2>1, GrantFacts
<1>5. LastServed(UserOf[waiting[j].call]) = r
  OBVIOUS
<1> HIDE DEF r
<1>6. ~(waiting[j].rank < waiting[i].rank) /\ ~(r < r) /\ ~(j <= i)
  BY <1>1, <1>2, <1>3, <1>4
<1> QED BY <1>5, <1>6 DEF Before, r

\* When the next waiter is started, no waiter overtakes an older one of its user and class.
LEMMA PickNextInOrder ==
  ASSUME IInv, NEW after \in [Calls -> Pcs], Kept(after), PickNext(after),
         NEW i \in DOMAIN waiting, NEW j \in DOMAIN waiting, i < j,
         UserOf[waiting[i].call] = UserOf[waiting[j].call],
         PriorityOf[waiting[i].call] = PriorityOf[waiting[j].call]
  PROVE  pc'[waiting[j].call] = "waiting"
<1>1. /\ waiting[j].call \in Calls /\ pc[waiting[j].call] = "waiting"
      /\ after[waiting[j].call] = "waiting"
  BY WaiterFields DEF IInv, TypeOK, QueuedOnce, Kept
<1>2. CASE pc' = after
  BY <1>1, <1>2
<1>3. ASSUME NEW k \in DOMAIN waiting, \A l \in DOMAIN waiting : Before(k, l),
             pc' = [after EXCEPT ![waiting[k].call] = "woken"]
      PROVE  pc'[waiting[j].call] = "waiting"
  <2>1. k # j
    BY <1>3, OlderFirst
  <2>2. waiting[k].call # waiting[j].call
    BY <2>1 DEF IInv, QueuedOnce
  <2> QED BY <1>1, <1>3, <2>2
<1> QED BY <1>2, <1>3 DEF PickNext

LEMMA StepInOrder ==
  ASSUME IInv, Next,
         NEW i \in DOMAIN waiting, NEW j \in DOMAIN waiting, i < j,
         UserOf[waiting[i].call] = UserOf[waiting[j].call],
         PriorityOf[waiting[i].call] = PriorityOf[waiting[j].call]
  PROVE  pc'[waiting[j].call] = "waiting"
<1> DEFINE w == waiting[j].call
<1>1. w \in Calls /\ pc[w] = "waiting" /\ pc \in [Calls -> Pcs]
  BY WaiterFields DEF IInv, TypeOK, QueuedOnce
<1>2. ASSUME NEW c \in Calls, NEW s \in {"idle", "exhausted"},
             pc[c] \notin {"waiting", "woken"}, PickNext([pc EXCEPT ![c] = s])
      PROVE  pc'[w] = "waiting"
  <2>1. [pc EXCEPT ![c] = s] \in [Calls -> Pcs] /\ Kept([pc EXCEPT ![c] = s])
    BY <1>1, <1>2 DEF Kept, Pcs
  <2> QED BY <1>2, <2>1, PickNextInOrder
<1>3. ASSUME NEW c \in Calls, Admit(c) \/ Resume(c) \/ Enqueue(c) \/ HandToStream(c)
      PROVE  pc'[w] = "waiting"
  BY <1>1, <1>3 DEF Admit, Resume, TakeSlot, Enqueue, HandToStream
<1>4. ASSUME NEW c \in Calls, Settle(c)
      PROVE  pc'[w] = "waiting"
  BY <1>2, <1>4 DEF Settle, release
<1>5. ASSUME NEW c \in Calls, StreamEnds(c) \/ StreamLeft(c)
      PROVE  pc'[w] = "waiting"
  <2>1. PICK s \in {"idle", "exhausted"} : Done(c, [pc EXCEPT ![c] = s])
    BY <1>5 DEF StreamEnds, StreamLeft
  <2>2. pc[c] \in {"streaming", "exhausted"}
    BY <1>5 DEF StreamEnds, StreamLeft
  <2>3. CASE c \in slot
    BY <1>2, <2>1, <2>2, <2>3 DEF Done, release
  <2>4. CASE c \notin slot
    BY <1>1, <2>1, <2>2, <2>4 DEF Done
  <2> QED BY <2>3, <2>4
<1>6. ASSUME \/ \E m \in Limits : Register(m)
             \/ \E k \in DOMAIN waiting : Age(k)
      PROVE  pc'[w] = "waiting"
  BY <1>1, <1>6 DEF Register, Age
<1> QED BY <1>3, <1>4, <1>5, <1>6 DEF Next

\* A user's calls of one class leave the queue in the order they came, however they age
\* and whoever is served between: the effective ranks of pickNext never cross.
THEOREM InOrder == Spec => FifoPerUser
<1>1. ASSUME IInv, [Next]_vars
      PROVE  [\A i, j \in DOMAIN waiting :
                LET v == waiting[i].call  w == waiting[j].call IN
                i < j /\ UserOf[v] = UserOf[w] /\ PriorityOf[v] = PriorityOf[w]
                  => (pc'[w] = "waiting" \/ pc'[v] # "waiting")]_vars
  BY <1>1, StepInOrder
<1> QED BY <1>1, Invariance, PTL DEF Spec, FifoPerUser
=============================================================================
