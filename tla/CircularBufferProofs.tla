------------------------ MODULE CircularBufferProofs ------------------------
(***************************************************************************)
(* What put, get and empty of a circular buffer of any size do to its type *)
(* and, as long as not every slot is in use, to the order of its elements. *)
(***************************************************************************)
EXTENDS CircularBuffer, SequenceTheorems, TLAPS

(* Following stays inside the slots: it is the successor modulo MaxSize.    *)
LEMMA FollowingInSlots ==
  ASSUME NEW i \in Slots
  PROVE  /\ Following(i) \in Slots
         /\ Following(i) = IF i = MaxSize - 1 THEN 0 ELSE i + 1
BY BufferAssumption DEF Following, Slots

(* The n-th slot from i on is a slot, the one behind it is the next, and    *)
(* two of them differ.                                                      *)
LEMMA SlotInSlots ==
  ASSUME NEW i \in Slots, NEW n \in Nat, n < MaxSize
  PROVE  SlotFrom(i, n) \in Slots /\ SlotFrom(i, 0) = i
BY BufferAssumption DEF SlotFrom, Slots

LEMMA SlotFollows ==
  ASSUME NEW i \in Slots, NEW n \in Nat, n < MaxSize
  PROVE  Following(SlotFrom(i, n)) = SlotFrom(i, n + 1)
BY BufferAssumption DEF SlotFrom, Following, Slots

LEMMA SlotFromNext ==
  ASSUME NEW i \in Slots, NEW n \in Nat \ {0}, n < MaxSize
  PROVE  SlotFrom(Following(i), n - 1) = SlotFrom(i, n)
BY BufferAssumption DEF SlotFrom, Following, Slots

LEMMA SlotsDiffer ==
  ASSUME NEW i \in Slots, NEW n \in Nat, n < MaxSize, NEW k \in Nat, k < n
  PROVE  SlotFrom(i, k) # SlotFrom(i, n)
BY BufferAssumption DEF SlotFrom, Slots

(* put and get keep the type; what get returns was put, or is empty.        *)
LEMMA PutType ==
  ASSUME NEW c \in Buffers, NEW v \in Values
  PROVE  Put(c, v) \in Buffers
<1>1. c.head \in Slots /\ c.tail \in Slots /\ c.size \in 0..MaxSize
  BY DEF Buffers
<1>2. Following(c.head) \in Slots /\ Following(c.tail) \in Slots
  BY <1>1, FollowingInSlots
<1>3. [c.slots EXCEPT ![c.head] = v] \in [Slots -> Values \cup {Empty}]
  BY DEF Buffers
<1>4. ~IsFull(c) => c.size + 1 \in 0..MaxSize
  BY <1>1, BufferAssumption DEF IsFull
<1>5. QED
  BY <1>1, <1>2, <1>3, <1>4 DEF Put, Buffers

LEMMA GetType ==
  ASSUME NEW c \in Buffers
  PROVE  Get(c) \in Buffers /\ Got(c) \in Values \cup {Empty}
<1>1. c.head \in Slots /\ c.tail \in Slots /\ c.size \in 0..MaxSize
  BY DEF Buffers
<1>2. Following(c.tail) \in Slots
  BY <1>1, FollowingInSlots
<1>3. [c.slots EXCEPT ![c.tail] = Empty] \in [Slots -> Values \cup {Empty}]
  BY DEF Buffers
<1>4. ~IsEmpty(c) => c.size - 1 \in 0..MaxSize
  BY <1>1, BufferAssumption DEF IsEmpty
<1>5. 0 \in 0..MaxSize
  BY BufferAssumption
<1>6. Get(c) \in Buffers
  BY <1>1, <1>2, <1>3, <1>4, <1>5 DEF Get, Buffers
<1>7. QED
  BY <1>1, <1>6 DEF Got, Buffers

(* put appends to the elements, as long as a slot stays free ...            *)
LEMMA PutInOrder ==
  ASSUME NEW c \in Buffers, NEW v \in Values, NEW q \in Seq(Values),
         HoldsInOrder(c, q), c.size = Len(q), c.size + 1 < MaxSize
  PROVE  HoldsInOrder(Put(c, v), Append(q, v))
<1>1. /\ c.head \in Slots /\ c.tail \in Slots /\ c.size \in 0..MaxSize
      /\ MaxSize \in Nat \ {0} /\ Slots = 0 .. MaxSize - 1
      /\ c.slots \in [Slots -> Values \cup {Empty}]
  BY BufferAssumption DEF Buffers, Slots
<1>2. /\ Append(q, v) \in Seq(Values)
      /\ Len(Append(q, v)) = Len(q) + 1
      /\ \A k \in 1..Len(q) : Append(q, v)[k] = q[k]
      /\ Append(q, v)[Len(q) + 1] = v
  BY AppendProperties
<1>3. /\ Len(q) \in Nat /\ Len(q) < MaxSize
      /\ Len(q) + 1 \in Nat /\ Len(q) + 1 < MaxSize
  BY <1>1
<1>4. c.head = SlotFrom(c.tail, Len(q))
  BY DEF HoldsInOrder
<1>5. Following(c.head) = SlotFrom(c.tail, Len(q) + 1) /\ Following(c.head) # c.tail
  <2>1. Following(SlotFrom(c.tail, Len(q))) = SlotFrom(c.tail, Len(q) + 1)
    BY <1>1, <1>3, SlotFollows
  <2>2. SlotFrom(c.tail, 0) # SlotFrom(c.tail, Len(q) + 1)
    <3>1. 0 \in Nat /\ 0 < Len(q) + 1
      BY <1>3
    <3>2. QED
      BY <3>1, <1>1, <1>3, SlotsDiffer
  <2>3. SlotFrom(c.tail, 0) = c.tail
    BY <1>1, <1>3, SlotInSlots
  <2>4. QED
    BY <2>1, <2>2, <2>3, <1>4
<1>6. /\ Put(c, v).slots = [c.slots EXCEPT ![c.head] = v]
      /\ Put(c, v).head = Following(c.head) /\ Put(c, v).tail = c.tail
  <2>1. ~IsFull(c)
    BY <1>1 DEF IsFull
  <2>2. QED
    BY <2>1, <1>5 DEF Put
<1>7. ASSUME NEW k \in 1..Len(Append(q, v))
      PROVE  Put(c, v).slots[SlotFrom(c.tail, k - 1)] = Append(q, v)[k]
  <2>1. CASE k = Len(q) + 1
    <3>1. SlotFrom(c.tail, k - 1) = c.head
      <4>1. k - 1 = Len(q)
        BY <2>1, <1>3
      <4>2. QED
        BY <4>1, <1>4
    <3>2. QED
      BY <3>1, <2>1, <1>1, <1>2, <1>6
  <2>2. CASE k # Len(q) + 1
    <3>1. k \in 1..Len(q) /\ k - 1 \in Nat /\ k - 1 < Len(q) /\ k - 1 < MaxSize
      BY <2>2, <1>2, <1>3, <1>1
    <3>2. SlotFrom(c.tail, k - 1) \in Slots
      BY <3>1, <1>1, SlotInSlots
    <3>3. SlotFrom(c.tail, k - 1) # SlotFrom(c.tail, Len(q))
      BY <3>1, <1>1, <1>3, SlotsDiffer
    <3>4. c.slots[SlotFrom(c.tail, k - 1)] = q[k]
      BY <3>1 DEF HoldsInOrder
    <3>5. QED
      BY <3>1, <3>2, <3>3, <3>4, <1>1, <1>2, <1>4, <1>6
  <2>3. QED
    BY <2>1, <2>2
<1>8. Len(Append(q, v)) < MaxSize
  BY <1>2, <1>3
<1>9. Put(c, v).head = SlotFrom(c.tail, Len(Append(q, v)))
  BY <1>2, <1>5, <1>6
<1>10. QED
  BY <1>6, <1>7, <1>8, <1>9 DEF HoldsInOrder

(* ... get removes and returns the first one ...                            *)
LEMMA GetInOrder ==
  ASSUME NEW c \in Buffers, NEW q \in Seq(Values), q # <<>>, HoldsInOrder(c, q),
         c.size = Len(q)
  PROVE  Got(c) = Head(q) /\ HoldsInOrder(Get(c), Tail(q))
<1>1. /\ c.head \in Slots /\ c.tail \in Slots
      /\ MaxSize \in Nat \ {0} /\ Slots = 0 .. MaxSize - 1
      /\ c.slots \in [Slots -> Values \cup {Empty}]
  BY BufferAssumption DEF Buffers, Slots
<1>2. /\ Tail(q) \in Seq(Values) /\ Head(q) = q[1]
      /\ Len(Tail(q)) = Len(q) - 1
      /\ \A k \in 1..Len(Tail(q)) : Tail(q)[k] = q[k + 1]
  BY HeadTailProperties
<1>3. Len(q) \in Nat \ {0} /\ Len(q) < MaxSize
  <2>1. Len(q) \in Nat /\ Len(q) # 0
    BY EmptySeq
  <2>2. QED
    BY <2>1 DEF HoldsInOrder
<1>4. /\ Get(c).head = c.head /\ Get(c).tail = Following(c.tail)
      /\ Get(c).slots = c.slots \/ Get(c).slots = [c.slots EXCEPT ![c.tail] = Empty]
  <2>1. ~IsEmpty(c)
    BY <1>3 DEF IsEmpty
  <2>2. QED
    BY <2>1 DEF Get
<1>5. SlotFrom(c.tail, 0) = c.tail
  <2>1. 0 \in Nat /\ 0 < MaxSize
    BY <1>1
  <2>2. QED
    BY <2>1, <1>1, SlotInSlots
<1>6. Got(c) = Head(q)
  <2>1. 1 \in 1..Len(q) /\ 1 - 1 = 0
    BY <1>3
  <2>2. c.slots[SlotFrom(c.tail, 1 - 1)] = q[1]
    BY <2>1 DEF HoldsInOrder
  <2>3. QED
    BY <2>1, <2>2, <1>2, <1>5 DEF Got
<1>7. ASSUME NEW k \in 1..Len(q)
      PROVE  SlotFrom(Following(c.tail), k - 1) = SlotFrom(c.tail, k)
  <2>1. k \in Nat \ {0} /\ k < MaxSize
    BY <1>1, <1>3
  <2>2. QED
    BY <2>1, <1>1, SlotFromNext
<1>8. ASSUME NEW k \in 1..Len(Tail(q))
      PROVE  Get(c).slots[SlotFrom(Following(c.tail), k - 1)] = Tail(q)[k]
  <2>1. /\ k \in 1..Len(q) /\ k + 1 \in 1..Len(q) /\ k = (k + 1) - 1
        /\ k \in Nat /\ 0 < k /\ k < MaxSize
    BY <1>2, <1>3, <1>1
  <2>2. SlotFrom(c.tail, k) \in Slots
    BY <2>1, <1>1, SlotInSlots
  <2>3. SlotFrom(c.tail, k) # c.tail
    <3>1. 0 \in Nat
      OBVIOUS
    <3>2. SlotFrom(c.tail, 0) # SlotFrom(c.tail, k)
      BY <3>1, <2>1, <1>1, SlotsDiffer
    <3>3. QED
      BY <3>2, <1>5
  <2>4. c.slots[SlotFrom(c.tail, (k + 1) - 1)] = q[k + 1]
    BY <2>1 DEF HoldsInOrder
  <2>5. Get(c).slots[SlotFrom(c.tail, k)] = q[k + 1]
    BY <2>1, <2>2, <2>3, <2>4, <1>1, <1>4
  <2>6. QED
    BY <2>1, <2>5, <1>2, <1>7
<1>9. Len(Tail(q)) < MaxSize
  BY <1>1, <1>2, <1>3
<1>10. Get(c).head = SlotFrom(Following(c.tail), Len(Tail(q)))
  <2>1. Len(q) \in 1..Len(q)
    BY <1>3
  <2>2. QED
    BY <2>1, <1>2, <1>4, <1>7 DEF HoldsInOrder
<1>11. QED
  BY <1>4, <1>6, <1>8, <1>9, <1>10 DEF HoldsInOrder

(* ... and a buffer that was made, found empty or emptied holds none.       *)
LEMMA NoneInOrder ==
  ASSUME NEW c, c.head \in Slots, c.tail = c.head
  PROVE  HoldsInOrder(c, <<>>)
<1>1. MaxSize \in Nat \ {0} /\ Slots = 0 .. MaxSize - 1
  BY BufferAssumption DEF Slots
<1>2. c.head = SlotFrom(c.head, 0)
  BY <1>1 DEF SlotFrom
<1>3. QED
  BY <1>1, <1>2 DEF HoldsInOrder
==============================================================================
