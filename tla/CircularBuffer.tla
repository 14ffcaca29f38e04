--------------------------- MODULE CircularBuffer ---------------------------
(***************************************************************************)
(* piutils::circbuff::CircularBuffer as operators on its state, a record   *)
(* of the slots, the two indices and m_size. Every method holds the        *)
(* buffer's own mutex from beginning to end, so each operator is atomic.   *)
(***************************************************************************)
EXTENDS Integers, Sequences

CONSTANTS
  MaxSize,   (* max_size_                                                  *)
  Values,    (* what can be put                                            *)
  Empty,     (* a slot never written, or moved from                        *)
  Moves      (* TRUE when T leaves Empty behind when it is moved from      *)

ASSUME BufferAssumption ==
  /\ MaxSize \in Nat \ {0}
  /\ Empty \notin Values
  /\ Moves \in BOOLEAN

Slots == 0 .. MaxSize - 1

Buffers == [slots : [Slots -> Values \cup {Empty}],
            head : Slots, tail : Slots, size : 0..MaxSize]

NewBuffer == [slots |-> [i \in Slots |-> Empty], head |-> 0, tail |-> 0, size |-> 0]

Following(i) == IF i + 1 >= MaxSize THEN 0 ELSE i + 1

IsFull(b) == b.size = MaxSize
IsEmpty(b) == b.size = 0

(* Faulty variant: head_ is compared with tail_ before it moves.            *)
PutComparesFirst(b, v) ==
  IF IsFull(b) THEN b
  ELSE [slots |-> [b.slots EXCEPT ![b.head] = v],
        head  |-> Following(b.head),
        tail  |-> IF b.head = b.tail THEN Following(b.tail) ELSE b.tail,
        size  |-> b.size + 1]

(* put: dropped silently when full; filling the last slot moves tail_ past  *)
(* the oldest element.                                                      *)
Put(b, v) ==
  IF IsFull(b) THEN b
  ELSE [slots |-> [b.slots EXCEPT ![b.head] = v],
        head  |-> Following(b.head),
        tail  |-> IF Following(b.head) = b.tail THEN Following(b.tail) ELSE b.tail,
        size  |-> b.size + 1]

(* get returns the slot at tail_, of an empty buffer as well ...            *)
Got(b) == b.slots[b.tail]

(* ... from which it moves.                                                 *)
Get(b) ==
  [slots |-> IF Moves THEN [b.slots EXCEPT ![b.tail] = Empty] ELSE b.slots,
   head  |-> b.head,
   tail  |-> IF IsEmpty(b) THEN b.tail ELSE Following(b.tail),
   size  |-> IF IsEmpty(b) THEN 0 ELSE b.size - 1]

(* empty                                                                    *)
Clear(b) == [b EXCEPT !.tail = b.head, !.size = 0]
-----------------------------------------------------------------------------
(* The slots from tail_ on hold the elements of q in order, and head_ is    *)
(* behind the last one.                                                     *)
SlotFrom(i, k) == IF i + k < MaxSize THEN i + k ELSE i + k - MaxSize

HoldsInOrder(b, q) ==
  /\ Len(q) < MaxSize
  /\ b.head = SlotFrom(b.tail, Len(q))
  /\ \A k \in 1..Len(q) : b.slots[SlotFrom(b.tail, k - 1)] = q[k]
==============================================================================
