--------------------------- MODULE UniqueQueueOps ---------------------------
(***************************************************************************)
(* The ring buffer of crawler/uniquequeue.go as operators on a record      *)
(* [items, head, tail, size].  head is the slot the last Get read, tail    *)
(* the slot the last Put wrote, so the queued items are in the slots after *)
(* head up to and including tail, going round.                             *)
(*                                                                         *)
(* Every method of UniqueQueue holds the queue's mutex from its first      *)
(* statement to its return, so a call is one indivisible step: the         *)
(* operators below are the bodies of the calls.                            *)
(***************************************************************************)
EXTENDS Integers

CONSTANTS
  Capacity,   \* argument of NewUniqueQueue; QUEUE_CAP in the crawler
  Item,       \* the values callers put in the queue
  Zero        \* the zero value of T, which fills the slots of a new queue

ASSUME CapacityAssumption == Capacity \in Nat \ {0}
ASSUME ZeroAssumption == Zero \notin Item

Slot == 0 .. Capacity - 1

Queue ==
  [items : [Slot -> Item \cup {Zero}], head : Slot, tail : Slot, size : 0 .. Capacity]

NewUniqueQueue ==
  [items |-> [i \in Slot |-> Zero],
   head |-> Capacity - 1, tail |-> Capacity - 1, size |-> 0]

(* The slot after i and the slot before i, "circular indexing". *)
After(i) == IF i < Capacity - 1 THEN i + 1 ELSE 0

MutBefore(i) == i - 1

Before(i) == IF i <= 0 THEN Capacity - 1 ELSE i - 1

-----------------------------------------------------------------------------
(* The size bookkeeping.  Equal indices mean "empty" after an item left    *)
(* and "full" after one was added.                                         *)

MutDecSize(q) ==
  [q EXCEPT !.size = IF q.head = q.tail THEN Capacity
                     ELSE IF q.head <= q.tail THEN q.tail - q.head
                     ELSE Capacity + q.tail - q.head]

DecSize(q) ==
  [q EXCEPT !.size = IF q.head = q.tail THEN 0
                     ELSE IF q.head <= q.tail THEN q.tail - q.head
                     ELSE Capacity + q.tail - q.head]

MutIncSize(q) ==
  [q EXCEPT !.size = IF q.head = q.tail THEN Capacity ELSE q.tail - q.head]

(* The last branch counts one item too many: incSize adds 1 to the         *)
(* distance that decSize uses.                                             *)
IncSize(q) ==
  [q EXCEPT !.size = IF q.head = q.tail THEN Capacity
                     ELSE IF q.head <= q.tail THEN q.tail - q.head
                     ELSE Capacity + q.tail - q.head + 1]

-----------------------------------------------------------------------------
(* Get                                                                     *)

GetError(q) == IF q.size = 0 THEN "empty" ELSE "nil"

GetItem(q) == q.items[After(q.head)]

Get(q) == IF q.size = 0 THEN q ELSE DecSize([q EXCEPT !.head = After(@)])

-----------------------------------------------------------------------------
(* Put                                                                     *)

(* The slots Put compares the new item with.  When head <= tail it starts  *)
(* at head, which was read already, and stops before tail.                 *)
DupScan(q) ==
  IF q.head <= q.tail THEN q.head .. q.tail - 1
  ELSE (q.tail .. Capacity - 1) \cup (0 .. q.head - 1)

MutPutError(q, t) ==
  IF q.size > Capacity THEN "full"
  ELSE IF \E i \in DupScan(q) : q.items[i] = t THEN "duplicate"
  ELSE "nil"

PutError(q, t) ==
  IF q.size >= Capacity THEN "full"
  ELSE IF \E i \in DupScan(q) : q.items[i] = t THEN "duplicate"
  ELSE "nil"

Put(q, t) ==
  IF PutError(q, t) # "nil" THEN q
  ELSE LET w == After(q.tail)
       IN  IncSize([q EXCEPT !.tail = w, !.items = [@ EXCEPT ![w] = t]])

-----------------------------------------------------------------------------
(* Remove                                                                  *)

MutIndexScan(q) == Slot

IndexScan(q) ==
  IF q.head < q.tail THEN q.head .. q.tail - 1
  ELSE (q.head .. Capacity - 1) \cup (0 .. q.tail - 1)

(* How many slots past head the scan meets slot i. *)
ScanOrder(q, i) == IF i >= q.head THEN i - q.head ELSE i - q.head + Capacity

MissingIndex == -1

IndexOf(q, t) ==
  LET hits == {i \in IndexScan(q) : q.items[i] = t}
  IN  IF q.size = 0 \/ hits = {} THEN MissingIndex
      ELSE CHOOSE i \in hits : \A j \in hits : ScanOrder(q, i) <= ScanOrder(q, j)

(* items[j-1] = items[j] for j from first to last, 1 <= first. *)
ShiftDown(items, first, last) ==
  [k \in Slot |-> IF k + 1 \in first .. last THEN items[k + 1] ELSE items[k]]

(* The same loop starting at slot 0 brings items[0] to the last slot. *)
ShiftFront(items, first, last) ==
  IF first = 0
  THEN ShiftDown([items EXCEPT ![Capacity - 1] = items[0]], 1, last)
  ELSE ShiftDown(items, first, last)

(* Slot i is in neither part of the ring: remove() would panic. *)
Unreachable(q, i) == q.head >= q.tail /\ i < q.head /\ i > q.tail

(* The front-end branch starts at i, not i + 1: it overwrites the item in  *)
(* the slot before i and keeps the one at i.                               *)
CloseGap(q, i) ==
  IF q.head < q.tail THEN ShiftDown(q.items, i + 1, q.tail)
  ELSE IF i >= q.head THEN ShiftFront(ShiftDown(q.items, i + 1, Capacity - 1), 0, q.tail)
  ELSE ShiftFront(q.items, i, q.tail)

MutRemove(q, t) ==
  LET i == IndexOf(q, t)
  IN  IF i = MissingIndex THEN q
      ELSE DecSize([q EXCEPT !.items = CloseGap(q, i), !.tail = Before(@)])

Remove(q, t) ==
  LET i == IndexOf(q, t)
  IN  IF i = MissingIndex THEN q
      ELSE DecSize([q EXCEPT !.items = CloseGap(q, i),
                             !.head = IF i = q.head THEN Before(@) ELSE @,
                             !.tail = Before(@)])

-----------------------------------------------------------------------------
(* What a queue holds, oldest item first: an observer of the ring, used by *)
(* the properties only.                                                    *)

Count(q) ==
  IF q.size = 0 THEN 0
  ELSE IF q.head < q.tail THEN q.tail - q.head
  ELSE Capacity + q.tail - q.head

SlotAt(q, k) == IF q.head + k < Capacity THEN q.head + k ELSE q.head + k - Capacity

Contents(q) == [k \in 1 .. Count(q) |-> q.items[SlotAt(q, k)]]

(* size agrees with the indices up to the one item too many of IncSize. *)
SizeOK(q) ==
  /\ q.head = q.tail => q.size \in {0, Capacity}
  /\ q.head < q.tail => q.size = q.tail - q.head
  /\ q.head > q.tail => q.size \in {Capacity + q.tail - q.head,
                                    Capacity + q.tail - q.head + 1}

Holds(q, t) == \E k \in 1 .. Count(q) : q.items[SlotAt(q, k)] = t
=============================================================================
