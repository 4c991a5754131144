----------------------- MODULE UniqueQueueOps_proofs -----------------------
(***************************************************************************)
(* What the calls of the ring buffer of crawler/uniquequeue.go keep, for   *)
(* every capacity and every set of items.                                  *)
(***************************************************************************)
EXTENDS UniqueQueueOps, SequenceTheorems, WellFoundedInduction, TLAPS

USE CapacityAssumption

-----------------------------------------------------------------------------
(* Facts about the indices and the size.                                   *)

(* Going round the ring stays in the slice. *)
LEMMA SlotStep ==
  ASSUME NEW i \in Slot
  PROVE  After(i) \in Slot /\ Before(i) \in Slot
  BY DEF Slot, After, Before

(* decSize leaves a well formed queue with a size that fits its indices. *)
LEMMA DecSizeOK ==
  ASSUME NEW p \in Queue
  PROVE  DecSize(p) \in Queue /\ SizeOK(DecSize(p))
  BY DEF DecSize, Queue, SizeOK, Slot

(* incSize does too, with the one item too many when the ring wraps. *)
LEMMA IncSizeOK ==
  ASSUME NEW p \in Queue
  PROVE  IncSize(p) \in Queue /\ SizeOK(IncSize(p))
  BY DEF IncSize, Queue, SizeOK, Slot

-----------------------------------------------------------------------------
(* The search of indexOf: the scan meets slots in the order ScanOrder, so  *)
(* among the slots that hold t there is a first one.                       *)

(* Every set of numbers that is not empty has a least one. *)
LEMMA LeastNatural ==
  ASSUME NEW S \in SUBSET Nat, S # {}
  PROVE  \E m \in S : \A n \in S : m <= n
<1>1. PICK m \in S : \A n \in S : ~(<<n, m>> \in OpToRel(<, Nat))
  BY WFMin, NatLessThanWellFounded
<1>2. \A n \in S : ~(n < m)
  BY <1>1 DEF OpToRel
<1>3. QED
  BY <1>2

(* indexOf returns a slot of the scan that holds the value. *)
LEMMA IndexOfInScan ==
  ASSUME NEW p \in Queue, NEW t
  PROVE  \/ IndexOf(p, t) = MissingIndex
         \/ /\ p.size # 0
            /\ IndexOf(p, t) \in IndexScan(p)
            /\ p.items[IndexOf(p, t)] = t
<1> DEFINE hits == {i \in IndexScan(p) : p.items[i] = t}
           orders == {ScanOrder(p, i) : i \in hits}
<1>1. CASE p.size = 0 \/ hits = {}
  BY <1>1 DEF IndexOf
<1>2. CASE p.size # 0 /\ hits # {}
  <2>1. hits \subseteq Slot
    BY DEF IndexScan, Queue, Slot
  <2>2. orders \in SUBSET Nat /\ orders # {}
    BY <1>2, <2>1 DEF ScanOrder, Queue, Slot
  <2>3. PICK m \in orders : \A n \in orders : m <= n
    BY <2>2, LeastNatural
  <2>4. \E i \in hits : \A j \in hits : ScanOrder(p, i) <= ScanOrder(p, j)
    BY <2>3
  <2>5. IndexOf(p, t) = CHOOSE i \in hits : \A j \in hits : ScanOrder(p, i) <= ScanOrder(p, j)
    BY <1>2 DEF IndexOf
  <2>6. IndexOf(p, t) \in hits
    BY <2>4, <2>5
  <2>7. QED
    BY <1>2, <2>6
<1>3. QED
  BY <1>1, <1>2

-----------------------------------------------------------------------------
(* The calls keep the queue well formed and its size in step.              *)

(* Get leaves a well formed queue with a size that fits its indices. *)
LEMMA GetOK ==
  ASSUME NEW p \in Queue, SizeOK(p)
  PROVE  Get(p) \in Queue /\ SizeOK(Get(p))
<1> DEFINE moved == [p EXCEPT !.head = After(@)]
<1>1. moved \in Queue
  BY SlotStep DEF Queue
<1>2. QED
  BY <1>1, DecSizeOK DEF Get

(* Put does. *)
LEMMA PutOK ==
  ASSUME NEW p \in Queue, SizeOK(p), NEW t \in Item
  PROVE  Put(p, t) \in Queue /\ SizeOK(Put(p, t))
<1> DEFINE w == After(p.tail)
           written == [p EXCEPT !.tail = w, !.items = [@ EXCEPT ![w] = t]]
<1>1. written \in Queue
  <2>1. w \in Slot
    BY SlotStep DEF Queue
  <2>2. [p.items EXCEPT ![w] = t] \in [Slot -> Item \cup {Zero}]
    BY <2>1 DEF Queue
  <2>3. QED
    BY <2>1, <2>2 DEF Queue
<1>2. QED
  BY <1>1, IncSizeOK DEF Put

(* The loops of remove() move values between slots and make up none. *)
LEMMA ShiftDownType ==
  ASSUME NEW V, NEW items \in [Slot -> V], NEW first \in Nat \ {0}, NEW last \in Slot
  PROVE  ShiftDown(items, first, last) \in [Slot -> V]
  BY DEF ShiftDown, Slot

(* Nor does the loop that may wrap. *)
LEMMA ShiftFrontType ==
  ASSUME NEW V, NEW items \in [Slot -> V], NEW first \in Nat, NEW last \in Slot
  PROVE  ShiftFront(items, first, last) \in [Slot -> V]
<1> DEFINE wrapped == [items EXCEPT ![Capacity - 1] = items[0]]
<1>1. wrapped \in [Slot -> V]
  BY DEF Slot
<1>2. CASE first = 0
  <2>1. ShiftDown(wrapped, 1, last) \in [Slot -> V]
    <3> HIDE DEF wrapped
    <3>1. 1 \in Nat \ {0}
      OBVIOUS
    <3>2. QED
      BY <1>1, <3>1, ShiftDownType
  <2>2. QED
    BY <1>2, <2>1 DEF ShiftFront
<1>3. CASE first # 0
  BY <1>3, ShiftDownType DEF ShiftFront
<1>4. QED
  BY <1>2, <1>3

(* So closing the gap at any slot fills slots with values of the slice. *)
LEMMA CloseGapType ==
  ASSUME NEW p \in Queue, NEW i \in Slot, NEW V, p.items \in [Slot -> V]
  PROVE  CloseGap(p, i) \in [Slot -> V]
<1>1. /\ p.items \in [Slot -> V]
      /\ p.tail \in Slot
      /\ Capacity - 1 \in Slot
      /\ i \in Nat /\ i + 1 \in Nat \ {0}
  BY DEF Queue, Slot
<1>2. QED
  BY <1>1, ShiftDownType, ShiftFrontType DEF CloseGap

(* Remove leaves a well formed queue, whatever value it is asked to remove. *)
LEMMA RemoveOK ==
  ASSUME NEW p \in Queue, SizeOK(p), NEW t
  PROVE  Remove(p, t) \in Queue /\ SizeOK(Remove(p, t))
<1> DEFINE i == IndexOf(p, t)
           closed == [p EXCEPT !.items = CloseGap(p, i),
                               !.head = IF i = p.head THEN Before(@) ELSE @,
                               !.tail = Before(@)]
<1>1. CASE i = MissingIndex
  BY <1>1 DEF Remove
<1>2. CASE i # MissingIndex
  <2>1. i \in Slot
    BY <1>2, IndexOfInScan DEF IndexScan, Queue, Slot
  <2>2. closed \in Queue
    BY <2>1, CloseGapType, SlotStep DEF Queue
  <2>3. Remove(p, t) = DecSize(closed)
    BY <1>2 DEF Remove
  <2>4. QED
    BY <2>2, <2>3, DecSizeOK
<1>3. QED
  BY <1>1, <1>2
-----------------------------------------------------------------------------
(* Starting points and results.                                            *)

(* A new queue is well formed. *)
LEMMA NewOK == NewUniqueQueue \in Queue /\ SizeOK(NewUniqueQueue)
  BY DEF NewUniqueQueue, Queue, SizeOK, Slot

(* A queue whose size is positive returns a value of the slice. *)
LEMMA GetItemType ==
  ASSUME NEW p \in Queue
  PROVE  GetItem(p) \in Item \cup {Zero}
  BY SlotStep DEF GetItem, Queue

-----------------------------------------------------------------------------
(* Where the values in the slice come from.                                *)
Values(p) == {p.items[i] : i \in Slot}

(* Put writes the new item, and only if it does not refuse it. *)
LEMMA PutValues ==
  ASSUME NEW p \in Queue, NEW t \in Item
  PROVE  Values(Put(p, t)) \subseteq Values(p) \cup (IF PutError(p, t) = "nil" THEN {t} ELSE {})
<1> DEFINE w == After(p.tail)
           written == [p EXCEPT !.tail = w, !.items = [@ EXCEPT ![w] = t]]
<1>1. CASE PutError(p, t) # "nil"
  BY <1>1 DEF Put
<1>2. CASE PutError(p, t) = "nil"
  <2>1. written.items = [p.items EXCEPT ![w] = t]
    BY DEF Queue
  <2>2. Put(p, t) = IncSize(written)
    BY <1>2 DEF Put
  <2>3. IncSize(written).items = written.items
    <3>1. written \in [items : {[p.items EXCEPT ![w] = t]}, head : Slot, tail : {w}, size : 0 .. Capacity]
      BY DEF Queue
    <3>2. QED
      BY <3>1 DEF IncSize
  <2>4. \A i \in Slot : Put(p, t).items[i] \in Values(p) \cup {t}
    BY <2>1, <2>2, <2>3 DEF Values, Queue
  <2>5. QED
    BY <1>2, <2>4 DEF Values
<1>3. QED
  BY <1>1, <1>2

(* Get leaves the slice as it is. *)
LEMMA GetValues ==
  ASSUME NEW p \in Queue
  PROVE  Values(Get(p)) = Values(p) /\ GetItem(p) \in Values(p)
<1>1. Get(p).items = p.items
  BY DEF Get, DecSize, Queue
<1>2. QED
  BY <1>1, SlotStep DEF Values, GetItem, Queue

(* Remove only moves values about. *)
LEMMA RemoveValues ==
  ASSUME NEW p \in Queue, NEW t
  PROVE  Values(Remove(p, t)) \subseteq Values(p)
<1> DEFINE i == IndexOf(p, t)
           closed == [p EXCEPT !.items = CloseGap(p, i),
                               !.head = IF i = p.head THEN Before(@) ELSE @,
                               !.tail = Before(@)]
<1>1. CASE i = MissingIndex
  BY <1>1 DEF Remove
<1>2. CASE i # MissingIndex
  <2>1. i \in Slot
    BY <1>2, IndexOfInScan DEF IndexScan, Queue, Slot
  <2>2. p.items \in [Slot -> Values(p)]
    BY DEF Queue, Values
  <2>3. CloseGap(p, i) \in [Slot -> Values(p)]
    BY <2>1, <2>2, CloseGapType
  <2>4. DecSize(closed).items = CloseGap(p, i)
    BY DEF DecSize, Queue
  <2>5. Remove(p, t) = DecSize(closed)
    BY <1>2 DEF Remove
  <2>6. QED
    BY <2>3, <2>4, <2>5 DEF Values
<1>3. QED
  BY <1>1, <1>2

-----------------------------------------------------------------------------
(* What the calls do to the queued items, in the order they came: first    *)
(* their places in the slice.                                              *)

(* How far tail is ahead of head, a full turn if they are equal. *)
Ahead(head, tail) == IF head < tail THEN tail - head ELSE Capacity + tail - head

(* A queue is empty if its size says so; then the indices are equal. *)
LEMMA CountFacts ==
  ASSUME NEW p \in Queue, SizeOK(p)
  PROVE  /\ Count(p) \in 0 .. Capacity
         /\ p.size = 0 => Count(p) = 0 /\ p.head = p.tail
         /\ p.size # 0 => Count(p) = Ahead(p.head, p.tail) /\ Count(p) >= 1
         /\ p.size # 0 /\ p.head = p.tail => Count(p) = Capacity
<1>1. p.head \in Slot /\ p.tail \in Slot /\ p.size \in Nat
  BY DEF Queue
<1>2. QED
  BY <1>1 DEF SizeOK, Count, Slot, Ahead

(* The queued items lie in slots of the ring. *)
LEMMA SlotAtType ==
  ASSUME NEW p \in Queue, SizeOK(p), NEW k \in 1 .. Count(p)
  PROVE  SlotAt(p, k) \in Slot
<1>1. p.head \in Slot /\ Count(p) \in 0 .. Capacity
  BY CountFacts DEF Queue
<1>2. QED
  BY <1>1 DEF Slot, SlotAt

(* Contents is the sequence of those items. *)
LEMMA ContentsSeq ==
  ASSUME NEW p \in Queue, SizeOK(p)
  PROVE  /\ Contents(p) \in Seq(Item \cup {Zero})
         /\ Len(Contents(p)) = Count(p)
         /\ \A k \in 1 .. Count(p) : Contents(p)[k] = p.items[SlotAt(p, k)]
<1>1. Count(p) \in Nat
  BY CountFacts
<1>2. \A k \in 1 .. Count(p) : p.items[SlotAt(p, k)] \in Item \cup {Zero}
  BY SlotAtType DEF Queue
<1>3. Contents(p) \in [1 .. Count(p) -> Item \cup {Zero}]
  BY <1>2 DEF Contents
<1>4. QED
  BY <1>1, <1>3 DEF Contents

(* A sequence with the same items in the same places is the same sequence. *)
LEMMA SameContents ==
  ASSUME NEW p \in Queue, SizeOK(p), NEW s \in Seq(Item \cup {Zero}), Len(s) = Count(p),
         \A k \in 1 .. Count(p) : p.items[SlotAt(p, k)] = s[k]
  PROVE  Contents(p) = s
<1>1. /\ Contents(p) \in Seq(Item \cup {Zero}) /\ Len(Contents(p)) = Len(s)
      /\ \A k \in 1 .. Len(Contents(p)) : Contents(p)[k] = s[k]
  BY ContentsSeq
<1>2. QED
  BY <1>1, SeqEqual

(* What decSize leaves. *)
LEMMA DecSizeFields ==
  ASSUME NEW p \in Queue
  PROVE  /\ DecSize(p).items = p.items
         /\ DecSize(p).head = p.head /\ DecSize(p).tail = p.tail
         /\ Count(DecSize(p)) = IF p.head = p.tail THEN 0 ELSE Ahead(p.head, p.tail)
<1> DEFINE size == IF p.head = p.tail THEN 0
                   ELSE IF p.head <= p.tail THEN p.tail - p.head
                   ELSE Capacity + p.tail - p.head
<1>1. DecSize(p) = [items |-> p.items, head |-> p.head, tail |-> p.tail, size |-> size]
  BY DEF DecSize, Queue
<1> HIDE DEF size
<1>2. /\ DecSize(p).items = p.items
      /\ DecSize(p).head = p.head /\ DecSize(p).tail = p.tail
      /\ DecSize(p).size = size
  BY <1>1
<1>3. p.head \in Slot /\ p.tail \in Slot
  BY DEF Queue
<1>4. QED
  BY <1>2, <1>3 DEF Count, Ahead, size, Slot

(* What incSize leaves: never an empty queue. *)
LEMMA IncSizeFields ==
  ASSUME NEW p \in Queue
  PROVE  /\ IncSize(p).items = p.items
         /\ IncSize(p).head = p.head /\ IncSize(p).tail = p.tail
         /\ Count(IncSize(p)) = Ahead(p.head, p.tail)
<1> DEFINE size == IF p.head = p.tail THEN Capacity
                   ELSE IF p.head <= p.tail THEN p.tail - p.head
                   ELSE Capacity + p.tail - p.head + 1
<1>1. IncSize(p) = [items |-> p.items, head |-> p.head, tail |-> p.tail, size |-> size]
  BY DEF IncSize, Queue
<1> HIDE DEF size
<1>2. /\ IncSize(p).items = p.items
      /\ IncSize(p).head = p.head /\ IncSize(p).tail = p.tail
      /\ IncSize(p).size = size
  BY <1>1
<1>3. p.head \in Slot /\ p.tail \in Slot
  BY DEF Queue
<1>4. size # 0
  BY <1>3 DEF size, Slot
<1>5. QED
  BY <1>2, <1>3, <1>4 DEF Count, Ahead, Slot

(* An item that Put accepts goes after the last one, which leaves room. *)
LEMMA PutAppends ==
  ASSUME NEW p \in Queue, SizeOK(p), NEW t \in Item, PutError(p, t) = "nil"
  PROVE  /\ Count(p) < Capacity
         /\ Contents(Put(p, t)) = Append(Contents(p), t)
<1> DEFINE w == After(p.tail)
           written == [p EXCEPT !.tail = w, !.items = [@ EXCEPT ![w] = t]]
           r == Put(p, t)
           n == Count(p)
<1>1. p.head \in Slot /\ p.tail \in Slot /\ w \in Slot /\ p.items \in [Slot -> Item \cup {Zero}]
  BY SlotStep DEF Queue
<1>2. p.size < Capacity /\ p.size \in Nat
  BY DEF PutError, Queue
<1>3. n \in 0 .. Capacity - 1
  BY <1>1, <1>2, CountFacts DEF SizeOK, Ahead, Slot
<1>4. written \in Queue
  BY <1>1 DEF Queue
<1>5. written.items = [p.items EXCEPT ![w] = t] /\ written.head = p.head /\ written.tail = w
  BY DEF Queue
<1>6. r = IncSize(written)
  BY DEF Put
<1> HIDE DEF written
<1>7. r.items = [p.items EXCEPT ![w] = t] /\ r.head = p.head /\ Count(r) = Ahead(p.head, w)
  BY <1>4, <1>5, <1>6, IncSizeFields
<1>8. Count(r) = n + 1
  <2>1. CASE p.size = 0
    <3>1. n = 0 /\ p.head = p.tail
      BY <2>1, CountFacts
    <3>2. QED
      BY <1>1, <1>7, <3>1 DEF Ahead, After, Slot
  <2>2. CASE p.size # 0
    <3>1. n = Ahead(p.head, p.tail) /\ p.head # p.tail
      BY <1>2, <2>2, CountFacts DEF SizeOK
    <3>2. \A h, e \in Slot : h # e => Ahead(h, After(e)) = Ahead(h, e) + 1
      BY DEF Ahead, After, Slot
    <3> HIDE DEF n
    <3>3. QED
      BY <1>1, <1>7, <3>1, <3>2
  <2>3. QED
    BY <2>1, <2>2
<1>9. SlotAt(p, n + 1) = w
  <2>1. CASE p.size = 0
    <3>1. n = 0 /\ p.head = p.tail
      BY <2>1, CountFacts
    <3>2. QED
      BY <1>1, <3>1 DEF SlotAt, After, Slot
  <2>2. CASE p.size # 0
    <3>1. n = Ahead(p.head, p.tail)
      BY <2>2, CountFacts
    <3>2. \A h, e \in Slot : \A m \in Nat :
            h # e /\ m = Ahead(h, e) =>
              After(e) = IF h + (m + 1) < Capacity THEN h + (m + 1) ELSE h + (m + 1) - Capacity
      BY DEF Ahead, After, Slot
    <3>3. p.head # p.tail
      BY <1>2, <2>2 DEF SizeOK
    <3> HIDE DEF n
    <3>4. QED
      BY <1>1, <1>3, <3>1, <3>2, <3>3 DEF SlotAt
  <2>3. QED
    BY <2>1, <2>2
<1>10. \A k \in 1 .. n : SlotAt(p, k) # SlotAt(p, n + 1) /\ SlotAt(p, k) \in Slot
  BY <1>1, <1>3 DEF SlotAt, Slot
<1> HIDE DEF w, r, n
<1>11. \A k \in 1 .. n : r.items[SlotAt(p, k)] = p.items[SlotAt(p, k)]
  BY <1>1, <1>7, <1>9, <1>10
<1>12. r.items[SlotAt(p, n + 1)] = t
  BY <1>1, <1>7, <1>9
<1>13. \A k \in 1 .. n + 1 : SlotAt(r, k) = SlotAt(p, k)
  BY <1>7 DEF SlotAt
<1>14. r \in Queue /\ SizeOK(r)
  BY PutOK DEF r
<1>15. /\ Contents(p) \in Seq(Item \cup {Zero}) /\ Len(Contents(p)) = n
       /\ \A k \in 1 .. n : Contents(p)[k] = p.items[SlotAt(p, k)]
  BY ContentsSeq DEF n
<1> DEFINE s == Append(Contents(p), t)
<1>16. /\ s \in Seq(Item \cup {Zero}) /\ Len(s) = n + 1
       /\ \A k \in 1 .. n : s[k] = Contents(p)[k]
       /\ s[n + 1] = t
  <2>1. t \in Item \cup {Zero}
    OBVIOUS
  <2>2. QED
    BY <1>15, <2>1, AppendProperties
<1> HIDE DEF s
<1>17. \A k \in 1 .. n + 1 : r.items[SlotAt(r, k)] = s[k]
  <2>1. \A k \in 1 .. n + 1 : k \in 1 .. n \/ k = n + 1
    BY <1>3
  <2>2. QED
    BY <1>11, <1>12, <1>13, <1>15, <1>16, <2>1
<1>18. Contents(r) = s
  BY <1>8, <1>14, <1>16, <1>17, SameContents
<1>19. QED
  BY <1>3, <1>18 DEF r, n, s

(* Put refuses items only if the queue has some, and is full only if at    *)
(* most one place is free.                                                 *)
LEMMA PutRefuses ==
  ASSUME NEW p \in Queue, SizeOK(p), NEW t
  PROVE  /\ PutError(p, t) \in {"nil", "full", "duplicate"}
         /\ PutError(p, t) # "nil" => Count(p) > 0 /\ Put(p, t) = p
         /\ PutError(p, t) = "full" => Count(p) >= Capacity - 1
<1>1. p.head \in Slot /\ p.tail \in Slot /\ p.size \in 0 .. Capacity
  BY DEF Queue
<1>2. PutError(p, t) \in {"nil", "full", "duplicate"}
  BY DEF PutError
<1>3. CASE PutError(p, t) = "full"
  <2>1. p.size = Capacity
    BY <1>1, <1>3 DEF PutError
  <2>2. Count(p) = Ahead(p.head, p.tail) /\ Count(p) >= 1
    BY <2>1, CountFacts
  <2>3. Ahead(p.head, p.tail) >= Capacity - 1
    BY <1>1, <2>1 DEF SizeOK, Ahead, Slot
  <2>4. Count(p) > 0 /\ Count(p) >= Capacity - 1
    <3>1. Count(p) \in Nat
      BY CountFacts
    <3>2. QED
      BY <2>2, <2>3, <3>1
  <2>5. Put(p, t) = p
    BY <1>3 DEF Put
  <2>6. QED
    BY <1>2, <2>4, <2>5
<1>4. CASE PutError(p, t) = "duplicate"
  <2>1. DupScan(p) # {}
    BY <1>4 DEF PutError
  <2>2. p.head # p.tail
    BY <1>1, <2>1 DEF DupScan, Slot
  <2>3. Count(p) \in Nat /\ Count(p) # 0
    BY <2>2, CountFacts
  <2>4. QED
    BY <1>2, <1>4, <2>3 DEF Put
<1>5. QED
  BY <1>2, <1>3, <1>4

(* An empty queue holds nothing. *)
LEMMA EmptyContents ==
  ASSUME NEW p, Count(p) = 0
  PROVE  Contents(p) = <<>>
  BY DEF Contents

(* Get takes the oldest item. *)
LEMMA GetTakesFirst ==
  ASSUME NEW p \in Queue, SizeOK(p), p.size # 0
  PROVE  /\ Contents(p) # <<>>
         /\ GetItem(p) = Head(Contents(p))
         /\ Contents(Get(p)) = Tail(Contents(p))
<1> DEFINE moved == [p EXCEPT !.head = After(@)]
           r == Get(p)
           n == Count(p)
           s == Contents(p)
<1>1. p.head \in Slot /\ p.tail \in Slot /\ After(p.head) \in Slot
  BY SlotStep DEF Queue
<1>2. moved \in Queue
  BY <1>1 DEF Queue
<1>3. moved.items = p.items /\ moved.head = After(p.head) /\ moved.tail = p.tail
  BY DEF Queue
<1>4. r = DecSize(moved)
  BY DEF Get
<1> HIDE DEF moved
<1>5. /\ r.items = p.items /\ r.head = After(p.head)
      /\ Count(r) = IF After(p.head) = p.tail THEN 0 ELSE Ahead(After(p.head), p.tail)
  BY <1>2, <1>3, <1>4, DecSizeFields
<1>6. n = Ahead(p.head, p.tail) /\ n \in Nat /\ n >= 1 /\ n <= Capacity
  BY CountFacts
<1>7. s \in Seq(Item \cup {Zero}) /\ Len(s) = n /\ \A k \in 1 .. n : s[k] = p.items[SlotAt(p, k)]
  BY ContentsSeq
<1> HIDE DEF n, s, r
<1>8. Count(r) = n - 1
  <2>1. \A h, e \in Slot :
          (IF After(h) = e THEN 0 ELSE Ahead(After(h), e)) = Ahead(h, e) - 1
    BY DEF Ahead, After, Slot
  <2>2. QED
    BY <1>1, <1>5, <1>6, <2>1
<1>9. SlotAt(p, 1) = After(p.head)
  BY <1>1 DEF SlotAt, After, Slot
<1>10. s # <<>> /\ Head(s) = s[1] /\ 1 \in 1 .. n
  BY <1>6, <1>7
<1>11. GetItem(p) = Head(s)
  BY <1>7, <1>9, <1>10 DEF GetItem
<1>12. r \in Queue /\ SizeOK(r)
  BY GetOK DEF r
<1>13. /\ Tail(s) \in Seq(Item \cup {Zero}) /\ Len(Tail(s)) = n - 1
       /\ \A k \in 1 .. n - 1 : Tail(s)[k] = s[k + 1]
  BY <1>7, <1>10, HeadTailProperties
<1>14. \A k \in 1 .. n - 1 : SlotAt(r, k) = SlotAt(p, k + 1) /\ k + 1 \in 1 .. n
  <2>1. \A h \in Slot : \A k \in 1 .. n - 1 :
          (IF After(h) + k < Capacity THEN After(h) + k ELSE After(h) + k - Capacity)
            = IF h + (k + 1) < Capacity THEN h + (k + 1) ELSE h + (k + 1) - Capacity
    BY <1>6 DEF After, Slot
  <2>2. \A k \in 1 .. n - 1 : k + 1 \in 1 .. n
    BY <1>6
  <2>3. QED
    BY <1>1, <1>5, <2>1, <2>2 DEF SlotAt
<1>15. Contents(r) = Tail(s)
  <2>1. \A k \in 1 .. n - 1 : r.items[SlotAt(r, k)] = Tail(s)[k]
    BY <1>5, <1>7, <1>13, <1>14
  <2>2. QED
    BY <1>8, <1>12, <1>13, <2>1, SameContents
<1>16. QED
  BY <1>10, <1>11, <1>15 DEF r, s

-----------------------------------------------------------------------------
(* What remove() does to the slots, and to the queued items.               *)

(* The loop of remove() brings the item of a slot one slot down. *)
LEMMA ShiftDownAt ==
  ASSUME NEW items, NEW first, NEW last, NEW k \in Slot
  PROVE  ShiftDown(items, first, last)[k] =
           IF k + 1 \in first .. last THEN items[k + 1] ELSE items[k]
  BY DEF ShiftDown

(* A queue that does not wrap: the items after the gap move down. *)
LEMMA CloseGapStraight ==
  ASSUME NEW p \in Queue, p.head < p.tail, NEW i \in p.head .. p.tail - 1, NEW k \in Slot
  PROVE  CloseGap(p, i)[k] = IF k \in i .. p.tail - 1 THEN p.items[k + 1] ELSE p.items[k]
<1>1. p.head \in Nat /\ p.tail \in Nat /\ k \in Nat
  BY DEF Queue, Slot
<1>2. CloseGap(p, i) = ShiftDown(p.items, i + 1, p.tail)
  BY DEF CloseGap
<1>3. k + 1 \in i + 1 .. p.tail <=> k \in i .. p.tail - 1
  BY <1>1
<1>4. QED
  BY <1>2, <1>3, ShiftDownAt

(* A gap before the end of the slice in a queue that wraps: the items      *)
(* after it move down, the one in slot 0 to the last slot.                 *)
LEMMA CloseGapBack ==
  ASSUME NEW p \in Queue, p.head >= p.tail, NEW i \in p.head .. Capacity - 1, i # p.tail,
         NEW k \in Slot
  PROVE  CloseGap(p, i)[k] =
           IF k = Capacity - 1 THEN p.items[0]
           ELSE IF k \in i .. Capacity - 2 \/ k \in 0 .. p.tail - 1 THEN p.items[k + 1]
           ELSE p.items[k]
<1> DEFINE items == p.items
           down == ShiftDown(items, i + 1, Capacity - 1)
           wrapped == [down EXCEPT ![Capacity - 1] = down[0]]
           e == p.tail
<1>1. p.head \in Slot /\ e \in Slot /\ i \in Slot /\ i > e
  BY DEF Queue, Slot
<1> HIDE DEF e, items
<1>2. CloseGap(p, i) = ShiftDown(wrapped, 1, e)
  BY <1>1 DEF CloseGap, ShiftFront, e, items, Slot
<1>3. \A j \in Slot : down[j] = IF j + 1 \in i + 1 .. Capacity - 1 THEN items[j + 1] ELSE items[j]
  BY ShiftDownAt
<1>4. down = [j \in Slot |-> down[j]]
  BY DEF ShiftDown
<1> HIDE DEF down
<1>5. 0 \in Slot /\ Capacity - 1 \in Slot
  BY DEF Slot
<1>6. down[0] = items[0]
  <2>1. ~(0 + 1 \in i + 1 .. Capacity - 1)
    BY <1>1 DEF Slot
  <2>2. QED
    BY <1>3, <1>5, <2>1
<1>7. \A j \in Slot : wrapped[j] = IF j = Capacity - 1 THEN items[0] ELSE down[j]
  BY <1>4, <1>5, <1>6
<1> HIDE DEF wrapped
<1>8. ShiftDown(wrapped, 1, e)[k] = IF k + 1 \in 1 .. e THEN wrapped[k + 1] ELSE wrapped[k]
  BY ShiftDownAt
<1>9. CASE k \in 0 .. e - 1
  <2>1. /\ k + 1 \in 1 .. e /\ k + 1 \in Slot /\ k + 1 # Capacity - 1 /\ k # Capacity - 1
        /\ ~(k + 1 + 1 \in i + 1 .. Capacity - 1)
    BY <1>1, <1>9 DEF Slot
  <2>2. wrapped[k + 1] = items[k + 1]
    BY <1>3, <1>7, <2>1
  <2>3. QED
    BY <1>2, <1>8, <1>9, <2>1, <2>2 DEF e, items
<1>10. CASE k = Capacity - 1
  <2>1. ~(k + 1 \in 1 .. e)
    BY <1>1, <1>10 DEF Slot
  <2>2. QED
    BY <1>2, <1>5, <1>7, <1>8, <1>10, <2>1 DEF items
<1>11. CASE k \notin 0 .. e - 1 /\ k # Capacity - 1
  <2>1. ~(k + 1 \in 1 .. e)
    BY <1>1, <1>11 DEF Slot
  <2>2. k + 1 \in i + 1 .. Capacity - 1 <=> k \in i .. Capacity - 2
    BY <1>1 DEF Slot
  <2>3. QED
    BY <1>2, <1>3, <1>7, <1>8, <1>11, <2>1, <2>2 DEF e, items
<1>12. QED
  BY <1>9, <1>10, <1>11

(* A gap at the front of the slice: the items from the gap on move down,   *)
(* the one in the gap over the one before it.                              *)
LEMMA CloseGapFront ==
  ASSUME NEW p \in Queue, p.head >= p.tail, NEW i \in 0 .. p.tail - 1, NEW k \in Slot
  PROVE  CloseGap(p, i)[k] =
           IF i = 0 /\ k = Capacity - 1 THEN p.items[0]
           ELSE IF k \in i - 1 .. p.tail - 1
                THEN IF i = 0 /\ k + 1 = Capacity - 1 THEN p.items[0] ELSE p.items[k + 1]
           ELSE p.items[k]
<1> DEFINE items == p.items
           e == p.tail
           wrapped == [items EXCEPT ![Capacity - 1] = items[0]]
<1>1. p.head \in Slot /\ e \in Slot /\ i \in Slot /\ i < p.head /\ i < e /\ ~(p.head < p.tail)
  BY DEF Queue, Slot
<1>2. items = [j \in Slot |-> items[j]]
  BY DEF Queue
<1>3. 0 \in Slot /\ Capacity - 1 \in Slot
  BY DEF Slot
<1>4. CloseGap(p, i) = ShiftFront(items, i, e)
  BY <1>1 DEF CloseGap, Slot
<1> HIDE DEF items, e
<1>5. CASE i = 0
  <2>1. CloseGap(p, i) = ShiftDown(wrapped, 1, e)
    BY <1>4, <1>5 DEF ShiftFront
  <2>2. \A j \in Slot : wrapped[j] = IF j = Capacity - 1 THEN items[0] ELSE items[j]
    BY <1>2, <1>3
  <2> HIDE DEF wrapped
  <2>3. CloseGap(p, i)[k] = IF k + 1 \in 1 .. e THEN wrapped[k + 1] ELSE wrapped[k]
    BY <2>1, ShiftDownAt
  <2>4. CASE k \in 0 .. e - 1
    <3>1. k + 1 \in 1 .. e /\ k + 1 \in Slot /\ k # Capacity - 1 /\ k \in i - 1 .. e - 1
      BY <1>1, <1>5, <2>4 DEF Slot
    <3>2. QED
      BY <1>5, <2>2, <2>3, <3>1 DEF items, e
  <2>5. CASE k \notin 0 .. e - 1
    <3>1. ~(k + 1 \in 1 .. e) /\ k \notin i - 1 .. e - 1
      BY <1>1, <1>5, <2>5 DEF Slot
    <3>2. QED
      BY <1>5, <2>2, <2>3, <3>1 DEF items, e
  <2>6. QED
    BY <2>4, <2>5
<1>6. CASE i # 0
  <2>1. CloseGap(p, i) = ShiftDown(items, i, e)
    BY <1>4, <1>6 DEF ShiftFront
  <2>2. CloseGap(p, i)[k] = IF k + 1 \in i .. e THEN items[k + 1] ELSE items[k]
    BY <2>1, ShiftDownAt
  <2>3. k + 1 \in i .. e <=> k \in i - 1 .. e - 1
    BY <1>1 DEF Slot
  <2>4. QED
    BY <1>6, <2>2, <2>3 DEF items, e
<1>7. QED
  BY <1>5, <1>6

(* The slots of the queued items follow each other round the ring. *)
LEMMA NextSlot ==
  ASSUME NEW p \in Queue, SizeOK(p), NEW j \in 1 .. Count(p) - 1
  PROVE  /\ SlotAt(p, j) \in Slot
         /\ SlotAt(p, j + 1) = IF SlotAt(p, j) = Capacity - 1 THEN 0 ELSE SlotAt(p, j) + 1
<1> DEFINE h == p.head
           m == SlotAt(p, j)
<1>1. h \in Slot /\ Count(p) \in 0 .. Capacity
  BY CountFacts DEF Queue
<1>2. /\ SlotAt(p, j + 1) = IF h + (j + 1) < Capacity THEN h + (j + 1) ELSE h + (j + 1) - Capacity
      /\ m = IF h + j < Capacity THEN h + j ELSE h + j - Capacity
  BY DEF SlotAt
<1> HIDE DEF h, m
<1>3. h + j \in Nat /\ h + j <= 2 * Capacity - 2 /\ h + (j + 1) = (h + j) + 1
  BY <1>1 DEF Slot
<1>4. m \in Slot /\ SlotAt(p, j + 1) = IF m = Capacity - 1 THEN 0 ELSE m + 1
  BY <1>1, <1>2, <1>3 DEF Slot
<1>5. QED
  BY <1>4 DEF m

(* What Remove leaves when it finds the value in slot i. *)
LEMMA RemoveFields ==
  ASSUME NEW p \in Queue, SizeOK(p), NEW t, NEW i, i = IndexOf(p, t), i # MissingIndex
  PROVE  /\ p.size # 0 /\ i \in Slot /\ i \in IndexScan(p)
         /\ Remove(p, t) \in Queue /\ SizeOK(Remove(p, t))
         /\ Remove(p, t).items = CloseGap(p, i)
         /\ Remove(p, t).head = (IF i = p.head THEN Before(p.head) ELSE p.head)
         /\ Count(Remove(p, t)) = IF Remove(p, t).head = Before(p.tail) THEN 0
                                  ELSE Ahead(Remove(p, t).head, Before(p.tail))
<1> DEFINE closed == [p EXCEPT !.items = CloseGap(p, i),
                               !.head = IF i = p.head THEN Before(@) ELSE @,
                               !.tail = Before(@)]
<1>1. p.size # 0 /\ i \in Slot /\ i \in IndexScan(p)
  BY IndexOfInScan DEF IndexScan, Queue, Slot
<1>2. closed \in Queue
  BY <1>1, CloseGapType, SlotStep DEF Queue
<1>3. /\ closed.items = CloseGap(p, i)
      /\ closed.head = (IF i = p.head THEN Before(p.head) ELSE p.head)
      /\ closed.tail = Before(p.tail)
  BY DEF Queue
<1>4. Remove(p, t) = DecSize(closed)
  BY DEF Remove
<1>5. Remove(p, t) \in Queue /\ SizeOK(Remove(p, t))
  BY RemoveOK
<1> HIDE DEF closed
<1>6. /\ Remove(p, t).items = closed.items /\ Remove(p, t).head = closed.head
      /\ Count(Remove(p, t)) = IF closed.head = closed.tail THEN 0 ELSE Ahead(closed.head, closed.tail)
  BY <1>2, <1>4, DecSizeFields
<1>7. QED
  BY <1>1, <1>3, <1>5, <1>6

(* A sequence without the item at position k. *)
DropAt(s, k) == SubSeq(s, 1, k - 1) \o SubSeq(s, k + 1, Len(s))

LEMMA DropAtItems ==
  ASSUME NEW S, NEW s \in Seq(S), NEW k \in 1 .. Len(s)
  PROVE  /\ DropAt(s, k) \in Seq(S) /\ Len(DropAt(s, k)) = Len(s) - 1
         /\ \A j \in 1 .. Len(s) - 1 : DropAt(s, k)[j] = IF j < k THEN s[j] ELSE s[j + 1]
<1> DEFINE n == Len(s)
           a == SubSeq(s, 1, k - 1)
           b == SubSeq(s, k + 1, n)
<1>1. n \in Nat /\ \A j \in 1 .. n : s[j] \in S
  OBVIOUS
<1> HIDE DEF n
<1>2. k \in 1 .. n
  BY DEF n
<1>3. /\ a \in Seq(S) /\ Len(a) = k - 1
      /\ \A j \in 1 .. k - 1 : a[j] = s[j]
  <2>1. 1 \in Int /\ k - 1 \in Int /\ \A j \in 1 .. k - 1 : s[j] \in S
    BY <1>1, <1>2
  <2>2. /\ a \in Seq(S) /\ Len(a) = (IF 1 <= k - 1 THEN k - 1 - 1 + 1 ELSE 0)
        /\ \A j \in 1 .. k - 1 - 1 + 1 : a[j] = s[1 + j - 1]
    BY <2>1, SubSeqProperties
  <2>3. (IF 1 <= k - 1 THEN k - 1 - 1 + 1 ELSE 0) = k - 1 /\ k - 1 - 1 + 1 = k - 1
    BY <1>1, <1>2
  <2>4. \A j \in 1 .. k - 1 : 1 + j - 1 = j
    OBVIOUS
  <2> HIDE DEF a
  <2>5. QED
    BY <2>2, <2>3, <2>4
<1>4. /\ b \in Seq(S) /\ Len(b) = n - k
      /\ \A j \in 1 .. n - k : b[j] = s[k + j]
  <2>1. k + 1 \in Int /\ n \in Int /\ \A j \in k + 1 .. n : s[j] \in S
    BY <1>1, <1>2
  <2>2. /\ b \in Seq(S) /\ Len(b) = (IF k + 1 <= n THEN n - (k + 1) + 1 ELSE 0)
        /\ \A j \in 1 .. n - (k + 1) + 1 : b[j] = s[k + 1 + j - 1]
    BY <2>1, SubSeqProperties
  <2>3. (IF k + 1 <= n THEN n - (k + 1) + 1 ELSE 0) = n - k /\ n - (k + 1) + 1 = n - k
    BY <1>1, <1>2
  <2>4. \A j \in 1 .. n - k : k + 1 + j - 1 = k + j
    BY <1>1, <1>2
  <2> HIDE DEF b
  <2>5. QED
    BY <2>2, <2>3, <2>4
<1>5. DropAt(s, k) = a \o b
  BY DEF DropAt, n
<1> HIDE DEF a, b
<1>6. /\ a \o b \in Seq(S) /\ Len(a \o b) = k - 1 + (n - k)
      /\ \A j \in 1 .. k - 1 + (n - k) : (a \o b)[j] = IF j <= k - 1 THEN a[j] ELSE b[j - (k - 1)]
  <2>1. a \in Seq(S) /\ b \in Seq(S)
    BY <1>3, <1>4
  <2>2. /\ a \o b \in Seq(S) /\ Len(a \o b) = Len(a) + Len(b)
        /\ \A j \in 1 .. Len(a) + Len(b) : (a \o b)[j] = IF j <= Len(a) THEN a[j] ELSE b[j - Len(a)]
    BY <2>1, ConcatProperties
  <2>3. Len(a) = k - 1 /\ Len(b) = n - k
    BY <1>3, <1>4
  <2>4. QED
    BY <2>2, <2>3
<1>7. k - 1 + (n - k) = n - 1
  BY <1>1, <1>2
<1>8. ASSUME NEW j \in 1 .. n - 1
      PROVE  (a \o b)[j] = IF j < k THEN s[j] ELSE s[j + 1]
  <2>1. CASE j < k
    <3>1. j <= k - 1 /\ j \in 1 .. k - 1 /\ j \in 1 .. k - 1 + (n - k)
      BY <1>1, <1>2, <2>1
    <3>2. QED
      BY <1>3, <1>6, <2>1, <3>1
  <2>2. CASE ~(j < k)
    <3>1. /\ ~(j <= k - 1) /\ j - (k - 1) \in 1 .. n - k /\ j \in 1 .. k - 1 + (n - k)
          /\ k + (j - (k - 1)) = j + 1
      BY <1>1, <1>2, <2>2
    <3>2. b[j - (k - 1)] = s[k + (j - (k - 1))]
      BY <1>4, <3>1
    <3>3. QED
      BY <1>6, <2>2, <3>1, <3>2
  <2>3. QED
    BY <2>1, <2>2
<1>9. QED
  BY <1>5, <1>6, <1>7, <1>8 DEF n

(* A queue with one item less, and the others in their order, has dropped  *)
(* that item.                                                              *)
LEMMA DropsOne ==
  ASSUME NEW p \in Queue, SizeOK(p), NEW r \in Queue, SizeOK(r),
         NEW k \in 1 .. Count(p), Count(r) = Count(p) - 1,
         \A j \in 1 .. Count(p) - 1 :
           r.items[SlotAt(r, j)] = IF j < k THEN p.items[SlotAt(p, j)] ELSE p.items[SlotAt(p, j + 1)]
  PROVE  Contents(r) = DropAt(Contents(p), k)
<1> DEFINE n == Count(p)
           s == Contents(p)
<1>1. /\ s \in Seq(Item \cup {Zero}) /\ Len(s) = n
      /\ \A j \in 1 .. n : s[j] = p.items[SlotAt(p, j)]
  BY ContentsSeq
<1>2. n \in Nat
  BY CountFacts
<1> HIDE DEF s, n
<1>3. k \in 1 .. n
  BY DEF n
<1>4. /\ DropAt(s, k) \in Seq(Item \cup {Zero}) /\ Len(DropAt(s, k)) = n - 1
      /\ \A j \in 1 .. n - 1 : DropAt(s, k)[j] = IF j < k THEN s[j] ELSE s[j + 1]
  BY <1>1, <1>3, DropAtItems
<1>5. \A j \in 1 .. n - 1 : j \in 1 .. n /\ j + 1 \in 1 .. n
  BY <1>2
<1>6. \A j \in 1 .. n - 1 : r.items[SlotAt(r, j)] = DropAt(s, k)[j]
  BY <1>1, <1>4, <1>5 DEF n
<1>7. Contents(r) = DropAt(s, k)
  BY <1>4, <1>6, SameContents DEF n
<1>8. QED
  BY <1>7 DEF s

(* The item found in the slot that was read last: head and tail go back    *)
(* one slot, and so do the queued items.                                   *)
LEMMA RemoveAtHead ==
  ASSUME NEW p \in Queue, SizeOK(p), NEW t, IndexOf(p, t) = p.head, p.head # p.tail
  PROVE  Contents(Remove(p, t)) = Contents(p)
<1> DEFINE h == p.head
           e == p.tail
           n == Count(p)
           r == Remove(p, t)
           items == p.items
           s == Contents(p)
<1>1. h \in Slot /\ e \in Slot /\ h # e
  BY DEF Queue
<1>2. h # MissingIndex
  BY <1>1 DEF MissingIndex, Slot
<1>3. /\ p.size # 0 /\ r \in Queue /\ SizeOK(r)
      /\ r.items = CloseGap(p, h)
      /\ r.head = Before(h)
      /\ Count(r) = IF r.head = Before(e) THEN 0 ELSE Ahead(r.head, Before(e))
  BY <1>2, RemoveFields
<1>4. n = Ahead(h, e) /\ n \in Nat
  BY <1>3, CountFacts
<1>5. /\ s \in Seq(Item \cup {Zero}) /\ Len(s) = n
      /\ \A j \in 1 .. n : s[j] = items[SlotAt(p, j)]
  BY ContentsSeq
<1>6. \A j \in 1 .. n : SlotAt(p, j) = IF h + j < Capacity THEN h + j ELSE h + j - Capacity
  BY DEF SlotAt
<1>7. \A j \in 1 .. n : SlotAt(r, j) = IF Before(h) + j < Capacity THEN Before(h) + j
                                       ELSE Before(h) + j - Capacity
  BY <1>3 DEF SlotAt
<1>8. h < e => \A k \in Slot : r.items[k] = IF k \in h .. e - 1 THEN items[k + 1] ELSE items[k]
  <2>1. h < e => h \in h .. e - 1
    BY <1>1 DEF Slot
  <2>2. QED
    BY <1>3, <2>1, CloseGapStraight
<1>9. h > e => \A k \in Slot : r.items[k] =
                  IF k = Capacity - 1 THEN items[0]
                  ELSE IF k \in h .. Capacity - 2 \/ k \in 0 .. e - 1 THEN items[k + 1]
                  ELSE items[k]
  <2>1. h > e => h >= e /\ h \in h .. Capacity - 1
    BY <1>1 DEF Slot
  <2>2. QED
    BY <1>1, <1>3, <2>1, CloseGapBack
<1> HIDE DEF h, e, n, r, items, s
<1>10. Count(r) = n
  <2>1. Before(h) # Before(e) /\ Ahead(Before(h), Before(e)) = Ahead(h, e)
    BY <1>1 DEF Before, Ahead, Slot
  <2>2. QED
    BY <1>3, <1>4, <2>1
<1>11. ASSUME NEW j \in 1 .. n
       PROVE  r.items[SlotAt(r, j)] = items[SlotAt(p, j)]
  <2> DEFINE m == SlotAt(p, j)
             k == SlotAt(r, j)
  <2>1. k \in Slot /\ m \in Slot /\ m = IF k = Capacity - 1 THEN 0 ELSE k + 1
    BY <1>1, <1>4, <1>6, <1>7 DEF Ahead, Before, Slot
  <2>2. CASE h < e
    <3>1. k \in h .. e - 1 /\ m = k + 1
      BY <1>1, <1>4, <1>6, <1>7, <2>2 DEF Ahead, Before, Slot
    <3> HIDE DEF m, k
    <3>2. QED
      BY <1>8, <2>1, <2>2, <3>1 DEF m, k
  <2>3. CASE h > e
    <3>1. k = Capacity - 1 \/ k \in h .. Capacity - 2 \/ k \in 0 .. e - 1
      BY <1>1, <1>4, <1>6, <1>7, <2>3 DEF Ahead, Before, Slot
    <3> HIDE DEF m, k
    <3>2. QED
      BY <1>9, <2>1, <2>3, <3>1 DEF m, k
  <2>4. QED
    BY <1>1, <2>2, <2>3 DEF Slot
<1>12. QED
  BY <1>3, <1>5, <1>10, <1>11, SameContents DEF r, s

(* An item after the last one read in a queue that does not wrap: it is    *)
(* the one that leaves.                                                    *)
LEMMA RemoveStraight ==
  ASSUME NEW p \in Queue, SizeOK(p), NEW t, NEW i, i = IndexOf(p, t), i # MissingIndex,
         i # p.head, i \in p.head .. p.tail - 1, p.head < p.tail
  PROVE  \E k \in 1 .. Count(p) : Contents(Remove(p, t)) = DropAt(Contents(p), k)
<1> DEFINE h == p.head
           e == p.tail
           n == Count(p)
           r == Remove(p, t)
           items == p.items
<1>1. h \in Slot /\ e \in Slot
  BY DEF Queue
<1>2. /\ p.size # 0 /\ i \in Slot /\ r \in Queue /\ SizeOK(r)
      /\ r.items = CloseGap(p, i)
      /\ r.head = h
      /\ Count(r) = IF r.head = Before(e) THEN 0 ELSE Ahead(r.head, Before(e))
  BY RemoveFields
<1>3. n = Ahead(h, e) /\ n \in Nat
  BY <1>2, CountFacts
<1>4. \A j \in 1 .. n : /\ SlotAt(p, j) = IF h + j < Capacity THEN h + j ELSE h + j - Capacity
                        /\ SlotAt(r, j) = SlotAt(p, j)
  BY <1>2 DEF SlotAt
<1>5. \A k \in Slot : r.items[k] = IF k \in i .. e - 1 THEN items[k + 1] ELSE items[k]
  BY <1>2, CloseGapStraight
<1>6. h < e /\ h # i /\ i \in h .. e - 1
  OBVIOUS
<1> HIDE DEF h, e, n, r, items
<1>7. Count(r) = n - 1
  <2>1. h # Before(e) /\ Ahead(h, Before(e)) = Ahead(h, e) - 1
    BY <1>1, <1>6 DEF Before, Ahead, Slot
  <2>2. QED
    BY <1>2, <1>3, <2>1
<1>8. i - h \in 1 .. n
  BY <1>1, <1>3, <1>6 DEF Ahead, Slot
<1>9. ASSUME NEW j \in 1 .. n - 1
      PROVE  r.items[SlotAt(r, j)] =
               IF j < i - h THEN items[SlotAt(p, j)] ELSE items[SlotAt(p, j + 1)]
  <2> DEFINE m == h + j
  <2>1. /\ j \in 1 .. n /\ j + 1 \in 1 .. n
        /\ m < Capacity /\ h + (j + 1) < Capacity /\ h + (j + 1) = m + 1 /\ m \in Slot
        /\ j < i - h <=> m < i
        /\ m < e
    BY <1>1, <1>3, <1>6 DEF Ahead, Slot
  <2>2. SlotAt(r, j) = m /\ SlotAt(p, j) = m /\ SlotAt(p, j + 1) = m + 1
    BY <1>4, <2>1
  <2>3. m \in i .. e - 1 <=> ~(m < i)
    BY <1>1, <1>2, <2>1 DEF Slot
  <2> HIDE DEF m
  <2>4. QED
    BY <1>5, <2>1, <2>2, <2>3
<1>10. QED
  BY <1>2, <1>7, <1>8, <1>9, DropsOne DEF n, r, items

(* The same before the end of the slice in a queue that wraps. *)
LEMMA RemoveBack ==
  ASSUME NEW p \in Queue, SizeOK(p), NEW t, NEW i, i = IndexOf(p, t), i # MissingIndex,
         i > p.head, p.head >= p.tail
  PROVE  \E k \in 1 .. Count(p) : Contents(Remove(p, t)) = DropAt(Contents(p), k)
<1> DEFINE h == p.head
           e == p.tail
           n == Count(p)
           r == Remove(p, t)
           items == p.items
<1>1. h \in Slot /\ e \in Slot
  BY DEF Queue
<1>2. /\ p.size # 0 /\ i \in Slot /\ r \in Queue /\ SizeOK(r)
      /\ r.items = CloseGap(p, i)
      /\ r.head = h
      /\ Count(r) = IF r.head = Before(e) THEN 0 ELSE Ahead(r.head, Before(e))
  <2>1. i # p.head /\ i \in Slot
    BY RemoveFields DEF Queue, Slot
  <2>2. QED
    BY <2>1, RemoveFields
<1>3. n = Ahead(h, e) /\ n \in Nat
  BY <1>2, CountFacts
<1>4. \A j \in 1 .. n : /\ SlotAt(p, j) = IF h + j < Capacity THEN h + j ELSE h + j - Capacity
                        /\ SlotAt(r, j) = SlotAt(p, j)
  BY <1>2 DEF SlotAt
<1>5. \A k \in Slot : r.items[k] =
         IF k = Capacity - 1 THEN items[0]
         ELSE IF k \in i .. Capacity - 2 \/ k \in 0 .. e - 1 THEN items[k + 1]
         ELSE items[k]
  <2>1. i \in p.head .. Capacity - 1 /\ i # p.tail
    BY <1>1, <1>2 DEF Slot
  <2>2. QED
    BY <1>2, <2>1, CloseGapBack
<1>6. h >= e /\ i > h
  OBVIOUS
<1> HIDE DEF h, e, n, r, items
<1>7. Count(r) = n - 1
  <2>1. h # Before(e) /\ Ahead(h, Before(e)) = Ahead(h, e) - 1
    BY <1>1, <1>2, <1>6 DEF Before, Ahead, Slot
  <2>2. QED
    BY <1>2, <1>3, <2>1
<1>8. i - h \in 1 .. n
  BY <1>1, <1>2, <1>3, <1>6 DEF Ahead, Slot
<1>9. ASSUME NEW j \in 1 .. n - 1
      PROVE  r.items[SlotAt(r, j)] =
               IF j < i - h THEN items[SlotAt(p, j)] ELSE items[SlotAt(p, j + 1)]
  <2> DEFINE m == SlotAt(p, j)
  <2>1. j \in 1 .. n /\ j + 1 \in 1 .. n
    BY <1>3
  <2>2. SlotAt(r, j) = m
    BY <1>4, <2>1
  <2>3. CASE j < i - h
    <3>1. m = h + j /\ m < i /\ m > h /\ m \in Slot
      BY <1>1, <1>2, <1>4, <2>1, <2>3 DEF Slot
    <3>2. m # Capacity - 1 /\ ~(m \in i .. Capacity - 2) /\ ~(m \in 0 .. e - 1)
      BY <1>1, <1>2, <1>6, <3>1 DEF Slot
    <3> HIDE DEF m
    <3>3. QED
      BY <1>5, <2>2, <2>3, <3>1, <3>2 DEF m
  <2>4. CASE ~(j < i - h)
    <3>1. m \in Slot /\ SlotAt(p, j + 1) = IF m = Capacity - 1 THEN 0 ELSE m + 1
      BY NextSlot DEF n
    <3>2. m = Capacity - 1 \/ m \in i .. Capacity - 2 \/ m \in 0 .. e - 1
      BY <1>1, <1>2, <1>3, <1>4, <1>6, <2>1, <2>4 DEF Ahead, Slot
    <3> HIDE DEF m
    <3>3. QED
      BY <1>5, <2>2, <2>4, <3>1, <3>2 DEF m
  <2>5. QED
    BY <2>3, <2>4
<1>10. QED
  BY <1>2, <1>7, <1>8, <1>9, DropsOne DEF n, r, items

(* An item at the front of the slice in a queue that wraps: the item in    *)
(* the slot before it leaves, if that slot is not the one read last.       *)
LEMMA RemoveFront ==
  ASSUME NEW p \in Queue, SizeOK(p), NEW t, NEW i, i = IndexOf(p, t), i # MissingIndex,
         i \in 0 .. p.tail - 1, p.head >= p.tail,
         i # 0 \/ p.tail # Capacity - 1
  PROVE  \E k \in 1 .. Count(p) : Contents(Remove(p, t)) = DropAt(Contents(p), k)
<1> DEFINE h == p.head
           e == p.tail
           n == Count(p)
           r == Remove(p, t)
           items == p.items
<1>1. h \in Slot /\ e \in Slot
  BY DEF Queue
<1>2. /\ p.size # 0 /\ i \in Slot /\ r \in Queue /\ SizeOK(r)
      /\ r.items = CloseGap(p, i)
      /\ r.head = h
      /\ Count(r) = IF r.head = Before(e) THEN 0 ELSE Ahead(r.head, Before(e))
  <2>1. i # p.head
    BY DEF Queue, Slot
  <2>2. QED
    BY <2>1, RemoveFields
<1>3. n = Ahead(h, e) /\ n \in Nat
  BY <1>2, CountFacts
<1>4. \A j \in 1 .. n : /\ SlotAt(p, j) = IF h + j < Capacity THEN h + j ELSE h + j - Capacity
                        /\ SlotAt(r, j) = SlotAt(p, j)
  BY <1>2 DEF SlotAt
<1>5. \A k \in Slot : r.items[k] =
         IF i = 0 /\ k = Capacity - 1 THEN items[0]
         ELSE IF k \in i - 1 .. e - 1
              THEN IF i = 0 /\ k + 1 = Capacity - 1 THEN items[0] ELSE items[k + 1]
         ELSE items[k]
  BY <1>2, CloseGapFront
<1>6. h >= e /\ i \in 0 .. e - 1
  OBVIOUS
<1>7. i # 0 \/ e # Capacity - 1
  OBVIOUS
<1> HIDE DEF h, e, n, r, items
<1>8. Count(r) = n - 1
  <2>1. h # Before(e) /\ Ahead(h, Before(e)) = Ahead(h, e) - 1
    BY <1>1, <1>2, <1>6 DEF Before, Ahead, Slot
  <2>2. QED
    BY <1>2, <1>3, <2>1
<1> DEFINE gap == IF i # 0 THEN Capacity - h + (i - 1)
                  ELSE IF h # Capacity - 1 THEN Capacity - h - 1
                  ELSE 1
<1>9. gap \in 1 .. n
  BY <1>1, <1>2, <1>3, <1>6 DEF Ahead, Slot
<1>10. ASSUME NEW j \in 1 .. n - 1
       PROVE  r.items[SlotAt(r, j)] =
                IF j < gap THEN items[SlotAt(p, j)] ELSE items[SlotAt(p, j + 1)]
  <2> DEFINE m == SlotAt(p, j)
  <2>1. j \in 1 .. n
    BY <1>3
  <2>2. SlotAt(r, j) = m /\ m = IF h + j < Capacity THEN h + j ELSE h + j - Capacity
    BY <1>4, <2>1
  <2>3. m \in Slot /\ SlotAt(p, j + 1) = IF m = Capacity - 1 THEN 0 ELSE m + 1
    BY NextSlot DEF n
  <2> HIDE DEF m
  <2>4. CASE j < gap
    <3>1. m \notin i - 1 .. e - 1 /\ ~(i = 0 /\ m = Capacity - 1)
      BY <1>1, <1>2, <1>3, <1>6, <2>2, <2>4 DEF Ahead, Slot
    <3> HIDE DEF gap
    <3>2. QED
      BY <1>5, <2>2, <2>3, <2>4, <3>1 DEF m
  <2>5. CASE ~(j < gap)
    <3>1. \/ i = 0 /\ m = Capacity - 1
          \/ m \in i - 1 .. e - 1 /\ m # Capacity - 1 /\ ~(i = 0 /\ m + 1 = Capacity - 1)
      BY <1>1, <1>2, <1>3, <1>6, <1>7, <2>2, <2>5 DEF Ahead, Slot
    <3> HIDE DEF gap
    <3>2. QED
      BY <1>5, <2>2, <2>3, <2>5, <3>1 DEF m
  <2>6. QED
    BY <2>4, <2>5
<1> HIDE DEF gap
<1>11. QED
  BY <1>2, <1>8, <1>9, <1>10, DropsOne DEF n, r, items

(* An item in slot 0 of a full queue that ends with the slice: the newest  *)
(* item leaves and the oldest takes its place.                             *)
LEMMA RemoveTurns ==
  ASSUME NEW p \in Queue, SizeOK(p), NEW t, NEW i, i = IndexOf(p, t), i # MissingIndex,
         i = 0, i < p.tail, p.head = Capacity - 1, p.tail = Capacity - 1
  PROVE  /\ Count(p) = Capacity
         /\ Contents(Remove(p, t)) =
              Append(SubSeq(Contents(p), 2, Capacity - 1), Contents(p)[1])
<1> DEFINE h == p.head
           e == p.tail
           n == Count(p)
           r == Remove(p, t)
           items == p.items
<1>1. h \in Slot /\ e \in Slot
  BY DEF Queue
<1>2. /\ p.size # 0 /\ i \in Slot /\ r \in Queue /\ SizeOK(r)
      /\ r.items = CloseGap(p, i)
      /\ r.head = h
      /\ Count(r) = IF r.head = Before(e) THEN 0 ELSE Ahead(r.head, Before(e))
  <2>1. i # p.head
    OBVIOUS
  <2>2. QED
    BY <2>1, RemoveFields
<1>3. n = Ahead(h, e) /\ n \in Nat
  BY <1>2, CountFacts
<1>4. \A j \in 1 .. n : /\ SlotAt(p, j) = IF h + j < Capacity THEN h + j ELSE h + j - Capacity
                        /\ SlotAt(r, j) = SlotAt(p, j)
  BY <1>2 DEF SlotAt
<1>5. \A k \in Slot : r.items[k] =
         IF k = Capacity - 1 \/ k + 1 = Capacity - 1 THEN items[0] ELSE items[k + 1]
  <2>1. i \in 0 .. p.tail - 1 /\ p.head >= p.tail
    BY <1>1 DEF Slot
  <2>2. \A k \in Slot : k # Capacity - 1 => k \in i - 1 .. p.tail - 1
    BY DEF Slot
  <2>3. \A k \in Slot : CloseGap(p, i)[k] =
          IF i = 0 /\ k = Capacity - 1 THEN p.items[0]
          ELSE IF k \in i - 1 .. p.tail - 1
               THEN IF i = 0 /\ k + 1 = Capacity - 1 THEN p.items[0] ELSE p.items[k + 1]
          ELSE p.items[k]
    BY <2>1, CloseGapFront
  <2>4. QED
    BY <1>2, <2>2, <2>3
<1>6. n = Capacity
  BY <1>2, CountFacts
<1>7. h = Capacity - 1 /\ e = Capacity - 1 /\ Capacity > 1
  BY <1>1
<1> DEFINE s == Contents(p)
<1>8. /\ s \in Seq(Item \cup {Zero}) /\ Len(s) = n
      /\ \A j \in 1 .. n : s[j] = items[SlotAt(p, j)]
  BY ContentsSeq
<1> HIDE DEF h, e, n, r, items, s
<1>9. Count(r) = Capacity - 1
  BY <1>2, <1>7 DEF Before, Ahead
<1>10. \A j \in 1 .. Capacity : SlotAt(p, j) = j - 1
  BY <1>4, <1>6, <1>7
<1>11. \A j \in 1 .. Capacity : s[j] = items[j - 1] /\ s[j] \in Item \cup {Zero}
  BY <1>6, <1>8, <1>10
<1> DEFINE mid == SubSeq(s, 2, Capacity - 1)
           turned == Append(mid, s[1])
<1>12. /\ mid \in Seq(Item \cup {Zero}) /\ Len(mid) = Capacity - 2
       /\ \A j \in 1 .. Capacity - 2 : mid[j] = s[j + 1]
  <2>1. 2 \in Int /\ Capacity - 1 \in Int /\ \A j \in 2 .. Capacity - 1 : s[j] \in Item \cup {Zero}
    BY <1>11
  <2>2. /\ mid \in Seq(Item \cup {Zero})
        /\ Len(mid) = (IF 2 <= Capacity - 1 THEN Capacity - 1 - 2 + 1 ELSE 0)
        /\ \A j \in 1 .. Capacity - 1 - 2 + 1 : mid[j] = s[2 + j - 1]
    BY <2>1, SubSeqProperties
  <2>3. /\ (IF 2 <= Capacity - 1 THEN Capacity - 1 - 2 + 1 ELSE 0) = Capacity - 2
        /\ Capacity - 1 - 2 + 1 = Capacity - 2
    BY <1>7
  <2>4. \A j \in 1 .. Capacity - 2 : 2 + j - 1 = j + 1
    OBVIOUS
  <2> HIDE DEF mid
  <2>5. QED
    BY <2>2, <2>3, <2>4
<1> HIDE DEF mid
<1>13. /\ turned \in Seq(Item \cup {Zero}) /\ Len(turned) = Capacity - 1
       /\ \A j \in 1 .. Capacity - 2 : turned[j] = s[j + 1]
       /\ turned[Capacity - 1] = s[1]
  <2>1. s[1] \in Item \cup {Zero}
    BY <1>7, <1>11
  <2>2. /\ turned \in Seq(Item \cup {Zero}) /\ Len(turned) = Len(mid) + 1
        /\ \A j \in 1 .. Len(mid) : turned[j] = mid[j]
        /\ turned[Len(mid) + 1] = s[1]
    BY <1>12, <2>1, AppendProperties
  <2>3. Capacity - 2 + 1 = Capacity - 1
    OBVIOUS
  <2> HIDE DEF turned
  <2>4. QED
    BY <1>12, <2>2, <2>3
<1> HIDE DEF turned
<1>14. ASSUME NEW j \in 1 .. Capacity - 1
       PROVE  r.items[SlotAt(r, j)] = turned[j]
  <2>1. j \in 1 .. Capacity /\ j - 1 \in Slot /\ j - 1 # Capacity - 1 /\ j - 1 + 1 = j
    BY <1>7 DEF Slot
  <2>2. SlotAt(r, j) = j - 1
    BY <1>4, <1>6, <1>10, <2>1
  <2>3. r.items[j - 1] = IF j = Capacity - 1 THEN items[0] ELSE items[j]
    BY <1>5, <2>1
  <2>4. CASE j = Capacity - 1
    <3>1. s[1] = items[0]
      BY <1>7, <1>11
    <3>2. QED
      BY <1>13, <2>2, <2>3, <2>4, <3>1
  <2>5. CASE j # Capacity - 1
    <3>1. j \in 1 .. Capacity - 2 /\ j + 1 \in 1 .. Capacity /\ j + 1 - 1 = j
      BY <1>7, <2>5
    <3>2. s[j + 1] = items[j]
      BY <1>11, <3>1
    <3>3. QED
      BY <1>13, <2>2, <2>3, <2>5, <3>1, <3>2
  <2>6. QED
    BY <2>4, <2>5
<1>15. Contents(r) = turned
  BY <1>2, <1>9, <1>13, <1>14, SameContents
<1>16. QED
  BY <1>6, <1>15 DEF n, r, s, mid, turned

(* A removal, by the place where the value is found. *)
LEMMA RemoveEffect ==
  ASSUME NEW p \in Queue, SizeOK(p), NEW t
  PROVE  \/ Contents(Remove(p, t)) = Contents(p)
         \/ \E k \in 1 .. Count(p) : Contents(Remove(p, t)) = DropAt(Contents(p), k)
         \/ Count(p) = Capacity /\ Contents(Remove(p, t)) = <<>>
         \/ /\ Count(p) = Capacity
            /\ Contents(Remove(p, t)) =
                 Append(SubSeq(Contents(p), 2, Capacity - 1), Contents(p)[1])
<1> DEFINE i == IndexOf(p, t)
<1>1. p.head \in Slot /\ p.tail \in Slot
  BY DEF Queue
<1>2. CASE i = MissingIndex
  BY <1>2 DEF Remove
<1>3. CASE i # MissingIndex
  <2>1. p.size # 0 /\ i \in Slot /\ i \in IndexScan(p)
    BY <1>3, RemoveFields
  <2> HIDE DEF i
  <2>2. CASE i = p.head /\ p.head # p.tail
    BY <2>2, RemoveAtHead DEF i
  <2>3. CASE i = p.head /\ p.head = p.tail
    <3>1. Count(p) = Capacity
      BY <2>1, <2>3, CountFacts
    <3>2. Count(Remove(p, t)) = 0
      <4>1. /\ Remove(p, t).head = (IF i = p.head THEN Before(p.head) ELSE p.head)
            /\ Count(Remove(p, t)) = IF Remove(p, t).head = Before(p.tail) THEN 0
                                     ELSE Ahead(Remove(p, t).head, Before(p.tail))
        BY <1>3, RemoveFields DEF i
      <4>2. QED
        BY <2>3, <4>1
    <3>3. QED
      BY <3>1, <3>2, EmptyContents
  <2>4. CASE i # p.head /\ p.head < p.tail
    <3>1. i \in p.head .. p.tail - 1
      BY <2>1, <2>4 DEF IndexScan
    <3>2. QED
      BY <1>3, <2>4, <3>1, RemoveStraight DEF i
  <2>5. CASE i # p.head /\ ~(p.head < p.tail) /\ i \in p.head .. Capacity - 1
    <3>1. i > p.head /\ p.head >= p.tail
      BY <1>1, <2>5 DEF Slot
    <3>2. QED
      BY <1>3, <3>1, RemoveBack DEF i
  <2>6. CASE i # p.head /\ ~(p.head < p.tail) /\ i \in 0 .. p.tail - 1
    <3>1. p.head >= p.tail /\ i < p.tail
      BY <1>1, <2>6 DEF Slot
    <3>2. CASE i # 0 \/ p.tail # Capacity - 1
      BY <1>3, <2>6, <3>1, <3>2, RemoveFront DEF i
    <3>3. CASE i = 0 /\ p.tail = Capacity - 1
      <4>1. p.head = Capacity - 1
        BY <1>1, <3>1, <3>3 DEF Slot
      <4>2. QED
        BY <1>3, <3>1, <3>3, <4>1, RemoveTurns DEF i
    <3>4. QED
      BY <3>2, <3>3
  <2>7. i \in p.head .. p.tail - 1 \/ i \in p.head .. Capacity - 1 \/ i \in 0 .. p.tail - 1
    BY <2>1 DEF IndexScan
  <2>8. QED
    BY <1>1, <2>1, <2>2, <2>3, <2>4, <2>5, <2>6, <2>7 DEF IndexScan
<1>4. QED
  BY <1>2, <1>3

(* The search finds the item that was read last where it was read. *)
LEMMA IndexOfLastRead ==
  ASSUME NEW p \in Queue, SizeOK(p), p.head # p.tail
  PROVE  IndexOf(p, p.items[p.head]) = p.head
<1> DEFINE h == p.head
           e == p.tail
           hits == {i \in IndexScan(p) : p.items[i] = p.items[h]}
           First(i) == \A j \in hits : ScanOrder(p, i) <= ScanOrder(p, j)
<1>1. h \in Slot /\ e \in Slot
  BY DEF Queue
<1>2. p.size # 0
  BY CountFacts
<1>3. h \in IndexScan(p) /\ IndexScan(p) \subseteq Slot
  BY <1>1 DEF IndexScan, Slot
<1>4. \A i \in Slot : ScanOrder(p, i) \in Nat /\ (ScanOrder(p, i) <= 0 => i = h) /\ ScanOrder(p, h) = 0
  BY <1>1 DEF ScanOrder, Slot
<1>5. h \in hits /\ hits \subseteq Slot
  BY <1>3
<1> HIDE DEF h, hits
<1>6. First(h)
  BY <1>1, <1>4, <1>5
<1>7. \A i \in hits : First(i) => i = h
  BY <1>4, <1>5
<1>8. IndexOf(p, p.items[h]) = CHOOSE i \in hits : First(i)
  BY <1>2, <1>5 DEF IndexOf, hits
<1> HIDE DEF First
<1>9. (CHOOSE i \in hits : First(i)) = h
  BY <1>5, <1>6, <1>7
<1>10. QED
  BY <1>8, <1>9 DEF h

-----------------------------------------------------------------------------
(* What a queue may give back.                                             *)
Queued(p) == {Contents(p)[k] : k \in 1 .. Count(p)}

(* Any sequence that holds some of the items. *)
LEMMA QueuedIn ==
  ASSUME NEW p \in Queue, SizeOK(p), NEW S, \A k \in 1 .. Len(Contents(p)) : Contents(p)[k] \in S
  PROVE  Queued(p) \subseteq S
  BY ContentsSeq DEF Queued

(* Only Put adds an item, and Get yields one of them: no call brings back  *)
(* what is in the slots outside, nor the zero value.                       *)
LEMMA QueuedOfCalls ==
  ASSUME NEW p \in Queue, SizeOK(p)
  PROVE  /\ \A t \in Item : Queued(Put(p, t)) \subseteq Queued(p) \cup {t}
         /\ Queued(Get(p)) \subseteq Queued(p)
         /\ p.size # 0 => GetItem(p) \in Queued(p)
         /\ \A t : Queued(Remove(p, t)) \subseteq Queued(p)
<1> DEFINE c == Contents(p)
<1>1. /\ c \in Seq(Item \cup {Zero}) /\ Len(c) = Count(p)
      /\ \A k \in 1 .. Len(c) : c[k] \in Queued(p)
  BY ContentsSeq DEF Queued
<1> HIDE DEF c
<1>2. ASSUME NEW t \in Item PROVE Queued(Put(p, t)) \subseteq Queued(p) \cup {t}
  <2>1. CASE PutError(p, t) # "nil"
    BY <2>1 DEF Put
  <2>2. CASE PutError(p, t) = "nil"
    <3>1. Contents(Put(p, t)) = Append(c, t)
      BY <2>2, PutAppends DEF c
    <3>2. Put(p, t) \in Queue /\ SizeOK(Put(p, t))
      BY PutOK
    <3>3. \A k \in 1 .. Len(Append(c, t)) : Append(c, t)[k] \in Queued(p) \cup {t}
      BY <1>1
    <3>4. QED
      BY <3>1, <3>2, <3>3, QueuedIn
  <2>3. QED
    BY <2>1, <2>2
<1>3. Queued(Get(p)) \subseteq Queued(p) /\ (p.size # 0 => GetItem(p) \in Queued(p))
  <2>1. CASE p.size = 0
    BY <2>1 DEF Get
  <2>2. CASE p.size # 0
    <3>1. c # <<>> /\ GetItem(p) = Head(c) /\ Contents(Get(p)) = Tail(c)
      BY <2>2, GetTakesFirst DEF c
    <3>2. Get(p) \in Queue /\ SizeOK(Get(p))
      BY GetOK
    <3>3. Len(c) >= 1 /\ Head(c) = c[1]
      BY <1>1, <3>1
    <3>4. \A k \in 1 .. Len(Tail(c)) : Tail(c)[k] = c[k + 1] /\ k + 1 \in 1 .. Len(c)
      BY <1>1, <3>1
    <3>5. QED
      BY <1>1, <3>1, <3>2, <3>3, <3>4, QueuedIn
  <2>3. QED
    BY <2>1, <2>2
<1>4. ASSUME NEW t PROVE Queued(Remove(p, t)) \subseteq Queued(p)
  <2>1. Remove(p, t) \in Queue /\ SizeOK(Remove(p, t))
    BY RemoveOK
  <2>2. SUFFICES \A k \in 1 .. Len(Contents(Remove(p, t))) : Contents(Remove(p, t))[k] \in Queued(p)
    BY <2>1, QueuedIn
  <2>3. CASE Contents(Remove(p, t)) = c
    BY <1>1, <2>3
  <2>4. ASSUME NEW k \in 1 .. Count(p), Contents(Remove(p, t)) = DropAt(c, k)
        PROVE  \A j \in 1 .. Len(Contents(Remove(p, t))) : Contents(Remove(p, t))[j] \in Queued(p)
    <3>1. /\ Len(DropAt(c, k)) = Len(c) - 1
          /\ \A j \in 1 .. Len(c) - 1 : DropAt(c, k)[j] = IF j < k THEN c[j] ELSE c[j + 1]
      BY <1>1, <2>4, DropAtItems
    <3>2. \A j \in 1 .. Len(c) - 1 : j \in 1 .. Len(c) /\ j + 1 \in 1 .. Len(c)
      BY <1>1
    <3>3. QED
      BY <1>1, <2>4, <3>1, <3>2
  <2>5. CASE Contents(Remove(p, t)) = <<>>
    BY <2>5
  <2>6. CASE /\ Count(p) = Capacity
             /\ Contents(Remove(p, t)) = Append(SubSeq(c, 2, Capacity - 1), c[1])
    <3> DEFINE s == SubSeq(c, 2, Capacity - 1)
    <3>1. Len(c) = Capacity /\ Len(c) >= 1
      BY <1>1, <2>6
    <3>2. \A k \in 1 .. Len(s) : s[k] = c[k + 1] /\ k + 1 \in 1 .. Len(c)
      BY <1>1, <3>1
    <3>3. s \in Seq(Item \cup {Zero}) /\ Len(s) \in Nat
      BY <1>1, <3>1
    <3> HIDE DEF s
    <3>4. \A k \in 1 .. Len(Append(s, c[1])) : k \in 1 .. Len(s) \/ Append(s, c[1])[k] = c[1]
      BY <3>3
    <3>5. \A k \in 1 .. Len(s) : Append(s, c[1])[k] = s[k]
      BY <3>3
    <3>6. \A k \in 1 .. Len(Append(s, c[1])) : Append(s, c[1])[k] \in Queued(p)
      BY <1>1, <3>1, <3>2, <3>4, <3>5
    <3>7. QED
      BY <2>6, <3>6 DEF s
  <2>7. QED
    BY <2>3, <2>4, <2>5, <2>6, RemoveEffect DEF c
<1>5. QED
  BY <1>2, <1>3, <1>4
=============================================================================
