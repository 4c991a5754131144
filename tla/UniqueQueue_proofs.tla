------------------------- MODULE UniqueQueue_proofs -------------------------
(***************************************************************************)
(* Proofs about every sequence of calls to a UniqueQueue.                  *)
(***************************************************************************)
EXTENDS UniqueQueue, UniqueQueueOps_proofs

-----------------------------------------------------------------------------
(* The invariants of the state machine.                                    *)

QueueInv == q \in Queue /\ SizeOK(q)

(* It holds of a new queue... *)
LEMMA QueueInvInit == Init => QueueInv
  BY NewOK DEF Init, QueueInv

(* ... every call preserves it... *)
LEMMA QueueInvNext == QueueInv /\ [Next]_vars => QueueInv'
<1> SUFFICES ASSUME QueueInv, [Next]_vars
             PROVE  QueueInv'
  OBVIOUS
<1>1. CASE \E t \in Item : PutCall(t)
  BY <1>1, PutOK DEF PutCall, QueueInv
<1>2. CASE GetCall
  BY <1>2, GetOK DEF GetCall, QueueInv
<1>3. CASE \E t \in Item \cup {Zero} : RemoveCall(t)
  BY <1>3, RemoveOK DEF RemoveCall, QueueInv
<1>4. CASE UNCHANGED vars
  BY <1>4 DEF vars, QueueInv
<1>5. QED
  BY <1>1, <1>2, <1>3, <1>4 DEF Next

(* ... and so it holds always. *)
LEMMA QueueInvHolds == Spec => []QueueInv
  BY QueueInvInit, QueueInvNext, PTL DEF Spec

(* Type correctness: the indices never leave the slice and a call returns  *)
(* an item or one of the errors.                                           *)
THEOREM TypeCorrect == Spec => []TypeOK
<1>1. Init => TypeOK
  BY QueueInvInit DEF Init, TypeOK, QueueInv
<1>2. TypeOK /\ QueueInv /\ QueueInv' /\ [Next]_vars => TypeOK'
  <2> SUFFICES ASSUME TypeOK, QueueInv, QueueInv', [Next]_vars
               PROVE  ret' \in Item \cup {Zero} \cup {"nil", "empty", "full", "duplicate"}
    BY DEF TypeOK, QueueInv
  <2>1. CASE \E t \in Item : PutCall(t)
    BY <2>1 DEF PutCall, PutError
  <2>2. CASE GetCall
    <3>1. GetItem(q) \in Item \cup {Zero}
      BY GetItemType DEF QueueInv
    <3>2. QED
      BY <2>2, <3>1 DEF GetCall, GetError
  <2>3. CASE \E t \in Item \cup {Zero} : RemoveCall(t)
    BY <2>3 DEF RemoveCall
  <2>4. CASE UNCHANGED vars
    BY <2>4 DEF vars, TypeOK
  <2>5. QED
    BY <2>1, <2>2, <2>3, <2>4 DEF Next
<1>3. QED
  BY <1>1, <1>2, QueueInvHolds, PTL DEF Spec

(* The size field agrees with the indices after any sequence of calls, so  *)
(* sortAndSend never asks make() for a negative capacity.                  *)
THEOREM SizeCorrect == Spec => []SizeInv
<1>1. QueueInv => SizeInv
  BY DEF QueueInv, SizeInv
<1>2. QED
  BY <1>1, QueueInvHolds, PTL

(* The panic of remove() is unreachable.                                   *)
THEOREM PanicUnreachable == Spec => []NoPanic
<1>1. QueueInv => NoPanic
  <2> SUFFICES ASSUME q \in Queue, NEW t \in Item \cup {Zero}, IndexOf(q, t) # MissingIndex
               PROVE  ~Unreachable(q, IndexOf(q, t))
    BY DEF QueueInv, NoPanic
  <2>1. IndexOf(q, t) \in IndexScan(q)
    BY IndexOfInScan
  <2>2. QED
    BY <2>1 DEF IndexScan, Unreachable, Queue, Slot
<1>2. QED
  BY <1>1, QueueInvHolds, PTL

-----------------------------------------------------------------------------
(* A call of the ring is a call of the FIFO. *)
LEMMA FifoPut ==
  ASSUME QueueInv, NEW t \in Item, PutCall(t)
  PROVE  Abstract!Put(t)
<1>1. q' = Put(q, t) /\ ret' = PutError(q, t)
  BY DEF PutCall
<1>2. Len(Contents(q)) = Count(q) /\ Count(q) \in Nat
  BY ContentsSeq, CountFacts DEF QueueInv
<1>3. CASE PutError(q, t) = "nil"
  <2>1. Count(q) < Capacity /\ Contents(q') = Append(Contents(q), t)
    BY <1>1, <1>3, PutAppends DEF QueueInv
  <2>2. QED
    BY <1>1, <1>2, <1>3, <2>1 DEF Abstract!Put
<1>4. CASE PutError(q, t) # "nil"
  <2>1. PutError(q, t) \in {"full", "duplicate"} /\ Count(q) > 0 /\ q' = q
        /\ (PutError(q, t) = "full" => Count(q) >= Capacity - 1)
    BY <1>1, <1>4, PutRefuses DEF QueueInv
  <2>2. Contents(q') = Contents(q)
    BY <2>1
  <2>3. QED
    BY <1>1, <1>2, <2>1, <2>2 DEF Abstract!Put
<1>5. QED
  BY <1>3, <1>4

LEMMA FifoGet ==
  ASSUME QueueInv, GetCall
  PROVE  Abstract!Get
<1>1. q' = Get(q) /\ ret' = IF GetError(q) = "nil" THEN GetItem(q) ELSE GetError(q)
  BY DEF GetCall
<1>2. CASE q.size = 0
  <2>1. q' = q /\ ret' = "empty"
    BY <1>1, <1>2 DEF Get, GetError
  <2>2. Contents(q) = <<>>
    BY <1>2, CountFacts, EmptyContents DEF QueueInv
  <2>3. Contents(q') = Contents(q)
    BY <2>1
  <2>4. QED
    BY <2>1, <2>2, <2>3 DEF Abstract!Get
<1>3. CASE q.size # 0
  <2>1. Contents(q) # <<>> /\ GetItem(q) = Head(Contents(q)) /\ Contents(q') = Tail(Contents(q))
    BY <1>1, <1>3, GetTakesFirst DEF QueueInv
  <2>2. ret' = GetItem(q)
    BY <1>1, <1>3 DEF GetError
  <2>3. QED
    BY <2>1, <2>2 DEF Abstract!Get
<1>4. QED
  BY <1>2, <1>3

LEMMA FifoRemove ==
  ASSUME QueueInv, NEW t, RemoveCall(t)
  PROVE  Abstract!Remove
<1>1. q' = Remove(q, t) /\ ret' = "nil"
  BY DEF RemoveCall
<1>2. Len(Contents(q)) = Count(q)
  BY ContentsSeq DEF QueueInv
<1>3. \/ Contents(q') = Contents(q)
      \/ \E k \in 1 .. Count(q) : Contents(q') = DropAt(Contents(q), k)
      \/ Count(q) = Capacity /\ Contents(q') = <<>>
      \/ /\ Count(q) = Capacity
         /\ Contents(q') = Append(SubSeq(Contents(q), 2, Capacity - 1), Contents(q)[1])
  BY <1>1, RemoveEffect DEF QueueInv
<1>4. \A k : DropAt(Contents(q), k) = Abstract!DropAt(k)
  BY DEF DropAt, Abstract!DropAt
<1>5. QED
  BY <1>1, <1>2, <1>3, <1>4 DEF Abstract!Remove

(* The ring implements the bounded FIFO, for every capacity and every      *)
(* sequence of calls: items leave in the order they came, a refused Put    *)
(* changes nothing, and a removal costs at most one item unless the queue  *)
(* is completely full (uniquequeue.go:46-59, 69-106, 150-209).             *)
THEOREM FifoRefinement == Spec => ImplementsFifo
<1>1. Init => Abstract!Init
  <2> SUFFICES ASSUME Init PROVE Abstract!Init
    OBVIOUS
  <2>1. Count(q) = 0
    BY DEF Init, NewUniqueQueue, Count
  <2>2. QED
    BY <2>1, EmptyContents DEF Init, Abstract!Init
<1>2. QueueInv /\ [Next]_vars => [Abstract!Next]_(Abstract!vars)
  <2> SUFFICES ASSUME QueueInv, [Next]_vars
               PROVE  [Abstract!Next]_(Abstract!vars)
    OBVIOUS
  <2>1. CASE \E t \in Item : PutCall(t)
    BY <2>1, FifoPut DEF Abstract!Next
  <2>2. CASE GetCall
    BY <2>2, FifoGet DEF Abstract!Next
  <2>3. CASE \E t \in Item \cup {Zero} : RemoveCall(t)
    BY <2>3, FifoRemove DEF Abstract!Next
  <2>4. CASE UNCHANGED vars
    <3>1. Contents(q') = Contents(q) /\ ret' = ret
      BY <2>4 DEF vars
    <3>2. QED
      BY <3>1 DEF Abstract!vars
  <2>5. QED
    BY <2>1, <2>2, <2>3, <2>4 DEF Next
<1>3. QED
  BY <1>1, <1>2, QueueInvHolds, PTL DEF Spec, ImplementsFifo, Abstract!Spec

(* Removing the item the last Get returned leaves the other queued items   *)
(* alone (uniquequeue.go:193-200).                                         *)
THEOREM LastReadRemoved == Spec => RemoveOfLastRead
<1>1. QueueInv /\ [Next]_vars =>
        [\A t \in Item \cup {Zero} :
           /\ RemoveCall(t)
           /\ q.items[q.head] = t
           /\ q.head # q.tail
           => Contents(q') = Contents(q)]_vars
  <2> SUFFICES ASSUME QueueInv, NEW t \in Item \cup {Zero}, RemoveCall(t),
                      q.items[q.head] = t, q.head # q.tail
               PROVE  Contents(q') = Contents(q)
    OBVIOUS
  <2>1. IndexOf(q, t) = q.head
    BY IndexOfLastRead DEF QueueInv
  <2>2. q' = Remove(q, t)
    BY DEF RemoveCall
  <2>3. QED
    BY <2>1, <2>2, RemoveAtHead DEF QueueInv
<1>2. QED
  BY <1>1, QueueInvHolds, PTL DEF Spec, RemoveOfLastRead
=============================================================================
