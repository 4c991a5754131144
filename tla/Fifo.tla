-------------------------------- MODULE Fifo --------------------------------
(***************************************************************************)
(* What the callers of crawler/uniquequeue.go can rely on: a bounded       *)
(* first-in first-out queue that may refuse an item and may lose items     *)
(* when asked to remove one, but never invents or repeats them, and        *)
(* reorders them only by a removal from a completely full queue.           *)
(***************************************************************************)
EXTENDS Naturals, Sequences

CONSTANTS Capacity, Item

VARIABLES
  queue,   \* the queued items, oldest first
  ret      \* what the last call returned

vars == <<queue, ret>>

Init == queue = <<>> /\ ret = "nil"

(* An item is accepted at the back, refused as a duplicate, or refused     *)
(* because the queue is full.  An empty queue accepts every item, and a    *)
(* queue with two free places is never full.                               *)
Put(t) ==
  \/ /\ Len(queue) < Capacity
     /\ queue' = Append(queue, t)
     /\ ret' = "nil"
  \/ /\ Len(queue) > 0
     /\ ret' = "duplicate"
     /\ UNCHANGED queue
  \/ /\ Len(queue) >= Capacity - 1
     /\ Len(queue) > 0
     /\ ret' = "full"
     /\ UNCHANGED queue

Get ==
  \/ /\ queue = <<>>
     /\ ret' = "empty"
     /\ UNCHANGED queue
  \/ /\ queue # <<>>
     /\ ret' = Head(queue)
     /\ queue' = Tail(queue)

DropAt(k) == SubSeq(queue, 1, k - 1) \o SubSeq(queue, k + 1, Len(queue))

(* At most one item goes.  A completely full queue may also be emptied, or *)
(* lose its newest item and see the oldest one take that place.            *)
Remove ==
  /\ ret' = "nil"
  /\ \/ UNCHANGED queue
     \/ \E k \in 1 .. Len(queue) : queue' = DropAt(k)
     \/ Len(queue) = Capacity /\ queue' = <<>>
     \/ /\ Len(queue) = Capacity
        /\ queue' = Append(SubSeq(queue, 2, Capacity - 1), queue[1])

Next == (\E t \in Item : Put(t)) \/ Get \/ Remove

Spec == Init /\ [][Next]_vars
=============================================================================
