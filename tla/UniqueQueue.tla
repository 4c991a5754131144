----------------------------- MODULE UniqueQueue -----------------------------
(***************************************************************************)
(* A UniqueQueue (crawler/uniquequeue.go) used by any number of            *)
(* goroutines.  The mutex makes every call one step, so the behaviours are *)
(* all the sequences of calls.                                             *)
(***************************************************************************)
EXTENDS UniqueQueueOps, Sequences

VARIABLES
  q,     \* the queue, a record of module UniqueQueueOps
  ret    \* the value or error the last call returned

vars == <<q, ret>>

Init == q = NewUniqueQueue /\ ret = "nil"

PutCall(t) == q' = Put(q, t) /\ ret' = PutError(q, t)

GetCall ==
  /\ q' = Get(q)
  /\ ret' = IF GetError(q) = "nil" THEN GetItem(q) ELSE GetError(q)

(* Callers also remove the zero value: the visit of a page whose request   *)
(* failed carries the empty URL.                                           *)
RemoveCall(t) == q' = Remove(q, t) /\ ret' = "nil"

Next ==
  \/ \E t \in Item : PutCall(t)
  \/ GetCall
  \/ \E t \in Item \cup {Zero} : RemoveCall(t)

Spec == Init /\ [][Next]_vars

-----------------------------------------------------------------------------
(* Type invariant: the indices stay inside the slice. *)
TypeOK ==
  /\ q \in Queue
  /\ ret \in Item \cup {Zero} \cup {"nil", "empty", "full", "duplicate"}

(* The size field, recomputed from the indices by two different formulas   *)
(* (uniquequeue.go:212-231), tells empty from full when the indices meet,  *)
(* is exact when the ring does not wrap, and is at most one too high when  *)
(* it does.  In particular QUEUE_CAP - Size() is never negative, which     *)
(* crawler.go:406 needs, because make() panics on a negative capacity.     *)
SizeInv == SizeOK(q)

(* remove() never reaches its panic("should never reach here")             *)
(* (uniquequeue.go:188), whatever the calls before it.                     *)
NoPanic ==
  \A t \in Item \cup {Zero} :
    LET i == IndexOf(q, t) IN i # MissingIndex => ~Unreachable(q, i)

(* The ring implements the bounded FIFO of module Fifo: items leave in the *)
(* order they came, Put changes nothing when it returns an error, and      *)
(* Remove costs at most one item unless the queue is completely full       *)
(* (uniquequeue.go:46-59, 69-106, 150-209).                                *)
Abstract == INSTANCE Fifo WITH queue <- Contents(q)

ImplementsFifo == Abstract!Spec

(* Removing the item the last Get returned, which is what the visit of a   *)
(* crawled page does to its own crawler, leaves the other queued items     *)
(* alone although the item is found at head, outside the queued range      *)
(* (uniquequeue.go:193-200).                                               *)
RemoveOfLastRead ==
  [][\A t \in Item \cup {Zero} :
       /\ RemoveCall(t)
       /\ q.items[q.head] = t
       /\ q.head # q.tail
       => Contents(q') = Contents(q)]_vars

-----------------------------------------------------------------------------
(* A statement of the source the code does not keep.                       *)

(* "Remove t from the queue." (uniquequeue.go:142): only t leaves.         *)
RemoveKeepsOthers ==
  [][\A t, u \in Item : RemoveCall(t) /\ u # t /\ Holds(q, u) => Holds(q', u)]_vars
=============================================================================
