---------------------------- MODULE ConcurrentSet ----------------------------
(***************************************************************************)
(* Set and TimedSet (crawler/set.go, crawler/timedset.go): a sync.Map and  *)
(* an atomic counter, shared by goroutines without a lock.  A call is not  *)
(* one step: each access to the map or to the counter is.  The two types   *)
(* differ only in the values of the map, which Put, Pop and PopRandom do   *)
(* not look at.                                                            *)
(***************************************************************************)
EXTENDS Integers, FiniteSets

CONSTANTS
  Item,      \* values of the set
  Zero,      \* the zero value of their type
  Putter,    \* goroutines that call Put
  Popper,    \* goroutines that call Pop, PopRandom, PopOldest
  MaxRaces   \* bound: accesses to an item while some Put of it is underway

Caller == Putter \cup Popper

ASSUME ConcurrentSetAssumption ==
  /\ Zero \notin Item
  /\ IsFiniteSet(Item) /\ IsFiniteSet(Putter) /\ IsFiniteSet(Popper)
  /\ MaxRaces \in Nat

VARIABLES
  elems,   \* the keys of sm
  size,    \* the counter
  pc,      \* pc[p]: the next access of p's call, or "idle"
  item,    \* item[p]: the item of that call
  races,   \* history: how many accesses met a Put of the same item
  down     \* a panic has ended the process

vars == <<elems, size, pc, item, races, down>>

Init ==
  /\ elems = {} /\ size = 0
  /\ pc = [p \in Caller |-> "idle"]
  /\ item = [p \in Caller |-> Zero]
  /\ races = 0
  /\ down = FALSE

Goto(p, label, x) ==
  /\ pc' = [pc EXCEPT ![p] = label]
  /\ item' = [item EXCEPT ![p] = x]

Return(p) == Goto(p, "idle", Zero)

(* A Put of x between its Load and its Store: what it loaded may be stale. *)
Putting(x) == {q \in Caller : pc[q] \in {"count", "add", "update"} /\ item[q] = x}

Access(x) ==
  /\ races' = races + Cardinality(Putting(x))
  /\ races' <= MaxRaces

(* Put counts the item if Load did not find it, and then stores it.        *)
MutPutLoad(p, x) ==
  /\ pc[p] = "idle"
  /\ Access(x)
  /\ Goto(p, "count", x)
  /\ UNCHANGED <<elems, size, down>>

PutLoad(p, x) ==
  /\ pc[p] = "idle"
  /\ Access(x)
  /\ Goto(p, IF x \in elems THEN "update" ELSE "count", x)
  /\ UNCHANGED <<elems, size, down>>

PutCount(p) ==
  /\ pc[p] = "count"
  /\ size' = size + 1
  /\ Goto(p, "add", item[p])
  /\ UNCHANGED <<elems, races, down>>

PutStore(p) ==
  /\ pc[p] \in {"add", "update"}
  /\ elems' = elems \cup {item[p]}
  /\ Return(p)
  /\ UNCHANGED <<size, races, down>>

MutDelete(p, x) ==
  /\ Access(x)
  /\ elems' = elems \ {x}
  /\ Goto(p, "uncount", x)
  /\ UNCHANGED <<size, down>>

(* LoadAndDelete is one access; the counter follows if it found the item.  *)
Delete(p, x) ==
  /\ Access(x)
  /\ elems' = elems \ {x}
  /\ IF x \in elems THEN Goto(p, "uncount", x) ELSE Return(p)
  /\ UNCHANGED <<size, down>>

Pop(p, x) == pc[p] = "idle" /\ Delete(p, x)

PopCount(p) ==
  /\ pc[p] = "uncount"
  /\ size' = size - 1
  /\ Return(p)
  /\ UNCHANGED <<elems, races, down>>

(* PopRandom goes through the keys until a random number says stop, keeps  *)
(* the last one, and pops it: if the set is empty, the zero value.         *)
PopRandomPick(p) ==
  /\ pc[p] = "idle"
  /\ \E x \in IF elems = {} THEN {Zero} ELSE elems : Goto(p, "picked", x)
  /\ UNCHANGED <<elems, size, races, down>>

PopRandomPop(p) == pc[p] = "picked" /\ Delete(p, item[p])

(* size % rand.Int31() divides by zero when the random number is 0.        *)
PopRandomPanic(p) ==
  /\ pc[p] = "idle"
  /\ elems # {}
  /\ down' = TRUE
  /\ UNCHANGED <<elems, size, pc, item, races>>

(* PopOldest looks for a date before time.Unix(1<<63-1, 0).  The seconds   *)
(* of that date overflow to a date before all others, so no key is found   *)
(* and the zero value is popped.                                           *)
PopOldest(p) == pc[p] = "idle" /\ Delete(p, Zero)

Next ==
  \/ /\ ~down
     /\ \/ \E p \in Putter, x \in Item : PutLoad(p, x)
        \/ \E p \in Putter : PutCount(p) \/ PutStore(p)
        \/ \E p \in Popper, x \in Item : Pop(p, x)
        \/ \E p \in Popper : PopCount(p) \/ PopOldest(p)
        \/ \E p \in Popper : PopRandomPick(p) \/ PopRandomPop(p) \/ PopRandomPanic(p)
  \/ down /\ UNCHANGED vars

Spec == Init /\ [][Next]_vars

-----------------------------------------------------------------------------
At(label) == {p \in Caller : pc[p] = label}

(* Type invariant.  Only items are ever counted: the zero value, which      *)
(* PopRandom and PopOldest pop in vain, is not.                            *)
TypeOK ==
  /\ elems \in SUBSET Item
  /\ size \in Int
  /\ pc \in [Caller -> {"idle", "count", "add", "update", "picked", "uncount"}]
  /\ item \in [Caller -> Item \cup {Zero}]
  /\ \A p \in Caller : pc[p] \in {"count", "add", "update", "uncount"} => item[p] \in Item
  /\ races \in 0 .. MaxRaces
  /\ down \in BOOLEAN

(* How far Size() is off, apart from the calls that have yet to store what *)
(* they counted or to uncount what they deleted.                           *)
Drift == size - Cardinality(elems) - Cardinality(At("add")) - Cardinality(At("uncount"))

(* Size() is the number of elements as long as no goroutine touches an     *)
(* item that another is putting, and each time one does costs at most one  *)
(* count, for good (set.go:21-41, timedset.go:21-35).                      *)
DriftBounded == Drift \in -races .. races

(* The part of it that users rely on: calls on one item never overlapped,  *)
(* none is underway, so Size() is exact.                                   *)
SizeExact ==
  races = 0 /\ (\A p \in Caller : pc[p] = "idle") => size = Cardinality(elems)
=============================================================================
