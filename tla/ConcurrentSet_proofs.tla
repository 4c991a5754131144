------------------------ MODULE ConcurrentSet_proofs ------------------------
(***************************************************************************)
(* Proofs about Set and TimedSet: how far Size() can drift, for any number *)
(* of goroutines, items and races.                                         *)
(***************************************************************************)
EXTENDS ConcurrentSet, FiniteSetTheorems, TLAPS

(* A step of a caller, as Next has it. *)
Step(p) ==
  \/ p \in Putter /\ \E x \in Item : PutLoad(p, x)
  \/ p \in Putter /\ (PutCount(p) \/ PutStore(p))
  \/ p \in Popper /\ \E x \in Item : Pop(p, x)
  \/ p \in Popper /\ (PopCount(p) \/ PopOldest(p))
  \/ p \in Popper /\ (PopRandomPick(p) \/ PopRandomPop(p) \/ PopRandomPanic(p))

LEMMA NextSteps ==
  ASSUME [Next]_vars PROVE (\E p \in Caller : Step(p)) \/ UNCHANGED vars
  BY DEF Next, Step, Caller

-----------------------------------------------------------------------------
(* Types.                                                                  *)

LEMMA GotoType ==
  ASSUME TypeOK, NEW p \in Caller, NEW label, NEW x \in Item \cup {Zero},
         label \in {"idle", "count", "add", "update", "picked", "uncount"},
         label \in {"count", "add", "update", "uncount"} => x \in Item,
         Goto(p, label, x)
  PROVE  /\ pc' \in [Caller -> {"idle", "count", "add", "update", "picked", "uncount"}]
         /\ item' \in [Caller -> Item \cup {Zero}]
         /\ \A q \in Caller : pc'[q] \in {"count", "add", "update", "uncount"} => item'[q] \in Item
  BY DEF TypeOK, Goto

LEMMA CallerFinite == IsFiniteSet(Caller)
  BY ConcurrentSetAssumption, FS_Union DEF Caller

LEMMA PuttingFinite ==
  ASSUME NEW x
  PROVE  IsFiniteSet(Putting(x)) /\ Cardinality(Putting(x)) \in Nat
<1>1. Putting(x) \in SUBSET Caller
  BY DEF Putting
<1>2. QED
  BY <1>1, CallerFinite, FS_Subset, FS_CardinalityType

LEMMA AccessType ==
  ASSUME TypeOK, NEW x, Access(x)
  PROVE  races' \in 0 .. MaxRaces /\ races' = races + Cardinality(Putting(x))
  BY PuttingFinite, ConcurrentSetAssumption DEF TypeOK, Access

LEMMA DeleteType ==
  ASSUME TypeOK, NEW p \in Caller, NEW x \in Item \cup {Zero}, Delete(p, x)
  PROVE  TypeOK'
<1>1. /\ elems' \in SUBSET Item /\ size' \in Int /\ down' \in BOOLEAN
      /\ races' \in 0 .. MaxRaces
  BY AccessType DEF TypeOK, Delete
<1>2. CASE x \in elems
  <2>1. Goto(p, "uncount", x) /\ x \in Item
    BY <1>2 DEF Delete, TypeOK
  <2>2. QED
    BY <1>1, <2>1, GotoType DEF TypeOK
<1>3. CASE x \notin elems
  <2>1. Goto(p, "idle", Zero)
    BY <1>3 DEF Delete, Return
  <2>2. QED
    BY <1>1, <2>1, GotoType DEF TypeOK
<1>4. QED
  BY <1>2, <1>3

LEMMA TypeStep ==
  ASSUME TypeOK, NEW p \in Caller, Step(p) PROVE TypeOK'
<1>1. ASSUME NEW x \in Item, PutLoad(p, x) PROVE TypeOK'
  <2>1. races' \in 0 .. MaxRaces
    BY <1>1, AccessType DEF PutLoad
  <2>2. \E label \in {"update", "count"} : Goto(p, label, x)
    BY <1>1 DEF PutLoad
  <2>3. QED
    BY <1>1, <2>1, <2>2, GotoType DEF PutLoad, TypeOK
<1>2. CASE PutCount(p)
  <2>1. Goto(p, "add", item[p]) /\ item[p] \in Item
    BY <1>2 DEF PutCount, TypeOK
  <2>2. QED
    BY <1>2, <2>1, GotoType DEF PutCount, TypeOK
<1>3. CASE PutStore(p)
  <2>1. Goto(p, "idle", Zero) /\ item[p] \in Item
    BY <1>3 DEF PutStore, Return, TypeOK
  <2>2. QED
    BY <1>3, <2>1, GotoType DEF PutStore, TypeOK
<1>4. CASE \E x \in Item : Pop(p, x)
  BY <1>4, DeleteType DEF Pop
<1>5. CASE PopCount(p)
  <2>1. Goto(p, "idle", Zero)
    BY <1>5 DEF PopCount, Return
  <2>2. QED
    BY <1>5, <2>1, GotoType DEF PopCount, TypeOK
<1>6. CASE PopOldest(p)
  BY <1>6, DeleteType DEF PopOldest
<1>7. CASE PopRandomPick(p)
  <2>1. PICK x \in Item \cup {Zero} : Goto(p, "picked", x)
    BY <1>7 DEF PopRandomPick, TypeOK
  <2>2. QED
    BY <1>7, <2>1, GotoType DEF PopRandomPick, TypeOK
<1>8. CASE PopRandomPop(p)
  <2>1. item[p] \in Item \cup {Zero} /\ Delete(p, item[p])
    BY <1>8 DEF PopRandomPop, TypeOK
  <2>2. QED
    BY <2>1, DeleteType
<1>9. CASE PopRandomPanic(p)
  BY <1>9 DEF PopRandomPanic, TypeOK
<1>10. QED
  BY <1>1, <1>2, <1>3, <1>4, <1>5, <1>6, <1>7, <1>8, <1>9 DEF Step

LEMMA TypeNext == TypeOK /\ [Next]_vars => TypeOK'
<1> SUFFICES ASSUME TypeOK, [Next]_vars PROVE TypeOK'
  OBVIOUS
<1>1. CASE \E p \in Caller : Step(p)
  BY <1>1, TypeStep
<1>2. CASE UNCHANGED vars
  BY <1>2 DEF vars, TypeOK
<1>3. QED
  BY <1>1, <1>2, NextSteps

LEMMA TypeInit == Init => TypeOK
<1> SUFFICES ASSUME Init PROVE TypeOK
  OBVIOUS
<1>1. elems \in SUBSET Item /\ size \in Int /\ races \in 0 .. MaxRaces
  BY ConcurrentSetAssumption DEF Init
<1>2. /\ pc \in [Caller -> {"idle", "count", "add", "update", "picked", "uncount"}]
      /\ item \in [Caller -> Item \cup {Zero}]
      /\ \A p \in Caller : pc[p] \in {"count", "add", "update", "uncount"} => item[p] \in Item
  BY DEF Init
<1>3. down \in BOOLEAN
  BY DEF Init
<1>4. QED
  BY <1>1, <1>2, <1>3 DEF TypeOK

(* Type correctness: only items are ever stored, counted or uncounted, and *)
(* the zero value that PopRandom and PopOldest pop is never one of them.   *)
THEOREM TypeCorrect == Spec => []TypeOK
  BY TypeInit, TypeNext, PTL DEF Spec

-----------------------------------------------------------------------------
(* How many callers are where.                                             *)

LEMMA AtFinite ==
  ASSUME NEW l
  PROVE  At(l) \in SUBSET Caller /\ IsFiniteSet(At(l)) /\ Cardinality(At(l)) \in Nat
<1>1. At(l) \in SUBSET Caller
  BY DEF At
<1>2. QED
  BY <1>1, CallerFinite, FS_Subset, FS_CardinalityType

LEMMA AtMoves ==
  ASSUME TypeOK, NEW p \in Caller, NEW label, NEW x, Goto(p, label, x), NEW l
  PROVE  At(l)' = IF l = label THEN At(l) \cup {p} ELSE At(l) \ {p}
  BY DEF TypeOK, Goto, At

LEMMA AtCount ==
  ASSUME TypeOK, NEW p \in Caller, NEW label, NEW x, Goto(p, label, x),
         label # pc[p], NEW l
  PROVE  /\ Cardinality(At(l)) \in Nat
         /\ l = label => Cardinality(At(l)') = Cardinality(At(l)) + 1
         /\ l = pc[p] => Cardinality(At(l)') = Cardinality(At(l)) - 1
         /\ l \notin {label, pc[p]} => Cardinality(At(l)') = Cardinality(At(l))
<1>1. p \in At(l) <=> l = pc[p]
  BY DEF At
<1>2. Cardinality(At(l)) \in Nat /\ IsFiniteSet(At(l))
  BY AtFinite
<1>3. CASE l = label
  BY <1>1, <1>2, <1>3, AtMoves, FS_AddElement
<1>4. CASE l # label
  <2>1. At(l)' = At(l) \ {p}
    BY <1>4, AtMoves
  <2>2. Cardinality(At(l) \ {p}) = IF p \in At(l) THEN Cardinality(At(l)) - 1 ELSE Cardinality(At(l))
    BY <1>2, FS_RemoveElement
  <2>3. QED
    BY <1>1, <1>2, <1>4, <2>1, <2>2
<1>5. QED
  BY <1>3, <1>4

-----------------------------------------------------------------------------
(* The drift.                                                              *)

(* Putters that have yet to store what they did not find, and those that   *)
(* found an item which is gone by now: they will store it uncounted.       *)
Counting == At("count") \cup At("add")
Stale == {p \in At("update") : item[p] \notin elems}

(* The elements there will be once the putters that count are done.        *)
Soon == elems \cup {item[p] : p \in Counting}

(* Each race makes one count too many, or one too few.                     *)
TooMany ==
  size + Cardinality(At("count"))
    <= Cardinality(Soon) + Cardinality(At("uncount")) + races
TooFew ==
  Cardinality(elems) + Cardinality(At("add")) + Cardinality(At("uncount")) + Cardinality(Stale)
    <= size + races

LEMMA Finite ==
  ASSUME TypeOK
  PROVE  /\ IsFiniteSet(elems) /\ Cardinality(elems) \in Nat
         /\ IsFiniteSet(Soon) /\ Cardinality(Soon) \in Nat
         /\ IsFiniteSet(Stale) /\ Cardinality(Stale) \in Nat
         /\ size \in Int /\ races \in Nat
<1>1. elems \in SUBSET Item /\ Soon \in SUBSET Item
  BY DEF TypeOK, Soon, Counting, At
<1>2. Stale \in SUBSET Caller
  BY DEF Stale, At
<1>3. IsFiniteSet(Item)
  BY ConcurrentSetAssumption
<1>4. size \in Int /\ races \in Nat
  BY DEF TypeOK
<1>5. QED
  BY <1>1, <1>2, <1>3, <1>4, CallerFinite, FS_Subset, FS_CardinalityType

LEMMA FiniteNext ==
  ASSUME TypeOK'
  PROVE  /\ IsFiniteSet(elems') /\ Cardinality(elems') \in Nat
         /\ IsFiniteSet(Soon') /\ Cardinality(Soon') \in Nat
         /\ IsFiniteSet(Stale') /\ Cardinality(Stale') \in Nat
<1>1. elems' \in SUBSET Item /\ Soon' \in SUBSET Item
  BY DEF TypeOK, Soon, Counting, At
<1>2. Stale' \in SUBSET Caller
  BY DEF Stale, At
<1>3. IsFiniteSet(Item)
  BY ConcurrentSetAssumption
<1>4. QED
  BY <1>1, <1>2, <1>3, CallerFinite, FS_Subset, FS_CardinalityType

(* What a step of a caller does to the putters that count.                 *)
LEMMA CountingMoves ==
  ASSUME TypeOK, NEW p \in Caller, NEW label, NEW x, Goto(p, label, x)
  PROVE  /\ Counting' = IF label \in {"count", "add"} THEN Counting \cup {p} ELSE Counting \ {p}
         /\ \A q \in Caller \ {p} : item'[q] = item[q] /\ pc'[q] = pc[q]
         /\ item'[p] = x /\ pc'[p] = label
<1>1. Counting' = IF label \in {"count", "add"} THEN Counting \cup {p} ELSE Counting \ {p}
  <2>1. /\ At("count")' = IF "count" = label THEN At("count") \cup {p} ELSE At("count") \ {p}
        /\ At("add")' = IF "add" = label THEN At("add") \cup {p} ELSE At("add") \ {p}
    BY AtMoves
  <2>2. QED
    BY <2>1 DEF Counting
<1>2. QED
  BY <1>1 DEF Goto, TypeOK

(* Putters that load: one that finds an item uncounted which others are    *)
(* already counting is a race.                                             *)
LEMMA PutLoadTooMany ==
  ASSUME TypeOK, TypeOK', TooMany, NEW p \in Caller, NEW x \in Item, PutLoad(p, x)
  PROVE  TooMany'
<1> DEFINE k == Cardinality(Putting(x))
<1>1. k \in Nat /\ races' = races + k
  BY PuttingFinite, AccessType DEF PutLoad
<1>2. pc[p] = "idle" /\ size' = size /\ elems' = elems
  BY DEF PutLoad
<1>3. CASE x \in elems
  <2>1. Goto(p, "update", x)
    BY <1>3 DEF PutLoad
  <2>2. /\ Cardinality(At("count")') = Cardinality(At("count"))
        /\ Cardinality(At("uncount")') = Cardinality(At("uncount"))
    BY <1>2, <2>1, AtCount
  <2>3. Soon' = Soon
    <3>1. Counting' = Counting /\ p \notin Counting
      BY <1>2, <2>1, AtMoves DEF Counting, At
    <3>2. \A q \in Caller \ {p} : item'[q] = item[q]
      BY <2>1 DEF Goto, TypeOK
    <3>3. QED
      BY <1>2, <3>1, <3>2 DEF Soon, Counting, At
  <2>4. QED
    BY <1>1, <1>2, <2>2, <2>3, Finite, AtFinite DEF TooMany
<1>4. CASE x \notin elems
  <2>1. Goto(p, "count", x)
    BY <1>4 DEF PutLoad
  <2>2. /\ Cardinality(At("count")') = Cardinality(At("count")) + 1
        /\ Cardinality(At("uncount")') = Cardinality(At("uncount"))
    BY <1>2, <2>1, AtCount
  <2>3. Soon' = Soon \cup {x}
    <3>1. Counting' = Counting \cup {p} /\ p \notin Counting
      BY <1>2, <2>1, AtMoves DEF Counting, At
    <3>2. (\A q \in Caller \ {p} : item'[q] = item[q]) /\ item'[p] = x
      BY <2>1 DEF Goto, TypeOK
    <3>3. QED
      BY <1>2, <3>1, <3>2 DEF Soon, Counting, At
  <2>4. CASE x \notin Soon
    <3>1. Cardinality(Soon') = Cardinality(Soon) + 1
      BY <2>3, <2>4, Finite, FS_AddElement
    <3>2. QED
      BY <1>1, <1>2, <2>2, <3>1, Finite, AtFinite DEF TooMany
  <2>5. CASE x \in Soon
    <3>1. Soon' = Soon
      BY <2>3, <2>5
    <3>2. Putting(x) # {}
      BY <1>4, <2>5 DEF Soon, Counting, At, Putting
    <3>3. k >= 1
      BY <1>1, <3>2, PuttingFinite, FS_EmptySet
    <3>4. QED
      BY <1>1, <1>2, <2>2, <3>1, <3>3, Finite, AtFinite DEF TooMany
  <2>6. QED
    BY <2>4, <2>5
<1>5. QED
  BY <1>3, <1>4

(* Putters that count and store. *)
LEMMA PutRestTooMany ==
  ASSUME TypeOK, TypeOK', TooMany, NEW p \in Caller, PutCount(p) \/ PutStore(p)
  PROVE  TooMany'
<1>1. CASE PutCount(p)
  <2>1. Goto(p, "add", item[p]) /\ pc[p] = "count" /\ size' = size + 1 /\ races' = races
    BY <1>1 DEF PutCount
  <2>2. /\ Cardinality(At("count")') = Cardinality(At("count")) - 1
        /\ Cardinality(At("uncount")') = Cardinality(At("uncount"))
    BY <2>1, AtCount
  <2>3. Soon' = Soon
    <3>1. Counting' = Counting /\ elems' = elems
      BY <1>1, <2>1, CountingMoves DEF Counting, At, PutCount
    <3>2. \A q \in Counting : item'[q] = item[q]
      BY <2>1, CountingMoves DEF Counting, At
    <3>3. QED
      BY <3>1, <3>2 DEF Soon
  <2>4. QED
    BY <2>1, <2>2, <2>3, Finite, AtFinite DEF TooMany
<1>2. CASE PutStore(p)
  <2>1. /\ Goto(p, "idle", Zero) /\ pc[p] \in {"add", "update"}
        /\ size' = size /\ races' = races /\ elems' = elems \cup {item[p]}
    BY <1>2 DEF PutStore, Return
  <2>2. /\ Cardinality(At("count")') = Cardinality(At("count"))
        /\ Cardinality(At("uncount")') = Cardinality(At("uncount"))
    BY <2>1, AtCount
  <2>3. Soon \subseteq Soon'
    <3>1. Counting' = Counting \ {p}
      BY <2>1, CountingMoves
    <3>2. \A q \in Counting \ {p} : item'[q] = item[q]
      BY <2>1, CountingMoves DEF Counting, At
    <3>3. QED
      BY <2>1, <3>1, <3>2 DEF Soon
  <2>4. Cardinality(Soon) <= Cardinality(Soon') /\ Cardinality(Soon') \in Nat
    <3>1. IsFiniteSet(Soon') /\ Cardinality(Soon') \in Nat
      BY FiniteNext
    <3>2. QED
      BY <2>3, <3>1, FS_Subset
  <2>5. QED
    BY <2>1, <2>2, <2>4, Finite, AtFinite DEF TooMany
<1>3. QED
  BY <1>1, <1>2

(* A deletion takes one element and adds one caller that has yet to        *)
(* uncount it.                                                             *)
LEMMA DeleteTooMany ==
  ASSUME TypeOK, TypeOK', TooMany, NEW p \in Caller, NEW x \in Item \cup {Zero},
         pc[p] \in {"idle", "picked"}, Delete(p, x)
  PROVE  TooMany'
<1> DEFINE k == Cardinality(Putting(x))
<1>1. k \in Nat /\ races' = races + k /\ size' = size /\ elems' = elems \ {x}
  BY PuttingFinite, AccessType DEF Delete
<1>2. PICK label \in {"uncount", "idle"}, y \in {x, Zero} :
        Goto(p, label, y) /\ (label = "uncount" <=> x \in elems)
  BY DEF Delete, Return
<1>3. Cardinality(At("count")') = Cardinality(At("count"))
  <2>1. CASE label # pc[p]
    BY <1>2, <2>1, AtCount
  <2>2. CASE label = pc[p]
    BY <1>2, <2>2, AtMoves DEF At
  <2>3. QED
    BY <2>1, <2>2
<1>4. Soon \ {x} \subseteq Soon' /\ Soon' \subseteq Soon
  <2>1. Counting' = Counting /\ p \notin Counting
    BY <1>2, CountingMoves DEF Counting, At
  <2>2. \A q \in Counting : item'[q] = item[q]
    BY <1>2, <2>1, CountingMoves DEF Counting, At
  <2>3. QED
    BY <1>1, <2>1, <2>2 DEF Soon
<1>5. Cardinality(Soon') \in Nat /\ IsFiniteSet(Soon')
  BY FiniteNext
<1>6. CASE x \in elems
  <2>1. Cardinality(At("uncount")') = Cardinality(At("uncount")) + 1
    BY <1>2, <1>6, AtCount
  <2>2. Cardinality(Soon \ {x}) = Cardinality(Soon) - 1
    BY <1>6, Finite, FS_RemoveElement DEF Soon
  <2>3. Cardinality(Soon \ {x}) <= Cardinality(Soon')
    BY <1>4, <1>5, FS_Subset
  <2>4. QED
    BY <1>1, <1>3, <1>5, <2>1, <2>2, <2>3, Finite, AtFinite DEF TooMany
<1>7. CASE x \notin elems
  <2>1. label = "idle"
    BY <1>2, <1>7
  <2>2. Cardinality(At("uncount")') = Cardinality(At("uncount"))
    <3>1. CASE label # pc[p]
      BY <1>2, <2>1, <3>1, AtCount
    <3>2. CASE label = pc[p]
      BY <1>2, <2>1, <3>2, AtMoves DEF At
    <3>3. QED
      BY <3>1, <3>2
  <2>3. Soon' = Soon
    <3>1. Counting' = Counting /\ elems' = elems
      BY <1>1, <1>2, <1>7, CountingMoves DEF Counting, At
    <3>2. \A q \in Counting : item'[q] = item[q]
      BY <1>2, CountingMoves DEF Counting, At
    <3>3. QED
      BY <3>1, <3>2 DEF Soon
  <2>4. QED
    BY <1>1, <1>3, <2>2, <2>3, Finite, AtFinite DEF TooMany
<1>8. QED
  BY <1>6, <1>7

LEMMA TooManyStep ==
  ASSUME TypeOK, TypeOK', TooMany, NEW p \in Caller, Step(p)
  PROVE  TooMany'
<1>1. CASE \E x \in Item : PutLoad(p, x)
  BY <1>1, PutLoadTooMany
<1>2. CASE PutCount(p) \/ PutStore(p)
  BY <1>2, PutRestTooMany
<1>3. CASE \E x \in Item : Pop(p, x)
  BY <1>3, DeleteTooMany DEF Pop
<1>4. CASE PopCount(p)
  <2>1. /\ Goto(p, "idle", Zero) /\ pc[p] = "uncount"
        /\ size' = size - 1 /\ races' = races /\ elems' = elems
    BY <1>4 DEF PopCount, Return
  <2>2. /\ Cardinality(At("count")') = Cardinality(At("count"))
        /\ Cardinality(At("uncount")') = Cardinality(At("uncount")) - 1
    BY <2>1, AtCount
  <2>3. Soon' = Soon
    <3>1. Counting' = Counting /\ \A q \in Counting : item'[q] = item[q]
      BY <2>1, CountingMoves DEF Counting, At
    <3>2. QED
      BY <2>1, <3>1 DEF Soon
  <2>4. QED
    BY <2>1, <2>2, <2>3, Finite, AtFinite DEF TooMany
<1>5. CASE PopOldest(p)
  BY <1>5, DeleteTooMany DEF PopOldest
<1>6. CASE PopRandomPick(p)
  <2>1. PICK x \in Item \cup {Zero} : Goto(p, "picked", x)
    BY <1>6 DEF PopRandomPick, TypeOK
  <2>2. pc[p] = "idle" /\ size' = size /\ races' = races /\ elems' = elems
    BY <1>6 DEF PopRandomPick
  <2>3. /\ Cardinality(At("count")') = Cardinality(At("count"))
        /\ Cardinality(At("uncount")') = Cardinality(At("uncount"))
    BY <2>1, <2>2, AtCount
  <2>4. Soon' = Soon
    <3>1. Counting' = Counting /\ \A q \in Counting : item'[q] = item[q]
      BY <2>1, <2>2, CountingMoves DEF Counting, At
    <3>2. QED
      BY <2>2, <3>1 DEF Soon
  <2>5. QED
    BY <2>2, <2>3, <2>4, Finite, AtFinite DEF TooMany
<1>7. CASE PopRandomPop(p)
  BY <1>7, DeleteTooMany DEF PopRandomPop, TypeOK
<1>8. CASE PopRandomPanic(p)
  BY <1>8 DEF PopRandomPanic, TooMany, Soon, Counting, At
<1>9. QED
  BY <1>1, <1>2, <1>3, <1>4, <1>5, <1>6, <1>7, <1>8 DEF Step

LEMMA StaleMoves ==
  ASSUME TypeOK, NEW p \in Caller, NEW label, NEW x, Goto(p, label, x)
  PROVE  /\ Stale' \subseteq {q \in At("update") : item[q] \notin elems'} \cup {p}
         /\ label # "update" \/ x \in elems' => p \notin Stale'
<1>1. At("update")' = IF "update" = label THEN At("update") \cup {p} ELSE At("update") \ {p}
  BY AtMoves
<1>2. (\A q \in Caller \ {p} : item'[q] = item[q]) /\ item'[p] = x
  BY CountingMoves
<1>3. At("update") \subseteq Caller
  BY DEF At
<1>4. QED
  BY <1>1, <1>2, <1>3 DEF Stale

LEMMA StaleShrinks ==
  ASSUME TypeOK, TypeOK', Stale' \subseteq Stale
  PROVE  Cardinality(Stale') <= Cardinality(Stale)
  BY Finite, FiniteNext, FS_Subset

LEMMA PutTooFew ==
  ASSUME TypeOK, TypeOK', TooFew, NEW p \in Caller,
         PutCount(p) \/ PutStore(p) \/ \E x \in Item : PutLoad(p, x)
  PROVE  TooFew'
<1>1. ASSUME NEW x \in Item, PutLoad(p, x) PROVE TooFew'
  <2>1. races' >= races /\ races' \in Nat
    BY <1>1, PuttingFinite, AccessType DEF PutLoad, TypeOK
  <2>2. /\ pc[p] = "idle" /\ size' = size /\ elems' = elems
        /\ Goto(p, IF x \in elems THEN "update" ELSE "count", x)
    BY <1>1 DEF PutLoad
  <2>3. /\ Cardinality(At("add")') = Cardinality(At("add"))
        /\ Cardinality(At("uncount")') = Cardinality(At("uncount"))
    BY <2>2, AtCount
  <2>4. Stale' \subseteq Stale
    BY <2>2, StaleMoves DEF Stale
  <2>5. QED
    BY <2>1, <2>2, <2>3, <2>4, StaleShrinks, Finite, FiniteNext, AtFinite DEF TooFew
<1>2. CASE PutCount(p)
  <2>1. /\ Goto(p, "add", item[p]) /\ pc[p] = "count"
        /\ size' = size + 1 /\ races' = races /\ elems' = elems
    BY <1>2 DEF PutCount
  <2>2. /\ Cardinality(At("add")') = Cardinality(At("add")) + 1
        /\ Cardinality(At("uncount")') = Cardinality(At("uncount"))
    BY <2>1, AtCount
  <2>3. Stale' \subseteq Stale
    BY <2>1, StaleMoves DEF Stale
  <2>4. QED
    BY <2>1, <2>2, <2>3, StaleShrinks, Finite, FiniteNext, AtFinite DEF TooFew
<1>3. CASE PutStore(p)
  <2>1. /\ Goto(p, "idle", Zero) /\ pc[p] \in {"add", "update"}
        /\ size' = size /\ races' = races /\ elems' = elems \cup {item[p]}
    BY <1>3 DEF PutStore, Return
  <2>2. Cardinality(At("uncount")') = Cardinality(At("uncount"))
    BY <2>1, AtCount
  <2>3. Stale' \subseteq Stale \ {p}
    BY <2>1, StaleMoves DEF Stale
  <2>4. Cardinality(elems') <= Cardinality(elems) + 1
    <3>1. Cardinality(elems \cup {item[p]})
            = IF item[p] \in elems THEN Cardinality(elems) ELSE Cardinality(elems) + 1
      BY Finite, FS_AddElement
    <3>2. QED
      BY <2>1, <3>1, Finite
  <2>5. CASE pc[p] = "add"
    <3>1. Cardinality(At("add")') = Cardinality(At("add")) - 1
      BY <2>1, <2>5, AtCount
    <3>2. Cardinality(Stale') <= Cardinality(Stale)
      BY <2>3, StaleShrinks
    <3>3. QED
      BY <2>1, <2>2, <2>4, <3>1, <3>2, Finite, FiniteNext, AtFinite DEF TooFew
  <2>6. CASE pc[p] = "update" /\ item[p] \in elems
    <3>1. elems' = elems /\ Cardinality(elems') = Cardinality(elems)
      BY <2>1, <2>6
    <3>2. Cardinality(At("add")') = Cardinality(At("add"))
      BY <2>1, <2>6, AtCount
    <3>3. Cardinality(Stale') <= Cardinality(Stale)
      BY <2>3, StaleShrinks
    <3>4. QED
      BY <2>1, <2>2, <3>1, <3>2, <3>3, Finite, FiniteNext, AtFinite DEF TooFew
  <2>7. CASE pc[p] = "update" /\ item[p] \notin elems
    <3>1. p \in Stale
      BY <2>7 DEF Stale, At
    <3>2. Cardinality(Stale \ {p}) = Cardinality(Stale) - 1 /\ IsFiniteSet(Stale \ {p})
      BY <3>1, Finite, FS_RemoveElement
    <3>3. Cardinality(Stale') <= Cardinality(Stale) - 1
      BY <2>3, <3>2, FS_Subset
    <3>4. Cardinality(At("add")') = Cardinality(At("add"))
      BY <2>1, <2>7, AtCount
    <3>5. QED
      BY <2>1, <2>2, <2>4, <3>3, <3>4, Finite, FiniteNext, AtFinite DEF TooFew
  <2>8. QED
    BY <2>1, <2>5, <2>6, <2>7
<1>4. QED
  BY <1>1, <1>2, <1>3

(* An item deleted while others put it leaves them stale.                  *)
LEMMA DeleteTooFew ==
  ASSUME TypeOK, TypeOK', TooFew, NEW p \in Caller, NEW x \in Item \cup {Zero},
         pc[p] \in {"idle", "picked"}, Delete(p, x)
  PROVE  TooFew'
<1> DEFINE k == Cardinality(Putting(x))
<1>1. k \in Nat /\ races' = races + k /\ size' = size /\ elems' = elems \ {x}
  BY PuttingFinite, AccessType DEF Delete
<1>2. PICK label \in {"uncount", "idle"}, y \in {x, Zero} :
        Goto(p, label, y) /\ (label = "uncount" <=> x \in elems)
  BY DEF Delete, Return
<1>3. Cardinality(At("add")') = Cardinality(At("add"))
  <2>1. CASE label # pc[p]
    BY <1>2, <2>1, AtCount
  <2>2. CASE label = pc[p]
    BY <1>2, <2>2, AtMoves DEF At
  <2>3. QED
    BY <2>1, <2>2
<1>4. CASE x \in elems
  <2>1. Cardinality(At("uncount")') = Cardinality(At("uncount")) + 1
    BY <1>2, <1>4, AtCount
  <2>2. Cardinality(elems') = Cardinality(elems) - 1
    BY <1>1, <1>4, Finite, FS_RemoveElement
  <2>3. Stale' \subseteq Stale \cup Putting(x)
    <3>1. Stale' \subseteq {q \in At("update") : item[q] \notin elems'}
      BY <1>2, StaleMoves
    <3>2. QED
      BY <1>1, <3>1 DEF Stale, Putting, At
  <2>4. Cardinality(Stale') <= Cardinality(Stale) + k
    <3>1. /\ IsFiniteSet(Stale \cup Putting(x))
          /\ Cardinality(Stale \cup Putting(x))
               = Cardinality(Stale) + k - Cardinality(Stale \cap Putting(x))
      BY Finite, PuttingFinite, FS_Union
    <3>2. Cardinality(Stale') <= Cardinality(Stale \cup Putting(x))
      BY <2>3, <3>1, FS_Subset
    <3>3. Cardinality(Stale \cap Putting(x)) \in Nat
      BY Finite, FS_Intersection, FS_CardinalityType
    <3>4. QED
      BY <1>1, <3>1, <3>2, <3>3, Finite, FiniteNext
  <2>5. QED
    BY <1>1, <1>3, <2>1, <2>2, <2>4, Finite, FiniteNext, AtFinite DEF TooFew
<1>5. CASE x \notin elems
  <2>1. label = "idle" /\ elems' = elems
    BY <1>1, <1>2, <1>5
  <2>2. Cardinality(At("uncount")') = Cardinality(At("uncount"))
    <3>1. CASE label # pc[p]
      BY <1>2, <2>1, <3>1, AtCount
    <3>2. CASE label = pc[p]
      BY <1>2, <2>1, <3>2, AtMoves DEF At
    <3>3. QED
      BY <3>1, <3>2
  <2>3. Stale' \subseteq Stale
    BY <1>2, <2>1, StaleMoves DEF Stale
  <2>4. /\ Cardinality(elems') = Cardinality(elems)
        /\ Cardinality(Stale') <= Cardinality(Stale)
    BY <2>1, <2>3, StaleShrinks
  <2>5. QED
    BY <1>1, <1>3, <2>2, <2>4, Finite, FiniteNext, AtFinite DEF TooFew
<1>6. QED
  BY <1>4, <1>5

LEMMA TooFewStep ==
  ASSUME TypeOK, TypeOK', TooFew, NEW p \in Caller, Step(p)
  PROVE  TooFew'
<1>1. CASE PutCount(p) \/ PutStore(p) \/ \E x \in Item : PutLoad(p, x)
  BY <1>1, PutTooFew
<1>2. CASE \E x \in Item : Pop(p, x)
  BY <1>2, DeleteTooFew DEF Pop
<1>3. CASE PopCount(p)
  <2>1. /\ Goto(p, "idle", Zero) /\ pc[p] = "uncount"
        /\ size' = size - 1 /\ races' = races /\ elems' = elems
    BY <1>3 DEF PopCount, Return
  <2>2. /\ Cardinality(At("add")') = Cardinality(At("add"))
        /\ Cardinality(At("uncount")') = Cardinality(At("uncount")) - 1
    BY <2>1, AtCount
  <2>3. Stale' \subseteq Stale
    BY <2>1, StaleMoves DEF Stale
  <2>4. QED
    BY <2>1, <2>2, <2>3, StaleShrinks, Finite, FiniteNext, AtFinite DEF TooFew
<1>4. CASE PopOldest(p)
  BY <1>4, DeleteTooFew DEF PopOldest
<1>5. CASE PopRandomPick(p)
  <2>1. PICK x \in Item \cup {Zero} : Goto(p, "picked", x)
    BY <1>5 DEF PopRandomPick, TypeOK
  <2>2. pc[p] = "idle" /\ size' = size /\ races' = races /\ elems' = elems
    BY <1>5 DEF PopRandomPick
  <2>3. /\ Cardinality(At("add")') = Cardinality(At("add"))
        /\ Cardinality(At("uncount")') = Cardinality(At("uncount"))
    BY <2>1, <2>2, AtCount
  <2>4. Stale' \subseteq Stale
    BY <2>1, <2>2, StaleMoves DEF Stale
  <2>5. QED
    BY <2>2, <2>3, <2>4, StaleShrinks, Finite, FiniteNext, AtFinite DEF TooFew
<1>6. CASE PopRandomPop(p)
  BY <1>6, DeleteTooFew DEF PopRandomPop, TypeOK
<1>7. CASE PopRandomPanic(p)
  BY <1>7 DEF PopRandomPanic, TooFew, Stale, At
<1>8. QED
  BY <1>1, <1>2, <1>3, <1>4, <1>5, <1>6, <1>7 DEF Step

-----------------------------------------------------------------------------
(* The inductive invariant. *)
DriftInv == TypeOK /\ TooMany /\ TooFew

LEMMA DriftInit == Init => DriftInv
<1> SUFFICES ASSUME Init PROVE DriftInv
  OBVIOUS
<1>1. TypeOK
  BY TypeInit
<1>2. \A l \in {"count", "add", "update", "uncount"} : At(l) = {}
  BY DEF Init, At
<1>3. Soon = {} /\ Stale = {} /\ elems = {} /\ size = 0 /\ races = 0
  BY <1>2 DEF Init, Soon, Counting, Stale
<1>4. Cardinality({}) = 0
  BY FS_EmptySet
<1>5. TooMany
  BY <1>2, <1>3, <1>4 DEF TooMany
<1>6. TooFew
  BY <1>2, <1>3, <1>4 DEF TooFew
<1>7. QED
  BY <1>1, <1>5, <1>6 DEF DriftInv

LEMMA DriftNext == DriftInv /\ [Next]_vars => DriftInv'
<1> SUFFICES ASSUME DriftInv, [Next]_vars PROVE DriftInv'
  OBVIOUS
<1>1. TypeOK /\ TooMany /\ TooFew /\ TypeOK'
  BY TypeNext DEF DriftInv
<1>2. CASE \E p \in Caller : Step(p)
  BY <1>1, <1>2, TooManyStep, TooFewStep DEF DriftInv
<1>3. CASE UNCHANGED vars
  BY <1>1, <1>3 DEF vars, DriftInv, TooMany, TooFew, Soon, Stale, Counting, At
<1>4. QED
  BY <1>2, <1>3, NextSteps

(* The items that are being counted are at most as many as those who do.   *)
LEMMA SoonBound ==
  ASSUME TypeOK
  PROVE  Cardinality(Soon)
           <= Cardinality(elems) + Cardinality(At("count")) + Cardinality(At("add"))
<1> DEFINE new == {item[p] : p \in Counting}
           f == [p \in Counting |-> item[p]]
<1>1. IsFiniteSet(Counting) /\ Cardinality(Counting) \in Nat
  BY AtFinite, FS_Union, FS_CardinalityType DEF Counting
<1>2. Cardinality(Counting) <= Cardinality(At("count")) + Cardinality(At("add"))
  <2>1. Cardinality(Counting) = Cardinality(At("count")) + Cardinality(At("add"))
                                  - Cardinality(At("count") \cap At("add"))
    BY AtFinite, FS_Union DEF Counting
  <2>2. Cardinality(At("count") \cap At("add")) \in Nat
    BY AtFinite, FS_Intersection, FS_CardinalityType
  <2>3. QED
    BY <2>1, <2>2, AtFinite
<1>3. f \in Surjection(Counting, new)
  BY DEF Surjection
<1>4. IsFiniteSet(new) /\ Cardinality(new) <= Cardinality(Counting)
  BY <1>1, <1>3, FS_Surjection
<1>5. Cardinality(new) \in Nat
  BY <1>4, FS_CardinalityType
<1>6. Cardinality(Soon) <= Cardinality(elems) + Cardinality(new)
  <2>1. Cardinality(elems \cup new)
          = Cardinality(elems) + Cardinality(new) - Cardinality(elems \cap new)
    BY <1>4, Finite, FS_Union
  <2>2. Cardinality(elems \cap new) \in Nat
    BY Finite, FS_Intersection, FS_CardinalityType
  <2>3. QED
    BY <1>5, <2>1, <2>2, Finite DEF Soon
<1>7. QED
  BY <1>1, <1>2, <1>4, <1>5, <1>6, Finite, AtFinite

LEMMA DriftInvBounds == DriftInv => DriftBounded
<1> SUFFICES ASSUME DriftInv PROVE DriftBounded
  OBVIOUS
<1>1. TypeOK /\ TooMany /\ TooFew
  BY DEF DriftInv
<1>2. Drift \in Int
  BY <1>1, Finite, AtFinite DEF Drift
<1>3. Drift <= races
  BY <1>1, SoonBound, Finite, AtFinite DEF Drift, TooMany
<1>4. -races <= Drift
  BY <1>1, Finite, AtFinite DEF Drift, TooFew
<1>5. QED
  BY <1>1, <1>2, <1>3, <1>4, Finite DEF DriftBounded

(* Size() is off by at most one for each access to an item that another    *)
(* goroutine was putting, and a Put or a Pop that is underway (set.go:21-   *)
(* 41, timedset.go:21-35).                                                 *)
THEOREM DriftIsBounded == Spec => []DriftBounded
  BY DriftInit, DriftNext, DriftInvBounds, PTL DEF Spec

LEMMA DriftBoundedExact == TypeOK /\ DriftBounded => SizeExact
<1> SUFFICES ASSUME TypeOK, DriftBounded, races = 0, \A p \in Caller : pc[p] = "idle"
             PROVE  size = Cardinality(elems)
  BY DEF SizeExact
<1>1. At("add") = {} /\ At("uncount") = {}
  BY DEF At
<1>2. Cardinality({}) = 0
  BY FS_EmptySet
<1>3. Drift = 0
  BY DEF DriftBounded
<1>4. QED
  BY <1>1, <1>2, <1>3, Finite DEF Drift

(* Between calls, Size() is the number of elements if no two calls on one  *)
(* item have overlapped, whatever the calls on other items did.            *)
THEOREM SizeIsExact == Spec => []SizeExact
  BY TypeInit, TypeNext, DriftInit, DriftNext, DriftInvBounds, DriftBoundedExact, PTL DEF Spec
=============================================================================
