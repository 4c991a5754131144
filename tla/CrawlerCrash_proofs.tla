------------------------ MODULE CrawlerCrash_proofs ------------------------
(***************************************************************************)
(* Proofs about crawlers that die, from the lemmas about those that live.  *)
(***************************************************************************)
EXTENDS CrawlerCrash, Crawler_proofs

(* A dead crawler has the collections of a new one, so it fits the         *)
(* invariants of module Crawler; only what it was told about is gone.      *)
CrashInv ==
  /\ TypeInv /\ HandsInv
  /\ dead \in SUBSET Node
  /\ drops = 0 => \A n \in Node \ dead : announced \subseteq Tracks(n)

LEMMA CrashInvInit == CrashInit => CrashInv
<1> SUFFICES ASSUME CrashInit PROVE CrashInv
  OBVIOUS
<1>1. TypeInv
  BY TypeInit DEF CrashInit
<1>2. announced = {} /\ dead = {}
  BY DEF CrashInit, Init
<1>3. HandsInv
  BY DEF CrashInit, Init, Claimant, HandsInv, Hands, NoJob
<1>4. QED
  BY <1>1, <1>2, <1>3 DEF CrashInv

(* Steps of the survivors: the same as without crashes. *)
LEMMA SurvivorsStep ==
  ASSUME CrashInv, [Next]_vars, dead' = dead
  PROVE  CrashInv'
<1>1. TypeInv'
  BY TypeNext DEF CrashInv
<1>2. CASE UNCHANGED vars
  BY <1>1, <1>2 DEF CrashInv, vars, HandsInv, Hands, Tracks, Pending
<1>3. ASSUME NEW n \in Node, Step(n) PROVE CrashInv'
  <2>1. HandsInv'
    BY <1>3, HandsStep DEF CrashInv
  <2>2. ASSUME drops' = 0, NEW k \in Node \ dead PROVE announced' \subseteq Tracks(k)'
    <3>1. drops = 0 /\ Keeps
      BY <1>3, <2>2, DropsGrow, KeepsStep DEF CrashInv
    <3>2. QED
      BY <3>1 DEF CrashInv, Keeps
  <2>3. QED
    BY <1>1, <2>1, <2>2 DEF CrashInv
<1>4. QED
  BY <1>2, <1>3, NextIsStep

(* Messages of the dead are discarded: nobody else is concerned.           *)
LEMMA DiscardStep ==
  ASSUME CrashInv, Discard
  PROVE  CrashInv'
<1> USE DEF urlVars, workers, history
<1>1. inbox' \in [Node -> Seq(Message)]
  BY DEF Discard, CrashInv, TypeInv, TypeOK
<1>2. TypeInv'
  BY <1>1 DEF Discard, CrashInv, TypeInv, TypeOK
<1>3. HandsInv'
  BY DEF Discard, CrashInv, HandsInv, Hands
<1>4. ASSUME NEW n \in Node \ dead PROVE Tracks(n)' = Tracks(n)
  <2>1. inbox'[n] = inbox[n]
    BY DEF Discard
  <2>2. QED
    BY <2>1 DEF Discard, Tracks, Hands, Pending
<1>5. QED
  BY <1>2, <1>3, <1>4 DEF CrashInv, Discard

LEMMA CrashStep ==
  ASSUME CrashInv, NEW n \in Node, Crash(n)
  PROVE  CrashInv'
<1> USE DEF history
<1>1. /\ queue' \in [Node -> Q!Queue] /\ \A m \in Node : Q!SizeOK(queue'[m])
  <2>1. QueueOK(Q!NewUniqueQueue) /\ queue' = [queue EXCEPT ![n] = Q!NewUniqueQueue]
    BY NewQueueOK DEF Crash
  <2>2. QED
    BY <2>1, QueueUpdate DEF CrashInv
<1>2. /\ pool' \in [Node -> SUBSET Url]
      /\ visited' \in [Node -> SUBSET (Url \cup {NoUrl})]
      /\ claims' \in [Node -> [Url -> {"none", "fresh", "expired"}]]
  BY DEF Crash, CrashInv, TypeInv, TypeOK
<1>3. pc' \in [Node -> [Claimant -> Label]]
  BY DEF Crash, CrashInv, TypeInv, TypeOK, Claimant, Label
<1>4. job' \in [Node -> [Claimant -> Job]]
  BY DEF Crash, CrashInv, TypeInv, TypeOK, NoJob, Job
<1>5. /\ evicting' \in [Node -> [Evictor -> Url \cup {NoUrl}]]
      /\ inflight' \in [Node -> [Url -> Nat]]
      /\ turns' \in [Node -> Nat]
      /\ inbox' \in [Node -> Seq(Message)]
  BY CrawlerAssumption DEF Crash, CrashInv, TypeInv, TypeOK
<1>6. TypeInv'
  BY <1>1, <1>2, <1>3, <1>4, <1>5 DEF Crash, CrashInv, TypeInv, TypeOK
<1>7. HandsInv'
  <2>1. "main" \in Claimant /\ job'[n]["main"] = NoJob
    BY DEF Crash, CrashInv, TypeInv, TypeOK, Claimant
  <2>2. \A k \in Node \ {n} : job'[k] = job[k] /\ pc'[k] = pc[k]
    BY DEF Crash, CrashInv, TypeInv, TypeOK
  <2>3. Hands(n)' = {}
    BY <2>1 DEF Hands, NoJob
  <2>4. job'[n]["main"].todo = {} /\ job'[n]["main"].won = {}
    BY <2>1 DEF NoJob
  <2>5. QED
    BY <2>2, <2>3, <2>4 DEF CrashInv, HandsInv, Hands
<1>8. ASSUME NEW k \in Node \ dead' PROVE k \in Node \ dead /\ Tracks(k)' = Tracks(k)
  <2>1. k # n /\ k \in Node \ dead
    BY DEF Crash
  <2>2. /\ visited'[k] = visited[k] /\ pool'[k] = pool[k] /\ inbox'[k] = inbox[k]
        /\ claims'[k] = claims[k] /\ job'[k] = job[k]
    BY <2>1 DEF Crash, CrashInv, TypeInv, TypeOK
  <2>3. QED
    BY <2>1, <2>2 DEF Tracks, Hands, Pending
<1>9. dead' \in SUBSET Node /\ drops' = drops /\ announced' = announced
  BY DEF Crash, CrashInv
<1>10. QED
  BY <1>6, <1>7, <1>8, <1>9 DEF CrashInv

LEMMA CrashInvNext == CrashInv /\ [CrashNext]_crashVars => CrashInv'
<1> SUFFICES ASSUME CrashInv, [CrashNext]_crashVars PROVE CrashInv'
  OBVIOUS
<1>1. CASE Discard
  BY <1>1, DiscardStep
<1>2. CASE Next /\ UNCHANGED dead
  BY <1>2, SurvivorsStep
<1>3. CASE \E n \in Node : Crash(n)
  BY <1>3, CrashStep
<1>4. CASE UNCHANGED crashVars
  BY <1>4, SurvivorsStep DEF crashVars
<1>5. QED
  BY <1>1, <1>2, <1>3, <1>4 DEF CrashNext

(* However many crawlers die, and whenever, the others have every URL that *)
(* was announced, or its claim: it does not take the crawler that claimed  *)
(* it to crawl it (crawler.go:125-148, 390-400).                           *)
THEOREM RememberedBySurvivors == CrashSpec => []SurvivorsRemember
<1>1. CrashInv => SurvivorsRemember
  BY DEF CrashInv, SurvivorsRemember, Remembers, Tracks, Hands
<1>2. QED
  BY <1>1, CrashInvInit, CrashInvNext, PTL DEF CrashSpec
=============================================================================
