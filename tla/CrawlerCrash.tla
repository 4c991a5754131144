---------------------------- MODULE CrawlerCrash ----------------------------
(***************************************************************************)
(* Crawlers that die.  A crawler is a process of a Wetware host: it ends   *)
(* with the host, or with a panic of its own: PopRandom divides by zero    *)
(* when its random number is 0 (set.go:49).  Nobody starts it again, since *)
(* spawnCrawlers does not keep track of the processes (crawler.go:182).    *)
(* What a crawler has in its collections and in its hands goes with it.    *)
(* The others never notice; that claims expire is all there is             *)
(* (crawler.go:377-400).                                                   *)
(*                                                                         *)
(* External: Raft goes on as long as a majority of the crawlers lives.     *)
(***************************************************************************)
EXTENDS CrawlerProperties

CONSTANT MaxCrashes   \* bound: crawlers that die

ASSUME CrashAssumption == MaxCrashes \in Nat /\ MaxCrashes * 2 < Cardinality(Node)

VARIABLE dead   \* crawlers that have died

crashVars == <<vars, dead>>

CrashInit == Init /\ dead = {}

(* Messages to a dead crawler are gone, before anything else happens.      *)
Discard ==
  /\ \E n \in dead : inbox[n] # <<>>
  /\ inbox' = [n \in Node |-> IF n \in dead THEN <<>> ELSE inbox[n]]
  /\ UNCHANGED <<urlVars, pc, job, evicting, workers, announced, drops, history, dead>>

Discarded == \A n \in dead : inbox[n] = <<>>

(* A dead crawler is one with nothing in its collections, nothing in its   *)
(* hands and no message to process: the only step of Next it can take is   *)
(* NextNothing, which changes nothing.                                     *)
Crash(n) ==
  /\ n \notin dead
  /\ Cardinality(dead) < MaxCrashes
  /\ dead' = dead \cup {n}
  /\ queue' = [queue EXCEPT ![n] = Q!NewUniqueQueue]
  /\ pool' = [pool EXCEPT ![n] = {}]
  /\ claims' = [claims EXCEPT ![n] = [u \in Url |-> "none"]]
  /\ visited' = [visited EXCEPT ![n] = {}]
  /\ pc' = [pc EXCEPT ![n] = [main |-> "next", page |-> "idle"]]
  /\ job' = [job EXCEPT ![n] = [g \in Claimant |-> NoJob]]
  /\ evicting' = [evicting EXCEPT ![n] = [e \in Evictor |-> NoUrl]]
  /\ inflight' = [inflight EXCEPT ![n] = [u \in Url |-> 0]]
  /\ turns' = [turns EXCEPT ![n] = PoolSize]
  /\ inbox' = [inbox EXCEPT ![n] = <<>>]
  /\ UNCHANGED <<announced, drops, history>>

CrashNext ==
  \/ Discard
  \/ Discarded /\ Next /\ UNCHANGED dead
  \/ Discarded /\ \E n \in Node : Crash(n)

CrashSpec == CrashInit /\ [][CrashNext]_crashVars

CrashFairSpec == CrashSpec /\ Fairness /\ WF_vars(Discard)

(* The other crawlers never depend on the one that dies for a URL they     *)
(* were told about: each of them has it, or its claim, itself              *)
(* (crawler.go:125-148, 390-400, 435-452).                                 *)
SurvivorsRemember ==
  drops = 0 => \A n \in Node \ dead, u \in announced : Remembers(n, u)

(* What a crawler has announced outlives it: again and again, all URLs     *)
(* announced so far are visited, as far as any survivor knows, although    *)
(* the crawler that claimed one died with it in its queue, in a request,   *)
(* or in a page it was processing.  Each survivor has the claim or the URL *)
(* itself, and they all take it up (crawler.go:125-148, 327-345, 377-400). *)
SurvivorsVisit ==
  []<>(\A n \in Node \ dead : announced \subseteq visited[n])
=============================================================================
