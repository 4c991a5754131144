------------------------- MODULE CrawlerLinks_proofs -------------------------
(***************************************************************************)
(* Proofs that no link of a fetched page gets lost on its way through      *)
(* sortAndSend and claimUrls, that nothing is visited unannounced, and     *)
(* that the cluster implements the crawl of module WebCrawl.               *)
(***************************************************************************)
EXTENDS Crawler_proofs

(* The URLs goroutine g of crawler n holds. *)
HandOf(j) == j.todo \cup j.won \cup j.lost \cup j.rest
Hand(n, g) == HandOf(job[n][g])

(* What the page goroutine has finished with when it reaches a point of    *)
(* its loop.  The main loop has no links to leave to others.               *)
PageInv ==
  \A n \in Node :
    /\ pc[n]["page"] \in {"idle", "visit", "sort", "rest"} =>
         job[n]["page"].todo = {} /\ job[n]["page"].won = {} /\ job[n]["page"].lost = {}
    /\ pc[n]["page"] = "report" => job[n]["page"].todo = {} /\ job[n]["page"].won = {}
    /\ pc[n]["page"] = "idle" => job[n]["page"].rest = {}
    /\ job[n]["main"].rest = {}

(* The main loop does not touch the goroutine that processes pages. *)
LEMMA MainLeavesPage ==
  ASSUME TypeInv, NEW n \in Node,
         \/ NextFromQueue(n) \/ NextFromPool(n) \/ NextEvict(n) \/ NextEvictDone(n) \/ Dispatch(n)
         \/ ClaimOne(n, "main") \/ SendClaims(n, "main") \/ SendRefused(n, "main")
  PROVE  \A k \in Node : job'[k]["page"] = job[k]["page"] /\ pc'[k]["page"] = pc[k]["page"]
<1>0. "main" \in Claimant /\ "page" \in Claimant /\ "main" # "page"
  BY DEF Claimant
<1>1. pc' = pc \/ \E l : pc' = [pc EXCEPT ![n]["main"] = l]
  BY DEF NextFromQueue, NextFromPool, NextEvict, NextEvictDone, Dispatch, ClaimOne, SendClaims,
         SendRefused
<1>2. job' = job \/ \E j : job' = [job EXCEPT ![n]["main"] = j]
  <2>1. CASE ClaimOne(n, "main") \/ SendClaims(n, "main") \/ SendRefused(n, "main")
    BY <1>0, <2>1, ClaimJob
  <2>2. CASE NextFromQueue(n) \/ NextFromPool(n) \/ NextEvict(n) \/ NextEvictDone(n) \/ Dispatch(n)
    BY <2>2 DEF NextFromQueue, NextFromPool, NextEvict, NextEvictDone, Dispatch
  <2>3. QED
    BY <2>1, <2>2
<1>3. QED
  BY <1>0, <1>1, <1>2, JobReplaced, PcReplaced

(* No step gives the main loop links to leave to others. *)
LEMMA MainRest ==
  ASSUME TypeInv, PageInv, NEW n \in Node, Step(n)
  PROVE  \A k \in Node : job'[k]["main"].rest = {}
<1>0. "main" \in Claimant /\ \A g \in Claimant : g = "main" \/ g = "page"
  BY DEF Claimant
<1>1. CASE \A k \in Node : job'[k]["main"] = job[k]["main"]
  BY <1>1 DEF PageInv
<1>2. CASE NextFromQueue(n) \/ NextFromPool(n) \/ Dispatch(n)
  <2>1. NoJob.rest = {} /\ \A u, todo : MainJob(u, todo).rest = {}
    BY DEF NoJob, MainJob
  <2>2. PICK j : job' = [job EXCEPT ![n]["main"] = j] /\ j.rest = {}
    <3>1. CASE NextFromQueue(n)
      BY <2>1, <3>1 DEF NextFromQueue
    <3>2. CASE NextFromPool(n)
      <4>1. PICK u \in pool[n] : job' = [job EXCEPT ![n]["main"] = MainJob(u, {u})]
        BY <3>2 DEF NextFromPool
      <4>2. QED
        BY <2>1, <4>1
    <3>3. CASE Dispatch(n)
      BY <2>1, <3>3 DEF Dispatch
    <3>4. QED
      BY <1>2, <3>1, <3>2, <3>3
  <2>3. QED
    BY <1>0, <2>2 DEF PageInv, TypeInv, TypeOK
<1>3. CASE ClaimOne(n, "main") \/ SendClaims(n, "main") \/ SendRefused(n, "main")
  <2>1. PICK j \in Job : job' = [job EXCEPT ![n]["main"] = j] /\ j.rest = job[n]["main"].rest
    BY <1>0, <1>3, ClaimJob
  <2>2. QED
    BY <1>0, <2>1 DEF PageInv, TypeInv, TypeOK
<1>4. QED
  BY <1>0, <1>1, <1>2, <1>3, PageLeavesMain
     DEF Step, OnNewValue, NextEvict, NextEvictDone, Expire, Evict, EvictScan, EvictMove

(* Every step keeps PageInv. *)
LEMMA PageStepInv ==
  ASSUME TypeInv, PageInv, NEW n \in Node, Step(n)
  PROVE  PageInv'
<1>0. /\ "page" \in Claimant
      /\ \A g \in Claimant : g = "main" \/ g = "page"
      /\ job[n]["page"] \in Job
  BY DEF Claimant, TypeInv, TypeOK
<1>m. \A k \in Node : job'[k]["main"].rest = {}
  BY MainRest
<1>1. CASE \A k \in Node : job'[k]["page"] = job[k]["page"] /\ pc'[k]["page"] = pc[k]["page"]
  BY <1>m, <1>1 DEF PageInv
<1>2. CASE \/ \E u \in Url : FetchOk(n, u) \/ FetchFail(n, u)
           \/ ReportVisit(n) \/ SortLinks(n) \/ ReportRest(n)
           \/ ClaimOne(n, "page") \/ SendClaims(n, "page") \/ SendRefused(n, "page")
  <2>0. \A k \in Node : k # n => /\ job'[k]["page"] = job[k]["page"]
                                /\ pc'[k]["page"] = pc[k]["page"]
    BY <1>2, PageLeavesMain
  <2> DEFINE j == job'[n]["page"]
             l == pc'[n]["page"]
  <2>1. SUFFICES /\ l \in {"idle", "visit", "sort", "rest"} => j.todo = {} /\ j.won = {} /\ j.lost = {}
                 /\ l = "report" => j.todo = {} /\ j.won = {}
                 /\ l = "idle" => j.rest = {}
    BY <1>m, <2>0 DEF PageInv
  <2>2. CASE \E u \in Url : FetchOk(n, u) \/ FetchFail(n, u)
    <3>1. PICK u \in Url : FetchOk(n, u) \/ FetchFail(n, u)
      BY <2>2
    <3>2. /\ NoJob.todo = {} /\ NoJob.won = {} /\ NoJob.lost = {}
          /\ \A links : /\ PageJob(u, links).todo = {} /\ PageJob(u, links).won = {}
                        /\ PageJob(u, links).lost = {}
      BY DEF NoJob, PageJob
    <3>3. \E i \in {NoJob, PageJob(u, {}), PageJob(u, Links[u])} : TakeResponse(n, u, i)
      BY <3>1 DEF FetchOk, FetchFail
    <3>4. l = "visit" /\ j \in {NoJob, PageJob(u, {}), PageJob(u, Links[u])}
      BY <1>0, <3>3 DEF TakeResponse, TypeInv, TypeOK
    <3>5. QED
      BY <3>2, <3>4
  <2>3. CASE ReportVisit(n)
    <3>1. pc[n]["page"] = "visit" /\ l = "sort" /\ j = job[n]["page"]
      BY <1>0, <2>3 DEF ReportVisit, TypeInv, TypeOK
    <3>2. QED
      BY <3>1 DEF PageInv
  <2>4. CASE SortLinks(n) \/ ClaimOne(n, "page")
    <3>1. CASE SortLinks(n)
      <4>1. pc' = [pc EXCEPT ![n]["page"] = "put"]
        BY <3>1 DEF SortLinks
      <4>2. QED
        BY <1>0, <4>1 DEF TypeInv, TypeOK
    <3>2. CASE ClaimOne(n, "page")
      BY <3>2 DEF ClaimOne
    <3>3. QED
      BY <2>4, <3>1, <3>2
  <2>5. CASE SendClaims(n, "page")
    <3>1. job[n]["page"].todo = {} /\ l = "report"
      BY <1>0, <2>5 DEF SendClaims, TypeInv, TypeOK
    <3>2. PICK i \in Job : /\ job' = [job EXCEPT ![n]["page"] = i]
                           /\ i.todo = job[n]["page"].todo /\ i.won = {}
      BY <1>0, <2>5, ClaimJob
    <3>3. j = i
      BY <1>0, <3>2 DEF TypeInv, TypeOK
    <3>4. QED
      BY <3>1, <3>2, <3>3
  <2>6. CASE SendRefused(n, "page")
    <3>1. pc[n]["page"] = "report" /\ l = "rest"
      BY <1>0, <2>6 DEF SendRefused, TypeInv, TypeOK
    <3>2. PICK i \in Job : /\ job' = [job EXCEPT ![n]["page"] = i]
                           /\ i.todo = job[n]["page"].todo /\ i.won = job[n]["page"].won
                           /\ i.lost = {}
      BY <1>0, <2>6, ClaimJob
    <3>3. j = i
      BY <1>0, <3>2 DEF TypeInv, TypeOK
    <3>4. QED
      BY <3>1, <3>2, <3>3 DEF PageInv
  <2>7. CASE ReportRest(n)
    <3>1. j = NoJob
      BY <1>0, <2>7 DEF ReportRest, TypeInv, TypeOK
    <3>2. NoJob.todo = {} /\ NoJob.won = {} /\ NoJob.lost = {} /\ NoJob.rest = {}
      BY DEF NoJob
    <3>3. QED
      BY <3>1, <3>2
  <2>8. QED
    BY <1>2, <2>2, <2>3, <2>4, <2>5, <2>6, <2>7
<1>3. CASE UNCHANGED <<job, pc>>
  BY <1>1, <1>3
<1>4. QED
  BY <1>0, <1>1, <1>2, <1>3, MainLeavesPage
     DEF Step, OnNewValue, Expire, Evict, EvictScan, EvictMove

-----------------------------------------------------------------------------
(* What becomes of the URLs a goroutine holds.                             *)

(* When one goroutine replaces its local variables, it is enough to look   *)
(* at what it held.                                                        *)
LEMMA HandReplaced ==
  ASSUME TypeInv, NEW n \in Node, NEW g \in Claimant, NEW j, NEW gone,
         job' = [job EXCEPT ![n][g] = j],
         Hand(n, g) \subseteq HandOf(j) \cup gone
  PROVE  \A k \in Node, h \in Claimant : Hand(k, h) \subseteq Hand(k, h)' \cup gone
<1>1. job'[n][g] = j /\ \A k \in Node, h \in Claimant : k # n \/ h # g => job'[k][h] = job[k][h]
  BY DEF TypeInv, TypeOK
<1>2. ASSUME NEW k \in Node, NEW h \in Claimant
      PROVE  Hand(k, h) \subseteq Hand(k, h)' \cup gone
  <2>1. Hand(k, h)' = HandOf(job'[k][h]) /\ Hand(k, h) = HandOf(job[k][h])
    BY DEF Hand, HandOf
  <2>2. CASE k = n /\ h = g
    BY <1>1, <2>1, <2>2
  <2>3. CASE k # n \/ h # g
    BY <1>1, <2>1, <2>3
  <2>4. QED
    BY <2>2, <2>3
<1>3. QED
  BY <1>2

(* claimUrls lets go of a URL only in a message. *)
LEMMA HandClaim ==
  ASSUME TypeInv, drops' = drops, NEW n \in Node, NEW g \in Claimant,
         ClaimOne(n, g) \/ SendClaims(n, g) \/ SendRefused(n, g)
  PROVE  \A k \in Node, h \in Claimant : Hand(k, h) \subseteq Hand(k, h)' \cup announced'
<1>0. job[n][g] \in Job /\ drops \in Nat
  BY CrawlerAssumption DEF TypeInv, TypeOK
<1>1. CASE ClaimOne(n, g)
  <2>1. PICK j \in Job :
          /\ job' = [job EXCEPT ![n][g] = j]
          /\ j.rest = job[n][g].rest
          /\ j.todo \cup j.won \cup j.lost = job[n][g].todo \cup job[n][g].won \cup job[n][g].lost
    BY <1>1, ClaimJob
  <2>2. Hand(n, g) \subseteq HandOf(j) \cup announced'
    BY <2>1 DEF Hand, HandOf
  <2>3. QED
    BY <2>1, <2>2, HandReplaced
<1>2. CASE SendClaims(n, g)
  <2>1. PICK j \in Job :
          /\ job' = [job EXCEPT ![n][g] = j]
          /\ j.rest = job[n][g].rest
          /\ j.todo = job[n][g].todo /\ j.lost = job[n][g].lost
    BY <1>2, ClaimJob
  <2>2. /\ SendMsg("claim", job[n][g].won)
        /\ [type |-> "claim", urls |-> job[n][g].won] \in Message
    BY <1>0, <1>2 DEF SendClaims, Message, Job
  <2>3. job[n][g].won \subseteq announced'
    BY <1>0, <2>2, Sent
  <2>4. Hand(n, g) \subseteq HandOf(j) \cup announced'
    BY <2>1, <2>3 DEF Hand, HandOf
  <2>5. QED
    BY <2>1, <2>4, HandReplaced
<1>3. CASE SendRefused(n, g)
  <2>1. PICK j \in Job :
          /\ job' = [job EXCEPT ![n][g] = j]
          /\ j.rest = job[n][g].rest
          /\ j.todo = job[n][g].todo /\ j.won = job[n][g].won
    BY <1>3, ClaimJob
  <2>2. /\ SendMsg("report", job[n][g].lost)
        /\ [type |-> "report", urls |-> job[n][g].lost] \in Message
    BY <1>0, <1>3 DEF SendRefused, Message, Job
  <2>3. job[n][g].lost \subseteq announced'
    BY <1>0, <2>2, Sent
  <2>4. Hand(n, g) \subseteq HandOf(j) \cup announced'
    BY <2>1, <2>3 DEF Hand, HandOf
  <2>5. QED
    BY <2>1, <2>4, HandReplaced
<1>4. QED
  BY <1>1, <1>2, <1>3

(* sortAndSend drops only the links that are visited. *)
LEMMA HandSort ==
  ASSUME TypeInv, PageInv, NEW n \in Node, SortLinks(n)
  PROVE  \A k \in Node, h \in Claimant : Hand(k, h) \subseteq Hand(k, h)' \cup visited[n]
<1>0. "page" \in Claimant /\ job[n]["page"] \in Job
  BY DEF Claimant, TypeInv, TypeOK
<1>1. job[n]["page"].todo = {} /\ job[n]["page"].won = {} /\ job[n]["page"].lost = {}
  BY DEF PageInv, SortLinks
<1>2. PICK mine :
        job' = [job EXCEPT ![n]["page"].todo = mine,
                           ![n]["page"].rest = (@ \ visited[n]) \ mine]
  BY DEF SortLinks
<1> DEFINE j == [job[n]["page"] EXCEPT !.todo = mine, !.rest = (@ \ visited[n]) \ mine]
<1>3. job' = [job EXCEPT ![n]["page"] = j]
  BY <1>0, <1>2 DEF TypeInv, TypeOK
<1>4. j.todo = mine /\ j.rest = (job[n]["page"].rest \ visited[n]) \ mine
  BY <1>0 DEF Job
<1> HIDE DEF j
<1>5. Hand(n, "page") \subseteq HandOf(j) \cup visited[n]
  BY <1>1, <1>4 DEF Hand, HandOf
<1>6. QED
  BY <1>0, <1>3, <1>5, HandReplaced

(* Whatever step is taken, a URL some goroutine holds stays in its hands,  *)
(* is announced, or is visited already.                                    *)
LEMMA HandStep ==
  ASSUME TypeInv, HandsInv, PageInv, drops' = drops, NEW n \in Node, Step(n)
  PROVE  \A k \in Node, h \in Claimant :
           Hand(k, h) \subseteq Hand(k, h)' \cup announced' \cup visited[n]
<1>0. "main" \in Claimant /\ "page" \in Claimant
  BY DEF Claimant
<1>1. CASE UNCHANGED job
  BY <1>1 DEF Hand
<1>2. CASE NextFromQueue(n) \/ NextFromPool(n) \/ Dispatch(n)
  <2>1. Hand(n, "main") = {}
    BY <1>2 DEF NextFromQueue, NextFromPool, Dispatch, HandsInv, Hands, PageInv, Hand, HandOf
  <2>2. PICK j : job' = [job EXCEPT ![n]["main"] = j]
    BY <1>2 DEF NextFromQueue, NextFromPool, Dispatch
  <2>3. Hand(n, "main") \subseteq HandOf(j) \cup {}
    BY <2>1
  <2>4. QED
    BY <1>0, <2>2, <2>3, HandReplaced
<1>3. CASE \E u \in Url : FetchOk(n, u) \/ FetchFail(n, u)
  <2>1. pc[n]["page"] = "idle"
    BY <1>3 DEF FetchOk, FetchFail, TakeResponse
  <2>2. Hand(n, "page") = {}
    BY <2>1 DEF PageInv, Hand, HandOf
  <2>3. PICK j : job' = [job EXCEPT ![n]["page"] = j]
    BY <1>3 DEF FetchOk, FetchFail, TakeResponse
  <2>4. Hand(n, "page") \subseteq HandOf(j) \cup {}
    BY <2>2
  <2>5. QED
    BY <1>0, <2>3, <2>4, HandReplaced
<1>4. CASE \E g \in Claimant : ClaimOne(n, g) \/ SendClaims(n, g) \/ SendRefused(n, g)
  BY <1>4, HandClaim
<1>5. CASE SortLinks(n)
  BY <1>5, HandSort
<1>6. CASE ReportRest(n)
  <2>1. /\ job[n]["page"] \in Job /\ drops \in Nat
        /\ Hand(n, "page") = job[n]["page"].rest
    BY <1>0, <1>6, CrawlerAssumption DEF ReportRest, PageInv, Hand, HandOf, TypeInv, TypeOK
  <2>2. /\ SendMsg("report", job[n]["page"].rest)
        /\ [type |-> "report", urls |-> job[n]["page"].rest] \in Message
    BY <1>6, <2>1 DEF ReportRest, Message, Job
  <2>3. Hand(n, "page") \subseteq HandOf(NoJob) \cup announced'
    BY <2>1, <2>2, Sent
  <2>4. job' = [job EXCEPT ![n]["page"] = NoJob]
    BY <1>6 DEF ReportRest
  <2>5. QED
    BY <1>0, <2>3, <2>4, HandReplaced
<1>7. QED
  BY <1>1, <1>2, <1>3, <1>4, <1>5, <1>6
     DEF Step, OnNewValue, NextEvict, NextEvictDone, ReportVisit, Expire, Evict, EvictScan,
         EvictMove

(* The links of a new page are in the hands of the page goroutine. *)
LEMMA FoundStep ==
  ASSUME TypeInv, NEW n \in Node, Step(n)
  PROVE  found' \subseteq found \cup Hand(n, "page")' /\ announced \subseteq announced'
<1>0. "page" \in Claimant
  BY DEF Claimant
<1>1. announced \subseteq announced'
  BY DEF Step, OnNewValue, NextFromQueue, NextFromPool, NextEvict, NextEvictDone, Dispatch,
         FetchOk, FetchFail, TakeResponse, ReportVisit, SortLinks, ClaimOne, SendClaims,
         SendRefused, ReportRest, Expire, Evict, EvictScan, EvictMove, SendMsg, raftVars
<1>2. CASE UNCHANGED found
  BY <1>1, <1>2
<1>3. ASSUME NEW u \in Url, found' = found \cup Links[u], TakeResponse(n, u, PageJob(u, Links[u]))
      PROVE  found' \subseteq found \cup Hand(n, "page")'
  <2>1. job'[n]["page"] = PageJob(u, Links[u])
    BY <1>0, <1>3 DEF TakeResponse, TypeInv, TypeOK
  <2>2. PageJob(u, Links[u]).rest = Links[u]
    BY DEF PageJob, NoJob
  <2>3. QED
    BY <1>3, <2>1, <2>2 DEF Hand, HandOf
<1>4. CASE \E u \in Url : FetchOk(n, u)
  BY <1>1, <1>2, <1>3, <1>4 DEF FetchOk
<1>5. QED
  BY <1>2, <1>4
     DEF Step, OnNewValue, NextFromQueue, NextFromPool, NextEvict, NextEvictDone, Dispatch,
         FetchFail, ReportVisit, SortLinks, ClaimOne, SendClaims, SendRefused, ReportRest,
         Expire, Evict, EvictScan, EvictMove, history

(* A link on a fetched page that is not announced is known to be visited,  *)
(* or held by a goroutine.                                                 *)
Accounted(u) ==
  u \in announced \/ \E n \in Node : u \in Known(n) \/ \E g \in Claimant : u \in Hand(n, g)

(* No link of a fetched page is dropped as long as no message is lost.     *)
(* sortAndSend skips visited links only, and the two goroutines that run   *)
(* claimUrls start anew only with empty hands (HandsInv, PageInv).         *)
THEOREM LinksKept == Spec => []NoLinkLost
<1> DEFINE Inv == HandsInv /\ PageInv /\ (drops = 0 => \A u \in found : Accounted(u))
<1>1. Init => Inv
  <2> SUFFICES ASSUME Init PROVE Inv
    OBVIOUS
  <2>1. found = {}
    BY DEF Init
  <2>2. \A n \in Node : job[n]["main"] = NoJob /\ job[n]["page"] = NoJob
    BY DEF Init, Claimant
  <2>3. QED
    BY <2>1, <2>2 DEF HandsInv, Hands, PageInv, NoJob
<1>2. TypeInv /\ Inv /\ [Next]_vars => Inv'
  <2> SUFFICES ASSUME TypeInv, Inv, [Next]_vars
               PROVE  Inv'
    OBVIOUS
  <2>1. CASE UNCHANGED vars
    BY <2>1 DEF vars, HandsInv, Hands, PageInv, Accounted, Known, PendingVisits, Hand
  <2>2. ASSUME NEW n \in Node, Step(n) PROVE Inv'
    <3>1. HandsInv' /\ PageInv'
      BY <2>2, HandsStep, PageStepInv
    <3>2. ASSUME drops' = 0, NEW u \in found' PROVE Accounted(u)'
      <4>1. drops = 0 /\ drops' = drops
        BY <2>2, <3>2, DropsGrow
      <4>2. /\ \A k \in Node, h \in Claimant :
                  Hand(k, h) \subseteq Hand(k, h)' \cup announced' \cup visited[n]
            /\ found' \subseteq found \cup Hand(n, "page")'
            /\ announced \subseteq announced'
        BY <2>2, <4>1, HandStep, FoundStep
      <4>3. \A k \in Node : Known(k) \subseteq Known(k)'
        BY <2>2, KnownStep
      <4>4. visited[n] \subseteq Known(n)'
        BY <4>3 DEF Known
      <4>5. CASE u \in found
        BY <4>1, <4>2, <4>3, <4>4, <4>5 DEF Accounted
      <4>6. CASE u \in Hand(n, "page")'
        BY <4>6 DEF Accounted, Claimant
      <4>7. QED
        BY <3>2, <4>2, <4>5, <4>6
    <3>3. QED
      BY <3>1, <3>2
  <2>3. QED
    BY <2>1, <2>2, NextIsStep
<1>3. TypeInv /\ Inv => NoLinkLost
  <2>1. \A n \in Node : PendingVisits(n) \subseteq Pending(n)
    BY DEF PendingVisits, Pending, VisitsIn, UrlsIn
  <2>2. QED
    BY <2>1 DEF NoLinkLost, Accounted, Known, InHand, Hand, HandOf
<1>4. QED
  BY <1>1, <1>2, <1>3, TypeInvHolds, PTL DEF Spec

-----------------------------------------------------------------------------
(* Where the URLs of a crawler come from.                                  *)

(* All slots of a ring, those that were read included. *)
Slots(p) == {p.items[i] : i \in Q!Slot}

(* Put adds the URL it accepts, Get and Remove nothing. *)
LEMMA SlotsOfCalls ==
  ASSUME NEW p, QueueOK(p)
  PROVE  /\ \A t \in Url :
              Slots(Q!Put(p, t))
                \subseteq Slots(p) \cup (IF Q!PutError(p, t) = "nil" THEN {t} ELSE {})
         /\ Slots(Q!Get(p)) = Slots(p) /\ Q!GetItem(p) \in Slots(p)
         /\ \A t : Slots(Q!Remove(p, t)) \subseteq Slots(p)
<1>0. p \in QP!Queue
  BY SameQueue
<1>1. \A q : QP!Values(q) = Slots(q)
  BY DEF QP!Values, Slots, QP!Slot, Q!Slot
<1>2. \A t \in Url : Slots(Q!Put(p, t))
                      \subseteq Slots(p) \cup (IF Q!PutError(p, t) = "nil" THEN {t} ELSE {})
  BY <1>0, <1>1, SameCalls, QP!PutValues, CrawlerAssumption
<1>3. Slots(Q!Get(p)) = Slots(p) /\ Q!GetItem(p) \in Slots(p)
  BY <1>0, <1>1, SameCalls, QP!GetValues, CrawlerAssumption
<1>4. \A t : Slots(Q!Remove(p, t)) \subseteq Slots(p)
  BY <1>0, <1>1, SameCalls, QP!RemoveValues, CrawlerAssumption
<1>5. QED
  BY <1>2, <1>3, <1>4

(* What may be crawled anywhere, and what a crawler may have queued: that, *)
(* and what it is about to claim.                                          *)
Told == announced \cup {Seed, NoUrl}
Own(n) == Told \cup job[n]["page"].won

(* claimUrls has accepted what it puts in the queue. *)
LEMMA ClaimOnePut ==
  ASSUME TypeInv, NEW n \in Node, NEW g \in Claimant, ClaimOne(n, g)
  PROVE  \E u \in job[n][g].todo :
           /\ queue' = [queue EXCEPT ![n] = Q!Put(@, u)]
           /\ job'[n][g].won = job[n][g].won
                                 \cup (IF Q!PutError(queue[n], u) = "nil" THEN {u} ELSE {})
<1>0. job \in [Node -> [Claimant -> Job]] /\ job[n][g] \in Job
  BY DEF TypeInv, TypeOK
<1>1. PICK u \in job[n][g].todo :
        /\ queue' = [queue EXCEPT ![n] = Q!Put(@, u)]
        /\ job' = [job EXCEPT
               ![n][g].todo = @ \ {u},
               ![n][g].won  = IF Q!PutError(queue[n], u) = "nil" THEN @ \cup {u} ELSE @,
               ![n][g].lost = IF Q!PutError(queue[n], u) = "nil" THEN @ ELSE @ \cup {u}]
  BY DEF ClaimOne
<1> DEFINE ok == Q!PutError(queue[n], u) = "nil"
<1>2. job'[n][g].won = IF ok THEN job[n][g].won \cup {u} ELSE job[n][g].won
  <2> HIDE DEF ok
  <2>1. job' = [job EXCEPT ![n][g].todo = @ \ {u},
                           ![n][g].won  = IF ok THEN @ \cup {u} ELSE @,
                           ![n][g].lost = IF ok THEN @ ELSE @ \cup {u}]
    BY <1>1 DEF ok
  <2>2. QED
    BY <1>0, <2>1 DEF Job
<1>3. QED
  BY <1>1, <1>2

(* What a crawler may have queued it may have for ever. *)
LEMMA OwnGrows ==
  ASSUME TypeInv, PageInv, drops' = drops, NEW n \in Node, Step(n)
  PROVE  announced \subseteq announced' /\ \A k \in Node : Own(k) \subseteq Own(k)'
<1>0. /\ "page" \in Claimant /\ \A g \in Claimant : g = "main" \/ g = "page"
      /\ job[n]["page"] \in Job /\ drops \in Nat
  BY CrawlerAssumption DEF Claimant, TypeInv, TypeOK
<1>1. announced \subseteq announced'
  BY FoundStep
<1>2. SUFFICES \A k \in Node : job[k]["page"].won \subseteq job'[k]["page"].won \cup announced'
  BY <1>1 DEF Own, Told
<1>3. CASE \A k \in Node : job'[k]["page"] = job[k]["page"]
  BY <1>3
<1>4. CASE \/ \E u \in Url : FetchOk(n, u) \/ FetchFail(n, u)
           \/ ReportVisit(n) \/ SortLinks(n) \/ ReportRest(n)
           \/ ClaimOne(n, "page") \/ SendClaims(n, "page") \/ SendRefused(n, "page")
  <2>0. \A k \in Node : k # n => job'[k]["page"] = job[k]["page"]
    BY <1>4, PageLeavesMain
  <2>1. SUFFICES job[n]["page"].won \subseteq job'[n]["page"].won \cup announced'
    BY <2>0
  <2>2. CASE ReportRest(n) \/ SortLinks(n) \/ \E u \in Url : FetchOk(n, u) \/ FetchFail(n, u)
    <3>1. job[n]["page"].won = {}
      BY <2>2 DEF ReportRest, SortLinks, FetchOk, FetchFail, TakeResponse, PageInv
    <3>2. QED
      BY <3>1
  <2>3. CASE ReportVisit(n)
    BY <2>3 DEF ReportVisit
  <2>4. CASE ClaimOne(n, "page")
    BY <1>0, <2>4, ClaimOnePut
  <2>5. CASE SendClaims(n, "page")
    <3>1. /\ SendMsg("claim", job[n]["page"].won)
          /\ [type |-> "claim", urls |-> job[n]["page"].won] \in Message
      BY <1>0, <2>5 DEF SendClaims, Message, Job
    <3>2. QED
      BY <1>0, <3>1, Sent
  <2>6. CASE SendRefused(n, "page")
    <3>1. PICK j \in Job : job' = [job EXCEPT ![n]["page"] = j] /\ j.won = job[n]["page"].won
      BY <1>0, <2>6, ClaimJob
    <3>2. job'[n]["page"] = j
      BY <1>0, <3>1 DEF TypeInv, TypeOK
    <3>3. QED
      BY <3>1, <3>2
  <2>7. QED
    BY <1>4, <2>2, <2>3, <2>4, <2>5, <2>6
<1>5. CASE UNCHANGED job
  BY <1>3, <1>5
<1>6. QED
  BY <1>0, <1>3, <1>4, <1>5, MainLeavesPage
     DEF Step, OnNewValue, Expire, Evict, EvictScan, EvictMove

(* Where URLs are on their way to a visit, and where they come from.       *)
QueueInv == \A n \in Node : Slots(queue[n]) \subseteq Own(n)
RequestInv == \A n \in Node, u \in Url : inflight[n][u] > 0 => u \in Own(n)
MainInv == \A n \in Node : job[n]["main"].url \in Own(n) /\ Hands(n) \subseteq announced
HeldInv ==
  \A n \in Node :
    /\ pool[n] \cup {u \in Url : claims[n][u] # "none"} \subseteq announced
    /\ \A e \in Evictor : evicting[n][e] \in announced \cup {NoUrl}
InboxInv ==
  \A n \in Node : \A i \in DOMAIN inbox[n] :
    inbox[n][i].type # "visit" => inbox[n][i].urls \subseteq announced
VisitInv == \A n \in Node : job[n]["page"].url \in Told /\ Known(n) \subseteq Told

SourcesInv == QueueInv /\ RequestInv /\ MainInv /\ HeldInv /\ InboxInv /\ VisitInv

(* The queue gets URLs the main loop holds, and those about to be claimed. *)
LEMMA QueueStep ==
  ASSUME TypeInv, PageInv, SourcesInv, drops' = drops, NEW n \in Node, Step(n)
  PROVE  QueueInv'
<1> USE DEF urlVars
<1>0. /\ \A k \in Node : QueueOK(queue[k])
      /\ queue \in [Node -> Q!Queue]
      /\ \A g \in Claimant : job[n][g] \in Job /\ (g = "main" \/ g = "page")
  BY DEF TypeInv, TypeOK, QueueOK, Claimant
<1>1. announced \subseteq announced' /\ \A k \in Node : Own(k) \subseteq Own(k)'
  BY OwnGrows
<1>2. CASE UNCHANGED queue
  BY <1>1, <1>2 DEF SourcesInv, QueueInv
<1>3. ASSUME NEW q, queue' = [queue EXCEPT ![n] = q], Slots(q) \subseteq Own(n)'
      PROVE  QueueInv'
  <2>1. queue'[n] = q /\ \A k \in Node \ {n} : queue'[k] = queue[k]
    BY <1>0, <1>3
  <2>2. \A k \in Node : Slots(queue'[k]) \subseteq Own(k)'
    BY <1>1, <1>3, <2>1 DEF SourcesInv, QueueInv
  <2>3. QED
    BY <2>2 DEF QueueInv, Slots
<1>4. CASE OnNewValue(n)
  <2>1. UNCHANGED queue \/ \E t : queue' = [queue EXCEPT ![n] = Q!Remove(queue[n], t)]
    BY <1>4 DEF OnNewValue, OnUrlVisit, OnUrlClaim, OnUrlReport
  <2>2. \A t : Slots(Q!Remove(queue[n], t)) \subseteq Own(n)'
    BY <1>0, <1>1, SlotsOfCalls DEF SourcesInv, QueueInv
  <2>3. QED
    BY <1>2, <1>3, <2>1, <2>2
<1>5. CASE NextFromQueue(n)
  <2>1. queue' = [queue EXCEPT ![n] = Q!Get(queue[n])]
    BY <1>5 DEF NextFromQueue
  <2>2. Slots(Q!Get(queue[n])) \subseteq Own(n)'
    BY <1>0, <1>1, SlotsOfCalls DEF SourcesInv, QueueInv
  <2>3. QED
    BY <1>3, <2>1, <2>2
<1>6. ASSUME NEW g \in Claimant, ClaimOne(n, g) PROVE QueueInv'
  <2>1. PICK u \in job[n][g].todo :
          /\ queue' = [queue EXCEPT ![n] = Q!Put(queue[n], u)]
          /\ job'[n][g].won = job[n][g].won
                                \cup (IF Q!PutError(queue[n], u) = "nil" THEN {u} ELSE {})
    BY <1>6, ClaimOnePut
  <2>2. u \in Url
    BY <1>0, <2>1 DEF Job
  <2>3. Q!PutError(queue[n], u) = "nil" => u \in Own(n)'
    <3>1. CASE g = "main"
      BY <1>1, <2>1, <3>1 DEF SourcesInv, MainInv, Hands, Own, Told
    <3>2. CASE g = "page"
      BY <2>1, <3>2 DEF Own
    <3>3. QED
      BY <1>0, <3>1, <3>2
  <2>4. Slots(queue[n]) \subseteq Own(n)'
    BY <1>1 DEF SourcesInv, QueueInv
  <2>5. Slots(Q!Put(queue[n], u)) \subseteq Own(n)'
    BY <1>0, <2>2, <2>3, <2>4, SlotsOfCalls
  <2>6. QED
    BY <1>3, <2>1, <2>5
<1>7. QED
  BY <1>2, <1>4, <1>5, <1>6
     DEF Step, NextFromPool, NextEvict, NextEvictDone, Dispatch, FetchOk, FetchFail, TakeResponse,
         ReportVisit, SortLinks, SendClaims, SendRefused, ReportRest, Expire, Evict, EvictScan,
         EvictMove

(* Requests are for URLs the main loop had. *)
LEMMA RequestStep ==
  ASSUME TypeInv, PageInv, SourcesInv, drops' = drops, NEW n \in Node, Step(n)
  PROVE  RequestInv'
<1> USE DEF workers
<1>1. \A k \in Node : Own(k) \subseteq Own(k)'
  BY OwnGrows
<1>2. CASE UNCHANGED inflight
  BY <1>1, <1>2 DEF SourcesInv, RequestInv
<1>3. CASE Dispatch(n)
  <2>1. inflight' = [inflight EXCEPT ![n][job[n]["main"].url] = @ + 1]
    BY <1>3 DEF Dispatch
  <2>2. ASSUME NEW k \in Node, NEW u \in Url, inflight'[k][u] > 0 PROVE u \in Own(k)
    <3>1. CASE k = n /\ u = job[n]["main"].url
      BY <3>1 DEF SourcesInv, MainInv
    <3>2. CASE k # n \/ u # job[n]["main"].url
      <4>1. inflight'[k][u] = inflight[k][u]
        BY <2>1, <3>2 DEF TypeInv, TypeOK
      <4>2. QED
        BY <2>2, <4>1 DEF SourcesInv, RequestInv
    <3>3. QED
      BY <3>1, <3>2
  <2>3. QED
    BY <1>1, <2>2 DEF RequestInv
<1>4. CASE \E u \in Url : FetchOk(n, u) \/ FetchFail(n, u)
  <2>1. PICK v \in Url : inflight[n][v] > 0 /\ inflight' = [inflight EXCEPT ![n][v] = @ - 1]
    BY <1>4 DEF FetchOk, FetchFail, TakeResponse
  <2>2. ASSUME NEW k \in Node, NEW u \in Url, inflight'[k][u] > 0 PROVE inflight[k][u] > 0
    BY <2>1, <2>2 DEF TypeInv, TypeOK
  <2>3. QED
    BY <1>1, <2>2 DEF SourcesInv, RequestInv
<1>5. QED
  BY <1>2, <1>3, <1>4
     DEF Step, OnNewValue, NextFromQueue, NextFromPool, NextEvict, NextEvictDone, ReportVisit,
         SortLinks, ClaimOne, SendClaims, SendRefused, ReportRest, Expire, Evict, EvictScan,
         EvictMove

(* The main loop gets its URLs from the queue or the pool. *)
LEMMA MainSourceStep ==
  ASSUME TypeInv, PageInv, SourcesInv, drops' = drops, NEW n \in Node, Step(n)
  PROVE  MainInv'
<1>0. /\ "main" \in Claimant /\ QueueOK(queue[n])
      /\ \A g \in Claimant : g = "main" \/ g = "page"
  BY DEF Claimant, TypeInv, TypeOK, QueueOK
<1>1. announced \subseteq announced' /\ \A k \in Node : Own(k) \subseteq Own(k)'
  BY OwnGrows
<1>2. CASE \A k \in Node : job'[k]["main"] = job[k]["main"]
  BY <1>1, <1>2 DEF SourcesInv, MainInv, Hands
<1>3. ASSUME NEW j, job' = [job EXCEPT ![n]["main"] = j], j.url \in Own(n),
             j.todo \cup j.won \cup j.lost \subseteq announced
      PROVE  MainInv'
  <2>1. /\ job'[n]["main"] = j
        /\ \A k \in Node \ {n} : job'[k]["main"] = job[k]["main"]
    BY <1>0, <1>3 DEF TypeInv, TypeOK
  <2>2. \A k \in Node : job'[k]["main"].url \in Own(k)'
    BY <1>1, <1>3, <2>1 DEF SourcesInv, MainInv
  <2>3. \A k \in Node : Hands(k)' \subseteq announced'
    BY <1>1, <1>3, <2>1 DEF SourcesInv, MainInv, Hands
  <2>4. QED
    BY <2>2, <2>3 DEF MainInv
<1>4. CASE NextFromQueue(n)
  <2> DEFINE u == Q!GetItem(queue[n])
             j == MainJob(u, {})
  <2>1. job' = [job EXCEPT ![n]["main"] = j]
    BY <1>4 DEF NextFromQueue
  <2>2. u \in Own(n)
    BY <1>0, SlotsOfCalls DEF SourcesInv, QueueInv
  <2>3. j.url = u /\ j.todo = {} /\ j.won = {} /\ j.lost = {}
    BY DEF MainJob, NoJob
  <2>4. QED
    BY <1>3, <2>1, <2>2, <2>3
<1>5. CASE NextFromPool(n)
  <2>1. PICK u \in pool[n] : job' = [job EXCEPT ![n]["main"] = MainJob(u, {u})]
    BY <1>5 DEF NextFromPool
  <2> DEFINE j == MainJob(u, {u})
  <2>2. u \in announced /\ u \in Own(n)
    BY DEF SourcesInv, HeldInv, Own, Told
  <2>3. j.url = u /\ j.todo = {u} /\ j.won = {} /\ j.lost = {}
    BY DEF MainJob, NoJob
  <2>4. QED
    BY <1>3, <2>1, <2>2, <2>3
<1>6. CASE Dispatch(n)
  <2>1. job' = [job EXCEPT ![n]["main"] = NoJob]
    BY <1>6 DEF Dispatch
  <2>2. NoJob.url = NoUrl /\ NoJob.todo = {} /\ NoJob.won = {} /\ NoJob.lost = {}
    BY DEF NoJob
  <2>3. NoUrl \in Own(n)
    BY DEF Own, Told
  <2>4. QED
    BY <1>3, <2>1, <2>2, <2>3
<1>7. CASE ClaimOne(n, "main") \/ SendClaims(n, "main") \/ SendRefused(n, "main")
  <2>1. PICK j \in Job :
          /\ job' = [job EXCEPT ![n]["main"] = j]
          /\ j.url = job[n]["main"].url
          /\ j.todo \cup j.won \cup j.lost \subseteq Hands(n)
    BY <1>0, <1>7, ClaimJob DEF Hands
  <2>2. QED
    BY <1>3, <2>1 DEF SourcesInv, MainInv
<1>8. QED
  BY <1>0, <1>2, <1>4, <1>5, <1>6, <1>7, PageLeavesMain
     DEF Step, OnNewValue, NextEvict, NextEvictDone, Expire, Evict, EvictScan, EvictMove

(* Pools and claims come from messages, and from one another. *)
LEMMA HeldStep ==
  ASSUME TypeInv, HeldInv, InboxInv, NEW n \in Node, Step(n)
  PROVE  HeldInv'
<1> USE DEF urlVars
<1>0. announced \subseteq announced'
  BY FoundStep
<1>1. CASE UNCHANGED <<pool, claims, evicting>>
  BY <1>0, <1>1 DEF HeldInv
<1>2. CASE OnNewValue(n)
  <2> DEFINE msg == Head(inbox[n])
  <2>1. msg.type # "visit" => msg.urls \subseteq announced
    <3>1. inbox[n] \in Seq(Message) /\ inbox[n] # <<>>
      BY <1>2 DEF OnNewValue, TypeInv, TypeOK
    <3>2. 1 \in DOMAIN inbox[n] /\ msg = inbox[n][1]
      BY <3>1
    <3>3. QED
      BY <3>2 DEF InboxInv
  <2>2. CASE msg.type = "visit" /\ OnUrlVisit(n, msg.urls)
    BY <1>0, <1>2, <2>2 DEF OnNewValue, OnUrlVisit, HeldInv, TypeInv, TypeOK
  <2>3. CASE msg.type = "claim" /\ OnUrlClaim(n, msg.urls)
    <3>1. /\ claims' = [claims EXCEPT ![n] =
                 [u \in Url |-> IF u \in msg.urls \ visited[n] THEN "fresh" ELSE claims[n][u]]]
          /\ UNCHANGED <<pool, evicting>>
      BY <1>2, <2>3 DEF OnNewValue, OnUrlClaim
    <3>2. ASSUME NEW k \in Node, NEW u \in Url, claims'[k][u] # "none" PROVE u \in announced
      BY <2>1, <2>3, <3>1, <3>2 DEF HeldInv, TypeInv, TypeOK
    <3>3. QED
      BY <1>0, <3>1, <3>2 DEF HeldInv
  <2>4. CASE msg.type = "report" /\ OnUrlReport(n, msg.urls)
    BY <1>0, <1>2, <2>1, <2>4 DEF OnNewValue, OnUrlReport, HeldInv, TypeInv, TypeOK
  <2>5. QED
    BY <1>2, <2>2, <2>3, <2>4 DEF OnNewValue
<1>3. CASE NextFromPool(n)
  <2>1. /\ \E u : pool' = [pool EXCEPT ![n] = @ \ {u}]
        /\ UNCHANGED <<claims, evicting>>
    BY <1>3 DEF NextFromPool
  <2>2. QED
    BY <1>0, <2>1 DEF HeldInv, TypeInv, TypeOK
<1>4. CASE \E u \in Url : Expire(n, u)
  <2>1. PICK u \in Url : /\ claims[n][u] = "fresh"
                         /\ claims' = [claims EXCEPT ![n][u] = "expired"]
                         /\ UNCHANGED <<pool, evicting>>
    BY <1>4 DEF Expire
  <2>2. \A k \in Node, v \in Url : claims'[k][v] # "none" => claims[k][v] # "none"
    BY <2>1 DEF TypeInv, TypeOK
  <2>3. QED
    BY <1>0, <2>1, <2>2 DEF HeldInv
<1>5. ASSUME NEW e \in Evictor, NEW u \in Url, EvictScan(n, e, u) PROVE HeldInv'
  <2>1. /\ claims[n][u] = "expired"
        /\ evicting' = [evicting EXCEPT ![n][e] = u]
        /\ UNCHANGED <<pool, claims>>
    BY <1>5 DEF EvictScan
  <2>2. u \in announced
    BY <2>1 DEF HeldInv
  <2>3. ASSUME NEW k \in Node, NEW f \in Evictor PROVE evicting'[k][f] \in announced \cup {NoUrl}
    BY <2>1, <2>2 DEF HeldInv, TypeInv, TypeOK
  <2>4. QED
    BY <1>0, <2>1, <2>3 DEF HeldInv
<1>6. ASSUME NEW e \in Evictor, EvictMove(n, e) PROVE HeldInv'
  <2> DEFINE u == evicting[n][e]
  <2>1. /\ u # NoUrl
        /\ claims' = [claims EXCEPT ![n][u] = "none"]
        /\ pool' = [pool EXCEPT ![n] = @ \cup {u}]
        /\ evicting' = [evicting EXCEPT ![n][e] = NoUrl]
    BY <1>6 DEF EvictMove
  <2>2. u \in announced
    BY <2>1 DEF HeldInv
  <2> HIDE DEF u
  <2>3. \A k \in Node, v \in Url : claims'[k][v] # "none" => claims[k][v] # "none"
    BY <2>1 DEF TypeInv, TypeOK
  <2>4. \A k \in Node : pool'[k] \subseteq announced
    BY <2>1, <2>2 DEF HeldInv, TypeInv, TypeOK
  <2>5. \A k \in Node, f \in Evictor : evicting'[k][f] \in announced \cup {NoUrl}
    BY <2>1 DEF HeldInv, TypeInv, TypeOK
  <2>6. QED
    BY <1>0, <2>3, <2>4, <2>5 DEF HeldInv
<1>7. QED
  BY <1>1, <1>2, <1>3, <1>4, <1>5, <1>6
     DEF Step, NextFromQueue, NextEvict, NextEvictDone, Dispatch, FetchOk, FetchFail, TakeResponse,
         ReportVisit, SortLinks, ClaimOne, SendClaims, SendRefused, ReportRest, Evict

(* Messages other than visits announce their URLs. *)
LEMMA InboxStep ==
  ASSUME TypeInv, InboxInv, NEW n \in Node, Step(n)
  PROVE  InboxInv'
<1>0. announced \subseteq announced' /\ drops \in Nat
  BY FoundStep, CrawlerAssumption DEF TypeInv, TypeOK
<1>1. CASE UNCHANGED inbox
  BY <1>0, <1>1 DEF InboxInv
<1>2. CASE OnNewValue(n)
  <2>1. inbox' = [inbox EXCEPT ![n] = Tail(inbox[n])] /\ inbox[n] # <<>>
    BY <1>2 DEF OnNewValue
  <2>2. inbox[n] \in Seq(Message)
    BY DEF TypeInv, TypeOK
  <2>3. \A i \in DOMAIN Tail(inbox[n]) :
          i + 1 \in DOMAIN inbox[n] /\ Tail(inbox[n])[i] = inbox[n][i + 1]
    BY <2>1, <2>2
  <2>4. inbox'[n] = Tail(inbox[n]) /\ \A k \in Node \ {n} : inbox'[k] = inbox[k]
    BY <2>1 DEF TypeInv, TypeOK
  <2>5. ASSUME NEW k \in Node, NEW i \in DOMAIN inbox'[k], inbox'[k][i].type # "visit"
        PROVE  inbox'[k][i].urls \subseteq announced
    <3>1. CASE k = n
      <4>1. i \in DOMAIN Tail(inbox[n]) /\ inbox'[k][i] = Tail(inbox[n])[i]
        BY <2>4, <2>5, <3>1
      <4>2. i + 1 \in DOMAIN inbox[n] /\ inbox'[k][i] = inbox[n][i + 1]
        BY <2>3, <4>1
      <4>3. QED
        BY <2>5, <4>2 DEF InboxInv
    <3>2. CASE k # n
      <4>1. inbox'[k] = inbox[k]
        BY <2>4, <3>2
      <4>2. QED
        BY <2>5, <4>1 DEF InboxInv
    <3>3. QED
      BY <3>1, <3>2
  <2>6. QED
    BY <1>0, <2>5 DEF InboxInv
<1>3. ASSUME NEW type, NEW urls, SendMsg(type, urls) PROVE InboxInv'
  <2>1. CASE UNCHANGED inbox
    BY <1>1, <2>1
  <2>2. CASE /\ inbox' = [k \in Node |-> Append(inbox[k], [type |-> type, urls |-> urls])]
             /\ announced' = IF type = "visit" THEN announced ELSE announced \cup urls
    <3> DEFINE m == [type |-> type, urls |-> urls]
    <3>1. m.type # "visit" => m.urls \subseteq announced'
      BY <2>2
    <3>2. ASSUME NEW k \in Node, NEW i \in DOMAIN inbox'[k]
          PROVE  \/ i \in DOMAIN inbox[k] /\ inbox'[k][i] = inbox[k][i]
                 \/ inbox'[k][i] = m
      <4>1. inbox'[k] = Append(inbox[k], m) /\ inbox[k] \in Seq(Message)
        BY <2>2 DEF TypeInv, TypeOK
      <4> HIDE DEF m
      <4>2. QED
        BY <3>2, <4>1
    <3> HIDE DEF m
    <3>3. QED
      BY <1>0, <3>1, <3>2 DEF InboxInv
  <2>3. QED
    BY <1>0, <1>3, <2>1, <2>2 DEF SendMsg, raftVars
<1>4. QED
  BY <1>1, <1>2, <1>3
     DEF Step, NextFromQueue, NextFromPool, NextEvict, NextEvictDone, Dispatch, FetchOk, FetchFail,
         TakeResponse, ReportVisit, SortLinks, ClaimOne, SendClaims, SendRefused, ReportRest,
         Expire, Evict, EvictScan, EvictMove, raftVars

(* A page is taken when its goroutine has nothing left to claim, so what   *)
(* it visits was announced by then.                                        *)
LEMMA VisitStep ==
  ASSUME TypeInv, PageInv, SourcesInv, drops' = drops, NEW n \in Node, Step(n)
  PROVE  VisitInv'
<1>0. /\ "page" \in Claimant /\ \A g \in Claimant : g = "main" \/ g = "page"
      /\ job[n]["page"] \in Job
  BY DEF Claimant, TypeInv, TypeOK
<1>1. Told \subseteq Told'
  BY FoundStep DEF Told
<1>2. \A k \in Node : Known(k)' \subseteq Told'
  BY <1>1, KnownStep DEF SourcesInv, VisitInv
<1>3. CASE \A k \in Node : job'[k]["page"].url = job[k]["page"].url
  BY <1>1, <1>2, <1>3 DEF SourcesInv, VisitInv
<1>4. ASSUME NEW j, job' = [job EXCEPT ![n]["page"] = j], j.url \in Told
      PROVE  VisitInv'
  <2>1. job'[n]["page"] = j /\ \A k \in Node \ {n} : job'[k]["page"] = job[k]["page"]
    BY <1>0, <1>4 DEF TypeInv, TypeOK
  <2>2. \A k \in Node : job'[k]["page"].url \in Told
    BY <1>4, <2>1 DEF SourcesInv, VisitInv
  <2>3. QED
    BY <1>1, <1>2, <2>2 DEF VisitInv
<1>5. NoJob.url = NoUrl /\ NoUrl \in Told /\ \A u, links : PageJob(u, links).url = u
  BY DEF NoJob, PageJob, Told
<1>6. CASE \E u \in Url : FetchOk(n, u) \/ FetchFail(n, u)
  <2>1. PICK u \in Url : FetchOk(n, u) \/ FetchFail(n, u)
    BY <1>6
  <2>2. \E j \in {NoJob, PageJob(u, {}), PageJob(u, Links[u])} : TakeResponse(n, u, j)
    BY <2>1 DEF FetchOk, FetchFail
  <2>3. PICK j \in {NoJob, PageJob(u, {}), PageJob(u, Links[u])} :
          /\ inflight[n][u] > 0 /\ pc[n]["page"] = "idle"
          /\ job' = [job EXCEPT ![n]["page"] = j]
    BY <2>2 DEF TakeResponse
  <2>4. u \in Own(n) /\ job[n]["page"].won = {}
    BY <2>3 DEF SourcesInv, RequestInv, PageInv
  <2>5. u \in Told
    BY <2>4 DEF Own
  <2>6. j.url \in Told
    BY <1>5, <2>3, <2>5
  <2>7. QED
    BY <1>4, <2>3, <2>6
<1>7. CASE ReportRest(n)
  BY <1>4, <1>5, <1>7 DEF ReportRest
<1>8. CASE ClaimOne(n, "page") \/ SendClaims(n, "page") \/ SendRefused(n, "page")
  <2>1. PICK j \in Job : job' = [job EXCEPT ![n]["page"] = j] /\ j.url = job[n]["page"].url
    BY <1>0, <1>8, ClaimJob
  <2>2. QED
    BY <1>4, <2>1 DEF SourcesInv, VisitInv
<1>9. CASE SortLinks(n)
  <2>1. PICK todo, rest : job' = [job EXCEPT ![n]["page"].todo = todo, ![n]["page"].rest = rest]
    BY <1>9 DEF SortLinks
  <2> DEFINE j == [job[n]["page"] EXCEPT !.todo = todo, !.rest = rest]
  <2>2. job' = [job EXCEPT ![n]["page"] = j] /\ j.url = job[n]["page"].url
    BY <1>0, <2>1 DEF TypeInv, TypeOK, Job
  <2> HIDE DEF j
  <2>3. QED
    BY <1>4, <2>2 DEF SourcesInv, VisitInv
<1>10. CASE UNCHANGED job
  BY <1>3, <1>10
<1>11. QED
  BY <1>0, <1>3, <1>6, <1>7, <1>8, <1>9, <1>10, MainLeavesPage
     DEF Step, OnNewValue, ReportVisit, Expire, Evict, EvictScan, EvictMove

(* As long as no message is lost, a URL is announced before anyone visits  *)
(* it: it is queued and requested before its claim is sent, but its        *)
(* response waits for the goroutine that sends the claim (crawler.go:347-  *)
(* 356, 435-452).                                                          *)
THEOREM VisitsAreAnnounced == Spec => []AnnouncedBeforeVisited
<1> DEFINE Inv == HandsInv /\ PageInv /\ (drops = 0 => SourcesInv)
<1>1. Init => Inv
  <2> SUFFICES ASSUME Init PROVE Inv
    OBVIOUS
  <2>1. \A n \in Node : job[n]["main"] = NoJob /\ job[n]["page"] = NoJob
    BY DEF Init, Claimant
  <2>2. HandsInv /\ PageInv
    BY <2>1 DEF HandsInv, Hands, PageInv, NoJob
  <2>3. QueueInv
    <3>1. Slots(Q!NewUniqueQueue) \subseteq {NoUrl}
      BY DEF Slots, Q!NewUniqueQueue
    <3>2. Slots(Q!Put(Q!NewUniqueQueue, Seed)) \subseteq {Seed, NoUrl}
      BY <3>1, NewQueueOK, SlotsOfCalls, CrawlerAssumption
    <3>3. \A n \in Node : queue[n] \in {Q!NewUniqueQueue, Q!Put(Q!NewUniqueQueue, Seed)}
      BY DEF Init
    <3>4. QED
      BY <3>1, <3>2, <3>3 DEF QueueInv, Own, Told
  <2>4. RequestInv /\ HeldInv /\ InboxInv
    BY DEF Init, RequestInv, HeldInv, InboxInv
  <2>5. MainInv
    BY <2>1 DEF MainInv, Hands, NoJob, Own, Told
  <2>6. VisitInv
    <3>1. \A n \in Node : job[n]["page"].url \in Told
      BY <2>1 DEF NoJob, Told
    <3>2. ASSUME NEW n \in Node PROVE Known(n) = {}
      <4>1. inbox[n] = <<>> /\ visited[n] = {}
        BY DEF Init
      <4>2. {i \in DOMAIN inbox[n] : inbox[n][i].type = "visit"} = {}
        BY <4>1
      <4>3. PendingVisits(n) = {}
        BY <4>2 DEF PendingVisits, VisitsIn
      <4>4. QED
        BY <4>1, <4>3 DEF Known
    <3>3. QED
      BY <3>1, <3>2 DEF VisitInv
  <2>7. QED
    BY <2>2, <2>3, <2>4, <2>5, <2>6 DEF SourcesInv
<1>2. TypeInv /\ Inv /\ [Next]_vars => Inv'
  <2> SUFFICES ASSUME TypeInv, Inv, [Next]_vars
               PROVE  Inv'
    OBVIOUS
  <2>1. CASE UNCHANGED vars
    <3>1. HandsInv' /\ PageInv'
      BY <2>1 DEF vars, HandsInv, Hands, PageInv
    <3>2. (drops = 0 => SourcesInv) => (drops = 0 => SourcesInv)'
      BY <2>1 DEF vars, SourcesInv, QueueInv, RequestInv, MainInv, HeldInv, InboxInv, VisitInv,
                  Slots, Own, Told, Hands, Known, PendingVisits
    <3>3. QED
      BY <3>1, <3>2
  <2>2. ASSUME NEW n \in Node, Step(n) PROVE Inv'
    <3>1. HandsInv' /\ PageInv'
      BY <2>2, HandsStep, PageStepInv
    <3>2. ASSUME drops' = 0 PROVE SourcesInv'
      <4>1. drops = 0 /\ drops' = drops
        BY <2>2, <3>2, DropsGrow
      <4>2. QED
        BY <2>2, <4>1, QueueStep, RequestStep, MainSourceStep, HeldStep, InboxStep, VisitStep
           DEF SourcesInv
    <3>3. QED
      BY <3>1, <3>2
  <2>3. QED
    BY <2>1, <2>2, NextIsStep
<1>3. Inv => AnnouncedBeforeVisited
  BY DEF AnnouncedBeforeVisited, SourcesInv, VisitInv, Told, Known
<1>4. QED
  BY <1>1, <1>2, <1>3, TypeInvHolds, PTL DEF Spec

-----------------------------------------------------------------------------
(* The crawl of the cluster is a crawl of the web.                         *)

(* What a queue holds, and what its calls make of it. *)
Queued(p) == {Q!Contents(p)[k] : k \in 1 .. Q!Count(p)}

LEMMA QueuedOfCalls ==
  ASSUME NEW p, QueueOK(p)
  PROVE  /\ \A t \in Url : Queued(Q!Put(p, t)) \subseteq Queued(p) \cup {t}
         /\ Queued(Q!Get(p)) \subseteq Queued(p)
         /\ p.size # 0 => Q!GetItem(p) \in Queued(p)
         /\ \A t : Queued(Q!Remove(p, t)) \subseteq Queued(p)
<1>1. p \in QP!Queue /\ QP!SizeOK(p)
  BY SameQueue
<1>2. \A q : QP!Queued(q) = Queued(q)
  BY DEF QP!Queued, Queued, QP!Contents, Q!Contents, QP!SlotAt, Q!SlotAt, QP!Count, Q!Count
<1>3. QED
  BY <1>1, <1>2, SameCalls, QP!QueuedOfCalls, CrawlerAssumption

(* Whatever a crawler holds is a link of a page that was fetched, and what *)
(* it queues or is about to request is that or the entry point.            *)
HandsFound == \A n \in Node, g \in Claimant : Hand(n, g) \subseteq found
QueuesFound == \A n \in Node : Queued(queue[n]) \subseteq found \cup {Seed}
SettledFound == \A n \in Node : Settled(n) => job[n]["main"].url \in found \cup {Seed}

WebInv ==
  /\ announced \subseteq found
  /\ HeldInv /\ InboxInv
  /\ HandsFound /\ QueuesFound /\ SettledFound

(* What was found stays so, and the links of an answer are found. *)
LEMMA FoundGrows ==
  ASSUME NEW n \in Node, Step(n)
  PROVE  found \subseteq found'
  BY DEF Step, OnNewValue, NextFromQueue, NextFromPool, NextEvict, NextEvictDone, Dispatch,
         FetchOk, FetchFail, ReportVisit, SortLinks, ClaimOne, SendClaims, SendRefused,
         ReportRest, Expire, Evict, EvictScan, EvictMove, history

(* It is enough to look at the goroutine that replaces its variables. *)
LEMMA HandFound ==
  ASSUME TypeInv, HandsFound, NEW n \in Node, Step(n), NEW g \in Claimant, NEW j,
         job' = [job EXCEPT ![n][g] = j], HandOf(j) \subseteq found'
  PROVE  HandsFound'
<1>0. job'[n][g] = j /\ \A k \in Node, h \in Claimant : k # n \/ h # g => job'[k][h] = job[k][h]
  BY DEF TypeInv, TypeOK
<1>1. ASSUME NEW k \in Node, NEW h \in Claimant PROVE Hand(k, h)' \subseteq found'
  <2>1. Hand(k, h)' = HandOf(job'[k][h])
    BY DEF Hand, HandOf
  <2>2. CASE k = n /\ h = g
    BY <1>0, <2>1, <2>2
  <2>3. CASE k # n \/ h # g
    <3>1. HandOf(job'[k][h]) = Hand(k, h)
      BY <1>0, <2>3 DEF Hand
    <3>2. QED
      BY <2>1, <3>1, FoundGrows DEF HandsFound
  <2>4. QED
    BY <2>2, <2>3
<1>2. QED
  BY <1>1 DEF HandsFound

(* Goroutines get their URLs from pages, from the pool, and from one       *)
(* another.                                                                *)
LEMMA HandsFoundStep ==
  ASSUME TypeInv, WebInv, NEW n \in Node, Step(n)
  PROVE  HandsFound'
<1>0. /\ "main" \in Claimant /\ "page" \in Claimant
      /\ \A g \in Claimant : job[n][g] \in Job /\ Hand(n, g) \subseteq found
      /\ found \subseteq found' /\ HandsFound
  BY FoundGrows DEF Claimant, TypeInv, TypeOK, WebInv, HandsFound
<1>j. /\ HandOf(NoJob) = {}
      /\ \A u, todo : HandOf(MainJob(u, todo)) = todo
      /\ \A u, links : HandOf(PageJob(u, links)) = links
  BY DEF HandOf, NoJob, MainJob, PageJob
<1>1. CASE UNCHANGED job
  BY <1>0, <1>1 DEF HandsFound, Hand
<1>2. CASE NextFromQueue(n)
  BY <1>0, <1>j, <1>2, HandFound DEF NextFromQueue
<1>3. CASE NextFromPool(n)
  <2>1. PICK u \in pool[n] : job' = [job EXCEPT ![n]["main"] = MainJob(u, {u})]
    BY <1>3 DEF NextFromPool
  <2>2. u \in found
    BY DEF WebInv, HeldInv
  <2>3. HandOf(MainJob(u, {u})) \subseteq found'
    BY <1>0, <1>j, <2>2
  <2>4. QED
    BY <1>0, <2>1, <2>3, HandFound
<1>4. CASE Dispatch(n)
  <2>1. job' = [job EXCEPT ![n]["main"] = NoJob]
    BY <1>4 DEF Dispatch
  <2>2. QED
    BY <1>0, <1>j, <2>1, HandFound
<1>5. ASSUME NEW u \in Url, FetchOk(n, u) PROVE HandsFound'
  <2>1. PICK links : /\ job' = [job EXCEPT ![n]["page"] = PageJob(u, links)]
                     /\ links \subseteq found'
    BY <1>5 DEF FetchOk, TakeResponse
  <2>2. HandOf(PageJob(u, links)) \subseteq found'
    BY <1>j, <2>1
  <2>3. QED
    BY <1>0, <2>1, <2>2, HandFound
<1>6. ASSUME NEW u \in Url, FetchFail(n, u) PROVE HandsFound'
  <2>1. job' = [job EXCEPT ![n]["page"] = NoJob]
    BY <1>6 DEF FetchFail, TakeResponse
  <2>2. QED
    BY <1>0, <1>j, <2>1, HandFound
<1>7. CASE SortLinks(n)
  <2>1. PICK order \in SetToSeqs(job[n]["page"].rest) :
          LET mine == ClaimableLinks(order, visited[n], Capacity - queue[n].size)
          IN  job' = [job EXCEPT ![n]["page"].todo = mine,
                                 ![n]["page"].rest = (@ \ visited[n]) \ mine]
    BY <1>7 DEF SortLinks
  <2> DEFINE mine == ClaimableLinks(order, visited[n], Capacity - queue[n].size)
             j == [job[n]["page"] EXCEPT !.todo = mine, !.rest = (@ \ visited[n]) \ mine]
  <2>2. job' = [job EXCEPT ![n]["page"] = j]
    BY <1>0, <2>1 DEF TypeInv, TypeOK
  <2>3. mine \subseteq job[n]["page"].rest
    BY ClaimableType
  <2> HIDE DEF mine
  <2>4. HandOf(j) \subseteq Hand(n, "page")
    BY <1>0, <2>3 DEF HandOf, Hand, Job
  <2>5. QED
    BY <1>0, <2>2, <2>4, HandFound
<1>8. ASSUME NEW g \in Claimant, ClaimOne(n, g) \/ SendClaims(n, g) \/ SendRefused(n, g)
      PROVE  HandsFound'
  <2>1. PICK j \in Job : job' = [job EXCEPT ![n][g] = j] /\ HandOf(j) \subseteq Hand(n, g)
    BY <1>8, ClaimJob DEF HandOf, Hand
  <2>2. QED
    BY <1>0, <2>1, HandFound
<1>9. CASE ReportRest(n)
  BY <1>0, <1>j, <1>9, HandFound DEF ReportRest
<1>10. QED
  BY <1>1, <1>2, <1>3, <1>4, <1>5, <1>6, <1>7, <1>8, <1>9
     DEF Step, OnNewValue, NextEvict, NextEvictDone, ReportVisit, Expire, Evict, EvictScan,
         EvictMove

(* Only claimUrls puts URLs in the queue, and no call of it brings back    *)
(* what is in the slots outside the queue.                                 *)
LEMMA QueuesFoundStep ==
  ASSUME TypeInv, WebInv, NEW n \in Node, Step(n)
  PROVE  QueuesFound'
<1> USE DEF urlVars
<1>0. /\ \A k \in Node : QueueOK(queue[k]) /\ Queued(queue[k]) \subseteq found \cup {Seed}
      /\ queue \in [Node -> Q!Queue]
      /\ found \subseteq found'
      /\ \A g \in Claimant : job[n][g] \in Job /\ Hand(n, g) \subseteq found
  BY FoundGrows DEF TypeInv, TypeOK, QueueOK, WebInv, QueuesFound, HandsFound
<1>1. CASE UNCHANGED queue
  BY <1>0, <1>1 DEF QueuesFound
<1>2. ASSUME NEW q, queue' = [queue EXCEPT ![n] = q], Queued(q) \subseteq found \cup {Seed}
      PROVE  QueuesFound'
  <2>1. queue'[n] = q /\ \A k \in Node \ {n} : queue'[k] = queue[k]
    BY <1>0, <1>2
  <2>2. \A k \in Node : Queued(queue'[k]) \subseteq found' \cup {Seed}
    BY <1>0, <1>2, <2>1
  <2>3. \A k \in Node : Queued(queue[k])' = Queued(queue'[k])
    BY DEF Queued, Q!Contents, Q!SlotAt, Q!Count
  <2>4. QED
    BY <2>2, <2>3 DEF QueuesFound
<1>3. CASE OnNewValue(n)
  <2>1. UNCHANGED queue \/ \E t : queue' = [queue EXCEPT ![n] = Q!Remove(queue[n], t)]
    BY <1>3 DEF OnNewValue, OnUrlVisit, OnUrlClaim, OnUrlReport
  <2>2. \A t : Queued(Q!Remove(queue[n], t)) \subseteq found \cup {Seed}
    BY <1>0, QueuedOfCalls
  <2>3. QED
    BY <1>1, <1>2, <2>1, <2>2
<1>4. CASE NextFromQueue(n)
  <2>1. queue' = [queue EXCEPT ![n] = Q!Get(queue[n])]
    BY <1>4 DEF NextFromQueue
  <2>2. Queued(Q!Get(queue[n])) \subseteq found \cup {Seed}
    BY <1>0, QueuedOfCalls
  <2>3. QED
    BY <1>2, <2>1, <2>2
<1>5. ASSUME NEW g \in Claimant, ClaimOne(n, g) PROVE QueuesFound'
  <2>1. PICK u \in job[n][g].todo : queue' = [queue EXCEPT ![n] = Q!Put(queue[n], u)]
    BY <1>5 DEF ClaimOne
  <2>2. u \in Url /\ u \in found
    BY <1>0, <2>1 DEF Job, Hand, HandOf
  <2>3. Queued(Q!Put(queue[n], u)) \subseteq found \cup {Seed}
    BY <1>0, <2>2, QueuedOfCalls
  <2>4. QED
    BY <1>2, <2>1, <2>3
<1>6. QED
  BY <1>1, <1>3, <1>4, <1>5
     DEF Step, NextFromPool, NextEvict, NextEvictDone, Dispatch, FetchOk, FetchFail, TakeResponse,
         ReportVisit, SortLinks, SendClaims, SendRefused, ReportRest, Expire, Evict, EvictScan,
         EvictMove

(* What a step does to the main loops' URLs: nothing, settle on one, or    *)
(* hand it over.                                                           *)
LEMMA SettledStep ==
  ASSUME TypeInv, WebInv, NEW n \in Node, Step(n)
  PROVE  /\ \A k \in Node \ {n} :
              /\ job'[k]["main"] = job[k]["main"] /\ pc'[k]["main"] = pc[k]["main"]
         /\ \/ Settled(n)' = Settled(n) /\ job'[n]["main"].url = job[n]["main"].url
            \/ /\ NextFromQueue(n) \/ NextFromPool(n)
               /\ ~Settled(n) /\ Settled(n)'
               /\ job'[n]["main"].url \in found \cup {Seed}
            \/ Dispatch(n) /\ Settled(n) /\ ~Settled(n)'
<1>0. "main" \in Claimant /\ \A g \in Claimant : g = "main" \/ g = "page"
  BY DEF Claimant
<1>1. CASE \A k \in Node : job'[k]["main"] = job[k]["main"] /\ pc'[k]["main"] = pc[k]["main"]
  BY <1>1 DEF Settled
<1>2. ASSUME NEW j, NEW l, job' = [job EXCEPT ![n]["main"] = j], pc' = [pc EXCEPT ![n]["main"] = l]
      PROVE  /\ job'[n]["main"] = j /\ pc'[n]["main"] = l
             /\ \A k \in Node \ {n} :
                  /\ job'[k]["main"] = job[k]["main"] /\ pc'[k]["main"] = pc[k]["main"]
  BY <1>0, <1>2 DEF TypeInv, TypeOK
<1>3. CASE NextFromQueue(n)
  <2> DEFINE u == Q!GetItem(queue[n])
  <2>1. /\ pc[n]["main"] = "next"
        /\ job' = [job EXCEPT ![n]["main"] = MainJob(u, {})]
        /\ pc' = [pc EXCEPT ![n]["main"] = "offer"]
    BY <1>3 DEF NextFromQueue
  <2>2. u \in found \cup {Seed}
    <3>1. QueueOK(queue[n]) /\ queue[n].size # 0
      BY <1>3 DEF NextFromQueue, TypeInv, TypeOK, QueueOK, Q!Queue
    <3>2. QED
      BY <3>1, QueuedOfCalls DEF WebInv, QueuesFound
  <2>3. MainJob(u, {}).url = u
    BY DEF MainJob, NoJob
  <2>4. QED
    BY <1>2, <1>3, <2>1, <2>2, <2>3 DEF Settled
<1>4. CASE NextFromPool(n)
  <2>1. PICK u \in pool[n] : job' = [job EXCEPT ![n]["main"] = MainJob(u, {u})]
    BY <1>4 DEF NextFromPool
  <2>2. pc[n]["main"] = "next" /\ pc' = [pc EXCEPT ![n]["main"] = "put"]
    BY <1>4 DEF NextFromPool
  <2>3. u \in found
    BY DEF WebInv, HeldInv
  <2>4. MainJob(u, {u}).url = u
    BY DEF MainJob, NoJob
  <2>5. QED
    BY <1>2, <1>4, <2>1, <2>2, <2>3, <2>4 DEF Settled
<1>5. CASE NextEvict(n) \/ NextEvictDone(n)
  <2>1. /\ job' = job /\ pc[n]["main"] \in {"next", "evict"}
        /\ \E l \in {"next", "evict"} : pc' = [pc EXCEPT ![n]["main"] = l]
    BY <1>5 DEF NextEvict, NextEvictDone
  <2>2. QED
    BY <1>0, <2>1, PcReplaced DEF Settled
<1>6. CASE Dispatch(n)
  <2>1. /\ pc[n]["main"] = "offer"
        /\ job' = [job EXCEPT ![n]["main"] = NoJob]
        /\ pc' = [pc EXCEPT ![n]["main"] = "next"]
    BY <1>6 DEF Dispatch
  <2>2. /\ pc'[n]["main"] = "next"
        /\ \A k \in Node \ {n} : job'[k]["main"] = job[k]["main"] /\ pc'[k]["main"] = pc[k]["main"]
    BY <1>2, <2>1
  <2>3. Settled(n) /\ ~Settled(n)'
    BY <2>1, <2>2 DEF Settled
  <2>4. QED
    BY <1>6, <2>2, <2>3
<1>7. CASE ClaimOne(n, "main") \/ SendClaims(n, "main") \/ SendRefused(n, "main")
  <2>1. PICK j \in Job : job' = [job EXCEPT ![n]["main"] = j] /\ j.url = job[n]["main"].url
    BY <1>0, <1>7, ClaimJob
  <2>2. /\ pc[n]["main"] \in {"put", "report"}
        /\ \E l \in {"put", "report", "offer"} : pc' = [pc EXCEPT ![n]["main"] = l]
    <3>1. CASE ClaimOne(n, "main")
      BY <1>0, <3>1 DEF ClaimOne, TypeInv, TypeOK
    <3>2. CASE SendClaims(n, "main") \/ SendRefused(n, "main")
      BY <3>2 DEF SendClaims, SendRefused
    <3>3. QED
      BY <1>7, <3>1, <3>2
  <2>3. QED
    BY <1>2, <2>1, <2>2 DEF Settled
<1>8. QED
  BY <1>0, <1>1, <1>3, <1>4, <1>5, <1>6, <1>7, PageLeavesMain
     DEF Step, OnNewValue, Expire, Evict, EvictScan, EvictMove

(* So what a main loop has settled on was found. *)
LEMMA SettledFoundStep ==
  ASSUME TypeInv, WebInv, NEW n \in Node, Step(n)
  PROVE  SettledFound'
<1>1. /\ found \subseteq found'
      /\ \A k \in Node : Settled(k) => job[k]["main"].url \in found \cup {Seed}
  BY FoundGrows DEF WebInv, SettledFound
<1>2. \A k \in Node \ {n} : Settled(k)' => job'[k]["main"].url \in found' \cup {Seed}
  BY <1>1, SettledStep DEF Settled
<1>3. Settled(n)' => job'[n]["main"].url \in found' \cup {Seed}
  BY <1>1, SettledStep
<1>4. QED
  BY <1>2, <1>3 DEF SettledFound

(* A message announces what its sender holds, and no other step does. *)
LEMMA AnnouncedStep ==
  ASSUME TypeInv, NEW n \in Node, Step(n)
  PROVE  \/ UNCHANGED announced
         \/ /\ \E g \in Claimant : announced' \subseteq announced \cup Hand(n, g)
            /\ ReportRest(n) \/ \E g \in Claimant : SendClaims(n, g) \/ SendRefused(n, g)
<1>0. "page" \in Claimant /\ \A g \in Claimant : job[n][g] \in Job
  BY DEF Claimant, TypeInv, TypeOK
<1>1. CASE ReportVisit(n)
  BY <1>1 DEF ReportVisit, SendMsg, raftVars
<1>2. ASSUME NEW g \in Claimant, SendClaims(n, g)
      PROVE  announced' \subseteq announced \cup Hand(n, g)
  BY <1>2 DEF SendClaims, SendMsg, raftVars, Hand, HandOf
<1>3. ASSUME NEW g \in Claimant, SendRefused(n, g)
      PROVE  announced' \subseteq announced \cup Hand(n, g)
  BY <1>3 DEF SendRefused, SendMsg, raftVars, Hand, HandOf
<1>4. CASE ReportRest(n)
  BY <1>0, <1>4 DEF ReportRest, SendMsg, raftVars, Hand, HandOf
<1>5. QED
  BY <1>0, <1>1, <1>2, <1>3, <1>4
     DEF Step, OnNewValue, NextFromQueue, NextFromPool, NextEvict, NextEvictDone, Dispatch, FetchOk,
         FetchFail, TakeResponse, SortLinks, ClaimOne, Expire, Evict, EvictScan, EvictMove, raftVars

(* WebInv is inductive. *)
LEMMA WebInvInit == Init => WebInv
<1> SUFFICES ASSUME Init PROVE WebInv
  OBVIOUS
<1>1. HeldInv /\ InboxInv /\ announced = {}
  BY DEF Init, HeldInv, InboxInv
<1>2. HandsFound
  BY DEF Init, HandsFound, Hand, HandOf, NoJob
<1>3. SettledFound
  BY DEF Init, SettledFound, Settled, Claimant
<1>4. QueuesFound
  <2>1. Queued(Q!NewUniqueQueue) = {}
    BY DEF Queued, Q!Count, Q!NewUniqueQueue
  <2>2. Queued(Q!Put(Q!NewUniqueQueue, Seed)) \subseteq {Seed}
    BY <2>1, NewQueueOK, QueuedOfCalls, CrawlerAssumption
  <2>3. \A n \in Node : queue[n] \in {Q!NewUniqueQueue, Q!Put(Q!NewUniqueQueue, Seed)}
    BY DEF Init
  <2>4. QED
    BY <2>1, <2>2, <2>3 DEF QueuesFound
<1>5. QED
  BY <1>1, <1>2, <1>3, <1>4 DEF WebInv

LEMMA WebInvStep ==
  ASSUME TypeInv, WebInv, NEW n \in Node, Step(n)
  PROVE  WebInv'
<1>1. HandsFound' /\ QueuesFound' /\ SettledFound'
  BY HandsFoundStep, QueuesFoundStep, SettledFoundStep
<1>2. HeldInv' /\ InboxInv'
  BY HeldStep, InboxStep DEF WebInv
<1>3. announced' \subseteq found'
  BY AnnouncedStep, FoundGrows DEF WebInv, HandsFound
<1>4. QED
  BY <1>1, <1>2, <1>3 DEF WebInv

(* The URLs requested stay the same while the main loops keep theirs... *)
LEMMA RequestedSame ==
  ASSUME \A k \in Node : Settled(k)' = Settled(k) /\ job'[k]["main"].url = job[k]["main"].url,
         UNCHANGED inflight
  PROVE  Requested' = Requested
  BY DEF Requested, Settled

(* ... or hand them to a worker... *)
LEMMA RequestedDispatch ==
  ASSUME TypeInv, WebInv, NEW n \in Node, Dispatch(n)
  PROVE  Requested' = Requested
<1> DEFINE u == job[n]["main"].url
<1>0. "main" \in Claimant /\ found \in SUBSET Url
  BY DEF Claimant, TypeInv, TypeOK
<1>1. /\ Settled(n) /\ job' = [job EXCEPT ![n]["main"] = NoJob]
      /\ pc' = [pc EXCEPT ![n]["main"] = "next"]
      /\ inflight' = [inflight EXCEPT ![n][u] = @ + 1]
  BY DEF Dispatch, Settled
<1>2. u \in Url
  BY <1>0, <1>1, CrawlerAssumption DEF WebInv, SettledFound
<1>3. /\ ~Settled(n)'
      /\ \A k \in Node \ {n} : Settled(k)' = Settled(k) /\ job'[k]["main"].url = job[k]["main"].url
  BY <1>0, <1>1 DEF Settled, TypeInv, TypeOK
<1> HIDE DEF u
<1>4. \A k \in Node, v \in Url :
        /\ inflight[k][v] \in Nat
        /\ inflight'[k][v] = IF k = n /\ v = u THEN inflight[k][v] + 1 ELSE inflight[k][v]
  BY <1>1, <1>2 DEF TypeInv, TypeOK
<1>5. \A k \in Node, v \in Url : inflight'[k][v] > 0 <=> inflight[k][v] > 0 \/ (k = n /\ v = u)
  BY <1>4
<1>6. \A v : (\E k \in Node : Settled(k) /\ job[k]["main"].url = v)
             <=> v = u \/ \E k \in Node : Settled(k)' /\ job'[k]["main"].url = v
  BY <1>1, <1>3 DEF u
<1>7. \A v : v \in Requested <=> \/ \E k \in Node : Settled(k) /\ job[k]["main"].url = v
                                 \/ v \in Url /\ \E k \in Node : inflight[k][v] > 0
  BY DEF Requested
<1>8. \A v : v \in Requested' <=> \/ \E k \in Node : Settled(k)' /\ job'[k]["main"].url = v
                                  \/ v \in Url /\ \E k \in Node : inflight'[k][v] > 0
  BY DEF Requested
<1>9. u \in Requested /\ u \in Requested'
  BY <1>2, <1>5, <1>6, <1>7, <1>8
<1>10. ASSUME NEW v, v # u PROVE v \in Requested' <=> v \in Requested
  <2>1. v \in Url => \A k \in Node : inflight'[k][v] > 0 <=> inflight[k][v] > 0
    BY <1>5, <1>10
  <2>2. (\E k \in Node : Settled(k) /\ job[k]["main"].url = v)
        <=> \E k \in Node : Settled(k)' /\ job'[k]["main"].url = v
    BY <1>6, <1>10
  <2>3. QED
    BY <1>7, <1>8, <2>1, <2>2
<1>11. QED
  BY <1>9, <1>10

(* ... which lets go of the URL when its request ends, others may not... *)
LEMMA RequestedFetch ==
  ASSUME TypeInv, NEW n \in Node, NEW u \in Url, FetchOk(n, u) \/ FetchFail(n, u)
  PROVE  u \in Requested /\ Requested' \in {Requested, Requested \ {u}}
<1>1. inflight[n][u] > 0 /\ inflight' = [inflight EXCEPT ![n][u] = @ - 1]
  BY DEF FetchOk, FetchFail, TakeResponse
<1>2. \A k \in Node : Settled(k)' = Settled(k) /\ job'[k]["main"].url = job[k]["main"].url
  BY PageLeavesMain DEF Settled
<1>3. \A k \in Node, v \in Url : v # u => inflight'[k][v] = inflight[k][v]
  BY <1>1 DEF TypeInv, TypeOK
<1>4. \A v : v \in Requested <=> \/ \E k \in Node : Settled(k) /\ job[k]["main"].url = v
                                 \/ v \in Url /\ \E k \in Node : inflight[k][v] > 0
  BY DEF Requested
<1>5. \A v : v \in Requested' <=> \/ \E k \in Node : Settled(k)' /\ job'[k]["main"].url = v
                                  \/ v \in Url /\ \E k \in Node : inflight'[k][v] > 0
  BY DEF Requested
<1>6. u \in Requested /\ \A v : v # u => (v \in Requested' <=> v \in Requested)
  BY <1>1, <1>2, <1>3, <1>4, <1>5
<1>7. QED
  BY <1>6

(* ... and grow by what a main loop settles on. *)
LEMMA RequestedNext ==
  ASSUME TypeInv, WebInv, NEW n \in Node, NextFromQueue(n) \/ NextFromPool(n)
  PROVE  \E u \in found \cup {Seed} : Requested' = Requested \cup {u}
<1> DEFINE u == job'[n]["main"].url
<1>1. /\ \A k \in Node \ {n} : Settled(k)' = Settled(k) /\ job'[k]["main"].url = job[k]["main"].url
      /\ Settled(n)' => ~Settled(n) /\ u \in found \cup {Seed}
      /\ Settled(n)'
  <2>1. Step(n) /\ ~Settled(n)
    BY DEF Step, NextFromQueue, NextFromPool, Settled
  <2>2. Settled(n)'
    <3>1. pc' = [pc EXCEPT ![n]["main"] = "offer"] \/ pc' = [pc EXCEPT ![n]["main"] = "put"]
      BY DEF NextFromQueue, NextFromPool
    <3>2. QED
      BY <3>1 DEF Settled, TypeInv, TypeOK, Claimant
  <2>3. QED
    BY <2>1, <2>2, SettledStep DEF Settled
<1>2. inflight' = inflight
  BY DEF NextFromQueue, NextFromPool, workers
<1> HIDE DEF u
<1>3. \A v : (\E k \in Node : Settled(k)' /\ job'[k]["main"].url = v)
             <=> v = u \/ \E k \in Node : Settled(k) /\ job[k]["main"].url = v
  BY <1>1 DEF u
<1>4. \A v : v \in Requested <=> \/ \E k \in Node : Settled(k) /\ job[k]["main"].url = v
                                 \/ v \in Url /\ \E k \in Node : inflight[k][v] > 0
  BY DEF Requested
<1>5. \A v : v \in Requested' <=> \/ \E k \in Node : Settled(k)' /\ job'[k]["main"].url = v
                                  \/ v \in Url /\ \E k \in Node : inflight'[k][v] > 0
  BY DEF Requested
<1>6. Requested' = Requested \cup {u}
  BY <1>2, <1>3, <1>4, <1>5
<1>7. QED
  BY <1>1, <1>6

(* Only the handler of a visit changes Visited, by a URL that was answered *)
(* or the empty one.                                                       *)
LEMMA VisitedStep ==
  ASSUME TypeInv, AnsweredInv, NEW n \in Node, Step(n)
  PROVE  \/ UNCHANGED visited
         \/ /\ OnNewValue(n)
            /\ \E u \in answered \cup {NoUrl} : visited' = [visited EXCEPT ![n] = @ \cup {u}]
<1> USE DEF urlVars
<1>1. CASE OnNewValue(n)
  <2> DEFINE msg == Head(inbox[n])
  <2>1. CASE msg.type = "visit" /\ OnUrlVisit(n, msg.urls)
    <3>1. msg \in Message /\ msg.urls \subseteq PendingVisits(n)
      BY <1>1, <2>1, Taken
    <3>2. PICK u : msg.urls = {u}
      BY <2>1, <3>1 DEF Message
    <3>3. u \in answered \cup {NoUrl}
      BY <3>1, <3>2 DEF AnsweredInv, Known
    <3>4. visited' = [visited EXCEPT ![n] = @ \cup {u}]
      BY <2>1, <3>2 DEF OnUrlVisit
    <3>5. QED
      BY <1>1, <3>3, <3>4
  <2>2. CASE OnUrlClaim(n, msg.urls) \/ OnUrlReport(n, msg.urls)
    BY <2>2 DEF OnUrlClaim, OnUrlReport
  <2>3. QED
    BY <1>1, <2>1, <2>2 DEF OnNewValue
<1>2. QED
  BY <1>1
     DEF Step, NextFromQueue, NextFromPool, NextEvict, NextEvictDone, Dispatch, FetchOk, FetchFail,
         TakeResponse, ReportVisit, SortLinks, ClaimOne, SendClaims, SendRefused, ReportRest,
         Expire, Evict, EvictScan, EvictMove

(* Every step of the cluster is a step of the crawl, or none. *)
LEMMA WebCrawlStep ==
  ASSUME TypeInv, WebInv, AnsweredInv, NEW n \in Node, Step(n)
  PROVE  [Abstract!Next]_(Abstract!vars)
<1> USE DEF urlVars
<1> DEFINE V == [k \in Node |-> visited[k] \ {NoUrl}]
<1>0. /\ found \in SUBSET Url /\ answered \in SUBSET Url
      /\ visited \in [Node -> SUBSET (Url \cup {NoUrl})]
      /\ Seed \in Url /\ NoUrl \notin Url
  BY CrawlerAssumption DEF TypeInv, TypeOK
<1>v. visited' = visited => V' = V
  OBVIOUS
<1>1. CASE NextFromQueue(n) \/ NextFromPool(n)
  <2>1. PICK u \in found \cup {Seed} : Requested' = Requested \cup {u}
    BY <1>1, RequestedNext
  <2>2. UNCHANGED <<answered, found, announced, visited>>
    BY <1>1 DEF NextFromQueue, NextFromPool, raftVars, history
  <2>3. u \in Url /\ Abstract!Request(u)
    BY <1>0, <1>v, <2>1, <2>2 DEF Abstract!Request
  <2>4. QED
    BY <2>3 DEF Abstract!Next
<1>2. CASE Dispatch(n)
  <2>1. UNCHANGED <<answered, found, announced, visited>>
    BY <1>2 DEF Dispatch, raftVars, history
  <2>2. QED
    BY <1>v, <1>2, <2>1, RequestedDispatch DEF Abstract!vars
<1>3. ASSUME NEW u \in Url, FetchOk(n, u) \/ FetchFail(n, u)
      PROVE  [Abstract!Next]_(Abstract!vars)
  <2>1. UNCHANGED <<announced, visited>>
    BY <1>3 DEF FetchOk, FetchFail, TakeResponse, raftVars
  <2>2. Abstract!End(u)
    BY <1>3, <1>v, <2>1, RequestedFetch DEF Abstract!End
  <2>3. Abstract!Answer(u) \/ Abstract!Fail(u)
    BY <1>3, <2>2 DEF FetchOk, FetchFail, Abstract!Answer, Abstract!Fail
  <2>4. QED
    BY <2>3 DEF Abstract!Next
<1>4. CASE /\ ~(NextFromQueue(n) \/ NextFromPool(n) \/ Dispatch(n))
           /\ ~\E u \in Url : FetchOk(n, u) \/ FetchFail(n, u)
  <2>1. UNCHANGED <<answered, found, inflight>>
    BY <1>4
       DEF Step, OnNewValue, NextEvict, NextEvictDone, ReportVisit, SortLinks, ClaimOne,
           SendClaims, SendRefused, ReportRest, Expire, Evict, EvictScan, EvictMove, history,
           workers
  <2>2. Requested' = Requested
    <3>1. \A k \in Node : Settled(k)' = Settled(k) /\ job'[k]["main"].url = job[k]["main"].url
      BY <1>4, SettledStep DEF Settled
    <3>2. QED
      BY <2>1, <3>1, RequestedSame
  <2>3. CASE UNCHANGED visited
    <3>1. CASE UNCHANGED announced
      BY <1>v, <2>1, <2>2, <2>3, <3>1 DEF Abstract!vars
    <3>2. CASE \E g \in Claimant : announced' \subseteq announced \cup Hand(n, g)
      <4>1. announced \subseteq announced' /\ announced' \subseteq found
        BY <3>2, FoundStep DEF WebInv, HandsFound
      <4>2. Abstract!Announce
        BY <1>v, <2>1, <2>2, <2>3, <4>1 DEF Abstract!Announce
      <4>3. QED
        BY <4>2 DEF Abstract!Next
    <3>3. QED
      BY <3>1, <3>2, AnnouncedStep
  <2>4. CASE OnNewValue(n) /\ ~UNCHANGED visited
    <3>1. PICK u \in answered \cup {NoUrl} : visited' = [visited EXCEPT ![n] = @ \cup {u}]
      BY <2>4, VisitedStep
    <3>2. UNCHANGED announced
      BY <2>4 DEF OnNewValue
    <3>3. CASE u = NoUrl
      <4>1. V' = V
        BY <1>0, <3>1, <3>3
      <4>2. QED
        BY <2>1, <2>2, <3>2, <4>1 DEF Abstract!vars
    <3>4. CASE u # NoUrl
      <4>1. V' = [V EXCEPT ![n] = @ \cup {u}]
        BY <1>0, <3>1, <3>4
      <4>2. u \in Url /\ Abstract!Visit(n, u)
        BY <1>0, <2>1, <2>2, <3>1, <3>2, <3>4, <4>1 DEF Abstract!Visit
      <4>3. QED
        BY <4>2 DEF Abstract!Next
    <3>5. QED
      BY <3>3, <3>4
  <2>5. QED
    BY <2>3, <2>4, VisitedStep
<1>5. QED
  BY <1>1, <1>2, <1>3, <1>4

(* The cluster implements the crawl of the web: its crawlers request only  *)
(* the entry point and links of pages they fetched, whatever the queues,   *)
(* pools, claims and evictors do with them, announce only such links, and  *)
(* visit only what was answered (crawler.go:257-345, 390-452).             *)
THEOREM WebCrawlRefinement == Spec => ImplementsWebCrawl
<1>1. Init => Abstract!Init
  <2> SUFFICES ASSUME Init PROVE Abstract!Init
    OBVIOUS
  <2>1. Requested = {}
    BY DEF Init, Requested, Settled, Claimant
  <2>2. QED
    BY <2>1 DEF Init, Abstract!Init
<1>2. TypeInv /\ WebInv /\ [Next]_vars => WebInv'
  <2> SUFFICES ASSUME TypeInv, WebInv, [Next]_vars PROVE WebInv'
    OBVIOUS
  <2>1. CASE UNCHANGED vars
    BY <2>1 DEF vars, WebInv, HeldInv, InboxInv, HandsFound, QueuesFound, SettledFound, Hand,
                Settled
  <2>2. QED
    BY <2>1, NextIsStep, WebInvStep
<1>3. Spec => []WebInv
  BY <1>2, WebInvInit, TypeInvHolds, PTL DEF Spec
<1>4. TypeInv /\ WebInv /\ AnsweredInv /\ [Next]_vars => [Abstract!Next]_(Abstract!vars)
  <2> SUFFICES ASSUME TypeInv, WebInv, AnsweredInv, [Next]_vars
               PROVE  [Abstract!Next]_(Abstract!vars)
    OBVIOUS
  <2>1. CASE UNCHANGED vars
    BY <2>1 DEF vars, Abstract!vars, Requested, Settled
  <2>2. QED
    BY <2>1, NextIsStep, WebCrawlStep
<1>5. QED
  BY <1>1, <1>3, <1>4, TypeInvHolds, AnsweredInvHolds, PTL
     DEF Spec, ImplementsWebCrawl, Abstract!Spec
=============================================================================
