--------------------------- MODULE Crawler_proofs ---------------------------
(***************************************************************************)
(* Proofs about the cluster of crawlers of module Crawler, for every       *)
(* number of crawlers, every web and every bound: its type invariant, and  *)
(* its safety properties from it.                                          *)
(***************************************************************************)
EXTENDS CrawlerProperties, SequenceTheorems, TLAPS

QP == INSTANCE UniqueQueueOps_proofs WITH Item <- Url, Zero <- NoUrl

-----------------------------------------------------------------------------
(* The local queue, by the lemmas of UniqueQueueOps_proofs.                *)

QueueOK(p) == p \in Q!Queue /\ Q!SizeOK(p)

(* Both instances of UniqueQueueOps speak of the same queues. *)
LEMMA SameQueue == \A p : QueueOK(p) <=> p \in QP!Queue /\ QP!SizeOK(p)
  BY DEF QueueOK, QP!Queue, Q!Queue, QP!Slot, Q!Slot, Q!SizeOK, QP!SizeOK

(* A new queue is well formed. *)
LEMMA NewQueueOK == QueueOK(Q!NewUniqueQueue)
<1>1. QP!NewUniqueQueue \in QP!Queue /\ QP!SizeOK(QP!NewUniqueQueue)
  BY QP!NewOK, CrawlerAssumption
<1>2. QP!NewUniqueQueue = Q!NewUniqueQueue
  BY DEF QP!NewUniqueQueue, Q!NewUniqueQueue, QP!Slot, Q!Slot
<1>3. QED
  BY <1>1, <1>2, SameQueue

(* The calls of the queue are those the lemmas are about. *)
LEMMA SameCalls ==
  \A p, t : /\ QP!Put(p, t) = Q!Put(p, t) /\ QP!PutError(p, t) = Q!PutError(p, t)
            /\ QP!Get(p) = Q!Get(p) /\ QP!GetItem(p) = Q!GetItem(p)
            /\ QP!Remove(p, t) = Q!Remove(p, t)
<1>1. \A p, t : QP!Put(p, t) = Q!Put(p, t) /\ QP!PutError(p, t) = Q!PutError(p, t)
  BY DEF QP!Put, Q!Put, QP!PutError, Q!PutError, QP!DupScan, Q!DupScan,
         QP!IncSize, Q!IncSize, QP!After, Q!After
<1>2. \A p : QP!Get(p) = Q!Get(p) /\ QP!GetItem(p) = Q!GetItem(p)
  BY DEF QP!Get, Q!Get, QP!DecSize, Q!DecSize, QP!After, Q!After, QP!GetItem, Q!GetItem
<1>3. \A p, t : QP!Remove(p, t) = Q!Remove(p, t)
  BY DEF QP!Remove, Q!Remove, QP!DecSize, Q!DecSize, QP!Before, Q!Before,
         QP!IndexOf, Q!IndexOf, QP!IndexScan, Q!IndexScan, QP!ScanOrder, Q!ScanOrder,
         QP!MissingIndex, Q!MissingIndex, QP!CloseGap, Q!CloseGap,
         QP!ShiftDown, Q!ShiftDown, QP!ShiftFront, Q!ShiftFront, QP!Slot, Q!Slot
<1>4. QED
  BY <1>1, <1>2, <1>3

(* Put keeps a queue well formed. *)
LEMMA PutQueueOK ==
  ASSUME NEW p, QueueOK(p), NEW t \in Url
  PROVE  QueueOK(Q!Put(p, t))
<1>1. QP!Put(p, t) \in QP!Queue /\ QP!SizeOK(QP!Put(p, t))
  BY SameQueue, QP!PutOK, CrawlerAssumption
<1>2. QED
  BY <1>1, SameQueue, SameCalls

(* Get keeps a queue well formed and returns a URL or the empty string. *)
LEMMA GetQueueOK ==
  ASSUME NEW p, QueueOK(p)
  PROVE  QueueOK(Q!Get(p)) /\ Q!GetItem(p) \in Url \cup {NoUrl}
<1>1. /\ QP!Get(p) \in QP!Queue /\ QP!SizeOK(QP!Get(p))
      /\ QP!GetItem(p) \in Url \cup {NoUrl}
  BY SameQueue, QP!GetOK, QP!GetItemType, CrawlerAssumption
<1>2. QED
  BY <1>1, SameQueue, SameCalls

(* Remove keeps a queue well formed. *)
LEMMA RemoveQueueOK ==
  ASSUME NEW p, QueueOK(p), NEW t
  PROVE  QueueOK(Q!Remove(p, t))
<1>1. QP!Remove(p, t) \in QP!Queue /\ QP!SizeOK(QP!Remove(p, t))
  BY SameQueue, QP!RemoveOK, CrawlerAssumption
<1>2. QED
  BY <1>1, SameQueue, SameCalls

-----------------------------------------------------------------------------
(* Type correctness.                                                       *)

TypeInv == TypeOK /\ \A n \in Node : Q!SizeOK(queue[n])

(* Well formed queues stay well formed when one of them is replaced. *)
LEMMA QueueUpdate ==
  ASSUME TypeInv, NEW n \in Node, NEW p, QueueOK(p),
         queue' = [queue EXCEPT ![n] = p]
  PROVE  queue' \in [Node -> Q!Queue] /\ \A m \in Node : Q!SizeOK(queue'[m])
  BY DEF TypeInv, TypeOK, QueueOK

(* Local variables of a goroutine can be replaced by others. *)
LEMMA JobUpdate ==
  ASSUME TypeOK, NEW n \in Node, NEW g \in Claimant, NEW j \in Job,
         job' = [job EXCEPT ![n][g] = j]
  PROVE  job' \in [Node -> [Claimant -> Job]]
  BY DEF TypeOK

(* So can its place in the code. *)
LEMMA PcUpdate ==
  ASSUME TypeOK, NEW n \in Node, NEW g \in Claimant, NEW l \in Label,
         pc' = [pc EXCEPT ![n][g] = l]
  PROVE  pc' \in [Node -> [Claimant -> Label]]
  BY DEF TypeOK

(* A sent message finds its way into every inbox, or is lost. *)
LEMMA SendMsgType ==
  ASSUME TypeOK, NEW type \in {"visit", "claim", "report"}, NEW urls,
         \/ type = "visit" /\ \E u \in Url \cup {NoUrl} : urls = {u}
         \/ type # "visit" /\ urls \in SUBSET Url,
         SendMsg(type, urls)
  PROVE  /\ inbox' \in [Node -> Seq(Message)]
         /\ announced' \in SUBSET Url
         /\ drops' \in 0 .. MaxDrops
<1>1. [type |-> type, urls |-> urls] \in Message
  BY DEF Message
<1>2. \A n \in Node : Append(inbox[n], [type |-> type, urls |-> urls]) \in Seq(Message)
  BY <1>1 DEF TypeOK
<1>3. CASE UNCHANGED raftVars
  BY <1>3 DEF TypeOK, raftVars
<1>4. CASE drops' = drops + 1 /\ drops < MaxDrops /\ UNCHANGED <<inbox, announced>>
  BY <1>4, CrawlerAssumption DEF TypeOK
<1>5. CASE /\ inbox' = [n \in Node |-> Append(inbox[n], [type |-> type, urls |-> urls])]
           /\ announced' = IF type = "visit" THEN announced ELSE announced \cup urls
           /\ UNCHANGED drops
  <2>1. inbox' \in [Node -> Seq(Message)]
    BY <1>2, <1>5
  <2>2. announced' \in SUBSET Url
    BY <1>5 DEF TypeOK
  <2>3. QED
    BY <1>5, <2>1, <2>2 DEF TypeOK
<1>6. QED
  BY <1>3, <1>4, <1>5 DEF SendMsg

(* Initially everything has its type. *)
LEMMA TypeInit == Init => TypeInv
<1> SUFFICES ASSUME Init PROVE TypeInv
  OBVIOUS
<1>1. queue \in [Node -> Q!Queue] /\ \A n \in Node : Q!SizeOK(queue[n])
  BY NewQueueOK, PutQueueOK, CrawlerAssumption DEF Init, QueueOK
<1>2. job \in [Node -> [Claimant -> Job]]
  BY DEF Init, Job, NoJob
<1>3. pc \in [Node -> [Claimant -> Label]]
  BY DEF Init, Label
<1>4. /\ inbox \in [Node -> Seq(Message)] /\ inflight \in [Node -> [Url -> Nat]]
      /\ turns \in [Node -> Nat]
      /\ failures \in 0 .. MaxFailures /\ early \in 0 .. MaxEarly /\ drops \in 0 .. MaxDrops
  BY CrawlerAssumption DEF Init
<1>5. QED
  BY <1>1, <1>2, <1>3, <1>4 DEF Init, TypeInv, TypeOK

(* The type of messages tells what a handler gets. *)
LEMMA MessageUrls ==
  ASSUME NEW msg \in Message
  PROVE  /\ msg.urls \in SUBSET (Url \cup {NoUrl})
         /\ msg.type # "visit" => msg.urls \in SUBSET Url
  BY DEF Message

(* The handlers of onNewValue keep the types. *)
LEMMA TypeOnNewValue ==
  ASSUME TypeInv, NEW n \in Node, OnNewValue(n)
  PROVE  TypeInv'
<1> DEFINE msg == Head(inbox[n])
<1>1. msg \in Message /\ Tail(inbox[n]) \in Seq(Message)
  BY DEF OnNewValue, TypeInv, TypeOK
<1>2. inbox' \in [Node -> Seq(Message)]
  BY <1>1 DEF OnNewValue, TypeInv, TypeOK
<1>3. /\ queue' \in [Node -> Q!Queue] /\ \A m \in Node : Q!SizeOK(queue'[m])
      /\ pool' \in [Node -> SUBSET Url]
      /\ claims' \in [Node -> [Url -> {"none", "fresh", "expired"}]]
      /\ visited' \in [Node -> SUBSET (Url \cup {NoUrl})]
  <2>1. CASE msg.type = "visit" /\ OnUrlVisit(n, msg.urls)
    <3>1. QueueOK(Q!Remove(queue[n], CHOOSE u \in msg.urls : TRUE))
      BY RemoveQueueOK DEF TypeInv, TypeOK, QueueOK
    <3>2. queue' \in [Node -> Q!Queue] /\ \A m \in Node : Q!SizeOK(queue'[m])
      BY <2>1, <3>1, QueueUpdate DEF OnUrlVisit
    <3>3. QED
      BY <1>1, <2>1, <3>2, MessageUrls DEF OnUrlVisit, TypeInv, TypeOK
  <2>2. CASE msg.type = "claim" /\ OnUrlClaim(n, msg.urls)
    BY <2>2 DEF OnUrlClaim, TypeInv, TypeOK
  <2>3. CASE msg.type = "report" /\ OnUrlReport(n, msg.urls)
    BY <1>1, <2>3, MessageUrls DEF OnUrlReport, TypeInv, TypeOK
  <2>4. QED
    BY <2>1, <2>2, <2>3 DEF OnNewValue
<1>4. QED
  BY <1>2, <1>3 DEF OnNewValue, TypeInv, TypeOK, workers, history

(* NextUrl and the main loop keep the types. *)
LEMMA TypeMain ==
  ASSUME TypeInv, NEW n \in Node,
         NextFromQueue(n) \/ NextFromPool(n) \/ NextEvict(n) \/ NextEvictDone(n) \/ Dispatch(n)
  PROVE  TypeInv'
<1> USE DEF urlVars, workers, raftVars, history
<1>0. "main" \in Claimant /\ {"next", "evict", "offer", "put"} \subseteq Label
  BY DEF Claimant, Label
<1>1. CASE NextFromQueue(n)
  <2>1. QueueOK(queue[n]) /\ TypeOK
    BY DEF TypeInv, TypeOK, QueueOK
  <2>2. queue' \in [Node -> Q!Queue] /\ \A m \in Node : Q!SizeOK(queue'[m])
    BY <1>1, <2>1, GetQueueOK, QueueUpdate DEF NextFromQueue
  <2>3. MainJob(Q!GetItem(queue[n]), {}) \in Job
    BY <2>1, GetQueueOK DEF MainJob, NoJob, Job
  <2>4. job' \in [Node -> [Claimant -> Job]]
    BY <1>0, <1>1, <2>1, <2>3, JobUpdate DEF NextFromQueue
  <2>5. pc' \in [Node -> [Claimant -> Label]]
    BY <1>0, <1>1, <2>1, PcUpdate DEF NextFromQueue
  <2>6. QED
    BY <1>1, <2>2, <2>4, <2>5 DEF NextFromQueue, TypeInv, TypeOK
<1>2. CASE NextFromPool(n)
  <2>1. PICK u \in pool[n] :
          /\ pool' = [pool EXCEPT ![n] = @ \ {u}]
          /\ job' = [job EXCEPT ![n]["main"] = MainJob(u, {u})]
    BY <1>2 DEF NextFromPool
  <2>2. u \in Url /\ TypeOK
    BY <2>1 DEF TypeInv, TypeOK
  <2>3. MainJob(u, {u}) \in Job
    BY <2>2 DEF MainJob, NoJob, Job
  <2>4. job' \in [Node -> [Claimant -> Job]]
    BY <1>0, <2>1, <2>2, <2>3, JobUpdate
  <2>5. pc' \in [Node -> [Claimant -> Label]]
    BY <1>0, <1>2, <2>2, PcUpdate DEF NextFromPool
  <2>6. QED
    BY <1>2, <2>1, <2>4, <2>5 DEF NextFromPool, TypeInv, TypeOK
<1>3. CASE NextEvict(n) \/ NextEvictDone(n)
  <2>1. pc' \in [Node -> [Claimant -> Label]]
    BY <1>0, <1>3, PcUpdate DEF NextEvict, NextEvictDone, TypeInv
  <2>2. QED
    BY <1>3, <2>1 DEF NextEvict, NextEvictDone, TypeInv, TypeOK
<1>4. CASE Dispatch(n)
  <2>1. NoJob \in Job /\ TypeOK
    BY DEF NoJob, Job, TypeInv
  <2>2. job' \in [Node -> [Claimant -> Job]]
    BY <1>0, <1>4, <2>1, JobUpdate DEF Dispatch
  <2>3. pc' \in [Node -> [Claimant -> Label]]
    BY <1>0, <1>4, <2>1, PcUpdate DEF Dispatch
  <2>4. turns' \in [Node -> Nat]
    BY <1>4, <2>1 DEF Dispatch, TypeOK
  <2>5. inflight' \in [Node -> [Url -> Nat]]
    <3> DEFINE u == job[n]["main"].url
    <3>1. inflight' = [inflight EXCEPT ![n][u] = @ + 1]
      BY <1>4 DEF Dispatch
    <3>2. inflight[n] \in [Url -> Nat]
      BY <2>1 DEF TypeOK
    <3>3. [inflight[n] EXCEPT ![u] = @ + 1] \in [Url -> Nat]
      <4> HIDE DEF u
      <4>1. CASE u \in Url
        BY <3>2, <4>1
      <4>2. CASE u \notin Url
        BY <3>2, <4>2
      <4>3. QED
        BY <4>1, <4>2
    <3>4. QED
      BY <2>1, <3>1, <3>3 DEF TypeOK
  <2>6. QED
    BY <1>4, <2>2, <2>3, <2>4, <2>5 DEF Dispatch, TypeInv, TypeOK
<1>5. QED
  BY <1>1, <1>2, <1>3, <1>4

(* Workers handing over their responses keep the types. *)
LEMMA TypeFetch ==
  ASSUME TypeInv, NEW n \in Node, NEW u \in Url, FetchOk(n, u) \/ FetchFail(n, u)
  PROVE  TypeInv'
<1> USE DEF urlVars, workers, raftVars, history
<1>0. "page" \in Claimant /\ "visit" \in Label /\ TypeOK
  BY DEF Claimant, Label, TypeInv
<1>1. /\ inflight' \in [Node -> [Url -> Nat]]
      /\ turns' \in [Node -> Nat]
  <2>1. /\ inflight' = [inflight EXCEPT ![n][u] = @ - 1] /\ inflight[n][u] > 0
        /\ turns' = [turns EXCEPT ![n] = @ + 1]
    BY DEF FetchOk, FetchFail, TakeResponse
  <2>2. QED
    BY <1>0, <2>1 DEF TypeOK
<1>2. pc' \in [Node -> [Claimant -> Label]]
  BY <1>0, PcUpdate DEF FetchOk, FetchFail, TakeResponse
<1>3. NoJob \in Job /\ PageJob(u, Links[u]) \in Job /\ PageJob(u, {}) \in Job
  BY CrawlerAssumption DEF PageJob, NoJob, Job
<1>4. job' \in [Node -> [Claimant -> Job]]
  BY <1>0, <1>3, JobUpdate DEF FetchOk, FetchFail, TakeResponse
<1>5. CASE FetchOk(n, u)
  <2>1. failures' \in 0 .. MaxFailures /\ answered' \in SUBSET Url /\ found' \in SUBSET Url
    BY <1>0, <1>5, CrawlerAssumption DEF FetchOk, TypeOK
  <2>2. QED
    BY <1>1, <1>2, <1>4, <1>5, <2>1 DEF FetchOk, TakeResponse, TypeInv, TypeOK
<1>6. CASE FetchFail(n, u)
  <2>1. failures' \in 0 .. MaxFailures
    BY <1>0, <1>6, CrawlerAssumption DEF FetchFail, TypeOK
  <2>2. QED
    BY <1>1, <1>2, <1>4, <1>6, <2>1 DEF FetchFail, TakeResponse, TypeInv, TypeOK
<1>7. QED
  BY <1>5, <1>6

(* The links a page claims are links of the page, in any order. *)
LEMMA ClaimableType ==
  ASSUME NEW links, NEW order \in SetToSeqs(links), NEW seen, NEW free
  PROVE  ClaimableLinks(order, seen, free) \subseteq links
<1>1. \A i \in DOMAIN order : order[i] \in links
  BY DEF SetToSeqs
<1>2. QED
  BY <1>1 DEF ClaimableLinks, ClaimablePositions

(* Announcing a visit and sorting links keep the types. *)
LEMMA TypeSort ==
  ASSUME TypeInv, NEW n \in Node, ReportVisit(n) \/ SortLinks(n)
  PROVE  TypeInv'
<1> USE DEF urlVars, workers, raftVars, history
<1>0. "page" \in Claimant /\ {"sort", "put"} \subseteq Label /\ TypeOK
  BY DEF Claimant, Label, TypeInv
<1>1. pc' \in [Node -> [Claimant -> Label]]
  BY <1>0, PcUpdate DEF ReportVisit, SortLinks
<1>2. job[n]["page"] \in Job
  BY <1>0 DEF TypeOK
<1>3. CASE ReportVisit(n)
  <2>1. job[n]["page"].url \in Url \cup {NoUrl}
    BY <1>2 DEF Job
  <2>2. /\ inbox' \in [Node -> Seq(Message)]
        /\ announced' \in SUBSET Url
        /\ drops' \in 0 .. MaxDrops
    BY <1>0, <1>3, <2>1, SendMsgType DEF ReportVisit
  <2>3. QED
    BY <1>1, <1>3, <2>2 DEF ReportVisit, TypeInv, TypeOK
<1>4. CASE SortLinks(n)
  <2> DEFINE page == job[n]["page"]
  <2>1. PICK order \in SetToSeqs(page.rest) :
          LET mine == ClaimableLinks(order, visited[n], Capacity - queue[n].size)
          IN  job' = [job EXCEPT ![n]["page"].todo = mine,
                                 ![n]["page"].rest = (@ \ visited[n]) \ mine]
    BY <1>4 DEF SortLinks
  <2> DEFINE mine == ClaimableLinks(order, visited[n], Capacity - queue[n].size)
             sorted == [page EXCEPT !.todo = mine, !.rest = (@ \ visited[n]) \ mine]
  <2>2. mine \subseteq page.rest /\ page.rest \subseteq Url
    BY <1>2, ClaimableType DEF Job
  <2>3. sorted \in Job
    <3> HIDE DEF mine
    <3> QED
      BY <1>2, <2>2 DEF Job
  <2>4. job' = [job EXCEPT ![n]["page"] = sorted]
    BY <1>0, <2>1 DEF TypeOK
  <2>5. job' \in [Node -> [Claimant -> Job]]
    <3> HIDE DEF sorted
    <3> QED
      BY <1>0, <2>3, <2>4, JobUpdate
  <2>6. QED
    BY <1>1, <1>4, <2>5 DEF SortLinks, TypeInv, TypeOK
<1>5. QED
  BY <1>3, <1>4

(* Every step of claimUrls, and the report after it, keeps the types. *)
LEMMA TypeClaim ==
  ASSUME TypeInv, NEW n \in Node, NEW g \in Claimant,
         ClaimOne(n, g) \/ SendClaims(n, g) \/ SendRefused(n, g) \/ (g = "page" /\ ReportRest(n))
  PROVE  TypeInv'
<1> USE DEF urlVars, workers, raftVars, history
<1>0. /\ TypeOK
      /\ job[n][g] \in Job
      /\ {"report", "offer", "rest", "idle"} \subseteq Label
  BY DEF Label, TypeInv, TypeOK
<1>1. /\ job[n][g].todo \in SUBSET Url /\ job[n][g].won \in SUBSET Url
      /\ job[n][g].lost \in SUBSET Url /\ job[n][g].rest \in SUBSET Url
  BY <1>0 DEF Job
<1>2. ASSUME NEW type \in {"claim", "report"}, NEW urls \in SUBSET Url, SendMsg(type, urls)
      PROVE  /\ inbox' \in [Node -> Seq(Message)]
             /\ announced' \in SUBSET Url
             /\ drops' \in 0 .. MaxDrops
  BY <1>0, <1>2, SendMsgType
<1>3. CASE ClaimOne(n, g)
  <2>1. PICK u \in job[n][g].todo :
          /\ queue' = [queue EXCEPT ![n] = Q!Put(@, u)]
          /\ job' = [job EXCEPT
               ![n][g].todo = @ \ {u},
               ![n][g].won  = IF Q!PutError(queue[n], u) = "nil" THEN @ \cup {u} ELSE @,
               ![n][g].lost = IF Q!PutError(queue[n], u) = "nil" THEN @ ELSE @ \cup {u}]
    BY <1>3 DEF ClaimOne
  <2>2. u \in Url /\ QueueOK(queue[n])
    BY <1>1, <2>1 DEF QueueOK, TypeInv, TypeOK
  <2>3. queue' \in [Node -> Q!Queue] /\ \A m \in Node : Q!SizeOK(queue'[m])
    BY <1>0, <2>1, <2>2, PutQueueOK, QueueUpdate DEF TypeOK
  <2>4. job' \in [Node -> [Claimant -> Job]]
    <3> DEFINE ok == Q!PutError(queue[n], u) = "nil"
               j == [job[n][g] EXCEPT !.todo = @ \ {u},
                                      !.won  = IF ok THEN @ \cup {u} ELSE @,
                                      !.lost = IF ok THEN @ ELSE @ \cup {u}]
    <3>1. j \in Job
      <4> HIDE DEF ok
      <4> QED
        BY <1>0, <1>1, <2>2 DEF Job
    <3>2. job' = [job EXCEPT ![n][g] = j]
      BY <1>0, <2>1 DEF TypeOK
    <3> HIDE DEF j
    <3> QED
      BY <1>0, <3>1, <3>2, JobUpdate
  <2>5. QED
    BY <1>3, <2>3, <2>4 DEF ClaimOne, TypeInv, TypeOK
<1>4. CASE SendClaims(n, g)
  <2>1. pc' \in [Node -> [Claimant -> Label]]
    BY <1>0, <1>4, PcUpdate DEF SendClaims
  <2>2. job' = [job EXCEPT ![n][g] = [job[n][g] EXCEPT !.won = {}]]
    BY <1>0, <1>4 DEF SendClaims, TypeOK
  <2>3. job' \in [Node -> [Claimant -> Job]]
    BY <1>0, <2>2, JobUpdate DEF Job
  <2>4. QED
    BY <1>1, <1>2, <1>4, <2>1, <2>3 DEF SendClaims, TypeInv, TypeOK
<1>5. CASE SendRefused(n, g)
  <2>1. pc' \in [Node -> [Claimant -> Label]]
    BY <1>0, <1>5, PcUpdate DEF SendRefused
  <2>2. job' = [job EXCEPT ![n][g] = [job[n][g] EXCEPT !.lost = {}]]
    BY <1>0, <1>5 DEF SendRefused, TypeOK
  <2>3. job' \in [Node -> [Claimant -> Job]]
    BY <1>0, <2>2, JobUpdate DEF Job
  <2>4. QED
    BY <1>1, <1>2, <1>5, <2>1, <2>3 DEF SendRefused, TypeInv, TypeOK
<1>6. CASE g = "page" /\ ReportRest(n)
  <2>1. pc' \in [Node -> [Claimant -> Label]]
    BY <1>0, <1>6, PcUpdate DEF ReportRest
  <2>2. job' \in [Node -> [Claimant -> Job]]
    <3>1. NoJob \in Job
      BY DEF NoJob, Job
    <3>2. QED
      BY <1>0, <1>6, <3>1, JobUpdate DEF ReportRest
  <2>3. QED
    BY <1>1, <1>2, <1>6, <2>1, <2>2 DEF ReportRest, TypeInv, TypeOK
<1>7. QED
  BY <1>3, <1>4, <1>5, <1>6

(* Claims that expire and evictors keep the types. *)
LEMMA TypeEvict ==
  ASSUME TypeInv, NEW n \in Node,
         (\E u \in Url : Expire(n, u)) \/ (\E e \in Evictor : Evict(n, e))
  PROVE  TypeInv'
<1> USE DEF urlVars, workers, raftVars, history
<1>1. CASE \E u \in Url : Expire(n, u)
  <2>1. early' \in 0 .. MaxEarly
    BY <1>1, CrawlerAssumption DEF Expire, TypeInv, TypeOK
  <2>2. claims' \in [Node -> [Url -> {"none", "fresh", "expired"}]]
    BY <1>1 DEF Expire, TypeInv, TypeOK
  <2>3. QED
    BY <1>1, <2>1, <2>2 DEF Expire, TypeInv, TypeOK
<1>2. ASSUME NEW e \in Evictor, NEW u \in Url, EvictScan(n, e, u)
      PROVE  TypeInv'
  BY <1>2 DEF EvictScan, TypeInv, TypeOK
<1>3. ASSUME NEW e \in Evictor, EvictMove(n, e)
      PROVE  TypeInv'
  <2>1. evicting[n][e] \in Url
    BY <1>3 DEF EvictMove, TypeInv, TypeOK
  <2>2. claims' \in [Node -> [Url -> {"none", "fresh", "expired"}]]
    BY <1>3 DEF EvictMove, TypeInv, TypeOK
  <2>3. pool' \in [Node -> SUBSET Url] /\ evicting' \in [Node -> [Evictor -> Url \cup {NoUrl}]]
    BY <1>3, <2>1 DEF EvictMove, TypeInv, TypeOK
  <2>4. QED
    BY <1>3, <2>2, <2>3 DEF EvictMove, TypeInv, TypeOK
<1>4. QED
  BY <1>1, <1>2, <1>3 DEF Evict

(* The steps of a crawler, one by one: what the proofs about Next split    *)
(* the next-state relation into.                                           *)
Step(n) ==
  \/ OnNewValue(n)
  \/ NextFromQueue(n) \/ NextFromPool(n) \/ NextEvict(n) \/ NextEvictDone(n) \/ Dispatch(n)
  \/ \E u \in Url : FetchOk(n, u) \/ FetchFail(n, u)
  \/ ReportVisit(n) \/ SortLinks(n)
  \/ \E g \in Claimant : ClaimOne(n, g) \/ SendClaims(n, g) \/ SendRefused(n, g)
  \/ ReportRest(n)
  \/ \E u \in Url : Expire(n, u)
  \/ \E e \in Evictor : Evict(n, e)

(* Every step of the cluster is a step of a crawler or changes nothing. *)
LEMMA NextIsStep == [Next]_vars => (\E n \in Node : Step(n)) \/ UNCHANGED vars
  BY DEF Next, MainStep, PageStep, NextNothing, Step, Claimant, Evictor

(* Every step keeps the types. *)
LEMMA TypeNext == TypeInv /\ [Next]_vars => TypeInv'
<1> SUFFICES ASSUME TypeInv, [Next]_vars PROVE TypeInv'
  OBVIOUS
<1>1. CASE UNCHANGED vars
  BY <1>1 DEF vars, TypeInv, TypeOK
<1>2. ASSUME NEW n \in Node, Step(n) PROVE TypeInv'
  <2>1. "page" \in Claimant
    BY DEF Claimant
  <2>2. QED
    BY <1>2, <2>1, TypeOnNewValue, TypeMain, TypeFetch, TypeSort, TypeClaim, TypeEvict
       DEF Step
<1>3. QED
  BY <1>1, <1>2, NextIsStep

(* The type invariant always holds. *)
LEMMA TypeInvHolds == Spec => []TypeInv
  BY TypeInit, TypeNext, PTL DEF Spec

(* Type correctness of the cluster: whatever the crawlers do, their queues *)
(* stay inside their slices, they only ever hold URLs, and the only        *)
(* message about the empty URL is the visit of a failed request.           *)
THEOREM TypeCorrect == Spec => []TypeOK
<1>1. TypeInv => TypeOK
  BY DEF TypeInv
<1>2. QED
  BY <1>1, TypeInvHolds, PTL

-----------------------------------------------------------------------------
(* Messages in an inbox.                                                   *)

(* A message at the end adds its URLs, and its visits if it is a Visit. *)
LEMMA InboxAppend ==
  ASSUME NEW s \in Seq(Message), NEW m \in Message
  PROVE  /\ UrlsIn(Append(s, m)) = UrlsIn(s) \cup m.urls
         /\ VisitsIn(Append(s, m)) = VisitsIn(s) \cup (IF m.type = "visit" THEN m.urls ELSE {})
<1> DEFINE t == Append(s, m)
<1>1. /\ Len(s) \in Nat
      /\ DOMAIN s = 1 .. Len(s) /\ DOMAIN t = 1 .. Len(s) + 1
      /\ \A i \in 1 .. Len(s) : t[i] = s[i]
      /\ t[Len(s) + 1] = m
  OBVIOUS
<1> HIDE DEF t
<1>2. \A i \in DOMAIN t : i \in DOMAIN s \/ i = Len(s) + 1
  BY <1>1
<1>3. DOMAIN s \subseteq DOMAIN t /\ Len(s) + 1 \in DOMAIN t
  BY <1>1
<1>4. UrlsIn(t) = UrlsIn(s) \cup m.urls
  BY <1>1, <1>2, <1>3 DEF UrlsIn
<1>5. VisitsIn(t) = VisitsIn(s) \cup (IF m.type = "visit" THEN m.urls ELSE {})
  BY <1>1, <1>2, <1>3 DEF VisitsIn
<1>6. QED
  BY <1>4, <1>5 DEF t

(* The first message and the rest make up the inbox. *)
LEMMA InboxTail ==
  ASSUME NEW s \in Seq(Message), s # <<>>
  PROVE  /\ UrlsIn(s) = Head(s).urls \cup UrlsIn(Tail(s))
         /\ VisitsIn(s) = (IF Head(s).type = "visit" THEN Head(s).urls ELSE {})
                            \cup VisitsIn(Tail(s))
<1> DEFINE t == Tail(s)
<1>1. /\ Len(s) \in Nat \ {0} /\ DOMAIN s = 1 .. Len(s)
      /\ s[1] = Head(s)
  OBVIOUS
<1>2. t \in Seq(Message) /\ Len(t) = Len(s) - 1
  BY HeadTailProperties
<1>3. DOMAIN t = 1 .. Len(s) - 1
  BY <1>2
<1>4. \A i \in 1 .. Len(s) - 1 : t[i] = s[i + 1]
  BY <1>1
<1> HIDE DEF t
<1>5. \A i \in DOMAIN s : i = 1 \/ (i - 1 \in DOMAIN t /\ s[i] = t[i - 1])
  BY <1>1, <1>3, <1>4
<1>6. 1 \in DOMAIN s /\ \A i \in DOMAIN t : i + 1 \in DOMAIN s /\ t[i] = s[i + 1]
  BY <1>1, <1>3, <1>4
<1>7. UrlsIn(s) = Head(s).urls \cup UrlsIn(t)
  <2>1. \A u : (\E i \in DOMAIN s : u \in s[i].urls)
               <=> u \in s[1].urls \/ \E i \in DOMAIN t : u \in t[i].urls
    BY <1>5, <1>6
  <2>2. QED
    BY <1>1, <2>1 DEF UrlsIn
<1>8. VisitsIn(s) = (IF Head(s).type = "visit" THEN Head(s).urls ELSE {}) \cup VisitsIn(t)
  <2>1. \A u : (\E i \in DOMAIN s : s[i].type = "visit" /\ u \in s[i].urls)
               <=> \/ s[1].type = "visit" /\ u \in s[1].urls
                   \/ \E i \in DOMAIN t : t[i].type = "visit" /\ u \in t[i].urls
    BY <1>5, <1>6
  <2>2. QED
    BY <1>1, <2>1 DEF VisitsIn
<1>9. QED
  BY <1>7, <1>8 DEF t

(* A sent message enters every inbox, or none. *)
LEMMA Sent ==
  ASSUME TypeInv, NEW type, NEW urls, [type |-> type, urls |-> urls] \in Message,
         SendMsg(type, urls)
  PROVE  \/ /\ \A n \in Node :
                 /\ Pending(n)' = Pending(n) \cup urls
                 /\ PendingVisits(n)' =
                      PendingVisits(n) \cup (IF type = "visit" THEN urls ELSE {})
            /\ announced' = IF type = "visit" THEN announced ELSE announced \cup urls
            /\ drops' = drops
         \/ /\ UNCHANGED <<inbox, announced>>
            /\ \A n \in Node : /\ Pending(n)' = Pending(n)
                               /\ PendingVisits(n)' = PendingVisits(n)
            /\ (urls = {} /\ drops' = drops) \/ drops' = drops + 1
<1> DEFINE m == [type |-> type, urls |-> urls]
<1>1. CASE /\ UNCHANGED <<inbox, announced>>
           /\ (urls = {} /\ drops' = drops) \/ drops' = drops + 1
  BY <1>1 DEF Pending, PendingVisits
<1>2. CASE /\ inbox' = [k \in Node |-> Append(inbox[k], m)]
           /\ announced' = IF type = "visit" THEN announced ELSE announced \cup urls
           /\ UNCHANGED drops
  <2>1. ASSUME NEW n \in Node
        PROVE  /\ Pending(n)' = Pending(n) \cup urls
               /\ PendingVisits(n)' =
                    PendingVisits(n) \cup (IF type = "visit" THEN urls ELSE {})
    <3>1. inbox'[n] = Append(inbox[n], m) /\ inbox[n] \in Seq(Message)
      BY <1>2 DEF TypeInv, TypeOK
    <3>2. /\ UrlsIn(inbox'[n]) = UrlsIn(inbox[n]) \cup m.urls
          /\ VisitsIn(inbox'[n]) =
               VisitsIn(inbox[n]) \cup (IF m.type = "visit" THEN m.urls ELSE {})
      BY <3>1, InboxAppend
    <3>3. /\ Pending(n)' = UrlsIn(inbox'[n])
          /\ PendingVisits(n)' = VisitsIn(inbox'[n])
      BY DEF Pending, PendingVisits, UrlsIn, VisitsIn
    <3>4. QED
      BY <3>2, <3>3 DEF Pending, PendingVisits
  <2>2. QED
    BY <1>2, <2>1
<1>3. QED
  BY <1>1, <1>2 DEF SendMsg, raftVars

(* What onNewValue takes out of the inbox is the message it handles. *)
LEMMA Taken ==
  ASSUME TypeInv, NEW n \in Node, OnNewValue(n)
  PROVE  /\ Head(inbox[n]) \in Message
         /\ Pending(n) = Head(inbox[n]).urls \cup Pending(n)'
         /\ PendingVisits(n) =
              (IF Head(inbox[n]).type = "visit" THEN Head(inbox[n]).urls ELSE {})
                \cup PendingVisits(n)'
         /\ \A k \in Node : k # n => /\ Pending(k)' = Pending(k)
                                    /\ PendingVisits(k)' = PendingVisits(k)
<1>1. inbox[n] \in Seq(Message) /\ inbox[n] # <<>> /\ inbox'[n] = Tail(inbox[n])
  BY DEF OnNewValue, TypeInv, TypeOK
<1>2. \A k \in Node : k # n => inbox'[k] = inbox[k]
  BY DEF OnNewValue, TypeInv, TypeOK
<1>3. \A k \in Node : /\ Pending(k)' = UrlsIn(inbox'[k])
                      /\ PendingVisits(k)' = VisitsIn(inbox'[k])
  BY DEF Pending, PendingVisits, UrlsIn, VisitsIn
<1>4. Head(inbox[n]) \in Message
  BY <1>1
<1>5. QED
  BY <1>1, <1>2, <1>3, <1>4, InboxTail DEF Pending, PendingVisits

-----------------------------------------------------------------------------
(* Claims.                                                                 *)

(* Claimed and Visited never share a URL: only onUrlVisit adds to Visited, *)
(* and drops the claim; onUrlClaim claims no URL that is in Visited.       *)
THEOREM ClaimsCorrect == Spec => []ClaimsUnvisited
<1>1. Init => ClaimsUnvisited
  BY DEF Init, ClaimsUnvisited
<1>2. TypeInv /\ ClaimsUnvisited /\ [Next]_vars => ClaimsUnvisited'
  <2> SUFFICES ASSUME TypeInv, ClaimsUnvisited, [Next]_vars
               PROVE  ClaimsUnvisited'
    OBVIOUS
  <2> USE DEF ClaimsUnvisited, urlVars
  <2>1. CASE UNCHANGED <<claims, visited>>
    BY <2>1
  <2>2. ASSUME NEW n \in Node, OnNewValue(n) PROVE ClaimsUnvisited'
    <3> DEFINE urls == Head(inbox[n]).urls
    <3>1. CASE OnUrlVisit(n, urls)
      BY <3>1 DEF OnUrlVisit, TypeInv, TypeOK
    <3>2. CASE OnUrlClaim(n, urls)
      BY <3>2 DEF OnUrlClaim, TypeInv, TypeOK
    <3>3. CASE OnUrlReport(n, urls)
      BY <3>3 DEF OnUrlReport
    <3>4. QED
      BY <2>2, <3>1, <3>2, <3>3 DEF OnNewValue
  <2>3. ASSUME NEW n \in Node, NEW u \in Url, Expire(n, u) PROVE ClaimsUnvisited'
    BY <2>3 DEF Expire, TypeInv, TypeOK
  <2>4. ASSUME NEW n \in Node, NEW e \in Evictor, Evict(n, e) PROVE ClaimsUnvisited'
    <3>1. CASE EvictMove(n, e)
      BY <3>1 DEF EvictMove, TypeInv, TypeOK
    <3>2. QED
      BY <2>4, <3>1 DEF Evict, EvictScan
  <2>5. ASSUME NEW n \in Node, Step(n) PROVE ClaimsUnvisited'
    BY <2>1, <2>2, <2>3, <2>4, <2>5
       DEF Step, NextFromQueue, NextFromPool, NextEvict, NextEvictDone, Dispatch, FetchOk,
           FetchFail, TakeResponse, ReportVisit, SortLinks, ClaimOne, SendClaims,
           SendRefused, ReportRest
  <2>6. QED
    BY <2>1, <2>5, NextIsStep DEF vars
<1>3. QED
  BY <1>1, <1>2, TypeInvHolds, PTL DEF Spec

-----------------------------------------------------------------------------
(* Visits.                                                                 *)

(* The visits crawler n has processed or will process. *)
Known(n) == visited[n] \cup PendingVisits(n)

(* Processing a message changes nothing in what a crawler will know. *)
LEMMA KnownOnNewValue ==
  ASSUME TypeInv, NEW n \in Node, OnNewValue(n)
  PROVE  \A k \in Node : Known(k)' = Known(k)
<1> DEFINE msg == Head(inbox[n])
<1>1. visited' = [visited EXCEPT ![n] = @ \cup (IF msg.type = "visit" THEN msg.urls ELSE {})]
  BY DEF OnNewValue, OnUrlVisit, OnUrlClaim, OnUrlReport, TypeInv, TypeOK
<1>2. QED
  BY <1>1, Taken DEF Known, TypeInv, TypeOK

(* Sending a message adds the same visits to what every crawler will know, *)
(* and only reportVisits sends any.                                        *)
LEMMA KnownStep ==
  ASSUME TypeInv, NEW n \in Node, Step(n)
  PROVE  \/ \A k \in Node : Known(k)' = Known(k)
         \/ /\ ReportVisit(n)
            /\ \A k \in Node : Known(k)' = Known(k) \cup {job[n]["page"].url}
<1> USE DEF urlVars
<1>0. /\ "page" \in Claimant
      /\ \A g \in Claimant : job[n][g] \in Job
  BY DEF Claimant, TypeInv, TypeOK
<1>1. CASE OnNewValue(n)
  BY <1>1, KnownOnNewValue
<1>2. CASE UNCHANGED <<inbox, visited>>
  BY <1>2 DEF Known, PendingVisits
<1>3. CASE ReportVisit(n)
  <2>1. [type |-> "visit", urls |-> {job[n]["page"].url}] \in Message
    BY <1>0 DEF Message, Job
  <2>2. QED
    BY <1>3, <2>1, Sent DEF ReportVisit, Known
<1>4. ASSUME NEW type \in {"claim", "report"}, NEW urls \in SUBSET Url, SendMsg(type, urls),
             UNCHANGED visited
      PROVE  \A k \in Node : Known(k)' = Known(k)
  <2>1. [type |-> type, urls |-> urls] \in Message
    BY <1>4 DEF Message
  <2>2. QED
    BY <1>4, <2>1, Sent DEF Known
<1>5. CASE \E g \in Claimant : SendClaims(n, g)
  BY <1>0, <1>4, <1>5 DEF SendClaims, Job
<1>6. CASE \E g \in Claimant : SendRefused(n, g)
  BY <1>0, <1>4, <1>6 DEF SendRefused, Job
<1>7. CASE ReportRest(n)
  BY <1>0, <1>4, <1>7 DEF ReportRest, Job
<1>8. QED
  BY <1>1, <1>2, <1>3, <1>5, <1>6, <1>7
     DEF Step, NextFromQueue, NextFromPool, NextEvict, NextEvictDone, Dispatch, FetchOk,
         FetchFail, TakeResponse, SortLinks, ClaimOne, Expire, Evict, EvictScan, EvictMove,
         raftVars, workers,
         history

(* Visited is a replica: crawlers that processed the same messages agree   *)
(* on what is visited, however their queues, claims and evictions differ.  *)
THEOREM ReplicasAgree == Spec => []VisitedIsReplica
<1>1. Init => VisitedIsReplica
  BY DEF Init, VisitedIsReplica, PendingVisits, VisitsIn
<1>2. TypeInv /\ VisitedIsReplica /\ [Next]_vars => VisitedIsReplica'
  <2> SUFFICES ASSUME TypeInv, VisitedIsReplica, [Next]_vars
               PROVE  VisitedIsReplica'
    OBVIOUS
  <2>1. VisitedIsReplica <=> \A m, n \in Node : Known(m) = Known(n)
    BY DEF VisitedIsReplica, Known
  <2>2. VisitedIsReplica' <=> \A m, n \in Node : Known(m)' = Known(n)'
    BY DEF VisitedIsReplica, Known
  <2>3. CASE UNCHANGED vars
    BY <2>1, <2>2, <2>3 DEF vars, Known, PendingVisits
  <2>4. ASSUME NEW n \in Node, Step(n) PROVE VisitedIsReplica'
    BY <2>1, <2>2, <2>4, KnownStep
  <2>5. QED
    BY <2>3, <2>4, NextIsStep
<1>3. QED
  BY <1>1, <1>2, TypeInvHolds, PTL DEF Spec

(* Replacing the local variables of one goroutine leaves the others alone. *)
LEMMA JobReplaced ==
  ASSUME TypeInv, NEW n \in Node, NEW g \in Claimant, NEW j, job' = [job EXCEPT ![n][g] = j]
  PROVE  /\ job'[n][g] = j
         /\ \A k \in Node, h \in Claimant : k # n \/ h # g => job'[k][h] = job[k][h]
  BY DEF TypeInv, TypeOK

(* What claimUrls does to its local variables: the URLs move from todo to  *)
(* won or lost, and from there into messages.                              *)
LEMMA ClaimJob ==
  ASSUME TypeInv, NEW n \in Node, NEW g \in Claimant,
         ClaimOne(n, g) \/ SendClaims(n, g) \/ SendRefused(n, g)
  PROVE  \E j \in Job :
           /\ job' = [job EXCEPT ![n][g] = j]
           /\ j.url = job[n][g].url /\ j.rest = job[n][g].rest
           /\ ClaimOne(n, g) =>
                j.todo \cup j.won \cup j.lost = job[n][g].todo \cup job[n][g].won \cup job[n][g].lost
           /\ SendClaims(n, g) =>
                j.todo = job[n][g].todo /\ j.won = {} /\ j.lost = job[n][g].lost
           /\ SendRefused(n, g) =>
                j.todo = job[n][g].todo /\ j.won = job[n][g].won /\ j.lost = {}
<1>0. job \in [Node -> [Claimant -> Job]] /\ job[n][g] \in Job
  BY DEF TypeInv, TypeOK
<1>a. ClaimOne(n, g) => pc[n][g] = "put" /\ job[n][g].todo # {}
  BY DEF ClaimOne
<1>b. SendClaims(n, g) => pc[n][g] = "put" /\ job[n][g].todo = {}
  BY DEF SendClaims
<1>c. SendRefused(n, g) => pc[n][g] = "report"
  BY DEF SendRefused
<1>1. CASE ClaimOne(n, g)
  <2>1. PICK u \in job[n][g].todo :
          job' = [job EXCEPT
               ![n][g].todo = @ \ {u},
               ![n][g].won  = IF Q!PutError(queue[n], u) = "nil" THEN @ \cup {u} ELSE @,
               ![n][g].lost = IF Q!PutError(queue[n], u) = "nil" THEN @ ELSE @ \cup {u}]
    BY <1>1 DEF ClaimOne
  <2> DEFINE ok == Q!PutError(queue[n], u) = "nil"
             j == [job[n][g] EXCEPT !.todo = @ \ {u},
                                    !.won  = IF ok THEN @ \cup {u} ELSE @,
                                    !.lost = IF ok THEN @ ELSE @ \cup {u}]
  <2>2. job' = [job EXCEPT ![n][g] = j]
    BY <1>0, <2>1
  <2>3. /\ j \in Job
        /\ j.url = job[n][g].url /\ j.rest = job[n][g].rest
        /\ j.todo \cup j.won \cup j.lost = job[n][g].todo \cup job[n][g].won \cup job[n][g].lost
    <3> HIDE DEF ok
    <3> QED
      BY <1>0 DEF Job
  <2>4. ~SendClaims(n, g) /\ ~SendRefused(n, g)
    BY <1>a, <1>b, <1>c, <1>1
  <2>5. QED
    BY <2>2, <2>3, <2>4
<1>2. CASE SendClaims(n, g)
  <2> DEFINE j == [job[n][g] EXCEPT !.won = {}]
  <2>1. job' = [job EXCEPT ![n][g] = j]
    BY <1>0, <1>2 DEF SendClaims
  <2>2. /\ j \in Job
        /\ j.url = job[n][g].url /\ j.rest = job[n][g].rest
        /\ j.todo = job[n][g].todo /\ j.won = {} /\ j.lost = job[n][g].lost
    BY <1>0 DEF Job
  <2>3. ~ClaimOne(n, g) /\ ~SendRefused(n, g)
    BY <1>a, <1>b, <1>c, <1>2
  <2>4. QED
    BY <2>1, <2>2, <2>3
<1>3. CASE SendRefused(n, g)
  <2> DEFINE j == [job[n][g] EXCEPT !.lost = {}]
  <2>1. job' = [job EXCEPT ![n][g] = j]
    BY <1>0, <1>3 DEF SendRefused
  <2>2. /\ j \in Job
        /\ j.url = job[n][g].url /\ j.rest = job[n][g].rest
        /\ j.todo = job[n][g].todo /\ j.won = job[n][g].won /\ j.lost = {}
    BY <1>0 DEF Job
  <2>3. ~ClaimOne(n, g) /\ ~SendClaims(n, g)
    BY <1>a, <1>b, <1>c, <1>3
  <2>4. QED
    BY <2>1, <2>2, <2>3
<1>4. QED
  BY <1>1, <1>2, <1>3

PageUrlAnswered == \A n \in Node : job[n]["page"].url \in answered \cup {NoUrl}

(* The page being processed came with a response, or is the empty page. *)
LEMMA PageUrlStep ==
  ASSUME TypeInv, PageUrlAnswered, NEW n \in Node, Step(n)
  PROVE  PageUrlAnswered' /\ answered \subseteq answered'
<1> USE DEF PageUrlAnswered
<1>0. "page" \in Claimant /\ "main" \in Claimant /\ "page" # "main"
  BY DEF Claimant
<1>1. CASE UNCHANGED <<job, answered>>
  BY <1>1
<1>2. CASE NextFromQueue(n) \/ NextFromPool(n) \/ Dispatch(n)
  <2>1. (\E j : job' = [job EXCEPT ![n]["main"] = j]) /\ UNCHANGED answered
    BY <1>2 DEF NextFromQueue, NextFromPool, Dispatch, history
  <2>2. QED
    BY <1>0, <2>1, JobReplaced
<1>3. ASSUME NEW u \in Url, FetchOk(n, u) PROVE PageUrlAnswered' /\ answered \subseteq answered'
  <2>1. PageJob(u, Links[u]).url = u /\ PageJob(u, {}).url = u
    BY DEF PageJob, NoJob
  <2>2. /\ answered' = answered \cup {u}
        /\ \/ job' = [job EXCEPT ![n]["page"] = PageJob(u, Links[u])]
           \/ job' = [job EXCEPT ![n]["page"] = PageJob(u, {})]
    BY <1>3 DEF FetchOk, TakeResponse
  <2>3. QED
    BY <1>0, <2>1, <2>2, JobReplaced
<1>4. CASE (\E u \in Url : FetchFail(n, u)) \/ ReportRest(n)
  <2>1. job' = [job EXCEPT ![n]["page"] = NoJob] /\ UNCHANGED answered
    BY <1>4 DEF FetchFail, TakeResponse, ReportRest, history
  <2>2. NoJob.url = NoUrl
    BY DEF NoJob
  <2>3. QED
    BY <1>0, <2>1, <2>2 DEF TypeInv, TypeOK
<1>5. CASE SortLinks(n)
  BY <1>0, <1>5 DEF SortLinks, TypeInv, TypeOK, Job, history
<1>6. ASSUME NEW g \in Claimant, ClaimOne(n, g) \/ SendClaims(n, g) \/ SendRefused(n, g)
      PROVE  PageUrlAnswered' /\ answered \subseteq answered'
  <2>1. UNCHANGED answered
    BY <1>6 DEF ClaimOne, SendClaims, SendRefused, history
  <2>2. PICK j \in Job : job' = [job EXCEPT ![n][g] = j] /\ j.url = job[n][g].url
    BY <1>6, ClaimJob
  <2>3. QED
    BY <1>0, <2>1, <2>2, JobReplaced
<1>7. QED
  BY <1>1, <1>2, <1>3, <1>4, <1>5, <1>6
     DEF Step, OnNewValue, NextEvict, NextEvictDone, ReportVisit, Expire, Evict, EvictScan,
         EvictMove, history

AnsweredInv == PageUrlAnswered /\ \A n \in Node : Known(n) \subseteq answered \cup {NoUrl}

(* The page at hand and the visits still to be processed are why           *)
(* AnsweredInv says more than VisitedWasAnswered.                          *)
LEMMA AnsweredInvHolds == Spec => []AnsweredInv
<1>1. Init => AnsweredInv
  BY DEF Init, AnsweredInv, PageUrlAnswered, Known, PendingVisits, VisitsIn, NoJob, Claimant
<1>2. TypeInv /\ AnsweredInv /\ [Next]_vars => AnsweredInv'
  <2> SUFFICES ASSUME TypeInv, AnsweredInv, [Next]_vars
               PROVE  AnsweredInv'
    OBVIOUS
  <2>1. CASE UNCHANGED vars
    BY <2>1 DEF vars, AnsweredInv, PageUrlAnswered, Known, PendingVisits
  <2>2. ASSUME NEW n \in Node, Step(n) PROVE AnsweredInv'
    <3>1. PageUrlAnswered' /\ answered \subseteq answered'
      BY <2>2, PageUrlStep DEF AnsweredInv
    <3>2. ASSUME NEW k \in Node PROVE Known(k)' \subseteq answered' \cup {NoUrl}
      BY <2>2, <3>1, KnownStep DEF AnsweredInv, PageUrlAnswered
    <3>3. QED
      BY <3>1, <3>2 DEF AnsweredInv
  <2>3. QED
    BY <2>1, <2>2, NextIsStep
<1>3. QED
  BY <1>1, <1>2, TypeInvHolds, PTL DEF Spec

(* A URL that is Visited anywhere had an HTTP response: failed requests    *)
(* visit only the empty URL.                                               *)
THEOREM VisitedAnswered == Spec => []VisitedWasAnswered
<1>1. AnsweredInv => VisitedWasAnswered
  BY DEF AnsweredInv, Known, VisitedWasAnswered
<1>2. QED
  BY <1>1, AnsweredInvHolds, PTL

-----------------------------------------------------------------------------
(* Nothing announced is forgotten.                                         *)

Hands(n) == job[n]["main"].todo \cup job[n]["main"].won \cup job[n]["main"].lost

(* Where crawler n keeps the URLs it was told about. *)
Tracks(n) ==
  visited[n] \cup pool[n] \cup Pending(n) \cup {u \in Url : claims[n][u] # "none"} \cup Hands(n)

(* The main loop drops its local variables only when it holds no URL. *)
HandsInv ==
  \A n \in Node :
    /\ pc[n]["main"] \in {"next", "evict", "offer"} => Hands(n) = {}
    /\ pc[n]["main"] = "report" => job[n]["main"].todo = {} /\ job[n]["main"].won = {}

(* Replacing the place of one goroutine in the code leaves the others. *)
LEMMA PcReplaced ==
  ASSUME TypeInv, NEW n \in Node, NEW g \in Claimant, NEW l, pc' = [pc EXCEPT ![n][g] = l]
  PROVE  /\ pc'[n][g] = l
         /\ \A k \in Node, h \in Claimant : k # n \/ h # g => pc'[k][h] = pc[k][h]
  BY DEF TypeInv, TypeOK

(* The goroutine that processes pages does not touch the main loop. *)
LEMMA PageLeavesMain ==
  ASSUME TypeInv, NEW n \in Node,
         \/ \E u \in Url : FetchOk(n, u) \/ FetchFail(n, u)
         \/ ReportVisit(n) \/ SortLinks(n) \/ ReportRest(n)
         \/ ClaimOne(n, "page") \/ SendClaims(n, "page") \/ SendRefused(n, "page")
  PROVE  /\ \A k \in Node : job'[k]["main"] = job[k]["main"] /\ pc'[k]["main"] = pc[k]["main"]
         /\ \A k \in Node : k # n => /\ job'[k]["page"] = job[k]["page"]
                                    /\ pc'[k]["page"] = pc[k]["page"]
<1>0. "main" \in Claimant /\ "page" \in Claimant /\ "main" # "page"
  BY DEF Claimant
<1>1. pc' = pc \/ \E l : pc' = [pc EXCEPT ![n]["page"] = l]
  BY DEF FetchOk, FetchFail, TakeResponse, ReportVisit, SortLinks, ReportRest, ClaimOne,
         SendClaims, SendRefused
<1>2. job' = job \/ \E j : job' = [job EXCEPT ![n]["page"] = j]
  <2>1. CASE SortLinks(n)
    <3>1. PICK todo, rest : job' = [job EXCEPT ![n]["page"].todo = todo, ![n]["page"].rest = rest]
      BY <2>1 DEF SortLinks
    <3>2. job' = [job EXCEPT ![n]["page"] = [job[n]["page"] EXCEPT !.todo = todo, !.rest = rest]]
      BY <1>0, <3>1 DEF TypeInv, TypeOK
    <3>3. QED
      BY <3>2
  <2>2. CASE ClaimOne(n, "page") \/ SendClaims(n, "page") \/ SendRefused(n, "page")
    BY <1>0, <2>2, ClaimJob
  <2>3. CASE ReportVisit(n)
    BY <2>3 DEF ReportVisit
  <2>4. CASE ReportRest(n) \/ \E u \in Url : FetchOk(n, u) \/ FetchFail(n, u)
    BY <2>4 DEF ReportRest, FetchOk, FetchFail, TakeResponse
  <2>5. QED
    BY <2>1, <2>2, <2>3, <2>4
<1>3. QED
  BY <1>0, <1>1, <1>2, JobReplaced, PcReplaced

(* Every step keeps HandsInv. *)
LEMMA HandsStep ==
  ASSUME TypeInv, HandsInv, NEW n \in Node, Step(n)
  PROVE  HandsInv'
<1>0. "main" \in Claimant /\ "page" \in Claimant /\ "main" # "page"
  BY DEF Claimant
<1>c. \A g \in Claimant : g = "main" \/ g = "page"
  BY DEF Claimant
<1>1. CASE UNCHANGED <<job, pc>>
  BY <1>1 DEF HandsInv, Hands
<1>2. CASE \A k \in Node : job'[k]["main"] = job[k]["main"] /\ pc'[k]["main"] = pc[k]["main"]
  BY <1>2 DEF HandsInv, Hands
<1>3. CASE NextFromQueue(n) \/ NextFromPool(n) \/ Dispatch(n)
  <2>1. /\ NoJob.todo = {} /\ NoJob.won = {} /\ NoJob.lost = {}
        /\ \A u : MainJob(u, {}).todo = {} /\ MainJob(u, {}).won = {} /\ MainJob(u, {}).lost = {}
    BY DEF NoJob, MainJob
  <2>2. \/ /\ pc' = [pc EXCEPT ![n]["main"] = "put"]
           /\ \E j : job' = [job EXCEPT ![n]["main"] = j]
        \/ /\ \E l : pc' = [pc EXCEPT ![n]["main"] = l]
           /\ \E j : /\ job' = [job EXCEPT ![n]["main"] = j]
                     /\ j.todo = {} /\ j.won = {} /\ j.lost = {}
    <3>1. CASE NextFromQueue(n)
      BY <2>1, <3>1 DEF NextFromQueue
    <3>2. CASE NextFromPool(n)
      BY <3>2 DEF NextFromPool
    <3>3. CASE Dispatch(n)
      BY <2>1, <3>3 DEF Dispatch
    <3>4. QED
      BY <1>3, <3>1, <3>2, <3>3
  <2>3. PICK j, l :
          /\ job' = [job EXCEPT ![n]["main"] = j] /\ pc' = [pc EXCEPT ![n]["main"] = l]
          /\ l = "put" \/ (j.todo = {} /\ j.won = {} /\ j.lost = {})
    BY <2>2
  <2>4. job'[n]["main"] = j /\ \A k \in Node : k # n => job'[k]["main"] = job[k]["main"]
    BY <1>0, <2>3 DEF TypeInv, TypeOK
  <2>5. pc'[n]["main"] = l /\ \A k \in Node : k # n => pc'[k]["main"] = pc[k]["main"]
    BY <1>0, <2>3 DEF TypeInv, TypeOK
  <2>6. QED
    BY <2>3, <2>4, <2>5 DEF HandsInv, Hands
<1>4. CASE NextEvict(n) \/ NextEvictDone(n)
  <2>1. /\ pc[n]["main"] \in {"next", "evict"}
        /\ UNCHANGED job
        /\ \E l \in {"next", "evict"} : pc' = [pc EXCEPT ![n]["main"] = l]
    BY <1>4 DEF NextEvict, NextEvictDone
  <2>2. QED
    BY <1>0, <2>1, PcReplaced DEF HandsInv, Hands
<1>5. CASE ClaimOne(n, "main")
  <2>1. PICK j \in Job : job' = [job EXCEPT ![n]["main"] = j]
    BY <1>0, <1>5, ClaimJob
  <2>2. pc[n]["main"] = "put" /\ UNCHANGED pc
    BY <1>5 DEF ClaimOne
  <2>3. QED
    BY <1>0, <2>1, <2>2, JobReplaced DEF HandsInv, Hands
<1>6. CASE SendClaims(n, "main")
  <2>1. PICK j \in Job : /\ job' = [job EXCEPT ![n]["main"] = j]
                         /\ j.todo = job[n]["main"].todo /\ j.won = {}
    BY <1>0, <1>6, ClaimJob
  <2>2. job[n]["main"].todo = {} /\ pc' = [pc EXCEPT ![n]["main"] = "report"]
    BY <1>6 DEF SendClaims
  <2>3. job'[n]["main"] = j /\ \A k \in Node : k # n => job'[k]["main"] = job[k]["main"]
    BY <1>0, <2>1 DEF TypeInv, TypeOK
  <2>4. pc'[n]["main"] = "report" /\ \A k \in Node : k # n => pc'[k]["main"] = pc[k]["main"]
    BY <1>0, <2>2 DEF TypeInv, TypeOK
  <2>5. QED
    BY <2>1, <2>2, <2>3, <2>4 DEF HandsInv, Hands
<1>7. CASE SendRefused(n, "main")
  <2>1. PICK j \in Job : /\ job' = [job EXCEPT ![n]["main"] = j]
                         /\ j.todo = job[n]["main"].todo /\ j.won = job[n]["main"].won
                         /\ j.lost = {}
    BY <1>0, <1>7, ClaimJob
  <2>2. pc[n]["main"] = "report" /\ pc' = [pc EXCEPT ![n]["main"] = "offer"]
    BY <1>7 DEF SendRefused
  <2>3. job'[n]["main"] = j /\ \A k \in Node : k # n => job'[k]["main"] = job[k]["main"]
    BY <1>0, <2>1 DEF TypeInv, TypeOK
  <2>4. pc'[n]["main"] = "offer" /\ \A k \in Node : k # n => pc'[k]["main"] = pc[k]["main"]
    BY <1>0, <2>2 DEF TypeInv, TypeOK
  <2>5. QED
    BY <2>1, <2>2, <2>3, <2>4 DEF HandsInv, Hands
<1>8. CASE \/ OnNewValue(n)
           \/ \E u \in Url : Expire(n, u)
           \/ \E e \in Evictor : Evict(n, e)
  BY <1>1, <1>8 DEF OnNewValue, Expire, Evict, EvictScan, EvictMove
<1>9. QED
  BY <1>c, <1>2, <1>3, <1>4, <1>5, <1>6, <1>7, <1>8, PageLeavesMain DEF Step

(* A step keeps hold of what every crawler tracks, and of what it          *)
(* announces.                                                              *)
Keeps == \A k \in Node : Tracks(k) \cup (announced' \ announced) \subseteq Tracks(k)'

(* The handlers of onNewValue move URLs out of the inbox and out of claims *)
(* only to Visited, and keep them otherwise.                               *)
LEMMA KeepsOnNewValue ==
  ASSUME TypeInv, NEW n \in Node, OnNewValue(n)
  PROVE  Keeps
<1> DEFINE msg == Head(inbox[n])
<1>0. /\ msg.urls \in SUBSET (Url \cup {NoUrl})
      /\ Pending(n) = msg.urls \cup Pending(n)'
      /\ \A k \in Node : k # n => Pending(k)' = Pending(k)
      /\ msg.type # "visit" => msg.urls \in SUBSET Url
  BY Taken, MessageUrls
<1>1. UNCHANGED <<job, announced>>
  BY DEF OnNewValue
<1>2. \A k \in Node : Hands(k)' = Hands(k)
  BY <1>1 DEF Hands
<1> HIDE DEF msg
<1>3. \/ msg.type = "visit" /\ OnUrlVisit(n, msg.urls)
      \/ msg.type = "claim" /\ OnUrlClaim(n, msg.urls)
      \/ msg.type = "report" /\ OnUrlReport(n, msg.urls)
  BY DEF OnNewValue, msg
<1>4. \A k \in Node : k # n => /\ visited'[k] = visited[k] /\ pool'[k] = pool[k]
                             /\ claims'[k] = claims[k]
  BY <1>3 DEF OnUrlVisit, OnUrlClaim, OnUrlReport, TypeInv, TypeOK
<1>5. ASSUME NEW u \in Tracks(n) PROVE u \in Tracks(n)'
  <2>1. /\ visited[n] \subseteq visited'[n] /\ pool[n] \subseteq pool'[n]
        /\ \A v \in Url : claims[n][v] # "none" => claims'[n][v] # "none" \/ v \in visited'[n]
        /\ \A v \in msg.urls : v \in visited'[n] \cup pool'[n]
                               \/ (v \in Url /\ claims'[n][v] # "none")
    <3>1. CASE msg.type = "visit" /\ OnUrlVisit(n, msg.urls)
      BY <3>1 DEF OnUrlVisit, TypeInv, TypeOK
    <3>2. CASE msg.type = "claim" /\ OnUrlClaim(n, msg.urls)
      <4>1. \A v \in Url : claims'[n][v] = IF v \in msg.urls \ visited[n] THEN "fresh"
                                           ELSE claims[n][v]
        BY <3>2 DEF OnUrlClaim, TypeInv, TypeOK
      <4>2. UNCHANGED <<visited, pool>>
        BY <3>2 DEF OnUrlClaim
      <4>3. QED
        BY <1>0, <3>2, <4>1, <4>2
    <3>3. CASE msg.type = "report" /\ OnUrlReport(n, msg.urls)
      BY <3>3 DEF OnUrlReport, TypeInv, TypeOK
    <3>4. QED
      BY <1>3, <3>1, <3>2, <3>3
  <2>2. QED
    BY <1>0, <1>2, <1>5, <2>1 DEF Tracks
<1>6. ASSUME NEW k \in Node, k # n PROVE Tracks(k)' = Tracks(k)
  BY <1>0, <1>2, <1>4, <1>6 DEF Tracks
<1>7. QED
  BY <1>1, <1>5, <1>6 DEF Keeps

(* The main loop and the evictors pass URLs on: from the pool to its       *)
(* hands, and from Claimed to the pool.                                    *)
LEMMA KeepsMain ==
  ASSUME TypeInv, HandsInv, NEW n \in Node,
         \/ NextFromQueue(n) \/ NextFromPool(n) \/ NextEvict(n) \/ NextEvictDone(n) \/ Dispatch(n)
         \/ \E u \in Url : Expire(n, u)
         \/ \E e \in Evictor : Evict(n, e)
  PROVE  Keeps
<1> USE DEF raftVars, urlVars
<1>0. "main" \in Claimant
  BY DEF Claimant
<1>1. /\ UNCHANGED <<inbox, announced, visited>>
      /\ \A k \in Node : Pending(k)' = Pending(k)
  BY DEF NextFromQueue, NextFromPool, NextEvict, NextEvictDone, Dispatch, Expire, Evict,
         EvictScan, EvictMove, Pending
<1>2. CASE NextFromQueue(n) \/ Dispatch(n)
  <2>1. Hands(n) = {} /\ \E j : job' = [job EXCEPT ![n]["main"] = j]
    BY <1>2 DEF NextFromQueue, Dispatch, HandsInv
  <2>2. \A k \in Node : k # n => job'[k]["main"] = job[k]["main"]
    BY <1>0, <2>1 DEF TypeInv, TypeOK
  <2>3. \A k \in Node : Hands(k) \subseteq Hands(k)'
    BY <2>1, <2>2 DEF Hands
  <2>4. UNCHANGED <<pool, claims>>
    BY <1>2 DEF NextFromQueue, Dispatch
  <2>5. QED
    BY <1>1, <2>3, <2>4 DEF Keeps, Tracks
<1>3. CASE NextFromPool(n)
  <2>1. PICK u \in pool[n] : /\ pool' = [pool EXCEPT ![n] = @ \ {u}]
                             /\ job' = [job EXCEPT ![n]["main"] = MainJob(u, {u})]
    BY <1>3 DEF NextFromPool
  <2>2. Hands(n) = {} /\ UNCHANGED claims
    BY <1>3 DEF NextFromPool, HandsInv
  <2>3. /\ job'[n]["main"] = MainJob(u, {u})
        /\ \A k \in Node : k # n => job'[k]["main"] = job[k]["main"]
    BY <1>0, <2>1 DEF TypeInv, TypeOK
  <2>4. MainJob(u, {u}).todo = {u}
    BY DEF MainJob, NoJob
  <2>5. u \in Hands(n)' /\ \A k \in Node : Hands(k) \subseteq Hands(k)'
    BY <2>2, <2>3, <2>4 DEF Hands
  <2>6. /\ pool[n] \subseteq pool'[n] \cup {u}
        /\ \A k \in Node : k # n => pool'[k] = pool[k]
    BY <2>1 DEF TypeInv, TypeOK
  <2>7. QED
    BY <1>1, <2>2, <2>5, <2>6 DEF Keeps, Tracks
<1>4. CASE NextEvict(n) \/ NextEvictDone(n) \/ \E e \in Evictor, u \in Url : EvictScan(n, e, u)
  BY <1>1, <1>4 DEF NextEvict, NextEvictDone, EvictScan, Keeps, Tracks, Hands
<1>5. CASE \E u \in Url : Expire(n, u)
  <2>1. \A k \in Node, v \in Url : claims[k][v] # "none" => claims'[k][v] # "none"
    BY <1>5 DEF Expire, TypeInv, TypeOK
  <2>2. UNCHANGED <<pool, job>>
    BY <1>5 DEF Expire
  <2>3. QED
    BY <1>1, <2>1, <2>2 DEF Keeps, Tracks, Hands
<1>6. CASE \E e \in Evictor : EvictMove(n, e)
  <2>1. PICK e \in Evictor : EvictMove(n, e)
    BY <1>6
  <2>2. /\ \A k \in Node, v \in Url :
              claims[k][v] # "none" => claims'[k][v] # "none" \/ v \in pool'[k]
        /\ \A k \in Node : pool[k] \subseteq pool'[k]
    BY <2>1 DEF EvictMove, TypeInv, TypeOK
  <2>3. UNCHANGED job
    BY <2>1 DEF EvictMove
  <2>4. QED
    BY <1>1, <2>2, <2>3 DEF Keeps, Tracks, Hands
<1>7. QED
  BY <1>2, <1>3, <1>4, <1>5, <1>6 DEF Evict

(* A message takes over the URLs a goroutine lets go of, unless it is lost. *)
LEMMA KeepsSend ==
  ASSUME TypeInv, drops' = drops, NEW type, NEW urls,
         [type |-> type, urls |-> urls] \in Message, SendMsg(type, urls),
         UNCHANGED <<pool, claims, visited>>,
         \A k \in Node : Hands(k) \subseteq Hands(k)' \cup urls
  PROVE  Keeps
<1>1. drops \in Nat
  BY CrawlerAssumption DEF TypeInv, TypeOK
<1>2. /\ \A k \in Node : Pending(k) \cup urls = Pending(k)'
      /\ announced' \subseteq announced \cup urls
  BY <1>1, Sent
<1>3. QED
  BY <1>2 DEF Keeps, Tracks

(* claimUrls and its two messages, run by either goroutine. *)
LEMMA KeepsClaim ==
  ASSUME TypeInv, drops' = drops, NEW n \in Node, NEW g \in Claimant,
         ClaimOne(n, g) \/ SendClaims(n, g) \/ SendRefused(n, g)
  PROVE  Keeps
<1> USE DEF urlVars
<1>0. /\ "main" \in Claimant /\ (g = "main" \/ g = "page")
      /\ job[n][g] \in Job
  BY DEF Claimant, TypeInv, TypeOK
<1>1. UNCHANGED <<pool, claims, visited>>
  BY DEF ClaimOne, SendClaims, SendRefused
<1>2. \A k \in Node : (k # n \/ g = "page") => Hands(k)' = Hands(k)
  <2>1. CASE g = "page"
    BY <2>1, PageLeavesMain DEF Hands
  <2>2. CASE g = "main"
    <3>1. PICK j \in Job : job' = [job EXCEPT ![n][g] = j]
      BY ClaimJob
    <3>2. \A k \in Node : k # n => job'[k]["main"] = job[k]["main"]
      BY <1>0, <3>1 DEF TypeInv, TypeOK
    <3>3. QED
      BY <2>2, <3>2 DEF Hands
  <2>3. QED
    BY <1>0, <2>1, <2>2
<1>3. CASE ClaimOne(n, g)
  <2>1. PICK j \in Job :
          /\ job' = [job EXCEPT ![n][g] = j]
          /\ j.todo \cup j.won \cup j.lost = job[n][g].todo \cup job[n][g].won \cup job[n][g].lost
    BY <1>3, ClaimJob
  <2>2. job'[n][g] = j
    BY <2>1 DEF TypeInv, TypeOK
  <2>3. \A k \in Node : Hands(k)' = Hands(k)
    BY <1>0, <1>2, <2>1, <2>2 DEF Hands
  <2>4. UNCHANGED <<inbox, announced>>
    BY <1>3 DEF ClaimOne, raftVars
  <2>5. QED
    BY <1>1, <2>3, <2>4 DEF Keeps, Tracks, Pending
<1>4. CASE SendClaims(n, g)
  <2>1. PICK j \in Job : /\ job' = [job EXCEPT ![n][g] = j]
                         /\ j.todo = job[n][g].todo /\ j.won = {} /\ j.lost = job[n][g].lost
    BY <1>4, ClaimJob
  <2>2. job'[n][g] = j
    BY <2>1 DEF TypeInv, TypeOK
  <2>3. \A k \in Node : Hands(k) \subseteq Hands(k)' \cup job[n][g].won
    BY <1>0, <1>2, <2>1, <2>2 DEF Hands
  <2>4. /\ SendMsg("claim", job[n][g].won)
        /\ [type |-> "claim", urls |-> job[n][g].won] \in Message
    BY <1>0, <1>4 DEF SendClaims, Message, Job
  <2>5. QED
    BY <1>1, <2>3, <2>4, KeepsSend
<1>5. CASE SendRefused(n, g)
  <2>1. PICK j \in Job : /\ job' = [job EXCEPT ![n][g] = j]
                         /\ j.todo = job[n][g].todo /\ j.won = job[n][g].won /\ j.lost = {}
    BY <1>5, ClaimJob
  <2>2. job'[n][g] = j
    BY <2>1 DEF TypeInv, TypeOK
  <2>3. \A k \in Node : Hands(k) \subseteq Hands(k)' \cup job[n][g].lost
    BY <1>0, <1>2, <2>1, <2>2 DEF Hands
  <2>4. /\ SendMsg("report", job[n][g].lost)
        /\ [type |-> "report", urls |-> job[n][g].lost] \in Message
    BY <1>0, <1>5 DEF SendRefused, Message, Job
  <2>5. QED
    BY <1>1, <2>3, <2>4, KeepsSend
<1>6. QED
  BY <1>3, <1>4, <1>5

(* The rest of the page's way: none of it is the main loop's business. *)
LEMMA KeepsPage ==
  ASSUME TypeInv, drops' = drops, NEW n \in Node,
         \/ \E u \in Url : FetchOk(n, u) \/ FetchFail(n, u)
         \/ ReportVisit(n) \/ SortLinks(n) \/ ReportRest(n)
  PROVE  Keeps
<1> USE DEF urlVars, raftVars
<1>0. job[n]["page"] \in Job
  BY DEF Claimant, TypeInv, TypeOK
<1>1. \A k \in Node : Hands(k)' = Hands(k)
  BY PageLeavesMain DEF Hands
<1>2. UNCHANGED <<pool, claims, visited>>
  BY DEF FetchOk, FetchFail, TakeResponse, ReportVisit, SortLinks, ReportRest
<1>3. CASE UNCHANGED <<inbox, announced>>
  BY <1>1, <1>2, <1>3 DEF Keeps, Tracks, Pending
<1>4. CASE ReportVisit(n)
  <2>1. /\ SendMsg("visit", {job[n]["page"].url})
        /\ [type |-> "visit", urls |-> {job[n]["page"].url}] \in Message
    BY <1>0, <1>4 DEF ReportVisit, Message, Job
  <2>2. QED
    BY <1>1, <1>2, <2>1, KeepsSend
<1>5. CASE ReportRest(n)
  <2>1. /\ SendMsg("report", job[n]["page"].rest)
        /\ [type |-> "report", urls |-> job[n]["page"].rest] \in Message
    BY <1>0, <1>5 DEF ReportRest, Message, Job
  <2>2. QED
    BY <1>1, <1>2, <2>1, KeepsSend
<1>6. QED
  BY <1>3, <1>4, <1>5 DEF FetchOk, FetchFail, TakeResponse, SortLinks

(* The number of lost messages never decreases. *)
LEMMA DropsGrow ==
  ASSUME TypeInv, NEW n \in Node, Step(n), drops' = 0
  PROVE  drops = 0
<1>1. drops \in Nat
  BY CrawlerAssumption DEF TypeInv, TypeOK
<1>2. drops' = drops \/ drops' = drops + 1
  BY DEF Step, OnNewValue, NextFromQueue, NextFromPool, NextEvict, NextEvictDone, Dispatch,
         FetchOk, FetchFail, TakeResponse, ReportVisit, SortLinks, ClaimOne, SendClaims,
         SendRefused,
         ReportRest, Expire, Evict, EvictScan, EvictMove, SendMsg, raftVars
<1>3. QED
  BY <1>1, <1>2

(* Without lost messages, every step keeps what is tracked. *)
LEMMA KeepsStep ==
  ASSUME TypeInv, HandsInv, NEW n \in Node, Step(n), drops' = drops
  PROVE  Keeps
BY KeepsOnNewValue, KeepsMain, KeepsClaim, KeepsPage DEF Step

(* A crawler forgets no URL it was told about: onNewValue, claimUrls,      *)
(* NextUrl and the evictors only pass it on until it is visited.  The main *)
(* loop overwrites its local variables on every turn, which loses nothing  *)
(* because of HandsInv.                                                    *)
THEOREM NothingIsForgotten == Spec => []NothingForgotten
<1> DEFINE Inv == HandsInv /\ (drops = 0 => \A n \in Node : announced \subseteq Tracks(n))
<1>1. Init => Inv
  <2> SUFFICES ASSUME Init PROVE Inv
    OBVIOUS
  <2>1. announced = {}
    BY DEF Init
  <2>2. \A n \in Node : job[n]["main"] = NoJob
    BY DEF Init, Claimant
  <2>3. QED
    BY <2>1, <2>2 DEF HandsInv, Hands, NoJob
<1>2. TypeInv /\ Inv /\ [Next]_vars => Inv'
  <2> SUFFICES ASSUME TypeInv, Inv, [Next]_vars
               PROVE  Inv'
    OBVIOUS
  <2>1. CASE UNCHANGED vars
    BY <2>1 DEF vars, HandsInv, Hands, Tracks, Pending
  <2>2. ASSUME NEW n \in Node, Step(n) PROVE Inv'
    <3>1. HandsInv'
      BY <2>2, HandsStep
    <3>2. ASSUME drops' = 0, NEW k \in Node PROVE announced' \subseteq Tracks(k)'
      BY <2>2, <3>2, DropsGrow, KeepsStep DEF Keeps
    <3>3. QED
      BY <3>1, <3>2
  <2>3. QED
    BY <2>1, <2>2, NextIsStep
<1>3. TypeInv /\ Inv => NothingForgotten
  BY DEF NothingForgotten, Remembers, Tracks, Hands
<1>4. QED
  BY <1>1, <1>2, <1>3, TypeInvHolds, PTL DEF Spec
=============================================================================
