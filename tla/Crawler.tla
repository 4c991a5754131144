------------------------------- MODULE Crawler -------------------------------
(***************************************************************************)
(* The life of a URL in a cluster of crawlers (crawler/crawler.go).        *)
(*                                                                         *)
(* Each crawler runs five goroutines over the four collections of its Urls *)
(* record: the main loop that picks the next URL, the request goroutine    *)
(* with its workers, the goroutine that processes pages, the one that      *)
(* evicts expired claims, and the Raft node's, which calls onNewValue for  *)
(* every committed message.  Crawlers share nothing but the Raft log.      *)
(*                                                                         *)
(* A goroutine is interrupted where it blocks (channels, PutItem, timers)  *)
(* and between the accesses to a collection whose order matters: an action *)
(* below is the code between two such points.  Sets stand for the          *)
(* collections of set.go and timedset.go, the ring of UniqueQueueOps for   *)
(* LocalQueue.                                                             *)
(***************************************************************************)
EXTENDS Integers, Sequences, FiniteSets, SequencesExt

CONSTANTS
  Node,          \* the crawlers
  Coordinator,   \* the one started with the entry point
  Url,           \* the URLs of the web
  Seed,          \* the entry point, ww.Args()[URL]
  Links,         \* Links[u]: the links extractLinks finds in page u
  NoUrl,         \* the empty string: origin of a response that failed
  Capacity,      \* QUEUE_CAP
  PoolSize,      \* MAX_POOL_SIZE
  MaxFailures,   \* bound: HTTP requests and response bodies that fail
  MaxEarly,      \* bound: claims that expire although their URL is underway
  MaxDrops,      \* bound: messages that PutItem fails to commit
  MaxLag         \* bound: committed messages a crawler has not processed

ASSUME CrawlerAssumption ==
  /\ Coordinator \in Node
  /\ Seed \in Url
  /\ NoUrl \notin Url
  /\ Links \in [Url -> SUBSET Url]
  /\ Capacity \in Nat \ {0}
  /\ PoolSize \in Nat \ {0}
  /\ MaxFailures \in Nat /\ MaxEarly \in Nat /\ MaxDrops \in Nat
  /\ MaxLag \in Nat \ {0}

VARIABLES
  queue,      \* queue[n]: LocalQueue of crawler n
  pool,       \* pool[n]: GlobalPool
  claims,     \* claims[n][u]: is u in Claimed, and is that claim over CLAIM_TIMEOUT old
  visited,    \* visited[n]: Visited
  pc,         \* pc[n][g]: where goroutine g of crawler n is
  job,        \* job[n][g]: its local variables
  evicting,   \* evicting[n][e]: URL whose expired claim evictor e has read
  inflight,   \* inflight[n][u]: workers of n that hold a request for u
  turns,      \* turns[n]: turns of sendRequests no worker of n has
  inbox,      \* inbox[n]: committed Raft messages n has not processed, in log order
  announced,  \* history: URLs some committed claim or report carried
  answered,   \* history: URLs some worker got an HTTP response for
  found,      \* history: links of the pages whose body came with it
  failures, early, drops   \* counters of the bounded faults

urlVars == <<queue, pool, claims, visited>>
workers == <<inflight, turns>>
raftVars == <<inbox, announced, drops>>
history == <<answered, found, failures, early>>
vars == <<queue, pool, claims, visited, pc, job, evicting, inflight, turns,
          inbox, announced, answered, found, failures, early, drops>>

Q == INSTANCE UniqueQueueOps WITH Item <- Url, Zero <- NoUrl

(* The goroutines that run claimUrls, and those that run evictClaims. *)
Claimant == {"main", "page"}
Evictor == {"main", "tick"}

(* A Visit message carries one URL, the origin of one response. *)
Message ==
  [type : {"visit"}, urls : {{u} : u \in Url \cup {NoUrl}}]
    \cup [type : {"claim", "report"}, urls : SUBSET Url]

NoJob == [url |-> NoUrl, todo |-> {}, won |-> {}, lost |-> {}, rest |-> {}]

Job ==
  [url  : Url \cup {NoUrl},  \* main: the URL to request; page: the page's origin
   todo : SUBSET Url,        \* claimUrls: URLs not yet put in the queue
   won  : SUBSET Url,        \* claimUrls: its "claimed"
   lost : SUBSET Url,        \* claimUrls: its "unclaimed"
   rest : SUBSET Url]        \* links of the page; after sorting: "unclaimed"

MainJob(u, todo) == [NoJob EXCEPT !.url = u, !.todo = todo]
PageJob(u, links) == [NoJob EXCEPT !.url = u, !.rest = links]

Init ==
  /\ queue = [n \in Node |-> IF n = Coordinator THEN Q!Put(Q!NewUniqueQueue, Seed)
                             ELSE Q!NewUniqueQueue]
  /\ pool = [n \in Node |-> {}]
  /\ claims = [n \in Node |-> [u \in Url |-> "none"]]
  /\ visited = [n \in Node |-> {}]
  /\ pc = [n \in Node |-> [g \in Claimant |-> IF g = "main" THEN "next" ELSE "idle"]]
  /\ job = [n \in Node |-> [g \in Claimant |-> NoJob]]
  /\ evicting = [n \in Node |-> [e \in Evictor |-> NoUrl]]
  /\ inflight = [n \in Node |-> [u \in Url |-> 0]]
  /\ turns = [n \in Node |-> PoolSize]
  /\ inbox = [n \in Node |-> <<>>]
  /\ announced = {}
  /\ answered = {} /\ found = {}
  /\ failures = 0 /\ early = 0 /\ drops = 0

-----------------------------------------------------------------------------
(* Messages.  Raft.PutItem is external: it appends to the one log that     *)
(* every crawler, the sender included, reads in order, or fails and the    *)
(* message is gone.  inbox[n] is the part of the log n has yet to read.    *)

SendMsg(type, urls) ==
  \/ /\ urls = {}
     /\ UNCHANGED raftVars
  \/ /\ urls # {}
     /\ \A n \in Node : Len(inbox[n]) < MaxLag
     /\ inbox' = [n \in Node |-> Append(inbox[n], [type |-> type, urls |-> urls])]
     /\ announced' = IF type = "visit" THEN announced ELSE announced \cup urls
     /\ UNCHANGED drops
  \/ /\ urls # {}
     /\ drops < MaxDrops
     /\ drops' = drops + 1
     /\ UNCHANGED <<inbox, announced>>

MutOnUrlVisit(n, urls) ==
  /\ visited' = [visited EXCEPT ![n] = @ \cup urls]
  /\ queue' = [queue EXCEPT ![n] = Q!Remove(@, CHOOSE u \in urls : TRUE)]
  /\ UNCHANGED <<claims, pool>>

OnUrlVisit(n, urls) ==
  /\ visited' = [visited EXCEPT ![n] = @ \cup urls]
  /\ claims' = [claims EXCEPT ![n] = [u \in Url |-> IF u \in urls THEN "none" ELSE @[u]]]
  /\ queue' = [queue EXCEPT ![n] = Q!Remove(@, CHOOSE u \in urls : TRUE)]
  /\ UNCHANGED pool

MutOnUrlClaim(n, urls) ==
  /\ claims' = [claims EXCEPT ![n] = [u \in Url |-> IF u \in urls THEN "fresh" ELSE @[u]]]
  /\ UNCHANGED <<queue, pool, visited>>

OnUrlClaim(n, urls) ==
  /\ claims' = [claims EXCEPT ![n] =
                  [u \in Url |-> IF u \in urls \ visited[n] THEN "fresh" ELSE @[u]]]
  /\ UNCHANGED <<queue, pool, visited>>

MutOnUrlReport(n, urls) ==
  /\ visited' = [visited EXCEPT ![n] = @ \cup urls]
  /\ pool' = [pool EXCEPT ![n] = @ \cup (urls \cap visited[n])]
  /\ UNCHANGED <<queue, claims>>

OnUrlReport(n, urls) ==
  /\ pool' = [pool EXCEPT ![n] = @ \cup (urls \ visited[n])]
  /\ UNCHANGED <<queue, claims, visited>>

OnNewValue(n) ==
  /\ inbox[n] # <<>>
  /\ inbox' = [inbox EXCEPT ![n] = Tail(@)]
  /\ LET msg == Head(inbox[n])
     IN  \/ msg.type = "visit" /\ OnUrlVisit(n, msg.urls)
         \/ msg.type = "claim" /\ OnUrlClaim(n, msg.urls)
         \/ msg.type = "report" /\ OnUrlReport(n, msg.urls)
  /\ UNCHANGED <<pc, job, evicting, workers, announced, drops, history>>

-----------------------------------------------------------------------------
(* NextUrl and the loop of CrawlForever.                                   *)

(* 1. Take the oldest URL of the local queue.  Size() > 0 guarantees that  *)
(* Get succeeds, unless a Remove comes between: then NextUrl is retried.   *)
NextFromQueue(n) ==
  /\ pc[n]["main"] = "next"
  /\ queue[n].size > 0
  /\ queue' = [queue EXCEPT ![n] = Q!Get(@)]
  /\ job' = [job EXCEPT ![n]["main"] = MainJob(Q!GetItem(queue[n]), {})]
  /\ pc' = [pc EXCEPT ![n]["main"] = "offer"]
  /\ UNCHANGED <<pool, claims, visited, evicting, workers, raftVars, history>>

MutNextFromPool(n) ==
  /\ pc[n]["main"] = "next"
  /\ queue[n].size = 0
  /\ \E u \in pool[n] :
       job' = [job EXCEPT ![n]["main"] = MainJob(u, {u})]
  /\ pc' = [pc EXCEPT ![n]["main"] = "put"]
  /\ UNCHANGED <<urlVars, evicting, workers, raftVars, history>>

(* 2. Pop any URL of the global pool, to claim it (ClaimOne, SendClaims)   *)
(* and then return it.                                                     *)
NextFromPool(n) ==
  /\ pc[n]["main"] = "next"
  /\ queue[n].size = 0
  /\ \E u \in pool[n] :
       /\ pool' = [pool EXCEPT ![n] = @ \ {u}]
       /\ job' = [job EXCEPT ![n]["main"] = MainJob(u, {u})]
  /\ pc' = [pc EXCEPT ![n]["main"] = "put"]
  /\ UNCHANGED <<queue, claims, visited, evicting, workers, raftVars, history>>

(* 3. Run an eviction round and report that there is no URL. *)
NextEvict(n) ==
  /\ pc[n]["main"] = "next"
  /\ queue[n].size = 0 /\ pool[n] = {}
  /\ \E u \in Url : claims[n][u] # "none"
  /\ pc' = [pc EXCEPT ![n]["main"] = "evict"]
  /\ UNCHANGED <<urlVars, job, evicting, workers, raftVars, history>>

NextEvictDone(n) ==
  /\ pc[n]["main"] = "evict"
  /\ evicting[n]["main"] = NoUrl
  /\ pc' = [pc EXCEPT ![n]["main"] = "next"]
  /\ UNCHANGED <<urlVars, job, evicting, workers, raftVars, history>>

(* No URL anywhere: the loop sleeps URL_ITER_PERIOD and tries again. *)
NextNothing(n) ==
  /\ pc[n]["main"] = "next"
  /\ queue[n].size = 0 /\ pool[n] = {}
  /\ \A u \in Url : claims[n][u] = "none"
  /\ UNCHANGED vars

MutDispatch(n) ==
  /\ pc[n]["main"] = "offer"
  /\ turns' = [turns EXCEPT ![n] = @ - 1]
  /\ inflight' = [inflight EXCEPT ![n][job[n]["main"].url] = @ + 1]
  /\ pc' = [pc EXCEPT ![n]["main"] = "next"]
  /\ job' = [job EXCEPT ![n]["main"] = NoJob]
  /\ UNCHANGED <<urlVars, evicting, raftVars, history>>

(* The main loop hands the URL over the unbuffered Requests channel to     *)
(* sendRequests, which starts a worker once it has a turn.                 *)
Dispatch(n) ==
  /\ pc[n]["main"] = "offer"
  /\ turns[n] > 0
  /\ turns' = [turns EXCEPT ![n] = @ - 1]
  /\ inflight' = [inflight EXCEPT ![n][job[n]["main"].url] = @ + 1]
  /\ pc' = [pc EXCEPT ![n]["main"] = "next"]
  /\ job' = [job EXCEPT ![n]["main"] = NoJob]
  /\ UNCHANGED <<urlVars, evicting, raftVars, history>>

-----------------------------------------------------------------------------
(* Workers.  The HTTP request ends, well or not, and the worker hands the  *)
(* response over the unbuffered Responses channel to processResponses,     *)
(* which takes it only when it is done with the page before.  Only then    *)
(* does the worker give its turn back.                                     *)

MutTakeResponse(n, u, page) ==
  /\ inflight[n][u] > 0
  /\ inflight' = [inflight EXCEPT ![n][u] = @ - 1]
  /\ turns' = [turns EXCEPT ![n] = @ + 1]
  /\ job' = [job EXCEPT ![n]["page"] = page]
  /\ pc' = [pc EXCEPT ![n]["page"] = "visit"]
  /\ UNCHANGED <<urlVars, evicting, raftVars, early>>

TakeResponse(n, u, page) ==
  /\ inflight[n][u] > 0
  /\ pc[n]["page"] = "idle"
  /\ inflight' = [inflight EXCEPT ![n][u] = @ - 1]
  /\ turns' = [turns EXCEPT ![n] = @ + 1]
  /\ job' = [job EXCEPT ![n]["page"] = page]
  /\ pc' = [pc EXCEPT ![n]["page"] = "visit"]
  /\ UNCHANGED <<urlVars, evicting, raftVars, early>>

(* The body is missing when the HTTP server fails to read it: buildResponse *)
(* ignores the error and sends a response without body or status.          *)
FetchOk(n, u) ==
  /\ answered' = answered \cup {u}
  /\ \/ /\ TakeResponse(n, u, PageJob(u, Links[u]))
        /\ found' = found \cup Links[u]
        /\ UNCHANGED failures
     \/ /\ failures < MaxFailures
        /\ failures' = failures + 1
        /\ TakeResponse(n, u, PageJob(u, {}))
        /\ UNCHANGED found

MutFetchFail(n, u) ==
  /\ failures < MaxFailures
  /\ failures' = failures + 1
  /\ TakeResponse(n, u, PageJob(u, {}))
  /\ UNCHANGED <<answered, found>>

(* The error is logged and the zero Response is sent all the same, so      *)
(* nothing records which URL failed.                                       *)
FetchFail(n, u) ==
  /\ failures < MaxFailures
  /\ failures' = failures + 1
  /\ TakeResponse(n, u, NoJob)
  /\ UNCHANGED <<answered, found>>

-----------------------------------------------------------------------------
(* processResponse.                                                        *)

ReportVisit(n) ==
  /\ pc[n]["page"] = "visit"
  /\ SendMsg("visit", {job[n]["page"].url})
  /\ pc' = [pc EXCEPT ![n]["page"] = "sort"]
  /\ UNCHANGED <<urlVars, job, evicting, workers, history>>

(* sortAndSend claims the unseen links at every third position, as long as *)
(* there are free slots.  extractLinks lists the links in random order.    *)
ClaimablePositions(order, seen) ==
  {i \in DOMAIN order : i % 3 = 1 /\ order[i] \notin seen}

ClaimableLinks(order, seen, free) ==
  LET positions == ClaimablePositions(order, seen)
  IN  {order[i] : i \in {j \in positions : Cardinality({k \in positions : k < j}) < free}}

MutSortLinks(n) ==
  /\ pc[n]["page"] = "sort"
  /\ \E order \in SetToSeqs(job[n]["page"].rest) :
       LET mine == ClaimableLinks(order, visited[n], Capacity - queue[n].size)
       IN  job' = [job EXCEPT ![n]["page"].todo = mine, ![n]["page"].rest = {}]
  /\ pc' = [pc EXCEPT ![n]["page"] = "put"]
  /\ UNCHANGED <<urlVars, evicting, workers, raftVars, history>>

SortLinks(n) ==
  /\ pc[n]["page"] = "sort"
  /\ \E order \in SetToSeqs(job[n]["page"].rest) :
       LET mine == ClaimableLinks(order, visited[n], Capacity - queue[n].size)
       IN  job' = [job EXCEPT ![n]["page"].todo = mine,
                              ![n]["page"].rest = (@ \ visited[n]) \ mine]
  /\ pc' = [pc EXCEPT ![n]["page"] = "put"]
  /\ UNCHANGED <<urlVars, evicting, workers, raftVars, history>>

(* claimUrls: put the URLs in the local queue one by one, claim the ones   *)
(* it accepted and report the others.                                      *)
ClaimOne(n, g) ==
  /\ pc[n][g] = "put"
  /\ \E u \in job[n][g].todo :
       /\ queue' = [queue EXCEPT ![n] = Q!Put(@, u)]
       /\ job' = [job EXCEPT
            ![n][g].todo = @ \ {u},
            ![n][g].won  = IF Q!PutError(queue[n], u) = "nil" THEN @ \cup {u} ELSE @,
            ![n][g].lost = IF Q!PutError(queue[n], u) = "nil" THEN @ ELSE @ \cup {u}]
  /\ UNCHANGED <<pool, claims, visited, pc, evicting, workers, raftVars, history>>

SendClaims(n, g) ==
  /\ pc[n][g] = "put"
  /\ job[n][g].todo = {}
  /\ SendMsg("claim", job[n][g].won)
  /\ job' = [job EXCEPT ![n][g].won = {}]
  /\ pc' = [pc EXCEPT ![n][g] = "report"]
  /\ UNCHANGED <<urlVars, evicting, workers, history>>

SendRefused(n, g) ==
  /\ pc[n][g] = "report"
  /\ SendMsg("report", job[n][g].lost)
  /\ job' = [job EXCEPT ![n][g].lost = {}]
  /\ pc' = [pc EXCEPT ![n][g] = IF g = "main" THEN "offer" ELSE "rest"]
  /\ UNCHANGED <<urlVars, evicting, workers, history>>

(* The links sortAndSend left for others. *)
ReportRest(n) ==
  /\ pc[n]["page"] = "rest"
  /\ SendMsg("report", job[n]["page"].rest)
  /\ job' = [job EXCEPT ![n]["page"] = NoJob]
  /\ pc' = [pc EXCEPT ![n]["page"] = "idle"]
  /\ UNCHANGED <<urlVars, evicting, workers, history>>

-----------------------------------------------------------------------------
(* Claims expire, and evictClaims moves expired ones to the global pool.   *)

(* What the messages in an inbox are about. *)
UrlsIn(messages) == UNION {messages[i].urls : i \in DOMAIN messages}
Pending(n) == UrlsIn(inbox[n])

InHand(n, u) ==
  \E g \in Claimant : u \in job[n][g].todo \cup job[n][g].won \cup job[n][g].lost \cup job[n][g].rest

(* Somebody is about to crawl u, or its visit is still to be processed.    *)
Underway(u) ==
  \E n \in Node :
    \/ Q!Holds(queue[n], u)
    \/ inflight[n][u] > 0
    \/ InHand(n, u)
    \/ \E g \in Claimant : job[n][g].url = u
    \/ u \in Pending(n)

(* CLAIM_TIMEOUT passes.  It is meant to be longer than any crawl, so a    *)
(* claim that expires too early is a fault.                                *)
Expire(n, u) ==
  /\ claims[n][u] = "fresh"
  /\ claims' = [claims EXCEPT ![n][u] = "expired"]
  /\ \/ ~Underway(u) /\ UNCHANGED early
     \/ Underway(u) /\ early < MaxEarly /\ early' = early + 1
  /\ UNCHANGED <<queue, pool, visited, pc, job, evicting, workers, raftVars, answered, found, failures>>

MutEvictScan(n, e, u) ==
  /\ e = "main" => pc[n]["main"] = "evict"
  /\ evicting[n][e] = NoUrl
  /\ claims[n][u] = "fresh"
  /\ evicting' = [evicting EXCEPT ![n][e] = u]
  /\ UNCHANGED <<urlVars, pc, job, workers, raftVars, history>>

(* Range shows the evictor a claim date that is too old... *)
EvictScan(n, e, u) ==
  /\ e = "main" => pc[n]["main"] = "evict"
  /\ evicting[n][e] = NoUrl
  /\ claims[n][u] = "expired"
  /\ evicting' = [evicting EXCEPT ![n][e] = u]
  /\ UNCHANGED <<urlVars, pc, job, workers, raftVars, history>>

MutEvictMove(n, e) ==
  /\ evicting[n][e] # NoUrl
  /\ claims' = [claims EXCEPT ![n][evicting[n][e]] = "none"]
  /\ evicting' = [evicting EXCEPT ![n][e] = NoUrl]
  /\ UNCHANGED <<queue, pool, visited, pc, job, workers, raftVars, history>>

(* ... and the evictor moves it, whatever became of that claim since.      *)
EvictMove(n, e) ==
  /\ evicting[n][e] # NoUrl
  /\ claims' = [claims EXCEPT ![n][evicting[n][e]] = "none"]
  /\ pool' = [pool EXCEPT ![n] = @ \cup {evicting[n][e]}]
  /\ evicting' = [evicting EXCEPT ![n][e] = NoUrl]
  /\ UNCHANGED <<queue, visited, pc, job, workers, raftVars, history>>

-----------------------------------------------------------------------------
Evict(n, e) == EvictMove(n, e) \/ \E u \in Url : EvictScan(n, e, u)

MainStep(n) ==
  \/ NextFromQueue(n) \/ NextFromPool(n)
  \/ NextEvict(n) \/ Evict(n, "main") \/ NextEvictDone(n)
  \/ ClaimOne(n, "main") \/ SendClaims(n, "main") \/ SendRefused(n, "main")
  \/ Dispatch(n)

PageStep(n) ==
  \/ ReportVisit(n) \/ SortLinks(n)
  \/ ClaimOne(n, "page") \/ SendClaims(n, "page") \/ SendRefused(n, "page")
  \/ ReportRest(n)

Next ==
  \E n \in Node :
    \/ OnNewValue(n)
    \/ MainStep(n) \/ NextNothing(n)
    \/ PageStep(n)
    \/ \E u \in Url : FetchOk(n, u) \/ FetchFail(n, u) \/ Expire(n, u)
    \/ Evict(n, "tick")

Spec == Init /\ [][Next]_vars
=============================================================================
