--------------------------- MODULE CrawlerProperties ---------------------------
(***************************************************************************)
(* What the cluster of crawlers of module Crawler promises.                *)
(***************************************************************************)
EXTENDS Crawler

Label == {"next", "evict", "offer", "idle", "visit", "sort", "put", "report", "rest"}

(* Type invariant. *)
TypeOK ==
  /\ queue \in [Node -> Q!Queue]
  /\ pool \in [Node -> SUBSET Url]
  /\ claims \in [Node -> [Url -> {"none", "fresh", "expired"}]]
  /\ visited \in [Node -> SUBSET (Url \cup {NoUrl})]
  /\ pc \in [Node -> [Claimant -> Label]]
  /\ job \in [Node -> [Claimant -> Job]]
  /\ evicting \in [Node -> [Evictor -> Url \cup {NoUrl}]]
  /\ inflight \in [Node -> [Url -> Nat]]
  /\ turns \in [Node -> Nat]
  /\ inbox \in [Node -> Seq(Message)]
  /\ announced \in SUBSET Url
  /\ answered \in SUBSET Url /\ found \in SUBSET Url
  /\ failures \in 0 .. MaxFailures /\ early \in 0 .. MaxEarly /\ drops \in 0 .. MaxDrops

(***************************************************************************)
(* Safety                                                                  *)
(***************************************************************************)

VisitsIn(messages) ==
  UNION {messages[i].urls : i \in {j \in DOMAIN messages : messages[j].type = "visit"}}
PendingVisits(n) == VisitsIn(inbox[n])

(* Visited is a replica: whatever a crawler queued, evicted or claimed     *)
(* itself, once all have processed the messages sent so far they agree on  *)
(* what is Visited (crawler.go:95-148).                                    *)
VisitedIsReplica ==
  \A m, n \in Node : visited[m] \cup PendingVisits(m) = visited[n] \cup PendingVisits(n)

(* A URL is Visited only when some worker got a response for it; a failed  *)
(* request leaves the empty URL behind, and no trace of the URL it was for *)
(* (crawler.go:311-315, 362).                                              *)
VisitedWasAnswered == \A n \in Node : visited[n] \subseteq answered \cup {NoUrl}

(* Claimed holds only URLs to be crawled: a late claim does not revive a   *)
(* URL whose visit was processed before it (crawler.go:116-136).           *)
ClaimsUnvisited ==
  \A n \in Node, u \in Url : claims[n][u] # "none" => u \notin visited[n]

(* Where crawler n may have a URL it was told about. *)
Remembers(n, u) ==
  \/ u \in visited[n] \cup pool[n] \cup Pending(n)
  \/ claims[n][u] # "none"
  \/ u \in job[n]["main"].todo \cup job[n]["main"].won \cup job[n]["main"].lost

(* A crawler keeps track of every URL it was ever told about: until it is  *)
(* visited, the URL is claimed, in the pool, in the hands of the main      *)
(* loop, or in a message to come.  Evictions and claims only pass it on    *)
(* (crawler.go:116-148, 327-345, 390-400, 435-452).                        *)
NothingForgotten == drops = 0 => \A n \in Node, u \in announced : Remembers(n, u)

(* No link of a fetched page is dropped between sorting, claiming and      *)
(* reporting: it is in some message, or still in the hands of a goroutine  *)
(* processing a page (crawler.go:358-374, 404-423).                        *)
NoLinkLost ==
  drops = 0 =>
    \A u \in found :
      \/ u \in announced
      \/ \E n \in Node : u \in visited[n] \cup Pending(n) \/ InHand(n, u)

(* A URL is announced before it is visited, although it enters the local   *)
(* queue before its claim is sent: the response can only be processed by   *)
(* the goroutine that sends that claim (crawler.go:347-356, 435-452).      *)
AnnouncedBeforeVisited ==
  drops = 0 =>
    \A n \in Node : visited[n] \cup PendingVisits(n) \subseteq announced \cup {Seed, NoUrl}

(* The main loop has settled on a URL and not handed it over yet. *)
Settled(n) == pc[n]["main"] \in {"put", "report", "offer"}

Requested ==
  {job[n]["main"].url : n \in {m \in Node : Settled(m)}}
    \cup {u \in Url : \E n \in Node : inflight[n][u] > 0}

(* However the crawlers share the work, they crawl the web (WebCrawl): the *)
(* queue whose size may be one too high, the pools, the evictors and the   *)
(* claims yield no URL but the entry point and links of fetched pages,     *)
(* never the zero value of an empty slot, and what they announce and visit *)
(* follows from answers (crawler.go:257-345, 390-452).                     *)
Abstract == INSTANCE WebCrawl WITH
  requested <- Requested,
  visited <- [n \in Node |-> visited[n] \ {NoUrl}]

ImplementsWebCrawl == Abstract!Spec

(***************************************************************************)
(* Liveness                                                                *)
(***************************************************************************)

(* The Go scheduler runs every goroutine that can run, PutItem returns,    *)
(* committed messages are delivered, requests end and timers fire.  A      *)
(* claim on a URL nobody works on any more reaches its timeout.            *)
Fairness ==
  \A n \in Node :
    /\ WF_vars(MainStep(n))
    /\ WF_vars(PageStep(n))
    /\ WF_vars(OnNewValue(n))
    /\ WF_vars(\E u \in Url : FetchOk(n, u))
    /\ WF_vars(Evict(n, "tick"))
    /\ \A u \in Url : WF_vars(Expire(n, u) /\ UNCHANGED early)

FairSpec == Spec /\ Fairness

(* "register the claim on a url, which will be either visited or evicted   *)
(* to the global queue." (crawler.go:125-126)                              *)
ClaimResolved ==
  \A n \in Node, u \in Url :
    claims[n][u] # "none" ~> u \in visited[n] \cup pool[n]

(* Every URL announced to the cluster is visited in the end, at every      *)
(* crawler: URLs that a queue loses or whose request fails come back       *)
(* through the eviction of their claim (crawler.go:327-345, 377-400).      *)
EveryLinkVisited ==
  \A u \in Url : u \in announced ~> \A n \in Node : u \in visited[n]

(* A finite web is crawled in finitely many requests: every crawler ends   *)
(* up with nothing to do, although visited URLs stay in the pools and are  *)
(* crawled again from there (crawler.go:258-284, 327-345).                 *)
Finished(n) ==
  pc[n] = [main |-> "next", page |-> "idle"] /\ queue[n].size = 0 /\ pool[n] = {}

CrawlEnds == <>[](\A n \in Node : Finished(n))

(***************************************************************************)
(* A statement of the source the code does not keep.                       *)
(***************************************************************************)

(* "Claims a URL so others don't crawl it too." (crawler.go:434)           *)
ClaimExcludesOthers ==
  \A m, n \in Node, u \in Url : inflight[m][u] > 0 /\ inflight[n][u] > 0 => m = n
=============================================================================
