------------------------------ MODULE WebCrawl ------------------------------
(***************************************************************************)
(* What a crawl of a web is, whoever does it and however the work is       *)
(* shared out: it starts at the entry point, requests no URL but that one  *)
(* and the links of pages it fetched, announces such links only, and       *)
(* counts a page as visited once a request for it was answered.            *)
(***************************************************************************)
CONSTANTS
  Node,     \* the crawlers
  Url,      \* the URLs of the web
  Seed,     \* the entry point
  Links     \* Links[u]: the links of page u

VARIABLES
  requested,   \* URLs some crawler has settled on, or is requesting
  answered,    \* URLs a request for which was answered
  found,       \* links of the pages fetched
  announced,   \* links the crawlers told one another about
  visited      \* visited[n]: pages crawler n believes to be visited

vars == <<requested, answered, found, announced, visited>>

Init ==
  /\ requested = {} /\ answered = {} /\ found = {} /\ announced = {}
  /\ visited = [n \in Node |-> {}]

Request(u) ==
  /\ u \in found \cup {Seed}
  /\ requested' = requested \cup {u}
  /\ UNCHANGED <<answered, found, announced, visited>>

(* A request ends.  Others for the same URL may be under way. *)
End(u) ==
  /\ u \in requested
  /\ requested' \in {requested, requested \ {u}}
  /\ UNCHANGED <<announced, visited>>

(* The answer may come without the page. *)
Answer(u) ==
  /\ End(u)
  /\ answered' = answered \cup {u}
  /\ found' \in {found, found \cup Links[u]}

Fail(u) == End(u) /\ UNCHANGED <<answered, found>>

Announce ==
  /\ announced \subseteq announced' /\ announced' \subseteq found
  /\ UNCHANGED <<requested, answered, found, visited>>

Visit(n, u) ==
  /\ u \in answered
  /\ visited' = [visited EXCEPT ![n] = @ \cup {u}]
  /\ UNCHANGED <<requested, answered, found, announced>>

Next ==
  \/ \E u \in Url : Request(u) \/ Answer(u) \/ Fail(u)
  \/ Announce
  \/ \E n \in Node, u \in Url : Visit(n, u)

Spec == Init /\ [][Next]_vars
=============================================================================
