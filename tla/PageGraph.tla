------------------------------ MODULE PageGraph ------------------------------
(***************************************************************************)
(* From a page to the graph of references in the database: requests        *)
(* through the HTTP capability, extractLinks, and the goroutine that       *)
(* writes the references of each page to Neo4j (crawler/crawler.go:358,    *)
(* 481; crawler/neo4j.go).  Writes of different pages run concurrently, of *)
(* one crawler or of several: they share nothing but the database.         *)
(***************************************************************************)
EXTENDS Naturals, FiniteSets, SequencesExt

CONSTANTS
  OddHost,     \* see ExtractLinks
  Seed,        \* text of the entry point
  Site,        \* texts of the URLs that have a page
  Contents,    \* what a page may contain: sets of texts of anchors
  Visit,       \* visits of pages, by any crawler
  MaxFaults    \* bound: calls that do not go well

INSTANCE ExtractLinks
Http == INSTANCE HttpCapability WITH NoBody <- {}, NoOrigin <- NoText

(* The HTTP client fetches absolute URLs only, and a page has finitely     *)
(* many anchors.                                                           *)
ASSUME PageGraphAssumption ==
  /\ Seed \in Site /\ {} \in Contents /\ MaxFaults \in Nat
  /\ \A url \in Site : WellFormed(url) /\ url.scheme \in {"http://", "https://"}
  /\ \A hrefs \in Contents : IsFiniteSet(hrefs) /\ \A text \in hrefs : WellFormed(text)

VARIABLES
  html,     \* html[u]: anchors of page u; does not change
  found,    \* links found so far
  visit,    \* visit[v]: stage of visit v, its fromLink and toLinks
  graph,    \* the database: nodes and edges
  saved,    \* history: visits whose statements the database executed
  faults

vars == <<html, found, visit, graph, saved, faults>>

NoVisit == [stage |-> "free", src |-> NilLink, dsts |-> {}]

Init ==
  /\ html \in [Site -> Contents]
  /\ found = {}
  /\ visit = [v \in Visit |-> NoVisit]
  /\ graph = [nodes |-> {}, edges |-> {}]
  /\ saved = {}
  /\ faults = 0

Fault == faults < MaxFaults /\ faults' = faults + 1

(* A URL gets an answer if it has a page, and nothing otherwise; both may  *)
(* go wrong.                                                               *)
HttpGet(url) ==
  {Http!Get(url, "answered", 200, html[u]) : u \in Site \cap {url}}
    \cup {Http!Get(url, "answered", 404, {}), Http!Get(url, "unread", 0, {}),
          Http!Get(url, "refused", 0, {})}

(* processResponse: whatever came back, its links are extracted and        *)
(* handed to a goroutine that writes them.                                 *)
Crawl(v, url) ==
  /\ visit[v].stage = "free"
  /\ \E got \in HttpGet(url) :
       LET from == Link(got.response.origin)
           to == ExtractLinks(from, got.response.body)
       IN  /\ visit' = [visit EXCEPT ![v] =
                [stage |-> "write", src |-> from, dsts |-> to]]
           /\ found' = found \cup to
  /\ UNCHANGED <<html, graph, saved, faults>>

-----------------------------------------------------------------------------
(* The statements of a request.  MERGE adds what is not there yet; an edge *)
(* only if MATCH finds both nodes.                                         *)
VisitQuery(page) == [query |-> "visit", src |-> page, dst |-> page]
ReferenceQuery(src, dst) == [query |-> "reference", src |-> src, dst |-> dst]

Execute(stmt, g) ==
  IF stmt.query = "visit" THEN [g EXCEPT !.nodes = @ \cup {stmt.dst}]
  ELSE IF {stmt.src, stmt.dst} \subseteq g.nodes
       THEN [g EXCEPT !.edges = @ \cup {<<stmt.src, stmt.dst>>}]
  ELSE g

(* The database after each of the statements, in their order.              *)
Run(stmts, g) ==
  LET after[k \in 0 .. Len(stmts)] == IF k = 0 THEN g ELSE Execute(stmts[k], after[k - 1])
  IN  after

MutRegisterRefs(src, dsts) ==
  [k \in 1 .. 2 * Len(dsts) + 1 |->
     IF k = 1 THEN VisitQuery(src)
     ELSE IF k % 2 = 1 THEN VisitQuery(dsts[k \div 2])
     ELSE ReferenceQuery(src, dsts[k \div 2])]

(* The page's node, then for each link its node and the reference.         *)
RegisterRefs(src, dsts) ==
  [k \in 1 .. 2 * Len(dsts) + 1 |->
     IF k = 1 THEN VisitQuery(src)
     ELSE IF k % 2 = 0 THEN VisitQuery(dsts[k \div 2])
     ELSE ReferenceQuery(src, dsts[k \div 2])]

(* A failed request leaves no source. *)
RefuseNil(v) ==
  /\ visit[v].stage = "write"
  /\ visit[v].src = NilLink
  /\ visit' = [visit EXCEPT ![v].stage = "error"]
  /\ UNCHANGED <<html, found, graph, saved, faults>>

(* All statements are one request, and one transaction of the database.    *)
(* runQueries looks at the error only: a request the database turned down  *)
(* with some status, and an answer without body, are successes.            *)
Finish(v, outcome, status) ==
  visit' = [visit EXCEPT ![v].stage =
              IF Http!Post(outcome, status, {}).err THEN "error" ELSE "written"]

Write(v) ==
  /\ visit[v].stage = "write"
  /\ visit[v].src # NilLink
  /\ \E order \in SetToSeqs(visit[v].dsts \ {NilLink}) :
       LET stmts == RegisterRefs(visit[v].src, order)
       IN  graph' = Run(stmts, graph)[Len(stmts)]
  /\ saved' = saved \cup {v}
  /\ \/ Finish(v, "answered", 200) /\ UNCHANGED faults
     \/ Fault /\ (Finish(v, "unread", 0) \/ Finish(v, "refused", 0))
  /\ UNCHANGED <<html, found>>

WriteFails(v) ==
  /\ visit[v].stage = "write"
  /\ visit[v].src # NilLink
  /\ Fault
  /\ Finish(v, "answered", 401) \/ Finish(v, "refused", 0)
  /\ UNCHANGED <<html, found, graph, saved>>

-----------------------------------------------------------------------------
Next ==
  \E v \in Visit :
    \/ \E url \in {Seed} \cup {String(link) : link \in found} : Crawl(v, url)
    \/ RefuseNil(v) \/ Write(v) \/ WriteFails(v)

Spec == Init /\ [][Next]_vars

-----------------------------------------------------------------------------
LinkOK(link) ==
  /\ link.proto \in Protos \cup {""}
  /\ link.domain = NoDomain \/ (link.domain[1] # "" /\ link.domain[2] # "")
  /\ link.path # "/"

(* Type invariant.  A link has a full domain or none, and never the path   *)
(* "/" that would give a site's root a second name.                        *)
TypeOK ==
  /\ \A link \in found \cup graph.nodes : LinkOK(link)
  /\ \A v \in Visit :
       /\ visit[v].stage \in {"free", "write", "written", "error"}
       /\ LinkOK(visit[v].src) /\ visit[v].dsts \subseteq found
  /\ saved \subseteq Visit
  /\ faults \in 0 .. MaxFaults

(* All references of a page are in the graph once the database has         *)
(* executed its statements, in whatever order they name the links: a MATCH *)
(* that finds nothing would go unnoticed (neo4j.go:140-161, 196-205).      *)
SavedIsComplete ==
  \A v \in saved :
    /\ visit[v].src \in graph.nodes
    /\ \A dst \in visit[v].dsts : <<visit[v].src, dst>> \in graph.edges

(* An edge is a link of a page that was fetched, to some other page: what  *)
(* failed visits leave behind, and the page itself, are not referenced     *)
(* (http.go:50-87, neo4j.go:141, 149, crawler.go:311-315).                 *)
EdgesAreLinks ==
  \A edge \in graph.edges :
    LET src == edge[1]
        dst == edge[2]
    IN  /\ src # dst
        /\ \E url \in Site : Link(url) = src /\ dst \in ExtractLinks(src, html[url])

(* A URL is read again when its page arrives: it yields the link it was    *)
(* written from, so the page is the node that referred to it               *)
(* (http.go:31-33, 53-54, crawler.go:406).                                 *)
OneNodePerPage ==
  \A v \in Visit : visit[v].src \in found \cup {Link(Seed), NilLink}

(* Links without a domain stay on the site of their page: a page with a    *)
(* domain has no links without one (http.go:69-73).                        *)
RelativeLinksStay ==
  \A v \in Visit :
    visit[v].src.domain # NoDomain => \A dst \in visit[v].dsts : dst.domain # NoDomain
=============================================================================
