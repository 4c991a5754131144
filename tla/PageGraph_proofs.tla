--------------------------- MODULE PageGraph_proofs ---------------------------
(***************************************************************************)
(* Proofs about the graph of references, for every site, every number of   *)
(* visits and every order of the statements of a request.                  *)
(***************************************************************************)
EXTENDS PageGraph, FiniteSetTheorems, TLAPS

-----------------------------------------------------------------------------
(* The statements of a request, one after the other.                       *)

(* A set of numbers with 0, and the successor of each of its members, has  *)
(* all of them.                                                            *)
LEMMA SetInduction ==
  ASSUME NEW S \in SUBSET Nat, 0 \in S, \A k \in S : k + 1 \in S
  PROVE  S = Nat
<1> DEFINE rest == Nat \ S
<1>1. SUFFICES ASSUME rest # {} PROVE FALSE
  OBVIOUS
<1>2. PICK m \in rest : \A n \in rest : ~(<<n, m>> \in OpToRel(<, Nat))
  BY <1>1, WFMin, NatLessThanWellFounded
<1>3. \A n \in rest : ~(n < m)
  BY <1>2 DEF OpToRel
<1>4. m - 1 \in Nat /\ m - 1 < m
  OBVIOUS
<1>5. m - 1 \in S
  BY <1>3, <1>4
<1>6. QED
  BY <1>4, <1>5

(* The recursion of Run has a solution: a request has a first state and    *)
(* one after each of its statements.                                       *)
LEMMA RunSteps ==
  ASSUME NEW stmts, NEW g, Len(stmts) \in Nat
  PROVE  /\ Run(stmts, g)[0] = g
         /\ \A k \in 1 .. Len(stmts) : Run(stmts, g)[k] = Execute(stmts[k], Run(stmts, g)[k - 1])
<1> DEFINE Solves(f, n) ==
             f = [k \in 0 .. n |-> IF k = 0 THEN g ELSE Execute(stmts[k], f[k - 1])]
           solved == {n \in Nat : \E f : Solves(f, n)}
<1>1. 0 \in solved
  <2> DEFINE f == [k \in 0 .. 0 |-> g]
  <2>1. f = [k \in 0 .. 0 |-> IF k = 0 THEN g ELSE Execute(stmts[k], f[k - 1])]
    OBVIOUS
  <2> HIDE DEF f
  <2>2. QED
    BY <2>1
<1>2. ASSUME NEW n \in solved
      PROVE  n + 1 \in solved
  <2>1. PICK f : Solves(f, n)
    OBVIOUS
  <2> DEFINE e == [k \in 0 .. n + 1 |-> IF k = n + 1 THEN Execute(stmts[n + 1], f[n]) ELSE f[k]]
             step == [k \in 0 .. n + 1 |-> IF k = 0 THEN g ELSE Execute(stmts[k], e[k - 1])]
  <2>2. ASSUME NEW k \in 0 .. n + 1
        PROVE  e[k] = step[k]
    <3>1. CASE k = 0
      BY <2>1, <3>1
    <3>2. CASE k \in 1 .. n
      <4>1. k \in 0 .. n /\ k # 0 /\ k # n + 1 /\ k - 1 \in 0 .. n /\ k - 1 # n + 1 /\ k - 1 \in 0 .. n + 1
        BY <3>2
      <4>2. e[k] = f[k] /\ e[k - 1] = f[k - 1]
        BY <4>1
      <4>3. f[k] = Execute(stmts[k], f[k - 1])
        BY <2>1, <4>1
      <4> HIDE DEF e
      <4>4. QED
        BY <4>1, <4>2, <4>3
    <3>3. CASE k = n + 1
      <4>1. k # 0 /\ k - 1 = n /\ n \in 0 .. n + 1 /\ n # n + 1 /\ k \in 0 .. n + 1
        BY <3>3
      <4>2. e[k] = Execute(stmts[n + 1], f[n]) /\ e[n] = f[n]
        BY <3>3, <4>1
      <4> HIDE DEF e
      <4>3. QED
        BY <3>3, <4>1, <4>2
    <3>4. QED
      BY <3>1, <3>2, <3>3
  <2>3. e = step
    BY <2>2
  <2> HIDE DEF e
  <2>4. Solves(e, n + 1)
    BY <2>3
  <2>5. n + 1 \in Nat
    OBVIOUS
  <2> HIDE DEF Solves
  <2>6. QED
    BY <2>4, <2>5
<1>3. solved = Nat
  <2> HIDE DEF solved
  <2>1. solved \in SUBSET Nat
    BY DEF solved
  <2>2. QED
    BY <1>1, <1>2, <2>1, SetInduction
<1>4. \E f : Solves(f, Len(stmts))
  BY <1>3
<1>5. Run(stmts, g) = CHOOSE f : Solves(f, Len(stmts))
  BY DEF Run
<1>6. Solves(Run(stmts, g), Len(stmts))
  BY <1>4, <1>5
<1> HIDE DEF solved
<1>7. 0 \in 0 .. Len(stmts) /\ \A k \in 1 .. Len(stmts) : k \in 0 .. Len(stmts) /\ k # 0
  OBVIOUS
<1>8. QED
  BY <1>6, <1>7

(* An arrangement of a finite set names each of its members. *)
LEMMA OrderNamesAll ==
  ASSUME NEW S, IsFiniteSet(S), NEW order \in SetToSeqs(S)
  PROVE  /\ Len(order) \in Nat
         /\ S = {order[j] : j \in 1 .. Len(order)}
<1> DEFINE n == Cardinality(S)
           D == 1 .. n
<1>1. n \in Nat
  BY FS_CardinalityType
<1> HIDE DEF n
<1>2. order \in [D -> S] /\ \A i, j \in D : i # j => order[i] # order[j]
  BY DEF SetToSeqs, n
<1>3. order \in Injection(D, S)
  BY <1>2 DEF Injection, IsInjective
<1>4. Cardinality(D) = n
  <2>1. IsFiniteSet(D) /\ Cardinality(D) = IF 1 > n THEN 0 ELSE n - 1 + 1
    BY <1>1, FS_Interval
  <2>2. QED
    BY <1>1, <2>1
<1>5. order \in Surjection(D, S)
  BY <1>3, <1>4, FS_Injection DEF n
<1>6. S = {order[j] : j \in D}
  BY <1>2, <1>5 DEF Surjection
<1>7. Len(order) = n
  BY <1>1, <1>2
<1>8. QED
  BY <1>1, <1>6, <1>7

(* A request of RegisterRefs adds the page's node, and each of its links   *)
(* with the reference to it, whatever their order.                         *)
LEMMA RequestAddsAll ==
  ASSUME NEW src, NEW dsts, IsFiniteSet(dsts), NEW order \in SetToSeqs(dsts),
         NEW nodes, NEW edges, NEW g, g = [nodes |-> nodes, edges |-> edges],
         NEW stmts, stmts = RegisterRefs(src, order)
  PROVE  Run(stmts, g)[Len(stmts)] =
           [nodes |-> nodes \cup {src} \cup dsts,
            edges |-> edges \cup {<<src, dst>> : dst \in dsts}]
<1> DEFINE n == Len(order)
           r == Run(stmts, g)
           With(i) == [nodes |-> nodes \cup {src} \cup {order[j] : j \in 1 .. i},
                       edges |-> edges \cup {<<src, order[j]>> : j \in 1 .. i}]
           upTo == {i \in Nat : i <= n => r[2 * i + 1] = With(i)}
<1>1. n \in Nat /\ dsts = {order[j] : j \in 1 .. n}
  BY OrderNamesAll
<1> HIDE DEF n
<1>2. Len(stmts) = 2 * n + 1 /\ Len(stmts) \in Nat
  <2>1. \E m \in Nat : stmts \in [1 .. m -> {stmts[k] : k \in 1 .. m}] /\ m = 2 * n + 1
    BY <1>1 DEF RegisterRefs, n
  <2>2. QED
    BY <2>1, <1>1
<1>3. /\ stmts[1] = VisitQuery(src)
      /\ \A i \in 0 .. n - 1 : /\ stmts[2 * i + 2] = VisitQuery(order[i + 1])
                               /\ stmts[2 * i + 3] = ReferenceQuery(src, order[i + 1])
  <2>1. 1 \in 1 .. 2 * n + 1
    BY <1>1
  <2>2. ASSUME NEW i \in 0 .. n - 1
        PROVE  /\ 2 * i + 2 \in 1 .. 2 * n + 1 /\ 2 * i + 3 \in 1 .. 2 * n + 1
               /\ 2 * i + 2 # 1 /\ 2 * i + 3 # 1
               /\ (2 * i + 2) % 2 = 0 /\ (2 * i + 2) \div 2 = i + 1
               /\ (2 * i + 3) % 2 # 0 /\ (2 * i + 3) \div 2 = i + 1
    BY <1>1
  <2>3. QED
    BY <2>1, <2>2 DEF RegisterRefs, n
<1>4. r[0] = g /\ \A k \in 1 .. Len(stmts) : r[k] = Execute(stmts[k], r[k - 1])
  BY <1>2, RunSteps
<1> HIDE DEF r
<1>5. 0 \in upTo
  <2>1. r[1] = Execute(VisitQuery(src), g)
    BY <1>1, <1>2, <1>3, <1>4
  <2>2. Execute(VisitQuery(src), g) = [nodes |-> nodes \cup {src}, edges |-> edges]
    BY DEF Execute, VisitQuery
  <2>3. With(0) = [nodes |-> nodes \cup {src}, edges |-> edges]
    OBVIOUS
  <2> HIDE DEF With
  <2>4. r[2 * 0 + 1] = With(0)
    BY <2>1, <2>2, <2>3
  <2>5. QED
    BY <2>4
<1>6. ASSUME NEW i \in upTo
      PROVE  i + 1 \in upTo
  <2>1. SUFFICES ASSUME i + 1 <= n
                 PROVE  r[2 * i + 3] = With(i + 1)
    <3>1. 2 * (i + 1) + 1 = 2 * i + 3 /\ i + 1 \in Nat
      OBVIOUS
    <3> HIDE DEF With
    <3>2. QED
      BY <3>1
  <2> DEFINE dst == order[i + 1]
             g1 == With(i)
             g2 == [nodes |-> g1.nodes \cup {dst}, edges |-> g1.edges]
             g3 == [nodes |-> g2.nodes, edges |-> g2.edges \cup {<<src, dst>>}]
  <2>2. i \in 0 .. n - 1 /\ i <= n /\ i \in Nat
    BY <1>1, <2>1
  <2>3. r[2 * i + 1] = g1
    <3> HIDE DEF With
    <3>1. QED
      BY <2>2
  <2>4. /\ 2 * i + 2 \in 1 .. Len(stmts) /\ 2 * i + 3 \in 1 .. Len(stmts)
        /\ 2 * i + 2 - 1 = 2 * i + 1 /\ 2 * i + 3 - 1 = 2 * i + 2
    BY <1>1, <1>2, <2>2
  <2>5. r[2 * i + 2] = Execute(VisitQuery(dst), g1)
    <3> HIDE DEF g1
    <3>1. QED
      BY <1>3, <1>4, <2>2, <2>3, <2>4
  <2>6. Execute(VisitQuery(dst), g1) = g2
    BY DEF Execute, VisitQuery
  <2>7. r[2 * i + 3] = Execute(ReferenceQuery(src, dst), g2)
    <3> HIDE DEF g1, g2
    <3>1. QED
      BY <1>3, <1>4, <2>2, <2>4, <2>5, <2>6
  <2>8. src \in g2.nodes /\ dst \in g2.nodes
    OBVIOUS
  <2>9. Execute(ReferenceQuery(src, dst), g2) = g3
    BY <2>8 DEF Execute, ReferenceQuery
  <2>10. g3 = With(i + 1)
    <3>1. 1 .. i + 1 = (1 .. i) \cup {i + 1}
      BY <2>2
    <3>2. {order[j] : j \in 1 .. i + 1} = {order[j] : j \in 1 .. i} \cup {dst}
      BY <3>1
    <3>3. {<<src, order[j]>> : j \in 1 .. i + 1} = {<<src, order[j]>> : j \in 1 .. i} \cup {<<src, dst>>}
      BY <3>1
    <3>4. QED
      BY <3>2, <3>3
  <2>11. QED
    BY <2>7, <2>9, <2>10
<1>7. upTo = Nat
  <2>1. upTo \in SUBSET Nat
    OBVIOUS
  <2> HIDE DEF upTo
  <2>2. QED
    BY <1>5, <1>6, <2>1, SetInduction
<1>8. r[2 * n + 1] = With(n)
  <2> HIDE DEF With
  <2>1. QED
    BY <1>1, <1>7
<1>9. {<<src, order[j]>> : j \in 1 .. n} = {<<src, dst>> : dst \in dsts}
  BY <1>1
<1>10. QED
  BY <1>1, <1>2, <1>8, <1>9 DEF r

-----------------------------------------------------------------------------
(* URLs and links.                                                         *)

(* What the expression can read: a domain is a host it allows and a port,  *)
(* a scheme is one it knows.                                               *)
IsDomain(domain) ==
  domain = NoDomain
    \/ \E host, port : domain = <<host, port>> /\ host # "" /\ port # "" /\ host \notin OddHost

IsLink(link) ==
  \E proto, domain, path :
    /\ proto \in Protos \cup {""}
    /\ link = [proto |-> proto, domain |-> domain, path |-> path]
    /\ IsDomain(domain)
    /\ path # "/"

(* Reading a text makes a link. *)
LEMMA ReadsLink ==
  ASSUME NEW text, WellFormed(text)
  PROVE  IsLink(Link(text))
<1>1. IsDomain(Domain(text))
  BY DEF Domain, WellFormed, IsDomain
<1>2. (IF Readable(text) THEN text.scheme ELSE "") \in Protos \cup {""}
  BY DEF Readable
<1>3. Path(text) # "/"
  BY DEF Path
<1>4. QED
  BY <1>1, <1>2, <1>3 DEF IsLink, Link

(* The text without any part is read as a link. *)
LEMMA NilIsLink == IsLink(NilLink) /\ NilLink.proto = "" /\ NilLink.domain = NoDomain
<1>1. WellFormed(NoText)
  BY DEF WellFormed, NoText
<1>2. NilLink.proto = "" /\ NilLink.domain = NoDomain
  BY DEF NilLink, Link, NoText, Readable, Domain
<1>3. QED
  BY <1>1, <1>2, ReadsLink DEF NilLink

(* A link is read from the text it is written as. *)
LEMMA ReadBack ==
  ASSUME NEW link, IsLink(link)
  PROVE  Link(String(link)) = link
<1>1. PICK proto, domain, path :
        /\ proto \in Protos \cup {""}
        /\ link = [proto |-> proto, domain |-> domain, path |-> path]
        /\ IsDomain(domain)
        /\ path # "/"
  BY DEF IsLink
<1> DEFINE text == String(link)
<1>2. text = [scheme |-> proto, host |-> domain[1], port |-> domain[2], path |-> path, rest |-> ""]
  <2>1. link.proto = proto /\ link.domain = domain /\ link.path = path
    BY <1>1
  <2>2. QED
    BY <2>1 DEF String
<1> HIDE DEF text
<1>3. text.scheme = proto /\ text.host = domain[1] /\ text.port = domain[2] /\ text.path = path
  BY <1>2
<1>4. Readable(text)
  BY <1>1, <1>3 DEF Readable
<1>5. Domain(text) = domain /\ (text.host = "" \/ Domain(text) # NoDomain)
  <2>1. CASE domain = NoDomain
    BY <1>3, <1>4, <2>1 DEF Domain, NoDomain
  <2>2. CASE domain # NoDomain
    <3>1. PICK host, port : domain = <<host, port>> /\ host # "" /\ port # "" /\ host \notin OddHost
      BY <1>1, <2>2 DEF IsDomain
    <3>2. text.host = host /\ text.port = port
      BY <1>3, <3>1
    <3>3. Domain(text) = <<host, port>>
      BY <1>4, <3>1, <3>2 DEF Domain
    <3>4. QED
      BY <2>2, <3>1, <3>3
  <2>3. QED
    BY <2>1, <2>2
<1>6. Path(text) = path
  BY <1>1, <1>3, <1>4, <1>5 DEF Path
<1>7. QED
  BY <1>1, <1>3, <1>4, <1>5, <1>6 DEF Link, text

(* A relative path belongs to the site of its page. *)
LEMMA ResolvedIsLink ==
  ASSUME NEW link, IsLink(link), NEW from, IsLink(from)
  PROVE  /\ IsLink(Resolve(link, from))
         /\ from.proto # "" => Resolve(link, from) # NilLink
         /\ from.domain # NoDomain => Resolve(link, from).domain # NoDomain
<1>1. PICK proto, domain, path :
        /\ proto \in Protos \cup {""}
        /\ link = [proto |-> proto, domain |-> domain, path |-> path]
        /\ IsDomain(domain)
        /\ path # "/"
  BY DEF IsLink
<1>2. PICK from_proto, from_domain, from_path :
        /\ from_proto \in Protos \cup {""}
        /\ from = [proto |-> from_proto, domain |-> from_domain, path |-> from_path]
        /\ IsDomain(from_domain)
  BY DEF IsLink
<1>3. link.domain = domain /\ from.proto = from_proto /\ from.domain = from_domain
  BY <1>1, <1>2
<1>4. CASE domain = NoDomain
  <2>1. Resolve(link, from) = [proto |-> from_proto, domain |-> from_domain, path |-> path]
    BY <1>1, <1>3, <1>4 DEF Resolve
  <2>2. IsLink(Resolve(link, from))
    BY <1>1, <1>2, <2>1 DEF IsLink
  <2> DEFINE resolved == [proto |-> from_proto, domain |-> from_domain, path |-> path]
  <2>3. resolved.proto = from_proto /\ resolved.domain = from_domain
    OBVIOUS
  <2> HIDE DEF resolved
  <2>4. Resolve(link, from) = resolved
    BY <2>1 DEF resolved
  <2>5. QED
    BY <1>3, <2>2, <2>3, <2>4, NilIsLink
<1>5. CASE domain # NoDomain
  BY <1>3, <1>5, NilIsLink DEF Resolve
<1>6. QED
  BY <1>4, <1>5

(* The links of a page are links, finitely many, none of them the page. *)
LEMMA LinksOfPage ==
  ASSUME NEW from, IsLink(from), NEW hrefs, IsFiniteSet(hrefs),
         \A text \in hrefs : WellFormed(text)
  PROVE  /\ IsFiniteSet(ExtractLinks(from, hrefs))
         /\ \A link \in ExtractLinks(from, hrefs) :
              /\ IsLink(link)
              /\ link # from
              /\ from.proto # "" => link # NilLink
              /\ from.domain # NoDomain => link.domain # NoDomain
<1> DEFINE links == ExtractLinks(from, hrefs)
           all == [text \in hrefs |-> Resolve(Link(text), from)]
           resolved == {all[text] : text \in hrefs}
<1>1. links \subseteq resolved
  BY DEF ExtractLinks
<1>2. IsFiniteSet(resolved)
  <2>1. all \in Surjection(hrefs, resolved)
    BY DEF Surjection
  <2>2. QED
    BY <2>1, FS_Surjection
<1>3. IsFiniteSet(links)
  BY <1>1, <1>2, FS_Subset
<1>4. ASSUME NEW link \in links
      PROVE  /\ IsLink(link)
             /\ link # from
             /\ from.proto # "" => link # NilLink
             /\ from.domain # NoDomain => link.domain # NoDomain
  <2>1. String(link) # String(from)
    BY DEF ExtractLinks
  <2>2. PICK text \in hrefs : link = Resolve(Link(text), from)
    BY <1>1
  <2>3. IsLink(Link(text))
    BY ReadsLink
  <2> HIDE DEF links
  <2>4. QED
    BY <2>1, <2>2, <2>3, ResolvedIsLink
<1>5. QED
  BY <1>3, <1>4

-----------------------------------------------------------------------------
(* The invariant: what a visit holds was read from one page, and what the  *)
(* graph holds comes from visits that hold it.                             *)

Known == found \cup {Link(Seed)}

(* The links a visit writes are those of the page it fetched. *)
FromPage(src, dsts) ==
  \/ dsts = {}
  \/ \E url \in Site : Link(url) = src /\ dsts = ExtractLinks(src, html[url])

VisitInv ==
  /\ visit \in [Visit -> [stage : {"free", "write", "written", "error"},
                          src : Known \cup {NilLink}, dsts : SUBSET found]]
  /\ \A v \in Visit : FromPage(visit[v].src, visit[v].dsts)

GraphInv ==
  /\ html \in [Site -> Contents]
  /\ \A link \in found : IsLink(link)
  /\ VisitInv
  /\ graph \in [nodes : SUBSET Known, edges : SUBSET (Known \X Known)]
  /\ EdgesAreLinks
  /\ saved \in SUBSET Visit
  /\ \A v \in saved : visit[v].stage # "free"
  /\ SavedIsComplete
  /\ faults \in 0 .. MaxFaults

(* The links of a page of the site: what LinksOfPage says of them, from a  *)
(* page that has a scheme.                                                 *)
LEMMA PageLinks ==
  ASSUME GraphInv, NEW src, NEW dsts, FromPage(src, dsts)
  PROVE  /\ IsFiniteSet(dsts)
         /\ \A dst \in dsts : /\ IsLink(dst) /\ dst # src /\ dst # NilLink
                              /\ src.domain # NoDomain => dst.domain # NoDomain
<1>1. CASE dsts = {}
  BY <1>1, FS_EmptySet
<1>2. ASSUME NEW url \in Site, Link(url) = src, dsts = ExtractLinks(src, html[url])
      PROVE  /\ IsFiniteSet(dsts)
             /\ \A dst \in dsts : /\ IsLink(dst) /\ dst # src /\ dst # NilLink
                                  /\ src.domain # NoDomain => dst.domain # NoDomain
  <2>1. html[url] \in Contents
    BY DEF GraphInv
  <2>2. IsFiniteSet(html[url]) /\ \A text \in html[url] : WellFormed(text)
    BY <2>1, PageGraphAssumption
  <2>3. WellFormed(url) /\ url.scheme \in {"http://", "https://"}
    BY PageGraphAssumption
  <2>4. IsLink(src)
    BY <1>2, <2>3, ReadsLink
  <2>5. src.proto # ""
    <3>1. src.proto = IF Readable(url) THEN url.scheme ELSE ""
      BY <1>2 DEF Link
    <3>2. Readable(url)
      BY <2>3 DEF Readable, Protos
    <3>3. QED
      BY <2>3, <3>1, <3>2
  <2>6. QED
    BY <1>2, <2>2, <2>4, <2>5, LinksOfPage
<1>3. QED
  BY <1>1, <1>2 DEF FromPage

LEMMA GraphInit == Init => GraphInv
<1> SUFFICES ASSUME Init PROVE GraphInv
  OBVIOUS
<1> USE DEF Init
<1>1. VisitInv
  BY DEF VisitInv, NoVisit, FromPage
<1>2. graph \in [nodes : SUBSET Known, edges : SUBSET (Known \X Known)]
  OBVIOUS
<1>3. EdgesAreLinks /\ SavedIsComplete
  BY DEF EdgesAreLinks, SavedIsComplete
<1>4. faults \in 0 .. MaxFaults
  BY PageGraphAssumption
<1>5. QED
  BY <1>1, <1>2, <1>3, <1>4 DEF GraphInv

(* What is found stays found. *)
LEMMA CrawlStep ==
  ASSUME GraphInv, NEW v \in Visit,
         NEW url \in {Seed} \cup {String(link) : link \in found}, Crawl(v, url)
  PROVE  GraphInv'
<1>1. PICK got \in HttpGet(url) :
        LET from == Link(got.response.origin)
            to == ExtractLinks(from, got.response.body)
        IN  /\ visit' = [visit EXCEPT ![v] = [stage |-> "write", src |-> from, dsts |-> to]]
            /\ found' = found \cup to
  BY DEF Crawl
<1> DEFINE from == Link(got.response.origin)
           to == ExtractLinks(from, got.response.body)
<1>2. /\ visit[v].stage = "free"
      /\ UNCHANGED <<html, graph, saved, faults>>
  BY DEF Crawl
<1>3. Link(url) \in Known
  <2>1. CASE url = Seed
    BY <2>1 DEF Known
  <2>2. ASSUME NEW link \in found, url = String(link)
        PROVE  Link(url) \in Known
    <3>1. IsLink(link)
      BY DEF GraphInv
    <3>2. QED
      BY <2>2, <3>1, ReadBack DEF Known
  <2>3. QED
    BY <2>1, <2>2
<1>4. /\ from = NilLink \/ from = Link(url)
      /\ \/ got.response.body = {}
         \/ url \in Site /\ from = Link(url) /\ got.response.body = html[url]
  <2>1. CASE got = Http!Get(url, "answered", 404, {})
    <3>1. got.response.origin = url /\ got.response.body = {}
      BY <2>1 DEF Http!Get, Http!Serve, Http!BuildResponse, Http!NoResponse
    <3>2. QED
      BY <3>1
  <2>2. CASE got = Http!Get(url, "unread", 0, {})
    <3>1. got.response.origin = url /\ got.response.body = {}
      BY <2>2 DEF Http!Get, Http!Serve, Http!BuildResponse, Http!NoResponse
    <3>2. QED
      BY <3>1
  <2>3. CASE got = Http!Get(url, "refused", 0, {})
    <3>1. got.response.origin = NoText /\ got.response.body = {}
      BY <2>3 DEF Http!Get, Http!Serve, Http!NoResponse
    <3>2. QED
      BY <3>1 DEF NilLink
  <2>4. CASE url \in Site /\ got = Http!Get(url, "answered", 200, html[url])
    <3>1. got.response.origin = url /\ got.response.body = html[url]
      BY <2>4 DEF Http!Get, Http!Serve, Http!BuildResponse, Http!NoResponse
    <3>2. QED
      BY <2>4, <3>1
  <2>5. QED
    BY <2>1, <2>2, <2>3, <2>4 DEF HttpGet
<1>5. FromPage(from, to)
  BY <1>4 DEF FromPage, ExtractLinks
<1>6. \A link \in to : IsLink(link)
  BY <1>5, PageLinks
<1>7. from \in Known \cup {NilLink}
  BY <1>3, <1>4
<1>8. /\ visit' = [visit EXCEPT ![v] = [stage |-> "write", src |-> from, dsts |-> to]]
      /\ found' = found \cup to
  BY <1>1
<1> HIDE DEF from, to
<1>9. Known \subseteq Known' /\ found \subseteq found'
  BY <1>8 DEF Known
<1>10. VisitInv'
  <2>1. [stage |-> "write", src |-> from, dsts |-> to]
          \in [stage : {"free", "write", "written", "error"},
               src : Known' \cup {NilLink}, dsts : SUBSET found']
    BY <1>7, <1>8, <1>9
  <2>2. visit' \in [Visit -> [stage : {"free", "write", "written", "error"},
                              src : Known' \cup {NilLink}, dsts : SUBSET found']]
    BY <1>8, <1>9, <2>1 DEF GraphInv, VisitInv
  <2>3. ASSUME NEW w \in Visit
        PROVE  FromPage(visit'[w].src, visit'[w].dsts)
    BY <1>5, <1>8 DEF GraphInv, VisitInv
  <2>4. \A w \in Visit : FromPage(visit[w].src, visit[w].dsts)'
    BY <1>2, <2>3 DEF FromPage
  <2>5. QED
    BY <2>2, <2>4 DEF VisitInv
<1>11. graph' \in [nodes : SUBSET Known', edges : SUBSET (Known' \X Known')]
  BY <1>2, <1>9 DEF GraphInv
<1>12. v \notin saved
  BY <1>2 DEF GraphInv
<1>13. \A w \in saved : visit'[w] = visit[w]
  BY <1>8, <1>12 DEF GraphInv, VisitInv
<1>14. EdgesAreLinks'
  BY <1>2 DEF GraphInv, EdgesAreLinks
<1>15. SavedIsComplete'
  BY <1>2, <1>13 DEF GraphInv, SavedIsComplete
<1>16. QED
  BY <1>2, <1>6, <1>8, <1>10, <1>11, <1>13, <1>14, <1>15 DEF GraphInv

(* A visit that ends keeps its links. *)
LEMMA StageStep ==
  ASSUME VisitInv, NEW v \in Visit, NEW stage \in {"written", "error"},
         visit' = [visit EXCEPT ![v].stage = stage], UNCHANGED <<html, found>>
  PROVE  /\ VisitInv'
         /\ \A w \in Visit : visit'[w].src = visit[w].src /\ visit'[w].dsts = visit[w].dsts
         /\ visit'[v].stage # "free"
         /\ \A w \in Visit : visit[w].stage # "free" => visit'[w].stage # "free"
<1> DEFINE Records == [stage : {"free", "write", "written", "error"},
                       src : Known \cup {NilLink}, dsts : SUBSET found]
<1>1. visit \in [Visit -> Records]
  BY DEF VisitInv
<1>2. [visit[v] EXCEPT !.stage = stage] \in Records
  BY <1>1
<1>3. /\ [visit[v] EXCEPT !.stage = stage].src = visit[v].src
      /\ [visit[v] EXCEPT !.stage = stage].dsts = visit[v].dsts
      /\ [visit[v] EXCEPT !.stage = stage].stage = stage
  BY <1>1
<1>4. visit' \in [Visit -> Records]
  <2> HIDE DEF Records
  <2>1. QED
    BY <1>1, <1>2
<1>5. \A w \in Visit : visit'[w] = IF w = v THEN [visit[v] EXCEPT !.stage = stage] ELSE visit[w]
  <2> HIDE DEF Records
  <2>1. QED
    BY <1>1
<1>6. \A w \in Visit : visit'[w].src = visit[w].src /\ visit'[w].dsts = visit[w].dsts
  BY <1>3, <1>5
<1>7. visit'[v].stage = stage
  BY <1>3, <1>5
<1>8. \A w \in Visit : visit[w].stage # "free" => visit'[w].stage # "free"
  BY <1>5, <1>7
<1>9. Known' = Known
  BY DEF Known
<1>10. \A w \in Visit : FromPage(visit[w].src, visit[w].dsts)'
  BY <1>6 DEF VisitInv, FromPage
<1>11. VisitInv'
  BY <1>4, <1>9, <1>10 DEF VisitInv
<1>12. QED
  BY <1>6, <1>7, <1>8, <1>11

(* A visit that ends without the database. *)
LEMMA EndStep ==
  ASSUME GraphInv, NEW v \in Visit, NEW stage \in {"written", "error"},
         visit' = [visit EXCEPT ![v].stage = stage],
         UNCHANGED <<html, found, graph, saved>>, faults' \in 0 .. MaxFaults
  PROVE  GraphInv'
<1>1. /\ VisitInv'
      /\ \A w \in Visit : visit'[w].src = visit[w].src /\ visit'[w].dsts = visit[w].dsts
      /\ \A w \in Visit : visit[w].stage # "free" => visit'[w].stage # "free"
  BY StageStep DEF GraphInv
<1>2. graph' \in [nodes : SUBSET Known', edges : SUBSET (Known' \X Known')]
  BY DEF GraphInv, Known
<1>3. EdgesAreLinks'
  BY DEF GraphInv, EdgesAreLinks
<1>4. SavedIsComplete'
  BY <1>1 DEF GraphInv, SavedIsComplete
<1>5. QED
  BY <1>1, <1>2, <1>3, <1>4 DEF GraphInv

(* What happened to the request decides the stage alone. *)
LEMMA FinishEnds ==
  ASSUME NEW v, NEW outcome, NEW status, Finish(v, outcome, status)
  PROVE  \E stage \in {"written", "error"} : visit' = [visit EXCEPT ![v].stage = stage]
  BY DEF Finish

(* A fault stays within the bound. *)
LEMMA FaultStep ==
  ASSUME faults \in 0 .. MaxFaults, Fault
  PROVE  faults' \in 0 .. MaxFaults
  BY PageGraphAssumption DEF Fault

LEMMA WriteStep ==
  ASSUME GraphInv, NEW v \in Visit, Write(v)
  PROVE  GraphInv'
<1> DEFINE src == visit[v].src
           dsts == visit[v].dsts
<1>1. /\ src # NilLink
      /\ saved' = saved \cup {v}
      /\ UNCHANGED <<html, found>>
  BY DEF Write
<1>2. PICK stage \in {"written", "error"} : visit' = [visit EXCEPT ![v].stage = stage]
  BY FinishEnds DEF Write
<1>3. faults' \in 0 .. MaxFaults
  <2>1. CASE UNCHANGED faults
    BY <2>1 DEF GraphInv
  <2>2. CASE Fault
    BY <2>2, FaultStep DEF GraphInv
  <2>3. QED
    BY <2>1, <2>2 DEF Write
<1>4. /\ VisitInv'
      /\ \A w \in Visit : visit'[w].src = visit[w].src /\ visit'[w].dsts = visit[w].dsts
      /\ visit'[v].stage # "free"
      /\ \A w \in Visit : visit[w].stage # "free" => visit'[w].stage # "free"
  BY <1>1, <1>2, StageStep DEF GraphInv
<1>5. /\ src \in Known /\ dsts \in SUBSET Known
      /\ FromPage(src, dsts)
  BY <1>1 DEF GraphInv, VisitInv, Known
<1>6. IsFiniteSet(dsts) /\ \A dst \in dsts : dst # src /\ dst # NilLink
  BY <1>5, PageLinks
<1>7. dsts \ {NilLink} = dsts
  BY <1>6
<1>8. PICK order \in SetToSeqs(dsts) :
        graph' = Run(RegisterRefs(src, order), graph)[Len(RegisterRefs(src, order))]
  BY <1>7 DEF Write
<1>9. PICK nodes \in SUBSET Known, edges \in SUBSET (Known \X Known) :
        graph = [nodes |-> nodes, edges |-> edges]
  BY DEF GraphInv
<1>10. graph' = [nodes |-> nodes \cup {src} \cup dsts,
                 edges |-> edges \cup {<<src, dst>> : dst \in dsts}]
  <2> HIDE DEF src, dsts
  <2>1. QED
    BY <1>6, <1>8, <1>9, RequestAddsAll
<1> HIDE DEF src, dsts
<1>11. Known' = Known
  BY <1>1 DEF Known
<1>12. graph' \in [nodes : SUBSET Known', edges : SUBSET (Known' \X Known')]
  BY <1>5, <1>10, <1>11
<1>13. /\ graph.edges = edges /\ graph.nodes = nodes
       /\ graph'.edges = edges \cup {<<src, dst>> : dst \in dsts}
       /\ graph'.nodes = nodes \cup {src} \cup dsts
  BY <1>9, <1>10
<1>14. EdgesAreLinks'
  <2>1. ASSUME NEW edge \in edges \cup {<<src, dst>> : dst \in dsts}
        PROVE  /\ edge[1] # edge[2]
               /\ \E url \in Site : Link(url) = edge[1] /\ edge[2] \in ExtractLinks(edge[1], html[url])
    <3>1. CASE edge \in edges
      BY <1>13, <3>1 DEF GraphInv, EdgesAreLinks
    <3>2. ASSUME NEW dst \in dsts, edge = <<src, dst>>
          PROVE  /\ edge[1] # edge[2]
                 /\ \E url \in Site : Link(url) = edge[1] /\ edge[2] \in ExtractLinks(edge[1], html[url])
      <4>1. edge[1] = src /\ edge[2] = dst
        BY <3>2
      <4>2. QED
        BY <1>5, <1>6, <4>1 DEF FromPage
    <3>3. QED
      BY <3>1, <3>2
  <2>2. QED
    BY <1>1, <1>13, <2>1 DEF EdgesAreLinks
<1>15. SavedIsComplete'
  <2>1. ASSUME NEW w \in saved \cup {v}
        PROVE  /\ visit'[w].src \in graph'.nodes
               /\ \A dst \in visit'[w].dsts : <<visit'[w].src, dst>> \in graph'.edges
    <3>1. CASE w = v
      <4>1. visit'[w].src = src /\ visit'[w].dsts = dsts
        BY <1>4, <3>1 DEF src, dsts
      <4>2. QED
        BY <1>13, <4>1
    <3>2. CASE w \in saved
      <4>1. visit'[w].src = visit[w].src /\ visit'[w].dsts = visit[w].dsts
        BY <1>4, <3>2 DEF GraphInv
      <4>2. QED
        BY <1>13, <3>2, <4>1 DEF GraphInv, SavedIsComplete
    <3>3. QED
      BY <3>1, <3>2
  <2>2. QED
    BY <1>1, <2>1 DEF SavedIsComplete
<1>16. QED
  BY <1>1, <1>3, <1>4, <1>12, <1>14, <1>15 DEF GraphInv

LEMMA GraphNext == GraphInv /\ [Next]_vars => GraphInv'
<1> SUFFICES ASSUME GraphInv, [Next]_vars PROVE GraphInv'
  OBVIOUS
<1>1. ASSUME NEW v \in Visit, NEW url \in {Seed} \cup {String(link) : link \in found}, Crawl(v, url)
      PROVE  GraphInv'
  BY <1>1, CrawlStep
<1>2. ASSUME NEW v \in Visit, RefuseNil(v)
      PROVE  GraphInv'
  <2>1. visit' = [visit EXCEPT ![v].stage = "error"]
    BY <1>2 DEF RefuseNil
  <2>2. UNCHANGED <<html, found, graph, saved, faults>>
    BY <1>2 DEF RefuseNil
  <2>3. faults' \in 0 .. MaxFaults
    BY <2>2 DEF GraphInv
  <2>4. QED
    BY <2>1, <2>2, <2>3, EndStep
<1>3. ASSUME NEW v \in Visit, WriteFails(v)
      PROVE  GraphInv'
  <2>1. \E stage \in {"written", "error"} : visit' = [visit EXCEPT ![v].stage = stage]
    BY <1>3, FinishEnds DEF WriteFails
  <2>2. Fault /\ UNCHANGED <<html, found, graph, saved>>
    BY <1>3 DEF WriteFails
  <2>3. faults' \in 0 .. MaxFaults
    BY <2>2, FaultStep DEF GraphInv
  <2>4. QED
    BY <2>1, <2>2, <2>3, EndStep
<1>4. CASE UNCHANGED vars
  BY <1>4 DEF vars, GraphInv, VisitInv, Known, FromPage, EdgesAreLinks, SavedIsComplete
<1>5. QED
  BY <1>1, <1>2, <1>3, <1>4, WriteStep DEF Next

LEMMA GraphInvHolds == Spec => []GraphInv
  BY GraphInit, GraphNext, PTL DEF Spec

(* Links are well formed, and so are those in the graph. *)
LEMMA IsLinkOK ==
  ASSUME NEW link, IsLink(link)
  PROVE  LinkOK(link)
<1>1. PICK proto, domain, path :
        /\ proto \in Protos \cup {""}
        /\ link = [proto |-> proto, domain |-> domain, path |-> path]
        /\ IsDomain(domain)
        /\ path # "/"
  BY DEF IsLink
<1>2. link.proto = proto /\ link.domain = domain /\ link.path = path
  BY <1>1
<1>3. domain = NoDomain \/ (domain[1] # "" /\ domain[2] # "")
  <2>1. ASSUME NEW host, NEW port, domain = <<host, port>>, host # "", port # ""
        PROVE  domain[1] # "" /\ domain[2] # ""
    BY <2>1
  <2>2. QED
    BY <1>1, <2>1 DEF IsDomain
<1>4. QED
  BY <1>1, <1>2, <1>3 DEF LinkOK

-----------------------------------------------------------------------------
(* The properties.                                                         *)

(* Type correctness: links keep the form the expression reads, in the      *)
(* hands of the visits and in the database (http.go:12-33).                *)
THEOREM GraphTypeCorrect == Spec => []TypeOK
<1>1. GraphInv => TypeOK
  <2> SUFFICES ASSUME GraphInv PROVE TypeOK
    OBVIOUS
  <2>1. IsLink(Link(Seed))
    BY ReadsLink, PageGraphAssumption
  <2>2. \A link \in Known \cup {NilLink} : IsLink(link)
    BY <2>1, NilIsLink DEF GraphInv, Known
  <2>3. \A link \in found \cup graph.nodes : IsLink(link)
    BY <2>2 DEF GraphInv, Known
  <2>4. \A v \in Visit : /\ visit[v].stage \in {"free", "write", "written", "error"}
                         /\ IsLink(visit[v].src) /\ visit[v].dsts \subseteq found
    BY <2>2 DEF GraphInv, VisitInv
  <2>5. QED
    BY <2>3, <2>4, IsLinkOK DEF GraphInv, TypeOK
<1>2. QED
  BY <1>1, GraphInvHolds, PTL

(* All references of a page are in the graph once its request was          *)
(* executed, in whatever order the statements name the links               *)
(* (neo4j.go:140-161, 196-205).                                            *)
THEOREM SavedPagesComplete == Spec => []SavedIsComplete
<1>1. GraphInv => SavedIsComplete
  BY DEF GraphInv
<1>2. QED
  BY <1>1, GraphInvHolds, PTL

(* Every edge is a link of a page that was fetched, to another page        *)
(* (http.go:50-87, neo4j.go:141, 149).                                     *)
THEOREM EdgesCorrect == Spec => []EdgesAreLinks
<1>1. GraphInv => EdgesAreLinks
  BY DEF GraphInv
<1>2. QED
  BY <1>1, GraphInvHolds, PTL

(* A page is the node that referred to it: a URL is read as the link it    *)
(* was written from (http.go:31-33, 53-54, crawler.go:406).                *)
THEOREM PagesAreNodes == Spec => []OneNodePerPage
<1>1. GraphInv => OneNodePerPage
  BY DEF GraphInv, VisitInv, OneNodePerPage, Known
<1>2. QED
  BY <1>1, GraphInvHolds, PTL

(* Links without a domain stay on the site of their page (http.go:69-73). *)
THEOREM RelativeLinksCorrect == Spec => []RelativeLinksStay
<1>1. GraphInv => RelativeLinksStay
  <2> SUFFICES ASSUME GraphInv, NEW v \in Visit, visit[v].src.domain # NoDomain,
                      NEW dst \in visit[v].dsts
               PROVE  dst.domain # NoDomain
    BY DEF RelativeLinksStay
  <2>1. FromPage(visit[v].src, visit[v].dsts)
    BY DEF GraphInv, VisitInv
  <2>2. QED
    BY <2>1, PageLinks
<1>2. QED
  BY <1>1, GraphInvHolds, PTL
=============================================================================
