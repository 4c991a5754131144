------------------------------ MODULE MCCrawler ------------------------------
(***************************************************************************)
(* Webs to crawl.                                                          *)
(***************************************************************************)
EXTENDS CrawlerProperties

CONSTANTS s, a, b

(* A page that links to two others, one of which links back. *)
Fork == s :> {a, b} @@ a :> {s} @@ b :> {}

(* Two pages that link to each other. *)
Pair == s :> {a} @@ a :> {s}
=============================================================================
