--------------------------- MODULE MCCrawlerCrash ---------------------------
(***************************************************************************)
(* Two pages that link to each other.                                      *)
(***************************************************************************)
EXTENDS CrawlerCrash

CONSTANTS s, a

Pair == s :> {a} @@ a :> {s}
=============================================================================
