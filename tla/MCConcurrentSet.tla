--------------------------- MODULE MCConcurrentSet ---------------------------
(***************************************************************************)
(* GlobalPool of one crawler: the Raft goroutine and both evictors put     *)
(* URLs in it, the main loop takes them out.  Letting the others pop as    *)
(* well covers Claimed, where evictors and Raft goroutine pop.             *)
(***************************************************************************)
EXTENDS ConcurrentSet
=============================================================================
