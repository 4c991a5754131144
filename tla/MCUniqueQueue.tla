---------------------------- MODULE MCUniqueQueue ----------------------------
(***************************************************************************)
(* Model checking of UniqueQueue: a capacity small enough that the ring    *)
(* wraps, fills and empties many times, and as many items as places, so    *)
(* that it can be full without repeating one.                              *)
(***************************************************************************)
EXTENDS UniqueQueue
=============================================================================
