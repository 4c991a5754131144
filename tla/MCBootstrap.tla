----------------------------- MODULE MCBootstrap -----------------------------
(***************************************************************************)
(* A Wetware cluster of two hosts, and any number of arguments.            *)
(***************************************************************************)
EXTENDS Bootstrap

AnyArgs == 3 .. 8
=============================================================================
