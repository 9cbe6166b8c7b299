---------------------------- MODULE MCEchoBlocks ----------------------------
(***************************************************************************)
(* EchoBlocks for TLC: two sessions that share a thread or have one each.   *)
(* A block of two bytes through sockets that hold one is transferred in     *)
(* parts; one connection may fail, so that the other one is seen to go on.  *)
(***************************************************************************)
EXTENDS EchoBlocks
============================================================================
