---------------------------- MODULE MCEchoStream ----------------------------
(***************************************************************************)
(* EchoStream for TLC.  A block of three bytes may fall into as many parts *)
(* as there are buffers, so that all are with writes and reading stops.    *)
(* With room for one or two bytes at times, either end writes short, and   *)
(* more than once; with room for three at all times neither does.          *)
(***************************************************************************)
EXTENDS EchoStream
=============================================================================
