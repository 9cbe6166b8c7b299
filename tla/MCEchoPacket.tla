---------------------------- MODULE MCEchoPacket ----------------------------
(***************************************************************************)
(* EchoPacket for TLC.  Every pair of totals up to five: equal and unequal, *)
(* even and odd, the server's lower and higher, and the 0 that argument     *)
(* parsing lets through.  Bodies of two lengths, so that body_len_ starts   *)
(* again before the last packet.                                            *)
(***************************************************************************)
EXTENDS EchoPacket
=============================================================================
