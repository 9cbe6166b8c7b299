---------------------------- MODULE MCSocketPair ----------------------------
(***************************************************************************)
(* SocketPair for TLC.  Four pairs with three bytes: one byte may catch up *)
(* with the others, so that a pair holds all and a handler finds the next  *)
(* byte already there; nine reads take them round the ring twice and more. *)
(***************************************************************************)
EXTENDS SocketPair
=============================================================================
