---------------------------- MODULE MCPostTask4 ----------------------------
(***************************************************************************)
(* PostTask4 for TLC.  Six tasks are enough for every size of batch from 1 *)
(* to 6, for batches pushed before, while and after the previous one is    *)
(* summed, and for several batches in a row.  Init chooses between the     *)
(* programs: posttask4, which batches, and posttask3, which does not.      *)
(***************************************************************************)
EXTENDS PostTask4
============================================================================
