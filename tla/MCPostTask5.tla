---------------------------- MODULE MCPostTask5 ----------------------------
(***************************************************************************)
(* PostTask5 for TLC; the bound is that of MCPostTask4.                    *)
(***************************************************************************)
EXTENDS PostTask5
============================================================================
