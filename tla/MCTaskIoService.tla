-------------------------- MODULE MCTaskIoService --------------------------
(***************************************************************************)
(* TaskIoService for TLC.  Three threads: one in the reactor, one waiting   *)
(* on the event and one executing a handler; a client whose post() and      *)
(* whose destruction of its work meet all of them; two operations, so that  *)
(* a handler can queue one behind the other.  No symmetry: liveness is      *)
(* checked in the same run.                                                 *)
(***************************************************************************)
EXTENDS TaskIoService
============================================================================
