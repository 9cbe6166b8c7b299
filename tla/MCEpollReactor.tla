-------------------------- MODULE MCEpollReactor --------------------------
(***************************************************************************)
(* EpollReactor for TLC: an accepted socket with a read and a write, a      *)
(* socket that connects, and two states, so that each socket may be given   *)
(* the state the other one had.                                             *)
(***************************************************************************)
EXTENDS EpollReactor

CONSTANTS accepted, connecting, read, write, connect

MCKind == [o \in Ops |-> CASE o = read -> "read" [] o = write -> "write"
                           [] OTHER -> "connect"]
MCFd == [o \in Ops |-> IF o = connect THEN connecting ELSE accepted]
============================================================================
