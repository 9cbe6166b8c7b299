---------------------------- MODULE TaskCounter ----------------------------
(***************************************************************************)
(* What the post_task benchmarks promise, whatever machinery carries the   *)
(* tasks: a counter that starts at 0 is incremented by the posted tasks    *)
(* until it has reached exactly post_count, and only then does wait()      *)
(* return.  The machinery may apply several tasks in one step.             *)
(***************************************************************************)
EXTENDS Naturals

CONSTANT PostCount      \* post_count_: how many tasks are to be executed

VARIABLES
  count,      \* count_: how many tasks have been executed
  returned    \* whether wait() has returned to the caller

vars == <<count, returned>>

TypeOK ==
  /\ count \in 0 .. PostCount
  /\ returned \in BOOLEAN

Init ==
  /\ count = 0
  /\ returned = FALSE

\* Some tasks are executed; never more than were asked for.
Execute ==
  /\ ~returned
  /\ \E c \in count + 1 .. PostCount : count' = c
  /\ UNCHANGED returned

\* wait() returns, and only when every task has been executed.
Return ==
  /\ count = PostCount
  /\ returned' = TRUE
  /\ UNCHANGED count

Next == Execute \/ Return

Spec == Init /\ [][Next]_vars /\ WF_vars(Next)
============================================================================
