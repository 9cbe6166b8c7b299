----------------------------- MODULE PostTask5 -----------------------------
(***************************************************************************)
(* posttask5.cpp: the "improved" posttask4, whose vectors hold the tasks    *)
(* themselves (std::function) instead of numbers.  The handshake of start() *)
(* with the handler is that of PostTask4; the handler now runs the swapped  *)
(* tasks one after the other, each incrementing count_, so count_ is        *)
(* visible half-way through a batch.  See PostTask4 for the abstractions.   *)
(***************************************************************************)
EXTENDS Naturals

CONSTANT PostCount      \* post_count_

ASSUME PostCountAssumption == PostCount \in Nat

VARIABLES
  mpc,        \* where main is: "post", "need_post", "wait", "join", "done"
  posted,     \* the loop variable i of start(): tasks pushed so far
  work,       \* whether io_work_ still holds the io_service open
  handlers,   \* handlers posted to io_service_ and not yet begun
  wpc,        \* where the worker is: "run", "swap", "tasks", "check", "exited"
  pending,    \* size of pending_tasks_
  temp,       \* size of temp_tasks_
  ran,        \* tasks of temp_tasks_ executed so far by this handler
  count,      \* count_
  stamps      \* how often stop_time_ has been written

mainVars == <<mpc, posted, work>>
vars == <<mainVars, handlers, wpc, pending, temp, ran, count, stamps>>

TypeOK ==
  /\ mpc \in {"post", "need_post", "wait", "join", "done"}
  /\ posted \in 0 .. PostCount
  /\ work \in BOOLEAN
  /\ handlers \in Nat
  /\ wpc \in {"run", "swap", "tasks", "check", "exited"}
  /\ pending \in Nat
  /\ temp \in Nat
  /\ ran \in 0 .. temp
  /\ count \in Nat
  /\ stamps \in Nat

\* The constructor has run; start() is about to enter its loop.
Init ==
  /\ mpc = "post" /\ posted = 0 /\ work = TRUE
  /\ handlers = 0 /\ wpc = "run"
  /\ pending = 0 /\ temp = 0 /\ ran = 0
  /\ count = 0 /\ stamps = 0

-----------------------------------------------------------------------------
\* post(), inside the lock: read empty(), then emplace the task.
Push ==
  /\ mpc = "post"
  /\ posted < PostCount
  /\ mpc' = IF pending = 0 THEN "need_post" ELSE "post"
  /\ pending' = pending + 1
  /\ posted' = posted + 1
  /\ UNCHANGED <<work, handlers, wpc, temp, ran, count, stamps>>

\* post(), after the lock, when need_post was set.
PostHandler ==
  /\ mpc = "need_post"
  /\ mpc' = "post"
  /\ handlers' = handlers + 1
  /\ UNCHANGED <<posted, work, wpc, pending, temp, ran, count, stamps>>

\* The loop of start() is over; main goes on to wait().
EndStart ==
  /\ mpc = "post"
  /\ posted = PostCount
  /\ mpc' = "wait"
  /\ UNCHANGED <<posted, work, handlers, wpc, pending, temp, ran, count, stamps>>

\* wait(): io_work_.reset().
ResetWork ==
  /\ mpc = "wait"
  /\ mpc' = "join"
  /\ work' = FALSE
  /\ UNCHANGED <<posted, handlers, wpc, pending, temp, ran, count, stamps>>

\* wait(): thread_.join() returns.
Join ==
  /\ mpc = "join"
  /\ wpc = "exited"
  /\ mpc' = "done"
  /\ UNCHANGED <<posted, work, handlers, wpc, pending, temp, ran, count, stamps>>

-----------------------------------------------------------------------------
\* run() takes the next handler; temp_tasks_.clear() destroys the last batch.
BeginHandler ==
  /\ wpc = "run"
  /\ handlers > 0
  /\ handlers' = handlers - 1
  /\ wpc' = "swap"
  /\ temp' = 0
  /\ ran' = 0
  /\ UNCHANGED <<mainVars, pending, count, stamps>>

\* The handler's critical section: temp_tasks_.swap(pending_tasks_).
Swap ==
  /\ wpc = "swap"
  /\ wpc' = "tasks"
  /\ temp' = pending
  /\ pending' = temp
  /\ UNCHANGED <<mainVars, handlers, ran, count, stamps>>

\* One round of the loop over temp_tasks_: task() does count_ += 1.
RunTask ==
  /\ wpc = "tasks"
  /\ ran < temp
  /\ ran' = ran + 1
  /\ count' = count + 1
  /\ UNCHANGED <<mainVars, handlers, wpc, pending, temp, stamps>>

\* Mutant of EndTasks: the loop stops one task short.
EndTasksEarly ==
  /\ wpc = "tasks"
  /\ ran + 1 >= temp
  /\ wpc' = "check"
  /\ UNCHANGED <<mainVars, handlers, pending, temp, ran, count, stamps>>

\* The loop over temp_tasks_ ends.
EndTasks ==
  /\ wpc = "tasks"
  /\ ran = temp
  /\ wpc' = "check"
  /\ UNCHANGED <<mainVars, handlers, pending, temp, ran, count, stamps>>

\* The handler's last statement: write stop_time_ if that was the last task.
Check ==
  /\ wpc = "check"
  /\ wpc' = "run"
  /\ stamps' = IF count = PostCount THEN stamps + 1 ELSE stamps
  /\ UNCHANGED <<mainVars, handlers, pending, temp, ran, count>>

\* run() returns: no handler is queued or running and no work is outstanding.
RunReturns ==
  /\ wpc = "run"
  /\ handlers = 0
  /\ ~work
  /\ wpc' = "exited"
  /\ UNCHANGED <<mainVars, handlers, pending, temp, ran, count, stamps>>

-----------------------------------------------------------------------------
Main   == Push \/ PostHandler \/ EndStart \/ ResetWork \/ Join
Worker == BeginHandler \/ Swap \/ RunTask \/ EndTasks \/ Check \/ RunReturns

\* posttask_test5() has returned from wait(); nothing is left to do.
Terminated == mpc = "done" /\ UNCHANGED vars

Next == Main \/ Worker \/ Terminated

\* Both threads are always scheduled again; no lock is ever held for ever.
Fairness == WF_vars(Main) /\ WF_vars(Worker)

Spec == Init /\ [][Next]_vars /\ Fairness

-----------------------------------------------------------------------------
(* Properties.                                                             *)

\* Running the tasks of a batch one by one is the same program as adding them
\* up: posttask5 is posttask4 in which the tasks run so far by the current
\* handler have not been added to count_ yet.  So it inherits the handshake,
\* the conservation of tasks and the single stop_time_ of PostTask4.
Batch4 == INSTANCE PostTask4 WITH
  batching <- TRUE,
  wpc   <- IF wpc = "tasks" THEN "sum" ELSE wpc,
  count <- IF wpc = "tasks" THEN count - ran ELSE count
ImplementsPostTask4 == Batch4!Spec
============================================================================
