----------------------------- MODULE PostTask4 -----------------------------
(***************************************************************************)
(* posttask4.cpp: thread 1 (main) hands PostCount tasks to thread 2 (the   *)
(* thread that runs io_service_).  Tasks go into the vector pending_tasks_ *)
(* under mutex_, and a handler is posted to the io_service only when the   *)
(* vector was empty.  The handler swaps pending_tasks_ with temp_tasks_    *)
(* under the same mutex and then adds up what it took.                     *)
(*                                                                         *)
(* posttask3.cpp, the baseline it is measured against, is the same program  *)
(* without the batching: every task is posted as a handler of its own.  A   *)
(* behaviour is of the one program or of the other (batching).             *)
(*                                                                         *)
(* Every task is the number 1, so a vector is represented by its size.     *)
(* A critical section of mutex_ is one step.  The io_service is seen as    *)
(* its one thread sees it: a queue of identical handlers, and run() that   *)
(* returns when no handler is left and io_work_ is gone (module IoService  *)
(* is that contract).                                                      *)
(***************************************************************************)
EXTENDS Naturals

CONSTANT PostCount      \* post_count_

ASSUME PostCountAssumption == PostCount \in Nat

VARIABLES
  batching,   \* which program runs: posttask4, or posttask3 when it is FALSE
  mpc,        \* where main is: "post", "need_post", "wait", "join", "done"
  posted,     \* the loop variable i of start(): tasks pushed so far
  work,       \* whether io_work_ still holds the io_service open
  handlers,   \* handlers posted to io_service_ and not yet begun
  wpc,        \* where the worker is: "run", "swap", "sum", "check", "exited"
  pending,    \* size of pending_tasks_
  temp,       \* size of temp_tasks_
  count,      \* count_
  stamps      \* how often stop_time_ has been written

vars == <<batching, mpc, posted, work, handlers, wpc, pending, temp, count, stamps>>

mainVars   == <<batching, mpc, posted, work>>
workerVars == <<batching, wpc, temp, count, stamps>>

TypeOK ==
  /\ batching \in BOOLEAN
  /\ mpc \in {"post", "need_post", "wait", "join", "done"}
  /\ posted \in 0 .. PostCount
  /\ work \in BOOLEAN
  /\ handlers \in Nat
  /\ wpc \in {"run", "swap", "sum", "check", "exited"}
  /\ pending \in Nat
  /\ temp \in Nat
  /\ count \in Nat
  /\ stamps \in Nat

\* The constructor has created io_work_ and started the worker thread; start()
\* is about to enter its loop.
Init ==
  /\ batching \in BOOLEAN
  /\ mpc = "post"
  /\ posted = 0
  /\ work = TRUE
  /\ handlers = 0
  /\ wpc = "run"
  /\ pending = 0
  /\ temp = 0
  /\ count = 0
  /\ stamps = 0

-----------------------------------------------------------------------------
(* Thread 1: start() and wait().                                           *)

\* Mutant of Push: empty() is read after the push.
PushThenTest ==
  /\ mpc = "post" /\ batching
  /\ posted < PostCount
  /\ mpc' = IF pending + 1 = 0 THEN "need_post" ELSE "post"
  /\ pending' = pending + 1
  /\ posted' = posted + 1
  /\ UNCHANGED <<work, handlers, workerVars>>

\* Mutant of Push: a handler is posted for every task.
PushAlwaysPosts ==
  /\ mpc = "post" /\ batching
  /\ posted < PostCount
  /\ mpc' = "need_post"
  /\ pending' = pending + 1
  /\ posted' = posted + 1
  /\ UNCHANGED <<work, handlers, workerVars>>

\* post(), inside the lock: read empty(), then push the task.
Push ==
  /\ mpc = "post" /\ batching
  /\ posted < PostCount
  /\ mpc' = IF pending = 0 THEN "need_post" ELSE "post"
  /\ pending' = pending + 1
  /\ posted' = posted + 1
  /\ UNCHANGED <<work, handlers, workerVars>>

\* start() of posttask3: io_service_.post(task).
PostTask ==
  /\ mpc = "post" /\ ~batching
  /\ posted < PostCount
  /\ posted' = posted + 1
  /\ handlers' = handlers + 1
  /\ UNCHANGED <<mpc, work, pending, workerVars>>

\* post(), after the lock, when need_post was set.
PostHandler ==
  /\ mpc = "need_post"
  /\ mpc' = "post"
  /\ handlers' = handlers + 1
  /\ UNCHANGED <<posted, work, pending, workerVars>>

\* The loop of start() is over; main goes on to wait().
EndStart ==
  /\ mpc = "post"
  /\ posted = PostCount
  /\ mpc' = "wait"
  /\ UNCHANGED <<posted, work, handlers, pending, workerVars>>

\* wait(): io_work_.reset().
ResetWork ==
  /\ mpc = "wait"
  /\ mpc' = "join"
  /\ work' = FALSE
  /\ UNCHANGED <<posted, handlers, pending, workerVars>>

\* wait(): thread_.join() returns.
Join ==
  /\ mpc = "join"
  /\ wpc = "exited"
  /\ mpc' = "done"
  /\ UNCHANGED <<posted, work, handlers, pending, workerVars>>

-----------------------------------------------------------------------------
(* Thread 2: io_service_.run() and the handler.                            *)

\* Mutant of BeginHandler: temp_tasks_ is not cleared.
BeginHandlerNoClear ==
  /\ wpc = "run" /\ batching
  /\ handlers > 0
  /\ handlers' = handlers - 1
  /\ wpc' = "swap"
  /\ UNCHANGED <<mainVars, pending, temp, count, stamps>>

\* run() takes the next handler, whose first statement is temp_tasks_.clear().
BeginHandler ==
  /\ wpc = "run" /\ batching
  /\ handlers > 0
  /\ handlers' = handlers - 1
  /\ wpc' = "swap"
  /\ temp' = 0
  /\ UNCHANGED <<mainVars, pending, count, stamps>>

\* posttask3: run() takes the next task, a batch of one.
BeginTask ==
  /\ wpc = "run" /\ ~batching
  /\ handlers > 0
  /\ handlers' = handlers - 1
  /\ wpc' = "sum"
  /\ temp' = 1
  /\ UNCHANGED <<mainVars, pending, count, stamps>>

\* The handler's critical section: temp_tasks_.swap(pending_tasks_).
Swap ==
  /\ wpc = "swap"
  /\ wpc' = "sum"
  /\ temp' = pending
  /\ pending' = temp
  /\ UNCHANGED <<mainVars, handlers, count, stamps>>

\* The handler's loop, or the only task: count_ += temp_tasks_[i] for every task taken.
Sum ==
  /\ wpc = "sum"
  /\ wpc' = "check"
  /\ count' = count + temp
  /\ UNCHANGED <<mainVars, handlers, pending, temp, stamps>>

\* The handler's last statement: write stop_time_ if that was the last task.
Check ==
  /\ wpc = "check"
  /\ wpc' = "run"
  /\ stamps' = IF count = PostCount THEN stamps + 1 ELSE stamps
  /\ UNCHANGED <<mainVars, handlers, pending, temp, count>>

\* Mutant of RunReturns: a queued handler does not keep run() from returning.
RunReturnsEarly ==
  /\ wpc = "run"
  /\ ~work
  /\ wpc' = "exited"
  /\ UNCHANGED <<mainVars, handlers, pending, temp, count, stamps>>

\* run() returns: no handler is queued or running and no work is outstanding.
RunReturns ==
  /\ wpc = "run"
  /\ handlers = 0
  /\ ~work
  /\ wpc' = "exited"
  /\ UNCHANGED <<mainVars, handlers, pending, temp, count, stamps>>

-----------------------------------------------------------------------------
Main   == Push \/ PostHandler \/ PostTask \/ EndStart \/ ResetWork \/ Join
Worker == BeginHandler \/ BeginTask \/ Swap \/ Sum \/ Check \/ RunReturns

\* posttask_test4() or posttask_test3() has returned from wait(); nothing is left to do.
Terminated == mpc = "done" /\ UNCHANGED vars

Next == Main \/ Worker \/ Terminated

\* Both threads are always scheduled again; no lock is ever held for ever.
Fairness == WF_vars(Main) /\ WF_vars(Worker)

Spec == Init /\ [][Next]_vars /\ Fairness

-----------------------------------------------------------------------------
(* Properties.                                                             *)

\* 1 when the condition holds, 0 when it does not: for counting places.
One(b) == IF b THEN 1 ELSE 0

\* The handshake of need_post, seen from all the places a handler can be: as
\* long as tasks are pending, exactly one handler is on its way to them (main
\* is about to post it, or it is queued, or it has begun and not yet swapped),
\* and when none is pending there is none.  So no task is stranded without a
\* handler and no handler finds an empty vector.
OneHandlerPerBatch ==
  batching =>
    handlers + One(mpc = "need_post") + One(wpc = "swap") = One(pending > 0)

\* No task is lost by the swap and none is executed twice: every task pushed
\* is either pending (posttask3: queued), in the batch being summed, or counted.
TasksConserved ==
  posted = (IF batching THEN pending ELSE handlers) + One(wpc = "sum") * temp + count

\* When wait() returns, every task has been executed, and stop_time_, which
\* use_time() reads next, has been written exactly once; except for
\* PostCount = 0, when no handler ever runs and it is never written.
AllDoneAtReturn ==
  mpc = "done" => /\ count = PostCount
                  /\ stamps = One(PostCount > 0)

\* Once stop_time_ has been written the benchmark is over: no task is executed
\* after it and it is not written again, so the time it yields covers all.
StampIsFinal ==
  [][stamps > 0 => UNCHANGED <<count, stamps>>]_vars

\* The batching is invisible: what the two threads do is what TaskCounter says,
\* its promise that wait() does return included.
Counter == INSTANCE TaskCounter WITH returned <- (mpc = "done")
ImplementsCounter == Counter!Spec
============================================================================
