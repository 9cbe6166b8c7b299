--------------------------- MODULE IoServicePool ---------------------------
(***************************************************************************)
(* io_pool.cpp: a pool of io_services, each kept open by a work object and *)
(* run by one thread of its own.  Handlers executing on one service may    *)
(* post to another, and stop() is called from a handler: it destroys the   *)
(* works one by one while the other threads go on.  The benchmark that     *)
(* uses the pool EXTENDS this module and adds the steps of its handlers.   *)
(*                                                                         *)
(* Of an io_service we keep what its clients can tell: how many handlers   *)
(* are queued, outstanding_work_, and whether it has stopped; the handlers *)
(* of one service run one at a time, since it has one thread.  (Module     *)
(* TaskIoService has the scheduler itself.)                                *)
(***************************************************************************)
EXTENDS Integers, FiniteSets

CONSTANT PoolSize       \* pool_size; the constructor rejects 0

ASSUME PoolSizeAssumption == PoolSize \in Nat \ {0}

Services == 0 .. PoolSize - 1

VARIABLES
  main,         \* where the main thread is: "start", "run", "done"
  spawned,      \* threads that io_service_pool::run() has created
  at,           \* where the thread of each service is, see PoolPCs
  queued,       \* handlers queued in each service
  outstanding,  \* outstanding_work_ of each service
  works,        \* the services whose work_[i] is not null
  stopped,      \* the services whose stopped_ is set
  resetAt       \* the loop variable i of the stop() each thread executes

poolVars == <<main, spawned, at, queued, outstanding, works, stopped, resetAt>>

PoolPCs ==
  {"none",       \* the thread does not exist yet
   "enter",      \* it has called io_service::run()
   "idle",       \* it waits for a handler
   "begun",      \* it has begun a handler; the steps of the handler follow
   "reset",      \* its handler is in the loop of io_service_pool::stop()
   "stop_other", \* there, ~work() brought the count to 0 and calls stop()
   "end",        \* its handler has returned
   "stop_self",  \* the end of the handler brought the count to 0
   "returned"}   \* io_service::run() has returned

PoolTypeOK(handlerPCs) ==
  /\ main \in {"start", "run", "done"}
  /\ spawned \in 0 .. PoolSize
  /\ at \in [Services -> PoolPCs \cup handlerPCs]
  /\ queued \in [Services -> Nat]
  /\ outstanding \in [Services -> Int]
  /\ works \in SUBSET Services
  /\ stopped \in SUBSET Services
  /\ resetAt \in [Services -> 0 .. PoolSize]

\* The constructor has created the services and their works.
PoolInit ==
  /\ main = "start"
  /\ spawned = 0
  /\ at = [s \in Services |-> "none"]
  /\ queued = [s \in Services |-> 0]
  /\ outstanding = [s \in Services |-> 1]
  /\ works = Services
  /\ stopped = {}
  /\ resetAt = [s \in Services |-> 0]

Goto(s, label) == at' = [at EXCEPT ![s] = label]

\* get_io_service(index)
GetIoService(index) == index % PoolSize

\* io_service::post() to d: one more handler, one more outstanding work.
PostTo(d) ==
  /\ queued' = [queued EXCEPT ![d] = @ + 1]
  /\ outstanding' = [outstanding EXCEPT ![d] = @ + 1]

-----------------------------------------------------------------------------
(* io_service_pool::run(), in the main thread.                             *)

\* One round of the loop that creates the threads.
Spawn ==
  /\ main = "run"
  /\ spawned < PoolSize
  /\ Goto(spawned, "enter")
  /\ spawned' = spawned + 1
  /\ UNCHANGED <<main, queued, outstanding, works, stopped, resetAt>>

\* Every join() has returned, and so does run().
JoinAll ==
  /\ main = "run"
  /\ spawned = PoolSize
  /\ \A s \in Services : at[s] = "returned"
  /\ main' = "done"
  /\ UNCHANGED <<spawned, at, queued, outstanding, works, stopped, resetAt>>

-----------------------------------------------------------------------------
(* io_service::run(), in the thread of service s.                          *)

\* run() stops the service at once when it has no outstanding work.
Enter(s) ==
  /\ at[s] = "enter"
  /\ Goto(s, IF outstanding[s] = 0 THEN "stop_self" ELSE "idle")
  /\ UNCHANGED <<main, spawned, queued, outstanding, works, stopped, resetAt>>

\* A handler begins.  Once the service has stopped none does.
Begin(s) ==
  /\ at[s] = "idle"
  /\ s \notin stopped
  /\ queued[s] > 0
  /\ queued' = [queued EXCEPT ![s] = @ - 1]
  /\ Goto(s, "begun")
  /\ UNCHANGED <<main, spawned, outstanding, works, stopped, resetAt>>

\* The handler has returned: work_finished(), and stop() if that was the last.
EndHandler(s) ==
  /\ at[s] = "end"
  /\ outstanding' = [outstanding EXCEPT ![s] = @ - 1]
  /\ Goto(s, IF outstanding[s] = 1 THEN "stop_self" ELSE "idle")
  /\ UNCHANGED <<main, spawned, queued, works, stopped, resetAt>>

StopSelf(s) ==
  /\ at[s] = "stop_self"
  /\ stopped' = stopped \cup {s}
  /\ Goto(s, "idle")
  /\ UNCHANGED <<main, spawned, queued, outstanding, works, resetAt>>

\* run() returns, whether or not a handler is queued.
RunReturns(s) ==
  /\ at[s] = "idle"
  /\ s \in stopped
  /\ Goto(s, "returned")
  /\ UNCHANGED <<main, spawned, queued, outstanding, works, stopped, resetAt>>

-----------------------------------------------------------------------------
(* io_service_pool::stop(), in a handler of service s.                     *)

\* ~work() of work_[i] runs in the handler of s: work_finished(), which calls
\* stop() if that was the last.  The loop then goes on with the next i.
DestroyWork(s, i) ==
  /\ outstanding' = [outstanding EXCEPT ![i] = @ - 1]
  /\ Goto(s, IF outstanding[i] = 1 THEN "stop_other" ELSE "reset")
  /\ resetAt' = [resetAt EXCEPT ![s] = i + 1]

\* Mutant of ResetWork: the loop leaves the work of the last service alone.
ResetWorkNotLast(s) ==
  /\ at[s] = "reset"
  /\ resetAt[s] < PoolSize
  /\ IF resetAt[s] \in works /\ resetAt[s] # PoolSize - 1
     THEN /\ DestroyWork(s, resetAt[s])
          /\ works' = works \ {resetAt[s]}
     ELSE /\ resetAt' = [resetAt EXCEPT ![s] = @ + 1]
          /\ UNCHANGED <<at, outstanding, works>>
  /\ UNCHANGED <<main, spawned, queued, stopped>>

\* work_[i].reset()
ResetWork(s) ==
  /\ at[s] = "reset"
  /\ resetAt[s] < PoolSize
  /\ IF resetAt[s] \in works
     THEN /\ DestroyWork(s, resetAt[s])
          /\ works' = works \ {resetAt[s]}
     ELSE /\ resetAt' = [resetAt EXCEPT ![s] = @ + 1]
          /\ UNCHANGED <<at, outstanding, works>>
  /\ UNCHANGED <<main, spawned, queued, stopped>>

\* Two handlers execute work_[i].reset() at the same time, a data race on the
\* shared_ptr: both may see the pointer and both release the work.  (What a
\* double release does to the heap is outside the model.)
ResetWorkRaced(s) ==
  /\ at[s] = "reset"
  /\ resetAt[s] \in works
  /\ \E other \in Services \ {s} :
       at[other] = "reset" /\ resetAt[other] = resetAt[s]
  /\ DestroyWork(s, resetAt[s])
  /\ UNCHANGED <<main, spawned, queued, works, stopped>>

StopOther(s) ==
  /\ at[s] = "stop_other"
  /\ stopped' = stopped \cup {resetAt[s] - 1}
  /\ Goto(s, "reset")
  /\ UNCHANGED <<main, spawned, queued, outstanding, works, resetAt>>

\* stop() returns, and the handler with it.
EndStop(s) ==
  /\ at[s] = "reset"
  /\ resetAt[s] = PoolSize
  /\ resetAt' = [resetAt EXCEPT ![s] = 0]
  /\ Goto(s, "end")
  /\ UNCHANGED <<main, spawned, queued, outstanding, works, stopped>>

-----------------------------------------------------------------------------
PoolMainStep == Spawn \/ JoinAll

PoolThreadStep(s) ==
  \/ Enter(s) \/ Begin(s) \/ EndHandler(s) \/ StopSelf(s) \/ RunReturns(s)
  \/ ResetWork(s) \/ ResetWorkRaced(s) \/ StopOther(s) \/ EndStop(s)
============================================================================
