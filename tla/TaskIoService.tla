--------------------------- MODULE TaskIoService ---------------------------
(***************************************************************************)
(* asio's scheduler, detail::task_io_service: the machinery behind every   *)
(* io_service of the benchmark programs.  Threads call run() and execute   *)
(* operations from op_queue_; one of them at a time takes the special      *)
(* operation task_operation_ (Task) out of the queue and waits in the      *)
(* reactor for events; the others wait on wakeup_event_.  run() returns    *)
(* when outstanding_work_ has reached zero.  Clients are threads outside   *)
(* run(), of other services or main, that construct a work and then post,  *)
(* start operations and destroy works.  They may still do so when no work  *)
(* is left and the service is about to stop or has stopped, as handlers of *)
(* posttask2 and the main of client1 and client2 do.                       *)
(*                                                                         *)
(* A critical section of mutex_ is one step: everything but                *)
(* outstanding_work_, which is atomic and read and written outside of it,  *)
(* is touched under the lock only.  What the code does after the unlock    *)
(* (signalling the condition variable) is a step of its own.  The          *)
(* programs construct their services with the default concurrency_hint, so *)
(* one_thread_ is false.  Handlers do not throw.                           *)
(*                                                                         *)
(* The reactor is abstracted: an event completes one operation, which      *)
(* task_->run() hands over itself.  (In the code it hands over the         *)
(* operation of the descriptor, which performs the I/O when it runs and    *)
(* balances the work count if nothing was completed.)                      *)
(***************************************************************************)
EXTENDS Integers, Sequences, FiniteSets, SequencesExt

CONSTANTS
  Threads,        \* threads that call run()
  Clients,        \* threads outside run(), each has constructed a work
  Ops,            \* operations that can be posted or started, each once
  Task,           \* task_operation_
  None            \* no operation

ASSUME ConstantsAssumption ==
  /\ IsFiniteSet(Threads) /\ IsFiniteSet(Clients) /\ IsFiniteSet(Ops)
  /\ Threads \cap Clients = {}
  /\ Task \notin Ops /\ None \notin Ops /\ Task # None

Processes == Threads \cup Clients

VARIABLES
  pc,           \* where each process is, see PCs
  ret,          \* where it continues after "signal" or "stop"
  queue,        \* op_queue_
  stopped,      \* stopped_
  outstanding,  \* outstanding_work_
  task,         \* task_: whether the reactor has been created
  taskInterrupted,  \* task_interrupted_
  signalled,    \* bit 0 of wakeup_event_.state_
  block,        \* the argument of task_->run() in each thread
  interrupt,    \* whether the interrupter's edge is pending in epoll
  current,      \* the operation whose handler a thread is executing
  privateQueue, \* this_thread.private_op_queue
  privateWork,  \* this_thread.private_outstanding_work
  transit,      \* the operation a process is about to push, in post()
  async,        \* operations waiting in the reactor for their event
  ready,        \* operations in the reactor whose event has arrived
  works,        \* io_service::work objects not yet destroyed
  done,         \* operations whose handler has returned
  late          \* history: operations begun when nothing kept the service

schedVars   == <<queue, stopped, task, taskInterrupted, signalled, interrupt>>
threadVars  == <<block, current, privateQueue, privateWork>>
reactorVars == <<async, ready>>
vars == <<pc, ret, schedVars, outstanding, threadVars, transit, reactorVars,
          works, done, late>>

PCs == {"enter",    \* in run(), before it looks at outstanding_work_
        "loop",     \* about to lock mutex_ for the loop of do_run_one()
        "requeue",  \* the same, but first ~task_cleanup() requeues Task
        "waiting",  \* in pthread_cond_wait()
        "woken",    \* about to relock mutex_ in pthread_cond_wait()
        "task",     \* in task_->run()
        "user",     \* in a handler; for a client, in the program
        "push",     \* in post(), after work_started()
        "signal",   \* after the unlock, about to signal the condition
        "stop",     \* about to lock mutex_ in stop()
        "returned"} \* run() has returned

TypeOK ==
  /\ pc \in [Processes -> PCs]
  /\ ret \in [Processes -> PCs]
  /\ queue \in Seq(Ops \cup {Task})
  /\ stopped \in BOOLEAN
  /\ outstanding \in Nat
  /\ task \in BOOLEAN
  /\ taskInterrupted \in BOOLEAN
  /\ signalled \in BOOLEAN
  /\ block \in [Threads -> BOOLEAN]
  /\ interrupt \in BOOLEAN
  /\ current \in [Threads -> Ops \cup {None}]
  /\ privateQueue \in [Threads -> Seq(Ops)]
  /\ privateWork \in [Threads -> Nat]
  /\ transit \in [Processes -> Ops \cup {None}]
  /\ async \in SUBSET Ops
  /\ ready \in SUBSET Ops
  /\ works \in SUBSET Clients
  /\ done \in SUBSET Ops
  /\ late \in SUBSET Ops

\* Each client has constructed a work, and the threads are about to call run().
Init ==
  /\ pc = [p \in Processes |-> IF p \in Threads THEN "enter" ELSE "user"]
  /\ ret = [p \in Processes |-> "user"]
  /\ queue = <<>>
  /\ stopped = FALSE
  /\ outstanding = Cardinality(Clients)
  /\ task = FALSE
  /\ taskInterrupted = TRUE
  /\ signalled = FALSE
  /\ block = [t \in Threads |-> FALSE]
  /\ interrupt = FALSE
  /\ current = [t \in Threads |-> None]
  /\ privateQueue = [t \in Threads |-> <<>>]
  /\ privateWork = [t \in Threads |-> 0]
  /\ transit = [p \in Processes |-> None]
  /\ async = {}
  /\ ready = {}
  /\ works = Clients
  /\ done = {}
  /\ late = {}

-----------------------------------------------------------------------------
(* Where the operations are.                                               *)

QueuedOps == ToSet(queue) \ {Task}
Privates == UNION {ToSet(privateQueue[t]) : t \in Threads}
Transits == {transit[p] : p \in Processes} \ {None}
Pending  == QueuedOps \cup Privates \cup Transits \cup ready
Running  == {current[t] : t \in Threads} \ {None}
Live     == Pending \cup async \cup Running
Fresh(o) == o \notin Live \cup done

\* What keeps the service: a work, or an operation that was begun in time.
Kept == works # {} \/ Live \ late # {}

\* An operation that is begun when nothing does is late, and so are those that
\* its handler begins.
MarkIfLate(o) == late' = IF Kept THEN late ELSE late \cup {o}

Goto(p, label) == pc' = [pc EXCEPT ![p] = label]

\* Goto(p, label) after the step that follows the unlock or does the stop.
GotoVia(p, via, label) ==
  /\ pc'  = [pc EXCEPT ![p] = via]
  /\ ret' = [ret EXCEPT ![p] = label]

-----------------------------------------------------------------------------
(* wakeup_event_ and the interrupter.                                      *)

\* The threads that state_ counts as waiters when p holds the mutex.  A thread
\* that has been signalled is counted until it has the mutex back.
Waiters(p) == {t \in Threads \ {p} : pc[t] \in {"waiting", "woken"}}

\* if (!task_interrupted_ && task_) ..., with the current value of the flag.
InterruptTask(interrupted, created) ==
  IF created /\ ~interrupted
  THEN taskInterrupted' = TRUE /\ interrupt' = TRUE
  ELSE taskInterrupted' = interrupted /\ UNCHANGED interrupt

\* wake_one_thread_and_unlock(): signal a waiter, or else make the reactor
\* return.  Then p goes on to label.
WakeOneThread(p, label, interrupted, created) ==
  /\ signalled' = TRUE
  /\ IF Waiters(p) # {}
     THEN /\ GotoVia(p, "signal", label)
          /\ taskInterrupted' = interrupted
          /\ UNCHANGED interrupt
     ELSE /\ Goto(p, label)
          /\ InterruptTask(interrupted, created)
          /\ UNCHANGED ret

\* pthread_cond_signal(), after the unlock: wakes one waiter if there is one.
Signal(p) ==
  /\ pc[p] = "signal"
  /\ LET waiting == {t \in Threads : pc[t] = "waiting"} IN
     IF waiting = {}
     THEN Goto(p, ret[p])
     ELSE \E t \in waiting :
            pc' = [pc EXCEPT ![p] = ret[p], ![t] = "woken"]
  /\ UNCHANGED <<ret, schedVars, outstanding, threadVars, transit, reactorVars,
                 works, done, late>>

\* pthread_cond_wait() may return without having been signalled.
SpuriousWakeup(t) ==
  /\ pc[t] = "waiting"
  /\ Goto(t, "woken")
  /\ UNCHANGED <<ret, schedVars, outstanding, threadVars, transit, reactorVars,
                 works, done, late>>

\* posix_event::wait(): the event is not signalled, so wait again.
WaitAgain(t) ==
  /\ pc[t] = "woken"
  /\ ~signalled
  /\ Goto(t, "waiting")
  /\ UNCHANGED <<ret, schedVars, outstanding, threadVars, transit, reactorVars,
                 works, done, late>>

\* Mutant of StopAllThreads: the thread in the reactor is not interrupted.
StopAllButReactor(p) ==
  /\ pc[p] = "stop"
  /\ stopped' = TRUE
  /\ signalled' = TRUE
  /\ pc' = [q \in Processes |-> IF q = p THEN ret[p]
                                ELSE IF pc[q] = "waiting" THEN "woken"
                                ELSE pc[q]]
  /\ UNCHANGED <<ret, queue, task, taskInterrupted, interrupt, outstanding,
                 threadVars, transit, reactorVars, works, done, late>>

\* stop() and stop_all_threads().
StopAllThreads(p) ==
  /\ pc[p] = "stop"
  /\ stopped' = TRUE
  /\ signalled' = TRUE
  /\ pc' = [q \in Processes |-> IF q = p THEN ret[p]
                                ELSE IF pc[q] = "waiting" THEN "woken"
                                ELSE pc[q]]
  /\ InterruptTask(taskInterrupted, task)
  /\ UNCHANGED <<ret, queue, task, outstanding, threadVars, transit,
                 reactorVars, works, done, late>>

-----------------------------------------------------------------------------
(* run() and do_run_one().                                                 *)

\* run(): if (outstanding_work_ == 0) { stop(); return 0; }
Enter(t) ==
  /\ pc[t] = "enter"
  /\ IF outstanding = 0
     THEN GotoVia(t, "stop", "returned")
     ELSE Goto(t, "loop") /\ UNCHANGED ret
  /\ UNCHANGED <<schedVars, outstanding, threadVars, transit, reactorVars,
                 works, done, late>>

\* t locks mutex_ and evaluates the condition of do_run_one()'s loop.
AtLoop(t) ==
  \/ pc[t] \in {"loop", "requeue"}
  \/ pc[t] = "woken" /\ signalled

\* Mutant of Requeued: ~work_cleanup() forgets the private queue.
RequeuedTaskOnly(t) ==
  IF pc[t] = "requeue" THEN (queue \o privateQueue[t]) \o <<Task>> ELSE queue

\* op_queue_ as t sees it then: the destructor of work_cleanup or task_cleanup
\* has just pushed the private queue under the same lock, and that of
\* task_cleanup the task behind it.
Requeued(t) ==
  queue \o privateQueue[t] \o (IF pc[t] = "requeue" THEN <<Task>> ELSE <<>>)

\* task_interrupted_ likewise: ~task_cleanup() has set it.
Interrupted(t) == taskInterrupted \/ pc[t] = "requeue"

\* The private queue of a thread has moved to op_queue_.
PrivateQueueMoved(t) == privateQueue' = [privateQueue EXCEPT ![t] = <<>>]

\* while (!stopped_) ends: do_run_one() returns 0, and so does run().
ReturnFromRun(t) ==
  /\ AtLoop(t)
  /\ stopped
  /\ queue' = Requeued(t)
  /\ taskInterrupted' = Interrupted(t)
  /\ PrivateQueueMoved(t)
  /\ Goto(t, "returned")
  /\ UNCHANGED <<ret, stopped, task, signalled, interrupt, outstanding, block,
                 current, privateWork, transit, reactorVars, works, done, late>>

\* The queue is empty: wakeup_event_.clear(lock); wakeup_event_.wait(lock).
WaitForEvent(t) ==
  /\ AtLoop(t)
  /\ ~stopped
  /\ Requeued(t) = <<>>
  /\ signalled' = FALSE
  /\ Goto(t, "waiting")
  /\ UNCHANGED <<ret, queue, stopped, task, taskInterrupted, interrupt,
                 outstanding, threadVars, transit, reactorVars, works, done,
                 late>>

\* The front of the queue is task_operation_: enter the reactor, and block in
\* it only if no handler is queued behind.  unlock_and_signal_one() otherwise.
TakeTask(t) ==
  /\ AtLoop(t)
  /\ ~stopped
  /\ Requeued(t) # <<>>
  /\ Head(Requeued(t)) = Task
  /\ LET moreHandlers == Tail(Requeued(t)) # <<>> IN
     /\ queue' = Tail(Requeued(t))
     /\ taskInterrupted' = moreHandlers
     /\ block' = [block EXCEPT ![t] = ~moreHandlers]
     /\ signalled' = (signalled \/ moreHandlers)
     /\ IF moreHandlers /\ Waiters(t) # {}
        THEN GotoVia(t, "signal", "task")
        ELSE Goto(t, "task") /\ UNCHANGED ret
  /\ PrivateQueueMoved(t)
  /\ UNCHANGED <<stopped, task, interrupt, outstanding, current, privateWork,
                 transit, reactorVars, works, done, late>>

\* Mutant of TakeOperation: no other thread is woken for the rest of the queue.
TakeOperationAlone(t) ==
  /\ AtLoop(t)
  /\ ~stopped
  /\ Requeued(t) # <<>>
  /\ Head(Requeued(t)) # Task
  /\ queue' = Tail(Requeued(t))
  /\ current' = [current EXCEPT ![t] = Head(Requeued(t))]
  /\ Goto(t, "user")
  /\ taskInterrupted' = Interrupted(t)
  /\ PrivateQueueMoved(t)
  /\ UNCHANGED <<ret, signalled, interrupt, stopped, task, outstanding, block,
                 privateWork, transit, reactorVars, works, done, late>>

\* The front is an operation: execute it, after waking another thread if more
\* are queued behind.
TakeOperation(t) ==
  /\ AtLoop(t)
  /\ ~stopped
  /\ Requeued(t) # <<>>
  /\ Head(Requeued(t)) # Task
  /\ queue' = Tail(Requeued(t))
  /\ current' = [current EXCEPT ![t] = Head(Requeued(t))]
  /\ IF Tail(Requeued(t)) # <<>>
     THEN WakeOneThread(t, "user", Interrupted(t), task)
     ELSE /\ Goto(t, "user")
          /\ taskInterrupted' = Interrupted(t)
          /\ UNCHANGED <<ret, signalled, interrupt>>
  /\ PrivateQueueMoved(t)
  /\ UNCHANGED <<stopped, task, outstanding, block, privateWork, transit,
                 reactorVars, works, done, late>>

\* epoll_reactor::run(): epoll_wait() returns at once when it may not block,
\* else when the interrupter or a descriptor is ready; every ready operation
\* goes to the private queue, in any order.
RunTask(t) ==
  /\ pc[t] = "task"
  /\ ~block[t] \/ interrupt \/ ready # {}
  /\ \E ops \in SetToSeqs(ready) :
       privateQueue' = [privateQueue EXCEPT ![t] = @ \o ops]
  /\ ready' = {}
  /\ interrupt' = FALSE
  /\ Goto(t, "requeue")
  /\ UNCHANGED <<ret, queue, stopped, task, taskInterrupted, signalled,
                 outstanding, block, current, privateWork, transit, async,
                 works, done, late>>

\* Mutant of FinishOperation: the work of the operation is not reused.
FinishOperationKeepsWork(t) ==
  /\ pc[t] = "user"
  /\ done' = done \cup {current[t]}
  /\ current' = [current EXCEPT ![t] = None]
  /\ outstanding' = IF privateWork[t] > 0 THEN outstanding + privateWork[t]
                    ELSE outstanding - 1
  /\ privateWork' = [privateWork EXCEPT ![t] = 0]
  /\ IF privateWork[t] = 0 /\ outstanding' = 0
     THEN GotoVia(t, "stop", "loop")
     ELSE Goto(t, "loop") /\ UNCHANGED ret
  /\ UNCHANGED <<schedVars, block, privateQueue, transit, reactorVars, works,
                 late>>

\* o->complete() has returned; ~work_cleanup() settles the outstanding work
\* of the operation against that of the ones it posted to the private queue.
FinishOperation(t) ==
  /\ pc[t] = "user"
  /\ done' = done \cup {current[t]}
  /\ current' = [current EXCEPT ![t] = None]
  /\ outstanding' = outstanding + privateWork[t] - 1
  /\ privateWork' = [privateWork EXCEPT ![t] = 0]
  /\ IF privateWork[t] = 0 /\ outstanding' = 0
     THEN GotoVia(t, "stop", "loop")
     ELSE Goto(t, "loop") /\ UNCHANGED ret
  /\ UNCHANGED <<schedVars, block, privateQueue, transit, reactorVars, works,
                 late>>

-----------------------------------------------------------------------------
(* What handlers and clients do, whether the service is kept or not.       *)

CanCall(p) == pc[p] = "user"

\* Mutant of BeginPost: work_started() is not called.
BeginPostUncounted(p, o) ==
  /\ CanCall(p)
  /\ Fresh(o)
  /\ transit' = [transit EXCEPT ![p] = o]
  /\ Goto(p, "push")
  /\ MarkIfLate(o)
  /\ UNCHANGED <<ret, schedVars, outstanding, threadVars, reactorVars, works,
                 done>>

\* post(): post_immediate_completion() calls work_started() ...
BeginPost(p, o) ==
  /\ CanCall(p)
  /\ Fresh(o)
  /\ outstanding' = outstanding + 1
  /\ transit' = [transit EXCEPT ![p] = o]
  /\ Goto(p, "push")
  /\ MarkIfLate(o)
  /\ UNCHANGED <<ret, schedVars, threadVars, reactorVars, works, done>>

\* ... and then pushes under the lock and wakes a thread.
Push(p) ==
  /\ pc[p] = "push"
  /\ queue' = Append(queue, transit[p])
  /\ transit' = [transit EXCEPT ![p] = None]
  /\ WakeOneThread(p, "user", taskInterrupted, task)
  /\ UNCHANGED <<stopped, task, outstanding, threadVars, reactorVars, works,
                 done, late>>

\* post_immediate_completion() with is_continuation, from a handler.
PostContinuation(t, o) ==
  /\ pc[t] = "user"
  /\ Fresh(o)
  /\ privateWork' = [privateWork EXCEPT ![t] = @ + 1]
  /\ privateQueue' = [privateQueue EXCEPT ![t] = Append(@, o)]
  /\ MarkIfLate(o)
  /\ UNCHANGED <<pc, ret, schedVars, outstanding, block, current, transit,
                 reactorVars, works, done>>

\* Mutant of InitTask: task_ is not tested, each socket queues the task again.
InitTaskAgain(p) ==
  /\ CanCall(p)
  /\ task' = TRUE
  /\ Len(queue) < 5
  /\ queue' = Append(queue, Task)
  /\ WakeOneThread(p, "user", taskInterrupted, TRUE)
  /\ UNCHANGED <<stopped, outstanding, threadVars, transit, reactorVars, works,
                 done, late>>

\* init_task(): the first socket or timer of the service creates the reactor.
InitTask(p) ==
  /\ CanCall(p)
  /\ ~task
  /\ task' = TRUE
  /\ queue' = Append(queue, Task)
  /\ WakeOneThread(p, "user", taskInterrupted, TRUE)
  /\ UNCHANGED <<stopped, outstanding, threadVars, transit, reactorVars, works,
                 done, late>>

\* epoll_reactor::start_op(), when the operation cannot complete at once.
StartAsync(p, o) ==
  /\ CanCall(p)
  /\ task
  /\ Fresh(o)
  /\ async' = async \cup {o}
  /\ outstanding' = outstanding + 1
  /\ MarkIfLate(o)
  /\ UNCHANGED <<pc, ret, schedVars, threadVars, transit, ready, works, done>>

\* The environment: the socket becomes ready, the timer expires.
EventArrives(o) ==
  /\ o \in async
  /\ async' = async \ {o}
  /\ ready' = ready \cup {o}
  /\ UNCHANGED <<pc, ret, schedVars, outstanding, threadVars, transit, works,
                 done, late>>

\* ~work() calls work_finished().  Who destroys it need not have constructed it:
\* handlers that call io_service_pool::stop() destroy the works of all services.
DropWork(p, w) ==
  /\ CanCall(p)
  /\ w \in works
  /\ works' = works \ {w}
  /\ outstanding' = outstanding - 1
  /\ IF outstanding' = 0
     THEN GotoVia(p, "stop", "user")
     ELSE UNCHANGED <<pc, ret>>
  /\ UNCHANGED <<schedVars, threadVars, transit, reactorVars, done, late>>

-----------------------------------------------------------------------------
ThreadStep(t) ==
  \/ Enter(t) \/ ReturnFromRun(t) \/ WaitForEvent(t) \/ WaitAgain(t)
  \/ TakeTask(t) \/ TakeOperation(t) \/ RunTask(t) \/ FinishOperation(t)

LibraryStep(p) == Signal(p) \/ StopAllThreads(p) \/ Push(p)

UserStep(p) ==
  \/ \E o \in Ops : BeginPost(p, o) \/ StartAsync(p, o)
  \/ InitTask(p)
  \/ \E w \in Clients : DropWork(p, w)

Terminated ==
  /\ \A t \in Threads : pc[t] = "returned"
  /\ \A c \in Clients : pc[c] = "user" /\ c \notin works
  /\ UNCHANGED vars

Next ==
  \/ \E t \in Threads : ThreadStep(t) \/ SpuriousWakeup(t)
                        \/ \E o \in Ops : PostContinuation(t, o)
  \/ \E p \in Processes : LibraryStep(p) \/ UserStep(p)
  \/ \E o \in Ops : EventArrives(o)
  \/ Terminated

\* Every thread is scheduled, gets the mutex in the end and ends its handlers;
\* every work is destroyed in the end.  Nothing is assumed of events.
Fairness ==
  /\ \A t \in Threads : WF_vars(ThreadStep(t))
  /\ \A p \in Processes : WF_vars(LibraryStep(p))
  /\ \A c \in Clients : WF_vars(DropWork(c, c))

Spec == Init /\ [][Next]_vars /\ Fairness

-----------------------------------------------------------------------------
(* Properties.                                                             *)

\* outstanding_work_ is exactly the number of works and of operations posted,
\* started or executing, but for those a handler has posted to the private queue
\* of its thread: these are in private_outstanding_work until the handler ends.
\* The counts are kept by pieces of code that run in different threads, one of
\* which (~work_cleanup) reuses the work of the operation that ends.
Uncommitted ==
  UNION {ToSet(privateQueue[t]) : t \in {u \in Threads : current[u] # None}}
WorkConservation ==
  /\ outstanding = Cardinality(works) + Cardinality(Live \ Uncommitted)
  /\ \A t \in Threads :
       privateWork[t] = IF current[t] # None THEN Len(privateQueue[t]) ELSE 0

\* The service stops only when nothing is left that was begun in time: no such
\* operation is abandoned in the queue, in a private queue, in the reactor or
\* half-way through post(), although the count that decides it is decremented
\* without the lock and may be raised again before stopped_ is set.  What is
\* begun later may be executed or not.
StopIsSafe == stopped => ~Kept

\* task_operation_ is in one place: at most one thread is in the reactor, and
\* once the reactor exists either a thread is in it or the task is queued.
InTask(t) ==
  \/ pc[t] \in {"task", "requeue"}
  \/ pc[t] = "signal" /\ ret[t] = "task"
TaskIsUnique ==
  LET holders == {t \in Threads : InTask(t)}
      queued  == {i \in 1 .. Len(queue) : queue[i] = Task}
  IN  Cardinality(holders) + Cardinality(queued) = IF task THEN 1 ELSE 0

\* No lost wakeup: while something is queued no thread stays parked (waiting on
\* the event, or blocked in the reactor) unless another is on its way to the
\* queue: at the loop, woken, about to be signalled, or leaving the reactor.
\* A thread that executes a handler does not count, it may take any time.
Parked(t) ==
  \/ pc[t] = "waiting"
  \/ pc[t] = "task" /\ block[t] /\ ~interrupt /\ ready = {}
Coming(p) ==
  \/ p \in Threads /\ AtLoop(p)
  \/ pc[p] = "task" /\ ~Parked(p)
  \/ pc[p] = "signal" /\ (ret[p] = "task" \/ \E t \in Threads : pc[t] = "waiting")
  \/ pc[p] \in {"enter", "stop"}
NoLostWakeup ==
  (queue # <<>> /\ \E t \in Threads : Parked(t)) => \E p \in Processes : Coming(p)

\* If every asynchronous operation that was begun in time gets its event, every
\* run() returns.
AllReturn ==
  []<>(async \subseteq late) => <>(\A t \in Threads : pc[t] = "returned")

\* The scheduler is an io_service.
Service == INSTANCE IoService WITH
  Works <- Clients, awaited <- async, pending <- Pending, running <- Running,
  returned <- {t \in Threads : pc[t] = "returned"}
ImplementsIoService == Service!Spec
============================================================================
