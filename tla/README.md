# A TLA+ model of asio_benchmark

The repository is a set of small benchmarks for asio 1.10.8 (vendored under
`src/asio_alone/`): threads that post tasks to each other through
`io_service`s (`posttask1` ... `posttask5`), echo clients and servers over TCP
(`client1/server1` ... `client3/server3`) and a ring of socket pairs
(`socketpair`). Everything that is hard about them is concurrency: which thread
may touch what, whether a task can be lost between a queue and the thread that
serves it, and whether a program that should end does. This directory models
that part, checks it with TLC and proves part of it with TLAPS.

Paths below are relative to the repository's root (`src/` here).

## 1. Inventory

| Component | Source | State | Operations | What makes it correct |
|---|---|---|---|---|
| Scheduler | `asio/detail/impl/task_io_service.ipp`, `task_io_service.hpp`, `posix_event.hpp` | `op_queue_`, `outstanding_work_`, `stopped_`, `task_`, `task_interrupted_`, the event's `state_`; per thread a private queue and a private count | `run`, `do_run_one`, `post`, `work_started/finished`, `init_task`, `stop` | no lost wakeup, no operation lost or run twice, stops exactly when nothing is left, `task_operation_` in one place |
| Reactor | `epoll_reactor.ipp`, `epoll_reactor.hpp`, `object_pool.hpp`, `reactive_socket_service_base.ipp` | pooled descriptor states with a queue per direction, registered events, `task_result_` | `register_descriptor`, `start_op`, `run`, `perform_io`, `deregister_descriptor` | no edge of epoll is lost, nothing is queued twice, the work count is balanced although descriptors are executed for nothing |
| Timers | `timer_queue.hpp`, `deadline_timer_service.hpp`, `epoll_reactor.ipp` | `heap_` with back pointers, waits per timer, the timerfd | `async_wait`, `expires_from_now`, `cancel`, `cancel_one`, dispatch | heap order and back pointers agree; the timerfd never fires too late; exactly the due timers complete |
| `io_service_pool` | `io_pool.cpp` | services, works, `next_io_service_` | constructor, `run`, `stop`, two `get_io_service` | `run()` returns after `stop()`, also when several handlers call it |
| `posttask1` | `posttask1.cpp` | `*thread_index`, `*count` (unprotected), `stop_time_` | `start`, `post`, `stop`, `wait` | one task, ring order, exact count |
| `posttask2` | `posttask2.cpp` | atomic `count_` | the same, one task per pair | one task per pair, bounded overshoot, `wait()` returns |
| `posttask3` | `posttask3.cpp` | `count_`, `stop_time_` | `start`, `wait` | all tasks done and timed when `wait()` returns |
| `posttask4`, `posttask5` | `posttask4.cpp`, `posttask5.cpp` | `pending_tasks_`, `temp_tasks_` under `mutex_`, `count_` | `post` (with the handler inside), `wait` | the `need_post` handshake strands no task; the swap loses none |
| `server1/client1` | `server1.cpp`, `client1.cpp` | a block per session, `want_close_`, `error_`; the stop timer, the works, the acceptor | accept chain, read/write loop, stop | every block comes back; errors are only real ones; the client ends whenever the timer fires |
| `server2/client2` | `server2.cpp`, `client2.cpp` | stack of ten buffers per session | concurrent reads and writes | reading resumes; bytes in order and none dropped |
| `server3/client3` | `server3.cpp`, `client3.cpp` | a packet with header, packet count | read head, read body, write | both ends agree when it is over; body fits the buffer |
| `socketpair` | `socketpair.cpp` | read and write counts, one byte per pair | `pair_read`, `pair_write`, `stop` | ends exactly when all written bytes are read |
| `main.cpp`, scripts | | none | argument parsing | not modelled |

How they interact. A program constructs one or more `io_service`s, each with a
`work` object that keeps `run()` from returning, and threads that call `run()`.
Handlers run on these threads and call `post()` on their own or another
service, start asynchronous operations, or destroy `work` objects; when the
count of outstanding work reaches zero the scheduler stops and every `run()`
returns. Nothing is persisted, so there is no crash recovery; the hard
behaviours are interleavings, ordering, termination and boundary values.
`PROJECT.json` lists them as hazards, each at its line.

## 2. Modules

```
IoService        <-- implemented by --  TaskIoService        the scheduler
TaskCounter      <-- implemented by --  PostTask1, PostTask4
PostTask4        <-- implemented by --  PostTask5
TimerSet         <-- implemented by --  TimerQueue           the timers
IoServicePool    <-- extended by     --  PostTask1, PostTask2
EpollReactor, SocketPair,
EchoBlocks, EchoPacket, EchoStream           each stands alone
M                <-- extended by     --  M_proofs, for TaskIoService, EpollReactor,
                                         TimerQueue, PostTask2, PostTask4, SocketPair,
                                         EchoPacket and EchoStream
PostTask1        <-- instance in     --  PostTask2_proofs (Ring)
PostTask5        <-- instance in     --  PostTask4_proofs (Five)
EchoBlocks       <-- instance in     --  EchoPacket_proofs (Blocks)
M                <-- extended by     --  MCM, the instance for TLC
```

* **TaskIoService** models `task_io_service`. `pc` says where each process is in
  `run()`/`do_run_one()` or in user code; `queue`, `outstanding`, `stopped`,
  `task` and `taskInterrupted` are the members of the class, `signalled` is bit 0
  of `wakeup_event_.state_` (its count of waiters is the operator `Waiters`),
  `privateQueue` and `privateWork` are `thread_info`. A critical section of
  `mutex_` is one step; the signal after an unlock, the `stop()` that follows a
  decrement, and the decrement itself, which are outside of the lock, are steps
  of their own. The destructors of `task_cleanup` and `work_cleanup` relock the
  mutex that the loop then holds: their pushes are part of the step at the loop
  (`Requeued`). Spurious wakeups of `pthread_cond_wait` are included. Handlers
  and clients may post, post a continuation, start an asynchronous operation,
  create the reactor or destroy a work, in any order. A client is a thread outside
  `run()`, main or a thread of another service. Clients may call when no work is left
  as well, while the service stops and after: `posttask2` posts to a partner whose
  service has been stopped (`posttask2.cpp:52`), and the main of `client1` and `client2`
  starts a connect on a service whose work the stop timer has released
  (`client1.cpp:218`). An operation is *late* (`late`) if nothing kept the service when it
  was begun: no work, and no unfinished operation that is not late itself (`Kept`).
* **IoService** says what that amounts to: each operation is begun and ended at most once,
  and `run()` returns only when no work and no operation is left that was begun in time.
  Of those that are late nothing is promised: they may be executed, or stay where they are.
* **EpollReactor** models the reactor under the sockets. The kernel is an edge-triggered
  epoll: `ready[f]` is the level, `edge[f]` says whether `f` is in epoll's list, and
  `epoll[f]` is the pointer it was registered with. `data[f]` is `reactor_data_`,
  `opQueue[s]` has the operations that wait in a state, `result[s]` the events it is queued
  with. `Connect` and `Transfer` are `start_op()`, with the operation tried at once when
  its queue is empty; `Renew` is the `epoll_ctl` for an operation that waits to write.
  `RunReactor` is `run()`, which queues the *states* that have events, and `PerformIo`
  is what executing one does: perform what can be, hand the first completed
  operation to the runner, queue the others, and call `work_started()` when there is none
  (`Compensation`). `Deregister` and `CloseFd` are the two halves of `close()`; the state
  goes back to the pool in the first, possibly while it is queued, and `Open` may take it
  at once. One thread runs the service, as in all programs that use sockets; other threads
  open sockets on it, connect them and release its work, in any order and also when it is
  about to stop or has stopped (`stopping`, `stopped`). The scheduler is what its one
  thread sees of it; the decrement of `outstanding_work_` and the `stop()` that follows
  it (`Stop`, `StopRunner`) are two steps.
* **TimerQueue** models the timers: the heap of `timer_queue`, swaps and all (`UpHeap`,
  `DownHeap`, `RemoveTimer`), with the loops written as rounds (`Rise`, `Sink`, `TakeFront`)
  that change nothing any more once the loop has ended and are repeated as often as there
  are entries; that this is often enough is proved; the arming of the timerfd (`UpdateTimeout`) and its rounding to
  microseconds, the reactor's `epoll_wait` (`EpollReturns`) and the dispatch under the
  mutex (`CheckTimers`) with whatever other threads do in between. The several reads of the
  clock of a dispatch and the arming that follows are taken at one time.
* **TimerSet** says what that amounts to: a set of timers with their expiries. `Expiry` is the mapping:
  the time in the heap's entry at the place that the timer knows.
* **EchoBlocks** models `client1` and `server1`: the sessions of both ends, and what
  surrounds them. `main` starts the sessions one by one (`Open`, `Connect`, `EndStart`), while
  `FireTimer` may run in a thread of the client and `PostStops` posts `stop()` to every
  session; `Stop` sets `want_close_` and closes the socket, perhaps between the two steps of
  main. A handler may be queued behind the completion of its operation
  (`result`), and meet a socket that was closed in the meantime: then `set_option()` in
  the handler of the connect throws, and `run()` of that thread ends (`thread` is `"threw"`).
  `Accept` is the server's chain, which ends with the first error. The use of a socket by
  main and the stop handler at once is a data race on it; the model takes `open()`,
  `connect()` and `close()` as one step each.
* **IoServicePool** models `io_pool.cpp` and, per service, what its one thread
  sees of the scheduler: the number of queued handlers, `outstanding_work_`,
  `stopped_`. `stop()` is a loop of steps, since other threads go on meanwhile,
  and `ResetWorkRaced` is the outcome of the data race on `work_[i]` in which both
  threads release the work.
* **PostTask1**, **PostTask2** add the handlers of these programs. The widths of
  `*thread_index` and `*count` are constants, so that their wrapping is in reach.
* **PostTask4**, **PostTask5** model main and the worker thread. `posttask3` is `posttask4`
  without the batching, and a behaviour of PostTask4 is one of either program
  (`batching`). All tasks are alike, so a vector is its size. The `io_service` is its queue of
  handlers and the rule for when `run()` returns.
* **TaskCounter** is what `posttask1`, `3`, `4` and `5` (which implements PostTask4) promise: a counter that reaches
  exactly `post_count` before `wait()` returns. (`posttask2` may exceed it.)
* **SocketPair** models `socketpair.cpp`. `pipe[i]` has the bytes written to `s1_` of
  pair i and not yet read, `data[i]` is `data_`, `reading[i]` says where the
  `async_read` of the pair is: in the reactor, with its handler queued, cancelled.
  The handler of a read, with everything it calls, is one of `Forward` (to
  `pair_write` of the next pair), `Stop` and `Drain`. Two bytes can meet in one pair and handlers may begin in any
  order; only the counts tell that the last byte has arrived.
* **EchoPacket** models the two sessions of a `client3`/`server3` connection. `pc[e]` is
  the operation an end waits for, which is all that its chain of handlers amounts to;
  `header[e]` is the header in its `buffer_`; `unsent` and `wire` have the header and the
  body of a packet as two units, since the composed `async_read`s ask for them
  separately. Each end has a `total_count_` of its own: the two are separate arguments
  of separate programs. `Fail` is what handlers do with an error (nothing, which
  destroys the server's session), and an operation may fail because the network has or
  because the peer has closed.
* **EchoStream** models the two sessions of a `client2`/`server2` connection. `free[e]` is
  the size of `buffers_`; a buffer that is not there is with an `async_read_some`
  (`waiting`, then `arrived` once performed) or with an `async_write_some` (`unsent`,
  then `sent`). The reactor keeps a queue per descriptor and direction and performs it
  in order, and one thread runs the handlers in the order of their completion; hence the
  sequences. `PerformRead` takes any part of what has arrived and `PerformWrite` sends
  what there is room for; what it does not send is gone, as in the code, which
  ignores the count in the handler of a write. How much the sockets hold differs from one
  direction to the other and from one write to the next: each write finds any of the
  capacities in `Spaces`, but for those less than `space`, which they always hold. So either end
  may write short at any time, again and again. `Stop` is the handler that `stop()` posts when the timer has
  expired; `HandleError` is what the handlers of either end do with an error.

  In these two modules one connection is enough because sessions share nothing but the
  statistics of the clients, which are not modelled. What surrounds the sessions of
  `client2` and the accepts of all servers is written as in the first pair (EchoBlocks).

Operators named "Mutant of ..." are wrong variants of the definition they precede.
They are used by no specification; each shows that some property fails if the
code had that mistake.

## 3. What the runs check

Every run has bounds; the reason they suffice is given with each.

| Run | Module and bounds | Shows |
|---|---|---|
| `scheduler` | `MCTaskIoService.cfg`: 3 threads, 1 client, 2 operations | `WorkConservation`, `StopIsSafe`, `TaskIsUnique`, `NoLostWakeup`, `AllReturn`, `ImplementsIoService` |
| `reactor` | `MCEpollReactor.cfg`: 2 sockets, 2 states, 3 operations | `WorkBalance`, `QueuedOnce`, `NoneForgotten`, `ConnectDecided`, `ReadyCompletes` |
| `timers` | `MCTimerQueue.cfg`: 6 timers, 3 delays, clock up to 3, symmetric | `HeapConsistent`, `ArmedInTime`, `ImplementsTimerSet` |
| `posttask1` | `MCPostTask1.cfg`: 4 threads, 7 tasks, index of 2 bits | `OneTaskInTurn`, `ImplementsCounter` |
| `posttask2` | `MCPostTask2.cfg`: 2 pairs, 4 tasks | `OneTaskPerPair`, `OvershootIsBounded`, `WaitReturns` |
| `posttask4` | `MCPostTask4.cfg`: 6 tasks, both programs | `OneHandlerPerBatch`, `TasksConserved`, `AllDoneAtReturn`, `ImplementsCounter` |
| `posttask5` | `MCPostTask5.cfg`: 6 tasks | `ImplementsPostTask4` |
| `socketpair` | `MCSocketPair.cfg`: 4 pairs, 3 bytes, 9 reads | `CountersTellInFlight`, `OnlyFirstByte`, `FinalCount`, `RunDoesReturn` |
| `echo_blocks` | `MCEchoBlocks.cfg`: 2 sessions, 1 or 2 threads, a block of 2 bytes, sockets that hold 1, one broken connection | `ErrorMeansFailure`, `ClientEnds`, `BlockComesBack` |
| `echo_packet` | `MCEchoPacket.cfg`: totals 0 to 5 on either side, bodies of 1 and 2 | `FramesAligned`, `ResultByTotals`, `SessionsEnd` |
| `echo_stream` | `MCEchoStream.cfg`: 3 buffers, a block of 3 bytes, sockets that hold 1 to 3, another number for each write | `ReadingResumes`, `InOrder`, `EchoSurvives`, `ErrorMeansFailure`, `EchoGoesOn`, `StopEndsSession` |
| `echo_stream_short` | `MCEchoStream_short.cfg`: the same, sockets that hold 2 or 3 | `EchoComplete` is violated (section 4) |

A module's `TypeOK` is part of the inductive invariant where there is one (section 5).

*Scheduler.* Three threads put one in the reactor, one on the event and one in a
handler; the client posts meanwhile, destroys its work and may post again; two
operations let a handler queue work behind work, and let one be late while the other is
not. `StopIsSafe` is about the moment between the decrement of `outstanding_work_`,
outside of the lock, and the stop: others may begin work then, so that the service stops
with a count that is not zero any more, and what matters is that nothing begun in time is
abandoned. No symmetry, since the same run checks liveness.
`NoLostWakeup` is the delicate one: the event's bit, the count of waiters,
`task_interrupted_` and the interrupter's edge are four records of who is asleep,
and something queued while every thread is parked would be a lost wakeup. No
operation is posted twice (`Fresh`): this makes the state space finite, and an
operation object of asio is indeed used once. The safety properties and the
refinement are also proved for any number of threads, clients and operations.

*reactor.* One socket is connected by another thread, one accepted, and two states let
each be given the state of the other while that is still queued with its events: the
case that `QueuedOnce` and `ConnectDecided` are about. A read and a write share a state,
so that one event may serve one, both or neither, which `WorkBalance` needs, and are
started by a handler as well as by a thread outside. The run has 1,300,000 states; the
safety properties are proved for any number of each. `NoneForgotten` says that no edge
is lost, `ReadyCompletes` draws the conclusion: who can be performed does not wait for
ever. It excepts what is ready only after the work count has gone to zero (`Over`), such as a
connect that main starts when the service has stopped: the safety properties hold for
these too, but nobody runs the reactor any more.

*timers.* Six entries are the least with which a removal from one subtree may have to
raise the entry that takes its place (its replacement comes from the other subtree).
Delays of 0, 1 and 3 make equal, different and already past expiries; with two ticks to the
microsecond the timerfd is rounded, and with a maximal wait of one microsecond it has
to be armed more than once for one expiry (the five minutes of the code). One wait may
be a second one for a timer. The clock stops at 3, so that waits are scheduled
before, at and after the expiry of others. `ImplementsTimerSet` is the promise that programs rely
on: whatever the heap does with the entries of other timers, a timer keeps its expiry, and a
dispatch completes all that are due and no other. The three properties are also proved, for
heaps of any size.

*posttask1.* Seven tasks go round the ring of four almost twice and let the index
wrap once; four divides 2^2, as the usual thread counts divide 2^32. Both properties are
proved for rings and counts of any size, under a condition on the wrap (section 5).

*posttask2.* Two pairs are the least with which two handlers can be in
`stop()`; four tasks let either pair do all the work. `WaitReturns` holds also if the
race on `work_[i]` releases a work twice, as far as the counters of the scheduler
go; what a double release does to the heap is not modelled. The other two properties are
proved for any number of pairs and tasks.

*posttask4/5.* The numbers of tasks are enough for every size of batch and for
batches pushed before, while and after the previous one is summed; the theorems of
section 5 cover every number, the safety part of the refinement too.

*socketpair.* With three bytes on four pairs one byte can catch up with the others, so
that a pair holds several and a handler finds its next byte already there; nine reads
are two rounds and more, so that the last bytes are in any pair when the target is
reached. `FinalCount` is what the program relies on to print its result: the sockets
are closed, and `run()` returns, with everything written also read, although reads and
writes are counted at different times. All but `RunDoesReturn` is proved for any numbers.

*echo_blocks.* Two sessions on one thread show what the end of its `run()` does to the
other one, on two threads that it does nothing; a block of two through sockets that hold
one takes several transfers. One connection may be refused or broken (`MaxBroken`), so
that the other is seen to go on. The timer may fire at any time, also while main is at
the first session. `ClientEnds` has one exception, `StoppedTooEarly`: a session that is
told to stop before main has started it is started all the same, after its only
`stop()`, and the client then does not end. `BlockComesBack` names the two ways in
which a block may be lost besides `stop()` and a broken connection: a failed accept that
ended the chain, and an exception that ended the thread.

*echo_packet.* Six totals on each side have every combination that matters: equal and
not, even and odd, either side larger, and the 0 and 1 that argument parsing lets
through. Two lengths of bodies make `body_len_` start again within a session.
`ResultByTotals` says which pairs of arguments let the client count a session as
finished; it is the answer to a question that the programs' usage text leaves open.

*echo_stream.* A block of three bytes may fall into as many parts as there are
buffers: then all are with writes, the stack is empty and reading stops, which is where
the code is delicate. One buffer less, or one part less, and it never would. With
room for one or two bytes a write may be short, at either end and more than once until one
byte is left; where there always is room for three none is. The ten buffers
of the code need ten parts for the same; the four safety properties are also proved for
every number.

**Fairness.** Every thread is scheduled again (weak fairness of the steps of each
thread, which are never disabled for ever by a lock, since critical sections are
short and never block). In the scheduler handlers end and clients destroy their
work in the end; when events arrive is not assumed: `AllReturn` asks that no
operation that was begun in time waits for its event for ever, as does the code. In the reactor the runner
keeps running and its handlers return; nothing is asked of the network nor of other
threads. In SocketPair the one thread
keeps running and the reactor reports every pair that is readable, by this call of
`epoll_wait` or by a later one. In the echo modules each program keeps running and the
sockets deliver; in EchoStream a write is performed in the end only if the bytes on their way leave
some of the room that there always is (`DueStep`), so nobody relies on sockets that hold
more at times. That the network does not fail, that the timer fires or that `stop()` is
called is never assumed. The timers have no liveness: the clock of the model stops.

## 4. Where code and documentation differ

One run has a counterexample for something the documentation says.

* `echo_stream_short`: `README.md:35` calls `client2`/`server2` an echo of any length
  (任意长度的echo client/server). `EchoComplete` takes the server at that word: when a
  write of it is performed on a healthy connection no byte is lost. It is violated. In the trace
  the client's block of three bytes reaches the server whole; the server reads it and passes
  it to `async_write_some` (`server2.cpp:49`), there is room for two bytes, two go back, and
  the handler, which does not look at how much was written, drops the third. (The client
  does the same, `client2.cpp:85`.) `EchoSurvives`, which
  holds, says how far this goes: as long as the connection is healthy something goes
  round, and if there always is room for a block nothing is lost.

Some remarks have no run. `posttask1` leaves ring order when `*thread_index` wraps and the
number of threads does not divide 2^32 (`posttask1.cpp:41`); `OneTaskInTurn` is checked for
one that divides. With a count of 0 it never stops at its target: `*count` is incremented
before it is compared, with `==` (`posttask1.cpp:42`), so that the task goes round until
the counter has wrapped. `posttask2` passes the set count when there are two or more pairs
(`posttask2.cpp:43`), by at most the number of pairs less one, which `OvershootIsBounded`
says. `client1` goes on for ever with a session that was stopped before it was started, and
a thread of it may lose all its sessions to one exception (`client1.cpp:108`).

## 5. What is proved

`tlapm` checks the theorems for all values of the constants; the only assumptions
are those named in the modules (finite sets of threads, clients and operations,
disjoint; `PostCount` a natural number; an even, positive number of services in
posttask2), and for the ring of posttask1 `RingFits`, below. `PROJECT.json` lists the theorems.

Most components have a theorem of one more kind, the *safety half* of a liveness property. A
property like `WaitReturns` says two things: that the threads never come to a state in
which none of them can do anything, and that fair scheduling does the rest. The first is
an invariant and proved, for all values of the constants (`NeverHangs`, `NeverStuck`,
`RingNeverStuck`, `NeverAsleep`, `SessionNeverHangs`, `BlocksClientNeverStuck`,
`BlockNeverStranded`, `StreamNeverStuck`); since
ENABLED is out of the prover's reach, each writes out the guards of the steps in question, in an operator
named `MayStep` or the like. The second, that something is reached in the end, is checked by TLC.

*Scheduler* (`TaskIoService_proofs`): `TypeOK`, `WorkConservation`, `StopIsSafe`,
`TaskIsUnique` and `NoLostWakeup` are invariants. None is inductive by itself. The inductive
invariant `IInv` adds: where a process is agrees with what it holds (`PcInv`: a
thread has a current operation exactly when it is in a handler); the queues have no
repetition and `task_operation_` has one holder (`QueueInv`); an operation is in one
place (`UniqueInv`); `outstanding_work_` is the number of works and *counted*
operations (`CountInv`). `StopIsSafe` follows from `StopInv`: nothing keeps the
service when it has stopped *or when somebody is about to stop it* (`Stopping`).
Whoever decides so has seen `outstanding_work_` at zero, and then, by `CountInv`, no work and
no operation is anywhere (`StopDecided`). The count does not stay at zero: it is seen outside of the lock, and
others may post before the stop, or after. The heart of the argument is that what they post is late by
definition, and so are the operations its handlers begin, so that the service is never
kept again (`KeptStaysGone`): nothing that was begun in time can be in the way of that
stop, whatever has been begun since. The heart of
`WorkConservation` is `FinishOperationStep`: the operation leaves the count and
the private queue, whose size the private count has, enters it. There is one lemma
per action. `NoWakeupLost` needs a second invariant on top of it, `WakeInv`: the event
stays signalled while anything is queued (`SignalledInv`), after `stop()` everybody has
been told (`StoppedInv`), and `task_interrupted_` is a promise that the thread blocked
in the reactor returns (`InterruptInv`). Its heart is
`WakeOneThreadWakes`: after `wake_one_thread_and_unlock()` somebody comes, whichever of the
three ways it took. `ServiceRefined` is the safety part of `ImplementsIoService`: under the
mapping of TaskIoService every step is a step of IoService or a stutter; that `run()`
returns when nothing keeps the service comes from `StopInv`. `NeverHangs`: when nothing is
posted any more and no event is outstanding, the service has ended or somebody can take a step other
than to wait again. It puts `WakeInv` together with what else may keep a thread: the threads that
have returned did so after `stop()` (`ReturnedInv`), with no work left the service has been stopped, or
somebody is about to, or no thread has entered `run()` yet (`ZeroInv`), a private queue is with a thread that is in a
handler or on its way back to the loop, where it hands it over (`CarryInv`), and asynchronous
operations have started the reactor (`ReactorInv`).

*Reactor* (`EpollReactor_proofs`): `WorkBalance`, `QueuedOnce`, `NoneForgotten` and
`ConnectDecided`, for any number of sockets, states and operations. `IInv` adds: the queue has
no repetition, and states only in front of the task, none while the runner is in the
reactor (`QueueShape`); an
operation that waits does so once, in the state of its socket and the queue of its
direction, and who waits to write is registered for it (`OpPlaces`); epoll's pointers are
those of the sockets, but for the one that is being closed (`Registration`); and a socket
that connects has no event present (`Connecting`). The argument for `NoneForgotten`: an
operation begins to wait only after it was tried, so its socket is not ready then, or
the registration has been renewed, which makes epoll list the socket again; a socket that becomes ready later gives an edge;
and whoever takes an edge leaves it in the result of the state, from which the operation
is tried when the state is executed. `QueuedOnce` follows from `QueueShape`: states are queued
by the reactor only, and are all executed before the task is taken again, whatever sockets
were closed and states reused meanwhile.

*posttask2* (`PostTask2_proofs`): `OneTaskPerPair` and `OvershootIsBounded`, for any even
number of services and any `PostCount`. `PairInv` counts the tasks of a pair; `TargetInv`
says that nobody stops the pool, and no service runs out of work, before the target is
reached; `OverInv` is what makes the bound inductive: beyond the target, `count_` plus the
number of pairs whose task has still to increment it is at most the bound. The pair that
reaches it is no longer one of them, and each increment takes one away. `NeverStuck`: until
`wait()` has returned somebody can take a step. It is the answer to what happens when several pairs
are in `stop()` at once and race on `work_[i]`. Its invariant `EndInv` accounts for the
work of each service: `outstanding_work_` is the task it has, and one for its work until that is released, and
may be too small by a second release (`AccountInv`); a count at zero or below is not missed, the service is stopped or
somebody is about to stop it (`ZeroInv`); a loop of `stop()` leaves a work behind only if another handler is about to
destroy it (`PassedInv`), and beyond the target there is somebody who has yet to go on with `stop()` until every
work is gone (`WorksInv`); and all pairs are started before the threads are (`SpawnInv`).

*posttask1* (in `PostTask2_proofs`, as the instance `Ring`): `OneTaskInTurn`, and that each
step is a step of `TaskCounter` or leaves it alone. `RingInv` says where the one task is
(`PlaceInv`), that this is the service `count % RingSize` (`TurnInv`, from which follows that
nobody else touches the two unprotected counters), and that nothing ends before `stop_time_` is
written (`OpenInv`). The theorems assume `RingFits`: either fewer tasks than the index has values,
so that it does not wrap, or a ring whose size divides that number. Neither can be dropped:
otherwise the order of the ring is broken at the wrap (section 4), and then
`OneTaskInTurn` is false. A count of 0 is excluded too, with which the program does not stop at
its target. `RingEndInv` accounts for the end as `EndInv` does for posttask2, and gives `RingNeverStuck`. It is
simpler by one thing, a theorem of its own: `RingStopsAlone` says that the race on `work_[i]` cannot
happen here, since only the task that reaches the target stops the pool, and there is one.

*posttask4* (`PostTask4_proofs`): `TypeOK`, `OneHandlerPerBatch`, `TasksConserved`,
`AllDoneAtReturn`, `StampIsFinal` (nothing is executed or timed after `stop_time_` was
written), and that each step is a step of `TaskCounter` or leaves it alone, for every
number of tasks, with batching and without. `FiveImplementsFour` is the refinement of PostTask4 by
PostTask5, but for its fairness: a task that is run does not show until its batch is through.

*socketpair* (`SocketPair_proofs`): `CountersTellInFlight`, `OnlyFirstByte` and `FinalCount`, for any
numbers of pairs, first bytes and reads. `Balance` is the sum over all sockets against the two
counters; `CountInv` says how many bytes have been written when `reads` have been counted, before
the target and after; `StopInv` that `stop()` comes with the last byte, which is only known by
the counts, and finds every read waiting. The sum is the fold of the community modules, whose
definition takes the elements of a set in an order that `CHOOSE` determines: `SumDef` and
`SumChanges` prove what it is when one element changes. `NeverAsleep` says that the one thread is
never left with nothing to do: if before `stop()` every read waited at an empty pipe, `Balance` would make
the two counters equal, which `StopInv` excludes; after `stop()` every read has been cancelled, and its handler is queued.

*Timers* (`TimerQueue_proofs`): `HeapConsistent`, `ArmedInTime` and `TimersRefined` (the specification
implements TimerSet), for any timers, delays, maximal wait and resolution of the clock. The loops are proved with invariants of
their rounds. In `up_heap()` one entry may be earlier than its parent and nothing else is out of
order, and the children of that entry are in order with its parent too (`Rising`); in
`down_heap()` it may be later than its children (`Sinking`). Each swap keeps the places the
timers know (`Swapped`, with `Placed`) and moves the entry one generation, so the loop has ended after
as many rounds as there are entries, with the heap in order (`Risen`, `Sunk`). `remove_timer()`
establishes one or the other for the entry that fills the gap (`Removed`), which is why it has to look
which way to go. `ReadyTaken` says that `get_ready_timers()` takes those that are due and no other:
the front is the first of all (`FrontIsFirst`), so the loop may end there. For the refinement each of
these lemmas also says that the *entries* are those from before, but for the ones removed, so that each
timer that stays in the heap keeps its `Expiry` although its place changes. On top of this
`IInv` has only `ListedHavePlaces`. `ArmedInTime` is inductive with it, because a removal can only move
the front to a later time, and a new wait that does not come to the front leaves one there that was in the
heap before (`FrontWasThere`); what the rounding to microseconds does is `TimeoutInTime`.

*Echo of packets* (`EchoPacket_proofs`): `TypeOK`, `LockStep` (one packet at a time is on its
way), `FramesAligned` and
`ResultByTotals`, for any totals and lengths. A connection is always in one of a few
stages: a packet is being written by one end, is on its way, is half read, or has been
read; `Stages` says of each what `pc`, `unsent` and `wire` of both ends are, and the rest of
the inductive invariant what this means for the counts (`TotalInv`), for an end that has
closed its socket (`EndInv`) and for one that has failed (`FailInv`). A step takes a stage
to the next. That the client receives even counts only, from which `ResultByTotals`
follows, is part of `Stages`. `SessionNeverHangs` needs one fact more: an end has failed only if the
network has, or if its peer has closed the socket (`ClosedInv`); so whoever waits is told.

*Echo of blocks* (in `EchoPacket_proofs`, as the instance `Blocks`): `ErrorMeansFailure`, for any number of sessions and
threads and whenever the timer fires. A transfer fails because the network broke the
connection or because `stop()` closed the socket (`FailedForAReason`), and `stop()` sets
`want_close_` first, which nothing resets (`ClosedByStop`), not even a main that starts
the session afterwards (`NotYetStarted`). `BlocksEndInv` is about the end and the block. An operation that
waits has an open socket (`SocketInv`); so after all stops have been executed, which no work, timer or
peer can delay (`FiredInv`), every operation has its handler queued, and main and the threads come to their end
by themselves: `BlocksClientNeverStuck`, with the session that was stopped too early as the only
exception. Of a connection that is up, `UpInv` says that the bytes of one block are divided among the client, the
server and the two directions, and all on the way out or all on the way back; `BlockNeverStranded`
follows, for any block and any room in the sockets.

*Echo of a stream* (`EchoStream_proofs`): `TypeOK`, `ReadingResumes`, `ErrorMeansFailure`,
`InOrder`, `EchoSurvives` and that buffers are conserved, for any number of buffers, any block and any sockets.
The inductive invariant is an account (`BuffersConserved`: what is in the stack, read
or written is never more than there is, and exactly that while the connection is
healthy) and `StackInv`: a healthy session that reads nothing has an empty stack.
`ReadingResumes` is the two together; the handler of a write keeps `StackInv` because it
looks whether the stack is empty *before* it pushes its buffer. `CloseInv` records who
has closed a socket and why, which `ErrorMeansFailure` needs.

`InOrder` and `EchoSurvives` have an invariant of their own, `LoopInv`, about `Loop`, the
sequence of all bytes of a connection in the order in which they go round: its numbers grow, but for
at most one place (`Cyclic`). A read or a complete write moves the border between two parts of
the sequence, a handler moves data from the end of one half to the front of the
other, which rotates it, and a short write removes some of it: none of these makes a second place.
Something is left because nobody reads nothing, and writes nothing (`NoEmptyData`): a short write sends
at least a byte, whatever room it finds (`LoopWritten`). The argument is about one write
at a time, so it does not matter how many there are, at which end, and what room each of them has.

`StreamNeverStuck` excludes the deadlock that this protocol invites: an end stops reading when all its
buffers are with writes, a write waits when the sockets are full, and they are emptied by an end that
reads. If both ends are in that state each of the `2 * Buffers` writes has at least a byte
(`FlattenGrows`), and each direction is filled with what it always holds; all these bytes are
in `Loop`, which never has more than `BlockSize` (`BytesLeft`). So it does not occur if
`BlockSize < 2 * (Buffers + space)`, which is the theorem's hypothesis. It cannot be weakened:
with 2 buffers, a block of 6 and `Spaces = {1, 4, 8}` both ends get stuck, when the block was sent
while the sockets held more than they do later. The block of the run is shorter, so
`EchoGoesOn` holds there.

*How the proofs deal with data of any size.* The library's induction theorems cannot be used here,
since they take a predicate as a parameter. Instead an induction is stated of a set of numbers:
`LeastNumber` is the library's theorem about minimal elements of a well-founded relation, and
`AllNumbers` follows (a set that has 0 and with n also n + 1 has all numbers). With it
the recursive functions in the definitions of sums and concatenations, and the rounds of loops, are
shown to exist and to be what their equations say (`LoopExists`, `RiseRounds` and the like).

*Only model-checked:* that what can happen does, i.e. the liveness properties under fairness (`AllReturn`,
`WaitReturns`, `ReadyCompletes`, `ClientEnds`, `BlockComesBack`, `RunDoesReturn`, `SessionsEnd`, `EchoGoesOn`,
`StopEndsSession`, the liveness parts of the refinements), which is out of the reach of the prover. `PostTask1` with an
index that wraps elsewhere than the ring does violates what is proved and is not checked.

## 6. What is not modelled

* The reactor with several threads in one `io_service`. EpollReactor has one runner per
  service, as every program with sockets does. (With several, a state that
  `deregister_descriptor()` has returned to the pool could be queued by another thread
  before `::close()`.) TaskIoService has several threads; there an event completes one
  operation, which the reactor hands over directly.
* In the reactor: out-of-band operations, `cancel()`, moves of descriptors, fork handlers,
  shutdown. `async_accept`: this version never tries an accept at once, since
  `start_accept_op` passes two arguments in the wrong order
  (`reactive_socket_service_base.ipp:226`), and lives on the renewal of the registration
  (`epoll_reactor.ipp:258`). The acceptors of the servers have one accept at a time, which
  EchoBlocks takes as a step.
* In the timers: blocking waits, several queues, a clock that is set, shutdown.
* The statistics of the echo programs, among them a division of 0 by 0 in `client3.cpp:179`,
  and the round robin by which the servers choose a service.
* `run_one`, `poll`, `reset`, `dispatch`, explicit `stop()` of an `io_service`: called by no
  program here.
* Exceptions other than that of `set_option()` in `client1.cpp:108`. The pool's threads do
  not catch, so a handler that throws ends the process; the clients' threads catch and
  leave `run()`.
* `stop_time_` as a value; the models count how often it is written. Concurrent writes
  of it in posttask2 (`posttask2.cpp:58`) are a data race on a number that is only printed.
* A buffer that is not put back when a read fails (`server2.cpp:79`): the session has failed
  then, and the buffer goes with the process.
* `main.cpp` (argument parsing), the scripts, `clock.h`, `base.h`, output.
* The rest of the vendored asio: SSL, serial ports, Windows, resolvers, coroutines, other
  reactors, buffers and the templates that pass handlers on. It is third-party code, nearly all
  of which no program reaches, and most of the lines under `src/`: the share of
  the repository that a model of these programs can stand for is small.

## 7. State of the plan

The order was: the scheduler, since every program is driven by it; the task programs;
`socketpair` and the sessions of the echo programs; the reactor and the timers below them;
`client1/server1` with what surrounds their sessions; and the proofs, module by module. All
of it is done. What would be worth adding:

1. A scheduler composed with the reactor: EpollReactor with the several threads of
   TaskIoService, for programs unlike these that run one `io_service` with many threads.
2. IoServicePool on its own, with handlers that are not those of posttask1 or posttask2: `stop()` called
   by any number of them at once, which `NeverStuck` covers for one per pair.
