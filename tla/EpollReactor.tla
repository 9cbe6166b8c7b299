---------------------------- MODULE EpollReactor ----------------------------
(***************************************************************************)
(* asio's reactor, detail::epoll_reactor, under the sockets of the          *)
(* programs.  Every open socket has a descriptor_state with a queue of      *)
(* operations per direction; the kernel reports readiness by edges only, so *)
(* an operation that is queued after the edge was taken waits for good      *)
(* unless it was tried at once or the registration renewed.  A descriptor   *)
(* that has events is queued in the scheduler like an operation, and        *)
(* performs its own I/O when it is executed.  The states are pooled: one    *)
(* may be reused while it is still queued with the events of the socket it  *)
(* served before.                                                           *)
(*                                                                          *)
(* As in the programs, one thread (the runner) runs the io_service.  Other  *)
(* threads open sockets on it (an accept of another io_service, or main),   *)
(* start connects and post, also when its work is gone and it is about to   *)
(* stop or has stopped.  The scheduler is seen as its one thread sees it    *)
(* (TaskIoService has the rest): a FIFO queue with the reactor's Task in    *)
(* it, and a reactor that returns when it has events or something was       *)
(* queued.  The mutex of a descriptor makes start_op(),                     *)
(* perform_io() and the first part of close() one step each.  out-of-band   *)
(* operations (except_op) are left out: no program starts one.              *)
(***************************************************************************)
EXTENDS Integers, Sequences, FiniteSets, SequencesExt

CONSTANTS
  Fds,      \* sockets, each opened once
  Opened,   \* those opened by open(), the others are assigned by an accept
  States,   \* descriptor_state objects
  Ops,      \* operations, each started once
  Kind,     \* Kind[o]: "connect", "read" or "write"
  Fd,       \* Fd[o]: the socket of o
  Task,     \* task_operation_
  None

ASSUME ReactorConstants ==
  /\ IsFiniteSet(Fds) /\ Opened \subseteq Fds /\ IsFiniteSet(Ops)
  /\ Kind \in [Ops -> {"connect", "read", "write"}]
  /\ Fd \in [Ops -> Fds]
  /\ States \cap Ops = {} /\ {Task, None} \cap (States \cup Ops) = {}
  /\ None \notin Fds

VARIABLES
  \* the scheduler
  queue,        \* op_queue_
  outstanding,  \* outstanding_work_
  stopping,     \* whether another thread is about to call stop()
  stopped,      \* stopped_
  work,         \* whether the io_service::work still exists
  pc,           \* where the runner is
  current,      \* the operation or descriptor_state it executes
  \* the reactor
  data,         \* data[f]: reactor_data_ of the socket, None if there is none
  opQueue,      \* opQueue[s]: op_queue_ of a descriptor_state, per direction
  outBit,       \* outBit[s]: registered_events_ & EPOLLOUT
  result,       \* result[s]: task_result_, the events it is to perform I/O for
  \* the sockets and the kernel
  conn,         \* conn[f], see Conns
  ready,        \* ready[f]: which events are present
  edge,         \* edge[f]: whether epoll has f in its list of ready sockets
  epoll,        \* epoll[f]: the pointer registered with epoll
  closing,      \* the socket the runner has deregistered and not yet closed
  outside,      \* sockets another thread has opened and not yet connected
  begun,        \* operations started
  aborted       \* operations completed with operation_aborted

schedVars  == <<queue, outstanding, stopping, stopped>>
runVars    == <<pc, current>>
descVars   == <<data, opQueue, outBit>>
kernelVars == <<conn, ready, edge, epoll>>
vars == <<schedVars, work, runVars, descVars, result, kernelVars, closing,
          outside, begun, aborted>>

Conns == {"none",    \* not yet opened
          "fresh",   \* opened, not yet connecting
          "syn",     \* connecting
          "up",      \* connected
          "broken",  \* refused or broken
          "closed"}
Events == {"in", "out", "err"}     \* EPOLLIN, EPOLLOUT, EPOLLERR or EPOLLHUP
Queues == {"in", "out"}            \* read_op; write_op, which is connect_op

TypeOK ==
  /\ queue \in Seq(Ops \cup States \cup {Task})
  /\ outstanding \in Nat
  /\ stopping \in BOOLEAN
  /\ stopped \in BOOLEAN
  /\ work \in BOOLEAN
  /\ pc \in {"loop", "reactor", "perform", "handler", "finish", "stop"}
  /\ current \in Ops \cup States \cup {None}
  /\ data \in [Fds -> States \cup {None}]
  /\ opQueue \in [States -> [Queues -> Seq(Ops)]]
  /\ outBit \in [States -> BOOLEAN]
  /\ result \in [States -> SUBSET Events]
  /\ conn \in [Fds -> Conns]
  /\ ready \in [Fds -> SUBSET Events]
  /\ edge \in [Fds -> BOOLEAN]
  /\ epoll \in [Fds -> States \cup {None}]
  /\ closing \in Fds \cup {None}
  /\ outside \subseteq Fds
  /\ begun \subseteq Ops
  /\ aborted \subseteq begun

\* The reactor has been created, so Task is queued; nothing is open yet.
Init ==
  /\ queue = <<Task>> /\ outstanding = 1 /\ work = TRUE
  /\ stopping = FALSE /\ stopped = FALSE
  /\ pc = "loop" /\ current = None
  /\ data = [f \in Fds |-> None]
  /\ opQueue = [s \in States |-> [q \in Queues |-> <<>>]]
  /\ outBit = [s \in States |-> FALSE]
  /\ result = [s \in States |-> {}]
  /\ conn = [f \in Fds |-> "none"]
  /\ ready = [f \in Fds |-> {}]
  /\ edge = [f \in Fds |-> FALSE]
  /\ epoll = [f \in Fds |-> None]
  /\ closing = None /\ outside = {} /\ begun = {} /\ aborted = {}

-----------------------------------------------------------------------------
(* The kernel.                                                              *)

\* Of a set of events, those epoll reports for f: the registered ones, and
\* errors always.
Registered(f) ==
  IF epoll[f] = None THEN {}
  ELSE {"in", "err"} \cup IF outBit[epoll[f]] THEN {"out"} ELSE {}
Reported(f) == ready[f] \cap Registered(f)

\* New readiness puts the socket in epoll's list if it is registered for it.
Signal(f, new) ==
  /\ ready' = [ready EXCEPT ![f] = new]
  /\ edge' = [edge EXCEPT ![f] = @ \/ new \cap Registered(f) # {}]

Network(f, from, to, new) ==
  /\ conn[f] \in from
  /\ conn' = [conn EXCEPT ![f] = to]
  /\ Signal(f, new)
  /\ UNCHANGED <<schedVars, work, runVars, descVars, result, epoll, closing,
                 outside, begun, aborted>>

Establish(f) == Network(f, {"syn"}, "up", {"out"})
Fail(f)      == Network(f, {"syn", "up"}, "broken", Events)
DataArrives(f)  == Network(f, {"up"}, "up", ready[f] \cup {"in"})
SpaceAppears(f) == "out" \notin ready[f]
                   /\ Network(f, {"up"}, "up", ready[f] \cup {"out"})

-----------------------------------------------------------------------------
(* perform() of an operation: what socket_ops does without blocking.        *)

Direction(o) == IF Kind[o] = "read" THEN "in" ELSE "out"

\* Mutant of CanPerform: a connect does not poll before it reads SO_ERROR.
CanPerformUnpolled(o) ==
  \/ Kind[o] = "connect"
  \/ ready[Fd[o]] \cap {Direction(o), "err"} # {}

\* recv, send or poll finds the socket ready.  A connect asks poll first, for
\* the events may not be meant for it.
CanPerform(o) == ready[Fd[o]] \cap {Direction(o), "err"} # {}

\* What may be left ready after it: a transfer may take all there is, a connect
\* takes nothing, and an error stays.
Leftovers(o) ==
  {ready[Fd[o]]} \cup
  IF Kind[o] = "connect" \/ "err" \in ready[Fd[o]] THEN {}
  ELSE {ready[Fd[o]] \ {Direction(o)}}

-----------------------------------------------------------------------------
(* What handlers and other threads call.                                    *)

\* The runner calls from its handlers, the others at any time.
Callers == {"runner", "other"}
CanCall(p) == p = "runner" => pc = "handler" /\ closing = None
\* Nobody else uses a socket that another thread is still setting up.
MayUse(p, f) == CanCall(p) /\ conn[f] # "none" /\ (p = "other" <=> f \in outside)

\* post_immediate_completion(): the operation needs no waiting.
PostImmediate(o) ==
  /\ queue' = Append(queue, o)
  /\ outstanding' = outstanding + 1

\* do_open() or do_assign(): register_descriptor() takes a state from the pool
\* and adds the socket to epoll.  A socket that is not connected is reported
\* as hung up; an accepted one can be written to and may hold data.
Open(p, f, s) ==
  /\ CanCall(p)
  /\ conn[f] = "none"
  /\ \A g \in Fds : data[g] # s
  /\ data' = [data EXCEPT ![f] = s]
  /\ outBit' = [outBit EXCEPT ![s] = FALSE]
  /\ epoll' = [epoll EXCEPT ![f] = s]
  /\ conn' = [conn EXCEPT ![f] = IF f \in Opened THEN "fresh" ELSE "up"]
  /\ \E r \in IF f \in Opened THEN {{"out", "err"}} ELSE {{"out"}, {"in", "out"}} :
       /\ ready' = [ready EXCEPT ![f] = r]
       /\ edge' = [edge EXCEPT ![f] = r # {"out"}]
  /\ outside' = IF p = "other" THEN outside \cup {f} ELSE outside
  /\ UNCHANGED <<schedVars, work, runVars, opQueue, result, closing, begun,
                 aborted>>

\* op_queue_[op_type].push(op); work_started().
Enqueue(o) ==
  /\ opQueue' = [opQueue EXCEPT ![data[Fd[o]]][Direction(o)] = Append(@, o)]
  /\ outstanding' = outstanding + 1
  /\ UNCHANGED queue

\* Mutant of Renew: the registration is renewed as it was.
RenewAsItWas(f, now) ==
  /\ edge' = [edge EXCEPT ![f] = @ \/ now # {}]
  /\ UNCHANGED outBit

\* epoll_ctl(EPOLL_CTL_MOD) with EPOLLOUT: f is listed again if it is ready.
Renew(f, now) ==
  /\ outBit' = [outBit EXCEPT ![data[f]] = TRUE]
  /\ edge' = [edge EXCEPT ![f] = @ \/ now # {}]

\* start_connect_op(): connect() succeeds or fails at once, or start_op() renews
\* the registration and queues the operation.
Connect(p, o) ==
  LET f == Fd[o] IN
  /\ MayUse(p, f)
  /\ Kind[o] = "connect" /\ o \notin begun
  /\ conn[f] = "fresh"
  /\ begun' = begun \cup {o}
  /\ outside' = outside \ {f}
  /\ \/ /\ conn' = [conn EXCEPT ![f] = "up"]
        /\ ready' = [ready EXCEPT ![f] = {"out"}]
        /\ PostImmediate(o)
        /\ UNCHANGED <<opQueue, outBit, edge>>
     \/ /\ conn' = [conn EXCEPT ![f] = "broken"]
        /\ Signal(f, Events)
        /\ PostImmediate(o)
        /\ UNCHANGED <<opQueue, outBit>>
     \/ /\ conn' = [conn EXCEPT ![f] = "syn"]
        /\ ready' = [ready EXCEPT ![f] = {}]
        /\ Enqueue(o)
        /\ Renew(f, {})
  /\ UNCHANGED <<stopping, stopped, work, runVars, data, result, epoll, closing,
                 aborted>>

\* A read or a write is started on a socket that has been connected.
Start(p, o) ==
  /\ MayUse(p, Fd[o])
  /\ Kind[o] \in {"read", "write"} /\ o \notin begun
  /\ conn[Fd[o]] \in {"up", "broken", "closed"}
  /\ begun' = begun \cup {o}
  /\ outside' = outside \ {Fd[o]}
  /\ UNCHANGED <<stopping, stopped, work, runVars, data, result, conn, epoll,
                 closing, aborted>>

\* Mutant of Transfer: the operation is not tried before it is queued.
TransferUntried(p, o) ==
  LET f == Fd[o] IN
  /\ Start(p, o)
  /\ IF data[f] = None
     THEN PostImmediate(o) /\ UNCHANGED <<opQueue, outBit, edge, ready>>
     ELSE /\ Enqueue(o)
          /\ UNCHANGED ready
          /\ IF Kind[o] = "write" /\ ~outBit[data[f]]
             THEN Renew(f, ready[f])
             ELSE UNCHANGED <<outBit, edge>>

\* start_op() of a read or a write.  On a closed socket it fails at once.  If
\* no other is queued it is tried; when it would block it is queued, and the
\* first write of the socket to do so renews the registration with EPOLLOUT.
Transfer(p, o) ==
  LET f == Fd[o]
      first == opQueue[data[f]][Direction(o)] = <<>> IN
  /\ Start(p, o)
  /\ \/ /\ data[f] = None
        /\ PostImmediate(o)
        /\ UNCHANGED <<opQueue, outBit, edge, ready>>
     \/ /\ data[f] # None /\ first /\ CanPerform(o)
        /\ PostImmediate(o)
        /\ \E left \in Leftovers(o) : ready' = [ready EXCEPT ![f] = left]
        /\ UNCHANGED <<opQueue, outBit, edge>>
     \/ /\ data[f] # None /\ ~(first /\ CanPerform(o))
        /\ Enqueue(o)
        /\ UNCHANGED ready
        /\ IF first /\ Kind[o] = "write" /\ ~outBit[data[f]]
           THEN Renew(f, ready[f])
           ELSE UNCHANGED <<outBit, edge>>

\* close(), first part: deregister_descriptor().  The operations are completed
\* with operation_aborted, the state goes back to the pool; only a socket that
\* was assigned is removed from epoll.
Deregister(f) ==
  LET s == data[f]
      ops == opQueue[s]["in"] \o opQueue[s]["out"] IN
  /\ MayUse("runner", f)
  /\ data[f] # None
  /\ data' = [data EXCEPT ![f] = None]
  /\ opQueue' = [opQueue EXCEPT ![s] = [q \in Queues |-> <<>>]]
  /\ queue' = queue \o ops
  /\ aborted' = aborted \cup ToSet(ops)
  /\ IF f \in Opened THEN UNCHANGED <<epoll, edge>>
     ELSE epoll' = [epoll EXCEPT ![f] = None] /\ edge' = [edge EXCEPT ![f] = FALSE]
  /\ closing' = f
  /\ UNCHANGED <<outstanding, stopping, stopped, work, runVars, outBit, result,
                 conn, ready, outside, begun>>

\* close(), second part: ::close(), which removes the socket from epoll.
CloseFd ==
  /\ closing # None
  /\ conn' = [conn EXCEPT ![closing] = "closed"]
  /\ ready' = [ready EXCEPT ![closing] = {}]
  /\ edge' = [edge EXCEPT ![closing] = FALSE]
  /\ epoll' = [epoll EXCEPT ![closing] = None]
  /\ closing' = None
  /\ UNCHANGED <<schedVars, work, runVars, descVars, result, outside, begun,
                 aborted>>

\* ~work() calls work_finished(), in its owner or in a handler.  Who finds that
\* it was the last calls stop() next.
DropWork(p) ==
  /\ CanCall(p)
  /\ work
  /\ work' = FALSE
  /\ outstanding' = outstanding - 1
  /\ stopping' = (stopping \/ outstanding = 1)
  /\ UNCHANGED <<queue, stopped, runVars, descVars, result, kernelVars, closing,
                 outside, begun, aborted>>

Stop ==
  /\ stopping
  /\ stopping' = FALSE
  /\ stopped' = TRUE
  /\ UNCHANGED <<queue, outstanding, work, runVars, descVars, result,
                 kernelVars, closing, outside, begun, aborted>>

-----------------------------------------------------------------------------
(* The runner.                                                              *)

\* do_run_one() enters the reactor.
TakeTask ==
  /\ pc = "loop" /\ ~stopped
  /\ queue # <<>> /\ Head(queue) = Task
  /\ queue' = Tail(queue)
  /\ pc' = "reactor"
  /\ UNCHANGED <<outstanding, stopping, stopped, work, current, descVars,
                 result, kernelVars, closing, outside, begun, aborted>>

\* The sockets epoll_wait() returns: those listed that are still ready.
Listed == {f \in Fds : edge[f] /\ Reported(f) # {}}

\* Mutant of Dispatched: the task is requeued in front of the descriptors.
DispatchedBehind(states) == <<Task>> \o states

\* What goes behind the queue: the descriptors with events, then the task.
Dispatched(states) == states \o <<Task>>

\* epoll_reactor::run(): epoll_wait() returns with events, in any order, or
\* because something has been queued; set_ready_events() overwrites what the
\* state held, and the state is queued.
RunReactor ==
  /\ pc = "reactor"
  /\ Listed # {} \/ queue # <<>> \/ stopped
  /\ \E order \in SetToSeqs(Listed) :
       queue' = queue \o Dispatched([i \in DOMAIN order |-> epoll[order[i]]])
  /\ result' = [s \in States |->
       LET fs == {f \in Listed : epoll[f] = s} IN
       IF fs = {} THEN result[s] ELSE Reported(CHOOSE f \in fs : TRUE)]
  /\ edge' = [f \in Fds |-> FALSE]
  /\ pc' = "loop"
  /\ UNCHANGED <<outstanding, stopping, stopped, work, current, descVars, conn,
                 ready, epoll, closing, outside, begun, aborted>>

\* do_run_one() executes an operation, which calls its handler, or a descriptor,
\* which performs its I/O for the events in task_result_ (only this thread
\* writes them).
Execute ==
  /\ pc = "loop" /\ ~stopped
  /\ queue # <<>> /\ Head(queue) # Task
  /\ queue' = Tail(queue)
  /\ current' = Head(queue)
  /\ pc' = IF Head(queue) \in States THEN "perform" ELSE "handler"
  /\ UNCHANGED <<outstanding, stopping, stopped, work, descVars, result,
                 kernelVars, closing, outside, begun, aborted>>

\* The operations of direction q that perform_io() may perform: in order, until
\* one would block, if the events ask for it.
Performable(q) ==
  LET ops == opQueue[current][q] IN
  IF result[current] \cap {q, "err"} = {} \/ ops = <<>> \/ ~CanPerform(Head(ops)) THEN {0}
  ELSE IF "err" \in ready[Fd[Head(ops)]] THEN {Len(ops)}
  ELSE 1 .. Len(ops)

\* Whether performing n of them uses up the readiness of the socket.
Exhausts(q, n, drained) ==
  LET ops == opQueue[current][q] IN
  /\ drained => n > 0 /\ \E l \in Leftovers(ops[n]) : q \notin l
  /\ n > 0 /\ n < Len(ops) => drained

\* Mutant of Compensation: work_started() is not called.
NoCompensation(done) == 0

\* The scheduler counts the descriptor as an operation that ends.  If none was
\* completed in its place, the destructor of perform_io_cleanup_on_block_exit
\* makes up for it.
Compensation(done) == IF done = <<>> THEN 1 ELSE 0

\* perform_io(): the writes, then the reads.  The first operation completed is
\* executed now, the others are posted.
PerformIo ==
  /\ pc = "perform"
  /\ \E out \in Performable("out"), in \in Performable("in"),
        drained \in SUBSET Queues :
       LET performed == [q \in Queues |-> IF q = "out" THEN out ELSE in]
           Done(q) == SubSeq(opQueue[current][q], 1, performed[q])
           done == Done("out") \o Done("in") IN
       /\ \A q \in Queues : Exhausts(q, performed[q], q \in drained)
       /\ opQueue' = [opQueue EXCEPT ![current] = [q \in Queues |->
            SubSeq(@[q], performed[q] + 1, Len(@[q]))]]
       /\ ready' = [f \in Fds |->
            ready[f] \ {q \in drained : Fd[Done(q)[1]] = f}]
       /\ outstanding' = outstanding + Compensation(done)
       /\ IF done = <<>>
          THEN pc' = "finish" /\ current' = None /\ UNCHANGED queue
          ELSE /\ pc' = "handler" /\ current' = Head(done)
               /\ queue' = queue \o Tail(done)
  /\ UNCHANGED <<stopping, stopped, work, data, outBit, result, conn, edge,
                 epoll, closing, outside, begun, aborted>>

\* The handler has returned: ~work_cleanup() calls work_finished().
Finish ==
  /\ pc \in {"handler", "finish"} /\ closing = None
  /\ pc' = IF outstanding = 1 THEN "stop" ELSE "loop"
  /\ current' = None
  /\ outstanding' = outstanding - 1
  /\ UNCHANGED <<queue, stopping, stopped, work, descVars, result, kernelVars,
                 closing, outside, begun, aborted>>

\* It was the last: stop().
StopRunner ==
  /\ pc = "stop"
  /\ pc' = "loop"
  /\ stopped' = TRUE
  /\ UNCHANGED <<queue, outstanding, stopping, work, current, descVars, result,
                 kernelVars, closing, outside, begun, aborted>>

-----------------------------------------------------------------------------
Runner ==
  \/ TakeTask \/ RunReactor \/ Execute \/ PerformIo \/ CloseFd
  \/ Finish \/ StopRunner

User(p) ==
  \/ \E o \in Ops : Connect(p, o) \/ Transfer(p, o)
  \/ \E f \in Fds, s \in States : Open(p, f, s)
  \/ DropWork(p)

Kernel(f) == Establish(f) \/ Fail(f) \/ DataArrives(f) \/ SpaceAppears(f)

Terminated == stopped /\ pc = "loop" /\ UNCHANGED vars

Next ==
  \/ Runner
  \/ \E p \in Callers : User(p)
  \/ Stop
  \/ \E f \in Fds : Deregister(f) \/ Kernel(f)
  \/ Terminated

\* The runner is scheduled and its handlers return.
Spec == Init /\ [][Next]_vars /\ WF_vars(Runner)

-----------------------------------------------------------------------------
(* Properties.                                                              *)

Waiting(s) == ToSet(opQueue[s]["in"]) \cup ToSet(opQueue[s]["out"])
AllWaiting == UNION {Waiting(s) : s \in States}

Pending == AllWaiting \cup (ToSet(queue) \cap Ops)

\* outstanding_work_ counts the work, the operations that wait in a descriptor
\* or are queued, and what the runner executes; a descriptor that is queued
\* counts for nothing, but costs a work_finished() when it is executed.
WorkBalance ==
  outstanding =   (IF work THEN 1 ELSE 0)
                + Cardinality(Pending)
                + (IF pc \in {"handler", "finish"} THEN 1 ELSE 0)

\* Operations and descriptor_states are nodes of linked lists.  None is queued
\* in the scheduler while it is queued already, although the socket of a state
\* may have been closed and the state given to another one in the meantime; nor
\* is an operation queued that still waits in a descriptor.
QueuedOnce ==
  /\ \A i, j \in DOMAIN queue : queue[i] = queue[j] => i = j
  /\ ToSet(queue) \cap AllWaiting = {}

\* Whether the runner will try the operations of direction q in s: epoll lists
\* the socket, or the state is queued or about to perform, with such an event.
WillTry(s, f, q) ==
  \/ edge[f] /\ Reported(f) \cap {q, "err"} # {}
  \/ s \in ToSet(queue) /\ result[s] \cap {q, "err"} # {}
  \/ pc = "perform" /\ current = s /\ result[current] \cap {q, "err"} # {}

\* No operation is forgotten: it waits in the state of its own socket, not in
\* one that went back to the pool, and no edge is lost: if it waits although the
\* socket is ready it will be tried.
NoneForgotten ==
  \A s \in States : \A o \in Waiting(s) :
    /\ data[Fd[o]] = s
    /\ CanPerform(o) => WillTry(s, Fd[o], Direction(o))

\* A connect is completed, other than by a close, only when the network has
\* decided it: events that were not meant for it do not complete it.
ConnectDecided ==
  \A o \in begun \ (aborted \cup AllWaiting) :
    Kind[o] = "connect" => conn[Fd[o]] # "syn"

\* An operation whose socket is ready does not wait for ever, unless it was
\* started after outstanding_work_ had gone to zero: run() may return first then.
Over == stopped \/ stopping \/ pc = "stop"
ReadyCompletes ==
  \A o \in Ops :
    (o \in AllWaiting /\ CanPerform(o) /\ ~Over) ~> o \notin AllWaiting
============================================================================
