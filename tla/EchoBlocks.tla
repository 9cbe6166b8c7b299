----------------------------- MODULE EchoBlocks -----------------------------
(***************************************************************************)
(* client1.cpp and server1.cpp: sessions that send blocks of a fixed size,  *)
(* each answered by the server with the same block, and what surrounds      *)
(* them: the threads of the client with a service each, main which starts   *)
(* the sessions, the stop timer that ends them while main may still be      *)
(* starting some, and the server's chain of accepts.                        *)
(*                                                                          *)
(* A session has one asynchronous operation at a time; async_write and      *)
(* async_read go on until the whole block is through.  An operation may     *)
(* have completed and its handler still be queued.  The handlers of a       *)
(* service are executed one at a time, in any order.  main and a handler    *)
(* may use the socket of a session at the same time, without a lock:        *)
(* open(), connect() and close() are taken as one step each.  What is still *)
(* on its way when a connection breaks or is closed is dropped: nobody's    *)
(* later steps depend on it.                                                *)
(***************************************************************************)
EXTENDS Integers, FiniteSets

CONSTANTS
  SessionCount,  \* session_count
  ThreadCounts,  \* what thread_count_ may be
  BlockSize,     \* block_size_, of both programs
  MaxBroken,     \* bound: how many connections the network refuses or breaks
  Space          \* how many bytes the sockets hold in one direction

ASSUME BlockConstants ==
  /\ ThreadCounts \subseteq Nat \ {0} /\ {SessionCount, MaxBroken} \subseteq Nat
  /\ {BlockSize, Space} \subseteq Nat \ {0}

VARIABLES
  \* the client
  threadCount, \* thread_count_: threads, each with a service of its own
  main,     \* "start", "connect", "wait", "done"
  starting, \* the session main has opened and is about to connect
  started,  \* the sessions whose start() has returned
  timer,    \* stop_timer_: "idle", "set", "posting" in its handler, "done"
  work,     \* io_works_
  thread,   \* thread[t]: "run", "returned" or "threw"
  opened,   \* opened[s]: whether the socket of the session is open
  op,       \* op[s]: its operation, see Operations
  result,   \* result[s]: "pending", or how it ended with its handler queued
  left,     \* left[s]: how many bytes of the block it has still to transfer
  stop,     \* stop[s]: "no", "posted", "done" (which is want_close_)
  error,    \* error_
  \* the server
  accept,    \* of the acceptor: "waiting", or "failed" for good, or "none"
  serverOp,  \* serverOp[s]: the operation of the session that serves s
  serverLeft,
  \* the network
  conn,      \* conn[s]: "none", "syn", "up", "broken", "closed" by the client
  toServer, toClient   \* bytes on their way

Sessions == 0 .. SessionCount - 1
Threads  == 0 .. threadCount - 1
ThreadOf(s) == s % threadCount

Operations == {"none", "connect", "write", "read"}

mainVars    == <<threadCount, main, starting, started>>
timerVars   == <<timer, work>>
sessionVars == <<opened, op, result, left, stop, error>>
serverVars  == <<accept, serverOp, serverLeft>>
netVars     == <<conn, toServer, toClient>>
vars == <<mainVars, timerVars, thread, sessionVars, serverVars, netVars>>

TypeOK ==
  /\ threadCount \in ThreadCounts
  /\ main \in {"start", "connect", "wait", "done"}
  /\ starting \subseteq Sessions /\ started \subseteq Sessions
  /\ timer \in {"idle", "set", "posting", "done"}
  /\ work \in [Threads -> BOOLEAN]
  /\ thread \in [Threads -> {"run", "returned", "threw"}]
  /\ opened \in [Sessions -> BOOLEAN]
  /\ op \in [Sessions -> Operations]
  /\ result \in [Sessions -> {"pending", "ok", "failed"}]
  /\ left \in [Sessions -> 0 .. BlockSize]
  /\ stop \in [Sessions -> {"no", "posted", "done"}]
  /\ error \in [Sessions -> BOOLEAN]
  /\ accept \in {"waiting", "failed"}
  /\ serverOp \in [Sessions -> {"none", "write", "read", "ended"}]
  /\ serverLeft \in [Sessions -> 0 .. BlockSize]
  /\ conn \in [Sessions -> {"none", "syn", "up", "broken", "closed"}]
  /\ toServer \in [Sessions -> 0 .. Space]
  /\ toClient \in [Sessions -> 0 .. Space]

\* Both constructors have run and the server has called accept().
Init ==
  /\ threadCount \in ThreadCounts
  /\ main = "start" /\ starting = {} /\ started = {}
  /\ timer = "idle"
  /\ work = [t \in Threads |-> TRUE]
  /\ thread = [t \in Threads |-> "run"]
  /\ opened = [s \in Sessions |-> FALSE]
  /\ op = [s \in Sessions |-> "none"]
  /\ result = [s \in Sessions |-> "pending"]
  /\ left = [s \in Sessions |-> 0]
  /\ stop = [s \in Sessions |-> "no"]
  /\ error = [s \in Sessions |-> FALSE]
  /\ accept = "waiting"
  /\ serverOp = [s \in Sessions |-> "none"]
  /\ serverLeft = [s \in Sessions |-> 0]
  /\ conn = [s \in Sessions |-> "none"]
  /\ toServer = [s \in Sessions |-> 0]
  /\ toClient = [s \in Sessions |-> 0]

-----------------------------------------------------------------------------
(* main: client::start() and wait().                                        *)

SetTimer ==
  /\ main = "start" /\ timer = "idle"
  /\ timer' = "set"
  /\ UNCHANGED <<mainVars, work, thread, sessionVars, serverVars, netVars>>

\* start() of the next session: async_connect() opens the socket ...
Open(s) ==
  /\ main = "start" /\ timer # "idle"
  /\ s \notin started
  /\ main' = "connect" /\ starting' = {s}
  /\ opened' = [opened EXCEPT ![s] = TRUE]
  /\ UNCHANGED <<threadCount, started, timerVars, thread, op, result, left, stop, error,
                 serverVars, netVars>>

\* ... and connects it, at once or later; if it has been closed in the meantime
\* that is a bad descriptor.
Connect(s) ==
  /\ main = "connect" /\ s \in starting
  /\ main' = "start" /\ starting' = {} /\ started' = started \cup {s}
  /\ op' = [op EXCEPT ![s] = "connect"]
  /\ \E r \in IF opened[s] THEN {"pending", "ok", "failed"} ELSE {"failed"} :
       /\ result' = [result EXCEPT ![s] = r]
       /\ conn' = [conn EXCEPT ![s] = CASE r = "ok" -> "up"
                                        [] r = "pending" -> "syn"
                                        [] OTHER -> @]
  /\ UNCHANGED <<threadCount, timerVars, thread, opened, left, stop, error, serverVars,
                 toServer, toClient>>

EndStart ==
  /\ main = "start" /\ started = Sessions /\ timer # "idle"
  /\ main' = "wait"
  /\ UNCHANGED <<threadCount, starting, started, timerVars, thread, sessionVars, serverVars,
                 netVars>>

\* wait(): every thread is joined.
Join ==
  /\ main = "wait"
  /\ \A t \in Threads : thread[t] # "run"
  /\ main' = "done"
  /\ UNCHANGED <<threadCount, starting, started, timerVars, thread, sessionVars, serverVars,
                 netVars>>

-----------------------------------------------------------------------------
(* The threads.                                                             *)

\* The thread may begin a handler.
Idle(t) == thread[t] = "run" /\ (t = 0 => timer # "posting")

\* Mutant of FireTimer: only the work of the timer's own service is destroyed.
FireTimerOwnWork ==
  /\ timer = "set" /\ Idle(0)
  /\ timer' = "posting"
  /\ work' = [work EXCEPT ![0] = FALSE]
  /\ UNCHANGED <<mainVars, thread, sessionVars, serverVars, netVars>>

\* The timer's handler: the works are destroyed ...
FireTimer ==
  /\ timer = "set" /\ Idle(0)
  /\ timer' = "posting"
  /\ work' = [t \in Threads |-> FALSE]
  /\ UNCHANGED <<mainVars, thread, sessionVars, serverVars, netVars>>

\* ... and each session's stop() is posted to its service.
PostStops ==
  /\ timer = "posting"
  /\ timer' = "done"
  /\ stop' = [s \in Sessions |-> "posted"]
  /\ UNCHANGED <<mainVars, work, thread, opened, op, result, left, error,
                 serverVars, netVars>>

\* Mutant of Stop: want_close_ is not set.
StopSilently(s) ==
  /\ Idle(ThreadOf(s)) /\ stop[s] = "posted"
  /\ stop' = [stop EXCEPT ![s] = "no"]
  /\ opened' = [opened EXCEPT ![s] = FALSE]
  /\ conn' = [conn EXCEPT ![s] = IF opened[s] /\ @ # "broken" THEN "closed" ELSE @]
  /\ result' = [result EXCEPT ![s] =
       IF opened[s] /\ op[s] # "none" /\ @ = "pending" THEN "failed" ELSE @]
  /\ toServer' = [toServer EXCEPT ![s] = 0]
  /\ toClient' = [toClient EXCEPT ![s] = 0]
  /\ UNCHANGED <<mainVars, timerVars, thread, op, left, error, serverVars>>

\* The handler that stop() has posted: want_close_, and close(), which aborts
\* the operation that waits.
Stop(s) ==
  /\ Idle(ThreadOf(s)) /\ stop[s] = "posted"
  /\ stop' = [stop EXCEPT ![s] = "done"]
  /\ opened' = [opened EXCEPT ![s] = FALSE]
  /\ conn' = [conn EXCEPT ![s] = IF opened[s] /\ @ # "broken" THEN "closed" ELSE @]
  /\ result' = [result EXCEPT ![s] =
       IF opened[s] /\ op[s] # "none" /\ @ = "pending" THEN "failed" ELSE @]
  /\ toServer' = [toServer EXCEPT ![s] = 0]
  /\ toClient' = [toClient EXCEPT ![s] = 0]
  /\ UNCHANGED <<mainVars, timerVars, thread, op, left, error, serverVars>>

\* write() or read(): a composed operation for a whole block; on a closed
\* socket it fails at once.
Begin(s, next) ==
  /\ op' = [op EXCEPT ![s] = next]
  /\ left' = [left EXCEPT ![s] = BlockSize]
  /\ result' = [result EXCEPT ![s] = IF opened[s] THEN "pending" ELSE "failed"]

\* The session starts no other operation.
End(s) ==
  /\ op' = [op EXCEPT ![s] = "none"]
  /\ result' = [result EXCEPT ![s] = "pending"]
  /\ left' = [left EXCEPT ![s] = 0]

\* The handler of async_connect.  A failure is not an error of the session; and
\* when stop() has closed the socket after the connection was made set_option()
\* throws, which ends the thread's run().
Connected(s) ==
  /\ Idle(ThreadOf(s))
  /\ op[s] = "connect" /\ result[s] # "pending"
  /\ IF result[s] = "ok" /\ opened[s] THEN Begin(s, "write") ELSE End(s)
  /\ thread' = [thread EXCEPT ![ThreadOf(s)] =
       IF result[s] = "ok" /\ ~opened[s] THEN "threw" ELSE @]
  /\ UNCHANGED <<mainVars, timerVars, opened, stop, error, serverVars, netVars>>

\* The handler of async_write or async_read.
Transferred(s) ==
  /\ Idle(ThreadOf(s))
  /\ op[s] \in {"write", "read"} /\ result[s] # "pending"
  /\ IF result[s] = "ok"
     THEN Begin(s, IF op[s] = "write" THEN "read" ELSE "write")
     ELSE End(s)
  /\ error' = [error EXCEPT ![s] = @ \/ (result[s] = "failed" /\ stop[s] # "done")]
  /\ UNCHANGED <<mainVars, timerVars, thread, opened, stop, serverVars, netVars>>

\* What keeps the service of a thread going.
Busy(t) ==
  \/ work[t]
  \/ t = 0 /\ timer # "done"
  \/ \E s \in Sessions : ThreadOf(s) = t /\ (op[s] # "none" \/ stop[s] = "posted")

RunReturns(t) ==
  /\ Idle(t) /\ ~Busy(t)
  /\ thread' = [thread EXCEPT ![t] = "returned"]
  /\ UNCHANGED <<mainVars, timerVars, sessionVars, serverVars, netVars>>

-----------------------------------------------------------------------------
(* The sockets of the client, in the reactor of a thread.                   *)

\* An operation that waits is performed by the thread.
InReactor(s, o) == Idle(ThreadOf(s)) /\ op[s] = o /\ result[s] = "pending"

Complete(s, r) == result' = [result EXCEPT ![s] = r]

\* The connect is decided.
PerformConnect(s) ==
  /\ InReactor(s, "connect") /\ conn[s] \in {"up", "broken"}
  /\ Complete(s, IF conn[s] = "up" THEN "ok" ELSE "failed")
  /\ UNCHANGED <<mainVars, timerVars, thread, opened, op, left, stop, error,
                 serverVars, netVars>>

\* A part of the block is sent; after the last one the handler is queued.
PerformWrite(s) ==
  /\ InReactor(s, "write") /\ conn[s] = "up"
  /\ \E n \in 1 .. left[s] :
       /\ toServer[s] + n <= Space
       /\ toServer' = [toServer EXCEPT ![s] = @ + n]
       /\ left' = [left EXCEPT ![s] = @ - n]
       /\ Complete(s, IF n = left[s] THEN "ok" ELSE "pending")
  /\ UNCHANGED <<mainVars, timerVars, thread, opened, op, stop, error,
                 serverVars, conn, toClient>>

\* A part of the block is received.
PerformRead(s) ==
  /\ InReactor(s, "read") /\ conn[s] = "up"
  /\ \E n \in 1 .. left[s] :
       /\ n <= toClient[s]
       /\ toClient' = [toClient EXCEPT ![s] = @ - n]
       /\ left' = [left EXCEPT ![s] = @ - n]
       /\ Complete(s, IF n = left[s] THEN "ok" ELSE "pending")
  /\ UNCHANGED <<mainVars, timerVars, thread, opened, op, stop, error,
                 serverVars, conn, toServer>>

PerformFails(s) ==
  /\ InReactor(s, "write") \/ InReactor(s, "read")
  /\ conn[s] = "broken"
  /\ Complete(s, "failed")
  /\ UNCHANGED <<mainVars, timerVars, thread, opened, op, left, stop, error,
                 serverVars, netVars>>

-----------------------------------------------------------------------------
(* The server.  Nobody else closes its sockets, so an operation and its     *)
(* handler are one step; it runs until it is killed.                        *)

\* Mutant of Accept: the handler does not accept the next one.
AcceptOnce(s) ==
  /\ accept = "waiting" /\ conn[s] \in {"up", "broken", "closed"}
  /\ serverOp[s] = "none"
  /\ serverOp' = [serverOp EXCEPT ![s] = "read"]
  /\ serverLeft' = [serverLeft EXCEPT ![s] = BlockSize]
  /\ accept' = "none"
  /\ UNCHANGED <<mainVars, timerVars, thread, sessionVars, netVars>>

\* The handler of async_accept: the session reads its first block, and the next
\* one is accepted.
Accept(s) ==
  /\ accept = "waiting" /\ conn[s] \in {"up", "broken", "closed"}
  /\ serverOp[s] = "none"
  /\ serverOp' = [serverOp EXCEPT ![s] = "read"]
  /\ serverLeft' = [serverLeft EXCEPT ![s] = BlockSize]
  /\ UNCHANGED <<accept, mainVars, timerVars, thread, sessionVars, netVars>>

\* The accept fails, for want of descriptors, and no other follows.
AcceptFails ==
  /\ accept = "waiting"
  /\ accept' = "failed"
  /\ UNCHANGED <<mainVars, timerVars, thread, sessionVars, serverOp, serverLeft,
                 netVars>>

\* After n more bytes the server's operation goes on, or the other one begins.
ServerGoesOn(s, n, next) ==
  /\ serverLeft' = [serverLeft EXCEPT ![s] = IF n = @ THEN BlockSize ELSE @ - n]
  /\ serverOp' = [serverOp EXCEPT ![s] = IF n = serverLeft[s] THEN next ELSE @]

ServerRead(s) ==
  /\ serverOp[s] = "read" /\ conn[s] = "up"
  /\ \E n \in 1 .. serverLeft[s] :
       /\ n <= toServer[s]
       /\ toServer' = [toServer EXCEPT ![s] = @ - n]
       /\ ServerGoesOn(s, n, "write")
  /\ UNCHANGED <<mainVars, timerVars, thread, sessionVars, accept, conn,
                 toClient>>

ServerWrite(s) ==
  /\ serverOp[s] = "write" /\ conn[s] = "up"
  /\ \E n \in 1 .. serverLeft[s] :
       /\ toClient[s] + n <= Space
       /\ toClient' = [toClient EXCEPT ![s] = @ + n]
       /\ ServerGoesOn(s, n, "read")
  /\ UNCHANGED <<mainVars, timerVars, thread, sessionVars, accept, conn,
                 toServer>>

\* Its operation fails; the last shared_ptr goes and the socket is closed.
ServerFails(s) ==
  /\ serverOp[s] \in {"read", "write"} /\ conn[s] \in {"broken", "closed"}
  /\ serverOp' = [serverOp EXCEPT ![s] = "ended"]
  /\ serverLeft' = [serverLeft EXCEPT ![s] = 0]
  /\ UNCHANGED <<mainVars, timerVars, thread, sessionVars, accept, netVars>>

-----------------------------------------------------------------------------
(* The network.                                                             *)

Network(s, from, to) ==
  /\ conn[s] = from
  /\ conn' = [conn EXCEPT ![s] = to]
  /\ toServer' = [toServer EXCEPT ![s] = 0]
  /\ toClient' = [toClient EXCEPT ![s] = 0]
  /\ UNCHANGED <<mainVars, timerVars, thread, sessionVars, serverVars>>

Establish(s) == Network(s, "syn", "up")
Refuse(s)    == Network(s, "syn", "broken")
Break(s)     == Network(s, "up", "broken")

-----------------------------------------------------------------------------
Main == SetTimer \/ EndStart \/ Join \/ \E s \in Sessions : Open(s) \/ Connect(s)

Handler(s)  == Stop(s) \/ Connected(s) \/ Transferred(s)
Reactor(s)  == PerformConnect(s) \/ PerformWrite(s) \/ PerformRead(s) \/ PerformFails(s)
Server(s)   == Accept(s) \/ ServerRead(s) \/ ServerWrite(s) \/ ServerFails(s)
Failures(s) == Cardinality({r \in Sessions : conn[r] = "broken"}) < MaxBroken
               /\ (Refuse(s) \/ Break(s))

\* The session has been started after it was stopped, and nobody stops it again.
StoppedTooEarly(s) == stop[s] = "done" /\ opened[s]

\* main has returned, or waits for a session that nothing may happen to.
Terminated ==
  /\ main = "done" \/ \E s \in Sessions : StoppedTooEarly(s)
  /\ UNCHANGED vars

Next ==
  \/ Main \/ FireTimer \/ PostStops \/ AcceptFails \/ Terminated
  \/ \E t \in Threads : RunReturns(t)
  \/ \E s \in Sessions :
       Handler(s) \/ Reactor(s) \/ Server(s) \/ Establish(s) \/ Failures(s)

\* The threads are scheduled and execute every handler that is queued, and so
\* are the server's.  The network owes nothing but the bytes of a connection,
\* and timeout_ may be as long as one likes: nothing makes the timer fire.
Fairness ==
  /\ WF_vars(Main) /\ WF_vars(PostStops)
  /\ WF_vars(\E t \in Threads : RunReturns(t))
  /\ \A s \in Sessions :
       /\ WF_vars(Stop(s)) /\ WF_vars(Connected(s) \/ Transferred(s))
       /\ WF_vars(Reactor(s)) /\ WF_vars(Server(s))

Spec == Init /\ [][Next]_vars /\ Fairness

-----------------------------------------------------------------------------
(* Properties.                                                              *)

\* An error is recorded only for a connection that the network has broken:
\* neither the stop timer, whatever it meets, nor a connect that fails.
ErrorMeansFailure ==
  \A s \in Sessions : error[s] => conn[s] = "broken"

\* Once the timer has fired wait() returns, wherever main and the sessions are
\* then, unless a session was stopped before it was started.
ClientEnds ==
  timer = "posting" ~> main = "done" \/ \E s \in Sessions : StoppedTooEarly(s)

\* A block that a session begins to write goes out and comes back, however long
\* the timer takes, unless the connection breaks, the session is stopped, a
\* failed accept has ended the chain before its turn, or another session of its
\* thread made set_option() throw.
BlockComesBack ==
  \A s \in Sessions :
    op[s] = "write" ~> \/ op[s] = "read" /\ result[s] = "ok"
                       \/ op[s] = "none"
                       \/ conn[s] = "broken"
                       \/ accept = "failed" /\ serverOp[s] = "none"
                       \/ thread[ThreadOf(s)] = "threw"
============================================================================
