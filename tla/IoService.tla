----------------------------- MODULE IoService -----------------------------
(***************************************************************************)
(* What an asio::io_service promises the benchmark programs: a handler     *)
(* that is posted while something keeps the service is begun exactly once, *)
(* by one of the threads in run(), and run() returns only when nothing     *)
(* does: no io_service::work object, and no handler or asynchronous        *)
(* operation that was begun in time.  Of what is begun later nothing is    *)
(* promised.  TaskIoService is the machinery that implements it.           *)
(***************************************************************************)
EXTENDS FiniteSets, Naturals

CONSTANTS
  Threads,    \* the threads that call run()
  Works,      \* the io_service::work objects that exist at the beginning
  Ops         \* the operations: posted handlers and asynchronous operations

VARIABLES
  works,      \* the work objects not yet destroyed
  awaited,    \* asynchronous operations whose event has not arrived
  pending,    \* operations due to run
  running,    \* operations whose handler is executing
  done,       \* operations whose handler has returned
  late,       \* operations begun when nothing kept the service
  returned    \* threads whose run() has returned

vars == <<works, awaited, pending, running, done, late, returned>>

Live == awaited \cup pending \cup running

\* Whether run() still has a reason to keep its threads.
Kept == works # {} \/ Live \ late # {}

Init ==
  /\ works = Works
  /\ awaited = {}
  /\ pending = {}
  /\ running = {}
  /\ done = {}
  /\ late = {}
  /\ returned = {}

Fresh(o) == o \notin Live \cup done

MarkIfLate(o) == late' = IF Kept THEN late ELSE late \cup {o}

\* A handler, or any other thread, posts a handler.
Post(o) ==
  /\ Fresh(o)
  /\ pending' = pending \cup {o}
  /\ MarkIfLate(o)
  /\ UNCHANGED <<works, awaited, running, done, returned>>

\* ... or starts an asynchronous operation,
Start(o) ==
  /\ Fresh(o)
  /\ awaited' = awaited \cup {o}
  /\ MarkIfLate(o)
  /\ UNCHANGED <<works, pending, running, done, returned>>

\* whose event arrives at some later time, or never.
Arrive(o) ==
  /\ o \in awaited
  /\ awaited' = awaited \ {o}
  /\ pending' = pending \cup {o}
  /\ UNCHANGED <<works, running, done, late, returned>>

Drop(w) ==
  /\ w \in works
  /\ works' = works \ {w}
  /\ UNCHANGED <<awaited, pending, running, done, late, returned>>

\* A thread in run() that executes nothing begins the handler of o.
Begin(o) ==
  /\ o \in pending
  /\ Cardinality(running) < Cardinality(Threads \ returned)
  /\ pending' = pending \ {o}
  /\ running' = running \cup {o}
  /\ UNCHANGED <<works, awaited, done, late, returned>>

End(o) ==
  /\ o \in running
  /\ running' = running \ {o}
  /\ done' = done \cup {o}
  /\ UNCHANGED <<works, awaited, pending, late, returned>>

\* A thread that executes nothing returns.
Return(t) ==
  /\ ~Kept
  /\ t \notin returned
  /\ Cardinality(running) < Cardinality(Threads \ returned)
  /\ returned' = returned \cup {t}
  /\ UNCHANGED <<works, awaited, pending, running, done, late>>

Next ==
  \/ \E o \in Ops : Post(o) \/ Start(o) \/ Arrive(o) \/ Begin(o) \/ End(o)
  \/ \E w \in Works : Drop(w)
  \/ \E t \in Threads : Return(t)

\* Handlers are short and threads are scheduled; when events arrive is up to
\* the environment.
Fairness ==
  /\ \A o \in Ops : WF_vars(Begin(o)) /\ WF_vars(End(o))
  /\ \A t \in Threads : WF_vars(Return(t))

Spec == Init /\ [][Next]_vars /\ Fairness
=============================================================================
