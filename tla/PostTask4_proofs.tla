-------------------------- MODULE PostTask4_proofs --------------------------
(***************************************************************************)
(* Proofs of the safety properties of PostTask4, for every PostCount, and  *)
(* that PostTask5, an instance, is PostTask4 with its batches taken apart. *)
(***************************************************************************)
EXTENDS PostTask4, TLAPS

\* What the batch holds at each place of the handler: nothing before the swap,
\* something after it.
BatchInv ==
  /\ wpc = "swap" => batching /\ temp = 0
  /\ wpc = "sum" => temp > 0
  /\ wpc = "check" => count > 0
  /\ ~batching => pending = 0 /\ mpc # "need_post"

\* The order in which the two threads wind down.
ExitInv ==
  /\ mpc \in {"wait", "join", "done"} => posted = PostCount
  /\ ~work => mpc \in {"join", "done"}
  /\ wpc = "exited" => ~work /\ handlers = 0
  /\ mpc = "done" => wpc = "exited"

\* stop_time_ has been written once the last batch has been checked, and only
\* then.
StampInv ==
  stamps = One(PostCount > 0 /\ count = PostCount /\ wpc # "check")

\* The inductive invariant.  The two handshake properties do not suffice: that
\* the handler finds a task is needed to see that stop_time_ is written once,
\* and the order of the exit to see what is left when main returns.
IInv ==
  /\ TypeOK
  /\ OneHandlerPerBatch
  /\ TasksConserved
  /\ BatchInv
  /\ ExitInv
  /\ StampInv

\* The initial states satisfy the inductive invariant.
LEMMA InitIInv == Init => IInv
  BY PostCountAssumption
  DEF Init, IInv, TypeOK, OneHandlerPerBatch, TasksConserved, BatchInv,
      ExitInv, StampInv, One

\* No step of main invalidates it.
LEMMA MainIInv ==
  ASSUME IInv, Main
  PROVE  IInv'
<1> USE PostCountAssumption
    DEF IInv, TypeOK, OneHandlerPerBatch, TasksConserved, BatchInv, ExitInv,
        StampInv, One, workerVars
<1>1. CASE Push
  BY <1>1 DEF Push
<1>2. CASE PostHandler
  BY <1>2 DEF PostHandler
<1>3. CASE EndStart
  BY <1>3 DEF EndStart
<1>4. CASE ResetWork
  BY <1>4 DEF ResetWork
<1>5. CASE Join
  BY <1>5 DEF Join
<1>6. CASE PostTask
  BY <1>6 DEF PostTask
<1>7. QED
  BY <1>1, <1>2, <1>3, <1>4, <1>5, <1>6 DEF Main

\* No step of the worker invalidates it.
LEMMA WorkerIInv ==
  ASSUME IInv, Worker
  PROVE  IInv'
<1> USE PostCountAssumption
    DEF IInv, TypeOK, OneHandlerPerBatch, TasksConserved, BatchInv, ExitInv,
        StampInv, One, mainVars
<1>1. CASE BeginHandler
  BY <1>1 DEF BeginHandler
<1>2. CASE Swap
  BY <1>2 DEF Swap
<1>3. CASE Sum
  BY <1>3 DEF Sum
<1>4. CASE Check
  BY <1>4 DEF Check
<1>5. CASE RunReturns
  BY <1>5 DEF RunReturns
<1>6. CASE BeginTask
  BY <1>6 DEF BeginTask
<1>7. QED
  BY <1>1, <1>2, <1>3, <1>4, <1>5, <1>6 DEF Worker

\* The inductive invariant is one.
LEMMA NextIInv == IInv /\ [Next]_vars => IInv'
<1> SUFFICES ASSUME IInv, [Next]_vars
             PROVE  IInv'
  OBVIOUS
<1>1. CASE Main
  BY <1>1, MainIInv
<1>2. CASE Worker
  BY <1>2, WorkerIInv
<1>3. CASE UNCHANGED vars
  BY <1>3
  DEF IInv, TypeOK, OneHandlerPerBatch, TasksConserved, BatchInv, ExitInv,
      StampInv, One, vars
<1>4. QED
  BY <1>1, <1>2, <1>3 DEF Next, Terminated

\* The inductive invariant holds in every reachable state.
THEOREM Invariance == Spec => []IInv
  BY InitIInv, NextIInv, PTL DEF Spec

-----------------------------------------------------------------------------

\* No state of the program is ill-typed; in particular no counter of the
\* handshake goes below zero.
THEOREM TypeCorrect == Spec => []TypeOK
<1>1. IInv => TypeOK
  BY DEF IInv
<1>2. QED
  BY <1>1, Invariance, PTL

\* The need_post handshake: exactly one handler is on its way to the pending
\* tasks as long as there are any, for every number of tasks.
THEOREM HandshakeCorrect == Spec => []OneHandlerPerBatch
<1>1. IInv => OneHandlerPerBatch
  BY DEF IInv
<1>2. QED
  BY <1>1, Invariance, PTL

\* No task is lost or executed twice, for every number of tasks.
THEOREM TasksNeverLost == Spec => []TasksConserved
<1>1. IInv => TasksConserved
  BY DEF IInv
<1>2. QED
  BY <1>1, Invariance, PTL

\* When main returns from wait() every task has been executed: the worker has
\* exited without a handler queued, so by the handshake nothing is pending.
LEMMA DoneAtExit ==
  ASSUME IInv, wpc = "exited"
  PROVE  count = PostCount
<1>1. handlers = 0 /\ mpc \in {"join", "done"} /\ posted = PostCount
  BY DEF IInv, ExitInv, TypeOK
<1>2. pending = 0
  BY <1>1 DEF IInv, OneHandlerPerBatch, BatchInv, One, TypeOK
<1>3. QED
  BY <1>1, <1>2, PostCountAssumption DEF IInv, TasksConserved, One, TypeOK

\* wait() returns with the target reached and the time taken.
THEOREM ReturnCorrect == Spec => []AllDoneAtReturn
<1>1. IInv => AllDoneAtReturn
  <2> SUFFICES ASSUME IInv, mpc = "done"
               PROVE  count = PostCount /\ stamps = One(PostCount > 0)
    BY DEF AllDoneAtReturn
  <2>1. wpc = "exited"
    BY DEF IInv, ExitInv
  <2>2. count = PostCount
    BY <2>1, DoneAtExit
  <2>3. stamps = One(PostCount > 0)
    BY <2>1, <2>2 DEF IInv, StampInv
  <2>4. QED
    BY <2>2, <2>3
<1>2. QED
  BY <1>1, Invariance, PTL

\* Nothing is executed after stop_time_ has been written.
THEOREM StampFinal == Spec => StampIsFinal
<1>1. IInv /\ [Next]_vars => [stamps > 0 => UNCHANGED <<count, stamps>>]_vars
  <2> SUFFICES ASSUME IInv, [Next]_vars, stamps > 0
               PROVE  UNCHANGED <<count, stamps>>
    OBVIOUS
  <2>1. count = PostCount /\ wpc # "check"
    BY DEF IInv, StampInv, One, TypeOK
  <2>2. wpc # "sum"
    BY <2>1, PostCountAssumption
    DEF IInv, TypeOK, TasksConserved, BatchInv, One
  <2>3. CASE Main
    BY <2>3 DEF Main, Push, PostHandler, PostTask, EndStart, ResetWork, Join, workerVars
  <2>4. CASE Worker
    BY <2>4, <2>1, <2>2 DEF Worker, BeginHandler, BeginTask, Swap, Sum, Check, RunReturns
  <2>5. CASE UNCHANGED vars
    BY <2>5 DEF vars
  <2>6. QED
    BY <2>3, <2>4, <2>5 DEF Next, Terminated
<1>2. QED
  BY <1>1, Invariance, PTL DEF Spec, StampIsFinal

\* The safety part of the refinement: the program takes only the steps of the
\* counter that TaskCounter promises.  A batch is one Execute, the join is the
\* Return, and every other step leaves the counter alone.
CounterSafety == Counter!Init /\ [][Counter!Next]_(Counter!vars)

THEOREM CounterRefined == Spec => CounterSafety
<1>1. Init => Counter!Init
  BY DEF Init, Counter!Init
<1>2. IInv /\ [Next]_vars => [Counter!Next]_(Counter!vars)
  <2> SUFFICES ASSUME IInv, [Next]_vars
               PROVE  [Counter!Next]_(Counter!vars)
    OBVIOUS
  <2>1. CASE Sum
    <3>1. count' \in count + 1 .. PostCount
      BY <2>1, PostCountAssumption
      DEF Sum, mainVars, IInv, TypeOK, TasksConserved, BatchInv, One
    <3>2. mpc # "done" /\ mpc' = mpc
      BY <2>1 DEF Sum, mainVars, IInv, ExitInv
    <3>3. QED
      BY <3>1, <3>2 DEF Counter!Next, Counter!Execute
  <2>2. CASE Join
    <3>1. count = PostCount
      BY <2>2, DoneAtExit DEF Join
    <3>2. QED
      BY <2>2, <3>1 DEF Join, workerVars, Counter!Next, Counter!Return
  <2>3. CASE Push \/ PostHandler \/ PostTask \/ EndStart \/ ResetWork
    BY <2>3 DEF Push, PostHandler, PostTask, EndStart, ResetWork, workerVars, Counter!vars
  <2>4. CASE BeginHandler \/ BeginTask \/ Swap \/ Check \/ RunReturns
    BY <2>4 DEF BeginHandler, BeginTask, Swap, Check, RunReturns, mainVars, Counter!vars
  <2>5. CASE UNCHANGED vars
    BY <2>5 DEF vars, Counter!vars
  <2>6. QED
    BY <2>1, <2>2, <2>3, <2>4, <2>5 DEF Next, Main, Worker, Terminated
<1>3. QED
  BY <1>1, <1>2, Invariance, PTL DEF Spec, CounterSafety

-----------------------------------------------------------------------------
(* posttask5.cpp, with the same handshake and the tasks run one by one.       *)

VARIABLE ran

Five == INSTANCE PostTask5

\* The handler enters the loop with none of its tasks run.
FiveInv == Five!TypeOK /\ (wpc = "swap" => ran = 0)

\* The initial states map to initial states.
LEMMA FiveInit == Five!Init => FiveInv /\ Five!Batch4!Init
  BY PostCountAssumption DEF Five!Init, FiveInv, Five!TypeOK, Five!Batch4!Init

\* Each step of main is the same step of posttask4.
LEMMA FiveMain ==
  ASSUME FiveInv, Five!Main
  PROVE  FiveInv' /\ Five!Batch4!Main
<1> USE PostCountAssumption
    DEF FiveInv, Five!TypeOK, Five!Batch4!Main, Five!Batch4!workerVars
<1>1. CASE Five!Push
  BY <1>1 DEF Five!Push, Five!Batch4!Push
<1>2. CASE Five!PostHandler
  BY <1>2 DEF Five!PostHandler, Five!Batch4!PostHandler
<1>3. CASE Five!EndStart
  BY <1>3 DEF Five!EndStart, Five!Batch4!EndStart
<1>4. CASE Five!ResetWork
  BY <1>4 DEF Five!ResetWork, Five!Batch4!ResetWork
<1>5. CASE Five!Join
  BY <1>5 DEF Five!Join, Five!Batch4!Join
<1>6. QED
  BY <1>1, <1>2, <1>3, <1>4, <1>5 DEF Five!Main

\* Each step of the worker is a step of posttask4's, except that a task that it
\* runs does not show until the batch is through.
LEMMA FiveWorker ==
  ASSUME FiveInv, Five!Worker
  PROVE  /\ FiveInv'
         /\ Five!Batch4!Worker \/ UNCHANGED Five!Batch4!vars
<1> USE DEF FiveInv, Five!TypeOK, Five!mainVars, Five!Batch4!Worker, Five!Batch4!mainVars
<1>1. CASE Five!BeginHandler
  BY <1>1 DEF Five!BeginHandler, Five!Batch4!BeginHandler
<1>2. CASE Five!Swap
  BY <1>2 DEF Five!Swap, Five!Batch4!Swap
<1>3. CASE Five!RunTask
  BY <1>3 DEF Five!RunTask, Five!Batch4!vars
<1>4. CASE Five!EndTasks
  BY <1>4 DEF Five!EndTasks, Five!Batch4!Sum
<1>5. CASE Five!Check
  BY <1>5 DEF Five!Check, Five!Batch4!Check
<1>6. CASE Five!RunReturns
  BY <1>6 DEF Five!RunReturns, Five!Batch4!RunReturns
<1>7. QED
  BY <1>1, <1>2, <1>3, <1>4, <1>5, <1>6 DEF Five!Worker

\* Every step maps to a step or a stutter.
LEMMA FiveNext ==
  FiveInv /\ [Five!Next]_(Five!vars) =>
    FiveInv' /\ [Five!Batch4!Next]_(Five!Batch4!vars)
<1> SUFFICES ASSUME FiveInv, [Five!Next]_(Five!vars)
             PROVE  FiveInv' /\ [Five!Batch4!Next]_(Five!Batch4!vars)
  OBVIOUS
<1>1. CASE Five!Main
  BY <1>1, FiveMain DEF Five!Batch4!Next
<1>2. CASE Five!Worker
  BY <1>2, FiveWorker DEF Five!Batch4!Next
<1>3. CASE UNCHANGED Five!vars
  BY <1>3 DEF Five!vars, Five!mainVars, Five!Batch4!vars, FiveInv, Five!TypeOK
<1>4. QED
  BY <1>1, <1>2, <1>3 DEF Five!Next, Five!Terminated

\* Running the tasks of a batch one by one is the same program as adding them up.
THEOREM FiveImplementsFour ==
  Five!Spec => Five!Batch4!Init /\ [][Five!Batch4!Next]_(Five!Batch4!vars)
  BY FiveInit, FiveNext, PTL DEF Five!Spec
============================================================================
