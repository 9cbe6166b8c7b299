----------------------------- MODULE PostTask1 -----------------------------
(***************************************************************************)
(* posttask1.cpp: the threads of a pool form a ring, and one task goes     *)
(* round it: its handler increments *count and *thread_index and posts     *)
(* itself to the io_service of the new index, until *count is post_count_, *)
(* when it stops the pool.  The two counters are on the heap, shared by    *)
(* all threads without a lock; their widths matter.                        *)
(***************************************************************************)
EXTENDS IoServicePool

CONSTANTS
  PostCount,    \* post_count_
  IndexValues,  \* how many values *thread_index, a uint32_t, has: 2^32
  CountValues   \* how many *count, a uint64_t, has: 2^64

ASSUME WidthAssumption ==
  /\ IndexValues \in Nat \ {0} /\ CountValues \in Nat
  /\ PostCount \in 0 .. CountValues - 1

VARIABLES
  index,        \* *thread_index
  count,        \* *count
  stamps        \* how often stop_time_ has been written

taskVars == <<index, count, stamps>>
vars == <<poolVars, taskVars>>

TypeOK ==
  /\ PoolTypeOK({"post"})
  /\ index \in 0 .. IndexValues - 1
  /\ count \in 0 .. CountValues - 1
  /\ stamps \in Nat

Init ==
  /\ PoolInit
  /\ index = 0
  /\ count = 0
  /\ stamps = 0

-----------------------------------------------------------------------------
\* start() posts the task to the first service; wait() enters run().
Start ==
  /\ main = "start"
  /\ PostTo(GetIoService(index))
  /\ main' = "run"
  /\ UNCHANGED <<spawned, at, works, stopped, resetAt, taskVars>>

\* Mutant of Increment: the index does not move on.
IncrementCountOnly(s) ==
  /\ at[s] = "begun"
  /\ count' = (count + 1) % CountValues
  /\ IF count' = PostCount
     THEN Goto(s, "reset") /\ stamps' = stamps + 1
     ELSE Goto(s, "post") /\ UNCHANGED stamps
  /\ UNCHANGED <<main, spawned, queued, outstanding, works, stopped, resetAt,
                 index>>

\* Mutant of Increment: the comparison is made before the increment.
IncrementAfterTest(s) ==
  /\ at[s] = "begun"
  /\ count' = (count + 1) % CountValues
  /\ index' = (index + 1) % IndexValues
  /\ IF count = PostCount
     THEN Goto(s, "reset") /\ stamps' = stamps + 1
     ELSE Goto(s, "post") /\ UNCHANGED stamps
  /\ UNCHANGED <<main, spawned, queued, outstanding, works, stopped, resetAt>>

\* The handler: ++(*count); ++(*thread_index); then stop() or post().  stop()
\* begins with the assignment to stop_time_.
Increment(s) ==
  /\ at[s] = "begun"
  /\ count' = (count + 1) % CountValues
  /\ index' = (index + 1) % IndexValues
  /\ IF count' = PostCount
     THEN Goto(s, "reset") /\ stamps' = stamps + 1
     ELSE Goto(s, "post") /\ UNCHANGED stamps
  /\ UNCHANGED <<main, spawned, queued, outstanding, works, stopped, resetAt>>

\* The handler posts the task to the service of the new index and returns.
PostNext(s) ==
  /\ at[s] = "post"
  /\ PostTo(GetIoService(index))
  /\ Goto(s, "end")
  /\ UNCHANGED <<main, spawned, works, stopped, resetAt, taskVars>>

-----------------------------------------------------------------------------
MainStep == Start \/ (PoolMainStep /\ UNCHANGED taskVars)

ThreadStep(s) ==
  \/ Increment(s) \/ PostNext(s)
  \/ PoolThreadStep(s) /\ UNCHANGED taskVars

\* posttask_test1() has returned from wait().
Terminated == main = "done" /\ UNCHANGED vars

Next == MainStep \/ (\E s \in Services : ThreadStep(s)) \/ Terminated

\* Every thread is always scheduled again.
Fairness == WF_vars(MainStep) /\ \A s \in Services : WF_vars(ThreadStep(s))

Spec == Init /\ [][Next]_vars /\ Fairness

-----------------------------------------------------------------------------
(* Properties.                                                             *)

\* README.md: the threads form a ring and each posts to the next.  There is one
\* task, and it is never lost: until stop_time_ is written it is queued in
\* exactly one service, which has not stopped, or in the hands of exactly one
\* handler, so the unprotected counters have one user at a time; and the task
\* that finds *count = k is with service k modulo the size of the pool.
OneTaskInTurn ==
  LET inHand == {<<s, 0>> : s \in {t \in Services : at[t] \in {"begun", "post"}}}
      inQueue == UNION {{s} \X (1 .. queued[s]) : s \in Services}
  IN  /\ Cardinality(inHand \cup inQueue) =
           IF main = "start" \/ stamps > 0 THEN 0 ELSE 1
      /\ \A s \in stopped : queued[s] = 0
      /\ \A s \in Services :
           queued[s] > 0 \/ at[s] = "begun" => s = count % PoolSize

\* The ring counts to exactly PostCount, and wait() returns after that.
Counter == INSTANCE TaskCounter WITH returned <- (main = "done")
ImplementsCounter == Counter!Spec
============================================================================
