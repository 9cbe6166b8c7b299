----------------------------- MODULE PostTask2 -----------------------------
(***************************************************************************)
(* posttask2.cpp: the threads of a pool form pairs, and in each pair a     *)
(* task goes to and fro.  Its handler increments the atomic count_, shared *)
(* by all pairs, and stops the pool when count_ has reached post_count_.   *)
(* The pairs notice that independently, so stop() may be executed by a     *)
(* handler of each pair, at the same time.                                 *)
(***************************************************************************)
EXTENDS IoServicePool

CONSTANT PostCount      \* post_count_

ASSUME PairsAssumption == PoolSize % 2 = 0 /\ PostCount \in Nat

VARIABLES
  started,      \* the loop variable i of start()
  count         \* count_

taskVars == <<started, count>>
vars == <<poolVars, taskVars>>

Pairs == 0 .. (PoolSize \div 2) - 1

TypeOK ==
  /\ PoolTypeOK({"test", "post"})
  /\ started \in 0 .. PoolSize \div 2
  /\ count \in Nat

Init ==
  /\ PoolInit
  /\ started = 0
  /\ count = 0

-----------------------------------------------------------------------------
\* One round of the loop of start(): post(i*2).
StartPair ==
  /\ main = "start"
  /\ started < PoolSize \div 2
  /\ PostTo(GetIoService(started * 2))
  /\ started' = started + 1
  /\ UNCHANGED <<main, spawned, at, works, stopped, resetAt, count>>

\* start() returns; wait() enters run().
EnterRun ==
  /\ main = "start"
  /\ started = PoolSize \div 2
  /\ main' = "run"
  /\ UNCHANGED <<spawned, at, queued, outstanding, works, stopped, resetAt,
                 taskVars>>

\* The handler: ++count_.
Increment(s) ==
  /\ at[s] = "begun"
  /\ count' = count + 1
  /\ Goto(s, "test")
  /\ UNCHANGED <<main, spawned, queued, outstanding, works, stopped, resetAt,
                 started>>

\* Mutant of Test: > for >=.
TestGreater(s) ==
  /\ at[s] = "test"
  /\ Goto(s, IF count > PostCount THEN "reset" ELSE "post")
  /\ UNCHANGED <<main, spawned, queued, outstanding, works, stopped, resetAt,
                 taskVars>>

\* The handler reads count_ again: if (count_ >= post_count_) stop().
Test(s) ==
  /\ at[s] = "test"
  /\ Goto(s, IF count >= PostCount THEN "reset" ELSE "post")
  /\ UNCHANGED <<main, spawned, queued, outstanding, works, stopped, resetAt,
                 taskVars>>

\* Mutant of Partner: as in the ring of posttask1.cpp.
PartnerNext(s) == GetIoService(s + 1)

\* thread_index in the else branch: the other member of the pair.
Partner(s) == IF s % 2 = 1 THEN s - 1 ELSE s + 1

\* The handler posts the task to its partner and returns.
PostPartner(s) ==
  /\ at[s] = "post"
  /\ PostTo(GetIoService(Partner(s)))
  /\ Goto(s, "end")
  /\ UNCHANGED <<main, spawned, works, stopped, resetAt, taskVars>>

-----------------------------------------------------------------------------
MainStep == StartPair \/ EnterRun \/ (PoolMainStep /\ UNCHANGED taskVars)

ThreadStep(s) ==
  \/ Increment(s) \/ Test(s) \/ PostPartner(s)
  \/ PoolThreadStep(s) /\ UNCHANGED taskVars

\* posttask_test2() has returned from wait().
Terminated == main = "done" /\ UNCHANGED vars

Next == MainStep \/ (\E s \in Services : ThreadStep(s)) \/ Terminated

\* Every thread is always scheduled again.
Fairness == WF_vars(MainStep) /\ \A s \in Services : WF_vars(ThreadStep(s))

Spec == Init /\ [][Next]_vars /\ Fairness

-----------------------------------------------------------------------------
(* Properties.                                                             *)

\* 1 when the condition holds, 0 when it does not.
One(b) == IF b THEN 1 ELSE 0

\* Each pair has one task and keeps it: until the target is reached the task
\* is queued at, or in the hands of, exactly one of the two; there is never a
\* second one.  It may be left behind in a service that has stopped (its partner
\* stopped the pool while it was being posted), but only after the target.
OneTaskPerPair ==
  /\ \A g \in Pairs :
       LET held(s) == queued[s] + One(at[s] \in {"begun", "test", "post"})
           tasks   == held(2 * g) + held(2 * g + 1)
       IN  /\ tasks <= One(g < started)
           /\ count < PostCount => tasks = One(g < started)
  /\ \A s \in stopped : queued[s] > 0 => count >= PostCount

\* The pairs overshoot the target, by at most one increment for each pair but
\* the one that reached it; and when wait() returns the target is reached.
OvershootIsBounded ==
  /\ PostCount > 0 => count <= PostCount + PoolSize \div 2 - 1
  /\ main = "done" => count >= PostCount

\* wait() returns, whichever handlers stop the pool and in whatever order, even
\* when their resets race.
WaitReturns == <>(main = "done")
============================================================================
