-------------------------- MODULE PostTask2_proofs --------------------------
(***************************************************************************)
(* Proofs about the two benchmarks that run on an io_service_pool.         *)
(* posttask2.cpp, for every even size of the pool and every PostCount:     *)
(* each pair keeps its one task, and the pairs overshoot the target by     *)
(* less than their number.  posttask1.cpp, an instance: the ring keeps its *)
(* task and implements the counter.  Neither is ever stuck as it ends.     *)
(***************************************************************************)
EXTENDS PostTask2, FiniteSetTheorems, TLAPS

\* The target is reached, and by counting: it may be 0.
Reached == count > 0 /\ count >= PostCount

\* The tasks of a service, and of a pair.
Held(s)  == queued[s] + One(at[s] \in {"begun", "test", "post"})
Tasks(g) == Held(2 * g) + Held(2 * g + 1)

\* The service has a task whose handler is still to increment count_.
May(s) == queued[s] > 0 \/ at[s] \in {"begun", "post"}
Hopeful == {g \in Pairs : May(2 * g) \/ May(2 * g + 1)}

PairInv ==
  \A g \in Pairs : /\ Tasks(g) <= One(g < started)
                   /\ ~Reached => Tasks(g) = One(g < started)

\* The pair that has reached the target is done; each of the others adds one at
\* the most.
OverInv ==
  PostCount > 0 /\ Reached =>
    count + Cardinality(Hopeful) <= PostCount + PoolSize \div 2 - 1

\* Nothing runs while start() posts, nor before its thread exists.
StartInv ==
  /\ main = "start" => count = 0 /\ spawned = 0
  /\ \A s \in Services : s >= spawned => at[s] = "none"

\* The pool is stopped by those who have seen the target reached; until then
\* outstanding_work_ of each service has its work and what the pair has there.
TargetInv ==
  /\ \A s \in Services : at[s] \in {"reset", "stop_other", "stop_self"} => Reached
  /\ stopped # {} \/ works # Services \/ main = "done" => Reached
  /\ ~Reached => \A s \in Services :
       outstanding[s] = 1 + queued[s] + One(at[s] \in {"begun", "test", "post", "end"})

\* Who tests the target has counted; the loop of stop(), and who has returned.
LoopInv ==
  /\ \A s \in Services : at[s] = "test" => count > 0
  /\ \A s \in Services : at[s] = "stop_other" => resetAt[s] > 0
  /\ \A s \in Services : at[s] = "returned" => s \in stopped

IInv ==
  /\ TypeOK
  /\ PairInv
  /\ OverInv
  /\ StartInv
  /\ TargetInv
  /\ LoopInv
-----------------------------------------------------------------------------
(* Pairs and their members.                                                *)

\* The services are numbered in pairs.
LEMMA PairCount ==
  /\ PoolSize \in Nat /\ PoolSize \div 2 \in Nat /\ PoolSize \div 2 > 0
  /\ PoolSize = 2 * (PoolSize \div 2)
<1>1. PoolSize \in Nat /\ PoolSize > 0 /\ PoolSize % 2 = 0
  BY PoolSizeAssumption, PairsAssumption
<1>2. QED
  BY <1>1

\* The members of a pair are services, and no other pair has them.
LEMMA Members ==
  ASSUME NEW g \in Pairs
  PROVE  /\ g \in Nat /\ 2 * g \in Services /\ 2 * g + 1 \in Services
         /\ GetIoService(2 * g) = 2 * g /\ GetIoService(2 * g + 1) = 2 * g + 1
         /\ Partner(2 * g) = 2 * g + 1 /\ Partner(2 * g + 1) = 2 * g
<1>1. g \in Nat /\ g <= PoolSize \div 2 - 1
  BY PairCount DEF Pairs
<1>2. 2 * g \in Services /\ 2 * g + 1 \in Services
  BY <1>1, PairCount DEF Services
<1>3. (2 * g) % 2 = 0 /\ (2 * g + 1) % 2 = 1
  BY <1>1
<1>4. (2 * g) % PoolSize = 2 * g /\ (2 * g + 1) % PoolSize = 2 * g + 1
  BY <1>1, <1>2, PairCount DEF Services
<1>5. QED
  BY <1>1, <1>2, <1>3, <1>4 DEF GetIoService, Partner

\* Each service is in a pair, and its partner is the other member.
LEMMA PairOf ==
  ASSUME NEW s \in Services
  PROVE  \E g \in Pairs :
           \/ s = 2 * g /\ GetIoService(Partner(s)) = 2 * g + 1
           \/ s = 2 * g + 1 /\ GetIoService(Partner(s)) = 2 * g
<1>1. s \in Nat /\ s < PoolSize
  BY PairCount DEF Services
<1>2. s \div 2 \in Nat /\ s \div 2 <= PoolSize \div 2 - 1
  BY <1>1, PairCount
<1>3. s = 2 * (s \div 2) \/ s = 2 * (s \div 2) + 1
  BY <1>1
<1>4. s \div 2 \in Pairs
  BY <1>2, PairCount DEF Pairs
<1>5. QED
  BY <1>3, <1>4, Members
-----------------------------------------------------------------------------
(* Steps that leave the tasks where they are.                              *)

\* What TypeOK says of the functions and of the counters.
LEMMA Types ==
  ASSUME TypeOK
  PROVE  /\ at \in [Services -> PoolPCs \cup {"test", "post"}]
         /\ queued \in [Services -> Nat]
         /\ outstanding \in [Services -> Int]
         /\ resetAt \in [Services -> 0 .. PoolSize]
         /\ count \in Nat /\ PostCount \in Nat
         /\ \A s \in Services : Held(s) \in Nat
  BY PairsAssumption DEF TypeOK, PoolTypeOK, Held, One

LEMMA QuietPairs ==
  ASSUME PairInv, OverInv, UNCHANGED <<started, count>>,
         \A s \in Services : Held(s)' = Held(s) /\ (May(s)' <=> May(s))
  PROVE  PairInv' /\ OverInv'
<1>1. ASSUME NEW g \in Pairs
      PROVE  Tasks(g)' = Tasks(g) /\ (g \in Hopeful' <=> g \in Hopeful)
  BY <1>1, Members DEF Tasks, Hopeful
<1>2. Hopeful' = Hopeful
  BY <1>1 DEF Hopeful
<1>3. OverInv'
  BY <1>2 DEF OverInv, Reached
<1>4. PairInv'
  BY <1>1 DEF PairInv, Reached
<1>5. QED
  BY <1>3, <1>4

\* The steps of main after start().
LEMMA MainStepIInv ==
  ASSUME IInv, EnterRun \/ (PoolMainStep /\ UNCHANGED taskVars)
  PROVE  IInv'
<1> USE DEF taskVars
<1>1. /\ at \in [Services -> PoolPCs \cup {"test", "post"}]
      /\ queued \in [Services -> Nat]
      /\ outstanding \in [Services -> Int]
      /\ TypeOK /\ PairInv /\ OverInv /\ StartInv /\ TargetInv /\ LoopInv
  BY Types DEF IInv
<1>2. CASE EnterRun
  <2>1. UNCHANGED <<spawned, at, queued, outstanding, works, stopped, resetAt, taskVars>>
        /\ main = "start" /\ main' = "run"
    BY <1>2 DEF EnterRun
  <2>2. PairInv' /\ OverInv'
    BY <1>1, <2>1, QuietPairs DEF Held, May
  <2>3. QED
    BY <1>1, <2>1, <2>2
    DEF IInv, TypeOK, PoolTypeOK, StartInv, TargetInv, LoopInv, Reached
<1>3. CASE Spawn /\ UNCHANGED taskVars
  <2>1. /\ UNCHANGED <<main, queued, outstanding, works, stopped, resetAt, taskVars>>
        /\ main = "run"
        /\ spawned' = spawned + 1 /\ spawned < PoolSize /\ spawned \in Nat
        /\ at' = [at EXCEPT ![spawned] = "enter"]
    BY <1>1, <1>3, PairCount DEF Spawn, Goto, TypeOK, PoolTypeOK
  <2>2. /\ spawned' \in 0 .. PoolSize
        /\ at' \in [Services -> PoolPCs \cup {"test", "post"}]
        /\ spawned \in Services /\ at[spawned] = "none"
    <3>1. spawned \in Services /\ spawned' \in 0 .. PoolSize
      BY <2>1, PairCount DEF Services
    <3>2. "enter" \in PoolPCs
      BY DEF PoolPCs
    <3>3. QED
      BY <1>1, <2>1, <3>1, <3>2 DEF StartInv
  <2>3. /\ at'[spawned] = "enter"
        /\ \A s \in Services : s # spawned => at'[s] = at[s]
    BY <1>1, <2>1, <2>2
  <2>4. \A s \in Services : Held(s)' = Held(s) /\ (May(s)' <=> May(s))
    BY <2>1, <2>2, <2>3 DEF Held, May, One
  <2>5. PairInv' /\ OverInv'
    BY <1>1, <2>1, <2>4, QuietPairs
  <2>6. TypeOK' /\ StartInv' /\ LoopInv'
    BY <1>1, <2>1, <2>2, <2>3 DEF TypeOK, PoolTypeOK, StartInv, LoopInv, Services
  <2>7. TargetInv'
    BY <1>1, <2>1, <2>2, <2>3 DEF TargetInv, Reached, One
  <2>8. QED
    BY <2>5, <2>6, <2>7 DEF IInv
<1>4. CASE JoinAll /\ UNCHANGED taskVars
  <2>1. /\ UNCHANGED <<spawned, at, queued, outstanding, works, stopped, resetAt, taskVars>>
        /\ main' = "done" /\ \A s \in Services : at[s] = "returned"
    BY <1>4 DEF JoinAll
  <2>2. Reached
    BY <1>1, <2>1, PairCount DEF LoopInv, TargetInv, Services
  <2>3. PairInv' /\ OverInv'
    BY <1>1, <2>1, QuietPairs DEF Held, May
  <2>4. QED
    BY <1>1, <2>1, <2>2, <2>3
    DEF IInv, TypeOK, PoolTypeOK, StartInv, TargetInv, LoopInv, Reached
<1>5. QED
  BY <1>2, <1>3, <1>4 DEF PoolMainStep

\* The steps of a thread that are of the pool's own and leave its task alone.
Quiet(s) ==
  Enter(s) \/ EndHandler(s) \/ StopSelf(s) \/ RunReturns(s) \/ ResetWork(s)
    \/ ResetWorkRaced(s) \/ StopOther(s) \/ EndStop(s)

\* From where to where they lead.
QuietMove(x, y) ==
  \/ x = "enter" /\ y \in {"stop_self", "idle"}
  \/ x = "end" /\ y \in {"stop_self", "idle"}
  \/ x = "stop_self" /\ y = "idle"
  \/ x = "idle" /\ y = "returned"
  \/ x = "reset" /\ y \in {"stop_other", "reset", "end"}
  \/ x = "stop_other" /\ y = "reset"

LEMMA QuietStepIInv ==
  ASSUME IInv, NEW s \in Services, Quiet(s), UNCHANGED taskVars
  PROVE  IInv'
<1> USE DEF taskVars
<1>1. /\ at \in [Services -> PoolPCs \cup {"test", "post"}]
      /\ queued \in [Services -> Nat]
      /\ outstanding \in [Services -> Int]
      /\ resetAt \in [Services -> 0 .. PoolSize]
      /\ works \subseteq Services /\ stopped \subseteq Services
      /\ TypeOK /\ PairInv /\ OverInv /\ StartInv /\ TargetInv /\ LoopInv
  BY Types DEF IInv, TypeOK, PoolTypeOK
<1>2. /\ UNCHANGED <<main, spawned, queued, started, count>>
      /\ at[s] # "none" /\ at[s] \notin {"begun", "test", "post"}
  BY DEF Quiet, Enter, EndHandler, StopSelf, RunReturns, ResetWork, ResetWorkRaced,
     StopOther, EndStop
<1>3. \E y \in PoolPCs : QuietMove(at[s], y) /\ at' = [at EXCEPT ![s] = y]
  <2>1. at' = at => at' = [at EXCEPT ![s] = at[s]]
    BY <1>1
  <2>2. QED
    BY <2>1
    DEF Quiet, Enter, EndHandler, StopSelf, RunReturns, ResetWork, ResetWorkRaced,
        StopOther, EndStop, DestroyWork, Goto, PoolPCs, QuietMove
<1>4. PICK y \in PoolPCs : QuietMove(at[s], y) /\ at' = [at EXCEPT ![s] = y]
  BY <1>3
<1>5. at'[s] = y /\ \A u \in Services : u # s => at'[u] = at[u]
  BY <1>1, <1>4
<1>6. \A u \in Services : Held(u)' = Held(u) /\ (May(u)' <=> May(u))
  BY <1>2, <1>4, <1>5 DEF Held, May, One, QuietMove
<1>7. PairInv' /\ OverInv'
  BY <1>1, <1>2, <1>6, QuietPairs
<1>8. /\ outstanding' \in [Services -> Int]
      /\ resetAt' \in [Services -> 0 .. PoolSize]
      /\ works' \subseteq works /\ stopped' \subseteq Services
  <2>1. CASE Enter(s) \/ RunReturns(s)
    BY <1>1, <2>1 DEF Enter, RunReturns
  <2>2. CASE EndHandler(s) \/ StopSelf(s)
    BY <1>1, <2>2 DEF EndHandler, StopSelf
  <2>3. CASE ResetWork(s) \/ ResetWorkRaced(s)
    <3>1. resetAt[s] \in 0 .. PoolSize - 1 /\ resetAt[s] + 1 \in 0 .. PoolSize
      BY <1>1, <2>3, PairCount DEF ResetWork, ResetWorkRaced, Services
    <3>2. resetAt' = [resetAt EXCEPT ![s] = resetAt[s] + 1]
      BY <1>1, <2>3 DEF ResetWork, ResetWorkRaced, DestroyWork
    <3>3. \/ outstanding' = outstanding
          \/ outstanding' = [outstanding EXCEPT ![resetAt[s]] = outstanding[resetAt[s]] - 1]
      BY <2>3 DEF ResetWork, ResetWorkRaced, DestroyWork
    <3>4. resetAt[s] \in Services
      BY <3>1 DEF Services
    <3>5. outstanding[resetAt[s]] - 1 \in Int
      BY <1>1, <3>4
    <3>6. works' \subseteq works /\ stopped' = stopped
      BY <2>3 DEF ResetWork, ResetWorkRaced
    <3>7. resetAt' \in [Services -> 0 .. PoolSize]
      BY <1>1, <3>1, <3>2
    <3>8. outstanding' \in [Services -> Int]
      BY <1>1, <3>3, <3>5
    <3>9. QED
      BY <1>1, <3>6, <3>7, <3>8
  <2>4. CASE StopOther(s)
    <3>1. resetAt[s] - 1 \in Services
      BY <1>1, <2>4, PairCount DEF StopOther, LoopInv, Services
    <3>2. QED
      BY <1>1, <2>4, <3>1 DEF StopOther
  <2>5. CASE EndStop(s)
    <3>1. 0 \in 0 .. PoolSize
      BY PairCount
    <3>2. QED
      BY <1>1, <2>5, <3>1 DEF EndStop
  <2>6. QED
    BY <2>1, <2>2, <2>3, <2>4, <2>5 DEF Quiet
<1>9. TypeOK'
  BY <1>1, <1>2, <1>4, <1>8 DEF TypeOK, PoolTypeOK
<1>10. StartInv'
  BY <1>1, <1>2, <1>5 DEF StartInv, Services
<1>11. LoopInv'
  <2>1. y = "stop_other" => resetAt'[s] > 0 /\ at[s] = "reset"
    BY <1>1, <1>4, <1>5
    DEF Quiet, Enter, EndHandler, StopSelf, RunReturns, ResetWork, ResetWorkRaced,
        StopOther, EndStop, DestroyWork, Goto, QuietMove
  <2>2. \A u \in Services : u # s => resetAt'[u] = resetAt[u]
    BY <1>1
    DEF Quiet, Enter, EndHandler, StopSelf, RunReturns, ResetWork, ResetWorkRaced,
        StopOther, EndStop, DestroyWork
  <2>3. stopped \subseteq stopped' /\ (y = "returned" => s \in stopped)
    BY <1>1, <1>4, <1>5
    DEF Quiet, Enter, EndHandler, StopSelf, RunReturns, ResetWork, ResetWorkRaced,
        StopOther, EndStop, DestroyWork, Goto
  <2>4. y # "test" /\ count' = count
    BY <1>2, <1>4 DEF QuietMove
  <2>5. QED
    BY <1>1, <1>5, <2>1, <2>2, <2>3, <2>4 DEF LoopInv
<1>12. TargetInv'
  <2>1. CASE Reached
    BY <1>2, <2>1 DEF TargetInv, Reached
  <2>2. CASE ~Reached
    <3>1. /\ at[s] \in {"enter", "end", "idle"} /\ s \notin stopped
          /\ outstanding[s] = 1 + queued[s] + One(at[s] = "end")
      BY <1>1, <1>4, <2>2 DEF TargetInv, QuietMove, One
    <3>2. CASE Enter(s)
      BY <1>1, <1>2, <1>5, <2>2, <3>1, <3>2 DEF Enter, Goto, TargetInv, Reached, One
    <3>3. CASE EndHandler(s)
      BY <1>1, <1>2, <1>5, <2>2, <3>1, <3>3 DEF EndHandler, Goto, TargetInv, Reached, One
    <3>4. QED
      BY <3>1, <3>2, <3>3
      DEF Quiet, StopSelf, RunReturns, ResetWork, ResetWorkRaced, StopOther, EndStop
  <2>3. QED
    BY <2>1, <2>2
<1>13. QED
  BY <1>7, <1>9, <1>10, <1>11, <1>12 DEF IInv

\* A handler begins: the task leaves the queue and stays with the service.
LEMMA BeginIInv ==
  ASSUME IInv, NEW s \in Services, Begin(s), UNCHANGED taskVars
  PROVE  IInv'
<1> USE DEF taskVars
<1>1. /\ at \in [Services -> PoolPCs \cup {"test", "post"}]
      /\ queued \in [Services -> Nat]
      /\ TypeOK /\ PairInv /\ OverInv /\ StartInv /\ TargetInv /\ LoopInv
  BY Types DEF IInv, TypeOK, PoolTypeOK
<1>2. /\ UNCHANGED <<main, spawned, outstanding, works, stopped, resetAt, started, count>>
      /\ at[s] = "idle" /\ queued[s] > 0
      /\ at' = [at EXCEPT ![s] = "begun"]
      /\ queued' = [queued EXCEPT ![s] = queued[s] - 1]
  BY DEF Begin, Goto
<1>3. /\ at'[s] = "begun" /\ queued'[s] = queued[s] - 1 /\ queued'[s] \in Nat
      /\ \A u \in Services : u # s => at'[u] = at[u] /\ queued'[u] = queued[u]
      /\ queued' \in [Services -> Nat]
      /\ at' \in [Services -> PoolPCs \cup {"test", "post"}]
  BY <1>1, <1>2 DEF PoolPCs
<1>4. \A u \in Services : Held(u)' = Held(u) /\ (May(u)' <=> May(u))
  BY <1>1, <1>2, <1>3 DEF Held, May, One
<1>5. PairInv' /\ OverInv'
  BY <1>1, <1>2, <1>4, QuietPairs
<1>6. TypeOK' /\ StartInv' /\ LoopInv'
  BY <1>1, <1>2, <1>3 DEF TypeOK, PoolTypeOK, StartInv, LoopInv, Services
<1>7. TargetInv'
  BY <1>1, <1>2, <1>3 DEF TargetInv, Reached, One
<1>8. QED
  BY <1>5, <1>6, <1>7 DEF IInv

-----------------------------------------------------------------------------
(* Steps that move a task, or count it.                                    *)

\* start() posts the task of the next pair.
LEMMA StartPairIInv ==
  ASSUME IInv, StartPair
  PROVE  IInv'
<1>1. /\ at \in [Services -> PoolPCs \cup {"test", "post"}]
      /\ queued \in [Services -> Nat]
      /\ outstanding \in [Services -> Int]
      /\ TypeOK /\ PairInv /\ OverInv /\ StartInv /\ TargetInv /\ LoopInv
      /\ started \in 0 .. PoolSize \div 2
      /\ \A s \in Services : Held(s) \in Nat
  BY Types DEF IInv, TypeOK, PoolTypeOK
<1>2. started \in Pairs /\ started' = started + 1 /\ started' \in 0 .. PoolSize \div 2
  BY <1>1, PairCount DEF StartPair, Pairs
<1>a. PICK i \in Pairs : i = started
  BY <1>2
<1>b. PICK d \in Services : d = 2 * i
  BY Members
<1>3. started * 2 = d /\ GetIoService(d) = d /\ i \in Nat
  BY <1>a, <1>b, Members
<1>4. /\ UNCHANGED <<main, spawned, at, works, stopped, resetAt, count>>
      /\ main = "start"
      /\ queued' = [queued EXCEPT ![d] = queued[d] + 1]
      /\ outstanding' = [outstanding EXCEPT ![d] = outstanding[d] + 1]
  BY <1>3 DEF StartPair, PostTo
<1>5. /\ queued'[d] = queued[d] + 1 /\ outstanding'[d] = outstanding[d] + 1
      /\ \A u \in Services : u # d => queued'[u] = queued[u] /\ outstanding'[u] = outstanding[u]
      /\ queued' \in [Services -> Nat] /\ outstanding' \in [Services -> Int]
  BY <1>1, <1>4
<1>6. /\ Held(d)' = Held(d) + 1
      /\ \A u \in Services : u # d => Held(u)' = Held(u)
  BY <1>1, <1>4, <1>5 DEF Held, One
<1>7. ASSUME NEW g \in Pairs
      PROVE  Tasks(g)' = Tasks(g) + One(g = i)
  <2>1. g \in Nat /\ 2 * g \in Services /\ 2 * g + 1 \in Services
    BY Members
  <2>3. 2 * g + 1 # d /\ (2 * g = d <=> g = i)
    BY <2>1, <1>3, <1>b
  <2>4. Held(2 * g) \in Nat /\ Held(2 * g + 1) \in Nat
    BY <1>1, <2>1
  <2>5. Held(2 * g + 1)' = Held(2 * g + 1)
    BY <1>6, <2>1, <2>3
  <2>6. Held(2 * g)' = Held(2 * g) + One(g = i)
    <3>1. CASE g = i
      <4>1. 2 * g = d
        BY <2>3, <3>1
      <4>2. Held(2 * g)' = Held(2 * g) + 1
        BY <1>6, <4>1
      <4>3. QED
        BY <3>1, <4>2 DEF One
    <3>2. CASE g # i
      <4>1. Held(2 * g)' = Held(2 * g)
        BY <1>6, <2>1, <2>3, <3>2
      <4>2. One(g = i) = 0
        BY <3>2 DEF One
      <4>3. QED
        BY <2>4, <4>1, <4>2
    <3>3. QED
      BY <3>1, <3>2
  <2>7. QED
    BY <2>4, <2>5, <2>6 DEF Tasks, One
<1>8. PairInv'
  <2>1. \A g \in Pairs : One(g < started') = One(g < started) + One(g = i)
    <3>1. ASSUME NEW g \in Pairs
          PROVE  One(g < started + 1) = One(g < started) + One(g = started)
      <4>1. g \in Nat /\ started \in Nat
        BY <1>2, Members
      <4>2. QED
        BY <4>1 DEF One
    <3>2. QED
      BY <1>2, <1>a, <3>1
  <2>2. \A g \in Pairs : Tasks(g) \in Nat
    BY <1>1, Members DEF Tasks
  <2>3. \A g \in Pairs : One(g < started) \in Nat /\ One(g = i) \in Nat
    BY DEF One
  <2>4. QED
    BY <1>1, <1>4, <1>7, <2>1, <2>2, <2>3 DEF PairInv, Reached
<1>9. OverInv'
  BY <1>1, <1>4, Types DEF StartInv, OverInv, Reached, IInv
<1>10. TypeOK' /\ StartInv' /\ LoopInv'
  BY <1>1, <1>2, <1>4, <1>5 DEF TypeOK, PoolTypeOK, StartInv, LoopInv
<1>11. TargetInv'
  <2>1. ~Reached => \A s \in Services :
          outstanding'[s] = 1 + queued'[s] + One(at'[s] \in {"begun", "test", "post", "end"})
    BY <1>1, <1>3, <1>4, <1>5 DEF TargetInv, One
  <2>2. QED
    BY <1>1, <1>4, <2>1 DEF TargetInv, Reached
<1>12. QED
  BY <1>8, <1>9, <1>10, <1>11 DEF IInv

\* Only one of a pair has the task.
LEMMA TaskIsHere ==
  ASSUME IInv, NEW s \in Services, at[s] \in {"begun", "test", "post"}
  PROVE  \E g \in Pairs, u \in Services :
           /\ \/ s = 2 * g /\ u = 2 * g + 1
              \/ s = 2 * g + 1 /\ u = 2 * g
           /\ GetIoService(Partner(s)) = u
           /\ Held(s) = 1 /\ Held(u) = 0 /\ g < started
<1>1. PICK g \in Pairs :
           \/ s = 2 * g /\ GetIoService(Partner(s)) = 2 * g + 1
           \/ s = 2 * g + 1 /\ GetIoService(Partner(s)) = 2 * g
  BY PairOf
<1>2. 2 * g \in Services /\ 2 * g + 1 \in Services
  BY Members
<1>3. Held(2 * g) \in Nat /\ Held(2 * g + 1) \in Nat /\ queued[s] \in Nat
  BY <1>2, Types DEF IInv
<1>4. Held(s) >= 1
  BY <1>3 DEF Held, One
<1>5. Held(2 * g) + Held(2 * g + 1) <= One(g < started)
  BY DEF IInv, PairInv, Tasks
<1>6. /\ One(g < started) = 1 /\ g < started
      /\ Held(2 * g) + Held(2 * g + 1) = 1
  BY <1>1, <1>3, <1>4, <1>5 DEF One
<1>7. CASE s = 2 * g /\ GetIoService(Partner(s)) = 2 * g + 1
  <2>1. Held(s) = 1 /\ Held(2 * g + 1) = 0
    BY <1>3, <1>4, <1>6, <1>7
  <2>2. QED
    BY <1>2, <1>6, <1>7, <2>1
<1>8. CASE s = 2 * g + 1 /\ GetIoService(Partner(s)) = 2 * g
  <2>1. Held(s) = 1 /\ Held(2 * g) = 0
    BY <1>3, <1>4, <1>6, <1>8
  <2>2. QED
    BY <1>2, <1>6, <1>8, <2>1
<1>9. QED
  BY <1>1, <1>7, <1>8

\* The handler posts the task to the partner.
LEMMA PostPartnerIInv ==
  ASSUME IInv, NEW s \in Services, PostPartner(s)
  PROVE  IInv'
<1>1. /\ at \in [Services -> PoolPCs \cup {"test", "post"}]
      /\ queued \in [Services -> Nat]
      /\ outstanding \in [Services -> Int]
      /\ TypeOK /\ PairInv /\ OverInv /\ StartInv /\ TargetInv /\ LoopInv
      /\ \A u \in Services : Held(u) \in Nat
  BY Types DEF IInv, TypeOK, PoolTypeOK
<1>2. at[s] = "post"
  BY DEF PostPartner
<1>3. PICK g \in Pairs, u \in Services :
           /\ \/ s = 2 * g /\ u = 2 * g + 1
              \/ s = 2 * g + 1 /\ u = 2 * g
           /\ GetIoService(Partner(s)) = u
           /\ Held(s) = 1 /\ Held(u) = 0 /\ g < started
  BY <1>2, TaskIsHere
<1>4. g \in Nat /\ s # u
  BY <1>3, Members
<1>5. /\ UNCHANGED <<main, spawned, works, stopped, resetAt, started, count>>
      /\ queued' = [queued EXCEPT ![u] = queued[u] + 1]
      /\ outstanding' = [outstanding EXCEPT ![u] = outstanding[u] + 1]
      /\ at' = [at EXCEPT ![s] = "end"]
  BY <1>3 DEF PostPartner, PostTo, Goto, taskVars
<1>6. /\ queued'[u] = queued[u] + 1 /\ outstanding'[u] = outstanding[u] + 1
      /\ \A v \in Services : v # u => queued'[v] = queued[v] /\ outstanding'[v] = outstanding[v]
      /\ queued' \in [Services -> Nat] /\ outstanding' \in [Services -> Int]
      /\ at' \in [Services -> PoolPCs \cup {"test", "post"}]
      /\ at'[s] = "end" /\ \A v \in Services : v # s => at'[v] = at[v]
  BY <1>1, <1>5 DEF PoolPCs
<1>7. /\ Held(s)' = 0 /\ Held(u)' = 1
      /\ \A v \in Services : v # s /\ v # u => Held(v)' = Held(v)
      /\ May(s) /\ May(u)'
      /\ \A v \in Services : v # s /\ v # u => (May(v)' <=> May(v))
  BY <1>1, <1>2, <1>3, <1>4, <1>6 DEF Held, May, One
<1>8. ASSUME NEW h \in Pairs
      PROVE  Tasks(h)' = Tasks(h) /\ (h \in Hopeful' <=> h \in Hopeful)
  <2>1. h \in Nat /\ 2 * h \in Services /\ 2 * h + 1 \in Services
    BY Members
  <2>2. CASE h = g
    BY <1>3, <1>7, <2>2 DEF Tasks, Hopeful
  <2>3. CASE h # g
    <3>1. 2 * h \notin {s, u} /\ 2 * h + 1 \notin {s, u}
      BY <1>3, <1>4, <2>1, <2>3
    <3>2. QED
      BY <1>7, <2>1, <3>1 DEF Tasks, Hopeful
  <2>4. QED
    BY <2>2, <2>3
<1>9. PairInv' /\ OverInv'
  <2>1. Hopeful' = Hopeful
    BY <1>8 DEF Hopeful
  <2>2. QED
    BY <1>1, <1>5, <1>8, <2>1 DEF PairInv, OverInv, Reached
<1>10. TypeOK' /\ StartInv' /\ LoopInv'
  BY <1>1, <1>2, <1>5, <1>6 DEF TypeOK, PoolTypeOK, StartInv, LoopInv, Services
<1>11. TargetInv'
  BY <1>1, <1>2, <1>4, <1>5, <1>6 DEF TargetInv, Reached, One
<1>12. QED
  BY <1>9, <1>10, <1>11 DEF IInv

\* The handler compares count_ with the target.
LEMMA TestIInv ==
  ASSUME IInv, NEW s \in Services, Test(s)
  PROVE  IInv'
<1>1. /\ at \in [Services -> PoolPCs \cup {"test", "post"}]
      /\ queued \in [Services -> Nat]
      /\ TypeOK /\ PairInv /\ OverInv /\ StartInv /\ TargetInv /\ LoopInv
      /\ \A u \in Services : Held(u) \in Nat
      /\ count \in Nat /\ PostCount \in Nat
  BY Types DEF IInv, TypeOK, PoolTypeOK
<1>2. /\ UNCHANGED <<main, spawned, queued, outstanding, works, stopped, resetAt,
                     started, count>>
      /\ at[s] = "test"
      /\ at' = [at EXCEPT ![s] = IF Reached THEN "reset" ELSE "post"]
  BY <1>1 DEF Test, Goto, Reached, taskVars, LoopInv
<1>3. /\ at'[s] = IF Reached THEN "reset" ELSE "post"
      /\ \A u \in Services : u # s => at'[u] = at[u]
      /\ at' \in [Services -> PoolPCs \cup {"test", "post"}]
  BY <1>1, <1>2 DEF PoolPCs
<1>4. \A u \in Services : /\ Held(u)' <= Held(u) /\ Held(u)' \in Nat
                          /\ ~Reached => Held(u)' = Held(u)
                          /\ Reached => (May(u)' <=> May(u))
  BY <1>1, <1>2, <1>3 DEF Held, May, One
<1>5. PairInv'
  <2>1. \A g \in Pairs : /\ Tasks(g)' <= Tasks(g) /\ Tasks(g)' \in Nat /\ Tasks(g) \in Nat
                         /\ ~Reached => Tasks(g)' = Tasks(g)
    BY <1>1, <1>4, Members DEF Tasks
  <2>2. \A g \in Pairs : One(g < started) \in Nat
    BY DEF One
  <2>3. QED
    BY <1>1, <1>2, <2>1, <2>2 DEF PairInv, Reached
<1>6. OverInv'
  <2>1. Reached => Hopeful' = Hopeful
    BY <1>4, Members DEF Hopeful
  <2>2. QED
    BY <1>1, <1>2, <2>1 DEF OverInv, Reached
<1>7. TypeOK' /\ StartInv' /\ LoopInv'
  BY <1>1, <1>2, <1>3 DEF TypeOK, PoolTypeOK, StartInv, LoopInv, Services
<1>8. TargetInv'
  BY <1>1, <1>2, <1>3 DEF TargetInv, Reached, One
<1>9. QED
  BY <1>5, <1>6, <1>7, <1>8 DEF IInv

\* The handler counts its task, and its pair will not count again beyond the
\* target.
LEMMA IncrementIInv ==
  ASSUME IInv, NEW s \in Services, Increment(s)
  PROVE  IInv'
<1>1. /\ at \in [Services -> PoolPCs \cup {"test", "post"}]
      /\ queued \in [Services -> Nat]
      /\ TypeOK /\ PairInv /\ OverInv /\ StartInv /\ TargetInv /\ LoopInv
      /\ count \in Nat /\ PostCount \in Nat
  BY Types DEF IInv, TypeOK, PoolTypeOK
<1>2. /\ UNCHANGED <<main, spawned, queued, outstanding, works, stopped, resetAt,
                     started>>
      /\ count' = count + 1
      /\ at[s] = "begun"
      /\ at' = [at EXCEPT ![s] = "test"]
  BY DEF Increment, Goto
<1>3. /\ at'[s] = "test"
      /\ \A u \in Services : u # s => at'[u] = at[u]
      /\ at' \in [Services -> PoolPCs \cup {"test", "post"}]
  BY <1>1, <1>2
<1>4. \A u \in Services : /\ Held(u)' = Held(u)
                          /\ u # s => (May(u)' <=> May(u))
  BY <1>1, <1>2, <1>3 DEF Held, May, One
<1>5. ASSUME ~Reached' PROVE ~Reached
  BY <1>1, <1>2, <1>5 DEF Reached
<1>6. PairInv'
  <2>1. \A g \in Pairs : Tasks(g)' = Tasks(g)
    BY <1>4, Members DEF Tasks
  <2>2. QED
    BY <1>1, <1>2, <1>5, <2>1 DEF PairInv
<1>7. PICK g \in Pairs, u \in Services :
           /\ \/ s = 2 * g /\ u = 2 * g + 1
              \/ s = 2 * g + 1 /\ u = 2 * g
           /\ Held(s) = 1 /\ Held(u) = 0
  BY <1>2, TaskIsHere
<1>8. ~May(s)' /\ ~May(u)' /\ May(s)
  <2>1. queued[s] = 0 /\ queued[u] = 0 /\ at[u] \notin {"begun", "test", "post"}
    BY <1>1, <1>2, <1>7 DEF Held, One
  <2>2. u # s
    BY <1>7, Members
  <2>3. QED
    BY <1>2, <1>3, <2>1, <2>2 DEF May
<1>9. Hopeful' = Hopeful \ {g} /\ g \in Hopeful
  <2>1. g \in Hopeful /\ g \notin Hopeful'
    BY <1>7, <1>8 DEF Hopeful
  <2>2. ASSUME NEW h \in Pairs, h # g PROVE h \in Hopeful' <=> h \in Hopeful
    <3>1. 2 * h # s /\ 2 * h + 1 # s /\ 2 * h \in Services /\ 2 * h + 1 \in Services
      BY <1>7, <2>2, Members
    <3>2. QED
      BY <1>4, <3>1 DEF Hopeful
  <2>3. QED
    BY <2>1, <2>2 DEF Hopeful
<1>10. OverInv'
  <2>1. /\ IsFiniteSet(Pairs) /\ Cardinality(Pairs) = PoolSize \div 2
        /\ PoolSize \div 2 \in Nat
    <3>1. PoolSize \div 2 - 1 \in Int /\ PoolSize \div 2 \in Nat
      BY PairCount
    <3>2. QED
      BY <3>1, FS_Interval, PairCount DEF Pairs
  <2>2. /\ IsFiniteSet(Hopeful) /\ Cardinality(Hopeful) <= PoolSize \div 2
        /\ Cardinality(Hopeful) \in Nat
    BY <2>1, FS_Subset, FS_CardinalityType DEF Hopeful
  <2>3. Cardinality(Hopeful') = Cardinality(Hopeful) - 1
    BY <1>9, <2>2, FS_RemoveElement
  <2>4. CASE Reached
    BY <1>1, <1>2, <2>1, <2>2, <2>3, <2>4 DEF OverInv, Reached
  <2>5. CASE ~Reached
    BY <1>1, <1>2, <2>1, <2>2, <2>3, <2>5 DEF OverInv, Reached
  <2>6. QED
    BY <2>4, <2>5
<1>11. TypeOK' /\ StartInv' /\ LoopInv'
  BY <1>1, <1>2, <1>3 DEF TypeOK, PoolTypeOK, StartInv, LoopInv, Services
<1>12. TargetInv'
  <2>1. CASE Reached'
    BY <2>1 DEF TargetInv
  <2>2. CASE ~Reached'
    BY <1>1, <1>2, <1>3, <1>5, <2>2 DEF TargetInv, One
  <2>3. QED
    BY <2>1, <2>2
<1>13. QED
  BY <1>6, <1>10, <1>11, <1>12 DEF IInv

-----------------------------------------------------------------------------
(* The theorems.                                                           *)

LEMMA InitIInv ==
  ASSUME Init
  PROVE  IInv
<1>1. /\ \A s \in Services : at[s] = "none" /\ queued[s] = 0 /\ outstanding[s] = 1
      /\ \A s \in Services : Held(s) = 0 /\ ~May(s)
      /\ main = "start" /\ spawned = 0 /\ started = 0 /\ count = 0
      /\ works = Services /\ stopped = {}
  BY DEF Init, PoolInit, Held, May, One
<1>2. TypeOK
  BY <1>1, PairCount DEF Init, PoolInit, TypeOK, PoolTypeOK, PoolPCs
<1>3. PairInv
  <2>1. \A g \in Pairs : ~(g < started) /\ Tasks(g) = 0
    BY <1>1, Members DEF Tasks
  <2>2. QED
    BY <2>1 DEF PairInv, One
<1>4. OverInv
  BY <1>1, PairsAssumption DEF OverInv, Reached
<1>5. StartInv /\ TargetInv /\ LoopInv
  BY <1>1 DEF StartInv, TargetInv, LoopInv, One
<1>6. QED
  BY <1>2, <1>3, <1>4, <1>5 DEF IInv

LEMMA NextIInv ==
  ASSUME IInv, [Next]_vars
  PROVE  IInv'
<1>1. CASE UNCHANGED vars
  BY <1>1 DEF vars, poolVars, taskVars, IInv, TypeOK, PoolTypeOK, PairInv, Tasks, Held,
     OverInv, Hopeful, May, StartInv, TargetInv, LoopInv, Reached
<1>2. CASE MainStep
  BY <1>2, StartPairIInv, MainStepIInv DEF MainStep
<1>3. ASSUME NEW s \in Services, ThreadStep(s)
      PROVE  IInv'
  BY <1>3, IncrementIInv, TestIInv, PostPartnerIInv, BeginIInv, QuietStepIInv
  DEF ThreadStep, PoolThreadStep, Quiet
<1>4. QED
  BY <1>1, <1>2, <1>3 DEF Next, Terminated

\* IInv is an invariant.
THEOREM Invariance == Spec => []IInv
<1>1. Init => IInv
  BY InitIInv
<1>2. IInv /\ [Next]_vars => IInv'
  BY NextIInv
<1>3. QED
  BY <1>1, <1>2, PTL DEF Spec

\* The pool and the counter are well-typed.
THEOREM TypeCorrect == Spec => []TypeOK
<1>1. IInv => TypeOK
  BY DEF IInv
<1>2. QED
  BY <1>1, Invariance, PTL

\* Each pair has its one task, in one of its two services, until the target is
\* reached, and never a second one, whatever the handlers of other pairs do.
THEOREM PairsKeepTasks == Spec => []OneTaskPerPair
<1>1. ASSUME IInv PROVE OneTaskPerPair
  <2>1. count \in Nat /\ PostCount \in Nat
    BY <1>1, Types DEF IInv
  <2>2. (count < PostCount => ~Reached) /\ (Reached => count >= PostCount)
    BY <2>1 DEF Reached
  <2>3. \A g \in Pairs : /\ Held(2 * g) + Held(2 * g + 1) <= One(g < started)
                         /\ count < PostCount =>
                              Held(2 * g) + Held(2 * g + 1) = One(g < started)
    BY <1>1, <2>2 DEF IInv, PairInv, Tasks
  <2>4. \A s \in stopped : count >= PostCount
    BY <1>1, <2>2 DEF IInv, TargetInv
  <2>5. QED
    BY <2>3, <2>4 DEF OneTaskPerPair, Held
<1>2. IInv => OneTaskPerPair
  BY <1>1
<1>3. QED
  BY <1>2, Invariance, PTL

\* The target is missed by less than the number of pairs, and reached when
\* wait() returns.
THEOREM OvershootBounded == Spec => []OvershootIsBounded
<1>1. ASSUME IInv PROVE OvershootIsBounded
  <2>1. count \in Nat /\ PostCount \in Nat
    BY <1>1, Types DEF IInv
  <2>2. PoolSize \div 2 \in Nat /\ PoolSize \div 2 > 0
    BY PairCount
  <2>3. Cardinality(Hopeful) \in Nat
    <3>1. IsFiniteSet(Pairs)
      <4>1. PoolSize \div 2 - 1 \in Int
        BY <2>2
      <4>2. QED
        BY <4>1, FS_Interval DEF Pairs
    <3>2. QED
      BY <3>1, FS_Subset, FS_CardinalityType DEF Hopeful
  <2>4. PostCount > 0 => count <= PostCount + PoolSize \div 2 - 1
    BY <1>1, <2>1, <2>2, <2>3 DEF IInv, OverInv, Reached
  <2>5. main = "done" => count >= PostCount
    BY <1>1, <2>1 DEF IInv, TargetInv, Reached
  <2>6. QED
    BY <2>4, <2>5 DEF OvershootIsBounded
<1>2. IInv => OvershootIsBounded
  BY <1>1
<1>3. QED
  BY <1>2, Invariance, PTL

-----------------------------------------------------------------------------
(* The way to the end.                                                      *)

\* The thread executes a handler, or is in the loop of stop() in one.
Executing == {"begun", "test", "post", "end", "reset", "stop_other"}
Looping   == {"reset", "stop_other"}

\* outstanding_work_ of a service is at most what there is: less, if handlers
\* that race have released its work twice.
AccountInv ==
  \A s \in Services :
    outstanding[s] <= One(s \in works) + queued[s] + One(at[s] \in Executing)

\* A count that was at zero, and may be lower now, has not been missed.
ZeroInv ==
  \A s \in Services : outstanding[s] <= 0 =>
    \/ s \in stopped \/ at[s] = "stop_self"
    \/ \E o \in Services : at[o] = "stop_other" /\ resetAt[o] = s + 1

\* A loop of stop() passes a work that is still there only if another handler is
\* about to destroy it; the other threads have no loop variable.
PassedInv ==
  \A s \in Services :
    /\ at[s] \notin Looping => resetAt[s] = 0
    /\ at[s] \in Looping =>
         \A i \in works : i < resetAt[s] =>
           \E o \in Services : at[o] = "reset" /\ resetAt[o] = i

\* Beyond the target somebody has yet to see it, or to go on with stop(), until
\* every work is gone.
WorksInv ==
  Reached => works = {} \/ \E s \in Services : at[s] \in Looping \cup {"test"}

\* Every pair has been started when the threads are, which go on.
SpawnInv ==
  /\ main # "start" => started = PoolSize \div 2
  /\ \A s \in Services : s < spawned => at[s] # "none"

EndInv == AccountInv /\ ZeroInv /\ PassedInv /\ WorksInv /\ SpawnInv

\* What the lemmas use of the invariant.
LEMMA EndTypes ==
  ASSUME IInv
  PROVE  /\ at \in [Services -> PoolPCs \cup {"test", "post"}]
         /\ queued \in [Services -> Nat] /\ outstanding \in [Services -> Int]
         /\ resetAt \in [Services -> 0 .. PoolSize]
         /\ works \subseteq Services /\ stopped \subseteq Services
         /\ count \in Nat /\ PostCount \in Nat
         /\ \A s \in Services : s \in Nat /\ s < PoolSize
<1>1. \A s \in Services : s \in Nat /\ s < PoolSize
  BY PairCount DEF Services
<1>2. TypeOK
  BY DEF IInv
<1>3. QED
  BY <1>1, <1>2, Types DEF TypeOK, PoolTypeOK

\* A step of a thread that only moves the thread, and maybe stops a service.
LEMMA MoveKeepsEnd ==
  ASSUME IInv, EndInv, NEW s \in Services, NEW y \in PoolPCs \cup {"test", "post"},
         at' = [at EXCEPT ![s] = y], at[s] \notin {"none", "reset"}, y # "none",
         y # "stop_other",
         UNCHANGED <<main, spawned, queued, outstanding, works, resetAt, started>>,
         stopped \subseteq stopped',
         at[s] \in Executing => y \in Executing,
         at[s] = "stop_self" => s \in stopped',
         at[s] = "stop_other" => resetAt[s] - 1 \in stopped' /\ y = "reset",
         y \in {"reset", "test"} \/ ~Reached' \/ (count' = count /\ at[s] \notin {"test", "stop_other"})
  PROVE  EndInv'
<1>1. /\ at \in [Services -> PoolPCs \cup {"test", "post"}]
      /\ queued \in [Services -> Nat] /\ outstanding \in [Services -> Int]
      /\ resetAt \in [Services -> 0 .. PoolSize]
      /\ \A u \in Services : u \in Nat
  BY EndTypes
<1>2. at'[s] = y /\ \A u \in Services : u # s => at'[u] = at[u]
  BY <1>1
<1>3. AccountInv'
  <2>1. \A u \in Services : One(at'[u] \in Executing) >= One(at[u] \in Executing)
                            /\ One(at[u] \in Executing) \in Nat /\ One(at'[u] \in Executing) \in Nat
                            /\ One(u \in works) \in Nat
    BY <1>2 DEF One
  <2> DEFINE w(u) == One(u \in works)
             a(u) == One(at[u] \in Executing)
             b(u) == One(at'[u] \in Executing)
  <2>2. \A u \in Services : outstanding[u] <= w(u) + queued[u] + a(u)
    BY DEF EndInv, AccountInv
  <2>3. \A u \in Services : /\ b(u) >= a(u) /\ a(u) \in Nat /\ b(u) \in Nat /\ w(u) \in Nat
                            /\ outstanding[u] \in Int /\ queued[u] \in Nat
    BY <1>1, <2>1
  <2> HIDE DEF w, a, b
  <2>4. \A u \in Services : outstanding[u] <= w(u) + queued[u] + b(u)
    BY <2>2, <2>3
  <2>5. QED
    BY <2>4 DEF AccountInv, w, b
<1>4. ZeroInv'
  <2> SUFFICES ASSUME NEW u \in Services, outstanding[u] <= 0
               PROVE  \/ u \in stopped' \/ at'[u] = "stop_self"
                      \/ \E o \in Services : at'[o] = "stop_other" /\ resetAt[o] = u + 1
    BY DEF ZeroInv
  <2>1. \/ u \in stopped \/ at[u] = "stop_self"
        \/ \E o \in Services : at[o] = "stop_other" /\ resetAt[o] = u + 1
    BY DEF EndInv, ZeroInv
  <2>2. CASE u \in stopped \/ at[u] = "stop_self"
    BY <1>2, <2>2
  <2>3. ASSUME NEW o \in Services, at[o] = "stop_other", resetAt[o] = u + 1
        PROVE  u \in stopped' \/ (at'[o] = "stop_other" /\ resetAt[o] = u + 1)
    BY <1>1, <1>2, <2>3
  <2>4. QED
    BY <2>1, <2>2, <2>3
<1>5. PassedInv'
  <2>1. at'[s] \notin Looping => resetAt[s] = 0
    BY <1>2 DEF EndInv, PassedInv, Looping
  <2>2. ASSUME NEW j \in works, j < resetAt[s]
        PROVE  \E o \in Services : at[o] = "reset" /\ resetAt[o] = j
    <3>1. j \in Nat /\ resetAt[s] # 0
      BY <1>1, <2>2, EndTypes
    <3>2. QED
      BY <2>2, <3>1 DEF EndInv, PassedInv
  <2>3. \A o \in Services : at[o] = "reset" => at'[o] = "reset"
    BY <1>2
  <2>4. QED
    BY <1>2, <2>1, <2>2, <2>3 DEF EndInv, PassedInv
<1>6. WorksInv'
  <2>1. CASE y \in {"reset", "test"}
    BY <1>2, <2>1 DEF WorksInv, Looping
  <2>2. CASE ~Reached'
    BY <2>2 DEF WorksInv
  <2>3. CASE count' = count /\ at[s] \notin {"test", "stop_other"}
    BY <1>2, <2>3 DEF EndInv, WorksInv, Looping, Reached
  <2>4. QED
    BY <2>1, <2>2, <2>3
<1>7. SpawnInv'
  BY <1>2 DEF EndInv, SpawnInv
<1>8. QED
  BY <1>3, <1>4, <1>5, <1>6, <1>7 DEF EndInv

\* A handler is posted: by start(), or by a handler that ends with this.
LEMMA PostKeepsEnd ==
  ASSUME IInv, EndInv, NEW d \in Services,
         queued' = [queued EXCEPT ![d] = @ + 1],
         outstanding' = [outstanding EXCEPT ![d] = @ + 1],
         \/ at' = at
         \/ \E s \in Services : at[s] = "post" /\ at' = [at EXCEPT ![s] = "end"],
         UNCHANGED <<main, spawned, works, stopped, resetAt, count>>,
         main # "start" => started' = started
  PROVE  EndInv'
<1>1. /\ at \in [Services -> PoolPCs \cup {"test", "post"}]
      /\ queued \in [Services -> Nat] /\ outstanding \in [Services -> Int]
  BY EndTypes
<1>2. \A u \in Services : at'[u] = at[u] \/ (at[u] = "post" /\ at'[u] = "end")
  BY <1>1
<1>3. \A u \in Services : \/ queued'[u] = queued[u] /\ outstanding'[u] = outstanding[u]
                          \/ queued'[u] = queued[u] + 1 /\ outstanding'[u] = outstanding[u] + 1
  BY <1>1
<1>4. AccountInv'
  <2> DEFINE w(u) == One(u \in works)
             a(u) == One(at[u] \in Executing)
             b(u) == One(at'[u] \in Executing)
  <2>1. \A u \in Services : outstanding[u] <= w(u) + queued[u] + a(u)
    BY DEF EndInv, AccountInv
  <2>2. \A u \in Services : b(u) = a(u) /\ a(u) \in Nat /\ w(u) \in Nat
    BY <1>2 DEF One, Executing
  <2> HIDE DEF w, a, b
  <2>3. \A u \in Services : outstanding'[u] <= w(u) + queued'[u] + b(u)
    BY <1>1, <1>3, <2>1, <2>2
  <2>4. QED
    BY <2>3 DEF AccountInv, w, b
<1>5. ZeroInv'
  <2>1. \A u \in Services : outstanding'[u] <= 0 => outstanding[u] <= 0
    BY <1>1, <1>3
  <2>2. QED
    BY <1>2, <2>1 DEF EndInv, ZeroInv
<1>6. PassedInv' /\ WorksInv' /\ SpawnInv'
  BY <1>2 DEF EndInv, PassedInv, WorksInv, SpawnInv, Looping, Reached
<1>7. QED
  BY <1>4, <1>5, <1>6 DEF EndInv

\* A handler begins.
LEMMA BeginKeepsEnd ==
  ASSUME IInv, EndInv, NEW s \in Services, Begin(s), UNCHANGED taskVars
  PROVE  EndInv'
<1>1. /\ at \in [Services -> PoolPCs \cup {"test", "post"}]
      /\ queued \in [Services -> Nat] /\ outstanding \in [Services -> Int]
  BY EndTypes
<1>2. /\ at[s] = "idle" /\ queued[s] > 0
      /\ at' = [at EXCEPT ![s] = "begun"]
      /\ queued' = [queued EXCEPT ![s] = @ - 1]
      /\ UNCHANGED <<main, spawned, outstanding, works, stopped, resetAt, started, count>>
  BY DEF Begin, Goto, taskVars
<1>3. /\ at'[s] = "begun" /\ queued'[s] = queued[s] - 1
      /\ \A u \in Services : u # s => at'[u] = at[u] /\ queued'[u] = queued[u]
  BY <1>1, <1>2
<1>4. AccountInv'
  <2> DEFINE w(u) == One(u \in works)
             a(u) == One(at[u] \in Executing)
             b(u) == One(at'[u] \in Executing)
  <2>1. \A u \in Services : outstanding[u] <= w(u) + queued[u] + a(u)
    BY DEF EndInv, AccountInv
  <2>2. /\ a(s) = 0 /\ b(s) = 1
        /\ \A u \in Services : (u # s => b(u) = a(u)) /\ a(u) \in Nat /\ w(u) \in Nat
    BY <1>2, <1>3 DEF One, Executing
  <2> HIDE DEF w, a, b
  <2>3. \A u \in Services : outstanding[u] <= w(u) + queued'[u] + b(u)
    BY <1>1, <1>3, <2>1, <2>2
  <2>4. QED
    BY <1>2, <2>3 DEF AccountInv, w, b
<1>5. ZeroInv' /\ PassedInv' /\ WorksInv' /\ SpawnInv'
  BY <1>2, <1>3 DEF EndInv, ZeroInv, PassedInv, WorksInv, SpawnInv, Looping, Reached
<1>6. QED
  BY <1>4, <1>5 DEF EndInv

\* A handler ends: if its work was the last, its own thread stops the service.
LEMMA EndHandlerKeepsEnd ==
  ASSUME IInv, EndInv, NEW s \in Services, EndHandler(s), UNCHANGED taskVars
  PROVE  EndInv'
<1>1. /\ at \in [Services -> PoolPCs \cup {"test", "post"}]
      /\ queued \in [Services -> Nat] /\ outstanding \in [Services -> Int]
  BY EndTypes
<1>2. /\ at[s] = "end"
      /\ outstanding' = [outstanding EXCEPT ![s] = @ - 1]
      /\ at' = [at EXCEPT ![s] = IF outstanding[s] = 1 THEN "stop_self" ELSE "idle"]
      /\ UNCHANGED <<main, spawned, queued, works, stopped, resetAt, started, count>>
  BY DEF EndHandler, Goto, taskVars
<1>3. /\ at'[s] = IF outstanding[s] = 1 THEN "stop_self" ELSE "idle"
      /\ outstanding'[s] = outstanding[s] - 1
      /\ \A u \in Services : u # s => at'[u] = at[u] /\ outstanding'[u] = outstanding[u]
  BY <1>1, <1>2
<1>4. AccountInv'
  <2> DEFINE w(u) == One(u \in works)
             a(u) == One(at[u] \in Executing)
             b(u) == One(at'[u] \in Executing)
  <2>1. \A u \in Services : outstanding[u] <= w(u) + queued[u] + a(u)
    BY DEF EndInv, AccountInv
  <2>2. /\ a(s) = 1 /\ b(s) = 0
        /\ \A u \in Services : (u # s => b(u) = a(u)) /\ a(u) \in Nat /\ w(u) \in Nat
    BY <1>2, <1>3 DEF One, Executing
  <2> HIDE DEF w, a, b
  <2>3. \A u \in Services : outstanding'[u] <= w(u) + queued[u] + b(u)
    BY <1>1, <1>3, <2>1, <2>2
  <2>4. QED
    BY <1>2, <2>3 DEF AccountInv, w, b
<1>5. ZeroInv'
  <2> SUFFICES ASSUME NEW u \in Services, outstanding'[u] <= 0
               PROVE  \/ u \in stopped \/ at'[u] = "stop_self"
                      \/ \E o \in Services : at'[o] = "stop_other" /\ resetAt[o] = u + 1
    BY <1>2 DEF ZeroInv
  <2>1. outstanding[u] <= 0 => \/ u \in stopped \/ at[u] = "stop_self"
                               \/ \E o \in Services : at[o] = "stop_other" /\ resetAt[o] = u + 1
    BY DEF EndInv, ZeroInv
  <2>2. outstanding[u] <= 0 \/ (u = s /\ outstanding[s] = 1)
    BY <1>1, <1>3
  <2>3. QED
    BY <1>2, <1>3, <2>1, <2>2
<1>6. PassedInv' /\ WorksInv' /\ SpawnInv'
  BY <1>2, <1>3 DEF EndInv, PassedInv, WorksInv, SpawnInv, Looping, Reached
<1>7. QED
  BY <1>4, <1>5, <1>6 DEF EndInv

\* A round of the loop of stop() at service i: the work is released, by this
\* handler or by this one too, or is gone.
LEMMA RoundKeepsEnd ==
  ASSUME IInv, EndInv, NEW s \in Services, NEW i \in Services,
         at[s] = "reset", resetAt[s] = i, resetAt' = [resetAt EXCEPT ![s] = i + 1],
         \/ UNCHANGED <<at, outstanding, works>>
         \/ /\ outstanding' = [outstanding EXCEPT ![i] = @ - 1]
            /\ at' = [at EXCEPT ![s] = IF outstanding[i] = 1 THEN "stop_other" ELSE "reset"]
            /\ works' \in {works, works \ {i}} /\ i \in works,
         \/ i \notin works'
         \/ \E o \in Services \ {s} : at[o] = "reset" /\ resetAt[o] = i,
         UNCHANGED <<main, spawned, queued, stopped, started, count>>
  PROVE  EndInv'
<1>1. /\ at \in [Services -> PoolPCs \cup {"test", "post"}]
      /\ queued \in [Services -> Nat] /\ outstanding \in [Services -> Int]
      /\ resetAt \in [Services -> 0 .. PoolSize]
      /\ works \subseteq Services
      /\ \A u \in Services : u \in Nat
  BY EndTypes
<1>2. /\ at'[s] \in Looping /\ resetAt'[s] = i + 1
      /\ \A u \in Services : u # s => at'[u] = at[u] /\ resetAt'[u] = resetAt[u]
      /\ works' \subseteq works
  BY <1>1 DEF Looping
<1>3. AccountInv'
  <2> DEFINE w(u) == One(u \in works)
             v(u) == One(u \in works')
             a(u) == One(at[u] \in Executing)
             b(u) == One(at'[u] \in Executing)
  <2>1. \A u \in Services : outstanding[u] <= w(u) + queued[u] + a(u)
    BY DEF EndInv, AccountInv
  <2>2. \A u \in Services : b(u) = a(u) /\ a(u) \in Nat /\ w(u) \in Nat /\ v(u) \in Nat
    BY <1>2 DEF One, Executing, Looping
  <2>3. \A u \in Services : \/ outstanding'[u] = outstanding[u] /\ v(u) = w(u)
                            \/ outstanding'[u] = outstanding[u] - 1 /\ w(u) <= v(u) + 1
    BY <1>1 DEF One
  <2> HIDE DEF w, v, a, b
  <2>4. \A u \in Services : outstanding'[u] <= v(u) + queued[u] + b(u)
    BY <1>1, <2>1, <2>2, <2>3
  <2>5. QED
    BY <2>4 DEF AccountInv, v, b
<1>4. ZeroInv'
  <2> SUFFICES ASSUME NEW u \in Services, outstanding'[u] <= 0
               PROVE  \/ u \in stopped \/ at'[u] = "stop_self"
                      \/ \E o \in Services : at'[o] = "stop_other" /\ resetAt'[o] = u + 1
    BY DEF ZeroInv
  <2>1. outstanding[u] <= 0 => \/ u \in stopped \/ at[u] = "stop_self"
                               \/ \E o \in Services : at[o] = "stop_other" /\ resetAt[o] = u + 1
    BY DEF EndInv, ZeroInv
  <2>2. outstanding[u] <= 0 \/ (u = i /\ outstanding[i] = 1 /\ at'[s] = "stop_other")
    BY <1>1
  <2>3. CASE u = i /\ at'[s] = "stop_other"
    BY <1>2, <2>3
  <2>4. CASE outstanding[u] <= 0
    BY <1>2, <2>1, <2>4
  <2>5. QED
    BY <2>2, <2>3, <2>4
<1>5. PassedInv'
  <2>1. \A u \in Services : at'[u] \notin Looping => resetAt'[u] = 0
    BY <1>2 DEF EndInv, PassedInv
  <2>2. ASSUME NEW u \in Services, at'[u] \in Looping, NEW j \in works', j < resetAt'[u]
        PROVE  \E o \in Services : at'[o] = "reset" /\ resetAt'[o] = j
    <3>1. CASE j = i
      BY <1>2, <3>1
    <3>2. CASE j # i
      <4>1. j \in works /\ j \in Nat /\ i \in Nat
        BY <1>1, <1>2
      <4>2. at[u] \in Looping /\ j < resetAt[u]
        <5>1. CASE u = s
          BY <1>2, <3>2, <4>1, <5>1, <2>2 DEF Looping
        <5>2. CASE u # s
          BY <1>2, <2>2, <5>2
        <5>3. QED
          BY <5>1, <5>2
      <4>3. PICK o \in Services : at[o] = "reset" /\ resetAt[o] = j
        BY <4>1, <4>2 DEF EndInv, PassedInv
      <4>4. o # s
        BY <3>2, <4>3
      <4>5. QED
        BY <1>2, <4>3, <4>4
    <3>3. QED
      BY <3>1, <3>2
  <2>3. QED
    BY <2>1, <2>2 DEF PassedInv
<1>6. WorksInv' /\ SpawnInv'
  BY <1>2 DEF EndInv, WorksInv, SpawnInv, Looping
<1>7. QED
  BY <1>3, <1>4, <1>5, <1>6 DEF EndInv

\* stop() returns: what works there are, other handlers will destroy.
LEMMA EndStopKeepsEnd ==
  ASSUME IInv, EndInv, NEW s \in Services, EndStop(s), UNCHANGED taskVars
  PROVE  EndInv'
<1>1. /\ at \in [Services -> PoolPCs \cup {"test", "post"}]
      /\ queued \in [Services -> Nat] /\ outstanding \in [Services -> Int]
      /\ resetAt \in [Services -> 0 .. PoolSize]
      /\ works \subseteq Services
      /\ \A u \in Services : u \in Nat /\ u < PoolSize
  BY EndTypes
<1>2. /\ at[s] = "reset" /\ resetAt[s] = PoolSize
      /\ at' = [at EXCEPT ![s] = "end"] /\ resetAt' = [resetAt EXCEPT ![s] = 0]
      /\ UNCHANGED <<main, spawned, queued, outstanding, works, stopped, started, count>>
  BY DEF EndStop, Goto, taskVars
<1>3. /\ at'[s] = "end" /\ resetAt'[s] = 0
      /\ \A u \in Services : u # s => at'[u] = at[u] /\ resetAt'[u] = resetAt[u]
  BY <1>1, <1>2
<1>4. \A j \in works : j \in Nat /\ j < PoolSize /\ j # PoolSize
  BY <1>1
<1>5. AccountInv'
  BY <1>2, <1>3 DEF EndInv, AccountInv, One, Executing
<1>6. ZeroInv'
  BY <1>2, <1>3 DEF EndInv, ZeroInv
<1>7. PassedInv'
  <2>1. ASSUME NEW u \in Services, at'[u] \in Looping, NEW j \in works, j < resetAt'[u]
        PROVE  \E o \in Services : at'[o] = "reset" /\ resetAt'[o] = j
    <3>1. u # s /\ at[u] \in Looping /\ j < resetAt[u]
      BY <1>3, <2>1 DEF Looping
    <3>2. PICK o \in Services : at[o] = "reset" /\ resetAt[o] = j
      BY <3>1 DEF EndInv, PassedInv
    <3>3. o # s
      BY <1>2, <1>4, <3>2
    <3>4. QED
      BY <1>3, <3>2, <3>3
  <2>2. \A u \in Services : at'[u] \notin Looping => resetAt'[u] = 0
    BY <1>3 DEF EndInv, PassedInv
  <2>3. QED
    BY <1>2, <2>1, <2>2 DEF PassedInv
<1>8. WorksInv'
  <2> SUFFICES ASSUME works # {}
               PROVE  \E o \in Services : at'[o] \in Looping \cup {"test"}
    BY <1>2 DEF WorksInv
  <2>1. PICK j \in works : TRUE
    OBVIOUS
  <2>2. PICK o \in Services : at[o] = "reset" /\ resetAt[o] = j
    BY <1>2, <1>4 DEF EndInv, PassedInv, Looping
  <2>3. o # s
    BY <1>2, <1>4, <2>2
  <2>4. QED
    BY <1>3, <2>2, <2>3 DEF Looping
<1>9. SpawnInv'
  BY <1>2, <1>3 DEF EndInv, SpawnInv
<1>10. QED
  BY <1>5, <1>6, <1>7, <1>8, <1>9 DEF EndInv

\* Main starts the pairs, then the threads.
LEMMA MainKeepsEnd ==
  ASSUME IInv, EndInv, MainStep
  PROVE  EndInv'
<1>1. /\ at \in [Services -> PoolPCs \cup {"test", "post"}]
      /\ started \in 0 .. PoolSize \div 2 /\ spawned \in 0 .. PoolSize
  BY EndTypes DEF IInv, TypeOK, PoolTypeOK
<1>2. CASE StartPair
  <2>1. PICK g \in Pairs : g = started
    BY <1>1, <1>2, PairCount DEF StartPair, Pairs
  <2>2. 2 * g \in Services /\ started * 2 = 2 * g /\ GetIoService(2 * g) = 2 * g
    BY <2>1, Members
  <2>3. PICK d \in Services : d = GetIoService(started * 2)
    BY <2>2
  <2>4. /\ queued' = [queued EXCEPT ![d] = @ + 1]
        /\ outstanding' = [outstanding EXCEPT ![d] = @ + 1]
        /\ UNCHANGED <<main, spawned, at, works, stopped, resetAt, count>> /\ main = "start"
    BY <1>2, <2>3 DEF StartPair, PostTo
  <2>5. QED
    BY <2>4, PostKeepsEnd
<1>3. CASE EnterRun
  BY <1>3 DEF EnterRun, taskVars, EndInv, AccountInv, ZeroInv, PassedInv, WorksInv, SpawnInv,
     Reached
<1>4. CASE Spawn /\ UNCHANGED taskVars
  <2>1. /\ spawned \in Services /\ spawned' = spawned + 1
        /\ at' = [at EXCEPT ![spawned] = "enter"]
        /\ main = "run"
        /\ UNCHANGED <<main, queued, outstanding, works, stopped, resetAt, started, count>>
    BY <1>1, <1>4, PairCount DEF Spawn, Goto, Services, taskVars
  <2>2. at[spawned] = "none"
    BY <2>1 DEF IInv, StartInv, Services
  <2>3. /\ at'[spawned] = "enter"
        /\ \A u \in Services : u # spawned => at'[u] = at[u]
    BY <1>1, <2>1
  <2>4. AccountInv' /\ ZeroInv' /\ PassedInv' /\ WorksInv'
    BY <2>1, <2>2, <2>3
    DEF EndInv, AccountInv, ZeroInv, PassedInv, WorksInv, Looping, Executing, One, Reached
  <2>5. SpawnInv'
    BY <1>1, <2>1, <2>3, EndTypes DEF EndInv, SpawnInv
  <2>6. QED
    BY <2>4, <2>5 DEF EndInv
<1>5. CASE JoinAll /\ UNCHANGED taskVars
  BY <1>5 DEF JoinAll, taskVars, EndInv, AccountInv, ZeroInv, PassedInv, WorksInv, SpawnInv,
     Reached
<1>6. QED
  BY <1>2, <1>3, <1>4, <1>5 DEF MainStep, PoolMainStep

\* The threads count, stop the pool and return.
LEMMA ThreadKeepsEnd ==
  ASSUME IInv, EndInv, NEW s \in Services, ThreadStep(s)
  PROVE  EndInv'
<1>1. /\ at \in [Services -> PoolPCs \cup {"test", "post"}]
      /\ resetAt \in [Services -> 0 .. PoolSize]
      /\ count \in Nat /\ PostCount \in Nat
      /\ works \subseteq Services
  BY EndTypes
<1>2. CASE Increment(s)
  <2>1. /\ at[s] = "begun" /\ at' = [at EXCEPT ![s] = "test"]
        /\ UNCHANGED <<main, spawned, queued, outstanding, works, stopped, resetAt, started>>
    BY <1>2 DEF Increment, Goto
  <2>2. QED
    BY <2>1, MoveKeepsEnd DEF Executing
<1>3. CASE Test(s)
  <2>1. /\ at[s] = "test"
        /\ at' = [at EXCEPT ![s] = IF count >= PostCount THEN "reset" ELSE "post"]
        /\ UNCHANGED <<main, spawned, queued, outstanding, works, stopped, resetAt, started, count>>
    BY <1>3 DEF Test, Goto, taskVars
  <2>2. CASE count >= PostCount
    BY <2>1, <2>2, MoveKeepsEnd DEF Executing, PoolPCs
  <2>3. CASE ~(count >= PostCount)
    <3>1. ~Reached'
      BY <2>1, <2>3 DEF Reached
    <3>2. QED
      BY <2>1, <2>3, <3>1, MoveKeepsEnd DEF Executing
  <2>4. QED
    BY <2>2, <2>3
<1>4. CASE PostPartner(s)
  <2>1. at[s] = "post"
    BY <1>4 DEF PostPartner
  <2>2. PICK d \in Services : d = GetIoService(Partner(s))
    BY <2>1, TaskIsHere
  <2>3. /\ queued' = [queued EXCEPT ![d] = @ + 1]
        /\ outstanding' = [outstanding EXCEPT ![d] = @ + 1]
        /\ at' = [at EXCEPT ![s] = "end"]
        /\ UNCHANGED <<main, spawned, works, stopped, resetAt, count, started>>
    BY <1>4, <2>2 DEF PostPartner, PostTo, Goto, taskVars
  <2>4. QED
    BY <2>1, <2>3, PostKeepsEnd
<1>5. ASSUME PoolThreadStep(s), UNCHANGED taskVars
      PROVE  EndInv'
  <2> USE DEF taskVars
  <2>1. CASE Enter(s)
    <3>1. PICK y \in {"stop_self", "idle"} : at' = [at EXCEPT ![s] = y]
      BY <2>1 DEF Enter, Goto
    <3>2. /\ at[s] = "enter"
          /\ UNCHANGED <<main, spawned, queued, outstanding, works, stopped, resetAt>>
      BY <2>1 DEF Enter
    <3>3. QED
      BY <1>5, <3>1, <3>2, MoveKeepsEnd DEF Executing, PoolPCs
  <2>2. CASE Begin(s)
    BY <1>5, <2>2, BeginKeepsEnd
  <2>3. CASE EndHandler(s)
    BY <1>5, <2>3, EndHandlerKeepsEnd
  <2>4. CASE StopSelf(s)
    <3>1. /\ at[s] = "stop_self" /\ at' = [at EXCEPT ![s] = "idle"] /\ stopped' = stopped \cup {s}
          /\ UNCHANGED <<main, spawned, queued, outstanding, works, resetAt>>
      BY <2>4 DEF StopSelf, Goto
    <3>2. QED
      BY <1>5, <3>1, MoveKeepsEnd DEF Executing, PoolPCs
  <2>5. CASE RunReturns(s)
    <3>1. /\ at[s] = "idle" /\ at' = [at EXCEPT ![s] = "returned"]
          /\ UNCHANGED <<main, spawned, queued, outstanding, works, stopped, resetAt>>
      BY <2>5 DEF RunReturns, Goto
    <3>2. QED
      BY <1>5, <3>1, MoveKeepsEnd DEF Executing, PoolPCs
  <2>6. CASE ResetWork(s)
    <3>1. PICK i \in Services : i = resetAt[s]
      <4>1. resetAt[s] \in 0 .. PoolSize /\ resetAt[s] < PoolSize
        BY <1>1, <2>6 DEF ResetWork
      <4>2. resetAt[s] \in Services
        BY <4>1, PairCount DEF Services
      <4>3. QED
        BY <4>2
    <3>2. /\ at[s] = "reset" /\ resetAt' = [resetAt EXCEPT ![s] = i + 1]
          /\ UNCHANGED <<main, spawned, queued, stopped>>
          /\ \/ UNCHANGED <<at, outstanding, works>> /\ i \notin works
             \/ /\ outstanding' = [outstanding EXCEPT ![i] = @ - 1]
                /\ at' = [at EXCEPT ![s] = IF outstanding[i] = 1 THEN "stop_other" ELSE "reset"]
                /\ works' = works \ {i} /\ i \in works
      BY <2>6, <3>1 DEF ResetWork, DestroyWork, Goto
    <3>3. i \notin works'
      BY <3>2
    <3>4. QED
      BY <1>5, <3>1, <3>2, <3>3, RoundKeepsEnd
  <2>7. CASE ResetWorkRaced(s)
    <3>1. PICK i \in Services : i = resetAt[s]
      BY <1>1, <2>7 DEF ResetWorkRaced
    <3>2. /\ at[s] = "reset" /\ resetAt' = [resetAt EXCEPT ![s] = i + 1]
          /\ UNCHANGED <<main, spawned, queued, stopped>>
          /\ outstanding' = [outstanding EXCEPT ![i] = @ - 1]
          /\ at' = [at EXCEPT ![s] = IF outstanding[i] = 1 THEN "stop_other" ELSE "reset"]
          /\ works' = works /\ i \in works
          /\ \E o \in Services \ {s} : at[o] = "reset" /\ resetAt[o] = i
      BY <2>7, <3>1 DEF ResetWorkRaced, DestroyWork, Goto
    <3>3. QED
      BY <1>5, <3>1, <3>2, RoundKeepsEnd
  <2>8. CASE StopOther(s)
    <3>1. /\ at[s] = "stop_other" /\ at' = [at EXCEPT ![s] = "reset"]
          /\ stopped' = stopped \cup {resetAt[s] - 1}
          /\ UNCHANGED <<main, spawned, queued, outstanding, works, resetAt>>
      BY <2>8 DEF StopOther, Goto
    <3>2. QED
      BY <1>5, <3>1, MoveKeepsEnd DEF Executing, PoolPCs
  <2>9. CASE EndStop(s)
    BY <1>5, <2>9, EndStopKeepsEnd
  <2>10. QED
    BY <1>5, <2>1, <2>2, <2>3, <2>4, <2>5, <2>6, <2>7, <2>8, <2>9 DEF PoolThreadStep
<1>6. QED
  BY <1>2, <1>3, <1>4, <1>5 DEF ThreadStep

\* The program starts with nothing of this decided.
LEMMA InitEnd == Init => EndInv
<1> SUFFICES ASSUME Init
             PROVE  EndInv
  OBVIOUS
<1>1. /\ \A s \in Services : at[s] = "none" /\ queued[s] = 0 /\ outstanding[s] = 1 /\ resetAt[s] = 0
      /\ main = "start" /\ spawned = 0 /\ count = 0 /\ works = Services
  BY DEF Init, PoolInit
<1>2. AccountInv /\ ZeroInv
  BY <1>1 DEF AccountInv, ZeroInv, One, Executing
<1>3. PassedInv /\ WorksInv
  BY <1>1 DEF PassedInv, WorksInv, Reached, Looping
<1>4. SpawnInv
  BY <1>1 DEF SpawnInv, Services
<1>5. QED
  BY <1>2, <1>3, <1>4 DEF EndInv

\* Every step keeps it.
LEMMA NextEnd == IInv /\ EndInv /\ [Next]_vars => EndInv'
<1> SUFFICES ASSUME IInv, EndInv, [Next]_vars
             PROVE  EndInv'
  OBVIOUS
<1>1. CASE UNCHANGED vars
  BY <1>1 DEF vars, poolVars, taskVars, EndInv, AccountInv, ZeroInv, PassedInv, WorksInv,
     SpawnInv, Reached
<1>2. CASE MainStep
  BY <1>2, MainKeepsEnd
<1>3. ASSUME NEW s \in Services, ThreadStep(s)
      PROVE  EndInv'
  BY <1>3, ThreadKeepsEnd
<1>4. QED
  BY <1>1, <1>2, <1>3 DEF Next, Terminated

\* How the pool gets to its end is an invariant.
THEOREM EndInvariance == Spec => []EndInv
  BY InitEnd, NextEnd, Invariance, PTL DEF Spec

\* Whether main may take a step, and the thread of a service: the guards of
\* MainStep and ThreadStep.
MainMayStep ==
  \/ main = "start"
  \/ main = "run" /\ (spawned < PoolSize \/ \A s \in Services : at[s] = "returned")

MayStep(s) ==
  \/ at[s] \in {"enter", "begun", "test", "post", "end", "reset", "stop_other", "stop_self"}
  \/ at[s] = "idle" /\ (s \in stopped \/ queued[s] > 0)

NotStuck == main = "done" \/ MainMayStep \/ \E s \in Services : MayStep(s)

\* Until wait() has returned somebody may go on: never do all threads wait in
\* services that nobody will stop, however many handlers execute stop() at the
\* same time and whatever works they release twice.
THEOREM NeverStuck == Spec => []NotStuck
<1>1. ASSUME IInv, EndInv, ~NotStuck PROVE FALSE
  <2>1. /\ at \in [Services -> PoolPCs \cup {"test", "post"}]
        /\ queued \in [Services -> Nat] /\ outstanding \in [Services -> Int]
        /\ works \subseteq Services
        /\ spawned \in 0 .. PoolSize /\ main \in {"start", "run", "done"}
        /\ \A s \in Services : s \in Nat /\ s < PoolSize
    BY <1>1, EndTypes DEF IInv, TypeOK, PoolTypeOK
  <2>2. main = "run" /\ spawned = PoolSize /\ started = PoolSize \div 2
    BY <1>1, <2>1, PairCount DEF NotStuck, MainMayStep, EndInv, SpawnInv
  <2>3. \A s \in Services : /\ at[s] \in {"idle", "returned"}
                            /\ at[s] = "idle" => s \notin stopped /\ queued[s] = 0
    BY <1>1, <2>1, <2>2 DEF NotStuck, MayStep, EndInv, SpawnInv, PoolPCs
  <2>4. PICK s \in Services : at[s] = "idle" /\ s \notin stopped /\ queued[s] = 0
    BY <1>1, <2>2, <2>3 DEF NotStuck, MainMayStep
  <2>5. outstanding[s] > 0
    BY <1>1, <2>1, <2>3, <2>4 DEF EndInv, ZeroInv
  <2>6. s \in works
    <3>1. outstanding[s] <= One(s \in works) + queued[s] + One(at[s] \in Executing)
      BY <1>1 DEF EndInv, AccountInv
    <3>2. One(at[s] \in Executing) = 0
      BY <2>4 DEF One, Executing
    <3>3. One(s \in works) # 0
      BY <2>1, <2>4, <2>5, <3>1, <3>2 DEF One
    <3>4. QED
      BY <3>3 DEF One
  <2>7. ~Reached
    BY <1>1, <2>3, <2>6 DEF EndInv, WorksInv, Looping
  <2>8. \A u \in Services : Held(u) = 0
    <3>1. stopped = {}
      BY <1>1, <2>7 DEF IInv, TargetInv
    <3>2. \A u \in Services : at[u] = "idle" /\ queued[u] = 0
      BY <1>1, <2>3, <3>1 DEF IInv, LoopInv
    <3>3. QED
      BY <3>2 DEF Held, One
  <2>9. 0 \in Pairs /\ 0 < started
    BY <2>2, PairCount DEF Pairs
  <2>10. Tasks(0) = 1
    BY <1>1, <2>7, <2>9 DEF IInv, PairInv, One
  <2>11. 2 * 0 \in Services /\ 2 * 0 + 1 \in Services
    BY <2>9, Members
  <2>12. QED
    BY <2>8, <2>10, <2>11 DEF Tasks
<1>2. IInv /\ EndInv => NotStuck
  BY <1>1
<1>3. QED
  BY <1>2, Invariance, EndInvariance, PTL

-----------------------------------------------------------------------------
(* posttask1.cpp: the ring of the same pool.  It has one task and no lock, for  *)
(* every size of the pool, every post_count_ and every width of its counters.   *)

CONSTANTS RingSize, RingCount, IndexValues, CountValues
VARIABLES index, stamps

Ring == INSTANCE PostTask1 WITH PoolSize <- RingSize, PostCount <- RingCount

\* The tasks that a service has.
InTurn(s) == queued[s] + One(at[s] \in {"begun", "post"})

\* Until stop_time_ is written there is one task, and it is in one place.
PlaceInv ==
  IF main = "start" \/ stamps > 0
  THEN \A s \in Ring!Services : InTurn(s) = 0
  ELSE \E s \in Ring!Services :
         InTurn(s) = 1 /\ \A u \in Ring!Services : u # s => InTurn(u) = 0

\* Where it is.
TurnInv ==
  /\ index \in Nat /\ index <= count /\ index % RingSize = count % RingSize
  /\ \A s \in Ring!Services : queued[s] > 0 \/ at[s] = "begun" => s = count % RingSize

\* The count and stop_time_.
StampInv ==
  /\ stamps = 0 => count < RingCount
  /\ stamps > 0 => count = RingCount

\* Until stop_time_ is written nothing ends.
OpenInv ==
  stamps = 0 =>
    /\ stopped = {} /\ main # "done"
    /\ \A s \in Ring!Services :
         /\ at[s] \notin {"reset", "stop_other", "stop_self", "returned"}
         /\ outstanding[s] = 1 + queued[s] + One(at[s] \in {"begun", "post", "end"})

\* Nothing runs before run() has created its thread.
ThreadInv ==
  /\ main = "start" => spawned = 0 /\ stamps = 0 /\ count = 0 /\ index = 0
  /\ \A s \in Ring!Services : s >= spawned => at[s] = "none"
  /\ main = "done" => \A s \in Ring!Services : at[s] = "returned"

\* The service that the loop of stop() stops is the one before resetAt.
ResetInv == \A s \in Ring!Services : at[s] = "stop_other" => resetAt[s] # 0

RingInv ==
  /\ Ring!TypeOK
  /\ PlaceInv
  /\ TurnInv
  /\ StampInv
  /\ OpenInv
  /\ ThreadInv
  /\ ResetInv

\* The ring is as long as the pool.  Either the index does not wrap or it wraps
\* where the ring does.
RingFits ==
  /\ Ring!WidthAssumption
  /\ RingSize \in Nat \ {0}
  /\ RingCount > 0
  /\ RingCount < IndexValues \/ IndexValues % RingSize = 0

\* Multiples of p that lie further than p from each other.
LEMMA Multiples ==
  ASSUME NEW p \in Nat \ {0}, NEW d \in Int
  PROVE  /\ d >= 2 => p * d >= 2 * p
         /\ d <= -1 => p * d <= -p
         /\ p * 0 = 0 /\ p * 1 = p
  OBVIOUS
\* Quotient and remainder.
LEMMA Division ==
  ASSUME NEW p \in Nat \ {0}, NEW a \in Nat
  PROVE  /\ a \div p \in Int /\ a % p \in Int
         /\ 0 <= a % p /\ a % p < p
         /\ a = p * (a \div p) + (a % p)
  OBVIOUS
\* The remainder of the next number is the next one, or 0 at the end of the ring.
LEMMA ModNext ==
  ASSUME NEW p \in Nat \ {0}, NEW a \in Nat
  PROVE  (a + 1) % p = IF (a % p) + 1 = p THEN 0 ELSE (a % p) + 1
<1> DEFINE q == a \div p
           r == a % p
           u == (a + 1) \div p
           v == (a + 1) % p
           d == u - q
<1>1. /\ q \in Int /\ r \in Int /\ u \in Int /\ v \in Int
      /\ 0 <= r /\ r < p /\ 0 <= v /\ v < p
  BY Division
<1>2. a = p * q + r /\ a + 1 = p * u + v
  BY Division
<1>3. d \in Int /\ p * d = p * u - p * q
  <2> HIDE DEF u, q
  <2>1. QED
    BY <1>1
<1>4. p * d = (r + 1) - v
  <2> HIDE DEF d, u, q, r, v
  <2>1. p * q \in Int /\ p * u \in Int
    BY <1>1
  <2>2. QED
    BY <1>1, <1>2, <1>3, <2>1
<1>5. d = 0 \/ d = 1
  <2> HIDE DEF d, u, q, r, v
  <2>1. ~(d >= 2) /\ ~(d <= -1)
    BY <1>1, <1>3, <1>4, Multiples
  <2>2. QED
    BY <1>3, <2>1
<1>6. v = r + 1 \/ v = r + 1 - p
  <2> HIDE DEF d, u, q, r, v
  <2>1. QED
    BY <1>1, <1>4, <1>5, Multiples
<1>7. v = IF r + 1 = p THEN 0 ELSE r + 1
  <2> HIDE DEF d, u, q, r, v
  <2>1. QED
    BY <1>1, <1>6
<1>8. QED
  BY <1>7

\* What the types and the constants say.
LEMMA RingTypes ==
  ASSUME RingFits, Ring!TypeOK
  PROVE  /\ at \in [Ring!Services -> Ring!PoolPCs \cup {"post"}]
         /\ queued \in [Ring!Services -> Nat]
         /\ outstanding \in [Ring!Services -> Int]
         /\ resetAt \in [Ring!Services -> 0 .. RingSize]
         /\ works \subseteq Ring!Services /\ stopped \subseteq Ring!Services
         /\ main \in {"start", "run", "done"} /\ spawned \in 0 .. RingSize
         /\ index \in Nat /\ index < IndexValues /\ count \in Nat /\ stamps \in Nat
         /\ IndexValues \in Nat \ {0} /\ CountValues \in Nat
         /\ RingCount \in Nat /\ RingCount < CountValues
         /\ RingSize \in Nat \ {0}
         /\ \A s \in Ring!Services : InTurn(s) \in Nat
<1>1. IndexValues \in Nat \ {0} /\ CountValues \in Nat /\ RingSize \in Nat \ {0}
      /\ RingCount \in 0 .. CountValues - 1
  BY DEF RingFits, Ring!WidthAssumption
<1>2. queued \in [Ring!Services -> Nat] /\ index \in 0 .. IndexValues - 1
      /\ count \in 0 .. CountValues - 1
  BY DEF Ring!TypeOK, Ring!PoolTypeOK
<1>3. \A s \in Ring!Services : InTurn(s) \in Nat
  BY <1>2 DEF InTurn, One
<1>4. QED
  BY <1>1, <1>2, <1>3 DEF Ring!TypeOK, Ring!PoolTypeOK

\* A step that leaves the task, the counters and stop_time_ alone.
LEMMA PlaceStays ==
  ASSUME PlaceInv, TurnInv, StampInv, UNCHANGED <<index, count, stamps>>,
         (main' = "start") <=> (main = "start"),
         \A s \in Ring!Services :
           /\ InTurn(s)' = InTurn(s)
           /\ queued'[s] > 0 \/ at'[s] = "begun" => queued[s] > 0 \/ at[s] = "begun"
  PROVE  PlaceInv' /\ TurnInv' /\ StampInv'
<1>1. PlaceInv'
  <2>1. CASE main = "start" \/ stamps > 0
    BY <2>1 DEF PlaceInv
  <2>2. CASE ~(main = "start" \/ stamps > 0)
    <3>1. PICK s \in Ring!Services :
            InTurn(s) = 1 /\ \A u \in Ring!Services : u # s => InTurn(u) = 0
      BY <2>2 DEF PlaceInv
    <3>2. InTurn(s)' = 1 /\ \A u \in Ring!Services : u # s => InTurn(u)' = 0
      BY <3>1
    <3>3. QED
      BY <2>2, <3>2 DEF PlaceInv
  <2>3. QED
    BY <2>1, <2>2
<1>2. TurnInv'
  BY DEF TurnInv
<1>3. StampInv'
  BY DEF StampInv
<1>4. QED
  BY <1>1, <1>2, <1>3

\* The threads are created.
LEMMA SpawnRingInv ==
  ASSUME RingFits, RingInv, Ring!Spawn, UNCHANGED Ring!taskVars
  PROVE  RingInv'
<1>1. Ring!TypeOK /\ PlaceInv /\ TurnInv /\ StampInv /\ OpenInv /\ ThreadInv
      /\ ResetInv
  BY DEF RingInv
<1>2. /\ at \in [Ring!Services -> Ring!PoolPCs \cup {"post"}]
      /\ queued \in [Ring!Services -> Nat]
      /\ spawned \in Nat /\ RingSize \in Nat \ {0}
  BY <1>1, RingTypes
<1>3. /\ UNCHANGED <<main, queued, outstanding, works, stopped, resetAt, index,
                     count, stamps>>
      /\ main = "run" /\ spawned < RingSize /\ spawned' = spawned + 1
      /\ at' = [at EXCEPT ![spawned] = "enter"]
  BY DEF Ring!Spawn, Ring!Goto, Ring!taskVars
<1>4. spawned \in Ring!Services /\ spawned' \in 0 .. RingSize /\ at[spawned] = "none"
  <2>1. spawned \in Ring!Services /\ spawned' \in 0 .. RingSize
    BY <1>2, <1>3 DEF Ring!Services
  <2>2. QED
    BY <1>1, <1>2, <2>1 DEF ThreadInv
<1>5. /\ at'[spawned] = "enter" /\ \A s \in Ring!Services :
                                      s # spawned => at'[s] = at[s]
      /\ at' \in [Ring!Services -> Ring!PoolPCs \cup {"post"}]
  BY <1>2, <1>3, <1>4 DEF Ring!PoolPCs
<1>6. \A s \in Ring!Services :
         InTurn(s)' = InTurn(s) /\ (at'[s] = "begun" <=> at[s] = "begun")
  BY <1>3, <1>4, <1>5 DEF InTurn, One
<1>7. PlaceInv' /\ TurnInv' /\ StampInv'
  BY <1>1, <1>3, <1>6, PlaceStays
<1>8. Ring!TypeOK'
  BY <1>1, <1>3, <1>4, <1>5 DEF Ring!TypeOK, Ring!PoolTypeOK
<1>9. OpenInv'
  BY <1>1, <1>3, <1>4, <1>5 DEF OpenInv, One
<1>10. ThreadInv'
  <2>1. \A s \in Ring!Services : s >= spawned + 1 => s # spawned /\ s >= spawned
    BY <1>2 DEF Ring!Services
  <2>2. QED
    BY <1>1, <1>3, <1>5, <2>1 DEF ThreadInv
<1>11. ResetInv'
  BY <1>1, <1>3, <1>4, <1>5 DEF ResetInv
<1>12. QED
  BY <1>7, <1>8, <1>9, <1>10, <1>11 DEF RingInv

\* wait() returns when every thread has.
LEMMA JoinAllRingInv ==
  ASSUME RingFits, RingInv, Ring!JoinAll, UNCHANGED Ring!taskVars
  PROVE  RingInv' /\ count = RingCount
<1>1. Ring!TypeOK /\ PlaceInv /\ TurnInv /\ StampInv /\ OpenInv /\ ThreadInv
      /\ ResetInv
  BY DEF RingInv
<1>2. /\ UNCHANGED <<spawned, at, queued, outstanding, works, stopped, resetAt, index,
                     count, stamps>>
      /\ main = "run" /\ main' = "done" /\ \A s \in Ring!Services : at[s] = "returned"
  BY DEF Ring!JoinAll, Ring!taskVars
<1>3. stamps > 0 /\ count = RingCount
  <2>1. 0 \in Ring!Services /\ stamps \in Nat
    BY <1>1, RingTypes DEF Ring!Services
  <2>2. stamps # 0
    BY <1>1, <1>2, <2>1 DEF OpenInv
  <2>3. QED
    BY <1>1, <2>1, <2>2 DEF StampInv
<1>4. PlaceInv' /\ TurnInv' /\ StampInv'
  BY <1>1, <1>2, PlaceStays DEF InTurn
<1>5. Ring!TypeOK' /\ OpenInv' /\ ThreadInv' /\ ResetInv'
  BY <1>1, <1>2, <1>3 DEF Ring!TypeOK, Ring!PoolTypeOK, OpenInv, ThreadInv, ResetInv
<1>6. QED
  BY <1>3, <1>4, <1>5 DEF RingInv

\* start() posts the task.
LEMMA StartRingInv ==
  ASSUME RingFits, RingInv, Ring!Start
  PROVE  RingInv'
<1>1. Ring!TypeOK /\ PlaceInv /\ TurnInv /\ StampInv /\ OpenInv /\ ThreadInv
      /\ ResetInv
  BY DEF RingInv
<1>2. /\ queued \in [Ring!Services -> Nat] /\ outstanding \in [Ring!Services -> Int]
      /\ RingSize \in Nat \ {0} /\ 0 \in Ring!Services
  BY <1>1, RingTypes DEF Ring!Services
<1>3. main = "start" /\ main' = "run" /\ stamps = 0 /\ index = 0 /\ count = 0
      /\ UNCHANGED <<spawned, at, works, stopped, resetAt, index, count, stamps>>
  BY <1>1 DEF Ring!Start, ThreadInv, Ring!taskVars
<1>4. 0 % RingSize = 0
  BY <1>2
<1>5. /\ queued' = [queued EXCEPT ![0] = queued[0] + 1]
      /\ outstanding' = [outstanding EXCEPT ![0] = outstanding[0] + 1]
  BY <1>3, <1>4 DEF Ring!Start, Ring!PostTo, Ring!GetIoService
<1>6. /\ queued'[0] = queued[0] + 1 /\ outstanding'[0] = outstanding[0] + 1
      /\ \A s \in Ring!Services :
           s # 0 => queued'[s] = queued[s] /\ outstanding'[s] = outstanding[s]
      /\ queued' \in [Ring!Services -> Nat] /\ outstanding' \in [Ring!Services -> Int]
  BY <1>2, <1>5
<1>7. \A s \in Ring!Services : queued[s] = 0 /\ at[s] \notin {"begun", "post"}
  <2>1. \A s \in Ring!Services : InTurn(s) = 0 /\ queued[s] \in Nat
    BY <1>1, <1>2, <1>3 DEF PlaceInv
  <2>2. QED
    BY <2>1 DEF InTurn, One
<1>8. PlaceInv'
  <2>1. InTurn(0)' = 1 /\ \A s \in Ring!Services : s # 0 => InTurn(s)' = 0
    BY <1>2, <1>3, <1>6, <1>7 DEF InTurn, One
  <2>2. QED
    BY <1>2, <1>3, <2>1 DEF PlaceInv
<1>9. TurnInv' /\ StampInv'
  BY <1>1, <1>3, <1>4, <1>6, <1>7 DEF TurnInv, StampInv
<1>10. Ring!TypeOK'
  BY <1>1, <1>3, <1>6 DEF Ring!TypeOK, Ring!PoolTypeOK
<1>11. OpenInv'
  BY <1>1, <1>2, <1>3, <1>6 DEF OpenInv, One
<1>12. ThreadInv' /\ ResetInv'
  BY <1>1, <1>3 DEF ThreadInv, ResetInv
<1>13. QED
  BY <1>8, <1>9, <1>10, <1>11, <1>12 DEF RingInv

\* A step of a thread that neither takes nor hands on the task.
LEMMA QuietRingInv ==
  ASSUME RingFits, RingInv, NEW s \in Ring!Services,
         UNCHANGED <<main, spawned, queued, index, count, stamps>>,
         at[s] \notin {"none", "begun", "post", "returned"},
         at'[s] \notin {"begun", "post"},
         at'[s] = "stop_other" => resetAt'[s] # 0,
         \A u \in Ring!Services : u # s => at'[u] = at[u] /\ resetAt'[u] = resetAt[u],
         Ring!TypeOK', OpenInv'
  PROVE  RingInv'
<1>1. Ring!TypeOK /\ PlaceInv /\ TurnInv /\ StampInv /\ OpenInv /\ ThreadInv
      /\ ResetInv
  BY DEF RingInv
<1>2. \A u \in Ring!Services :
         InTurn(u)' = InTurn(u) /\ (at'[u] = "begun" => at[u] = "begun")
  BY DEF InTurn, One
<1>3. PlaceInv' /\ TurnInv' /\ StampInv'
  BY <1>1, <1>2, PlaceStays
<1>4. ThreadInv'
  BY <1>1 DEF ThreadInv
<1>5. ResetInv'
  BY <1>1 DEF ResetInv
<1>6. QED
  BY <1>1, <1>3, <1>4, <1>5 DEF RingInv

\* While stop_time_ is not written run() finds work, and so does a handler that
\* returns: neither stops its service, and nothing else stops one.
LEMMA QuietStepsRingInv ==
  ASSUME RingFits, RingInv, NEW s \in Ring!Services, UNCHANGED Ring!taskVars,
         \/ Ring!Enter(s) \/ Ring!EndHandler(s) \/ Ring!StopSelf(s) \/ Ring!RunReturns(s)
         \/ Ring!ResetWork(s) \/ Ring!ResetWorkRaced(s)
         \/ Ring!StopOther(s) \/ Ring!EndStop(s)
  PROVE  RingInv'
<1>1. Ring!TypeOK /\ PlaceInv /\ TurnInv /\ StampInv /\ OpenInv /\ ThreadInv
      /\ ResetInv
  BY DEF RingInv
<1>2. /\ at \in [Ring!Services -> Ring!PoolPCs \cup {"post"}]
      /\ queued \in [Ring!Services -> Nat]
      /\ outstanding \in [Ring!Services -> Int]
      /\ resetAt \in [Ring!Services -> 0 .. RingSize]
      /\ works \subseteq Ring!Services /\ stopped \subseteq Ring!Services
      /\ RingSize \in Nat \ {0} /\ stamps \in Nat
  BY <1>1, RingTypes
<1>3. UNCHANGED <<main, spawned, queued, index, count, stamps>>
  BY DEF Ring!taskVars, Ring!Enter, Ring!EndHandler, Ring!StopSelf, Ring!RunReturns,
         Ring!ResetWork, Ring!ResetWorkRaced, Ring!StopOther, Ring!EndStop
<1>4. at[s] \in {"enter", "end", "stop_self", "idle", "reset", "stop_other"}
  BY DEF Ring!Enter, Ring!EndHandler, Ring!StopSelf, Ring!RunReturns, Ring!ResetWork,
         Ring!ResetWorkRaced, Ring!StopOther, Ring!EndStop
<1>5. \A i \in works : i \in Ring!Services /\ i + 1 \in 0 .. RingSize /\ i + 1 # 0
  BY <1>2 DEF Ring!Services
<1>6. /\ at' \in [Ring!Services -> Ring!PoolPCs \cup {"post"}]
      /\ at'[s] \notin {"begun", "post"}
      /\ \A u \in Ring!Services : u # s => at'[u] = at[u]
  BY <1>2 DEF Ring!Goto, Ring!DestroyWork, Ring!PoolPCs, Ring!Enter, Ring!EndHandler,
              Ring!StopSelf, Ring!RunReturns, Ring!ResetWork, Ring!ResetWorkRaced,
              Ring!StopOther, Ring!EndStop
<1>7. /\ resetAt' \in [Ring!Services -> 0 .. RingSize]
      /\ at'[s] = "stop_other" => resetAt'[s] # 0
      /\ \A u \in Ring!Services : u # s => resetAt'[u] = resetAt[u]
  <2>1. CASE Ring!ResetWork(s)
    <3>1. CASE resetAt[s] \in works
      BY <1>2, <1>5, <2>1, <3>1 DEF Ring!ResetWork, Ring!DestroyWork
    <3>2. CASE resetAt[s] \notin works
      <4>1. resetAt' = [resetAt EXCEPT ![s] = resetAt[s] + 1] /\ resetAt[s] < RingSize
            /\ at' = at /\ at[s] = "reset"
        BY <2>1, <3>2 DEF Ring!ResetWork
      <4>2. resetAt[s] + 1 \in 0 .. RingSize
        BY <1>2, <4>1
      <4>3. QED
        BY <1>2, <4>1, <4>2
    <3>3. QED
      BY <3>1, <3>2
  <2>2. CASE Ring!ResetWorkRaced(s)
    BY <1>2, <1>5, <2>2 DEF Ring!ResetWorkRaced, Ring!DestroyWork
  <2>3. CASE Ring!EndStop(s)
    <3>1. resetAt' = [resetAt EXCEPT ![s] = 0] /\ at' = [at EXCEPT ![s] = "end"]
      BY <2>3 DEF Ring!EndStop, Ring!Goto
    <3>2. 0 \in 0 .. RingSize
      BY <1>2
    <3>3. QED
      BY <1>2, <3>1, <3>2
  <2>4. CASE \/ Ring!Enter(s) \/ Ring!EndHandler(s) \/ Ring!StopSelf(s)
            \/ Ring!RunReturns(s) \/ Ring!StopOther(s)
    BY <1>2, <2>4 DEF Ring!Goto, Ring!Enter, Ring!EndHandler, Ring!StopSelf,
                      Ring!RunReturns, Ring!StopOther
  <2>5. QED
    BY <2>1, <2>2, <2>3, <2>4
<1>8. outstanding' \in [Ring!Services -> Int]
  BY <1>2 DEF Ring!DestroyWork, Ring!Enter, Ring!EndHandler, Ring!StopSelf,
              Ring!RunReturns, Ring!ResetWork, Ring!ResetWorkRaced, Ring!StopOther,
              Ring!EndStop
<1>9. works' \subseteq Ring!Services /\ stopped' \subseteq Ring!Services
  <2>1. Ring!StopOther(s) => resetAt[s] - 1 \in Ring!Services
    BY <1>1, <1>2 DEF Ring!StopOther, ResetInv, Ring!Services
  <2>2. QED
    BY <1>2, <2>1 DEF Ring!Enter, Ring!EndHandler, Ring!StopSelf, Ring!RunReturns,
                      Ring!ResetWork, Ring!ResetWorkRaced, Ring!StopOther,
                      Ring!EndStop
<1>10. Ring!TypeOK'
  BY <1>1, <1>3, <1>6, <1>7, <1>8, <1>9 DEF Ring!TypeOK, Ring!PoolTypeOK
<1>11. OpenInv'
  <2> SUFFICES ASSUME stamps = 0
               PROVE  OpenInv'
    BY <1>2, <1>3 DEF OpenInv
  <2>1. /\ stopped = {} /\ main # "done"
        /\ \A u \in Ring!Services :
             /\ at[u] \notin {"reset", "stop_other", "stop_self", "returned"}
             /\ outstanding[u] = 1 + queued[u] + One(at[u] \in {"begun", "post", "end"})
    BY <1>1 DEF OpenInv
  <2>2. Ring!Enter(s) \/ Ring!EndHandler(s)
    BY <2>1 DEF Ring!StopSelf, Ring!RunReturns, Ring!ResetWork, Ring!ResetWorkRaced,
                Ring!StopOther, Ring!EndStop
  <2>3. CASE Ring!Enter(s)
    <3>1. outstanding[s] # 0
      BY <1>2, <2>1, <2>3 DEF Ring!Enter, One
    <3>2. at' = [at EXCEPT ![s] = "idle"] /\ UNCHANGED <<outstanding, stopped>>
          /\ at[s] = "enter"
      BY <2>3, <3>1 DEF Ring!Enter, Ring!Goto
    <3>3. QED
      BY <1>2, <1>3, <2>1, <3>2 DEF OpenInv, One
  <2>4. CASE Ring!EndHandler(s)
    <3>1. outstanding[s] = 2 + queued[s] /\ outstanding[s] # 1
      BY <1>2, <2>1, <2>4 DEF Ring!EndHandler, One
    <3>2. at' = [at EXCEPT ![s] = "idle"] /\ UNCHANGED stopped
          /\ outstanding' = [outstanding EXCEPT ![s] = outstanding[s] - 1]
      BY <2>4, <3>1 DEF Ring!EndHandler, Ring!Goto
    <3>3. outstanding'[s] = 1 + queued[s] /\ at'[s] = "idle"
      BY <1>2, <3>1, <3>2
    <3>4. \A u \in Ring!Services :
             u # s => outstanding'[u] = outstanding[u] /\ at'[u] = at[u]
      BY <1>2, <3>2
    <3>5. QED
      BY <1>2, <1>3, <2>1, <3>2, <3>3, <3>4 DEF OpenInv, One
  <2>5. QED
    BY <2>2, <2>3, <2>4
<1>12. QED
  BY <1>3, <1>4, <1>6, <1>7, <1>10, <1>11, QuietRingInv

\* The task is in the service that has it in hand, and nowhere else.
LEMMA RingTaskIsHere ==
  ASSUME RingFits, RingInv, NEW s \in Ring!Services,
         queued[s] > 0 \/ at[s] \in {"begun", "post"}
  PROVE  /\ main # "start" /\ main # "done" /\ stamps = 0 /\ count < RingCount
         /\ InTurn(s) = 1
         /\ at[s] \in {"begun", "post"} => queued[s] = 0
         /\ \A u \in Ring!Services :
              u # s => InTurn(u) = 0 /\ queued[u] = 0 /\ at[u] \notin {"begun", "post"}
<1>1. Ring!TypeOK /\ PlaceInv /\ TurnInv /\ StampInv /\ OpenInv /\ ThreadInv
  BY DEF RingInv
<1>2. /\ queued \in [Ring!Services -> Nat] /\ stamps \in Nat
      /\ \A u \in Ring!Services : InTurn(u) \in Nat
  BY <1>1, RingTypes
<1>3. InTurn(s) # 0
  BY <1>2 DEF InTurn, One
<1>4. main # "start" /\ stamps = 0
  BY <1>1, <1>2, <1>3 DEF PlaceInv
<1>5. InTurn(s) = 1 /\ \A u \in Ring!Services : u # s => InTurn(u) = 0
  BY <1>1, <1>3, <1>4 DEF PlaceInv
<1>6. \A u \in Ring!Services :
        u # s => InTurn(u) = 0 /\ queued[u] = 0 /\ at[u] \notin {"begun", "post"}
  BY <1>2, <1>5 DEF InTurn, One
<1>7. at[s] \in {"begun", "post"} => queued[s] = 0
  BY <1>2, <1>5 DEF InTurn, One
<1>8. count < RingCount /\ main # "done"
  BY <1>1, <1>4 DEF StampInv, OpenInv
<1>9. QED
  BY <1>4, <1>5, <1>6, <1>7, <1>8

\* The service begins the task it has queued.
LEMMA BeginRingInv ==
  ASSUME RingFits, RingInv, NEW s \in Ring!Services, Ring!Begin(s),
         UNCHANGED Ring!taskVars
  PROVE  RingInv'
<1>1. Ring!TypeOK /\ PlaceInv /\ TurnInv /\ StampInv /\ OpenInv /\ ThreadInv
      /\ ResetInv
  BY DEF RingInv
<1>2. /\ at \in [Ring!Services -> Ring!PoolPCs \cup {"post"}]
      /\ queued \in [Ring!Services -> Nat]
      /\ outstanding \in [Ring!Services -> Int]
  BY <1>1, RingTypes
<1>3. /\ at[s] = "idle" /\ queued[s] > 0
      /\ queued' = [queued EXCEPT ![s] = queued[s] - 1]
      /\ at' = [at EXCEPT ![s] = "begun"]
      /\ UNCHANGED <<main, spawned, outstanding, works, stopped, resetAt, index, count,
                     stamps>>
  BY DEF Ring!Begin, Ring!Goto, Ring!taskVars
<1>4. /\ queued'[s] = queued[s] - 1 /\ at'[s] = "begun"
      /\ \A u \in Ring!Services : u # s => queued'[u] = queued[u] /\ at'[u] = at[u]
      /\ queued' \in [Ring!Services -> Nat]
      /\ at' \in [Ring!Services -> Ring!PoolPCs \cup {"post"}]
  <2>1. queued[s] - 1 \in Nat
    BY <1>2, <1>3
  <2>2. QED
    BY <1>2, <1>3, <2>1 DEF Ring!PoolPCs
<1>5. stamps = 0 /\ main # "done"
  BY <1>3, RingTaskIsHere
<1>6. \A u \in Ring!Services :
        /\ InTurn(u)' = InTurn(u)
        /\ queued'[u] > 0 \/ at'[u] = "begun" => queued[u] > 0 \/ at[u] = "begun"
  BY <1>2, <1>3, <1>4 DEF InTurn, One
<1>7. PlaceInv' /\ TurnInv' /\ StampInv'
  BY <1>1, <1>3, <1>6, PlaceStays
<1>8. Ring!TypeOK'
  BY <1>1, <1>3, <1>4 DEF Ring!TypeOK, Ring!PoolTypeOK
<1>9. OpenInv'
  <2>1. \A u \in Ring!Services :
          /\ at'[u] \notin {"reset", "stop_other", "stop_self", "returned"}
          /\ outstanding'[u] = 1 + queued'[u] + One(at'[u] \in {"begun", "post", "end"})
    BY <1>1, <1>2, <1>3, <1>4, <1>5 DEF OpenInv, One
  <2>2. QED
    BY <1>1, <1>3, <1>5, <2>1 DEF OpenInv
<1>10. ThreadInv' /\ ResetInv'
  BY <1>1, <1>3, <1>4, <1>5 DEF ThreadInv, ResetInv
<1>11. QED
  BY <1>7, <1>8, <1>9, <1>10 DEF RingInv

\* The counters do not wrap apart: the next index names the next service.
LEMMA NextInTurn ==
  ASSUME RingFits, RingInv, count < RingCount
  PROVE  LET c == (count + 1) % CountValues
             i == (index + 1) % IndexValues
         IN  /\ c = count + 1 /\ i \in 0 .. IndexValues - 1
             /\ i <= c /\ i % RingSize = c % RingSize
<1>1. Ring!TypeOK /\ TurnInv
  BY DEF RingInv
<1>2. /\ index \in Nat /\ index < IndexValues /\ count \in Nat
      /\ IndexValues \in Nat \ {0} /\ CountValues \in Nat
      /\ RingCount \in Nat /\ RingCount < CountValues /\ RingSize \in Nat \ {0}
  BY <1>1, RingTypes
<1>3. index <= count /\ index % RingSize = count % RingSize
  BY <1>1 DEF TurnInv
<1>4. (count + 1) % CountValues = count + 1
  BY <1>2
<1>5. (index + 1) % RingSize = (count + 1) % RingSize
  <2>1. \A a \in Nat : (a + 1) % RingSize = IF (a % RingSize) + 1 = RingSize
                                           THEN 0 ELSE (a % RingSize) + 1
    BY <1>2, ModNext
  <2>2. QED
    BY <1>2, <1>3, <2>1
<1>6. CASE index + 1 < IndexValues
  <2>1. (index + 1) % IndexValues = index + 1
    BY <1>2, <1>6
  <2>2. QED
    BY <1>2, <1>3, <1>4, <1>5, <1>6, <2>1
<1>7. CASE index + 1 = IndexValues
  <2>1. (index + 1) % IndexValues = 0
    BY <1>2, <1>7
  <2>2. IndexValues % RingSize = 0
    BY <1>2, <1>3, <1>7 DEF RingFits
  <2>3. 0 % RingSize = 0
    BY <1>2
  <2>4. QED
    BY <1>2, <1>4, <1>5, <1>7, <2>1, <2>2, <2>3
<1>8. QED
  BY <1>2, <1>6, <1>7

\* The handler counts, and then stops the pool or goes on to post.
LEMMA IncrementRingInv ==
  ASSUME RingFits, RingInv, NEW s \in Ring!Services, Ring!Increment(s)
  PROVE  /\ RingInv' /\ main # "done" /\ main' = main
         /\ count' = count + 1 /\ count + 1 <= RingCount
<1>1. Ring!TypeOK /\ PlaceInv /\ TurnInv /\ StampInv /\ OpenInv /\ ThreadInv
      /\ ResetInv
  BY DEF RingInv
<1>2. /\ at \in [Ring!Services -> Ring!PoolPCs \cup {"post"}]
      /\ queued \in [Ring!Services -> Nat]
      /\ outstanding \in [Ring!Services -> Int] /\ count \in Nat /\ index \in Nat
      /\ RingCount \in Nat /\ CountValues \in Nat /\ RingCount < CountValues
      /\ IndexValues \in Nat \ {0}
  BY <1>1, RingTypes
<1>3. /\ at[s] = "begun"
      /\ UNCHANGED <<main, spawned, queued, outstanding, works, stopped, resetAt>>
  BY DEF Ring!Increment
<1>4. /\ main # "start" /\ main # "done" /\ stamps = 0 /\ count < RingCount
      /\ queued[s] = 0
      /\ \A u \in Ring!Services :
            u # s => queued[u] = 0 /\ at[u] \notin {"begun", "post"}
  BY <1>3, RingTaskIsHere
<1>5. /\ count' = count + 1 /\ index' \in 0 .. IndexValues - 1
      /\ index' <= count' /\ index' % RingSize = count' % RingSize
  BY <1>4, NextInTurn DEF Ring!Increment
<1>6. ASSUME count' = RingCount PROVE RingInv'
  <2>1. at' = [at EXCEPT ![s] = "reset"] /\ stamps' = 1
    BY <1>4, <1>6 DEF Ring!Increment, Ring!Goto
  <2>2. /\ at'[s] = "reset" /\ \A u \in Ring!Services : u # s => at'[u] = at[u]
        /\ at' \in [Ring!Services -> Ring!PoolPCs \cup {"post"}]
    BY <1>2, <2>1 DEF Ring!PoolPCs
  <2>3. PlaceInv'
    BY <1>3, <1>4, <2>1, <2>2 DEF PlaceInv, InTurn, One
  <2>4. TurnInv'
    BY <1>2, <1>3, <1>4, <1>5, <2>2 DEF TurnInv
  <2>5. StampInv' /\ OpenInv'
    BY <1>6, <2>1 DEF StampInv, OpenInv
  <2>6. Ring!TypeOK'
    BY <1>1, <1>2, <1>3, <1>4, <1>5, <2>1, <2>2 DEF Ring!TypeOK, Ring!PoolTypeOK
  <2>7. ThreadInv' /\ ResetInv'
    BY <1>1, <1>3, <1>4, <2>2 DEF ThreadInv, ResetInv
  <2>8. QED
    BY <2>3, <2>4, <2>5, <2>6, <2>7 DEF RingInv
<1>7. ASSUME count' # RingCount PROVE RingInv'
  <2>1. at' = [at EXCEPT ![s] = "post"] /\ stamps' = 0
    BY <1>4, <1>7 DEF Ring!Increment, Ring!Goto
  <2>2. /\ at'[s] = "post" /\ \A u \in Ring!Services : u # s => at'[u] = at[u]
        /\ at' \in [Ring!Services -> Ring!PoolPCs \cup {"post"}]
    BY <1>2, <2>1 DEF Ring!PoolPCs
  <2>3. PlaceInv'
    <3>1. InTurn(s)' = 1 /\ \A u \in Ring!Services : u # s => InTurn(u)' = 0
      BY <1>3, <1>4, <2>2 DEF InTurn, One
    <3>2. QED
      BY <1>3, <1>4, <2>1, <3>1 DEF PlaceInv
  <2>4. TurnInv'
    BY <1>2, <1>3, <1>4, <1>5, <2>2 DEF TurnInv
  <2>5. StampInv'
    BY <1>2, <1>4, <1>5, <1>7, <2>1 DEF StampInv
  <2>6. Ring!TypeOK'
    BY <1>1, <1>2, <1>3, <1>4, <1>5, <2>1, <2>2 DEF Ring!TypeOK, Ring!PoolTypeOK
  <2>7. OpenInv'
    BY <1>1, <1>2, <1>3, <1>4, <2>1, <2>2 DEF OpenInv, One
  <2>8. ThreadInv' /\ ResetInv'
    BY <1>1, <1>3, <1>4, <2>2 DEF ThreadInv, ResetInv
  <2>9. QED
    BY <2>3, <2>4, <2>5, <2>6, <2>7, <2>8 DEF RingInv
<1>8. QED
  BY <1>2, <1>3, <1>4, <1>5, <1>6, <1>7

\* The handler posts the task to the service whose turn it is.
LEMMA PostNextRingInv ==
  ASSUME RingFits, RingInv, NEW s \in Ring!Services, Ring!PostNext(s)
  PROVE  RingInv'
<1> DEFINE d == index % RingSize
<1>1. Ring!TypeOK /\ PlaceInv /\ TurnInv /\ StampInv /\ OpenInv /\ ThreadInv
      /\ ResetInv
  BY DEF RingInv
<1>2. /\ at \in [Ring!Services -> Ring!PoolPCs \cup {"post"}]
      /\ queued \in [Ring!Services -> Nat]
      /\ outstanding \in [Ring!Services -> Int]
      /\ index \in Nat
      /\ RingSize \in Nat \ {0}
  BY <1>1, RingTypes
<1>3. /\ at[s] = "post" /\ at' = [at EXCEPT ![s] = "end"]
      /\ queued' = [queued EXCEPT ![d] = queued[d] + 1]
      /\ outstanding' = [outstanding EXCEPT ![d] = outstanding[d] + 1]
      /\ UNCHANGED <<main, spawned, works, stopped, resetAt, index, count, stamps>>
  BY DEF Ring!PostNext, Ring!PostTo, Ring!GetIoService, Ring!Goto, Ring!taskVars
<1>4. d \in Ring!Services /\ d = count % RingSize
  <2>1. d \in Ring!Services
    BY <1>2 DEF Ring!Services
  <2>2. d = count % RingSize
    BY <1>1 DEF TurnInv
  <2>3. QED
    BY <2>1, <2>2
<1>5. /\ main # "start" /\ main # "done" /\ stamps = 0 /\ queued[s] = 0
      /\ \A u \in Ring!Services :
            u # s => queued[u] = 0 /\ at[u] \notin {"begun", "post"}
  BY <1>3, RingTaskIsHere
<1> HIDE DEF d
<1>6. /\ at'[s] = "end" /\ \A u \in Ring!Services : u # s => at'[u] = at[u]
      /\ at' \in [Ring!Services -> Ring!PoolPCs \cup {"post"}]
  BY <1>2, <1>3 DEF Ring!PoolPCs
<1>7. /\ queued'[d] = 1 /\ outstanding'[d] = outstanding[d] + 1
      /\ \A u \in Ring!Services :
            u # d => queued'[u] = 0 /\ outstanding'[u] = outstanding[u]
      /\ queued' \in [Ring!Services -> Nat] /\ outstanding' \in [Ring!Services -> Int]
  <2>1. queued[d] = 0 /\ \A u \in Ring!Services : queued[u] = 0
    BY <1>4, <1>5
  <2>2. QED
    BY <1>2, <1>3, <1>4, <2>1
<1>8. PlaceInv'
  <2>1. PICK e \in Ring!Services : e = d
    BY <1>4
  <2>2. InTurn(e)' = 1 /\ \A u \in Ring!Services : u # e => InTurn(u)' = 0
    BY <1>4, <1>5, <1>6, <1>7, <2>1 DEF InTurn, One
  <2>3. QED
    BY <1>3, <1>5, <2>2 DEF PlaceInv
<1>9. TurnInv' /\ StampInv'
  <2>1. \A u \in Ring!Services : queued'[u] > 0 \/ at'[u] = "begun" => u = d
    BY <1>5, <1>6, <1>7
  <2>2. QED
    BY <1>1, <1>3, <1>4, <2>1 DEF TurnInv, StampInv
<1>10. Ring!TypeOK'
  BY <1>1, <1>3, <1>6, <1>7 DEF Ring!TypeOK, Ring!PoolTypeOK
<1>11. OpenInv'
  <2>1. \A u \in Ring!Services :
          outstanding[u] = 1 + queued[u] + One(at[u] \in {"begun", "post", "end"})
    BY <1>1, <1>5 DEF OpenInv
  <2>2. \A u \in Ring!Services :
          One(at'[u] \in {"begun", "post", "end"}) =
            One(at[u] \in {"begun", "post", "end"})
    BY <1>3, <1>6 DEF One
  <2>3. \A u \in Ring!Services :
          outstanding'[u] = 1 + queued'[u] + One(at'[u] \in {"begun", "post", "end"})
    BY <1>4, <1>5, <1>7, <2>1, <2>2 DEF One
  <2>4. QED
    BY <1>1, <1>3, <1>5, <1>6, <2>3 DEF OpenInv
<1>12. ThreadInv' /\ ResetInv'
  BY <1>1, <1>3, <1>5, <1>6 DEF ThreadInv, ResetInv
<1>13. QED
  BY <1>8, <1>9, <1>10, <1>11, <1>12 DEF RingInv

\* The constructor has made services that are open and have no task.
LEMMA InitRingInv ==
  ASSUME RingFits, Ring!Init
  PROVE  RingInv
<1>1. /\ main = "start" /\ spawned = 0 /\ at = [s \in Ring!Services |-> "none"]
      /\ queued = [s \in Ring!Services |-> 0]
      /\ outstanding = [s \in Ring!Services |-> 1]
      /\ works = Ring!Services
      /\ stopped = {}
      /\ resetAt = [s \in Ring!Services |-> 0]
      /\ index = 0 /\ count = 0 /\ stamps = 0
  BY DEF Ring!Init, Ring!PoolInit
<1>2. /\ RingSize \in Nat \ {0} /\ RingCount > 0
      /\ IndexValues \in Nat \ {0} /\ CountValues \in Nat
      /\ RingCount \in 0 .. CountValues - 1
  BY DEF RingFits, Ring!WidthAssumption
<1>3. Ring!TypeOK
  <2>1. 0 \in 0 .. RingSize /\ 0 \in 0 .. IndexValues - 1 /\ 0 \in 0 .. CountValues - 1
    BY <1>2
  <2>2. QED
    BY <1>1, <2>1 DEF Ring!TypeOK, Ring!PoolTypeOK, Ring!PoolPCs
<1>4. PlaceInv /\ TurnInv /\ StampInv
  BY <1>1, <1>2 DEF PlaceInv, InTurn, One, TurnInv, StampInv
<1>5. OpenInv /\ ThreadInv /\ ResetInv
  BY <1>1 DEF OpenInv, One, ThreadInv, ResetInv
<1>6. QED
  BY <1>3, <1>4, <1>5 DEF RingInv

\* Every step keeps the invariant, and is one of the counter's or leaves it alone.
LEMMA NextRingInv ==
  ASSUME RingFits, RingInv, [Ring!Next]_(Ring!vars)
  PROVE  RingInv' /\ [Ring!Counter!Next]_(Ring!Counter!vars)
<1>1. CASE UNCHANGED Ring!vars
  <2>1. UNCHANGED <<main, spawned, at, queued, outstanding, works, stopped, resetAt,
                    index, count, stamps>>
    BY <1>1 DEF Ring!vars, Ring!poolVars, Ring!taskVars
  <2>2. RingInv'
    BY <2>1 DEF RingInv, Ring!TypeOK, Ring!PoolTypeOK, PlaceInv, InTurn, TurnInv,
                StampInv, OpenInv, ThreadInv, ResetInv
  <2>3. QED
    BY <2>1, <2>2 DEF Ring!Counter!vars
<1>2. CASE Ring!Start
  <2>1. main = "start" /\ main' = "run" /\ count' = count
    BY <1>2 DEF Ring!Start, Ring!taskVars
  <2>2. QED
    BY <1>2, <2>1, StartRingInv DEF Ring!Counter!vars
<1>3. CASE Ring!Spawn /\ UNCHANGED Ring!taskVars
  BY <1>3, SpawnRingInv DEF Ring!Spawn, Ring!taskVars, Ring!Counter!vars
<1>4. CASE Ring!JoinAll /\ UNCHANGED Ring!taskVars
  <2>1. main' = "done" /\ count' = count
    BY <1>4 DEF Ring!JoinAll, Ring!taskVars
  <2>2. QED
    BY <1>4, <2>1, JoinAllRingInv DEF Ring!Counter!Next, Ring!Counter!Return
<1>5. ASSUME NEW s \in Ring!Services, Ring!Increment(s)
      PROVE  RingInv' /\ [Ring!Counter!Next]_(Ring!Counter!vars)
  <2>1. /\ RingInv' /\ main # "done" /\ main' = main
        /\ count' = count + 1 /\ count + 1 <= RingCount
    BY <1>5, IncrementRingInv
  <2>2. count \in Nat /\ RingCount \in Nat
    BY RingTypes DEF RingInv
  <2>3. count + 1 \in count + 1 .. RingCount
    BY <2>1, <2>2
  <2>4. Ring!Counter!Execute
    BY <2>1, <2>3 DEF Ring!Counter!Execute
  <2>5. QED
    BY <2>1, <2>4 DEF Ring!Counter!Next
<1>6. ASSUME NEW s \in Ring!Services, Ring!PostNext(s)
      PROVE  RingInv' /\ [Ring!Counter!Next]_(Ring!Counter!vars)
  BY <1>6, PostNextRingInv DEF Ring!PostNext, Ring!taskVars, Ring!Counter!vars
<1>7. ASSUME NEW s \in Ring!Services, Ring!PoolThreadStep(s), UNCHANGED Ring!taskVars
      PROVE  RingInv' /\ [Ring!Counter!Next]_(Ring!Counter!vars)
  <2>1. main' = main /\ count' = count
    BY <1>7 DEF Ring!PoolThreadStep, Ring!taskVars, Ring!Enter, Ring!Begin,
                Ring!EndHandler, Ring!StopSelf, Ring!RunReturns, Ring!ResetWork,
                Ring!ResetWorkRaced, Ring!StopOther, Ring!EndStop
  <2>2. RingInv'
    BY <1>7, BeginRingInv, QuietStepsRingInv DEF Ring!PoolThreadStep
  <2>3. QED
    BY <2>1, <2>2 DEF Ring!Counter!vars
<1>8. QED
  BY <1>1, <1>2, <1>3, <1>4, <1>5, <1>6, <1>7
  DEF Ring!Next, Ring!MainStep, Ring!PoolMainStep, Ring!ThreadStep, Ring!Terminated

\* The inductive invariant of the ring holds in every state, for every size of the
\* pool, every post_count_ that the counters can hold and every width of them.
THEOREM RingInvariance ==
  ASSUME RingFits
  PROVE  Ring!Spec => []RingInv
<1>1. Ring!Init => RingInv
  BY InitRingInv
<1>2. RingInv /\ [Ring!Next]_(Ring!vars) => RingInv'
  BY NextRingInv
<1>3. QED
  BY <1>1, <1>2, PTL DEF Ring!Spec

\* The task is one, and in one place, so that its places are one or none.
LEMMA OnePlace ==
  ASSUME RingFits, RingInv
  PROVE  Ring!OneTaskInTurn
<1> DEFINE inHand == {<<s, 0>> :
                        s \in {t \in Ring!Services : at[t] \in {"begun", "post"}}}
           inQueue == UNION {{s} \X (1 .. queued[s]) : s \in Ring!Services}
<1>1. Ring!TypeOK /\ PlaceInv /\ TurnInv /\ StampInv /\ OpenInv
  BY DEF RingInv
<1>2. queued \in [Ring!Services -> Nat] /\ stamps \in Nat
  BY <1>1, RingTypes
<1>3. \A s \in Ring!Services :
         InTurn(s) = 0 => queued[s] = 0 /\ at[s] \notin {"begun", "post"}
  BY <1>2 DEF InTurn, One
<1>4. \A s \in Ring!Services : s \in stopped => queued[s] = 0
  <2>1. stopped # {} => stamps > 0
    BY <1>1, <1>2 DEF OpenInv
  <2>2. QED
    BY <1>1, <1>3, <2>1 DEF PlaceInv
<1>5. Cardinality(inHand \cup inQueue) = IF main = "start" \/ stamps > 0 THEN 0 ELSE 1
  <2>1. CASE main = "start" \/ stamps > 0
    <3>1. \A s \in Ring!Services : queued[s] = 0 /\ at[s] \notin {"begun", "post"}
      BY <1>1, <1>3, <2>1 DEF PlaceInv
    <3>2. inHand = {}
      BY <3>1
    <3>3. inQueue = {}
      BY <3>1
    <3>4. inHand \cup inQueue = {}
      BY <3>2, <3>3
    <3>5. QED
      BY <2>1, <3>4, FS_EmptySet
  <2>2. CASE ~(main = "start" \/ stamps > 0)
    <3>1. PICK s \in Ring!Services :
            InTurn(s) = 1 /\ \A u \in Ring!Services : u # s => InTurn(u) = 0
      BY <1>1, <2>2 DEF PlaceInv
    <3>2. \A u \in Ring!Services :
             u # s => queued[u] = 0 /\ at[u] \notin {"begun", "post"}
      BY <1>3, <3>1
    <3>3. \/ queued[s] = 1 /\ at[s] \notin {"begun", "post"}
          \/ queued[s] = 0 /\ at[s] \in {"begun", "post"}
      BY <1>2, <3>1 DEF InTurn, One
    <3>4. CASE queued[s] = 1 /\ at[s] \notin {"begun", "post"}
      <4>1. inHand = {}
        BY <3>2, <3>4
      <4>2. inQueue = {<<s, 1>>}
        BY <3>2, <3>4
      <4>3. inHand \cup inQueue = {<<s, 1>>}
        BY <4>1, <4>2
      <4>4. QED
        BY <2>2, <4>3, FS_Singleton
    <3>5. CASE queued[s] = 0 /\ at[s] \in {"begun", "post"}
      <4>1. inHand = {<<s, 0>>}
        BY <3>2, <3>5
      <4>2. inQueue = {}
        BY <3>2, <3>5
      <4>3. inHand \cup inQueue = {<<s, 0>>}
        BY <4>1, <4>2
      <4>4. QED
        BY <2>2, <4>3, FS_Singleton
    <3>6. QED
      BY <3>3, <3>4, <3>5
  <2>3. QED
    BY <2>1, <2>2
<1>6. stopped \subseteq Ring!Services
  BY <1>1, RingTypes
<1>7. QED
  <2>1. Ring!Cardinality(inHand \cup inQueue) = Cardinality(inHand \cup inQueue)
    BY DEF Ring!Cardinality, Cardinality
  <2>2. QED
    BY <1>1, <1>4, <1>5, <1>6, <2>1 DEF Ring!OneTaskInTurn, TurnInv

\* README.md's ring: one task, queued in one open service or in the hands of one
\* handler until stop_time_ is written, and with service k modulo the size of the
\* pool when it is to read count = k.  So nobody else uses the unlocked counters.
THEOREM RingHasOneTask ==
  ASSUME RingFits
  PROVE  Ring!Spec => []Ring!OneTaskInTurn
<1>1. RingInv => Ring!OneTaskInTurn
  BY OnePlace
<1>2. Ring!Spec => []RingInv
  BY RingInvariance
<1>3. QED
  BY <1>1, <1>2, PTL

\* The ring implements the counter that every post_task benchmark promises: count
\* goes up to post_count_ and no further, and wait() returns only then.
THEOREM RingImplementsCounter ==
  ASSUME RingFits
  PROVE  Ring!Spec => Ring!Counter!Init /\ [][Ring!Counter!Next]_(Ring!Counter!vars)
<1>1. Ring!Init => Ring!Counter!Init
  BY DEF Ring!Init, Ring!PoolInit, Ring!Counter!Init
<1>2. RingInv /\ [Ring!Next]_(Ring!vars) => [Ring!Counter!Next]_(Ring!Counter!vars)
  BY NextRingInv
<1>3. Ring!Spec => []RingInv
  BY RingInvariance
<1>4. QED
  BY <1>1, <1>2, <1>3, PTL DEF Ring!Spec
-----------------------------------------------------------------------------
(* The way of the ring to its end.                                          *)

\* outstanding_work_ of a service is what there is: no work is released twice.
RingAccountInv ==
  \A s \in Ring!Services :
    outstanding[s] = One(s \in works) + queued[s] + One(at[s] \in Executing)

\* Whoever takes a count to zero stops the service.
RingZeroInv ==
  \A s \in Ring!Services : outstanding[s] <= 0 =>
    \/ s \in stopped \/ at[s] = "stop_self"
    \/ \E o \in Ring!Services : at[o] = "stop_other" /\ resetAt[o] = s + 1

\* One thread at most executes stop(), and has released the works up to its loop
\* variable; before it all of them are there, after it none.
RingStopInv ==
  /\ \A s \in Ring!Services : at[s] \notin Looping => resetAt[s] = 0
  /\ \A s \in Ring!Services : at[s] \in Looping =>
       /\ works = {i \in Ring!Services : i >= resetAt[s]}
       /\ \A u \in Ring!Services : u # s => at[u] \notin Looping
  /\ (\A s \in Ring!Services : at[s] \notin Looping) =>
       works = IF stamps = 0 THEN Ring!Services ELSE {}

RingSpawnInv == \A s \in Ring!Services : s < spawned => at[s] # "none"

RingEndInv == RingAccountInv /\ RingZeroInv /\ RingStopInv /\ RingSpawnInv

\* A step of a thread that only moves the thread, and maybe stops a service or
\* writes stop_time_.
LEMMA MoveKeepsRingEnd ==
  ASSUME RingFits, RingInv, RingEndInv,
         NEW s \in Ring!Services, NEW y \in Ring!PoolPCs \cup {"post"},
         at' = [at EXCEPT ![s] = y], y # "none", y # "stop_other",
         UNCHANGED <<spawned, queued, outstanding, works, resetAt>>,
         stopped \subseteq stopped',
         at[s] \in Executing <=> y \in Executing,
         at[s] = "stop_self" => s \in stopped',
         at[s] = "stop_other" => resetAt[s] - 1 \in stopped',
         \/ stamps' = stamps /\ (at[s] \in Looping <=> y \in Looping)
         \/ stamps = 0 /\ stamps' # 0 /\ at[s] \notin Looping /\ y \in Looping
  PROVE  RingEndInv'
<1>1. /\ at \in [Ring!Services -> Ring!PoolPCs \cup {"post"}]
      /\ queued \in [Ring!Services -> Nat] /\ outstanding \in [Ring!Services -> Int]
      /\ resetAt \in [Ring!Services -> 0 .. RingSize]
      /\ RingSize \in Nat \ {0}
  BY RingTypes DEF RingInv
<1>2. at'[s] = y /\ \A u \in Ring!Services : u # s => at'[u] = at[u]
  BY <1>1
<1>3. RingAccountInv'
  <2>1. \A u \in Ring!Services : at'[u] \in Executing <=> at[u] \in Executing
    BY <1>2
  <2>2. QED
    BY <2>1 DEF RingEndInv, RingAccountInv, One
<1>4. RingZeroInv'
  <2> SUFFICES ASSUME NEW u \in Ring!Services, outstanding[u] <= 0
               PROVE  \/ u \in stopped' \/ at'[u] = "stop_self"
                      \/ \E o \in Ring!Services : at'[o] = "stop_other" /\ resetAt[o] = u + 1
    BY DEF RingZeroInv
  <2>1. \/ u \in stopped \/ at[u] = "stop_self"
        \/ \E o \in Ring!Services : at[o] = "stop_other" /\ resetAt[o] = u + 1
    BY DEF RingEndInv, RingZeroInv
  <2>2. CASE u \in stopped \/ at[u] = "stop_self"
    BY <1>2, <2>2
  <2>3. ASSUME NEW o \in Ring!Services, at[o] = "stop_other", resetAt[o] = u + 1
        PROVE  u \in stopped' \/ (at'[o] = "stop_other" /\ resetAt[o] = u + 1)
    <3>1. u \in Nat
      BY <1>1 DEF Ring!Services
    <3>2. QED
      BY <1>2, <2>3, <3>1
  <2>4. QED
    BY <2>1, <2>2, <2>3
<1>5. RingStopInv'
  <2>1. CASE stamps' = stamps /\ (at[s] \in Looping <=> y \in Looping)
    <3>1. \A u \in Ring!Services : at'[u] \in Looping <=> at[u] \in Looping
      BY <1>2, <2>1
    <3>2. QED
      BY <2>1, <3>1 DEF RingEndInv, RingStopInv
  <2>2. CASE stamps = 0 /\ stamps' # 0 /\ at[s] \notin Looping /\ y \in Looping
    <3>1. \A u \in Ring!Services : at[u] \notin Looping
      BY <2>2 DEF RingInv, OpenInv, Looping
    <3>2. works = Ring!Services /\ resetAt[s] = 0
      BY <2>2, <3>1 DEF RingEndInv, RingStopInv
    <3>3. works = {i \in Ring!Services : i >= resetAt[s]}
      BY <1>1, <3>2 DEF Ring!Services
    <3>4. QED
      BY <1>2, <2>2, <3>1, <3>3 DEF RingEndInv, RingStopInv
  <2>3. QED
    BY <2>1, <2>2
<1>6. RingSpawnInv'
  BY <1>2 DEF RingEndInv, RingSpawnInv
<1>7. QED
  BY <1>3, <1>4, <1>5, <1>6 DEF RingEndInv

\* The task is posted: by start(), or by a handler that ends with this.
LEMMA PostKeepsRingEnd ==
  ASSUME RingFits, RingInv, RingEndInv, NEW d \in Ring!Services,
         queued' = [queued EXCEPT ![d] = queued[d] + 1],
         outstanding' = [outstanding EXCEPT ![d] = outstanding[d] + 1],
         \/ at' = at
         \/ \E s \in Ring!Services : at[s] = "post" /\ at' = [at EXCEPT ![s] = "end"],
         UNCHANGED <<spawned, works, stopped, resetAt, stamps>>
  PROVE  RingEndInv'
<1>1. /\ at \in [Ring!Services -> Ring!PoolPCs \cup {"post"}]
      /\ queued \in [Ring!Services -> Nat] /\ outstanding \in [Ring!Services -> Int]
  BY RingTypes DEF RingInv
<1>2. \A u \in Ring!Services : at'[u] = at[u] \/ (at[u] = "post" /\ at'[u] = "end")
  BY <1>1
<1>3. \A u \in Ring!Services :
        \/ queued'[u] = queued[u] /\ outstanding'[u] = outstanding[u]
        \/ queued'[u] = queued[u] + 1 /\ outstanding'[u] = outstanding[u] + 1
  BY <1>1
<1>4. RingAccountInv'
  <2> DEFINE w(u) == One(u \in works)
             a(u) == One(at[u] \in Executing)
             b(u) == One(at'[u] \in Executing)
  <2>1. \A u \in Ring!Services : outstanding[u] = w(u) + queued[u] + a(u)
    BY DEF RingEndInv, RingAccountInv
  <2>2. \A u \in Ring!Services : b(u) = a(u) /\ a(u) \in Nat /\ w(u) \in Nat
    BY <1>2 DEF One, Executing
  <2> HIDE DEF w, a, b
  <2>3. \A u \in Ring!Services : outstanding'[u] = w(u) + queued'[u] + b(u)
    BY <1>1, <1>3, <2>1, <2>2
  <2>4. QED
    BY <2>3 DEF RingAccountInv, w, b
<1>5. RingZeroInv'
  <2>1. \A u \in Ring!Services : outstanding'[u] <= 0 => outstanding[u] <= 0
    BY <1>1, <1>3
  <2>2. QED
    BY <1>2, <2>1 DEF RingEndInv, RingZeroInv
<1>6. RingStopInv' /\ RingSpawnInv'
  <2>1. \A u \in Ring!Services : /\ at'[u] \in Looping <=> at[u] \in Looping
                                 /\ at[u] # "none" => at'[u] # "none"
    BY <1>2 DEF Looping
  <2>2. QED
    BY <2>1 DEF RingEndInv, RingStopInv, RingSpawnInv
<1>7. QED
  BY <1>4, <1>5, <1>6 DEF RingEndInv

\* The service begins the task: it is no longer queued, but in hand.
LEMMA BeginKeepsRingEnd ==
  ASSUME RingFits, RingInv, RingEndInv, NEW s \in Ring!Services,
         Ring!Begin(s), UNCHANGED Ring!taskVars
  PROVE  RingEndInv'
<1>1. /\ at \in [Ring!Services -> Ring!PoolPCs \cup {"post"}]
      /\ queued \in [Ring!Services -> Nat] /\ outstanding \in [Ring!Services -> Int]
  BY RingTypes DEF RingInv
<1>2. /\ at[s] = "idle" /\ queued[s] > 0
      /\ at' = [at EXCEPT ![s] = "begun"]
      /\ queued' = [queued EXCEPT ![s] = queued[s] - 1]
      /\ UNCHANGED <<spawned, outstanding, works, stopped, resetAt, stamps>>
  BY DEF Ring!Begin, Ring!Goto, Ring!taskVars
<1>3. /\ at'[s] = "begun" /\ queued'[s] = queued[s] - 1
      /\ \A u \in Ring!Services : u # s => at'[u] = at[u] /\ queued'[u] = queued[u]
  BY <1>1, <1>2
<1>4. RingAccountInv'
  <2> DEFINE w(u) == One(u \in works)
             a(u) == One(at[u] \in Executing)
             b(u) == One(at'[u] \in Executing)
  <2>1. \A u \in Ring!Services : outstanding[u] = w(u) + queued[u] + a(u)
    BY DEF RingEndInv, RingAccountInv
  <2>2. /\ a(s) = 0 /\ b(s) = 1
        /\ \A u \in Ring!Services : (u # s => b(u) = a(u)) /\ a(u) \in Nat /\ w(u) \in Nat
    BY <1>2, <1>3 DEF One, Executing
  <2> HIDE DEF w, a, b
  <2>3. \A u \in Ring!Services : outstanding[u] = w(u) + queued'[u] + b(u)
    BY <1>1, <1>3, <2>1, <2>2
  <2>4. QED
    BY <1>2, <2>3 DEF RingAccountInv, w, b
<1>5. RingZeroInv' /\ RingStopInv' /\ RingSpawnInv'
  <2>1. \A u \in Ring!Services : /\ at'[u] \in Looping <=> at[u] \in Looping
                                 /\ at[u] # "none" => at'[u] # "none"
                                 /\ at[u] \in {"stop_self", "stop_other"} => at'[u] = at[u]
    BY <1>2, <1>3 DEF Looping
  <2>2. QED
    BY <1>2, <2>1 DEF RingEndInv, RingZeroInv, RingStopInv, RingSpawnInv
<1>6. QED
  BY <1>4, <1>5 DEF RingEndInv

\* A handler ends: if its work was the last, its own thread stops the service.
LEMMA EndHandlerKeepsRingEnd ==
  ASSUME RingFits, RingInv, RingEndInv, NEW s \in Ring!Services,
         Ring!EndHandler(s), UNCHANGED Ring!taskVars
  PROVE  RingEndInv'
<1>1. /\ at \in [Ring!Services -> Ring!PoolPCs \cup {"post"}]
      /\ queued \in [Ring!Services -> Nat] /\ outstanding \in [Ring!Services -> Int]
  BY RingTypes DEF RingInv
<1>2. /\ at[s] = "end"
      /\ outstanding' = [outstanding EXCEPT ![s] = outstanding[s] - 1]
      /\ at' = [at EXCEPT ![s] = IF outstanding[s] = 1 THEN "stop_self" ELSE "idle"]
      /\ UNCHANGED <<spawned, queued, works, stopped, resetAt, stamps>>
  BY DEF Ring!EndHandler, Ring!Goto, Ring!taskVars
<1>3. /\ at'[s] = IF outstanding[s] = 1 THEN "stop_self" ELSE "idle"
      /\ outstanding'[s] = outstanding[s] - 1
      /\ \A u \in Ring!Services : u # s => at'[u] = at[u] /\ outstanding'[u] = outstanding[u]
  BY <1>1, <1>2
<1>4. RingAccountInv'
  <2> DEFINE w(u) == One(u \in works)
             a(u) == One(at[u] \in Executing)
             b(u) == One(at'[u] \in Executing)
  <2>1. \A u \in Ring!Services : outstanding[u] = w(u) + queued[u] + a(u)
    BY DEF RingEndInv, RingAccountInv
  <2>2. /\ a(s) = 1 /\ b(s) = 0
        /\ \A u \in Ring!Services : (u # s => b(u) = a(u)) /\ a(u) \in Nat /\ w(u) \in Nat
    BY <1>2, <1>3 DEF One, Executing
  <2> HIDE DEF w, a, b
  <2>3. outstanding'[s] = w(s) + queued[s] + b(s)
    BY <1>1, <1>3, <2>1, <2>2
  <2>4. \A u \in Ring!Services : u # s => outstanding'[u] = w(u) + queued[u] + b(u)
    BY <1>3, <2>1, <2>2
  <2>5. QED
    BY <1>2, <2>3, <2>4 DEF RingAccountInv, w, b
<1>5. RingZeroInv'
  <2> SUFFICES ASSUME NEW u \in Ring!Services, outstanding'[u] <= 0
               PROVE  \/ u \in stopped \/ at'[u] = "stop_self"
                      \/ \E o \in Ring!Services : at'[o] = "stop_other" /\ resetAt[o] = u + 1
    BY <1>2 DEF RingZeroInv
  <2>1. outstanding[u] <= 0 =>
          \/ u \in stopped \/ at[u] = "stop_self"
          \/ \E o \in Ring!Services : at[o] = "stop_other" /\ resetAt[o] = u + 1
    BY DEF RingEndInv, RingZeroInv
  <2>2. outstanding[u] <= 0 \/ (u = s /\ outstanding[s] = 1)
    BY <1>1, <1>3
  <2>3. QED
    BY <1>2, <1>3, <2>1, <2>2
<1>6. RingStopInv' /\ RingSpawnInv'
  <2>1. \A u \in Ring!Services : /\ at'[u] \in Looping <=> at[u] \in Looping
                                 /\ at[u] # "none" => at'[u] # "none"
    BY <1>2, <1>3 DEF Looping
  <2>2. QED
    BY <1>2, <2>1 DEF RingEndInv, RingStopInv, RingSpawnInv
<1>7. QED
  BY <1>4, <1>5, <1>6 DEF RingEndInv

\* A round of the loop of stop(): the work is there and is released.
LEMMA RoundKeepsRingEnd ==
  ASSUME RingFits, RingInv, RingEndInv, NEW s \in Ring!Services,
         Ring!ResetWork(s), UNCHANGED Ring!taskVars
  PROVE  RingEndInv'
<1>1. /\ at \in [Ring!Services -> Ring!PoolPCs \cup {"post"}]
      /\ queued \in [Ring!Services -> Nat] /\ outstanding \in [Ring!Services -> Int]
      /\ resetAt \in [Ring!Services -> 0 .. RingSize]
      /\ RingSize \in Nat \ {0}
  BY RingTypes DEF RingInv
<1>2. PICK i \in Ring!Services : i = resetAt[s]
  <2>1. resetAt[s] \in 0 .. RingSize /\ resetAt[s] < RingSize
    BY <1>1 DEF Ring!ResetWork
  <2>2. resetAt[s] \in Ring!Services
    BY <1>1, <2>1 DEF Ring!Services
  <2>3. QED
    BY <2>2
<1>3. at[s] = "reset" /\ at[s] \in Looping
  BY DEF Ring!ResetWork, Looping
<1>4. /\ works = {j \in Ring!Services : j >= i} /\ i \in works
      /\ \A u \in Ring!Services : u # s => at[u] \notin Looping
  <2>1. /\ works = {j \in Ring!Services : j >= i}
        /\ \A u \in Ring!Services : u # s => at[u] \notin Looping
    BY <1>2, <1>3 DEF RingEndInv, RingStopInv
  <2>2. i >= i
    BY <1>1, <1>2
  <2>3. QED
    BY <2>1, <2>2
<1>5. /\ outstanding' = [outstanding EXCEPT ![i] = outstanding[i] - 1]
      /\ at' = [at EXCEPT ![s] = IF outstanding[i] = 1 THEN "stop_other" ELSE "reset"]
      /\ resetAt' = [resetAt EXCEPT ![s] = i + 1]
      /\ works' = works \ {i}
      /\ UNCHANGED <<spawned, queued, stopped, stamps>>
  BY <1>2, <1>4 DEF Ring!ResetWork, Ring!DestroyWork, Ring!Goto, Ring!taskVars
<1>6. /\ at'[s] = IF outstanding[i] = 1 THEN "stop_other" ELSE "reset"
      /\ resetAt'[s] = i + 1 /\ outstanding'[i] = outstanding[i] - 1
      /\ \A u \in Ring!Services : u # s => at'[u] = at[u] /\ resetAt'[u] = resetAt[u]
      /\ \A u \in Ring!Services : u # i => outstanding'[u] = outstanding[u]
  BY <1>1, <1>5
<1>7. RingAccountInv'
  <2> DEFINE w(u) == One(u \in works)
             v(u) == One(u \in works')
             a(u) == One(at[u] \in Executing)
             b(u) == One(at'[u] \in Executing)
  <2>1. \A u \in Ring!Services : outstanding[u] = w(u) + queued[u] + a(u)
    BY DEF RingEndInv, RingAccountInv
  <2>2. /\ w(i) = 1 /\ v(i) = 0
        /\ \A u \in Ring!Services : (u # i => v(u) = w(u)) /\ b(u) = a(u)
                                    /\ a(u) \in Nat /\ w(u) \in Nat
    BY <1>3, <1>4, <1>5, <1>6 DEF One, Executing
  <2> HIDE DEF w, v, a, b
  <2>3. outstanding'[i] = v(i) + queued[i] + b(i)
    BY <1>1, <1>6, <2>1, <2>2
  <2>4. \A u \in Ring!Services : u # i => outstanding'[u] = v(u) + queued[u] + b(u)
    BY <1>6, <2>1, <2>2
  <2>5. QED
    BY <1>5, <2>3, <2>4 DEF RingAccountInv, v, b
<1>8. RingZeroInv'
  <2> SUFFICES ASSUME NEW u \in Ring!Services, outstanding'[u] <= 0
               PROVE  \/ u \in stopped \/ at'[u] = "stop_self"
                      \/ \E o \in Ring!Services : at'[o] = "stop_other" /\ resetAt'[o] = u + 1
    BY <1>5 DEF RingZeroInv
  <2>1. outstanding[u] <= 0 => u \in stopped \/ at[u] = "stop_self"
    BY <1>3, <1>4 DEF RingEndInv, RingZeroInv, Looping
  <2>2. outstanding[u] <= 0 \/ (u = i /\ at'[s] = "stop_other")
    BY <1>1, <1>6
  <2>3. QED
    BY <1>3, <1>6, <2>1, <2>2
<1>9. RingStopInv'
  <2>1. at'[s] \in Looping /\ \A u \in Ring!Services : u # s => at'[u] \notin Looping
    BY <1>4, <1>6 DEF Looping
  <2>2. works' = {j \in Ring!Services : j >= i + 1}
    <3>1. i \in Int /\ \A j \in Ring!Services : j \in Int
      BY <1>1 DEF Ring!Services
    <3>2. \A j \in Ring!Services : j >= i /\ j # i <=> j >= i + 1
      BY <3>1
    <3>3. QED
      BY <1>4, <1>5, <3>2
  <2>3. \A u \in Ring!Services : u # s => resetAt'[u] = 0
    BY <1>4, <1>6 DEF RingEndInv, RingStopInv
  <2>4. QED
    BY <1>6, <2>1, <2>2, <2>3 DEF RingStopInv
<1>10. RingSpawnInv'
  BY <1>5, <1>6 DEF RingEndInv, RingSpawnInv
<1>11. QED
  BY <1>7, <1>8, <1>9, <1>10 DEF RingEndInv

\* stop() returns when it has released every work.
LEMMA EndStopKeepsRingEnd ==
  ASSUME RingFits, RingInv, RingEndInv, NEW s \in Ring!Services,
         Ring!EndStop(s), UNCHANGED Ring!taskVars
  PROVE  RingEndInv'
<1>1. /\ at \in [Ring!Services -> Ring!PoolPCs \cup {"post"}]
      /\ resetAt \in [Ring!Services -> 0 .. RingSize]
      /\ RingSize \in Nat \ {0}
  BY RingTypes DEF RingInv
<1>2. /\ at[s] = "reset" /\ resetAt[s] = RingSize
      /\ at' = [at EXCEPT ![s] = "end"] /\ resetAt' = [resetAt EXCEPT ![s] = 0]
      /\ UNCHANGED <<spawned, queued, outstanding, works, stopped, stamps>>
  BY DEF Ring!EndStop, Ring!Goto, Ring!taskVars
<1>3. /\ at'[s] = "end" /\ resetAt'[s] = 0
      /\ \A u \in Ring!Services : u # s => at'[u] = at[u] /\ resetAt'[u] = resetAt[u]
  BY <1>1, <1>2
<1>4. /\ works = {j \in Ring!Services : j >= RingSize}
      /\ \A u \in Ring!Services : u # s => at[u] \notin Looping
  BY <1>2 DEF RingEndInv, RingStopInv, Looping
<1>5. works = {}
  BY <1>1, <1>4 DEF Ring!Services
<1>6. stamps # 0
  BY <1>2 DEF RingInv, OpenInv
<1>7. RingAccountInv'
  BY <1>2, <1>3 DEF RingEndInv, RingAccountInv, One, Executing
<1>8. RingZeroInv'
  BY <1>2, <1>3 DEF RingEndInv, RingZeroInv
<1>9. RingStopInv'
  <2>1. \A u \in Ring!Services : at'[u] \notin Looping /\ resetAt'[u] = 0
    BY <1>3, <1>4 DEF RingEndInv, RingStopInv, Looping
  <2>2. QED
    BY <1>2, <1>5, <1>6, <2>1 DEF RingStopInv
<1>10. RingSpawnInv'
  BY <1>2, <1>3 DEF RingEndInv, RingSpawnInv
<1>11. QED
  BY <1>7, <1>8, <1>9, <1>10 DEF RingEndInv

\* Nobody finds a work that another handler is releasing: one stop() runs.
LEMMA NobodyRaces ==
  ASSUME RingFits, RingInv, RingEndInv, NEW s \in Ring!Services
  PROVE  ~Ring!ResetWorkRaced(s)
  BY DEF RingEndInv, RingStopInv, Ring!ResetWorkRaced, Looping

\* Main posts the task, creates the threads and joins them.
LEMMA MainKeepsRingEnd ==
  ASSUME RingFits, RingInv, RingEndInv, Ring!MainStep
  PROVE  RingEndInv'
<1>1. /\ at \in [Ring!Services -> Ring!PoolPCs \cup {"post"}]
      /\ spawned \in 0 .. RingSize /\ index \in Nat /\ RingSize \in Nat \ {0}
  BY RingTypes DEF RingInv
<1>2. CASE Ring!Start
  <2>1. PICK d \in Ring!Services : d = index % RingSize
    BY <1>1 DEF Ring!Services
  <2>2. /\ queued' = [queued EXCEPT ![d] = queued[d] + 1]
        /\ outstanding' = [outstanding EXCEPT ![d] = outstanding[d] + 1]
        /\ UNCHANGED <<spawned, at, works, stopped, resetAt, stamps>>
    BY <1>2, <2>1 DEF Ring!Start, Ring!PostTo, Ring!GetIoService, Ring!taskVars
  <2>3. QED
    BY <2>2, PostKeepsRingEnd
<1>3. CASE Ring!Spawn /\ UNCHANGED Ring!taskVars
  <2>1. /\ spawned \in Ring!Services /\ spawned' = spawned + 1
        /\ at' = [at EXCEPT ![spawned] = "enter"]
        /\ UNCHANGED <<queued, outstanding, works, stopped, resetAt, stamps>>
    BY <1>1, <1>3 DEF Ring!Spawn, Ring!Goto, Ring!Services, Ring!taskVars
  <2>2. at[spawned] = "none"
    BY <1>1, <2>1 DEF RingInv, ThreadInv
  <2>3. /\ at'[spawned] = "enter"
        /\ \A u \in Ring!Services : u # spawned => at'[u] = at[u]
    BY <1>1, <2>1
  <2>4. RingAccountInv' /\ RingZeroInv' /\ RingStopInv'
    <3>1. \A u \in Ring!Services :
             /\ at'[u] \in Looping <=> at[u] \in Looping
             /\ at'[u] \in Executing <=> at[u] \in Executing
             /\ at[u] \in {"stop_self", "stop_other"} => at'[u] = at[u]
      BY <2>2, <2>3 DEF Looping, Executing
    <3>2. QED
      BY <2>1, <3>1 DEF RingEndInv, RingAccountInv, RingZeroInv, RingStopInv, One
  <2>5. RingSpawnInv'
    <3>1. \A u \in Ring!Services : u < spawned + 1 => u = spawned \/ u < spawned
      BY <1>1 DEF Ring!Services
    <3>2. QED
      BY <2>1, <2>3, <3>1 DEF RingEndInv, RingSpawnInv
  <2>6. QED
    BY <2>4, <2>5 DEF RingEndInv
<1>4. CASE Ring!JoinAll /\ UNCHANGED Ring!taskVars
  BY <1>4 DEF Ring!JoinAll, Ring!taskVars, RingEndInv, RingAccountInv, RingZeroInv,
     RingStopInv, RingSpawnInv
<1>5. QED
  BY <1>2, <1>3, <1>4 DEF Ring!MainStep, Ring!PoolMainStep

\* The threads count, stop the pool and return.
LEMMA ThreadKeepsRingEnd ==
  ASSUME RingFits, RingInv, RingEndInv, NEW s \in Ring!Services, Ring!ThreadStep(s)
  PROVE  RingEndInv'
<1>1. /\ index \in Nat /\ RingSize \in Nat \ {0}
  BY RingTypes DEF RingInv
<1>2. CASE Ring!Increment(s)
  <2>1. /\ at[s] = "begun"
        /\ UNCHANGED <<spawned, queued, outstanding, works, stopped, resetAt>>
        /\ \/ at' = [at EXCEPT ![s] = "reset"] /\ stamps' = stamps + 1
           \/ at' = [at EXCEPT ![s] = "post"] /\ stamps' = stamps
    BY <1>2 DEF Ring!Increment, Ring!Goto
  <2>2. stamps = 0
    BY <2>1, RingTaskIsHere
  <2>3. CASE at' = [at EXCEPT ![s] = "reset"] /\ stamps' = stamps + 1
    <3>1. stamps' # 0
      BY <2>2, <2>3
    <3>2. QED
      BY <2>1, <2>2, <2>3, <3>1, MoveKeepsRingEnd DEF Executing, Looping, Ring!PoolPCs
  <2>4. CASE at' = [at EXCEPT ![s] = "post"] /\ stamps' = stamps
    BY <2>1, <2>4, MoveKeepsRingEnd DEF Executing, Looping
  <2>5. QED
    BY <2>1, <2>3, <2>4
<1>3. CASE Ring!PostNext(s)
  <2>1. PICK d \in Ring!Services : d = index % RingSize
    BY <1>1 DEF Ring!Services
  <2>2. /\ queued' = [queued EXCEPT ![d] = queued[d] + 1]
        /\ outstanding' = [outstanding EXCEPT ![d] = outstanding[d] + 1]
        /\ at[s] = "post" /\ at' = [at EXCEPT ![s] = "end"]
        /\ UNCHANGED <<spawned, works, stopped, resetAt, stamps>>
    BY <1>3, <2>1 DEF Ring!PostNext, Ring!PostTo, Ring!GetIoService, Ring!Goto, Ring!taskVars
  <2>3. QED
    BY <2>2, PostKeepsRingEnd
<1>4. ASSUME Ring!PoolThreadStep(s), UNCHANGED Ring!taskVars
      PROVE  RingEndInv'
  <2>1. stamps' = stamps
    BY <1>4 DEF Ring!taskVars
  <2>2. CASE Ring!Enter(s)
    <3>1. PICK y \in {"stop_self", "idle"} : at' = [at EXCEPT ![s] = y]
      BY <2>2 DEF Ring!Enter, Ring!Goto
    <3>2. /\ at[s] = "enter"
          /\ UNCHANGED <<spawned, queued, outstanding, works, stopped, resetAt>>
      BY <2>2 DEF Ring!Enter
    <3>3. QED
      BY <2>1, <3>1, <3>2, MoveKeepsRingEnd DEF Executing, Looping, Ring!PoolPCs
  <2>3. CASE Ring!Begin(s)
    BY <1>4, <2>3, BeginKeepsRingEnd
  <2>4. CASE Ring!EndHandler(s)
    BY <1>4, <2>4, EndHandlerKeepsRingEnd
  <2>5. CASE Ring!StopSelf(s)
    <3>1. /\ at[s] = "stop_self" /\ at' = [at EXCEPT ![s] = "idle"]
          /\ stopped' = stopped \cup {s}
          /\ UNCHANGED <<spawned, queued, outstanding, works, resetAt>>
      BY <2>5 DEF Ring!StopSelf, Ring!Goto
    <3>2. QED
      BY <2>1, <3>1, MoveKeepsRingEnd DEF Executing, Looping, Ring!PoolPCs
  <2>6. CASE Ring!RunReturns(s)
    <3>1. /\ at[s] = "idle" /\ at' = [at EXCEPT ![s] = "returned"]
          /\ UNCHANGED <<spawned, queued, outstanding, works, stopped, resetAt>>
      BY <2>6 DEF Ring!RunReturns, Ring!Goto
    <3>2. QED
      BY <2>1, <3>1, MoveKeepsRingEnd DEF Executing, Looping, Ring!PoolPCs
  <2>7. CASE Ring!ResetWork(s)
    BY <1>4, <2>7, RoundKeepsRingEnd
  <2>8. CASE Ring!StopOther(s)
    <3>1. /\ at[s] = "stop_other" /\ at' = [at EXCEPT ![s] = "reset"]
          /\ stopped' = stopped \cup {resetAt[s] - 1}
          /\ UNCHANGED <<spawned, queued, outstanding, works, resetAt>>
      BY <2>8 DEF Ring!StopOther, Ring!Goto
    <3>2. QED
      BY <2>1, <3>1, MoveKeepsRingEnd DEF Executing, Looping, Ring!PoolPCs
  <2>9. CASE Ring!EndStop(s)
    BY <1>4, <2>9, EndStopKeepsRingEnd
  <2>10. QED
    BY <1>4, <2>2, <2>3, <2>4, <2>5, <2>6, <2>7, <2>8, <2>9, NobodyRaces
    DEF Ring!PoolThreadStep
<1>5. QED
  BY <1>2, <1>3, <1>4 DEF Ring!ThreadStep

\* The program starts with every work in its place.
LEMMA InitRingEnd ==
  ASSUME RingFits, Ring!Init
  PROVE  RingEndInv
<1>1. /\ \A s \in Ring!Services : /\ at[s] = "none" /\ queued[s] = 0
                                  /\ outstanding[s] = 1 /\ resetAt[s] = 0
      /\ spawned = 0 /\ stamps = 0 /\ works = Ring!Services
  BY DEF Ring!Init, Ring!PoolInit
<1>2. RingAccountInv /\ RingZeroInv
  BY <1>1 DEF RingAccountInv, RingZeroInv, One, Executing
<1>3. RingStopInv
  BY <1>1 DEF RingStopInv, Looping
<1>4. RingSpawnInv
  BY <1>1 DEF RingSpawnInv, Ring!Services
<1>5. QED
  BY <1>2, <1>3, <1>4 DEF RingEndInv

\* Every step keeps it.
LEMMA NextRingEnd ==
  ASSUME RingFits, RingInv, RingEndInv, [Ring!Next]_(Ring!vars)
  PROVE  RingEndInv'
<1>1. CASE UNCHANGED Ring!vars
  BY <1>1 DEF Ring!vars, Ring!poolVars, Ring!taskVars, RingEndInv, RingAccountInv,
     RingZeroInv, RingStopInv, RingSpawnInv
<1>2. CASE Ring!MainStep
  BY <1>2, MainKeepsRingEnd
<1>3. ASSUME NEW s \in Ring!Services, Ring!ThreadStep(s)
      PROVE  RingEndInv'
  BY <1>3, ThreadKeepsRingEnd
<1>4. QED
  BY <1>1, <1>2, <1>3 DEF Ring!Next, Ring!Terminated

\* How the ring gets to its end is an invariant.
THEOREM RingEndInvariance ==
  ASSUME RingFits
  PROVE  Ring!Spec => []RingEndInv
<1>1. Ring!Init => RingEndInv
  BY InitRingEnd
<1>2. RingInv /\ RingEndInv /\ [Ring!Next]_(Ring!vars) => RingEndInv'
  BY NextRingEnd
<1>3. Ring!Spec => []RingInv
  BY RingInvariance
<1>4. QED
  BY <1>1, <1>2, <1>3, PTL DEF Ring!Spec

\* The race on work_[i] in io_service_pool::stop(), which posttask2 has, posttask1
\* has not: whichever thread's task finds the target reached, it is the only one
\* to stop the pool, and each work is released once.
THEOREM RingStopsAlone ==
  ASSUME RingFits
  PROVE  Ring!Spec => [][\A s \in Ring!Services : ~Ring!ResetWorkRaced(s)]_(Ring!vars)
<1>1. RingInv /\ RingEndInv => \A s \in Ring!Services : ~Ring!ResetWorkRaced(s)
  BY NobodyRaces
<1>2. Ring!Spec => []RingInv /\ []RingEndInv
  BY RingInvariance, RingEndInvariance, PTL
<1>3. QED
  BY <1>1, <1>2, PTL

\* Whether main may take a step, and the thread of a service: the guards of
\* MainStep and ThreadStep.
RingMainMayStep ==
  \/ main = "start"
  \/ main = "run" /\ (spawned < RingSize \/ \A s \in Ring!Services : at[s] = "returned")

RingMayStep(s) ==
  \/ at[s] \in {"enter", "begun", "post", "end", "reset", "stop_other", "stop_self"}
  \/ at[s] = "idle" /\ (s \in stopped \/ queued[s] > 0)

RingNotStuck ==
  main = "done" \/ RingMainMayStep \/ \E s \in Ring!Services : RingMayStep(s)

\* Until wait() has returned somebody may go on: the task is never posted to a
\* service whose thread has returned, and stop() leaves no service open.
THEOREM RingNeverStuck ==
  ASSUME RingFits
  PROVE  Ring!Spec => []RingNotStuck
<1>1. ASSUME RingInv, RingEndInv, ~RingNotStuck PROVE FALSE
  <2>1. /\ at \in [Ring!Services -> Ring!PoolPCs \cup {"post"}]
        /\ queued \in [Ring!Services -> Nat] /\ outstanding \in [Ring!Services -> Int]
        /\ spawned \in 0 .. RingSize /\ main \in {"start", "run", "done"}
        /\ RingSize \in Nat \ {0} /\ stamps \in Nat
    BY <1>1, RingTypes DEF RingInv
  <2>2. main = "run" /\ spawned = RingSize
    BY <1>1, <2>1 DEF RingNotStuck, RingMainMayStep
  <2>3. \A s \in Ring!Services : s < spawned
    BY <2>1, <2>2 DEF Ring!Services
  <2>4. \A s \in Ring!Services : /\ at[s] \in {"idle", "returned"}
                                 /\ at[s] = "idle" => s \notin stopped /\ queued[s] = 0
    BY <1>1, <2>1, <2>3
    DEF RingNotStuck, RingMayStep, RingEndInv, RingSpawnInv, Ring!PoolPCs
  <2>5. PICK s \in Ring!Services : at[s] = "idle" /\ s \notin stopped /\ queued[s] = 0
    BY <1>1, <2>2, <2>4 DEF RingNotStuck, RingMainMayStep
  <2>6. outstanding[s] > 0
    BY <1>1, <2>1, <2>4, <2>5 DEF RingEndInv, RingZeroInv
  <2>7. s \in works
    <3>1. outstanding[s] = One(s \in works) + queued[s] + One(at[s] \in Executing)
      BY <1>1 DEF RingEndInv, RingAccountInv
    <3>2. One(at[s] \in Executing) = 0
      BY <2>5 DEF One, Executing
    <3>3. One(s \in works) # 0
      BY <2>1, <2>5, <2>6, <3>1, <3>2 DEF One
    <3>4. QED
      BY <3>3 DEF One
  <2>8. stamps = 0
    BY <1>1, <2>4, <2>7 DEF RingEndInv, RingStopInv, Looping
  <2>9. \A u \in Ring!Services : at[u] = "idle" /\ queued[u] = 0
    BY <1>1, <2>4, <2>8 DEF RingInv, OpenInv
  <2>10. \A u \in Ring!Services : InTurn(u) = 0
    BY <2>9 DEF InTurn, One
  <2>11. QED
    BY <1>1, <2>2, <2>8, <2>10 DEF RingInv, PlaceInv
<1>2. RingInv /\ RingEndInv => RingNotStuck
  BY <1>1
<1>3. Ring!Spec => []RingInv /\ []RingEndInv
  BY RingInvariance, RingEndInvariance, PTL
<1>4. QED
  BY <1>2, <1>3, PTL
=============================================================================
