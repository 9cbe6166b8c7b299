------------------------- MODULE TimerQueue_proofs -------------------------
(***************************************************************************)
(* Proofs about TimerQueue, for all sets of timers, all delays and every   *)
(* resolution of the clock: the heap stays a heap and the timers know      *)
(* their places, the timerfd is never armed too late, and all this         *)
(* implements TimerSet.                                                    *)
(*                                                                         *)
(* up_heap(), down_heap() and get_ready_timers() are loops.  What a loop   *)
(* computes is proved by an invariant of its rounds: a set of states that  *)
(* the rounds do not leave (Rising, Sinking, Left).  That it ends is a     *)
(* matter of counting: a round moves the entry up or down, or takes one.   *)
(***************************************************************************)
EXTENDS TimerQueue, FiniteSetTheorems, WellFoundedInduction, TLAPS

\* A set of numbers that is not empty has a least element.
LEMMA LeastNumber ==
  ASSUME NEW T, T \subseteq Nat, T # {}
  PROVE  \E n \in T : \A m \in T : n <= m
<1> DEFINE R == {p \in Nat \X Nat : p[1] < p[2]}
<1>1. IsWellFoundedOn(R, Nat)
  BY NatLessThanWellFounded DEF OpToRel
<1> HIDE DEF R
<1>2. PICK n \in T : \A m \in T : ~(<<m, n>> \in R)
  BY <1>1, WFMin
<1>3. \A m \in T : ~(m < n)
  BY <1>2 DEF R
<1>4. QED
  BY <1>3

\* Induction, stated of a set of numbers.
LEMMA AllNumbers ==
  ASSUME NEW T, 0 \in T, \A n \in Nat : n \in T => n + 1 \in T
  PROVE  Nat \subseteq T
<1> SUFFICES ASSUME Nat \ T # {} PROVE FALSE
  OBVIOUS
<1>1. PICK n \in Nat \ T : \A m \in Nat \ T : n <= m
  BY LeastNumber
<1>2. n - 1 \in Nat /\ n - 1 \in T
  BY <1>1
<1>3. QED
  BY <1>1, <1>2

-----------------------------------------------------------------------------
(* Loops.  step is the round of a loop as a function on a set that it maps to *)
(* itself.                                                                    *)

\* The first n rounds from x.
Runs(f, S, step, x, n) ==
  /\ f \in [0 .. n -> S]
  /\ f[0] = x
  /\ \A k \in 0 .. n - 1 : f[k + 1] = step[f[k]]

LEMMA RunsExist ==
  ASSUME NEW S, NEW x \in S, NEW step \in [S -> S], NEW n \in Nat
  PROVE  \E f : Runs(f, S, step, x, n)
<1> DEFINE T == {m \in Nat : \E f : Runs(f, S, step, x, m)}
<1>1. 0 \in T
  <2> DEFINE f == [k \in 0 .. 0 |-> x]
  <2>1. Runs(f, S, step, x, 0)
    BY DEF Runs
  <2>2. QED
    BY <2>1
<1>2. \A m \in Nat : m \in T => m + 1 \in T
  <2> SUFFICES ASSUME NEW m \in Nat, m \in T
               PROVE  \E g : Runs(g, S, step, x, m + 1)
    OBVIOUS
  <2>1. PICK f : Runs(f, S, step, x, m)
    OBVIOUS
  <2> DEFINE g == [k \in 0 .. m + 1 |-> IF k <= m THEN f[k] ELSE step[f[m]]]
  <2>2. /\ f \in [0 .. m -> S] /\ f[0] = x
        /\ \A k \in 0 .. m - 1 : f[k + 1] = step[f[k]]
    BY <2>1 DEF Runs
  <2>3. f[m] \in S /\ step[f[m]] \in S
    BY <2>2
  <2>4. g \in [0 .. m + 1 -> S] /\ g[0] = x
    BY <2>2, <2>3
  <2>5. \A k \in 0 .. m : g[k + 1] = step[g[k]]
    <3> SUFFICES ASSUME NEW k \in 0 .. m
                 PROVE  g[k + 1] = step[g[k]]
      OBVIOUS
    <3>1. g[k] = f[k]
      OBVIOUS
    <3>2. CASE k = m
      BY <3>1, <3>2
    <3>3. CASE k # m
      <4>1. k \in 0 .. m - 1 /\ k + 1 <= m
        BY <3>3
      <4>2. QED
        BY <2>2, <3>1, <4>1
    <3>4. QED
      BY <3>2, <3>3
  <2>6. m + 1 - 1 = m
    OBVIOUS
  <2> HIDE DEF g
  <2>7. Runs(g, S, step, x, m + 1)
    BY <2>4, <2>5, <2>6 DEF Runs
  <2>8. QED
    BY <2>7
<1> HIDE DEF T
<1>3. n \in T
  BY <1>1, <1>2, AllNumbers
<1>4. QED
  BY <1>3 DEF T

LEMMA RunsAgree ==
  ASSUME NEW S, NEW x, NEW step, NEW m \in Nat, NEW n \in Nat, NEW f, NEW g,
         Runs(f, S, step, x, m), Runs(g, S, step, x, n),
         NEW k \in Nat, k <= m, k <= n
  PROVE  f[k] = g[k]
<1> DEFINE T == {i \in Nat : i <= m /\ i <= n => f[i] = g[i]}
<1>1. 0 \in T
  BY DEF Runs
<1>2. \A i \in Nat : i \in T => i + 1 \in T
  <2> SUFFICES ASSUME NEW i \in Nat, i \in T, i + 1 <= m, i + 1 <= n
               PROVE  f[i + 1] = g[i + 1]
    OBVIOUS
  <2>1. f[i] = g[i] /\ i \in 0 .. m - 1 /\ i \in 0 .. n - 1
    OBVIOUS
  <2>2. QED
    BY <2>1 DEF Runs
<1> HIDE DEF T
<1>3. k \in T
  BY <1>1, <1>2, AllNumbers
<1>4. QED
  BY <1>3 DEF T

\* All rounds from x.
LEMMA LoopExists ==
  ASSUME NEW S, NEW x \in S, NEW step \in [S -> S]
  PROVE  \E f \in [Nat -> S] :
           f = [k \in Nat |-> IF k = 0 THEN x ELSE step[f[k - 1]]]
<1> DEFINE F(n) == CHOOSE f : Runs(f, S, step, x, n)
           f == [n \in Nat |-> F(n)[n]]
<1>1. \A n \in Nat : Runs(F(n), S, step, x, n)
  BY RunsExist
<1> HIDE DEF F
<1>2. f \in [Nat -> S]
  <2>1. \A n \in Nat : F(n)[n] \in S
    BY <1>1 DEF Runs
  <2>2. QED
    BY <2>1
<1>3. f[0] = x
  BY <1>1 DEF Runs
<1>4. \A k \in Nat : f[k + 1] = step[f[k]]
  <2> SUFFICES ASSUME NEW k \in Nat
               PROVE  F(k + 1)[k + 1] = step[F(k)[k]]
    OBVIOUS
  <2>1. Runs(F(k), S, step, x, k) /\ Runs(F(k + 1), S, step, x, k + 1) /\ k + 1 \in Nat
    BY <1>1
  <2>2. F(k)[k] = F(k + 1)[k]
    BY <2>1, RunsAgree
  <2>3. k \in 0 .. (k + 1) - 1
    OBVIOUS
  <2>4. QED
    BY <2>1, <2>2, <2>3 DEF Runs
<1>5. \A k \in Nat : f[k] = IF k = 0 THEN x ELSE step[f[k - 1]]
  <2> HIDE DEF f
  <2>1. \A k \in Nat : k # 0 => k - 1 \in Nat /\ f[(k - 1) + 1] = f[k]
    OBVIOUS
  <2>2. QED
    BY <1>3, <1>4, <2>1
<1>6. f = [k \in Nat |-> IF k = 0 THEN x ELSE step[f[k - 1]]]
  <2> HIDE DEF f
  <2>1. QED
    BY <1>2, <1>5
<1>7. QED
  BY <1>2, <1>6

\* f lists what it has computed after each round.
RiseRun(f, x) ==
  /\ f[0] = x
  /\ \A k \in Nat : f[k + 1] = Rise(f[k])
  /\ \A n \in Nat : Rounds(Rise, x, n) = f[n]

\* The loop of up_heap() stays in every set that its rounds stay in.
LEMMA RiseRounds ==
  ASSUME NEW S, NEW x \in S, \A r \in S : Rise(r) \in S
  PROVE  \E f \in [Nat -> S] : RiseRun(f, x)
<1> DEFINE step == [r \in S |-> Rise(r)]
           Is(g) == g = [k \in Nat |-> IF k = 0 THEN x ELSE Rise(g[k - 1])]
           f == CHOOSE g : Is(g)
<1>1. PICK g \in [Nat -> S] : g = [k \in Nat |-> IF k = 0 THEN x ELSE step[g[k - 1]]]
  <2>1. step \in [S -> S]
    OBVIOUS
  <2> HIDE DEF step
  <2>2. QED
    BY <2>1, LoopExists
<1>2. Is(g)
  <2>1. \A k \in Nat : k # 0 => k - 1 \in Nat /\ step[g[k - 1]] = Rise(g[k - 1])
    OBVIOUS
  <2> HIDE DEF step
  <2>2. \A k \in Nat : g[k] = IF k = 0 THEN x ELSE Rise(g[k - 1])
    BY <1>1, <2>1
  <2>3. QED
    BY <2>2
<1>3. Is(f)
  BY <1>2
<1>4. f[0] = x /\ \A k \in Nat : f[k + 1] = Rise(f[k])
  <2> HIDE DEF f
  <2>1. \A k \in Nat : f[k] = IF k = 0 THEN x ELSE Rise(f[k - 1])
    BY <1>3
  <2>2. \A k \in Nat : k + 1 \in Nat /\ k + 1 # 0 /\ (k + 1) - 1 = k
    OBVIOUS
  <2>3. QED
    BY <2>1, <2>2
<1>5. f \in [Nat -> S]
  <2> DEFINE T == {n \in Nat : f[n] \in S}
  <2>1. f = [n \in Nat |-> f[n]]
    BY <1>3
  <2> HIDE DEF f
  <2>2. 0 \in T /\ \A n \in Nat : n \in T => n + 1 \in T
    BY <1>4
  <2> HIDE DEF T
  <2>3. Nat \subseteq T
    BY <2>2, AllNumbers
  <2>4. \A n \in Nat : f[n] \in S
    BY <2>3 DEF T
  <2>5. QED
    BY <2>1, <2>4
<1>6. \A n \in Nat : Rounds(Rise, x, n) = f[n]
  BY DEF Rounds
<1>7. RiseRun(f, x)
  BY <1>4, <1>6 DEF Rounds, RiseRun
<1>8. QED
  BY <1>5, <1>7

\* f lists what it has computed after each round.
SinkRun(f, x) ==
  /\ f[0] = x
  /\ \A k \in Nat : f[k + 1] = Sink(f[k])
  /\ \A n \in Nat : Rounds(Sink, x, n) = f[n]

\* The loop of down_heap() stays in every set that its rounds stay in.
LEMMA SinkRounds ==
  ASSUME NEW S, NEW x \in S, \A r \in S : Sink(r) \in S
  PROVE  \E f \in [Nat -> S] : SinkRun(f, x)
<1> DEFINE step == [r \in S |-> Sink(r)]
           Is(g) == g = [k \in Nat |-> IF k = 0 THEN x ELSE Sink(g[k - 1])]
           f == CHOOSE g : Is(g)
<1>1. PICK g \in [Nat -> S] : g = [k \in Nat |-> IF k = 0 THEN x ELSE step[g[k - 1]]]
  <2>1. step \in [S -> S]
    OBVIOUS
  <2> HIDE DEF step
  <2>2. QED
    BY <2>1, LoopExists
<1>2. Is(g)
  <2>1. \A k \in Nat : k # 0 => k - 1 \in Nat /\ step[g[k - 1]] = Sink(g[k - 1])
    OBVIOUS
  <2> HIDE DEF step
  <2>2. \A k \in Nat : g[k] = IF k = 0 THEN x ELSE Sink(g[k - 1])
    BY <1>1, <2>1
  <2>3. QED
    BY <2>2
<1>3. Is(f)
  BY <1>2
<1>4. f[0] = x /\ \A k \in Nat : f[k + 1] = Sink(f[k])
  <2> HIDE DEF f
  <2>1. \A k \in Nat : f[k] = IF k = 0 THEN x ELSE Sink(f[k - 1])
    BY <1>3
  <2>2. \A k \in Nat : k + 1 \in Nat /\ k + 1 # 0 /\ (k + 1) - 1 = k
    OBVIOUS
  <2>3. QED
    BY <2>1, <2>2
<1>5. f \in [Nat -> S]
  <2> DEFINE T == {n \in Nat : f[n] \in S}
  <2>1. f = [n \in Nat |-> f[n]]
    BY <1>3
  <2> HIDE DEF f
  <2>2. 0 \in T /\ \A n \in Nat : n \in T => n + 1 \in T
    BY <1>4
  <2> HIDE DEF T
  <2>3. Nat \subseteq T
    BY <2>2, AllNumbers
  <2>4. \A n \in Nat : f[n] \in S
    BY <2>3 DEF T
  <2>5. QED
    BY <2>1, <2>4
<1>6. \A n \in Nat : Rounds(Sink, x, n) = f[n]
  BY DEF Rounds
<1>7. SinkRun(f, x)
  BY <1>4, <1>6 DEF Rounds, SinkRun
<1>8. QED
  BY <1>5, <1>7

\* f lists what it has computed after each round.
TakeRun(f, x) ==
  /\ f[0] = x
  /\ \A k \in Nat : f[k + 1] = TakeFront(f[k])
  /\ \A n \in Nat : Rounds(TakeFront, x, n) = f[n]

\* The loop of get_ready_timers() stays in every set that its rounds stay in.
LEMMA TakeRounds ==
  ASSUME NEW S, NEW x \in S, \A r \in S : TakeFront(r) \in S
  PROVE  \E f \in [Nat -> S] : TakeRun(f, x)
<1> DEFINE step == [r \in S |-> TakeFront(r)]
           Is(g) == g = [k \in Nat |-> IF k = 0 THEN x ELSE TakeFront(g[k - 1])]
           f == CHOOSE g : Is(g)
<1>1. PICK g \in [Nat -> S] : g = [k \in Nat |-> IF k = 0 THEN x ELSE step[g[k - 1]]]
  <2>1. step \in [S -> S]
    OBVIOUS
  <2> HIDE DEF step
  <2>2. QED
    BY <2>1, LoopExists
<1>2. Is(g)
  <2>1. \A k \in Nat : k # 0 => k - 1 \in Nat /\ step[g[k - 1]] = TakeFront(g[k - 1])
    OBVIOUS
  <2> HIDE DEF step
  <2>2. \A k \in Nat : g[k] = IF k = 0 THEN x ELSE TakeFront(g[k - 1])
    BY <1>1, <2>1
  <2>3. QED
    BY <2>2
<1>3. Is(f)
  BY <1>2
<1>4. f[0] = x /\ \A k \in Nat : f[k + 1] = TakeFront(f[k])
  <2> HIDE DEF f
  <2>1. \A k \in Nat : f[k] = IF k = 0 THEN x ELSE TakeFront(f[k - 1])
    BY <1>3
  <2>2. \A k \in Nat : k + 1 \in Nat /\ k + 1 # 0 /\ (k + 1) - 1 = k
    OBVIOUS
  <2>3. QED
    BY <2>1, <2>2
<1>5. f \in [Nat -> S]
  <2> DEFINE T == {n \in Nat : f[n] \in S}
  <2>1. f = [n \in Nat |-> f[n]]
    BY <1>3
  <2> HIDE DEF f
  <2>2. 0 \in T /\ \A n \in Nat : n \in T => n + 1 \in T
    BY <1>4
  <2> HIDE DEF T
  <2>3. Nat \subseteq T
    BY <2>2, AllNumbers
  <2>4. \A n \in Nat : f[n] \in S
    BY <2>3 DEF T
  <2>5. QED
    BY <2>1, <2>4
<1>6. \A n \in Nat : Rounds(TakeFront, x, n) = f[n]
  BY DEF Rounds
<1>7. TakeRun(f, x)
  BY <1>4, <1>6 DEF Rounds, TakeRun
<1>8. QED
  BY <1>5, <1>7

-----------------------------------------------------------------------------
(* Queues.                                                                    *)

Entries == [time : Nat, timer : Timers]
Queues  == [heap : Seq(Entries), index : [Timers -> Nat]]
Places  == [queue : Queues, at : Nat]

\* Every entry's timer knows its place, and nobody else thinks to have one.
Placed(q) ==
  /\ \A k \in 1 .. Len(q.heap) : q.index[q.heap[k].timer] = k
  /\ \A t \in Timers : q.index[t] # 0 =>
       q.index[t] \in 1 .. Len(q.heap) /\ q.heap[q.index[t]].timer = t

\* No entry is earlier than its parent.
Ordered(h) == \A k \in 2 .. Len(h) : h[Parent(k)].time <= h[k].time

\* Both have the same timers, with the same times.
SameTimers(q, r) ==
  /\ Len(r.heap) = Len(q.heap)
  /\ \A t \in Timers :
       /\ (r.index[t] = 0) <=> (q.index[t] = 0)
       /\ q.index[t] # 0 => r.heap[r.index[t]] = q.heap[q.index[t]]

\* What is in a queue.
LEMMA QueueType ==
  ASSUME NEW q \in Queues
  PROVE  /\ q.heap \in Seq(Entries) /\ q.index \in [Timers -> Nat]
         /\ q = [heap |-> q.heap, index |-> q.index]
         /\ Len(q.heap) \in Nat
         /\ \A k \in 1 .. Len(q.heap) :
              q.heap[k] \in Entries /\ q.heap[k].time \in Nat /\ q.heap[k].timer \in Timers
<1>1. q.heap \in Seq(Entries) /\ q.index \in [Timers -> Nat]
      /\ q = [heap |-> q.heap, index |-> q.index]
  BY DEF Queues
<1>2. Len(q.heap) \in Nat /\ \A k \in 1 .. Len(q.heap) : q.heap[k] \in Entries
  BY <1>1
<1>3. \A e \in Entries : e.time \in Nat /\ e.timer \in Timers
  BY DEF Entries
<1>4. QED
  BY <1>1, <1>2, <1>3

\* swap_heap() moves two entries and tells their timers.
LEMMA Swapped ==
  ASSUME NEW q \in Queues, Placed(q),
         NEW i \in 1 .. Len(q.heap), NEW j \in 1 .. Len(q.heap), i # j
  PROVE  LET r == SwapHeap(q, i, j)
         IN  /\ r \in Queues /\ Placed(r) /\ SameTimers(q, r)
             /\ r.heap[i] = q.heap[j] /\ r.heap[j] = q.heap[i]
             /\ \A k \in 1 .. Len(q.heap) : k # i /\ k # j => r.heap[k] = q.heap[k]
<1> DEFINE n == Len(q.heap)
           a == q.heap[i].timer
           b == q.heap[j].timer
           h == [q.heap EXCEPT ![i] = q.heap[j], ![j] = q.heap[i]]
           x == [q.index EXCEPT ![b] = i, ![a] = j]
           r == SwapHeap(q, i, j)
<1>1. /\ q.heap \in Seq(Entries) /\ q.index \in [Timers -> Nat] /\ n \in Nat
      /\ \A k \in 1 .. n : q.heap[k] \in Entries /\ q.heap[k].timer \in Timers
  BY QueueType
<1>2. r = [heap |-> h, index |-> x]
  BY DEF SwapHeap
<1>3. /\ \A k \in 1 .. n : q.index[q.heap[k].timer] = k
      /\ \A t \in Timers : q.index[t] # 0 =>
           q.index[t] \in 1 .. n /\ q.heap[q.index[t]].timer = t
  BY DEF Placed
<1>4. a \in Timers /\ b \in Timers /\ a # b /\ q.index[a] = i /\ q.index[b] = j
  BY <1>1, <1>3
<1>5. /\ h \in Seq(Entries) /\ Len(h) = n
      /\ h[i] = q.heap[j] /\ h[j] = q.heap[i]
      /\ \A k \in 1 .. n : k # i /\ k # j => h[k] = q.heap[k]
  BY <1>1
<1>6. /\ x \in [Timers -> Nat] /\ x[a] = j /\ x[b] = i
      /\ \A t \in Timers : t # a /\ t # b => x[t] = q.index[t]
  BY <1>1, <1>4
<1>7. r.heap = h /\ r.index = x
  BY <1>2
<1> HIDE DEF h, x, r, a, b, n
<1>8. r \in Queues
  BY <1>2, <1>5, <1>6 DEF Queues
<1>9. \A k \in 1 .. n : x[h[k].timer] = k
  <2> SUFFICES ASSUME NEW k \in 1 .. n
               PROVE  x[h[k].timer] = k
    OBVIOUS
  <2>1. CASE k = i
    BY <1>5, <1>6, <2>1 DEF b
  <2>2. CASE k = j
    BY <1>5, <1>6, <2>2 DEF a
  <2>3. CASE k # i /\ k # j
    <3>1. h[k] = q.heap[k] /\ q.index[q.heap[k].timer] = k /\ q.heap[k].timer \in Timers
      BY <1>1, <1>3, <1>5, <2>3
    <3>2. q.heap[k].timer # a /\ q.heap[k].timer # b
      BY <1>4, <2>3, <3>1
    <3>3. QED
      BY <1>6, <3>1, <3>2
  <2>4. QED
    BY <2>1, <2>2, <2>3
<1>10. \A t \in Timers : q.index[t] # 0 => x[t] \in 1 .. n /\ h[x[t]] = q.heap[q.index[t]]
  <2> SUFFICES ASSUME NEW t \in Timers, q.index[t] # 0
               PROVE  x[t] \in 1 .. n /\ h[x[t]] = q.heap[q.index[t]]
    OBVIOUS
  <2>1. i \in 1 .. n /\ j \in 1 .. n
    BY DEF n
  <2>2. CASE t = a
    BY <1>4, <1>5, <1>6, <2>1, <2>2
  <2>3. CASE t = b
    BY <1>4, <1>5, <1>6, <2>1, <2>3
  <2>4. CASE t # a /\ t # b
    <3>1. x[t] = q.index[t] /\ q.index[t] \in 1 .. n /\ q.heap[q.index[t]].timer = t
      BY <1>3, <1>6, <2>4
    <3>2. q.index[t] # i /\ q.index[t] # j
      BY <2>4, <3>1 DEF a, b
    <3>3. QED
      BY <1>5, <3>1, <3>2
  <2>5. QED
    BY <2>2, <2>3, <2>4
<1>11. \A t \in Timers : x[t] = 0 <=> q.index[t] = 0
  <2>1. i # 0 /\ j # 0
    OBVIOUS
  <2>2. QED
    BY <1>4, <1>6, <2>1
<1>12. Placed(r)
  BY <1>3, <1>5, <1>7, <1>9, <1>10, <1>11 DEF Placed
<1>13. SameTimers(q, r)
  BY <1>5, <1>7, <1>10, <1>11 DEF SameTimers, n
<1>14. QED
  BY <1>5, <1>7, <1>8, <1>12, <1>13 DEF n, r

-----------------------------------------------------------------------------
(* up_heap() and down_heap().                                                 *)

\* The entry at r.at may be earlier than its parent; the others are not, and its
\* children are not earlier than its parent either.
Rising(r) ==
  LET h == r.queue.heap
  IN  /\ r.at \in 1 .. Len(h)
      /\ \A k \in 2 .. Len(h) : k # r.at => h[Parent(k)].time <= h[k].time
      /\ \A k \in 2 .. Len(h) :
           Parent(k) = r.at /\ r.at > 1 => h[Parent(r.at)].time <= h[k].time

\* The entry at r.at may be later than its children; the others are not, and its
\* children are not earlier than its parent.
Sinking(r) ==
  LET h == r.queue.heap
  IN  /\ r.at \in 1 .. Len(h)
      /\ \A k \in 2 .. Len(h) : Parent(k) # r.at => h[Parent(k)].time <= h[k].time
      /\ \A k \in 2 .. Len(h) :
           Parent(k) = r.at /\ r.at > 1 => h[Parent(r.at)].time <= h[k].time

\* Parents and children.
LEMMA Parents ==
  ASSUME NEW n \in Nat, NEW k \in 2 .. n
  PROVE  /\ Parent(k) \in 1 .. n /\ Parent(k) < k
         /\ k = 2 * Parent(k) \/ k = 2 * Parent(k) + 1
  BY DEF Parent

LEMMA Children ==
  ASSUME NEW p \in Nat, p > 0
  PROVE  Parent(2 * p) = p /\ Parent(2 * p + 1) = p
  BY DEF Parent

\* A round of up_heap() that swaps.
Rises(r) ==
  r.at > 1 /\ r.queue.heap[r.at].time < r.queue.heap[Parent(r.at)].time

\* A round that swaps leaves the entry one generation higher, and the only one
\* that may be out of order.
LEMMA RiseStep ==
  ASSUME NEW r \in Places, Placed(r.queue), Rising(r), Rises(r)
  PROVE  /\ Rise(r) \in Places /\ Placed(Rise(r).queue) /\ Rising(Rise(r))
         /\ SameTimers(r.queue, Rise(r).queue)
         /\ Rise(r).at = Parent(r.at) /\ Rise(r).at < r.at
<1> DEFINE q == r.queue
           i == r.at
           p == Parent(i)
           s == SwapHeap(q, i, p)
           n == Len(q.heap)
<1>1. q \in Queues /\ i \in 1 .. n /\ i > 1 /\ n \in Nat
  BY QueueType DEF Places, Rising, Rises
<1>2. p \in 1 .. n /\ p < i /\ i \in 2 .. n /\ i # p
  BY <1>1, Parents
<1>3. Rise(r) = [queue |-> s, at |-> p]
  BY DEF Rise, Rises
<1>4. /\ s \in Queues /\ Placed(s) /\ SameTimers(q, s)
      /\ s.heap[i] = q.heap[p] /\ s.heap[p] = q.heap[i]
      /\ \A k \in 1 .. n : k # i /\ k # p => s.heap[k] = q.heap[k]
  BY <1>1, <1>2, Swapped
<1>5. Len(s.heap) = n
  BY <1>4 DEF SameTimers
<1>6. /\ \A k \in 2 .. n : k # i => q.heap[Parent(k)].time <= q.heap[k].time
      /\ \A k \in 2 .. n : Parent(k) = i => q.heap[p].time <= q.heap[k].time
      /\ q.heap[i].time < q.heap[p].time
  BY <1>1 DEF Rising, Rises
<1>7. \A k \in 1 .. n : q.heap[k].time \in Nat
  BY <1>1, QueueType
<1> HIDE DEF q, i, p, s, n
<1>8. \A k \in 2 .. n : k # p => s.heap[Parent(k)].time <= s.heap[k].time
  <2> SUFFICES ASSUME NEW k \in 2 .. n, k # p
               PROVE  s.heap[Parent(k)].time <= s.heap[k].time
    OBVIOUS
  <2>1. Parent(k) \in 1 .. n /\ Parent(k) < k /\ k \in 1 .. n
    BY <1>1, Parents
  <2>2. CASE k = i
    BY <1>4, <1>6, <1>7, <1>1, <1>2, <2>2 DEF p
  <2>3. CASE k # i /\ Parent(k) = p
    <3>1. s.heap[k] = q.heap[k] /\ q.heap[p].time <= q.heap[k].time
      BY <1>4, <1>6, <2>1, <2>3
    <3>2. QED
      BY <1>1, <1>2, <1>4, <1>6, <1>7, <2>1, <2>3, <3>1
  <2>4. CASE k # i /\ Parent(k) = i
    <3>1. s.heap[k] = q.heap[k] /\ q.heap[p].time <= q.heap[k].time
      BY <1>4, <1>6, <2>1, <2>4
    <3>2. QED
      BY <1>4, <2>4, <3>1
  <2>5. CASE k # i /\ Parent(k) # p /\ Parent(k) # i
    BY <1>4, <1>6, <2>1, <2>5
  <2>6. QED
    BY <2>2, <2>3, <2>4, <2>5
<1>9. \A k \in 2 .. n : Parent(k) = p /\ p > 1 => s.heap[Parent(p)].time <= s.heap[k].time
  <2> SUFFICES ASSUME NEW k \in 2 .. n, Parent(k) = p, p > 1
               PROVE  s.heap[Parent(p)].time <= s.heap[k].time
    OBVIOUS
  <2>1. p \in 2 .. n /\ k \in 1 .. n /\ k # p
    BY <1>1, <1>2, Parents
  <2>2. Parent(p) \in 1 .. n /\ Parent(p) < p /\ Parent(p) # i
    BY <1>1, <1>2, <2>1, Parents
  <2>3. s.heap[Parent(p)] = q.heap[Parent(p)]
    BY <1>4, <2>2
  <2>4. q.heap[Parent(p)].time <= q.heap[p].time
    BY <1>2, <1>6, <2>1
  <2>5. CASE k = i
    BY <1>4, <2>3, <2>4, <2>5
  <2>6. CASE k # i
    <3>1. s.heap[k] = q.heap[k] /\ q.heap[p].time <= q.heap[k].time
      BY <1>4, <1>6, <2>1, <2>6
    <3>2. QED
      BY <1>2, <1>7, <2>1, <2>2, <2>3, <2>4, <3>1
  <2>7. QED
    BY <2>5, <2>6
<1>10. Rise(r).queue = s /\ Rise(r).at = p
  BY <1>3
<1>11. Rising(Rise(r))
  BY <1>2, <1>5, <1>8, <1>9, <1>10 DEF Rising
<1>12. Rise(r) \in Places
  BY <1>2, <1>3, <1>4 DEF Places
<1>13. QED
  BY <1>2, <1>4, <1>10, <1>11, <1>12 DEF p, q, i

LEMMA SameTimersTransitive ==
  ASSUME NEW q, NEW r, NEW s, SameTimers(q, r), SameTimers(r, s)
  PROVE  SameTimers(q, s)
  BY DEF SameTimers

LEMMA SameTimersReflexive ==
  ASSUME NEW q
  PROVE  SameTimers(q, q)
  BY DEF SameTimers

\* up_heap() puts the heap in order and keeps the timers in it.
LEMMA Risen ==
  ASSUME NEW q \in Queues, NEW i \in Nat, Placed(q), Rising([queue |-> q, at |-> i])
  PROVE  /\ UpHeap(q, i) \in Queues /\ Placed(UpHeap(q, i)) /\ Ordered(UpHeap(q, i).heap)
         /\ SameTimers(q, UpHeap(q, i))
<1> DEFINE x == [queue |-> q, at |-> i]
           n == Len(q.heap)
           S == {r \in Places : Placed(r.queue) /\ Rising(r) /\ SameTimers(q, r.queue)}
<1>1. x \in S
  <2>1. x \in Places
    BY DEF Places
  <2>2. QED
    BY <2>1, SameTimersReflexive
<1>2. \A r \in S : Rise(r) \in S
  <2> SUFFICES ASSUME NEW r \in S
               PROVE  Rise(r) \in S
    OBVIOUS
  <2>1. CASE Rises(r)
    BY <2>1, RiseStep, SameTimersTransitive
  <2>2. CASE ~Rises(r)
    BY <2>2 DEF Rise, Rises
  <2>3. QED
    BY <2>1, <2>2
<1>3. \A r \in S : Rises(r) => Rise(r).at < r.at
  BY RiseStep
<1>4. \A r \in S : /\ r.at \in 1 .. n /\ n \in Nat
                   /\ ~Rises(r) => Rise(r) = r /\ Ordered(r.queue.heap)
  <2> SUFFICES ASSUME NEW r \in S
               PROVE  /\ r.at \in 1 .. n /\ n \in Nat
                      /\ ~Rises(r) => Rise(r) = r /\ Ordered(r.queue.heap)
    OBVIOUS
  <2>1. Len(r.queue.heap) = n /\ r.at \in 1 .. n /\ n \in Nat
    BY QueueType DEF Rising, SameTimers
  <2>2. ~Rises(r) => Rise(r) = r
    BY DEF Rise, Rises
  <2>3. ~Rises(r) => Ordered(r.queue.heap)
    <3> SUFFICES ASSUME ~Rises(r), NEW k \in 2 .. n
                 PROVE  r.queue.heap[Parent(k)].time <= r.queue.heap[k].time
      BY <2>1 DEF Ordered
    <3>1. CASE k = r.at
      <4>1. Parent(k) \in 1 .. n /\ k \in 1 .. n /\ k > 1
        BY <2>1, Parents
      <4>2. r.queue.heap[Parent(k)].time \in Nat /\ r.queue.heap[k].time \in Nat
        BY <2>1, <4>1, QueueType DEF Places
      <4>3. QED
        BY <3>1, <4>1, <4>2 DEF Rises
    <3>2. CASE k # r.at
      BY <2>1, <3>2 DEF Rising
    <3>3. QED
      BY <3>1, <3>2
  <2>4. QED
    BY <2>1, <2>2, <2>3
<1> HIDE DEF x, S
<1>5. PICK f \in [Nat -> S] : RiseRun(f, x)
  BY <1>1, <1>2, RiseRounds
<1>6. ~Rises(f[n])
  <2> DEFINE T == {k \in Nat : ~Rises(f[k]) \/ f[k].at + k <= i}
  <2>1. 0 \in T
    BY <1>5 DEF x, RiseRun
  <2>2. \A k \in Nat : k \in T => k + 1 \in T
    <3> SUFFICES ASSUME NEW k \in Nat, k \in T
                 PROVE  ~Rises(f[k + 1]) \/ f[k + 1].at + (k + 1) <= i
      OBVIOUS
    <3>1. f[k] \in S /\ f[k + 1] \in S /\ f[k + 1] = Rise(f[k])
      BY <1>5 DEF RiseRun
    <3>2. CASE ~Rises(f[k])
      BY <1>4, <3>1, <3>2
    <3>3. CASE Rises(f[k])
      <4>1. f[k].at + k <= i /\ f[k + 1].at < f[k].at
        BY <1>3, <3>1, <3>3
      <4>2. f[k].at \in Nat /\ f[k + 1].at \in Nat
        BY <1>4, <3>1
      <4>3. QED
        BY <4>1, <4>2
    <3>4. QED
      BY <3>2, <3>3
  <2> HIDE DEF T
  <2>3. n \in Nat /\ n \in T
    BY <1>1, <1>4, <2>1, <2>2, AllNumbers
  <2>4. i <= n
    BY <1>1, <1>4 DEF x
  <2>5. f[n].at \in Nat /\ f[n].at > 0
    <3>1. f[n] \in S
      BY <1>5, <2>3
    <3>2. f[n].at \in 1 .. n
      BY <1>4, <3>1
    <3>3. QED
      BY <3>2
  <2>6. QED
    BY <2>3, <2>4, <2>5 DEF T
<1>7. UpHeap(q, i) = f[n].queue /\ f[n] \in S
  <2>1. n \in Nat
    BY <1>1, <1>4
  <2>2. UpHeap(q, i) = f[n].queue
    BY <1>5, <2>1 DEF UpHeap, RiseRun, Rounds, x
  <2>3. QED
    BY <2>1, <2>2
<1>8. QED
  BY <1>4, <1>6, <1>7 DEF S, Places

\* The child of i that is not later than the other, as down_heap() finds it.
MinChild(h, i) ==
  IF 2 * i = Len(h) \/ h[2 * i].time < h[2 * i + 1].time THEN 2 * i ELSE 2 * i + 1

\* A round of down_heap() that swaps.
Sinks(r) ==
  LET h == r.queue.heap
  IN  2 * r.at <= Len(h) /\ ~(h[r.at].time < h[MinChild(h, r.at)].time)

\* Which one it finds.
LEMMA LesserChild ==
  ASSUME NEW h, NEW n \in Nat, Len(h) = n, NEW i \in 1 .. n, 2 * i <= n,
         \A k \in 1 .. n : h[k].time \in Nat
  PROVE  /\ MinChild(h, i) \in 2 .. n /\ Parent(MinChild(h, i)) = i /\ MinChild(h, i) > i
         /\ \A k \in 2 .. n : Parent(k) = i => h[MinChild(h, i)].time <= h[k].time
<1>1. Parent(2 * i) = i /\ Parent(2 * i + 1) = i
  <2>1. i \in Nat /\ i > 0
    OBVIOUS
  <2>2. QED
    BY <2>1, Children
<1>2. \A k \in 2 .. n : Parent(k) = i => k = 2 * i \/ k = 2 * i + 1
  BY Parents
<1>3. 2 * i \in 2 .. n /\ (2 * i # n => 2 * i + 1 \in 2 .. n)
  OBVIOUS
<1>4. CASE 2 * i = n \/ h[2 * i].time < h[2 * i + 1].time
  <2>1. MinChild(h, i) = 2 * i
    BY <1>4 DEF MinChild
  <2>2. \A k \in 2 .. n : Parent(k) = i => h[2 * i].time <= h[k].time
    <3> SUFFICES ASSUME NEW k \in 2 .. n, Parent(k) = i
                 PROVE  h[2 * i].time <= h[k].time
      OBVIOUS
    <3>1. h[2 * i].time \in Nat /\ h[k].time \in Nat /\ (k = 2 * i \/ k = 2 * i + 1)
      BY <1>2, <1>3
    <3>2. QED
      BY <1>4, <3>1
  <2>3. QED
    BY <1>1, <1>3, <2>1, <2>2
<1>5. CASE ~(2 * i = n \/ h[2 * i].time < h[2 * i + 1].time)
  <2>1. MinChild(h, i) = 2 * i + 1
    BY <1>5 DEF MinChild
  <2>2. \A k \in 2 .. n : Parent(k) = i => h[2 * i + 1].time <= h[k].time
    <3> SUFFICES ASSUME NEW k \in 2 .. n, Parent(k) = i
                 PROVE  h[2 * i + 1].time <= h[k].time
      OBVIOUS
    <3>1. /\ h[2 * i + 1].time \in Nat /\ h[2 * i].time \in Nat
          /\ k = 2 * i \/ k = 2 * i + 1
      BY <1>2, <1>3, <1>5
    <3>2. h[2 * i + 1].time <= h[2 * i].time
      BY <1>5, <3>1
    <3>3. CASE k = 2 * i
      BY <3>2, <3>3
    <3>4. CASE k = 2 * i + 1
      BY <3>1, <3>4
    <3>5. QED
      BY <3>1, <3>3, <3>4
  <2>3. QED
    BY <1>1, <1>3, <1>5, <2>1, <2>2
<1>6. QED
  BY <1>4, <1>5

\* A round that swaps leaves the entry one generation lower, and the only one
\* that may be out of order.
LEMMA SinkStep ==
  ASSUME NEW r \in Places, Placed(r.queue), Sinking(r), Sinks(r)
  PROVE  /\ Sink(r) \in Places /\ Placed(Sink(r).queue) /\ Sinking(Sink(r))
         /\ SameTimers(r.queue, Sink(r).queue)
         /\ Sink(r).at > r.at
<1> DEFINE q == r.queue
           i == r.at
           m == MinChild(q.heap, i)
           s == SwapHeap(q, i, m)
           n == Len(q.heap)
<1>1. q \in Queues /\ i \in 1 .. n /\ 2 * i <= n /\ n \in Nat
      /\ ~(q.heap[i].time < q.heap[m].time)
  BY QueueType DEF Places, Sinking, Sinks
<1>2. \A k \in 1 .. n : q.heap[k].time \in Nat
  BY <1>1, QueueType
<1>3. /\ m \in 2 .. n /\ Parent(m) = i /\ m > i
      /\ \A k \in 2 .. n : Parent(k) = i => q.heap[m].time <= q.heap[k].time
  BY <1>1, <1>2, LesserChild
<1>4. Sink(r) = [queue |-> s, at |-> m]
  <2>1. ~(2 * i > n)
    BY <1>1
  <2>2. QED
    BY <1>1, <2>1 DEF Sink, MinChild
<1>5. m \in 1 .. n /\ i # m
  BY <1>1, <1>3
<1>6. /\ s \in Queues /\ Placed(s) /\ SameTimers(q, s)
      /\ s.heap[i] = q.heap[m] /\ s.heap[m] = q.heap[i]
      /\ \A k \in 1 .. n : k # i /\ k # m => s.heap[k] = q.heap[k]
  BY <1>1, <1>5, Swapped
<1>7. Len(s.heap) = n
  BY <1>6 DEF SameTimers
<1>8. /\ \A k \in 2 .. n : Parent(k) # i => q.heap[Parent(k)].time <= q.heap[k].time
      /\ \A k \in 2 .. n :
           Parent(k) = i /\ i > 1 => q.heap[Parent(i)].time <= q.heap[k].time
      /\ q.heap[m].time <= q.heap[i].time
  <2>1. q.heap[m].time <= q.heap[i].time
    <3>1. ~(q.heap[i].time < q.heap[m].time)
      BY <1>1
    <3>2. q.heap[m].time \in Nat /\ q.heap[i].time \in Nat
      BY <1>1, <1>2, <1>5
    <3> HIDE DEF q, i, m
    <3>3. QED
      BY <3>1, <3>2
  <2>2. QED
    BY <2>1 DEF Sinking
<1> HIDE DEF q, i, m, s, n
<1>9. \A k \in 2 .. n : Parent(k) # m => s.heap[Parent(k)].time <= s.heap[k].time
  <2> SUFFICES ASSUME NEW k \in 2 .. n, Parent(k) # m
               PROVE  s.heap[Parent(k)].time <= s.heap[k].time
    OBVIOUS
  <2>1. Parent(k) \in 1 .. n /\ Parent(k) < k /\ k \in 1 .. n
    BY <1>1, Parents
  <2>2. CASE k = m
    BY <1>3, <1>6, <1>8, <2>2
  <2>3. CASE k = i
    <3>1. Parent(k) # i /\ i > 1
      BY <1>1, <2>1, <2>3
    <3>2. q.heap[Parent(i)].time <= q.heap[m].time
      BY <1>3, <1>8, <3>1
    <3>3. s.heap[Parent(i)] = q.heap[Parent(i)]
      BY <1>6, <2>1, <2>3, <3>1
    <3>4. QED
      BY <1>6, <2>3, <3>2, <3>3
  <2>4. CASE k # m /\ k # i /\ Parent(k) = i
    <3>1. s.heap[k] = q.heap[k] /\ q.heap[m].time <= q.heap[k].time
      BY <1>3, <1>6, <2>1, <2>4
    <3>2. QED
      BY <1>6, <2>4, <3>1
  <2>5. CASE k # m /\ k # i /\ Parent(k) # i
    BY <1>6, <1>8, <2>1, <2>5
  <2>6. QED
    BY <2>2, <2>3, <2>4, <2>5
<1>10. \A k \in 2 .. n : Parent(k) = m => s.heap[Parent(m)].time <= s.heap[k].time
  <2> SUFFICES ASSUME NEW k \in 2 .. n, Parent(k) = m
               PROVE  s.heap[i].time <= s.heap[k].time
    BY <1>3
  <2>1. k \in 1 .. n /\ k > m /\ Parent(k) # i
    BY <1>1, <1>5, Parents
  <2>2. s.heap[k] = q.heap[k] /\ q.heap[m].time <= q.heap[k].time
    BY <1>3, <1>1, <1>6, <1>8, <2>1
  <2>3. QED
    BY <1>6, <2>2
<1>11. Sink(r).queue = s /\ Sink(r).at = m
  BY <1>4
<1>12. Sinking(Sink(r))
  BY <1>5, <1>7, <1>9, <1>10, <1>11 DEF Sinking
<1>13. Sink(r) \in Places
  <2>1. m \in Nat
    BY <1>5
  <2>2. QED
    BY <1>4, <1>6, <2>1 DEF Places
<1>14. QED
  BY <1>3, <1>6, <1>11, <1>12, <1>13 DEF q, i

\* down_heap() puts the heap in order and keeps the timers in it.
LEMMA Sunk ==
  ASSUME NEW q \in Queues, NEW i \in Nat, Placed(q), Sinking([queue |-> q, at |-> i])
  PROVE  /\ DownHeap(q, i) \in Queues /\ Placed(DownHeap(q, i))
         /\ Ordered(DownHeap(q, i).heap) /\ SameTimers(q, DownHeap(q, i))
<1> DEFINE x == [queue |-> q, at |-> i]
           n == Len(q.heap)
           S == {r \in Places : Placed(r.queue) /\ Sinking(r) /\ SameTimers(q, r.queue)}
<1>1. x \in S
  <2>1. x \in Places
    BY DEF Places
  <2>2. QED
    BY <2>1, SameTimersReflexive
<1>2. \A r \in S : r.at \in 1 .. n /\ n \in Nat /\ Len(r.queue.heap) = n
                   /\ \A k \in 1 .. n : r.queue.heap[k].time \in Nat
  <2> SUFFICES ASSUME NEW r \in S
               PROVE  r.at \in 1 .. n /\ n \in Nat /\ Len(r.queue.heap) = n
                      /\ \A k \in 1 .. n : r.queue.heap[k].time \in Nat
    OBVIOUS
  <2>1. Len(r.queue.heap) = n /\ r.at \in 1 .. n /\ n \in Nat
    BY QueueType DEF Sinking, SameTimers
  <2>2. r.queue \in Queues
    BY DEF Places
  <2>3. QED
    BY <2>1, <2>2, QueueType
<1>3. \A r \in S : ~Sinks(r) => Sink(r) = r
  <2> SUFFICES ASSUME NEW r \in S, ~Sinks(r)
               PROVE  Sink(r) = r
    OBVIOUS
  <2>1. r.at \in Nat /\ n \in Nat /\ Len(r.queue.heap) = n
    BY <1>2
  <2>2. \/ 2 * r.at > n
        \/ r.queue.heap[r.at].time < r.queue.heap[MinChild(r.queue.heap, r.at)].time
    BY <2>1 DEF Sinks
  <2>3. QED
    BY <2>1, <2>2 DEF Sink, MinChild
<1>4. \A r \in S : Sink(r) \in S
  <2> SUFFICES ASSUME NEW r \in S
               PROVE  Sink(r) \in S
    OBVIOUS
  <2>1. CASE Sinks(r)
    BY <2>1, SinkStep, SameTimersTransitive
  <2>2. CASE ~Sinks(r)
    BY <1>3, <2>2
  <2>3. QED
    BY <2>1, <2>2
<1>5. \A r \in S : Sinks(r) => Sink(r).at > r.at
  BY SinkStep
<1>6. \A r \in S : ~Sinks(r) => Ordered(r.queue.heap)
  <2> SUFFICES ASSUME NEW r \in S, ~Sinks(r), NEW k \in 2 .. n
               PROVE  r.queue.heap[Parent(k)].time <= r.queue.heap[k].time
    BY <1>2 DEF Ordered
  <2> DEFINE h == r.queue.heap
             p == r.at
             m == MinChild(h, p)
  <2>1. Len(h) = n /\ p \in 1 .. n /\ n \in Nat /\ \A j \in 1 .. n : h[j].time \in Nat
    BY <1>2
  <2>2. CASE Parent(k) = p
    <3>1. 2 * p <= n /\ k \in 1 .. n
      <4>1. k = 2 * p \/ k = 2 * p + 1
        BY <2>1, <2>2, Parents
      <4>2. p \in Nat /\ k \in Nat /\ k <= n /\ k >= 1
        BY <2>1
      <4> HIDE DEF p, h, m
      <4>3. QED
        BY <2>1, <4>1, <4>2
    <3>2. m \in 2 .. n /\ h[m].time <= h[k].time
      BY <2>1, <2>2, <3>1, LesserChild
    <3>3. h[p].time < h[m].time
      BY <2>1, <3>1 DEF Sinks
    <3>4. h[p].time \in Nat /\ h[m].time \in Nat /\ h[k].time \in Nat
      <4>1. p \in 1 .. n /\ m \in 1 .. n /\ k \in 1 .. n
        BY <2>1, <3>1, <3>2
      <4> HIDE DEF h, p, m
      <4>2. QED
        BY <2>1, <4>1
    <3> HIDE DEF h, p, m
    <3>5. h[p].time <= h[k].time
      BY <3>2, <3>3, <3>4
    <3>6. QED
      BY <2>2, <3>5 DEF h
  <2>3. CASE Parent(k) # p
    BY <2>1, <2>3 DEF Sinking
  <2>4. QED
    BY <2>2, <2>3
<1> HIDE DEF x, S
<1>7. PICK f \in [Nat -> S] : SinkRun(f, x)
  BY <1>1, <1>4, SinkRounds
<1>8. ~Sinks(f[n])
  <2> DEFINE T == {k \in Nat : ~Sinks(f[k]) \/ f[k].at > k}
  <2>1. 0 \in T
    <3>1. x.at > 0
      BY <1>1, <1>2
    <3>2. QED
      BY <1>7, <3>1 DEF SinkRun
  <2>2. \A k \in Nat : k \in T => k + 1 \in T
    <3> SUFFICES ASSUME NEW k \in Nat, k \in T
                 PROVE  ~Sinks(f[k + 1]) \/ f[k + 1].at > k + 1
      OBVIOUS
    <3>1. f[k] \in S /\ f[k + 1] \in S /\ f[k + 1] = Sink(f[k])
      BY <1>7 DEF SinkRun
    <3>2. CASE ~Sinks(f[k])
      BY <1>3, <3>1, <3>2
    <3>3. CASE Sinks(f[k])
      <4>1. f[k].at > k /\ f[k + 1].at > f[k].at
        BY <1>5, <3>1, <3>3
      <4>2. f[k].at \in 1 .. n /\ f[k + 1].at \in 1 .. n
        BY <1>2, <3>1
      <4>3. QED
        BY <4>1, <4>2
    <3>4. QED
      BY <3>2, <3>3
  <2> HIDE DEF T
  <2>3. n \in Nat /\ n \in T
    BY <1>1, <1>2, <2>1, <2>2, AllNumbers
  <2>4. f[n].at <= n /\ f[n].at \in Nat
    <3>1. f[n] \in S
      BY <1>7, <2>3
    <3>2. f[n].at \in 1 .. n
      BY <1>2, <3>1
    <3>3. QED
      BY <2>3, <3>2
  <2>5. QED
    BY <2>3, <2>4 DEF T
<1>9. DownHeap(q, i) = f[n].queue /\ f[n] \in S
  <2>1. n \in Nat
    BY <1>1, <1>2
  <2>2. DownHeap(q, i) = f[n].queue
    BY <1>7, <2>1 DEF DownHeap, SinkRun, Rounds, x
  <2>3. QED
    BY <2>1, <2>2
<1>10. QED
  BY <1>6, <1>8, <1>9 DEF S, Places

-----------------------------------------------------------------------------
(* Timers come and go.                                                        *)

\* The other timers are in both, with the same times.
OthersStay(q, r, t) ==
  \A u \in Timers \ {t} :
    /\ (r.index[u] = 0) <=> (q.index[u] = 0)
    /\ q.index[u] # 0 => r.heap[r.index[u]] = q.heap[q.index[u]]

\* The last entry is dropped.
LEMMA Popped ==
  ASSUME NEW q \in Queues, Placed(q), NEW t \in Timers,
         q.index[t] # 0, q.index[t] = Len(q.heap)
  PROVE  LET r == PopBack(q, t)
             n == Len(q.heap)
         IN  /\ r \in Queues /\ Placed(r) /\ OthersStay(q, r, t)
             /\ r.index[t] = 0 /\ Len(r.heap) = n - 1
             /\ \A k \in 1 .. n - 1 : r.heap[k] = q.heap[k]
<1> DEFINE n == Len(q.heap)
           h == SubSeq(q.heap, 1, n - 1)
           x == [q.index EXCEPT ![t] = 0]
           r == PopBack(q, t)
<1>1. /\ q.heap \in Seq(Entries) /\ q.index \in [Timers -> Nat] /\ n \in Nat
      /\ \A k \in 1 .. n : q.heap[k] \in Entries /\ q.heap[k].timer \in Timers
  BY QueueType
<1>2. r = [heap |-> h, index |-> x]
  BY DEF PopBack
<1>3. /\ \A k \in 1 .. n : q.index[q.heap[k].timer] = k
      /\ \A u \in Timers : q.index[u] # 0 =>
           q.index[u] \in 1 .. n /\ q.heap[q.index[u]].timer = u
  BY DEF Placed
<1>4. q.index[t] = n /\ n > 0 /\ q.heap[n].timer = t
  BY <1>1, <1>3
<1>5. h \in Seq(Entries) /\ Len(h) = n - 1 /\ \A k \in 1 .. n - 1 : h[k] = q.heap[k]
  BY <1>1, <1>4
<1>6. x \in [Timers -> Nat] /\ x[t] = 0 /\ \A u \in Timers : u # t => x[u] = q.index[u]
  BY <1>1
<1>7. r.heap = h /\ r.index = x
  BY <1>2
<1> HIDE DEF h, x, r, n
<1>8. r \in Queues
  BY <1>2, <1>5, <1>6 DEF Queues
<1>9. \A k \in 1 .. n - 1 : x[h[k].timer] = k
  <2> SUFFICES ASSUME NEW k \in 1 .. n - 1
               PROVE  x[h[k].timer] = k
    OBVIOUS
  <2>1. k \in 1 .. n /\ k # n
    BY <1>1
  <2>2. q.heap[k].timer \in Timers /\ q.index[q.heap[k].timer] = k
    BY <1>1, <1>3, <2>1
  <2>3. q.heap[k].timer # t
    BY <1>4, <2>1, <2>2
  <2>4. QED
    BY <1>5, <1>6, <2>2, <2>3
<1>10. \A u \in Timers : u # t /\ q.index[u] # 0 =>
         q.index[u] \in 1 .. n - 1 /\ x[u] = q.index[u] /\ h[x[u]] = q.heap[q.index[u]]
  <2> SUFFICES ASSUME NEW u \in Timers, u # t, q.index[u] # 0
               PROVE  q.index[u] \in 1 .. n - 1 /\ x[u] = q.index[u]
                      /\ h[x[u]] = q.heap[q.index[u]]
    OBVIOUS
  <2>1. q.index[u] \in 1 .. n /\ q.heap[q.index[u]].timer = u
    BY <1>3
  <2>2. q.index[u] # n
    BY <1>4, <2>1
  <2>3. q.index[u] \in 1 .. n - 1
    BY <1>1, <2>1, <2>2
  <2>4. QED
    BY <1>5, <1>6, <2>3
<1>11. Placed(r)
  <2>1. \A u \in Timers : x[u] # 0 => x[u] \in 1 .. n - 1 /\ h[x[u]].timer = u
    BY <1>3, <1>6, <1>10
  <2>2. QED
    BY <1>5, <1>7, <1>9, <2>1 DEF Placed
<1>12. OthersStay(q, r, t)
  BY <1>6, <1>7, <1>10 DEF OthersStay
<1>13. QED
  BY <1>5, <1>6, <1>7, <1>8, <1>11, <1>12 DEF n, r

\* What remove_timer() does.
LEMMA Removed ==
  ASSUME NEW q \in Queues, Placed(q), Ordered(q.heap), NEW t \in Timers, q.index[t] # 0
  PROVE  LET r == RemoveTimer(q, t)
         IN  /\ r \in Queues /\ Placed(r) /\ Ordered(r.heap) /\ OthersStay(q, r, t)
             /\ r.index[t] = 0 /\ Len(r.heap) = Len(q.heap) - 1
<1> DEFINE n == Len(q.heap)
           i == q.index[t]
           s == SwapHeap(q, i, n)
           p == PopBack(s, t)
<1>1. n \in Nat /\ i \in 1 .. n /\ q.heap[i].timer = t
      /\ \A k \in 1 .. n : q.heap[k].time \in Nat
  BY QueueType DEF Placed
<1>2. CASE i = n
  <2>1. RemoveTimer(q, t) = PopBack(q, t)
    BY <1>2 DEF RemoveTimer
  <2>2. /\ PopBack(q, t) \in Queues /\ Placed(PopBack(q, t))
        /\ OthersStay(q, PopBack(q, t), t)
        /\ PopBack(q, t).index[t] = 0 /\ Len(PopBack(q, t).heap) = n - 1
        /\ \A k \in 1 .. n - 1 : PopBack(q, t).heap[k] = q.heap[k]
    BY <1>2, Popped
  <2>3. Ordered(PopBack(q, t).heap)
    <3> SUFFICES ASSUME NEW k \in 2 .. n - 1
                 PROVE  PopBack(q, t).heap[Parent(k)].time <= PopBack(q, t).heap[k].time
      BY <2>2 DEF Ordered
    <3>1. Parent(k) \in 1 .. n - 1 /\ k \in 1 .. n - 1 /\ k \in 2 .. n
      BY <1>1, Parents
    <3>2. QED
      BY <2>2, <3>1 DEF Ordered
  <2>4. QED
    BY <2>1, <2>2, <2>3
<1>3. CASE i # n
  <2>1. n \in 1 .. n /\ i \in 1 .. n - 1 /\ n - 1 \in Nat
    BY <1>1, <1>3
  <2>2. /\ s \in Queues /\ Placed(s) /\ SameTimers(q, s)
        /\ s.heap[i] = q.heap[n] /\ s.heap[n] = q.heap[i]
        /\ \A k \in 1 .. n : k # i /\ k # n => s.heap[k] = q.heap[k]
    BY <1>1, <1>3, <2>1, Swapped
  <2>3. Len(s.heap) = n /\ s.index[t] = n
    <3>1. Len(s.heap) = n
      BY <2>2 DEF SameTimers
    <3>2. s.index[s.heap[n].timer] = n
      BY <2>1, <2>2, <3>1 DEF Placed
    <3>3. QED
      BY <1>1, <2>2, <3>1, <3>2
  <2>4. /\ p \in Queues /\ Placed(p) /\ OthersStay(s, p, t)
        /\ p.index[t] = 0 /\ Len(p.heap) = n - 1
        /\ \A k \in 1 .. n - 1 : p.heap[k] = s.heap[k]
    <3>1. s.index[t] # 0 /\ s.index[t] = Len(s.heap)
      BY <1>1, <2>3
    <3> HIDE DEF s
    <3>2. QED
      BY <2>2, <2>3, <3>1, Popped
  <2>5. OthersStay(q, p, t)
    BY <2>2, <2>4 DEF OthersStay, SameTimers
  <2>6. \A k \in 1 .. n - 1 : /\ k # i => p.heap[k] = q.heap[k]
                              /\ p.heap[k].time \in Nat
    <3> SUFFICES ASSUME NEW k \in 1 .. n - 1
                 PROVE  (k # i => p.heap[k] = q.heap[k]) /\ p.heap[k].time \in Nat
      OBVIOUS
    <3>1. k \in 1 .. n /\ k # n
      BY <1>1
    <3>2. p.heap[k] = s.heap[k] /\ (k # i => s.heap[k] = q.heap[k])
      BY <2>2, <2>4, <3>1
    <3>3. p.heap[k].time \in Nat
      BY <2>4, QueueType
    <3>4. QED
      BY <3>2, <3>3
  <2> HIDE DEF s, p, n, i
  <2>7. \A k \in 2 .. n - 1 :
          /\ Parent(k) \in 1 .. n - 1 /\ k \in 1 .. n - 1 /\ k # Parent(k)
          /\ q.heap[Parent(k)].time <= q.heap[k].time
    <3> SUFFICES ASSUME NEW k \in 2 .. n - 1
                 PROVE  /\ Parent(k) \in 1 .. n - 1 /\ k \in 1 .. n - 1 /\ k # Parent(k)
                        /\ q.heap[Parent(k)].time <= q.heap[k].time
      OBVIOUS
    <3>1. Parent(k) \in 1 .. n - 1 /\ k \in 1 .. n - 1 /\ k # Parent(k)
      BY <2>1, Parents
    <3>2. k \in 2 .. n
      BY <1>1
    <3>3. QED
      BY <3>1, <3>2 DEF Ordered, n
  <2>8. \A k \in 2 .. n - 1 : k # i /\ Parent(k) # i => p.heap[Parent(k)].time <= p.heap[k].time
    BY <2>6, <2>7
  <2>9. \A k \in 2 .. n - 1 : Parent(k) = i /\ i > 1 => p.heap[Parent(i)].time <= p.heap[k].time
    <3> SUFFICES ASSUME NEW k \in 2 .. n - 1, Parent(k) = i, i > 1
                 PROVE  p.heap[Parent(i)].time <= p.heap[k].time
      OBVIOUS
    <3>1. i \in 2 .. n - 1 /\ i \in 1 .. n
      BY <1>1, <2>1
    <3>2. /\ Parent(i) \in 1 .. n - 1 /\ Parent(i) # i /\ k \in 1 .. n - 1 /\ k # i
          /\ q.heap[Parent(i)].time <= q.heap[i].time
          /\ q.heap[i].time <= q.heap[k].time
      BY <2>7, <3>1
    <3>3. p.heap[Parent(i)] = q.heap[Parent(i)] /\ p.heap[k] = q.heap[k]
      BY <2>6, <3>2
    <3>4. q.heap[Parent(i)].time \in Nat /\ q.heap[i].time \in Nat /\ q.heap[k].time \in Nat
      BY <1>1, <2>1, <3>2
    <3>5. q.heap[Parent(i)].time <= q.heap[k].time
      BY <3>2, <3>4
    <3>6. QED
      BY <3>3, <3>5
  <2> DEFINE rises == i > 1 /\ p.heap[i].time < p.heap[Parent(i)].time
             x == [queue |-> p, at |-> i]
  <2>10. x.queue = p /\ x.at = i
    OBVIOUS
  <2>11. CASE rises
    <3>1. \A k \in 2 .. n - 1 : k # i => p.heap[Parent(k)].time <= p.heap[k].time
      <4> SUFFICES ASSUME NEW k \in 2 .. n - 1, k # i
                   PROVE  p.heap[Parent(k)].time <= p.heap[k].time
        OBVIOUS
      <4>1. CASE Parent(k) # i
        BY <2>8, <4>1
      <4>2. CASE Parent(k) = i
        <5>1. p.heap[Parent(i)].time <= p.heap[k].time /\ p.heap[i].time < p.heap[Parent(i)].time
          BY <2>9, <2>11, <4>2
        <5>2. k \in 1 .. n - 1 /\ i \in 1 .. n - 1 /\ Parent(i) \in 1 .. n - 1
          <6>1. i \in 2 .. n - 1
            BY <2>1, <2>11
          <6>2. QED
            BY <2>7, <6>1
        <5>3. p.heap[Parent(i)].time \in Nat /\ p.heap[k].time \in Nat /\ p.heap[i].time \in Nat
          BY <2>6, <5>2
        <5>4. p.heap[i].time <= p.heap[k].time
          BY <5>1, <5>3
        <5>5. QED
          BY <4>2, <5>4
      <4>3. QED
        BY <4>1, <4>2
    <3>2. Rising(x)
      BY <2>1, <2>4, <2>9, <2>10, <3>1 DEF Rising
    <3>3. /\ UpHeap(p, i) \in Queues /\ Placed(UpHeap(p, i))
          /\ Ordered(UpHeap(p, i).heap) /\ SameTimers(p, UpHeap(p, i))
      <4>1. i \in Nat
        BY <2>1
      <4>2. QED
        BY <2>4, <3>2, <4>1, Risen
    <3>4. RemoveTimer(q, t) = UpHeap(p, i)
      BY <1>3, <2>11 DEF RemoveTimer, p, s, n, i
    <3>5. QED
      BY <2>4, <2>5, <3>3, <3>4 DEF SameTimers, OthersStay, n
  <2>12. CASE ~rises
    <3>1. \A k \in 2 .. n - 1 : Parent(k) # i => p.heap[Parent(k)].time <= p.heap[k].time
      <4> SUFFICES ASSUME NEW k \in 2 .. n - 1, Parent(k) # i
                   PROVE  p.heap[Parent(k)].time <= p.heap[k].time
        OBVIOUS
      <4>1. CASE k # i
        BY <2>8, <4>1
      <4>2. CASE k = i
        <5>1. ~(p.heap[k].time < p.heap[Parent(k)].time)
          BY <2>12, <4>2
        <5>2. p.heap[k].time \in Nat /\ p.heap[Parent(k)].time \in Nat
          BY <2>6, <2>7
        <5>3. QED
          BY <5>1, <5>2
      <4>3. QED
        BY <4>1, <4>2
    <3>2. Sinking(x)
      BY <2>1, <2>4, <2>9, <2>10, <3>1 DEF Sinking
    <3>3. /\ DownHeap(p, i) \in Queues /\ Placed(DownHeap(p, i))
          /\ Ordered(DownHeap(p, i).heap) /\ SameTimers(p, DownHeap(p, i))
      <4>1. i \in Nat
        BY <2>1
      <4>2. QED
        BY <2>4, <3>2, <4>1, Sunk
    <3>4. RemoveTimer(q, t) = DownHeap(p, i)
      BY <1>3, <2>12 DEF RemoveTimer, p, s, n, i
    <3>5. QED
      BY <2>4, <2>5, <3>3, <3>4 DEF SameTimers, OthersStay, n
  <2>13. QED
    BY <2>11, <2>12
<1>4. QED
  BY <1>2, <1>3

\* enqueue_timer() adds one timer.
LEMMA Inserted ==
  ASSUME NEW q \in Queues, Placed(q), Ordered(q.heap), NEW t \in Timers, q.index[t] = 0,
         NEW time \in Nat
  PROVE  LET r == Insert(q, t, time)
         IN  /\ r \in Queues /\ Placed(r) /\ Ordered(r.heap) /\ OthersStay(q, r, t)
             /\ r.index[t] # 0 /\ Len(r.heap) = Len(q.heap) + 1
             /\ r.heap[r.index[t]] = [time |-> time, timer |-> t]
<1> DEFINE n == Len(q.heap)
           e == [time |-> time, timer |-> t]
           h == Append(q.heap, e)
           x == [q.index EXCEPT ![t] = n + 1]
           p == [heap |-> h, index |-> x]
           r == Insert(q, t, time)
<1>1. /\ q.heap \in Seq(Entries) /\ q.index \in [Timers -> Nat] /\ n \in Nat
      /\ \A k \in 1 .. n : q.heap[k] \in Entries /\ q.heap[k].timer \in Timers
      /\ e \in Entries /\ e.timer = t
  BY QueueType DEF Entries
<1>2. /\ \A k \in 1 .. n : q.index[q.heap[k].timer] = k
      /\ \A u \in Timers : q.index[u] # 0 =>
           q.index[u] \in 1 .. n /\ q.heap[q.index[u]].timer = u
  BY DEF Placed
<1>3. r = UpHeap(p, n + 1)
  BY DEF Insert
<1> HIDE DEF e
<1>4. /\ h \in Seq(Entries) /\ Len(h) = n + 1 /\ h[n + 1] = e
      /\ \A k \in 1 .. n : h[k] = q.heap[k]
  BY <1>1
<1>5. x \in [Timers -> Nat] /\ x[t] = n + 1 /\ \A u \in Timers : u # t => x[u] = q.index[u]
  BY <1>1
<1>6. p.heap = h /\ p.index = x
  OBVIOUS
<1>7. p \in Queues
  BY <1>4, <1>5 DEF Queues
<1> HIDE DEF n, h, x, p, r
<1>8. Placed(p)
  <2>1. \A k \in 1 .. n + 1 : x[h[k].timer] = k
    <3> SUFFICES ASSUME NEW k \in 1 .. n + 1
                 PROVE  x[h[k].timer] = k
      OBVIOUS
    <3>1. CASE k = n + 1
      BY <1>1, <1>4, <1>5, <3>1
    <3>2. CASE k # n + 1
      <4>1. k \in 1 .. n
        BY <1>1, <3>2
      <4>2. h[k] = q.heap[k] /\ q.heap[k].timer \in Timers /\ q.index[q.heap[k].timer] = k
        BY <1>1, <1>2, <1>4, <4>1
      <4>3. q.heap[k].timer # t
        BY <4>1, <4>2
      <4>4. QED
        BY <1>5, <4>2, <4>3
    <3>3. QED
      BY <3>1, <3>2
  <2>2. \A u \in Timers : x[u] # 0 => x[u] \in 1 .. n + 1 /\ h[x[u]].timer = u
    <3> SUFFICES ASSUME NEW u \in Timers, x[u] # 0
                 PROVE  x[u] \in 1 .. n + 1 /\ h[x[u]].timer = u
      OBVIOUS
    <3>1. CASE u = t
      BY <1>1, <1>4, <1>5, <3>1
    <3>2. CASE u # t
      <4>1. x[u] = q.index[u] /\ q.index[u] \in 1 .. n /\ q.heap[q.index[u]].timer = u
        BY <1>2, <1>5, <3>2
      <4>2. h[x[u]] = q.heap[q.index[u]]
        BY <1>4, <4>1
      <4>3. QED
        BY <1>1, <4>1, <4>2
    <3>3. QED
      BY <3>1, <3>2
  <2>3. QED
    BY <1>4, <1>6, <2>1, <2>2 DEF Placed
<1>9. OthersStay(q, p, t)
  <2> SUFFICES ASSUME NEW u \in Timers \ {t}
               PROVE  /\ (p.index[u] = 0) <=> (q.index[u] = 0)
                      /\ q.index[u] # 0 => p.heap[p.index[u]] = q.heap[q.index[u]]
    BY DEF OthersStay
  <2>1. p.index[u] = q.index[u] /\ (q.index[u] # 0 => q.index[u] \in 1 .. n)
    BY <1>2, <1>5, <1>6
  <2>2. QED
    BY <1>4, <1>6, <2>1
<1>10. Rising([queue |-> p, at |-> n + 1])
  <2> DEFINE y == [queue |-> p, at |-> n + 1]
  <2>1. y.queue = p /\ y.at = n + 1
    OBVIOUS
  <2>2. \A k \in 2 .. n + 1 : /\ Parent(k) \in 1 .. n /\ Parent(k) # n + 1
                              /\ k # n + 1 => k \in 2 .. n
    <3> SUFFICES ASSUME NEW k \in 2 .. n + 1
                 PROVE  /\ Parent(k) \in 1 .. n /\ Parent(k) # n + 1
                        /\ k # n + 1 => k \in 2 .. n
      OBVIOUS
    <3>1. Parent(k) \in 1 .. n + 1 /\ Parent(k) < k
      BY <1>1, Parents
    <3>2. QED
      BY <1>1, <3>1
  <2>3. \A k \in 2 .. n + 1 : k # n + 1 => h[Parent(k)].time <= h[k].time
    <3> SUFFICES ASSUME NEW k \in 2 .. n + 1, k # n + 1
                 PROVE  h[Parent(k)].time <= h[k].time
      OBVIOUS
    <3>1. k \in 2 .. n /\ k \in 1 .. n /\ Parent(k) \in 1 .. n
      BY <1>1, <2>2
    <3>2. q.heap[Parent(k)].time <= q.heap[k].time
      BY <3>1 DEF Ordered, n
    <3>3. QED
      BY <1>4, <3>1, <3>2
  <2>4. n + 1 \in 1 .. n + 1
    BY <1>1
  <2> HIDE DEF y
  <2>5. Rising(y)
    BY <1>4, <1>6, <2>1, <2>2, <2>3, <2>4 DEF Rising
  <2>6. QED
    BY <2>5 DEF y
<1>11. r \in Queues /\ Placed(r) /\ Ordered(r.heap) /\ SameTimers(p, r)
  <2>1. n + 1 \in Nat
    BY <1>1
  <2>2. QED
    BY <1>3, <1>7, <1>8, <1>10, <2>1, Risen
<1>12. p.index[t] # 0 /\ p.heap[p.index[t]] = e /\ Len(p.heap) = n + 1
  BY <1>1, <1>4, <1>5, <1>6
<1>13. OthersStay(q, r, t)
  BY <1>9, <1>11 DEF OthersStay, SameTimers
<1>14. r.index[t] # 0 /\ r.heap[r.index[t]] = e /\ Len(r.heap) = n + 1
  BY <1>11, <1>12 DEF SameTimers
<1>15. QED
  BY <1>11, <1>13, <1>14 DEF r, e, n

\* No timer is earlier than the front of the heap.
LEMMA FrontIsFirst ==
  ASSUME NEW q \in Queues, Ordered(q.heap), NEW k \in 1 .. Len(q.heap)
  PROVE  q.heap[1].time <= q.heap[k].time
<1> DEFINE n == Len(q.heap)
           T == {m \in Nat : \A j \in 1 .. n : j <= m => q.heap[1].time <= q.heap[j].time}
<1>1. n \in Nat /\ \A j \in 1 .. n : q.heap[j].time \in Nat
  BY QueueType
<1>2. 0 \in T
  OBVIOUS
<1>3. \A m \in Nat : m \in T => m + 1 \in T
  <2> SUFFICES ASSUME NEW m \in Nat, m \in T, NEW j \in 1 .. n, j <= m + 1
               PROVE  q.heap[1].time <= q.heap[j].time
    OBVIOUS
  <2>1. 1 \in 1 .. n
    BY <1>1
  <2>2. CASE j = 1
    BY <1>1, <2>1, <2>2
  <2>3. CASE j # 1
    <3>1. j \in 2 .. n
      BY <1>1, <2>3
    <3>2. Parent(j) \in 1 .. n /\ Parent(j) < j /\ q.heap[Parent(j)].time <= q.heap[j].time
      BY <1>1, <3>1, Parents DEF Ordered
    <3>3. Parent(j) <= m
      BY <3>2
    <3>4. q.heap[1].time <= q.heap[Parent(j)].time
      BY <3>2, <3>3
    <3>5. q.heap[1].time \in Nat /\ q.heap[Parent(j)].time \in Nat /\ q.heap[j].time \in Nat
      BY <1>1, <2>1, <3>2
    <3>6. QED
      BY <3>2, <3>4, <3>5
  <2>4. QED
    BY <2>2, <2>3
<1> HIDE DEF T
<1>4. k \in T /\ k \in Nat
  BY <1>2, <1>3, AllNumbers
<1>5. QED
  BY <1>4 DEF T

\* What is left of q when some of the timers that are due have been taken.
Left(q, r) ==
  /\ r \in Queues /\ Placed(r) /\ Ordered(r.heap)
  /\ \A t \in Timers :
       \/ r.index[t] # 0 /\ q.index[t] # 0 /\ r.heap[r.index[t]] = q.heap[q.index[t]]
       \/ r.index[t] = 0 /\ (q.index[t] # 0 => q.heap[q.index[t]].time <= now)

\* A round of get_ready_timers() that takes a timer.
LEMMA TakeStep ==
  ASSUME NEW q, NEW r, Left(q, r), r.heap # <<>>, r.heap[1].time <= now
  PROVE  Left(q, TakeFront(r)) /\ Len(TakeFront(r).heap) = Len(r.heap) - 1
<1> DEFINE t == r.heap[1].timer
           s == RemoveTimer(r, t)
<1>1. r \in Queues /\ Placed(r) /\ Ordered(r.heap)
  BY DEF Left
<1>2. Len(r.heap) \in Nat /\ 1 \in 1 .. Len(r.heap)
  <2>1. r.heap \in Seq(Entries) /\ Len(r.heap) \in Nat
    BY <1>1, QueueType
  <2>2. QED
    BY <2>1
<1>3. t \in Timers /\ r.index[t] = 1
  BY <1>1, <1>2, QueueType DEF Placed
<1>4. TakeFront(r) = s
  BY DEF TakeFront
<1>5. /\ s \in Queues /\ Placed(s) /\ Ordered(s.heap) /\ OthersStay(r, s, t)
      /\ s.index[t] = 0 /\ Len(s.heap) = Len(r.heap) - 1
  BY <1>1, <1>3, Removed
<1> HIDE DEF s
<1>6. \A u \in Timers :
        \/ s.index[u] # 0 /\ q.index[u] # 0 /\ s.heap[s.index[u]] = q.heap[q.index[u]]
        \/ s.index[u] = 0 /\ (q.index[u] # 0 => q.heap[q.index[u]].time <= now)
  <2> SUFFICES ASSUME NEW u \in Timers
               PROVE  \/ /\ s.index[u] # 0 /\ q.index[u] # 0
                         /\ s.heap[s.index[u]] = q.heap[q.index[u]]
                      \/ s.index[u] = 0 /\ (q.index[u] # 0 => q.heap[q.index[u]].time <= now)
    OBVIOUS
  <2>1. \/ r.index[u] # 0 /\ q.index[u] # 0 /\ r.heap[r.index[u]] = q.heap[q.index[u]]
        \/ r.index[u] = 0 /\ (q.index[u] # 0 => q.heap[q.index[u]].time <= now)
    BY DEF Left
  <2>2. CASE u = t
    BY <1>3, <1>5, <2>1, <2>2
  <2>3. CASE u # t
    BY <1>5, <2>1, <2>3 DEF OthersStay
  <2>4. QED
    BY <2>2, <2>3
<1>7. QED
  BY <1>4, <1>5, <1>6 DEF Left

\* get_ready_timers() takes the timers that are due and no other.
LEMMA ReadyTaken ==
  ASSUME NEW q \in Queues, Placed(q), Ordered(q.heap), now \in Nat
  PROVE  /\ Left(q, TakeReady(q))
         /\ \A t \in Timers : TakeReady(q).index[t] # 0 => q.heap[q.index[t]].time > now
<1> DEFINE n == Len(q.heap)
           S == {r \in Queues : Left(q, r)}
           takes(r) == r.heap # <<>> /\ r.heap[1].time <= now
<1>1. q \in S
  BY DEF Left
<1>2. \A r \in S : /\ ~takes(r) => TakeFront(r) = r
                   /\ takes(r) => /\ TakeFront(r) \in S
                                  /\ Len(TakeFront(r).heap) = Len(r.heap) - 1
  BY TakeStep DEF TakeFront, Left
<1>3. \A r \in S : TakeFront(r) \in S
  BY <1>2
<1>4. \A r \in S : Len(r.heap) \in Nat /\ (Len(r.heap) = 0 => r.heap = <<>>)
                   /\ (takes(r) => Len(r.heap) > 0)
  <2> SUFFICES ASSUME NEW r \in S
               PROVE  Len(r.heap) \in Nat /\ (Len(r.heap) = 0 => r.heap = <<>>)
                      /\ (takes(r) => Len(r.heap) > 0)
    OBVIOUS
  <2>1. r.heap \in Seq(Entries)
    BY QueueType
  <2>2. QED
    BY <2>1
<1> HIDE DEF S, takes, n
<1>5. PICK f \in [Nat -> S] : TakeRun(f, q)
  BY <1>1, <1>3, TakeRounds
<1>6. n \in Nat
  BY <1>1, <1>4 DEF n
<1>7. ~takes(f[n]) /\ f[n] \in S
  <2> DEFINE T == {k \in Nat : ~takes(f[k]) \/ Len(f[k].heap) + k <= n}
  <2>1. 0 \in T
    BY <1>5, <1>6 DEF TakeRun, n
  <2>2. \A k \in Nat : k \in T => k + 1 \in T
    <3>0. \A k \in Nat : k + 1 \in Nat
      OBVIOUS
    <3> SUFFICES ASSUME NEW k \in Nat, ~takes(f[k]) \/ Len(f[k].heap) + k <= n
                 PROVE  ~takes(f[k + 1]) \/ Len(f[k + 1].heap) + (k + 1) <= n
      BY <3>0, Zenon
    <3>1. f[k] \in S /\ f[k + 1] \in S /\ f[k + 1] = TakeFront(f[k])
      BY <1>5 DEF TakeRun
    <3>2. CASE ~takes(f[k])
      <4>1. f[k + 1] = f[k]
        BY <1>2, <3>1, <3>2
      <4>2. QED
        BY <3>2, <4>1
    <3>3. CASE takes(f[k])
      <4>1. Len(f[k].heap) + k <= n /\ Len(f[k + 1].heap) = Len(f[k].heap) - 1
        BY <1>2, <3>1, <3>3
      <4>2. Len(f[k].heap) \in Nat
        BY <1>4, <3>1
      <4>3. \A a \in Nat, j \in Nat, m \in Nat : a + j <= m => (a - 1) + (j + 1) <= m
        OBVIOUS
      <4>4. (Len(f[k].heap) - 1) + (k + 1) <= n
        BY <1>6, <4>1, <4>2, <4>3
      <4>5. QED
        BY <4>1, <4>4
    <3>4. QED
      BY <3>2, <3>3
  <2> HIDE DEF T
  <2>3. n \in T
    BY <1>6, <2>1, <2>2, AllNumbers
  <2>4. f[n] \in S
    BY <1>5, <1>6
  <2>5. Len(f[n].heap) \in Nat /\ (takes(f[n]) => Len(f[n].heap) > 0)
    BY <1>4, <2>4
  <2>6. ~takes(f[n]) \/ Len(f[n].heap) + n <= n
    BY <2>3 DEF T
  <2>7. QED
    BY <1>6, <2>4, <2>5, <2>6
<1> DEFINE r == f[n]
<1>8. TakeReady(q) = r
  BY <1>5, <1>6 DEF TakeReady, TakeRun, Rounds, n
<1>9. Left(q, r)
  BY <1>7 DEF S
<1>10. r \in Queues /\ Placed(r) /\ Ordered(r.heap)
  BY <1>9 DEF Left
<1> HIDE DEF r
<1>11. \A t \in Timers : r.index[t] # 0 => q.heap[q.index[t]].time > now
  <2> SUFFICES ASSUME NEW t \in Timers, r.index[t] # 0
               PROVE  q.heap[q.index[t]].time > now
    OBVIOUS
  <2>1. r.heap[r.index[t]] = q.heap[q.index[t]]
    BY <1>9 DEF Left
  <2>2. r.index[t] \in 1 .. Len(r.heap) /\ r.heap \in Seq(Entries)
    BY <1>10, QueueType DEF Placed
  <2>3. r.heap # <<>> /\ 1 \in 1 .. Len(r.heap)
    BY <2>2
  <2>4. ~(r.heap[1].time <= now)
    BY <1>7, <2>3 DEF r, takes
  <2>5. r.heap[1].time <= r.heap[r.index[t]].time
    BY <1>10, <2>2, FrontIsFirst
  <2>6. r.heap[1].time \in Nat /\ r.heap[r.index[t]].time \in Nat
    BY <1>10, <2>2, <2>3, QueueType
  <2>7. r.heap[r.index[t]].time > now
    BY <2>4, <2>5, <2>6
  <2>8. QED
    BY <2>1, <2>7
<1>12. QED
  BY <1>8, <1>9, <1>11

-----------------------------------------------------------------------------
(* The timerfd.                                                               *)

\* get_timeout() is a time; with an entry in the heap it is less than a
\* microsecond after it, or not after now.
LEMMA TimeoutInTime ==
  ASSUME NEW h \in Seq(Entries), now \in Nat
  PROVE  /\ Timeout(h) \in Nat
         /\ h # <<>> => Timeout(h) < h[1].time + Usec \/ Timeout(h) <= now
<1> DEFINE w == WaitDurationUsec(h)
           d == h[1].time - now
<1>1. Usec \in Nat /\ Usec > 0 /\ MaxWait \in Nat
  BY TimerConstants
<1>2. \A a \in Nat : a * Usec \in Nat
  BY <1>1
<1>3. Timeout(h) = now + w * Usec
  BY DEF Timeout
<1>4. CASE h = <<>>
  <2>1. w = MaxWait
    BY <1>4 DEF WaitDurationUsec
  <2> HIDE DEF w
  <2>2. w * Usec \in Nat
    BY <1>1, <1>2, <2>1
  <2>3. QED
    BY <1>3, <1>4, <2>2
<1>5. CASE h # <<>>
  <2>1. h[1].time \in Nat
    <3>1. h[1] \in Entries
      BY <1>5
    <3>2. QED
      BY <3>1 DEF Entries
  <2>2. d \in Int
    BY <2>1
  <2>3. CASE d <= 0
    <3>1. w = 0
      BY <1>5, <2>3 DEF WaitDurationUsec
    <3> HIDE DEF w
    <3>2. w * Usec = 0
      BY <1>1, <3>1
    <3>3. QED
      BY <1>3, <3>2
  <2>4. CASE d > 0 /\ d < Usec
    <3>1. w = 1
      BY <1>1, <1>5, <2>2, <2>4 DEF WaitDurationUsec
    <3> HIDE DEF w
    <3>2. w * Usec = Usec
      BY <1>1, <3>1
    <3>3. now < h[1].time
      BY <2>1, <2>4
    <3>4. QED
      BY <1>1, <1>3, <2>1, <3>2, <3>3
  <2>5. CASE d > 0 /\ ~(d < Usec)
    <3> DEFINE c == d \div Usec
    <3>1. c \in Nat /\ c * Usec <= d
      <4>1. \A a \in Nat, u \in Nat : u > 0 => a = u * (a \div u) + (a % u) /\ a % u >= 0
        OBVIOUS
      <4>2. \A a \in Nat, u \in Nat : u > 0 => a \div u \in Nat /\ u * (a \div u) \in Nat
        OBVIOUS
      <4>3. \A a \in Nat, u \in Nat : u > 0 => (a \div u) * u = u * (a \div u)
        OBVIOUS
      <4>4. d \in Nat
        BY <2>2, <2>5
      <4> HIDE DEF d
      <4>5. d = Usec * c + (d % Usec) /\ d % Usec >= 0 /\ d % Usec \in Int
        BY <1>1, <4>1, <4>4
      <4>6. c \in Nat /\ Usec * c \in Nat /\ c * Usec = Usec * c
        BY <1>1, <4>2, <4>3, <4>4
      <4> HIDE DEF c
      <4>7. QED
        BY <4>4, <4>5, <4>6
    <3>2. w = IF c < MaxWait THEN c ELSE MaxWait
      BY <1>1, <1>5, <2>2, <2>5 DEF WaitDurationUsec
    <3> HIDE DEF w, c
    <3>3. w \in Nat /\ w <= c
      BY <1>1, <3>1, <3>2
    <3>4. w * Usec \in Nat /\ c * Usec \in Nat /\ w * Usec <= c * Usec
      <4>1. \A a \in Nat, b \in Nat, u \in Nat : a <= b => a * u <= b * u
        OBVIOUS
      <4>2. QED
        BY <1>1, <1>2, <3>1, <3>3, <4>1
    <3>5. now + w * Usec <= h[1].time
      <4>1. \A x \in Nat, y \in Nat : x <= y /\ y <= d => now + x <= h[1].time
        BY <2>1
      <4> HIDE DEF d
      <4>2. QED
        BY <3>1, <3>4, <4>1
    <3>6. now + w * Usec \in Nat
      BY <3>4
    <3>7. QED
      BY <1>1, <1>3, <2>1, <3>5, <3>6
  <2>6. QED
    BY <1>1, <2>2, <2>3, <2>4, <2>5
<1>6. QED
  BY <1>4, <1>5

-----------------------------------------------------------------------------
(* The inductive invariant.                                                   *)

\* The timers that are waited for are those that have a place.
ListedHavePlaces == \A t \in Timers : (index[t] # 0) <=> (waits[t] > 0)

IInv ==
  /\ TypeOK /\ Placed(Queue) /\ Ordered(heap) /\ ListedHavePlaces /\ ArmedInTime

\* What the invariant says of the queue.
LEMMA QueueIsGood ==
  ASSUME IInv
  PROVE  /\ Queue \in Queues /\ Placed(Queue) /\ Ordered(Queue.heap)
         /\ Queue.heap = heap /\ Queue.index = index
         /\ now \in Nat /\ armed \in Nat \cup {Unarmed} /\ waits \in [Timers -> Nat]
         /\ \A t \in Timers : t \in Listed <=> Queue.index[t] # 0
<1>1. /\ heap \in Seq(Entries) /\ index \in [Timers -> Nat] /\ waits \in [Timers -> Nat]
      /\ now \in Nat /\ armed \in Nat \cup {Unarmed}
  BY TimerConstants DEF IInv, TypeOK, Entries
<1>2. Queue.heap = heap /\ Queue.index = index /\ Queue \in Queues
  BY <1>1 DEF Queue, Queues
<1>3. \A t \in Timers : t \in Listed <=> waits[t] > 0
  BY DEF Listed
<1>4. QED
  BY <1>1, <1>2, <1>3 DEF IInv, ListedHavePlaces

\* The timerfd is in time for a heap whose front was in the old one.
LEMMA FrontWasThere ==
  ASSUME IInv, NEW k \in 1 .. Len(heap), NEW e, e = heap[k]
  PROVE  /\ armed # Unarmed /\ armed \in Nat /\ e.time \in Nat
         /\ armed < e.time + Usec \/ armed <= now
<1>1. /\ Queue \in Queues /\ Ordered(Queue.heap) /\ Queue.heap = heap
      /\ armed \in Nat \cup {Unarmed}
  BY QueueIsGood
<1>2. heap \in Seq(Entries) /\ Len(heap) \in Nat
      /\ \A j \in 1 .. Len(heap) : heap[j].time \in Nat
  BY <1>1, QueueType
<1>3. heap # <<>> /\ 1 \in 1 .. Len(heap)
  BY <1>2
<1>4. armed # Unarmed /\ (armed < heap[1].time + Usec \/ armed <= now)
  BY <1>3 DEF IInv, ArmedInTime
<1>5. heap[1].time <= heap[k].time
  BY <1>1, FrontIsFirst
<1>6. heap[1].time \in Nat /\ heap[k].time \in Nat
  BY <1>2, <1>3
<1>7. Usec \in Nat
  BY TimerConstants
<1>8. armed \in Nat
  BY <1>1, <1>4
<1>9. \A a \in Nat, b \in Nat, c \in Nat, u \in Nat : a < b + u /\ b <= c => a < c + u
  OBVIOUS
<1>10. QED
  BY <1>4, <1>5, <1>6, <1>7, <1>8, <1>9

-----------------------------------------------------------------------------
(* The steps.                                                                 *)

\* The parts of the invariant that are about a queue, for the next state.
LEMMA NextQueue ==
  ASSUME NEW q \in Queues, Placed(q), Ordered(q.heap), heap' = q.heap, index' = q.index
  PROVE  Placed(Queue)' /\ Ordered(heap)' /\ heap' \in Seq(Entries)
         /\ index' \in [Timers -> Nat]
<1>1. Queue' = [heap |-> q.heap, index |-> q.index]
  BY DEF Queue
<1>2. Queue' = q /\ q.heap \in Seq(Entries) /\ q.index \in [Timers -> Nat]
  BY <1>1, QueueType
<1>3. Placed(Queue') /\ Ordered(heap')
  BY <1>2
<1>4. QED
  BY <1>2, <1>3 DEF Placed, Ordered

\* The queue in which t has a new wait, in the place of those it had.
Rescheduled(t, d) ==
  Insert(IF t \in Listed THEN RemoveTimer(Queue, t) ELSE Queue, t, now + d)

\* It differs from the old one in the entry of t only, which has the new time.
LEMMA OneIsNew ==
  ASSUME IInv, NEW t \in Timers, NEW d \in Delays
  PROVE  LET r == Rescheduled(t, d)
         IN  /\ r \in Queues /\ Placed(r) /\ Ordered(r.heap) /\ OthersStay(Queue, r, t)
             /\ r.index[t] # 0 /\ r.heap[r.index[t]] = [time |-> now + d, timer |-> t]
<1> DEFINE q == IF t \in Listed THEN RemoveTimer(Queue, t) ELSE Queue
           r == Insert(q, t, now + d)
<1>1. /\ Queue \in Queues /\ Placed(Queue) /\ Ordered(Queue.heap)
      /\ now \in Nat
      /\ \A u \in Timers : u \in Listed <=> Queue.index[u] # 0
  BY QueueIsGood
<1>2. d \in Nat /\ now + d \in Nat
  BY <1>1, TimerConstants
<1>3. q \in Queues /\ Placed(q) /\ Ordered(q.heap) /\ OthersStay(Queue, q, t) /\ q.index[t] = 0
  <2>1. CASE t \in Listed
    BY <1>1, <2>1, Removed
  <2>2. CASE t \notin Listed
    BY <1>1, <2>2 DEF OthersStay
  <2>3. QED
    BY <2>1, <2>2
<1>4. Rescheduled(t, d) = r
  BY DEF Rescheduled
<1> HIDE DEF q
<1>5. /\ r \in Queues /\ Placed(r) /\ Ordered(r.heap) /\ OthersStay(q, r, t)
      /\ r.index[t] # 0 /\ r.heap[r.index[t]] = [time |-> now + d, timer |-> t]
  BY <1>2, <1>3, Inserted
<1> HIDE DEF r
<1>6. OthersStay(Queue, r, t)
  BY <1>3, <1>5 DEF OthersStay
<1>7. QED
  BY <1>4, <1>5, <1>6

\* A new wait is an entry in the heap, at the time it asked for; if it is at the
\* front the timerfd is set for it, and if not the front was there before.
LEMMA ScheduleKeepsIInv ==
  ASSUME IInv, NEW t \in Timers, NEW d \in Delays, Schedule(t, d)
  PROVE  IInv'
<1> DEFINE r == Rescheduled(t, d)
<1>1. /\ Queue \in Queues /\ Placed(Queue) /\ Ordered(Queue.heap)
      /\ Queue.heap = heap /\ Queue.index = index
      /\ now \in Nat /\ armed \in Nat \cup {Unarmed} /\ waits \in [Timers -> Nat]
      /\ \A u \in Timers : u \in Listed <=> Queue.index[u] # 0
  BY QueueIsGood
<1>2. /\ heap' = r.heap /\ index' = r.index
      /\ waits' = [waits EXCEPT ![t] = 1]
      /\ armed' = IF r.index[t] = 1 THEN Timeout(r.heap) ELSE armed
      /\ now' = now /\ pc' = pc
  BY DEF Schedule, UpdateTimeout, Rescheduled
<1>3. /\ r \in Queues /\ Placed(r) /\ Ordered(r.heap) /\ OthersStay(Queue, r, t)
      /\ r.index[t] # 0
  BY OneIsNew
<1> HIDE DEF r
<1>4. /\ Placed(Queue)' /\ Ordered(heap)' /\ heap' \in Seq(Entries) /\ index' \in [Timers -> Nat]
  BY <1>2, <1>3, NextQueue
<1>5. Timeout(r.heap) \in Nat
      /\ (r.heap # <<>> => Timeout(r.heap) < r.heap[1].time + Usec \/ Timeout(r.heap) <= now)
  BY <1>1, <1>3, QueueType, TimeoutInTime
<1>6. TypeOK'
  BY <1>1, <1>2, <1>4, <1>5 DEF TypeOK, Entries, IInv
<1>7. ListedHavePlaces'
  <2>1. \A u \in Timers : (r.index[u] # 0) <=> (waits'[u] > 0)
    <3> SUFFICES ASSUME NEW u \in Timers
                 PROVE  (r.index[u] # 0) <=> (waits'[u] > 0)
      OBVIOUS
    <3>1. CASE u = t
      BY <1>1, <1>2, <1>3, <3>1
    <3>2. CASE u # t
      <4>1. (r.index[u] # 0) <=> (index[u] # 0)
        BY <1>1, <1>3, <3>2 DEF OthersStay
      <4>2. waits'[u] = waits[u]
        BY <1>1, <1>2, <3>2
      <4>3. QED
        BY <4>1, <4>2 DEF IInv, ListedHavePlaces
    <3>3. QED
      BY <3>1, <3>2
  <2>2. QED
    BY <1>2, <2>1 DEF ListedHavePlaces
<1>8. ArmedInTime'
  <2>1. CASE r.index[t] = 1
    <3>1. armed' # Unarmed
      BY <1>2, <1>5, <2>1, TimerConstants
    <3>2. QED
      BY <1>2, <1>5, <2>1, <3>1 DEF ArmedInTime
  <2>2. CASE r.index[t] # 1
    <3> SUFFICES ASSUME r.heap # <<>>
                 PROVE  armed # Unarmed /\ (armed < r.heap[1].time + Usec \/ armed <= now)
      BY <1>2, <2>2 DEF ArmedInTime
    <3> DEFINE u == r.heap[1].timer
    <3>1. r.heap \in Seq(Entries)
      BY <1>3, QueueType
    <3>2. 1 \in 1 .. Len(r.heap)
      BY <3>1
    <3>3. u \in Timers /\ r.index[u] = 1
      BY <1>3, <3>2, QueueType DEF Placed
    <3> HIDE DEF u
    <3>4. u # t
      BY <2>2, <3>3
    <3>5. index[u] # 0 /\ r.heap[1] = heap[index[u]]
      BY <1>1, <1>3, <3>3, <3>4 DEF OthersStay
    <3>6. index[u] \in 1 .. Len(heap)
      BY <1>1, <3>3, <3>5 DEF Placed
    <3>7. QED
      BY <3>5, <3>6, FrontWasThere
  <2>3. QED
    BY <2>1, <2>2
<1>9. QED
  BY <1>4, <1>6, <1>7, <1>8 DEF IInv

\* A timer that leaves the heap, or stays, does not make the timerfd late.
LEMMA RemovalKeepsIInv ==
  ASSUME IInv, NEW t \in Timers, t \in Listed, NEW w \in Nat,
         waits' = [waits EXCEPT ![t] = w], UNCHANGED <<now, armed, pc>>,
         \/ w = 0 /\ heap' = RemoveTimer(Queue, t).heap /\ index' = RemoveTimer(Queue, t).index
         \/ w > 0 /\ UNCHANGED <<heap, index>>
  PROVE  IInv'
<1> DEFINE r == IF w = 0 THEN RemoveTimer(Queue, t) ELSE Queue
<1>1. /\ Queue \in Queues /\ Placed(Queue) /\ Ordered(Queue.heap)
      /\ Queue.heap = heap /\ Queue.index = index
      /\ now \in Nat /\ armed \in Nat \cup {Unarmed} /\ waits \in [Timers -> Nat]
      /\ \A u \in Timers : u \in Listed <=> Queue.index[u] # 0
  BY QueueIsGood
<1>2. /\ r \in Queues /\ Placed(r) /\ Ordered(r.heap) /\ OthersStay(Queue, r, t)
      /\ (r.index[t] # 0) <=> (w > 0)
      /\ r.index[t] # 0 => r = Queue
      /\ heap' = r.heap /\ index' = r.index
  <2>1. CASE w = 0
    BY <1>1, <2>1, Removed
  <2>2. CASE w > 0
    BY <1>1, <2>2 DEF OthersStay
  <2>3. QED
    BY <2>1, <2>2
<1> HIDE DEF r
<1>3. /\ Placed(Queue)' /\ Ordered(heap)' /\ heap' \in Seq(Entries) /\ index' \in [Timers -> Nat]
  BY <1>2, NextQueue
<1>4. TypeOK'
  BY <1>1, <1>3 DEF TypeOK, Entries, IInv
<1>5. ListedHavePlaces'
  <2>1. \A u \in Timers : (r.index[u] # 0) <=> (waits'[u] > 0)
    <3> SUFFICES ASSUME NEW u \in Timers
                 PROVE  (r.index[u] # 0) <=> (waits'[u] > 0)
      OBVIOUS
    <3>1. CASE u = t
      BY <1>1, <1>2, <3>1
    <3>2. CASE u # t
      <4>1. (r.index[u] # 0) <=> (index[u] # 0)
        BY <1>1, <1>2, <3>2 DEF OthersStay
      <4>2. waits'[u] = waits[u]
        BY <1>1, <3>2
      <4>3. QED
        BY <4>1, <4>2 DEF IInv, ListedHavePlaces
    <3>3. QED
      BY <3>1, <3>2
  <2>2. QED
    BY <1>2, <2>1 DEF ListedHavePlaces
<1>6. ArmedInTime'
  <2> SUFFICES ASSUME r.heap # <<>>
               PROVE  armed # Unarmed /\ (armed < r.heap[1].time + Usec \/ armed <= now)
    BY <1>2 DEF ArmedInTime
  <2> DEFINE u == r.heap[1].timer
  <2>1. r.heap \in Seq(Entries)
    BY <1>2, QueueType
  <2>2. 1 \in 1 .. Len(r.heap)
    BY <2>1
  <2>3. u \in Timers /\ r.index[u] = 1
    BY <1>2, <2>2, QueueType DEF Placed
  <2> HIDE DEF u
  <2>4. index[u] # 0 /\ r.heap[1] = heap[index[u]]
    BY <1>1, <1>2, <2>3 DEF OthersStay
  <2>5. index[u] \in 1 .. Len(heap)
    BY <1>1, <2>3, <2>4 DEF Placed
  <2>6. QED
    BY <2>4, <2>5, FrontWasThere
<1>7. QED
  BY <1>3, <1>4, <1>5, <1>6 DEF IInv

\* The number of waits is not what the heap depends on, nor when time passes.
LEMMA SameQueueKeepsIInv ==
  ASSUME IInv, UNCHANGED <<heap, index, armed>>, now' \in 0 .. MaxTime, now <= now',
         waits' \in [Timers -> Nat], \A t \in Timers : (waits'[t] > 0) <=> (waits[t] > 0),
         pc' \in {"epoll", "check"}
  PROVE  IInv'
<1>1. Placed(Queue)' /\ Ordered(heap)'
  BY DEF IInv, Placed, Ordered, Queue
<1>2. TypeOK'
  BY DEF IInv, TypeOK
<1>3. ListedHavePlaces'
  BY DEF IInv, ListedHavePlaces
<1>4. ArmedInTime'
  <2> SUFFICES ASSUME heap # <<>>
               PROVE  armed # Unarmed /\ (armed < heap[1].time + Usec \/ armed <= now')
    BY DEF ArmedInTime
  <2>1. armed # Unarmed /\ (armed < heap[1].time + Usec \/ armed <= now)
    BY DEF IInv, ArmedInTime
  <2>2. armed \in Nat /\ now \in Nat /\ now' \in Nat
    BY <2>1, QueueIsGood, TimerConstants
  <2>3. QED
    BY <2>1, <2>2
<1>5. QED
  BY <1>1, <1>2, <1>3, <1>4 DEF IInv

\* What is left after the timers that are due have been taken.
LEMMA CheckKeepsIInv ==
  ASSUME IInv, CheckTimers
  PROVE  /\ IInv'
         /\ \A t \in Timers : t \in Listed => (t \in Listed' <=> heap[index[t]].time > now)
<1> DEFINE q == TakeReady(Queue)
<1>1. /\ Queue \in Queues /\ Placed(Queue) /\ Ordered(Queue.heap)
      /\ Queue.heap = heap /\ Queue.index = index
      /\ now \in Nat /\ waits \in [Timers -> Nat]
      /\ \A u \in Timers : u \in Listed <=> Queue.index[u] # 0
  BY QueueIsGood
<1>2. /\ Left(Queue, q)
      /\ \A t \in Timers : q.index[t] # 0 => heap[index[t]].time > now
  BY <1>1, ReadyTaken
<1>3. /\ heap' = q.heap /\ index' = q.index
      /\ waits' = [t \in Timers |-> IF q.index[t] = 0 THEN 0 ELSE waits[t]]
      /\ armed' = Timeout(q.heap) /\ now' = now /\ pc' = "epoll"
  BY DEF CheckTimers
<1> HIDE DEF q
<1>4. /\ q \in Queues /\ Placed(q) /\ Ordered(q.heap)
      /\ \A t \in Timers :
           \/ q.index[t] # 0 /\ index[t] # 0
           \/ q.index[t] = 0 /\ (index[t] # 0 => heap[index[t]].time <= now)
  BY <1>1, <1>2 DEF Left
<1>5. /\ Placed(Queue)' /\ Ordered(heap)' /\ heap' \in Seq(Entries) /\ index' \in [Timers -> Nat]
  BY <1>3, <1>4, NextQueue
<1>6. Timeout(q.heap) \in Nat
      /\ (q.heap # <<>> => Timeout(q.heap) < q.heap[1].time + Usec \/ Timeout(q.heap) <= now)
  BY <1>1, <1>4, QueueType, TimeoutInTime
<1>7. waits' \in [Timers -> Nat]
  BY <1>1, <1>3
<1>8. TypeOK'
  BY <1>3, <1>5, <1>6, <1>7 DEF TypeOK, Entries, IInv
<1>9. \A t \in Timers : (q.index[t] # 0) <=> (waits'[t] > 0)
  <2>1. \A t \in Timers : (index[t] # 0) <=> (waits[t] > 0)
    BY DEF IInv, ListedHavePlaces
  <2>2. QED
    BY <1>1, <1>3, <1>4, <2>1
<1>10. ListedHavePlaces'
  BY <1>3, <1>9 DEF ListedHavePlaces
<1>11. ArmedInTime'
  <2>1. armed' # Unarmed
    BY <1>3, <1>6, TimerConstants
  <2>2. QED
    BY <1>3, <1>6, <2>1 DEF ArmedInTime
<1>12. \A t \in Timers : t \in Listed => (t \in Listed' <=> heap[index[t]].time > now)
  <2> SUFFICES ASSUME NEW t \in Timers, t \in Listed
               PROVE  t \in Listed' <=> heap[index[t]].time > now
    OBVIOUS
  <2>1. t \in Listed' <=> q.index[t] # 0
    BY <1>9 DEF Listed
  <2>2. index[t] # 0
    BY <1>1
  <2>3. index[t] \in 1 .. Len(heap)
    BY <1>1, <2>2 DEF Placed
  <2>4. heap[index[t]].time \in Nat
    BY <1>1, <2>3, QueueType
  <2>5. q.index[t] # 0 => heap[index[t]].time > now
    BY <1>2
  <2>6. q.index[t] = 0 => heap[index[t]].time <= now
    BY <1>4, <2>2
  <2>7. QED
    BY <1>1, <2>1, <2>4, <2>5, <2>6
<1>13. QED
  BY <1>5, <1>8, <1>10, <1>11, <1>12 DEF IInv

\* The program starts with no timer waited for.
LEMMA InitIInv == Init => IInv
<1> SUFFICES ASSUME Init
             PROVE  IInv
  OBVIOUS
<1>1. heap = <<>> /\ index = [t \in Timers |-> 0] /\ waits = [t \in Timers |-> 0]
      /\ now = 0 /\ armed = Unarmed /\ pc = "epoll"
  BY DEF Init
<1>2. Len(heap) = 0 /\ heap \in Seq([time : Nat, timer : Timers])
  BY <1>1
<1>3. TypeOK
  BY <1>1, <1>2, TimerConstants DEF TypeOK
<1>4. Placed(Queue) /\ Ordered(heap)
  BY <1>1, <1>2 DEF Placed, Ordered, Queue
<1>5. ListedHavePlaces /\ ArmedInTime
  BY <1>1 DEF ListedHavePlaces, ArmedInTime
<1>6. QED
  BY <1>3, <1>4, <1>5 DEF IInv

\* Every step keeps the invariant.
LEMMA NextKeepsIInv == IInv /\ [Next]_vars => IInv'
<1> SUFFICES ASSUME IInv, [Next]_vars
             PROVE  IInv'
  OBVIOUS
<1>1. TypeOK /\ waits \in [Timers -> Nat] /\ now \in 0 .. MaxTime /\ MaxTime \in Nat
      /\ pc \in {"epoll", "check"}
  BY TimerConstants DEF IInv, TypeOK
<1>2. ASSUME NEW t \in Timers, NEW d \in Delays, Schedule(t, d)
      PROVE  IInv'
  BY <1>2, ScheduleKeepsIInv
<1>3. ASSUME NEW t \in Timers, WaitAgain(t)
      PROVE  IInv'
  <2>1. /\ waits[t] > 0 /\ waits' = [waits EXCEPT ![t] = @ + 1]
        /\ armed' = armed /\ UNCHANGED <<now, heap, index, pc>>
    BY <1>3 DEF WaitAgain, UpdateTimeout, Listed
  <2>2. waits' \in [Timers -> Nat] /\ \A u \in Timers : (waits'[u] > 0) <=> (waits[u] > 0)
    BY <1>1, <2>1
  <2>3. QED
    BY <1>1, <2>1, <2>2, SameQueueKeepsIInv
<1>4. ASSUME NEW t \in Timers, Cancel(t)
      PROVE  IInv'
  BY <1>4, RemovalKeepsIInv DEF Cancel
<1>5. ASSUME NEW t \in Timers, CancelOne(t)
      PROVE  IInv'
  <2> DEFINE w == waits[t] - 1
  <2>1. t \in Listed /\ w \in Nat /\ (waits[t] = 1 <=> w = 0)
    BY <1>1, <1>5 DEF CancelOne, Listed
  <2>2. waits' = [waits EXCEPT ![t] = w] /\ UNCHANGED <<now, armed, pc>>
    BY <1>5 DEF CancelOne
  <2>3. \/ /\ w = 0
           /\ heap' = RemoveTimer(Queue, t).heap /\ index' = RemoveTimer(Queue, t).index
        \/ w > 0 /\ UNCHANGED <<heap, index>>
    <3>1. Queue.heap = heap /\ Queue.index = index
      BY DEF Queue
    <3> HIDE DEF w
    <3>2. CASE w = 0
      BY <1>5, <2>1, <3>2 DEF CancelOne
    <3>3. CASE w # 0
      <4>1. w > 0 /\ waits[t] # 1
        BY <2>1, <3>3
      <4>2. QED
        BY <1>5, <3>1, <4>1 DEF CancelOne
    <3>4. QED
      BY <3>2, <3>3
  <2> HIDE DEF w
  <2>4. QED
    BY <2>1, <2>2, <2>3, RemovalKeepsIInv
<1>6. CASE EpollReturns
  BY <1>1, <1>6, SameQueueKeepsIInv DEF EpollReturns
<1>7. CASE CheckTimers
  BY <1>7, CheckKeepsIInv
<1>8. CASE Tick
  BY <1>1, <1>8, SameQueueKeepsIInv DEF Tick
<1>9. CASE UNCHANGED vars
  BY <1>1, <1>9, SameQueueKeepsIInv DEF vars
<1>10. QED
  BY <1>2, <1>3, <1>4, <1>5, <1>6, <1>7, <1>8, <1>9 DEF Next, Terminated

-----------------------------------------------------------------------------
(* The theorems.                                                              *)

\* The inductive invariant holds in every behaviour, for every number of timers,
\* all delays and every resolution of the clock.
THEOREM Invariance == Spec => []IInv
  BY InitIInv, NextKeepsIInv, PTL DEF Spec

\* The state of the timers is well-typed.
THEOREM TypeCorrect == Spec => []TypeOK
<1>1. IInv => TypeOK
  BY DEF IInv
<1> QED
  BY <1>1, Invariance, PTL

\* The heap lists every timer that is waited for once, at the place the timer
\* knows, and no entry is earlier than its parent.
THEOREM HeapCorrect == Spec => []HeapConsistent
<1>1. IInv => HeapConsistent
  <2> SUFFICES ASSUME IInv
               PROVE  HeapConsistent
    OBVIOUS
  <2> DEFINE n == Len(heap)
             f == [k \in 1 .. n |-> heap[k].timer]
  <2>1. /\ Queue \in Queues /\ Placed(Queue) /\ Ordered(heap)
        /\ Queue.heap = heap /\ Queue.index = index
        /\ \A t \in Timers : t \in Listed <=> index[t] # 0
    BY QueueIsGood
  <2>2. /\ heap \in Seq(Entries) /\ n \in Nat
        /\ \A k \in 1 .. n : heap[k].timer \in Timers
    BY <2>1, QueueType
  <2>3. /\ \A k \in 1 .. n : index[heap[k].timer] = k
        /\ \A t \in Timers : index[t] # 0 => index[t] \in 1 .. n /\ heap[index[t]].timer = t
    BY <2>1 DEF Placed
  <2>4. f \in Bijection(1 .. n, Listed)
    <3>1. \A k \in 1 .. n : heap[k].timer \in Listed
      BY <2>1, <2>2, <2>3
    <3>2. f \in [1 .. n -> Listed]
      BY <3>1
    <3>3. \A a, b \in 1 .. n : f[a] = f[b] => a = b
      BY <2>3
    <3>4. \A t \in Listed : \E k \in 1 .. n : f[k] = t
      <4>1. \A t \in Listed : t \in Timers
        BY DEF Listed
      <4>2. QED
        BY <2>1, <2>3, <4>1
    <3> HIDE DEF f
    <3>5. QED
      BY <3>2, <3>3, <3>4 DEF Bijection, Injection, Surjection, IsInjective
  <2> HIDE DEF f, n
  <2>5. Cardinality(Listed) = n
    BY <2>2, <2>4, FS_CountingElements DEF ExistsBijection
  <2>6. DOMAIN heap = 1 .. n
    BY <2>2 DEF n
  <2>7. \A t \in Timers : IF t \in Listed THEN index[t] \in DOMAIN heap
                                               /\ heap[index[t]].timer = t
                          ELSE index[t] = 0
    BY <2>1, <2>3, <2>6
  <2>8. QED
    BY <2>1, <2>5, <2>7 DEF HeapConsistent, Ordered, n
<1> QED
  BY <1>1, Invariance, PTL

\* The timerfd fires less than a microsecond after the earliest expiry, or is due
\* already: no order of calls of any threads leaves it armed too late, and every
\* removal that leaves it alone leaves it right.
THEOREM ArmedCorrect == Spec => []ArmedInTime
<1>1. IInv => ArmedInTime
  BY DEF IInv
<1> QED
  BY <1>1, Invariance, PTL

-----------------------------------------------------------------------------
(* The refinement.                                                            *)

\* What the abstract timers are, timer by timer.
ExpiryFacts ==
  /\ DOMAIN Expiry = Timers
  /\ \A t \in Timers : /\ waits[t] > 0 => index[t] # 0 /\ Expiry[t] = heap[index[t]].time
                       /\ waits[t] = 0 => index[t] = 0 /\ Expiry[t] = 0
  /\ waits \in [Timers -> Nat]

\* The expiries are the times of the entries.
LEMMA InvExpiry == IInv => ExpiryFacts
<1> SUFFICES ASSUME IInv
             PROVE  ExpiryFacts
  OBVIOUS
<1>1. waits \in [Timers -> Nat] /\ \A t \in Timers : (index[t] # 0) <=> (waits[t] > 0)
  BY QueueIsGood DEF IInv, ListedHavePlaces
<1>2. \A t \in Timers : t \in Listed <=> waits[t] > 0
  BY DEF Listed
<1>3. QED
  BY <1>1, <1>2 DEF Expiry, ExpiryFacts

\* So they are after a step.
LEMMA InvExpiryNext == IInv' => ExpiryFacts'
  BY InvExpiry, PTL

\* The same, to be cited fact by fact.
LEMMA ExpiryIs ==
  ASSUME IInv
  PROVE  /\ DOMAIN Expiry = Timers
         /\ \A t \in Timers : /\ waits[t] > 0 => index[t] # 0 /\ Expiry[t] = heap[index[t]].time
                              /\ waits[t] = 0 => index[t] = 0 /\ Expiry[t] = 0
         /\ waits \in [Timers -> Nat]
  BY InvExpiry DEF ExpiryFacts

\* The same of the next state.
LEMMA ExpiryWillBe ==
  ASSUME IInv'
  PROVE  /\ DOMAIN Expiry' = Timers
         /\ \A t \in Timers :
              /\ waits'[t] > 0 => index'[t] # 0 /\ Expiry'[t] = heap'[index'[t]].time
              /\ waits'[t] = 0 => index'[t] = 0 /\ Expiry'[t] = 0
         /\ waits' \in [Timers -> Nat]
  BY InvExpiryNext DEF ExpiryFacts

\* A timer whose entry stays keeps its expiry.
LEMMA OthersKeepExpiry ==
  ASSUME IInv, IInv', NEW t \in Timers, NEW r, heap' = r.heap, index' = r.index,
         OthersStay(Queue, r, t), NEW u \in Timers \ {t}
  PROVE  Expiry'[u] = Expiry[u]
<1>1. Queue.heap = heap /\ Queue.index = index
  BY QueueIsGood
<1>2. /\ (index'[u] = 0) <=> (index[u] = 0)
      /\ index[u] # 0 => heap'[index'[u]] = heap[index[u]]
  BY <1>1 DEF OthersStay
<1>3. /\ waits[u] > 0 => index[u] # 0 /\ Expiry[u] = heap[index[u]].time
      /\ waits[u] = 0 => index[u] = 0 /\ Expiry[u] = 0
      /\ waits[u] \in Nat
  BY ExpiryIs
<1>4. /\ waits'[u] > 0 => index'[u] # 0 /\ Expiry'[u] = heap'[index'[u]].time
      /\ waits'[u] = 0 => index'[u] = 0 /\ Expiry'[u] = 0
      /\ waits'[u] \in Nat
  BY ExpiryWillBe
<1>5. CASE index[u] = 0
  BY <1>2, <1>3, <1>4, <1>5
<1>6. CASE index[u] # 0
  BY <1>2, <1>3, <1>4, <1>6
<1>7. QED
  BY <1>5, <1>6

\* A new wait gives its timer an expiry and touches no other.
LEMMA ScheduleRefines ==
  ASSUME IInv, IInv', NEW t \in Timers, NEW d \in Delays, Schedule(t, d)
  PROVE  Abstract!Schedule(t, d)
<1> DEFINE r == Rescheduled(t, d)
<1>1. /\ r \in Queues /\ OthersStay(Queue, r, t)
      /\ r.heap[r.index[t]] = [time |-> now + d, timer |-> t]
  BY OneIsNew
<1>2. /\ heap' = r.heap /\ index' = r.index
      /\ waits' = [waits EXCEPT ![t] = 1]
      /\ now' = now /\ pc' = pc
  BY DEF Schedule, Rescheduled
<1> HIDE DEF r
<1>3. waits'[t] = 1
  BY <1>2, ExpiryIs
<1>4. Expiry'[t] = now + d
  BY <1>1, <1>2, <1>3, ExpiryWillBe
<1>5. \A u \in Timers \ {t} : Expiry'[u] = Expiry[u]
  BY <1>1, <1>2, OthersKeepExpiry
<1>6. /\ DOMAIN Expiry = Timers /\ DOMAIN Expiry' = Timers
      /\ Expiry = [u \in Timers |-> Expiry[u]] /\ Expiry' = [u \in Timers |-> Expiry'[u]]
  BY ExpiryIs, ExpiryWillBe DEF Expiry
<1>7. Expiry' = [Expiry EXCEPT ![t] = now + d]
  BY <1>4, <1>5, <1>6
<1>8. QED
  BY <1>2, <1>7 DEF Abstract!Schedule

\* The timer whose last wait is cancelled goes, and no other.
LEMMA RemovalRefines ==
  ASSUME IInv, IInv', NEW t \in Timers, t \in Listed,
         heap' = RemoveTimer(Queue, t).heap, index' = RemoveTimer(Queue, t).index,
         waits' = [waits EXCEPT ![t] = 0]
  PROVE  Abstract!Complete({t})
<1> DEFINE r == RemoveTimer(Queue, t)
<1>1. OthersStay(Queue, r, t)
  BY QueueIsGood, Removed
<1>2. heap' = r.heap /\ index' = r.index
  OBVIOUS
<1> HIDE DEF r
<1>3. waits'[t] = 0 /\ waits' = [u \in Timers |-> IF u \in {t} THEN 0 ELSE waits[u]]
  BY ExpiryIs
<1>4. Expiry'[t] = 0
  BY <1>3, ExpiryWillBe
<1>5. \A u \in Timers \ {t} : Expiry'[u] = Expiry[u]
  BY <1>1, <1>2, OthersKeepExpiry
<1>6. Expiry' = [u \in Timers |-> Expiry'[u]]
  BY DEF Expiry
<1>7. Expiry' = [u \in Timers |-> IF u \in {t} THEN 0 ELSE Expiry[u]]
  BY <1>4, <1>5, <1>6
<1>8. QED
  BY <1>3, <1>7 DEF Abstract!Complete

\* A step that leaves the queue alone, and who is waited for, keeps every expiry.
LEMMA SameExpiry ==
  ASSUME IInv, IInv', UNCHANGED <<heap, index>>
  PROVE  Expiry' = Expiry
<1>1. \A t \in Timers : Expiry'[t] = Expiry[t]
  <2> SUFFICES ASSUME NEW t \in Timers
               PROVE  Expiry'[t] = Expiry[t]
    OBVIOUS
  <2>1. /\ waits[t] > 0 => index[t] # 0 /\ Expiry[t] = heap[index[t]].time
        /\ waits[t] = 0 => index[t] = 0 /\ Expiry[t] = 0
        /\ waits[t] \in Nat
    BY ExpiryIs
  <2>2. /\ waits'[t] > 0 => index[t] # 0 /\ Expiry'[t] = heap[index[t]].time
        /\ waits'[t] = 0 => index[t] = 0 /\ Expiry'[t] = 0
        /\ waits'[t] \in Nat
    BY ExpiryWillBe
  <2>3. QED
    BY <2>1, <2>2
<1>2. /\ Expiry = [t \in Timers |-> Expiry[t]]
      /\ Expiry' = [t \in Timers |-> Expiry'[t]]
  BY DEF Expiry
<1>3. QED
  BY <1>1, <1>2

\* get_ready_timers() completes those that are due, all of them and no other, and
\* leaves the expiries of the rest as they are.
LEMMA CheckRefines ==
  ASSUME IInv, IInv', CheckTimers
  PROVE  Abstract!Dispatch
<1> DEFINE q == TakeReady(Queue)
           done == {t \in Timers : waits[t] > 0 /\ Expiry[t] <= now}
<1>1. Queue.heap = heap /\ Queue.index = index /\ Queue \in Queues /\ Placed(Queue)
  BY QueueIsGood
<1>2. Left(Queue, q)
  BY QueueIsGood, ReadyTaken
<1>3. /\ heap' = q.heap /\ index' = q.index
      /\ waits' = [t \in Timers |-> IF q.index[t] = 0 THEN 0 ELSE waits[t]]
      /\ now' = now /\ pc = "check" /\ pc' = "epoll"
  BY DEF CheckTimers
<1>4. \A t \in Timers : t \in Listed => (t \in Listed' <=> heap[index[t]].time > now)
  BY CheckKeepsIInv
<1> HIDE DEF q
<1>5. ASSUME NEW t \in Timers
      PROVE  /\ waits'[t] = IF t \in done THEN 0 ELSE waits[t]
             /\ Expiry'[t] = IF t \in done THEN 0 ELSE Expiry[t]
  <2>1. /\ waits[t] > 0 => index[t] # 0 /\ Expiry[t] = heap[index[t]].time
        /\ waits[t] = 0 => index[t] = 0 /\ Expiry[t] = 0
        /\ waits[t] \in Nat
    BY ExpiryIs
  <2>2. /\ waits'[t] > 0 => index'[t] # 0 /\ Expiry'[t] = heap'[index'[t]].time
        /\ waits'[t] = 0 => index'[t] = 0 /\ Expiry'[t] = 0
        /\ waits'[t] \in Nat
    BY ExpiryWillBe
  <2>3. \/ index'[t] # 0 /\ index[t] # 0 /\ heap'[index'[t]] = heap[index[t]]
        \/ index'[t] = 0
    BY <1>1, <1>2, <1>3 DEF Left
  <2>4. waits'[t] = IF index'[t] = 0 THEN 0 ELSE waits[t]
    BY <1>3
  <2>5. CASE waits[t] = 0
    BY <2>1, <2>2, <2>3, <2>4, <2>5
  <2>6. CASE waits[t] > 0
    <3>1. waits'[t] > 0 <=> heap[index[t]].time > now
      BY <1>4, <2>6 DEF Listed
    <3>2. heap[index[t]].time \in Nat /\ now \in Nat
      <4>1. index[t] \in 1 .. Len(heap)
        BY <1>1, <2>1, <2>6 DEF Placed
      <4>2. QED
        BY <1>1, <4>1, QueueType, QueueIsGood
    <3>3. t \in done <=> waits'[t] = 0
      BY <2>1, <2>2, <2>6, <3>1, <3>2
    <3> HIDE DEF done
    <3>4. QED
      BY <2>1, <2>2, <2>3, <2>4, <2>6, <3>3
  <2>7. QED
    BY <2>1, <2>5, <2>6
<1> HIDE DEF done
<1>6. /\ waits' = [t \in Timers |-> IF t \in done THEN 0 ELSE waits[t]]
      /\ Expiry' = [t \in Timers |-> IF t \in done THEN 0 ELSE Expiry[t]]
  <2>1. waits' = [t \in Timers |-> waits'[t]] /\ Expiry' = [t \in Timers |-> Expiry'[t]]
    BY ExpiryWillBe DEF Expiry
  <2>2. QED
    BY <1>5, <2>1
<1>7. Abstract!Complete(done)
  BY <1>6 DEF Abstract!Complete
<1>8. QED
  BY <1>3, <1>7 DEF Abstract!Dispatch, done

\* Every step is a step of the abstract timers, or leaves them alone.
LEMMA NextRefines == IInv /\ IInv' /\ [Next]_vars => [Abstract!Next]_(Abstract!vars)
<1> SUFFICES ASSUME IInv, IInv', [Next]_vars
             PROVE  Abstract!Next \/ UNCHANGED Abstract!vars
  OBVIOUS
<1> USE DEF Abstract!Next
<1>1. ASSUME NEW t \in Timers, NEW d \in Delays, Schedule(t, d)
      PROVE  Abstract!Next
  BY <1>1, ScheduleRefines
<1>2. ASSUME NEW t \in Timers, WaitAgain(t)
      PROVE  Abstract!Next
  <2>1. Expiry' = Expiry
    BY <1>2, SameExpiry DEF WaitAgain
  <2>2. Abstract!WaitAgain(t)
    BY <1>2, <2>1 DEF WaitAgain, Listed, Abstract!WaitAgain
  <2>3. QED
    BY <2>2
<1>3. ASSUME NEW t \in Timers, Cancel(t)
      PROVE  Abstract!Next
  <2>1. Abstract!Complete({t}) /\ waits[t] > 0
    BY <1>3, RemovalRefines DEF Cancel, Listed
  <2>2. Abstract!Cancel(t)
    BY <1>3, <2>1 DEF Cancel, Abstract!Cancel
  <2>3. QED
    BY <2>2
<1>4. ASSUME NEW t \in Timers, CancelOne(t)
      PROVE  Abstract!Next
  <2>1. waits[t] \in Nat /\ waits[t] > 0
    BY <1>4, ExpiryIs DEF CancelOne, Listed
  <2>2. CASE waits[t] = 1
    <3>1. waits' = [waits EXCEPT ![t] = 0]
      BY <1>4, <2>2 DEF CancelOne
    <3>2. Abstract!Complete({t})
      BY <1>4, <2>2, <3>1, RemovalRefines DEF CancelOne
    <3>3. Abstract!Cancel(t)
      BY <1>4, <2>1, <3>2 DEF CancelOne, Abstract!Cancel
    <3>4. QED
      BY <3>3
  <2>3. CASE waits[t] # 1
    <3>1. UNCHANGED <<heap, index>>
      BY <1>4, <2>3 DEF CancelOne, Queue
    <3>2. Expiry' = Expiry
      BY <3>1, SameExpiry
    <3>3. Abstract!CancelOne(t)
      BY <1>4, <2>1, <2>3, <3>2 DEF CancelOne, Abstract!CancelOne
    <3>4. QED
      BY <3>3
  <2>4. QED
    BY <2>2, <2>3
<1>5. CASE EpollReturns
  <2>1. Expiry' = Expiry
    BY <1>5, SameExpiry DEF EpollReturns
  <2>2. Abstract!Wake
    BY <1>5, <2>1 DEF EpollReturns, Abstract!Wake
  <2>3. QED
    BY <2>2
<1>6. CASE CheckTimers
  BY <1>6, CheckRefines
<1>7. CASE Tick
  <2>1. Expiry' = Expiry
    BY <1>7, SameExpiry DEF Tick
  <2>2. Abstract!Tick
    BY <1>7, <2>1 DEF Tick, Abstract!Tick
  <2>3. QED
    BY <2>2
<1>8. CASE UNCHANGED vars
  <2>1. Expiry' = Expiry
    BY <1>8, SameExpiry DEF vars
  <2>2. QED
    BY <1>8, <2>1 DEF vars, Abstract!vars
<1>9. QED
  BY <1>1, <1>2, <1>3, <1>4, <1>5, <1>6, <1>7, <1>8 DEF Next, Terminated

\* The heap, the indexes and the timerfd implement the abstract timers: nobody's
\* operation changes when another timer expires, and a dispatch completes
\* exactly the timers that are due, for any timers, delays and clock.
THEOREM TimersRefined == Spec => ImplementsTimerSet
<1>1. Init => Abstract!Init
  <2> SUFFICES ASSUME Init
               PROVE  Abstract!Init
    OBVIOUS
  <2>1. \A t \in Timers : t \notin Listed
    BY DEF Init, Listed
  <2>2. Expiry = [t \in Timers |-> 0]
    BY <2>1 DEF Expiry
  <2>3. QED
    BY <2>2 DEF Init, Abstract!Init
<1>2. QED
  BY <1>1, NextRefines, Invariance, PTL DEF Spec, ImplementsTimerSet, Abstract!Spec
=============================================================================
