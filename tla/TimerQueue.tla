----------------------------- MODULE TimerQueue -----------------------------
(***************************************************************************)
(* asio's timers as the stop timers of the clients use them: the heap of    *)
(* detail::timer_queue, the timerfd that epoll_reactor arms for the entry   *)
(* at its front, and deadline_timer_service above them.                     *)
(*                                                                          *)
(* The heap knows the timers and every timer its place in the heap, so that *)
(* a cancel finds it; each swap has to keep both.  The timerfd is set only  *)
(* when a wait becomes the earliest one and when timers are dispatched: it  *)
(* may fire too early, which is repaired by arming it again, and must not   *)
(* fire too late.                                                           *)
(*                                                                          *)
(* Timers are used by any thread, each by one at a time; the reactor's      *)
(* mutex_ makes every operation one step, while the runner may be between   *)
(* epoll_wait() and that mutex.  Positions start at 1 here and at 0 in the  *)
(* code.  heap_index_ of a timer outside of the heap is never read: 0.      *)
(***************************************************************************)
EXTENDS Integers, Sequences, FiniteSetsExt

CONSTANTS
  Timers,
  Delays,     \* what expires_from_now() is called with, in ticks
  Spare,      \* bound: waits there may be besides the first one of each timer
  Usec,       \* ticks of the clock in a microsecond
  MaxWait,    \* the five minutes of get_timeout(), in microseconds
  MaxTime,    \* bound: where the clock stops
  Unarmed

ASSUME TimerConstants ==
  /\ Delays \subseteq Nat
  /\ {Usec, MaxWait} \subseteq Nat \ {0} /\ {Spare, MaxTime} \subseteq Nat
  /\ Unarmed \notin Nat

VARIABLES
  now,      \* the steady clock
  heap,     \* heap_: [time, timer]
  index,    \* heap_index_ of every timer
  waits,    \* the size of op_queue_; the timer is in the list if it is not 0
  armed,    \* when the timerfd expires, or Unarmed
  pc        \* the runner is in "epoll" or about to "check" the timers

vars == <<now, heap, index, waits, armed, pc>>

TypeOK ==
  /\ now \in 0 .. MaxTime
  /\ heap \in Seq([time : Nat, timer : Timers])
  /\ index \in [Timers -> Nat]
  /\ waits \in [Timers -> Nat]
  /\ armed \in Nat \cup {Unarmed}
  /\ pc \in {"epoll", "check"}

Init ==
  /\ now = 0 /\ heap = <<>> /\ armed = Unarmed /\ pc = "epoll"
  /\ index = [t \in Timers |-> 0]
  /\ waits = [t \in Timers |-> 0]

-----------------------------------------------------------------------------
(* The heap.  A queue is a record of the heap and the indexes.              *)

Queue == [heap |-> heap, index |-> index]
Parent(i) == i \div 2

SwapHeap(q, i, j) ==
  [heap  |-> [q.heap EXCEPT ![i] = q.heap[j], ![j] = q.heap[i]],
   index |-> [q.index EXCEPT ![q.heap[j].timer] = i, ![q.heap[i].timer] = j]]

\* What a loop has computed after n rounds.
Rounds(Round(_), start, n) ==
  LET after[k \in Nat] == IF k = 0 THEN start ELSE Round(after[k - 1])
  IN  after[n]

\* A round of the loop of up_heap(), which is at entry r.at of r.queue.
Rise(r) ==
  LET heap_ == r.queue.heap
      p == Parent(r.at)
  IN  IF r.at > 1 /\ heap_[r.at].time < heap_[p].time
      THEN [queue |-> SwapHeap(r.queue, r.at, p), at |-> p]
      ELSE r

\* up_heap(): no entry rises more often than there are entries.
UpHeap(q, i) == Rounds(Rise, [queue |-> q, at |-> i], Len(q.heap)).queue

\* A round of the loop of down_heap().
Sink(r) ==
  LET heap_ == r.queue.heap
      size == Len(heap_)
      child == 2 * r.at
      min == IF child = size \/ heap_[child].time < heap_[child + 1].time
             THEN child ELSE child + 1
  IN  IF child > size \/ heap_[r.at].time < heap_[min].time
      THEN r
      ELSE [queue |-> SwapHeap(r.queue, r.at, min), at |-> min]

\* down_heap()
DownHeap(q, i) == Rounds(Sink, [queue |-> q, at |-> i], Len(q.heap)).queue

\* enqueue_timer() for a timer that is not in the list.
Insert(q, t, time) ==
  UpHeap([heap  |-> Append(q.heap, [time |-> time, timer |-> t]),
          index |-> [q.index EXCEPT ![t] = Len(q.heap) + 1]],
         Len(q.heap) + 1)

PopBack(q, t) ==
  [heap  |-> SubSeq(q.heap, 1, Len(q.heap) - 1),
   index |-> [q.index EXCEPT ![t] = 0]]

\* Mutant of RemoveTimer: the entry that fills the gap only sinks.
RemoveTimerOnlyDown(q, t) ==
  LET i == q.index[t]
      last == Len(q.heap)
  IN  IF i = last THEN PopBack(q, t)
      ELSE DownHeap(PopBack(SwapHeap(q, i, last), t), i)

\* remove_timer(): the last entry fills the gap and may have to go either way.
RemoveTimer(q, t) ==
  LET i == q.index[t]
      last == Len(q.heap)
      r == PopBack(SwapHeap(q, i, last), t)
  IN  IF i = last THEN PopBack(q, t)
      ELSE IF i > 1 /\ r.heap[i].time < r.heap[Parent(i)].time THEN UpHeap(r, i)
      ELSE DownHeap(r, i)

\* A round of the loop of get_ready_timers(): the front, if it is due, is removed.
TakeFront(q) ==
  IF q.heap # <<>> /\ q.heap[1].time <= now THEN RemoveTimer(q, q.heap[1].timer) ELSE q

\* Mutant of TakeReady: a timer that is due now waits for the next time.
TakeReadyBefore(q) ==
  LET takeFront(r) == IF r.heap # <<>> /\ r.heap[1].time < now
                      THEN RemoveTimer(r, r.heap[1].timer) ELSE r
  IN  Rounds(takeFront, q, Len(q.heap))

\* get_ready_timers(): while the front is due, it is removed.
TakeReady(q) == Rounds(TakeFront, q, Len(q.heap))

-----------------------------------------------------------------------------
(* The timerfd.                                                             *)

\* to_usec() of the time to the front entry: rounded down, but not to zero.
WaitDurationUsec(h) ==
  LET d == h[1].time - now
      least(a, b) == IF a < b THEN a ELSE b
  IN  IF h = <<>> THEN MaxWait
      ELSE IF d <= 0 THEN 0
      ELSE IF d < Usec THEN 1
      ELSE least(d \div Usec, MaxWait)

\* get_timeout() and timerfd_settime(): 0 is a time long past, which fires.
Timeout(h) == now + WaitDurationUsec(h) * Usec

-----------------------------------------------------------------------------
(* The users of the timers.                                                 *)

Listed == {t \in Timers : waits[t] > 0}

\* Mutant of UpdateTimeout: only the first timer of an empty heap is the earliest.
UpdateTimeoutOfEmpty(q, t, first) ==
  armed' = IF Len(q.heap) = 1 /\ first THEN Timeout(q.heap) ELSE armed

\* schedule_timer(): the timerfd is set if the wait is the first of the timer
\* at the front.
UpdateTimeout(q, t, first) ==
  armed' = IF q.index[t] = 1 /\ first THEN Timeout(q.heap) ELSE armed

\* expires_from_now(), which cancels the waits there are (cancel() does nothing
\* when there are none), and async_wait().
Schedule(t, d) ==
  LET q == IF t \in Listed THEN RemoveTimer(Queue, t) ELSE Queue
      r == Insert(q, t, now + d)
  IN  /\ now + d <= MaxTime
      /\ heap' = r.heap /\ index' = r.index
      /\ waits' = [waits EXCEPT ![t] = 1]
      /\ UpdateTimeout(r, t, TRUE)
      /\ UNCHANGED <<now, pc>>

\* async_wait() on a timer that somebody waits for.
WaitAgain(t) ==
  /\ t \in Listed
  /\ MapThenSumSet(LAMBDA u : waits[u] - 1, Listed) < Spare
  /\ waits' = [waits EXCEPT ![t] = @ + 1]
  /\ UpdateTimeout(Queue, t, FALSE)
  /\ UNCHANGED <<now, heap, index, pc>>

\* cancel(): all waits are completed with operation_aborted; the timerfd is
\* left as it is.
Cancel(t) ==
  LET q == RemoveTimer(Queue, t)
  IN  /\ t \in Listed
      /\ heap' = q.heap /\ index' = q.index
      /\ waits' = [waits EXCEPT ![t] = 0]
      /\ UNCHANGED <<now, armed, pc>>

\* cancel_one(): the oldest wait is; the timer stays in the heap if another is left.
CancelOne(t) ==
  LET q == IF waits[t] = 1 THEN RemoveTimer(Queue, t) ELSE Queue
  IN  /\ t \in Listed
      /\ heap' = q.heap /\ index' = q.index
      /\ waits' = [waits EXCEPT ![t] = @ - 1]
      /\ UNCHANGED <<now, armed, pc>>

-----------------------------------------------------------------------------
(* The runner and the clock.                                                *)

\* epoll_wait() reports the timerfd as long as it is expired and not set anew.
EpollReturns ==
  /\ pc = "epoll"
  /\ armed # Unarmed /\ armed <= now
  /\ pc' = "check"
  /\ UNCHANGED <<now, heap, index, waits, armed>>

\* run(), with the mutex: get_ready_timers() and the timerfd armed anew.
CheckTimers ==
  LET q == TakeReady(Queue)
  IN  /\ pc = "check"
      /\ pc' = "epoll"
      /\ heap' = q.heap /\ index' = q.index
      /\ waits' = [t \in Timers |-> IF q.index[t] = 0 THEN 0 ELSE waits[t]]
      /\ armed' = Timeout(q.heap)
      /\ UNCHANGED now

Tick ==
  /\ now < MaxTime
  /\ now' = now + 1
  /\ UNCHANGED <<heap, index, waits, armed, pc>>

\* The clock has stopped.
Terminated == now = MaxTime /\ UNCHANGED vars

Next ==
  \/ \E t \in Timers :
       \/ \E d \in Delays : Schedule(t, d)
       \/ WaitAgain(t) \/ Cancel(t) \/ CancelOne(t)
  \/ EpollReturns \/ CheckTimers \/ Tick \/ Terminated

Spec == Init /\ [][Next]_vars

-----------------------------------------------------------------------------
(* Properties.                                                              *)

\* The heap has every timer that is waited for once, the timers know their
\* places, and no entry is earlier than its parent, whichever was removed.
HeapConsistent ==
  /\ \A t \in Timers : IF t \in Listed THEN /\ index[t] \in DOMAIN heap
                                            /\ heap[index[t]].timer = t
                       ELSE index[t] = 0
  /\ Len(heap) = Cardinality(Listed)
  /\ \A i \in 2 .. Len(heap) : heap[Parent(i)].time <= heap[i].time

\* While a timer is waited for the timerfd is armed, and fires less than a
\* microsecond after the earliest expiry, if not before; or it is due already.
ArmedInTime ==
  heap # <<>> => /\ armed # Unarmed
                 /\ \/ armed < heap[1].time + Usec
                    \/ armed <= now

\* When each timer that is waited for expires: impl.expiry, which its entry holds.
Expiry == [t \in Timers |-> IF t \in Listed THEN heap[index[t]].time ELSE 0]

\* The heap and its indexes are a set of timers with their expiries: an entry,
\* wherever swaps carry it and whichever other one is removed, keeps its time
\* until it is cancelled by its user or dispatched; and whenever timers are
\* dispatched those that are due complete: none before its time, and none that
\* is due is left behind for the next round.
Abstract == INSTANCE TimerSet WITH
  expiry      <- Expiry,
  dispatching <- (pc = "check")
ImplementsTimerSet == Abstract!Spec
============================================================================
