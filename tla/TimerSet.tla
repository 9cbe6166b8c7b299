------------------------------ MODULE TimerSet ------------------------------
(***************************************************************************)
(* What asio's timers promise to the program, without heap or timerfd: a    *)
(* timer that is waited for keeps its expiry until its waits are cancelled  *)
(* by its user or a dispatch completes them, and a dispatch completes       *)
(* those that are due, all of them and no other.                            *)
(***************************************************************************)
EXTENDS Integers

CONSTANTS
  Timers,
  Delays        \* what expires_from_now() is called with

VARIABLES
  now,          \* the steady clock
  expiry,       \* when each timer that is waited for expires; 0 of the others
  waits,        \* how many async_wait() of each timer have not completed
  dispatching   \* the reactor has been woken to dispatch timers

vars == <<now, expiry, waits, dispatching>>

Init ==
  /\ now = 0 /\ dispatching = FALSE
  /\ expiry = [t \in Timers |-> 0]
  /\ waits = [t \in Timers |-> 0]

\* All waits of the timers in done complete; a timer is then free for other use.
Complete(done) ==
  /\ expiry' = [t \in Timers |-> IF t \in done THEN 0 ELSE expiry[t]]
  /\ waits' = [t \in Timers |-> IF t \in done THEN 0 ELSE waits[t]]

-----------------------------------------------------------------------------
\* expires_from_now(), which cancels the waits there are, and async_wait().
Schedule(t, d) ==
  /\ expiry' = [expiry EXCEPT ![t] = now + d]
  /\ waits' = [waits EXCEPT ![t] = 1]
  /\ UNCHANGED <<now, dispatching>>

\* async_wait() on a timer that somebody waits for.
WaitAgain(t) ==
  /\ waits[t] > 0
  /\ waits' = [waits EXCEPT ![t] = @ + 1]
  /\ UNCHANGED <<now, expiry, dispatching>>

Cancel(t) ==
  /\ waits[t] > 0
  /\ Complete({t})
  /\ UNCHANGED <<now, dispatching>>

\* cancel_one(): the expiry is kept for the waits that are left.
CancelOne(t) ==
  /\ waits[t] > 1
  /\ waits' = [waits EXCEPT ![t] = @ - 1]
  /\ UNCHANGED <<now, expiry, dispatching>>

-----------------------------------------------------------------------------
\* The reactor may be woken at any time, too early as well.
Wake ==
  /\ ~dispatching
  /\ dispatching' = TRUE
  /\ UNCHANGED <<now, expiry, waits>>

\* Every wait of a timer that is due completes, and none of another one.
Dispatch ==
  /\ dispatching
  /\ dispatching' = FALSE
  /\ Complete({t \in Timers : waits[t] > 0 /\ expiry[t] <= now})
  /\ UNCHANGED now

Tick ==
  /\ now' = now + 1
  /\ UNCHANGED <<expiry, waits, dispatching>>

-----------------------------------------------------------------------------
Next ==
  \/ \E t \in Timers :
       (\E d \in Delays : Schedule(t, d)) \/ WaitAgain(t) \/ Cancel(t) \/ CancelOne(t)
  \/ Wake \/ Dispatch \/ Tick

Spec == Init /\ [][Next]_vars
============================================================================
