----------------------------- MODULE SocketPair -----------------------------
(***************************************************************************)
(* socketpair.cpp: a ring of socket pairs, all served by one io_service    *)
(* and one thread.  ActiveCount bytes are written into the first pairs;    *)
(* whoever reads a byte from pair i writes it into pair i + 1, until       *)
(* WriteCount bytes have been read.  Then the bytes on their way are read  *)
(* and the reader of the last one closes every socket, which is what makes *)
(* io_service::run() return.                                               *)
(*                                                                         *)
(* Writes are synchronous; at most ActiveCount bytes are on their way, and *)
(* a socket is taken to have room for them.  Handlers are executed one at  *)
(* a time, so each is one step.  The reactor may report pairs and the      *)
(* scheduler may begin handlers in any order.  socket_pair_test() repeats  *)
(* this 25 times, each time with a new io_service and new pairs: we have   *)
(* one of these rounds.                                                    *)
(***************************************************************************)
EXTENDS Integers, Sequences, FiniteSets, Functions

CONSTANTS
  PairCount,    \* pair_count_
  ActiveCount,  \* active_count_; 0 would divide by zero in start()
  WriteCount    \* write_count_

ASSUME RingAssumption ==
  /\ PairCount \in Nat \ {0}
  /\ ActiveCount \in 1 .. PairCount
  /\ WriteCount \in Nat

VARIABLES
  main,      \* "start", "run", "done"
  pipe,      \* the bytes written to s1_ of each pair and not yet read from s2_
  data,      \* data_ of each pair
  reading,   \* the async_read of each pair, see ReadStates
  reads,     \* real_read_count_
  writes,    \* real_write_count_
  stops      \* how often stop() has been executed

vars == <<main, pipe, data, reading, reads, writes, stops>>

Pairs == 0 .. PairCount - 1

ReadStates ==
  {"waiting",   \* registered in the reactor
   "ready",     \* a byte has been read into data_, the handler is queued
   "aborted",   \* cancelled by close(), the handler is queued
   "none"}      \* the handler saw the error: there is no further read

Byte == {"nul", "m"}    \* '\0', initially in data_, and first_ch_

TypeOK ==
  /\ main \in {"start", "run", "done"}
  /\ pipe \in [Pairs -> Seq(Byte)]
  /\ data \in [Pairs -> Byte]
  /\ reading \in [Pairs -> ReadStates]
  /\ reads \in Nat
  /\ writes \in Nat
  /\ stops \in 0 .. 1

\* The constructor has connected the pairs and started a read of each.
Init ==
  /\ main = "start"
  /\ pipe = [i \in Pairs |-> <<>>]
  /\ data = [i \in Pairs |-> "nul"]
  /\ reading = [i \in Pairs |-> "waiting"]
  /\ reads = 0
  /\ writes = 0
  /\ stops = 0

-----------------------------------------------------------------------------
\* One round of the loop of start(): pair_write(i, &first_ch_).
StartWrite ==
  /\ main = "start"
  /\ writes < ActiveCount
  /\ pipe' = [pipe EXCEPT ![writes] = Append(@, "m")]
  /\ writes' = writes + 1
  /\ UNCHANGED <<main, data, reading, reads, stops>>

EnterRun ==
  /\ main = "start"
  /\ writes = ActiveCount
  /\ main' = "run"
  /\ UNCHANGED <<pipe, data, reading, reads, writes, stops>>

\* The reactor finds s2_ of pair i readable and performs the read.
Arrive(i) ==
  /\ main = "run"
  /\ reading[i] = "waiting"
  /\ pipe[i] # <<>>
  /\ pipe' = [pipe EXCEPT ![i] = Tail(@)]
  /\ data' = [data EXCEPT ![i] = Head(pipe[i])]
  /\ reading' = [reading EXCEPT ![i] = "ready"]
  /\ UNCHANGED <<main, reads, writes, stops>>

-----------------------------------------------------------------------------
(* The handler of pair i: ++real_read_count_, pair_read(i), and then one   *)
(* of three things.  The read that pair_read() starts is tried at once, so *)
(* a byte that has already arrived replaces data_ before it is forwarded.  *)

HandlerBegins(i) ==
  /\ main = "run"
  /\ reading[i] = "ready"
  /\ reads' = reads + 1

\* pipe, data and reading when pair_read(i) has returned
PipeAfterRead(i) == [pipe EXCEPT ![i] = IF @ = <<>> THEN @ ELSE Tail(@)]
DataAfterRead(i) ==
  [data EXCEPT ![i] = IF pipe[i] = <<>> THEN @ ELSE Head(pipe[i])]
ReadingAfterRead(i) ==
  [reading EXCEPT ![i] = IF pipe[i] = <<>> THEN "waiting" ELSE "ready"]

\* next_i
Successor(i) == IF i + 1 >= PairCount THEN i + 1 - PairCount ELSE i + 1

\* Mutant of Forward: <= for <.
ForwardOneMore(i) ==
  /\ HandlerBegins(i)
  /\ reads + 1 <= WriteCount
  /\ data' = DataAfterRead(i)
  /\ reading' = ReadingAfterRead(i)
  /\ pipe' = [PipeAfterRead(i) EXCEPT
                ![Successor(i)] = Append(@, DataAfterRead(i)[i])]
  /\ writes' = writes + 1
  /\ UNCHANGED <<main, stops>>

\* Mutant of Forward: the write is not counted.
ForwardUncounted(i) ==
  /\ HandlerBegins(i)
  /\ reads + 1 < WriteCount
  /\ data' = DataAfterRead(i)
  /\ reading' = ReadingAfterRead(i)
  /\ pipe' = [PipeAfterRead(i) EXCEPT
                ![Successor(i)] = Append(@, DataAfterRead(i)[i])]
  /\ UNCHANGED <<main, writes, stops>>

\* Mutant of Forward: it sends data_ of the pair it writes to.
ForwardOther(i) ==
  /\ HandlerBegins(i)
  /\ reads + 1 < WriteCount
  /\ data' = DataAfterRead(i)
  /\ reading' = ReadingAfterRead(i)
  /\ pipe' = [PipeAfterRead(i) EXCEPT
                ![Successor(i)] = Append(@, DataAfterRead(i)[Successor(i)])]
  /\ writes' = writes + 1
  /\ UNCHANGED <<main, stops>>

\* pair_write(next_i, &ptr->data_)
Forward(i) ==
  /\ HandlerBegins(i)
  /\ reads + 1 < WriteCount
  /\ data' = DataAfterRead(i)
  /\ reading' = ReadingAfterRead(i)
  /\ pipe' = [PipeAfterRead(i) EXCEPT
                ![Successor(i)] = Append(@, DataAfterRead(i)[i])]
  /\ writes' = writes + 1
  /\ UNCHANGED <<main, stops>>

\* Mutant of Stop: the write counter is expected to be WriteCount.
StopAtExactCount(i) ==
  /\ HandlerBegins(i)
  /\ reads + 1 = WriteCount
  /\ reads + 1 = writes
  /\ reading' = [j \in Pairs |->
       IF ReadingAfterRead(i)[j] = "waiting" THEN "aborted"
                                             ELSE ReadingAfterRead(i)[j]]
  /\ pipe' = PipeAfterRead(i)
  /\ data' = DataAfterRead(i)
  /\ stops' = stops + 1
  /\ UNCHANGED <<main, writes>>

\* stop(): close() of every socket cancels the reads that wait.
Stop(i) ==
  /\ HandlerBegins(i)
  /\ reads + 1 >= WriteCount
  /\ reads + 1 = writes
  /\ reading' = [j \in Pairs |->
       IF ReadingAfterRead(i)[j] = "waiting" THEN "aborted"
                                             ELSE ReadingAfterRead(i)[j]]
  /\ pipe' = PipeAfterRead(i)
  /\ data' = DataAfterRead(i)
  /\ stops' = stops + 1
  /\ UNCHANGED <<main, writes>>

\* The target has been reached, but not all that was written has been read.
Drain(i) ==
  /\ HandlerBegins(i)
  /\ reads + 1 >= WriteCount
  /\ reads + 1 # writes
  /\ reading' = ReadingAfterRead(i)
  /\ pipe' = PipeAfterRead(i)
  /\ data' = DataAfterRead(i)
  /\ UNCHANGED <<main, writes, stops>>

\* The handler of a cancelled read does nothing.
Aborted(i) ==
  /\ main = "run"
  /\ reading[i] = "aborted"
  /\ reading' = [reading EXCEPT ![i] = "none"]
  /\ UNCHANGED <<main, pipe, data, reads, writes, stops>>

\* run() returns when no read is outstanding.
RunReturns ==
  /\ main = "run"
  /\ \A i \in Pairs : reading[i] = "none"
  /\ main' = "done"
  /\ UNCHANGED <<pipe, data, reading, reads, writes, stops>>

-----------------------------------------------------------------------------
PairStep(i) == Arrive(i) \/ Forward(i) \/ Stop(i) \/ Drain(i) \/ Aborted(i)

Step == StartWrite \/ EnterRun \/ (\E i \in Pairs : PairStep(i)) \/ RunReturns

Terminated == main = "done" /\ UNCHANGED vars

Next == Step \/ Terminated

\* The one thread goes on as long as something is left to do.
Spec == Init /\ [][Next]_vars /\ WF_vars(Step)

-----------------------------------------------------------------------------
(* Properties.                                                             *)

\* Bytes in the sockets, and read but not yet counted by their handler.
InPipes == SumFunction([i \in Pairs |-> Len(pipe[i])])
InHandlers == {i \in Pairs : reading[i] = "ready"}

\* The two counters, which are all that stop() goes by, tell how many bytes are
\* on their way; there are never more than ActiveCount, which is why the
\* synchronous writes do not block.
CountersTellInFlight ==
  /\ writes - reads = InPipes + Cardinality(InHandlers)
  /\ writes - reads <= ActiveCount

\* Every byte that goes round is first_ch_, although a handler lets the next
\* read into data_ before it forwards data_: data_ has never the initial '\0'
\* when it is forwarded.
OnlyFirstByte ==
  \A i \in Pairs : /\ \A k \in DOMAIN pipe[i] : pipe[i][k] = "m"
                   /\ reading[i] = "ready" => data[i] = "m"

\* When run() returns everything written has been read and the time has been
\* taken; the bytes written are WriteCount and those that were on their way
\* with the one that reached it.
FinalCount ==
  main = "done" =>
    /\ stops = 1
    /\ reads = writes
    /\ writes = ActiveCount + (IF WriteCount = 0 THEN 0 ELSE WriteCount - 1)

\* run() returns: the ring does not fall asleep before all is read.
RunDoesReturn == <>(main = "done")
=============================================================================
