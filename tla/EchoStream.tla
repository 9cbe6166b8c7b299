----------------------------- MODULE EchoStream -----------------------------
(***************************************************************************)
(* client2.cpp and server2.cpp: one connection, in which each end sends    *)
(* back whatever it receives.  A session has a stack of buffers.  Each     *)
(* async_read_some takes one; what it has read is written from the same    *)
(* buffer, while the next read is already outstanding, and the handler of  *)
(* the async_write_some puts the buffer back.  When the stack is empty     *)
(* nothing is read, until the handler of a write that finds it empty has   *)
(* put a buffer back and reads again.  The client starts it all with one   *)
(* block of BlockSize bytes.                                               *)
(*                                                                         *)
(* Handlers of a session are executed by one thread and are one step each. *)
(* Reads, and likewise writes, of one socket are queued by the reactor,    *)
(* performed in order, and their handlers are executed in order.  Sessions *)
(* do not share anything, so one is enough.                                *)
(***************************************************************************)
EXTENDS Integers, Sequences, FiniteSetsExt, SequencesExt

CONSTANTS
  Buffers,      \* kMaxStackSize
  BlockSize,    \* block_size_
  Spaces        \* how many bytes the sockets may hold in one direction, at a time

ASSUME StreamAssumption ==
  /\ Buffers \in Nat \ {0, 1}
  /\ BlockSize \in Nat \ {0}
  /\ Spaces \subseteq Nat \ {0}

VARIABLES
  space,      \* how many bytes the sockets always hold in either direction
  state,      \* of the socket of each end, see States
  free,       \* how many buffers are in the stack buffers_
  waiting,    \* how many async_read_some are queued in the reactor
  arrived,    \* what the reads have read whose handlers are queued
  unsent,     \* the data of the async_write_some queued in the reactor
  sent,       \* how many writes have been performed, their handlers queued
  wire,       \* the bytes on their way to each end
  broken,     \* the network has failed
  wantClose,  \* want_close_ of the client
  error       \* error_ of the client

bufferVars == <<free, waiting, arrived, unsent, sent>>
vars == <<space, state, bufferVars, wire, broken, wantClose, error>>

Ends == {"client", "server"}
Peer(e) == IF e = "client" THEN "server" ELSE "client"

\* The bytes of the client's block, told apart to see their order.
Bytes == 1 .. BlockSize

States ==
  {"new",      \* async_connect or async_accept is outstanding
   "open",     \* connected
   "refused",  \* async_connect has failed or was cancelled by stop()
   "closed"}   \* close() has been called

TypeOK ==
  /\ space \in Spaces
  /\ state \in [Ends -> States]
  /\ free \in [Ends -> 0 .. Buffers]
  /\ waiting \in [Ends -> 0 .. Buffers]
  /\ arrived \in [Ends -> Seq(Seq(Bytes))]
  /\ unsent \in [Ends -> Seq(Seq(Bytes))]
  /\ sent \in [Ends -> 0 .. Buffers]
  /\ wire \in [Ends -> Seq(Bytes)]
  /\ broken \in BOOLEAN
  /\ wantClose \in BOOLEAN
  /\ error \in BOOLEAN

Init ==
  /\ space \in Spaces
  /\ state = [e \in Ends |-> "new"]
  /\ free = [e \in Ends |-> Buffers]
  /\ waiting = [e \in Ends |-> 0]
  /\ arrived = [e \in Ends |-> <<>>]
  /\ unsent = [e \in Ends |-> <<>>]
  /\ sent = [e \in Ends |-> 0]
  /\ wire = [e \in Ends |-> <<>>]
  /\ broken = FALSE
  /\ wantClose = FALSE
  /\ error = FALSE

-----------------------------------------------------------------------------
\* read(), called when n buffers are in the stack of e: it takes one, or does
\* nothing if there is none.
Read(e, n) ==
  /\ free' = [free EXCEPT ![e] = IF n = 0 THEN 0 ELSE n - 1]
  /\ waiting' = [waiting EXCEPT ![e] = IF n = 0 THEN @ ELSE @ + 1]

\* The client's handler of async_connect: read(), and the first packet, from
\* a buffer of its own.
Connected ==
  /\ state["client"] = "new"
  /\ state' = [state EXCEPT !["client"] = "open"]
  /\ free' = [free EXCEPT !["client"] = @ - 2]
  /\ waiting' = [waiting EXCEPT !["client"] = @ + 1]
  /\ unsent' = [unsent EXCEPT !["client"] = <<[i \in Bytes |-> i]>>]
  /\ UNCHANGED <<space, arrived, sent, wire, broken, wantClose, error>>

\* It does nothing when the connection has failed.
Refused ==
  /\ state["client"] = "new"
  /\ state' = [state EXCEPT !["client"] = "refused"]
  /\ UNCHANGED <<space, bufferVars, wire, broken, wantClose, error>>

\* The server's handler of async_accept: start() of a new session.
Accept ==
  /\ state["server"] = "new"
  /\ state["client"] \in {"open", "closed"}
  /\ state' = [state EXCEPT !["server"] = "open"]
  /\ Read("server", free["server"])
  /\ UNCHANGED <<space, arrived, unsent, sent, wire, broken, wantClose, error>>

\* The first read is performed, with whatever part has arrived of what follows.
PerformRead(e) ==
  /\ state[e] = "open"
  /\ waiting[e] > 0
  /\ wire[e] # <<>>
  /\ waiting' = [waiting EXCEPT ![e] = @ - 1]
  /\ \E n \in 1 .. Min({Len(wire[e]), BlockSize}) :
       /\ arrived' = [arrived EXCEPT ![e] = Append(@, SubSeq(wire[e], 1, n))]
       /\ wire' = [wire EXCEPT ![e] = SubSeq(@, n + 1, Len(@))]
  /\ UNCHANGED <<space, state, free, unsent, sent, broken, wantClose, error>>

\* Mutant of ReadHandler: the next write is put before those outstanding.
ReadHandlerOvertakes(e) ==
  /\ arrived[e] # <<>>
  /\ arrived' = [arrived EXCEPT ![e] = Tail(@)]
  /\ unsent' = [unsent EXCEPT ![e] = <<Head(arrived[e])>> \o @]
  /\ Read(e, free[e])
  /\ UNCHANGED <<space, state, sent, wire, broken, wantClose, error>>

\* Mutant of ReadHandler: it does not go on reading until the write is done.
ReadHandlerNoRead(e) ==
  /\ arrived[e] # <<>>
  /\ arrived' = [arrived EXCEPT ![e] = Tail(@)]
  /\ unsent' = [unsent EXCEPT ![e] = Append(@, Head(arrived[e]))]
  /\ UNCHANGED <<space, state, free, waiting, sent, wire, broken, wantClose, error>>

\* Mutant of ReadHandler: when the stack is empty it returns without writing.
ReadHandlerGivesUp(e) ==
  /\ arrived[e] # <<>>
  /\ arrived' = [arrived EXCEPT ![e] = Tail(@)]
  /\ unsent' = [unsent EXCEPT ![e] =
       IF free[e] = 0 THEN @ ELSE Append(@, Head(arrived[e]))]
  /\ Read(e, free[e])
  /\ UNCHANGED <<space, state, sent, wire, broken, wantClose, error>>

\* The handler of a read: write(buffer, cb), then read().
ReadHandler(e) ==
  /\ arrived[e] # <<>>
  /\ arrived' = [arrived EXCEPT ![e] = Tail(@)]
  /\ unsent' = [unsent EXCEPT ![e] = Append(@, Head(arrived[e]))]
  /\ Read(e, free[e])
  /\ UNCHANGED <<space, state, sent, wire, broken, wantClose, error>>

\* The first write is performed as soon as there is room for a byte.  It sends
\* what there is room for; the handler does not compare cb with len, so that
\* the rest is never sent.  How many bytes the sockets hold in a direction is
\* another number for each write, and never less than space.
PerformWrite(e) ==
  /\ state[e] = "open"
  /\ unsent[e] # <<>>
  /\ \E capacity \in {s \in Spaces : s >= space} :
       LET room == capacity - Len(wire[Peer(e)])
           data == Head(unsent[e])
       IN  /\ room > 0
           /\ wire' = [wire EXCEPT ![Peer(e)] =
                @ \o SubSeq(data, 1, Min({Len(data), room}))]
  /\ unsent' = [unsent EXCEPT ![e] = Tail(@)]
  /\ sent' = [sent EXCEPT ![e] = @ + 1]
  /\ UNCHANGED <<space, state, free, waiting, arrived, broken, wantClose, error>>

\* Mutant of WriteHandler: empty() is read after the push.
WriteHandlerPushFirst(e) ==
  /\ sent[e] > 0
  /\ sent' = [sent EXCEPT ![e] = @ - 1]
  /\ free' = [free EXCEPT ![e] = @ + 1]
  /\ UNCHANGED <<space, state, waiting, arrived, unsent, wire, broken, wantClose, error>>

\* The handler of a write: need_read = empty(), push the buffer, read() if
\* need_read.
WriteHandler(e) ==
  /\ sent[e] > 0
  /\ sent' = [sent EXCEPT ![e] = @ - 1]
  /\ IF free[e] = 0
     THEN Read(e, 1)
     ELSE /\ free' = [free EXCEPT ![e] = @ + 1]
          /\ UNCHANGED waiting
  /\ UNCHANGED <<space, state, arrived, unsent, wire, broken, wantClose, error>>

-----------------------------------------------------------------------------
(* Failures and the end.                                                   *)

\* An outstanding operation of e may fail when its socket has been closed, the
\* peer has closed, or the network has failed.
MayFail(e) ==
  state[e] = "closed" \/ state[Peer(e)] = "closed" \/ broken

\* What a handler does with an error: the server closes its socket, the client
\* records the error unless it has closed the socket itself.
HandleError(e) ==
  IF e = "server"
  THEN /\ state' = [state EXCEPT ![e] = "closed"]
       /\ UNCHANGED error
  ELSE /\ error' = (error \/ ~wantClose)
       /\ UNCHANGED state

\* A read fails.  Its handler does not put the buffer back.
FailRead(e) ==
  /\ waiting[e] > 0
  /\ MayFail(e)
  /\ waiting' = [waiting EXCEPT ![e] = @ - 1]
  /\ HandleError(e)
  /\ UNCHANGED <<space, free, arrived, unsent, sent, wire, broken, wantClose>>

\* A write fails.  Its handler puts the buffer back but does not read.
FailWrite(e) ==
  /\ unsent[e] # <<>>
  /\ MayFail(e)
  /\ unsent' = [unsent EXCEPT ![e] = Tail(@)]
  /\ free' = [free EXCEPT ![e] = @ + 1]
  /\ HandleError(e)
  /\ UNCHANGED <<space, waiting, arrived, sent, wire, broken, wantClose>>

\* The network fails.
Break ==
  /\ ~broken
  /\ state["client"] \in {"open", "closed"}
  /\ broken' = TRUE
  /\ UNCHANGED <<space, state, bufferVars, wire, wantClose, error>>

\* close() of the client's socket; it cancels an async_connect, whose handler
\* then does nothing.
Close ==
  state' = [state EXCEPT !["client"] = IF @ = "open" THEN "closed" ELSE "refused"]

\* Mutant of Stop: want_close_ is not set.
StopSilently ==
  /\ state["client"] # "closed"
  /\ Close
  /\ UNCHANGED <<space, bufferVars, wire, broken, wantClose, error>>

\* Mutant of Stop: the socket is not closed.
StopNoClose ==
  /\ ~wantClose
  /\ wantClose' = TRUE
  /\ UNCHANGED <<space, state, bufferVars, wire, broken, error>>

\* The handler that stop(), called when the timer has expired, posts.
Stop ==
  /\ ~wantClose
  /\ wantClose' = TRUE
  /\ Close
  /\ UNCHANGED <<space, bufferVars, wire, broken, error>>

-----------------------------------------------------------------------------
EndStep(e) ==
  \/ PerformRead(e) \/ ReadHandler(e) \/ PerformWrite(e) \/ WriteHandler(e)
  \/ FailRead(e) \/ FailWrite(e)

\* A step of e that nothing may put off: a write is performed sooner or later only
\* if the bytes on their way leave some of the room there always is.
DueStep(e) ==
  \/ PerformRead(e) \/ ReadHandler(e) \/ WriteHandler(e)
  \/ Len(wire[Peer(e)]) < space /\ PerformWrite(e)
  \/ FailRead(e) \/ FailWrite(e)

Idle(e) ==
  waiting[e] = 0 /\ arrived[e] = <<>> /\ unsent[e] = <<>> /\ sent[e] = 0

\* The client has been stopped and no operation is outstanding.
Terminated ==
  /\ wantClose
  /\ state["client"] = "refused" \/ state = [e \in Ends |-> "closed"]
  /\ \A e \in Ends : Idle(e)
  /\ UNCHANGED vars

Next ==
  \/ Connected \/ Refused \/ Accept \/ (\E e \in Ends : EndStep(e))
  \/ Break \/ Stop \/ Terminated

\* Both programs keep running, and the sockets deliver and always hold space bytes.
Fairness ==
  /\ WF_vars(Connected \/ Refused)
  /\ WF_vars(Accept)
  /\ \A e \in Ends : WF_vars(DueStep(e))

Spec == Init /\ [][Next]_vars /\ Fairness

-----------------------------------------------------------------------------
(* Properties.                                                             *)

\* Nothing has gone wrong with the connection of e and nobody has closed it.
Healthy(e) == state[e] = "open" /\ ~MayFail(e)

\* When no read is outstanding, all the buffers are with writes, so that the
\* first of them to return resumes the reading: a session that is healthy can
\* not fall silent.
ReadingResumes ==
  \A e \in Ends : Healthy(e) /\ waiting[e] = 0 /\ arrived[e] = <<>> =>
    Len(unsent[e]) + sent[e] = Buffers

\* All the bytes that go round, the next to be handled by the client first.
Loop ==
  FlattenSeq(arrived["client"]) \o wire["client"]
    \o FlattenSeq(unsent["server"]) \o FlattenSeq(arrived["server"])
    \o wire["server"] \o FlattenSeq(unsent["client"])

\* The bytes go round in their order, none twice, although several reads and
\* several writes of a socket may be outstanding: from one to the next the number
\* grows, but for the place where the block begins again.
InOrder ==
  LET Next1(i) == IF i = Len(Loop) THEN 1 ELSE i + 1
      falls    == {i \in DOMAIN Loop : Loop[Next1(i)] <= Loop[i]}
  IN  Cardinality(falls) <= 1

\* README.md:35: an echo of data of any length.  So the server sends back what it
\* has read: when one of its writes is performed no byte is lost.
EchoComplete ==
  [][(\A e \in Ends : Healthy(e)) /\ sent'["server"] > sent["server"] =>
       Len(Loop') = Len(Loop)]_vars

\* Either end may write short any number of times, each write finding another
\* room.  What they drop are never the last bytes, and nothing is dropped if the
\* sockets always have room for a block: as long as the connection is healthy
\* something goes round.
EchoSurvives ==
  (\A e \in Ends : Healthy(e)) =>
    /\ Loop # <<>>
    /\ space >= BlockSize => Len(Loop) = BlockSize

\* The client records an error only if something failed: closing the socket in
\* stop() makes its operations fail, and the server close, without one.
ErrorMeansFailure == error => broken

\* Unless it is stopped or fails the client reads again and again.
EchoGoesOn ==
  \/ []<>(arrived["client"] # <<>>)
  \/ <>(wantClose \/ broken \/ state["client"] = "refused")

\* After stop() no operation of the client or the server remains, so the client's
\* run() returns and the server's session is destroyed.
StopEndsSession == wantClose ~> (Idle("client") /\ Idle("server"))
=============================================================================
