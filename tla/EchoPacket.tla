----------------------------- MODULE EchoPacket -----------------------------
(***************************************************************************)
(* client3.cpp and server3.cpp: one connection, over which a packet with a *)
(* header goes to and fro.  The header has the size of the body, which the *)
(* client changes from packet to packet, and a count, which either end     *)
(* increments before it sends the packet.  Both ends have a total_count_   *)
(* of their own and close the connection when the count has reached it;    *)
(* the client then counts the session as finished.                         *)
(*                                                                         *)
(* A handler is executed by the one thread of its io_service and is one    *)
(* step.  A packet travels as two units, header and body, since they are   *)
(* read separately and the body may arrive later.  Sessions do not share   *)
(* anything, so one is enough.                                             *)
(***************************************************************************)
EXTENDS Integers, Sequences

CONSTANTS
  Totals,     \* the values of total_count_ to consider
  MinBody,    \* 100, the initial body_len_
  MaxBody     \* 10000, also the size of buffer_ less that of the header

ASSUME PacketAssumption ==
  /\ Totals \subseteq Nat
  /\ MinBody \in Nat
  /\ MaxBody \in Nat
  /\ MinBody <= MaxBody

VARIABLES
  total,      \* total_count_ of each end
  pc,         \* the operation each end waits for, or how it ended, see PCs
  header,     \* the header in buffer_ of each end
  unsent,     \* the units of its async_write that an end has yet to send
  wire,       \* the units on their way to each end, or arrived and not read
  open,       \* whether the socket of each end is open
  broken,     \* the network has failed
  bodyLen     \* body_len_ of the client

vars == <<total, pc, header, unsent, wire, open, broken, bodyLen>>

Ends == {"client", "server"}
Peer(e) == IF e = "client" THEN "server" ELSE "client"

Waiting == {"write", "read_head", "read_body"}

PCs == Waiting \cup
  {"connect",   \* the client's async_connect is outstanding
   "refused",   \* it has failed
   "accept",    \* the server has not yet accepted the connection
   "finished",  \* it saw its total_count_ reached and closed the socket
   "failed"}    \* an operation has failed

Headers == [size : 0 .. MaxBody, count : Nat]
Units == [kind : {"head"}, header : Headers] \cup [kind : {"body"}, size : Nat]

TypeOK ==
  /\ total \in [Ends -> Totals]
  /\ pc \in [Ends -> PCs]
  /\ header \in [Ends -> Headers]
  /\ unsent \in [Ends -> Seq(Units)]
  /\ wire \in [Ends -> Seq(Units)]
  /\ open \in [Ends -> BOOLEAN]
  /\ broken \in BOOLEAN
  /\ bodyLen \in MinBody .. MaxBody + 1

\* start() of the client: async_connect.  (buffer_ is not initialised, and not
\* read before it has been written.)
Init ==
  /\ total \in [Ends -> Totals]
  /\ pc = [e \in Ends |-> IF e = "client" THEN "connect" ELSE "accept"]
  /\ header = [e \in Ends |-> [size |-> 0, count |-> 0]]
  /\ unsent = [e \in Ends |-> <<>>]
  /\ wire = [e \in Ends |-> <<>>]
  /\ open = [e \in Ends |-> TRUE]
  /\ broken = FALSE
  /\ bodyLen = MinBody

-----------------------------------------------------------------------------
\* Mutant of BodyLen: it starts again one packet too late.
BodyLenTooLong == IF bodyLen > MaxBody + 1 THEN MinBody ELSE bodyLen

\* get_body_len(); it leaves body_len_ at BodyLen + 1.
BodyLen == IF bodyLen > MaxBody THEN MinBody ELSE bodyLen

\* check_count()
CheckCount(e) == header[e].count >= total[e]

\* write(): send header and body of buffer_, in which the header is h.
Write(e, h) ==
  /\ pc' = [pc EXCEPT ![e] = "write"]
  /\ header' = [header EXCEPT ![e] = h]
  /\ unsent' = [unsent EXCEPT ![e] = <<[kind |-> "head", header |-> h],
                                       [kind |-> "body", size |-> h.size]>>]

\* read_head(), or what follows on a header: read_body()
Read(e, part) ==
  /\ pc' = [pc EXCEPT ![e] = part]
  /\ UNCHANGED <<unsent, open, bodyLen>>

\* check_count() holds: socket_.close().
Finish(e) ==
  /\ pc' = [pc EXCEPT ![e] = "finished"]
  /\ open' = [open EXCEPT ![e] = FALSE]
  /\ UNCHANGED <<unsent, bodyLen>>

-----------------------------------------------------------------------------
(* The steps of the client.                                                *)

\* The handler of async_connect: the first packet.
Connected ==
  /\ pc["client"] = "connect"
  /\ Write("client", [size |-> BodyLen, count |-> 1])
  /\ bodyLen' = BodyLen + 1
  /\ UNCHANGED <<total, wire, open, broken>>

\* It does nothing when the connection has failed.
Refused ==
  /\ pc["client"] = "connect"
  /\ pc' = [pc EXCEPT !["client"] = "refused"]
  /\ UNCHANGED <<total, header, unsent, wire, open, broken, bodyLen>>

\* The handler of async_write: read_head().
ClientWritten ==
  /\ pc["client"] = "write"
  /\ unsent["client"] = <<>>
  /\ Read("client", "read_head")
  /\ UNCHANGED <<total, header, wire, broken>>

\* A body has been read from the wire into buffer_.
BodyArrives(e) ==
  /\ pc[e] = "read_body"
  /\ wire[e] # <<>>
  /\ wire' = [wire EXCEPT ![e] = Tail(@)]

\* The handler of the client's async_read of a body: finish, or the next packet
\* with the next length and the next count.
ClientReadBody ==
  /\ BodyArrives("client")
  /\ \/ /\ CheckCount("client")
        /\ Finish("client")
        /\ UNCHANGED header
     \/ /\ ~CheckCount("client")
        /\ Write("client",
                 [size |-> BodyLen, count |-> header["client"].count + 1])
        /\ bodyLen' = BodyLen + 1
        /\ UNCHANGED open
  /\ UNCHANGED <<total, broken>>

-----------------------------------------------------------------------------
(* The steps of the server.                                                *)

\* The handler of async_accept: start() of a new session.
Accept ==
  /\ pc["server"] = "accept"
  /\ pc["client"] \notin {"connect", "refused"}
  /\ Read("server", "read_head")
  /\ UNCHANGED <<total, header, wire, broken>>

\* The handler of async_write: finish, or read_head().
ServerWritten ==
  /\ pc["server"] = "write"
  /\ unsent["server"] = <<>>
  /\ \/ CheckCount("server") /\ Finish("server")
     \/ ~CheckCount("server") /\ Read("server", "read_head")
  /\ UNCHANGED <<total, header, wire, broken>>

\* Mutant of ServerReadBody: every packet is sent back, the last one as well.
ServerReadBodyNoCheck ==
  /\ BodyArrives("server")
  /\ Write("server", [header["server"] EXCEPT !.count = @ + 1])
  /\ UNCHANGED <<total, open, broken, bodyLen>>

\* Mutant of ServerReadBody: the socket is left open.
ServerReadBodyNoClose ==
  /\ BodyArrives("server")
  /\ \/ /\ CheckCount("server")
        /\ pc' = [pc EXCEPT !["server"] = "finished"]
        /\ UNCHANGED <<unsent, header>>
     \/ /\ ~CheckCount("server")
        /\ Write("server", [header["server"] EXCEPT !.count = @ + 1])
  /\ UNCHANGED <<total, open, broken, bodyLen>>

\* The handler of the server's async_read of a body: finish without an answer,
\* or send the packet back with the next count.
ServerReadBody ==
  /\ BodyArrives("server")
  /\ \/ /\ CheckCount("server")
        /\ Finish("server")
        /\ UNCHANGED header
     \/ /\ ~CheckCount("server")
        /\ Write("server", [header["server"] EXCEPT !.count = @ + 1])
        /\ UNCHANGED <<open, bodyLen>>
  /\ UNCHANGED <<total, broken>>

-----------------------------------------------------------------------------
(* The steps both ends have, and the network.                              *)

\* The handler of async_read of a header: read_body().
ReadHead(e) ==
  /\ pc[e] = "read_head"
  /\ wire[e] # <<>>
  /\ header' = [header EXCEPT ![e] = Head(wire[e]).header]
  /\ wire' = [wire EXCEPT ![e] = Tail(@)]
  /\ Read(e, "read_body")
  /\ UNCHANGED <<total, broken>>

\* async_write sends the next unit.
Send(e) ==
  /\ unsent[e] # <<>>
  /\ wire' = [wire EXCEPT ![Peer(e)] = Append(@, Head(unsent[e]))]
  /\ unsent' = [unsent EXCEPT ![e] = Tail(@)]
  /\ UNCHANGED <<total, pc, header, open, broken, bodyLen>>

\* An operation of e may fail when the network has, or the peer has closed its
\* socket and e has read everything, or the peer had not read everything.
MayFail(e) ==
  /\ pc[e] \in Waiting
  /\ pc[e] = "write" => unsent[e] # <<>>
  /\ \/ broken
     \/ ~open[Peer(e)] /\ (wire[e] = <<>> \/ wire[Peer(e)] # <<>>)

\* A handler with an error does nothing.  The server's session, which only the
\* handlers held, is destroyed and with it the socket; the client's are kept.
Fail(e) ==
  /\ MayFail(e)
  /\ pc' = [pc EXCEPT ![e] = "failed"]
  /\ unsent' = [unsent EXCEPT ![e] = <<>>]
  /\ open' = [open EXCEPT ![e] = (e = "client")]
  /\ UNCHANGED <<total, header, wire, broken, bodyLen>>

\* The network fails.
Break ==
  /\ ~broken
  /\ pc["client"] \notin {"connect", "refused"}
  /\ broken' = TRUE
  /\ UNCHANGED <<total, pc, header, unsent, wire, open, bodyLen>>

-----------------------------------------------------------------------------
Both(e) == ReadHead(e) \/ Send(e) \/ Fail(e)

Client == \/ Connected \/ Refused \/ ClientWritten \/ ClientReadBody
          \/ Both("client")

Server == Accept \/ ServerWritten \/ ServerReadBody \/ Both("server")

\* Neither end waits for anything any more.
Terminated ==
  /\ pc["client"] \in {"refused", "finished", "failed"}
  /\ pc["server"] \in {"finished", "failed"} \/ pc["client"] = "refused"
  /\ UNCHANGED vars

Next == Client \/ Server \/ Break \/ Terminated

\* Both programs keep running and the network delivers, unless it breaks.
Fairness == WF_vars(Client) /\ WF_vars(Server)

Spec == Init /\ [][Next]_vars /\ Fairness

-----------------------------------------------------------------------------
(* Properties.                                                             *)

\* What e still has to read, in order.
Incoming(e) == wire[e] \o unsent[Peer(e)]

\* The two ends never lose their place in the stream: who waits for a header
\* has a header next, who waits for a body has the body that its buffer_
\* announces; and a body always fits buffer_.
FramesAligned ==
  \A e \in Ends :
    /\ header[e].size <= MaxBody
    /\ Incoming(e) # <<>> =>
         /\ pc[e] \in {"accept", "read_head"} => Head(Incoming(e)).kind = "head"
         /\ pc[e] = "read_body" =>
              Head(Incoming(e)) = [kind |-> "body", size |-> header[e].size]

\* One packet at a time: it is on its way in one direction only, and the counts
\* of the two ends are at most one apart.
LockStep ==
  /\ \E e \in Ends : Incoming(e) = <<>>
  /\ header["client"].count - header["server"].count \in -1 .. 1

\* The client receives the even counts, and finishes with the first of them that
\* reaches its total_count_.
LastCount == IF total["client"] <= 2 THEN 2
             ELSE total["client"] + (total["client"] % 2)

\* How a session ends, if the network does not fail, is a matter of the two
\* totals: it is finished if the server has not closed the connection before the
\* client's last packet came back, that is with equal totals if they are even,
\* and failed otherwise.
ResultByTotals ==
  /\ pc["client"] = "finished" => /\ header["client"].count = LastCount
                                  /\ LastCount <= total["server"]
  /\ pc["client"] = "failed" /\ ~broken => LastCount > total["server"]

\* Whichever end closes the connection, the other is not left waiting: every
\* session of the client ends, so wait() returns, and so does the server's.
SessionsEnd ==
  /\ <>(pc["client"] \in {"refused", "finished", "failed"})
  /\ pc["server"] \in Waiting ~> pc["server"] \in {"finished", "failed"}
=============================================================================
