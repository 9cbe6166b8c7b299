------------------------- MODULE EchoPacket_proofs -------------------------
(***************************************************************************)
(* Proofs about the clients whose transfers have a known length: of the    *)
(* safety properties of EchoPacket (client3 and server3), for all sets of  *)
(* totals and all body lengths, and at the end of EchoBlocks (client1 and  *)
(* server1), for all numbers of sessions and threads.  In both             *)
(* nobody is left waiting for what cannot come.                            *)
(***************************************************************************)
EXTENDS EchoPacket, SequenceTheorems, TLAPS

-----------------------------------------------------------------------------
(* The inductive invariant.  A session goes through stages, in a circle:   *)
(* the client's packet is on its way, the server has read its header, the  *)
(* answer is on its way, the client has read its header.  In each stage we *)
(* know what is in the sockets and how the two counts are related.         *)

HeadOf(h) == [kind |-> "head", header |-> h]
BodyOf(h) == [kind |-> "body", size |-> h.size]

\* Nothing is on its way from e.
Silent(e) == unsent[e] = <<>> /\ wire[Peer(e)] = <<>>

\* The packet that e has in buffer_ is on its way; if e has failed only a part
\* of it may be.
PacketOnWay(e) ==
  LET h == HeadOf(header[e])
      b == BodyOf(header[e])
  IN  \/ unsent[e] = <<h, b>> /\ wire[Peer(e)] = <<>>
      \/ unsent[e] = <<b>>    /\ wire[Peer(e)] = <<h>>
      \/ unsent[e] = <<>>     /\ wire[Peer(e)] = <<h, b>>
      \/ pc[e] = "failed" /\ unsent[e] = <<>> /\ wire[Peer(e)] = <<h>>
      \/ pc[e] = "failed" /\ unsent[e] = <<>> /\ wire[Peer(e)] = <<>>

\* Its header has been read and its body is still on its way.
BodyOnWay(e) ==
  LET b == BodyOf(header[e])
  IN  \/ unsent[e] = <<b>> /\ wire[Peer(e)] = <<>>
      \/ unsent[e] = <<>>  /\ wire[Peer(e)] = <<b>>
      \/ pc[e] = "failed" /\ unsent[e] = <<>> /\ wire[Peer(e)] = <<>>

C == header["client"].count
S == header["server"].count

Sender == {"write", "read_head", "failed"}

NotConnected ==
  /\ C = 0 /\ S = 0
  /\ pc["client"] \in {"connect", "refused"}
  /\ pc["server"] = "accept"
  /\ Silent("client") /\ Silent("server")

ClientSent ==
  /\ C % 2 = 1 /\ S = C - 1
  /\ pc["client"] \in Sender
  /\ pc["server"] \in Sender \cup {"accept", "finished"}
  /\ PacketOnWay("client") /\ Silent("server")

ServerReading ==
  /\ C % 2 = 1 /\ header["server"] = header["client"]
  /\ pc["client"] \in Sender
  /\ pc["server"] \in {"read_body", "failed"}
  /\ BodyOnWay("client") /\ Silent("server")

ServerDone ==
  /\ C % 2 = 1 /\ S = C
  /\ pc["client"] \in Sender
  /\ pc["server"] = "finished"
  /\ Silent("client") /\ Silent("server")

ServerSent ==
  /\ C % 2 = 1 /\ S = C + 1
  /\ pc["client"] \in Sender
  /\ pc["server"] \in Sender \cup {"finished"}
  /\ PacketOnWay("server") /\ Silent("client")

ClientReading ==
  /\ C % 2 = 0 /\ C > 0 /\ header["server"] = header["client"]
  /\ pc["client"] \in {"read_body", "failed"}
  /\ pc["server"] \in Sender \cup {"finished"}
  /\ BodyOnWay("server") /\ Silent("client")

ClientDone ==
  /\ C % 2 = 0 /\ C > 0 /\ S = C
  /\ pc["client"] = "finished"
  /\ pc["server"] \in Sender \cup {"finished"}
  /\ Silent("client") /\ Silent("server")

Stages == \/ NotConnected \/ ClientSent \/ ServerReading \/ ServerDone
          \/ ServerSent \/ ClientReading \/ ClientDone

\* Only who has something to send is in async_write, and sockets are closed at
\* the end, but not by a client that failed.
EndInv ==
  \A e \in Ends :
    /\ pc[e] # "write" => unsent[e] = <<>>
    /\ open[e] = ~(pc[e] = "finished" \/ (e = "server" /\ pc[e] = "failed"))

\* No end has sent a packet after its total was reached, and who is finished has
\* reached it.
TotalInv ==
  /\ C % 2 = 1 /\ C > 1 => C <= total["client"]
  /\ C % 2 = 0 /\ C > 2 => C - 1 <= total["client"]
  /\ S % 2 = 0 /\ S > 0 => S <= total["server"]
  /\ \A e \in Ends : pc[e] = "finished" => header[e].count >= total[e]

\* Without a failure of the network an end fails only because the other has
\* finished.
FailInv ==
  ~broken =>
    /\ pc["server"] = "failed" => pc["client"] = "finished"
    /\ pc["client"] = "failed" => C % 2 = 1 /\ total["server"] <= C

IInv == TypeOK /\ Stages /\ EndInv /\ TotalInv /\ FailInv

-----------------------------------------------------------------------------
\* What the steps do to the short sequences of units.
LEMMA ShortSequences ==
  ASSUME NEW a, NEW b
  PROVE  /\ Head(<<a>>) = a /\ Tail(<<a>>) = <<>>
         /\ Head(<<a, b>>) = a /\ Tail(<<a, b>>) = <<b>>
         /\ Append(<<>>, a) = <<a>> /\ Append(<<a>>, b) = <<a, b>>
         /\ <<a>> # <<>> /\ <<a, b>> # <<>> /\ <<a>> # <<a, b>>
<1> DEFINE one == <<a>>
           two == <<a, b>>
<1>1. one \in Seq({a, b}) /\ two \in Seq({a, b}) /\ Append(one, b) \in Seq({a, b})
  OBVIOUS
<1>2. Len(Append(one, b)) = 2 /\ Append(one, b)[1] = a /\ Append(one, b)[2] = b
  BY <1>1
<1>3. Len(two) = 2 /\ two[1] = a /\ two[2] = b
  OBVIOUS
<1>4. \A i \in 1 .. 2 : i = 1 \/ i = 2
  OBVIOUS
<1>5. Append(one, b) = two
  <2> HIDE DEF one, two
  <2>1. QED
    BY <1>1, <1>2, <1>3, <1>4, SeqEqual
<1>6. Tail(one) = <<>> /\ Tail(two) = <<b>>
  OBVIOUS
<1>7. QED
  BY <1>5, <1>6

\* The units of a header are units.
LEMMA UnitsOfHeader ==
  ASSUME NEW h \in Headers
  PROVE  /\ HeadOf(h) \in Units /\ BodyOf(h) \in Units
         /\ HeadOf(h) # BodyOf(h)
         /\ HeadOf(h).header = h
         /\ <<HeadOf(h)>> \in Seq(Units) /\ <<BodyOf(h)>> \in Seq(Units)
         /\ <<HeadOf(h), BodyOf(h)>> \in Seq(Units)
<1>1. HeadOf(h) \in Units /\ BodyOf(h) \in Units
  BY PacketAssumption DEF HeadOf, BodyOf, Headers, Units
<1>2. HeadOf(h) # BodyOf(h) /\ HeadOf(h).header = h
  BY DEF HeadOf, BodyOf
<1>3. QED
  BY <1>1, <1>2

-----------------------------------------------------------------------------
\* The initial states satisfy the inductive invariant.
LEMMA InitIInv == Init => IInv
<1> SUFFICES ASSUME Init PROVE IInv
  OBVIOUS
<1>1. [size |-> 0, count |-> 0] \in Headers /\ <<>> \in Seq(Units)
  BY PacketAssumption DEF Headers
<1>2. TypeOK
  <2>1. unsent \in [Ends -> Seq(Units)] /\ wire \in [Ends -> Seq(Units)]
    BY <1>1, Zenon DEF Init
  <2>2. header \in [Ends -> Headers]
    BY <1>1 DEF Init
  <2>3. pc \in [Ends -> PCs]
    BY DEF Init, Ends, PCs
  <2>4. bodyLen \in MinBody .. MaxBody + 1
    BY PacketAssumption DEF Init
  <2>5. open \in [Ends -> BOOLEAN]
    BY DEF Init
  <2>6. QED
    BY <2>1, <2>2, <2>3, <2>4, <2>5 DEF Init, TypeOK
<1>3. C = 0 /\ S = 0
  BY DEF Init, C, S, Ends
<1>4. Stages
  BY <1>3 DEF Init, Stages, NotConnected, Silent, Peer, Ends
<1>5. TotalInv
  <2>1. \A e \in Ends : pc[e] # "finished"
    BY DEF Init, Ends
  <2>2. QED
    BY <1>3, <2>1 DEF TotalInv
<1>6. EndInv /\ FailInv
  BY DEF Init, EndInv, FailInv, Ends
<1>7. QED
  BY <1>2, <1>4, <1>5, <1>6 DEF IInv

-----------------------------------------------------------------------------
\* The counts are natural numbers, of which every second is even.
LEMMA Counts ==
  ASSUME TypeOK
  PROVE  /\ C \in Nat /\ S \in Nat
         /\ header["client"] \in Headers /\ header["server"] \in Headers
         /\ total["client"] \in Nat /\ total["server"] \in Nat
         /\ \A n \in Nat : /\ n % 2 = 0 <=> (n + 1) % 2 = 1
                           /\ n % 2 = 1 <=> (n + 1) % 2 = 0
<1>1. header["client"] \in Headers /\ header["server"] \in Headers
  BY DEF TypeOK, Ends
<1>2. C \in Nat /\ S \in Nat
  BY <1>1 DEF C, S, Headers
<1>3. \A n \in Nat : /\ n % 2 = 0 <=> (n + 1) % 2 = 1
                     /\ n % 2 = 1 <=> (n + 1) % 2 = 0
  OBVIOUS
<1>4. total["client"] \in Totals /\ total["server"] \in Totals
  BY DEF TypeOK, Ends
<1>5. QED
  BY <1>1, <1>2, <1>3, <1>4, PacketAssumption

\* get_body_len() returns a length that fits the buffer.
LEMMA BodyLenFits ==
  ASSUME TypeOK
  PROVE  /\ BodyLen \in MinBody .. MaxBody
         /\ BodyLen \in 0 .. MaxBody
         /\ BodyLen + 1 \in MinBody .. MaxBody + 1
  BY PacketAssumption DEF TypeOK, BodyLen

\* write() keeps the types.
LEMMA WriteTypes ==
  ASSUME TypeOK, NEW e \in Ends, NEW h \in Headers, Write(e, h)
  PROVE  /\ pc' \in [Ends -> PCs]
         /\ header' \in [Ends -> Headers]
         /\ unsent' \in [Ends -> Seq(Units)]
         /\ unsent' = [unsent EXCEPT ![e] = <<HeadOf(h), BodyOf(h)>>]
<1>1. unsent' = [unsent EXCEPT ![e] = <<HeadOf(h), BodyOf(h)>>]
  BY DEF Write, HeadOf, BodyOf
<1>2. <<HeadOf(h), BodyOf(h)>> \in Seq(Units)
  BY UnitsOfHeader
<1>3. pc' \in [Ends -> PCs]
  BY DEF Write, TypeOK, PCs, Waiting
<1>4. QED
  BY <1>1, <1>2, <1>3 DEF Write, TypeOK

\* Reading from the wire keeps the types.
LEMMA WireTypes ==
  ASSUME TypeOK, NEW e \in Ends, wire[e] # <<>>,
         wire' = [wire EXCEPT ![e] = Tail(@)]
  PROVE  wire' \in [Ends -> Seq(Units)]
<1>1. wire[e] \in Seq(Units)
  BY DEF TypeOK
<1>2. Tail(wire[e]) \in Seq(Units)
  BY <1>1
<1>3. QED
  BY <1>2 DEF TypeOK

-----------------------------------------------------------------------------
\* The client's first packet starts the circle.
LEMMA ConnectedStep ==
  ASSUME IInv, Connected
  PROVE  IInv'
<1> DEFINE h == [size |-> BodyLen, count |-> 1]
<1>1. h \in Headers /\ h.count = 1
  BY BodyLenFits DEF Headers, IInv
<1>2. NotConnected
  BY DEF IInv, Stages, Connected, ClientSent, ServerReading, ServerDone,
     ServerSent, ClientReading, ClientDone, Sender
<1>3. /\ pc' = [pc EXCEPT !["client"] = "write"]
      /\ header' = [header EXCEPT !["client"] = h]
      /\ bodyLen' = BodyLen + 1
      /\ UNCHANGED <<total, wire, open, broken>>
      /\ Write("client", h)
  BY DEF Connected, Write
<1> HIDE DEF h
<1>4. /\ pc' \in [Ends -> PCs] /\ header' \in [Ends -> Headers]
      /\ unsent' \in [Ends -> Seq(Units)]
      /\ unsent' = [unsent EXCEPT !["client"] = <<HeadOf(h), BodyOf(h)>>]
  BY <1>1, <1>3, WriteTypes DEF IInv, Ends
<1>5. TypeOK'
  BY <1>3, <1>4, BodyLenFits DEF IInv, TypeOK
<1>6. C' = 1 /\ S' = 0
  BY <1>1, <1>2, <1>3 DEF C, S, IInv, TypeOK, Ends, NotConnected
<1>7. ClientSent'
  <2>1. C' % 2 = 1 /\ S' = C' - 1
    BY <1>6
  <2>2. QED
    BY <2>1, <1>2, <1>3, <1>4 DEF IInv, TypeOK, Ends, NotConnected, ClientSent,
       Sender, PacketOnWay, Silent, Peer
<1>8. EndInv' /\ TotalInv' /\ FailInv'
  BY <1>2, <1>3, <1>4, <1>6
  DEF IInv, TypeOK, Ends, NotConnected, EndInv, TotalInv, FailInv
<1>9. QED
  BY <1>5, <1>7, <1>8 DEF IInv, Stages

\* A refused connection has no counts.
LEMMA RefusedStep ==
  ASSUME IInv, Refused
  PROVE  IInv'
<1>1. NotConnected
  BY DEF IInv, Stages, Refused, ClientSent, ServerReading, ServerDone,
     ServerSent, ClientReading, ClientDone, Sender
<1>2. C' = C /\ S' = S
  BY DEF Refused, C, S
<1>3. NotConnected'
  BY <1>1, <1>2 DEF Refused, NotConnected, Silent, IInv, TypeOK, Ends
<1>4. TypeOK'
  BY DEF Refused, IInv, TypeOK, PCs
<1>5. EndInv' /\ TotalInv' /\ FailInv'
  BY <1>1, <1>2
  DEF Refused, IInv, TypeOK, Ends, NotConnected, EndInv, TotalInv, FailInv
<1>6. QED
  BY <1>3, <1>4, <1>5 DEF IInv, Stages

\* The client waits for the answer; the stage remains.
LEMMA ClientWrittenStep ==
  ASSUME IInv, ClientWritten
  PROVE  IInv'
<1>1. /\ pc["client"] = "write"
      /\ pc' = [pc EXCEPT !["client"] = "read_head"]
      /\ UNCHANGED <<total, header, unsent, wire, open, broken, bodyLen>>
      /\ unsent["client"] = <<>>
  BY DEF ClientWritten, Read
<1>2. C' = C /\ S' = S
  BY <1>1 DEF C, S
<1>3. /\ (pc["client"])' = "read_head"
      /\ (pc["server"])' = pc["server"]
  BY <1>1 DEF IInv, TypeOK, Ends
<1>4. /\ PacketOnWay("client") => PacketOnWay("client")'
      /\ PacketOnWay("server") => PacketOnWay("server")'
      /\ BodyOnWay("client") => BodyOnWay("client")'
      /\ \A e \in Ends : Silent(e) => Silent(e)'
  BY <1>1, <1>3 DEF PacketOnWay, BodyOnWay, Silent, Peer, HeadOf, BodyOf
<1>5. Stages'
  BY <1>1, <1>2, <1>3, <1>4
  DEF IInv, Stages, NotConnected, ClientSent, ServerReading, ServerDone,
      ServerSent, ClientReading, ClientDone, Sender, Ends
<1>6. TypeOK'
  BY <1>1 DEF IInv, TypeOK, PCs, Waiting
<1>7. EndInv'
  BY <1>1 DEF IInv, TypeOK, Ends, EndInv
<1>8. TotalInv' /\ FailInv'
  BY <1>1, <1>2, <1>3 DEF IInv, TypeOK, Ends, TotalInv, FailInv
<1>9. QED
  BY <1>5, <1>6, <1>7, <1>8 DEF IInv
\* The client finishes or sends its next packet.
LEMMA ClientReadBodyStep ==
  ASSUME IInv, ClientReadBody
  PROVE  IInv'
<1>0. /\ pc["client"] = "read_body" /\ wire["client"] # <<>>
      /\ wire' = [wire EXCEPT !["client"] = Tail(@)]
      /\ UNCHANGED <<total, broken>>
  BY DEF ClientReadBody, BodyArrives
<1>1. ClientReading
  BY <1>0 DEF IInv, Stages, NotConnected, ClientSent, ServerReading, ServerDone,
     ServerSent, ClientDone, Sender
<1>2. /\ unsent["server"] = <<>> /\ unsent["client"] = <<>>
      /\ wire["client"] = <<BodyOf(header["server"])>> /\ wire["server"] = <<>>
  BY <1>0, <1>1 DEF ClientReading, BodyOnWay, Silent, Peer, HeadOf, BodyOf
<1>3. /\ wire' = [wire EXCEPT !["client"] = <<>>]
      /\ wire' \in [Ends -> Seq(Units)]
  BY <1>0, <1>2, ShortSequences, WireTypes DEF IInv, Ends
<1>4. /\ C \in Nat /\ S \in Nat /\ C > 0 /\ S = C /\ C % 2 = 0 /\ (C + 1) % 2 = 1
      /\ pc["server"] \in Sender \cup {"finished"}
  BY <1>1, Counts DEF IInv, ClientReading, C, S
<1>5. CASE CheckCount("client") /\ Finish("client") /\ UNCHANGED header
  <2>1. /\ pc' = [pc EXCEPT !["client"] = "finished"]
        /\ open' = [open EXCEPT !["client"] = FALSE]
        /\ UNCHANGED <<total, header, unsent, broken, bodyLen>>
    BY <1>0, <1>5 DEF Finish
  <2>2. C' = C /\ S' = S
    BY <2>1 DEF C, S
  <2>3. ClientDone'
    BY <1>2, <1>3, <1>4, <2>1, <2>2
    DEF IInv, TypeOK, Ends, ClientDone, Sender, Silent, Peer
  <2>4. pc' \in [Ends -> PCs] /\ open' \in [Ends -> BOOLEAN]
    BY <2>1 DEF IInv, TypeOK, PCs
  <2>5. TypeOK'
    BY <1>3, <2>1, <2>4 DEF IInv, TypeOK
  <2>6. EndInv'
    BY <1>2, <2>1 DEF IInv, TypeOK, Ends, EndInv
  <2>7. TotalInv' /\ FailInv'
    BY <1>5, <2>1, <2>2 DEF IInv, TypeOK, Ends, TotalInv, FailInv, CheckCount, C, S
  <2>8. QED
    BY <2>3, <2>5, <2>6, <2>7 DEF IInv, Stages
<1>6. ASSUME NEW h, h = [size |-> BodyLen, count |-> header["client"].count + 1],
             ~CheckCount("client"), Write("client", h), bodyLen' = BodyLen + 1,
             UNCHANGED open
      PROVE  IInv'
  <2>1. h \in Headers /\ h.count = C + 1
    BY <1>4, <1>6, BodyLenFits DEF Headers, IInv, C
  <2>2. /\ pc' = [pc EXCEPT !["client"] = "write"]
        /\ header' = [header EXCEPT !["client"] = h]
        /\ UNCHANGED <<total, open, broken>>
    BY <1>0, <1>6 DEF Write
  <2>3. /\ pc' \in [Ends -> PCs] /\ header' \in [Ends -> Headers]
        /\ unsent' \in [Ends -> Seq(Units)]
        /\ unsent' = [unsent EXCEPT !["client"] = <<HeadOf(h), BodyOf(h)>>]
    BY <1>6, <2>1, WriteTypes DEF IInv, Ends
  <2>4. C' = C + 1 /\ S' = S
    BY <2>1, <2>2 DEF C, S, IInv, TypeOK, Ends
  <2>5. ClientSent'
    <3>1. C' % 2 = 1 /\ S' = C' - 1
      BY <1>4, <2>4
    <3>2. QED
      BY <3>1, <1>2, <1>3, <1>4, <2>2, <2>3
      DEF IInv, TypeOK, Ends, ClientSent, Sender, PacketOnWay, Silent, Peer
  <2>6. TypeOK'
    <3>1. bodyLen' \in MinBody .. MaxBody + 1
      BY <1>6, BodyLenFits DEF IInv
    <3>2. QED
      BY <1>3, <2>2, <2>3, <3>1 DEF IInv, TypeOK
  <2>7. EndInv'
    BY <2>2, <2>3, <1>0 DEF IInv, TypeOK, Ends, EndInv
  <2>8. TotalInv'
    <3>1. C < total["client"] /\ total["client"] \in Nat
      BY <1>4, <1>6, Counts DEF CheckCount, C, IInv
    <3>2. C' <= total["client"] /\ C' % 2 # 0
      BY <3>1, <1>4, <2>4
    <3>3. \A e \in Ends : pc'[e] = "finished" => e = "server"
      BY <2>2 DEF IInv, TypeOK, Ends
    <3>4. header'["server"] = header["server"] /\ pc'["server"] = pc["server"]
      BY <2>2 DEF IInv, TypeOK, Ends
    <3>5. QED
      BY <3>2, <3>3, <3>4, <2>2, <2>4 DEF IInv, Ends, TotalInv
  <2>9. FailInv'
    BY <1>0, <2>2, <2>4 DEF IInv, TypeOK, Ends, FailInv
  <2>10. QED
    BY <2>5, <2>6, <2>7, <2>8, <2>9 DEF IInv, Stages
<1>7. QED
  BY <1>5, <1>6 DEF ClientReadBody
\* The server finds the packet that the client has sent.
LEMMA AcceptStep ==
  ASSUME IInv, Accept
  PROVE  IInv'
<1>1. /\ pc["server"] = "accept" /\ pc["client"] \notin {"connect", "refused"}
      /\ pc' = [pc EXCEPT !["server"] = "read_head"]
      /\ UNCHANGED <<total, header, unsent, wire, open, broken, bodyLen>>
  BY DEF Accept, Read
<1>2. ClientSent
  BY <1>1 DEF IInv, Stages, NotConnected, ServerReading, ServerDone,
     ServerSent, ClientReading, ClientDone, Sender
<1>3. C' = C /\ S' = S
  BY <1>1 DEF C, S
<1>4. ClientSent'
  BY <1>1, <1>2, <1>3
  DEF IInv, TypeOK, Ends, ClientSent, Sender, PacketOnWay, Silent, Peer,
      HeadOf, BodyOf
<1>5. TypeOK'
  BY <1>1 DEF IInv, TypeOK, PCs, Waiting
<1>6. EndInv' /\ TotalInv' /\ FailInv'
  BY <1>1, <1>3 DEF IInv, TypeOK, Ends, EndInv, TotalInv, FailInv
<1>7. QED
  BY <1>4, <1>5, <1>6 DEF IInv, Stages

\* The server finishes or waits for the next packet; the stage remains.
LEMMA ServerWrittenStep ==
  ASSUME IInv, ServerWritten
  PROVE  IInv'
<1>1. /\ pc["server"] = "write" /\ unsent["server"] = <<>>
      /\ UNCHANGED <<total, header, unsent, wire, broken, bodyLen>>
      /\ \/ /\ CheckCount("server")
            /\ pc' = [pc EXCEPT !["server"] = "finished"]
            /\ open' = [open EXCEPT !["server"] = FALSE]
         \/ /\ pc' = [pc EXCEPT !["server"] = "read_head"]
            /\ UNCHANGED open
  BY DEF ServerWritten, Read, Finish
<1>2. C' = C /\ S' = S
  BY <1>1 DEF C, S
<1>3. /\ (pc["server"])' \in {"finished", "read_head"}
      /\ (pc["client"])' = pc["client"]
  BY <1>1 DEF IInv, TypeOK, Ends
<1>4. /\ PacketOnWay("client") => PacketOnWay("client")'
      /\ PacketOnWay("server") => PacketOnWay("server")'
      /\ BodyOnWay("server") => BodyOnWay("server")'
      /\ \A e \in Ends : Silent(e) => Silent(e)'
  BY <1>1, <1>3 DEF PacketOnWay, BodyOnWay, Silent, Peer, HeadOf, BodyOf
<1>5. Stages'
  BY <1>1, <1>2, <1>3, <1>4
  DEF IInv, Stages, NotConnected, ClientSent, ServerReading, ServerDone,
      ServerSent, ClientReading, ClientDone, Sender, Ends
<1>6. TypeOK'
  <2>1. pc' \in [Ends -> PCs]
    BY <1>1 DEF IInv, TypeOK, PCs, Waiting
  <2>2. open' \in [Ends -> BOOLEAN]
    BY <1>1 DEF IInv, TypeOK
  <2>3. QED
    BY <1>1, <2>1, <2>2 DEF IInv, TypeOK
<1>7. EndInv'
  BY <1>1 DEF IInv, TypeOK, Ends, EndInv
<1>8. TotalInv' /\ FailInv'
  BY <1>1, <1>2, <1>3
  DEF IInv, TypeOK, Ends, TotalInv, FailInv, CheckCount
<1>9. QED
  BY <1>5, <1>6, <1>7, <1>8 DEF IInv

\* The server finishes without an answer or sends the packet back.
LEMMA ServerReadBodyStep ==
  ASSUME IInv, ServerReadBody
  PROVE  IInv'
<1>0. /\ pc["server"] = "read_body" /\ wire["server"] # <<>>
      /\ wire' = [wire EXCEPT !["server"] = Tail(@)]
      /\ UNCHANGED <<total, broken>>
  BY DEF ServerReadBody, BodyArrives
<1>1. ServerReading
  BY <1>0 DEF IInv, Stages, NotConnected, ClientSent, ServerDone,
     ServerSent, ClientReading, ClientDone, Sender
<1>2. /\ unsent["client"] = <<>> /\ unsent["server"] = <<>>
      /\ wire["server"] = <<BodyOf(header["client"])>> /\ wire["client"] = <<>>
  BY <1>0, <1>1 DEF ServerReading, BodyOnWay, Silent, Peer, HeadOf, BodyOf
<1>3. /\ wire' = [wire EXCEPT !["server"] = <<>>]
      /\ wire' \in [Ends -> Seq(Units)]
  BY <1>0, <1>2, ShortSequences, WireTypes DEF IInv, Ends
<1>4. /\ C \in Nat /\ S \in Nat /\ S = C /\ C % 2 = 1 /\ (S + 1) % 2 = 0
      /\ pc["client"] \in Sender
  BY <1>1, Counts DEF IInv, ServerReading, C, S
<1>5. CASE CheckCount("server") /\ Finish("server") /\ UNCHANGED header
  <2>1. /\ pc' = [pc EXCEPT !["server"] = "finished"]
        /\ open' = [open EXCEPT !["server"] = FALSE]
        /\ UNCHANGED <<total, header, unsent, broken, bodyLen>>
    BY <1>0, <1>5 DEF Finish
  <2>2. C' = C /\ S' = S
    BY <2>1 DEF C, S
  <2>3. ServerDone'
    BY <1>2, <1>3, <1>4, <2>1, <2>2
    DEF IInv, TypeOK, Ends, ServerDone, Sender, Silent, Peer
  <2>4. pc' \in [Ends -> PCs] /\ open' \in [Ends -> BOOLEAN]
    BY <2>1 DEF IInv, TypeOK, PCs
  <2>5. TypeOK'
    BY <1>3, <2>1, <2>4 DEF IInv, TypeOK
  <2>6. EndInv'
    BY <1>2, <2>1 DEF IInv, TypeOK, Ends, EndInv
  <2>7. TotalInv' /\ FailInv'
    BY <1>5, <2>1, <2>2 DEF IInv, TypeOK, Ends, TotalInv, FailInv, CheckCount, C, S
  <2>8. QED
    BY <2>3, <2>5, <2>6, <2>7 DEF IInv, Stages
<1>6. ASSUME NEW h, h = [header["server"] EXCEPT !.count = @ + 1],
             ~CheckCount("server"), Write("server", h), UNCHANGED <<open, bodyLen>>
      PROVE  IInv'
  <2>1. h \in Headers /\ h.count = S + 1
    <3>1. header["server"] \in Headers
      BY Counts DEF IInv
    <3>2. QED
      BY <1>6, <3>1 DEF Headers, S
  <2>2. /\ pc' = [pc EXCEPT !["server"] = "write"]
        /\ header' = [header EXCEPT !["server"] = h]
        /\ UNCHANGED <<total, open, broken, bodyLen>>
    BY <1>0, <1>6 DEF Write
  <2>3. /\ pc' \in [Ends -> PCs] /\ header' \in [Ends -> Headers]
        /\ unsent' \in [Ends -> Seq(Units)]
        /\ unsent' = [unsent EXCEPT !["server"] = <<HeadOf(h), BodyOf(h)>>]
    BY <1>6, <2>1, WriteTypes DEF IInv, Ends
  <2>4. S' = S + 1 /\ C' = C
    BY <2>1, <2>2 DEF C, S, IInv, TypeOK, Ends
  <2>5. ServerSent'
    <3>1. C' % 2 = 1 /\ S' = C' + 1
      BY <1>4, <2>4
    <3>2. QED
      BY <3>1, <1>2, <1>3, <1>4, <2>2, <2>3
      DEF IInv, TypeOK, Ends, ServerSent, Sender, PacketOnWay, Silent, Peer
  <2>6. TypeOK'
    BY <1>3, <2>2, <2>3 DEF IInv, TypeOK
  <2>7. EndInv'
    BY <2>2, <2>3, <1>0 DEF IInv, TypeOK, Ends, EndInv
  <2>8. TotalInv'
    <3>1. S < total["server"] /\ total["server"] \in Nat
      BY <1>4, <1>6, Counts DEF CheckCount, S, IInv
    <3>2. S' <= total["server"]
      BY <3>1, <1>4, <2>4
    <3>3. \A e \in Ends : pc'[e] # "finished"
      BY <1>4, <2>2 DEF IInv, TypeOK, Ends, Sender
    <3>4. QED
      BY <3>2, <3>3, <2>2, <2>4 DEF IInv, TotalInv
  <2>9. FailInv'
    BY <1>0, <2>2, <2>4 DEF IInv, TypeOK, Ends, FailInv
  <2>10. QED
    BY <2>5, <2>6, <2>7, <2>8, <2>9 DEF IInv, Stages
<1>7. QED
  BY <1>5, <1>6 DEF ServerReadBody
-----------------------------------------------------------------------------
\* An end reads the header of the other's packet.
LEMMA ReadHeadStep ==
  ASSUME IInv, NEW e \in Ends, ReadHead(e)
  PROVE  IInv'
<1> DEFINE p == Peer(e)
<1>0. /\ pc[e] = "read_head" /\ wire[e] # <<>>
      /\ header' = [header EXCEPT ![e] = Head(wire[e]).header]
      /\ wire' = [wire EXCEPT ![e] = Tail(@)]
      /\ pc' = [pc EXCEPT ![e] = "read_body"]
      /\ UNCHANGED <<total, unsent, open, broken, bodyLen>>
  BY DEF ReadHead, Read
<1>1. \/ e = "server" /\ p = "client" /\ ClientSent
      \/ e = "client" /\ p = "server" /\ ServerSent
  BY <1>0 DEF IInv, Stages, NotConnected, ClientSent, ServerReading, ServerDone,
     ServerSent, ClientReading, ClientDone, Sender, Silent, Peer, Ends
<1>2. p \in Ends /\ p # e /\ Peer(p) = e /\ header[p] \in Headers
      /\ PacketOnWay(p) /\ Silent(e)
  BY <1>1, Counts DEF ClientSent, ServerSent, Peer, Ends, IInv
<1> DEFINE h == HeadOf(header[p])
           b == BodyOf(header[p])
<1>3. \/ wire[e] = <<h>> /\ unsent[p] = <<b>>
      \/ wire[e] = <<h, b>> /\ unsent[p] = <<>>
      \/ wire[e] = <<h>> /\ unsent[p] = <<>> /\ pc[p] = "failed"
  BY <1>0, <1>2 DEF PacketOnWay
<1>4. Head(wire[e]).header = header[p]
  BY <1>2, <1>3, ShortSequences, UnitsOfHeader
<1>5. \/ Tail(wire[e]) = <<>> /\ unsent[p] = <<b>>
      \/ Tail(wire[e]) = <<b>> /\ unsent[p] = <<>>
      \/ Tail(wire[e]) = <<>> /\ unsent[p] = <<>> /\ pc[p] = "failed"
  <2> HIDE DEF h, b
  <2>1. Tail(<<h>>) = <<>> /\ Tail(<<h, b>>) = <<b>>
    BY ShortSequences
  <2>2. QED
    BY <1>3, <2>1
<1>6. wire' \in [Ends -> Seq(Units)]
  BY <1>0, WireTypes DEF IInv
<1> HIDE DEF p
<1>7. /\ header' = [header EXCEPT ![e] = header[p]]
      /\ header'[p] = header[p] /\ header'[e] = header[p]
      /\ wire'[e] = Tail(wire[e]) /\ wire'[p] = wire[p]
      /\ pc'[e] = "read_body" /\ pc'[p] = pc[p]
  BY <1>0, <1>2, <1>4 DEF IInv, TypeOK
<1>8. BodyOnWay(p)' /\ Silent(e)'
  BY <1>0, <1>2, <1>5, <1>7 DEF BodyOnWay, Silent, BodyOf, p
<1>9. TypeOK'
  <2>1. header' \in [Ends -> Headers]
    BY <1>2, <1>7 DEF IInv, TypeOK
  <2>2. pc' \in [Ends -> PCs]
    BY <1>0 DEF IInv, TypeOK, PCs, Waiting
  <2>3. QED
    BY <1>0, <1>6, <2>1, <2>2 DEF IInv, TypeOK
<1>10. EndInv'
  BY <1>0, <1>7 DEF IInv, TypeOK, Ends, EndInv
<1>11. CASE e = "server"
  <2>1. p = "client" /\ ClientSent
    BY <1>1, <1>11
  <2>2. /\ C' = C /\ S' = C /\ C \in Nat /\ C % 2 = 1
        /\ header'["server"] = header'["client"]
    BY <1>7, <1>11, <2>1, Counts DEF C, S, ClientSent, IInv
  <2>3. ServerReading'
    BY <1>7, <1>8, <1>11, <2>1, <2>2 DEF ClientSent, ServerReading, C
  <2>4. TotalInv'
    <3>1. \A x \in Ends : pc'[x] # "finished"
      BY <1>7, <1>11, <2>1 DEF Ends, ClientSent, Sender
    <3>2. QED
      BY <3>1, <1>0, <2>2 DEF IInv, TotalInv
  <2>5. FailInv'
    BY <1>0, <1>7, <1>11, <2>1, <2>2 DEF IInv, FailInv
  <2>6. QED
    BY <1>9, <1>10, <2>3, <2>4, <2>5 DEF IInv, Stages
<1>12. CASE e = "client"
  <2>1. p = "server" /\ ServerSent
    BY <1>1, <1>12
  <2>2. /\ C' = C + 1 /\ S' = C + 1 /\ S = C + 1 /\ C \in Nat
        /\ C' % 2 = 0 /\ C % 2 = 1
        /\ header'["server"] = header'["client"]
    BY <1>7, <1>12, <2>1, Counts DEF C, S, ServerSent, IInv
  <2>3. ClientReading'
    BY <1>7, <1>8, <1>12, <2>1, <2>2 DEF ServerSent, ClientReading, C
  <2>4. TotalInv'
    <3>1. pc'["client"] # "finished" /\ pc'["server"] = pc["server"]
          /\ header'["server"] = header["server"]
      BY <1>7, <1>12, <2>1
    <3>2. C' % 2 = 0 /\ C' > 2 => C' - 1 <= total["client"]
      BY <2>2 DEF IInv, TotalInv
    <3>3. QED
      BY <3>1, <3>2, <1>0, <2>2 DEF IInv, TotalInv, Ends
  <2>5. FailInv'
    BY <1>0, <1>7, <1>12, <2>1, <2>2 DEF IInv, FailInv
  <2>6. QED
    BY <1>9, <1>10, <2>3, <2>4, <2>5 DEF IInv, Stages
<1>13. QED
  BY <1>11, <1>12 DEF Ends

\* Sending a unit moves it from the sender to the wire; the stage remains.
LEMMA SendStep ==
  ASSUME IInv, NEW e \in Ends, Send(e)
  PROVE  IInv'
<1> DEFINE p == Peer(e)
           h == HeadOf(header[e])
           b == BodyOf(header[e])
<1>0. /\ unsent[e] # <<>>
      /\ wire' = [wire EXCEPT ![p] = Append(@, Head(unsent[e]))]
      /\ unsent' = [unsent EXCEPT ![e] = Tail(@)]
      /\ UNCHANGED <<total, pc, header, open, broken, bodyLen>>
  BY DEF Send
<1>1. p \in Ends /\ p # e /\ Peer(p) = e
  BY DEF Peer, Ends
<1>2. pc[e] = "write"
  BY <1>0 DEF IInv, EndInv
<1>3. /\ PacketOnWay(e) => PacketOnWay(e)'
      /\ BodyOnWay(e) => BodyOnWay(e)'
      /\ Silent(p) => Silent(p)'
      /\ ~Silent(e)
  <2>1. /\ wire'[p] = Append(wire[p], Head(unsent[e])) /\ unsent'[e] = Tail(unsent[e])
        /\ wire'[e] = wire[e] /\ unsent'[p] = unsent[p]
    BY <1>0, <1>1 DEF IInv, TypeOK
  <2>2. ASSUME PacketOnWay(e) PROVE PacketOnWay(e)'
    <3>1. \/ unsent[e] = <<h, b>> /\ wire[p] = <<>>
          \/ unsent[e] = <<b>> /\ wire[p] = <<h>>
      BY <1>0, <2>2 DEF PacketOnWay
    <3>2. \/ unsent'[e] = <<b>> /\ wire'[p] = <<h>>
          \/ unsent'[e] = <<>> /\ wire'[p] = <<h, b>>
      <4> HIDE DEF h, b
      <4>1. /\ Head(<<h, b>>) = h /\ Tail(<<h, b>>) = <<b>>
            /\ Head(<<b>>) = b /\ Tail(<<b>>) = <<>>
            /\ Append(<<>>, h) = <<h>> /\ Append(<<h>>, b) = <<h, b>>
        BY ShortSequences
      <4>2. QED
        BY <2>1, <3>1, <4>1
    <3>3. QED
      BY <1>0, <3>2 DEF PacketOnWay, HeadOf, BodyOf
  <2>3. ASSUME BodyOnWay(e) PROVE BodyOnWay(e)'
    <3>1. unsent[e] = <<b>> /\ wire[p] = <<>>
      BY <1>0, <2>3 DEF BodyOnWay
    <3>2. unsent'[e] = <<>> /\ wire'[p] = <<b>>
      BY <2>1, <3>1, ShortSequences
    <3>3. QED
      BY <1>0, <3>2 DEF BodyOnWay, BodyOf
  <2>4. QED
    BY <1>0, <1>1, <2>1, <2>2, <2>3 DEF Silent
<1>4. /\ wire' \in [Ends -> Seq(Units)] /\ unsent' \in [Ends -> Seq(Units)]
  <2>1. wire[p] \in Seq(Units) /\ unsent[e] \in Seq(Units)
    BY <1>1 DEF IInv, TypeOK
  <2>2. Append(wire[p], Head(unsent[e])) \in Seq(Units) /\ Tail(unsent[e]) \in Seq(Units)
    BY <1>0, <2>1
  <2>3. QED
    BY <1>0, <1>1, <2>2 DEF IInv, TypeOK
<1>5. TypeOK'
  BY <1>0, <1>4 DEF IInv, TypeOK
<1>6. C' = C /\ S' = S
  BY <1>0 DEF C, S
<1>7. Stages'
  <2>1. CASE e = "client"
    BY <1>0, <1>2, <1>3, <1>6, <2>1
    DEF IInv, Stages, NotConnected, ClientSent, ServerReading, ServerDone,
        ServerSent, ClientReading, ClientDone, Peer
  <2>2. CASE e = "server"
    BY <1>0, <1>2, <1>3, <1>6, <2>2
    DEF IInv, Stages, NotConnected, ClientSent, ServerReading, ServerDone,
        ServerSent, ClientReading, ClientDone, Peer
  <2>3. QED
    BY <2>1, <2>2 DEF Ends
<1>8. EndInv' /\ TotalInv' /\ FailInv'
  BY <1>0, <1>2, <1>6 DEF IInv, TypeOK, EndInv, TotalInv, FailInv
<1>9. QED
  BY <1>5, <1>7, <1>8 DEF IInv
\* A failure leaves part of a packet on its way; that the network has not broken
\* then means that the other end has finished.
LEMMA FailStep ==
  ASSUME IInv, NEW e \in Ends, Fail(e)
  PROVE  IInv'
<1> DEFINE p == Peer(e)
<1>0. /\ pc[e] \in Waiting
      /\ pc[e] = "write" => unsent[e] # <<>>
      /\ broken \/ (~open[p] /\ (wire[e] = <<>> \/ wire[p] # <<>>))
      /\ pc' = [pc EXCEPT ![e] = "failed"]
      /\ unsent' = [unsent EXCEPT ![e] = <<>>]
      /\ open' = [open EXCEPT ![e] = (e = "client")]
      /\ UNCHANGED <<total, header, wire, broken, bodyLen>>
  BY DEF Fail, MayFail
<1>1. p \in Ends /\ p # e /\ Peer(p) = e
  BY DEF Peer, Ends
<1>2. /\ pc'[e] = "failed" /\ pc'[p] = pc[p]
      /\ unsent'[e] = <<>> /\ unsent'[p] = unsent[p]
  BY <1>0, <1>1 DEF IInv, TypeOK
<1>3. C' = C /\ S' = S
  BY <1>0 DEF C, S
<1>4. /\ PacketOnWay(e) => PacketOnWay(e)'
      /\ BodyOnWay(e) => BodyOnWay(e)'
      /\ PacketOnWay(p) => PacketOnWay(p)'
      /\ BodyOnWay(p) => BodyOnWay(p)'
      /\ Silent(e) => Silent(e)'
      /\ Silent(p) => Silent(p)'
  BY <1>0, <1>1, <1>2 DEF PacketOnWay, BodyOnWay, Silent, HeadOf, BodyOf
<1>5. Stages'
  <2>1. CASE e = "client"
    BY <1>0, <1>2, <1>3, <1>4, <2>1
    DEF IInv, Stages, NotConnected, ClientSent, ServerReading, ServerDone,
        ServerSent, ClientReading, ClientDone, Peer, Sender, Waiting
  <2>2. CASE e = "server"
    BY <1>0, <1>2, <1>3, <1>4, <2>2
    DEF IInv, Stages, NotConnected, ClientSent, ServerReading, ServerDone,
        ServerSent, ClientReading, ClientDone, Peer, Sender, Waiting
  <2>3. QED
    BY <2>1, <2>2 DEF Ends
<1>6. TypeOK'
  <2>1. pc' \in [Ends -> PCs]
    BY <1>0 DEF IInv, TypeOK, PCs
  <2>2. open' \in [Ends -> BOOLEAN]
    BY <1>0 DEF IInv, TypeOK
  <2>3. unsent' \in [Ends -> Seq(Units)]
    <3>1. <<>> \in Seq(Units)
      OBVIOUS
    <3>2. QED
      BY <1>0, <3>1 DEF IInv, TypeOK
  <2>4. QED
    BY <1>0, <2>1, <2>2, <2>3 DEF IInv, TypeOK
<1>7. EndInv'
  BY <1>0, <1>1, <1>2 DEF IInv, TypeOK, EndInv, Ends
<1>8. TotalInv'
  BY <1>0, <1>1, <1>2, <1>3 DEF IInv, TotalInv, Ends
<1>9. FailInv'
  <2> SUFFICES ASSUME ~broken
               PROVE  /\ pc'["server"] = "failed" => pc'["client"] = "finished"
                      /\ pc'["client"] = "failed" => C % 2 = 1 /\ total["server"] <= C
    BY <1>0, <1>3 DEF FailInv
  <2>1. /\ ~open[p] /\ (wire[e] = <<>> \/ wire[p] # <<>>)
        /\ pc[p] = "finished" \/ (p = "server" /\ pc[p] = "failed")
    BY <1>0, <1>1 DEF IInv, EndInv
  <2>2. CASE e = "server"
    BY <1>2, <2>1, <2>2 DEF Peer, IInv, FailInv
  <2>3. CASE e = "client"
    <3>1. p = "server" /\ pc["client"] \in Waiting
      BY <1>0, <2>3 DEF Peer
    <3>2. pc["server"] = "finished"
      BY <2>1, <3>1 DEF IInv, FailInv, Waiting
    <3>3. /\ C \in Nat /\ S \in Nat /\ total["server"] \in Nat
          /\ total["server"] <= S
      BY <3>2, Counts DEF IInv, TotalInv, S, Ends
    <3>4. ~ServerSent /\ ~ClientReading
      <4>1. unsent["server"] = <<>>
        BY <3>2 DEF IInv, EndInv, Ends
      <4>2. wire["client"] = <<>> \/ wire["server"] # <<>>
        BY <2>1, <2>3, <3>1
      <4>3. \A x, y : <<x>> # <<>> /\ <<x, y>> # <<>>
        OBVIOUS
      <4>4. ServerSent => wire["client"] # <<>> /\ wire["server"] = <<>>
        <5>1. Peer("server") = "client" /\ Peer("client") = "server"
          BY DEF Peer
        <5>2. PacketOnWay("server") => wire["client"] # <<>>
          BY <3>2, <4>1, <4>3, <5>1, Zenon DEF PacketOnWay
        <5>3. QED
          BY <5>1, <5>2 DEF ServerSent, Silent
      <4>5. ClientReading => wire["client"] # <<>> /\ wire["server"] = <<>>
        BY <3>2, <4>1, <4>3 DEF ClientReading, BodyOnWay, Silent, Peer
      <4>6. QED
        BY <4>2, <4>4, <4>5
    <3>5. ClientSent \/ ServerDone
      BY <3>1, <3>2, <3>4
      DEF IInv, Stages, NotConnected, ClientSent, ServerReading, ServerDone,
          ClientDone, Waiting
    <3>6. C % 2 = 1 /\ total["server"] <= C
      BY <3>3, <3>5 DEF ClientSent, ServerDone
    <3>7. QED
      BY <1>1, <1>2, <2>3, <3>1, <3>2, <3>6
  <2>4. QED
    BY <2>2, <2>3 DEF Ends
<1>10. QED
  BY <1>5, <1>6, <1>7, <1>8, <1>9 DEF IInv

\* A failure of the network, and a step that changes nothing.
LEMMA BreakStep ==
  ASSUME IInv, Break \/ UNCHANGED vars
  PROVE  IInv'
<1>1. /\ UNCHANGED <<total, pc, header, unsent, wire, open, bodyLen>>
      /\ broken' \in BOOLEAN
      /\ broken' = broken \/ broken' = TRUE
  BY DEF Break, vars, IInv, TypeOK
<1>2. TypeOK'
  BY <1>1 DEF IInv, TypeOK
<1>3. C' = C /\ S' = S
  BY <1>1 DEF C, S
<1>4. Stages'
  BY <1>1, <1>3
  DEF IInv, Stages, NotConnected, ClientSent, ServerReading, ServerDone,
      ServerSent, ClientReading, ClientDone, PacketOnWay, BodyOnWay, Silent,
      HeadOf, BodyOf
<1>5. EndInv' /\ TotalInv' /\ FailInv'
  BY <1>1, <1>3 DEF IInv, EndInv, TotalInv, FailInv
<1>6. QED
  BY <1>2, <1>4, <1>5 DEF IInv

\* The inductive invariant is one.
LEMMA NextIInv == IInv /\ [Next]_vars => IInv'
<1> SUFFICES ASSUME IInv, [Next]_vars
             PROVE  IInv'
  OBVIOUS
<1>1. CASE Client
  BY <1>1, ConnectedStep, RefusedStep, ClientWrittenStep, ClientReadBodyStep,
     ReadHeadStep, SendStep, FailStep DEF Client, Both, Ends
<1>2. CASE Server
  BY <1>2, AcceptStep, ServerWrittenStep, ServerReadBodyStep,
     ReadHeadStep, SendStep, FailStep DEF Server, Both, Ends
<1>3. CASE Break \/ UNCHANGED vars
  BY <1>3, BreakStep
<1>4. QED
  BY <1>1, <1>2, <1>3 DEF Next, Terminated

\* The inductive invariant holds in every reachable state.
THEOREM Invariance == Spec => []IInv
  BY InitIInv, NextIInv, PTL DEF Spec

-----------------------------------------------------------------------------
\* The state is well-typed: a header announces no body that does not fit buffer_.
THEOREM TypeCorrect == Spec => []TypeOK
<1>1. IInv => TypeOK
  BY DEF IInv
<1>2. QED
  BY <1>1, Invariance, PTL

\* What e still has to read, by stage.
LEMMA IncomingByStage ==
  ASSUME IInv, NEW e \in Ends
  PROVE  LET h == HeadOf(header[Peer(e)])
             b == BodyOf(header[Peer(e)])
         IN  /\ Silent(Peer(e)) => Incoming(e) = <<>>
             /\ PacketOnWay(Peer(e)) => Incoming(e) \in {<<h, b>>, <<h>>, <<>>}
             /\ BodyOnWay(Peer(e)) => Incoming(e) \in {<<b>>, <<>>}
<1> DEFINE p == Peer(e)
           h == HeadOf(header[p])
           b == BodyOf(header[p])
<1>1. p \in Ends /\ Peer(p) = e /\ Incoming(e) = wire[e] \o unsent[p]
  BY DEF Peer, Ends, Incoming
<1>2. \A s \in Seq(Units) : s \o <<>> = s /\ <<>> \o s = s
  OBVIOUS
<1>3. wire[e] \in Seq(Units) /\ unsent[p] \in Seq(Units)
  BY <1>1 DEF IInv, TypeOK
<1>4. <<h>> \o <<b>> = <<h, b>>
  <2>1. header[p] \in Headers
    BY <1>1 DEF IInv, TypeOK
  <2>2. <<h>> \in Seq(Units) /\ b \in Units
    BY <2>1, UnitsOfHeader
  <2>3. Append(<<h>>, b) = <<h>> \o <<b>>
    BY <2>2, AppendIsConcat
  <2>4. Append(<<h>>, b) = <<h, b>>
    <3> HIDE DEF h, b
    <3>1. QED
      BY ShortSequences
  <2>5. QED
    BY <2>3, <2>4
<1>5. Silent(p) => Incoming(e) = <<>>
  BY <1>1, <1>2, <1>3 DEF Silent
<1>6. PacketOnWay(p) => Incoming(e) \in {<<h, b>>, <<h>>, <<>>}
  BY <1>1, <1>2, <1>3, <1>4 DEF PacketOnWay
<1>7. BodyOnWay(p) => Incoming(e) \in {<<b>>, <<>>}
  BY <1>1, <1>2, <1>3 DEF BodyOnWay
<1>8. QED
  BY <1>5, <1>6, <1>7

\* Only one packet is on its way, and neither end has counted one more than the
\* other can know of.
THEOREM OneInFlight == Spec => []LockStep
<1>1. IInv => LockStep
  <2> SUFFICES ASSUME IInv PROVE LockStep
    OBVIOUS
  <2>1. C \in Nat /\ S \in Nat
    BY Counts DEF IInv
  <2>2. C - S \in -1 .. 1
    BY <2>1 DEF IInv, Stages, NotConnected, ClientSent, ServerReading, ServerDone,
       ServerSent, ClientReading, ClientDone, C, S
  <2>3. Silent("client") \/ Silent("server")
    BY DEF IInv, Stages, NotConnected, ClientSent, ServerReading, ServerDone,
       ServerSent, ClientReading, ClientDone
  <2>4. \E e \in Ends : Incoming(e) = <<>>
    BY <2>3, IncomingByStage DEF Ends, Peer
  <2>5. QED
    BY <2>2, <2>4 DEF LockStep, C, S
<1>2. QED
  BY <1>1, Invariance, PTL

\* Neither end loses its place in the stream, whatever the lengths of the bodies.
THEOREM FramesStayAligned == Spec => []FramesAligned
<1>1. IInv => FramesAligned
  <2> SUFFICES ASSUME IInv, NEW e \in Ends
               PROVE  /\ header[e].size <= MaxBody
                      /\ Incoming(e) # <<>> =>
                           /\ pc[e] \in {"accept", "read_head"} =>
                                Head(Incoming(e)).kind = "head"
                           /\ pc[e] = "read_body" =>
                                Head(Incoming(e)) =
                                  [kind |-> "body", size |-> header[e].size]
    BY DEF FramesAligned
  <2> DEFINE p == Peer(e)
             h == HeadOf(header[p])
             b == BodyOf(header[p])
  <2>1. header[e].size <= MaxBody
    <3>1. header[e] \in Headers
      BY DEF IInv, TypeOK
    <3>2. QED
      BY <3>1, PacketAssumption DEF Headers
  <2>2. p \in Ends /\ Peer(p) = e
    BY DEF Peer, Ends
  <2>3. CASE Silent(p)
    BY <2>1, <2>3, IncomingByStage
  <2>4. CASE PacketOnWay(p) /\ pc[e] # "read_body"
    <3>1. Incoming(e) \in {<<h, b>>, <<h>>, <<>>}
      BY <2>4, IncomingByStage
    <3>2. Head(<<h, b>>) = h /\ Head(<<h>>) = h
      <4> HIDE DEF h, b
      <4>1. QED
        BY ShortSequences
    <3>3. Incoming(e) # <<>> => Head(Incoming(e)) = h
      BY <3>1, <3>2
    <3>4. h.kind = "head"
      BY DEF HeadOf
    <3>5. QED
      BY <2>1, <2>4, <3>3, <3>4
  <2>5. CASE BodyOnWay(p) /\ pc[e] \notin {"accept", "read_head"}
             /\ header[p] = header[e]
    <3>1. Incoming(e) \in {<<b>>, <<>>}
      BY <2>5, IncomingByStage
    <3>2. Incoming(e) # <<>> => Head(Incoming(e)) = b
      BY <3>1
    <3>3. b = [kind |-> "body", size |-> header[e].size]
      BY <2>5 DEF BodyOf
    <3>4. QED
      BY <2>1, <2>5, <3>2, <3>3
  <2>6. \/ Silent(p)
        \/ PacketOnWay(p) /\ pc[e] # "read_body"
        \/ BodyOnWay(p) /\ pc[e] \notin {"accept", "read_head"}
           /\ header[p] = header[e]
    BY DEF IInv, Stages, NotConnected, ClientSent, ServerReading, ServerDone,
       ServerSent, ClientReading, ClientDone, Sender, Peer, Ends
  <2>7. QED
    BY <2>3, <2>4, <2>5, <2>6
<1>2. QED
  BY <1>1, Invariance, PTL

\* The count with which the client finishes, by the parity of the one it has.
LEMMA LastCountBounds ==
  ASSUME NEW t \in Nat, NEW n \in Nat, NEW last,
         last = IF t <= 2 THEN 2 ELSE t + (t % 2)
  PROVE  /\ n % 2 = 0 /\ n > 0 /\ n >= t /\ (n > 2 => n - 1 <= t) => n = last
         /\ n % 2 = 1 /\ (n > 1 => n <= t) => last > n
<1>1. t % 2 \in 0 .. 1
  OBVIOUS
<1>2. ASSUME n % 2 = 0, n > 0, n >= t, n > 2 => n - 1 <= t
      PROVE  n = last
  BY <1>2
<1>3. ASSUME n % 2 = 1, n > 1 => n <= t
      PROVE  last > n
  BY <1>3
<1>4. QED
  BY <1>2, <1>3

\* Whether a session is finished is a matter of the two totals, for all of them.
THEOREM ResultCorrect == Spec => []ResultByTotals
<1>1. IInv => ResultByTotals
  <2> SUFFICES ASSUME IInv PROVE ResultByTotals
    OBVIOUS
  <2>1. /\ C \in Nat /\ S \in Nat
        /\ total["client"] \in Nat /\ total["server"] \in Nat
    BY Counts DEF IInv
  <2>2. ASSUME pc["client"] = "finished"
        PROVE  C = LastCount /\ LastCount <= total["server"]
    <3>1. C % 2 = 0 /\ C > 0 /\ S = C
      BY <2>2 DEF IInv, Stages, NotConnected, ClientSent, ServerReading,
         ServerDone, ServerSent, ClientReading, ClientDone, Sender
    <3>2. C >= total["client"] /\ (C > 2 => C - 1 <= total["client"])
      BY <2>2, <3>1 DEF IInv, TotalInv, C, Ends
    <3>3. C = LastCount
      BY <2>1, <3>1, <3>2, LastCountBounds DEF LastCount
    <3>4. S <= total["server"]
      BY <3>1 DEF IInv, TotalInv
    <3>5. QED
      BY <3>1, <3>3, <3>4
  <2>3. ASSUME pc["client"] = "failed", ~broken
        PROVE  LastCount > total["server"]
    <3>1. C % 2 = 1 /\ total["server"] <= C
      BY <2>3 DEF IInv, FailInv
    <3>2. C > 1 => C <= total["client"]
      BY <3>1 DEF IInv, TotalInv
    <3>3. LastCount > C
      BY <2>1, <3>1, <3>2, LastCountBounds DEF LastCount
    <3>4. LastCount \in Nat
      BY <2>1 DEF LastCount
    <3>5. QED
      BY <2>1, <3>1, <3>3, <3>4
  <2>4. QED
    BY <2>2, <2>3 DEF ResultByTotals, C
<1>2. QED
  BY <1>1, Invariance, PTL

-----------------------------------------------------------------------------
(* No session hangs.                                                       *)

\* An operation fails only when the network has or the peer has closed.  (A
\* client that failed leaves its own socket open.)
ClosedInv ==
  \A e \in Ends : pc[e] = "failed" => broken \/ ~open[Peer(e)]

\* Failures do not heal and sockets do not reopen.
LEMMA NextClosedInv == IInv /\ ClosedInv /\ [Next]_vars => ClosedInv'
<1> SUFFICES ASSUME IInv, ClosedInv, [Next]_vars
             PROVE  ClosedInv'
  OBVIOUS
<1>1. /\ pc \in [Ends -> PCs] /\ open \in [Ends -> BOOLEAN]
      /\ \A e \in Ends : Peer(e) \in Ends /\ Peer(e) # e
  BY DEF IInv, TypeOK, Peer, Ends
<1>2. ASSUME NEW e \in Ends, Fail(e)
      PROVE  ClosedInv'
  <2>1. broken \/ ~open[Peer(e)]
    BY <1>2 DEF Fail, MayFail
  <2>2. /\ pc' = [pc EXCEPT ![e] = "failed"] /\ broken' = broken
        /\ open' = [open EXCEPT ![e] = (e = "client")]
    BY <1>2 DEF Fail
  <2>3. \A u \in Ends : pc'[u] = "failed" => u = e \/ pc[u] = "failed"
    BY <1>1, <2>2
  <2>4. /\ open'[e] => e = "client"
        /\ \A u \in Ends : u # e => open'[u] = open[u]
    BY <1>1, <2>2
  <2>5. e = "client" => open["client"] \/ ~open["client"]
    OBVIOUS
  <2>6. open'[e] => open[e]
    <3>1. pc[e] \in Waiting
      BY <1>2 DEF Fail, MayFail
    <3>2. QED
      BY <3>1 DEF IInv, EndInv, Waiting
  <2>7. QED
    BY <1>1, <2>1, <2>2, <2>3, <2>4, <2>6 DEF ClosedInv
<1>3. ASSUME \A u \in Ends : /\ pc'[u] = "failed" => pc[u] = "failed"
                             /\ open'[u] => open[u],
             broken => broken'
      PROVE  ClosedInv'
  BY <1>1, <1>3 DEF ClosedInv
<1>4. ASSUME NEW e \in Ends, Finish(e), broken' = broken
      PROVE  ClosedInv'
  BY <1>1, <1>3, <1>4 DEF Finish
<1>5. ASSUME NEW e \in Ends, NEW h, Write(e, h), UNCHANGED <<open, broken>>
      PROVE  ClosedInv'
  BY <1>1, <1>3, <1>5 DEF Write
<1>6. ASSUME NEW e \in Ends, NEW part \in Waiting, Read(e, part), broken' = broken
      PROVE  ClosedInv'
  BY <1>1, <1>3, <1>6 DEF Read, Waiting
<1>7. "client" \in Ends /\ "server" \in Ends /\ "read_head" \in Waiting /\ "read_body" \in Waiting
  BY DEF Ends, Waiting
<1>8. ASSUME NEW e \in Ends, Both(e)
      PROVE  ClosedInv'
  <2>1. CASE ReadHead(e)
    BY <1>6, <1>7, <2>1 DEF ReadHead
  <2>2. CASE Send(e)
    BY <1>3, <2>2 DEF Send
  <2>3. QED
    BY <1>2, <1>8, <2>1, <2>2 DEF Both
<1>9. CASE Client
  <2>1. CASE Connected
    BY <1>5, <1>7, <2>1 DEF Connected
  <2>2. CASE Refused
    BY <1>1, <1>3, <2>2 DEF Refused
  <2>3. CASE ClientWritten
    BY <1>6, <1>7, <2>3 DEF ClientWritten
  <2>4. CASE ClientReadBody
    BY <1>4, <1>5, <1>7, <2>4 DEF ClientReadBody
  <2>5. QED
    BY <1>7, <1>8, <1>9, <2>1, <2>2, <2>3, <2>4 DEF Client
<1>10. CASE Server
  <2>1. CASE Accept
    BY <1>6, <1>7, <2>1 DEF Accept
  <2>2. CASE ServerWritten
    BY <1>4, <1>6, <1>7, <2>2 DEF ServerWritten
  <2>3. CASE ServerReadBody
    BY <1>4, <1>5, <1>7, <2>3 DEF ServerReadBody
  <2>4. QED
    BY <1>7, <1>8, <1>10, <2>1, <2>2, <2>3 DEF Server
<1>11. CASE Break
  BY <1>3, <1>11 DEF Break
<1>12. CASE UNCHANGED vars
  BY <1>3, <1>12 DEF vars
<1>13. QED
  BY <1>9, <1>10, <1>11, <1>12 DEF Next, Terminated

\* Whether an end may take a step: the guards of Client and Server.
MayStep(e) ==
  \/ pc[e] \in {"connect", "write"}
  \/ pc[e] = "accept" /\ pc["client"] \notin {"connect", "refused"}
  \/ pc[e] \in {"read_head", "read_body"} /\ wire[e] # <<>>
  \/ MayFail(e)

\* Neither end waits for anything any more, as in Terminated.
Ended ==
  /\ pc["client"] \in {"refused", "finished", "failed"}
  /\ pc["server"] \in {"finished", "failed"} \/ pc["client"] = "refused"

NotHung == Ended \/ \E e \in Ends : MayStep(e)

\* A session does not hang: until both ends have ended, one of them may take a
\* step.  Never do both wait to read what neither has sent, and an end waits for
\* one that is gone only if it will find the connection closed or broken.  (A
\* client that fails leaves its socket open, but it fails only after the network
\* has or the server has closed.)
THEOREM SessionNeverHangs == Spec => []NotHung
<1>1. ASSUME IInv, ClosedInv, ~NotHung PROVE FALSE
  <2>1. /\ "client" \in Ends /\ "server" \in Ends
        /\ Peer("client") = "server" /\ Peer("server") = "client"
    BY DEF Ends, Peer
  <2>2. /\ pc \in [Ends -> PCs]
        /\ ~MayStep("client") /\ ~MayStep("server") /\ ~Ended
    BY <1>1, <2>1 DEF NotHung, IInv, TypeOK
  <2>3. /\ pc["client"] \in {"refused", "finished", "failed", "read_head", "read_body"}
        /\ pc["server"] \in {"accept", "finished", "failed", "read_head", "read_body"}
    BY <1>1, <2>1, <2>2
    DEF MayStep, PCs, Waiting, IInv, Stages, NotConnected, ClientSent, ServerReading,
        ServerDone, ServerSent, ClientReading, ClientDone, Sender
  <2>4. unsent["client"] = <<>> /\ unsent["server"] = <<>>
    BY <1>1, <2>1, <2>3 DEF IInv, EndInv
  <2>5. \A e \in Ends : pc[e] \in {"read_head", "read_body"} =>
          wire[e] = <<>> /\ ~broken /\ open[Peer(e)]
    BY <2>1, <2>2 DEF MayStep, MayFail, Waiting, Ends
  <2>6. \A e \in Ends : open[e] = ~(pc[e] = "finished" \/ (e = "server" /\ pc[e] = "failed"))
    BY <1>1 DEF IInv, EndInv
  <2>7. pc["client"] \in {"read_head", "read_body"} => pc["server"] \in {"accept", "read_head", "read_body"}
    BY <2>1, <2>3, <2>5, <2>6
  <2>8. pc["server"] \in {"read_head", "read_body"} => pc["client"] \in {"refused", "read_head", "read_body"}
    <3>1. ASSUME pc["server"] \in {"read_head", "read_body"}, pc["client"] = "failed"
          PROVE  FALSE
      BY <1>1, <2>1, <2>5, <2>6, <3>1 DEF ClosedInv
    <3>2. QED
      BY <2>1, <2>3, <2>5, <2>6, <3>1
  <2>9. pc["server"] # "accept" \/ pc["client"] = "refused"
    BY <2>2, <2>3 DEF MayStep
  <2>10. /\ pc["client"] \in {"read_head", "read_body"}
         /\ pc["server"] \in {"read_head", "read_body"}
    <3>1. pc["client"] # "refused"
      BY <2>2 DEF Ended
    <3>2. QED
      BY <2>2, <2>3, <2>7, <2>8, <2>9, <3>1 DEF Ended
  <2>11. ASSUME NEW e \in Ends PROVE ~PacketOnWay(e) /\ ~BodyOnWay(e)
    <3> DEFINE h == HeadOf(header[e])
               b == BodyOf(header[e])
    <3>1. unsent[e] = <<>> /\ wire[Peer(e)] = <<>> /\ pc[e] # "failed"
      BY <2>1, <2>4, <2>5, <2>10 DEF Ends
    <3>2. /\ PacketOnWay(e) => <<h, b>> = <<>> \/ <<b>> = <<>>
          /\ BodyOnWay(e) => <<b>> = <<>>
      BY <3>1 DEF PacketOnWay, BodyOnWay
    <3> HIDE DEF h, b
    <3>3. QED
      BY <3>2, ShortSequences
  <2>12. QED
    BY <1>1, <2>1, <2>10, <2>11
    DEF IInv, Stages, NotConnected, ClientSent, ServerReading, ServerDone, ServerSent,
        ClientReading, ClientDone
<1>2. IInv /\ ClosedInv => NotHung
  BY <1>1
<1>3. Init => ClosedInv
  BY DEF Init, ClosedInv, Ends
<1>4. Spec => []ClosedInv
  BY <1>3, NextClosedInv, Invariance, PTL DEF Spec
<1>5. QED
  BY <1>2, <1>4, Invariance, PTL

-----------------------------------------------------------------------------
(* EchoBlocks.  Its types, and that client1 records an error only for a    *)
(* connection the network has broken.  The hard part is the timer that     *)
(* fires while main is still starting sessions: the argument is that       *)
(* whoever closes a socket has set want_close_ before, and that nothing    *)
(* resets it.                                                              *)

CONSTANTS SessionCount, ThreadCounts, BlockSize, MaxBroken, Space

VARIABLES
  threadCount, main, starting, started, timer, work, thread, opened, op, result,
  left, stop, error, accept, serverOp, serverLeft, conn, toServer, toClient

Blocks == INSTANCE EchoBlocks

\* What EchoBlocks assumes of its constants.
BlocksFit == Blocks!BlockConstants


\* Nobody has been told to stop before the timer's handler posts it.
StopsComeFromTimer ==
  timer # "done" => \A s \in Blocks!Sessions : stop[s] = "no"

\* A session main has not connected yet has no operation, no connection and no
\* error; the one it is about to connect has been opened.
NotYetStarted ==
  /\ \A s \in starting : s \notin started
  /\ \A s \in Blocks!Sessions : s \notin started =>
       op[s] = "none" /\ conn[s] \in {"none", "closed"} /\ ~error[s]

\* A socket that is in use and closed was closed by stop().
ClosedByStop ==
  \A s \in Blocks!Sessions :
    (s \in starting \/ op[s] # "none") /\ ~opened[s] => stop[s] = "done"

\* A transfer fails because of the network or of stop().
FailedForAReason ==
  \A s \in Blocks!Sessions :
    op[s] \in {"write", "read"} /\ result[s] = "failed" =>
      conn[s] = "broken" \/ stop[s] = "done"

BlocksInv ==
  /\ Blocks!TypeOK /\ StopsComeFromTimer /\ NotYetStarted /\ ClosedByStop
  /\ FailedForAReason /\ Blocks!ErrorMeansFailure

-----------------------------------------------------------------------------
\* The thread of a session is one of the client's: i % thread_count_.
LEMMA ThreadOfType ==
  ASSUME BlocksFit, Blocks!TypeOK, NEW s \in Blocks!Sessions
  PROVE  Blocks!ThreadOf(s) \in Blocks!Threads
<1>1. threadCount \in Nat \ {0}
  BY DEF BlocksFit, Blocks!BlockConstants, Blocks!TypeOK
<1>2. s \in Nat
  BY DEF BlocksFit, Blocks!BlockConstants, Blocks!Sessions
<1> QED
  BY <1>1, <1>2 DEF Blocks!ThreadOf, Blocks!Threads

\* A session that begins an operation, or none, has that one; it fails at once
\* only on a closed socket.
LEMMA BeginOrEnd ==
  ASSUME BlocksFit, Blocks!TypeOK, NEW s \in Blocks!Sessions,
         (\E next \in {"write", "read"} : Blocks!Begin(s, next)) \/ Blocks!End(s)
  PROVE  /\ op' \in [Blocks!Sessions -> Blocks!Operations]
         /\ result' \in [Blocks!Sessions -> {"pending", "ok", "failed"}]
         /\ left' \in [Blocks!Sessions -> 0 .. BlockSize]
         /\ \A r \in Blocks!Sessions \ {s} : op'[r] = op[r] /\ result'[r] = result[r]
         /\ result'[s] = "failed" => ~opened[s]
<1> USE DEF BlocksFit, Blocks!BlockConstants, Blocks!TypeOK, Blocks!Operations
<1>1. CASE Blocks!End(s)
  BY <1>1 DEF Blocks!End
<1>2. ASSUME NEW next \in {"write", "read"}, Blocks!Begin(s, next)
      PROVE  /\ op' \in [Blocks!Sessions -> Blocks!Operations]
             /\ result' \in [Blocks!Sessions -> {"pending", "ok", "failed"}]
             /\ left' \in [Blocks!Sessions -> 0 .. BlockSize]
             /\ \A r \in Blocks!Sessions \ {s} : op'[r] = op[r] /\ result'[r] = result[r]
             /\ result'[s] = "failed" => ~opened[s]
  BY <1>2 DEF Blocks!Begin
<1> QED
  BY <1>1, <1>2

\* The constructors establish the invariant.
LEMMA InitBlocksInv ==
  ASSUME BlocksFit
  PROVE  Blocks!Init => BlocksInv
<1> SUFFICES ASSUME Blocks!Init PROVE BlocksInv
  OBVIOUS
<1>1. Blocks!TypeOK
  BY DEF BlocksFit, Blocks!BlockConstants, Blocks!Init, Blocks!TypeOK,
     Blocks!Operations
<1> QED
  BY <1>1 DEF Blocks!Init, BlocksInv, StopsComeFromTimer, NotYetStarted, ClosedByStop,
     FailedForAReason, Blocks!ErrorMeansFailure

\* main's steps keep it: they touch sessions that nobody has connected.
LEMMA MainKeepsBlocksInv ==
  ASSUME BlocksFit, BlocksInv, Blocks!Main
  PROVE  BlocksInv'
<1> USE DEF BlocksFit, Blocks!BlockConstants, BlocksInv, Blocks!TypeOK,
   StopsComeFromTimer, NotYetStarted, ClosedByStop, FailedForAReason,
   Blocks!ErrorMeansFailure, Blocks!Threads
<1>1. CASE Blocks!SetTimer
  BY <1>1 DEF Blocks!SetTimer, Blocks!mainVars, Blocks!sessionVars, Blocks!serverVars,
     Blocks!netVars
<1>2. CASE Blocks!EndStart
  BY <1>2 DEF Blocks!EndStart, Blocks!timerVars, Blocks!sessionVars,
     Blocks!serverVars, Blocks!netVars
<1>3. CASE Blocks!Join
  BY <1>3 DEF Blocks!Join, Blocks!timerVars, Blocks!sessionVars, Blocks!serverVars,
     Blocks!netVars
<1>4. ASSUME NEW s \in Blocks!Sessions, Blocks!Open(s)
      PROVE  BlocksInv'
  BY <1>4 DEF Blocks!Open, Blocks!timerVars, Blocks!serverVars, Blocks!netVars
<1>5. ASSUME NEW s \in Blocks!Sessions, Blocks!Connect(s)
      PROVE  BlocksInv'
  <2>1. Blocks!TypeOK'
    BY <1>5 DEF Blocks!Connect, Blocks!timerVars, Blocks!serverVars, Blocks!Operations
  <2>2. (StopsComeFromTimer /\ NotYetStarted)'
    BY <1>5 DEF Blocks!Connect, Blocks!timerVars
  <2>3. ClosedByStop'
    BY <1>5 DEF Blocks!Connect, Blocks!timerVars
  <2>4. FailedForAReason'
    BY <1>5 DEF Blocks!Connect, Blocks!timerVars
  <2>5. Blocks!ErrorMeansFailure'
    BY <1>5 DEF Blocks!Connect, Blocks!timerVars
  <2> QED
    BY <2>1, <2>2, <2>3, <2>4, <2>5
<1> QED
  BY <1>1, <1>2, <1>3, <1>4, <1>5 DEF Blocks!Main

\* The timer's handler posts the first stop(); before it none is known.
LEMMA TimerKeepsBlocksInv ==
  ASSUME BlocksFit, BlocksInv, Blocks!FireTimer \/ Blocks!PostStops
  PROVE  BlocksInv'
<1> USE DEF BlocksFit, Blocks!BlockConstants, BlocksInv, Blocks!TypeOK,
   StopsComeFromTimer, NotYetStarted, ClosedByStop, FailedForAReason,
   Blocks!ErrorMeansFailure, Blocks!Threads
<1>1. CASE Blocks!FireTimer
  BY <1>1 DEF Blocks!FireTimer, Blocks!mainVars, Blocks!sessionVars,
     Blocks!serverVars, Blocks!netVars
<1>2. CASE Blocks!PostStops
  BY <1>2 DEF Blocks!PostStops, Blocks!mainVars, Blocks!serverVars, Blocks!netVars
<1> QED
  BY <1>1, <1>2

\* run() returns: no session is touched.
LEMMA ReturnKeepsBlocksInv ==
  ASSUME BlocksFit, BlocksInv, NEW t \in Blocks!Threads, Blocks!RunReturns(t)
  PROVE  BlocksInv'
<1> USE DEF BlocksFit, Blocks!BlockConstants, BlocksInv, Blocks!TypeOK,
   StopsComeFromTimer, NotYetStarted, ClosedByStop, FailedForAReason,
   Blocks!ErrorMeansFailure, Blocks!Threads
<1> QED
  BY DEF Blocks!RunReturns, Blocks!mainVars, Blocks!timerVars, Blocks!sessionVars,
     Blocks!serverVars, Blocks!netVars

\* The handlers of a session.  A transfer that was begun on a closed socket, or
\* whose socket was closed under it, finds want_close_ set.
LEMMA HandlerKeepsBlocksInv ==
  ASSUME BlocksFit, BlocksInv, NEW s \in Blocks!Sessions, Blocks!Handler(s)
  PROVE  BlocksInv'
<1>0. Blocks!ThreadOf(s) \in Blocks!Threads
  BY ThreadOfType DEF BlocksInv
<1> USE DEF BlocksFit, Blocks!BlockConstants, BlocksInv, Blocks!TypeOK,
   StopsComeFromTimer, NotYetStarted, ClosedByStop, FailedForAReason,
   Blocks!ErrorMeansFailure, Blocks!Threads
<1>1. CASE Blocks!Stop(s)
  <2>1. Blocks!TypeOK'
    BY <1>1 DEF Blocks!Stop, Blocks!mainVars, Blocks!timerVars, Blocks!serverVars
  <2>2. StopsComeFromTimer'
    BY <1>1 DEF Blocks!Stop, Blocks!mainVars, Blocks!timerVars, Blocks!serverVars
  <2>3. NotYetStarted'
    BY <1>1 DEF Blocks!Stop, Blocks!mainVars, Blocks!timerVars, Blocks!serverVars
  <2>4. ClosedByStop'
    BY <1>1 DEF Blocks!Stop, Blocks!mainVars, Blocks!timerVars, Blocks!serverVars
  <2>5. FailedForAReason'
    BY <1>1 DEF Blocks!Stop, Blocks!mainVars, Blocks!timerVars, Blocks!serverVars
  <2>6. Blocks!ErrorMeansFailure'
    BY <1>1 DEF Blocks!Stop, Blocks!mainVars, Blocks!timerVars, Blocks!serverVars
  <2> QED
    BY <2>1, <2>2, <2>3, <2>4, <2>5, <2>6
<1>2. CASE Blocks!Connected(s)
  <2>0. (\E next \in {"write", "read"} : Blocks!Begin(s, next)) \/ Blocks!End(s)
    BY <1>2 DEF Blocks!Connected
  <2>a. /\ op' \in [Blocks!Sessions -> Blocks!Operations]
        /\ result' \in [Blocks!Sessions -> {"pending", "ok", "failed"}]
        /\ left' \in [Blocks!Sessions -> 0 .. BlockSize]
    BY <2>0, BeginOrEnd
  <2>b. /\ \A r \in Blocks!Sessions \ {s} : op'[r] = op[r] /\ result'[r] = result[r]
        /\ result'[s] = "failed" => ~opened[s]
    BY <2>0, BeginOrEnd
  <2>c. /\ op[s] # "none" /\ s \in started
        /\ opened' = opened /\ stop' = stop /\ conn' = conn
        /\ starting' = starting /\ started' = started /\ timer' = timer
        /\ \A r \in Blocks!Sessions \ {s} : error'[r] = error[r]
    BY <1>2 DEF Blocks!Connected, Blocks!mainVars, Blocks!timerVars,
       Blocks!serverVars, Blocks!netVars
  <2>1. Blocks!TypeOK'
    BY <1>2, <1>0, <2>a DEF Blocks!Connected, Blocks!mainVars, Blocks!timerVars,
       Blocks!serverVars, Blocks!netVars
  <2>2. StopsComeFromTimer'
    BY <2>c
  <2>3. NotYetStarted'
    <3>1. \A r \in starting' : r \notin started'
      BY <2>c
    <3>2. ASSUME NEW r \in Blocks!Sessions, r \notin started'
          PROVE  op'[r] = "none" /\ conn'[r] \in {"none", "closed"} /\ ~error'[r]
      <4>1. r \in Blocks!Sessions \ {s} /\ r \notin started
        BY <2>c, <3>2
      <4>2. op[r] = "none" /\ conn[r] \in {"none", "closed"} /\ ~error[r]
        BY <4>1
      <4> QED
        BY <2>b, <2>c, <4>1, <4>2
    <3> QED
      BY <3>1, <3>2
  <2>4. ClosedByStop'
    BY <2>b, <2>c
  <2>5. FailedForAReason'
    <3>1. ASSUME NEW r \in Blocks!Sessions, op'[r] \in {"write", "read"},
                 result'[r] = "failed"
          PROVE  conn'[r] = "broken" \/ stop'[r] = "done"
      <4>1. CASE r = s
        BY <2>b, <2>c, <3>1, <4>1
      <4>2. CASE r # s
        BY <2>b, <2>c, <3>1, <4>2
      <4> QED
        BY <4>1, <4>2
    <3> QED
      BY <3>1
  <2>6. Blocks!ErrorMeansFailure'
    BY <1>2 DEF Blocks!Connected, Blocks!mainVars, Blocks!timerVars,
       Blocks!serverVars, Blocks!netVars
  <2> QED
    BY <2>1, <2>2, <2>3, <2>4, <2>5, <2>6
<1>3. CASE Blocks!Transferred(s)
  <2>0. (\E next \in {"write", "read"} : Blocks!Begin(s, next)) \/ Blocks!End(s)
    BY <1>3 DEF Blocks!Transferred
  <2>a. /\ op' \in [Blocks!Sessions -> Blocks!Operations]
        /\ result' \in [Blocks!Sessions -> {"pending", "ok", "failed"}]
        /\ left' \in [Blocks!Sessions -> 0 .. BlockSize]
    BY <2>0, BeginOrEnd
  <2>b. /\ \A r \in Blocks!Sessions \ {s} : op'[r] = op[r] /\ result'[r] = result[r]
        /\ result'[s] = "failed" => ~opened[s]
    BY <2>0, BeginOrEnd
  <2>c. /\ op[s] # "none" /\ s \in started
        /\ opened' = opened /\ stop' = stop /\ conn' = conn
        /\ starting' = starting /\ started' = started /\ timer' = timer
        /\ \A r \in Blocks!Sessions \ {s} : error'[r] = error[r]
    BY <1>3 DEF Blocks!Transferred, Blocks!mainVars, Blocks!timerVars,
       Blocks!serverVars, Blocks!netVars
  <2>1. Blocks!TypeOK'
    BY <1>3, <1>0, <2>a DEF Blocks!Transferred, Blocks!mainVars, Blocks!timerVars,
       Blocks!serverVars, Blocks!netVars
  <2>2. StopsComeFromTimer'
    BY <2>c
  <2>3. NotYetStarted'
    <3>1. \A r \in starting' : r \notin started'
      BY <2>c
    <3>2. ASSUME NEW r \in Blocks!Sessions, r \notin started'
          PROVE  op'[r] = "none" /\ conn'[r] \in {"none", "closed"} /\ ~error'[r]
      <4>1. r \in Blocks!Sessions \ {s} /\ r \notin started
        BY <2>c, <3>2
      <4>2. op[r] = "none" /\ conn[r] \in {"none", "closed"} /\ ~error[r]
        BY <4>1
      <4> QED
        BY <2>b, <2>c, <4>1, <4>2
    <3> QED
      BY <3>1, <3>2
  <2>4. ClosedByStop'
    BY <2>b, <2>c
  <2>5. FailedForAReason'
    <3>1. ASSUME NEW r \in Blocks!Sessions, op'[r] \in {"write", "read"},
                 result'[r] = "failed"
          PROVE  conn'[r] = "broken" \/ stop'[r] = "done"
      <4>1. CASE r = s
        BY <2>b, <2>c, <3>1, <4>1
      <4>2. CASE r # s
        BY <2>b, <2>c, <3>1, <4>2
      <4> QED
        BY <4>1, <4>2
    <3> QED
      BY <3>1
  <2>6. Blocks!ErrorMeansFailure'
    BY <1>3 DEF Blocks!Transferred, Blocks!mainVars, Blocks!timerVars,
       Blocks!serverVars, Blocks!netVars
  <2> QED
    BY <2>1, <2>2, <2>3, <2>4, <2>5, <2>6
<1> QED
  BY <1>1, <1>2, <1>3 DEF Blocks!Handler

\* The reactor: an operation fails only on a broken connection.
LEMMA ReactorKeepsBlocksInv ==
  ASSUME BlocksFit, BlocksInv, NEW s \in Blocks!Sessions, Blocks!Reactor(s)
  PROVE  BlocksInv'
<1> USE DEF BlocksFit, Blocks!BlockConstants, BlocksInv, Blocks!TypeOK,
   StopsComeFromTimer, NotYetStarted, ClosedByStop, FailedForAReason,
   Blocks!ErrorMeansFailure, Blocks!Threads
<1>1. CASE Blocks!PerformConnect(s)
  <2>1. Blocks!TypeOK'
    BY <1>1 DEF Blocks!PerformConnect, Blocks!InReactor, Blocks!Complete,
       Blocks!mainVars, Blocks!timerVars, Blocks!serverVars, Blocks!netVars
  <2>2. StopsComeFromTimer'
    BY <1>1 DEF Blocks!PerformConnect, Blocks!InReactor, Blocks!Complete,
       Blocks!mainVars, Blocks!timerVars, Blocks!serverVars, Blocks!netVars
  <2>3. NotYetStarted'
    BY <1>1 DEF Blocks!PerformConnect, Blocks!InReactor, Blocks!Complete,
       Blocks!mainVars, Blocks!timerVars, Blocks!serverVars, Blocks!netVars
  <2>4. ClosedByStop'
    BY <1>1 DEF Blocks!PerformConnect, Blocks!InReactor, Blocks!Complete,
       Blocks!mainVars, Blocks!timerVars, Blocks!serverVars, Blocks!netVars
  <2>5. FailedForAReason'
    BY <1>1 DEF Blocks!PerformConnect, Blocks!InReactor, Blocks!Complete,
       Blocks!mainVars, Blocks!timerVars, Blocks!serverVars, Blocks!netVars
  <2>6. Blocks!ErrorMeansFailure'
    BY <1>1 DEF Blocks!PerformConnect, Blocks!InReactor, Blocks!Complete,
       Blocks!mainVars, Blocks!timerVars, Blocks!serverVars, Blocks!netVars
  <2> QED
    BY <2>1, <2>2, <2>3, <2>4, <2>5, <2>6
<1>2. CASE Blocks!PerformWrite(s)
  <2>1. Blocks!TypeOK'
    <3>1. PICK n \in 1 .. left[s] :
            /\ toServer[s] + n <= Space
            /\ toServer' = [toServer EXCEPT ![s] = @ + n]
            /\ left' = [left EXCEPT ![s] = @ - n]
            /\ Blocks!Complete(s, IF n = left[s] THEN "ok" ELSE "pending")
      BY <1>2 DEF Blocks!PerformWrite
    <3>2. left[s] \in 0 .. BlockSize /\ toServer[s] \in 0 .. Space
      OBVIOUS
    <3>3. left' \in [Blocks!Sessions -> 0 .. BlockSize]
      BY <3>1, <3>2
    <3>4. toServer' \in [Blocks!Sessions -> 0 .. Space]
      BY <3>1, <3>2
    <3> QED
      BY <1>2, <3>1, <3>3, <3>4 DEF Blocks!PerformWrite, Blocks!Complete,
         Blocks!mainVars, Blocks!timerVars, Blocks!serverVars
  <2>2. StopsComeFromTimer'
    BY <1>2 DEF Blocks!PerformWrite, Blocks!InReactor, Blocks!Complete,
       Blocks!mainVars, Blocks!timerVars, Blocks!serverVars, Blocks!netVars
  <2>3. NotYetStarted'
    BY <1>2 DEF Blocks!PerformWrite, Blocks!InReactor, Blocks!Complete,
       Blocks!mainVars, Blocks!timerVars, Blocks!serverVars, Blocks!netVars
  <2>4. ClosedByStop'
    BY <1>2 DEF Blocks!PerformWrite, Blocks!InReactor, Blocks!Complete,
       Blocks!mainVars, Blocks!timerVars, Blocks!serverVars, Blocks!netVars
  <2>5. FailedForAReason'
    BY <1>2 DEF Blocks!PerformWrite, Blocks!InReactor, Blocks!Complete,
       Blocks!mainVars, Blocks!timerVars, Blocks!serverVars, Blocks!netVars
  <2>6. Blocks!ErrorMeansFailure'
    BY <1>2 DEF Blocks!PerformWrite, Blocks!InReactor, Blocks!Complete,
       Blocks!mainVars, Blocks!timerVars, Blocks!serverVars, Blocks!netVars
  <2> QED
    BY <2>1, <2>2, <2>3, <2>4, <2>5, <2>6
<1>3. CASE Blocks!PerformRead(s)
  <2>1. Blocks!TypeOK'
    <3>1. PICK n \in 1 .. left[s] :
            /\ n <= toClient[s]
            /\ toClient' = [toClient EXCEPT ![s] = @ - n]
            /\ left' = [left EXCEPT ![s] = @ - n]
            /\ Blocks!Complete(s, IF n = left[s] THEN "ok" ELSE "pending")
      BY <1>3 DEF Blocks!PerformRead
    <3>2. left[s] \in 0 .. BlockSize /\ toClient[s] \in 0 .. Space
      OBVIOUS
    <3>3. left' \in [Blocks!Sessions -> 0 .. BlockSize]
      BY <3>1, <3>2
    <3>4. toClient' \in [Blocks!Sessions -> 0 .. Space]
      BY <3>1, <3>2
    <3> QED
      BY <1>3, <3>1, <3>3, <3>4 DEF Blocks!PerformRead, Blocks!Complete,
         Blocks!mainVars, Blocks!timerVars, Blocks!serverVars
  <2>2. StopsComeFromTimer'
    BY <1>3 DEF Blocks!PerformRead, Blocks!InReactor, Blocks!Complete,
       Blocks!mainVars, Blocks!timerVars, Blocks!serverVars, Blocks!netVars
  <2>3. NotYetStarted'
    BY <1>3 DEF Blocks!PerformRead, Blocks!InReactor, Blocks!Complete,
       Blocks!mainVars, Blocks!timerVars, Blocks!serverVars, Blocks!netVars
  <2>4. ClosedByStop'
    BY <1>3 DEF Blocks!PerformRead, Blocks!InReactor, Blocks!Complete,
       Blocks!mainVars, Blocks!timerVars, Blocks!serverVars, Blocks!netVars
  <2>5. FailedForAReason'
    BY <1>3 DEF Blocks!PerformRead, Blocks!InReactor, Blocks!Complete,
       Blocks!mainVars, Blocks!timerVars, Blocks!serverVars, Blocks!netVars
  <2>6. Blocks!ErrorMeansFailure'
    BY <1>3 DEF Blocks!PerformRead, Blocks!InReactor, Blocks!Complete,
       Blocks!mainVars, Blocks!timerVars, Blocks!serverVars, Blocks!netVars
  <2> QED
    BY <2>1, <2>2, <2>3, <2>4, <2>5, <2>6
<1>4. CASE Blocks!PerformFails(s)
  <2>1. Blocks!TypeOK'
    BY <1>4 DEF Blocks!PerformFails, Blocks!InReactor, Blocks!Complete,
       Blocks!mainVars, Blocks!timerVars, Blocks!serverVars, Blocks!netVars
  <2>2. StopsComeFromTimer'
    BY <1>4 DEF Blocks!PerformFails, Blocks!InReactor, Blocks!Complete,
       Blocks!mainVars, Blocks!timerVars, Blocks!serverVars, Blocks!netVars
  <2>3. NotYetStarted'
    BY <1>4 DEF Blocks!PerformFails, Blocks!InReactor, Blocks!Complete,
       Blocks!mainVars, Blocks!timerVars, Blocks!serverVars, Blocks!netVars
  <2>4. ClosedByStop'
    BY <1>4 DEF Blocks!PerformFails, Blocks!InReactor, Blocks!Complete,
       Blocks!mainVars, Blocks!timerVars, Blocks!serverVars, Blocks!netVars
  <2>5. FailedForAReason'
    BY <1>4 DEF Blocks!PerformFails, Blocks!InReactor, Blocks!Complete,
       Blocks!mainVars, Blocks!timerVars, Blocks!serverVars, Blocks!netVars
  <2>6. Blocks!ErrorMeansFailure'
    BY <1>4 DEF Blocks!PerformFails, Blocks!InReactor, Blocks!Complete,
       Blocks!mainVars, Blocks!timerVars, Blocks!serverVars, Blocks!netVars
  <2> QED
    BY <2>1, <2>2, <2>3, <2>4, <2>5, <2>6
<1> QED
  BY <1>1, <1>2, <1>3, <1>4 DEF Blocks!Reactor

\* The server and the network touch no operation of the client, and a broken
\* connection stays broken.
LEMMA ServerKeepsBlocksInv ==
  ASSUME BlocksFit, BlocksInv, NEW s \in Blocks!Sessions, Blocks!Server(s)
  PROVE  BlocksInv'
<1> USE DEF BlocksFit, Blocks!BlockConstants, BlocksInv, Blocks!TypeOK,
   StopsComeFromTimer, NotYetStarted, ClosedByStop, FailedForAReason,
   Blocks!ErrorMeansFailure, Blocks!Threads
<1>1. CASE Blocks!Accept(s)
  <2>1. Blocks!TypeOK'
    BY <1>1 DEF Blocks!Accept, Blocks!ServerGoesOn, Blocks!mainVars, Blocks!timerVars,
       Blocks!sessionVars, Blocks!netVars
  <2>2. StopsComeFromTimer'
    BY <1>1 DEF Blocks!Accept, Blocks!ServerGoesOn, Blocks!mainVars, Blocks!timerVars,
       Blocks!sessionVars, Blocks!netVars
  <2>3. NotYetStarted'
    BY <1>1 DEF Blocks!Accept, Blocks!ServerGoesOn, Blocks!mainVars, Blocks!timerVars,
       Blocks!sessionVars, Blocks!netVars
  <2>4. ClosedByStop'
    BY <1>1 DEF Blocks!Accept, Blocks!ServerGoesOn, Blocks!mainVars, Blocks!timerVars,
       Blocks!sessionVars, Blocks!netVars
  <2>5. FailedForAReason'
    BY <1>1 DEF Blocks!Accept, Blocks!ServerGoesOn, Blocks!mainVars, Blocks!timerVars,
       Blocks!sessionVars, Blocks!netVars
  <2>6. Blocks!ErrorMeansFailure'
    BY <1>1 DEF Blocks!Accept, Blocks!ServerGoesOn, Blocks!mainVars, Blocks!timerVars,
       Blocks!sessionVars, Blocks!netVars
  <2> QED
    BY <2>1, <2>2, <2>3, <2>4, <2>5, <2>6
<1>2. CASE Blocks!ServerRead(s)
  <2>1. Blocks!TypeOK'
    <3>1. PICK n \in 1 .. serverLeft[s] :
            /\ n <= toServer[s]
            /\ toServer' = [toServer EXCEPT ![s] = @ - n]
            /\ Blocks!ServerGoesOn(s, n, "write")
      BY <1>2 DEF Blocks!ServerRead
    <3>2. serverLeft[s] \in 0 .. BlockSize /\ toServer[s] \in 0 .. Space
      OBVIOUS
    <3>3. /\ serverOp' \in [Blocks!Sessions -> {"none", "write", "read", "ended"}]
          /\ serverLeft' \in [Blocks!Sessions -> 0 .. BlockSize]
      BY <3>1, <3>2 DEF Blocks!ServerGoesOn
    <3>4. toServer' \in [Blocks!Sessions -> 0 .. Space]
      BY <3>1, <3>2
    <3> QED
      BY <1>2, <3>3, <3>4 DEF Blocks!ServerRead, Blocks!mainVars, Blocks!timerVars,
         Blocks!sessionVars
  <2>2. StopsComeFromTimer'
    BY <1>2 DEF Blocks!ServerRead, Blocks!ServerGoesOn, Blocks!mainVars,
       Blocks!timerVars, Blocks!sessionVars, Blocks!netVars
  <2>3. NotYetStarted'
    BY <1>2 DEF Blocks!ServerRead, Blocks!ServerGoesOn, Blocks!mainVars,
       Blocks!timerVars, Blocks!sessionVars, Blocks!netVars
  <2>4. ClosedByStop'
    BY <1>2 DEF Blocks!ServerRead, Blocks!ServerGoesOn, Blocks!mainVars,
       Blocks!timerVars, Blocks!sessionVars, Blocks!netVars
  <2>5. FailedForAReason'
    BY <1>2 DEF Blocks!ServerRead, Blocks!ServerGoesOn, Blocks!mainVars,
       Blocks!timerVars, Blocks!sessionVars, Blocks!netVars
  <2>6. Blocks!ErrorMeansFailure'
    BY <1>2 DEF Blocks!ServerRead, Blocks!ServerGoesOn, Blocks!mainVars,
       Blocks!timerVars, Blocks!sessionVars, Blocks!netVars
  <2> QED
    BY <2>1, <2>2, <2>3, <2>4, <2>5, <2>6
<1>3. CASE Blocks!ServerWrite(s)
  <2>1. Blocks!TypeOK'
    <3>1. PICK n \in 1 .. serverLeft[s] :
            /\ toClient[s] + n <= Space
            /\ toClient' = [toClient EXCEPT ![s] = @ + n]
            /\ Blocks!ServerGoesOn(s, n, "read")
      BY <1>3 DEF Blocks!ServerWrite
    <3>2. serverLeft[s] \in 0 .. BlockSize /\ toClient[s] \in 0 .. Space
      OBVIOUS
    <3>3. /\ serverOp' \in [Blocks!Sessions -> {"none", "write", "read", "ended"}]
          /\ serverLeft' \in [Blocks!Sessions -> 0 .. BlockSize]
      BY <3>1, <3>2 DEF Blocks!ServerGoesOn
    <3>4. toClient' \in [Blocks!Sessions -> 0 .. Space]
      BY <3>1, <3>2
    <3> QED
      BY <1>3, <3>3, <3>4 DEF Blocks!ServerWrite, Blocks!mainVars, Blocks!timerVars,
         Blocks!sessionVars
  <2>2. StopsComeFromTimer'
    BY <1>3 DEF Blocks!ServerWrite, Blocks!ServerGoesOn, Blocks!mainVars,
       Blocks!timerVars, Blocks!sessionVars, Blocks!netVars
  <2>3. NotYetStarted'
    BY <1>3 DEF Blocks!ServerWrite, Blocks!ServerGoesOn, Blocks!mainVars,
       Blocks!timerVars, Blocks!sessionVars, Blocks!netVars
  <2>4. ClosedByStop'
    BY <1>3 DEF Blocks!ServerWrite, Blocks!ServerGoesOn, Blocks!mainVars,
       Blocks!timerVars, Blocks!sessionVars, Blocks!netVars
  <2>5. FailedForAReason'
    BY <1>3 DEF Blocks!ServerWrite, Blocks!ServerGoesOn, Blocks!mainVars,
       Blocks!timerVars, Blocks!sessionVars, Blocks!netVars
  <2>6. Blocks!ErrorMeansFailure'
    BY <1>3 DEF Blocks!ServerWrite, Blocks!ServerGoesOn, Blocks!mainVars,
       Blocks!timerVars, Blocks!sessionVars, Blocks!netVars
  <2> QED
    BY <2>1, <2>2, <2>3, <2>4, <2>5, <2>6
<1>4. CASE Blocks!ServerFails(s)
  <2>1. Blocks!TypeOK'
    BY <1>4 DEF Blocks!ServerFails, Blocks!ServerGoesOn, Blocks!mainVars,
       Blocks!timerVars, Blocks!sessionVars, Blocks!netVars
  <2>2. StopsComeFromTimer'
    BY <1>4 DEF Blocks!ServerFails, Blocks!ServerGoesOn, Blocks!mainVars,
       Blocks!timerVars, Blocks!sessionVars, Blocks!netVars
  <2>3. NotYetStarted'
    BY <1>4 DEF Blocks!ServerFails, Blocks!ServerGoesOn, Blocks!mainVars,
       Blocks!timerVars, Blocks!sessionVars, Blocks!netVars
  <2>4. ClosedByStop'
    BY <1>4 DEF Blocks!ServerFails, Blocks!ServerGoesOn, Blocks!mainVars,
       Blocks!timerVars, Blocks!sessionVars, Blocks!netVars
  <2>5. FailedForAReason'
    BY <1>4 DEF Blocks!ServerFails, Blocks!ServerGoesOn, Blocks!mainVars,
       Blocks!timerVars, Blocks!sessionVars, Blocks!netVars
  <2>6. Blocks!ErrorMeansFailure'
    BY <1>4 DEF Blocks!ServerFails, Blocks!ServerGoesOn, Blocks!mainVars,
       Blocks!timerVars, Blocks!sessionVars, Blocks!netVars
  <2> QED
    BY <2>1, <2>2, <2>3, <2>4, <2>5, <2>6
<1> QED
  BY <1>1, <1>2, <1>3, <1>4 DEF Blocks!Server

LEMMA NetworkKeepsBlocksInv ==
  ASSUME BlocksFit, BlocksInv, NEW s \in Blocks!Sessions,
         Blocks!AcceptFails \/ Blocks!Establish(s) \/ Blocks!Refuse(s) \/ Blocks!Break(s)
  PROVE  BlocksInv'
<1> USE DEF BlocksFit, Blocks!BlockConstants, BlocksInv, Blocks!TypeOK,
   StopsComeFromTimer, NotYetStarted, ClosedByStop, FailedForAReason,
   Blocks!ErrorMeansFailure, Blocks!Threads
<1>1. CASE Blocks!AcceptFails
  BY <1>1 DEF Blocks!AcceptFails, Blocks!mainVars, Blocks!timerVars,
     Blocks!sessionVars, Blocks!netVars
<1>2. CASE Blocks!Establish(s)
  BY <1>2 DEF Blocks!Establish, Blocks!Network, Blocks!mainVars, Blocks!timerVars,
     Blocks!sessionVars, Blocks!serverVars
<1>3. CASE Blocks!Refuse(s)
  BY <1>3 DEF Blocks!Refuse, Blocks!Network, Blocks!mainVars, Blocks!timerVars,
     Blocks!sessionVars, Blocks!serverVars
<1>4. CASE Blocks!Break(s)
  BY <1>4 DEF Blocks!Break, Blocks!Network, Blocks!mainVars, Blocks!timerVars,
     Blocks!sessionVars, Blocks!serverVars
<1> QED
  BY <1>1, <1>2, <1>3, <1>4

-----------------------------------------------------------------------------
\* Every step keeps the invariant.
LEMMA NextBlocksInv ==
  ASSUME BlocksFit
  PROVE  BlocksInv /\ [Blocks!Next]_(Blocks!vars) => BlocksInv'
<1> SUFFICES ASSUME BlocksInv, [Blocks!Next]_(Blocks!vars) PROVE BlocksInv'
  OBVIOUS
<1>1. CASE UNCHANGED Blocks!vars
  BY <1>1 DEF Blocks!vars, Blocks!mainVars, Blocks!timerVars, Blocks!sessionVars,
     Blocks!serverVars, Blocks!netVars, BlocksInv, Blocks!TypeOK, StopsComeFromTimer,
     NotYetStarted, ClosedByStop, FailedForAReason, Blocks!ErrorMeansFailure,
     Blocks!Threads
<1>2. CASE Blocks!Main \/ Blocks!FireTimer \/ Blocks!PostStops
  BY <1>2, MainKeepsBlocksInv, TimerKeepsBlocksInv
<1>3. CASE Blocks!AcceptFails
  <2>1. CASE Blocks!Sessions = {}
    BY <1>3, <2>1 DEF Blocks!AcceptFails, Blocks!mainVars, Blocks!timerVars,
       Blocks!sessionVars, Blocks!netVars, BlocksInv, Blocks!TypeOK, StopsComeFromTimer,
       NotYetStarted, ClosedByStop, FailedForAReason, Blocks!ErrorMeansFailure,
       Blocks!Threads
  <2>2. CASE Blocks!Sessions # {}
    BY <1>3, <2>2, NetworkKeepsBlocksInv
  <2> QED
    BY <2>1, <2>2
<1>4. CASE Blocks!Terminated
  BY <1>1, <1>4 DEF Blocks!Terminated
<1>5. ASSUME NEW t \in Blocks!Threads, Blocks!RunReturns(t) PROVE BlocksInv'
  BY <1>5, ReturnKeepsBlocksInv
<1>6. ASSUME NEW s \in Blocks!Sessions,
             \/ Blocks!Handler(s) \/ Blocks!Reactor(s) \/ Blocks!Server(s)
             \/ Blocks!Establish(s) \/ Blocks!Failures(s)
      PROVE  BlocksInv'
  BY <1>6, HandlerKeepsBlocksInv, ReactorKeepsBlocksInv, ServerKeepsBlocksInv,
     NetworkKeepsBlocksInv DEF Blocks!Failures
<1> QED
  BY <1>1, <1>2, <1>3, <1>4, <1>5, <1>6 DEF Blocks!Next

\* The inductive invariant holds in every behaviour, for every number of
\* sessions and threads, every block size and every capacity of the sockets.
THEOREM BlocksInvariance ==
  ASSUME BlocksFit
  PROVE  Blocks!Spec => []BlocksInv
<1>1. Blocks!Init => BlocksInv
  BY InitBlocksInv
<1>2. BlocksInv /\ [Blocks!Next]_(Blocks!vars) => BlocksInv'
  BY NextBlocksInv
<1>3. QED
  BY <1>1, <1>2, PTL DEF Blocks!Spec

\* The state of client1 and server1 is well-typed: no transfer goes past its
\* block, and nobody accepts, reads or writes out of turn.
THEOREM BlocksTypeCorrect ==
  ASSUME BlocksFit
  PROVE  Blocks!Spec => []Blocks!TypeOK
<1>1. BlocksInv => Blocks!TypeOK
  BY DEF BlocksInv
<1>2. Blocks!Spec => []BlocksInv
  BY BlocksInvariance
<1>3. QED
  BY <1>1, <1>2, PTL

\* client1 counts an error only for a connection that the network has broken,
\* whenever the stop timer fires and whatever main is doing then.
THEOREM BlocksErrorCorrect ==
  ASSUME BlocksFit
  PROVE  Blocks!Spec => []Blocks!ErrorMeansFailure
<1>1. BlocksInv => Blocks!ErrorMeansFailure
  BY DEF BlocksInv
<1>2. Blocks!Spec => []BlocksInv
  BY BlocksInvariance
<1>3. QED
  BY <1>1, <1>2, PTL

\* A transfer of client1 fails only for a reason: the network broke the
\* connection, or stop() has set want_close_ before it closed the socket.
THEOREM BlocksFailureHasReason ==
  ASSUME BlocksFit
  PROVE  Blocks!Spec => []FailedForAReason
<1>1. BlocksInv => FailedForAReason
  BY DEF BlocksInv
<1>2. Blocks!Spec => []BlocksInv
  BY BlocksInvariance
<1>3. QED
  BY <1>1, <1>2, PTL

-----------------------------------------------------------------------------
(* EchoBlocks, the way to its end.  What makes sure that client1 comes to   *)
(* its end after the timer has fired, and that a block is nowhere stranded: *)
(* the safety halves of ClientEnds and of BlockComesBack.                   *)

\* After the timer's handler no service has a work, and every session has been
\* told to stop; main has one session in hand as long as it connects it.
FiredInv ==
  /\ timer \in {"posting", "done"} => \A t \in Blocks!Threads : ~work[t]
  /\ timer = "done" => \A s \in Blocks!Sessions : stop[s] # "no"
  /\ main = "connect" <=> starting # {}
  /\ \A r, s \in starting : r = s

\* An operation waits only on an open socket; a session that main has not
\* reached has none; a connection that is not made yet carries nothing.
SocketInv(s) ==
  /\ op[s] # "none" /\ result[s] = "pending" => opened[s]
  /\ s \notin started \cup starting => conn[s] = "none" /\ ~opened[s]
  /\ conn[s] = "closed" => ~opened[s]
  /\ conn[s] = "syn" => op[s] = "connect" /\ result[s] = "pending"
  /\ conn[s] \in {"none", "syn"} =>
       serverOp[s] = "none" /\ toServer[s] = 0 /\ toClient[s] = 0
  /\ serverOp[s] \in {"read", "write"} => serverLeft[s] > 0

\* The bytes of the block that each end has, and those on their way.
InClient(s) == IF op[s] = "write" THEN left[s] ELSE BlockSize - left[s]
InServer(s) ==
  CASE serverOp[s] = "write" -> serverLeft[s]
    [] serverOp[s] = "read"  -> BlockSize - serverLeft[s]
    [] OTHER -> 0
Whole(s) == InClient(s) + toServer[s] + InServer(s) + toClient[s] = BlockSize

\* The block is on its way to the server, or back.
GoingOut(s) ==
  /\ op[s] = "write" \/ left[s] = BlockSize
  /\ toClient[s] = 0 /\ serverOp[s] \in {"none", "read"}
ComingBack(s) ==
  /\ op[s] = "read" \/ left[s] = 0
  /\ toServer[s] = 0
  /\ serverOp[s] = "write" \/ (serverOp[s] = "read" /\ serverLeft[s] = BlockSize)

\* A connection that is up has both its ends, and between them one block.
UpInv(s) ==
  conn[s] = "up" =>
    /\ opened[s] /\ op[s] # "none" /\ result[s] # "failed" /\ serverOp[s] # "ended"
    /\ op[s] = "connect" =>
         /\ toServer[s] = 0 /\ toClient[s] = 0
         /\ serverOp[s] = "none" \/ (serverOp[s] = "read" /\ serverLeft[s] = BlockSize)
    /\ op[s] # "connect" =>
         /\ Whole(s) /\ (GoingOut(s) \/ ComingBack(s))
         /\ result[s] = "ok" <=> left[s] = 0

\* No thread leaves a transfer behind.
TransferInv(s) ==
  op[s] \in {"write", "read"} => thread[Blocks!ThreadOf(s)] # "returned"

SessionInv(s) == SocketInv(s) /\ UpInv(s) /\ TransferInv(s)

BlocksEndInv == FiredInv /\ \A s \in Blocks!Sessions : SessionInv(s)

-----------------------------------------------------------------------------
\* A session that a step leaves alone keeps its part of the invariant.
LEMMA SessionLeftAlone ==
  ASSUME NEW s \in Blocks!Sessions, SessionInv(s),
         threadCount' = threadCount,
         (s \in started \cup starting)' = (s \in started \cup starting),
         opened'[s] = opened[s], op'[s] = op[s], result'[s] = result[s],
         left'[s] = left[s], serverOp'[s] = serverOp[s],
         serverLeft'[s] = serverLeft[s], conn'[s] = conn[s],
         toServer'[s] = toServer[s], toClient'[s] = toClient[s],
         thread'[Blocks!ThreadOf(s)] = "returned" =>
           thread[Blocks!ThreadOf(s)] = "returned" \/ op[s] \notin {"write", "read"}
  PROVE  SessionInv(s)'
<1>1. SocketInv(s)'
  BY DEF SessionInv, SocketInv
<1>2. Whole(s)' = Whole(s) /\ GoingOut(s)' = GoingOut(s) /\ ComingBack(s)' = ComingBack(s)
  BY DEF Whole, InClient, InServer, GoingOut, ComingBack
<1>3. UpInv(s)'
  BY <1>2 DEF SessionInv, UpInv
<1>4. TransferInv(s)'
  BY DEF SessionInv, TransferInv, Blocks!ThreadOf
<1> QED
  BY <1>1, <1>3, <1>4 DEF SessionInv

\* The constructors establish it.
LEMMA InitBlocksEndInv ==
  ASSUME BlocksFit
  PROVE  Blocks!Init => BlocksEndInv
<1> SUFFICES ASSUME Blocks!Init PROVE BlocksEndInv
  OBVIOUS
<1>1. FiredInv
  BY DEF Blocks!Init, FiredInv
<1>2. ASSUME NEW s \in Blocks!Sessions PROVE SessionInv(s)
  BY DEF Blocks!Init, SessionInv, SocketInv, UpInv, TransferInv
<1> QED
  BY <1>1, <1>2 DEF BlocksEndInv

\* main's steps keep it: only a socket that nobody has closed in the meantime
\* is connected, and nothing is on its way there yet.
LEMMA MainKeepsBlocksEndInv ==
  ASSUME BlocksFit, BlocksInv, BlocksEndInv, Blocks!Main
  PROVE  BlocksEndInv'
<1>1. CASE Blocks!SetTimer \/ Blocks!EndStart \/ Blocks!Join
  <2>1. /\ UNCHANGED <<thread, Blocks!sessionVars, Blocks!serverVars, Blocks!netVars>>
        /\ UNCHANGED <<threadCount, starting, started, work>>
    BY <1>1 DEF Blocks!SetTimer, Blocks!EndStart, Blocks!Join, Blocks!mainVars,
       Blocks!timerVars
  <2>2. FiredInv'
    BY <1>1, <2>1 DEF Blocks!SetTimer, Blocks!EndStart, Blocks!Join, Blocks!mainVars,
       Blocks!timerVars, Blocks!sessionVars, BlocksEndInv, FiredInv, Blocks!Threads
  <2>3. ASSUME NEW s \in Blocks!Sessions PROVE SessionInv(s)'
    BY <2>1, <2>3, SessionLeftAlone DEF BlocksEndInv, Blocks!sessionVars,
       Blocks!serverVars, Blocks!netVars, Blocks!ThreadOf
  <2> QED
    BY <2>2, <2>3 DEF BlocksEndInv, Blocks!Sessions
<1>2. ASSUME NEW s \in Blocks!Sessions, Blocks!Open(s)
      PROVE  BlocksEndInv'
  <2>1. FiredInv'
    BY <1>2 DEF Blocks!Open, Blocks!timerVars, BlocksEndInv, FiredInv, Blocks!Threads
  <2>2. starting = {}
    BY <1>2 DEF Blocks!Open, BlocksEndInv, FiredInv
  <2>3. SessionInv(s)'
    <3>1. conn[s] = "none" /\ op[s] = "none" /\ ~opened[s] /\ SessionInv(s)
      BY <1>2, <2>2 DEF Blocks!Open, BlocksEndInv, SessionInv, SocketInv, BlocksInv,
         NotYetStarted
    <3>2. /\ opened'[s] = TRUE /\ conn'[s] = "none" /\ op'[s] = "none" /\ s \in starting'
          /\ serverOp' = serverOp /\ serverLeft' = serverLeft
          /\ toServer' = toServer /\ toClient' = toClient
      BY <1>2, <3>1 DEF Blocks!Open, Blocks!serverVars, Blocks!netVars, BlocksInv,
         Blocks!TypeOK
    <3> QED
      BY <3>1, <3>2 DEF SessionInv, SocketInv, UpInv, TransferInv
  <2>4. ASSUME NEW r \in Blocks!Sessions \ {s} PROVE SessionInv(r)'
    <3>1. /\ SessionInv(r) /\ threadCount' = threadCount /\ thread' = thread
          /\ (r \in started \cup starting)' = (r \in started \cup starting)
          /\ opened'[r] = opened[r] /\ UNCHANGED <<op, result, left>>
          /\ UNCHANGED <<serverOp, serverLeft, conn, toServer, toClient>>
      BY <1>2, <2>2 DEF Blocks!Open, BlocksEndInv, Blocks!serverVars, Blocks!netVars,
         BlocksInv, Blocks!TypeOK
    <3> QED
      BY <3>1, SessionLeftAlone DEF Blocks!ThreadOf
  <2> QED
    BY <2>1, <2>3, <2>4 DEF BlocksEndInv, Blocks!Sessions
<1>3. ASSUME NEW s \in Blocks!Sessions, Blocks!Connect(s)
      PROVE  BlocksEndInv'
  <2>1. FiredInv'
    BY <1>3 DEF Blocks!Connect, Blocks!timerVars, BlocksEndInv, FiredInv, Blocks!Threads
  <2>2. SessionInv(s)'
    <3>1. /\ conn[s] \in {"none", "closed"} /\ SessionInv(s) /\ s \in started'
          /\ op'[s] = "connect" /\ result'[s] \in {"pending", "ok", "failed"}
          /\ result'[s] # "failed" => opened[s]
          /\ conn'[s] = CASE result'[s] = "ok" -> "up"
                          [] result'[s] = "pending" -> "syn"
                          [] OTHER -> conn[s]
          /\ UNCHANGED <<opened, serverOp, serverLeft, toServer, toClient>>
      BY <1>3 DEF Blocks!Connect, Blocks!serverVars, BlocksEndInv, BlocksInv,
         NotYetStarted, Blocks!TypeOK, Blocks!Operations
    <3> QED
      BY <3>1 DEF SessionInv, SocketInv, UpInv, TransferInv
  <2>3. ASSUME NEW r \in Blocks!Sessions \ {s} PROVE SessionInv(r)'
    <3>0. (r \in started \cup starting)' = (r \in started \cup starting)
      BY <1>3 DEF Blocks!Connect, BlocksEndInv, FiredInv
    <3>1. /\ SessionInv(r) /\ threadCount' = threadCount /\ thread' = thread
          /\ op'[r] = op[r] /\ result'[r] = result[r] /\ conn'[r] = conn[r]
          /\ UNCHANGED <<opened, left, serverOp, serverLeft, toServer, toClient>>
      BY <1>3 DEF Blocks!Connect, BlocksEndInv, Blocks!serverVars, BlocksInv,
         Blocks!TypeOK, Blocks!Operations
    <3> QED
      BY <3>0, <3>1, SessionLeftAlone DEF Blocks!ThreadOf
  <2> QED
    BY <2>1, <2>2, <2>3 DEF BlocksEndInv, Blocks!Sessions
<1> QED
  BY <1>1, <1>2, <1>3 DEF Blocks!Main

\* The timer's two steps keep it: they touch no session but to stop it.
LEMMA TimerKeepsBlocksEndInv ==
  ASSUME BlocksFit, BlocksInv, BlocksEndInv, Blocks!FireTimer \/ Blocks!PostStops
  PROVE  BlocksEndInv'
<1>1. FiredInv'
  BY DEF Blocks!FireTimer, Blocks!PostStops, Blocks!mainVars, Blocks!sessionVars,
     BlocksEndInv, FiredInv, Blocks!Threads, Blocks!Sessions, BlocksInv,
     StopsComeFromTimer
<1>2. /\ UNCHANGED <<thread, opened, op, result, left, threadCount, starting, started>>
      /\ UNCHANGED <<serverOp, serverLeft, conn, toServer, toClient>>
  BY DEF Blocks!FireTimer, Blocks!PostStops, Blocks!mainVars, Blocks!sessionVars,
     Blocks!serverVars, Blocks!netVars
<1>3. ASSUME NEW s \in Blocks!Sessions PROVE SessionInv(s)'
  BY <1>2, <1>3, SessionLeftAlone DEF BlocksEndInv, Blocks!ThreadOf
<1> QED
  BY <1>1, <1>3 DEF BlocksEndInv, Blocks!Sessions

\* A thread returns only when none of its sessions has an operation.
LEMMA ReturnKeepsBlocksEndInv ==
  ASSUME BlocksFit, BlocksInv, BlocksEndInv, NEW t \in Blocks!Threads,
         Blocks!RunReturns(t)
  PROVE  BlocksEndInv'
<1>1. /\ UNCHANGED <<opened, op, result, left, stop, threadCount, starting, started>>
      /\ UNCHANGED <<main, timer, work, serverOp, serverLeft, conn, toServer, toClient>>
  BY DEF Blocks!RunReturns, Blocks!mainVars, Blocks!timerVars, Blocks!sessionVars,
     Blocks!serverVars, Blocks!netVars
<1>2. FiredInv'
  BY <1>1 DEF BlocksEndInv, FiredInv, Blocks!Threads
<1>3. ASSUME NEW s \in Blocks!Sessions PROVE SessionInv(s)'
  <2>1. Blocks!ThreadOf(s) \in Blocks!Threads
    BY ThreadOfType DEF BlocksInv
  <2>2. CASE Blocks!ThreadOf(s) = t
    <3>1. op[s] = "none"
      BY <2>2 DEF Blocks!RunReturns, Blocks!Busy
    <3> QED
      BY <1>1, <3>1, SessionLeftAlone DEF BlocksEndInv, Blocks!ThreadOf
  <2>3. CASE Blocks!ThreadOf(s) # t
    <3>1. thread'[Blocks!ThreadOf(s)] = thread[Blocks!ThreadOf(s)]
      BY <2>1, <2>3 DEF Blocks!RunReturns, BlocksInv, Blocks!TypeOK
    <3> QED
      BY <1>1, <3>1, SessionLeftAlone DEF BlocksEndInv, Blocks!ThreadOf
  <2> QED
    BY <2>2, <2>3
<1> QED
  BY <1>2, <1>3 DEF BlocksEndInv, Blocks!Sessions

\* What a step of one session has to show: what it does to that session.
LEMMA OneSession ==
  ASSUME BlocksFit, BlocksInv, BlocksEndInv, NEW s \in Blocks!Sessions,
         UNCHANGED <<Blocks!mainVars, Blocks!timerVars>>,
         stop' = stop \/ stop' = [stop EXCEPT ![s] = "done"],
         \A r \in Blocks!Sessions \ {s} :
           /\ opened'[r] = opened[r] /\ op'[r] = op[r] /\ result'[r] = result[r]
           /\ left'[r] = left[r] /\ serverOp'[r] = serverOp[r]
           /\ serverLeft'[r] = serverLeft[r] /\ conn'[r] = conn[r]
           /\ toServer'[r] = toServer[r] /\ toClient'[r] = toClient[r],
         thread' = thread \/ thread' = [thread EXCEPT ![Blocks!ThreadOf(s)] = "threw"],
         SessionInv(s)'
  PROVE  BlocksEndInv'
<1>1. FiredInv'
  BY DEF BlocksEndInv, FiredInv, Blocks!mainVars, Blocks!timerVars, Blocks!Threads,
     BlocksInv, Blocks!TypeOK
<1>2. ASSUME NEW r \in Blocks!Sessions \ {s} PROVE SessionInv(r)'
  <2>1. Blocks!ThreadOf(s) \in Blocks!Threads /\ Blocks!ThreadOf(r) \in Blocks!Threads
    BY ThreadOfType DEF BlocksInv
  <2>2. \/ thread'[Blocks!ThreadOf(r)] = thread[Blocks!ThreadOf(r)]
        \/ thread'[Blocks!ThreadOf(r)] = "threw"
    BY <2>1 DEF BlocksInv, Blocks!TypeOK
  <2>3. threadCount' = threadCount /\ started' = started /\ starting' = starting
    BY DEF Blocks!mainVars
  <2>4. Blocks!ThreadOf(r)' = Blocks!ThreadOf(r) /\ SessionInv(r)
    BY <2>3 DEF Blocks!ThreadOf, BlocksEndInv
  <2> QED
    BY <2>2, <2>3, <2>4, SessionLeftAlone DEF Blocks!ThreadOf
<1> QED
  BY <1>1, <1>2 DEF BlocksEndInv, Blocks!Sessions

\* stop() keeps it: a connection that is up is closed, an operation that waits
\* has failed.
LEMMA StopKeepsBlocksEndInv ==
  ASSUME BlocksFit, BlocksInv, BlocksEndInv, NEW s \in Blocks!Sessions, Blocks!Stop(s)
  PROVE  BlocksEndInv'
<1>1. /\ UNCHANGED <<op, left, thread, serverOp, serverLeft>>
      /\ UNCHANGED <<threadCount, starting, started>>
      /\ opened'[s] = FALSE
      /\ conn'[s] = IF opened[s] /\ conn[s] # "broken" THEN "closed" ELSE conn[s]
      /\ result'[s] = IF opened[s] /\ op[s] # "none" /\ result[s] = "pending"
                      THEN "failed" ELSE result[s]
      /\ toServer'[s] = 0 /\ toClient'[s] = 0
  BY DEF Blocks!Stop, Blocks!mainVars, Blocks!serverVars, BlocksInv, Blocks!TypeOK
<1>2. SessionInv(s)
  BY DEF BlocksEndInv
<1>3. SocketInv(s)'
  BY <1>1, <1>2 DEF SessionInv, SocketInv, UpInv
<1>4. UpInv(s)' /\ TransferInv(s)'
  BY <1>1, <1>2 DEF SessionInv, SocketInv, UpInv, TransferInv, Blocks!ThreadOf
<1>5. \A r \in Blocks!Sessions \ {s} :
         /\ opened'[r] = opened[r] /\ op'[r] = op[r] /\ result'[r] = result[r]
         /\ left'[r] = left[r] /\ serverOp'[r] = serverOp[r]
         /\ serverLeft'[r] = serverLeft[r] /\ conn'[r] = conn[r]
         /\ toServer'[r] = toServer[r] /\ toClient'[r] = toClient[r]
  BY DEF Blocks!Stop, Blocks!serverVars, BlocksInv, Blocks!TypeOK
<1> QED
  BY <1>3, <1>4, <1>5, OneSession DEF SessionInv, Blocks!Stop

\* The handlers of a session keep it: the block that has come back is the one
\* that goes out next.
LEMMA HandlerKeepsBlocksEndInv ==
  ASSUME BlocksFit, BlocksInv, BlocksEndInv, NEW s \in Blocks!Sessions,
         Blocks!Connected(s) \/ Blocks!Transferred(s)
  PROVE  BlocksEndInv'
<1> DEFINE t == Blocks!ThreadOf(s)
<1>0. /\ SessionInv(s) /\ t \in Blocks!Threads /\ Blocks!TypeOK
      /\ BlockSize \in Nat \ {0} /\ left[s] \in 0 .. BlockSize
      /\ serverLeft[s] \in 0 .. BlockSize
      /\ toServer[s] \in 0 .. Space /\ toClient[s] \in 0 .. Space /\ Space \in Nat
  BY ThreadOfType DEF BlocksEndInv, BlocksInv, Blocks!TypeOK, BlocksFit,
     Blocks!BlockConstants
<1>1. /\ UNCHANGED <<opened, threadCount, starting, started>>
      /\ UNCHANGED <<serverOp, serverLeft, conn, toServer, toClient>>
  BY DEF Blocks!Connected, Blocks!Transferred, Blocks!mainVars, Blocks!serverVars,
     Blocks!netVars
<1>2. \/ thread' = thread
      \/ thread' = [thread EXCEPT ![t] = "threw"] /\ op'[s] = "none"
  BY <1>0 DEF Blocks!Connected, Blocks!Transferred, Blocks!TypeOK, Blocks!End
<1>3. thread[t] = "run" /\ thread'[t] # "returned"
  BY <1>0, <1>2 DEF Blocks!Connected, Blocks!Transferred, Blocks!Idle, Blocks!TypeOK
<1>4. \/ Blocks!End(s) /\ (result[s] = "failed" \/ ~opened[s])
      \/ /\ result[s] = "ok" /\ op[s] \in {"connect", "read"} /\ Blocks!Begin(s, "write")
         /\ op[s] = "connect" => opened[s]
      \/ result[s] = "ok" /\ op[s] = "write" /\ Blocks!Begin(s, "read")
  BY <1>0 DEF Blocks!Connected, Blocks!Transferred, Blocks!TypeOK
<1>5. ASSUME Blocks!End(s), result[s] = "failed" \/ ~opened[s]
      PROVE  SessionInv(s)'
  <2>1. op'[s] = "none" /\ op[s] # "none" /\ result[s] # "pending"
    BY <1>0, <1>5 DEF Blocks!End, Blocks!TypeOK, Blocks!Connected, Blocks!Transferred
  <2>2. conn[s] # "up" /\ conn[s] # "syn"
    BY <1>0, <1>5, <2>1 DEF SessionInv, UpInv, SocketInv
  <2> QED
    BY <1>0, <1>1, <2>1, <2>2 DEF SessionInv, SocketInv, UpInv, TransferInv
<1>6. ASSUME NEW next \in {"write", "read"}, Blocks!Begin(s, next), result[s] = "ok",
             IF next = "write" THEN op[s] = "read" \/ (op[s] = "connect" /\ opened[s])
                               ELSE op[s] = "write"
      PROVE  SessionInv(s)'
  <2>1. /\ op'[s] = next /\ left'[s] = BlockSize
        /\ result'[s] = IF opened[s] THEN "pending" ELSE "failed"
    BY <1>0, <1>6 DEF Blocks!Begin, Blocks!TypeOK, Blocks!Operations
  <2>2. SocketInv(s)'
    BY <1>0, <1>1, <1>6, <2>1 DEF SessionInv, SocketInv
  <2>3. ASSUME conn[s] = "up", op[s] = "connect"
        PROVE  Whole(s)' /\ GoingOut(s)'
    <3>1. /\ toServer[s] = 0 /\ toClient[s] = 0 /\ next = "write"
          /\ serverOp[s] = "none" \/ (serverOp[s] = "read" /\ serverLeft[s] = BlockSize)
      BY <1>0, <1>6, <2>3 DEF SessionInv, UpInv
    <3> QED
      BY <1>0, <1>1, <2>1, <3>1 DEF Whole, InClient, InServer, GoingOut
  <2>4. ASSUME conn[s] = "up", op[s] = "write"
        PROVE  Whole(s)' /\ (GoingOut(s)' \/ ComingBack(s)')
    <3>1. /\ left[s] = 0 /\ Whole(s) /\ (GoingOut(s) \/ ComingBack(s)) /\ next = "read"
      BY <1>0, <1>6, <2>4 DEF SessionInv, UpInv
    <3>2. InClient(s)' = InClient(s) /\ InServer(s)' = InServer(s)
      BY <1>0, <1>1, <2>1, <2>4, <3>1 DEF InClient, InServer
    <3>3. Whole(s)'
      BY <1>1, <3>1, <3>2 DEF Whole
    <3>4. GoingOut(s)' \/ ComingBack(s)'
      BY <1>1, <2>1, <3>1 DEF GoingOut, ComingBack
    <3> QED
      BY <3>3, <3>4
  <2>5. ASSUME conn[s] = "up", op[s] = "read"
        PROVE  Whole(s)' /\ GoingOut(s)'
    <3>1. left[s] = 0 /\ Whole(s) /\ ComingBack(s)
      BY <1>0, <1>6, <2>5 DEF SessionInv, UpInv, GoingOut
    <3>2. toClient[s] = 0 /\ InServer(s) = 0 /\ toServer[s] = 0
      BY <1>0, <2>5, <3>1 DEF Whole, InClient, InServer, ComingBack
    <3>3. serverOp[s] = "read" /\ serverLeft[s] = BlockSize
      BY <1>0, <3>1, <3>2 DEF ComingBack, InServer, SessionInv, SocketInv
    <3> QED
      BY <1>0, <1>1, <1>6, <2>1, <2>5, <3>2, <3>3 DEF Whole, InClient, InServer, GoingOut
  <2>6. UpInv(s)'
    BY <1>0, <1>1, <1>6, <2>1, <2>3, <2>5, <2>4 DEF UpInv, SessionInv
  <2>7. TransferInv(s)'
    BY <1>1, <1>3 DEF TransferInv, Blocks!ThreadOf
  <2> QED
    BY <2>2, <2>6, <2>7 DEF SessionInv
<1>7. SessionInv(s)'
  BY <1>4, <1>5, <1>6
<1>8. \A r \in Blocks!Sessions \ {s} : op'[r] = op[r] /\ result'[r] = result[r]
                                        /\ left'[r] = left[r]
  BY <1>0, <1>4 DEF Blocks!End, Blocks!Begin, Blocks!TypeOK
<1> QED
  BY <1>1, <1>2, <1>7, <1>8, OneSession DEF Blocks!Connected, Blocks!Transferred,
     Blocks!serverVars, Blocks!netVars

\* The reactor of the client keeps it: what is sent and received goes from one
\* end or from the wire to the other.
LEMMA ReactorKeepsBlocksEndInv ==
  ASSUME BlocksFit, BlocksInv, BlocksEndInv, NEW s \in Blocks!Sessions, Blocks!Reactor(s)
  PROVE  BlocksEndInv'
<1>0. /\ SessionInv(s) /\ Blocks!TypeOK
      /\ BlockSize \in Nat \ {0} /\ left[s] \in 0 .. BlockSize
      /\ serverLeft[s] \in 0 .. BlockSize
      /\ toServer[s] \in 0 .. Space /\ toClient[s] \in 0 .. Space /\ Space \in Nat
  BY DEF BlocksEndInv, BlocksInv, Blocks!TypeOK, BlocksFit, Blocks!BlockConstants
<1>1. /\ UNCHANGED <<opened, op, stop, thread, threadCount, starting, started>>
      /\ UNCHANGED <<serverOp, serverLeft, conn, Blocks!mainVars, Blocks!timerVars>>
  BY DEF Blocks!Reactor, Blocks!PerformConnect, Blocks!PerformWrite, Blocks!PerformRead,
     Blocks!PerformFails, Blocks!mainVars, Blocks!serverVars, Blocks!netVars
<1>2. TransferInv(s)'
  BY <1>0, <1>1 DEF SessionInv, TransferInv, Blocks!ThreadOf
<1>3. op[s] # "none" /\ result[s] = "pending" /\ conn[s] \in {"up", "broken"}
  BY DEF Blocks!Reactor, Blocks!PerformConnect, Blocks!PerformWrite, Blocks!PerformRead,
     Blocks!PerformFails, Blocks!InReactor
<1>4. ASSUME Blocks!PerformConnect(s) \/ Blocks!PerformFails(s)
      PROVE  SessionInv(s)'
  <2>1. /\ UNCHANGED <<left, toServer, toClient>>
        /\ result'[s] = "failed" => conn[s] = "broken"
        /\ op[s] = "connect" \/ conn[s] = "broken"
        /\ result'[s] \in {"ok", "failed"}
    BY <1>0, <1>4 DEF Blocks!PerformConnect, Blocks!PerformFails, Blocks!Complete,
       Blocks!InReactor, Blocks!netVars, Blocks!TypeOK
  <2>2. SocketInv(s)'
    BY <1>0, <1>1, <1>3, <2>1 DEF SessionInv, SocketInv
  <2>3. UpInv(s)'
    BY <1>0, <1>1, <2>1 DEF SessionInv, UpInv
  <2> QED
    BY <1>2, <2>2, <2>3 DEF SessionInv
<1>5. ASSUME Blocks!PerformWrite(s)
      PROVE  SessionInv(s)'
  <2>1. PICK n \in 1 .. left[s] :
          /\ toServer'[s] = toServer[s] + n /\ left'[s] = left[s] - n
          /\ result'[s] = IF n = left[s] THEN "ok" ELSE "pending"
    BY <1>0, <1>5 DEF Blocks!PerformWrite, Blocks!Complete, Blocks!TypeOK
  <2>2. op[s] = "write" /\ conn[s] = "up" /\ toClient' = toClient
    BY <1>5 DEF Blocks!PerformWrite, Blocks!InReactor
  <2>3. Whole(s) /\ GoingOut(s)
    BY <1>0, <2>1, <2>2 DEF SessionInv, UpInv, ComingBack
  <2>4. Whole(s)' /\ GoingOut(s)' /\ (result'[s] = "ok" <=> left'[s] = 0)
    <3>1. InServer(s)' = InServer(s) /\ InServer(s) \in Int
      BY <1>0, <1>1 DEF InServer
    <3>2. Whole(s)'
      BY <1>0, <1>1, <2>1, <2>2, <2>3, <3>1 DEF Whole, InClient
    <3>3. GoingOut(s)' /\ (result'[s] = "ok" <=> left'[s] = 0)
      BY <1>0, <1>1, <2>1, <2>2, <2>3 DEF GoingOut
    <3> QED
      BY <3>2, <3>3
  <2>5. UpInv(s)'
    BY <1>0, <1>1, <2>1, <2>2, <2>4 DEF SessionInv, UpInv
  <2>6. SocketInv(s)'
    BY <1>0, <1>1, <1>3, <2>2 DEF SessionInv, SocketInv
  <2> QED
    BY <1>2, <2>5, <2>6 DEF SessionInv
<1>6. ASSUME Blocks!PerformRead(s)
      PROVE  SessionInv(s)'
  <2>1. PICK n \in 1 .. left[s] :
          /\ n <= toClient[s]
          /\ toClient'[s] = toClient[s] - n /\ left'[s] = left[s] - n
          /\ result'[s] = IF n = left[s] THEN "ok" ELSE "pending"
    BY <1>0, <1>6 DEF Blocks!PerformRead, Blocks!Complete, Blocks!TypeOK
  <2>2. op[s] = "read" /\ conn[s] = "up" /\ toServer' = toServer
    BY <1>6 DEF Blocks!PerformRead, Blocks!InReactor
  <2>3. Whole(s) /\ ComingBack(s)
    BY <1>0, <2>1, <2>2 DEF SessionInv, UpInv, GoingOut
  <2>4. Whole(s)' /\ ComingBack(s)' /\ (result'[s] = "ok" <=> left'[s] = 0)
    <3>1. InServer(s)' = InServer(s) /\ InServer(s) \in Int
      BY <1>0, <1>1 DEF InServer
    <3>2. Whole(s)'
      BY <1>0, <1>1, <2>1, <2>2, <2>3, <3>1 DEF Whole, InClient
    <3>3. ComingBack(s)' /\ (result'[s] = "ok" <=> left'[s] = 0)
      BY <1>0, <1>1, <2>1, <2>2, <2>3 DEF ComingBack
    <3> QED
      BY <3>2, <3>3
  <2>5. UpInv(s)'
    BY <1>0, <1>1, <2>1, <2>2, <2>4 DEF SessionInv, UpInv
  <2>6. SocketInv(s)'
    BY <1>0, <1>1, <1>3, <2>2 DEF SessionInv, SocketInv
  <2> QED
    BY <1>2, <2>5, <2>6 DEF SessionInv
<1>7. SessionInv(s)'
  BY <1>4, <1>5, <1>6 DEF Blocks!Reactor
<1>8. \A r \in Blocks!Sessions \ {s} :
         /\ result'[r] = result[r] /\ left'[r] = left[r]
         /\ toServer'[r] = toServer[r] /\ toClient'[r] = toClient[r]
  BY <1>0 DEF Blocks!Reactor, Blocks!PerformConnect, Blocks!PerformWrite,
     Blocks!PerformRead, Blocks!PerformFails, Blocks!Complete, Blocks!TypeOK,
     Blocks!netVars
<1> QED
  BY <1>1, <1>7, <1>8, OneSession

\* The server keeps it: it answers with the block it has read, when it has all
\* of it.
LEMMA ServerKeepsBlocksEndInv ==
  ASSUME BlocksFit, BlocksInv, BlocksEndInv, NEW s \in Blocks!Sessions, Blocks!Server(s)
  PROVE  BlocksEndInv'
<1>0. /\ SessionInv(s) /\ Blocks!TypeOK
      /\ BlockSize \in Nat \ {0} /\ left[s] \in 0 .. BlockSize
      /\ serverLeft[s] \in 0 .. BlockSize
      /\ toServer[s] \in 0 .. Space /\ toClient[s] \in 0 .. Space /\ Space \in Nat
  BY DEF BlocksEndInv, BlocksInv, Blocks!TypeOK, BlocksFit, Blocks!BlockConstants
<1>1. /\ UNCHANGED <<opened, op, result, left, stop, thread, threadCount, starting>>
      /\ UNCHANGED <<started, conn, Blocks!mainVars, Blocks!timerVars>>
  BY DEF Blocks!Server, Blocks!Accept, Blocks!ServerRead, Blocks!ServerWrite,
     Blocks!ServerFails, Blocks!mainVars, Blocks!sessionVars, Blocks!netVars
<1>2. TransferInv(s)'
  BY <1>0, <1>1 DEF SessionInv, TransferInv, Blocks!ThreadOf
<1>3. InClient(s)' = InClient(s) /\ InClient(s) \in 0 .. BlockSize
  BY <1>0, <1>1 DEF InClient
<1>4. ASSUME Blocks!Accept(s)
      PROVE  SessionInv(s)'
  <2>1. /\ UNCHANGED <<toServer, toClient>> /\ conn[s] \notin {"none", "syn"}
        /\ serverOp[s] = "none" /\ serverOp'[s] = "read" /\ serverLeft'[s] = BlockSize
    BY <1>0, <1>4 DEF Blocks!Accept, Blocks!netVars, Blocks!TypeOK
  <2>2. SocketInv(s)'
    BY <1>0, <1>1, <2>1 DEF SessionInv, SocketInv
  <2>3. Whole(s)' = Whole(s)
    BY <1>0, <1>1, <1>3, <2>1 DEF Whole, InServer
  <2>4. UpInv(s)'
    BY <1>0, <1>1, <2>1, <2>3 DEF SessionInv, UpInv, GoingOut, ComingBack
  <2> QED
    BY <1>2, <2>2, <2>4 DEF SessionInv
<1>5. ASSUME Blocks!ServerRead(s)
      PROVE  SessionInv(s)'
  <2>1. PICK n \in 1 .. serverLeft[s] :
          /\ n <= toServer[s] /\ toServer'[s] = toServer[s] - n
          /\ serverLeft'[s] = IF n = serverLeft[s] THEN BlockSize ELSE serverLeft[s] - n
          /\ serverOp'[s] = IF n = serverLeft[s] THEN "write" ELSE "read"
    BY <1>0, <1>5 DEF Blocks!ServerRead, Blocks!ServerGoesOn, Blocks!TypeOK
  <2>2. serverOp[s] = "read" /\ conn[s] = "up" /\ toClient' = toClient
    BY <1>5 DEF Blocks!ServerRead
  <2>3. SocketInv(s)'
    BY <1>0, <1>1, <2>1, <2>2 DEF SessionInv, SocketInv
  <2>4. op[s] \notin {"none", "connect"} /\ Whole(s) /\ GoingOut(s)
    BY <1>0, <2>1, <2>2 DEF SessionInv, UpInv, ComingBack
  <2>5. InServer(s)' = InServer(s) + n /\ InServer(s) = BlockSize - serverLeft[s]
    BY <1>0, <2>1, <2>2 DEF InServer
  <2>6. Whole(s)'
    BY <1>0, <1>3, <2>1, <2>2, <2>4, <2>5 DEF Whole
  <2>7. CASE n = serverLeft[s]
    <3>1. toServer'[s] = 0 /\ InClient(s) = 0
      BY <1>0, <1>3, <2>1, <2>4, <2>5, <2>7 DEF Whole, GoingOut
    <3>2. op[s] = "read" \/ left[s] = 0
      BY <1>0, <2>4, <3>1 DEF InClient, Blocks!TypeOK, Blocks!Operations
    <3>3. ComingBack(s)'
      BY <1>1, <2>1, <2>7, <3>1, <3>2 DEF ComingBack
    <3> QED
      BY <1>0, <1>1, <1>2, <2>1, <2>2, <2>3, <2>4, <2>6, <3>3 DEF SessionInv, UpInv
  <2>8. CASE n # serverLeft[s]
    <3>1. GoingOut(s)'
      BY <1>1, <2>1, <2>2, <2>4, <2>8 DEF GoingOut
    <3> QED
      BY <1>0, <1>1, <1>2, <2>1, <2>2, <2>3, <2>4, <2>6, <3>1 DEF SessionInv, UpInv
  <2> QED
    BY <2>7, <2>8
<1>6. ASSUME Blocks!ServerWrite(s)
      PROVE  SessionInv(s)'
  <2>1. PICK n \in 1 .. serverLeft[s] :
          /\ toClient'[s] = toClient[s] + n
          /\ serverLeft'[s] = IF n = serverLeft[s] THEN BlockSize ELSE serverLeft[s] - n
          /\ serverOp'[s] = IF n = serverLeft[s] THEN "read" ELSE "write"
    BY <1>0, <1>6 DEF Blocks!ServerWrite, Blocks!ServerGoesOn, Blocks!TypeOK
  <2>2. serverOp[s] = "write" /\ conn[s] = "up" /\ toServer' = toServer
    BY <1>6 DEF Blocks!ServerWrite
  <2>3. SocketInv(s)'
    BY <1>0, <1>1, <2>1, <2>2 DEF SessionInv, SocketInv
  <2>4. op[s] \notin {"none", "connect"} /\ Whole(s) /\ ComingBack(s)
    BY <1>0, <2>2 DEF SessionInv, UpInv, GoingOut
  <2>5. InServer(s)' = InServer(s) - n /\ InServer(s) = serverLeft[s]
    BY <1>0, <2>1, <2>2 DEF InServer
  <2>6. Whole(s)'
    BY <1>0, <1>3, <2>1, <2>2, <2>4, <2>5 DEF Whole
  <2>7. ComingBack(s)'
    BY <1>1, <2>1, <2>2, <2>4 DEF ComingBack
  <2>8. UpInv(s)'
    BY <1>0, <1>1, <2>1, <2>2, <2>4, <2>6, <2>7 DEF SessionInv, UpInv
  <2> QED
    BY <1>2, <2>3, <2>8 DEF SessionInv
<1>7. ASSUME Blocks!ServerFails(s)
      PROVE  SessionInv(s)'
  <2>1. conn[s] \in {"broken", "closed"} /\ serverOp'[s] = "ended"
    BY <1>0, <1>7 DEF Blocks!ServerFails, Blocks!TypeOK
  <2> QED
    BY <1>0, <1>1, <1>2, <2>1 DEF SessionInv, SocketInv, UpInv
<1>8. SessionInv(s)'
  BY <1>4, <1>5, <1>6, <1>7 DEF Blocks!Server
<1>9. \A r \in Blocks!Sessions \ {s} :
         /\ serverOp'[r] = serverOp[r] /\ serverLeft'[r] = serverLeft[r]
         /\ toServer'[r] = toServer[r] /\ toClient'[r] = toClient[r]
  BY <1>0 DEF Blocks!Server, Blocks!Accept, Blocks!ServerRead, Blocks!ServerWrite,
     Blocks!ServerFails, Blocks!ServerGoesOn, Blocks!TypeOK, Blocks!netVars
<1> QED
  BY <1>1, <1>8, <1>9, OneSession

\* The network keeps it: a connection that is made carries nothing yet, and one
\* that is broken owes nobody anything.
LEMMA NetworkKeepsBlocksEndInv ==
  ASSUME BlocksFit, BlocksInv, BlocksEndInv, NEW s \in Blocks!Sessions,
         Blocks!Establish(s) \/ Blocks!Refuse(s) \/ Blocks!Break(s)
  PROVE  BlocksEndInv'
<1>1. SessionInv(s) /\ Blocks!TypeOK
  BY DEF BlocksEndInv, BlocksInv
<1>2. /\ UNCHANGED <<opened, op, result, left, stop, thread, threadCount, starting>>
      /\ UNCHANGED <<started, serverOp, serverLeft, Blocks!mainVars, Blocks!timerVars>>
  BY DEF Blocks!Establish, Blocks!Refuse, Blocks!Break, Blocks!Network,
     Blocks!mainVars, Blocks!sessionVars, Blocks!serverVars
<1>3. /\ \/ conn[s] = "syn" /\ conn'[s] = "up"
         \/ conn[s] \in {"syn", "up"} /\ conn'[s] = "broken"
      /\ toServer'[s] = 0 /\ toClient'[s] = 0
  <2>1. PICK from \in {"syn", "up"}, to \in {"up", "broken"} :
          Blocks!Network(s, from, to) /\ (from = "up" => to = "broken")
    BY DEF Blocks!Establish, Blocks!Refuse, Blocks!Break
  <2>2. conn[s] = from /\ conn'[s] = to /\ toServer'[s] = 0 /\ toClient'[s] = 0
    BY <1>1, <2>1 DEF Blocks!Network, Blocks!TypeOK
  <2> QED
    BY <2>1, <2>2
<1>4. \A r \in Blocks!Sessions \ {s} :
         conn'[r] = conn[r] /\ toServer'[r] = toServer[r] /\ toClient'[r] = toClient[r]
  BY <1>1 DEF Blocks!Establish, Blocks!Refuse, Blocks!Break, Blocks!Network, Blocks!TypeOK
<1>5. SocketInv(s)'
  BY <1>1, <1>2, <1>3 DEF SessionInv, SocketInv
<1>6. UpInv(s)' /\ TransferInv(s)'
  BY <1>1, <1>2, <1>3 DEF SessionInv, SocketInv, UpInv, TransferInv, Blocks!ThreadOf
<1> QED
  BY <1>2, <1>4, <1>5, <1>6, OneSession DEF SessionInv

-----------------------------------------------------------------------------
\* Every step keeps it.
LEMMA NextBlocksEndInv ==
  ASSUME BlocksFit
  PROVE  BlocksInv /\ BlocksEndInv /\ [Blocks!Next]_(Blocks!vars) => BlocksEndInv'
<1> SUFFICES ASSUME BlocksInv, BlocksEndInv, [Blocks!Next]_(Blocks!vars)
             PROVE  BlocksEndInv'
  OBVIOUS
<1>1. ASSUME UNCHANGED <<Blocks!mainVars, Blocks!timerVars, thread, Blocks!sessionVars>>,
             UNCHANGED <<serverOp, serverLeft, Blocks!netVars>>
      PROVE  BlocksEndInv'
  <2>1. FiredInv'
    BY <1>1 DEF BlocksEndInv, FiredInv, Blocks!mainVars, Blocks!timerVars,
       Blocks!sessionVars, Blocks!Threads, Blocks!Sessions
  <2>2. ASSUME NEW s \in Blocks!Sessions PROVE SessionInv(s)'
    BY <1>1, <2>2, SessionLeftAlone DEF BlocksEndInv, Blocks!mainVars,
       Blocks!sessionVars, Blocks!netVars, Blocks!ThreadOf
  <2> QED
    BY <2>1, <2>2 DEF BlocksEndInv, Blocks!Sessions
<1>2. CASE UNCHANGED Blocks!vars
  BY <1>1, <1>2 DEF Blocks!vars, Blocks!serverVars
<1>3. CASE Blocks!Main \/ Blocks!FireTimer \/ Blocks!PostStops
  BY <1>3, MainKeepsBlocksEndInv, TimerKeepsBlocksEndInv
<1>4. CASE Blocks!AcceptFails
  BY <1>1, <1>4 DEF Blocks!AcceptFails
<1>5. CASE Blocks!Terminated
  BY <1>2, <1>5 DEF Blocks!Terminated
<1>6. ASSUME NEW t \in Blocks!Threads, Blocks!RunReturns(t) PROVE BlocksEndInv'
  BY <1>6, ReturnKeepsBlocksEndInv
<1>7. ASSUME NEW s \in Blocks!Sessions,
             \/ Blocks!Handler(s) \/ Blocks!Reactor(s) \/ Blocks!Server(s)
             \/ Blocks!Establish(s) \/ Blocks!Failures(s)
      PROVE  BlocksEndInv'
  BY <1>7, StopKeepsBlocksEndInv, HandlerKeepsBlocksEndInv, ReactorKeepsBlocksEndInv,
     ServerKeepsBlocksEndInv, NetworkKeepsBlocksEndInv DEF Blocks!Handler,
     Blocks!Failures
<1> QED
  BY <1>2, <1>3, <1>4, <1>5, <1>6, <1>7 DEF Blocks!Next

\* It holds in every behaviour.
THEOREM BlocksEndInvariance ==
  ASSUME BlocksFit
  PROVE  Blocks!Spec => []BlocksEndInv
<1>1. Blocks!Init => BlocksEndInv
  BY InitBlocksEndInv
<1>2. BlocksInv /\ BlocksEndInv /\ [Blocks!Next]_(Blocks!vars) => BlocksEndInv'
  BY NextBlocksEndInv
<1>3. Blocks!Spec => []BlocksInv
  BY BlocksInvariance
<1>4. QED
  BY <1>1, <1>2, <1>3, PTL DEF Blocks!Spec

\* What main or a thread of the client can do by itself: main starts sessions
\* or has all threads to join, the timer's handler posts, a thread has a
\* handler queued or nothing left to run for.
ClientMayStep ==
  \/ main \in {"start", "connect"}
  \/ main = "wait" /\ \A t \in Blocks!Threads : thread[t] # "run"
  \/ timer = "posting"
  \/ \E t \in Blocks!Threads : Blocks!Idle(t) /\ ~Blocks!Busy(t)
  \/ \E s \in Blocks!Sessions :
       /\ Blocks!Idle(Blocks!ThreadOf(s))
       /\ stop[s] = "posted" \/ (op[s] # "none" /\ result[s] # "pending")

\* Once the stop timer of client1 has fired, it is never stuck before its end:
\* the one way to hang is a session that was stopped before it was started.
\* This is what ClientEnds needs besides fairness: no step of the network or of
\* the server is waited for, whatever the sessions were doing.
THEOREM BlocksClientNeverStuck ==
  ASSUME BlocksFit
  PROVE  Blocks!Spec =>
           [](timer \in {"posting", "done"} =>
                \/ main = "done" \/ ClientMayStep
                \/ \E s \in Blocks!Sessions : Blocks!StoppedTooEarly(s))
<1> DEFINE Stuck == /\ timer \in {"posting", "done"} /\ main # "done" /\ ~ClientMayStep
                    /\ \A s \in Blocks!Sessions : ~Blocks!StoppedTooEarly(s)
<1>1. ASSUME BlocksInv, BlocksEndInv, Stuck PROVE FALSE
  <2>1. timer = "done" /\ main = "wait"
    BY <1>1 DEF ClientMayStep, BlocksInv, Blocks!TypeOK
  <2>2. PICK t \in Blocks!Threads : thread[t] = "run"
    BY <1>1, <2>1 DEF ClientMayStep
  <2>3. Blocks!Idle(t) /\ Blocks!Busy(t)
    BY <1>1, <2>1, <2>2 DEF ClientMayStep, Blocks!Idle
  <2>4. PICK s \in Blocks!Sessions :
          Blocks!ThreadOf(s) = t /\ (op[s] # "none" \/ stop[s] = "posted")
    BY <1>1, <2>1, <2>3 DEF Blocks!Busy, BlocksEndInv, FiredInv
  <2>5. stop[s] = "done" /\ op[s] # "none" /\ result[s] = "pending"
    BY <1>1, <2>1, <2>3, <2>4 DEF ClientMayStep, BlocksInv, Blocks!TypeOK, BlocksEndInv,
       FiredInv
  <2>6. opened[s]
    BY <1>1, <2>5 DEF BlocksEndInv, SessionInv, SocketInv
  <2> QED
    BY <1>1, <2>5, <2>6 DEF Blocks!StoppedTooEarly
<1>2. BlocksInv /\ BlocksEndInv =>
        (timer \in {"posting", "done"} =>
           \/ main = "done" \/ ClientMayStep
           \/ \E s \in Blocks!Sessions : Blocks!StoppedTooEarly(s))
  BY <1>1
<1>3. QED
  BY <1>2, BlocksInvariance, BlocksEndInvariance, PTL

\* What moves the block of s, or stops the session: a handler that is queued, a
\* transfer that finds room or bytes, the accept that is the session's turn.
BlockMoves(s) ==
  \/ timer = "posting"
  \/ accept = "waiting" /\ serverOp[s] = "none"
  \/ /\ thread[Blocks!ThreadOf(s)] = "run"
     /\ \/ result[s] = "ok"
        \/ result[s] = "pending" /\ op[s] = "write" /\ left[s] > 0 /\ toServer[s] < Space
        \/ result[s] = "pending" /\ op[s] = "read" /\ left[s] > 0 /\ toClient[s] > 0
  \/ serverOp[s] = "read" /\ toServer[s] > 0
  \/ serverOp[s] = "write" /\ toClient[s] < Space

\* A block of client1 is never stranded, with any number of bytes in a block and
\* any room in the sockets: as long as its connection is up something moves it,
\* but for a chain of accepts that has ended before its turn, or a thread that
\* an exception has ended.  This is what BlockComesBack needs besides fairness.
THEOREM BlockNeverStranded ==
  ASSUME BlocksFit
  PROVE  Blocks!Spec =>
           [](\A s \in Blocks!Sessions :
                conn[s] = "up" /\ op[s] \in {"write", "read"} =>
                  \/ BlockMoves(s)
                  \/ accept = "failed" /\ serverOp[s] = "none"
                  \/ thread[Blocks!ThreadOf(s)] = "threw")
<1>1. ASSUME BlocksInv, BlocksEndInv, NEW s \in Blocks!Sessions,
             conn[s] = "up", op[s] \in {"write", "read"}, ~BlockMoves(s),
             ~(accept = "failed" /\ serverOp[s] = "none"),
             thread[Blocks!ThreadOf(s)] # "threw"
      PROVE  FALSE
  <2>0. /\ SessionInv(s) /\ BlockSize \in Nat \ {0} /\ left[s] \in 0 .. BlockSize
        /\ serverLeft[s] \in 0 .. BlockSize /\ Space \in Nat \ {0}
        /\ toServer[s] \in 0 .. Space /\ toClient[s] \in 0 .. Space
        /\ result[s] \in {"pending", "ok", "failed"}
        /\ serverOp[s] \in {"none", "write", "read", "ended"}
        /\ accept \in {"waiting", "failed"}
    BY <1>1 DEF BlocksEndInv, BlocksInv, Blocks!TypeOK, BlocksFit, Blocks!BlockConstants
  <2>1. thread[Blocks!ThreadOf(s)] = "run"
    BY <1>1, ThreadOfType DEF BlocksEndInv, SessionInv, TransferInv, BlocksInv,
       Blocks!TypeOK
  <2>2. result[s] = "pending" /\ left[s] > 0 /\ serverOp[s] \in {"read", "write"}
    BY <1>1, <2>0, <2>1 DEF BlockMoves, SessionInv, UpInv
  <2>3. Whole(s) /\ (GoingOut(s) \/ ComingBack(s)) /\ serverLeft[s] > 0
    BY <1>1, <2>0, <2>2 DEF SessionInv, UpInv, SocketInv
  <2>4. CASE GoingOut(s)
    <3>1. serverOp[s] = "read" /\ toServer[s] = 0 /\ toClient[s] = 0
      BY <1>1, <2>0, <2>2, <2>4 DEF GoingOut, BlockMoves
    <3>2. op[s] = "read" /\ left[s] = BlockSize
      BY <1>1, <2>0, <2>1, <2>2, <2>4, <3>1 DEF GoingOut, BlockMoves
    <3> QED
      BY <2>0, <2>3, <3>1, <3>2 DEF Whole, InClient, InServer
  <2>5. CASE ComingBack(s)
    <3>1. op[s] = "read" /\ toServer[s] = 0 /\ toClient[s] = 0
      BY <1>1, <2>0, <2>1, <2>2, <2>5 DEF ComingBack, BlockMoves
    <3>2. serverOp[s] = "read" /\ serverLeft[s] = BlockSize
      BY <1>1, <2>0, <2>5, <3>1 DEF ComingBack, BlockMoves
    <3> QED
      BY <2>0, <2>2, <2>3, <3>1, <3>2 DEF Whole, InClient, InServer
  <2> QED
    BY <2>3, <2>4, <2>5
<1>2. BlocksInv /\ BlocksEndInv =>
        \A s \in Blocks!Sessions :
          conn[s] = "up" /\ op[s] \in {"write", "read"} =>
            \/ BlockMoves(s)
            \/ accept = "failed" /\ serverOp[s] = "none"
            \/ thread[Blocks!ThreadOf(s)] = "threw"
  BY <1>1
<1>3. QED
  BY <1>2, BlocksInvariance, BlocksEndInvariance, PTL
============================================================================
