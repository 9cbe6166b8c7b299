------------------------- MODULE EchoStream_proofs -------------------------
(***************************************************************************)
(* Proofs about the buffers, the failures and the bytes of EchoStream, for *)
(* any number of buffers, any block and any sockets.  Nobody               *)
(* is left waiting for what cannot come.                                   *)
(***************************************************************************)
EXTENDS EchoStream, SequenceTheorems, FiniteSetTheorems, WellFoundedInduction, TLAPS

\* How many buffers of e are in the stack or in use.
Accounted(e) ==
  free[e] + waiting[e] + Len(arrived[e]) + Len(unsent[e]) + sent[e]

\* No buffer is ever in two places, and none is lost as long as the connection is
\* healthy: each is in the stack or with one read or write.
BuffersConserved ==
  \A e \in Ends :
    /\ Accounted(e) <= Buffers
    /\ Healthy(e) \/ state[e] = "new" => Accounted(e) = Buffers

\* Before the connection all are in the stack.
StartInv ==
  \A e \in Ends : state[e] = "new" => free[e] = Buffers

\* The reading stops only when the stack is empty.
StackInv ==
  \A e \in Ends : Healthy(e) /\ waiting[e] = 0 /\ arrived[e] = <<>> =>
    free[e] = 0

\* Who has closed a socket, and why.
CloseInv ==
  /\ state["client"] = "closed" => wantClose
  /\ state["server"] = "closed" => wantClose \/ broken
  /\ state["server"] # "new" => state["client"] \in {"open", "closed"}

IInv ==
  /\ TypeOK
  /\ BuffersConserved
  /\ StartInv
  /\ StackInv
  /\ CloseInv
  /\ ErrorMeansFailure
-----------------------------------------------------------------------------
\* What the handlers do to the length of a queue.
LEMMA QueueLengths ==
  ASSUME NEW T, NEW q \in Seq(T)
  PROVE  /\ Len(q) \in Nat
         /\ q = <<>> <=> Len(q) = 0
         /\ q # <<>> => /\ Len(Tail(q)) = Len(q) - 1 /\ Len(q) > 0
                        /\ Tail(q) \in Seq(T) /\ Head(q) \in T
         /\ \A x \in T : /\ Len(Append(q, x)) = Len(q) + 1
                         /\ Append(q, x) \in Seq(T)
                         /\ Append(q, x) # <<>>
<1>1. Len(q) \in Nat /\ (q = <<>> <=> Len(q) = 0)
  BY EmptySeq, LenProperties
<1>2. ASSUME q # <<>>
      PROVE  /\ Len(Tail(q)) = Len(q) - 1 /\ Len(q) > 0
             /\ Tail(q) \in Seq(T) /\ Head(q) \in T
  BY <1>1, <1>2, HeadTailProperties
<1>3. ASSUME NEW x \in T
      PROVE  /\ Len(Append(q, x)) = Len(q) + 1
             /\ Append(q, x) \in Seq(T)
             /\ Append(q, x) # <<>>
  BY <1>1, AppendProperties
<1>4. QED
  BY <1>1, <1>2, <1>3

\* The library defines Min for sets.
LEMMA MinOfPair ==
  ASSUME NEW a \in Nat, NEW b \in Nat
  PROVE  Min({a, b}) = IF a <= b THEN a ELSE b
  BY DEF Min

\* A sequence cut in two.
LEMMA Pieces ==
  ASSUME NEW T, NEW q \in Seq(T), NEW n \in 1 .. Len(q)
  PROVE  SubSeq(q, 1, n) \in Seq(T) /\ SubSeq(q, n + 1, Len(q)) \in Seq(T)
  BY LenProperties, SubSeqProperties

\* The types, but for the bounds that follow from counting the buffers.
Shapes ==
  /\ space \in Spaces
  /\ state \in [Ends -> States]
  /\ free \in [Ends -> Nat]
  /\ waiting \in [Ends -> Nat]
  /\ sent \in [Ends -> Nat]
  /\ arrived \in [Ends -> Seq(Seq(Bytes))]
  /\ unsent \in [Ends -> Seq(Seq(Bytes))]
  /\ wire \in [Ends -> Seq(Bytes)]
  /\ broken \in BOOLEAN
  /\ wantClose \in BOOLEAN
  /\ error \in BOOLEAN

\* The types imply the shapes, and with the number of buffers the converse.
LEMMA ShapesOfTypes ==
  ASSUME TypeOK
  PROVE  Shapes
  BY StreamAssumption DEF TypeOK, Shapes

\* What is in use is at most Buffers, which bounds each of the parts.
LEMMA TypesOfShapes ==
  ASSUME Shapes', BuffersConserved'
  PROVE  TypeOK'
<1>1. ASSUME NEW e \in Ends
      PROVE  free'[e] \in 0 .. Buffers /\ waiting'[e] \in 0 .. Buffers
             /\ sent'[e] \in 0 .. Buffers
  <2>1. /\ free'[e] \in Nat /\ waiting'[e] \in Nat /\ sent'[e] \in Nat
        /\ arrived'[e] \in Seq(Seq(Bytes)) /\ unsent'[e] \in Seq(Seq(Bytes))
    BY DEF Shapes
  <2>2. Len(arrived'[e]) \in Nat /\ Len(unsent'[e]) \in Nat
    BY <2>1, QueueLengths
  <2>3. free'[e] + waiting'[e] + Len(arrived'[e]) + Len(unsent'[e]) + sent'[e]
          <= Buffers
    BY DEF BuffersConserved, Accounted
  <2>4. QED
    <3> DEFINE a == free'[e]
               b == waiting'[e]
               c == Len(arrived'[e])
               d == Len(unsent'[e])
               f == sent'[e]
    <3>1. a \in Nat /\ b \in Nat /\ c \in Nat /\ d \in Nat /\ f \in Nat
          /\ Buffers \in Nat /\ a + b + c + d + f <= Buffers
      BY <2>1, <2>2, <2>3, StreamAssumption
    <3> HIDE DEF a, b, c, d, f
    <3>2. a \in 0 .. Buffers /\ b \in 0 .. Buffers /\ f \in 0 .. Buffers
      BY <3>1
    <3>3. QED
      BY <3>2 DEF a, b, f
<1>2. /\ free' \in [Ends -> 0 .. Buffers] /\ waiting' \in [Ends -> 0 .. Buffers]
      /\ sent' \in [Ends -> 0 .. Buffers]
  BY <1>1 DEF Shapes
<1>3. QED
  BY <1>2 DEF Shapes, TypeOK

\* The initial states satisfy the inductive invariant.
LEMMA InitIInv == Init => IInv
<1> SUFFICES ASSUME Init PROVE IInv
  OBVIOUS
<1>1. TypeOK
  <2>1. arrived \in [Ends -> Seq(Seq(Bytes))] /\ unsent \in [Ends -> Seq(Seq(Bytes))]
        /\ wire \in [Ends -> Seq(Bytes)]
    <3>1. <<>> \in Seq(Seq(Bytes)) /\ <<>> \in Seq(Bytes)
      OBVIOUS
    <3>2. QED
      BY <3>1, Zenon DEF Init
  <2>2. free \in [Ends -> 0 .. Buffers] /\ waiting \in [Ends -> 0 .. Buffers]
        /\ sent \in [Ends -> 0 .. Buffers]
    BY StreamAssumption DEF Init
  <2>3. state \in [Ends -> States]
    BY DEF Init, States
  <2>4. QED
    BY <2>1, <2>2, <2>3 DEF Init, TypeOK
<1>2. BuffersConserved
  <2>1. \A e \in Ends : Accounted(e) = Buffers
    BY StreamAssumption DEF Init, Accounted
  <2>2. QED
    BY <2>1, StreamAssumption DEF BuffersConserved
<1>3. StartInv /\ CloseInv /\ ErrorMeansFailure
  BY DEF Init, StartInv, CloseInv, ErrorMeansFailure, Ends
<1>4. StackInv
  BY DEF Init, StackInv, Healthy, Ends
<1>5. QED
  BY <1>1, <1>2, <1>3, <1>4 DEF IInv

-----------------------------------------------------------------------------
(* The steps that handle the buffers of one end leave the other alone.     *)

Parts(e) == <<free[e], waiting[e], arrived[e], unsent[e], sent[e]>>

\* To preserve the invariant such a step has to account for the buffers of e and
\* not to let its reading stop.
LEMMA BufferStep ==
  ASSUME IInv, NEW e \in Ends, Shapes',
         UNCHANGED <<state, broken, wantClose, error>>,
         \A d \in Ends \ {e} : Parts(d)' = Parts(d),
         state[e] # "new",
         Accounted(e)' = Accounted(e),
         Healthy(e) /\ waiting'[e] = 0 /\ arrived'[e] = <<>> => free'[e] = 0
  PROVE  IInv'
<1>1. \A d \in Ends : Healthy(d)' <=> Healthy(d)
  BY DEF Healthy, MayFail
<1>2. \A d \in Ends : Accounted(d)' = Accounted(d)
  BY DEF Parts, Accounted
<1>3. BuffersConserved'
  BY <1>1, <1>2 DEF IInv, BuffersConserved
<1>4. TypeOK'
  BY <1>3, TypesOfShapes
<1>5. StartInv'
  BY DEF IInv, StartInv, Parts
<1>6. StackInv'
  BY <1>1 DEF IInv, StackInv, Parts
<1>7. CloseInv' /\ ErrorMeansFailure'
  BY DEF IInv, CloseInv, ErrorMeansFailure
<1>8. QED
  BY <1>3, <1>4, <1>5, <1>6, <1>7 DEF IInv

\* A session whose connection is not made has nothing outstanding.
LEMMA NothingBeforeStart ==
  ASSUME IInv, NEW e \in Ends, state[e] = "new"
  PROVE  /\ free[e] = Buffers /\ waiting[e] = 0 /\ sent[e] = 0
         /\ arrived[e] = <<>> /\ unsent[e] = <<>>
<1>1. /\ free[e] \in Nat /\ waiting[e] \in Nat /\ sent[e] \in Nat
      /\ arrived[e] \in Seq(Seq(Bytes)) /\ unsent[e] \in Seq(Seq(Bytes))
  BY ShapesOfTypes DEF IInv, Shapes
<1>2. Len(arrived[e]) \in Nat /\ Len(unsent[e]) \in Nat
  BY <1>1, QueueLengths
<1>3. free[e] = Buffers
  BY DEF IInv, StartInv
<1>4. waiting[e] = 0 /\ sent[e] = 0 /\ Len(arrived[e]) = 0 /\ Len(unsent[e]) = 0
  <2> DEFINE b == waiting[e]
             c == Len(arrived[e])
             d == Len(unsent[e])
             f == sent[e]
  <2>1. b \in Nat /\ c \in Nat /\ d \in Nat /\ f \in Nat
        /\ Buffers \in Nat /\ Buffers + b + c + d + f = Buffers
    BY <1>1, <1>2, <1>3, StreamAssumption DEF IInv, BuffersConserved, Accounted
  <2> HIDE DEF b, c, d, f
  <2>2. b = 0 /\ c = 0 /\ d = 0 /\ f = 0
    BY <2>1
  <2>3. QED
    BY <2>2 DEF b, c, d, f
<1>5. QED
  BY <1>1, <1>3, <1>4, QueueLengths

\* The numbers and queues of one end.
LEMMA PartTypes ==
  ASSUME IInv, NEW e \in Ends
  PROVE  /\ free[e] \in Nat /\ waiting[e] \in Nat /\ sent[e] \in Nat
         /\ arrived[e] \in Seq(Seq(Bytes)) /\ unsent[e] \in Seq(Seq(Bytes))
         /\ Len(arrived[e]) \in Nat /\ Len(unsent[e]) \in Nat
         /\ wire[e] \in Seq(Bytes)
<1>1. Shapes
  BY ShapesOfTypes DEF IInv
<1>2. arrived[e] \in Seq(Seq(Bytes)) /\ unsent[e] \in Seq(Seq(Bytes))
  BY <1>1 DEF Shapes
<1>3. QED
  BY <1>1, <1>2, QueueLengths DEF Shapes

\* So their sum is a number.
LEMMA AccountedIsNumber ==
  ASSUME IInv
  PROVE  \A e \in Ends : Accounted(e) \in Int
  BY PartTypes DEF Accounted

-----------------------------------------------------------------------------
(* The steps of a connection that works.                                   *)

\* A read is performed: its buffer goes from waiting to arrived.
LEMMA PerformReadStep ==
  ASSUME IInv, NEW e \in Ends, PerformRead(e)
  PROVE  IInv'
<1>1. Shapes
  BY ShapesOfTypes DEF IInv
<1>2. PICK n \in 1 .. Min({Len(wire[e]), BlockSize}) :
        /\ arrived' = [arrived EXCEPT ![e] = Append(@, SubSeq(wire[e], 1, n))]
        /\ wire' = [wire EXCEPT ![e] = SubSeq(@, n + 1, Len(@))]
  BY DEF PerformRead
<1>3. /\ SubSeq(wire[e], 1, n) \in Seq(Bytes)
      /\ SubSeq(wire[e], n + 1, Len(wire[e])) \in Seq(Bytes)
  <2>1. Len(wire[e]) \in Nat \ {0} /\ wire[e] \in Seq(Bytes)
    BY PartTypes, QueueLengths DEF PerformRead
  <2> DEFINE L == Len(wire[e])
  <2>2. Min({L, BlockSize}) = IF L <= BlockSize THEN L ELSE BlockSize
    BY <2>1, MinOfPair, StreamAssumption
  <2>3. n \in 1 .. L
    BY <2>1, <2>2, StreamAssumption
  <2>4. QED
    BY <2>1, <2>3, Pieces
<1>4. Shapes'
  <2>1. waiting' \in [Ends -> Nat]
    BY <1>1 DEF PerformRead, Shapes
  <2>2. arrived' \in [Ends -> Seq(Seq(Bytes))]
    <3>1. Append(arrived[e], SubSeq(wire[e], 1, n)) \in Seq(Seq(Bytes))
      BY <1>3, PartTypes, QueueLengths
    <3>2. QED
      BY <1>1, <1>2, <3>1 DEF Shapes
  <2>3. wire' \in [Ends -> Seq(Bytes)]
    BY <1>1, <1>2, <1>3 DEF Shapes
  <2>4. QED
    BY <1>1, <2>1, <2>2, <2>3 DEF PerformRead, Shapes
<1>5. \A d \in Ends \ {e} : Parts(d)' = Parts(d)
  BY <1>1, <1>2 DEF PerformRead, Parts, Shapes
<1>6. /\ waiting'[e] = waiting[e] - 1
      /\ Len(arrived'[e]) = Len(arrived[e]) + 1 /\ arrived'[e] # <<>>
  <2>1. arrived'[e] = Append(arrived[e], SubSeq(wire[e], 1, n))
    BY <1>1, <1>2 DEF Shapes
  <2>2. QED
    BY <1>1, <1>3, <2>1, PartTypes, QueueLengths DEF PerformRead, Shapes
<1>7. Accounted(e)' = Accounted(e)
  <2> DEFINE a == free[e]
             b == waiting[e]
             c == Len(arrived[e])
             d == Len(unsent[e])
             f == sent[e]
             a2 == free'[e]
             b2 == waiting'[e]
             c2 == Len(arrived'[e])
             d2 == Len(unsent'[e])
             f2 == sent'[e]
  <2>1. a \in Nat /\ b \in Nat /\ c \in Nat /\ d \in Nat /\ f \in Nat
    BY PartTypes
  <2>2. a2 = a /\ b2 = b - 1 /\ c2 = c + 1 /\ d2 = d /\ f2 = f
    BY <1>6 DEF PerformRead
  <2>3. /\ Accounted(e) = a + b + c + d + f
        /\ Accounted(e)' = a2 + b2 + c2 + d2 + f2
    BY DEF Accounted
  <2> HIDE DEF a, b, c, d, f, a2, b2, c2, d2, f2
  <2>4. a2 + b2 + c2 + d2 + f2 = a + b + c + d + f
    BY <2>1, <2>2
  <2>5. QED
    BY <2>3, <2>4
<1>8. state[e] # "new"
  BY NothingBeforeStart DEF PerformRead
<1>9. QED
  BY <1>4, <1>5, <1>6, <1>7, <1>8, BufferStep DEF PerformRead

\* The handler of a read: its buffer goes on to a write, and if there is another
\* in the stack that goes to the next read.
LEMMA ReadHandlerStep ==
  ASSUME IInv, NEW e \in Ends, ReadHandler(e)
  PROVE  IInv'
<1>1. Shapes
  BY ShapesOfTypes DEF IInv
<1>2. /\ arrived[e] # <<>> /\ Head(arrived[e]) \in Seq(Bytes)
      /\ Tail(arrived[e]) \in Seq(Seq(Bytes))
      /\ Len(Tail(arrived[e])) = Len(arrived[e]) - 1 /\ Len(arrived[e]) > 0
  <2>1. arrived[e] # <<>>
    BY DEF ReadHandler
  <2>2. QED
    BY <2>1, PartTypes, QueueLengths
<1>3. /\ Append(unsent[e], Head(arrived[e])) \in Seq(Seq(Bytes))
      /\ Len(Append(unsent[e], Head(arrived[e]))) = Len(unsent[e]) + 1
  BY <1>2, PartTypes, QueueLengths
<1>4. /\ arrived'[e] = Tail(arrived[e])
      /\ unsent'[e] = Append(unsent[e], Head(arrived[e]))
  BY <1>1 DEF ReadHandler, Shapes
<1>5. IF free[e] = 0 THEN free'[e] = 0 /\ waiting'[e] = waiting[e]
      ELSE free'[e] = free[e] - 1 /\ waiting'[e] = waiting[e] + 1
  BY <1>1 DEF ReadHandler, Read, Shapes
<1>6. Shapes'
  <2>1. arrived' \in [Ends -> Seq(Seq(Bytes))]
    BY <1>1, <1>2 DEF ReadHandler, Shapes
  <2>2. unsent' \in [Ends -> Seq(Seq(Bytes))]
    BY <1>1, <1>3 DEF ReadHandler, Shapes
  <2>3. free' \in [Ends -> Nat] /\ waiting' \in [Ends -> Nat]
    <3>1. /\ free \in [Ends -> Nat] /\ waiting \in [Ends -> Nat] /\ free[e] \in Nat
          /\ Read(e, free[e])
      BY <1>1 DEF ReadHandler, Shapes
    <3>2. free' \in [Ends -> Nat]
      BY <3>1 DEF Read
    <3>3. waiting' \in [Ends -> Nat]
      BY <3>1 DEF Read
    <3>4. QED
      BY <3>2, <3>3
  <2>4. QED
    BY <1>1, <2>1, <2>2, <2>3 DEF ReadHandler, Shapes
<1>7. \A d \in Ends \ {e} : Parts(d)' = Parts(d)
  BY <1>1 DEF ReadHandler, Read, Parts, Shapes
<1>8. Accounted(e)' = Accounted(e)
  <2>1. CASE free[e] = 0
    <3> DEFINE a == free[e]
               b == waiting[e]
               c == Len(arrived[e])
               d == Len(unsent[e])
               f == sent[e]
               a2 == free'[e]
               b2 == waiting'[e]
               c2 == Len(arrived'[e])
               d2 == Len(unsent'[e])
               f2 == sent'[e]
    <3>1. a \in Nat /\ b \in Nat /\ c \in Nat /\ d \in Nat /\ f \in Nat
      BY PartTypes
    <3>2. a2 = a /\ b2 = b /\ c2 = c - 1 /\ d2 = d + 1 /\ f2 = f
      BY <1>2, <1>3, <1>4, <1>5, <2>1 DEF ReadHandler
    <3>3. /\ Accounted(e) = a + b + c + d + f
          /\ Accounted(e)' = a2 + b2 + c2 + d2 + f2
      BY DEF Accounted
    <3> HIDE DEF a, b, c, d, f, a2, b2, c2, d2, f2
    <3>4. a2 + b2 + c2 + d2 + f2 = a + b + c + d + f
      BY <3>1, <3>2
    <3>5. QED
      BY <3>3, <3>4
  <2>2. CASE free[e] # 0
    <3> DEFINE a == free[e]
               b == waiting[e]
               c == Len(arrived[e])
               d == Len(unsent[e])
               f == sent[e]
               a2 == free'[e]
               b2 == waiting'[e]
               c2 == Len(arrived'[e])
               d2 == Len(unsent'[e])
               f2 == sent'[e]
    <3>1. a \in Nat /\ b \in Nat /\ c \in Nat /\ d \in Nat /\ f \in Nat
      BY PartTypes
    <3>2. a2 = a - 1 /\ b2 = b + 1 /\ c2 = c - 1 /\ d2 = d + 1 /\ f2 = f
      BY <1>2, <1>3, <1>4, <1>5, <2>2 DEF ReadHandler
    <3>3. /\ Accounted(e) = a + b + c + d + f
          /\ Accounted(e)' = a2 + b2 + c2 + d2 + f2
      BY DEF Accounted
    <3> HIDE DEF a, b, c, d, f, a2, b2, c2, d2, f2
    <3>4. a2 + b2 + c2 + d2 + f2 = a + b + c + d + f
      BY <3>1, <3>2
    <3>5. QED
      BY <3>3, <3>4
  <2>3. QED
    BY <2>1, <2>2
<1>9. waiting'[e] = 0 => free'[e] = 0
  BY <1>5, PartTypes
<1>10. state[e] # "new"
  BY <1>2, NothingBeforeStart
<1>11. QED
  BY <1>6, <1>7, <1>8, <1>9, <1>10, BufferStep DEF ReadHandler

\* A write is performed, whatever it sends.
LEMMA PerformWriteStep ==
  ASSUME IInv, NEW e \in Ends, PerformWrite(e)
  PROVE  IInv'
<1>1. Shapes
  BY ShapesOfTypes DEF IInv
<1>2. /\ unsent[e] # <<>> /\ Head(unsent[e]) \in Seq(Bytes)
      /\ Tail(unsent[e]) \in Seq(Seq(Bytes))
      /\ Len(Tail(unsent[e])) = Len(unsent[e]) - 1 /\ Len(unsent[e]) > 0
  <2>1. unsent[e] # <<>>
    BY DEF PerformWrite
  <2>2. QED
    BY <2>1, PartTypes, QueueLengths
<1>12. PICK capacity \in {s \in Spaces : s >= space} :
          LET room == capacity - Len(wire[Peer(e)])
              data == Head(unsent[e])
          IN  /\ room > 0
              /\ wire' = [wire EXCEPT ![Peer(e)] =
                   @ \o SubSeq(data, 1, Min({Len(data), room}))]
  BY DEF PerformWrite
<1> DEFINE p == Peer(e)
           data == Head(unsent[e])
           n == Min({Len(data), capacity - Len(wire[p])})
           w2 == wire[p] \o SubSeq(data, 1, n)
<1>3. w2 \in Seq(Bytes)
  <2>1. p \in Ends
    BY DEF Peer, Ends
  <2>2. wire[p] \in Seq(Bytes) /\ Len(wire[p]) \in Nat /\ Len(data) \in Nat
    BY <1>2, <2>1, PartTypes, QueueLengths
  <2>3. capacity \in Nat /\ capacity - Len(wire[p]) > 0
    BY <1>12, StreamAssumption
  <2>4. n \in 0 .. Len(data)
    <3> DEFINE a == Len(data)
               b == capacity - Len(wire[p])
    <3>1. a \in Nat /\ b \in Nat
      BY <2>2, <2>3
    <3> HIDE DEF a, b
    <3>2. Min({a, b}) \in 0 .. a
      BY <3>1, MinOfPair
    <3>3. QED
      BY <3>2 DEF a, b
  <2> HIDE DEF n
  <2>5. SubSeq(data, 1, n) \in Seq(Bytes)
    BY <1>2, <2>2, <2>4, Pieces
  <2>6. QED
    BY <2>2, <2>5, ConcatProperties
<1>4. wire' = [wire EXCEPT ![p] = w2] /\ unsent' = [unsent EXCEPT ![e] = Tail(@)]
      /\ sent' = [sent EXCEPT ![e] = @ + 1]
      /\ UNCHANGED <<space, state, free, waiting, arrived, broken, wantClose, error>>
  BY <1>12 DEF PerformWrite
<1> HIDE DEF w2
<1>5. Shapes'
  <2>1. wire' \in [Ends -> Seq(Bytes)]
    BY <1>1, <1>3, <1>4 DEF Shapes
  <2>2. unsent' \in [Ends -> Seq(Seq(Bytes))]
    BY <1>1, <1>2, <1>4 DEF Shapes
  <2>3. sent' \in [Ends -> Nat]
    BY <1>1, <1>4 DEF Shapes
  <2>4. QED
    BY <1>1, <1>4, <2>1, <2>2, <2>3 DEF Shapes
<1>6. \A d \in Ends \ {e} : Parts(d)' = Parts(d)
  BY <1>1, <1>4 DEF Parts, Shapes
<1>7. unsent'[e] = Tail(unsent[e]) /\ sent'[e] = sent[e] + 1
  BY <1>1, <1>4 DEF Shapes
<1>8. Accounted(e)' = Accounted(e)
  <2> DEFINE a == free[e]
             b == waiting[e]
             c == Len(arrived[e])
             d == Len(unsent[e])
             f == sent[e]
             a2 == free'[e]
             b2 == waiting'[e]
             c2 == Len(arrived'[e])
             d2 == Len(unsent'[e])
             f2 == sent'[e]
  <2>1. a \in Nat /\ b \in Nat /\ c \in Nat /\ d \in Nat /\ f \in Nat
    BY PartTypes
  <2>2. a2 = a /\ b2 = b /\ c2 = c /\ d2 = d - 1 /\ f2 = f + 1
    BY <1>2, <1>4, <1>7
  <2>3. /\ Accounted(e) = a + b + c + d + f
        /\ Accounted(e)' = a2 + b2 + c2 + d2 + f2
    BY DEF Accounted
  <2> HIDE DEF a, b, c, d, f, a2, b2, c2, d2, f2
  <2>4. a2 + b2 + c2 + d2 + f2 = a + b + c + d + f
    BY <2>1, <2>2
  <2>5. QED
    BY <2>3, <2>4
<1>9. Healthy(e) /\ waiting'[e] = 0 /\ arrived'[e] = <<>> => free'[e] = 0
  BY <1>4 DEF IInv, StackInv
<1>10. state[e] # "new"
  BY <1>2, NothingBeforeStart
<1>11. QED
  BY <1>4, <1>5, <1>6, <1>8, <1>9, <1>10, BufferStep

\* The handler of a write puts its buffer back, or takes it for the next read if
\* the stack was empty.  Were it to look after the push, nothing would read.
LEMMA WriteHandlerStep ==
  ASSUME IInv, NEW e \in Ends, WriteHandler(e)
  PROVE  IInv'
<1>1. Shapes
  BY ShapesOfTypes DEF IInv
<1>2. /\ IF free[e] = 0 THEN free'[e] = 0 /\ waiting'[e] = waiting[e] + 1
         ELSE free'[e] = free[e] + 1 /\ waiting'[e] = waiting[e]
      /\ sent'[e] = sent[e] - 1
  BY <1>1 DEF WriteHandler, Read, Shapes
<1>3. Shapes'
  <2>1. free' \in [Ends -> Nat] /\ waiting' \in [Ends -> Nat]
    <3>1. CASE free[e] = 0
      <4>1. /\ free' = [free EXCEPT ![e] = 0]
            /\ waiting' = [waiting EXCEPT ![e] = @ + 1]
        BY <3>1 DEF WriteHandler, Read
      <4>2. QED
        BY <1>1, <4>1 DEF Shapes
    <3>2. CASE free[e] # 0
      <4>1. free' = [free EXCEPT ![e] = @ + 1] /\ waiting' = waiting
        BY <3>2 DEF WriteHandler
      <4>2. QED
        BY <1>1, <4>1 DEF Shapes
    <3>3. QED
      BY <3>1, <3>2
  <2>2. sent' \in [Ends -> Nat]
    BY <1>1 DEF WriteHandler, Shapes
  <2>3. QED
    BY <1>1, <2>1, <2>2 DEF WriteHandler, Shapes
<1>4. \A d \in Ends \ {e} : Parts(d)' = Parts(d)
  BY <1>1 DEF WriteHandler, Read, Parts, Shapes
<1>5. Accounted(e)' = Accounted(e)
  <2>1. CASE free[e] = 0
    <3> DEFINE a == free[e]
               b == waiting[e]
               c == Len(arrived[e])
               d == Len(unsent[e])
               f == sent[e]
               a2 == free'[e]
               b2 == waiting'[e]
               c2 == Len(arrived'[e])
               d2 == Len(unsent'[e])
               f2 == sent'[e]
    <3>1. a \in Nat /\ b \in Nat /\ c \in Nat /\ d \in Nat /\ f \in Nat
      BY PartTypes
    <3>2. a2 = a /\ b2 = b + 1 /\ c2 = c /\ d2 = d /\ f2 = f - 1
      BY <1>2, <2>1 DEF WriteHandler
    <3>3. /\ Accounted(e) = a + b + c + d + f
          /\ Accounted(e)' = a2 + b2 + c2 + d2 + f2
      BY DEF Accounted
    <3> HIDE DEF a, b, c, d, f, a2, b2, c2, d2, f2
    <3>4. a2 + b2 + c2 + d2 + f2 = a + b + c + d + f
      BY <3>1, <3>2
    <3>5. QED
      BY <3>3, <3>4
  <2>2. CASE free[e] # 0
    <3> DEFINE a == free[e]
               b == waiting[e]
               c == Len(arrived[e])
               d == Len(unsent[e])
               f == sent[e]
               a2 == free'[e]
               b2 == waiting'[e]
               c2 == Len(arrived'[e])
               d2 == Len(unsent'[e])
               f2 == sent'[e]
    <3>1. a \in Nat /\ b \in Nat /\ c \in Nat /\ d \in Nat /\ f \in Nat
      BY PartTypes
    <3>2. a2 = a + 1 /\ b2 = b /\ c2 = c /\ d2 = d /\ f2 = f - 1
      BY <1>2, <2>2 DEF WriteHandler
    <3>3. /\ Accounted(e) = a + b + c + d + f
          /\ Accounted(e)' = a2 + b2 + c2 + d2 + f2
      BY DEF Accounted
    <3> HIDE DEF a, b, c, d, f, a2, b2, c2, d2, f2
    <3>4. a2 + b2 + c2 + d2 + f2 = a + b + c + d + f
      BY <3>1, <3>2
    <3>5. QED
      BY <3>3, <3>4
  <2>3. QED
    BY <2>1, <2>2
<1>6. Healthy(e) /\ waiting'[e] = 0 /\ arrived'[e] = <<>> => free'[e] = 0
  <2>1. CASE free[e] = 0
    BY <1>2, <2>1
  <2>2. CASE free[e] # 0
    BY <1>2, <2>2 DEF WriteHandler, IInv, StackInv
  <2>3. QED
    BY <2>1, <2>2
<1>7. state[e] # "new"
  BY NothingBeforeStart DEF WriteHandler
<1>8. QED
  BY <1>3, <1>4, <1>5, <1>6, <1>7, BufferStep DEF WriteHandler

-----------------------------------------------------------------------------
(* The steps that make and end the connection.                             *)

\* A step that changes the state of sockets preserves the invariant if it makes
\* no end healthy or new that was not, and CloseInv and ErrorMeansFailure hold
\* after it; it may lose buffers of an end that is neither.
LEMMA SocketStep ==
  ASSUME IInv, Shapes', CloseInv', ErrorMeansFailure',
         \A e \in Ends :
           /\ Accounted(e)' <= Accounted(e)
           /\ Healthy(e)' \/ (state[e] = "new")' =>
                /\ Healthy(e) \/ state[e] = "new"
                /\ Accounted(e)' = Accounted(e)
           /\ Healthy(e)' =>
                (Healthy(e) /\ Parts(e)' = Parts(e)) \/ waiting'[e] > 0
           /\ (state[e] = "new")' => state[e] = "new" /\ Parts(e)' = Parts(e)
  PROVE  IInv'
<1>1. ASSUME NEW e \in Ends
      PROVE  /\ Accounted(e)' <= Buffers
             /\ Healthy(e)' \/ (state[e] = "new")' => Accounted(e)' = Buffers
  <2>1. Accounted(e) \in Int
    BY PartTypes DEF Accounted
  <2>2. Accounted(e)' \in Int
    <3>1. /\ free'[e] \in Nat /\ waiting'[e] \in Nat /\ sent'[e] \in Nat
          /\ arrived'[e] \in Seq(Seq(Bytes)) /\ unsent'[e] \in Seq(Seq(Bytes))
      BY DEF Shapes
    <3>2. Len(arrived'[e]) \in Nat /\ Len(unsent'[e]) \in Nat
      BY <3>1, QueueLengths
    <3>3. QED
      BY <3>1, <3>2 DEF Accounted
  <2>3. /\ Accounted(e) <= Buffers
        /\ Healthy(e) \/ state[e] = "new" => Accounted(e) = Buffers
    BY DEF IInv, BuffersConserved
  <2>4. Accounted(e)' <= Accounted(e)
    OBVIOUS
  <2>5. Accounted(e)' <= Buffers
    <3> HIDE DEF Accounted
    <3>1. Buffers \in Int
      BY StreamAssumption
    <3>2. QED
      BY <2>1, <2>2, <2>3, <2>4, <3>1
  <2>6. QED
    BY <2>3, <2>5
<1>2. BuffersConserved'
  BY <1>1 DEF BuffersConserved
<1>3. TypeOK'
  BY <1>2, TypesOfShapes
<1>4. StartInv'
  BY DEF IInv, StartInv, Parts
<1>5. StackInv'
  <2>1. ASSUME NEW e \in Ends, Healthy(e)', waiting'[e] = 0, arrived'[e] = <<>>
        PROVE  free'[e] = 0
    BY <2>1 DEF IInv, StackInv, Parts
  <2>2. QED
    BY <2>1 DEF StackInv
<1>6. QED
  BY <1>2, <1>3, <1>4, <1>5 DEF IInv

\* The steps that leave the buffers of both ends alone and make no connection:
\* an async_connect that fails, a failure of the network, and stop().
LEMMA QuietSteps ==
  ASSUME IInv, Refused \/ Break \/ Stop
  PROVE  IInv'
<1>1. Shapes
  BY ShapesOfTypes DEF IInv
<1>2. UNCHANGED bufferVars /\ UNCHANGED <<space, wire, error>>
  BY DEF Refused, Break, Stop
<1>3. /\ state' \in [Ends -> States] /\ broken' \in BOOLEAN /\ wantClose' \in BOOLEAN
      /\ broken => broken'
      /\ state'["server"] = state["server"]
      /\ state'["client"] # state["client"] =>
           state'["client"] \in {"refused", "closed"}
  BY <1>1 DEF Refused, Break, Stop, Close, Shapes, Ends, States
<1>4. Shapes'
  BY <1>1, <1>2, <1>3 DEF Shapes, bufferVars
<1>5. CloseInv'
  <2>1. CASE Refused
    BY <1>1, <2>1 DEF Refused, IInv, CloseInv, Shapes, Ends
  <2>2. CASE Break
    BY <2>2 DEF Break, IInv, CloseInv
  <2>3. CASE Stop
    BY <1>1, <2>3 DEF Stop, Close, IInv, CloseInv, Shapes, Ends
  <2>4. QED
    BY <2>1, <2>2, <2>3
<1>6. ErrorMeansFailure'
  BY <1>2, <1>3 DEF IInv, ErrorMeansFailure
<1>7. ASSUME NEW e \in Ends
      PROVE  /\ Parts(e)' = Parts(e) /\ Accounted(e)' = Accounted(e)
             /\ (state[e] = "new")' => state[e] = "new"
             /\ Healthy(e)' => Healthy(e)
  <2>1. Parts(e)' = Parts(e) /\ Accounted(e)' = Accounted(e)
    BY <1>2 DEF Parts, Accounted, bufferVars
  <2>2. (state[e] = "new")' => state[e] = "new"
    BY <1>3 DEF Ends
  <2>3. Healthy(e)' => Healthy(e)
    <3>1. SUFFICES ASSUME Healthy(e)' PROVE Healthy(e)
      OBVIOUS
    <3>2. e = "client" \/ e = "server"
      BY DEF Ends
    <3>3. state'[e] = "open" /\ state'[Peer(e)] # "closed" /\ ~broken'
      BY <3>1 DEF Healthy, MayFail, Peer
    <3>4. state[e] = "open"
      BY <1>3, <3>2, <3>3
    <3>5. state[Peer(e)] # "closed"
      <4>1. CASE e = "client"
        BY <1>3, <3>3, <4>1 DEF Peer
      <4>2. CASE e = "server"
        BY <1>3, <1>5, <3>3, <3>4, <4>2 DEF Peer, CloseInv, IInv
      <4>3. QED
        BY <3>2, <4>1, <4>2
    <3>6. QED
      BY <1>3, <3>3, <3>4, <3>5 DEF Healthy, MayFail
  <2>4. QED
    BY <2>1, <2>2, <2>3
<1>8. \A e \in Ends : Accounted(e) \in Int
  BY AccountedIsNumber
<1>9. \A e \in Ends : Accounted(e)' <= Accounted(e)
  <2> HIDE DEF Accounted
  <2>1. QED
    BY <1>7, <1>8
<1>10. QED
  BY <1>4, <1>5, <1>6, <1>7, <1>9, SocketStep

\* A failed operation: the error is reported, or the server's socket closed.
LEMMA FailStep ==
  ASSUME IInv, NEW e \in Ends, Shapes', MayFail(e), HandleError(e),
         UNCHANGED <<broken, wantClose>>,
         state[e] # "new",
         \A d \in Ends \ {e} : Parts(d)' = Parts(d),
         Accounted(e)' <= Accounted(e)
  PROVE  IInv'
<1>1. Shapes
  BY ShapesOfTypes DEF IInv
<1>2. e = "client" \/ e = "server"
  BY DEF Ends
<1>3. wantClose \/ broken
  BY <1>2 DEF MayFail, Peer, IInv, CloseInv
<1>4. \A d \in Ends : state'[d] # state[d] =>
        d = "server" /\ e = "server" /\ state'[d] = "closed"
  BY <1>1 DEF HandleError, Shapes
<1>5. CloseInv'
  <2>1. CASE e = "client"
    BY <2>1 DEF HandleError, IInv, CloseInv
  <2>2. CASE e = "server"
    <3>1. state["client"] \in {"open", "closed"}
      BY <2>2 DEF IInv, CloseInv
    <3>2. state'["client"] = state["client"]
      BY <1>4 DEF Ends
    <3>3. QED
      BY <1>3, <3>1, <3>2 DEF IInv, CloseInv
  <2>3. QED
    BY <1>2, <2>1, <2>2
<1>6. ErrorMeansFailure'
  BY <1>3 DEF HandleError, IInv, ErrorMeansFailure
<1>7. ~Healthy(e)'
  <2>1. CASE e = "client"
    BY <2>1 DEF HandleError, MayFail, Healthy, Peer
  <2>2. CASE e = "server"
    BY <1>1, <2>2 DEF HandleError, Healthy, Shapes
  <2>3. QED
    BY <1>2, <2>1, <2>2
<1>8. state'[e] # "new"
  BY <1>4
<1>9. ASSUME NEW d \in Ends, d # e
      PROVE  /\ Parts(d)' = Parts(d) /\ Accounted(d)' = Accounted(d)
             /\ state'[d] = state[d]
             /\ Healthy(d)' => Healthy(d)
  <2>1. Parts(d)' = Parts(d) /\ Accounted(d)' = Accounted(d)
    BY <1>9 DEF Parts, Accounted
  <2>2. state'[d] = state[d]
    BY <1>4, <1>9
  <2>3. Healthy(d)' => Healthy(d)
    <3>1. Peer(d) \in Ends
      BY DEF Peer, Ends
    <3>2. state[Peer(d)] = "closed" => state'[Peer(d)] = "closed"
      BY <1>4, <3>1
    <3>3. QED
      BY <2>2, <3>2 DEF Healthy, MayFail, Peer
  <2>4. QED
    BY <2>1, <2>2, <2>3
<1>10. \A d \in Ends : Accounted(d)' <= Accounted(d)
  <2>1. \A d \in Ends : Accounted(d) \in Int
    BY AccountedIsNumber
  <2> HIDE DEF Accounted
  <2>2. QED
    BY <1>9, <2>1
<1>11. QED
  BY <1>5, <1>6, <1>7, <1>8, <1>9, <1>10, SocketStep

\* The handler of a failed read does not put its buffer back.
LEMMA FailReadStep ==
  ASSUME IInv, NEW e \in Ends, FailRead(e)
  PROVE  IInv'
<1>1. Shapes
  BY ShapesOfTypes DEF IInv
<1>2. waiting' = [waiting EXCEPT ![e] = @ - 1] /\ waiting[e] > 0
      /\ UNCHANGED <<space, free, arrived, unsent, sent, wire, broken, wantClose>>
      /\ MayFail(e) /\ HandleError(e)
  BY DEF FailRead
<1>3. state' \in [Ends -> States] /\ error' \in BOOLEAN
  BY <1>1, <1>2 DEF HandleError, Shapes, States
<1>4. waiting' \in [Ends -> Nat] /\ waiting'[e] = waiting[e] - 1
  BY <1>1, <1>2 DEF Shapes
<1>5. Shapes'
  BY <1>1, <1>2, <1>3, <1>4 DEF Shapes
<1>6. \A d \in Ends \ {e} : Parts(d)' = Parts(d)
  BY <1>1, <1>2 DEF Parts, Shapes
<1>7. Accounted(e)' <= Accounted(e)
  <2> DEFINE a == free[e]
             b == waiting[e]
             c == Len(arrived[e])
             d == Len(unsent[e])
             f == sent[e]
             a2 == free'[e]
             b2 == waiting'[e]
             c2 == Len(arrived'[e])
             d2 == Len(unsent'[e])
             f2 == sent'[e]
  <2>1. a \in Nat /\ b \in Nat /\ c \in Nat /\ d \in Nat /\ f \in Nat
    BY PartTypes
  <2>2. a2 = a /\ b2 = b - 1 /\ c2 = c /\ d2 = d /\ f2 = f
    BY <1>2, <1>4
  <2>3. /\ Accounted(e) = a + b + c + d + f
        /\ Accounted(e)' = a2 + b2 + c2 + d2 + f2
    BY DEF Accounted
  <2> HIDE DEF a, b, c, d, f, a2, b2, c2, d2, f2
  <2>4. a2 + b2 + c2 + d2 + f2 <= a + b + c + d + f
    BY <2>1, <2>2
  <2>5. QED
    BY <2>3, <2>4
<1>8. state[e] # "new"
  BY <1>2, NothingBeforeStart
<1>9. QED
  BY <1>2, <1>5, <1>6, <1>7, <1>8, FailStep

\* The handler of a failed write puts its buffer back.
LEMMA FailWriteStep ==
  ASSUME IInv, NEW e \in Ends, FailWrite(e)
  PROVE  IInv'
<1>1. Shapes
  BY ShapesOfTypes DEF IInv
<1>2. /\ unsent[e] # <<>> /\ unsent' = [unsent EXCEPT ![e] = Tail(@)]
      /\ free' = [free EXCEPT ![e] = @ + 1]
      /\ UNCHANGED <<space, waiting, arrived, sent, wire, broken, wantClose>>
      /\ MayFail(e) /\ HandleError(e)
  BY DEF FailWrite
<1>3. state' \in [Ends -> States] /\ error' \in BOOLEAN
  BY <1>1, <1>2 DEF HandleError, Shapes, States
<1>4. Tail(unsent[e]) \in Seq(Seq(Bytes)) /\ Len(Tail(unsent[e])) = Len(unsent[e]) - 1
  BY <1>2, PartTypes, QueueLengths
<1>5. /\ free' \in [Ends -> Nat] /\ free'[e] = free[e] + 1
      /\ unsent' \in [Ends -> Seq(Seq(Bytes))] /\ unsent'[e] = Tail(unsent[e])
  BY <1>1, <1>2, <1>4 DEF Shapes
<1>6. Shapes'
  BY <1>1, <1>2, <1>3, <1>5 DEF Shapes
<1>7. \A d \in Ends \ {e} : Parts(d)' = Parts(d)
  BY <1>1, <1>2 DEF Parts, Shapes
<1>8. Accounted(e)' <= Accounted(e)
  <2> DEFINE a == free[e]
             b == waiting[e]
             c == Len(arrived[e])
             d == Len(unsent[e])
             f == sent[e]
             a2 == free'[e]
             b2 == waiting'[e]
             c2 == Len(arrived'[e])
             d2 == Len(unsent'[e])
             f2 == sent'[e]
  <2>1. a \in Nat /\ b \in Nat /\ c \in Nat /\ d \in Nat /\ f \in Nat
    BY PartTypes
  <2>2. a2 = a + 1 /\ b2 = b /\ c2 = c /\ d2 = d - 1 /\ f2 = f
    BY <1>2, <1>4, <1>5
  <2>3. /\ Accounted(e) = a + b + c + d + f
        /\ Accounted(e)' = a2 + b2 + c2 + d2 + f2
    BY DEF Accounted
  <2> HIDE DEF a, b, c, d, f, a2, b2, c2, d2, f2
  <2>4. a2 + b2 + c2 + d2 + f2 <= a + b + c + d + f
    BY <2>1, <2>2
  <2>5. QED
    BY <2>3, <2>4
<1>9. state[e] # "new"
  BY <1>2, NothingBeforeStart
<1>10. QED
  BY <1>2, <1>6, <1>7, <1>8, <1>9, FailStep

\* The connection is made: an end takes its first buffers.
LEMMA StartStep ==
  ASSUME IInv, NEW e \in Ends, Shapes',
         state[e] = "new", state' = [state EXCEPT ![e] = "open"],
         e = "server" => state["client"] \in {"open", "closed"},
         UNCHANGED <<broken, wantClose, error>>,
         \A d \in Ends \ {e} : Parts(d)' = Parts(d),
         waiting'[e] > 0,
         Accounted(e)' = Accounted(e)
  PROVE  IInv'
<1>1. Shapes
  BY ShapesOfTypes DEF IInv
<1>2. e = "client" \/ e = "server"
  BY DEF Ends
<1>3. state'[e] = "open" /\ \A d \in Ends \ {e} : state'[d] = state[d]
  BY <1>1 DEF Shapes
<1>4. CloseInv'
  <2>1. CASE e = "client"
    BY <1>3, <2>1 DEF IInv, CloseInv, Ends
  <2>2. CASE e = "server"
    BY <1>3, <2>2 DEF IInv, CloseInv, Ends
  <2>3. QED
    BY <1>2, <2>1, <2>2
<1>5. ErrorMeansFailure'
  BY DEF IInv, ErrorMeansFailure
<1>6. ASSUME NEW d \in Ends, d # e
      PROVE  /\ Parts(d)' = Parts(d) /\ Accounted(d)' = Accounted(d)
             /\ state'[d] = state[d]
             /\ Healthy(d)' => Healthy(d)
  <2>1. Parts(d)' = Parts(d) /\ Accounted(d)' = Accounted(d)
    BY <1>6 DEF Parts, Accounted
  <2>2. state'[d] = state[d]
    BY <1>3, <1>6
  <2>3. Peer(d) = e
    BY <1>6 DEF Peer, Ends
  <2>4. Healthy(d)' => Healthy(d)
    BY <2>2, <2>3 DEF Healthy, MayFail, Peer
  <2>5. QED
    BY <2>1, <2>2, <2>4
<1>7. \A d \in Ends : Accounted(d)' <= Accounted(d)
  <2>1. \A d \in Ends : Accounted(d) \in Int
    BY AccountedIsNumber
  <2> HIDE DEF Accounted
  <2>2. QED
    BY <1>6, <2>1
<1>8. QED
  BY <1>3, <1>4, <1>5, <1>6, <1>7, SocketStep

\* Of the client's buffers one goes to the first read and one to the first packet.
LEMMA ConnectedStep ==
  ASSUME IInv, Connected
  PROVE  IInv'
<1> DEFINE e == "client"
<1>1. Shapes /\ e \in Ends
  BY ShapesOfTypes DEF IInv, Ends
<1>2. /\ state[e] = "new" /\ state' = [state EXCEPT ![e] = "open"]
      /\ free' = [free EXCEPT ![e] = @ - 2]
      /\ waiting' = [waiting EXCEPT ![e] = @ + 1]
      /\ unsent' = [unsent EXCEPT ![e] = <<[i \in Bytes |-> i]>>]
      /\ UNCHANGED <<space, arrived, sent, wire, broken, wantClose, error>>
  BY DEF Connected
<1>3. free[e] = Buffers /\ Buffers \in Nat /\ Buffers >= 2 /\ waiting[e] = 0
      /\ unsent[e] = <<>>
  BY <1>1, <1>2, NothingBeforeStart, StreamAssumption
<1>4. <<[i \in Bytes |-> i]>> \in Seq(Seq(Bytes))
  <2>1. [i \in Bytes |-> i] \in Seq(Bytes)
    BY StreamAssumption, IsASeq DEF Bytes
  <2>2. QED
    BY <2>1
<1>5. /\ free'[e] = free[e] - 2 /\ waiting'[e] = waiting[e] + 1
      /\ unsent'[e] = <<[i \in Bytes |-> i]>>
  BY <1>1, <1>2 DEF Shapes
<1>6. Len(unsent'[e]) = Len(unsent[e]) + 1
  BY <1>3, <1>5, EmptySeq
<1>7. Shapes'
  <2>1. unsent' \in [Ends -> Seq(Seq(Bytes))]
    <3> HIDE DEF e
    <3>1. QED
      BY <1>1, <1>2, <1>4 DEF Shapes
  <2>2. free' \in [Ends -> Nat] /\ waiting' \in [Ends -> Nat]
        /\ state' \in [Ends -> States]
    BY <1>1, <1>2, <1>3 DEF Shapes, States
  <2>3. QED
    BY <1>1, <1>2, <2>1, <2>2 DEF Shapes
<1> HIDE DEF e
<1>8. \A d \in Ends \ {e} : Parts(d)' = Parts(d)
  BY <1>1, <1>2 DEF Parts, Shapes
<1>9. Accounted(e)' = Accounted(e)
  <2> DEFINE a == free[e]
             b == waiting[e]
             c == Len(arrived[e])
             d == Len(unsent[e])
             f == sent[e]
             a2 == free'[e]
             b2 == waiting'[e]
             c2 == Len(arrived'[e])
             d2 == Len(unsent'[e])
             f2 == sent'[e]
  <2>1. a \in Nat /\ b \in Nat /\ c \in Nat /\ d \in Nat /\ f \in Nat
    BY <1>1, PartTypes
  <2>2. a2 = a - 2 /\ b2 = b + 1 /\ c2 = c /\ d2 = d + 1 /\ f2 = f
    BY <1>2, <1>5, <1>6
  <2>3. /\ Accounted(e) = a + b + c + d + f
        /\ Accounted(e)' = a2 + b2 + c2 + d2 + f2
    BY DEF Accounted
  <2> HIDE DEF a, b, c, d, f, a2, b2, c2, d2, f2
  <2>4. a2 + b2 + c2 + d2 + f2 = a + b + c + d + f
    BY <2>1, <2>2
  <2>5. QED
    BY <2>3, <2>4
<1>10. waiting'[e] > 0 /\ e # "server"
  BY <1>3, <1>5 DEF e
<1>11. QED
  BY <1>1, <1>2, <1>7, <1>8, <1>9, <1>10, StartStep

\* Of the server's buffers one goes to the first read.
LEMMA AcceptStep ==
  ASSUME IInv, Accept
  PROVE  IInv'
<1> DEFINE e == "server"
<1>1. Shapes /\ e \in Ends
  BY ShapesOfTypes DEF IInv, Ends
<1>2. free[e] = Buffers /\ Buffers \in Nat /\ Buffers # 0 /\ waiting[e] = 0
  BY <1>1, NothingBeforeStart, StreamAssumption DEF Accept
<1>3. /\ state[e] = "new" /\ state' = [state EXCEPT ![e] = "open"]
      /\ free' = [free EXCEPT ![e] = @ - 1]
      /\ waiting' = [waiting EXCEPT ![e] = @ + 1]
      /\ UNCHANGED <<space, arrived, unsent, sent, wire, broken, wantClose, error>>
  BY <1>2 DEF Accept, Read
<1>4. state["client"] \in {"open", "closed"}
  BY DEF Accept
<1> HIDE DEF e
<1>5. free'[e] = free[e] - 1 /\ waiting'[e] = waiting[e] + 1
  BY <1>1, <1>3 DEF Shapes
<1>6. Shapes'
  <2>1. free' \in [Ends -> Nat] /\ waiting' \in [Ends -> Nat]
        /\ state' \in [Ends -> States]
    BY <1>1, <1>2, <1>3 DEF Shapes, States
  <2>2. QED
    BY <1>1, <1>3, <2>1 DEF Shapes
<1>7. \A d \in Ends \ {e} : Parts(d)' = Parts(d)
  BY <1>1, <1>3 DEF Parts, Shapes
<1>8. Accounted(e)' = Accounted(e)
  <2> DEFINE a == free[e]
             b == waiting[e]
             c == Len(arrived[e])
             d == Len(unsent[e])
             f == sent[e]
             a2 == free'[e]
             b2 == waiting'[e]
             c2 == Len(arrived'[e])
             d2 == Len(unsent'[e])
             f2 == sent'[e]
  <2>1. a \in Nat /\ b \in Nat /\ c \in Nat /\ d \in Nat /\ f \in Nat
    BY <1>1, PartTypes
  <2>2. a2 = a - 1 /\ b2 = b + 1 /\ c2 = c /\ d2 = d /\ f2 = f
    BY <1>3, <1>5
  <2>3. /\ Accounted(e) = a + b + c + d + f
        /\ Accounted(e)' = a2 + b2 + c2 + d2 + f2
    BY DEF Accounted
  <2> HIDE DEF a, b, c, d, f, a2, b2, c2, d2, f2
  <2>4. a2 + b2 + c2 + d2 + f2 = a + b + c + d + f
    BY <2>1, <2>2
  <2>5. QED
    BY <2>3, <2>4
<1>9. waiting'[e] > 0
  BY <1>2, <1>5
<1>10. QED
  BY <1>1, <1>3, <1>4, <1>6, <1>7, <1>8, <1>9, StartStep

-----------------------------------------------------------------------------
\* No step of either end breaks the inductive invariant.
LEMMA NextIInv == IInv /\ [Next]_vars => IInv'
<1> SUFFICES ASSUME IInv, [Next]_vars PROVE IInv'
  OBVIOUS
<1>1. CASE Connected
  BY <1>1, ConnectedStep
<1>2. CASE Accept
  BY <1>2, AcceptStep
<1>3. CASE Refused \/ Break \/ Stop
  BY <1>3, QuietSteps
<1>4. ASSUME NEW e \in Ends, EndStep(e)
      PROVE  IInv'
  BY <1>4, PerformReadStep, ReadHandlerStep, PerformWriteStep, WriteHandlerStep,
     FailReadStep, FailWriteStep DEF EndStep
<1>5. CASE UNCHANGED vars
  <2>1. /\ \A e \in Ends : Accounted(e)' = Accounted(e)
        /\ \A e \in Ends : Healthy(e)' <=> Healthy(e)
    BY <1>5 DEF vars, bufferVars, Accounted, Healthy, MayFail
  <2>2. TypeOK' /\ StartInv' /\ CloseInv' /\ ErrorMeansFailure'
    BY <1>5 DEF vars, bufferVars, IInv, TypeOK, StartInv, CloseInv, ErrorMeansFailure
  <2>3. BuffersConserved'
    BY <1>5, <2>1 DEF vars, bufferVars, IInv, BuffersConserved
  <2>4. StackInv'
    BY <1>5, <2>1 DEF vars, bufferVars, IInv, StackInv
  <2>5. QED
    BY <2>2, <2>3, <2>4 DEF IInv
<1>6. QED
  BY <1>1, <1>2, <1>3, <1>4, <1>5 DEF Next, Terminated

\* The inductive invariant holds in every reachable state.
THEOREM Invariance == Spec => []IInv
  BY InitIInv, NextIInv, PTL DEF Spec

\* Every variable has its type: no more buffers are in use than there are.
THEOREM TypeCorrect == Spec => []TypeOK
<1>1. IInv => TypeOK
  BY DEF IInv
<1>2. QED
  BY <1>1, Invariance, PTL

\* The handlers of client2.cpp and server2.cpp neither duplicate a buffer nor, as
\* long as the connection is healthy, lose one.
THEOREM BuffersNeverLost == Spec => []BuffersConserved
<1>1. IInv => BuffersConserved
  BY DEF IInv
<1>2. QED
  BY <1>1, Invariance, PTL

\* An empty stack and no read: all the buffers are with writes.
LEMMA NoReadMeansWrites ==
  IInv => ReadingResumes
<1> SUFFICES ASSUME IInv, NEW e \in Ends,
                    Healthy(e), waiting[e] = 0, arrived[e] = <<>>
             PROVE  Len(unsent[e]) + sent[e] = Buffers
  BY DEF ReadingResumes
<1>1. Accounted(e) = Buffers /\ free[e] = 0
  BY DEF IInv, BuffersConserved, StackInv
<1>2. Len(arrived[e]) = 0
  BY PartTypes, QueueLengths
<1>3. Len(unsent[e]) \in Nat /\ sent[e] \in Nat
  BY PartTypes
<1>4. 0 + 0 + 0 + Len(unsent[e]) + sent[e] = Buffers
  BY <1>1, <1>2 DEF Accounted
<1>5. QED
  BY <1>3, <1>4

\* A healthy session of client2.cpp or server2.cpp that has no read outstanding
\* has all its buffers with writes, whose handlers resume the reading.
THEOREM ReadingAlwaysResumes == Spec => []ReadingResumes
  BY NoReadMeansWrites, Invariance, PTL

\* The client of client2.cpp records an error only if the network failed: that it
\* closes its socket in stop() is never reported as one.
THEOREM ErrorCorrect == Spec => []ErrorMeansFailure
<1>1. IInv => ErrorMeansFailure
  BY DEF IInv
<1>2. QED
  BY <1>1, Invariance, PTL

-----------------------------------------------------------------------------

(* The bytes of a queue.  The library joins the sequences of a sequence by *)
(* recursion over its indices; its theorems do not say what that computes. *)

\* A set of numbers that is not empty has a least element.
LEMMA LeastNumber ==
  ASSUME NEW T, T \subseteq Nat, T # {}
  PROVE  \E n \in T : \A m \in T : n <= m
<1> DEFINE R == {p \in Nat \X Nat : p[1] < p[2]}
<1>1. IsWellFoundedOn(R, Nat)
  BY NatLessThanWellFounded DEF OpToRel
<1> HIDE DEF R
<1>2. PICK n \in T : \A m \in T : ~(<<m, n>> \in R)
  BY <1>1, WFMin
<1>3. \A m \in T : ~(m < n)
  BY <1>2 DEF R
<1>4. QED
  BY <1>3

\* Induction, stated of a set of numbers.
LEMMA AllNumbers ==
  ASSUME NEW T, 0 \in T, \A n \in Nat : n \in T => n + 1 \in T
  PROVE  Nat \subseteq T
<1> SUFFICES ASSUME Nat \ T # {} PROVE FALSE
  OBVIOUS
<1>1. PICK n \in Nat \ T : \A m \in Nat \ T : n <= m
  BY LeastNumber
<1>2. n - 1 \in Nat /\ n - 1 \in T
  BY <1>1
<1>3. QED
  BY <1>1, <1>2

\* f[i] joins the first i sequences of s.
Joins(f, s, n) ==
  f = [i \in 1 .. n |-> IF i = 1 THEN s[i] ELSE f[i - 1] \o s[i]]

LEMMA JoinsExist ==
  ASSUME NEW s, NEW n \in Nat
  PROVE  \E f : Joins(f, s, n)
<1> DEFINE T == {k \in Nat : \E f : Joins(f, s, k)}
<1>1. 0 \in T
  <2> DEFINE g == [i \in 1 .. 0 |-> s[i]]
  <2>1. Joins(g, s, 0)
    BY DEF Joins
  <2>2. QED
    BY <2>1
<1>2. ASSUME NEW k \in Nat, k \in T PROVE k + 1 \in T
  <2>1. PICK f : Joins(f, s, k)
    BY <1>2
  <2> DEFINE g == [i \in 1 .. k + 1 |-> IF i = 1 THEN s[i] ELSE f[i - 1] \o s[i]]
  <2>2. \A i \in 1 .. k : g[i] = f[i]
    <3>1. \A i \in 1 .. k : i \in 1 .. k + 1
      OBVIOUS
    <3>2. \A i \in 1 .. k : f[i] = IF i = 1 THEN s[i] ELSE f[i - 1] \o s[i]
      BY <2>1 DEF Joins
    <3>3. QED
      BY <3>1, <3>2
  <2>3. \A i \in 1 .. k + 1 : i # 1 => i - 1 \in 1 .. k
    OBVIOUS
  <2>4. g = [i \in 1 .. k + 1 |-> IF i = 1 THEN s[i] ELSE g[i - 1] \o s[i]]
    BY <2>2, <2>3, Zenon
  <2> HIDE DEF g
  <2>5. Joins(g, s, k + 1)
    BY <2>4 DEF Joins
  <2>6. QED
    BY <2>5
<1> HIDE DEF T
<1>3. Nat \subseteq T
  BY <1>1, <1>2, AllNumbers
<1>4. QED
  BY <1>3 DEF T

\* What the recursive function of the library computes.
LEMMA FlattenDef ==
  ASSUME NEW B, NEW s \in Seq(Seq(B)), s # <<>>
  PROVE  \E f : Joins(f, s, Len(s)) /\ FlattenSeq(s) = f[Len(s)]
<1> DEFINE F == CHOOSE f : Joins(f, s, Len(s))
<1>1. Len(s) \in Nat /\ Len(s) # 0
  BY EmptySeq, LenProperties
<1>2. FlattenSeq(s) = F[Len(s)]
  BY <1>1 DEF FlattenSeq, Joins
<1>3. Joins(F, s, Len(s))
  BY <1>1, JoinsExist
<1>4. QED
  BY <1>2, <1>3

\* Each of the joined sequences is one.
LEMMA JoinsType ==
  ASSUME NEW B, NEW s \in Seq(Seq(B)), NEW f, Joins(f, s, Len(s))
  PROVE  \A i \in 1 .. Len(s) : f[i] \in Seq(B) /\ s[i] \in Seq(B)
<1>1. Len(s) \in Nat /\ \A i \in 1 .. Len(s) : s[i] \in Seq(B)
  BY LenProperties
<1>2. \A i \in 1 .. Len(s) : f[i] = IF i = 1 THEN s[i] ELSE f[i - 1] \o s[i]
  BY DEF Joins
<1> DEFINE T == {k \in Nat : k \in 1 .. Len(s) => f[k] \in Seq(B)}
<1>3. 0 \in T
  OBVIOUS
<1>4. ASSUME NEW k \in Nat, k \in T PROVE k + 1 \in T
  <2> SUFFICES ASSUME k + 1 \in 1 .. Len(s) PROVE f[k + 1] \in Seq(B)
    OBVIOUS
  <2>1. CASE k = 0
    BY <1>1, <1>2, <2>1
  <2>2. CASE k # 0
    <3>1. k \in 1 .. Len(s) /\ f[k] \in Seq(B) /\ s[k + 1] \in Seq(B)
      BY <1>1, <1>4, <2>2
    <3>2. k + 1 # 1 /\ (k + 1) - 1 = k
      BY <2>2
    <3>3. f[k + 1] = f[k] \o s[k + 1]
      BY <1>2, <3>2
    <3>4. QED
      BY <3>1, <3>3, ConcatProperties
  <2>3. QED
    BY <2>1, <2>2
<1> HIDE DEF T
<1>5. Nat \subseteq T
  BY <1>3, <1>4, AllNumbers
<1>6. \A i \in 1 .. Len(s) : i \in Nat
  BY <1>1
<1>7. QED
  BY <1>1, <1>5, <1>6 DEF T

LEMMA FlattenType ==
  ASSUME NEW B, NEW s \in Seq(Seq(B))
  PROVE  FlattenSeq(s) \in Seq(B)
<1>1. CASE s = <<>>
  BY <1>1 DEF FlattenSeq
<1>2. CASE s # <<>>
  <2>1. PICK f : Joins(f, s, Len(s)) /\ FlattenSeq(s) = f[Len(s)]
    BY <1>2, FlattenDef
  <2>2. Len(s) \in 1 .. Len(s)
    BY <1>2, EmptySeq, LenProperties
  <2>3. QED
    BY <2>1, <2>2, JoinsType
<1>3. QED
  BY <1>1, <1>2

\* A sequence that is appended comes last.
LEMMA FlattenAppend ==
  ASSUME NEW B, NEW s \in Seq(Seq(B)), NEW x \in Seq(B)
  PROVE  FlattenSeq(Append(s, x)) = FlattenSeq(s) \o x
<1> DEFINE t == Append(s, x)
           n == Len(s)
<1>1. /\ t \in Seq(Seq(B)) /\ t # <<>> /\ n \in Nat /\ Len(t) = n + 1
      /\ t[n + 1] = x /\ \A i \in 1 .. n : t[i] = s[i]
  BY AppendProperties, LenProperties
<1>2. s = <<>> <=> n = 0
  BY EmptySeq
<1> HIDE DEF t, n
<1>3. PICK g : Joins(g, t, n + 1) /\ FlattenSeq(t) = g[n + 1]
  BY <1>1, FlattenDef
<1>4. \A i \in 1 .. n + 1 : g[i] = IF i = 1 THEN t[i] ELSE g[i - 1] \o t[i]
  BY <1>3 DEF Joins
<1>5. CASE n = 0
  <2>1. FlattenSeq(t) = x
    BY <1>1, <1>3, <1>4, <1>5
  <2>2. FlattenSeq(s) = <<>>
    BY <1>2, <1>5 DEF FlattenSeq
  <2>3. QED
    BY <2>1, <2>2, ConcatEmptySeq DEF t
<1>6. CASE n # 0
  <2>1. PICK f : Joins(f, s, n) /\ FlattenSeq(s) = f[n]
    BY <1>2, <1>6, FlattenDef DEF n
  <2>2. \A i \in 1 .. n : f[i] = IF i = 1 THEN s[i] ELSE f[i - 1] \o s[i]
    BY <2>1 DEF Joins
  <2> DEFINE T == {k \in Nat : k \in 1 .. n => g[k] = f[k]}
  <2>3. 0 \in T
    OBVIOUS
  <2>4. ASSUME NEW k \in Nat, k \in T PROVE k + 1 \in T
    <3> SUFFICES ASSUME k + 1 \in 1 .. n PROVE g[k + 1] = f[k + 1]
      OBVIOUS
    <3>1. k + 1 \in 1 .. n + 1 /\ t[k + 1] = s[k + 1]
      BY <1>1
    <3>2. CASE k = 0
      BY <1>4, <2>2, <3>1, <3>2
    <3>3. CASE k # 0
      <4>1. g[k] = f[k] /\ k + 1 # 1 /\ (k + 1) - 1 = k
        BY <1>1, <2>4, <3>3
      <4>2. g[k + 1] = g[k] \o t[k + 1] /\ f[k + 1] = f[k] \o s[k + 1]
        BY <1>4, <2>2, <3>1, <4>1
      <4>3. QED
        BY <3>1, <4>1, <4>2
    <3>4. QED
      BY <3>2, <3>3
  <2> HIDE DEF T
  <2>5. Nat \subseteq T
    BY <2>3, <2>4, AllNumbers
  <2>6. n \in T /\ n \in 1 .. n /\ n + 1 \in 1 .. n + 1 /\ n + 1 # 1 /\ (n + 1) - 1 = n
    BY <1>1, <1>6, <2>5
  <2>7. g[n] = f[n] /\ g[n + 1] = g[n] \o x
    BY <1>1, <1>4, <2>6 DEF T
  <2>8. QED
    BY <1>3, <2>1, <2>7 DEF t
<1>7. QED
  BY <1>5, <1>6

\* Three sequences can be joined in either order.
Associates(B) == \A a, b, c \in Seq(B) : (a \o b) \o c = a \o (b \o c)

LEMMA SequencesAssociate ==
  \A B : Associates(B)
  BY ConcatAssociative DEF Associates

\* The first sequence comes first.
LEMMA FlattenTail ==
  ASSUME NEW B, NEW s \in Seq(Seq(B)), s # <<>>
  PROVE  FlattenSeq(s) = Head(s) \o FlattenSeq(Tail(s))
<1> DEFINE t == Tail(s)
           h == Head(s)
           n == Len(t)
<1>1. /\ t \in Seq(Seq(B)) /\ h \in Seq(B) /\ n \in Nat /\ Len(s) = n + 1
      /\ h = s[1] /\ \A i \in 1 .. n : t[i] = s[i + 1]
  BY HeadTailProperties, EmptySeq, LenProperties
<1>2. t = <<>> <=> n = 0
  BY <1>1, EmptySeq
<1> HIDE DEF t, h, n
<1>3. PICK f : Joins(f, s, n + 1) /\ FlattenSeq(s) = f[n + 1]
  BY <1>1, FlattenDef
<1>4. \A i \in 1 .. n + 1 : f[i] = IF i = 1 THEN s[i] ELSE f[i - 1] \o s[i]
  BY <1>3 DEF Joins
<1>5. f[1] = h
  BY <1>1, <1>4
<1>6. Associates(B)
  BY SequencesAssociate
<1>7. CASE n = 0
  <2>1. FlattenSeq(t) = <<>>
    BY <1>2, <1>7 DEF FlattenSeq
  <2>2. FlattenSeq(s) = h
    BY <1>3, <1>5, <1>7
  <2>3. QED
    BY <1>1, <2>1, <2>2, ConcatEmptySeq DEF t, h
<1>8. CASE n # 0
  <2>1. PICK g : Joins(g, t, n) /\ FlattenSeq(t) = g[n]
    BY <1>1, <1>2, <1>8, FlattenDef DEF n
  <2>2. \A i \in 1 .. n : g[i] = IF i = 1 THEN t[i] ELSE g[i - 1] \o t[i]
    BY <2>1 DEF Joins
  <2>3. \A i \in 1 .. n : g[i] \in Seq(B) /\ t[i] \in Seq(B)
    BY <1>1, <2>1, JoinsType DEF n
  <2> DEFINE T == {k \in Nat : k \in 1 .. n => f[k + 1] = h \o g[k]}
  <2>4. 0 \in T
    OBVIOUS
  <2>5. ASSUME NEW k \in Nat, k \in T PROVE k + 1 \in T
    <3> DEFINE m == k + 1
    <3> SUFFICES ASSUME m \in 1 .. n PROVE f[m + 1] = h \o g[m]
      OBVIOUS
    <3>1. /\ m + 1 \in 1 .. n + 1 /\ m + 1 # 1 /\ (m + 1) - 1 = m /\ m - 1 = k
          /\ t[m] = s[m + 1]
      BY <1>1
    <3>2. f[m + 1] = f[m] \o t[m]
      BY <1>4, <3>1
    <3>3. CASE k = 0
      <4>1. m = 1 /\ g[m] = t[m] /\ f[m] = h
        BY <1>5, <2>2, <3>3
      <4>2. QED
        BY <3>2, <4>1
    <3>4. CASE k # 0
      <4>1. k \in 1 .. n /\ m # 1
        BY <1>1, <3>4
      <4>2. f[m] = h \o g[k]
        BY <2>5, <4>1
      <4>3. g[m] = g[k] \o t[m]
        BY <2>2, <3>1, <4>1
      <4>4. h \in Seq(B) /\ g[k] \in Seq(B) /\ t[m] \in Seq(B)
        BY <1>1, <2>3, <4>1
      <4>5. (h \o g[k]) \o t[m] = h \o (g[k] \o t[m])
        BY <1>6, <4>4 DEF Associates
      <4>6. QED
        BY <3>2, <4>2, <4>3, <4>5
    <3>5. QED
      BY <3>3, <3>4
  <2> HIDE DEF T
  <2>6. Nat \subseteq T
    BY <2>4, <2>5, AllNumbers
  <2>7. n \in T /\ n \in 1 .. n
    BY <1>1, <1>8, <2>6
  <2>8. f[n + 1] = h \o g[n]
    BY <2>7 DEF T
  <2>9. QED
    BY <1>3, <2>1, <2>8 DEF t, h
<1>9. QED
  BY <1>7, <1>8

-----------------------------------------------------------------------------
(* Sequences of numbers that go round.                                      *)

\* The number grows from one to the next, but for the place after the first k,
\* where it falls below all that came before.
Cyclic(L) ==
  \E k \in 0 .. Len(L) : \A i, j \in 1 .. Len(L) :
    i < j => IF i <= k /\ k < j THEN L[j] < L[i] ELSE L[i] < L[j]

\* It may begin anywhere.
LEMMA CyclicTurns ==
  ASSUME NEW B, B \subseteq Int, NEW s \in Seq(B), NEW t \in Seq(B), Cyclic(s \o t)
  PROVE  Cyclic(t \o s)
<1> DEFINE L == s \o t
           M == t \o s
           a == Len(s)
           c == Len(t)
<1>1. /\ a \in Nat /\ c \in Nat /\ Len(L) = a + c /\ Len(M) = a + c
      /\ \A i \in 1 .. a + c : L[i] = IF i <= a THEN s[i] ELSE t[i - a]
      /\ \A i \in 1 .. a + c : M[i] = IF i <= c THEN t[i] ELSE s[i - c]
  BY ConcatProperties, LenProperties
<1>2. PICK k \in 0 .. a + c : \A i, j \in 1 .. a + c :
        i < j => IF i <= k /\ k < j THEN L[j] < L[i] ELSE L[i] < L[j]
  BY <1>1 DEF Cyclic
<1>3. \A i \in 1 .. a + c :
        /\ i <= c => a + i \in 1 .. a + c /\ M[i] = L[a + i]
        /\ i > c => i - c \in 1 .. a /\ i - c \in 1 .. a + c /\ M[i] = L[i - c]
  <2> SUFFICES ASSUME NEW i \in 1 .. a + c
               PROVE  /\ i <= c => a + i \in 1 .. a + c /\ M[i] = L[a + i]
                      /\ i > c => i - c \in 1 .. a /\ i - c \in 1 .. a + c /\ M[i] = L[i - c]
    OBVIOUS
  <2> HIDE DEF L, M, a, c
  <2>1. CASE i <= c
    <3>1. a + i \in 1 .. a + c /\ ~(a + i <= a \/ i > c) /\ (a + i) - a = i
      BY <1>1, <2>1
    <3>2. QED
      BY <1>1, <2>1, <3>1
  <2>2. CASE i > c
    <3>1. i - c \in 1 .. a /\ i - c \in 1 .. a + c /\ ~(i <= c)
      BY <1>1, <2>2
    <3>2. QED
      BY <1>1, <2>2, <3>1
  <2>3. QED
    BY <1>1, <2>1, <2>2
<1>4. \A i \in 1 .. a + c : L[i] \in Int
  <2>1. L \in Seq(B)
    BY ConcatProperties
  <2>2. \A i \in 1 .. Len(L) : L[i] \in B
    BY <2>1, LenProperties
  <2>3. QED
    BY <1>1, <2>2
<1> HIDE DEF L, M, a, c
<1>5. CASE k <= a
  <2> DEFINE m == c + k
  <2>1. m \in 0 .. a + c
    BY <1>1, <1>5
  <2>2. ASSUME NEW i \in 1 .. a + c, NEW j \in 1 .. a + c, i < j
        PROVE  IF i <= m /\ m < j THEN M[j] < M[i] ELSE M[i] < M[j]
    <3>1. CASE j <= c
      BY <1>1, <1>2, <1>3, <1>5, <2>2, <3>1
    <3>2. CASE i <= c /\ j > c
      BY <1>1, <1>2, <1>3, <1>4, <1>5, <2>2, <3>2
    <3>3. CASE i > c
      BY <1>1, <1>2, <1>3, <1>5, <2>2, <3>3
    <3>4. QED
      BY <1>1, <2>2, <3>1, <3>2, <3>3
  <2>3. QED
    BY <1>1, <2>1, <2>2 DEF Cyclic, M
<1>6. CASE k > a
  <2> DEFINE m == k - a
  <2>1. m \in 0 .. a + c
    BY <1>1, <1>6
  <2>2. ASSUME NEW i \in 1 .. a + c, NEW j \in 1 .. a + c, i < j
        PROVE  IF i <= m /\ m < j THEN M[j] < M[i] ELSE M[i] < M[j]
    <3>1. CASE j <= c
      BY <1>1, <1>2, <1>3, <1>6, <2>2, <3>1
    <3>2. CASE i <= c /\ j > c
      BY <1>1, <1>2, <1>3, <1>4, <1>6, <2>2, <3>2
    <3>3. CASE i > c
      BY <1>1, <1>2, <1>3, <1>6, <2>2, <3>3
    <3>4. QED
      BY <1>1, <2>2, <3>1, <3>2, <3>3
  <2>3. QED
    BY <1>1, <2>1, <2>2 DEF Cyclic, M
<1>7. QED
  BY <1>1, <1>5, <1>6

\* It remains so when the end is dropped.
LEMMA CyclicBegins ==
  ASSUME NEW B, NEW s \in Seq(B), NEW t \in Seq(B), Cyclic(s \o t)
  PROVE  Cyclic(s)
<1> DEFINE L == s \o t
           a == Len(s)
           c == Len(t)
<1>1. /\ a \in Nat /\ c \in Nat /\ Len(L) = a + c
      /\ \A i \in 1 .. a + c : L[i] = IF i <= a THEN s[i] ELSE t[i - a]
  BY ConcatProperties, LenProperties
<1>2. PICK k \in 0 .. a + c : \A i, j \in 1 .. a + c :
        i < j => IF i <= k /\ k < j THEN L[j] < L[i] ELSE L[i] < L[j]
  BY <1>1 DEF Cyclic
<1> HIDE DEF L, a, c
<1>3. \A i \in 1 .. a : i \in 1 .. a + c /\ L[i] = s[i]
  BY <1>1
<1> DEFINE m == IF k <= a THEN k ELSE a
<1>4. m \in 0 .. a
  BY <1>1
<1>5. ASSUME NEW i \in 1 .. a, NEW j \in 1 .. a, i < j
      PROVE  IF i <= m /\ m < j THEN s[j] < s[i] ELSE s[i] < s[j]
  BY <1>1, <1>2, <1>3, <1>5
<1>6. QED
  BY <1>4, <1>5 DEF Cyclic, a

\* Concatenations of three and four sequences.
LEMMA Joined ==
  ASSUME NEW B, NEW r \in Seq(B), NEW s \in Seq(B), NEW t \in Seq(B)
  PROVE  /\ r \o s \in Seq(B) /\ Len(r \o s) = Len(r) + Len(s)
         /\ (r \o s) \o t = r \o (s \o t)
         /\ (r \o s) \o t \in Seq(B)
  BY ConcatProperties, ConcatAssociative

\* Nor does it matter which part is dropped.
LEMMA CyclicDrops ==
  ASSUME NEW B, B \subseteq Int, NEW s \in Seq(B), NEW d \in Seq(B), NEW t \in Seq(B),
         Cyclic(s \o (d \o t))
  PROVE  Cyclic(s \o t)
<1>1. /\ s \o d \in Seq(B) /\ t \o s \in Seq(B) /\ d \o t \in Seq(B)
      /\ (s \o d) \o t = s \o (d \o t) /\ (t \o s) \o d = t \o (s \o d)
  <2>1. s \o d \in Seq(B) /\ t \o s \in Seq(B) /\ d \o t \in Seq(B)
    BY Joined
  <2>2. (s \o d) \o t = s \o (d \o t)
    BY ConcatAssociative
  <2>3. (t \o s) \o d = t \o (s \o d)
    BY ConcatAssociative
  <2>4. QED
    BY <2>1, <2>2, <2>3
<1>2. Cyclic(t \o (s \o d))
  BY <1>1, CyclicTurns
<1>3. Cyclic(t \o s)
  BY <1>1, <1>2, CyclicBegins
<1>4. QED
  BY <1>3, CyclicTurns

\* At most one number is not less than the next.
LEMMA CyclicFalls ==
  ASSUME NEW B, B \subseteq Int, NEW L \in Seq(B), Cyclic(L)
  PROVE  LET Next1(i) == IF i = Len(L) THEN 1 ELSE i + 1
             falls    == {i \in DOMAIN L : L[Next1(i)] <= L[i]}
         IN  Cardinality(falls) <= 1
<1> DEFINE n == Len(L)
           Next1(i) == IF i = n THEN 1 ELSE i + 1
           falls == {i \in DOMAIN L : L[Next1(i)] <= L[i]}
<1>1. n \in Nat /\ DOMAIN L = 1 .. n /\ \A i \in 1 .. n : L[i] \in Int
  BY LenProperties
<1>2. PICK k \in 0 .. n : \A i, j \in 1 .. n :
        i < j => IF i <= k /\ k < j THEN L[j] < L[i] ELSE L[i] < L[j]
  BY DEF Cyclic
<1> DEFINE x == IF k = 0 THEN n ELSE k
<1>3. falls \subseteq {x}
  <2> SUFFICES ASSUME NEW i \in 1 .. n, L[Next1(i)] <= L[i] PROVE i = x
    BY <1>1
  <2> HIDE DEF n
  <2>1. CASE i = n
    <3>1. 1 \in 1 .. n /\ n \in 1 .. n /\ L[1] <= L[n] /\ L[1] \in Int /\ L[n] \in Int
      BY <1>1, <2>1
    <3>2. 1 < n /\ 1 <= k /\ k < n => L[n] < L[1]
      BY <1>2, <3>1
    <3>3. QED
      BY <1>1, <2>1, <3>1, <3>2
  <2>2. CASE i # n
    <3>1. /\ i + 1 \in 1 .. n /\ i < i + 1 /\ L[i + 1] <= L[i]
          /\ L[i + 1] \in Int /\ L[i] \in Int
      BY <1>1, <2>2
    <3>2. i <= k /\ k < i + 1
      BY <1>2, <3>1
    <3>3. QED
      BY <1>1, <3>2
  <2>3. QED
    BY <2>1, <2>2
<1>4. IsFiniteSet(falls) /\ Cardinality(falls) <= 1
  <2>1. IsFiniteSet({x}) /\ Cardinality({x}) = 1
    BY FS_Singleton
  <2> HIDE DEF falls, x
  <2>2. QED
    BY <1>3, <2>1, FS_Subset
<1>5. QED
  BY <1>4

-----------------------------------------------------------------------------
(* The bytes that go round.                                                 *)

\* Those on the way to an end that has read arr, with w in the network and its
\* peer writing uns.
OnTheWay(arr, w, uns) == FlattenSeq(arr) \o w \o FlattenSeq(uns)

\* Those on the way to e.
Half(e) == OnTheWay(arrived[e], wire[e], unsent[Peer(e)])

\* The connection is made, or about to be, and nothing has gone wrong with it.
Intact == state["client"] = "open" /\ state["server"] # "closed" /\ ~broken

\* Nobody reads or writes nothing.
Chunks == Seq(Bytes) \ {<<>>}

NoEmptyData ==
  \A e \in Ends : arrived[e] \in Seq(Chunks) /\ unsent[e] \in Seq(Chunks)

\* Before the connection nothing is sent.
WireInv == state["client"] = "new" => \A e \in Ends : wire[e] = <<>>

\* Something goes round, never more than the block, or all of it.
BytesLeft ==
  /\ Loop # <<>> /\ Len(Loop) <= BlockSize
  /\ space >= BlockSize => Len(Loop) = BlockSize

LoopInv ==
  /\ Cyclic(Loop)
  /\ NoEmptyData
  /\ WireInv
  /\ Intact => BytesLeft

\* The types of what the halves are made of.
LEMMA HalfTypes ==
  ASSUME Shapes
  PROVE  /\ Bytes \subseteq Int /\ Peer("client") = "server" /\ Peer("server") = "client"
         /\ \A e \in Ends :
              /\ Peer(e) \in Ends /\ Peer(e) # e /\ Peer(Peer(e)) = e
              /\ arrived[e] \in Seq(Seq(Bytes)) /\ unsent[e] \in Seq(Seq(Bytes))
              /\ FlattenSeq(arrived[e]) \in Seq(Bytes) /\ wire[e] \in Seq(Bytes)
              /\ FlattenSeq(unsent[e]) \in Seq(Bytes)
              /\ Half(e) \in Seq(Bytes)
<1>1. Bytes \subseteq Int
  BY StreamAssumption DEF Bytes
<1>2. Peer("client") = "server" /\ Peer("server") = "client"
  BY DEF Peer
<1>3. \A e \in Ends : Peer(e) \in Ends /\ Peer(e) # e /\ Peer(Peer(e)) = e
  BY DEF Peer, Ends
<1>4. \A e \in Ends : /\ arrived[e] \in Seq(Seq(Bytes)) /\ unsent[e] \in Seq(Seq(Bytes))
                      /\ wire[e] \in Seq(Bytes)
  BY DEF Shapes
<1>5. \A e \in Ends : /\ FlattenSeq(arrived[e]) \in Seq(Bytes)
                      /\ FlattenSeq(unsent[e]) \in Seq(Bytes)
  BY <1>4, FlattenType
<1>6. ASSUME NEW e \in Ends PROVE Half(e) \in Seq(Bytes)
  BY <1>3, <1>4, <1>5, Joined DEF Half, OnTheWay
<1>7. QED
  BY <1>1, <1>2, <1>3, <1>4, <1>5, <1>6

\* Concatenations of the halves and their parts.
LEMMA JoinedBytes ==
  /\ \A r, s \in Seq(Bytes) : r \o s \in Seq(Bytes) /\ Len(r \o s) = Len(r) + Len(s)
  /\ \A r \in Seq(Bytes) : Len(r) \in Nat
  BY Joined, LenProperties

LEMMA JoinedTwice ==
  \A r, s, t \in Seq(Bytes) : (r \o s) \o t = r \o (s \o t)
  BY Joined

\* All are on the way to the client or to the server.
LoopOfHalves ==
  /\ Half("client") \in Seq(Bytes) /\ Half("server") \in Seq(Bytes)
  /\ Loop = Half("client") \o Half("server")

LEMMA LoopHasHalves ==
  Shapes => LoopOfHalves
<1> SUFFICES ASSUME Shapes PROVE LoopOfHalves
  OBVIOUS
<1> DEFINE a == FlattenSeq(arrived["client"])
           b == wire["client"]
           c == FlattenSeq(unsent["server"])
           d == FlattenSeq(arrived["server"])
           f == wire["server"]
           g == FlattenSeq(unsent["client"])
<1>1. /\ Loop = a \o b \o c \o d \o f \o g
      /\ Half("client") = a \o b \o c /\ Half("server") = d \o f \o g
  BY HalfTypes DEF Loop, Half, OnTheWay
<1>2. /\ a \in Seq(Bytes) /\ b \in Seq(Bytes) /\ c \in Seq(Bytes)
      /\ d \in Seq(Bytes) /\ f \in Seq(Bytes) /\ g \in Seq(Bytes)
  BY HalfTypes DEF Ends
<1> HIDE DEF a, b, c, d, f, g
<1> DEFINE x == a \o b \o c
<1>3. x \in Seq(Bytes) /\ d \o f \in Seq(Bytes) /\ d \o f \o g \in Seq(Bytes)
  BY <1>2, JoinedBytes
<1> HIDE DEF x
<1>4. (x \o d) \o f = x \o (d \o f)
  <2>1. x \in Seq(Bytes) /\ d \in Seq(Bytes) /\ f \in Seq(Bytes)
    BY <1>2, <1>3
  <2>2. QED
    BY <2>1, JoinedTwice
<1>5. (x \o (d \o f)) \o g = x \o ((d \o f) \o g)
  <2>1. x \in Seq(Bytes) /\ d \o f \in Seq(Bytes) /\ g \in Seq(Bytes)
    BY <1>2, <1>3
  <2>2. QED
    BY <2>1, JoinedTwice
<1>6. Loop = x \o (d \o f \o g) /\ Half("client") = x
  BY <1>1, <1>4, <1>5 DEF x
<1>7. QED
  BY <1>1, <1>3, <1>6 DEF LoopOfHalves

LEMMA LoopHasHalvesNext ==
  Shapes' => LoopOfHalves'
  BY LoopHasHalves, PTL

\* They are bytes.
LoopOfBytes == Loop \in Seq(Bytes)

LEMMA LoopType ==
  Shapes => LoopOfBytes
<1> SUFFICES ASSUME Shapes PROVE Loop \in Seq(Bytes)
  BY DEF LoopOfBytes
<1> DEFINE x == Half("client")
           y == Half("server")
<1>1. x \in Seq(Bytes) /\ y \in Seq(Bytes) /\ Loop = x \o y
  BY LoopHasHalves DEF LoopOfHalves
<1> HIDE DEF x, y
<1>2. QED
  BY <1>1, JoinedBytes

LEMMA LoopTypeNext ==
  Shapes' => LoopOfBytes'
  BY LoopType, PTL

\* Whether the order is right does not depend on which half is taken first.
LEMMA EitherHalfFirst ==
  ASSUME LoopOfHalves, NEW e \in Ends
  PROVE  /\ Half(e) \in Seq(Bytes) /\ Half(Peer(e)) \in Seq(Bytes)
         /\ Cyclic(Half(e) \o Half(Peer(e))) <=> Cyclic(Loop)
         /\ Len(Loop) = Len(Half(e)) + Len(Half(Peer(e)))
<1> DEFINE x == Half("client")
           y == Half("server")
<1>1. x \in Seq(Bytes) /\ y \in Seq(Bytes) /\ Loop = x \o y
  BY DEF LoopOfHalves
<1>2. \/ Half(e) = x /\ Half(Peer(e)) = y
      \/ Half(e) = y /\ Half(Peer(e)) = x
  BY DEF Ends, Peer
<1> HIDE DEF x, y
<1>3. Cyclic(x \o y) <=> Cyclic(y \o x)
  <2>1. Bytes \subseteq Int
    BY StreamAssumption DEF Bytes
  <2>2. QED
    BY <1>1, <2>1, CyclicTurns
<1>4. Len(x) \in Nat /\ Len(y) \in Nat /\ Len(x \o y) = Len(x) + Len(y)
  BY <1>1, JoinedBytes
<1>5. Len(x) + Len(y) = Len(y) + Len(x)
  BY <1>4
<1>6. QED
  BY <1>1, <1>2, <1>3, <1>4, <1>5, Zenon

EitherHalf ==
  \A e \in Ends :
    /\ Half(e) \in Seq(Bytes) /\ Half(Peer(e)) \in Seq(Bytes)
    /\ Cyclic(Half(e) \o Half(Peer(e))) <=> Cyclic(Loop)
    /\ Len(Loop) = Len(Half(e)) + Len(Half(Peer(e)))

LEMMA EitherHalfCorrect ==
  Shapes => EitherHalf
  BY LoopHasHalves, EitherHalfFirst DEF EitherHalf

LEMMA EitherHalfNext ==
  Shapes' => EitherHalf'
  BY EitherHalfCorrect, PTL

\* Data that the handler of a read passes on stay in their place.
LEMMA BytesPassedOn ==
  ASSUME Shapes, Shapes', NEW e \in Ends, NEW h \in Seq(Bytes), Cyclic(Loop),
         Half(e) = h \o Half(e)', Half(Peer(e))' = Half(Peer(e)) \o h
  PROVE  Cyclic(Loop)' /\ Len(Loop)' = Len(Loop)
<1> DEFINE x == Half(e)
           y == Half(Peer(e))
           u == Half(e)'
           v == Half(Peer(e))'
<1>1. /\ Cyclic(x \o y) /\ x \in Seq(Bytes) /\ y \in Seq(Bytes)
      /\ Len(Loop) = Len(x) + Len(y)
  BY EitherHalfCorrect DEF EitherHalf
<1>2. /\ u \in Seq(Bytes) /\ Len(Loop)' = Len(u) + Len(v)
      /\ Cyclic(u \o v) => Cyclic(Loop)'
  BY EitherHalfNext DEF EitherHalf
<1>3. x = h \o u /\ v = y \o h
  OBVIOUS
<1> HIDE DEF x, y, u, v
<1>4. /\ u \o y \in Seq(Bytes) /\ (h \o u) \o y = h \o (u \o y)
      /\ (u \o y) \o h = u \o (y \o h)
  <2>1. u \o y \in Seq(Bytes)
    BY <1>1, <1>2, JoinedBytes
  <2>2. (h \o u) \o y = h \o (u \o y) /\ (u \o y) \o h = u \o (y \o h)
    BY <1>1, <1>2, JoinedTwice, Zenon
  <2>3. QED
    BY <2>1, <2>2
<1>5. Cyclic(u \o v)
  <2>1. Cyclic(h \o (u \o y)) /\ Bytes \subseteq Int
    BY <1>1, <1>3, <1>4, HalfTypes
  <2>2. Cyclic((u \o y) \o h)
    BY <1>1, <1>4, <2>1, CyclicTurns
  <2>3. QED
    BY <1>3, <1>4, <2>2
<1>6. Len(u) + Len(v) = Len(x) + Len(y)
  <2>1. /\ Len(x) = Len(h) + Len(u) /\ Len(v) = Len(y) + Len(h)
        /\ Len(h) \in Nat /\ Len(u) \in Nat /\ Len(y) \in Nat
    BY <1>1, <1>2, <1>3, JoinedBytes
  <2>2. QED
    BY <2>1
<1>7. QED
  BY <1>1, <1>2, <1>5, <1>6

\* Data that a failed or a short write drops leave the others in their order.
LEMMA BytesDropped ==
  ASSUME Shapes, Shapes', NEW e \in Ends, NEW s \in Seq(Bytes), NEW d \in Seq(Bytes),
         NEW t \in Seq(Bytes), Cyclic(Loop),
         Half(e) = s \o (d \o t), Half(e)' = s \o t, Half(Peer(e))' = Half(Peer(e))
  PROVE  Cyclic(Loop)'
<1> DEFINE x == Half(e)
           y == Half(Peer(e))
           u == Half(e)'
<1>1. Cyclic(x \o y) /\ x \in Seq(Bytes) /\ y \in Seq(Bytes)
  BY EitherHalfCorrect DEF EitherHalf
<1>2. u \in Seq(Bytes) /\ (Cyclic(u \o y) => Cyclic(Loop)')
  BY EitherHalfNext DEF EitherHalf
<1>3. x = s \o (d \o t) /\ u = s \o t /\ Bytes \subseteq Int
  BY HalfTypes
<1> HIDE DEF x, y, u
<1>4. /\ t \o y \in Seq(Bytes) /\ d \o t \in Seq(Bytes)
      /\ (s \o t) \o y = s \o (t \o y)
      /\ (d \o t) \o y = d \o (t \o y)
  <2>1. t \o y \in Seq(Bytes) /\ d \o t \in Seq(Bytes)
    BY <1>1, JoinedBytes
  <2>2. (s \o t) \o y = s \o (t \o y) /\ (d \o t) \o y = d \o (t \o y)
    BY <1>1, JoinedTwice, Zenon
  <2>3. QED
    BY <2>1, <2>2
<1>5. (s \o (d \o t)) \o y = s \o ((d \o t) \o y)
  <2>1. d \o t \in Seq(Bytes)
    BY JoinedBytes
  <2> DEFINE r == d \o t
  <2> HIDE DEF r
  <2>2. r \in Seq(Bytes)
    BY <2>1 DEF r
  <2>3. (s \o r) \o y = s \o (r \o y)
    BY <1>1, <2>2, JoinedTwice
  <2>4. QED
    BY <2>3 DEF r
<1>6. Cyclic(s \o (d \o (t \o y)))
  BY <1>1, <1>3, <1>4, <1>5
<1>7. Cyclic(s \o (t \o y))
  BY <1>3, <1>4, <1>6, CyclicDrops
<1>8. QED
  BY <1>2, <1>3, <1>4, <1>7

\* When both halves are as before all is.
LEMMA BytesStay ==
  ASSUME Shapes, Shapes', \A e \in Ends : Half(e)' = Half(e)
  PROVE  Loop' = Loop
  BY LoopHasHalves, LoopHasHalvesNext DEF LoopOfHalves, Ends

-----------------------------------------------------------------------------
(* What the steps do to the bytes on the way.                               *)

\* Bytes that are read go from the network to the end of what has arrived.
LEMMA BytesRead ==
  \A arr, uns \in Seq(Seq(Bytes)) : \A c, r \in Seq(Bytes) :
    OnTheWay(Append(arr, c), r, uns) = OnTheWay(arr, c \o r, uns)
<1> SUFFICES ASSUME NEW arr \in Seq(Seq(Bytes)), NEW uns \in Seq(Seq(Bytes)),
                    NEW c \in Seq(Bytes), NEW r \in Seq(Bytes)
             PROVE  OnTheWay(Append(arr, c), r, uns) = OnTheWay(arr, c \o r, uns)
  OBVIOUS
<1>1. FlattenSeq(Append(arr, c)) = FlattenSeq(arr) \o c
  BY FlattenAppend
<1>2. FlattenSeq(arr) \in Seq(Bytes)
  BY FlattenType
<1>3. (FlattenSeq(arr) \o c) \o r = FlattenSeq(arr) \o (c \o r)
  BY <1>2, JoinedTwice, Zenon
<1>4. QED
  BY <1>1, <1>3, Zenon DEF OnTheWay

\* Those whose read is handled leave at the front.
LEMMA BytesTaken ==
  \A arr, uns \in Seq(Seq(Bytes)) : \A w \in Seq(Bytes) :
    arr # <<>> => OnTheWay(arr, w, uns) = Head(arr) \o OnTheWay(Tail(arr), w, uns)
<1> SUFFICES ASSUME NEW arr \in Seq(Seq(Bytes)), NEW uns \in Seq(Seq(Bytes)),
                    NEW w \in Seq(Bytes), arr # <<>>
             PROVE  OnTheWay(arr, w, uns) = Head(arr) \o OnTheWay(Tail(arr), w, uns)
  OBVIOUS
<1> DEFINE h == Head(arr)
           t == FlattenSeq(Tail(arr))
           u == FlattenSeq(uns)
<1>1. FlattenSeq(arr) = h \o t
  BY FlattenTail
<1>2. h \in Seq(Bytes) /\ t \in Seq(Bytes) /\ u \in Seq(Bytes)
  BY QueueLengths, FlattenType
<1>3. /\ OnTheWay(arr, w, uns) = ((h \o t) \o w) \o u
      /\ OnTheWay(Tail(arr), w, uns) = (t \o w) \o u
  BY <1>1 DEF OnTheWay
<1> HIDE DEF h, t, u
<1>4. (h \o t) \o w = h \o (t \o w) /\ t \o w \in Seq(Bytes)
  <2>1. t \o w \in Seq(Bytes)
    BY <1>2, JoinedBytes
  <2>2. (h \o t) \o w = h \o (t \o w)
    BY <1>2, JoinedTwice, Zenon
  <2>3. QED
    BY <2>1, <2>2
<1>5. (h \o (t \o w)) \o u = h \o ((t \o w) \o u)
  <2>1. h \in Seq(Bytes) /\ t \o w \in Seq(Bytes) /\ u \in Seq(Bytes)
    BY <1>2, <1>4
  <2>2. QED
    BY <2>1, JoinedTwice
<1>6. OnTheWay(arr, w, uns) = h \o OnTheWay(Tail(arr), w, uns)
  BY <1>3, <1>4, <1>5
<1>7. QED
  BY <1>6 DEF h

\* Those that are given to a write join at the end.
LEMMA BytesJoin ==
  \A arr, uns \in Seq(Seq(Bytes)) : \A w, x \in Seq(Bytes) :
    OnTheWay(arr, w, Append(uns, x)) = OnTheWay(arr, w, uns) \o x
<1> SUFFICES ASSUME NEW arr \in Seq(Seq(Bytes)), NEW uns \in Seq(Seq(Bytes)),
                    NEW w \in Seq(Bytes), NEW x \in Seq(Bytes)
             PROVE  OnTheWay(arr, w, Append(uns, x)) = OnTheWay(arr, w, uns) \o x
  OBVIOUS
<1> DEFINE a == FlattenSeq(arr)
           u == FlattenSeq(uns)
<1>1. FlattenSeq(Append(uns, x)) = u \o x
  BY FlattenAppend
<1>2. a \in Seq(Bytes) /\ u \in Seq(Bytes)
  BY FlattenType
<1>3. /\ OnTheWay(arr, w, Append(uns, x)) = (a \o w) \o (u \o x)
      /\ OnTheWay(arr, w, uns) \o x = ((a \o w) \o u) \o x
  BY <1>1 DEF OnTheWay
<1> HIDE DEF a, u
<1>4. a \o w \in Seq(Bytes)
  BY <1>2, JoinedBytes
<1>5. ((a \o w) \o u) \o x = (a \o w) \o (u \o x)
  BY <1>2, <1>4, JoinedTwice, Zenon
<1>6. QED
  BY <1>3, <1>5

\* The data of the first write lie between what is in the network and the rest.
LEMMA BytesToWrite ==
  \A arr, uns \in Seq(Seq(Bytes)) : \A w \in Seq(Bytes) :
    LET s == FlattenSeq(arr) \o w
        t == FlattenSeq(Tail(uns))
    IN  uns # <<>> =>
          /\ s \in Seq(Bytes) /\ t \in Seq(Bytes)
          /\ Len(w) <= Len(s)
          /\ OnTheWay(arr, w, uns) = s \o (Head(uns) \o t)
          /\ OnTheWay(arr, w, Tail(uns)) = s \o t
<1> SUFFICES ASSUME NEW arr \in Seq(Seq(Bytes)), NEW uns \in Seq(Seq(Bytes)),
                    NEW w \in Seq(Bytes), uns # <<>>
             PROVE  LET s == FlattenSeq(arr) \o w
                        t == FlattenSeq(Tail(uns))
                    IN  /\ s \in Seq(Bytes) /\ t \in Seq(Bytes)
                        /\ Len(w) <= Len(s)
                        /\ OnTheWay(arr, w, uns) = s \o (Head(uns) \o t)
                        /\ OnTheWay(arr, w, Tail(uns)) = s \o t
  OBVIOUS
<1> DEFINE a == FlattenSeq(arr)
           s == a \o w
           t == FlattenSeq(Tail(uns))
<1>1. FlattenSeq(uns) = Head(uns) \o t
  BY FlattenTail
<1>2. a \in Seq(Bytes) /\ t \in Seq(Bytes)
  BY QueueLengths, FlattenType
<1>3. s \in Seq(Bytes) /\ Len(w) <= Len(s)
  <2>1. s \in Seq(Bytes) /\ Len(s) = Len(a) + Len(w)
        /\ Len(a) \in Nat /\ Len(w) \in Nat
    BY <1>2, JoinedBytes
  <2> HIDE DEF s, a
  <2>2. QED
    BY <2>1
<1>4. /\ OnTheWay(arr, w, uns) = s \o (Head(uns) \o t)
      /\ OnTheWay(arr, w, Tail(uns)) = s \o t
  BY <1>1 DEF OnTheWay
<1>5. QED
  BY <1>2, <1>3, <1>4

\* What is sent of them joins what is in the network.
LEMMA BytesWritten ==
  \A arr, uns \in Seq(Seq(Bytes)) : \A w, d \in Seq(Bytes) :
    uns # <<>> => OnTheWay(arr, w \o d, Tail(uns)) =
                    ((FlattenSeq(arr) \o w) \o d) \o FlattenSeq(Tail(uns))
<1> SUFFICES ASSUME NEW arr \in Seq(Seq(Bytes)), NEW uns \in Seq(Seq(Bytes)),
                    NEW w \in Seq(Bytes), NEW d \in Seq(Bytes), uns # <<>>
             PROVE  OnTheWay(arr, w \o d, Tail(uns)) =
                      ((FlattenSeq(arr) \o w) \o d) \o FlattenSeq(Tail(uns))
  OBVIOUS
<1> DEFINE a == FlattenSeq(arr)
<1>1. a \in Seq(Bytes)
  BY FlattenType
<1>2. OnTheWay(arr, w \o d, Tail(uns)) = (a \o (w \o d)) \o FlattenSeq(Tail(uns))
  BY DEF OnTheWay
<1> HIDE DEF a
<1>3. (a \o w) \o d = a \o (w \o d)
  BY <1>1, JoinedTwice, Zenon
<1>4. ((a \o w) \o d) \o FlattenSeq(Tail(uns)) =
        (a \o (w \o d)) \o FlattenSeq(Tail(uns))
  BY <1>3
<1>5. QED
  BY <1>2, <1>4 DEF a

-----------------------------------------------------------------------------
(* The steps and the bytes that go round.                                   *)

LEMMA ShapesNow ==
  IInv => Shapes
  BY ShapesOfTypes DEF IInv

LEMMA ShapesNext ==
  IInv' => Shapes'
  BY ShapesNow, PTL

\* An end that is open is connected.
LEMMA OpenMeansConnected ==
  ASSUME IInv, NEW e \in Ends, state[e] = "open"
  PROVE  state["client"] # "new"
  BY DEF IInv, CloseInv, Ends

\* A step that leaves the bytes that go round as they are.
LEMMA LoopStays ==
  ASSUME LoopInv, Loop' = Loop, space' = space, Intact' => Intact,
         NoEmptyData', WireInv'
  PROVE  LoopInv'
  BY DEF LoopInv, BytesLeft

\* A step that has nothing to do with them.
LEMMA LoopUntouched ==
  ASSUME IInv, IInv', LoopInv, Intact' => Intact,
         UNCHANGED <<space, arrived, unsent, wire>>,
         (state["client"] = "new")' => state["client"] = "new"
  PROVE  LoopInv' /\ Loop' = Loop
<1>1. \A e \in Ends : Half(e)' = Half(e)
  BY DEF Half
<1>2. Loop' = Loop
  BY <1>1, ShapesNow, ShapesNext, BytesStay
<1>3. NoEmptyData' /\ WireInv'
  BY DEF LoopInv, NoEmptyData, WireInv
<1>4. QED
  BY <1>2, <1>3, LoopStays

\* A read takes a part of what has arrived.
LEMMA LoopReads ==
  ASSUME IInv, IInv', LoopInv, NEW e \in Ends, PerformRead(e)
  PROVE  LoopInv' /\ Loop' = Loop
<1>1. Shapes /\ Shapes'
  BY ShapesNow, ShapesNext
<1>2. PICK n \in 1 .. Min({Len(wire[e]), BlockSize}) :
        /\ arrived' = [arrived EXCEPT ![e] = Append(@, SubSeq(wire[e], 1, n))]
        /\ wire' = [wire EXCEPT ![e] = SubSeq(@, n + 1, Len(@))]
  BY DEF PerformRead
<1>3. UNCHANGED <<space, state, unsent, broken>>
  BY DEF PerformRead
<1> DEFINE w == wire[e]
           c == SubSeq(w, 1, n)
           r == SubSeq(w, n + 1, Len(w))
<1>4. c \in Chunks /\ r \in Seq(Bytes) /\ w = c \o r /\ w \in Seq(Bytes)
  <2>1. Len(w) \in Nat \ {0} /\ w \in Seq(Bytes)
    BY PartTypes, QueueLengths DEF PerformRead
  <2>2. Min({Len(w), BlockSize}) = IF Len(w) <= BlockSize THEN Len(w) ELSE BlockSize
    BY <2>1, MinOfPair, StreamAssumption
  <2>3. n \in 1 .. Len(w)
    BY <2>1, <2>2, StreamAssumption
  <2> HIDE DEF w
  <2>4. c \in Seq(Bytes) /\ Len(c) = n /\ r \in Seq(Bytes)
    BY <2>1, <2>3, Pieces, SubSeqProperties
  <2>5. c # <<>>
    BY <2>3, <2>4, EmptySeq
  <2>6. c \o r = w
    <3>1. SubSeq(w, 1, Len(w)) = c \o r
      BY <2>1, <2>3, ConcatAdjacentSubSeq
    <3>2. SubSeq(w, 1, Len(w)) = w
      BY <2>1, SubSeqFull
    <3>3. QED
      BY <3>1, <3>2
  <2>7. QED
    BY <2>1, <2>4, <2>5, <2>6 DEF Chunks
<1>5. /\ arrived'[e] = Append(arrived[e], c) /\ wire'[e] = r
      /\ \A d \in Ends \ {e} : arrived'[d] = arrived[d] /\ wire'[d] = wire[d]
  BY <1>1, <1>2 DEF Shapes
<1> HIDE DEF c, r, w
<1>6. \A d \in Ends : Half(d)' = Half(d)
  <2>1. Half(e)' = Half(e)
    <3>1. /\ Half(e)' = OnTheWay(Append(arrived[e], c), r, unsent[Peer(e)])
          /\ Half(e) = OnTheWay(arrived[e], c \o r, unsent[Peer(e)])
      BY <1>3, <1>4, <1>5 DEF Half, w
    <3>2. arrived[e] \in Seq(Seq(Bytes)) /\ unsent[Peer(e)] \in Seq(Seq(Bytes))
      BY <1>1, HalfTypes
    <3>3. QED
      BY <1>4, <3>1, <3>2, BytesRead DEF Chunks
  <2>2. ASSUME NEW d \in Ends \ {e} PROVE Half(d)' = Half(d)
    BY <1>3, <1>5 DEF Half
  <2>3. QED
    BY <2>1, <2>2
<1>7. Loop' = Loop
  BY <1>1, <1>6, BytesStay
<1>8. NoEmptyData'
  <2>1. Append(arrived[e], c) \in Seq(Chunks)
    BY <1>4, QueueLengths DEF LoopInv, NoEmptyData
  <2>2. QED
    BY <1>3, <1>5, <2>1 DEF LoopInv, NoEmptyData
<1>9. WireInv' /\ (Intact' => Intact)
  <2>1. state["client"] # "new"
    BY OpenMeansConnected DEF PerformRead
  <2>2. QED
    BY <1>3, <2>1 DEF WireInv, Intact
<1>10. QED
  BY <1>3, <1>7, <1>8, <1>9, LoopStays

\* The handler of a read passes on what was read.
LEMMA LoopPassedOn ==
  ASSUME IInv, IInv', LoopInv, NEW e \in Ends, ReadHandler(e)
  PROVE  LoopInv' /\ Len(Loop)' = Len(Loop)
<1>1. Shapes /\ Shapes'
  BY ShapesNow, ShapesNext
<1>2. UNCHANGED <<space, state, wire, broken>>
  BY DEF ReadHandler
<1> DEFINE p == Peer(e)
           h == Head(arrived[e])
<1>3. p \in Ends /\ p # e /\ Peer(p) = e
  BY <1>1, HalfTypes
<1>4. /\ arrived[e] # <<>> /\ arrived'[e] = Tail(arrived[e])
      /\ unsent'[e] = Append(unsent[e], h)
      /\ \A d \in Ends \ {e} : arrived'[d] = arrived[d] /\ unsent'[d] = unsent[d]
  BY <1>1 DEF ReadHandler, Shapes
<1>5. h \in Chunks /\ Tail(arrived[e]) \in Seq(Chunks)
      /\ Append(unsent[e], h) \in Seq(Chunks)
  BY <1>4, QueueLengths DEF LoopInv, NoEmptyData
<1>6. h \in Seq(Bytes)
  BY <1>5 DEF Chunks
<1> HIDE DEF h, p
<1>7. Half(e) = h \o Half(e)'
  <2>1. /\ Half(e) = OnTheWay(arrived[e], wire[e], unsent[p])
        /\ Half(e)' = OnTheWay(Tail(arrived[e]), wire[e], unsent[p])
    BY <1>2, <1>3, <1>4 DEF Half, p
  <2>2. /\ arrived[e] \in Seq(Seq(Bytes)) /\ wire[e] \in Seq(Bytes)
        /\ unsent[p] \in Seq(Seq(Bytes))
    BY <1>1, <1>3, HalfTypes
  <2>3. OnTheWay(arrived[e], wire[e], unsent[p]) =
          Head(arrived[e]) \o OnTheWay(Tail(arrived[e]), wire[e], unsent[p])
    BY <1>4, <2>2, BytesTaken
  <2>4. QED
    BY <2>1, <2>3 DEF h
<1>8. Half(p)' = Half(p) \o h
  <2>1. /\ Half(p) = OnTheWay(arrived[p], wire[p], unsent[e])
        /\ Half(p)' = OnTheWay(arrived[p], wire[p], Append(unsent[e], h))
    BY <1>2, <1>3, <1>4 DEF Half
  <2>2. /\ arrived[p] \in Seq(Seq(Bytes)) /\ wire[p] \in Seq(Bytes)
        /\ unsent[e] \in Seq(Seq(Bytes))
    BY <1>1, <1>3, HalfTypes
  <2>3. OnTheWay(arrived[p], wire[p], Append(unsent[e], h)) =
          OnTheWay(arrived[p], wire[p], unsent[e]) \o h
    BY <1>6, <2>2, BytesJoin
  <2>4. QED
    BY <2>1, <2>3
<1>9. Cyclic(Loop)' /\ Len(Loop)' = Len(Loop)
  BY <1>1, <1>6, <1>7, <1>8, BytesPassedOn DEF LoopInv, p
<1>10. BytesLeft => BytesLeft'
  <2>1. Loop \in Seq(Bytes) /\ Loop' \in Seq(Bytes)
    BY <1>1, LoopType, LoopTypeNext DEF LoopOfBytes
  <2>2. Loop # <<>> => Loop' # <<>>
    BY <1>9, <2>1, EmptySeq
  <2>3. QED
    BY <1>2, <1>9, <2>2 DEF BytesLeft
<1>11. NoEmptyData'
  BY <1>4, <1>5 DEF LoopInv, NoEmptyData
<1>12. WireInv' /\ (Intact' => Intact)
  BY <1>2 DEF LoopInv, WireInv, Intact
<1>13. QED
  BY <1>9, <1>10, <1>11, <1>12 DEF LoopInv

\* A write that fails, which only happens to a connection that is not intact.
LEMMA LoopLoses ==
  ASSUME IInv, IInv', LoopInv, NEW e \in Ends, FailWrite(e)
  PROVE  LoopInv' /\ ~Intact'
<1>1. Shapes /\ Shapes'
  BY ShapesNow, ShapesNext
<1>2. /\ MayFail(e) /\ HandleError(e)
      /\ UNCHANGED <<space, arrived, wire, broken>>
  BY DEF FailWrite
<1> DEFINE p == Peer(e)
           h == Head(unsent[e])
           s == FlattenSeq(arrived[p]) \o wire[p]
           t == FlattenSeq(Tail(unsent[e]))
<1>3. p \in Ends /\ p # e /\ Peer(p) = e
  BY <1>1, HalfTypes
<1>4. /\ unsent[e] # <<>> /\ unsent'[e] = Tail(unsent[e])
      /\ \A d \in Ends \ {e} : unsent'[d] = unsent[d]
  BY <1>1 DEF FailWrite, Shapes
<1>5. h \in Chunks /\ Tail(unsent[e]) \in Seq(Chunks)
  BY <1>4, QueueLengths DEF LoopInv, NoEmptyData
<1> HIDE DEF p
<1>6. /\ s \in Seq(Bytes) /\ t \in Seq(Bytes) /\ h \in Seq(Bytes)
      /\ Half(p) = s \o (h \o t) /\ Half(p)' = s \o t
  <2>1. /\ Half(p) = OnTheWay(arrived[p], wire[p], unsent[e])
        /\ Half(p)' = OnTheWay(arrived[p], wire[p], Tail(unsent[e]))
    BY <1>2, <1>3, <1>4 DEF Half
  <2>2. /\ arrived[p] \in Seq(Seq(Bytes)) /\ wire[p] \in Seq(Bytes)
        /\ unsent[e] \in Seq(Seq(Bytes))
    BY <1>1, <1>3, HalfTypes
  <2>3. /\ s \in Seq(Bytes) /\ t \in Seq(Bytes)
        /\ OnTheWay(arrived[p], wire[p], unsent[e]) = s \o (h \o t)
        /\ OnTheWay(arrived[p], wire[p], Tail(unsent[e])) = s \o t
    <3>1. \A v \in Seq(Bytes) :
            LET z == FlattenSeq(arrived[p]) \o v
            IN  unsent[e] # <<>> =>
                  /\ z \in Seq(Bytes) /\ t \in Seq(Bytes)
                  /\ OnTheWay(arrived[p], v, unsent[e]) = z \o (h \o t)
                  /\ OnTheWay(arrived[p], v, Tail(unsent[e])) = z \o t
      BY <2>2, BytesToWrite
    <3>2. unsent[e] # <<>>
      BY <1>4
    <3>3. QED
      BY <2>2, <3>1, <3>2
  <2>4. QED
    BY <1>5, <2>1, <2>3 DEF Chunks
<1> HIDE DEF s, t, h
<1>7. Half(e)' = Half(e)
  BY <1>2, <1>3, <1>4 DEF Half, p
<1>8. Cyclic(Loop)'
  <2>1. Half(Peer(p))' = Half(Peer(p)) /\ Cyclic(Loop)
    BY <1>3, <1>7 DEF LoopInv
  <2>2. QED
    BY <1>1, <1>3, <1>6, <2>1, BytesDropped
<1>9. NoEmptyData'
  BY <1>2, <1>4, <1>5 DEF LoopInv, NoEmptyData
<1>10. state'["client"] = state["client"] /\ ~Intact'
  BY <1>1, <1>2 DEF MayFail, HandleError, Peer, Intact, Ends, Shapes
<1>11. WireInv'
  BY <1>2, <1>10 DEF LoopInv, WireInv
<1>12. QED
  BY <1>8, <1>9, <1>10, <1>11 DEF LoopInv

\* How many of a bytes there is room for.
LEMMA WhatFits ==
  \A a \in Nat \ {0}, b, c \in Nat : c - b > 0 =>
    LET k == Min({a, c - b})
    IN  k \in 1 .. a /\ (k < a => c < b + a)
<1> SUFFICES ASSUME NEW a \in Nat \ {0}, NEW b \in Nat, NEW c \in Nat, c - b > 0
             PROVE  LET k == Min({a, c - b})
                    IN  k \in 1 .. a /\ (k < a => c < b + a)
  OBVIOUS
<1>1. Min({a, c - b}) = IF a <= c - b THEN a ELSE c - b
  BY MinOfPair
<1>2. QED
  BY <1>1

\* A write that sends as much as there is room for.
LEMMA LoopWritten ==
  ASSUME IInv, IInv', LoopInv, NEW e \in Ends, PerformWrite(e)
  PROVE  LoopInv' /\ Len(Loop') <= Len(Loop)
<1>1. Shapes /\ Shapes'
  BY ShapesNow, ShapesNext
<1>2. state[e] = "open" /\ UNCHANGED <<space, state, arrived, broken>>
  BY DEF PerformWrite
<1>17. PICK capacity \in {s \in Spaces : s >= space} :
          LET room == capacity - Len(wire[Peer(e)])
              data == Head(unsent[e])
          IN  /\ room > 0
              /\ wire' = [wire EXCEPT ![Peer(e)] =
                   @ \o SubSeq(data, 1, Min({Len(data), room}))]
  BY DEF PerformWrite
<1> DEFINE p == Peer(e)
           w == wire[p]
           data == Head(unsent[e])
           n == Min({Len(data), capacity - Len(w)})
           d == SubSeq(data, 1, n)
           r == SubSeq(data, n + 1, Len(data))
           s == FlattenSeq(arrived[p]) \o w
           t == FlattenSeq(Tail(unsent[e]))
<1>3. p \in Ends /\ p # e /\ Peer(p) = e
  BY <1>1, HalfTypes
<1>4. /\ unsent[e] # <<>> /\ unsent'[e] = Tail(unsent[e])
      /\ \A q \in Ends \ {e} : unsent'[q] = unsent[q]
  BY <1>1 DEF PerformWrite, Shapes
<1>5. capacity - Len(w) > 0 /\ wire'[p] = w \o d
      /\ \A q \in Ends \ {p} : wire'[q] = wire[q]
  BY <1>1, <1>3, <1>17 DEF Shapes
<1>6. data \in Chunks /\ Tail(unsent[e]) \in Seq(Chunks)
  BY <1>4, QueueLengths DEF LoopInv, NoEmptyData
<1>7. /\ w \in Seq(Bytes) /\ Len(w) \in Nat
      /\ data \in Seq(Bytes) /\ Len(data) \in Nat \ {0}
      /\ space \in Nat /\ capacity \in Nat /\ capacity >= space
  <2>1. w \in Seq(Bytes) /\ data \in Seq(Bytes) /\ data # <<>>
    BY <1>3, <1>6, PartTypes DEF Chunks
  <2>2. space \in Nat /\ capacity \in Nat /\ capacity >= space
    BY <1>1, <1>17, StreamAssumption DEF Shapes
  <2> HIDE DEF data, w
  <2>3. QED
    BY <2>1, <2>2, QueueLengths
<1>8. n \in 1 .. Len(data) /\ (n < Len(data) => capacity < Len(w) + Len(data))
  <2> DEFINE a == Len(data)
             b == Len(w)
  <2>1. a \in Nat \ {0} /\ b \in Nat /\ capacity - b > 0 /\ capacity \in Nat
    BY <1>5, <1>7
  <2> HIDE DEF a, b
  <2>2. LET k == Min({a, capacity - b})
        IN  k \in 1 .. a /\ (k < a => capacity < b + a)
    BY <2>1, WhatFits
  <2>3. QED
    BY <2>2 DEF a, b
<1> HIDE DEF p, w, data, n
<1>9. /\ d \in Seq(Bytes) /\ r \in Seq(Bytes) /\ data = d \o r /\ Len(d) = n
      /\ n = Len(data) => d = data
  <2>1. d \in Seq(Bytes) /\ r \in Seq(Bytes) /\ Len(d) = n
    BY <1>7, <1>8, Pieces, SubSeqProperties
  <2>2. SubSeq(data, 1, Len(data)) = data
    BY <1>7, SubSeqFull
  <2>3. SubSeq(data, 1, Len(data)) = d \o r
    BY <1>7, <1>8, ConcatAdjacentSubSeq
  <2>4. QED
    BY <2>1, <2>2, <2>3
<1> HIDE DEF d, r
<1>10. /\ s \in Seq(Bytes) /\ t \in Seq(Bytes) /\ Len(w) <= Len(s)
       /\ Half(p) = s \o (data \o t) /\ Half(p)' = (s \o d) \o t
  <2>1. /\ Half(p) = OnTheWay(arrived[p], w, unsent[e])
        /\ Half(p)' = OnTheWay(arrived[p], w \o d, Tail(unsent[e]))
    BY <1>2, <1>3, <1>4, <1>5 DEF Half, w
  <2>2. arrived[p] \in Seq(Seq(Bytes)) /\ unsent[e] \in Seq(Seq(Bytes))
    BY <1>1, <1>3, HalfTypes
  <2>3. /\ s \in Seq(Bytes) /\ t \in Seq(Bytes) /\ Len(w) <= Len(s)
        /\ OnTheWay(arrived[p], w, unsent[e]) = s \o (data \o t)
        /\ OnTheWay(arrived[p], w \o d, Tail(unsent[e])) = (s \o d) \o t
    <3>1. /\ s \in Seq(Bytes) /\ t \in Seq(Bytes) /\ Len(w) <= Len(s)
          /\ OnTheWay(arrived[p], w, unsent[e]) = s \o (data \o t)
      <4>1. \A v \in Seq(Bytes) :
              LET z == FlattenSeq(arrived[p]) \o v
              IN  unsent[e] # <<>> =>
                    /\ z \in Seq(Bytes) /\ t \in Seq(Bytes) /\ Len(v) <= Len(z)
                    /\ OnTheWay(arrived[p], v, unsent[e]) = z \o (data \o t)
        BY <2>2, BytesToWrite DEF data
      <4>2. unsent[e] # <<>>
        BY <1>4
      <4>3. QED
        BY <1>7, <4>1, <4>2
    <3>2. OnTheWay(arrived[p], w \o d, Tail(unsent[e])) = (s \o d) \o t
      <4>1. \A v, b \in Seq(Bytes) : unsent[e] # <<>> =>
              OnTheWay(arrived[p], v \o b, Tail(unsent[e])) =
                ((FlattenSeq(arrived[p]) \o v) \o b) \o t
        BY <2>2, BytesWritten
      <4>2. unsent[e] # <<>>
        BY <1>4
      <4>3. QED
        BY <1>7, <1>9, <4>1, <4>2
    <3>3. QED
      BY <3>1, <3>2
  <2>4. QED
    BY <2>1, <2>3
<1> HIDE DEF s, t
<1>11. Half(e)' = Half(e)
  BY <1>2, <1>3, <1>4, <1>5 DEF Half, p
<1>12. NoEmptyData'
  BY <1>2, <1>4, <1>6 DEF LoopInv, NoEmptyData
<1>13. WireInv' /\ (Intact' => Intact)
  <2>1. state["client"] # "new"
    BY <1>2, OpenMeansConnected
  <2>2. QED
    BY <1>2, <2>1 DEF WireInv, Intact
<1>14. CASE n = Len(data)
  <2>1. (s \o d) \o t = s \o (data \o t)
    <3>1. d = data
      BY <1>9, <1>14
    <3>2. (s \o d) \o t = s \o (d \o t)
      BY <1>9, <1>10, JoinedTwice, Zenon
    <3>3. QED
      BY <3>1, <3>2
  <2>2. \A q \in Ends : Half(q)' = Half(q)
    <3>1. \A q \in Ends : q = e \/ q = p
      BY DEF Ends, Peer, p
    <3>2. Half(p)' = Half(p)
      BY <1>10, <2>1
    <3>3. QED
      BY <1>11, <3>1, <3>2
  <2>3. Loop' = Loop
    BY <1>1, <2>2, BytesStay
  <2>4. Len(Loop') <= Len(Loop)
    BY <1>1, <2>3, LoopType, JoinedBytes DEF LoopOfBytes
  <2>5. QED
    BY <1>2, <1>12, <1>13, <2>3, <2>4, LoopStays
<1>15. CASE n # Len(data)
  <2>1. Cyclic(Loop)'
    <3>1. d \o (r \o t) = data \o t /\ r \o t \in Seq(Bytes)
      <4>1. (d \o r) \o t = d \o (r \o t)
        BY <1>9, <1>10, JoinedTwice, Zenon
      <4>2. r \o t \in Seq(Bytes)
        BY <1>9, <1>10, JoinedBytes
      <4>3. QED
        BY <1>9, <4>1, <4>2
    <3>2. (s \o d) \o (r \o t) = s \o (d \o (r \o t)) /\ s \o d \in Seq(Bytes)
      <4>1. (s \o d) \o (r \o t) = s \o (d \o (r \o t))
        BY <1>9, <1>10, <3>1, JoinedTwice, Zenon
      <4>2. s \o d \in Seq(Bytes)
        BY <1>9, <1>10, JoinedBytes
      <4>3. QED
        BY <4>1, <4>2
    <3>3. Half(p) = (s \o d) \o (r \o t)
      BY <1>10, <3>1, <3>2
    <3>4. Half(Peer(p))' = Half(Peer(p)) /\ Cyclic(Loop)
      BY <1>3, <1>11 DEF LoopInv
    <3>5. QED
      BY <1>1, <1>3, <1>9, <1>10, <3>2, <3>3, <3>4, BytesDropped
  <2>2. Loop' # <<>>
    <3> DEFINE x == (s \o d) \o t
               y == Half(Peer(p))'
    <3>1. Len(Loop') = Len(x) + Len(y) /\ y \in Seq(Bytes) /\ Loop' \in Seq(Bytes)
      BY <1>1, <1>3, <1>10, EitherHalfNext, LoopTypeNext DEF EitherHalf, LoopOfBytes
    <3>2. Len(x) = (Len(s) + Len(d)) + Len(t)
          /\ Len(s) \in Nat /\ Len(d) \in Nat /\ Len(t) \in Nat
      <4>1. s \o d \in Seq(Bytes) /\ Len(s \o d) = Len(s) + Len(d)
        BY <1>9, <1>10, JoinedBytes
      <4>2. Len(x) = Len(s \o d) + Len(t)
        BY <1>10, <4>1, JoinedBytes
      <4>3. QED
        BY <1>9, <1>10, <4>1, <4>2, JoinedBytes
    <3>3. Len(d) > 0
      BY <1>7, <1>8, <1>9
    <3> HIDE DEF x, y
    <3>4. Len(y) \in Nat
      BY <3>1, JoinedBytes
    <3>5. Len(Loop') > 0
      BY <3>1, <3>2, <3>3, <3>4
    <3>6. QED
      BY <3>1, <3>5, EmptySeq
  <2>3. Intact => space < BlockSize
    <3> SUFFICES ASSUME Intact, ~(space < BlockSize) PROVE FALSE
      OBVIOUS
    <3>1. BlockSize \in Nat /\ space >= BlockSize
      BY <1>7, StreamAssumption
    <3>2. Len(Loop) = BlockSize
      BY <3>1 DEF LoopInv, BytesLeft
    <3> DEFINE x == s \o (data \o t)
               y == Half(Peer(p))
    <3>3. Len(Loop) = Len(x) + Len(y) /\ y \in Seq(Bytes)
      BY <1>1, <1>3, <1>10, EitherHalfCorrect DEF EitherHalf
    <3>4. Len(x) = Len(s) + (Len(data) + Len(t))
          /\ Len(s) \in Nat /\ Len(t) \in Nat
      BY <1>7, <1>10, JoinedBytes
    <3> HIDE DEF x, y
    <3>5. Len(y) \in Nat
      BY <3>3, JoinedBytes
    <3>6. space < Len(w) + Len(data)
      BY <1>7, <1>8, <1>15
    <3>7. QED
      BY <1>7, <1>10, <3>1, <3>2, <3>3, <3>4, <3>5, <3>6
  <2>4. Len(Loop') <= Len(Loop)
    <3> DEFINE x == s \o (data \o t)
               u == (s \o d) \o t
               y == Half(Peer(p))
    <3>1. /\ Len(Loop) = Len(x) + Len(y) /\ y \in Seq(Bytes)
          /\ Len(Loop') = Len(u) + Len(y)
      BY <1>1, <1>3, <1>10, <1>11, EitherHalfCorrect, EitherHalfNext DEF EitherHalf
    <3>2. Len(x) = Len(s) + (Len(data) + Len(t))
      BY <1>7, <1>10, JoinedBytes
    <3>4. Len(u) = (Len(s) + Len(d)) + Len(t)
      <4>1. s \o d \in Seq(Bytes) /\ Len(s \o d) = Len(s) + Len(d)
        BY <1>9, <1>10, JoinedBytes
      <4>2. Len(u) = Len(s \o d) + Len(t)
        BY <1>10, <4>1, JoinedBytes
      <4> QED
        BY <4>1, <4>2
    <3>5. Len(s) \in Nat /\ Len(t) \in Nat /\ Len(d) \in Nat
      BY <1>9, <1>10, JoinedBytes
    <3> HIDE DEF x, u, y
    <3>3. Len(y) \in Nat
      BY <3>1, JoinedBytes
    <3> QED
      BY <1>7, <1>8, <1>9, <3>1, <3>2, <3>3, <3>4, <3>5
  <2>5. Intact' => BytesLeft'
    <3>1. space' = space /\ space \in Nat /\ BlockSize \in Nat
      BY <1>2, <1>7, StreamAssumption
    <3>2. Intact' => ~(space' >= BlockSize)
      BY <1>13, <2>3, <3>1
    <3>3. Intact' => Len(Loop') <= BlockSize
      <4>1. Loop \in Seq(Bytes) /\ Loop' \in Seq(Bytes)
        BY <1>1, LoopType, LoopTypeNext DEF LoopOfBytes
      <4>2. Len(Loop) \in Nat /\ Len(Loop') \in Nat
        BY <4>1, JoinedBytes
      <4>3. Intact' => Len(Loop) <= BlockSize
        BY <1>13 DEF LoopInv, BytesLeft
      <4> QED
        BY <2>4, <3>1, <4>2, <4>3
    <3>4. QED
      BY <2>2, <3>2, <3>3 DEF BytesLeft
  <2>6. QED
    BY <1>12, <1>13, <2>1, <2>4, <2>5 DEF LoopInv
<1>16. QED
  BY <1>14, <1>15

\* The steps that leave the data where they are.
LEMMA LoopLeftAlone ==
  ASSUME IInv, IInv', LoopInv,
         \/ Refused \/ Accept \/ Break \/ Stop \/ UNCHANGED vars
         \/ \E e \in Ends : WriteHandler(e) \/ FailRead(e)
  PROVE  LoopInv' /\ Loop' = Loop /\ (Intact' => Intact)
<1>1. UNCHANGED <<space, arrived, unsent, wire>>
  BY DEF Refused, Accept, Break, Stop, WriteHandler, FailRead, vars, bufferVars
<1>2. (Intact' => Intact) /\ ((state["client"] = "new")' => state["client"] = "new")
  <2>1. Shapes
    BY ShapesNow
  <2>2. CASE Refused
    BY <2>1, <2>2 DEF Refused, Intact, Shapes, Ends
  <2>3. CASE Accept
    BY <2>1, <2>3 DEF Accept, Intact, Shapes, Ends
  <2>4. CASE Break
    BY <2>4 DEF Break, Intact
  <2>5. CASE Stop
    BY <2>1, <2>5 DEF Stop, Close, Intact, Shapes, Ends
  <2>6. CASE UNCHANGED vars
    BY <2>6 DEF vars, Intact
  <2>7. ASSUME NEW e \in Ends, WriteHandler(e)
        PROVE  /\ Intact' => Intact
               /\ (state["client"] = "new")' => state["client"] = "new"
    BY <2>7 DEF WriteHandler, Intact
  <2>8. ASSUME NEW e \in Ends, FailRead(e)
        PROVE  /\ Intact' => Intact
               /\ (state["client"] = "new")' => state["client"] = "new"
    BY <2>1, <2>8 DEF FailRead, HandleError, Intact, Shapes, Ends
  <2>9. QED
    BY <2>2, <2>3, <2>4, <2>5, <2>6, <2>7, <2>8
<1>3. QED
  BY <1>1, <1>2, LoopUntouched

\* The client's block in order.
LEMMA BlockInOrder ==
  LET b == [i \in Bytes |-> i]
  IN  b \in Chunks /\ Len(b) = BlockSize /\ Cyclic(b)
<1> DEFINE b == [i \in Bytes |-> i]
<1>1. BlockSize \in Nat \ {0} /\ DOMAIN b = 1 .. BlockSize
  BY StreamAssumption DEF Bytes
<1>2. b \in Seq(Bytes) /\ Len(b) = BlockSize
  <2>1. \A i \in 1 .. BlockSize : b[i] \in Bytes
    BY DEF Bytes
  <2>2. b \in Seq(Bytes)
    BY <1>1, <2>1, IsASeq DEF Bytes
  <2>3. QED
    BY <1>1, <2>2, LenProperties
<1>3. b # <<>>
  BY <1>1, <1>2, EmptySeq
<1>4. Cyclic(b)
  <2>1. \A i, j \in 1 .. BlockSize : i < j => b[i] < b[j]
    BY <1>1 DEF Bytes
  <2>2. \A i, j \in 1 .. BlockSize : ~(i <= 0)
    BY <1>1
  <2> HIDE DEF b
  <2>3. 0 \in 0 .. Len(b)
    BY <1>1, <1>2
  <2>4. QED
    BY <1>2, <2>1, <2>2, <2>3 DEF Cyclic
<1>5. QED
  BY <1>2, <1>3, <1>4 DEF Chunks

\* The empty sequences.
LEMMA NothingOnTheWay ==
  /\ <<>> \in Seq(Bytes) /\ <<>> \in Seq(Seq(Bytes)) /\ <<>> \in Seq(Chunks)
  /\ OnTheWay(<<>>, <<>>, <<>>) = <<>>
  /\ Cyclic(<<>>)
<1>1. <<>> \in Seq(Bytes) /\ <<>> \in Seq(Seq(Bytes)) /\ <<>> \in Seq(Chunks)
  OBVIOUS
<1>2. FlattenSeq(<<>>) = <<>>
  BY DEF FlattenSeq
<1>3. OnTheWay(<<>>, <<>>, <<>>) = <<>>
  BY <1>2 DEF OnTheWay
<1>4. Cyclic(<<>>)
  <2>1. Len(<<>>) = 0 /\ 1 .. 0 = {} /\ 0 \in 0 .. 0
    BY EmptySeq
  <2>2. QED
    BY <2>1 DEF Cyclic
<1>5. QED
  BY <1>1, <1>3, <1>4

LEMMA EmptyIsNeutral ==
  \A s \in Seq(Bytes) : <<>> \o s = s
  BY ConcatEmptySeq

\* The first block is sent.
LEMMA LoopBegins ==
  ASSUME IInv, IInv', LoopInv, Connected
  PROVE  LoopInv'
<1> DEFINE b == [i \in Bytes |-> i]
<1>1. Shapes /\ Shapes'
  BY ShapesNow, ShapesNext
<1>2. b \in Chunks /\ b \in Seq(Bytes) /\ Len(b) = BlockSize /\ Cyclic(b)
  BY BlockInOrder DEF Chunks
<1>3. /\ state["client"] = "new" /\ unsent' = [unsent EXCEPT !["client"] = <<b>>]
      /\ state' = [state EXCEPT !["client"] = "open"]
      /\ UNCHANGED <<space, arrived, wire, broken>>
  BY DEF Connected
<1>4. \A e \in Ends : arrived[e] = <<>> /\ unsent[e] = <<>> /\ wire[e] = <<>>
  <2>1. state["server"] = "new"
    BY <1>1, <1>3 DEF IInv, CloseInv, Shapes, Ends
  <2>2. \A e \in Ends : state[e] = "new"
    BY <1>3, <2>1 DEF Ends
  <2>3. QED
    BY <1>3, <2>2, NothingBeforeStart DEF LoopInv, WireInv
<1> HIDE DEF b
<1>5. /\ unsent'["client"] = <<b>> /\ unsent'["server"] = <<>>
      /\ arrived' = arrived /\ wire' = wire
  BY <1>1, <1>3, <1>4 DEF Shapes, Ends
<1>6. <<b>> = Append(<<>>, b)
  OBVIOUS
<1>7. Half("client")' = <<>> /\ Half("server")' = b
  <2>1. Half("client")' = OnTheWay(<<>>, <<>>, <<>>)
    BY <1>4, <1>5 DEF Half, Peer, Ends
  <2>2. Half("server")' = OnTheWay(<<>>, <<>>, Append(<<>>, b))
    BY <1>4, <1>5, <1>6 DEF Half, Peer, Ends
  <2>3. OnTheWay(<<>>, <<>>, Append(<<>>, b)) = OnTheWay(<<>>, <<>>, <<>>) \o b
    BY <1>2, NothingOnTheWay, BytesJoin
  <2>4. QED
    BY <1>2, <2>1, <2>2, <2>3, NothingOnTheWay, EmptyIsNeutral
<1>8. Loop' = b
  <2>1. Loop' = Half("client")' \o Half("server")'
    BY <1>1, LoopHasHalvesNext DEF LoopOfHalves
  <2>2. QED
    BY <1>2, <1>7, <2>1, EmptyIsNeutral
<1>9. Cyclic(Loop)' /\ BytesLeft'
  <2>1. b # <<>>
    BY <1>2 DEF Chunks
  <2>2. QED
    BY <1>2, <1>8, <2>1, StreamAssumption DEF BytesLeft
<1>10. NoEmptyData'
  <2>1. Append(<<>>, b) \in Seq(Chunks)
    BY <1>2, NothingOnTheWay, QueueLengths
  <2>2. QED
    BY <1>4, <1>5, <1>6, <2>1, NothingOnTheWay DEF NoEmptyData, Ends
<1>11. WireInv'
  BY <1>4, <1>5 DEF WireInv
<1>12. QED
  BY <1>9, <1>10, <1>11 DEF LoopInv

LEMMA InitLoopInv ==
  Init => LoopInv
<1> SUFFICES ASSUME Init PROVE LoopInv
  OBVIOUS
<1>1. \A e \in Ends : arrived[e] = <<>> /\ unsent[e] = <<>> /\ wire[e] = <<>>
  BY DEF Init
<1>2. IInv
  BY InitIInv
<1>3. Loop = <<>>
  <2>1. Half("client") = OnTheWay(<<>>, <<>>, <<>>)
        /\ Half("server") = OnTheWay(<<>>, <<>>, <<>>)
    BY <1>1 DEF Half, Peer, Ends
  <2>2. Loop = Half("client") \o Half("server")
    BY <1>2, ShapesNow, LoopHasHalves DEF LoopOfHalves
  <2>3. QED
    BY <2>1, <2>2, NothingOnTheWay, EmptyIsNeutral
<1>4. ~Intact
  BY DEF Init, Intact, Ends
<1>5. NoEmptyData /\ WireInv
  BY <1>1, NothingOnTheWay DEF NoEmptyData, WireInv
<1>6. QED
  BY <1>3, <1>4, <1>5, NothingOnTheWay DEF LoopInv

LEMMA NextLoopInv ==
  IInv /\ IInv' /\ LoopInv /\ [Next]_vars => LoopInv'
<1> SUFFICES ASSUME IInv, IInv', LoopInv, [Next]_vars PROVE LoopInv'
  OBVIOUS
<1>1. CASE Connected
  BY <1>1, LoopBegins
<1>2. CASE Refused \/ Accept \/ Break \/ Stop \/ UNCHANGED vars
  BY <1>2, LoopLeftAlone
<1>3. ASSUME NEW e \in Ends, EndStep(e)
      PROVE  LoopInv'
  <2>1. CASE PerformRead(e)
    BY <2>1, LoopReads
  <2>2. CASE ReadHandler(e)
    BY <2>2, LoopPassedOn
  <2>3. CASE PerformWrite(e)
    BY <2>3, LoopWritten
  <2>4. CASE FailWrite(e)
    BY <2>4, LoopLoses
  <2>5. CASE WriteHandler(e) \/ FailRead(e)
    BY <2>5, LoopLeftAlone
  <2>6. QED
    BY <1>3, <2>1, <2>2, <2>3, <2>4, <2>5 DEF EndStep
<1>4. QED
  BY <1>1, <1>2, <1>3 DEF Next, Terminated

\* What goes round keeps its order, and while the connection is made and nothing
\* has gone wrong with it something does.
THEOREM LoopInvariance == Spec => []LoopInv
  BY Invariance, InitLoopInv, NextLoopInv, PTL DEF Spec

\* client2.cpp and server2.cpp return the bytes of the block in their order, none
\* twice, whatever number of reads and writes are outstanding at once.
THEOREM BytesStayInOrder == Spec => []InOrder
<1>1. IInv /\ LoopInv => InOrder
  <2> SUFFICES ASSUME IInv, LoopInv PROVE InOrder
    OBVIOUS
  <2>1. Loop \in Seq(Bytes) /\ Cyclic(Loop)
    BY ShapesNow, LoopType DEF LoopInv, LoopOfBytes
  <2>2. Bytes \subseteq Int
    BY StreamAssumption DEF Bytes
  <2> DEFINE L == Loop
  <2>3. LET Next1(i) == IF i = Len(L) THEN 1 ELSE i + 1
            falls    == {i \in DOMAIN L : L[Next1(i)] <= L[i]}
        IN  Cardinality(falls) <= 1
    <3> HIDE DEF L
    <3>1. L \in Seq(Bytes) /\ Cyclic(L)
      BY <2>1 DEF L
    <3>2. QED
      BY <2>2, <3>1, CyclicFalls
  <2>4. QED
    BY <2>3 DEF InOrder
<1>2. QED
  BY <1>1, Invariance, LoopInvariance, PTL

\* As long as the connection is healthy something goes round, however often either
\* end writes short and whatever room its writes find, and the whole block if there
\* always is room for it.
THEOREM EchoAlwaysSurvives == Spec => []EchoSurvives
<1>1. LoopInv => EchoSurvives
  <2> SUFFICES ASSUME LoopInv, \A e \in Ends : Healthy(e)
               PROVE  Loop # <<>> /\ (space >= BlockSize => Len(Loop) = BlockSize)
    BY DEF EchoSurvives
  <2>1. Intact
    BY DEF Intact, Healthy, MayFail, Ends
  <2>2. QED
    BY <2>1 DEF LoopInv, BytesLeft
<1>2. QED
  BY <1>1, LoopInvariance, PTL

-----------------------------------------------------------------------------
(* The two ends never wait for each other: both can only be out of buffers  *)
(* with both directions full if the block is longer than what the buffers   *)
(* and the sockets then hold at least, a byte in each buffer.               *)

\* Nobody refuses a session of the server.
ServerInv == state["server"] # "refused"

LEMMA NextServerInv ==
  IInv /\ ServerInv /\ [Next]_vars => ServerInv'
  BY DEF IInv, TypeOK, ServerInv, Next, Connected, Refused, Accept, EndStep,
     PerformRead, ReadHandler, PerformWrite, WriteHandler, FailRead, FailWrite,
     HandleError, Break, Stop, Close, Terminated, vars, Ends

\* It holds in every behaviour.
THEOREM ServerInvariance == Spec => []ServerInv
<1>1. Init => ServerInv
  BY DEF Init, ServerInv, Ends
<1>2. QED
  BY <1>1, NextServerInv, Invariance, PTL DEF Spec

\* Each of the joined sequences that are not empty adds a byte.
LEMMA JoinsGrow ==
  ASSUME NEW B, NEW s \in Seq(Seq(B) \ {<<>>}), NEW f, Joins(f, s, Len(s))
  PROVE  \A i \in 1 .. Len(s) : f[i] \in Seq(B) /\ Len(f[i]) >= i
<1>1. /\ Len(s) \in Nat
      /\ \A i \in 1 .. Len(s) : s[i] \in Seq(B) /\ Len(s[i]) \in Nat \ {0}
  <2>1. Len(s) \in Nat /\ \A i \in 1 .. Len(s) : s[i] \in Seq(B) \ {<<>>}
    BY LenProperties
  <2>2. \A q \in Seq(B) \ {<<>>} : Len(q) \in Nat \ {0}
    BY EmptySeq, LenProperties
  <2> QED
    BY <2>1, <2>2
<1>2. \A i \in 1 .. Len(s) : f[i] = IF i = 1 THEN s[i] ELSE f[i - 1] \o s[i]
  BY DEF Joins
<1> DEFINE Grown(k) == f[k] \in Seq(B) /\ Len(f[k]) >= k
           T == {k \in Nat : k \in 1 .. Len(s) => Grown(k)}
<1>3. 0 \in T
  OBVIOUS
<1>4. ASSUME NEW k \in Nat, k \in T, k + 1 \in 1 .. Len(s)
      PROVE  Grown(k + 1)
  <2>1. CASE k = 0
    BY <1>1, <1>2, <1>4, <2>1
  <2>2. CASE k # 0
    <3>1. k \in 1 .. Len(s) /\ f[k] \in Seq(B) /\ Len(f[k]) >= k
      BY <1>1, <1>4, <2>2
    <3>2. f[k + 1] = f[k] \o s[k + 1]
      <4>1. k + 1 # 1 /\ (k + 1) - 1 = k
        BY <2>2
      <4> QED
        BY <1>2, <1>4, <4>1
    <3>3. s[k + 1] \in Seq(B) /\ Len(s[k + 1]) \in Nat \ {0}
      BY <1>1, <1>4
    <3>4. f[k + 1] \in Seq(B) /\ Len(f[k + 1]) = Len(f[k]) + Len(s[k + 1])
      BY <3>1, <3>2, <3>3, ConcatProperties
    <3>5. Len(f[k]) \in Nat
      BY <3>1, LenProperties
    <3>6. Len(f[k + 1]) >= k + 1
      <4> DEFINE a == Len(f[k])
                 b == Len(s[k + 1])
                 c == Len(f[k + 1])
      <4>1. a \in Nat /\ b \in Nat \ {0} /\ c = a + b /\ a >= k
        BY <3>1, <3>3, <3>4, <3>5
      <4> HIDE DEF a, b, c
      <4>2. c >= k + 1
        BY <4>1
      <4> QED
        BY <4>2 DEF c
    <3> QED
      BY <3>4, <3>6
  <2> QED
    BY <2>1, <2>2
<1>5. Nat \subseteq T
  <2>1. ASSUME NEW k \in Nat, k \in T PROVE k + 1 \in T
    <3> HIDE DEF Grown
    <3>1. k + 1 \in 1 .. Len(s) => Grown(k + 1)
      BY <1>4, <2>1
    <3> QED
      BY <3>1
  <2> HIDE DEF T
  <2> QED
    BY <1>3, <2>1, AllNumbers
<1>6. \A i \in 1 .. Len(s) : i \in Nat
  BY <1>1
<1> QED
  BY <1>5, <1>6

\* Buffers with data hold at least a byte each.
LEMMA FlattenGrows ==
  ASSUME NEW B, NEW s \in Seq(Seq(B) \ {<<>>})
  PROVE  Len(FlattenSeq(s)) >= Len(s)
<1>1. s \in Seq(Seq(B)) /\ Len(s) \in Nat /\ Len(<<>>) = 0
  BY LenProperties, EmptySeq
<1>2. CASE s = <<>>
  BY <1>1, <1>2 DEF FlattenSeq
<1>3. CASE s # <<>>
  <2>1. PICK f : Joins(f, s, Len(s)) /\ FlattenSeq(s) = f[Len(s)]
    BY <1>1, <1>3, FlattenDef
  <2>2. Len(s) \in 1 .. Len(s)
    BY <1>1, <1>3, EmptySeq
  <2> QED
    BY <2>1, <2>2, JoinsGrow
<1> QED
  BY <1>2, <1>3

\* What end e can do: a read with something to read, a write with room, a
\* handler that is queued, an operation that is told of a closed or broken
\* connection.
MayStep(e) ==
  \/ state[e] = "open" /\ waiting[e] > 0 /\ wire[e] # <<>>
  \/ state[e] = "open" /\ unsent[e] # <<>> /\ space > Len(wire[Peer(e)])
  \/ arrived[e] # <<>> \/ sent[e] > 0
  \/ MayFail(e) /\ (waiting[e] > 0 \/ unsent[e] # <<>>)

\* client2.cpp and server2.cpp never wait for each other if the block is shorter
\* than what would fill both directions and all the buffers with a byte in each:
\* once the client is connected and accepted, one of the ends can do something,
\* until the connection has failed or been closed and both have ended.  This is
\* what EchoGoesOn and StopEndsSession need besides fairness.  The case to exclude
\* is that both directions are full and all the buffers of both ends are with
\* writes, so that nobody reads; with a block of that length it can happen.
THEOREM StreamNeverStuck ==
  Spec => [](/\ state["client"] \in {"open", "closed"} /\ state["server"] # "new"
             /\ BlockSize < 2 * (Buffers + space)
             => \/ \E e \in Ends : MayStep(e)
                \/ (wantClose \/ broken) /\ \A e \in Ends : Idle(e))
<1> DEFINE Stuck == /\ state["client"] \in {"open", "closed"} /\ state["server"] # "new"
                    /\ \A e \in Ends : ~MayStep(e)
<1>1. ASSUME IInv, Stuck, ~Intact
      PROVE  (wantClose \/ broken) /\ \A e \in Ends : Idle(e)
  <2>1. state \in [Ends -> States] /\ "client" \in Ends /\ "server" \in Ends
    BY <1>1 DEF IInv, TypeOK, Ends
  <2>2. \A e \in Ends : MayFail(e)
    BY <1>1, <2>1 DEF Intact, MayFail, Peer, Ends
  <2>3. wantClose \/ broken
    BY <1>1, <2>1 DEF Intact, IInv, CloseInv
  <2>4. ASSUME NEW e \in Ends PROVE Idle(e)
    BY <1>1, <2>2, PartTypes DEF MayStep, Idle
  <2> QED
    BY <2>3, <2>4
<1>2. ASSUME IInv, LoopInv, ServerInv, Stuck, Intact,
             BlockSize < 2 * (Buffers + space)
      PROVE  FALSE
  <2>1. Shapes /\ space \in Nat \ {0} /\ Buffers \in Nat \ {0} /\ BlockSize \in Nat
    BY <1>2, ShapesNow, StreamAssumption DEF Shapes
  <2>2. \A e \in Ends : state[e] = "open"
    BY <1>2, <2>1 DEF Intact, ServerInv, Shapes, States, Ends
  <2>3. \A e \in Ends : Healthy(e) /\ Peer(e) \in Ends /\ Peer(Peer(e)) = e
    BY <1>2, <2>2 DEF Intact, Healthy, MayFail, Peer, Ends
  <2>4. \A e \in Ends : /\ arrived[e] = <<>> /\ sent[e] = 0
                        /\ Len(wire[e]) \in Nat /\ Len(unsent[e]) \in Nat
                        /\ wire[e] = <<>> <=> Len(wire[e]) = 0
                        /\ unsent[e] = <<>> <=> Len(unsent[e]) = 0
    BY <1>2, PartTypes, QueueLengths DEF MayStep
  <2>5. ASSUME NEW e \in Ends
        PROVE  /\ wire[e] # <<>> => waiting[e] = 0
               /\ unsent[e] # <<>> => Len(wire[Peer(e)]) >= space
    BY <1>2, <2>1, <2>2, <2>3, <2>4, PartTypes DEF MayStep
  <2>6. ASSUME NEW e \in Ends, wire[e] # <<>>
        PROVE  /\ Len(unsent[e]) = Buffers
               /\ Len(wire[Peer(e)]) >= space /\ wire[Peer(e)] # <<>>
    <3>1. Len(unsent[e]) + sent[e] = Buffers
      BY <1>2, <2>3, <2>4, <2>5, <2>6, NoReadMeansWrites DEF ReadingResumes
    <3>2. Len(unsent[e]) = Buffers /\ unsent[e] # <<>>
      BY <2>1, <2>4, <3>1
    <3>3. Len(wire[Peer(e)]) >= space
      BY <2>5, <3>2
    <3>4. Peer(e) \in Ends
      BY <2>3
    <3> QED
      BY <2>1, <2>4, <3>2, <3>3, <3>4
  <2>7. ASSUME NEW e \in Ends
        PROVE  /\ Len(Half(e)) \in Nat
               /\ Len(Half(e)) >= Len(wire[e]) + Len(unsent[Peer(e)])
    <3> DEFINE a == FlattenSeq(arrived[e])
               w == wire[e]
               u == FlattenSeq(unsent[Peer(e)])
    <3>1. a \in Seq(Bytes) /\ w \in Seq(Bytes) /\ u \in Seq(Bytes) /\ Half(e) = a \o w \o u
      BY <2>1, <2>3, HalfTypes DEF Half, OnTheWay
    <3> HIDE DEF a, w, u
    <3>2. /\ a \o w \in Seq(Bytes) /\ Len(a \o w) = Len(a) + Len(w)
          /\ Len(a) \in Nat /\ Len(w) \in Nat /\ Len(u) \in Nat
      BY <3>1, JoinedBytes
    <3>3. Half(e) \in Seq(Bytes) /\ Len(Half(e)) = Len(a \o w) + Len(u)
      BY <3>1, <3>2, JoinedBytes
    <3>4. Len(Half(e)) \in Nat /\ Len(Half(e)) >= Len(w) + Len(u)
      BY <3>2, <3>3
    <3>5. Len(u) >= Len(unsent[Peer(e)])
      <4>1. unsent[Peer(e)] \in Seq(Seq(Bytes) \ {<<>>})
        BY <1>2, <2>3 DEF LoopInv, NoEmptyData, Chunks
      <4> QED
        BY <4>1, FlattenGrows DEF u
    <3>6. Len(unsent[Peer(e)]) \in Nat
      BY <2>3, <2>4
    <3>7. Len(Half(e)) >= Len(w) + Len(unsent[Peer(e)])
      BY <3>2, <3>4, <3>5, <3>6
    <3> QED
      BY <3>4, <3>7 DEF w
  <2>8. \A e \in Ends : Len(Loop) = Len(Half(e)) + Len(Half(Peer(e)))
    BY <2>1, EitherHalfCorrect DEF EitherHalf
  <2>9. ASSUME NEW e \in Ends, wire[e] # <<>> PROVE FALSE
    <3>1. Peer(e) \in Ends /\ Peer(Peer(e)) = e
      BY <2>3
    <3>2. Len(unsent[e]) = Buffers /\ Len(wire[Peer(e)]) >= space /\ wire[Peer(e)] # <<>>
      BY <2>6, <2>9
    <3>3. Len(unsent[Peer(e)]) = Buffers /\ Len(wire[e]) >= space
      BY <2>6, <3>1, <3>2
    <3>4. /\ Len(Half(e)) \in Nat /\ Len(Half(Peer(e))) \in Nat
          /\ Len(Half(e)) >= Len(wire[e]) + Buffers
          /\ Len(Half(Peer(e))) >= Len(wire[Peer(e)]) + Buffers
      BY <2>7, <3>1, <3>2, <3>3
    <3>5. Len(wire[e]) \in Nat /\ Len(wire[Peer(e)]) \in Nat
      BY <2>4, <3>1
    <3>6. Len(Loop) = Len(Half(e)) + Len(Half(Peer(e))) /\ Len(Loop) <= BlockSize
      BY <1>2, <2>8 DEF LoopInv, BytesLeft
    <3>7. Len(Loop) >= 2 * (Buffers + space)
      BY <2>1, <3>2, <3>3, <3>4, <3>5, <3>6
    <3> QED
      BY <1>2, <2>1, <3>4, <3>6, <3>7
  <2>10. \A e \in Ends : unsent[e] = <<>> /\ wire[e] = <<>> /\ arrived[e] = <<>>
    <3>1. ASSUME NEW e \in Ends PROVE unsent[e] = <<>>
      <4>1. Len(wire[Peer(e)]) = 0
        BY <2>3, <2>4, <2>9
      <4> QED
        BY <2>1, <2>5, <4>1
    <3> QED
      BY <2>4, <2>9, <3>1
  <2>11. Half("client") = <<>> /\ Half("server") = <<>>
    <3>1. Half("client") = OnTheWay(<<>>, <<>>, <<>>)
          /\ Half("server") = OnTheWay(<<>>, <<>>, <<>>)
      BY <2>10 DEF Half, Peer, Ends
    <3> QED
      BY <3>1, NothingOnTheWay
  <2>12. Loop = <<>>
    BY <2>1, <2>11, LoopHasHalves, NothingOnTheWay, EmptyIsNeutral DEF LoopOfHalves
  <2> QED
    BY <1>2, <2>12 DEF LoopInv, BytesLeft
<1>3. IInv /\ LoopInv /\ ServerInv =>
        (/\ state["client"] \in {"open", "closed"} /\ state["server"] # "new"
         /\ BlockSize < 2 * (Buffers + space)
         => \/ \E e \in Ends : MayStep(e)
            \/ (wantClose \/ broken) /\ \A e \in Ends : Idle(e))
  BY <1>1, <1>2
<1>4. QED
  BY <1>3, Invariance, LoopInvariance, ServerInvariance, PTL
=============================================================================
