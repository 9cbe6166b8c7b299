------------------------- MODULE EpollReactor_proofs -------------------------
(***************************************************************************)
(* Proofs about EpollReactor: the work count, the queues and the edges are  *)
(* right for any numbers of sockets, descriptor states and operations.      *)
(***************************************************************************)
EXTENDS EpollReactor, SequenceTheorems, FiniteSetTheorems, FunctionTheorems, TLAPS

-----------------------------------------------------------------------------
(* What the proofs need to know of queues: the set of elements of a         *)
(* sequence (ToSet) and sequences without repetition (NoRepeat), when they  *)
(* are joined, cut, begun or continued.                                     *)

NoRepeat(s) == \A i, j \in 1 .. Len(s) : s[i] = s[j] => i = j

\* The elements of a sequence are those at its indices.
LEMMA ToSetDef ==
  ASSUME NEW S, NEW s \in Seq(S)
  PROVE  /\ ToSet(s) = {s[i] : i \in 1 .. Len(s)}
         /\ ToSet(s) \subseteq S
  BY DEF ToSet

\* The empty sequence has no elements and repeats none.
LEMMA ToSetEmpty ==
  ToSet(<<>>) = {} /\ NoRepeat(<<>>)
  BY DEF ToSet, NoRepeat

\* A concatenation has the elements of both parts.
LEMMA ToSetConcat ==
  ASSUME NEW S, NEW s \in Seq(S), NEW t \in Seq(S)
  PROVE  /\ s \o t \in Seq(S)
         /\ ToSet(s \o t) = ToSet(s) \cup ToSet(t)
         /\ NoRepeat(s) /\ NoRepeat(t) /\ ToSet(s) \cap ToSet(t) = {}
              => NoRepeat(s \o t)
<1> DEFINE st == s \o t
<1>1. /\ st \in Seq(S)
      /\ Len(st) = Len(s) + Len(t)
      /\ \A i \in 1 .. Len(s) : st[i] = s[i]
      /\ \A i \in 1 .. Len(t) : st[i + Len(s)] = t[i]
      /\ \A i \in 1 .. Len(st) : st[i] = IF i <= Len(s) THEN s[i] ELSE t[i - Len(s)]
  BY ConcatProperties, LenProperties
<1>2. Len(s) \in Nat /\ Len(t) \in Nat
  BY LenProperties
<1>3. /\ ToSet(s) = {s[i] : i \in 1 .. Len(s)}
      /\ ToSet(t) = {t[i] : i \in 1 .. Len(t)}
      /\ ToSet(st) = {st[i] : i \in 1 .. Len(st)}
  BY <1>1, ToSetDef
<1> HIDE DEF st
<1>4. ToSet(st) \subseteq ToSet(s) \cup ToSet(t)
  BY <1>1, <1>2, <1>3
<1>5. ToSet(s) \subseteq ToSet(st)
  BY <1>1, <1>2, <1>3
<1>6. ToSet(t) \subseteq ToSet(st)
  <2> SUFFICES ASSUME NEW i \in 1 .. Len(t) PROVE t[i] \in ToSet(st)
    BY <1>3
  <2>1. i + Len(s) \in 1 .. Len(st) /\ st[i + Len(s)] = t[i]
    BY <1>1, <1>2
  <2>2. QED
    BY <2>1, <1>3
<1>7. ASSUME NoRepeat(s), NoRepeat(t), ToSet(s) \cap ToSet(t) = {}
      PROVE  NoRepeat(st)
  <2> SUFFICES ASSUME NEW i \in 1 .. Len(st), NEW j \in 1 .. Len(st),
                      st[i] = st[j]
               PROVE  i = j
    BY DEF NoRepeat
  <2>1. CASE i <= Len(s) /\ j <= Len(s)
    BY <2>1, <1>1, <1>2, <1>7 DEF NoRepeat
  <2>2. CASE i > Len(s) /\ j > Len(s)
    <3>1. /\ i - Len(s) \in 1 .. Len(t) /\ st[i] = t[i - Len(s)]
          /\ j - Len(s) \in 1 .. Len(t) /\ st[j] = t[j - Len(s)]
      BY <2>2, <1>1, <1>2
    <3>2. i - Len(s) = j - Len(s)
      BY <3>1, <1>7 DEF NoRepeat
    <3>3. QED
      BY <3>2, <1>2
  <2>3. ASSUME NEW k \in 1 .. Len(st), NEW l \in 1 .. Len(st),
               k <= Len(s), l > Len(s), st[k] = st[l]
        PROVE  FALSE
    <3>1. st[k] \in ToSet(s)
      BY <2>3, <1>1, <1>2, <1>3
    <3>2. l - Len(s) \in 1 .. Len(t) /\ st[l] = t[l - Len(s)]
      BY <2>3, <1>1, <1>2
    <3>3. st[l] \in ToSet(t)
      BY <3>2, <1>3
    <3>4. QED
      BY <3>1, <3>3, <2>3, <1>7
  <2>4. CASE i <= Len(s) /\ j > Len(s)
    BY <2>3, <2>4
  <2>5. CASE i > Len(s) /\ j <= Len(s)
    BY <2>3, <2>5
  <2>6. QED
    BY <2>1, <2>2, <2>4, <2>5, <1>1, <1>2
<1>8. QED
  BY <1>1, <1>4, <1>5, <1>6, <1>7 DEF st

\* A sequence of one element.
LEMMA ToSetSingle ==
  ASSUME NEW S, NEW e \in S
  PROVE  <<e>> \in Seq(S) /\ ToSet(<<e>>) = {e} /\ NoRepeat(<<e>>)
  BY DEF ToSet, NoRepeat

\* Append adds its element.
LEMMA ToSetAppend ==
  ASSUME NEW S, NEW s \in Seq(S), NEW e \in S
  PROVE  /\ Append(s, e) \in Seq(S)
         /\ Append(s, e) # <<>>
         /\ Len(Append(s, e)) = Len(s) + 1
         /\ ToSet(Append(s, e)) = ToSet(s) \cup {e}
         /\ NoRepeat(s) /\ e \notin ToSet(s) => NoRepeat(Append(s, e))
<1>1. Append(s, e) = s \o <<e>>
  BY AppendIsConcat
<1> DEFINE t == <<e>>
<1>2. t \in Seq(S) /\ ToSet(t) = {e} /\ NoRepeat(t)
  BY ToSetSingle
<1> HIDE DEF t
<1>3. /\ s \o t \in Seq(S)
      /\ ToSet(s \o t) = ToSet(s) \cup {e}
      /\ NoRepeat(s) /\ ToSet(s) \cap {e} = {} => NoRepeat(s \o t)
  BY <1>2, ToSetConcat
<1>4. Append(s, e) # <<>> /\ Len(Append(s, e)) = Len(s) + 1
  BY AppendProperties
<1>5. QED
  BY <1>1, <1>3, <1>4, Zenon DEF t

\* Taking the head off a sequence without repetition leaves the other elements.
LEMMA ToSetTail ==
  ASSUME NEW S, NEW s \in Seq(S), s # <<>>
  PROVE  /\ Head(s) \in S
         /\ Tail(s) \in Seq(S)
         /\ ToSet(s) = {Head(s)} \cup ToSet(Tail(s))
         /\ NoRepeat(s) => NoRepeat(Tail(s)) /\ Head(s) \notin ToSet(Tail(s))
<1>1. /\ Head(s) \in S /\ Head(s) = s[1]
      /\ Tail(s) \in Seq(S)
      /\ Len(Tail(s)) = Len(s) - 1
      /\ \A i \in 1 .. Len(Tail(s)) : Tail(s)[i] = s[i + 1]
  BY HeadTailProperties
<1>2. Len(s) \in Nat \ {0}
  BY EmptySeq
<1>3. /\ ToSet(s) = {s[i] : i \in 1 .. Len(s)}
      /\ ToSet(Tail(s)) = {Tail(s)[i] : i \in 1 .. Len(Tail(s))}
  BY <1>1, ToSetDef
<1> DEFINE h == Head(s)
           u == Tail(s)
<1>4. ToSet(s) \subseteq {h} \cup ToSet(u)
  <2> SUFFICES ASSUME NEW i \in 1 .. Len(s), i # 1
               PROVE  s[i] \in ToSet(u)
    BY <1>1, <1>3
  <2>1. i - 1 \in 1 .. Len(u) /\ u[i - 1] = s[i]
    BY <1>1, <1>2
  <2> HIDE DEF u
  <2>2. QED
    BY <2>1, <1>3 DEF u
<1>5. {h} \cup ToSet(u) \subseteq ToSet(s)
  BY <1>1, <1>2, <1>3
<1>6. ASSUME NoRepeat(s)
      PROVE  NoRepeat(u) /\ h \notin ToSet(u)
  <2>1. \A i \in 1 .. Len(u) : i + 1 \in 1 .. Len(s) /\ u[i] = s[i + 1]
    BY <1>1, <1>2
  <2>2. NoRepeat(u)
    BY <2>1, <1>1, <1>2, <1>6 DEF NoRepeat
  <2>3. h \notin ToSet(u)
    <3> SUFFICES ASSUME NEW i \in 1 .. Len(u), u[i] = h
                 PROVE  FALSE
      BY <1>3
    <3>1. s[i + 1] = s[1] /\ i + 1 \in 1 .. Len(s) /\ 1 \in 1 .. Len(s)
      BY <2>1, <1>1, <1>2
    <3>2. i + 1 = 1
      BY <3>1, <1>6 DEF NoRepeat
    <3>3. QED
      BY <3>2, <1>1, <1>2
  <2>4. QED
    BY <2>2, <2>3
<1>7. QED
  BY <1>1, <1>4, <1>5, <1>6

\* A sequence cut in two: the parts share its elements.
LEMMA SplitSeq ==
  ASSUME NEW S, NEW s \in Seq(S), NEW n \in 0 .. Len(s)
  PROVE  LET a == SubSeq(s, 1, n)
             b == SubSeq(s, n + 1, Len(s)) IN
         /\ a \in Seq(S) /\ Len(a) = n
         /\ b \in Seq(S) /\ Len(b) = Len(s) - n
         /\ ToSet(s) = ToSet(a) \cup ToSet(b)
         /\ NoRepeat(s) => NoRepeat(a) /\ NoRepeat(b) /\ ToSet(a) \cap ToSet(b) = {}
<1> DEFINE a == SubSeq(s, 1, n)
           b == SubSeq(s, n + 1, Len(s))
<1>1. Len(s) \in Nat /\ \A i \in 1 .. Len(s) : s[i] \in S
  BY LenProperties
<1>2. /\ a \in Seq(S) /\ Len(a) = n /\ \A i \in 1 .. n : a[i] = s[i]
  <2>1. /\ \A i \in 1 .. n : s[i] \in S
        /\ n \in Int /\ 1 \in Int /\ n \in Nat
    BY <1>1
  <2>2. /\ a \in Seq(S) /\ Len(a) = IF 1 <= n THEN n - 1 + 1 ELSE 0
        /\ \A i \in 1 .. n - 1 + 1 : a[i] = s[1 + i - 1]
    BY <2>1, SubSeqProperties
  <2> QED
    BY <2>1, <2>2
<1>3. /\ b \in Seq(S) /\ Len(b) = Len(s) - n
      /\ \A i \in 1 .. Len(s) - n : b[i] = s[n + i]
  <2>1. /\ \A i \in n + 1 .. Len(s) : s[i] \in S
        /\ n + 1 \in Int /\ Len(s) \in Int
    BY <1>1
  <2>2. /\ b \in Seq(S)
        /\ Len(b) = IF n + 1 <= Len(s) THEN Len(s) - (n + 1) + 1 ELSE 0
        /\ \A i \in 1 .. Len(s) - (n + 1) + 1 : b[i] = s[n + 1 + i - 1]
    BY <2>1, SubSeqProperties
  <2> QED
    BY <1>1, <2>2
<1> HIDE DEF a, b
<1>4. /\ ToSet(s) = {s[i] : i \in 1 .. Len(s)}
      /\ ToSet(a) = {a[i] : i \in 1 .. n}
      /\ ToSet(b) = {b[i] : i \in 1 .. Len(s) - n}
  <2>1. \A t \in Seq(S) : ToSet(t) = {t[i] : i \in 1 .. Len(t)}
    BY ToSetDef
  <2> QED
    BY <1>2, <1>3, <2>1, Zenon
<1>5. ToSet(s) \subseteq ToSet(a) \cup ToSet(b)
  <2> SUFFICES ASSUME NEW i \in 1 .. Len(s) PROVE s[i] \in ToSet(a) \cup ToSet(b)
    BY <1>4
  <2>1. CASE i <= n
    BY <1>2, <1>4, <2>1
  <2>2. CASE i > n
    <3>1. i - n \in 1 .. Len(s) - n /\ b[i - n] = s[i]
      BY <1>1, <1>3, <2>2
    <3> QED
      BY <1>4, <3>1
  <2> QED
    BY <1>1, <2>1, <2>2
<1>6. ToSet(a) \cup ToSet(b) \subseteq ToSet(s)
  <2>1. \A i \in 1 .. n : i \in 1 .. Len(s)
    BY <1>1
  <2>2. \A i \in 1 .. Len(s) - n : n + i \in 1 .. Len(s)
    BY <1>1
  <2> QED
    BY <1>2, <1>3, <1>4, <2>1, <2>2
<1>7. ASSUME NoRepeat(s)
      PROVE  NoRepeat(a) /\ NoRepeat(b) /\ ToSet(a) \cap ToSet(b) = {}
  <2>1. NoRepeat(a)
    BY <1>1, <1>2, <1>7 DEF NoRepeat
  <2>2. NoRepeat(b)
    <3> SUFFICES ASSUME NEW i \in 1 .. Len(s) - n, NEW j \in 1 .. Len(s) - n, b[i] = b[j]
                 PROVE  i = j
      BY <1>3 DEF NoRepeat
    <3>1. n + i \in 1 .. Len(s) /\ n + j \in 1 .. Len(s) /\ s[n + i] = s[n + j]
      BY <1>1, <1>3
    <3>2. n + i = n + j
      BY <1>7, <3>1 DEF NoRepeat
    <3> QED
      BY <1>1, <3>2
  <2>3. ASSUME NEW i \in 1 .. n, NEW j \in 1 .. Len(s) - n, a[i] = b[j]
        PROVE  FALSE
    <3>1. i \in 1 .. Len(s) /\ n + j \in 1 .. Len(s)
      BY <1>1
    <3>2. s[i] = s[n + j]
      BY <1>2, <1>3, <2>3, Zenon
    <3>3. i = n + j
      BY <1>7, <3>1, <3>2 DEF NoRepeat
    <3> QED
      BY <1>1, <3>3
  <2>4. ASSUME NEW x \in ToSet(a), x \in ToSet(b) PROVE FALSE
    <3>1. PICK i \in 1 .. n : a[i] = x
      BY <1>4, <2>4, Zenon
    <3>2. PICK j \in 1 .. Len(s) - n : b[j] = x
      BY <1>4, <2>4, Zenon
    <3> QED
      BY <2>3, <3>1, <3>2
  <2> QED
    BY <2>1, <2>2, <2>4
<1> QED
  BY <1>1, <1>2, <1>3, <1>5, <1>6, <1>7 DEF a, b

\* The sequences that SetToSeqs makes of a finite set are its permutations.
LEMMA SetToSeqsProperties ==
  ASSUME NEW S, IsFiniteSet(S), NEW s \in SetToSeqs(S)
  PROVE  /\ s \in Seq(S)
         /\ ToSet(s) = S
         /\ NoRepeat(s)
<1> DEFINE n == Cardinality(S)
<1>1. n \in Nat
  BY FS_CardinalityType
<1>2. s \in [1 .. n -> S] /\ \A i, j \in 1 .. n : i # j => s[i] # s[j]
  BY DEF SetToSeqs
<1>3. s \in Seq(S) /\ Len(s) = n
  BY <1>1, <1>2
<1>4. s \in Injection(1 .. n, S)
  BY <1>2 DEF Injection, IsInjective
<1>5. IsFiniteSet(1 .. n) /\ Cardinality(1 .. n) = n
  BY <1>1, FS_Interval
<1>6. s \in Surjection(1 .. n, S)
  BY <1>4, <1>5, FS_Injection
<1>7. ToSet(s) = S
  <2>1. ToSet(s) = {s[i] : i \in 1 .. n} /\ ToSet(s) \subseteq S
    BY <1>3, ToSetDef
  <2>2. \A x \in S : \E i \in 1 .. n : s[i] = x
    BY <1>6 DEF Surjection
  <2>3. QED
    BY <2>1, <2>2
<1>8. NoRepeat(s)
  BY <1>2, <1>3 DEF NoRepeat
<1>9. QED
  BY <1>3, <1>7, <1>8

-----------------------------------------------------------------------------
(* The inductive invariant.                                                 *)

\* Where the task and the descriptors are.  While the runner is in the reactor
\* neither is queued: so no descriptor is queued twice, and no event that is
\* still to be handled is overwritten.
QueueShape ==
  /\ NoRepeat(queue)
  /\ pc = "reactor" => ToSet(queue) \subseteq Ops
  /\ pc # "reactor" =>
       \E k \in DOMAIN queue :
         /\ queue[k] = Task
         /\ \A i \in DOMAIN queue : queue[i] \in States => i < k
  /\ pc = "perform" => current \in States

\* The operations that wait: each once, in the descriptor of its socket and the
\* queue of its direction, nowhere else; who waits to write is registered for it.
OpPlaces ==
  /\ \A s \in States, q \in Queues :
       /\ NoRepeat(opQueue[s][q])
       /\ \A o \in ToSet(opQueue[s][q]) :
            /\ o \in begun /\ o \notin ToSet(queue)
            /\ Direction(o) = q
            /\ data[Fd[o]] = s
            /\ conn[Fd[o]] \notin {"none", "fresh"}
  /\ \A s \in States : opQueue[s]["out"] # <<>> => outBit[s]
  /\ ToSet(queue) \cap Ops \subseteq begun

\* What epoll has registered are the states of the sockets, one each, but for
\* the socket that is being closed.
Registration ==
  /\ \A f, g \in Fds : data[f] = data[g] /\ data[f] # None => f = g
  /\ \A f \in Fds : f # closing => epoll[f] = data[f]
  /\ closing # None => /\ data[closing] = None /\ conn[closing] # "none"
                       /\ pc = "handler" /\ closing \notin outside
  /\ \A f \in Fds : conn[f] \in {"fresh", "syn", "up", "broken"} /\ f # closing =>
                      data[f] # None

\* A socket that connects is not ready, and has had its one connect.
Connecting ==
  /\ \A f \in Fds : conn[f] = "syn" => ready[f] = {}
  /\ \A o \in begun : Kind[o] = "connect" => conn[Fd[o]] \notin {"none", "fresh"}

IInv ==
  /\ TypeOK /\ QueueShape /\ OpPlaces /\ Registration /\ Connecting
  /\ WorkBalance /\ NoneForgotten /\ ConnectDecided

-----------------------------------------------------------------------------
(* What waits, and what is pending.                                         *)

QueueElements == Ops \cup States \cup {Task}

\* An operation waits if it is in a queue of a descriptor.
LEMMA WaitingMembers ==
  /\ \A s \in States : \A o : o \in Waiting(s) <=> \E q \in Queues : o \in ToSet(opQueue[s][q])
  /\ \A o : o \in AllWaiting <=> \E s \in States : o \in Waiting(s)
<1>1. ASSUME NEW s \in States, NEW o
      PROVE  o \in Waiting(s) <=> \E q \in Queues : o \in ToSet(opQueue[s][q])
  BY DEF Waiting, Queues
<1>2. ASSUME NEW o
      PROVE  o \in AllWaiting <=> \E s \in States : o \in Waiting(s)
  BY DEF AllWaiting
<1> QED
  BY <1>1, <1>2

\* The types of the queues and of what they hold.
LEMMA QueueTypes ==
  ASSUME TypeOK
  PROVE  /\ queue \in Seq(QueueElements) /\ ToSet(queue) \subseteq QueueElements
         /\ \A s \in States, q \in Queues :
              opQueue[s][q] \in Seq(Ops) /\ ToSet(opQueue[s][q]) \subseteq Ops
         /\ AllWaiting \subseteq Ops /\ Pending \subseteq Ops
<1>1. queue \in Seq(QueueElements) /\ ToSet(queue) \subseteq QueueElements
  BY ToSetDef DEF TypeOK, QueueElements
<1>2. ASSUME NEW s \in States, NEW q \in Queues
      PROVE  opQueue[s][q] \in Seq(Ops) /\ ToSet(opQueue[s][q]) \subseteq Ops
  <2>1. opQueue[s][q] \in Seq(Ops)
    BY DEF TypeOK
  <2> QED
    BY <2>1, ToSetDef
<1>3. AllWaiting \subseteq Ops
  BY <1>2, WaitingMembers
<1> QED
  BY <1>1, <1>2, <1>3 DEF Pending

\* The pending operations are finitely many.
LEMMA PendingFinite ==
  ASSUME TypeOK
  PROVE  IsFiniteSet(Pending) /\ Cardinality(Pending) \in Nat
<1>1. IsFiniteSet(Pending)
  BY QueueTypes, FS_Subset, ReactorConstants
<1> QED
  BY <1>1, FS_CardinalityType

\* One more or one less is pending.
LEMMA PendingChanges ==
  ASSUME TypeOK, NEW o
  PROVE  /\ o \notin Pending /\ Pending' = Pending \cup {o} =>
              Cardinality(Pending') = Cardinality(Pending) + 1
         /\ o \in Pending /\ Pending' = Pending \ {o} =>
              Cardinality(Pending') = Cardinality(Pending) - 1
<1>1. IsFiniteSet(Pending)
  BY PendingFinite
<1> QED
  BY <1>1, FS_AddElement, FS_RemoveElement

\* Operations are put behind the queue.
LEMMA QueueGrows ==
  ASSUME TypeOK, QueueShape, NEW t \in Seq(Ops),
         NoRepeat(t), ToSet(t) \cap ToSet(queue) = {}, queue' = queue \o t,
         pc = "reactor" <=> pc' = "reactor",
         pc' = "perform" => current' \in States
  PROVE  /\ queue' \in Seq(QueueElements)
         /\ ToSet(queue') = ToSet(queue) \cup ToSet(t)
         /\ QueueShape'
<1>1. queue \in Seq(QueueElements) /\ t \in Seq(QueueElements)
  BY QueueTypes DEF QueueElements
<1>2. /\ queue' \in Seq(QueueElements)
      /\ ToSet(queue') = ToSet(queue) \cup ToSet(t)
      /\ NoRepeat(queue')
  BY <1>1, ToSetConcat DEF QueueShape
<1>3. ToSet(t) \subseteq Ops
  BY ToSetDef
<1>4. ASSUME pc' # "reactor"
      PROVE  \E k \in DOMAIN queue' :
               /\ queue'[k] = Task
               /\ \A i \in DOMAIN queue' : queue'[i] \in States => i < k
  <2>1. PICK k \in DOMAIN queue :
          /\ queue[k] = Task
          /\ \A i \in DOMAIN queue : queue[i] \in States => i < k
    BY <1>4 DEF QueueShape
  <2>2. /\ DOMAIN queue = 1 .. Len(queue) /\ Len(queue) \in Nat
        /\ DOMAIN t = 1 .. Len(t) /\ Len(t) \in Nat
        /\ DOMAIN queue' = 1 .. Len(queue) + Len(t)
        /\ \A i \in 1 .. Len(queue) + Len(t) :
             queue'[i] = IF i <= Len(queue) THEN queue[i] ELSE t[i - Len(queue)]
    BY <1>1, <1>2, ConcatProperties
  <2>3. k \in DOMAIN queue' /\ queue'[k] = Task
    BY <2>1, <2>2
  <2>4. ASSUME NEW i \in DOMAIN queue', queue'[i] \in States
        PROVE  i < k
    <3>1. CASE i <= Len(queue)
      BY <2>1, <2>2, <2>4, <3>1
    <3>2. CASE ~(i <= Len(queue))
      <4>1. i - Len(queue) \in 1 .. Len(t)
        BY <2>2, <3>2
      <4>2. t[i - Len(queue)] \in Ops
        BY <4>1, ElementOfSeq
      <4> QED
        BY <2>2, <2>4, <3>2, <4>2, ReactorConstants
    <3> QED
      BY <3>1, <3>2
  <2> QED
    BY <2>3, <2>4
<1>5. ASSUME pc' = "reactor" PROVE ToSet(queue') \subseteq Ops
  BY <1>2, <1>3, <1>5 DEF QueueShape
<1> QED
  BY <1>2, <1>4, <1>5 DEF QueueShape

\* One operation is put behind the queue.
LEMMA QueueGrowsByOne ==
  ASSUME TypeOK, QueueShape, NEW o \in Ops,
         o \notin ToSet(queue), queue' = Append(queue, o),
         pc' = pc, current' = current
  PROVE  /\ queue' \in Seq(QueueElements)
         /\ ToSet(queue') = ToSet(queue) \cup {o}
         /\ QueueShape'
<1>1. /\ <<o>> \in Seq(Ops) /\ ToSet(<<o>>) = {o} /\ NoRepeat(<<o>>)
  BY ToSetSingle
<1>2. queue' = queue \o <<o>>
  BY QueueTypes, AppendIsConcat DEF QueueElements
<1>3. pc' = "perform" => current' \in States
  BY DEF QueueShape
<1> QED
  BY <1>1, <1>2, <1>3, QueueGrows

\* The queue and the runner are left alone.
LEMMA QueueUnchanged ==
  ASSUME QueueShape, UNCHANGED <<queue, pc, current>>
  PROVE  QueueShape'
  BY DEF QueueShape

-----------------------------------------------------------------------------
(* The initial state and the kernel.                                        *)

LEMMA InitIInv == Init => IInv
<1> SUFFICES ASSUME Init PROVE IInv
  OBVIOUS
<1>1. /\ queue \in Seq(QueueElements) /\ ToSet(queue) = {Task} /\ NoRepeat(queue)
      /\ queue[1] = Task /\ DOMAIN queue = {1}
  <2>1. queue = <<Task>>
    BY DEF Init
  <2>2. Task \in QueueElements
    BY DEF QueueElements
  <2> QED
    BY <2>1, <2>2, ToSetSingle
<1>2. TypeOK
  <2>1. queue \in Seq(Ops \cup States \cup {Task})
    BY <1>1 DEF QueueElements
  <2>2. opQueue \in [States -> [Queues -> Seq(Ops)]]
    <3>1. <<>> \in Seq(Ops)
      OBVIOUS
    <3> QED
      BY <3>1 DEF Init
  <2>3. /\ conn \in [Fds -> Conns]
        /\ ready \in [Fds -> SUBSET Events] /\ result \in [States -> SUBSET Events]
    BY DEF Init, Conns, Events
  <2> QED
    BY <2>1, <2>2, <2>3 DEF Init, TypeOK
<1>3. \A s \in States, q \in Queues : opQueue[s][q] = <<>> /\ ToSet(opQueue[s][q]) = {}
  BY ToSetEmpty DEF Init
<1>4. AllWaiting = {} /\ Pending = {}
  BY <1>1, <1>3, WaitingMembers, ReactorConstants DEF Pending
<1>5. QueueShape
  BY <1>1, ReactorConstants DEF Init, QueueShape
<1>6. OpPlaces
  <2>1. \A s \in States, q \in Queues : NoRepeat(opQueue[s][q])
    BY <1>3, ToSetEmpty
  <2>2. \A s \in States : opQueue[s]["out"] = <<>>
    BY <1>3 DEF Queues
  <2> QED
    BY <1>1, <1>3, <2>1, <2>2, ReactorConstants DEF OpPlaces
<1>7. Registration /\ Connecting
  BY ReactorConstants DEF Init, Registration, Connecting
<1>8. WorkBalance
  BY <1>4, FS_EmptySet DEF Init, WorkBalance
<1>9. NoneForgotten /\ ConnectDecided
  BY <1>3, WaitingMembers DEF Init, NoneForgotten, ConnectDecided
<1> QED
  BY <1>2, <1>5, <1>6, <1>7, <1>8, <1>9 DEF IInv

\* A step that leaves the queues alone leaves what is pending alone.
LEMMA SamePending ==
  ASSUME UNCHANGED <<queue, opQueue>>
  PROVE  /\ Pending' = Pending /\ AllWaiting' = AllWaiting
         /\ \A s \in States : Waiting(s)' = Waiting(s)
  BY DEF Pending, AllWaiting, Waiting

\* ... and the work count right, unless it begins or ends a handler.
LEMMA SameWork ==
  ASSUME WorkBalance, UNCHANGED <<queue, opQueue, outstanding, work>>,
         pc \in {"handler", "finish"} <=> pc' \in {"handler", "finish"}
  PROVE  WorkBalance'
  BY SamePending DEF WorkBalance

\* An operation that waits is known to OpPlaces.
LEMMA WaitingPlace ==
  ASSUME TypeOK, OpPlaces, NEW s \in States, NEW o \in Waiting(s)
  PROVE  /\ o \in Ops /\ o \in begun /\ o \notin ToSet(queue)
         /\ Direction(o) \in Queues /\ o \in ToSet(opQueue[s][Direction(o)])
         /\ data[Fd[o]] = s /\ Fd[o] \in Fds
         /\ conn[Fd[o]] \notin {"none", "fresh"}
<1>1. PICK q \in Queues : o \in ToSet(opQueue[s][q])
  BY WaitingMembers
<1>2. o \in Ops
  BY <1>1, QueueTypes
<1> QED
  BY <1>1, <1>2, ReactorConstants DEF OpPlaces

\* What waits to write is registered for it: no queue with an element is empty.
LEMMA WriterRegistered ==
  ASSUME TypeOK, OpPlaces, NEW s \in States, NEW o \in Waiting(s), Direction(o) = "out"
  PROVE  outBit[s]
<1>1. o \in ToSet(opQueue[s]["out"])
  BY WaitingPlace
<1>2. opQueue[s]["out"] # <<>>
  BY <1>1, ToSetEmpty
<1> QED
  BY <1>2 DEF OpPlaces

\* The network changes a connection: an operation that it makes ready is
\* registered for the event, so epoll lists its socket.
LEMMA NetworkStep ==
  ASSUME IInv, NEW f \in Fds, NEW from, NEW to \in {"up", "broken"},
         from \subseteq {"syn", "up"},
         NEW new \in SUBSET Events, Network(f, from, to, new)
  PROVE  IInv'
<1>1. /\ conn' = [conn EXCEPT ![f] = to] /\ conn[f] \in {"syn", "up"}
      /\ ready' = [ready EXCEPT ![f] = new]
      /\ edge' = [edge EXCEPT ![f] = @ \/ new \cap Registered(f) # {}]
      /\ UNCHANGED <<queue, outstanding, stopping, stopped, work, pc, current, data, opQueue, outBit,
                     result, epoll, closing, outside, begun, aborted>>
  BY DEF Network, Signal, schedVars, runVars, descVars
<1>2. TypeOK /\ QueueShape /\ OpPlaces /\ Registration /\ Connecting
      /\ WorkBalance /\ NoneForgotten /\ ConnectDecided
  BY DEF IInv
<1>3. TypeOK'
  BY <1>1, <1>2 DEF TypeOK, Conns
<1>4. QueueShape'
  BY <1>1, <1>2, QueueUnchanged
<1>5. OpPlaces'
  BY <1>1, <1>2 DEF OpPlaces, TypeOK
<1>6. Registration'
  BY <1>1, <1>2 DEF Registration, TypeOK
<1>7. Connecting'
  BY <1>1, <1>2, ReactorConstants DEF Connecting, TypeOK
<1>8. WorkBalance'
  BY <1>1, <1>2, SameWork
<1>9. NoneForgotten'
  <2>1. SUFFICES ASSUME NEW s \in States, NEW o \in Waiting(s), CanPerform(o)'
                 PROVE  WillTry(s, Fd[o], Direction(o))'
    <3>1. \A s \in States : \A o \in Waiting(s) : data'[Fd[o]] = s
      BY <1>1, <1>2 DEF NoneForgotten
    <3> QED
      BY <1>1, <2>1, <3>1, SamePending DEF NoneForgotten
  <2>2. /\ o \in Ops /\ Fd[o] \in Fds /\ data[Fd[o]] = s /\ Direction(o) \in Queues
        /\ Direction(o) = "out" => outBit[s]
    BY <1>2, WaitingPlace, WriterRegistered
  <2>3. CASE Fd[o] = f
    <3>1. new \cap {Direction(o), "err"} # {}
      BY <1>1, <1>2, <2>1, <2>3 DEF CanPerform, TypeOK
    <3>2. epoll[f] = s
      BY <1>1, <1>2, <2>2, <2>3, ReactorConstants DEF Registration
    <3>3. {Direction(o), "err"} \subseteq Registered(f) /\ Registered(f)' = Registered(f)
      BY <1>1, <1>2, <2>2, <3>2, ReactorConstants DEF Registered, Queues
    <3>4. edge'[f] /\ Reported(f)' = new \cap Registered(f)
      BY <1>1, <1>2, <3>1, <3>3 DEF Reported, TypeOK
    <3> QED
      BY <2>3, <3>1, <3>3, <3>4 DEF WillTry
  <2>4. CASE Fd[o] # f
    <3>1. CanPerform(o) /\ WillTry(s, Fd[o], Direction(o))
      BY <1>1, <1>2, <2>1, <2>2, <2>4 DEF CanPerform, NoneForgotten, TypeOK
    <3>2. Reported(Fd[o])' = Reported(Fd[o]) /\ edge'[Fd[o]] = edge[Fd[o]]
      BY <1>1, <1>2, <2>2, <2>4 DEF Reported, Registered, TypeOK
    <3> QED
      BY <1>1, <3>1, <3>2 DEF WillTry
  <2> QED
    BY <2>3, <2>4
<1>10. ConnectDecided'
  BY <1>1, <1>2, SamePending, ReactorConstants DEF ConnectDecided, TypeOK
<1> QED
  BY <1>3, <1>4, <1>5, <1>6, <1>7, <1>8, <1>9, <1>10 DEF IInv

LEMMA KernelStep == ASSUME IInv, NEW f \in Fds, Kernel(f) PROVE IInv'
<1>1. ready[f] \in SUBSET Events
  BY DEF IInv, TypeOK
<1>2. CASE Establish(f)
  BY <1>2, NetworkStep DEF Establish, Events
<1>3. CASE Fail(f)
  BY <1>3, NetworkStep DEF Fail
<1>4. CASE DataArrives(f)
  BY <1>1, <1>4, NetworkStep DEF DataArrives, Events
<1>5. CASE SpaceAppears(f)
  BY <1>1, <1>5, NetworkStep DEF SpaceAppears, Events
<1> QED
  BY <1>2, <1>3, <1>4, <1>5 DEF Kernel

-----------------------------------------------------------------------------
(* The runner takes the task, closes a socket, ends a handler.              *)

\* What waits is still tried when its socket and the runner are left alone.
LEMMA StillTried ==
  ASSUME TypeOK, OpPlaces, NoneForgotten, NEW s \in States, NEW o \in Waiting(s),
         UNCHANGED <<data[Fd[o]], ready[Fd[o]], epoll[Fd[o]], edge[Fd[o]], outBit, result>>,
         CanPerform(o)',
         s \in ToSet(queue) => s \in ToSet(queue'),
         pc = "perform" => UNCHANGED <<pc, current>>
  PROVE  WillTry(s, Fd[o], Direction(o))'
<1>1. CanPerform(o)
  BY DEF CanPerform
<1>2. WillTry(s, Fd[o], Direction(o))
  BY <1>1 DEF NoneForgotten
<1>3. Reported(Fd[o])' = Reported(Fd[o])
  BY DEF Reported, Registered
<1> QED
  BY <1>2, <1>3 DEF WillTry

\* ::close(): nothing waits for a socket whose state went back to the pool.
LEMMA CloseFdStep == ASSUME IInv, CloseFd PROVE IInv'
<1>1. /\ closing # None /\ closing' = None
      /\ conn' = [conn EXCEPT ![closing] = "closed"]
      /\ ready' = [ready EXCEPT ![closing] = {}]
      /\ edge' = [edge EXCEPT ![closing] = FALSE]
      /\ epoll' = [epoll EXCEPT ![closing] = None]
      /\ UNCHANGED <<queue, outstanding, stopping, stopped, work, pc, current, data, opQueue, outBit,
                     result, outside, begun, aborted>>
  BY DEF CloseFd, schedVars, runVars, descVars
<1>2. TypeOK /\ QueueShape /\ OpPlaces /\ Registration /\ Connecting
      /\ WorkBalance /\ NoneForgotten /\ ConnectDecided
  BY DEF IInv
<1>3. closing \in Fds /\ data[closing] = None
  BY <1>1, <1>2 DEF TypeOK, Registration
<1>4. TypeOK'
  BY <1>1, <1>2, <1>3 DEF TypeOK, Conns
<1>5. QueueShape'
  BY <1>1, <1>2, QueueUnchanged
<1>6. OpPlaces'
  BY <1>1, <1>2, <1>3 DEF OpPlaces, TypeOK
<1>7. Registration'
  BY <1>1, <1>2, <1>3, ReactorConstants DEF Registration, TypeOK
<1>8. Connecting'
  BY <1>1, <1>2, <1>3, ReactorConstants DEF Connecting, TypeOK
<1>9. WorkBalance'
  BY <1>1, <1>2, SameWork
<1>10. NoneForgotten'
  <2>1. SUFFICES ASSUME NEW s \in States, NEW o \in Waiting(s)
                 PROVE  /\ data'[Fd[o]] = s
                        /\ CanPerform(o)' => WillTry(s, Fd[o], Direction(o))'
    BY <1>1, SamePending DEF NoneForgotten
  <2>2. Fd[o] \in Fds /\ data[Fd[o]] = s /\ Fd[o] # closing
    BY <1>2, <1>3, WaitingPlace, ReactorConstants
  <2>3. UNCHANGED <<data[Fd[o]], ready[Fd[o]], epoll[Fd[o]], edge[Fd[o]]>>
    BY <1>1, <1>2, <1>3, <2>2 DEF TypeOK
  <2> QED
    BY <1>1, <1>2, <2>2, <2>3, StillTried
<1>11. ConnectDecided'
  BY <1>1, <1>2, <1>3, SamePending, ReactorConstants DEF ConnectDecided, TypeOK
<1> QED
  BY <1>4, <1>5, <1>6, <1>7, <1>8, <1>9, <1>10, <1>11 DEF IInv

\* A unit of work that ends was counted; to stop the service changes nothing.
LEMMA WorkStep ==
  ASSUME IInv, stopped' \in BOOLEAN, stopping' \in BOOLEAN,
         \/ /\ outstanding' = outstanding - 1
            /\ work /\ work' = FALSE /\ UNCHANGED <<pc, current>>
         \/ /\ outstanding' = outstanding - 1
            /\ pc \in {"handler", "finish"} /\ pc' \in {"loop", "stop"}
            /\ current' = None /\ work' = work
         \/ /\ UNCHANGED <<outstanding, work, current>>
            /\ pc' = pc \/ (pc = "stop" /\ pc' = "loop"),
         UNCHANGED <<queue, descVars, result, kernelVars, closing, outside, begun, aborted>>,
         closing # None => pc' = pc
  PROVE  IInv'
<1>1. UNCHANGED <<queue, data, opQueue, outBit, result, conn, ready, edge, epoll,
                  closing, outside, begun, aborted>>
  BY DEF descVars, kernelVars
<1>2. TypeOK /\ QueueShape /\ OpPlaces /\ Registration /\ Connecting
      /\ WorkBalance /\ NoneForgotten /\ ConnectDecided
  BY DEF IInv
<1>3. outstanding' \in Nat /\ WorkBalance'
  <2>1. /\ Cardinality(Pending) \in Nat /\ Pending' = Pending
        /\ outstanding \in Nat /\ work \in BOOLEAN
    BY <1>1, <1>2, PendingFinite, SamePending DEF TypeOK
  <2>2. CASE /\ outstanding' = outstanding - 1
             /\ work /\ work' = FALSE /\ UNCHANGED <<pc, current>>
    BY <1>2, <2>1, <2>2 DEF WorkBalance
  <2>3. CASE /\ outstanding' = outstanding - 1
             /\ pc \in {"handler", "finish"} /\ pc' \in {"loop", "stop"}
             /\ current' = None /\ work' = work
    BY <1>2, <2>1, <2>3 DEF WorkBalance
  <2>4. CASE /\ UNCHANGED <<outstanding, work, current>>
             /\ pc' = pc \/ (pc = "stop" /\ pc' = "loop")
    BY <1>2, <2>1, <2>4 DEF WorkBalance
  <2> QED
    BY <2>2, <2>3, <2>4
<1>4. TypeOK'
  BY <1>1, <1>2, <1>3 DEF TypeOK
<1>5. QueueShape'
  BY <1>1, <1>2 DEF QueueShape
<1>6. OpPlaces'
  BY <1>1, <1>2 DEF OpPlaces
<1>7. Registration' /\ Connecting'
  BY <1>1, <1>2 DEF Registration, Connecting
<1>8. NoneForgotten'
  <2>1. SUFFICES ASSUME NEW s \in States, NEW o \in Waiting(s)
                 PROVE  /\ data'[Fd[o]] = s
                        /\ CanPerform(o)' => WillTry(s, Fd[o], Direction(o))'
    BY <1>1, SamePending DEF NoneForgotten
  <2> QED
    BY <1>1, <1>2, WaitingPlace, StillTried
<1>9. ConnectDecided'
  BY <1>1, <1>2, SamePending DEF ConnectDecided
<1> QED
  BY <1>3, <1>4, <1>5, <1>6, <1>7, <1>8, <1>9 DEF IInv

LEMMA DropWorkStep == ASSUME IInv, NEW p \in Callers, DropWork(p) PROVE IInv'
  BY WorkStep DEF DropWork, runVars, IInv, TypeOK

LEMMA FinishStep == ASSUME IInv, Finish PROVE IInv'
  BY WorkStep DEF Finish, IInv, TypeOK

LEMMA StopStep == ASSUME IInv, Stop \/ StopRunner PROVE IInv'
<1>1. CASE Stop
  <2>1. stopped' \in BOOLEAN /\ stopping' \in BOOLEAN
    BY <1>1 DEF Stop
  <2>2. UNCHANGED <<outstanding, work, current>> /\ pc' = pc
    BY <1>1 DEF Stop, runVars
  <2>3. UNCHANGED <<queue, descVars, result, kernelVars, closing, outside, begun, aborted>>
    BY <1>1 DEF Stop
  <2> QED
    BY <2>1, <2>2, <2>3, WorkStep DEF descVars, kernelVars
<1>2. CASE StopRunner
  BY <1>2, WorkStep DEF StopRunner, IInv, TypeOK, Registration
<1> QED
  BY <1>1, <1>2

\* The head of the queue is taken.
LEMMA QueueShrinks ==
  ASSUME TypeOK, QueueShape, queue # <<>>
  PROVE  /\ Head(queue) \in QueueElements
         /\ Tail(queue) \in Seq(QueueElements)
         /\ ToSet(queue) = {Head(queue)} \cup ToSet(Tail(queue))
         /\ Head(queue) \notin ToSet(Tail(queue))
         /\ NoRepeat(Tail(queue))
  BY QueueTypes, ToSetTail DEF QueueShape

\* The task is taken: the descriptors were in front of it.
LEMMA TakeTaskStep == ASSUME IInv, TakeTask PROVE IInv'
<1>1. /\ pc = "loop" /\ pc' = "reactor" /\ queue # <<>> /\ Head(queue) = Task
      /\ queue' = Tail(queue)
      /\ UNCHANGED <<outstanding, stopping, stopped, work, current, data, opQueue, outBit, result,
                     conn, ready, edge, epoll, closing, outside, begun, aborted>>
  BY DEF TakeTask, descVars, kernelVars
<1>2. TypeOK /\ QueueShape /\ OpPlaces /\ Registration /\ Connecting
      /\ WorkBalance /\ NoneForgotten /\ ConnectDecided
  BY DEF IInv
<1>3. /\ queue' \in Seq(QueueElements) /\ NoRepeat(queue')
      /\ ToSet(queue) = {Task} \cup ToSet(queue') /\ Task \notin ToSet(queue')
  BY <1>1, <1>2, QueueShrinks
<1>4. ToSet(queue) \cap States = {}
  <2>1. PICK k \in DOMAIN queue :
          /\ queue[k] = Task
          /\ \A i \in DOMAIN queue : queue[i] \in States => i < k
    BY <1>1, <1>2 DEF QueueShape
  <2>2. /\ DOMAIN queue = 1 .. Len(queue) /\ Len(queue) \in Nat \ {0} /\ queue[1] = Task
        /\ ToSet(queue) = {queue[i] : i \in 1 .. Len(queue)}
    BY <1>1, <1>2, QueueTypes, ToSetDef, HeadTailProperties, EmptySeq
  <2>3. k = 1
    BY <1>2, <2>1, <2>2 DEF QueueShape, NoRepeat
  <2> QED
    BY <2>1, <2>2, <2>3
<1>5. ToSet(queue') \subseteq Ops /\ ToSet(queue') \cap Ops = ToSet(queue) \cap Ops
  BY <1>2, <1>3, <1>4, QueueTypes, ReactorConstants DEF QueueElements
<1>6. /\ Pending' = Pending /\ AllWaiting' = AllWaiting
      /\ \A s \in States : Waiting(s)' = Waiting(s)
  BY <1>1, <1>5 DEF Pending, AllWaiting, Waiting
<1>7. TypeOK'
  BY <1>1, <1>2, <1>3 DEF TypeOK, QueueElements
<1>8. QueueShape'
  BY <1>1, <1>3, <1>5 DEF QueueShape
<1>9. OpPlaces'
  BY <1>1, <1>2, <1>3, <1>5 DEF OpPlaces
<1>10. Registration' /\ Connecting'
  BY <1>1, <1>2 DEF Registration, Connecting
<1>11. WorkBalance'
  BY <1>1, <1>2, <1>6 DEF WorkBalance
<1>12. NoneForgotten'
  <2>1. SUFFICES ASSUME NEW s \in States, NEW o \in Waiting(s)
                 PROVE  /\ data'[Fd[o]] = s
                        /\ CanPerform(o)' => WillTry(s, Fd[o], Direction(o))'
    BY <1>1, <1>6 DEF NoneForgotten
  <2>2. s \notin ToSet(queue)
    BY <1>4
  <2> QED
    BY <1>1, <1>2, <2>2, WaitingPlace, StillTried
<1>13. ConnectDecided'
  BY <1>1, <1>2, <1>6 DEF ConnectDecided
<1> QED
  BY <1>7, <1>8, <1>9, <1>10, <1>11, <1>12, <1>13 DEF IInv

\* An operation or a descriptor is taken: the task is still behind the
\* descriptors, and a descriptor that was to be tried is.
LEMMA ExecuteStep == ASSUME IInv, Execute PROVE IInv'
<1> DEFINE h == Head(queue)
<1>1. /\ pc = "loop" /\ queue # <<>> /\ h # Task
      /\ queue' = Tail(queue) /\ current' = h
      /\ pc' = IF h \in States THEN "perform" ELSE "handler"
      /\ UNCHANGED <<outstanding, stopping, stopped, work, data, opQueue, outBit, result,
                     conn, ready, edge, epoll, closing, outside, begun, aborted>>
  BY DEF Execute, descVars, kernelVars
<1>2. TypeOK /\ QueueShape /\ OpPlaces /\ Registration /\ Connecting
      /\ WorkBalance /\ NoneForgotten /\ ConnectDecided
  BY DEF IInv
<1>3. /\ h \in QueueElements /\ queue' \in Seq(QueueElements) /\ NoRepeat(queue')
      /\ ToSet(queue) = {h} \cup ToSet(queue') /\ h \notin ToSet(queue')
  BY <1>1, <1>2, QueueShrinks
<1>4. h \in Ops \/ h \in States
  BY <1>1, <1>3 DEF QueueElements
<1>5. \E k \in DOMAIN queue' :
        /\ queue'[k] = Task
        /\ \A i \in DOMAIN queue' : queue'[i] \in States => i < k
  <2>1. PICK k \in DOMAIN queue :
          /\ queue[k] = Task
          /\ \A i \in DOMAIN queue : queue[i] \in States => i < k
    BY <1>1, <1>2 DEF QueueShape
  <2>2. /\ DOMAIN queue = 1 .. Len(queue) /\ Len(queue) \in Nat \ {0} /\ queue[1] = h
        /\ DOMAIN queue' = 1 .. Len(queue) - 1
        /\ \A i \in 1 .. Len(queue) - 1 : queue'[i] = queue[i + 1]
    BY <1>1, <1>2, <1>3, QueueTypes, HeadTailProperties, EmptySeq
  <2>3. k - 1 \in DOMAIN queue' /\ queue'[k - 1] = Task
    BY <1>1, <2>1, <2>2
  <2>4. \A i \in DOMAIN queue' : queue'[i] \in States => i < k - 1
    BY <2>1, <2>2
  <2> QED
    BY <2>3, <2>4
<1>6. /\ AllWaiting' = AllWaiting
      /\ \A s \in States : Waiting(s)' = Waiting(s)
  BY <1>1 DEF AllWaiting, Waiting
<1>7. TypeOK'
  BY <1>1, <1>2, <1>3, <1>4 DEF TypeOK, QueueElements
<1>8. QueueShape'
  BY <1>1, <1>3, <1>5 DEF QueueShape
<1>9. OpPlaces'
  BY <1>1, <1>2, <1>3 DEF OpPlaces
<1>10. Registration' /\ Connecting'
  BY <1>1, <1>2 DEF Registration, Connecting
<1>11. WorkBalance'
  <2>1. Cardinality(Pending) \in Nat
    BY <1>2, PendingFinite
  <2>2. CASE h \in States
    <3>1. Pending' = Pending
      BY <1>3, <1>6, <2>2, ReactorConstants DEF Pending
    <3> QED
      BY <1>1, <1>2, <2>2, <3>1 DEF WorkBalance
  <2>3. CASE h \in Ops /\ h \notin States
    <3>1. h \in ToSet(queue) /\ h \notin AllWaiting
      BY <1>2, <1>3, WaitingMembers, WaitingPlace
    <3>2. h \in Pending /\ Pending' = Pending \ {h}
      BY <1>3, <1>6, <2>3, <3>1 DEF Pending
    <3>3. Cardinality(Pending') = Cardinality(Pending) - 1
      BY <1>2, <3>2, PendingChanges
    <3> QED
      BY <1>1, <1>2, <2>1, <2>3, <3>3 DEF WorkBalance
  <2> QED
    BY <1>4, <2>2, <2>3
<1>12. NoneForgotten'
  <2>1. SUFFICES ASSUME NEW s \in States, NEW o \in Waiting(s)
                 PROVE  /\ data'[Fd[o]] = s
                        /\ CanPerform(o)' => WillTry(s, Fd[o], Direction(o))'
    BY <1>1, <1>6 DEF NoneForgotten
  <2>2. CASE s = h
    <3>1. CanPerform(o)' => WillTry(s, Fd[o], Direction(o))
      BY <1>1, <1>2 DEF CanPerform, NoneForgotten
    <3>2. Reported(Fd[o])' = Reported(Fd[o])
      BY <1>1 DEF Reported, Registered
    <3> QED
      BY <1>1, <1>2, <2>2, <3>1, <3>2, WaitingPlace DEF WillTry
  <2>3. CASE s # h
    BY <1>1, <1>2, <1>3, <2>3, WaitingPlace, StillTried
  <2> QED
    BY <2>2, <2>3
<1>13. ConnectDecided'
  BY <1>1, <1>2, <1>6 DEF ConnectDecided
<1> QED
  BY <1>7, <1>8, <1>9, <1>10, <1>11, <1>12, <1>13 DEF IInv

-----------------------------------------------------------------------------
(* A socket is deregistered or opened.                                      *)

\* What waits in a descriptor is moved behind the queue, and to no other.
LEMMA DeregisterStep == ASSUME IInv, NEW f \in Fds, Deregister(f) PROVE IInv'
<1> SUFFICES ASSUME NEW s \in States, s = data[f] PROVE IInv'
  <2>1. data[f] \in States
    BY DEF IInv, TypeOK, Deregister
  <2> QED
    BY <2>1
<1> DEFINE a == opQueue[s]["in"]
           b == opQueue[s]["out"]
           ops == a \o b
<1>1. /\ pc = "handler" /\ closing = None /\ conn[f] # "none" /\ f \notin outside
      /\ data' = [data EXCEPT ![f] = None]
      /\ opQueue' = [opQueue EXCEPT ![s] = [q \in Queues |-> <<>>]]
      /\ queue' = queue \o ops
      /\ aborted' = aborted \cup ToSet(ops)
      /\ \/ UNCHANGED <<epoll, edge>>
         \/ /\ epoll' = [epoll EXCEPT ![f] = None]
            /\ edge' = [edge EXCEPT ![f] = FALSE]
      /\ closing' = f
      /\ UNCHANGED <<outstanding, stopping, stopped, work, pc, current, outBit, result, conn,
                     ready, outside, begun>>
  BY DEF Deregister, MayUse, CanCall, runVars
<1>2. TypeOK /\ QueueShape /\ OpPlaces /\ Registration /\ Connecting
      /\ WorkBalance /\ NoneForgotten /\ ConnectDecided
  BY DEF IInv
<1>3. /\ ops \in Seq(Ops) /\ ToSet(ops) = Waiting(s) /\ NoRepeat(ops)
      /\ Waiting(s) \cap ToSet(queue) = {} /\ Waiting(s) \subseteq begun
  <2>1. /\ a \in Seq(Ops) /\ NoRepeat(a) /\ \A o \in ToSet(a) : Direction(o) = "in"
        /\ b \in Seq(Ops) /\ NoRepeat(b) /\ \A o \in ToSet(b) : Direction(o) = "out"
    BY <1>2, QueueTypes DEF OpPlaces, Queues
  <2>2. ToSet(a) \cap ToSet(b) = {}
    BY <2>1
  <2>3. Waiting(s) = ToSet(a) \cup ToSet(b)
    BY DEF Waiting
  <2> HIDE DEF a, b
  <2>4. ops \in Seq(Ops) /\ ToSet(ops) = ToSet(a) \cup ToSet(b) /\ NoRepeat(ops)
    BY <2>1, <2>2, ToSetConcat
  <2>5. \A o \in Waiting(s) : o \notin ToSet(queue) /\ o \in begun
    BY <1>2, WaitingPlace
  <2> QED
    BY <2>3, <2>4, <2>5
<1> HIDE DEF ops
<1>4. /\ queue' \in Seq(QueueElements) /\ ToSet(queue') = ToSet(queue) \cup Waiting(s)
      /\ QueueShape'
  BY <1>1, <1>2, <1>3, QueueGrows
<1>5. /\ Waiting(s)' = {}
      /\ \A q \in Queues : opQueue'[s][q] = <<>>
      /\ \A t \in States \ {s} : opQueue'[t] = opQueue[t] /\ Waiting(t)' = Waiting(t)
  <2>1. /\ \A q \in Queues : opQueue'[s][q] = <<>>
        /\ \A t \in States \ {s} : opQueue'[t] = opQueue[t]
    BY <1>1, <1>2 DEF TypeOK
  <2> QED
    BY <2>1, ToSetEmpty DEF Waiting, Queues
<1>6. \A t \in States \ {s} : \A o \in Waiting(t) :
        Fd[o] \in Fds /\ Fd[o] # f /\ o \notin Waiting(s)
  BY <1>2, WaitingPlace
<1>7. AllWaiting = AllWaiting' \cup Waiting(s) /\ Pending' = Pending
  <2>1. AllWaiting = AllWaiting' \cup Waiting(s)
    BY <1>5 DEF AllWaiting
  <2>2. Waiting(s) \subseteq Ops
    BY <1>2, WaitingPlace
  <2> QED
    BY <1>4, <2>1, <2>2 DEF Pending
<1>8. TypeOK'
  <2>1. [q \in Queues |-> <<>>] \in [Queues -> Seq(Ops)]
    BY EmptySeq
  <2>2. opQueue' \in [States -> [Queues -> Seq(Ops)]]
    BY <1>1, <1>2, <2>1 DEF TypeOK
  <2>3. data' \in [Fds -> States \cup {None}] /\ epoll' \in [Fds -> States \cup {None}]
        /\ edge' \in [Fds -> BOOLEAN]
    BY <1>1, <1>2 DEF TypeOK
  <2> QED
    BY <1>1, <1>2, <1>3, <1>4, <2>2, <2>3 DEF TypeOK, QueueElements
<1>9. OpPlaces'
  <2>1. ASSUME NEW t \in States, NEW q \in Queues
        PROVE  /\ NoRepeat(opQueue'[t][q])
               /\ \A o \in ToSet(opQueue'[t][q]) :
                    /\ o \in begun /\ o \notin ToSet(queue')
                    /\ Direction(o) = q
                    /\ data'[Fd[o]] = t
                    /\ conn[Fd[o]] \notin {"none", "fresh"}
    <3>1. CASE t = s
      BY <1>5, <3>1, ToSetEmpty
    <3>2. CASE t # s
      <4>1. opQueue'[t][q] = opQueue[t][q] /\ \A o \in ToSet(opQueue[t][q]) : o \in Waiting(t)
        BY <1>5, <3>2, WaitingMembers
      <4>2. \A o \in ToSet(opQueue[t][q]) : o \notin ToSet(queue') /\ data'[Fd[o]] = data[Fd[o]]
        BY <1>1, <1>2, <1>4, <1>6, <3>2, <4>1, WaitingPlace DEF TypeOK
      <4> QED
        BY <1>2, <4>1, <4>2 DEF OpPlaces
    <3> QED
      BY <3>1, <3>2
  <2>2. \A t \in States : opQueue'[t]["out"] # <<>> => outBit'[t]
    BY <1>1, <1>2, <1>5 DEF OpPlaces, Queues
  <2>3. ToSet(queue') \cap Ops \subseteq begun
    BY <1>2, <1>3, <1>4 DEF OpPlaces
  <2> QED
    BY <1>1, <2>1, <2>2, <2>3 DEF OpPlaces
<1>10. Registration' /\ Connecting'
  <2>1. /\ data'[f] = None /\ \A g \in Fds \ {f} : data'[g] = data[g] /\ epoll'[g] = epoll[g]
    BY <1>1, <1>2 DEF TypeOK
  <2>2. Registration'
    BY <1>1, <1>2, <2>1, ReactorConstants DEF Registration
  <2> QED
    BY <1>1, <1>2, <2>2 DEF Connecting
<1>11. WorkBalance'
  BY <1>1, <1>2, <1>7 DEF WorkBalance
<1>12. NoneForgotten'
  <2>1. SUFFICES ASSUME NEW t \in States, NEW o \in Waiting(t)'
                 PROVE  /\ data'[Fd[o]] = t
                        /\ CanPerform(o)' => WillTry(t, Fd[o], Direction(o))'
    BY DEF NoneForgotten
  <2>2. t # s /\ o \in Waiting(t)
    BY <1>5
  <2>3. Fd[o] \in Fds /\ Fd[o] # f /\ data[Fd[o]] = t
    BY <1>2, <1>6, <2>2, WaitingPlace
  <2>4. UNCHANGED <<data[Fd[o]], ready[Fd[o]], epoll[Fd[o]], edge[Fd[o]]>>
    BY <1>1, <1>2, <2>3 DEF TypeOK
  <2> QED
    BY <1>1, <1>2, <1>4, <2>2, <2>3, <2>4, StillTried
<1>13. ConnectDecided'
  <2>1. begun' \ (aborted' \cup AllWaiting') = begun \ (aborted \cup AllWaiting)
    BY <1>1, <1>3, <1>7
  <2> QED
    BY <1>1, <1>2, <2>1 DEF ConnectDecided
<1> QED
  BY <1>4, <1>8, <1>9, <1>10, <1>11, <1>12, <1>13 DEF IInv

\* A state from the pool is empty, also if the socket that is being closed is
\* still registered with it, or if it is still queued.
LEMMA OpenStep ==
  ASSUME IInv, NEW p \in Callers, NEW f \in Fds, NEW s \in States, Open(p, f, s)
  PROVE  IInv'
<1>1. /\ CanCall(p) /\ conn[f] = "none" /\ \A g \in Fds : data[g] # s
      /\ data' = [data EXCEPT ![f] = s]
      /\ outBit' = [outBit EXCEPT ![s] = FALSE]
      /\ epoll' = [epoll EXCEPT ![f] = s]
      /\ conn' = [conn EXCEPT ![f] = IF f \in Opened THEN "fresh" ELSE "up"]
      /\ outside' = IF p = "other" THEN outside \cup {f} ELSE outside
      /\ UNCHANGED <<queue, outstanding, stopping, stopped, work, pc, current, opQueue, result,
                     closing, begun, aborted>>
  BY DEF Open, schedVars, runVars
<1>2. PICK r \in SUBSET Events :
        /\ ready' = [ready EXCEPT ![f] = r]
        /\ edge' = [edge EXCEPT ![f] = r # {"out"}]
  <2>1. PICK r \in IF f \in Opened THEN {{"out", "err"}} ELSE {{"out"}, {"in", "out"}} :
        /\ ready' = [ready EXCEPT ![f] = r]
        /\ edge' = [edge EXCEPT ![f] = r # {"out"}]
    BY DEF Open
  <2>2. r \in SUBSET Events
    BY DEF Events
  <2> QED
    BY <2>1, <2>2
<1>3. TypeOK /\ QueueShape /\ OpPlaces /\ Registration /\ Connecting
      /\ WorkBalance /\ NoneForgotten /\ ConnectDecided
  BY DEF IInv
<1>4. /\ f # closing /\ (closing # None => closing \notin outside')
  <2>1. closing # None => pc = "handler" /\ conn[closing] # "none" /\ closing \notin outside
    BY <1>3 DEF Registration
  <2> QED
    BY <1>1, <2>1, <1>3, ReactorConstants
<1>5. /\ \A q \in Queues : ToSet(opQueue[s][q]) = {} /\ opQueue[s][q] = <<>>
      /\ Waiting(s) = {}
      /\ \A t \in States : \A o \in Waiting(t) : t # s /\ Fd[o] \in Fds /\ Fd[o] # f
  <2>1. Waiting(s) = {}
    BY <1>1, <1>3, WaitingPlace
  <2>2. \A q \in Queues : ToSet(opQueue[s][q]) = {}
    BY <2>1, WaitingMembers
  <2>3. \A q \in Queues : opQueue[s][q] = <<>>
    <3> SUFFICES ASSUME NEW q \in Queues, opQueue[s][q] # <<>> PROVE FALSE
      OBVIOUS
    <3>1. opQueue[s][q] \in Seq(Ops)
      BY <1>3, QueueTypes
    <3> DEFINE w == opQueue[s][q]
    <3> HIDE DEF w
    <3>2. w \in Seq(Ops) /\ w # <<>> => Head(w) \in ToSet(w)
      BY ToSetTail
    <3> QED
      BY <2>2, <3>1, <3>2 DEF w
  <2>4. \A t \in States : \A o \in Waiting(t) : Fd[o] \in Fds /\ Fd[o] # f
    BY <1>1, <1>3, WaitingPlace
  <2> QED
    BY <2>1, <2>2, <2>3, <2>4
<1>6. TypeOK'
  BY <1>1, <1>2, <1>3 DEF TypeOK, Conns
<1>7. QueueShape'
  BY <1>1, <1>3, QueueUnchanged
<1>8. OpPlaces'
  <2>1. ASSUME NEW t \in States, NEW q \in Queues, NEW o \in ToSet(opQueue[t][q])
        PROVE  data'[Fd[o]] = data[Fd[o]] /\ conn'[Fd[o]] = conn[Fd[o]]
    BY <1>1, <1>3, <1>5, WaitingMembers DEF TypeOK
  <2>2. \A t \in States : opQueue[t]["out"] # <<>> => outBit'[t]
    BY <1>1, <1>3, <1>5 DEF OpPlaces, TypeOK, Queues
  <2>3. ASSUME NEW t \in States, NEW q \in Queues
        PROVE  /\ NoRepeat(opQueue'[t][q])
               /\ \A o \in ToSet(opQueue'[t][q]) :
                    /\ o \in begun /\ o \notin ToSet(queue')
                    /\ Direction(o) = q
                    /\ data'[Fd[o]] = t
                    /\ conn'[Fd[o]] \notin {"none", "fresh"}
    BY <1>1, <1>3, <2>1 DEF OpPlaces
  <2> QED
    BY <1>1, <1>3, <2>2, <2>3 DEF OpPlaces
<1>9. Registration'
  <2>1. /\ data'[f] = s /\ epoll'[f] = s
        /\ \A g \in Fds \ {f} : data'[g] = data[g] /\ epoll'[g] = epoll[g] /\ conn'[g] = conn[g]
    BY <1>1, <1>3 DEF TypeOK
  <2>2. \A g, h \in Fds : data'[g] = data'[h] /\ data'[g] # None => g = h
    BY <1>1, <1>3, <2>1 DEF Registration
  <2>3. \A g \in Fds : g # closing => epoll'[g] = data'[g]
    BY <1>3, <2>1 DEF Registration
  <2>4. closing # None => /\ data'[closing] = None /\ conn'[closing] # "none"
                          /\ pc = "handler" /\ closing \notin outside'
    BY <1>3, <1>4, <2>1 DEF Registration, TypeOK
  <2>5. \A g \in Fds : conn'[g] \in {"fresh", "syn", "up", "broken"} /\ g # closing =>
                         data'[g] # None
    BY <1>3, <2>1, ReactorConstants DEF Registration
  <2> QED
    BY <1>1, <2>2, <2>3, <2>4, <2>5 DEF Registration
<1>10. Connecting'
  <2>1. \A g \in Fds : conn'[g] = "syn" => ready'[g] = {}
    BY <1>1, <1>2, <1>3 DEF Connecting, TypeOK
  <2>2. \A o \in begun : Kind[o] = "connect" => Fd[o] # f /\ conn'[Fd[o]] \notin {"none", "fresh"}
    BY <1>1, <1>3, ReactorConstants DEF Connecting, TypeOK
  <2> QED
    BY <1>1, <2>1, <2>2 DEF Connecting
<1>11. WorkBalance'
  BY <1>1, <1>3, SameWork
<1>12. NoneForgotten'
  <2>1. SUFFICES ASSUME NEW t \in States, NEW o \in Waiting(t)
                 PROVE  /\ data'[Fd[o]] = t
                        /\ CanPerform(o)' => WillTry(t, Fd[o], Direction(o))'
    BY <1>1, SamePending DEF NoneForgotten
  <2>2. t # s /\ Fd[o] \in Fds /\ Fd[o] # f /\ data[Fd[o]] = t
    BY <1>3, <1>5, WaitingPlace
  <2>3. /\ data'[Fd[o]] = t /\ ready'[Fd[o]] = ready[Fd[o]] /\ edge'[Fd[o]] = edge[Fd[o]]
        /\ epoll'[Fd[o]] = t /\ epoll[Fd[o]] = t /\ outBit'[t] = outBit[t]
    BY <1>1, <1>2, <1>3, <2>2, ReactorConstants DEF TypeOK, Registration
  <2>4. CanPerform(o)' => WillTry(t, Fd[o], Direction(o))
    BY <1>3, <2>3 DEF CanPerform, NoneForgotten
  <2>5. Reported(Fd[o])' = Reported(Fd[o])
    BY <2>3 DEF Reported, Registered
  <2> QED
    BY <1>1, <2>3, <2>4, <2>5 DEF WillTry
<1>13. ConnectDecided'
  <2>1. ASSUME NEW o \in begun \ (aborted \cup AllWaiting), Kind[o] = "connect"
        PROVE  conn'[Fd[o]] # "syn"
    BY <1>1, <1>3, <2>1, ReactorConstants DEF ConnectDecided, TypeOK
  <2> QED
    BY <1>1, <2>1, SamePending DEF ConnectDecided
<1> QED
  BY <1>6, <1>7, <1>8, <1>9, <1>10, <1>11, <1>12, <1>13 DEF IInv

-----------------------------------------------------------------------------
(* An operation is started.                                                 *)

\* An operation that is posted is one more that is pending.
LEMMA PostedOnce ==
  ASSUME TypeOK, OpPlaces, QueueShape, WorkBalance, NEW o \in Ops, o \notin begun,
         PostImmediate(o), UNCHANGED <<opQueue, work, pc, current>>
  PROVE  /\ queue' \in Seq(QueueElements)
         /\ ToSet(queue') = ToSet(queue) \cup {o}
         /\ QueueShape' /\ WorkBalance' /\ outstanding' \in Nat
<1>1. o \notin ToSet(queue) /\ o \notin AllWaiting
  BY WaitingMembers, WaitingPlace DEF OpPlaces
<1>2. /\ queue' \in Seq(QueueElements)
      /\ ToSet(queue') = ToSet(queue) \cup {o}
      /\ QueueShape'
  BY <1>1, QueueGrowsByOne DEF PostImmediate
<1>3. Pending' = Pending \cup {o} /\ o \notin Pending
  BY <1>1, <1>2 DEF Pending, AllWaiting, Waiting
<1>4. Cardinality(Pending') = Cardinality(Pending) + 1 /\ Cardinality(Pending) \in Nat
  BY <1>3, PendingChanges, PendingFinite
<1>5. WorkBalance' /\ outstanding' \in Nat
  BY <1>4 DEF PostImmediate, WorkBalance, TypeOK
<1> QED
  BY <1>2, <1>5

\* What is left when o has joined the operations that wait for event d at state s.
HasJoined(o, s, d) ==
  /\ opQueue' \in [States -> [Queues -> Seq(Ops)]]
  /\ \A t \in States, q \in Queues :
       /\ NoRepeat(opQueue'[t][q])
       /\ ToSet(opQueue'[t][q]) = ToSet(opQueue[t][q]) \cup
            IF t = s /\ q = d THEN {o} ELSE {}
       /\ t # s \/ q # d => opQueue'[t][q] = opQueue[t][q]
  /\ \A t \in States : Waiting(t)' = Waiting(t) \cup IF t = s THEN {o} ELSE {}
  /\ AllWaiting' = AllWaiting \cup {o}
  /\ QueueShape' /\ WorkBalance' /\ outstanding' \in Nat

\* ... and so is one that is put in a descriptor.
LEMMA EnqueuedOnce ==
  ASSUME TypeOK, OpPlaces, QueueShape, WorkBalance, NEW o \in Ops, o \notin begun,
         NEW s \in States, s = data[Fd[o]],
         Enqueue(o), UNCHANGED <<work, pc, current>>
  PROVE  HasJoined(o, s, Direction(o))
<1> DEFINE d == Direction(o)
           w == opQueue[s][d]
<1>1. d \in Queues
  BY DEF Direction, Queues
<1>2. /\ opQueue' = [opQueue EXCEPT ![s][d] = Append(@, o)]
      /\ outstanding' = outstanding + 1 /\ queue' = queue
  BY DEF Enqueue
<1>3. w \in Seq(Ops) /\ NoRepeat(w)
  BY <1>1, QueueTypes DEF OpPlaces
<1>4. o \notin ToSet(queue) /\ o \notin AllWaiting
  BY WaitingMembers, WaitingPlace DEF OpPlaces
<1>5. o \notin ToSet(w)
  BY <1>1, <1>4, WaitingMembers
<1>6. /\ opQueue'[s][d] = Append(w, o)
      /\ \A t \in States, q \in Queues : t # s \/ q # d => opQueue'[t][q] = opQueue[t][q]
  BY <1>1, <1>2 DEF TypeOK
<1> HIDE DEF w, d
<1>7. Append(w, o) \in Seq(Ops) /\ ToSet(Append(w, o)) = ToSet(w) \cup {o} /\ NoRepeat(Append(w, o))
  BY <1>3, <1>5, ToSetAppend
<1>8. opQueue' \in [States -> [Queues -> Seq(Ops)]]
  BY <1>1, <1>2, <1>7 DEF TypeOK, w
<1>9. ASSUME NEW t \in States, NEW q \in Queues
      PROVE  /\ NoRepeat(opQueue'[t][q])
             /\ ToSet(opQueue'[t][q]) = ToSet(opQueue[t][q]) \cup
                  IF t = s /\ q = d THEN {o} ELSE {}
  <2>1. CASE t = s /\ q = d
    BY <1>6, <1>7, <2>1 DEF w
  <2>2. CASE ~(t = s /\ q = d)
    BY <1>6, <2>2 DEF OpPlaces
  <2> QED
    BY <2>1, <2>2
<1>10. \A t \in States : Waiting(t)' = Waiting(t) \cup IF t = s THEN {o} ELSE {}
  <2>1. ASSUME NEW t \in States
        PROVE  ToSet(opQueue'[t]["in"]) \cup ToSet(opQueue'[t]["out"]) =
               ToSet(opQueue[t]["in"]) \cup ToSet(opQueue[t]["out"])
                 \cup IF t = s THEN {o} ELSE {}
    BY <1>1, <1>9 DEF Queues
  <2> QED
    BY <2>1 DEF Waiting
<1>11. AllWaiting' = AllWaiting \cup {o}
  BY <1>10 DEF AllWaiting
<1>12. Pending' = Pending \cup {o} /\ o \notin Pending
  BY <1>2, <1>4, <1>11 DEF Pending
<1>13. Cardinality(Pending') = Cardinality(Pending) + 1 /\ Cardinality(Pending) \in Nat
  BY <1>12, PendingChanges, PendingFinite
<1>14. WorkBalance' /\ outstanding' \in Nat
  BY <1>2, <1>13 DEF WorkBalance, TypeOK
<1>15. QueueShape'
  BY <1>2, QueueUnchanged
<1> QED
  BY <1>6, <1>8, <1>9, <1>10, <1>11, <1>14, <1>15 DEF d, HasJoined

\* What is to be tried still is when more is ready, listed or registered.
LEMMA TriedStill ==
  ASSUME NEW s, NEW f \in Fds, NEW q, WillTry(s, f, q),
         ready[f] \cap {q, "err"} \subseteq ready'[f],
         epoll'[f] = epoll[f], edge[f] => edge'[f],
         epoll[f] # None => (outBit[epoll[f]] => outBit'[epoll[f]]),
         ToSet(queue) \subseteq ToSet(queue'), UNCHANGED result,
         \/ UNCHANGED <<pc, current>>
         \/ current = s => result[s] \cap {q, "err"} = {}
  PROVE  WillTry(s, f, q)'
<1>1. Registered(f) \subseteq Registered(f)'
  BY DEF Registered
<1>2. Reported(f) \cap {q, "err"} \subseteq Reported(f)'
  BY <1>1 DEF Reported
<1> QED
  BY <1>2 DEF WillTry

\* A socket that may be used is not the one that is being closed.
LEMMA UsedNotClosing ==
  ASSUME Registration, NEW p \in Callers, NEW f \in Fds, MayUse(p, f)
  PROVE  f # closing
  BY ReactorConstants DEF Callers, MayUse, CanCall, Registration

\* The state of a socket is not that of another.
LEMMA OwnState ==
  ASSUME TypeOK, OpPlaces, Registration, NEW f \in Fds, NEW o \in Waiting(data[f]),
         data[f] \in States
  PROVE  Fd[o] = f
  BY WaitingPlace, ReactorConstants DEF Registration

\* A connect is decided at once, or waits on a socket that is not ready.
LEMMA ConnectStep ==
  ASSUME IInv, NEW p \in Callers, NEW o \in Ops, Connect(p, o)
  PROVE  IInv'
<1> SUFFICES ASSUME NEW f \in Fds, f = Fd[o] PROVE IInv'
  BY ReactorConstants
<1>1. /\ MayUse(p, f) /\ Kind[o] = "connect" /\ o \notin begun /\ conn[f] = "fresh"
      /\ begun' = begun \cup {o} /\ outside' = outside \ {f}
      /\ UNCHANGED <<stopping, stopped, work, pc, current, data, result, epoll, closing, aborted>>
  BY DEF Connect, runVars
<1>2. TypeOK /\ QueueShape /\ OpPlaces /\ Registration /\ Connecting
      /\ WorkBalance /\ NoneForgotten /\ ConnectDecided
  BY DEF IInv
<1>3. f # closing /\ data[f] \in States /\ epoll[f] = data[f]
  BY <1>1, <1>2, UsedNotClosing DEF Registration, TypeOK
<1>4. \A t \in States : \A x \in Waiting(t) : Fd[x] \in Fds /\ Fd[x] # f
  BY <1>1, <1>2, WaitingPlace
<1>5. \A x \in begun : Kind[x] = "connect" => Fd[x] # f
  BY <1>1, <1>2 DEF Connecting
<1>6. ASSUME NEW c \in {"up", "broken", "syn"},
             conn' = [conn EXCEPT ![f] = c], c = "syn" => ready'[f] = {},
             \A g \in Fds \ {f} : ready'[g] = ready[g]
      PROVE  Registration' /\ Connecting'
  <2>1. conn'[f] = c /\ \A g \in Fds \ {f} : conn'[g] = conn[g]
    BY <1>2, <1>6 DEF TypeOK
  <2>2. Registration'
    <3>1. closing # None => conn'[closing] # "none" /\ closing \notin outside'
      BY <1>1, <1>2, <1>3, <2>1 DEF Registration, TypeOK
    <3> QED
      BY <1>1, <1>2, <1>3, <2>1, <3>1, ReactorConstants DEF Registration
  <2>3. Connecting'
    BY <1>1, <1>2, <1>6, <2>1, ReactorConstants DEF Connecting, TypeOK
  <2> QED
    BY <2>2, <2>3
<1>7. ASSUME NEW c \in {"up", "broken"}, NEW r \in SUBSET Events,
             conn' = [conn EXCEPT ![f] = c], ready' = [ready EXCEPT ![f] = r],
             PostImmediate(o), UNCHANGED <<opQueue, outBit>>,
             edge' \in [Fds -> BOOLEAN], \A g \in Fds \ {f} : edge'[g] = edge[g]
      PROVE  IInv'
  <2>1. /\ queue' \in Seq(QueueElements) /\ ToSet(queue') = ToSet(queue) \cup {o}
        /\ QueueShape' /\ WorkBalance' /\ outstanding' \in Nat
    BY <1>1, <1>2, <1>7, PostedOnce
  <2>2. /\ conn'[f] = c /\ \A g \in Fds \ {f} : conn'[g] = conn[g] /\ ready'[g] = ready[g]
    BY <1>2, <1>7 DEF TypeOK
  <2>3. /\ AllWaiting' = AllWaiting /\ \A t \in States : Waiting(t)' = Waiting(t)
    BY <1>7 DEF AllWaiting, Waiting
  <2>4. TypeOK'
    BY <1>1, <1>2, <1>7, <2>1 DEF TypeOK, QueueElements, Conns
  <2>5. OpPlaces'
    <3>1. ASSUME NEW t \in States, NEW q \in Queues, NEW x \in ToSet(opQueue[t][q])
          PROVE  /\ x \in begun' /\ x \notin ToSet(queue') /\ Direction(x) = q
                 /\ data[Fd[x]] = t /\ conn'[Fd[x]] \notin {"none", "fresh"}
      <4>1. x \in Waiting(t)
        BY WaitingMembers
      <4> QED
        BY <1>1, <1>2, <1>4, <2>1, <2>2, <4>1 DEF OpPlaces
    <3> QED
      BY <1>1, <1>2, <1>7, <2>1, <3>1 DEF OpPlaces
  <2>6. Registration' /\ Connecting'
    BY <1>6, <1>7, <2>2
  <2>7. NoneForgotten'
    <3>1. SUFFICES ASSUME NEW t \in States, NEW x \in Waiting(t)
                   PROVE  /\ data'[Fd[x]] = t
                          /\ CanPerform(x)' => WillTry(t, Fd[x], Direction(x))'
      BY <2>3 DEF NoneForgotten
    <3> QED
      BY <1>1, <1>2, <1>4, <1>7, <2>1, <2>2, WaitingPlace, StillTried
  <2>8. ConnectDecided'
    <3>1. ASSUME NEW x \in begun', x \notin aborted \cup AllWaiting, Kind[x] = "connect"
          PROVE  conn'[Fd[x]] # "syn"
      <4>1. CASE x = o
        BY <2>2, <4>1
      <4>2. CASE x # o
        BY <1>1, <1>2, <1>5, <2>2, <3>1, <4>2, ReactorConstants DEF ConnectDecided, TypeOK
      <4> QED
        BY <4>1, <4>2
    <3> QED
      BY <1>1, <2>3, <3>1 DEF ConnectDecided
  <2> QED
    BY <2>1, <2>4, <2>5, <2>6, <2>7, <2>8 DEF IInv
<1>8. ASSUME conn' = [conn EXCEPT ![f] = "syn"], ready' = [ready EXCEPT ![f] = {}],
             Enqueue(o), Renew(f, {})
      PROVE  IInv'
  <2> SUFFICES ASSUME NEW s \in States, s = data[f] PROVE IInv'
    BY <1>3
  <2>1. outBit' = [outBit EXCEPT ![data[f]] = TRUE] /\ edge' = edge
    BY <1>2, <1>8 DEF Renew, TypeOK
  <2>2. Direction(o) = "out" /\ "out" \in Queues
    BY <1>1 DEF Direction, Queues
  <2>3. /\ opQueue' \in [States -> [Queues -> Seq(Ops)]]
        /\ \A t \in States, q \in Queues :
             /\ NoRepeat(opQueue'[t][q])
             /\ ToSet(opQueue'[t][q]) = ToSet(opQueue[t][q]) \cup
                  IF t = s /\ q = "out" THEN {o} ELSE {}
             /\ t # s \/ q # "out" => opQueue'[t][q] = opQueue[t][q]
        /\ \A t \in States : Waiting(t)' = Waiting(t) \cup IF t = s THEN {o} ELSE {}
        /\ AllWaiting' = AllWaiting \cup {o}
        /\ QueueShape' /\ WorkBalance' /\ outstanding' \in Nat
    <3>1. s = data[Fd[o]] /\ UNCHANGED <<work, pc, current>>
      BY <1>1
    <3>2. HasJoined(o, s, Direction(o))
      BY <1>1, <1>2, <1>8, <3>1, EnqueuedOnce
    <3>3. HasJoined(o, s, "out")
      BY <2>2, <3>2
    <3> QED
      BY <3>3 DEF HasJoined
  <2>4. /\ conn'[f] = "syn" /\ ready'[f] = {}
        /\ \A g \in Fds \ {f} : conn'[g] = conn[g] /\ ready'[g] = ready[g]
    BY <1>2, <1>8 DEF TypeOK
  <2>5. queue' = queue
    BY <1>8 DEF Enqueue
  <2>6. TypeOK'
    BY <1>1, <1>2, <1>8, <2>1, <2>3, <2>5 DEF TypeOK, Conns
  <2>7. OpPlaces'
    <3>1. ASSUME NEW t \in States, NEW q \in Queues, NEW x \in ToSet(opQueue'[t][q])
          PROVE  /\ x \in begun' /\ x \notin ToSet(queue) /\ Direction(x) = q
                 /\ data[Fd[x]] = t /\ conn'[Fd[x]] \notin {"none", "fresh"}
      <4>1. CASE x = o /\ t = s /\ q = "out"
        BY <1>1, <1>2, <2>2, <2>4, <4>1 DEF OpPlaces
      <4>2. CASE x \in ToSet(opQueue[t][q])
        <5>1. x \in Waiting(t)
          BY <4>2, WaitingMembers
        <5> QED
          BY <1>1, <1>2, <1>4, <2>4, <4>2, <5>1 DEF OpPlaces
      <4>3. ToSet(opQueue'[t][q]) = ToSet(opQueue[t][q]) \cup
               IF t = s /\ q = "out" THEN {o} ELSE {}
        BY <2>3
      <4> QED
        BY <4>1, <4>2, <4>3
    <3>2. \A t \in States : opQueue'[t]["out"] # <<>> => outBit'[t]
      BY <1>2, <2>1, <2>2, <2>3 DEF OpPlaces, TypeOK
    <3>3. ToSet(queue) \cap Ops \subseteq begun'
      BY <1>1, <1>2 DEF OpPlaces
    <3> QED
      BY <1>1, <2>3, <2>5, <3>1, <3>2, <3>3 DEF OpPlaces
  <2>8. Registration' /\ Connecting'
    BY <1>6, <1>8, <2>4
  <2>9. NoneForgotten'
    <3>1. SUFFICES ASSUME NEW t \in States, NEW x \in Waiting(t)'
                   PROVE  /\ data'[Fd[x]] = t
                          /\ CanPerform(x)' => WillTry(t, Fd[x], Direction(x))'
      BY DEF NoneForgotten
    <3>2. CASE x = o /\ t = s
      BY <1>1, <2>4, <3>2 DEF CanPerform
    <3>3. CASE x \in Waiting(t)
      <4>1. Fd[x] \in Fds /\ Fd[x] # f /\ data[Fd[x]] = t /\ ready'[Fd[x]] = ready[Fd[x]]
        BY <1>2, <1>4, <2>4, <3>3, WaitingPlace
      <4>2. CanPerform(x)' => WillTry(t, Fd[x], Direction(x))
        BY <1>2, <3>3, <4>1 DEF CanPerform, NoneForgotten
      <4>3. epoll[Fd[x]] # None => (outBit[epoll[Fd[x]]] => outBit'[epoll[Fd[x]]])
        BY <1>2, <2>1, <4>1 DEF TypeOK
      <4> QED
        BY <1>1, <2>1, <2>5, <4>1, <4>2, <4>3, TriedStill
    <3> QED
      BY <2>3, <3>2, <3>3
  <2>10. ConnectDecided'
    <3>1. ASSUME NEW x \in begun', x \notin aborted \cup AllWaiting', Kind[x] = "connect"
          PROVE  conn'[Fd[x]] # "syn"
      BY <1>1, <1>2, <1>5, <2>3, <2>4, <3>1, ReactorConstants DEF ConnectDecided, TypeOK
    <3> QED
      BY <1>1, <3>1 DEF ConnectDecided
  <2> QED
    BY <2>3, <2>6, <2>7, <2>8, <2>9, <2>10 DEF IInv
<1>9. CASE /\ conn' = [conn EXCEPT ![f] = "up"]
           /\ ready' = [ready EXCEPT ![f] = {"out"}]
           /\ PostImmediate(o)
           /\ UNCHANGED <<opQueue, outBit, edge>>
  BY <1>2, <1>7, <1>9 DEF TypeOK, Events
<1>10. CASE /\ conn' = [conn EXCEPT ![f] = "broken"]
            /\ Signal(f, Events)
            /\ PostImmediate(o)
            /\ UNCHANGED <<opQueue, outBit>>
  <2>1. edge' \in [Fds -> BOOLEAN] /\ \A g \in Fds \ {f} : edge'[g] = edge[g]
    BY <1>2, <1>10 DEF TypeOK, Signal
  <2> QED
    BY <1>7, <1>10, <2>1 DEF Signal
<1> QED
  BY <1>8, <1>9, <1>10 DEF Connect

\* A queue that has an element has a first one, which waits.
LEMMA FirstWaits ==
  ASSUME TypeOK, NEW s \in States, NEW q \in Queues
  PROVE  /\ opQueue[s][q] = <<>> => ToSet(opQueue[s][q]) = {}
         /\ opQueue[s][q] # <<>> => Head(opQueue[s][q]) \in ToSet(opQueue[s][q])
<1> DEFINE w == opQueue[s][q]
<1>1. w \in Seq(Ops)
  BY QueueTypes
<1> HIDE DEF w
<1>2. w = <<>> => ToSet(w) = {}
  BY ToSetEmpty
<1>3. w # <<>> => Head(w) \in ToSet(w)
  BY <1>1, ToSetTail
<1> QED
  BY <1>2, <1>3 DEF w

\* What the start of a read or a write leaves as it was.
LEMMA StartKeeps ==
  ASSUME IInv, NEW p \in Callers, NEW o \in Ops, Start(p, o)
  PROVE  /\ o \notin begun /\ begun' = begun \cup {o} /\ Kind[o] # "connect"
         /\ Fd[o] \in Fds /\ Fd[o] # closing
         /\ conn[Fd[o]] \notin {"none", "fresh", "syn"}
         /\ UNCHANGED <<stopping, stopped, work, pc, current, data, result, conn, epoll, closing,
                        aborted>>
         /\ outside' = outside \ {Fd[o]}
         /\ Registration'
         /\ \A x \in begun' : Kind[x] = "connect" => conn[Fd[x]] \notin {"none", "fresh"}
<1>1. /\ o \notin begun /\ begun' = begun \cup {o} /\ Kind[o] # "connect"
      /\ outside' = outside \ {Fd[o]} /\ MayUse(p, Fd[o])
      /\ conn[Fd[o]] \notin {"none", "fresh", "syn"}
      /\ UNCHANGED <<stopping, stopped, work, pc, current, data, result, conn, epoll, closing, aborted>>
  BY DEF Start, runVars
<1>2. Fd[o] \in Fds /\ Fd[o] # closing
  BY <1>1, UsedNotClosing, ReactorConstants DEF IInv
<1>3. Registration'
  BY <1>1 DEF IInv, Registration
<1>4. \A x \in begun' : Kind[x] = "connect" => conn[Fd[x]] \notin {"none", "fresh"}
  BY <1>1 DEF IInv, Connecting
<1> QED
  BY <1>1, <1>2, <1>3, <1>4

\* An operation that ends at once: what it may have taken was not what another
\* one waits for.
LEMMA TransferAtOnce ==
  ASSUME IInv, NEW p \in Callers, NEW o \in Ops, Start(p, o), PostImmediate(o),
         UNCHANGED <<opQueue, outBit, edge>>,
         NEW r \in SUBSET Events, ready' = [ready EXCEPT ![Fd[o]] = r],
         r \subseteq ready[Fd[o]],
         \A s \in States : \A x \in Waiting(s) :
           Fd[x] = Fd[o] => ready[Fd[o]] \cap {Direction(x), "err"} \subseteq r
  PROVE  IInv'
<1>1. /\ o \notin begun /\ begun' = begun \cup {o} /\ Kind[o] # "connect"
      /\ Fd[o] \in Fds /\ conn[Fd[o]] \notin {"none", "fresh", "syn"}
      /\ UNCHANGED <<stopping, stopped, work, pc, current, data, result, conn, epoll, closing, aborted>>
      /\ outside' = outside \ {Fd[o]}
      /\ Registration'
      /\ \A x \in begun' : Kind[x] = "connect" => conn[Fd[x]] \notin {"none", "fresh"}
  BY StartKeeps
<1>2. TypeOK /\ QueueShape /\ OpPlaces /\ Connecting
      /\ WorkBalance /\ NoneForgotten /\ ConnectDecided
  BY DEF IInv
<1>3. /\ queue' \in Seq(QueueElements) /\ ToSet(queue') = ToSet(queue) \cup {o}
      /\ QueueShape' /\ WorkBalance' /\ outstanding' \in Nat
  BY <1>1, <1>2, PostedOnce
<1>4. /\ ready'[Fd[o]] = r /\ \A g \in Fds \ {Fd[o]} : ready'[g] = ready[g]
      /\ ready' \in [Fds -> SUBSET Events]
  BY <1>1, <1>2 DEF TypeOK
<1>5. AllWaiting' = AllWaiting /\ \A t \in States : Waiting(t)' = Waiting(t)
  BY DEF AllWaiting, Waiting
<1>6. TypeOK'
  BY <1>1, <1>2, <1>3, <1>4 DEF TypeOK, QueueElements
<1>7. OpPlaces'
  <2>1. ASSUME NEW t \in States, NEW q \in Queues, NEW x \in ToSet(opQueue[t][q])
        PROVE  /\ x \in begun' /\ x \notin ToSet(queue') /\ Direction(x) = q
               /\ data[Fd[x]] = t /\ conn[Fd[x]] \notin {"none", "fresh"}
    BY <1>1, <1>2, <1>3 DEF OpPlaces
  <2> QED
    BY <1>1, <1>2, <1>3, <2>1 DEF OpPlaces
<1>8. Connecting'
  BY <1>1, <1>2, <1>4 DEF Connecting
<1>9. NoneForgotten'
  <2>1. SUFFICES ASSUME NEW t \in States, NEW x \in Waiting(t)
                 PROVE  /\ data'[Fd[x]] = t
                        /\ CanPerform(x)' => WillTry(t, Fd[x], Direction(x))'
    BY <1>5 DEF NoneForgotten
  <2>2. Fd[x] \in Fds /\ data[Fd[x]] = t
    BY <1>2, WaitingPlace
  <2>3. /\ ready'[Fd[x]] \subseteq ready[Fd[x]]
        /\ ready[Fd[x]] \cap {Direction(x), "err"} \subseteq ready'[Fd[x]]
    BY <1>4, <2>2
  <2>4. CanPerform(x)' => WillTry(t, Fd[x], Direction(x))
    BY <1>2, <2>3 DEF CanPerform, NoneForgotten
  <2> QED
    BY <1>1, <1>3, <2>2, <2>3, <2>4, TriedStill
<1>10. ConnectDecided'
  BY <1>1, <1>2, <1>5 DEF ConnectDecided
<1> QED
  BY <1>1, <1>3, <1>6, <1>7, <1>8, <1>9, <1>10 DEF IInv

\* An operation that has to wait: it was tried, or one in front of it will be.
LEMMA TransferLater ==
  ASSUME IInv, NEW p \in Callers, NEW o \in Ops, Start(p, o), Enqueue(o),
         NEW s \in States, s = data[Fd[o]], UNCHANGED ready,
         opQueue[s][Direction(o)] # <<>> \/ ~CanPerform(o),
         \/ Renew(Fd[o], ready[Fd[o]])
         \/ /\ UNCHANGED <<outBit, edge>>
            /\ Direction(o) = "out" => opQueue[s]["out"] # <<>> \/ outBit[s]
  PROVE  IInv'
<1> DEFINE f == Fd[o]
           d == Direction(o)
<1>1. /\ o \notin begun /\ begun' = begun \cup {o} /\ Kind[o] # "connect"
      /\ f \in Fds /\ f # closing /\ conn[f] \notin {"none", "fresh", "syn"}
      /\ UNCHANGED <<stopping, stopped, work, pc, current, data, result, conn, epoll, closing, aborted>>
      /\ outside' = outside \ {f}
      /\ Registration'
      /\ \A x \in begun' : Kind[x] = "connect" => conn[Fd[x]] \notin {"none", "fresh"}
  BY StartKeeps
<1>2. TypeOK /\ QueueShape /\ OpPlaces /\ Registration /\ Connecting
      /\ WorkBalance /\ NoneForgotten /\ ConnectDecided
  BY DEF IInv
<1>3. /\ opQueue' \in [States -> [Queues -> Seq(Ops)]]
      /\ \A t \in States, q \in Queues :
           /\ NoRepeat(opQueue'[t][q])
           /\ ToSet(opQueue'[t][q]) = ToSet(opQueue[t][q]) \cup
                IF t = s /\ q = d THEN {o} ELSE {}
           /\ t # s \/ q # d => opQueue'[t][q] = opQueue[t][q]
      /\ \A t \in States : Waiting(t)' = Waiting(t) \cup IF t = s THEN {o} ELSE {}
      /\ AllWaiting' = AllWaiting \cup {o}
      /\ QueueShape' /\ WorkBalance' /\ outstanding' \in Nat
  <2>1. o \notin begun /\ UNCHANGED <<work, pc, current>>
        /\ TypeOK /\ OpPlaces /\ QueueShape /\ WorkBalance
    BY <1>1, <1>2
  <2>2. HasJoined(o, s, d)
    BY <2>1, EnqueuedOnce
  <2> QED
    BY <2>2 DEF HasJoined
<1>4. queue' = queue /\ d \in Queues /\ data[f] = s
  BY DEF Enqueue, Direction, Queues
<1>5. /\ outBit' \in [States -> BOOLEAN] /\ edge' \in [Fds -> BOOLEAN]
      /\ \A t \in States : outBit[t] => outBit'[t]
      /\ \A g \in Fds : edge[g] => edge'[g]
      /\ d = "out" => opQueue[s]["out"] # <<>> \/ outBit'[s]
  <2>1. CASE Renew(f, ready[f])
    BY <1>1, <1>2, <1>4, <2>1 DEF Renew, TypeOK
  <2>2. CASE /\ UNCHANGED <<outBit, edge>>
             /\ Direction(o) = "out" => opQueue[s]["out"] # <<>> \/ outBit[s]
    BY <1>2, <2>2 DEF TypeOK
  <2> QED
    BY <2>1, <2>2
<1>6. TypeOK'
  BY <1>1, <1>2, <1>3, <1>4, <1>5 DEF TypeOK
<1>7. OpPlaces'
  <2>4. ASSUME NEW t \in States, NEW q \in Queues
        PROVE  ToSet(opQueue'[t][q]) =
                 ToSet(opQueue[t][q]) \cup IF t = s /\ q = d THEN {o} ELSE {}
    BY ONLY <1>3, <2>4
  <2>1. ASSUME NEW t \in States, NEW q \in Queues, NEW x \in ToSet(opQueue'[t][q])
        PROVE  /\ x \in begun' /\ x \notin ToSet(queue) /\ Direction(x) = q
               /\ data[Fd[x]] = t /\ conn[Fd[x]] \notin {"none", "fresh"}
    <3>1. CASE x = o /\ t = s /\ q = d
      BY <1>1, <1>2, <1>4, <3>1 DEF OpPlaces
    <3>2. CASE x \in ToSet(opQueue[t][q])
      BY <1>1, <1>2, <3>2 DEF OpPlaces
    <3>3. x \in ToSet(opQueue[t][q]) \cup IF t = s /\ q = d THEN {o} ELSE {}
      BY <2>1, <2>4
    <3> QED
      BY <3>1, <3>2, <3>3
  <2>2. \A t \in States : opQueue'[t]["out"] # <<>> => outBit'[t]
    <3>1. "out" \in Queues /\ \A t \in States : opQueue[t]["out"] # <<>> => outBit[t]
      BY <1>2 DEF OpPlaces, Queues
    <3>2. ASSUME NEW t \in States, opQueue'[t]["out"] # <<>>, ~(t = s /\ d = "out")
          PROVE  outBit'[t]
      <4>1. t # s \/ "out" # d => opQueue'[t]["out"] = opQueue[t]["out"]
        BY <1>3, <3>1
      <4> QED
        BY <1>5, <3>1, <3>2, <4>1
    <3>3. d = "out" => outBit'[s]
      BY <1>5, <3>1
    <3> QED
      BY <3>2, <3>3
  <2>3. ToSet(queue) \cap Ops \subseteq begun'
    BY <1>1, <1>2 DEF OpPlaces
  <2> QED
    BY <1>1, <1>3, <1>4, <2>1, <2>2, <2>3 DEF OpPlaces
<1>8. Connecting'
  BY <1>1, <1>2 DEF Connecting
<1>9. NoneForgotten'
  <2>1. SUFFICES ASSUME NEW t \in States, NEW x \in Waiting(t)'
                 PROVE  /\ data'[Fd[x]] = t
                        /\ CanPerform(x)' => WillTry(t, Fd[x], Direction(x))'
    BY DEF NoneForgotten
  <2>2. ASSUME NEW y \in Waiting(t), CanPerform(y)
        PROVE  WillTry(t, Fd[y], Direction(y))'
    <3>1. Fd[y] \in Fds /\ WillTry(t, Fd[y], Direction(y))
      BY <1>2, <2>2, WaitingPlace DEF NoneForgotten
    <3>2. epoll[Fd[y]] # None => (outBit[epoll[Fd[y]]] => outBit'[epoll[Fd[y]]])
      BY <1>2, <1>5, <3>1 DEF TypeOK
    <3> QED
      BY <1>1, <1>4, <1>5, <3>1, <3>2, TriedStill
  <2>3. CASE x \in Waiting(t)
    BY <1>1, <1>2, <2>2, <2>3, WaitingPlace DEF CanPerform
  <2>4. CASE x = o /\ t = s
    <3>1. SUFFICES ASSUME CanPerform(o) PROVE WillTry(s, f, d)'
      BY <1>1, <1>4, <2>4 DEF CanPerform
    <3>2. PICK y : y \in ToSet(opQueue[s][d])
      BY <1>2, <1>4, <3>1, FirstWaits
    <3>3. y \in Waiting(s) /\ Direction(y) = d /\ Fd[y] = f
      BY <1>1, <1>2, <1>4, <3>2, WaitingMembers, WaitingPlace, ReactorConstants
         DEF OpPlaces, Registration
    <3>4. CanPerform(y)
      BY <3>1, <3>3 DEF CanPerform
    <3> QED
      BY <2>2, <2>4, <3>3, <3>4
  <2> QED
    BY <1>3, <2>3, <2>4
<1>10. ConnectDecided'
  <2>1. ASSUME NEW x \in begun', x \notin aborted \cup AllWaiting', Kind[x] = "connect"
        PROVE  conn[Fd[x]] # "syn"
    BY <1>1, <1>2, <1>3, <2>1 DEF ConnectDecided
  <2> QED
    BY <1>1, <2>1 DEF ConnectDecided
<1> QED
  BY <1>1, <1>3, <1>6, <1>7, <1>8, <1>9, <1>10 DEF IInv

LEMMA TransferStep ==
  ASSUME IInv, NEW p \in Callers, NEW o \in Ops, Transfer(p, o)
  PROVE  IInv'
<1> DEFINE f == Fd[o]
<1>1. Start(p, o) /\ f \in Fds /\ Direction(o) \in Queues
  BY ReactorConstants DEF Transfer, Direction, Queues
<1>2. TypeOK /\ OpPlaces /\ Registration
  BY DEF IInv
<1>3. ready[f] \in SUBSET Events /\ ready = [ready EXCEPT ![f] = ready[f]]
  BY <1>1, <1>2 DEF TypeOK
<1>4. CASE data[f] = None /\ PostImmediate(o) /\ UNCHANGED <<opQueue, outBit, edge, ready>>
  BY <1>1, <1>3, <1>4, TransferAtOnce
<1>5. ASSUME NEW s \in States, data[f] = s, opQueue[s][Direction(o)] = <<>>,
             CanPerform(o), PostImmediate(o), NEW left \in Leftovers(o),
             ready' = [ready EXCEPT ![f] = left], UNCHANGED <<opQueue, outBit, edge>>
      PROVE  IInv'
  <2>1. \/ left = ready[f]
        \/ left = ready[f] \ {Direction(o)} /\ "err" \notin ready[f]
    BY <1>5 DEF Leftovers
  <2>2. ASSUME NEW t \in States, NEW x \in Waiting(t), Fd[x] = f
        PROVE  ready[f] \cap {Direction(x), "err"} \subseteq left
    <3>1. t = s /\ x \in ToSet(opQueue[s][Direction(x)])
      BY <1>2, <1>5, <2>2, WaitingPlace
    <3>2. Direction(x) # Direction(o)
      BY <1>1, <1>2, <1>5, <3>1, FirstWaits
    <3> QED
      BY <2>1, <3>2
  <2> QED
    BY <1>1, <1>3, <1>5, <2>1, <2>2, TransferAtOnce
<1>6. ASSUME NEW s \in States, data[f] = s,
             ~(opQueue[s][Direction(o)] = <<>> /\ CanPerform(o)), Enqueue(o), UNCHANGED ready,
             IF opQueue[s][Direction(o)] = <<>> /\ Kind[o] = "write" /\ ~outBit[s]
             THEN Renew(f, ready[f])
             ELSE UNCHANGED <<outBit, edge>>
      PROVE  IInv'
  <2>1. Direction(o) = "out" => Kind[o] = "write"
    BY <1>1, ReactorConstants DEF Start, Direction
  <2> QED
    BY <1>1, <1>6, <2>1, TransferLater
<1>7. data[f] # None => data[f] \in States
  BY <1>1, <1>2 DEF TypeOK
<1> QED
  BY <1>4, <1>5, <1>6, <1>7 DEF Transfer

-----------------------------------------------------------------------------
(* The reactor runs.                                                        *)

\* The task is put last, behind distinct descriptors.
LEMMA TaskLast ==
  ASSUME NEW w \in Seq(Ops), NoRepeat(w), NEW m \in Seq(States), NoRepeat(m),
         NEW t, t = Append(m, Task), NEW x, x = w \o t
  PROVE  /\ x \in Seq(QueueElements) /\ NoRepeat(x)
         /\ ToSet(x) = ToSet(w) \cup ToSet(m) \cup {Task}
         /\ \E k \in DOMAIN x :
              /\ x[k] = Task
              /\ \A i \in DOMAIN x : x[i] \in States => i < k
<1>1. /\ w \in Seq(QueueElements) /\ m \in Seq(QueueElements) /\ Task \in QueueElements
      /\ ToSet(w) \subseteq Ops /\ ToSet(m) \subseteq States
  BY ToSetDef DEF QueueElements
<1>2. /\ t \in Seq(QueueElements) /\ NoRepeat(t) /\ ToSet(t) = ToSet(m) \cup {Task}
      /\ Len(t) = Len(m) + 1 /\ t[Len(m) + 1] = Task
  <2>1. Task \notin ToSet(m)
    BY <1>1, ReactorConstants
  <2>2. /\ t \in Seq(QueueElements) /\ Len(t) = Len(m) + 1 /\ NoRepeat(t)
        /\ ToSet(t) = ToSet(m) \cup {Task}
    BY <1>1, <2>1, ToSetAppend
  <2>3. t[Len(m) + 1] = Task
    BY <1>1, AppendProperties
  <2> QED
    BY <2>2, <2>3
<1>3. /\ x \in Seq(QueueElements) /\ NoRepeat(x) /\ ToSet(x) = ToSet(w) \cup ToSet(t)
  <2>1. ToSet(w) \cap ToSet(t) = {}
    BY <1>1, <1>2, ReactorConstants
  <2> QED
    BY <1>1, <1>2, <2>1, ToSetConcat
<1>4. /\ Len(w) \in Nat /\ Len(m) \in Nat
      /\ DOMAIN x = 1 .. Len(w) + Len(m) + 1 /\ x[Len(w) + Len(m) + 1] = Task
  <2>1. /\ Len(w) \in Nat /\ Len(t) \in Nat /\ Len(m) \in Nat
        /\ DOMAIN x = 1 .. Len(x) /\ Len(x) = Len(w) + Len(t)
        /\ \A i \in 1 .. Len(x) : x[i] = IF i <= Len(w) THEN w[i] ELSE t[i - Len(w)]
    <3>1. w \in Seq(QueueElements) /\ t \in Seq(QueueElements) /\ x \in Seq(QueueElements)
          /\ m \in Seq(QueueElements)
      BY <1>1, <1>2, <1>3
    <3>2. /\ Len(w) \in Nat /\ Len(t) \in Nat /\ Len(m) \in Nat
          /\ DOMAIN x = 1 .. Len(x)
      BY <3>1, LenProperties
    <3>3. /\ Len(w \o t) = Len(w) + Len(t)
          /\ \A i \in 1 .. Len(w \o t) :
               (w \o t)[i] = IF i <= Len(w) THEN w[i] ELSE t[i - Len(w)]
      BY <3>1, ConcatProperties
    <3> QED
      BY <3>2, <3>3, Zenon
  <2>2. Len(w) + Len(m) + 1 \in 1 .. Len(x) /\ ~(Len(w) + Len(m) + 1 <= Len(w))
        /\ Len(w) + Len(m) + 1 - Len(w) = Len(m) + 1
    BY <1>2, <2>1
  <2> QED
    BY <1>2, <2>1, <2>2
<1>5. \A i \in DOMAIN x : x[i] \in States => i < Len(w) + Len(m) + 1
  BY <1>4, ReactorConstants
<1>6. Len(w) + Len(m) + 1 \in DOMAIN x
  BY <1>4
<1> QED
  BY <1>2, <1>3, <1>4, <1>5, <1>6

\* Every listed socket has its descriptor queued with the events; no descriptor
\* was queued, so no events are overwritten.
LEMMA RunReactorStep == ASSUME IInv, RunReactor PROVE IInv'
<1>1. /\ pc = "reactor" /\ pc' = "loop"
      /\ result' = [s \in States |->
           LET fs == {f \in Listed : epoll[f] = s} IN
           IF fs = {} THEN result[s] ELSE Reported(CHOOSE f \in fs : TRUE)]
      /\ edge' = [f \in Fds |-> FALSE]
      /\ UNCHANGED <<outstanding, stopping, stopped, work, current, data, opQueue, outBit, conn,
                     ready, epoll, closing, outside, begun, aborted>>
  BY DEF RunReactor, descVars
<1>2. TypeOK /\ QueueShape /\ OpPlaces /\ Registration /\ Connecting
      /\ WorkBalance /\ NoneForgotten /\ ConnectDecided
  BY DEF IInv
<1>3. PICK order \in SetToSeqs(Listed) :
        queue' = queue \o ([i \in DOMAIN order |-> epoll[order[i]]] \o <<Task>>)
  BY DEF RunReactor, Dispatched
<1> DEFINE m == [i \in DOMAIN order |-> epoll[order[i]]]
<1>4. /\ Listed \subseteq Fds
      /\ \A f \in Listed : epoll[f] \in States /\ epoll[f] = data[f]
      /\ \A f, g \in Listed : epoll[f] = epoll[g] => f = g
  <2>1. Listed \subseteq Fds /\ \A f \in Listed : epoll[f] # None
    BY DEF Listed, Reported, Registered
  <2>2. closing = None
    BY <1>1, <1>2 DEF Registration
  <2>3. \A f \in Listed : epoll[f] \in States /\ epoll[f] = data[f]
    BY <1>2, <2>1, <2>2, ReactorConstants DEF Registration, TypeOK
  <2> QED
    BY <1>2, <2>1, <2>3 DEF Registration
<1>5. order \in Seq(Listed) /\ ToSet(order) = Listed /\ NoRepeat(order)
  BY <1>4, SetToSeqsProperties, FS_Subset, ReactorConstants
<1>6. /\ DOMAIN order = 1 .. Len(order) /\ Len(order) \in Nat
      /\ \A i \in 1 .. Len(order) : order[i] \in Listed
      /\ ToSet(order) = {order[i] : i \in 1 .. Len(order)}
  BY <1>5, LenProperties, ToSetDef
<1>7. m \in Seq(States) /\ NoRepeat(m) /\ ToSet(m) = {epoll[f] : f \in Listed}
  <2>1. /\ m \in [1 .. Len(order) -> States] /\ \A i \in 1 .. Len(order) : m[i] = epoll[order[i]]
    BY <1>4, <1>6
  <2>2. m \in Seq(States) /\ Len(m) = Len(order)
    BY <1>6, <2>1
  <2> HIDE DEF m
  <2>3. NoRepeat(m)
    BY <1>4, <1>5, <1>6, <2>1, <2>2 DEF NoRepeat
  <2>4. ToSet(m) = {m[i] : i \in 1 .. Len(order)}
    BY <2>2, ToSetDef
  <2>5. ToSet(m) = {epoll[order[i]] : i \in 1 .. Len(order)}
    BY <2>1, <2>4
  <2>6. \A f \in Listed : \E i \in 1 .. Len(order) : order[i] = f
    BY <1>5, <1>6
  <2>7. ToSet(m) = {epoll[f] : f \in Listed}
    BY <1>6, <2>5, <2>6
  <2> QED
    BY <2>2, <2>3, <2>7
<1> HIDE DEF m
<1>8. queue \in Seq(Ops) /\ NoRepeat(queue) /\ ToSet(queue) \subseteq Ops
  <2>1. queue \in Seq(QueueElements) /\ ToSet(queue) \subseteq Ops /\ NoRepeat(queue)
    BY <1>1, <1>2, QueueTypes DEF QueueShape
  <2>2. /\ queue \in [1 .. Len(queue) -> QueueElements] /\ Len(queue) \in Nat
        /\ ToSet(queue) = {queue[i] : i \in 1 .. Len(queue)}
    BY <2>1, LenProperties, ToSetDef
  <2>3. queue \in [1 .. Len(queue) -> Ops]
    BY <2>1, <2>2
  <2> QED
    BY <2>1, <2>2, <2>3
<1>9. /\ queue' \in Seq(QueueElements) /\ NoRepeat(queue')
      /\ ToSet(queue') = ToSet(queue) \cup ToSet(m) \cup {Task}
      /\ \E k \in DOMAIN queue' :
           /\ queue'[k] = Task
           /\ \A i \in DOMAIN queue' : queue'[i] \in States => i < k
  <2>1. queue' = queue \o Append(m, Task)
    <3>1. Append(m, Task) = m \o <<Task>>
      BY <1>7, AppendIsConcat DEF QueueElements
    <3> QED
      BY <1>3, <3>1 DEF m
  <2>2. ASSUME NEW w \in Seq(Ops), NoRepeat(w), NEW x, x = w \o Append(m, Task)
        PROVE  /\ x \in Seq(QueueElements) /\ NoRepeat(x)
               /\ ToSet(x) = ToSet(w) \cup ToSet(m) \cup {Task}
               /\ \E k \in DOMAIN x :
                    /\ x[k] = Task
                    /\ \A i \in DOMAIN x : x[i] \in States => i < k
    BY <1>7, <2>2, TaskLast
  <2> QED
    BY <1>8, <2>1, <2>2
<1>10. ToSet(queue') \cap Ops = ToSet(queue) /\ ToSet(queue) \cap States = {}
  BY <1>4, <1>7, <1>8, <1>9, ReactorConstants
<1>11. /\ Pending' = Pending /\ AllWaiting' = AllWaiting
       /\ \A s \in States : Waiting(s)' = Waiting(s)
  BY <1>1, <1>8, <1>10 DEF Pending, AllWaiting, Waiting
<1>12. \A f \in Listed : result'[epoll[f]] = Reported(f)
  <2>1. SUFFICES ASSUME NEW f \in Listed PROVE result'[epoll[f]] = Reported(f)
    OBVIOUS
  <2>2. {g \in Listed : epoll[g] = epoll[f]} = {f}
    BY <1>4
  <2>3. epoll[f] \in States
    BY <1>4
  <2> QED
    BY <1>1, <2>2, <2>3
<1>13. TypeOK'
  <2>1. \A f \in Fds : Reported(f) \in SUBSET Events
    BY <1>2 DEF Reported, TypeOK
  <2>2. ASSUME NEW s \in States PROVE result'[s] \in SUBSET Events
    <3>1. CASE \E f \in Listed : epoll[f] = s
      BY <1>4, <1>12, <2>1, <3>1
    <3>2. CASE ~\E f \in Listed : epoll[f] = s
      <4>1. result'[s] = result[s]
        BY <1>1, <3>2
      <4> QED
        BY <1>2, <4>1 DEF TypeOK
    <3> QED
      BY <3>1, <3>2
  <2>3. result' \in [States -> SUBSET Events]
    BY <1>1, <2>2
  <2> QED
    BY <1>1, <1>2, <1>9, <2>3 DEF TypeOK, QueueElements
<1>14. QueueShape'
  BY <1>1, <1>9 DEF QueueShape
<1>15. OpPlaces'
  <2>1. ASSUME NEW s \in States, NEW q \in Queues, NEW o \in ToSet(opQueue[s][q])
        PROVE  o \notin ToSet(queue')
    <3>1. o \in Ops /\ o \notin ToSet(queue)
      BY <1>2, WaitingMembers, WaitingPlace
    <3> QED
      BY <1>10, <3>1
  <2> QED
    BY <1>1, <1>2, <1>8, <1>10, <2>1 DEF OpPlaces
<1>16. Registration' /\ Connecting'
  BY <1>1, <1>2 DEF Registration, Connecting
<1>17. WorkBalance'
  BY <1>1, <1>2, <1>11 DEF WorkBalance
<1>18. NoneForgotten'
  <2>1. SUFFICES ASSUME NEW s \in States, NEW o \in Waiting(s)
                 PROVE  /\ data'[Fd[o]] = s
                        /\ CanPerform(o)' => WillTry(s, Fd[o], Direction(o))'
    BY <1>11 DEF NoneForgotten
  <2>2. Fd[o] \in Fds /\ data[Fd[o]] = s
    BY <1>2, WaitingPlace
  <2>3. SUFFICES ASSUME CanPerform(o) PROVE WillTry(s, Fd[o], Direction(o))'
    BY <1>1, <2>2 DEF CanPerform
  <2>4. edge[Fd[o]] /\ Reported(Fd[o]) \cap {Direction(o), "err"} # {}
    BY <1>1, <1>2, <1>10, <2>3 DEF NoneForgotten, WillTry
  <2>5. Fd[o] \in Listed
    BY <2>2, <2>4 DEF Listed
  <2>6. result'[s] = Reported(Fd[o]) /\ s \in ToSet(queue')
    BY <1>4, <1>7, <1>9, <1>12, <2>2, <2>5
  <2> QED
    BY <2>4, <2>6 DEF WillTry
<1>19. ConnectDecided'
  BY <1>1, <1>2, <1>11 DEF ConnectDecided
<1> QED
  BY <1>13, <1>14, <1>15, <1>16, <1>17, <1>18, <1>19 DEF IInv

-----------------------------------------------------------------------------
(* A descriptor performs its I/O.                                           *)

\* How many operations of a direction are performed, and why not more.
LEMMA PerformableCount ==
  ASSUME TypeOK, NEW s \in States, s = current, NEW q \in Queues, NEW n \in Performable(q)
  PROVE  /\ n \in 0 .. Len(opQueue[s][q])
         /\ n > 0 => /\ opQueue[s][q] # <<>> /\ CanPerform(Head(opQueue[s][q]))
                     /\ "err" \in ready[Fd[Head(opQueue[s][q])]] => n = Len(opQueue[s][q])
         /\ n = 0 => \/ result[s] \cap {q, "err"} = {} \/ opQueue[s][q] = <<>>
                     \/ ~CanPerform(Head(opQueue[s][q]))
<1> DEFINE w == opQueue[s][q]
<1>1. w \in Seq(Ops) /\ Len(w) \in Nat /\ (w # <<>> => Len(w) \in Nat \ {0})
  <2>1. w \in Seq(Ops)
    BY QueueTypes
  <2> HIDE DEF w
  <2> QED
    BY <2>1, EmptySeq, LenProperties
<1>2. CASE result[s] \cap {q, "err"} = {} \/ w = <<>> \/ ~CanPerform(Head(w))
  <2>1. n = 0
    BY <1>2 DEF Performable
  <2> QED
    BY <1>1, <1>2, <2>1
<1>3. CASE ~(result[s] \cap {q, "err"} = {} \/ w = <<>> \/ ~CanPerform(Head(w)))
  <2>1. /\ w # <<>> /\ CanPerform(Head(w))
        /\ n \in IF "err" \in ready[Fd[Head(w)]] THEN {Len(w)} ELSE 1 .. Len(w)
    BY <1>3 DEF Performable
  <2> QED
    BY <1>1, <2>1
<1> QED
  BY <1>2, <1>3

\* The completed operations leave the descriptor, the first to be executed, the
\* others for the queue.
LEMMA PerformIoStep == ASSUME IInv, PerformIo PROVE IInv'
<1> SUFFICES ASSUME NEW s \in States, s = current PROVE IInv'
  BY DEF IInv, QueueShape, PerformIo
<1>1. PICK out \in Performable("out"), in \in Performable("in"), drained \in SUBSET Queues :
        LET performed == [q \in Queues |-> IF q = "out" THEN out ELSE in]
            Done(q) == SubSeq(opQueue[current][q], 1, performed[q])
            done == Done("out") \o Done("in") IN
        /\ \A q \in Queues : Exhausts(q, performed[q], q \in drained)
        /\ opQueue' = [opQueue EXCEPT ![current] = [q \in Queues |->
             SubSeq(@[q], performed[q] + 1, Len(@[q]))]]
        /\ ready' = [f \in Fds |-> ready[f] \ {q \in drained : Fd[Done(q)[1]] = f}]
        /\ outstanding' = outstanding + Compensation(done)
        /\ IF done = <<>>
           THEN pc' = "finish" /\ current' = None /\ UNCHANGED queue
           ELSE /\ pc' = "handler" /\ current' = Head(done)
                /\ queue' = queue \o Tail(done)
  BY DEF PerformIo
<1>2. pc = "perform" /\ UNCHANGED <<stopping, stopped, work, data, outBit, result, conn, edge, epoll,
                                    closing, outside, begun, aborted>>
  BY DEF PerformIo
<1>3. TypeOK /\ QueueShape /\ OpPlaces /\ Registration /\ Connecting
      /\ WorkBalance /\ NoneForgotten /\ ConnectDecided
  BY DEF IInv
<1> DEFINE n == [q \in Queues |-> IF q = "out" THEN out ELSE in]
           a == [q \in Queues |-> SubSeq(opQueue[s][q], 1, n[q])]
           b == [q \in Queues |-> SubSeq(opQueue[s][q], n[q] + 1, Len(opQueue[s][q]))]
           done == a["out"] \o a["in"]
<1>4. /\ opQueue' = [opQueue EXCEPT ![s] = b]
      /\ ready' = [f \in Fds |-> ready[f] \ {q \in drained : Fd[a[q][1]] = f}]
      /\ outstanding' = outstanding + Compensation(done)
      /\ done = <<>> => pc' = "finish" /\ current' = None /\ UNCHANGED queue
      /\ done # <<>> => /\ pc' = "handler" /\ current' = Head(done)
                        /\ queue' = queue \o Tail(done)
      /\ \A q \in Queues : Exhausts(q, n[q], q \in drained)
  <2>1. "in" \in Queues /\ "out" \in Queues /\ \A q \in drained : q \in Queues
    BY DEF Queues
  <2> QED
    BY <1>1, <2>1
<1>5. \A q \in Queues :
        /\ n[q] \in Nat /\ n[q] <= Len(opQueue[s][q]) /\ Len(opQueue[s][q]) \in Nat
        /\ a[q] \in Seq(Ops) /\ NoRepeat(a[q]) /\ (n[q] = 0 => a[q] = <<>>)
        /\ b[q] \in Seq(Ops) /\ NoRepeat(b[q]) /\ (n[q] = Len(opQueue[s][q]) => b[q] = <<>>)
        /\ ToSet(opQueue[s][q]) = ToSet(a[q]) \cup ToSet(b[q])
        /\ ToSet(a[q]) \cap ToSet(b[q]) = {}
        /\ n[q] > 0 => a[q][1] \in ToSet(a[q])
        /\ n[q] > 0 => /\ opQueue[s][q] # <<>> /\ CanPerform(Head(opQueue[s][q]))
                       /\ "err" \in ready[Fd[Head(opQueue[s][q])]] => n[q] = Len(opQueue[s][q])
        /\ n[q] = 0 => \/ result[s] \cap {q, "err"} = {} \/ opQueue[s][q] = <<>>
                       \/ ~CanPerform(Head(opQueue[s][q]))
  <2>1. SUFFICES ASSUME NEW q \in Queues
        PROVE  /\ n[q] \in Nat /\ n[q] <= Len(opQueue[s][q]) /\ Len(opQueue[s][q]) \in Nat
               /\ a[q] \in Seq(Ops) /\ NoRepeat(a[q]) /\ (n[q] = 0 => a[q] = <<>>)
               /\ b[q] \in Seq(Ops) /\ NoRepeat(b[q]) /\ (n[q] = Len(opQueue[s][q]) => b[q] = <<>>)
               /\ ToSet(opQueue[s][q]) = ToSet(a[q]) \cup ToSet(b[q])
               /\ ToSet(a[q]) \cap ToSet(b[q]) = {}
               /\ n[q] > 0 => a[q][1] \in ToSet(a[q])
               /\ n[q] > 0 => /\ opQueue[s][q] # <<>> /\ CanPerform(Head(opQueue[s][q]))
                              /\ "err" \in ready[Fd[Head(opQueue[s][q])]] => n[q] = Len(opQueue[s][q])
               /\ n[q] = 0 => \/ result[s] \cap {q, "err"} = {} \/ opQueue[s][q] = <<>>
                              \/ ~CanPerform(Head(opQueue[s][q]))
    OBVIOUS
  <2>2. n[q] \in Performable(q)
    BY <1>1 DEF Queues
  <2> DEFINE x == opQueue[s][q]
  <2>3. /\ n[q] \in 0 .. Len(x)
        /\ n[q] > 0 => /\ x # <<>> /\ CanPerform(Head(x))
                       /\ "err" \in ready[Fd[Head(x)]] => n[q] = Len(x)
        /\ n[q] = 0 => \/ result[s] \cap {q, "err"} = {} \/ x = <<>>
                       \/ ~CanPerform(Head(x))
    BY <1>3, <2>2, PerformableCount
  <2>4. /\ x \in Seq(Ops) /\ NoRepeat(x)
        /\ a[q] = SubSeq(x, 1, n[q]) /\ b[q] = SubSeq(x, n[q] + 1, Len(x))
    BY <1>3, QueueTypes DEF OpPlaces
  <2> HIDE DEF x, a, b, n
  <2>5. /\ a[q] \in Seq(Ops) /\ Len(a[q]) = n[q]
        /\ b[q] \in Seq(Ops) /\ Len(b[q]) = Len(x) - n[q]
        /\ ToSet(x) = ToSet(a[q]) \cup ToSet(b[q])
        /\ NoRepeat(a[q]) /\ NoRepeat(b[q]) /\ ToSet(a[q]) \cap ToSet(b[q]) = {}
    <3>1. /\ SubSeq(x, 1, n[q]) \in Seq(Ops) /\ Len(SubSeq(x, 1, n[q])) = n[q]
          /\ SubSeq(x, n[q] + 1, Len(x)) \in Seq(Ops)
          /\ Len(SubSeq(x, n[q] + 1, Len(x))) = Len(x) - n[q]
          /\ ToSet(x) = ToSet(SubSeq(x, 1, n[q])) \cup ToSet(SubSeq(x, n[q] + 1, Len(x)))
          /\ NoRepeat(SubSeq(x, 1, n[q])) /\ NoRepeat(SubSeq(x, n[q] + 1, Len(x)))
          /\ ToSet(SubSeq(x, 1, n[q])) \cap ToSet(SubSeq(x, n[q] + 1, Len(x))) = {}
      <4>1. x \in Seq(Ops) /\ n[q] \in 0 .. Len(x) /\ NoRepeat(x)
        BY <2>3, <2>4
      <4> QED
        BY <4>1, SplitSeq
    <3> QED
      BY <2>4, <3>1, Zenon
  <2>6. Len(x) \in Nat /\ n[q] \in Nat /\ n[q] <= Len(x)
    <3>1. Len(x) \in Nat
      BY <2>4, LenProperties
    <3> QED
      BY <2>3, <3>1
  <2>7. \A y \in Seq(Ops) : (Len(y) = 0 => y = <<>>) /\ (Len(y) > 0 => y[1] \in ToSet(y))
    <3>1. SUFFICES ASSUME NEW y \in Seq(Ops)
                   PROVE  (Len(y) = 0 => y = <<>>) /\ (Len(y) > 0 => y[1] \in ToSet(y))
      OBVIOUS
    <3>2. ToSet(y) = {y[i] : i \in 1 .. Len(y)} /\ Len(y) \in Nat
      BY ToSetDef, LenProperties
    <3> QED
      BY <3>2, EmptySeq
  <2>8. (n[q] = 0 => a[q] = <<>>) /\ (n[q] = Len(x) => b[q] = <<>>) /\ (n[q] > 0 => a[q][1] \in ToSet(a[q]))
    BY <2>5, <2>6, <2>7
  <2> QED
    BY <2>3, <2>5, <2>6, <2>8 DEF x
<1> HIDE DEF n, a, b
<1>6. /\ "in" \in Queues /\ "out" \in Queues /\ \A q \in Queues : q = "in" \/ q = "out"
      /\ \A q \in Queues : "err" # q
  BY DEF Queues
<1>7. /\ \A q \in Queues : \A x \in ToSet(opQueue[s][q]) :
           /\ x \in Waiting(s) /\ Direction(x) = q
           /\ Fd[x] \in Fds /\ data[Fd[x]] = s
      /\ \A x, y \in Waiting(s) : Fd[x] = Fd[y]
  <2>1. \A q \in Queues : \A x \in ToSet(opQueue[s][q]) :
           /\ x \in Waiting(s) /\ Direction(x) = q
           /\ Fd[x] \in Fds /\ data[Fd[x]] = s
    BY <1>3, WaitingMembers, WaitingPlace DEF OpPlaces
  <2>2. \A x, y \in Waiting(s) : Fd[x] = Fd[y]
    BY <1>3, WaitingPlace, ReactorConstants DEF Registration
  <2> QED
    BY <2>1, <2>2
<1>8. /\ done \in Seq(Ops) /\ NoRepeat(done)
      /\ ToSet(done) = ToSet(a["out"]) \cup ToSet(a["in"])
      /\ ToSet(done) \subseteq Waiting(s)
  <2>1. ToSet(a["out"]) \cap ToSet(a["in"]) = {}
    BY <1>5, <1>6, <1>7
  <2>2. /\ done \in Seq(Ops) /\ NoRepeat(done)
        /\ ToSet(done) = ToSet(a["out"]) \cup ToSet(a["in"])
    BY <1>5, <1>6, <2>1, ToSetConcat
  <2> QED
    BY <1>5, <1>6, <1>7, <2>2
<1> HIDE DEF done
<1>9. /\ \A q \in Queues : opQueue'[s][q] = b[q]
      /\ \A t \in States \ {s} : opQueue'[t] = opQueue[t] /\ Waiting(t)' = Waiting(t)
      /\ Waiting(s)' = Waiting(s) \ ToSet(done)
      /\ AllWaiting' = AllWaiting \ ToSet(done)
      /\ opQueue' \in [States -> [Queues -> Seq(Ops)]]
  <2>1. opQueue'[s] = b /\ \A t \in States \ {s} : opQueue'[t] = opQueue[t]
    BY <1>3, <1>4 DEF TypeOK
  <2>2. \A t \in States \ {s} : Waiting(t)' = Waiting(t)
    BY <2>1 DEF Waiting
  <2>3. Waiting(s)' = Waiting(s) \ ToSet(done)
    <3>1. /\ Waiting(s)' = ToSet(b["in"]) \cup ToSet(b["out"])
          /\ Waiting(s) = ToSet(opQueue[s]["in"]) \cup ToSet(opQueue[s]["out"])
      BY <2>1 DEF Waiting
    <3>2. /\ ToSet(opQueue[s]["in"]) = ToSet(a["in"]) \cup ToSet(b["in"])
          /\ ToSet(opQueue[s]["out"]) = ToSet(a["out"]) \cup ToSet(b["out"])
          /\ ToSet(a["in"]) \cap ToSet(b["in"]) = {}
          /\ ToSet(a["out"]) \cap ToSet(b["out"]) = {}
          /\ ToSet(opQueue[s]["in"]) \cap ToSet(opQueue[s]["out"]) = {}
      BY <1>5, <1>6, <1>7
    <3> QED
      BY <1>8, <3>1, <3>2
  <2>4. \A t \in States \ {s} : Waiting(t) \cap ToSet(done) = {}
    BY <1>3, <1>8, WaitingPlace
  <2>5. AllWaiting' = AllWaiting \ ToSet(done)
    <3>1. \A x : x \in AllWaiting' <=> \E t \in States : x \in Waiting(t)'
      BY DEF AllWaiting
    <3> QED
      BY <2>2, <2>3, <2>4, <3>1, WaitingMembers
  <2>6. opQueue' \in [States -> [Queues -> Seq(Ops)]]
    <3>1. b \in [Queues -> Seq(Ops)]
      BY <1>5 DEF b
    <3> QED
      BY <1>3, <1>4, <3>1 DEF TypeOK
  <2> QED
    BY <2>1, <2>2, <2>3, <2>5, <2>6
<1>10. \A q \in drained : /\ q \in Queues /\ n[q] > 0
                          /\ Fd[a[q][1]] \in Fds /\ data[Fd[a[q][1]]] = s
                          /\ \A x \in Waiting(s) : Fd[a[q][1]] = Fd[x]
  <2>1. SUFFICES ASSUME NEW q \in drained
                 PROVE  /\ q \in Queues /\ n[q] > 0
                        /\ Fd[a[q][1]] \in Fds /\ data[Fd[a[q][1]]] = s
                        /\ \A x \in Waiting(s) : Fd[a[q][1]] = Fd[x]
    OBVIOUS
  <2>2. q \in Queues /\ n[q] > 0
    BY <1>4 DEF Exhausts
  <2>3. a[q][1] \in ToSet(opQueue[s][q])
    BY <1>5, <2>2
  <2> QED
    BY <1>7, <2>2, <2>3
<1>11. /\ ready' \in [Fds -> SUBSET Events]
       /\ \A f \in Fds : ready'[f] \subseteq ready[f] /\ ready[f] \ drained \subseteq ready'[f]
       /\ \A f \in Fds : data[f] # s => ready'[f] = ready[f]
       /\ \A x \in Waiting(s) : \A q \in drained : q \notin ready'[Fd[x]]
  <2>1. \A f \in Fds : ready'[f] = ready[f] \ {q \in drained : Fd[a[q][1]] = f}
    BY <1>4
  <2>2. ready' \in [Fds -> SUBSET Events]
    BY <1>3, <1>4 DEF TypeOK
  <2>3. \A x \in Waiting(s) : \A q \in drained : q \notin ready'[Fd[x]]
    BY <1>3, <1>10, <2>1, WaitingPlace
  <2>4. ASSUME NEW f \in Fds, data[f] # s PROVE ready'[f] = ready[f]
    <3>1. {q \in drained : Fd[a[q][1]] = f} = {}
      BY <1>10, <2>4
    <3> QED
      BY <2>1, <3>1
  <2> QED
    BY <2>1, <2>2, <2>3, <2>4
<1>12. ASSUME NEW x \in Waiting(s)', CanPerform(x)'
       PROVE  /\ CanPerform(x) /\ Direction(x) \notin drained
              /\ result[s] \cap {Direction(x), "err"} = {}
  <2> DEFINE q == Direction(x)
             h == Head(opQueue[s][q])
  <2>1. /\ x \in Waiting(s) /\ x \notin ToSet(done)
        /\ Fd[x] \in Fds /\ q \in Queues /\ x \in ToSet(opQueue[s][q])
    BY <1>3, <1>9, <1>12, WaitingPlace
  <2>2. CanPerform(x)
    BY <1>11, <1>12, <2>1 DEF CanPerform
  <2>3. h \in ToSet(opQueue[s][q]) /\ Direction(h) = q /\ Fd[h] = Fd[x]
    BY <1>3, <1>7, <2>1, FirstWaits
  <2>4. x \in ToSet(b[q])
    BY <1>5, <1>6, <1>8, <2>1
  <2>5. n[q] # Len(opQueue[s][q])
    BY <1>5, <2>1, <2>4, ToSetEmpty
  <2>6. q \in drained => n[q] > 0
    BY <1>10
  <2>7. n[q] > 0 /\ n[q] < Len(opQueue[s][q]) => q \in drained
    BY <1>4, <2>1 DEF Exhausts
  <2>8. n[q] = 0
    <3>1. SUFFICES ASSUME n[q] # 0 PROVE FALSE
      OBVIOUS
    <3>2. n[q] > 0 /\ n[q] < Len(opQueue[s][q])
      BY <1>5, <2>1, <2>5, <3>1
    <3>3. q \notin ready'[Fd[x]]
      BY <1>11, <2>1, <2>7, <3>2
    <3>4. "err" \in ready[Fd[h]]
      BY <1>11, <1>12, <2>1, <2>3, <3>3 DEF CanPerform
    <3> QED
      BY <1>5, <2>1, <2>5, <3>2, <3>4
  <2>9. CanPerform(h)
    BY <2>2, <2>3 DEF CanPerform
  <2>10. opQueue[s][q] # <<>>
    BY <2>1, ToSetEmpty
  <2> QED
    BY <1>5, <2>1, <2>2, <2>6, <2>8, <2>9, <2>10
<1>13. /\ queue' \in Seq(QueueElements) /\ QueueShape'
       /\ done = <<>> => queue' = queue
       /\ done # <<>> => /\ Head(done) \in ToSet(done) /\ Head(done) \in Ops
                         /\ Head(done) \notin ToSet(queue')
                         /\ ToSet(queue') = ToSet(queue) \cup (ToSet(done) \ {Head(done)})
  <2>1. CASE done = <<>>
    <3>1. queue' = queue /\ pc' = "finish"
      BY <1>4, <2>1
    <3>2. QueueShape'
      BY <1>2, <1>3, <3>1 DEF QueueShape
    <3> QED
      BY <1>3, <2>1, <3>1, <3>2, QueueTypes
  <2>2. CASE done # <<>>
    <3>1. /\ Head(done) \in Ops /\ Tail(done) \in Seq(Ops) /\ NoRepeat(Tail(done))
          /\ ToSet(done) = {Head(done)} \cup ToSet(Tail(done))
          /\ Head(done) \notin ToSet(Tail(done))
      BY <1>8, <2>2, ToSetTail
    <3>2. ToSet(done) \cap ToSet(queue) = {}
      BY <1>3, <1>8, WaitingPlace
    <3>3. queue' = queue \o Tail(done) /\ pc' = "handler"
      BY <1>4, <2>2
    <3>4. /\ queue' \in Seq(QueueElements) /\ ToSet(queue') = ToSet(queue) \cup ToSet(Tail(done))
          /\ QueueShape'
      BY <1>2, <1>3, <3>1, <3>2, <3>3, QueueGrows
    <3> QED
      BY <2>2, <3>1, <3>2, <3>4
  <2> QED
    BY <2>1, <2>2
<1>14. ToSet(queue) \subseteq ToSet(queue') /\ ToSet(queue') \subseteq ToSet(queue) \cup ToSet(done)
  BY <1>13
<1>15. TypeOK'
  <2>1. pc' \in {"handler", "finish"} /\ current' \in Ops \cup {None} /\ outstanding' \in Nat
    BY <1>3, <1>4, <1>13 DEF Compensation, TypeOK
  <2> QED
    BY <1>2, <1>3, <1>9, <1>11, <1>13, <2>1 DEF TypeOK, QueueElements
<1>16. OpPlaces'
  <2>1. ASSUME NEW t \in States, NEW q \in Queues
        PROVE  /\ NoRepeat(opQueue'[t][q]) /\ ToSet(opQueue'[t][q]) \subseteq ToSet(opQueue[t][q])
               /\ ToSet(opQueue'[t][q]) \cap ToSet(queue') = {}
    <3>1. NoRepeat(opQueue'[t][q]) /\ ToSet(opQueue'[t][q]) \subseteq ToSet(opQueue[t][q])
      <4>1. CASE t = s
        BY <1>5, <1>9, <4>1
      <4>2. CASE t # s
        BY <1>3, <1>9, <4>2 DEF OpPlaces
      <4> QED
        BY <4>1, <4>2
    <3>2. ASSUME NEW x \in ToSet(opQueue'[t][q]) PROVE x \notin ToSet(queue')
      <4>1. x \notin ToSet(queue) /\ data[Fd[x]] = t
        BY <1>3, <3>1, <3>2 DEF OpPlaces
      <4>2. CASE t = s
        <5>1. x \in ToSet(b[q])
          BY <1>9, <3>2, <4>2
        <5>2. x \notin ToSet(done)
          BY <1>5, <1>6, <1>7, <1>8, <5>1
        <5> QED
          BY <1>14, <4>1, <5>2
      <4>3. CASE t # s
        <5>1. x \notin ToSet(done)
          BY <1>3, <1>8, <4>1, <4>3, WaitingPlace
        <5> QED
          BY <1>14, <4>1, <5>1
      <4> QED
        BY <4>2, <4>3
    <3> QED
      BY <3>1, <3>2
  <2>2. \A t \in States : opQueue'[t]["out"] # <<>> => outBit[t]
    <3>1. ASSUME NEW t \in States, opQueue'[t]["out"] # <<>> PROVE opQueue[t]["out"] # <<>>
      <4>1. opQueue'[t]["out"] \in Seq(Ops)
        BY <1>6, <1>9
      <4>2. \A y \in Seq(Ops) : y # <<>> => ToSet(y) # {}
        <5>1. SUFFICES ASSUME NEW y \in Seq(Ops), y # <<>> PROVE Head(y) \in ToSet(y)
          OBVIOUS
        <5> QED
          BY <5>1, ToSetTail
      <4>3. ToSet(opQueue[t]["out"]) # {}
        BY <1>6, <2>1, <3>1, <4>1, <4>2
      <4> QED
        BY <4>3, ToSetEmpty
    <3> QED
      BY <1>3, <3>1 DEF OpPlaces
  <2>3. ToSet(queue') \cap Ops \subseteq begun
    <3>1. ToSet(done) \subseteq begun
      BY <1>3, <1>8, WaitingPlace
    <3> QED
      BY <1>3, <1>14, <3>1 DEF OpPlaces
  <2> QED
    BY <1>2, <1>3, <2>1, <2>2, <2>3 DEF OpPlaces
<1>17. Registration'
  BY <1>2, <1>3 DEF Registration
<1>18. Connecting'
  BY <1>2, <1>3, <1>11 DEF Connecting
<1>19. WorkBalance'
  <2>1. Cardinality(Pending) \in Nat /\ outstanding \in Nat
    BY <1>3, PendingFinite DEF TypeOK
  <2>2. CASE done = <<>>
    <3>1. Pending' = Pending
      BY <1>9, <1>13, <2>2, ToSetEmpty DEF Pending
    <3> QED
      BY <1>2, <1>3, <1>4, <2>1, <2>2, <3>1 DEF WorkBalance, Compensation
  <2>3. CASE done # <<>>
    <3>1. ToSet(done) \subseteq AllWaiting /\ ToSet(done) \subseteq Ops
      BY <1>3, <1>8, WaitingMembers, QueueTypes
    <3>2. Head(done) \in Pending /\ Pending' = Pending \ {Head(done)}
      BY <1>9, <1>13, <2>3, <3>1 DEF Pending
    <3>3. Cardinality(Pending') = Cardinality(Pending) - 1
      BY <1>3, <3>2, PendingChanges
    <3> QED
      BY <1>2, <1>3, <1>4, <2>1, <2>3, <3>3 DEF WorkBalance, Compensation
  <2> QED
    BY <2>2, <2>3
<1>20. NoneForgotten'
  <2>1. SUFFICES ASSUME NEW t \in States, NEW x \in Waiting(t)'
                 PROVE  /\ data'[Fd[x]] = t
                        /\ CanPerform(x)' => WillTry(t, Fd[x], Direction(x))'
    BY DEF NoneForgotten
  <2>2. x \in Waiting(t)
    BY <1>9
  <2>3. Fd[x] \in Fds /\ data[Fd[x]] = t
    BY <1>3, <2>2, WaitingPlace
  <2>4. ASSUME CanPerform(x)'
        PROVE  /\ WillTry(t, Fd[x], Direction(x))
               /\ ready[Fd[x]] \cap {Direction(x), "err"} \subseteq ready'[Fd[x]]
               /\ t = s => result[t] \cap {Direction(x), "err"} = {}
    <3>1. CASE t = s
      <4>1. /\ CanPerform(x) /\ Direction(x) \notin drained
            /\ result[s] \cap {Direction(x), "err"} = {}
        BY <1>12, <2>4, <3>1
      <4>2. "err" \notin drained
        BY <1>6
      <4> QED
        BY <1>3, <1>11, <2>2, <2>3, <3>1, <4>1, <4>2 DEF NoneForgotten
    <3>2. CASE t # s
      <4>1. ready'[Fd[x]] = ready[Fd[x]]
        BY <1>11, <2>3, <3>2
      <4> QED
        BY <1>3, <2>2, <2>4, <3>2, <4>1 DEF NoneForgotten, CanPerform
    <3> QED
      BY <3>1, <3>2
  <2> QED
    BY <1>2, <1>14, <2>3, <2>4, TriedStill
<1>21. ConnectDecided'
  <2>1. ASSUME NEW x \in begun, x \notin aborted \cup AllWaiting', Kind[x] = "connect"
        PROVE  conn[Fd[x]] # "syn"
    <3>1. CASE x \notin AllWaiting
      BY <1>3, <2>1, <3>1 DEF ConnectDecided
    <3>2. CASE x \in ToSet(done)
      <4>1. PICK q \in Queues : x \in ToSet(a[q])
        BY <1>6, <1>8, <3>2
      <4>2. n[q] > 0 /\ x \in ToSet(opQueue[s][q])
        BY <1>5, <4>1, ToSetEmpty
      <4> DEFINE h == Head(opQueue[s][q])
      <4>3. CanPerform(h) /\ h \in ToSet(opQueue[s][q])
        BY <1>3, <1>5, <4>2, FirstWaits
      <4>4. Fd[h] = Fd[x] /\ Fd[x] \in Fds
        BY <1>7, <4>2, <4>3
      <4> QED
        BY <1>3, <4>3, <4>4 DEF CanPerform, Connecting
    <3> QED
      BY <1>9, <2>1, <3>1, <3>2
  <2> QED
    BY <1>2, <2>1 DEF ConnectDecided
<1> QED
  BY <1>13, <1>15, <1>16, <1>17, <1>18, <1>19, <1>20, <1>21 DEF IInv

-----------------------------------------------------------------------------
(* The theorems.                                                            *)

LEMMA Inductive == IInv /\ [Next]_vars => IInv'
<1> SUFFICES ASSUME IInv, [Next]_vars PROVE IInv'
  OBVIOUS
<1>1. CASE TakeTask
  BY <1>1, TakeTaskStep
<1>2. CASE RunReactor
  BY <1>2, RunReactorStep
<1>3. CASE Execute
  BY <1>3, ExecuteStep
<1>4. CASE PerformIo
  BY <1>4, PerformIoStep
<1>5. CASE CloseFd
  BY <1>5, CloseFdStep
<1>6. CASE Finish \/ StopRunner \/ Stop
  BY <1>6, FinishStep, StopStep
<1>7. ASSUME NEW p \in Callers, User(p) PROVE IInv'
  BY <1>7, ConnectStep, TransferStep, OpenStep, DropWorkStep DEF User
<1>8. ASSUME NEW f \in Fds, Deregister(f) \/ Kernel(f) PROVE IInv'
  BY <1>8, DeregisterStep, KernelStep
<1>9. CASE UNCHANGED vars
  <2>1. /\ UNCHANGED <<queue, outstanding, stopping, stopped, work, pc, current, data,
                       opQueue, outBit>>
        /\ UNCHANGED <<result, conn, ready, edge, epoll, closing, outside, begun, aborted>>
    BY <1>9 DEF vars, schedVars, runVars, descVars, kernelVars
  <2>2. TypeOK' /\ QueueShape' /\ OpPlaces' /\ Registration' /\ Connecting'
    BY <2>1 DEF IInv, TypeOK, QueueShape, OpPlaces, Registration, Connecting
  <2>3. WorkBalance'
    BY <2>1, SamePending DEF IInv, WorkBalance
  <2>4. NoneForgotten' /\ ConnectDecided'
    BY <2>1, SamePending DEF IInv, NoneForgotten, ConnectDecided, CanPerform, WillTry, Reported,
                             Registered
  <2> QED
    BY <2>2, <2>3, <2>4 DEF IInv
<1> QED
  BY <1>1, <1>2, <1>3, <1>4, <1>5, <1>6, <1>7, <1>8, <1>9 DEF Next, Runner, Terminated

\* The inductive invariant holds of every reachable state.
THEOREM Invariance == Spec => []IInv
  BY InitIInv, Inductive, PTL DEF Spec

\* Every variable keeps its type: outstanding_work_ never falls below zero.
THEOREM TypeCorrect == Spec => []TypeOK
<1>1. IInv => TypeOK
  BY DEF IInv
<1> QED
  BY <1>1, Invariance, PTL

\* outstanding_work_ counts what is pending, however the descriptors that are
\* executed without completing anything are compensated for.
THEOREM WorkBalanced == Spec => []WorkBalance
<1>1. IInv => WorkBalance
  BY DEF IInv
<1> QED
  BY <1>1, Invariance, PTL

\* No descriptor or operation is queued twice, although states are reused while
\* they are queued.
THEOREM NothingQueuedTwice == Spec => []QueuedOnce
<1>1. IInv => QueuedOnce
  <2> SUFFICES ASSUME IInv PROVE QueuedOnce
    OBVIOUS
  <2>1. TypeOK /\ QueueShape /\ OpPlaces
    BY DEF IInv
  <2>2. \A i, j \in DOMAIN queue : queue[i] = queue[j] => i = j
    <3>1. DOMAIN queue = 1 .. Len(queue)
      BY <2>1, QueueTypes, LenProperties
    <3> QED
      BY <2>1, <3>1 DEF QueueShape, NoRepeat
  <2>3. ToSet(queue) \cap AllWaiting = {}
    BY <2>1, WaitingMembers, WaitingPlace
  <2> QED
    BY <2>2, <2>3 DEF QueuedOnce
<1> QED
  BY <1>1, Invariance, PTL

\* No operation is forgotten in a descriptor, and no edge of epoll is lost.
THEOREM NoEdgeLost == Spec => []NoneForgotten
<1>1. IInv => NoneForgotten
  BY DEF IInv
<1> QED
  BY <1>1, Invariance, PTL

\* No connect is completed by events that were meant for another socket.
THEOREM ConnectsCorrect == Spec => []ConnectDecided
<1>1. IInv => ConnectDecided
  BY DEF IInv
<1> QED
  BY <1>1, Invariance, PTL

==============================================================================
