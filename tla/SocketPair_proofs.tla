------------------------- MODULE SocketPair_proofs -------------------------
(***************************************************************************)
(* Proofs about the ring of socket pairs, for any number of pairs, of      *)
(* bytes and of reads: its two counters tell how many bytes are on their   *)
(* way, and so when it may be closed.                                      *)
(***************************************************************************)
EXTENDS SocketPair, SequenceTheorems, FiniteSetTheorems, WellFoundedInduction, TLAPS

\* Each byte written and not counted is in a socket or with a handler.
Balance == writes - reads = InPipes + Cardinality(InHandlers)

\* What has been written, as long as the target is not reached and after.
CountInv ==
  /\ main = "start" =>
       reads = 0 /\ writes <= ActiveCount /\ InHandlers = {} /\ stops = 0
  /\ main # "start" =>
       writes = ActiveCount + (IF reads < WriteCount THEN reads
                               ELSE IF WriteCount = 0 THEN 0 ELSE WriteCount - 1)

\* stop() is executed when all has been read, and then each read is cancelled.
StopInv ==
  /\ stops = 1 <=> main # "start" /\ reads = writes
  /\ stops = 0 => \A i \in Pairs : reading[i] \in {"waiting", "ready"}
  /\ stops = 1 => \A i \in Pairs : reading[i] \in {"aborted", "none"}
  /\ main = "done" => stops = 1

IInv ==
  /\ TypeOK
  /\ Balance
  /\ CountInv
  /\ StopInv
  /\ OnlyFirstByte
-----------------------------------------------------------------------------
(* Induction over numbers and the sum of a function.  The library defines  *)
(* the sum by recursion over the subsets of the domain, in an order that   *)
(* CHOOSE determines; its theorems do not say what it computes.            *)

\* A set of numbers that is not empty has a least element.
LEMMA LeastNumber ==
  ASSUME NEW T, T \subseteq Nat, T # {}
  PROVE  \E n \in T : \A m \in T : n <= m
<1> DEFINE R == {p \in Nat \X Nat : p[1] < p[2]}
<1>1. IsWellFoundedOn(R, Nat)
  BY NatLessThanWellFounded DEF OpToRel
<1> HIDE DEF R
<1>2. PICK n \in T : \A m \in T : ~(<<m, n>> \in R)
  BY <1>1, WFMin
<1>3. \A m \in T : ~(m < n)
  BY <1>2 DEF R
<1> QED
  BY <1>3

\* Induction, stated of a set of numbers.
LEMMA AllNumbers ==
  ASSUME NEW T, 0 \in T, \A n \in Nat : n \in T => n + 1 \in T
  PROVE  Nat \subseteq T
<1> SUFFICES ASSUME Nat \ T # {} PROVE FALSE
  OBVIOUS
<1>1. PICK n \in Nat \ T : \A m \in Nat \ T : n <= m
  BY LeastNumber
<1>2. n - 1 \in Nat /\ n - 1 \in T
  BY <1>1
<1> QED
  BY <1>1, <1>2

Some(s) == CHOOSE x \in s : TRUE

\* g is the sum of f on each set of D
SumsOn(g, f, D) ==
  g = [s \in D |-> IF s = {} THEN 0 ELSE f[Some(s)] + g[s \ {Some(s)}]]

LEMMA SomeMember ==
  ASSUME NEW s, s # {}
  PROVE  Some(s) \in s
  BY DEF Some

LEMMA SumsExist ==
  ASSUME NEW f, NEW S, IsFiniteSet(S)
  PROVE  \E g : SumsOn(g, f, SUBSET S)
<1> DEFINE Sized(n) == {s \in SUBSET S : Cardinality(s) <= n}
           T == {n \in Nat : \E g : SumsOn(g, f, Sized(n))}
<1>1. \A s \in SUBSET S : /\ IsFiniteSet(s) /\ Cardinality(s) \in Nat
                          /\ Cardinality(s) <= Cardinality(S)
                          /\ Cardinality(s) = 0 <=> s = {}
                          /\ s # {} => Cardinality(s \ {Some(s)}) = Cardinality(s) - 1
  BY FS_Subset, FS_CardinalityType, FS_EmptySet, FS_RemoveElement, SomeMember
<1>2. 0 \in T
  <2> DEFINE g == [s \in Sized(0) |-> 0]
  <2>1. ASSUME NEW s \in Sized(0) PROVE s = {}
    <3>1. s \in SUBSET S /\ Cardinality(s) <= 0
      OBVIOUS
    <3>2. Cardinality(s) \in Nat /\ (Cardinality(s) = 0 <=> s = {})
      BY <1>1, <3>1
    <3> QED
      BY <3>1, <3>2
  <2>2. SumsOn(g, f, Sized(0))
    BY <2>1 DEF SumsOn
  <2> QED
    BY <2>2
<1>3. ASSUME NEW n \in Nat, n \in T PROVE n + 1 \in T
  <2>1. PICK g : SumsOn(g, f, Sized(n))
    BY <1>3
  <2> DEFINE h == [s \in Sized(n + 1) |->
                     IF s = {} THEN 0 ELSE f[Some(s)] + g[s \ {Some(s)}]]
  <2>2. \A s \in Sized(n) : s \in Sized(n + 1) /\ h[s] = g[s]
    <3>1. ASSUME NEW s \in Sized(n) PROVE s \in Sized(n + 1)
      <4>1. s \in SUBSET S /\ Cardinality(s) \in Nat /\ Cardinality(s) <= n
        BY <1>1
      <4>2. Cardinality(s) <= n + 1
        BY <4>1
      <4> QED
        BY <4>1, <4>2
    <3>2. \A s \in Sized(n) : g[s] = IF s = {} THEN 0 ELSE f[Some(s)] + g[s \ {Some(s)}]
      BY <2>1 DEF SumsOn
    <3> QED
      BY <3>1, <3>2
  <2>3. \A s \in Sized(n + 1) : s # {} => s \ {Some(s)} \in Sized(n)
    BY <1>1
  <2>4. h = [s \in Sized(n + 1) |-> IF s = {} THEN 0 ELSE f[Some(s)] + h[s \ {Some(s)}]]
    BY <2>2, <2>3
  <2> HIDE DEF h
  <2>5. SumsOn(h, f, Sized(n + 1))
    BY <2>4 DEF SumsOn
  <2>6. \E e : SumsOn(e, f, Sized(n + 1))
    BY <2>5
  <2> HIDE DEF Sized
  <2>7. n + 1 \in Nat
    OBVIOUS
  <2> QED
    BY <2>6, <2>7
<1> HIDE DEF T
<1>4. Nat \subseteq T
  BY <1>2, <1>3, AllNumbers
<1>5. Cardinality(S) \in Nat /\ Sized(Cardinality(S)) = SUBSET S
  BY <1>1, FS_CardinalityType
<1> HIDE DEF Sized
<1>6. \E g : SumsOn(g, f, Sized(Cardinality(S)))
  BY <1>4, <1>5 DEF T
<1> QED
  BY <1>5, <1>6

\* What the recursive function of the sum computes.
LEMMA SumDef ==
  ASSUME NEW f, NEW S, IsFiniteSet(S), DOMAIN f = S
  PROVE  \E g : SumsOn(g, f, SUBSET S) /\ SumFunction(f) = g[S]
<1> DEFINE G == CHOOSE g : SumsOn(g, f, SUBSET S)
<1>1. SumFunction(f) = G[S]
  BY DEF SumFunction, SumFunctionOnSet, FoldFunctionOnSet, MapThenFoldSet, SumsOn, Some
<1>2. SumsOn(G, f, SUBSET S)
  BY SumsExist
<1> QED
  BY <1>1, <1>2

\* The sum of a function that is changed in one place.
LEMMA SumChanges ==
  ASSUME NEW S, IsFiniteSet(S), NEW f \in [S -> Nat], NEW g \in [S -> Nat],
         NEW x \in S, \A y \in S : y # x => g[y] = f[y]
  PROVE  /\ SumFunction(f) \in Nat
         /\ SumFunction(g) = SumFunction(f) - f[x] + g[x]
<1>1. PICK F : SumsOn(F, f, SUBSET S) /\ SumFunction(f) = F[S]
  BY SumDef
<1>2. PICK G : SumsOn(G, g, SUBSET S) /\ SumFunction(g) = G[S]
  BY SumDef
<1> DEFINE Extra(s) == IF x \in s THEN g[x] - f[x] ELSE 0
           Good(s) == F[s] \in Nat /\ G[s] = F[s] + Extra(s)
           T == {n \in Nat : \A s \in SUBSET S : Cardinality(s) = n => Good(s)}
<1>3. \A s \in SUBSET S : /\ IsFiniteSet(s) /\ Cardinality(s) \in Nat
                          /\ Cardinality(s) = 0 <=> s = {}
                          /\ s # {} => Cardinality(s \ {Some(s)}) = Cardinality(s) - 1
  BY FS_Subset, FS_CardinalityType, FS_EmptySet, FS_RemoveElement, SomeMember
<1>4. \A s \in SUBSET S :
        /\ F[s] = IF s = {} THEN 0 ELSE f[Some(s)] + F[s \ {Some(s)}]
        /\ G[s] = IF s = {} THEN 0 ELSE g[Some(s)] + G[s \ {Some(s)}]
  BY <1>1, <1>2 DEF SumsOn
<1>5. 0 \in T
  <2> SUFFICES ASSUME NEW s \in SUBSET S, Cardinality(s) = 0 PROVE Good(s)
    OBVIOUS
  <2>1. s = {} /\ F[s] = 0 /\ G[s] = 0 /\ x \notin s
    BY <1>3, <1>4
  <2> QED
    BY <2>1
<1>6. ASSUME NEW n \in Nat, n \in T PROVE n + 1 \in T
  <2> SUFFICES ASSUME NEW s \in SUBSET S, Cardinality(s) = n + 1 PROVE Good(s)
    OBVIOUS
  <2> DEFINE a == Some(s)
             r == s \ {a}
  <2>1. s # {} /\ a \in s /\ a \in S /\ r \in SUBSET S /\ Cardinality(r) = n
    BY <1>3, SomeMember
  <2>2. Good(r)
    BY <1>6, <2>1
  <2>3. F[s] = f[a] + F[r] /\ G[s] = g[a] + G[r]
    BY <1>4, <2>1
  <2>4. f[a] \in Nat /\ g[a] \in Nat /\ f[x] \in Nat /\ g[x] \in Nat
    BY <2>1
  <2>5. CASE a = x
    BY <2>1, <2>2, <2>3, <2>4, <2>5
  <2>6. CASE a # x
    <3>1. f[a] = g[a] /\ (x \in s <=> x \in r)
      BY <2>1, <2>6
    <3> QED
      BY <2>2, <2>3, <2>4, <3>1
  <2> QED
    BY <2>5, <2>6
<1> HIDE DEF T
<1>7. Nat \subseteq T
  BY <1>5, <1>6, AllNumbers
<1>8. Good(S)
  BY <1>3, <1>7 DEF T
<1> QED
  BY <1>1, <1>2, <1>8

\* The sum of zeros.
LEMMA SumOfZeros ==
  ASSUME NEW S, IsFiniteSet(S), NEW f \in [S -> Nat], \A x \in S : f[x] = 0
  PROVE  SumFunction(f) = 0
<1>1. PICK F : SumsOn(F, f, SUBSET S) /\ SumFunction(f) = F[S]
  BY SumDef
<1> DEFINE T == {n \in Nat : \A s \in SUBSET S : Cardinality(s) = n => F[s] = 0}
<1>2. \A s \in SUBSET S : /\ Cardinality(s) \in Nat
                          /\ Cardinality(s) = 0 <=> s = {}
                          /\ s # {} => Cardinality(s \ {Some(s)}) = Cardinality(s) - 1
                          /\ s # {} => Some(s) \in S
  BY FS_Subset, FS_CardinalityType, FS_EmptySet, FS_RemoveElement, SomeMember
<1>3. \A s \in SUBSET S : F[s] = IF s = {} THEN 0 ELSE f[Some(s)] + F[s \ {Some(s)}]
  BY <1>1 DEF SumsOn
<1>4. 0 \in T
  BY <1>2, <1>3
<1>5. ASSUME NEW n \in Nat, n \in T PROVE n + 1 \in T
  <2> SUFFICES ASSUME NEW s \in SUBSET S, Cardinality(s) = n + 1 PROVE F[s] = 0
    OBVIOUS
  <2>1. /\ s # {} /\ Some(s) \in S /\ s \ {Some(s)} \in SUBSET S
        /\ Cardinality(s \ {Some(s)}) = n
    BY <1>2
  <2>2. F[s \ {Some(s)}] = 0
    BY <1>5, <2>1
  <2> QED
    BY <1>3, <2>1, <2>2
<1> HIDE DEF T
<1>6. Nat \subseteq T
  BY <1>4, <1>5, AllNumbers
<1> QED
  BY <1>1, <1>2, <1>6 DEF T
-----------------------------------------------------------------------------
(* The bytes in the sockets.                                               *)

LEMMA PairsFinite ==
  IsFiniteSet(Pairs) /\ 0 \in Pairs
<1>1. PairCount - 1 \in Int /\ 0 \in Int /\ 0 <= PairCount - 1
  BY RingAssumption
<1>2. QED
  BY <1>1, FS_Interval DEF Pairs

\* The pair that follows is one of the ring.
LEMMA SuccessorType ==
  ASSUME NEW i \in Pairs
  PROVE  Successor(i) \in Pairs
  BY RingAssumption DEF Pairs, Successor

\* The sockets hold first_ch_ only.
HoldsFirst(p) == \A j \in Pairs : \A k \in DOMAIN p[j] : p[j][k] = "m"

\* How many bytes each socket holds.
Lengths(p) == [i \in Pairs |-> Len(p[i])]

LEMMA LengthTypes ==
  ASSUME NEW p \in [Pairs -> Seq(Byte)]
  PROVE  /\ Lengths(p) \in [Pairs -> Nat]
         /\ \A i \in Pairs : Lengths(p)[i] = Len(p[i]) /\ (p[i] = <<>> <=> Len(p[i]) = 0)
<1>1. \A i \in Pairs : Len(p[i]) \in Nat /\ (p[i] = <<>> <=> Len(p[i]) = 0)
  BY LenProperties, EmptySeq
<1>2. QED
  BY <1>1 DEF Lengths

\* The sum of the numbers of bytes, when one of them changes.
LEMMA NumberChanges ==
  ASSUME NEW f \in [Pairs -> Nat], NEW g \in [Pairs -> Nat], NEW i \in Pairs,
         \A j \in Pairs : j # i => g[j] = f[j]
  PROVE  SumFunction(f) \in Nat /\ SumFunction(g) = SumFunction(f) - f[i] + g[i]
  BY SumChanges, PairsFinite

\* A socket whose contents change changes the sum by the difference.
LEMMA PipeChanges ==
  ASSUME NEW p \in [Pairs -> Seq(Byte)], NEW q \in [Pairs -> Seq(Byte)], NEW i \in Pairs,
         \A j \in Pairs \ {i} : q[j] = p[j]
  PROVE  /\ SumFunction(Lengths(p)) \in Nat
         /\ SumFunction(Lengths(q)) = SumFunction(Lengths(p)) - Len(p[i]) + Len(q[i])
<1>1. Lengths(p) \in [Pairs -> Nat] /\ Lengths(q) \in [Pairs -> Nat]
  BY LengthTypes
<1>2. Lengths(p)[i] = Len(p[i]) /\ Lengths(q)[i] = Len(q[i])
  BY LengthTypes
<1>3. \A j \in Pairs : j # i => Lengths(q)[j] = Lengths(p)[j]
  BY DEF Lengths
<1>4. /\ SumFunction(Lengths(p)) \in Nat
      /\ SumFunction(Lengths(q)) = SumFunction(Lengths(p)) - Lengths(p)[i] + Lengths(q)[i]
  BY <1>1, <1>3, NumberChanges
<1>5. QED
  BY <1>2, <1>4

\* The sum is zero when the sockets are empty, and only then.
LEMMA PipesEmpty ==
  ASSUME NEW p \in [Pairs -> Seq(Byte)]
  PROVE  SumFunction(Lengths(p)) = 0 <=> \A i \in Pairs : p[i] = <<>>
<1>1. ASSUME \A i \in Pairs : p[i] = <<>>
      PROVE  SumFunction(Lengths(p)) = 0
  <2>1. \A i \in Pairs : Lengths(p)[i] = 0
    BY <1>1, LengthTypes
  <2>2. QED
    BY <2>1, LengthTypes, PairsFinite, SumOfZeros
<1>2. ASSUME NEW i \in Pairs, p[i] # <<>>
      PROVE  SumFunction(Lengths(p)) # 0
  <2> DEFINE q == [p EXCEPT ![i] = <<>>]
  <2>1. q \in [Pairs -> Seq(Byte)] /\ q[i] = <<>> /\ \A j \in Pairs \ {i} : q[j] = p[j]
    OBVIOUS
  <2> HIDE DEF q
  <2>2. /\ SumFunction(Lengths(q)) \in Nat /\ SumFunction(Lengths(p)) \in Nat
        /\ SumFunction(Lengths(q)) = SumFunction(Lengths(p)) - Len(p[i]) + Len(q[i])
    BY <2>1, PipeChanges
  <2>3. Len(p[i]) \in Nat /\ Len(p[i]) # 0 /\ Len(q[i]) = 0
    BY <1>2, <2>1, LengthTypes
  <2>4. QED
    BY <2>2, <2>3
<1>3. QED
  BY <1>1, <1>2

\* How many handlers are queued.
LEMMA HandlersFinite ==
  ASSUME NEW S \in SUBSET Pairs
  PROVE  /\ IsFiniteSet(S) /\ Cardinality(S) \in Nat
         /\ Cardinality(S) = 0 <=> S = {}
         /\ \A i \in Pairs : /\ i \notin S => Cardinality(S \cup {i}) = Cardinality(S) + 1
                             /\ i \in S => Cardinality(S \ {i}) = Cardinality(S) - 1
<1>1. IsFiniteSet(S)
  BY PairsFinite, FS_Subset
<1>2. QED
  BY <1>1, FS_CardinalityType, FS_EmptySet, FS_AddElement, FS_RemoveElement

\* The two sums of Balance.
LEMMA BalanceDef ==
  /\ InPipes = SumFunction(Lengths(pipe)) /\ InPipes' = SumFunction(Lengths(pipe'))
  /\ InHandlers \in SUBSET Pairs /\ InHandlers' \in SUBSET Pairs
  BY DEF InPipes, Lengths, InHandlers

-----------------------------------------------------------------------------
(* The handler of a pair.                                                  *)

\* pair_read() takes the next byte, if there is one, and its handler remains
\* queued; otherwise it waits.
LEMMA AfterRead ==
  ASSUME TypeOK, OnlyFirstByte, NEW i \in Pairs, reading[i] = "ready"
  PROVE  /\ PipeAfterRead(i) \in [Pairs -> Seq(Byte)]
         /\ DataAfterRead(i) \in [Pairs -> Byte]
         /\ ReadingAfterRead(i) \in [Pairs -> {"waiting", "ready", "aborted", "none"}]
         /\ DataAfterRead(i)[i] = "m"
         /\ HoldsFirst(PipeAfterRead(i))
         /\ \A j \in Pairs \ {i} : /\ DataAfterRead(i)[j] = data[j]
                                   /\ ReadingAfterRead(i)[j] = reading[j]
         /\ ReadingAfterRead(i)[i] \in {"waiting", "ready"}
         /\ InPipes \in Nat /\ Cardinality(InHandlers) \in Nat
         /\ SumFunction(Lengths(PipeAfterRead(i))) \in Nat
         /\ Cardinality({j \in Pairs : ReadingAfterRead(i)[j] = "ready"}) \in Nat
         /\ SumFunction(Lengths(PipeAfterRead(i)))
              + Cardinality({j \in Pairs : ReadingAfterRead(i)[j] = "ready"})
              = InPipes + Cardinality(InHandlers) - 1
<1>1. /\ pipe \in [Pairs -> Seq(Byte)] /\ data \in [Pairs -> Byte]
      /\ reading \in [Pairs -> {"waiting", "ready", "aborted", "none"}]
      /\ i \in InHandlers /\ InHandlers \in SUBSET Pairs
  BY BalanceDef DEF TypeOK, ReadStates, InHandlers
<1>2. HoldsFirst(pipe)
  BY DEF OnlyFirstByte, HoldsFirst
<1>3. data[i] = "m"
  BY DEF OnlyFirstByte
<1> DEFINE p == PipeAfterRead(i)
           H == {j \in Pairs : ReadingAfterRead(i)[j] = "ready"}
<1>4. CASE pipe[i] = <<>>
  <2>1. p = pipe
    BY <1>1, <1>4 DEF PipeAfterRead
  <2>2. DataAfterRead(i) = data
    BY <1>1, <1>4 DEF DataAfterRead
  <2>3. ReadingAfterRead(i) = [reading EXCEPT ![i] = "waiting"]
    BY <1>4 DEF ReadingAfterRead
  <2>4. H = InHandlers \ {i}
    BY <1>1, <2>3 DEF InHandlers
  <2> HIDE DEF H
  <2>5. Cardinality(H) = Cardinality(InHandlers) - 1 /\ Cardinality(InHandlers) \in Nat
    BY <1>1, <2>4, HandlersFinite
  <2>6. SumFunction(Lengths(p)) = InPipes /\ InPipes \in Nat
    BY <1>1, <2>1, PipeChanges, BalanceDef
  <2>7. /\ ReadingAfterRead(i) \in [Pairs -> {"waiting", "ready", "aborted", "none"}]
        /\ ReadingAfterRead(i)[i] = "waiting"
        /\ \A j \in Pairs \ {i} : ReadingAfterRead(i)[j] = reading[j]
    BY <1>1, <2>3
  <2>8. Cardinality(H) \in Nat /\ InPipes + Cardinality(H) = InPipes + Cardinality(InHandlers) - 1
    BY <1>1, <2>4, <2>5, <2>6, HandlersFinite
  <2>9. QED
    BY <1>1, <1>2, <1>3, <2>1, <2>2, <2>5, <2>6, <2>7, <2>8 DEF H
<1>5. CASE pipe[i] # <<>>
  <2>1. /\ Tail(pipe[i]) \in Seq(Byte) /\ Head(pipe[i]) \in Byte /\ Head(pipe[i]) = pipe[i][1]
        /\ Len(pipe[i]) \in Nat \ {0} /\ DOMAIN pipe[i] = 1 .. Len(pipe[i])
        /\ Len(Tail(pipe[i])) = Len(pipe[i]) - 1
        /\ DOMAIN Tail(pipe[i]) = 1 .. Len(Tail(pipe[i]))
        /\ \A k \in 1 .. Len(Tail(pipe[i])) : Tail(pipe[i])[k] = pipe[i][k + 1]
    BY <1>1, <1>5, HeadTailProperties, EmptySeq, LenProperties
  <2>2. p = [pipe EXCEPT ![i] = Tail(pipe[i])]
    BY <1>1, <1>5 DEF PipeAfterRead
  <2>3. DataAfterRead(i) = [data EXCEPT ![i] = Head(pipe[i])]
    BY <1>5 DEF DataAfterRead
  <2>4. ReadingAfterRead(i) = [reading EXCEPT ![i] = "ready"]
    BY <1>5 DEF ReadingAfterRead
  <2>5. p \in [Pairs -> Seq(Byte)] /\ p[i] = Tail(pipe[i])
        /\ \A j \in Pairs \ {i} : p[j] = pipe[j]
    BY <1>1, <2>1, <2>2
  <2>6. Head(pipe[i]) = "m" /\ \A k \in DOMAIN Tail(pipe[i]) : Tail(pipe[i])[k] = "m"
    BY <1>2, <2>1 DEF HoldsFirst
  <2>7. HoldsFirst(p)
    BY <1>2, <2>5, <2>6 DEF HoldsFirst
  <2>8. H = InHandlers
    BY <1>1, <2>4 DEF InHandlers
  <2> HIDE DEF p, H
  <2>9. /\ InPipes \in Nat /\ SumFunction(Lengths(p)) \in Nat
        /\ SumFunction(Lengths(p)) = InPipes - Len(pipe[i]) + Len(p[i])
    BY <1>1, <2>5, PipeChanges, BalanceDef
  <2>10. Cardinality(InHandlers) \in Nat
    BY <1>1, HandlersFinite
  <2>11. SumFunction(Lengths(p)) + Cardinality(H) = InPipes + Cardinality(InHandlers) - 1
    BY <2>1, <2>5, <2>8, <2>9, <2>10
  <2>12. /\ DataAfterRead(i) \in [Pairs -> Byte] /\ DataAfterRead(i)[i] = "m"
         /\ ReadingAfterRead(i) \in [Pairs -> {"waiting", "ready", "aborted", "none"}]
         /\ ReadingAfterRead(i)[i] = "ready"
         /\ \A j \in Pairs \ {i} : /\ DataAfterRead(i)[j] = data[j]
                                   /\ ReadingAfterRead(i)[j] = reading[j]
    BY <1>1, <2>1, <2>3, <2>4, <2>6
  <2>13. QED
    BY <2>5, <2>7, <2>8, <2>9, <2>10, <2>11, <2>12 DEF p, H
<1>6. QED
  BY <1>4, <1>5

\* A byte that is written to a socket is one more in the sockets.
LEMMA Sent ==
  ASSUME NEW p \in [Pairs -> Seq(Byte)], NEW q, NEW i \in Pairs,
         HoldsFirst(p),
         q = [p EXCEPT ![i] = Append(@, "m")]
  PROVE  /\ q \in [Pairs -> Seq(Byte)]
         /\ HoldsFirst(q)
         /\ SumFunction(Lengths(p)) \in Nat
         /\ SumFunction(Lengths(q)) = SumFunction(Lengths(p)) + 1
<1>1. p[i] \in Seq(Byte) /\ "m" \in Byte
  BY DEF Byte
<1>2. /\ Append(p[i], "m") \in Seq(Byte) /\ Len(p[i]) \in Nat
      /\ DOMAIN p[i] = 1 .. Len(p[i])
      /\ Len(Append(p[i], "m")) = Len(p[i]) + 1
      /\ DOMAIN Append(p[i], "m") = 1 .. Len(p[i]) + 1
      /\ \A k \in 1 .. Len(p[i]) : Append(p[i], "m")[k] = p[i][k]
      /\ Append(p[i], "m")[Len(p[i]) + 1] = "m"
  BY <1>1, AppendProperties, LenProperties
<1>3. /\ q \in [Pairs -> Seq(Byte)] /\ q[i] = Append(p[i], "m")
      /\ \A j \in Pairs \ {i} : q[j] = p[j]
  BY <1>2
<1>4. \A k \in DOMAIN q[i] : q[i][k] = "m"
  BY <1>2, <1>3 DEF HoldsFirst
<1>5. /\ SumFunction(Lengths(p)) \in Nat
      /\ SumFunction(Lengths(q)) = SumFunction(Lengths(p)) - Len(p[i]) + Len(q[i])
  BY <1>3, PipeChanges
<1>6. QED
  BY <1>2, <1>3, <1>4, <1>5 DEF HoldsFirst

-----------------------------------------------------------------------------
(* Each step.                                                              *)

LEMMA InitIInv ==
  Init => IInv
<1> SUFFICES ASSUME Init PROVE IInv
  OBVIOUS
<1> USE DEF Init
<1>1. TypeOK
  BY EmptySeq DEF TypeOK, Byte, ReadStates
<1>2. InPipes = 0
  <2>1. pipe \in [Pairs -> Seq(Byte)] /\ \A i \in Pairs : pipe[i] = <<>>
    BY <1>1 DEF TypeOK
  <2>2. QED
    BY <2>1, PipesEmpty, BalanceDef
<1>3. InHandlers = {}
  BY DEF InHandlers
<1>4. Balance
  BY <1>2, <1>3, FS_EmptySet DEF Balance
<1>5. CountInv
  BY <1>3, RingAssumption DEF CountInv
<1>6. StopInv
  BY DEF StopInv
<1>7. OnlyFirstByte
  BY EmptySeq DEF OnlyFirstByte
<1>8. QED
  BY <1>1, <1>4, <1>5, <1>6, <1>7 DEF IInv

\* pair_write() of start(): the pair exists.
LEMMA StartWriteStep ==
  ASSUME IInv, StartWrite
  PROVE  IInv'
<1> USE DEF IInv
<1>1. /\ main = "start" /\ main' = main /\ data' = data /\ reading' = reading
      /\ reads' = reads /\ stops' = stops /\ writes' = writes + 1 /\ writes < ActiveCount
      /\ pipe' = [pipe EXCEPT ![writes] = Append(@, "m")]
  BY DEF StartWrite
<1>2. writes \in Pairs /\ writes \in Nat /\ reads \in Nat
  BY <1>1, RingAssumption DEF TypeOK, Pairs
<1>3. /\ pipe \in [Pairs -> Seq(Byte)]
      /\ HoldsFirst(pipe)
  BY DEF TypeOK, OnlyFirstByte, HoldsFirst
<1>4. /\ pipe' \in [Pairs -> Seq(Byte)]
      /\ HoldsFirst(pipe')
      /\ InPipes \in Nat /\ InPipes' = InPipes + 1
  BY <1>1, <1>2, <1>3, Sent, BalanceDef
<1>5. InHandlers' = InHandlers /\ Cardinality(InHandlers) \in Nat
  BY <1>1, HandlersFinite, BalanceDef DEF InHandlers
<1>6. TypeOK'
  BY <1>1, <1>2, <1>4 DEF TypeOK
<1>7. Balance'
  <2>1. writes - reads = InPipes + Cardinality(InHandlers)
    BY DEF Balance
  <2>2. InPipes \in Nat /\ Cardinality(InHandlers) \in Nat
    BY <1>4, <1>5
  <2>3. (writes + 1) - reads = (InPipes + 1) + Cardinality(InHandlers)
    BY <1>2, <2>1, <2>2
  <2>4. writes' = writes + 1 /\ reads' = reads /\ InPipes' = InPipes + 1
    BY <1>1, <1>4
  <2>5. QED
    BY <1>5, <2>3, <2>4 DEF Balance
<1>8. CountInv'
  BY <1>1, <1>2, <1>5, RingAssumption DEF CountInv
<1>9. StopInv'
  BY <1>1, <1>2 DEF StopInv, CountInv, TypeOK
<1>10. OnlyFirstByte'
  BY <1>1, <1>4 DEF OnlyFirstByte
<1>11. QED
  BY <1>6, <1>7, <1>8, <1>9, <1>10

LEMMA EnterRunStep ==
  ASSUME IInv, EnterRun
  PROVE  IInv'
<1> USE DEF IInv
<1>1. /\ main = "start" /\ main' = "run" /\ data' = data /\ reading' = reading /\ pipe' = pipe
      /\ reads' = reads /\ stops' = stops /\ writes' = writes /\ writes = ActiveCount
  BY DEF EnterRun
<1>2. reads = 0 /\ stops = 0 /\ writes \in Nat \ {0}
  BY <1>1, RingAssumption DEF CountInv
<1>3. InPipes' = InPipes /\ InHandlers' = InHandlers
  BY <1>1, BalanceDef DEF InHandlers
<1>4. TypeOK'
  BY <1>1 DEF TypeOK
<1>5. Balance'
  BY <1>1, <1>3 DEF Balance
<1>6. CountInv'
  BY <1>1, <1>2, RingAssumption DEF CountInv
<1>7. StopInv'
  BY <1>1, <1>2 DEF StopInv
<1>8. OnlyFirstByte'
  BY <1>1 DEF OnlyFirstByte
<1>9. QED
  BY <1>4, <1>5, <1>6, <1>7, <1>8

\* The byte that is read from a socket is with a handler.
LEMMA ArriveStep ==
  ASSUME IInv, NEW i \in Pairs, Arrive(i)
  PROVE  IInv'
<1> USE DEF IInv
<1>1. /\ main = "run" /\ main' = main /\ reads' = reads /\ stops' = stops /\ writes' = writes
      /\ reading[i] = "waiting" /\ pipe[i] # <<>>
      /\ pipe' = [pipe EXCEPT ![i] = Tail(@)]
      /\ data' = [data EXCEPT ![i] = Head(pipe[i])]
      /\ reading' = [reading EXCEPT ![i] = "ready"]
  BY DEF Arrive
<1>2. /\ pipe \in [Pairs -> Seq(Byte)] /\ data \in [Pairs -> Byte]
      /\ reading \in [Pairs -> ReadStates] /\ writes \in Nat /\ reads \in Nat
      /\ stops \in 0 .. 1
      /\ HoldsFirst(pipe)
  BY DEF TypeOK, OnlyFirstByte, HoldsFirst
<1>3. /\ Tail(pipe[i]) \in Seq(Byte) /\ Head(pipe[i]) \in Byte /\ Head(pipe[i]) = pipe[i][1]
      /\ Len(pipe[i]) \in Nat \ {0} /\ DOMAIN pipe[i] = 1 .. Len(pipe[i])
      /\ Len(Tail(pipe[i])) = Len(pipe[i]) - 1
      /\ DOMAIN Tail(pipe[i]) = 1 .. Len(Tail(pipe[i]))
      /\ \A k \in 1 .. Len(Tail(pipe[i])) : Tail(pipe[i])[k] = pipe[i][k + 1]
  BY <1>1, <1>2, HeadTailProperties, EmptySeq, LenProperties
<1>4. /\ pipe' \in [Pairs -> Seq(Byte)] /\ pipe'[i] = Tail(pipe[i])
      /\ \A j \in Pairs \ {i} : pipe'[j] = pipe[j]
  BY <1>1, <1>2, <1>3
<1>5. Head(pipe[i]) = "m" /\ \A k \in DOMAIN Tail(pipe[i]) : Tail(pipe[i])[k] = "m"
  BY <1>2, <1>3 DEF HoldsFirst
<1>6. data' \in [Pairs -> Byte] /\ data'[i] = "m" /\ \A j \in Pairs \ {i} : data'[j] = data[j]
  BY <1>1, <1>2, <1>3, <1>5
<1>7. /\ reading' \in [Pairs -> ReadStates] /\ reading'[i] = "ready"
      /\ \A j \in Pairs \ {i} : reading'[j] = reading[j]
  BY <1>1, <1>2 DEF ReadStates
<1>8. InPipes \in Nat /\ InPipes' = InPipes - Len(pipe[i]) + Len(Tail(pipe[i]))
  BY <1>2, <1>4, PipeChanges, BalanceDef
<1>9. InHandlers' = InHandlers \cup {i} /\ i \notin InHandlers
  BY <1>1, <1>7 DEF InHandlers
<1>10. /\ Cardinality(InHandlers) \in Nat
       /\ Cardinality(InHandlers') = Cardinality(InHandlers) + 1
  BY <1>9, HandlersFinite, BalanceDef
<1>11. TypeOK'
  BY <1>1, <1>2, <1>4, <1>6, <1>7 DEF TypeOK
<1>12. Balance'
  <2>1. writes - reads = InPipes + Cardinality(InHandlers)
    BY DEF Balance
  <2>2. InPipes' = InPipes - 1
    BY <1>3, <1>8
  <2>3. writes - reads = (InPipes - 1) + (Cardinality(InHandlers) + 1)
    BY <1>2, <1>8, <1>10, <2>1
  <2>4. QED
    BY <1>1, <1>10, <2>2, <2>3 DEF Balance
<1>13. CountInv'
  BY <1>1 DEF CountInv
<1>14. StopInv'
  <2>1. stops = 0
    BY <1>1, <1>2 DEF StopInv
  <2>2. \A j \in Pairs : reading'[j] \in {"waiting", "ready"}
    BY <1>7, <2>1 DEF StopInv
  <2>3. QED
    BY <1>1, <2>1, <2>2 DEF StopInv
<1>15. OnlyFirstByte'
  <2>1. HoldsFirst(pipe')
    BY <1>2, <1>4, <1>5 DEF HoldsFirst
  <2>2. \A j \in Pairs : reading'[j] = "ready" => data'[j] = "m"
    BY <1>6, <1>7 DEF OnlyFirstByte
  <2>3. QED
    BY <2>1, <2>2 DEF OnlyFirstByte, HoldsFirst
<1>16. QED
  BY <1>11, <1>12, <1>13, <1>14, <1>15

\* What a handler finds: the ring is not closed.
LEMMA HandlerFinds ==
  ASSUME IInv, NEW i \in Pairs, HandlerBegins(i)
  PROVE  /\ main = "run" /\ reading[i] = "ready" /\ stops = 0 /\ reads # writes
         /\ reads' = reads + 1 /\ reads \in Nat /\ writes \in Nat
         /\ \A j \in Pairs : reading[j] \in {"waiting", "ready"}
<1>1. main = "run" /\ reading[i] = "ready" /\ reads' = reads + 1
  BY DEF HandlerBegins
<1>2. stops \in 0 .. 1 /\ reads \in Nat /\ writes \in Nat
  BY DEF IInv, TypeOK
<1>3. stops = 0
  BY <1>1, <1>2 DEF IInv, StopInv
<1>4. QED
  BY <1>1, <1>2, <1>3 DEF IInv, StopInv

\* The byte goes round: the number of those on their way stays.
LEMMA ForwardStep ==
  ASSUME IInv, NEW i \in Pairs, Forward(i)
  PROVE  IInv'
<1> USE DEF IInv
<1> DEFINE p == PipeAfterRead(i)
           R == ReadingAfterRead(i)
           D == DataAfterRead(i)
           H == {j \in Pairs : R[j] = "ready"}
<1>1. /\ HandlerBegins(i) /\ main' = main /\ stops' = stops /\ writes' = writes + 1
      /\ data' = D /\ reading' = R /\ reads + 1 < WriteCount
      /\ pipe' = [p EXCEPT ![Successor(i)] = Append(@, D[i])]
  BY DEF Forward
<1>2. /\ main = "run" /\ reading[i] = "ready" /\ stops = 0 /\ reads # writes
      /\ reads' = reads + 1 /\ reads \in Nat /\ writes \in Nat
      /\ \A j \in Pairs : reading[j] \in {"waiting", "ready"}
  BY <1>1, HandlerFinds
<1>3. /\ p \in [Pairs -> Seq(Byte)] /\ D \in [Pairs -> Byte]
      /\ R \in [Pairs -> {"waiting", "ready", "aborted", "none"}] /\ D[i] = "m"
      /\ HoldsFirst(p)
      /\ \A j \in Pairs \ {i} : D[j] = data[j] /\ R[j] = reading[j]
      /\ R[i] \in {"waiting", "ready"}
      /\ InPipes \in Nat /\ Cardinality(InHandlers) \in Nat
      /\ SumFunction(Lengths(p)) \in Nat /\ Cardinality(H) \in Nat
      /\ SumFunction(Lengths(p)) + Cardinality(H) = InPipes + Cardinality(InHandlers) - 1
  BY <1>2, AfterRead
<1> HIDE DEF p, R, D
<1>4. pipe' = [p EXCEPT ![Successor(i)] = Append(@, "m")]
  BY <1>1, <1>3
<1>5. Successor(i) \in Pairs
  BY SuccessorType
<1>6. /\ pipe' \in [Pairs -> Seq(Byte)]
      /\ HoldsFirst(pipe')
      /\ SumFunction(Lengths(pipe')) = SumFunction(Lengths(p)) + 1
  <2> DEFINE q == pipe'
             n == Successor(i)
  <2>1. /\ n \in Pairs /\ q = [p EXCEPT ![n] = Append(@, "m")]
        /\ p \in [Pairs -> Seq(Byte)]
        /\ HoldsFirst(p)
    BY <1>3, <1>4, <1>5
  <2> HIDE DEF q, n
  <2>2. /\ q \in [Pairs -> Seq(Byte)]
        /\ HoldsFirst(q)
        /\ SumFunction(Lengths(q)) = SumFunction(Lengths(p)) + 1
    BY <2>1, Sent
  <2>3. QED
    BY <2>2 DEF q
<1>7. InHandlers' = H
  BY <1>1 DEF InHandlers
<1> HIDE DEF H
<1>8. /\ Cardinality(H) \in Nat /\ Cardinality(InHandlers) \in Nat
      /\ InPipes' = SumFunction(Lengths(p)) + 1
  BY <1>6, <1>7, HandlersFinite, BalanceDef
<1>9. TypeOK'
  BY <1>1, <1>2, <1>3, <1>6 DEF TypeOK, ReadStates
<1>10. Balance'
  <2>1. writes - reads = InPipes + Cardinality(InHandlers)
    BY DEF Balance
  <2>2. InPipes' + Cardinality(H) = SumFunction(Lengths(p)) + Cardinality(H) + 1
    BY <1>3, <1>8
  <2>3. InPipes' + Cardinality(InHandlers') = writes - reads
    BY <1>2, <1>3, <1>7, <2>1, <2>2
  <2>4. writes' - reads' = writes - reads
    BY <1>1, <1>2
  <2>5. QED
    BY <2>3, <2>4 DEF Balance
<1>11. CountInv'
  BY <1>1, <1>2, RingAssumption DEF CountInv
<1>12. StopInv'
  <2>1. \A j \in Pairs : R[j] \in {"waiting", "ready"}
    BY <1>2, <1>3
  <2>2. reads' # writes'
    BY <1>1, <1>2
  <2>3. QED
    BY <1>1, <1>2, <2>1, <2>2 DEF StopInv
<1>13. OnlyFirstByte'
  <2>1. \A j \in Pairs : R[j] = "ready" => D[j] = "m"
    BY <1>3 DEF OnlyFirstByte
  <2>2. QED
    BY <1>1, <1>6, <2>1 DEF OnlyFirstByte, HoldsFirst
<1>14. QED
  BY <1>9, <1>10, <1>11, <1>12, <1>13

\* The last byte has been read: no socket holds one and no handler is queued,
\* so that each read waits and is cancelled.
LEMMA StopStep ==
  ASSUME IInv, NEW i \in Pairs, Stop(i)
  PROVE  IInv'
<1> USE DEF IInv
<1> DEFINE p == PipeAfterRead(i)
           R == ReadingAfterRead(i)
           D == DataAfterRead(i)
           H == {j \in Pairs : R[j] = "ready"}
<1>1. /\ HandlerBegins(i) /\ main' = main /\ stops' = stops + 1 /\ writes' = writes
      /\ data' = D /\ pipe' = p /\ reads + 1 >= WriteCount /\ reads + 1 = writes
      /\ reading' = [j \in Pairs |-> IF R[j] = "waiting" THEN "aborted" ELSE R[j]]
  BY DEF Stop
<1>2. /\ main = "run" /\ reading[i] = "ready" /\ stops = 0
      /\ reads' = reads + 1 /\ reads \in Nat /\ writes \in Nat
      /\ \A j \in Pairs : reading[j] \in {"waiting", "ready"}
  BY <1>1, HandlerFinds
<1>3. /\ p \in [Pairs -> Seq(Byte)] /\ D \in [Pairs -> Byte]
      /\ HoldsFirst(p)
      /\ \A j \in Pairs \ {i} : R[j] = reading[j]
      /\ R[i] \in {"waiting", "ready"}
      /\ InPipes \in Nat /\ Cardinality(InHandlers) \in Nat
      /\ SumFunction(Lengths(p)) \in Nat /\ Cardinality(H) \in Nat
      /\ SumFunction(Lengths(p)) + Cardinality(H) = InPipes + Cardinality(InHandlers) - 1
  BY <1>2, AfterRead
<1>4. H \in SUBSET Pairs
  OBVIOUS
<1>5. \A j \in Pairs : R[j] \in {"waiting", "ready"} /\ (j \in H <=> R[j] = "ready")
  BY <1>2, <1>3
<1> HIDE DEF p, R, D, H
<1>6. Cardinality(H) \in Nat /\ (Cardinality(H) = 0 <=> H = {})
  BY <1>4, HandlersFinite
<1>7. SumFunction(Lengths(p)) = 0 /\ Cardinality(H) = 0
  <2>1. InPipes + Cardinality(InHandlers) = 1
    BY <1>1, <1>2 DEF Balance
  <2>2. QED
    BY <1>3, <1>6, <2>1
<1>8. \A j \in Pairs : R[j] = "waiting"
  BY <1>5, <1>6, <1>7
<1>9. reading' = [j \in Pairs |-> "aborted"]
  BY <1>1, <1>8
<1>10. InHandlers' = {} /\ Cardinality(InHandlers') = 0
  <2>1. InHandlers' = {}
    BY <1>9 DEF InHandlers
  <2>2. QED
    BY <2>1, FS_EmptySet
<1>11. InPipes' = 0
  BY <1>1, <1>7, BalanceDef
<1>12. TypeOK'
  BY <1>1, <1>2, <1>3, <1>9 DEF TypeOK, ReadStates
<1>13. Balance'
  BY <1>1, <1>2, <1>10, <1>11 DEF Balance
<1>14. CountInv'
  BY <1>1, <1>2, RingAssumption DEF CountInv
<1>15. StopInv'
  BY <1>1, <1>2, <1>9 DEF StopInv
<1>16. OnlyFirstByte'
  BY <1>1, <1>3, <1>9 DEF OnlyFirstByte, HoldsFirst
<1>17. QED
  BY <1>12, <1>13, <1>14, <1>15, <1>16

LEMMA DrainStep ==
  ASSUME IInv, NEW i \in Pairs, Drain(i)
  PROVE  IInv'
<1> USE DEF IInv
<1> DEFINE p == PipeAfterRead(i)
           R == ReadingAfterRead(i)
           D == DataAfterRead(i)
           H == {j \in Pairs : R[j] = "ready"}
<1>1. /\ HandlerBegins(i) /\ main' = main /\ stops' = stops /\ writes' = writes
      /\ data' = D /\ reading' = R /\ pipe' = p
      /\ reads + 1 >= WriteCount /\ reads + 1 # writes
  BY DEF Drain
<1>2. /\ main = "run" /\ reading[i] = "ready" /\ stops = 0 /\ reads # writes
      /\ reads' = reads + 1 /\ reads \in Nat /\ writes \in Nat
      /\ \A j \in Pairs : reading[j] \in {"waiting", "ready"}
  BY <1>1, HandlerFinds
<1>3. /\ p \in [Pairs -> Seq(Byte)] /\ D \in [Pairs -> Byte]
      /\ R \in [Pairs -> {"waiting", "ready", "aborted", "none"}] /\ D[i] = "m"
      /\ HoldsFirst(p)
      /\ \A j \in Pairs \ {i} : D[j] = data[j] /\ R[j] = reading[j]
      /\ R[i] \in {"waiting", "ready"}
      /\ InPipes \in Nat /\ Cardinality(InHandlers) \in Nat
      /\ SumFunction(Lengths(p)) \in Nat /\ Cardinality(H) \in Nat
      /\ SumFunction(Lengths(p)) + Cardinality(H) = InPipes + Cardinality(InHandlers) - 1
  BY <1>2, AfterRead
<1> HIDE DEF p, R, D
<1>4. InHandlers' = H /\ InPipes' = SumFunction(Lengths(p))
  BY <1>1, BalanceDef DEF InHandlers
<1> HIDE DEF H
<1>5. TypeOK'
  BY <1>1, <1>2, <1>3 DEF TypeOK, ReadStates
<1>6. Balance'
  <2>1. writes - reads = InPipes + Cardinality(InHandlers)
    BY DEF Balance
  <2>2. InPipes' + Cardinality(InHandlers') = writes - reads - 1
    BY <1>3, <1>4, <2>1
  <2>3. writes' - reads' = writes - reads - 1
    BY <1>1, <1>2
  <2>4. QED
    BY <2>2, <2>3 DEF Balance
<1>7. CountInv'
  BY <1>1, <1>2, RingAssumption DEF CountInv
<1>8. StopInv'
  <2>1. \A j \in Pairs : R[j] \in {"waiting", "ready"}
    BY <1>2, <1>3
  <2>2. QED
    BY <1>1, <1>2, <2>1 DEF StopInv
<1>9. OnlyFirstByte'
  <2>1. \A j \in Pairs : R[j] = "ready" => D[j] = "m"
    BY <1>3 DEF OnlyFirstByte
  <2>2. QED
    BY <1>1, <1>3, <2>1 DEF OnlyFirstByte, HoldsFirst
<1>10. QED
  BY <1>5, <1>6, <1>7, <1>8, <1>9

LEMMA AbortedStep ==
  ASSUME IInv, NEW i \in Pairs, Aborted(i)
  PROVE  IInv'
<1> USE DEF IInv
<1>1. /\ main = "run" /\ main' = main /\ pipe' = pipe /\ data' = data /\ reads' = reads
      /\ writes' = writes /\ stops' = stops /\ reading[i] = "aborted"
      /\ reading' = [reading EXCEPT ![i] = "none"]
  BY DEF Aborted
<1>2. reading \in [Pairs -> ReadStates] /\ stops \in 0 .. 1
  BY DEF TypeOK
<1>3. /\ reading' \in [Pairs -> ReadStates] /\ reading'[i] = "none"
      /\ \A j \in Pairs \ {i} : reading'[j] = reading[j]
  BY <1>1, <1>2 DEF ReadStates
<1>4. InHandlers' = InHandlers /\ InPipes' = InPipes
  BY <1>1, <1>3, BalanceDef DEF InHandlers
<1>5. TypeOK'
  BY <1>1, <1>3 DEF TypeOK
<1>6. Balance'
  BY <1>1, <1>4 DEF Balance
<1>7. CountInv'
  BY <1>1 DEF CountInv
<1>8. StopInv'
  BY <1>1, <1>2, <1>3 DEF StopInv
<1>9. OnlyFirstByte'
  BY <1>1, <1>3 DEF OnlyFirstByte
<1>10. QED
  BY <1>5, <1>6, <1>7, <1>8, <1>9

\* run() returns only when the ring has been closed.
LEMMA RunReturnsStep ==
  ASSUME IInv, RunReturns
  PROVE  IInv'
<1> USE DEF IInv
<1>1. /\ main = "run" /\ main' = "done" /\ pipe' = pipe /\ data' = data /\ reading' = reading
      /\ reads' = reads /\ writes' = writes /\ stops' = stops
      /\ \A i \in Pairs : reading[i] = "none"
  BY DEF RunReturns
<1>2. stops = 1
  BY <1>1, PairsFinite DEF StopInv, TypeOK
<1>3. InHandlers' = InHandlers /\ InPipes' = InPipes
  BY <1>1, BalanceDef DEF InHandlers
<1>4. TypeOK'
  BY <1>1 DEF TypeOK
<1>5. Balance'
  BY <1>1, <1>3 DEF Balance
<1>6. CountInv'
  BY <1>1 DEF CountInv
<1>7. StopInv'
  BY <1>1, <1>2 DEF StopInv
<1>8. OnlyFirstByte'
  BY <1>1 DEF OnlyFirstByte
<1>9. QED
  BY <1>4, <1>5, <1>6, <1>7, <1>8

LEMMA NextIInv ==
  IInv /\ [Next]_vars => IInv'
<1> SUFFICES ASSUME IInv, [Next]_vars
             PROVE  IInv'
  OBVIOUS
<1>1. CASE StartWrite
  BY <1>1, StartWriteStep
<1>2. CASE EnterRun
  BY <1>2, EnterRunStep
<1>3. CASE \E i \in Pairs : PairStep(i)
  <2>1. PICK i \in Pairs : PairStep(i)
    BY <1>3
  <2>2. CASE Arrive(i)
    BY <2>2, ArriveStep
  <2>3. CASE Forward(i)
    BY <2>3, ForwardStep
  <2>4. CASE Stop(i)
    BY <2>4, StopStep
  <2>5. CASE Drain(i)
    BY <2>5, DrainStep
  <2>6. CASE Aborted(i)
    BY <2>6, AbortedStep
  <2>7. QED
    BY <2>1, <2>2, <2>3, <2>4, <2>5, <2>6 DEF PairStep
<1>4. CASE RunReturns
  BY <1>4, RunReturnsStep
<1>5. CASE UNCHANGED vars
  <2>1. /\ main' = main /\ pipe' = pipe /\ data' = data /\ reading' = reading
        /\ reads' = reads /\ writes' = writes /\ stops' = stops
    BY <1>5 DEF vars
  <2>2. InHandlers' = InHandlers /\ InPipes' = InPipes
    BY <2>1, BalanceDef DEF InHandlers
  <2>3. TypeOK' /\ Balance' /\ StopInv' /\ OnlyFirstByte'
    BY <2>1, <2>2 DEF IInv, TypeOK, Balance, StopInv, OnlyFirstByte
  <2>4. CountInv'
    BY <2>1, <2>2 DEF IInv, CountInv
  <2>5. QED
    BY <2>3, <2>4 DEF IInv
<1>6. QED
  BY <1>1, <1>2, <1>3, <1>4, <1>5 DEF Next, Step, Terminated

-----------------------------------------------------------------------------
(* The theorems.                                                           *)

\* The invariant that the others follow from.
THEOREM Invariance == Spec => []IInv
<1>1. QED
  BY InitIInv, NextIInv, PTL DEF Spec

\* The types of the variables.
THEOREM TypeCorrect == Spec => []TypeOK
<1>1. IInv => TypeOK
  BY DEF IInv
<1>2. QED
  BY <1>1, Invariance, PTL

\* real_write_count_ - real_read_count_ is the number of bytes on their way, and
\* it never exceeds ActiveCount.
THEOREM CountersCorrect == Spec => []CountersTellInFlight
<1>1. IInv => CountersTellInFlight
  <2> SUFFICES ASSUME IInv PROVE CountersTellInFlight
    OBVIOUS
  <2>1. /\ main \in {"start", "run", "done"} /\ reads \in Nat /\ writes \in Nat
    BY DEF IInv, TypeOK
  <2>2. writes - reads <= ActiveCount
    BY <2>1, RingAssumption DEF IInv, CountInv
  <2>3. QED
    BY <2>2 DEF IInv, Balance, CountersTellInFlight
<1>2. QED
  BY <1>1, Invariance, PTL

\* Only first_ch_ goes round.
THEOREM FirstByteGoesRound == Spec => []OnlyFirstByte
<1>1. IInv => OnlyFirstByte
  BY DEF IInv
<1>2. QED
  BY <1>1, Invariance, PTL

\* When run() has returned everything written has been read.
THEOREM FinalCountCorrect == Spec => []FinalCount
<1>1. IInv => FinalCount
  <2> SUFFICES ASSUME IInv, main = "done" PROVE FinalCount
    BY DEF FinalCount
  <2>1. reads \in Nat /\ writes \in Nat /\ stops = 1 /\ reads = writes
    BY DEF IInv, TypeOK, StopInv
  <2>2. writes = ActiveCount + (IF WriteCount = 0 THEN 0 ELSE WriteCount - 1)
    BY <2>1, RingAssumption DEF IInv, CountInv
  <2>3. QED
    BY <2>1, <2>2 DEF FinalCount
<1>2. QED
  BY <1>1, Invariance, PTL

\* Whether Step may be taken: a handler is queued, the reactor finds a byte to
\* read, or no read is outstanding.
MayStep ==
  \/ main = "start"
  \/ /\ main = "run"
     /\ \/ \E i \in Pairs : /\ reading[i] \in {"ready", "aborted", "waiting"}
                            /\ reading[i] = "waiting" => pipe[i] # <<>>
        \/ \A i \in Pairs : reading[i] = "none"

Awake == main = "done" \/ MayStep

\* The ring does not fall asleep: until run() returns a byte is to be read, a
\* handler to be run, or nothing is left and run() returns.  A ring whose reads
\* all wait for bytes that nobody has written would never end.
THEOREM NeverAsleep == Spec => []Awake
<1>1. ASSUME IInv, ~Awake PROVE FALSE
  <2>1. main = "run" /\ stops \in 0 .. 1
    BY <1>1 DEF Awake, MayStep, IInv, TypeOK
  <2>2. \A i \in Pairs : /\ reading[i] \in {"waiting", "none"}
                         /\ reading[i] = "waiting" => pipe[i] = <<>>
    BY <1>1, <2>1 DEF Awake, MayStep, IInv, TypeOK, ReadStates
  <2>3. stops = 0
    <3>1. stops = 1 => \A i \in Pairs : reading[i] = "none"
      BY <1>1, <2>2 DEF IInv, StopInv
    <3>2. QED
      BY <1>1, <2>1, <3>1 DEF Awake, MayStep
  <2>4. \A i \in Pairs : reading[i] = "waiting" /\ pipe[i] = <<>>
    BY <1>1, <2>2, <2>3 DEF IInv, StopInv
  <2>5. writes - reads = SumFunction(Lengths(pipe)) + Cardinality(InHandlers)
    BY <1>1, BalanceDef DEF IInv, Balance
  <2>6. SumFunction(Lengths(pipe)) = 0
    BY <1>1, <2>4, PipesEmpty DEF IInv, TypeOK
  <2>7. Cardinality(InHandlers) = 0
    <3>1. InHandlers = {}
      BY <2>4 DEF InHandlers
    <3>2. QED
      BY <3>1, FS_EmptySet
  <2>8. writes = reads
    BY <1>1, <2>5, <2>6, <2>7 DEF IInv, TypeOK
  <2>9. QED
    BY <1>1, <2>1, <2>3, <2>8 DEF IInv, StopInv
<1>2. IInv => Awake
  BY <1>1
<1>3. QED
  BY <1>2, Invariance, PTL
=============================================================================
