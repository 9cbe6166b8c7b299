------------------------ MODULE TaskIoService_proofs ------------------------
(***************************************************************************)
(* Proofs about the scheduler, for any finite number of threads, clients   *)
(* and operations: its state is well-typed, outstanding_work_ counts what  *)
(* it should, every step is one that IoService allows, the service stops   *)
(* only when nothing is left that was begun in time, and no wakeup is lost *)
(* for good.                                                               *)
(***************************************************************************)
EXTENDS TaskIoService, SequenceTheorems, FiniteSetTheorems, FunctionTheorems, TLAPS

-----------------------------------------------------------------------------
(* What the proofs need to know of queues: the set of elements of a        *)
(* sequence (ToSet) and sequences without repetition (NoRepeat), under     *)
(* concatenation, Append and Tail.                                         *)

NoRepeat(s) == \A i, j \in 1 .. Len(s) : s[i] = s[j] => i = j

\* The elements of a sequence are those at its indices.
LEMMA ToSetDef ==
  ASSUME NEW S, NEW s \in Seq(S)
  PROVE  /\ ToSet(s) = {s[i] : i \in 1 .. Len(s)}
         /\ ToSet(s) \subseteq S
  BY DEF ToSet

\* The empty sequence has no elements and repeats none.
LEMMA ToSetEmpty ==
  ToSet(<<>>) = {} /\ NoRepeat(<<>>)
  BY DEF ToSet, NoRepeat

\* A concatenation has the elements of both parts.
LEMMA ToSetConcat ==
  ASSUME NEW S, NEW s \in Seq(S), NEW t \in Seq(S)
  PROVE  /\ s \o t \in Seq(S)
         /\ ToSet(s \o t) = ToSet(s) \cup ToSet(t)
         /\ NoRepeat(s) /\ NoRepeat(t) /\ ToSet(s) \cap ToSet(t) = {}
              => NoRepeat(s \o t)
<1> DEFINE st == s \o t
<1>1. /\ st \in Seq(S)
      /\ Len(st) = Len(s) + Len(t)
      /\ \A i \in 1 .. Len(s) : st[i] = s[i]
      /\ \A i \in 1 .. Len(t) : st[i + Len(s)] = t[i]
      /\ \A i \in 1 .. Len(st) : st[i] = IF i <= Len(s) THEN s[i] ELSE t[i - Len(s)]
  BY ConcatProperties, LenProperties
<1>2. Len(s) \in Nat /\ Len(t) \in Nat
  BY LenProperties
<1>3. /\ ToSet(s) = {s[i] : i \in 1 .. Len(s)}
      /\ ToSet(t) = {t[i] : i \in 1 .. Len(t)}
      /\ ToSet(st) = {st[i] : i \in 1 .. Len(st)}
  BY <1>1, ToSetDef
<1> HIDE DEF st
<1>4. ToSet(st) \subseteq ToSet(s) \cup ToSet(t)
  BY <1>1, <1>2, <1>3
<1>5. ToSet(s) \subseteq ToSet(st)
  BY <1>1, <1>2, <1>3
<1>6. ToSet(t) \subseteq ToSet(st)
  <2> SUFFICES ASSUME NEW i \in 1 .. Len(t) PROVE t[i] \in ToSet(st)
    BY <1>3
  <2>1. i + Len(s) \in 1 .. Len(st) /\ st[i + Len(s)] = t[i]
    BY <1>1, <1>2
  <2>2. QED
    BY <2>1, <1>3
<1>7. ASSUME NoRepeat(s), NoRepeat(t), ToSet(s) \cap ToSet(t) = {}
      PROVE  NoRepeat(st)
  <2> SUFFICES ASSUME NEW i \in 1 .. Len(st), NEW j \in 1 .. Len(st),
                      st[i] = st[j]
               PROVE  i = j
    BY DEF NoRepeat
  <2>1. CASE i <= Len(s) /\ j <= Len(s)
    BY <2>1, <1>1, <1>2, <1>7 DEF NoRepeat
  <2>2. CASE i > Len(s) /\ j > Len(s)
    <3>1. /\ i - Len(s) \in 1 .. Len(t) /\ st[i] = t[i - Len(s)]
          /\ j - Len(s) \in 1 .. Len(t) /\ st[j] = t[j - Len(s)]
      BY <2>2, <1>1, <1>2
    <3>2. i - Len(s) = j - Len(s)
      BY <3>1, <1>7 DEF NoRepeat
    <3>3. QED
      BY <3>2, <1>2
  <2>3. ASSUME NEW k \in 1 .. Len(st), NEW l \in 1 .. Len(st),
               k <= Len(s), l > Len(s), st[k] = st[l]
        PROVE  FALSE
    <3>1. st[k] \in ToSet(s)
      BY <2>3, <1>1, <1>2, <1>3
    <3>2. l - Len(s) \in 1 .. Len(t) /\ st[l] = t[l - Len(s)]
      BY <2>3, <1>1, <1>2
    <3>3. st[l] \in ToSet(t)
      BY <3>2, <1>3
    <3>4. QED
      BY <3>1, <3>3, <2>3, <1>7
  <2>4. CASE i <= Len(s) /\ j > Len(s)
    BY <2>3, <2>4
  <2>5. CASE i > Len(s) /\ j <= Len(s)
    BY <2>3, <2>5
  <2>6. QED
    BY <2>1, <2>2, <2>4, <2>5, <1>1, <1>2
<1>8. QED
  BY <1>1, <1>4, <1>5, <1>6, <1>7 DEF st

\* A sequence of one element.
LEMMA ToSetSingle ==
  ASSUME NEW S, NEW e \in S
  PROVE  <<e>> \in Seq(S) /\ ToSet(<<e>>) = {e} /\ NoRepeat(<<e>>)
  BY DEF ToSet, NoRepeat

\* Append adds its element.
LEMMA ToSetAppend ==
  ASSUME NEW S, NEW s \in Seq(S), NEW e \in S
  PROVE  /\ Append(s, e) \in Seq(S)
         /\ Append(s, e) # <<>>
         /\ Len(Append(s, e)) = Len(s) + 1
         /\ ToSet(Append(s, e)) = ToSet(s) \cup {e}
         /\ NoRepeat(s) /\ e \notin ToSet(s) => NoRepeat(Append(s, e))
<1>1. Append(s, e) = s \o <<e>>
  BY AppendIsConcat
<1> DEFINE t == <<e>>
<1>2. t \in Seq(S) /\ ToSet(t) = {e} /\ NoRepeat(t)
  BY ToSetSingle
<1> HIDE DEF t
<1>3. /\ s \o t \in Seq(S)
      /\ ToSet(s \o t) = ToSet(s) \cup {e}
      /\ NoRepeat(s) /\ ToSet(s) \cap {e} = {} => NoRepeat(s \o t)
  BY <1>2, ToSetConcat
<1>4. Append(s, e) # <<>> /\ Len(Append(s, e)) = Len(s) + 1
  BY AppendProperties
<1>5. QED
  BY <1>1, <1>3, <1>4, Zenon DEF t

\* Taking the head off a sequence without repetition leaves the other elements.
LEMMA ToSetTail ==
  ASSUME NEW S, NEW s \in Seq(S), s # <<>>
  PROVE  /\ Head(s) \in S
         /\ Tail(s) \in Seq(S)
         /\ ToSet(s) = {Head(s)} \cup ToSet(Tail(s))
         /\ NoRepeat(s) => NoRepeat(Tail(s)) /\ Head(s) \notin ToSet(Tail(s))
<1>1. /\ Head(s) \in S /\ Head(s) = s[1]
      /\ Tail(s) \in Seq(S)
      /\ Len(Tail(s)) = Len(s) - 1
      /\ \A i \in 1 .. Len(Tail(s)) : Tail(s)[i] = s[i + 1]
  BY HeadTailProperties
<1>2. Len(s) \in Nat \ {0}
  BY EmptySeq
<1>3. /\ ToSet(s) = {s[i] : i \in 1 .. Len(s)}
      /\ ToSet(Tail(s)) = {Tail(s)[i] : i \in 1 .. Len(Tail(s))}
  BY <1>1, ToSetDef
<1> DEFINE h == Head(s)
           u == Tail(s)
<1>4. ToSet(s) \subseteq {h} \cup ToSet(u)
  <2> SUFFICES ASSUME NEW i \in 1 .. Len(s), i # 1
               PROVE  s[i] \in ToSet(u)
    BY <1>1, <1>3
  <2>1. i - 1 \in 1 .. Len(u) /\ u[i - 1] = s[i]
    BY <1>1, <1>2
  <2> HIDE DEF u
  <2>2. QED
    BY <2>1, <1>3 DEF u
<1>5. {h} \cup ToSet(u) \subseteq ToSet(s)
  BY <1>1, <1>2, <1>3
<1>6. ASSUME NoRepeat(s)
      PROVE  NoRepeat(u) /\ h \notin ToSet(u)
  <2>1. \A i \in 1 .. Len(u) : i + 1 \in 1 .. Len(s) /\ u[i] = s[i + 1]
    BY <1>1, <1>2
  <2>2. NoRepeat(u)
    BY <2>1, <1>1, <1>2, <1>6 DEF NoRepeat
  <2>3. h \notin ToSet(u)
    <3> SUFFICES ASSUME NEW i \in 1 .. Len(u), u[i] = h
                 PROVE  FALSE
      BY <1>3
    <3>1. s[i + 1] = s[1] /\ i + 1 \in 1 .. Len(s) /\ 1 \in 1 .. Len(s)
      BY <2>1, <1>1, <1>2
    <3>2. i + 1 = 1
      BY <3>1, <1>6 DEF NoRepeat
    <3>3. QED
      BY <3>2, <1>1, <1>2
  <2>4. QED
    BY <2>2, <2>3
<1>7. QED
  BY <1>1, <1>4, <1>5, <1>6

\* A sequence without repetition has as many elements as its length.
LEMMA CardinalityToSet ==
  ASSUME NEW S, NEW s \in Seq(S), NoRepeat(s)
  PROVE  IsFiniteSet(ToSet(s)) /\ Cardinality(ToSet(s)) = Len(s)
<1>1. Len(s) \in Nat /\ s \in [1 .. Len(s) -> S]
  BY LenProperties
<1>2. ToSet(s) = {s[i] : i \in 1 .. Len(s)}
  BY ToSetDef
<1>3. s \in Bijection(1 .. Len(s), ToSet(s))
  BY <1>1, <1>2 DEF NoRepeat, Bijection, Injection, Surjection, IsInjective
<1>4. ExistsBijection(1 .. Len(s), ToSet(s))
  BY <1>3 DEF ExistsBijection
<1>5. IsFiniteSet(1 .. Len(s)) /\ Cardinality(1 .. Len(s)) = Len(s)
  BY <1>1, FS_Interval
<1>6. QED
  BY <1>4, <1>5, FS_Bijection

\* The sequences that SetToSeqs makes of a finite set are its permutations.
LEMMA SetToSeqsProperties ==
  ASSUME NEW S, IsFiniteSet(S), NEW s \in SetToSeqs(S)
  PROVE  /\ s \in Seq(S)
         /\ ToSet(s) = S
         /\ NoRepeat(s)
<1> DEFINE n == Cardinality(S)
<1>1. n \in Nat
  BY FS_CardinalityType
<1>2. s \in [1 .. n -> S] /\ \A i, j \in 1 .. n : i # j => s[i] # s[j]
  BY DEF SetToSeqs
<1>3. s \in Seq(S) /\ Len(s) = n
  BY <1>1, <1>2
<1>4. s \in Injection(1 .. n, S)
  BY <1>2 DEF Injection, IsInjective
<1>5. IsFiniteSet(1 .. n) /\ Cardinality(1 .. n) = n
  BY <1>1, FS_Interval
<1>6. s \in Surjection(1 .. n, S)
  BY <1>4, <1>5, FS_Injection
<1>7. ToSet(s) = S
  <2>1. ToSet(s) = {s[i] : i \in 1 .. n} /\ ToSet(s) \subseteq S
    BY <1>3, ToSetDef
  <2>2. \A x \in S : \E i \in 1 .. n : s[i] = x
    BY <1>6 DEF Surjection
  <2>3. QED
    BY <2>1, <2>2
<1>8. NoRepeat(s)
  BY <1>2, <1>3 DEF NoRepeat
<1>9. QED
  BY <1>3, <1>7, <1>8

-----------------------------------------------------------------------------
(* The inductive invariant.                                                *)

\* The process is in the middle of a handler (a client: of the program).
InUser(p) ==
  \/ pc[p] \in {"user", "push"}
  \/ pc[p] \in {"signal", "stop"} /\ ret[p] = "user"

\* Where a process is agrees with what it holds.
PcInv ==
  /\ \A p \in Processes :
       /\ pc[p] = "signal" => ret[p] \in {"user", "task"}
       /\ pc[p] = "stop" => ret[p] \in {"user", "loop", "returned"}
       /\ pc[p] = "push" <=> transit[p] # None
  /\ \A c \in Clients : pc[c] \in {"user", "push", "signal", "stop"} /\ ret[c] = "user"
  /\ \A t \in Threads : current[t] # None <=> InUser(t)

\* No queue holds an operation twice, and there is one task_operation_.
QueueInv ==
  /\ NoRepeat(queue)
  /\ \A t \in Threads : NoRepeat(privateQueue[t])
  /\ \A t, u \in Threads : InTask(t) /\ InTask(u) => t = u
  /\ \A t \in Threads : InTask(t) => task /\ Task \notin ToSet(queue)
  /\ task <=> Task \in ToSet(queue) \/ \E t \in Threads : InTask(t)

\* The operation is in no other place than the private queue of the thread.
OnlyPrivate(t, o) ==
  /\ o \notin QueuedOps /\ o \notin async /\ o \notin ready /\ o \notin done
  /\ \A u \in Threads : u # t => o \notin ToSet(privateQueue[u])
  /\ \A u \in Threads : o # current[u]
  /\ \A p \in Processes : o # transit[p]

\* An operation is in one place at a time.
UniqueInv ==
  /\ \A o \in Ops :
       /\ o \in QueuedOps => o \notin async /\ o \notin ready /\ o \notin done
       /\ o \in async => o \notin ready /\ o \notin done
       /\ o \in ready => o \notin done
  /\ \A p \in Processes : transit[p] \notin QueuedOps \cup async \cup ready \cup done
  /\ \A p, q \in Processes : transit[p] # None /\ transit[p] = transit[q] => p = q
  /\ \A t \in Threads : current[t] \notin QueuedOps \cup async \cup ready \cup done
  /\ \A t, u \in Threads : current[t] # None /\ current[t] = current[u] => t = u
  /\ \A t \in Threads, p \in Processes : current[t] # None => current[t] # transit[p]
  /\ \A t \in Threads, o \in Ops : o \in ToSet(privateQueue[t]) => OnlyPrivate(t, o)

\* The operations that outstanding_work_ counts: all but those in the private
\* queue of a thread in a handler.
Counted ==
  QueuedOps \cup Transits \cup async \cup ready \cup Running
    \cup UNION {ToSet(privateQueue[t]) : t \in {u \in Threads : current[u] = None}}

CountInv ==
  /\ outstanding = Cardinality(works) + Cardinality(Counted)
  /\ \A t \in Threads :
       privateWork[t] = IF current[t] # None THEN Len(privateQueue[t]) ELSE 0

\* The inductive invariant.
IInv ==
  /\ TypeOK
  /\ PcInv
  /\ QueueInv
  /\ UniqueInv
  /\ CountInv

-----------------------------------------------------------------------------
(* Facts about the sets of operations.                                     *)

\* The counted operations are operations, and there are finitely many.
LEMMA CountedFinite ==
  ASSUME TypeOK
  PROVE  /\ Counted \subseteq Ops
         /\ IsFiniteSet(Counted) /\ Cardinality(Counted) \in Nat
         /\ IsFiniteSet(works) /\ Cardinality(works) \in Nat
<1>1. QueuedOps \subseteq Ops
  BY ToSetDef DEF TypeOK, QueuedOps
<1>2. \A t \in Threads : ToSet(privateQueue[t]) \subseteq Ops
  BY ToSetDef DEF TypeOK
<1>3. Counted \subseteq Ops
  BY <1>1, <1>2 DEF Counted, Transits, Running, TypeOK
<1>4. IsFiniteSet(Counted) /\ IsFiniteSet(works)
  BY <1>3, FS_Subset, ConstantsAssumption DEF TypeOK
<1>5. QED
  BY <1>3, <1>4, FS_CardinalityType

\* No operation is nowhere.
LEMMA NoneNowhere ==
  ASSUME TypeOK
  PROVE  /\ QueuedOps \subseteq Ops
         /\ None \notin QueuedOps \cup async \cup ready \cup done
         /\ \A t \in Threads : None \notin ToSet(privateQueue[t])
                             /\ ToSet(privateQueue[t]) \subseteq Ops
<1>1. QueuedOps \subseteq Ops
  BY ToSetDef DEF TypeOK, QueuedOps
<1>2. \A t \in Threads : ToSet(privateQueue[t]) \subseteq Ops
  BY ToSetDef DEF TypeOK
<1>3. QED
  BY <1>1, <1>2, ConstantsAssumption DEF TypeOK

\* What it means to be counted, spelt out.
LEMMA CountedElement ==
  ASSUME NEW o
  PROVE  o \in Counted <=>
           \/ o \in QueuedOps \/ o \in async \/ o \in ready
           \/ o # None /\ \E p \in Processes : transit[p] = o
           \/ o # None /\ \E t \in Threads : current[t] = o
           \/ \E t \in Threads : current[t] = None /\ o \in ToSet(privateQueue[t])
  BY DEF Counted, Transits, Running

\* The same of the next state.
LEMMA CountedElementPrime ==
  ASSUME NEW o
  PROVE  o \in Counted' <=>
           \/ o \in QueuedOps' \/ o \in async' \/ o \in ready'
           \/ o # None /\ \E p \in Processes : transit'[p] = o
           \/ o # None /\ \E t \in Threads : current'[t] = o
           \/ \E t \in Threads : current'[t] = None /\ o \in ToSet(privateQueue'[t])
  BY DEF Counted, Transits, Running

\* While something is counted or a work exists, outstanding_work_ is positive.
LEMMA Outstanding ==
  ASSUME IInv
  PROVE  /\ outstanding \in Nat
         /\ outstanding = 0 <=> works = {} /\ Counted = {}
         /\ \A t \in Threads : InUser(t) => outstanding > 0
<1>1. /\ outstanding = Cardinality(works) + Cardinality(Counted)
      /\ IsFiniteSet(Counted) /\ Cardinality(Counted) \in Nat
      /\ IsFiniteSet(works) /\ Cardinality(works) \in Nat
  BY CountedFinite DEF IInv, CountInv
<1>2. /\ Cardinality(Counted) = 0 <=> Counted = {}
      /\ Cardinality(works) = 0 <=> works = {}
  BY <1>1, FS_EmptySet
<1>3. ASSUME NEW t \in Threads, InUser(t)
      PROVE  Counted # {}
  <2>1. current[t] # None
    BY <1>3 DEF IInv, PcInv
  <2>2. current[t] \in Counted
    BY <2>1, CountedElement
  <2>3. QED
    BY <2>2
<1>4. QED
  BY <1>1, <1>2, <1>3

\* op_queue_ as a thread sees it at the loop.
LEMMA RequeuedProperties ==
  ASSUME IInv, NEW t \in Threads, AtLoop(t)
  PROVE  /\ current[t] = None
         /\ Requeued(t) \in Seq(Ops \cup {Task})
         /\ ToSet(Requeued(t)) \ {Task} = QueuedOps \cup ToSet(privateQueue[t])
         /\ NoRepeat(Requeued(t))
         /\ Task \in ToSet(Requeued(t)) <=>
              Task \in ToSet(queue) \/ pc[t] = "requeue"
         /\ Task \in ToSet(Requeued(t)) => task
<1> DEFINE S == Ops \cup {Task}
           q == queue
           v == privateQueue[t]
           k == IF pc[t] = "requeue" THEN <<Task>> ELSE <<>>
<1>1. current[t] = None
  BY DEF AtLoop, IInv, PcInv, InUser
<1>2. /\ q \in Seq(S) /\ NoRepeat(q)
      /\ v \in Seq(Ops) /\ NoRepeat(v) /\ ToSet(v) \subseteq Ops
  BY ToSetDef DEF IInv, TypeOK, QueueInv
<1>3. v \in Seq(S)
  BY <1>2, SeqMonotonic
<1>4. /\ k \in Seq(S) /\ NoRepeat(k)
      /\ ToSet(k) = IF pc[t] = "requeue" THEN {Task} ELSE {}
  BY ToSetSingle, ToSetEmpty, EmptySeq
<1>5. ToSet(q) \cap ToSet(v) = {}
  BY <1>2, ConstantsAssumption DEF IInv, UniqueInv, OnlyPrivate, QueuedOps
<1>6. pc[t] = "requeue" => Task \notin ToSet(q) /\ task
  BY DEF IInv, QueueInv, InTask
<1> HIDE DEF q, v, k, S
<1>7. /\ q \o v \in Seq(S) /\ NoRepeat(q \o v)
      /\ ToSet(q \o v) = ToSet(q) \cup ToSet(v)
  BY <1>2, <1>3, <1>5, ToSetConcat
<1>8. ToSet(q \o v) \cap ToSet(k) = {}
  BY <1>7, <1>4, <1>6, <1>2, ConstantsAssumption
<1> DEFINE qv == q \o v
<1> HIDE DEF qv
<1>8a. qv \in Seq(S) /\ NoRepeat(qv) /\ ToSet(qv) \cap ToSet(k) = {}
  BY <1>7, <1>8 DEF qv
<1>9. /\ qv \o k \in Seq(S) /\ NoRepeat(qv \o k)
      /\ ToSet(qv \o k) = ToSet(qv) \cup ToSet(k)
  BY <1>8a, <1>4, ToSetConcat
<1>10. Requeued(t) = qv \o k
  BY DEF Requeued, qv, q, v, k
<1>11. Task \in ToSet(queue) => task
  BY DEF IInv, QueueInv
<1>12. ToSet(Requeued(t)) = ToSet(q) \cup ToSet(v) \cup ToSet(k)
  BY <1>7, <1>9, <1>10 DEF qv
<1>13. ToSet(Requeued(t)) \ {Task} = (ToSet(q) \ {Task}) \cup ToSet(v)
  BY <1>12, <1>4, <1>2, ConstantsAssumption
<1>14. Task \in ToSet(Requeued(t)) <=> Task \in ToSet(q) \/ pc[t] = "requeue"
  BY <1>12, <1>4, <1>2, ConstantsAssumption
<1>15. Requeued(t) \in Seq(S) /\ NoRepeat(Requeued(t))
  BY <1>9, <1>10
<1>16. QED
  BY <1>1, <1>6, <1>11, <1>13, <1>14, <1>15 DEF QueuedOps, q, v, S

-----------------------------------------------------------------------------
(* Steps that leave every operation where it is.                           *)

placeVars == <<privateQueue, current, transit, async, ready, done>>

\* They leave the operations unique and the counted ones the same.
LEMMA SamePlaces ==
  ASSUME UniqueInv, UNCHANGED placeVars, QueuedOps' = QueuedOps
  PROVE  UniqueInv' /\ Counted' = Counted
<1>1. UniqueInv'
  BY DEF UniqueInv, OnlyPrivate, placeVars
<1>2. Counted' = Counted
  BY DEF Counted, placeVars, Transits, Running
<1>3. QED
  BY <1>1, <1>2

\* If they leave the counts alone as well, the count stays right.
LEMMA SameCount ==
  ASSUME CountInv, UNCHANGED <<works, outstanding, privateWork, current, privateQueue>>,
         Counted' = Counted
  PROVE  CountInv'
  BY DEF CountInv

\* Waking up one way or another.
LEMMA WakeupStep ==
  ASSUME IInv,
         \/ \E p \in Processes : Signal(p)
         \/ \E t \in Threads : SpuriousWakeup(t) \/ WaitAgain(t)
  PROVE  IInv'
<1>1. UNCHANGED <<ret, schedVars, outstanding, threadVars, transit, reactorVars,
                  works, done, late>>
  BY DEF Signal, SpuriousWakeup, WaitAgain
<1> USE DEF schedVars, threadVars, reactorVars
<1>2. /\ pc' \in [Processes -> PCs]
      /\ \A p \in Processes :
           \/ pc'[p] = pc[p]
           \/ pc[p] = "signal" /\ pc'[p] = ret[p] /\ ret[p] \in {"user", "task"}
           \/ p \in Threads /\ pc[p] \in {"waiting", "woken"}
                            /\ pc'[p] \in {"waiting", "woken"}
  <2>1. ASSUME NEW p \in Processes, Signal(p)
        PROVE  <1>2!:
    <3>1. pc[p] = "signal" /\ ret[p] \in {"user", "task"} /\ ret[p] \in PCs
      BY <2>1 DEF Signal, IInv, PcInv, PCs
    <3>2. CASE pc' = [pc EXCEPT ![p] = ret[p]]
      BY <3>1, <3>2 DEF IInv, TypeOK
    <3>3. CASE \E t \in Threads : /\ pc[t] = "waiting"
                                  /\ pc' = [pc EXCEPT ![p] = ret[p], ![t] = "woken"]
      <4> PICK t \in Threads : /\ pc[t] = "waiting"
                               /\ pc' = [pc EXCEPT ![p] = ret[p], ![t] = "woken"]
        BY <3>3
      <4>1. t # p /\ t \in Processes /\ "woken" \in PCs
        BY <3>1 DEF Processes, PCs
      <4>2. pc \in [Processes -> PCs]
        BY DEF IInv, TypeOK
      <4>3. QED
        BY <3>1, <4>1, <4>2
    <3>4. QED
      BY <2>1, <3>2, <3>3 DEF Signal, Goto
  <2>2. ASSUME NEW t \in Threads, SpuriousWakeup(t) \/ WaitAgain(t)
        PROVE  <1>2!:
    <3>1. /\ pc[t] \in {"waiting", "woken"}
          /\ \/ pc' = [pc EXCEPT ![t] = "woken"]
             \/ pc' = [pc EXCEPT ![t] = "waiting"]
      BY <2>2 DEF SpuriousWakeup, WaitAgain, Goto
    <3>2. pc \in [Processes -> PCs] /\ t \in Processes
      BY DEF IInv, TypeOK, Processes
    <3>3. "woken" \in PCs /\ "waiting" \in PCs
      BY DEF PCs
    <3>4. QED
      BY <3>1, <3>2, <3>3
  <2>3. QED
    BY <2>1, <2>2
<1>3. TypeOK'
  BY <1>1, <1>2 DEF IInv, TypeOK
<1>4. PcInv'
  BY <1>1, <1>2, ConstantsAssumption DEF IInv, PcInv, InUser, Processes
<1>5. QueueInv'
  BY <1>1, <1>2 DEF IInv, QueueInv, InTask, Processes
<1>6. UniqueInv' /\ Counted' = Counted
  BY <1>1, SamePlaces DEF IInv, placeVars, QueuedOps
<1>7. CountInv'
  BY <1>1, <1>6, SameCount DEF IInv
<1>9. QED
  BY <1>3, <1>4, <1>5, <1>6, <1>7 DEF IInv

\* Only p moves, to x, and remembers y.
Moves(p, x, y) ==
  /\ pc' \in [Processes -> PCs] /\ ret' \in [Processes -> PCs]
  /\ pc'[p] = x /\ ret'[p] = y
  /\ \A q \in Processes : q # p => pc'[q] = pc[q] /\ ret'[q] = ret[q]

\* Goto and GotoVia move one process.
LEMMA GotoMoves ==
  ASSUME TypeOK, NEW p \in Processes, NEW x \in PCs
  PROVE  /\ Goto(p, x) /\ ret' = ret => Moves(p, x, ret[p])
         /\ \A y \in PCs : GotoVia(p, x, y) => Moves(p, x, y)
  BY DEF Goto, GotoVia, Moves, TypeOK

\* stop(): everybody waiting is woken.  Who stops has seen the count at zero.
LEMMA StopAllThreadsStep ==
  ASSUME IInv, NEW p \in Processes, StopAllThreads(p)
  PROVE  IInv'
<1> USE DEF schedVars, threadVars, reactorVars
<1>1. /\ pc[p] = "stop" /\ ret[p] \in {"user", "loop", "returned"}
      /\ UNCHANGED <<ret, queue, task, outstanding, threadVars, transit,
                     reactorVars, works, done, late>>
      /\ stopped' = TRUE /\ signalled' = TRUE
      /\ taskInterrupted' \in BOOLEAN /\ interrupt' \in BOOLEAN
  BY DEF StopAllThreads, InterruptTask, IInv, PcInv, TypeOK
<1>2. /\ pc' \in [Processes -> PCs]
      /\ pc'[p] = ret[p]
      /\ \A q \in Processes : q # p =>
           \/ pc'[q] = pc[q]
           \/ pc[q] = "waiting" /\ pc'[q] = "woken"
  <2>1. "woken" \in PCs /\ ret[p] \in PCs
    BY <1>1 DEF PCs
  <2>2. QED
    BY <2>1 DEF StopAllThreads, IInv, TypeOK
<1>3. TypeOK'
  BY <1>1, <1>2 DEF IInv, TypeOK
<1>4. PcInv'
  BY <1>1, <1>2, ConstantsAssumption DEF IInv, PcInv, InUser, Processes
<1>5. QueueInv'
  BY <1>1, <1>2 DEF IInv, QueueInv, InTask, Processes
<1>6. UniqueInv' /\ Counted' = Counted
  BY <1>1, SamePlaces DEF IInv, placeVars, QueuedOps
<1>7. CountInv'
  BY <1>1, <1>6, SameCount DEF IInv
<1>9. QED
  BY <1>3, <1>4, <1>5, <1>6, <1>7 DEF IInv

\* run() is entered.
LEMMA EnterStep ==
  ASSUME IInv, NEW t \in Threads, Enter(t)
  PROVE  IInv'
<1> USE DEF schedVars, threadVars, reactorVars
<1>1. UNCHANGED <<schedVars, outstanding, threadVars, transit, reactorVars,
                  works, done, late>>
  BY DEF Enter
<1>2. /\ pc[t] = "enter" /\ t \in Processes
      /\ \/ Moves(t, "stop", "returned") /\ outstanding = 0
         \/ Moves(t, "loop", ret[t])
  BY GotoMoves DEF Enter, IInv, PCs, Processes
<1>3. TypeOK'
  BY <1>1, <1>2 DEF IInv, TypeOK, Moves
<1>4. PcInv'
  BY <1>1, <1>2, ConstantsAssumption DEF IInv, PcInv, InUser, Processes, Moves
<1>5. QueueInv'
  BY <1>1, <1>2 DEF IInv, QueueInv, InTask, Processes, Moves
<1>6. UniqueInv' /\ Counted' = Counted
  BY <1>1, SamePlaces DEF IInv, placeVars, QueuedOps
<1>7. CountInv'
  BY <1>1, <1>6, SameCount DEF IInv
<1>9. QED
  BY <1>3, <1>4, <1>5, <1>6, <1>7 DEF IInv

\* The queue is empty.
LEMMA WaitForEventStep ==
  ASSUME IInv, NEW t \in Threads, WaitForEvent(t)
  PROVE  IInv'
<1> USE DEF schedVars, threadVars, reactorVars
<1>1. UNCHANGED <<ret, queue, stopped, task, taskInterrupted, interrupt,
                 outstanding, threadVars, transit, reactorVars, works, done, late>>
  BY DEF WaitForEvent
<1>2. signalled' = FALSE /\ AtLoop(t)
  BY DEF WaitForEvent
<1>3. Moves(t, "waiting", ret[t]) /\ t \in Processes
  BY GotoMoves DEF WaitForEvent, IInv, PCs, Processes
<1>4. TypeOK'
  BY <1>1, <1>2, <1>3 DEF IInv, TypeOK, Moves
<1>5. PcInv'
  BY <1>1, <1>2, <1>3, ConstantsAssumption
  DEF IInv, PcInv, InUser, Processes, Moves, AtLoop
<1>6. QueueInv'
  <2>1. pc[t] # "requeue"
    BY <1>2, RequeuedProperties, ToSetEmpty DEF WaitForEvent
  <2>2. \A u \in Threads : InTask(u)' <=> InTask(u)
    BY <1>1, <1>2, <1>3, <2>1 DEF InTask, Processes, Moves, AtLoop
  <2>3. QED
    BY <1>1, <2>2 DEF IInv, QueueInv
<1>7. UniqueInv' /\ Counted' = Counted
  BY <1>1, SamePlaces DEF IInv, placeVars, QueuedOps
<1>8. CountInv'
  BY <1>1, <1>7, SameCount DEF IInv
<1>10. QED
  BY <1>4, <1>5, <1>6, <1>7, <1>8 DEF IInv

\* ~work(): one work less.
LEMMA DropWorkStep ==
  ASSUME IInv, NEW p \in Processes, NEW w \in Clients, DropWork(p, w)
  PROVE  IInv'
<1> USE DEF schedVars, threadVars, reactorVars
<1>1. /\ UNCHANGED <<schedVars, threadVars, transit, reactorVars, done, late>>
      /\ pc[p] = "user" /\ w \in works
      /\ works' = works \ {w} /\ outstanding' = outstanding - 1
  BY DEF DropWork, CanCall
<1>2. \/ outstanding' = 0 /\ Moves(p, "stop", "user")
      \/ outstanding' # 0 /\ UNCHANGED <<pc, ret>>
  BY <1>1, GotoMoves DEF DropWork, IInv, PCs
<1>3. outstanding \in Nat /\ outstanding' \in Nat /\ outstanding > 0
  BY <1>1, Outstanding
<1>4. TypeOK'
  BY <1>1, <1>2, <1>3 DEF IInv, TypeOK, Moves
<1>5. PcInv'
  BY <1>1, <1>2, ConstantsAssumption
  DEF IInv, PcInv, InUser, Processes, Moves
<1>6. QueueInv'
  BY <1>1, <1>2 DEF IInv, QueueInv, InTask, Processes, Moves
<1>7. UniqueInv' /\ Counted' = Counted
  BY <1>1, SamePlaces DEF IInv, placeVars, QueuedOps
<1>8. CountInv'
  <2>1. Cardinality(works') = Cardinality(works) - 1
    BY <1>1, CountedFinite, FS_RemoveElement DEF IInv
  <2>2. outstanding' = Cardinality(works') + Cardinality(Counted)'
    BY <2>1, <1>1, <1>7, CountedFinite DEF IInv, CountInv
  <2>3. QED
    BY <2>2, <1>1 DEF IInv, CountInv
<1>10. QED
  BY <1>4, <1>5, <1>6, <1>7, <1>8 DEF IInv

\* wake_one_thread_and_unlock() leaves p in its handler.
LEMMA WakeOneThreadMoves ==
  ASSUME TypeOK, NEW p \in Processes, NEW i \in BOOLEAN, NEW c,
         WakeOneThread(p, "user", i, c)
  PROVE  /\ Moves(p, "signal", "user") \/ Moves(p, "user", ret[p])
         /\ signalled' \in BOOLEAN
         /\ taskInterrupted' \in BOOLEAN
         /\ interrupt' \in BOOLEAN
<1>1. "signal" \in PCs /\ "user" \in PCs
  BY DEF PCs
<1>2. CASE Waiters(p) # {}
  BY <1>1, <1>2, GotoMoves DEF WakeOneThread, TypeOK
<1>3. CASE Waiters(p) = {}
  BY <1>1, <1>3, GotoMoves DEF WakeOneThread, InterruptTask, TypeOK
<1>4. QED
  BY <1>2, <1>3

\* init_task(): the queue gets task_operation_, and no operation.
LEMMA InitTaskStep ==
  ASSUME IInv, NEW p \in Processes, InitTask(p)
  PROVE  IInv'
<1> USE DEF schedVars, threadVars, reactorVars
<1>1. /\ UNCHANGED <<stopped, outstanding, threadVars, transit, reactorVars, works,
                     done, late>>
      /\ pc[p] = "user" /\ ~task /\ task' = TRUE
      /\ queue' = Append(queue, Task)
  BY DEF InitTask, CanCall
<1>2. /\ Moves(p, "signal", "user") \/ Moves(p, "user", ret[p])
      /\ signalled' \in BOOLEAN
      /\ taskInterrupted' \in BOOLEAN
      /\ interrupt' \in BOOLEAN
  BY WakeOneThreadMoves DEF InitTask, IInv, TypeOK
<1>3. Task \notin ToSet(queue) /\ \A t \in Threads : ~InTask(t)
  BY <1>1 DEF IInv, QueueInv
<1>4. /\ queue' \in Seq(Ops \cup {Task})
      /\ ToSet(queue') = ToSet(queue) \cup {Task}
      /\ NoRepeat(queue')
  BY <1>1, <1>3, ToSetAppend DEF IInv, TypeOK, QueueInv
<1>5. TypeOK'
  BY <1>1, <1>2, <1>4 DEF IInv, TypeOK, Moves
<1>6. PcInv'
  BY <1>1, <1>2, ConstantsAssumption
  DEF IInv, PcInv, InUser, Processes, Moves
<1>7. QueueInv'
  BY <1>1, <1>2, <1>3, <1>4 DEF IInv, QueueInv, InTask, Processes, Moves
<1>8. UniqueInv' /\ Counted' = Counted
  <2>1. QueuedOps' = QueuedOps
    BY <1>4 DEF QueuedOps
  <2>2. QED
    BY <2>1, <1>1, SamePlaces DEF IInv, placeVars
<1>9. CountInv'
  BY <1>1, <1>8, SameCount DEF IInv
<1>11. QED
  BY <1>5, <1>6, <1>7, <1>8, <1>9 DEF IInv

-----------------------------------------------------------------------------
(* Steps that start or move an operation.                                  *)

\* A fresh operation is nowhere yet.
LEMMA FreshElement ==
  ASSUME NEW o \in Ops, Fresh(o)
  PROVE  /\ o \notin QueuedOps /\ o \notin async /\ o \notin ready /\ o \notin done
         /\ \A p \in Processes : transit[p] # o
         /\ \A t \in Threads : current[t] # o /\ o \notin ToSet(privateQueue[t])
         /\ o \notin Counted
<1>1. o # None
  BY ConstantsAssumption
<1>2. /\ o \notin QueuedOps /\ o \notin async /\ o \notin ready /\ o \notin done
      /\ \A p \in Processes : transit[p] # o
      /\ \A t \in Threads : current[t] # o
  BY <1>1 DEF Fresh, Live, Pending, Transits, Running
<1>3. \A t \in Threads : o \notin ToSet(privateQueue[t])
  BY DEF Fresh, Live, Pending, Privates
<1>4. QED
  BY <1>1, <1>2, <1>3, CountedElement

\* work_started(): one operation and one outstanding work more.
LEMMA CountedGrows ==
  ASSUME IInv, NEW o, o \notin Counted, Counted' = Counted \cup {o},
         outstanding' = outstanding + 1,
         UNCHANGED <<works, current, privateQueue, privateWork>>
  PROVE  CountInv'
<1>1. Cardinality(Counted \cup {o}) = Cardinality(Counted) + 1
  BY CountedFinite, FS_AddElement DEF IInv
<1>2. outstanding' = Cardinality(works') + Cardinality(Counted)'
  BY <1>1, CountedFinite DEF IInv, CountInv
<1>3. QED
  BY <1>2 DEF IInv, CountInv

\* post(), its first half.
LEMMA BeginPostStep ==
  ASSUME IInv, NEW p \in Processes, NEW o \in Ops, BeginPost(p, o)
  PROVE  IInv'
<1> USE DEF schedVars, threadVars, reactorVars
<1>1. /\ UNCHANGED <<ret, schedVars, threadVars, reactorVars, works, done>>
      /\ CanCall(p) /\ pc[p] = "user" /\ Fresh(o) /\ o # None
      /\ outstanding' = outstanding + 1
      /\ transit' = [transit EXCEPT ![p] = o]
  BY ConstantsAssumption DEF BeginPost, CanCall
<1>2. Moves(p, "push", ret[p])
  BY <1>1, GotoMoves DEF BeginPost, IInv, PCs
<1>3. transit[p] = None
  BY <1>1 DEF IInv, PcInv
<1>4. /\ transit' \in [Processes -> Ops \cup {None}]
      /\ transit'[p] = o
      /\ \A q \in Processes : q # p => transit'[q] = transit[q]
  BY <1>1 DEF IInv, TypeOK
<1>5. outstanding \in Nat /\ late' \in SUBSET Ops
  BY DEF IInv, TypeOK, BeginPost, MarkIfLate
<1>6. /\ o \notin QueuedOps /\ o \notin async /\ o \notin ready /\ o \notin done
      /\ \A q \in Processes : transit[q] # o
      /\ \A t \in Threads : current[t] # o /\ o \notin ToSet(privateQueue[t])
      /\ o \notin Counted
  BY <1>1, FreshElement
<1>7. QueuedOps' = QueuedOps
  BY <1>1 DEF QueuedOps
<1>8. TypeOK'
  BY <1>1, <1>2, <1>4, <1>5 DEF IInv, TypeOK, Moves
<1>9. PcInv'
  BY <1>1, <1>2, <1>4, ConstantsAssumption
  DEF IInv, PcInv, InUser, Processes, Moves
<1>10. QueueInv'
  BY <1>1, <1>2 DEF IInv, QueueInv, InTask, Processes, Moves
<1>11. UniqueInv'
  BY <1>1, <1>4, <1>6, <1>7 DEF IInv, UniqueInv, OnlyPrivate
<1>12. CountInv'
  <2>1. Counted' = Counted \cup {o}
    <3>1. ASSUME NEW x PROVE x \in Counted' <=> x \in Counted \/ x = o
      BY <1>1, <1>3, <1>4, <1>7, CountedElement, CountedElementPrime
    <3>2. QED
      BY <3>1
  <2>2. QED
    BY <2>1, <1>1, <1>6, CountedGrows
<1>14. QED
  BY <1>8, <1>9, <1>10, <1>11, <1>12 DEF IInv

\* post(), its second half: the operation is queued.
LEMMA PushStep ==
  ASSUME IInv, NEW p \in Processes, Push(p)
  PROVE  IInv'
<1> DEFINE o == transit[p]
<1> USE DEF schedVars, threadVars, reactorVars
<1>1. /\ UNCHANGED <<stopped, task, outstanding, threadVars, reactorVars, works,
                     done, late>>
      /\ pc[p] = "push"
      /\ queue' = Append(queue, o)
      /\ transit' = [transit EXCEPT ![p] = None]
  BY DEF Push
<1>2. /\ Moves(p, "signal", "user") \/ Moves(p, "user", ret[p])
      /\ signalled' \in BOOLEAN
      /\ taskInterrupted' \in BOOLEAN
      /\ interrupt' \in BOOLEAN
  BY WakeOneThreadMoves DEF Push, IInv, TypeOK
<1>3. o \in Ops /\ o # None /\ o # Task
  BY <1>1, ConstantsAssumption DEF IInv, PcInv, TypeOK
<1>4. /\ o \notin QueuedOps /\ o \notin async /\ o \notin ready /\ o \notin done
      /\ \A q \in Processes : q # p => transit[q] # o
      /\ \A t \in Threads : current[t] # o /\ o \notin ToSet(privateQueue[t])
  BY <1>3 DEF IInv, UniqueInv, OnlyPrivate
<1>5. /\ transit' \in [Processes -> Ops \cup {None}]
      /\ transit'[p] = None
      /\ \A q \in Processes : q # p => transit'[q] = transit[q]
  BY <1>1 DEF IInv, TypeOK
<1>6. /\ queue' \in Seq(Ops \cup {Task})
      /\ ToSet(queue') = ToSet(queue) \cup {o}
      /\ NoRepeat(queue')
  <2>1. o \notin ToSet(queue) /\ o \in Ops \cup {Task}
    BY <1>3, <1>4 DEF QueuedOps
  <2>2. queue \in Seq(Ops \cup {Task}) /\ NoRepeat(queue)
    BY DEF IInv, TypeOK, QueueInv
  <2> HIDE DEF o
  <2>3. QED
    BY <2>1, <2>2, <1>1, ToSetAppend
<1> HIDE DEF o
<1>7. QueuedOps' = QueuedOps \cup {o}
  BY <1>3, <1>6 DEF QueuedOps
<1>8. TypeOK'
  BY <1>1, <1>2, <1>5, <1>6 DEF IInv, TypeOK, Moves
<1>9. PcInv'
  BY <1>1, <1>2, <1>5, ConstantsAssumption
  DEF IInv, PcInv, InUser, Processes, Moves
<1>10. QueueInv'
  BY <1>1, <1>2, <1>3, <1>6 DEF IInv, QueueInv, InTask, Processes, Moves
<1>11. UniqueInv'
  <2>1. None \notin QueuedOps' \cup async' \cup ready' \cup done'
    BY <1>1, <1>3, <1>7, NoneNowhere DEF IInv
  <2>2. \A t \in Threads : None \notin ToSet(privateQueue'[t])
    BY <1>1, NoneNowhere DEF IInv
  <2>3. UniqueInv
    BY DEF IInv
  <2>4. QED
    BY <1>1, <1>3, <1>4, <1>5, <1>7, <2>1, <2>2, <2>3 DEF UniqueInv, OnlyPrivate
<1>12. CountInv'
  <2>1. Counted' = Counted
    <3>1. ASSUME NEW x PROVE x \in Counted' <=> x \in Counted
      BY <1>1, <1>3, <1>5, <1>7, CountedElement, CountedElementPrime DEF o
    <3>2. QED
      BY <3>1
  <2>2. QED
    BY <2>1, <1>1, SameCount DEF IInv
<1>14. QED
  BY <1>8, <1>9, <1>10, <1>11, <1>12 DEF IInv

\* start_op(): the operation waits in the reactor.
LEMMA StartAsyncStep ==
  ASSUME IInv, NEW p \in Processes, NEW o \in Ops, StartAsync(p, o)
  PROVE  IInv'
<1> USE DEF schedVars, threadVars, reactorVars
<1>1. /\ UNCHANGED <<pc, ret, schedVars, threadVars, transit, ready, works, done>>
      /\ CanCall(p) /\ Fresh(o) /\ o # None
      /\ outstanding' = outstanding + 1
      /\ async' = async \cup {o}
  BY ConstantsAssumption DEF StartAsync
<1>2. outstanding \in Nat /\ late' \in SUBSET Ops
  BY DEF IInv, TypeOK, StartAsync, MarkIfLate
<1>3. /\ o \notin QueuedOps /\ o \notin async /\ o \notin ready /\ o \notin done
      /\ \A q \in Processes : transit[q] # o
      /\ \A t \in Threads : current[t] # o /\ o \notin ToSet(privateQueue[t])
      /\ o \notin Counted
  BY <1>1, FreshElement
<1>4. QueuedOps' = QueuedOps
  BY <1>1 DEF QueuedOps
<1>5. TypeOK'
  BY <1>1, <1>2 DEF IInv, TypeOK
<1>6. PcInv'
  BY <1>1 DEF IInv, PcInv, InUser
<1>7. QueueInv'
  BY <1>1 DEF IInv, QueueInv, InTask
<1>8. UniqueInv'
  BY <1>1, <1>3, <1>4 DEF IInv, UniqueInv, OnlyPrivate
<1>9. CountInv'
  <2>1. Counted' = Counted \cup {o}
    <3>1. ASSUME NEW x PROVE x \in Counted' <=> x \in Counted \/ x = o
      BY <1>1, <1>4, CountedElement, CountedElementPrime
    <3>2. QED
      BY <3>1
  <2>2. QED
    BY <2>1, <1>1, <1>3, CountedGrows
<1>11. QED
  BY <1>5, <1>6, <1>7, <1>8, <1>9 DEF IInv

\* An operation becomes ready.
LEMMA EventArrivesStep ==
  ASSUME IInv, NEW o \in Ops, EventArrives(o)
  PROVE  IInv'
<1> USE DEF schedVars, threadVars, reactorVars
<1>1. /\ UNCHANGED <<pc, ret, schedVars, outstanding, threadVars, transit, works,
                     done, late>>
      /\ o \in async
      /\ async' = async \ {o}
      /\ ready' = ready \cup {o}
  BY DEF EventArrives
<1>2. QueuedOps' = QueuedOps
  BY <1>1 DEF QueuedOps
<1>3. TypeOK'
  BY <1>1 DEF IInv, TypeOK
<1>4. PcInv'
  BY <1>1 DEF IInv, PcInv, InUser
<1>5. QueueInv'
  BY <1>1 DEF IInv, QueueInv, InTask
<1>6. UniqueInv'
  BY <1>1, <1>2 DEF IInv, UniqueInv, OnlyPrivate
<1>7. CountInv'
  <2>1. Counted' = Counted
    <3>1. ASSUME NEW x PROVE x \in Counted' <=> x \in Counted
      BY <1>1, <1>2, CountedElement, CountedElementPrime
    <3>2. QED
      BY <3>1
  <2>2. QED
    BY <2>1, <1>1, SameCount DEF IInv
<1>9. QED
  BY <1>3, <1>4, <1>5, <1>6, <1>7 DEF IInv

\* post() of a continuation, to the private queue of the thread.
LEMMA PostContinuationStep ==
  ASSUME IInv, NEW t \in Threads, NEW o \in Ops, PostContinuation(t, o)
  PROVE  IInv'
<1> USE DEF schedVars, threadVars, reactorVars
<1>1. /\ UNCHANGED <<pc, ret, schedVars, outstanding, block, current, transit,
                     reactorVars, works, done>>
      /\ pc[t] = "user" /\ Fresh(o)
      /\ privateWork' = [privateWork EXCEPT ![t] = privateWork[t] + 1]
      /\ privateQueue' = [privateQueue EXCEPT ![t] = Append(privateQueue[t], o)]
  BY DEF PostContinuation
<1>2. /\ o \notin QueuedOps /\ o \notin async /\ o \notin ready /\ o \notin done
      /\ \A q \in Processes : transit[q] # o
      /\ \A u \in Threads : current[u] # o /\ o \notin ToSet(privateQueue[u])
      /\ o \notin Counted
  BY <1>1, FreshElement
<1>3. current[t] # None
  BY <1>1 DEF IInv, PcInv, InUser
<1> DEFINE v == privateQueue[t]
           w == Append(v, o)
<1>4. v \in Seq(Ops) /\ NoRepeat(v) /\ o \notin ToSet(v)
  BY <1>2 DEF IInv, TypeOK, QueueInv
<1>5. /\ privateQueue' = [privateQueue EXCEPT ![t] = w]
      /\ privateQueue \in [Threads -> Seq(Ops)]
  BY <1>1 DEF IInv, TypeOK
<1>6. v = privateQueue[t] /\ Len(v) \in Nat
  BY <1>4, LenProperties
<1>7. w \in Seq(Ops) /\ ToSet(w) = ToSet(v) \cup {o} /\ NoRepeat(w)
  <2> HIDE DEF v
  <2>1. QED
    BY <1>4, ToSetAppend
<1>8. Len(w) = Len(v) + 1
  <2> HIDE DEF v
  <2>1. QED
    BY <1>4, AppendProperties
<1> HIDE DEF v, w
<1>9. /\ privateQueue' \in [Threads -> Seq(Ops)]
      /\ privateQueue'[t] = w
      /\ \A u \in Threads : u # t => privateQueue'[u] = privateQueue[u]
  BY <1>5, <1>7
<1>10. QueuedOps' = QueuedOps
  BY <1>1 DEF QueuedOps
<1>11. TypeOK'
  <2>1. late' \in SUBSET Ops
    BY DEF IInv, TypeOK, PostContinuation, MarkIfLate
  <2>2. QED
    BY <1>1, <1>9, <2>1 DEF IInv, TypeOK
<1>12. PcInv'
  BY <1>1 DEF IInv, PcInv, InUser
<1>13. QueueInv'
  BY <1>1, <1>7, <1>9 DEF IInv, QueueInv, InTask
<1>14. UniqueInv'
  <2>1. \A u \in Threads : \A x : x \in ToSet(privateQueue'[u]) <=>
          x \in ToSet(privateQueue[u]) \/ (u = t /\ x = o)
    BY <1>6, <1>7, <1>9
  <2>2. UniqueInv
    BY DEF IInv
  <2>3. QED
    <3>1. ASSUME NEW u \in Threads, NEW x \in Ops, x \in ToSet(privateQueue'[u])
          PROVE  OnlyPrivate(u, x)'
      <4>1. CASE u = t /\ x = o
        BY <1>1, <1>2, <1>10, <2>1, <4>1 DEF OnlyPrivate
      <4>2. CASE x \in ToSet(privateQueue[u])
        <5>1. OnlyPrivate(u, x)
          BY <2>2, <4>2 DEF UniqueInv
        <5>2. x # o
          BY <1>2, <4>2
        <5>3. QED
          BY <1>1, <1>10, <2>1, <5>1, <5>2 DEF OnlyPrivate
      <4>3. QED
        BY <3>1, <2>1, <4>1, <4>2
    <3>2. QED
      BY <1>1, <1>10, <2>2, <3>1 DEF UniqueInv
<1>15. CountInv'
  <2>1. Counted' = Counted
    <3>1. ASSUME NEW x PROVE x \in Counted' <=> x \in Counted
      BY <1>1, <1>3, <1>9, <1>10, CountedElement, CountedElementPrime
    <3>2. QED
      BY <3>1
  <2>2. \A u \in Threads : privateWork'[u] =
          IF current'[u] # None THEN Len(privateQueue'[u]) ELSE 0
    BY <1>1, <1>3, <1>6, <1>8, <1>9 DEF IInv, CountInv, TypeOK
  <2>3. QED
    BY <2>1, <2>2, <1>1 DEF IInv, CountInv
<1>17. QED
  BY <1>11, <1>12, <1>13, <1>14, <1>15 DEF IInv

-----------------------------------------------------------------------------
(* Steps that put the private queue back and take the front of the queue.  *)

\* The private queue of t has been put behind op_queue_.
LEMMA PrivateQueueMoves ==
  ASSUME IInv, NEW t \in Threads, AtLoop(t),
         PrivateQueueMoved(t), UNCHANGED <<current, transit, async, ready, done>>,
         QueuedOps' = QueuedOps \cup ToSet(privateQueue[t])
  PROVE  /\ privateQueue' \in [Threads -> Seq(Ops)]
         /\ privateQueue'[t] = <<>>
         /\ \A u \in Threads : u # t => privateQueue'[u] = privateQueue[u]
         /\ UniqueInv'
         /\ Counted' = Counted
<1>1. current[t] = None
  BY RequeuedProperties
<1>2. <<>> \in Seq(Ops)
  OBVIOUS
<1>3. /\ privateQueue' \in [Threads -> Seq(Ops)]
      /\ privateQueue'[t] = <<>>
      /\ \A u \in Threads : u # t => privateQueue'[u] = privateQueue[u]
  BY <1>2 DEF PrivateQueueMoved, IInv, TypeOK
<1>4. ToSet(privateQueue'[t]) = {}
  BY <1>3, ToSetEmpty
<1>5. UniqueInv /\ None \notin ToSet(privateQueue[t])
  BY NoneNowhere DEF IInv
<1>6. UniqueInv'
  <2>1. ASSUME NEW u \in Threads, NEW o \in Ops, o \in ToSet(privateQueue'[u])
        PROVE  OnlyPrivate(u, o)'
    <3>1. u # t /\ o \in ToSet(privateQueue[u])
      BY <1>3, <1>4, <2>1
    <3>2. OnlyPrivate(u, o)
      BY <1>5, <3>1 DEF UniqueInv
    <3>3. QED
      BY <1>3, <1>4, <3>1, <3>2 DEF OnlyPrivate
  <2>2. \A o \in Ops : o \in ToSet(privateQueue[t]) => OnlyPrivate(t, o)
    BY <1>5 DEF UniqueInv
  <2>3. /\ \A o \in Ops :
             /\ o \in QueuedOps' => o \notin async /\ o \notin ready /\ o \notin done
             /\ o \in async => o \notin ready /\ o \notin done
             /\ o \in ready => o \notin done
        /\ \A p \in Processes :
             transit[p] \notin QueuedOps' \cup async \cup ready \cup done
        /\ \A u \in Threads :
             current[u] \notin QueuedOps' \cup async \cup ready \cup done
    <3>1. \A o \in Ops : o \in QueuedOps' =>
            /\ o \notin async /\ o \notin ready /\ o \notin done
            /\ \A p \in Processes : transit[p] # o
            /\ \A u \in Threads : current[u] # o
      BY <1>5, <2>2 DEF UniqueInv, OnlyPrivate
    <3>2. /\ \A p \in Processes : transit[p] \in Ops \cup {None}
          /\ \A u \in Threads : current[u] \in Ops \cup {None}
          /\ None \notin QueuedOps'
      <4>1. /\ \A p \in Processes : transit[p] \in Ops \cup {None}
            /\ \A u \in Threads : current[u] \in Ops \cup {None}
        BY DEF IInv, TypeOK
      <4>2. None \notin QueuedOps
        BY NoneNowhere DEF IInv
      <4> QED
        BY <1>5, <4>1, <4>2
    <3> QED
      BY <1>5, <3>1, <3>2 DEF UniqueInv
  <2>4. QED
    BY <1>5, <2>1, <2>3 DEF UniqueInv
<1>7. Counted' = Counted
  <2>1. ASSUME NEW x PROVE x \in Counted' <=> x \in Counted
    BY <1>1, <1>3, <1>4, CountedElement, CountedElementPrime
  <2>2. QED
    BY <2>1
<1>8. QED
  BY <1>3, <1>6, <1>7

\* run() returns.
LEMMA ReturnFromRunStep ==
  ASSUME IInv, NEW t \in Threads, ReturnFromRun(t)
  PROVE  IInv'
<1> USE DEF schedVars, threadVars, reactorVars
<1>1. /\ UNCHANGED <<ret, stopped, task, signalled, interrupt, outstanding, block,
                     current, privateWork, transit, reactorVars, works, done, late>>
      /\ AtLoop(t) /\ stopped
      /\ queue' = Requeued(t)
      /\ taskInterrupted' = Interrupted(t)
      /\ PrivateQueueMoved(t)
  BY DEF ReturnFromRun
<1>2. Moves(t, "returned", ret[t]) /\ t \in Processes
  BY GotoMoves DEF ReturnFromRun, IInv, PCs, Processes
<1>3. /\ current[t] = None
      /\ queue' \in Seq(Ops \cup {Task})
      /\ QueuedOps' = QueuedOps \cup ToSet(privateQueue[t])
      /\ NoRepeat(queue')
      /\ Task \in ToSet(queue') <=> Task \in ToSet(queue) \/ pc[t] = "requeue"
      /\ Task \in ToSet(queue') => task
  BY <1>1, RequeuedProperties DEF QueuedOps
<1>4. /\ privateQueue' \in [Threads -> Seq(Ops)]
      /\ privateQueue'[t] = <<>>
      /\ \A u \in Threads : u # t => privateQueue'[u] = privateQueue[u]
      /\ UniqueInv'
      /\ Counted' = Counted
  BY <1>1, <1>3, PrivateQueueMoves
<1>5. TypeOK'
  BY <1>1, <1>2, <1>3, <1>4 DEF IInv, TypeOK, Moves, Interrupted
<1>6. PcInv'
  BY <1>1, <1>2, ConstantsAssumption
  DEF IInv, PcInv, InUser, Processes, Moves, AtLoop
<1>7. QueueInv'
  <2>1. QueueInv
    BY DEF IInv
  <2>2. \A u \in Threads : NoRepeat(privateQueue'[u])
    BY <1>4, <2>1, ToSetEmpty DEF QueueInv
  <2>3. ~InTask(t)' /\ \A u \in Threads : u # t => (InTask(u)' <=> InTask(u))
    BY <1>2 DEF InTask, Processes, Moves
  <2>4. pc[t] = "requeue" <=> InTask(t)
    BY <1>1 DEF InTask, AtLoop
  <2>5. QED
    BY <1>1, <1>3, <2>1, <2>2, <2>3, <2>4 DEF QueueInv
<1>8. CountInv'
  BY <1>1, <1>3, <1>4 DEF IInv, CountInv
<1>10. QED
  BY <1>4, <1>5, <1>6, <1>7, <1>8 DEF IInv

\* A thread takes task_operation_ out of the queue.
LEMMA TakeTaskStep ==
  ASSUME IInv, NEW t \in Threads, TakeTask(t)
  PROVE  IInv'
<1> USE DEF schedVars, threadVars, reactorVars
<1> DEFINE r == Requeued(t)
<1>1. /\ UNCHANGED <<stopped, task, interrupt, outstanding, current, privateWork,
                     transit, reactorVars, works, done, late>>
      /\ AtLoop(t) /\ ~stopped
      /\ r # <<>> /\ Head(r) = Task
      /\ queue' = Tail(r)
      /\ taskInterrupted' \in BOOLEAN
      /\ PrivateQueueMoved(t)
  BY DEF TakeTask
<1>2. signalled' \in BOOLEAN /\ block' \in [Threads -> BOOLEAN]
  BY DEF TakeTask, IInv, TypeOK
<1>3. /\ Moves(t, "signal", "task") \/ Moves(t, "task", ret[t])
      /\ t \in Processes
  <2>1. "signal" \in PCs /\ "task" \in PCs /\ t \in Processes /\ TypeOK
    BY DEF PCs, Processes, IInv
  <2>2. GotoVia(t, "signal", "task") \/ (Goto(t, "task") /\ ret' = ret)
    BY DEF TakeTask
  <2>3. QED
    BY <2>1, <2>2, GotoMoves
<1>4. /\ current[t] = None
      /\ r \in Seq(Ops \cup {Task})
      /\ ToSet(r) \ {Task} = QueuedOps \cup ToSet(privateQueue[t])
      /\ NoRepeat(r)
      /\ Task \in ToSet(r) <=> Task \in ToSet(queue) \/ pc[t] = "requeue"
      /\ Task \in ToSet(r) => task
  BY <1>1, RequeuedProperties
<1> HIDE DEF r
<1>5. /\ queue' \in Seq(Ops \cup {Task})
      /\ ToSet(r) = {Task} \cup ToSet(queue')
      /\ NoRepeat(queue') /\ Task \notin ToSet(queue')
  BY <1>1, <1>4, ToSetTail
<1>6. QueuedOps' = QueuedOps \cup ToSet(privateQueue[t])
  BY <1>4, <1>5 DEF QueuedOps
<1>7. /\ privateQueue' \in [Threads -> Seq(Ops)]
      /\ privateQueue'[t] = <<>>
      /\ \A u \in Threads : u # t => privateQueue'[u] = privateQueue[u]
      /\ UniqueInv'
      /\ Counted' = Counted
  BY <1>1, <1>6, PrivateQueueMoves
<1>8. task /\ \A u \in Threads : u # t => ~InTask(u)
  BY <1>4, <1>5 DEF IInv, QueueInv, InTask
<1>9. TypeOK'
  BY <1>1, <1>2, <1>3, <1>5, <1>7 DEF IInv, TypeOK, Moves
<1>10. PcInv'
  <2>1. PcInv /\ transit' = transit /\ current' = current
    BY <1>1 DEF IInv
  <2>2. /\ pc[t] \in {"loop", "requeue", "woken"} /\ pc'[t] \in {"signal", "task"}
        /\ pc'[t] = "signal" => ret'[t] = "task"
        /\ \A p \in Processes : p # t => pc'[p] = pc[p] /\ ret'[p] = ret[p]
    BY <1>1, <1>3 DEF Moves, AtLoop
  <2>3. \A p \in Processes :
          /\ pc'[p] = "signal" => ret'[p] \in {"user", "task"}
          /\ pc'[p] = "stop" => ret'[p] \in {"user", "loop", "returned"}
          /\ pc'[p] = "push" <=> transit'[p] # None
    <3>1. ASSUME NEW p \in Processes, p = t
          PROVE  /\ pc'[p] = "signal" => ret'[p] \in {"user", "task"}
                 /\ pc'[p] # "stop" /\ pc'[p] # "push" /\ transit'[p] = None
      BY <1>3, <2>1, <2>2, <3>1 DEF PcInv
    <3>2. QED
      BY <2>1, <2>2, <3>1 DEF PcInv
  <2>4. \A c \in Clients : /\ pc'[c] \in {"user", "push", "signal", "stop"}
                          /\ ret'[c] = "user"
    BY <2>1, <2>2, ConstantsAssumption DEF PcInv, Processes
  <2>5. \A u \in Threads : current'[u] # None <=> InUser(u)'
    <3>1. ~InUser(t) /\ ~InUser(t)'
      BY <2>2 DEF InUser
    <3>2. \A u \in Threads : u # t => (InUser(u)' <=> InUser(u))
      BY <2>2 DEF InUser, Processes
    <3>3. QED
      BY <2>1, <3>1, <3>2 DEF PcInv
  <2>6. QED
    BY <2>3, <2>4, <2>5 DEF PcInv
<1>11. QueueInv'
  <2>1. \A u \in Threads : NoRepeat(privateQueue'[u])
    BY <1>7, ToSetEmpty DEF IInv, QueueInv
  <2>2. \A u \in Threads : u # t => ~InTask(u)'
    BY <1>3, <1>8 DEF InTask, Processes, Moves
  <2>3. task' = TRUE
    BY <1>1, <1>8 DEF IInv, TypeOK
  <2>4. InTask(t)'
    BY <1>3 DEF InTask, Moves
  <2>5. QED
    BY <1>5, <2>1, <2>2, <2>3, <2>4 DEF QueueInv
<1>12. CountInv'
  BY <1>1, <1>4, <1>7 DEF IInv, CountInv
<1>14. QED
  BY <1>7, <1>9, <1>10, <1>11, <1>12 DEF IInv

\* A thread takes an operation out of the queue and enters its handler.
LEMMA TakeOperationStep ==
  ASSUME IInv, NEW t \in Threads, TakeOperation(t)
  PROVE  IInv'
<1> USE DEF schedVars, threadVars, reactorVars
<1> DEFINE r == Requeued(t)
           o == Head(r)
<1>1. /\ UNCHANGED <<stopped, task, outstanding, block, privateWork, transit,
                     reactorVars, works, done, late>>
      /\ AtLoop(t) /\ ~stopped
      /\ r # <<>> /\ o # Task
      /\ queue' = Tail(r)
      /\ current' = [current EXCEPT ![t] = o]
      /\ PrivateQueueMoved(t)
  BY DEF TakeOperation
<1>2. t \in Processes /\ Interrupted(t) \in BOOLEAN /\ TypeOK /\ "user" \in PCs
  BY DEF Processes, Interrupted, IInv, TypeOK, PCs
<1>3. /\ Moves(t, "signal", "user") \/ Moves(t, "user", ret[t])
      /\ signalled' \in BOOLEAN
      /\ taskInterrupted' \in BOOLEAN
      /\ interrupt' \in BOOLEAN
  <2>1. CASE WakeOneThread(t, "user", Interrupted(t), task)
    BY <1>2, <2>1, WakeOneThreadMoves
  <2>2. CASE /\ Goto(t, "user") /\ taskInterrupted' = Interrupted(t)
             /\ UNCHANGED <<ret, signalled, interrupt>>
    BY <1>2, <2>2, GotoMoves DEF TypeOK
  <2>3. QED
    BY <2>1, <2>2 DEF TakeOperation
<1>4. /\ current[t] = None
      /\ r \in Seq(Ops \cup {Task})
      /\ ToSet(r) \ {Task} = QueuedOps \cup ToSet(privateQueue[t])
      /\ NoRepeat(r)
      /\ Task \in ToSet(r) <=> Task \in ToSet(queue) \/ pc[t] = "requeue"
      /\ Task \in ToSet(r) => task
  BY <1>1, RequeuedProperties
<1> HIDE DEF r
<1>5. /\ queue' \in Seq(Ops \cup {Task})
      /\ o \in Ops \cup {Task}
      /\ ToSet(r) = {o} \cup ToSet(queue')
      /\ NoRepeat(queue') /\ o \notin ToSet(queue')
  BY <1>1, <1>4, ToSetTail
<1> HIDE DEF o
<1>6. /\ o \in Ops /\ o # None
      /\ o \notin QueuedOps'
      /\ QueuedOps' \cup {o} = QueuedOps \cup ToSet(privateQueue[t])
      /\ Task \in ToSet(queue') <=> Task \in ToSet(r)
  BY <1>1, <1>4, <1>5, ConstantsAssumption DEF QueuedOps
<1>7. <<>> \in Seq(Ops)
  OBVIOUS
<1>8. /\ privateQueue' \in [Threads -> Seq(Ops)]
      /\ privateQueue'[t] = <<>> /\ ToSet(privateQueue'[t]) = {}
      /\ \A u \in Threads : u # t => privateQueue'[u] = privateQueue[u]
  BY <1>1, <1>2, <1>7, ToSetEmpty DEF PrivateQueueMoved, TypeOK
<1>9. /\ current' \in [Threads -> Ops \cup {None}]
      /\ current'[t] = o
      /\ \A u \in Threads : u # t => current'[u] = current[u]
  BY <1>1, <1>2, <1>6 DEF TypeOK
<1>10. UniqueInv /\ PcInv /\ QueueInv
  BY DEF IInv
<1>11. \A x \in ToSet(privateQueue[t]) : OnlyPrivate(t, x)
  BY <1>2, <1>10, NoneNowhere DEF UniqueInv
<1>12. TypeOK'
  BY <1>1, <1>2, <1>3, <1>5, <1>8, <1>9 DEF TypeOK, Moves
<1>13. PcInv'
  BY <1>1, <1>3, <1>6, <1>9, <1>10, ConstantsAssumption
  DEF PcInv, InUser, Processes, Moves, AtLoop
<1>14. QueueInv'
  <2>1. \A u \in Threads : NoRepeat(privateQueue'[u])
    BY <1>8, <1>10, ToSetEmpty DEF QueueInv
  <2>2. ~InTask(t)' /\ \A u \in Threads : u # t => (InTask(u)' <=> InTask(u))
    BY <1>3 DEF InTask, Processes, Moves
  <2>3. \A u \in Threads : u # t /\ InTask(u) => Task \notin ToSet(queue')
    BY <1>4, <1>6, <1>10 DEF QueueInv, InTask
  <2>4. task <=> Task \in ToSet(queue') \/ \E u \in Threads : u # t /\ InTask(u)
    BY <1>1, <1>4, <1>6, <1>10 DEF QueueInv, InTask, AtLoop
  <2>5. QED
    BY <1>1, <1>5, <1>10, <2>1, <2>2, <2>3, <2>4 DEF QueueInv
<1>15. UniqueInv'
  <2>1. ASSUME NEW u \in Threads, NEW x \in Ops, x \in ToSet(privateQueue'[u])
        PROVE  OnlyPrivate(u, x)'
    <3>1. u # t /\ x \in ToSet(privateQueue[u])
      BY <1>8, <2>1
    <3>2. OnlyPrivate(u, x)
      BY <1>10, <3>1 DEF UniqueInv
    <3>3. QED
      BY <1>1, <1>6, <1>8, <1>9, <3>1, <3>2 DEF OnlyPrivate
  <2>2. /\ o \notin async \cup ready \cup done
        /\ \A p \in Processes : transit[p] # o
        /\ \A u \in Threads : current[u] # o
    BY <1>6, <1>10, <1>11 DEF UniqueInv, OnlyPrivate
  <2>3. /\ \A x \in Ops :
             /\ x \in QueuedOps' => x \notin async /\ x \notin ready /\ x \notin done
             /\ x \in async => x \notin ready /\ x \notin done
             /\ x \in ready => x \notin done
        /\ \A p \in Processes :
             transit[p] \notin QueuedOps' \cup async \cup ready \cup done
    <3>1. \A x \in QueuedOps' : x \in QueuedOps \/ x \in ToSet(privateQueue[t])
      BY <1>6
    <3>2. QED
      BY <1>10, <1>11, <3>1 DEF UniqueInv, OnlyPrivate
  <2>4. \A u \in Threads :
             current'[u] \notin QueuedOps' \cup async \cup ready \cup done
    <3>1. \A x \in QueuedOps' : x \in QueuedOps \/ x \in ToSet(privateQueue[t])
      BY <1>6
    <3>2. QED
      BY <1>6, <1>9, <1>10, <1>11, <2>2, <3>1 DEF UniqueInv, OnlyPrivate
  <2>5. QED
    BY <1>1, <1>9, <1>10, <2>1, <2>2, <2>3, <2>4 DEF UniqueInv
<1>16. CountInv'
  <2>1. Counted' = Counted
    <3>1. None \notin ToSet(privateQueue[t])
      BY <1>2, NoneNowhere
    <3>2. ASSUME NEW x PROVE x \in Counted' <=> x \in Counted
      BY <1>1, <1>4, <1>6, <1>8, <1>9, CountedElement, CountedElementPrime
    <3>3. QED
      BY <3>2
  <2>2. \A u \in Threads : privateWork'[u] =
          IF current'[u] # None THEN Len(privateQueue'[u]) ELSE 0
    <3>1. current[t] = None /\ CountInv /\ Len(<<>>) = 0
      BY <1>4 DEF IInv
    <3>2. privateWork'[t] = 0 /\ Len(privateQueue'[t]) = 0
      BY <1>1, <1>8, <3>1 DEF CountInv
    <3>3. QED
      BY <1>1, <1>8, <1>9, <3>1, <3>2 DEF CountInv
  <2>3. QED
    BY <2>1, <2>2, <1>1 DEF IInv, CountInv
<1>18. QED
  BY <1>12, <1>13, <1>14, <1>15, <1>16 DEF IInv

\* The reactor returns with the ready operations.
LEMMA RunTaskStep ==
  ASSUME IInv, NEW t \in Threads, RunTask(t)
  PROVE  IInv'
<1> USE DEF schedVars, threadVars, reactorVars
<1>1. /\ UNCHANGED <<ret, queue, stopped, task, taskInterrupted, signalled,
                     outstanding, block, current, privateWork, transit, async,
                     works, done, late>>
      /\ pc[t] = "task"
      /\ ready' = {} /\ interrupt' = FALSE
  BY DEF RunTask
<1>2. Moves(t, "requeue", ret[t]) /\ t \in Processes
  BY GotoMoves DEF RunTask, IInv, PCs, Processes
<1>3. PICK ops \in SetToSeqs(ready) :
        privateQueue' = [privateQueue EXCEPT ![t] = privateQueue[t] \o ops]
  BY DEF RunTask
<1> DEFINE v == privateQueue[t]
           w == v \o ops
<1>4. current[t] = None
  BY <1>1 DEF IInv, PcInv, InUser
<1>5. TypeOK /\ UniqueInv /\ QueueInv /\ ready \subseteq Ops
  BY DEF IInv, TypeOK
<1>6. ops \in Seq(Ops) /\ ToSet(ops) = ready /\ NoRepeat(ops)
  <2>1. IsFiniteSet(ready)
    BY <1>5, FS_Subset, ConstantsAssumption
  <2>2. ops \in Seq(ready) /\ ToSet(ops) = ready /\ NoRepeat(ops)
    BY <2>1, SetToSeqsProperties
  <2>3. QED
    BY <1>5, <2>2, SeqMonotonic
<1>7. /\ v \in Seq(Ops) /\ NoRepeat(v)
      /\ ToSet(v) \cap ready = {}
  <2>1. v \in Seq(Ops) /\ NoRepeat(v) /\ ToSet(v) \subseteq Ops
    BY <1>5, NoneNowhere DEF TypeOK, QueueInv
  <2>2. \A x \in Ops : x \in ToSet(v) => x \notin ready
    BY <1>5 DEF UniqueInv, OnlyPrivate
  <2>3. QED
    BY <2>1, <2>2
<1>8. w \in Seq(Ops) /\ ToSet(w) = ToSet(v) \cup ready /\ NoRepeat(w)
  <2> HIDE DEF v
  <2>1. QED
    BY <1>6, <1>7, ToSetConcat
<1>9. v = privateQueue[t] /\ privateQueue' = [privateQueue EXCEPT ![t] = w]
  BY <1>3
<1> HIDE DEF v, w
<1>10. /\ privateQueue' \in [Threads -> Seq(Ops)]
       /\ privateQueue'[t] = w
       /\ \A u \in Threads : u # t => privateQueue'[u] = privateQueue[u]
  BY <1>5, <1>8, <1>9 DEF TypeOK
<1>11. QueuedOps' = QueuedOps
  BY <1>1 DEF QueuedOps
<1>12. TypeOK'
  BY <1>1, <1>2, <1>5, <1>10 DEF TypeOK, Moves
<1>13. PcInv'
  BY <1>1, <1>2, ConstantsAssumption DEF IInv, PcInv, InUser, Processes, Moves
<1>14. QueueInv'
  BY <1>1, <1>2, <1>5, <1>8, <1>10 DEF QueueInv, InTask, Processes, Moves
<1>15. UniqueInv'
  <2>1. ASSUME NEW u \in Threads, NEW x \in Ops, x \in ToSet(privateQueue'[u])
        PROVE  OnlyPrivate(u, x)'
    <3>1. CASE x \in ready
      <4>1. u = t
        BY <1>5, <1>10, <2>1, <3>1 DEF UniqueInv, OnlyPrivate
      <4>2. /\ x \notin QueuedOps /\ x \notin async /\ x \notin done
            /\ \A s \in Threads : x \notin ToSet(privateQueue[s]) /\ x # current[s]
            /\ \A p \in Processes : x # transit[p]
        BY <1>5, <3>1 DEF UniqueInv, OnlyPrivate
      <4>3. QED
        BY <1>1, <1>10, <1>11, <4>1, <4>2 DEF OnlyPrivate
    <3>2. CASE x \notin ready
      <4>1. x \in ToSet(privateQueue[u])
        BY <1>8, <1>9, <1>10, <2>1, <3>2
      <4>2. OnlyPrivate(u, x)
        BY <1>5, <4>1 DEF UniqueInv
      <4>3. \A s \in Threads : s # u => x \notin ToSet(privateQueue'[s])
        BY <1>8, <1>9, <1>10, <3>2, <4>2 DEF OnlyPrivate
      <4>4. QED
        BY <1>1, <1>11, <4>2, <4>3 DEF OnlyPrivate
    <3>3. QED
      BY <3>1, <3>2
  <2>2. QED
    BY <1>1, <1>5, <1>11, <2>1 DEF UniqueInv
<1>16. CountInv'
  <2>1. Counted' = Counted
    <3>1. ASSUME NEW x PROVE x \in Counted' <=> x \in Counted
      BY <1>1, <1>4, <1>8, <1>9, <1>10, <1>11, CountedElement, CountedElementPrime
    <3>2. QED
      BY <3>1
  <2>2. \A u \in Threads : privateWork'[u] =
          IF current'[u] # None THEN Len(privateQueue'[u]) ELSE 0
    BY <1>1, <1>4, <1>10 DEF IInv, CountInv
  <2>3. QED
    BY <2>1, <2>2, <1>1 DEF IInv, CountInv
<1>18. QED
  BY <1>12, <1>13, <1>14, <1>15, <1>16 DEF IInv

\* A handler returns: the work of its operation is settled against that of the
\* ones it has put into the private queue, which are counted from now on.
LEMMA FinishOperationStep ==
  ASSUME IInv, NEW t \in Threads, FinishOperation(t)
  PROVE  IInv'
<1> USE DEF schedVars, threadVars, reactorVars
<1> DEFINE o == current[t]
           S == ToSet(privateQueue[t])
<1>1. /\ UNCHANGED <<schedVars, block, privateQueue, transit, reactorVars, works,
                     late>>
      /\ pc[t] = "user"
      /\ done' = done \cup {o}
      /\ current' = [current EXCEPT ![t] = None]
      /\ outstanding' = outstanding + privateWork[t] - 1
      /\ privateWork' = [privateWork EXCEPT ![t] = 0]
  BY DEF FinishOperation
<1>2. /\ t \in Processes
      /\ \/ Moves(t, "stop", "loop") /\ outstanding' = 0
         \/ Moves(t, "loop", ret[t])
  BY GotoMoves DEF FinishOperation, IInv, PCs, Processes
<1>3. TypeOK /\ PcInv /\ QueueInv /\ UniqueInv /\ CountInv
  BY DEF IInv
<1>4. o # None /\ o \in Ops
  BY <1>1, <1>3 DEF PcInv, InUser, TypeOK
<1>5. /\ o \notin QueuedOps /\ o \notin async /\ o \notin ready /\ o \notin done
      /\ \A p \in Processes : transit[p] # o
      /\ \A u \in Threads : u # t => current[u] # o
      /\ \A u \in Threads : o \notin ToSet(privateQueue[u])
  BY <1>3, <1>4 DEF UniqueInv, OnlyPrivate
<1> HIDE DEF o
<1>6. QueuedOps' = QueuedOps
  BY <1>1 DEF QueuedOps
<1>7. /\ current' \in [Threads -> Ops \cup {None}]
      /\ current'[t] = None
      /\ \A u \in Threads : u # t => current'[u] = current[u]
  BY <1>1, <1>3 DEF TypeOK
<1>8. /\ o \in Counted
      /\ IsFiniteSet(Counted) /\ Cardinality(Counted) \in Nat
      /\ Cardinality(works) \in Nat
  BY <1>3, <1>4, CountedFinite, CountedElement DEF o
<1>9. /\ privateWork[t] = Len(privateQueue[t])
      /\ IsFiniteSet(S) /\ Cardinality(S) = Len(privateQueue[t])
      /\ Len(privateQueue[t]) \in Nat
  <2>1. privateQueue[t] \in Seq(Ops) /\ NoRepeat(privateQueue[t])
    BY <1>3 DEF TypeOK, QueueInv
  <2>2. QED
    BY <1>3, <1>4, <2>1, CardinalityToSet, LenProperties DEF CountInv, o
<1>10. outstanding \in Nat /\ outstanding > 0 /\ outstanding' \in Nat
  BY <1>1, <1>9, Outstanding DEF InUser
<1>11. TypeOK'
  BY <1>1, <1>2, <1>3, <1>4, <1>7, <1>10 DEF TypeOK, Moves
<1>12. PcInv'
  BY <1>1, <1>2, <1>3, <1>7, ConstantsAssumption
  DEF PcInv, InUser, Processes, Moves
<1>13. QueueInv'
  BY <1>1, <1>2, <1>3 DEF QueueInv, InTask, Processes, Moves
<1>14. UniqueInv'
  <2>1. ASSUME NEW u \in Threads, NEW x \in Ops, x \in ToSet(privateQueue'[u])
        PROVE  OnlyPrivate(u, x)'
    <3>1. OnlyPrivate(u, x) /\ x # o /\ x # None
      BY <1>1, <1>3, <1>5, <2>1, ConstantsAssumption DEF UniqueInv
    <3>2. QED
      BY <1>1, <1>6, <1>7, <3>1 DEF OnlyPrivate
  <2>2. None \notin QueuedOps \cup async \cup ready \cup done
    BY <1>3, NoneNowhere
  <2>3. \A u \in Threads :
          current'[u] \notin QueuedOps' \cup async' \cup ready' \cup done'
    BY <1>1, <1>3, <1>4, <1>5, <1>6, <1>7, <2>2 DEF UniqueInv
  <2>4. \A p \in Processes :
          transit'[p] \notin QueuedOps' \cup async' \cup ready' \cup done'
    BY <1>1, <1>3, <1>5, <1>6 DEF UniqueInv
  <2>5. QED
    BY <1>1, <1>3, <1>5, <1>6, <1>7, <2>1, <2>3, <2>4 DEF UniqueInv
<1>15. CountInv'
  <2>1. Counted' = (Counted \ {o}) \cup S
    <3>1. ASSUME NEW x PROVE x \in Counted' <=> (x \in Counted /\ x # o) \/ x \in S
      BY <1>1, <1>4, <1>5, <1>6, <1>7, CountedElement, CountedElementPrime DEF o
    <3>2. QED
      BY <3>1
  <2>2. (Counted \ {o}) \cap S = {}
    <3>1. ASSUME NEW x, x \in S PROVE x \notin Counted
      <4>1. OnlyPrivate(t, x) /\ x \in Ops
        BY <1>3, <3>1, NoneNowhere DEF UniqueInv
      <4>2. QED
        BY <1>4, <4>1, CountedElement DEF OnlyPrivate, o
    <3>2. QED
      BY <3>1
  <2>3. /\ IsFiniteSet(Counted \ {o})
        /\ Cardinality(Counted \ {o}) = Cardinality(Counted) - 1
    BY <1>8, FS_RemoveElement
  <2>4. Cardinality(Counted') = Cardinality(Counted) - 1 + Cardinality(S)
    <3>1. /\ Cardinality((Counted \ {o}) \cup S) =
               Cardinality(Counted \ {o}) + Cardinality(S)
                 - Cardinality((Counted \ {o}) \cap S)
      BY <1>9, <2>3, FS_Union
    <3>2. Cardinality((Counted \ {o}) \cap S) = 0
      BY <2>2, FS_EmptySet
    <3>3. QED
      BY <1>8, <1>9, <2>1, <2>3, <3>1, <3>2
  <2>5. outstanding = Cardinality(works) + Cardinality(Counted)
    BY <1>3 DEF CountInv
  <2>6. outstanding' = Cardinality(works') + Cardinality(Counted')
    <3>1. outstanding' = outstanding + Len(privateQueue[t]) - 1 /\ works' = works
      BY <1>1, <1>9
    <3>2. Cardinality(Counted') = Cardinality(Counted) - 1 + Len(privateQueue[t])
      BY <1>9, <2>4
    <3>3. /\ Cardinality(works) \in Nat /\ Cardinality(Counted) \in Nat
          /\ Len(privateQueue[t]) \in Nat
      BY <1>8, <1>9
    <3>4. \A w, c, n \in Nat : (w + c) + n - 1 = w + ((c - 1) + n)
      OBVIOUS
    <3>5. outstanding' = Cardinality(works) + ((Cardinality(Counted) - 1) + Len(privateQueue[t]))
      BY <2>5, <3>1, <3>3, <3>4
    <3>6. QED
      BY <3>1, <3>2, <3>5
  <2>7. \A u \in Threads : privateWork'[u] =
          IF current'[u] # None THEN Len(privateQueue'[u]) ELSE 0
    BY <1>1, <1>3, <1>7 DEF CountInv, TypeOK
  <2>8. QED
    BY <2>6, <2>7 DEF CountInv
<1>17. QED
  BY <1>11, <1>12, <1>13, <1>14, <1>15 DEF IInv

-----------------------------------------------------------------------------
(* The theorems.                                                           *)

LEMMA InitIInv ==
  ASSUME Init
  PROVE  IInv
<1>1. /\ pc \in [Processes -> PCs] /\ ret \in [Processes -> PCs]
      /\ \A t \in Threads : pc[t] = "enter"
      /\ \A c \in Clients : pc[c] = "user" /\ ret[c] = "user"
      /\ \A p \in Processes : /\ pc[p] \in {"enter", "user"}
                             /\ ret[p] = "user" /\ transit[p] = None
  BY ConstantsAssumption DEF Init, PCs, Processes
<1>2. ToSet(queue) = {} /\ NoRepeat(queue) /\ QueuedOps = {}
  BY ToSetEmpty DEF Init, QueuedOps
<1>3. \A t \in Threads : /\ ToSet(privateQueue[t]) = {} /\ NoRepeat(privateQueue[t])
                         /\ privateQueue[t] = <<>> /\ privateWork[t] = 0
                         /\ current[t] = None
  BY ToSetEmpty DEF Init
<1>4. IsFiniteSet(Clients) /\ Cardinality(Clients) \in Nat
  BY ConstantsAssumption, FS_CardinalityType
<1>5. TypeOK
  <2>1. <<>> \in Seq(Ops) /\ <<>> \in Seq(Ops \cup {Task})
    OBVIOUS
  <2>2. QED
    BY <1>1, <1>4, <2>1 DEF Init, TypeOK
<1>6. PcInv
  BY <1>1, <1>3 DEF PcInv, InUser, Processes
<1>7. QueueInv
  BY <1>1, <1>2, <1>3 DEF Init, QueueInv, InTask, Processes
<1>8. UniqueInv
  BY <1>1, <1>2, <1>3 DEF Init, UniqueInv
<1>9. CountInv
  <2>1. Counted = {}
    <3>1. ASSUME NEW x PROVE x \notin Counted
      BY <1>1, <1>2, <1>3, CountedElement DEF Init
    <3>2. QED
      BY <3>1
  <2>2. QED
    BY <1>3, <1>4, <2>1, FS_EmptySet DEF Init, CountInv
<1>11. QED
  BY <1>5, <1>6, <1>7, <1>8, <1>9 DEF IInv

LEMMA NextIInv ==
  ASSUME IInv, [Next]_vars
  PROVE  IInv'
<1>1. CASE UNCHANGED vars
  <2>1. UNCHANGED <<schedVars, threadVars, reactorVars>> /\ TypeOK' /\ PcInv' /\ QueueInv'
    BY <1>1 DEF vars, schedVars, threadVars, reactorVars, IInv, TypeOK, PcInv, InUser,
       QueueInv, InTask
  <2>2. UniqueInv'
    BY <1>1 DEF vars, schedVars, threadVars, reactorVars, IInv, UniqueInv, OnlyPrivate,
       QueuedOps
  <2>3. CountInv'
    BY <1>1 DEF vars, schedVars, threadVars, reactorVars, IInv, CountInv, Counted,
       Transits, Running, QueuedOps
  <2>4. QED
    BY <2>1, <2>2, <2>3 DEF IInv
<1>2. ASSUME NEW t \in Threads, ThreadStep(t)
      PROVE  IInv'
  BY <1>2, EnterStep, ReturnFromRunStep, WaitForEventStep, WakeupStep, TakeTaskStep,
     TakeOperationStep, RunTaskStep, FinishOperationStep
  DEF ThreadStep
<1>3. ASSUME NEW p \in Processes, LibraryStep(p)
      PROVE  IInv'
  BY <1>3, WakeupStep, StopAllThreadsStep, PushStep DEF LibraryStep
<1>4. ASSUME NEW p \in Processes, UserStep(p)
      PROVE  IInv'
  BY <1>4, BeginPostStep, StartAsyncStep, InitTaskStep, DropWorkStep DEF UserStep
<1>5. QED
  BY <1>1, <1>2, <1>3, <1>4, WakeupStep, PostContinuationStep, EventArrivesStep
  DEF Next, Terminated

\* IInv is an invariant.
THEOREM Invariance == Spec => []IInv
<1>1. Init => IInv
  BY InitIInv
<1>2. IInv /\ [Next]_vars => IInv'
  BY NextIInv
<1>3. QED
  BY <1>1, <1>2, PTL DEF Spec

\* The scheduler's state is well-typed: outstanding_work_ never goes below zero.
THEOREM TypeCorrect == Spec => []TypeOK
<1>1. IInv => TypeOK
  BY DEF IInv
<1>2. QED
  BY <1>1, Invariance, PTL

\* Counting by place and counting by what is live but not in the private queue
\* of a busy thread come to the same.
LEMMA CountedIsLive ==
  ASSUME IInv
  PROVE  Counted = Live \ Uncommitted
<1>1. ASSUME NEW x PROVE x \in Live <=> x \in Counted \/ x \in Uncommitted
  BY DEF Live, Pending, Privates, Counted, Uncommitted
<1>2. ASSUME NEW x, x \in Uncommitted PROVE x \notin Counted
  <2>1. PICK t \in Threads : current[t] # None /\ x \in ToSet(privateQueue[t])
    BY <1>2 DEF Uncommitted
  <2>2. x \in Ops
    BY <2>1, NoneNowhere DEF IInv
  <2>3. OnlyPrivate(t, x)
    BY <2>1, <2>2 DEF IInv, UniqueInv
  <2>4. QED
    BY <2>1, <2>3, CountedElement DEF OnlyPrivate
<1>3. QED
  BY <1>1, <1>2

\* outstanding_work_ counts the works and the operations, however the private
\* counts are folded into it.
THEOREM WorkConserved == Spec => []WorkConservation
<1>1. IInv => WorkConservation
  BY CountedIsLive DEF IInv, CountInv, WorkConservation
<1>2. QED
  BY <1>1, Invariance, PTL

\* There is one task_operation_, with a thread or in the queue, once the reactor
\* has been created.
THEOREM TaskUnique == Spec => []TaskIsUnique
<1>1. ASSUME IInv PROVE TaskIsUnique
  <2> DEFINE holders == {t \in Threads : InTask(t)}
             queued  == {i \in 1 .. Len(queue) : queue[i] = Task}
  <2>1. QueueInv /\ queue \in Seq(Ops \cup {Task}) /\ task \in BOOLEAN
    BY <1>1 DEF IInv, TypeOK
  <2>2. queued # {} <=> Task \in ToSet(queue)
    BY <2>1, ToSetDef
  <2>3. \A i, j \in queued : i = j
    BY <2>1 DEF QueueInv, NoRepeat
  <2>4. \A t, u \in holders : t = u
    BY <2>1 DEF QueueInv
  <2>5. /\ holders # {} => queued = {}
        /\ task <=> holders # {} \/ queued # {}
    BY <2>1, <2>2 DEF QueueInv
  <2>6. Cardinality({}) = 0 /\ \A x : Cardinality({x}) = 1
    BY FS_EmptySet, FS_Singleton
  <2> HIDE DEF holders, queued
  <2>7. /\ holders = {} \/ \E t : holders = {t}
        /\ queued = {} \/ \E i : queued = {i}
    BY <2>3, <2>4
  <2>8. Cardinality(holders) + Cardinality(queued) = IF task THEN 1 ELSE 0
    <3>1. CASE holders # {}
      <4>1. PICK t : holders = {t}
        BY <2>7, <3>1
      <4>2. Cardinality(holders) = 1 /\ Cardinality(queued) = 0 /\ task
        BY <2>5, <2>6, <3>1, <4>1
      <4>3. QED
        BY <4>2
    <3>2. CASE queued # {}
      <4>1. PICK i : queued = {i}
        BY <2>7, <3>2
      <4>2. Cardinality(queued) = 1 /\ Cardinality(holders) = 0 /\ task
        BY <2>5, <2>6, <3>2, <4>1
      <4>3. QED
        BY <4>2
    <3>3. CASE holders = {} /\ queued = {}
      BY <2>1, <2>5, <2>6, <3>3
    <3>4. QED
      BY <3>1, <3>2, <3>3
  <2>9. QED
    BY <2>8 DEF TaskIsUnique, holders, queued
<1>2. IInv => TaskIsUnique
  BY <1>1
<1>3. QED
  BY <1>2, Invariance, PTL

-----------------------------------------------------------------------------
(* The scheduler implements IoService: safety.                             *)

\* The threads whose run() has returned, as the refinement mapping has them.
Returned == {t \in Threads : pc[t] = "returned"}

\* What it means to be pending or running, spelt out, and the same of the next
\* state.
LEMMA PendingElement ==
  ASSUME NEW x
  PROVE  /\ x \in Pending <=>
              \/ x \in QueuedOps \/ x \in ready
              \/ x # None /\ \E p \in Processes : transit[p] = x
              \/ \E t \in Threads : x \in ToSet(privateQueue[t])
         /\ x \in Running <=> x # None /\ \E t \in Threads : current[t] = x
  BY DEF Pending, Transits, Privates, Running

LEMMA PendingElementPrime ==
  ASSUME NEW x
  PROVE  /\ x \in Pending' <=>
              \/ x \in QueuedOps' \/ x \in ready'
              \/ x # None /\ \E p \in Processes : transit'[p] = x
              \/ \E t \in Threads : x \in ToSet(privateQueue'[t])
         /\ x \in Running' <=> x # None /\ \E t \in Threads : current'[t] = x
  BY DEF Pending, Transits, Privates, Running

\* A step that changes nothing that the clients of the service can tell.
LEMMA Stutters ==
  ASSUME UNCHANGED <<works, async, Pending, Running, done, late, Returned>>
  PROVE  [Service!Next]_(Service!vars)
  BY DEF Service!vars, Returned

\* What is live for the service is what is live here.
LEMMA KeptOfService == Service!Kept <=> Kept
  BY DEF Service!Kept, Service!Live, Kept, Live

\* With outstanding_work_ at zero nothing keeps the service.
NothingKept == outstanding = 0 => ~Kept

LEMMA NothingLeft ==
  ASSUME IInv, outstanding = 0
  PROVE  ~Kept
<1>1. works = {} /\ Counted = {}
  BY Outstanding
<1>2. \A t \in Threads : current[t] = None
  BY <1>1, CountedElement
<1>3. Uncommitted = {}
  BY <1>2 DEF Uncommitted
<1>4. Live = {}
  BY <1>1, <1>3, CountedIsLive
<1>5. QED
  BY <1>1, <1>4 DEF Kept

\* Who has decided to stop the service has seen outstanding_work_ at zero.  It
\* may rise again before stopped_ is set, but by late operations only.
Stopping == stopped \/ \E p \in Processes : pc[p] = "stop"
StopInv == Stopping => ~Kept

\* Steps of the machinery that move no operation and return from no run().
LEMMA MachineryRefines ==
  ASSUME UNCHANGED <<queue, privateQueue, current, transit, async, ready, done, late,
                     works>>,
         UNCHANGED Returned
  PROVE  [Service!Next]_(Service!vars)
<1>1. UNCHANGED <<Pending, Running>>
  BY DEF Pending, QueuedOps, Privates, Transits, Running
<1>2. QED
  BY <1>1, Stutters

\* While a thread in run() executes nothing, fewer handlers run than there are
\* threads in run().
LEMMA RoomForHandler ==
  ASSUME IInv, NEW t \in Threads, current[t] = None, pc[t] # "returned"
  PROVE  Cardinality(Running) < Cardinality(Threads \ Returned)
<1> DEFINE busy == {u \in Threads : current[u] # None}
           open == Threads \ Returned
           f    == [u \in busy |-> current[u]]
<1>1. \A u \in Threads : current[u] # None => pc[u] # "returned"
  BY DEF IInv, PcInv, InUser
<1>2. busy \subseteq open /\ t \in open /\ t \notin busy
  BY <1>1 DEF Returned
<1>3. IsFiniteSet(open) /\ IsFiniteSet(busy)
  BY FS_Subset, ConstantsAssumption
<1>4. Running = {f[u] : u \in busy}
  BY DEF Running
<1>5. f \in [busy -> Ops]
  BY DEF IInv, TypeOK
<1> HIDE DEF busy, open, f
<1>6. Cardinality(Running) <= Cardinality(busy) /\ IsFiniteSet(Running)
  <2>1. f \in [busy -> Running]
    BY <1>4, <1>5
  <2>2. f \in Surjection(busy, Running)
    BY <1>4, <2>1 DEF Surjection
  <2>3. QED
    BY <1>3, <2>2, FS_Surjection
<1>7. Cardinality(busy) < Cardinality(open)
  <2>1. Cardinality(open \ {t}) = Cardinality(open) - 1 /\ IsFiniteSet(open \ {t})
    BY <1>2, <1>3, FS_RemoveElement
  <2>2. busy \subseteq open \ {t}
    BY <1>2
  <2>3. Cardinality(busy) <= Cardinality(open \ {t})
    BY <2>1, <2>2, FS_Subset
  <2>4. Cardinality(busy) \in Nat /\ Cardinality(open) \in Nat
    BY <1>3, FS_CardinalityType
  <2>5. QED
    BY <2>1, <2>3, <2>4
<1>8. Cardinality(Running) \in Nat /\ Cardinality(busy) \in Nat /\ Cardinality(open) \in Nat
  BY <1>3, <1>6, FS_CardinalityType
<1>9. Cardinality(Running) < Cardinality(open)
  BY <1>6, <1>7, <1>8
<1>10. QED
  BY <1>9 DEF open

\* The Cardinality that IoService extends is the same.
LEMMA CardinalityOfService ==
  ASSUME NEW S
  PROVE  Service!Cardinality(S) = Cardinality(S)
  BY DEF Service!Cardinality, Cardinality

\* stop(): where it was called at the beginning of run(), this returns.
LEMMA StopRefines ==
  ASSUME IInv, StopInv, NEW p \in Processes, StopAllThreads(p)
  PROVE  [Service!Next]_(Service!vars)
<1>1. /\ pc[p] = "stop" /\ ret[p] \in {"user", "loop", "returned"}
      /\ UNCHANGED <<queue, outstanding, threadVars, transit, reactorVars, works, done, late>>
  BY DEF StopAllThreads, IInv, PcInv
<1>2. /\ pc'[p] = ret[p]
      /\ \A q \in Processes : q # p =>
           pc'[q] = IF pc[q] = "waiting" THEN "woken" ELSE pc[q]
  BY DEF StopAllThreads
<1>3. UNCHANGED <<Pending, Running>>
  BY <1>1 DEF Pending, QueuedOps, Privates, Transits, Running, threadVars, reactorVars
<1>4. CASE ret[p] = "returned" /\ p \in Threads
  <2>1. ~Service!Kept
    BY <1>1, KeptOfService DEF StopInv, Stopping
  <2>2. Returned' = Returned \cup {p} /\ p \notin Returned
    BY <1>1, <1>2, <1>4 DEF Returned, Processes
  <2>3. Cardinality(Running) < Cardinality(Threads \ Returned)
    <3>1. current[p] = None
      BY <1>1, <1>4 DEF IInv, PcInv, InUser
    <3>2. QED
      BY <1>1, <1>4, <3>1, RoomForHandler
  <2>4. Service!Return(p)
    BY <1>1, <1>3, <2>1, <2>2, <2>3, CardinalityOfService
    DEF Service!Return, Returned, reactorVars
  <2>5. QED
    BY <1>4, <2>4 DEF Service!Next
<1>5. CASE ~(ret[p] = "returned" /\ p \in Threads)
  <2>1. Returned' = Returned
    BY <1>1, <1>2, <1>5 DEF Returned, Processes
  <2>2. QED
    BY <1>1, <1>3, <2>1, Stutters DEF reactorVars
<1>6. QED
  BY <1>4, <1>5

\* The private queue of t moves behind op_queue_: what is pending stays so.
LEMMA RequeuedStaysPending ==
  ASSUME NEW t \in Threads, IInv, AtLoop(t), PrivateQueueMoved(t),
         UNCHANGED <<transit, ready>>,
         QueuedOps' = QueuedOps \cup ToSet(privateQueue[t])
  PROVE  Pending' = Pending
<1>1. /\ ToSet(privateQueue'[t]) = {}
      /\ \A u \in Threads : u # t => privateQueue'[u] = privateQueue[u]
  BY ToSetEmpty DEF PrivateQueueMoved, IInv, TypeOK
<1>2. ASSUME NEW x PROVE x \in Pending' <=> x \in Pending
  BY <1>1, PendingElement, PendingElementPrime
<1>3. QED
  BY <1>2

\* run() returns.
LEMMA ReturnRefines ==
  ASSUME IInv, StopInv, NEW t \in Threads, ReturnFromRun(t)
  PROVE  [Service!Next]_(Service!vars)
<1>1. /\ UNCHANGED <<current, transit, reactorVars, works, done, late>>
      /\ AtLoop(t) /\ stopped /\ t \in Processes
      /\ queue' = Requeued(t)
      /\ PrivateQueueMoved(t)
  BY DEF ReturnFromRun, Processes
<1>2. Moves(t, "returned", ret[t])
  BY <1>1, GotoMoves DEF ReturnFromRun, IInv, PCs
<1>3. QueuedOps' = QueuedOps \cup ToSet(privateQueue[t])
  BY <1>1, RequeuedProperties DEF QueuedOps
<1>4. Pending' = Pending
  BY <1>1, <1>3, RequeuedStaysPending DEF reactorVars
<1>5. Running' = Running
  BY <1>1 DEF Running
<1>6. Returned' = Returned \cup {t} /\ t \notin Returned
  BY <1>1, <1>2 DEF Returned, Processes, Moves, AtLoop
<1>7. ~Service!Kept
  BY <1>1, KeptOfService DEF StopInv, Stopping
<1>8. Cardinality(Running) < Cardinality(Threads \ Returned)
  BY <1>1, RequeuedProperties, RoomForHandler DEF AtLoop
<1>9. Service!Return(t)
  BY <1>1, <1>4, <1>5, <1>6, <1>7, <1>8, CardinalityOfService
  DEF Service!Return, Returned, reactorVars
<1>10. QED
  BY <1>9 DEF Service!Next

\* The thread of the reactor takes its task, with nothing but the private queue
\* moved.
LEMMA TakeTaskRefines ==
  ASSUME IInv, NEW t \in Threads, TakeTask(t)
  PROVE  [Service!Next]_(Service!vars)
<1>1. /\ UNCHANGED <<current, transit, reactorVars, works, done, late>>
      /\ AtLoop(t) /\ t \in Processes /\ TypeOK
      /\ Requeued(t) # <<>> /\ Head(Requeued(t)) = Task
      /\ queue' = Tail(Requeued(t))
      /\ PrivateQueueMoved(t)
  BY DEF TakeTask, Processes, IInv
<1>2. Moves(t, "signal", "task") \/ Moves(t, "task", ret[t])
  <2>1. GotoVia(t, "signal", "task") \/ (Goto(t, "task") /\ ret' = ret)
    BY DEF TakeTask
  <2>2. QED
    BY <1>1, <2>1, GotoMoves DEF PCs
<1>3. QueuedOps' = QueuedOps \cup ToSet(privateQueue[t])
  <2>1. /\ Requeued(t) \in Seq(Ops \cup {Task})
        /\ ToSet(Requeued(t)) \ {Task} = QueuedOps \cup ToSet(privateQueue[t])
    BY <1>1, RequeuedProperties
  <2>2. ToSet(Requeued(t)) = {Task} \cup ToSet(queue')
    BY <1>1, <2>1, ToSetTail
  <2>3. QED
    BY <2>1, <2>2 DEF QueuedOps
<1>4. Pending' = Pending
  BY <1>1, <1>3, RequeuedStaysPending DEF reactorVars
<1>5. Running' = Running
  BY <1>1 DEF Running
<1>6. Returned' = Returned
  BY <1>1, <1>2 DEF Returned, Processes, Moves, AtLoop
<1>7. QED
  BY <1>1, <1>4, <1>5, <1>6, Stutters DEF reactorVars

\* A thread begins a handler.
LEMMA TakeOperationRefines ==
  ASSUME IInv, NEW t \in Threads, TakeOperation(t)
  PROVE  [Service!Next]_(Service!vars)
<1> DEFINE r == Requeued(t)
           o == Head(r)
<1>1. /\ UNCHANGED <<transit, reactorVars, works, done, late>>
      /\ AtLoop(t) /\ t \in Processes /\ TypeOK /\ UniqueInv
      /\ r # <<>> /\ o # Task
      /\ queue' = Tail(r)
      /\ current' = [current EXCEPT ![t] = o]
      /\ PrivateQueueMoved(t)
  BY DEF TakeOperation, Processes, IInv
<1>2. Moves(t, "signal", "user") \/ Moves(t, "user", ret[t])
  <2>1. Interrupted(t) \in BOOLEAN /\ "user" \in PCs
    BY <1>1 DEF Interrupted, TypeOK, PCs
  <2>2. CASE WakeOneThread(t, "user", Interrupted(t), task)
    BY <1>1, <2>1, <2>2, WakeOneThreadMoves
  <2>3. CASE Goto(t, "user") /\ UNCHANGED ret
    BY <1>1, <2>1, <2>3, GotoMoves
  <2>4. QED
    BY <2>2, <2>3 DEF TakeOperation
<1>3. /\ current[t] = None
      /\ r \in Seq(Ops \cup {Task})
      /\ ToSet(r) \ {Task} = QueuedOps \cup ToSet(privateQueue[t])
      /\ NoRepeat(r)
  BY <1>1, RequeuedProperties
<1> HIDE DEF r
<1>4. o \in Ops \cup {Task} /\ ToSet(r) = {o} \cup ToSet(queue') /\ o \notin ToSet(queue')
  BY <1>1, <1>3, ToSetTail
<1> HIDE DEF o
<1>5. /\ o \in Ops /\ o # None /\ o \notin QueuedOps'
      /\ QueuedOps' \cup {o} = QueuedOps \cup ToSet(privateQueue[t])
  BY <1>1, <1>3, <1>4, ConstantsAssumption DEF QueuedOps
<1>6. /\ ToSet(privateQueue'[t]) = {}
      /\ \A u \in Threads : u # t => privateQueue'[u] = privateQueue[u]
  BY <1>1, ToSetEmpty DEF PrivateQueueMoved, TypeOK
<1>7. /\ o \notin ready /\ \A p \in Processes : transit[p] # o
      /\ \A u \in Threads : u # t => o \notin ToSet(privateQueue[u])
  BY <1>1, <1>5 DEF UniqueInv, OnlyPrivate
<1>8. o \in Pending
  BY <1>5, PendingElement
<1>9. Pending' = Pending \ {o}
  <2>1. ASSUME NEW x PROVE x \in Pending' <=> x \in Pending /\ x # o
    BY <1>1, <1>5, <1>6, <1>7, PendingElement, PendingElementPrime DEF reactorVars
  <2>2. QED
    BY <2>1
<1>10. /\ current'[t] = o
       /\ \A u \in Threads : u # t => current'[u] = current[u]
  BY <1>1, <1>5 DEF TypeOK
<1>11. Running' = Running \cup {o}
  <2>1. ASSUME NEW x PROVE x \in Running' <=> x \in Running \/ x = o
    BY <1>3, <1>5, <1>10, PendingElement, PendingElementPrime
  <2>2. QED
    BY <2>1
<1>12. Returned' = Returned
  BY <1>1, <1>2 DEF Returned, Processes, Moves, AtLoop
<1>13. Cardinality(Running) < Cardinality(Threads \ Returned)
  BY <1>1, <1>3, RoomForHandler DEF AtLoop
<1>14. Service!Begin(o)
  <2>1. Cardinality(Running) < Cardinality(Threads \ {u \in Threads : pc[u] = "returned"})
    BY <1>13 DEF Returned
  <2>2. UNCHANGED <<works, async, done, {u \in Threads : pc[u] = "returned"}>>
    BY <1>1, <1>12 DEF Returned, reactorVars
  <2>3. QED
    BY <1>1, <1>8, <1>9, <1>11, <2>1, <2>2, CardinalityOfService DEF Service!Begin
<1>15. QED
  BY <1>5, <1>14 DEF Service!Next

\* The reactor returns: what was ready goes to the private queue.
LEMMA RunTaskRefines ==
  ASSUME IInv, NEW t \in Threads, RunTask(t)
  PROVE  [Service!Next]_(Service!vars)
<1>1. /\ UNCHANGED <<queue, current, transit, async, works, done, late>>
      /\ pc[t] = "task" /\ t \in Processes /\ ready' = {} /\ TypeOK
  BY DEF RunTask, Processes, IInv
<1>2. Moves(t, "requeue", ret[t])
  BY <1>1, GotoMoves DEF RunTask, PCs
<1>3. PICK ops \in SetToSeqs(ready) :
        privateQueue' = [privateQueue EXCEPT ![t] = privateQueue[t] \o ops]
  BY DEF RunTask
<1>4. ops \in Seq(Ops) /\ ToSet(ops) = ready
  <2>1. IsFiniteSet(ready) /\ ready \subseteq Ops
    BY <1>1, FS_Subset, ConstantsAssumption DEF TypeOK
  <2>2. ops \in Seq(ready) /\ ToSet(ops) = ready
    BY <2>1, SetToSeqsProperties
  <2>3. QED
    BY <2>1, <2>2, SeqMonotonic
<1>5. /\ ToSet(privateQueue'[t]) = ToSet(privateQueue[t]) \cup ready
      /\ \A u \in Threads : u # t => privateQueue'[u] = privateQueue[u]
  <2>1. privateQueue[t] \in Seq(Ops) /\ privateQueue \in [Threads -> Seq(Ops)]
    BY <1>1 DEF TypeOK
  <2>2. ToSet(privateQueue[t] \o ops) = ToSet(privateQueue[t]) \cup ToSet(ops)
    BY <1>4, <2>1, ToSetConcat
  <2>3. QED
    BY <1>3, <1>4, <2>1, <2>2
<1>6. Pending' = Pending
  <2>1. QueuedOps' = QueuedOps
    BY <1>1 DEF QueuedOps
  <2>2. ASSUME NEW x PROVE x \in Pending' <=> x \in Pending
    BY <1>1, <1>5, <2>1, PendingElement, PendingElementPrime
  <2>3. QED
    BY <2>2
<1>7. Running' = Running /\ Returned' = Returned
  BY <1>1, <1>2 DEF Running, Returned, Processes, Moves
<1>8. QED
  BY <1>1, <1>6, <1>7, Stutters

\* A handler returns.
LEMMA FinishOperationRefines ==
  ASSUME IInv, NEW t \in Threads, FinishOperation(t)
  PROVE  [Service!Next]_(Service!vars)
<1> DEFINE o == current[t]
<1>1. /\ UNCHANGED <<schedVars, privateQueue, transit, reactorVars, works, late>>
      /\ pc[t] = "user" /\ t \in Processes /\ TypeOK /\ UniqueInv
      /\ done' = done \cup {o}
      /\ current' = [current EXCEPT ![t] = None]
  BY DEF FinishOperation, Processes, IInv
<1>2. Moves(t, "stop", "loop") \/ Moves(t, "loop", ret[t])
  BY <1>1, GotoMoves DEF FinishOperation, PCs
<1>3. /\ o # None /\ o \in Ops
      /\ \A u \in Threads : u # t => current[u] # o
  BY <1>1 DEF IInv, PcInv, InUser, UniqueInv, TypeOK
<1>4. /\ current'[t] = None
      /\ \A u \in Threads : u # t => current'[u] = current[u]
  BY <1>1 DEF TypeOK
<1>5. o = current[t]
  OBVIOUS
<1> HIDE DEF o
<1>6. Running' = Running \ {o} /\ o \in Running
  <2>1. ASSUME NEW x PROVE x \in Running' <=> x \in Running /\ x # o
    BY <1>3, <1>4, <1>5, PendingElement, PendingElementPrime
  <2>2. QED
    BY <1>3, <1>5, <2>1, PendingElement
<1>7. Pending' = Pending
  BY <1>1 DEF Pending, QueuedOps, Privates, Transits, schedVars, reactorVars
<1>8. Returned' = Returned
  BY <1>1, <1>2 DEF Returned, Processes, Moves
<1>9. Service!End(o)
  BY <1>1, <1>6, <1>7, <1>8 DEF Service!End, Returned, reactorVars
<1>10. QED
  BY <1>3, <1>9 DEF Service!Next

\* post() promises the operation when it counts it; that it is pushed afterwards
\* makes no difference to the clients.
LEMMA BeginPostRefines ==
  ASSUME IInv, NEW p \in Processes, NEW o \in Ops, BeginPost(p, o)
  PROVE  [Service!Next]_(Service!vars)
<1>1. /\ UNCHANGED <<schedVars, threadVars, reactorVars, works, done>>
      /\ CanCall(p) /\ pc[p] = "user" /\ Fresh(o) /\ o # None /\ TypeOK
      /\ transit' = [transit EXCEPT ![p] = o]
  BY ConstantsAssumption DEF BeginPost, CanCall, IInv
<1>2. Moves(p, "push", ret[p])
  BY <1>1, GotoMoves DEF BeginPost, PCs
<1>3. transit[p] = None
  BY <1>1 DEF IInv, PcInv
<1>4. transit'[p] = o /\ \A q \in Processes : q # p => transit'[q] = transit[q]
  BY <1>1 DEF TypeOK
<1>5. Pending' = Pending \cup {o}
  <2>1. QueuedOps' = QueuedOps
    BY <1>1 DEF QueuedOps, schedVars
  <2>2. ASSUME NEW x PROVE x \in Pending' <=> x \in Pending \/ x = o
    BY <1>1, <1>3, <1>4, <2>1, PendingElement, PendingElementPrime
    DEF threadVars, reactorVars
  <2>3. QED
    BY <2>2
<1>6. Running' = Running /\ Returned' = Returned
  BY <1>1, <1>2 DEF Running, threadVars, Returned, Processes, Moves
<1>7. Service!Fresh(o) /\ Service!MarkIfLate(o)
  BY <1>1, KeptOfService
  DEF BeginPost, MarkIfLate, Service!MarkIfLate, Service!Fresh, Service!Live, Fresh, Live
<1>8. Service!Post(o)
  BY <1>1, <1>5, <1>6, <1>7 DEF Service!Post, Returned, reactorVars
<1>9. QED
  BY <1>8 DEF Service!Next

\* The push moves a promised operation to the queue.
LEMMA PushRefines ==
  ASSUME IInv, NEW p \in Processes, Push(p)
  PROVE  [Service!Next]_(Service!vars)
<1> DEFINE o == transit[p]
<1>1. /\ UNCHANGED <<threadVars, reactorVars, works, done, late>>
      /\ pc[p] = "push" /\ TypeOK
      /\ queue' = Append(queue, o)
      /\ transit' = [transit EXCEPT ![p] = None]
  BY DEF Push, IInv
<1>2. Moves(p, "signal", "user") \/ Moves(p, "user", ret[p])
  BY <1>1, WakeOneThreadMoves DEF Push, TypeOK
<1>3. o \in Ops /\ o # None /\ o # Task /\ o = transit[p]
  BY <1>1, ConstantsAssumption DEF IInv, PcInv, TypeOK
<1> HIDE DEF o
<1>4. transit'[p] = None /\ \A q \in Processes : q # p => transit'[q] = transit[q]
  BY <1>1 DEF TypeOK
<1>5. QueuedOps' = QueuedOps \cup {o}
  <2>1. queue \in Seq(Ops \cup {Task}) /\ o \in Ops \cup {Task}
    BY <1>1, <1>3 DEF TypeOK
  <2>2. ToSet(queue') = ToSet(queue) \cup {o}
    BY <1>1, <2>1, ToSetAppend
  <2>3. QED
    BY <1>3, <2>2 DEF QueuedOps
<1>6. Pending' = Pending
  <2>1. ASSUME NEW x PROVE x \in Pending' <=> x \in Pending
    BY <1>1, <1>3, <1>4, <1>5, PendingElement, PendingElementPrime
    DEF threadVars, reactorVars
  <2>2. QED
    BY <2>1
<1>7. Running' = Running /\ Returned' = Returned
  BY <1>1, <1>2 DEF Running, threadVars, Returned, Processes, Moves
<1>8. QED
  BY <1>1, <1>6, <1>7, Stutters DEF reactorVars

\* The task is not an operation.
LEMMA InitTaskRefines ==
  ASSUME IInv, NEW p \in Processes, InitTask(p)
  PROVE  [Service!Next]_(Service!vars)
<1>1. /\ UNCHANGED <<threadVars, transit, reactorVars, works, done, late>>
      /\ pc[p] = "user" /\ TypeOK /\ taskInterrupted \in BOOLEAN
      /\ queue' = Append(queue, Task)
  BY DEF InitTask, CanCall, IInv, TypeOK
<1>2. Moves(p, "signal", "user") \/ Moves(p, "user", ret[p])
  BY <1>1, WakeOneThreadMoves DEF InitTask
<1>3. QueuedOps' = QueuedOps
  <2>1. queue \in Seq(Ops \cup {Task}) /\ Task \in Ops \cup {Task}
    BY <1>1 DEF TypeOK
  <2>2. ToSet(queue') = ToSet(queue) \cup {Task}
    BY <1>1, <2>1, ToSetAppend
  <2>3. QED
    BY <2>2 DEF QueuedOps
<1>4. Pending' = Pending /\ Running' = Running
  BY <1>1, <1>3 DEF Pending, Privates, Transits, Running, threadVars, reactorVars
<1>5. Returned' = Returned
  BY <1>1, <1>2 DEF Returned, Processes, Moves
<1>6. QED
  BY <1>1, <1>4, <1>5, Stutters DEF reactorVars

\* A continuation is pending at once.
LEMMA PostContinuationRefines ==
  ASSUME IInv, NEW t \in Threads, NEW o \in Ops, PostContinuation(t, o)
  PROVE  [Service!Next]_(Service!vars)
<1>1. /\ UNCHANGED <<pc, schedVars, current, transit, reactorVars, works, done>>
      /\ t \in Processes /\ CanCall(t) /\ Fresh(o) /\ TypeOK
      /\ privateQueue' = [privateQueue EXCEPT ![t] = Append(privateQueue[t], o)]
  BY DEF PostContinuation, CanCall, Processes, IInv
<1>2. /\ ToSet(privateQueue'[t]) = ToSet(privateQueue[t]) \cup {o}
      /\ \A u \in Threads : u # t => privateQueue'[u] = privateQueue[u]
  <2>1. privateQueue[t] \in Seq(Ops) /\ privateQueue \in [Threads -> Seq(Ops)]
    BY <1>1 DEF TypeOK
  <2>2. ToSet(Append(privateQueue[t], o)) = ToSet(privateQueue[t]) \cup {o}
    BY <2>1, ToSetAppend
  <2>3. QED
    BY <1>1, <2>1, <2>2
<1>3. Pending' = Pending \cup {o}
  <2>1. QueuedOps' = QueuedOps
    BY <1>1 DEF QueuedOps, schedVars
  <2>2. ASSUME NEW x PROVE x \in Pending' <=> x \in Pending \/ x = o
    BY <1>1, <1>2, <2>1, PendingElement, PendingElementPrime DEF reactorVars
  <2>3. QED
    BY <2>2
<1>4. Running' = Running /\ Returned' = Returned
  BY <1>1 DEF Running, Returned
<1>5. Service!Fresh(o) /\ Service!MarkIfLate(o)
  BY <1>1, KeptOfService
  DEF PostContinuation, MarkIfLate, Service!MarkIfLate, Service!Fresh, Service!Live,
      Fresh, Live
<1>6. Service!Post(o)
  BY <1>1, <1>3, <1>4, <1>5 DEF Service!Post, Returned, reactorVars
<1>7. QED
  BY <1>6 DEF Service!Next

\* An asynchronous operation is started.
LEMMA StartAsyncRefines ==
  ASSUME IInv, NEW p \in Processes, NEW o \in Ops, StartAsync(p, o)
  PROVE  [Service!Next]_(Service!vars)
<1>1. /\ UNCHANGED <<pc, schedVars, threadVars, transit, ready, works, done>>
      /\ CanCall(p) /\ Fresh(o)
      /\ async' = async \cup {o}
  BY DEF StartAsync
<1>2. UNCHANGED <<Pending, Running, Returned>>
  BY <1>1 DEF Pending, QueuedOps, Privates, Transits, Running, Returned, schedVars,
     threadVars
<1>3. Service!Fresh(o) /\ Service!MarkIfLate(o)
  BY <1>1, KeptOfService
  DEF StartAsync, MarkIfLate, Service!MarkIfLate, Service!Fresh, Service!Live, Fresh, Live
<1>4. Service!Start(o)
  BY <1>1, <1>2, <1>3 DEF Service!Start, Returned
<1>5. QED
  BY <1>4 DEF Service!Next

\* Its event arrives.
LEMMA EventArrivesRefines ==
  ASSUME NEW o \in Ops, EventArrives(o)
  PROVE  [Service!Next]_(Service!vars)
<1>1. /\ UNCHANGED <<pc, schedVars, threadVars, transit, works, done, late>>
      /\ o \in async /\ async' = async \ {o}
      /\ ready' = ready \cup {o}
  BY DEF EventArrives
<1>2. /\ Pending' = Pending \cup {o}
      /\ UNCHANGED <<Running, Returned>>
  BY <1>1 DEF Pending, QueuedOps, Privates, Transits, Running, Returned, schedVars,
     threadVars
<1>3. Service!Arrive(o)
  BY <1>1, <1>2 DEF Service!Arrive, Returned
<1>4. QED
  BY <1>3 DEF Service!Next

\* A work is destroyed.
LEMMA DropWorkRefines ==
  ASSUME IInv, NEW p \in Processes, NEW w \in Clients, DropWork(p, w)
  PROVE  [Service!Next]_(Service!vars)
<1>1. /\ UNCHANGED <<schedVars, threadVars, transit, reactorVars, done, late>>
      /\ pc[p] = "user" /\ w \in works /\ works' = works \ {w}
  BY DEF DropWork, CanCall
<1>2. Moves(p, "stop", "user") \/ UNCHANGED pc
  BY GotoMoves DEF DropWork, IInv, PCs
<1>3. Returned' = Returned
  BY <1>1, <1>2 DEF Returned, Processes, Moves
<1>4. UNCHANGED <<Pending, Running>>
  BY <1>1 DEF Pending, QueuedOps, Privates, Transits, Running, schedVars, threadVars,
     reactorVars
<1>5. Service!Drop(w)
  BY <1>1, <1>3, <1>4 DEF Service!Drop, Returned, reactorVars
<1>6. QED
  BY <1>5 DEF Service!Next

\* Steps that wait or wake, and the beginning of run().
LEMMA WaitingRefines ==
  ASSUME IInv,
         \/ \E p \in Processes : Signal(p)
         \/ \E t \in Threads : SpuriousWakeup(t) \/ WaitAgain(t) \/ WaitForEvent(t)
                               \/ Enter(t)
  PROVE  [Service!Next]_(Service!vars)
<1> USE DEF schedVars, threadVars, reactorVars
<1>1. UNCHANGED <<queue, privateQueue, current, transit, async, ready, done, late,
                  works>>
  BY DEF Signal, SpuriousWakeup, WaitAgain, WaitForEvent, Enter
<1>2. \A q \in Threads : pc'[q] = "returned" <=> pc[q] = "returned"
  <2>1. ASSUME NEW p \in Processes, Signal(p) PROVE <1>2!:
    <3>1. pc[p] = "signal" /\ ret[p] \in {"user", "task"}
      BY <2>1 DEF Signal, IInv, PcInv
    <3>2. CASE pc' = [pc EXCEPT ![p] = ret[p]]
      BY <3>1, <3>2 DEF IInv, TypeOK, Processes
    <3>3. CASE \E t \in Threads : /\ pc[t] = "waiting"
                                  /\ pc' = [pc EXCEPT ![p] = ret[p], ![t] = "woken"]
      <4>1. PICK t \in Threads : /\ pc[t] = "waiting"
                                 /\ pc' = [pc EXCEPT ![p] = ret[p], ![t] = "woken"]
        BY <3>3
      <4>2. t # p /\ t \in Processes /\ pc \in [Processes -> PCs]
        BY <3>1, <4>1 DEF Processes, IInv, TypeOK
      <4>3. QED
        BY <3>1, <4>1, <4>2 DEF Processes
    <3>4. QED
      BY <2>1, <3>2, <3>3 DEF Signal, Goto
  <2>2. ASSUME NEW t \in Threads,
               SpuriousWakeup(t) \/ WaitAgain(t) \/ WaitForEvent(t) \/ Enter(t)
        PROVE  <1>2!:
    <3>1. /\ pc[t] # "returned"
          /\ \E x \in {"waiting", "woken", "loop", "stop"} : pc' = [pc EXCEPT ![t] = x]
      BY <2>2 DEF SpuriousWakeup, WaitAgain, WaitForEvent, Enter, Goto, GotoVia, AtLoop
    <3>2. pc \in [Processes -> PCs]
      BY DEF IInv, TypeOK
    <3>3. QED
      BY <3>1, <3>2 DEF Processes
  <2>3. QED
    BY <2>1, <2>2
<1>3. Returned' = Returned
  BY <1>2 DEF Returned
<1>4. QED
  BY <1>1, <1>3, MachineryRefines

\* Every step is a step of the service or leaves it alone.
LEMMA NextRefines ==
  ASSUME IInv, StopInv, [Next]_vars
  PROVE  [Service!Next]_(Service!vars)
<1>1. CASE UNCHANGED vars
  BY <1>1, MachineryRefines DEF vars, schedVars, threadVars, reactorVars, Returned
<1>2. ASSUME NEW t \in Threads, ThreadStep(t)
      PROVE  [Service!Next]_(Service!vars)
  BY <1>2, ReturnRefines, WaitingRefines, TakeTaskRefines, TakeOperationRefines,
     RunTaskRefines, FinishOperationRefines
  DEF ThreadStep
<1>3. ASSUME NEW p \in Processes, LibraryStep(p)
      PROVE  [Service!Next]_(Service!vars)
  BY <1>3, WaitingRefines, StopRefines, PushRefines DEF LibraryStep
<1>4. ASSUME NEW p \in Processes, UserStep(p)
      PROVE  [Service!Next]_(Service!vars)
  BY <1>4, BeginPostRefines, StartAsyncRefines, InitTaskRefines, DropWorkRefines
  DEF UserStep
<1>5. QED
  BY <1>1, <1>2, <1>3, <1>4, WaitingRefines, PostContinuationRefines,
     EventArrivesRefines DEF Next, Terminated

LEMMA InitRefines ==
  ASSUME Init
  PROVE  Service!Init
<1>1. QueuedOps = {} /\ \A t \in Threads : ToSet(privateQueue[t]) = {}
  BY ToSetEmpty DEF Init, QueuedOps
<1>2. Pending = {} /\ Running = {}
  BY <1>1 DEF Init, Pending, Privates, Transits, Running
<1>3. Returned = {}
  BY ConstantsAssumption DEF Init, Returned, Processes
<1>4. QED
  BY <1>2, <1>3 DEF Init, Service!Init, Returned

\* Once nothing keeps the service nothing will: works are not constructed again,
\* and what is begun then is late.
LEMMA KeptStaysGone ==
  ASSUME [Service!Next]_(Service!vars), ~Kept
  PROVE  ~Kept'
<1>1. works = {} /\ async \cup Pending \cup Running \subseteq late
  BY DEF Kept, Live
<1>2. works' = {} /\ async' \cup Pending' \cup Running' \subseteq late'
  <2>1. CASE UNCHANGED Service!vars
    BY <1>1, <2>1 DEF Service!vars
  <2>2. ASSUME NEW o \in Ops, Service!Post(o) \/ Service!Start(o)
        PROVE  <1>2!:
    <3>1. late' = late \cup {o}
      BY <2>2, KeptOfService DEF Service!Post, Service!Start, Service!MarkIfLate
    <3>2. QED
      BY <1>1, <2>2, <3>1 DEF Service!Post, Service!Start
  <2>3. ASSUME NEW o \in Ops,
               Service!Arrive(o) \/ Service!Begin(o) \/ Service!End(o)
        PROVE  <1>2!:
    BY <1>1, <2>3 DEF Service!Arrive, Service!Begin, Service!End
  <2>4. ASSUME NEW w \in Clients, Service!Drop(w)
        PROVE  <1>2!:
    BY <1>1, <2>4 DEF Service!Drop
  <2>5. ASSUME NEW t \in Threads, Service!Return(t)
        PROVE  <1>2!:
    BY <1>1, <2>5 DEF Service!Return
  <2>6. QED
    BY <2>1, <2>2, <2>3, <2>4, <2>5 DEF Service!Next
<1>3. QED
  BY <1>2 DEF Kept, Live

\* Only who sees outstanding_work_ at zero decides to stop.
LEMMA StopDecided ==
  ASSUME IInv, [Next]_vars, ~Stopping, Stopping'
  PROVE  outstanding' = 0
<1> USE DEF schedVars
<1>1. ~stopped /\ \A p \in Processes : pc[p] # "stop"
  BY DEF Stopping
<1>2. TypeOK /\ \A p \in Processes : pc[p] = "signal" => ret[p] # "stop"
  BY DEF IInv, PcInv
<1>3. CASE UNCHANGED vars
  BY <1>1, <1>3 DEF vars, Stopping
<1>4. ASSUME NEW t \in Threads, Enter(t) \/ FinishOperation(t)
      PROVE  outstanding' = 0
  <2>1. /\ stopped' = stopped /\ t \in Processes
        /\ \/ outstanding' = 0
           \/ Goto(t, "loop")
    BY <1>4 DEF Enter, FinishOperation, Processes
  <2>2. QED
    BY <1>1, <1>2, <2>1 DEF Goto, Stopping, TypeOK
<1>5. ASSUME NEW t \in Threads,
             \/ ReturnFromRun(t) \/ WaitForEvent(t) \/ WaitAgain(t) \/ RunTask(t)
             \/ SpuriousWakeup(t)
      PROVE  FALSE
  <2>1. /\ stopped' = stopped /\ t \in Processes
        /\ \E x \in {"returned", "waiting", "requeue", "woken"} : Goto(t, x)
    BY <1>5 DEF ReturnFromRun, WaitForEvent, WaitAgain, RunTask, SpuriousWakeup, Processes
  <2>2. QED
    BY <1>1, <1>2, <2>1 DEF Goto, Stopping, TypeOK
<1>6. ASSUME NEW t \in Threads, TakeTask(t) \/ TakeOperation(t)
      PROVE  FALSE
  <2>1. /\ stopped' = stopped /\ t \in Processes
        /\ \E x \in {"signal", "task", "user"} : pc' = [pc EXCEPT ![t] = x]
    BY <1>6 DEF TakeTask, TakeOperation, WakeOneThread, Goto, GotoVia, Processes
  <2>2. QED
    BY <1>1, <1>2, <2>1 DEF Stopping, TypeOK
<1>7. ASSUME NEW t \in Threads, NEW o \in Ops, PostContinuation(t, o)
      PROVE  FALSE
  BY <1>1, <1>7 DEF PostContinuation, Stopping
<1>8. ASSUME NEW p \in Processes, Signal(p)
      PROVE  FALSE
  <2>1. stopped' = stopped /\ pc[p] = "signal" /\ ret[p] # "stop"
    BY <1>2, <1>8 DEF Signal
  <2>2. \/ pc' = [pc EXCEPT ![p] = ret[p]]
        \/ \E t \in Threads : pc' = [pc EXCEPT ![p] = ret[p], ![t] = "woken"]
    BY <1>8 DEF Signal, Goto
  <2>3. QED
    BY <1>1, <1>2, <2>1, <2>2 DEF Stopping, TypeOK, Processes
<1>9. ASSUME NEW p \in Processes, StopAllThreads(p)
      PROVE  FALSE
  BY <1>1, <1>9 DEF StopAllThreads
<1>10. ASSUME NEW p \in Processes, Push(p) \/ InitTask(p)
       PROVE  FALSE
  <2>1. /\ stopped' = stopped
        /\ \E x \in {"signal", "user"} : pc' = [pc EXCEPT ![p] = x]
    BY <1>10 DEF Push, InitTask, WakeOneThread, Goto, GotoVia
  <2>2. QED
    BY <1>1, <1>2, <2>1 DEF Stopping, TypeOK
<1>11. ASSUME NEW p \in Processes, NEW o \in Ops, BeginPost(p, o) \/ StartAsync(p, o)
       PROVE  FALSE
  <2>1. /\ stopped' = stopped
        /\ pc' = pc \/ pc' = [pc EXCEPT ![p] = "push"]
    BY <1>11 DEF BeginPost, StartAsync, Goto
  <2>2. QED
    BY <1>1, <1>2, <2>1 DEF Stopping, TypeOK
<1>12. ASSUME NEW p \in Processes, NEW w \in Clients, DropWork(p, w)
       PROVE  outstanding' = 0
  BY <1>1, <1>12 DEF DropWork, Stopping
<1>13. ASSUME NEW o \in Ops, EventArrives(o)
       PROVE  FALSE
  BY <1>1, <1>13 DEF EventArrives, Stopping
<1>14. QED
  BY <1>3, <1>4, <1>5, <1>6, <1>7, <1>8, <1>9, <1>10, <1>11, <1>12, <1>13
  DEF Next, ThreadStep, LibraryStep, UserStep, Terminated

\* Either the decision is new, and nothing keeps the service, or it was taken
\* when nothing did.
LEMMA NextStopInv ==
  ASSUME IInv, IInv', NothingKept', StopInv, [Next]_vars
  PROVE  StopInv'
<1>1. CASE Stopping
  <2>1. ~Kept
    BY <1>1 DEF StopInv
  <2>2. QED
    BY <2>1, NextRefines, KeptStaysGone DEF StopInv
<1>2. CASE ~Stopping
  BY <1>2, StopDecided DEF StopInv, NothingKept
<1>3. QED
  BY <1>1, <1>2

LEMMA StopInvariance == Spec => [](IInv /\ StopInv)
<1>1. Init => StopInv
  BY ConstantsAssumption DEF Init, StopInv, Stopping, Processes
<1>2. IInv => NothingKept
  BY NothingLeft DEF NothingKept
<1>3. IInv /\ IInv' /\ NothingKept' /\ StopInv /\ [Next]_vars => StopInv'
  BY NextStopInv
<1>4. QED
  BY <1>1, <1>2, <1>3, Invariance, PTL DEF Spec

\* The service is stopped only when nothing is left that was begun in time.
THEOREM StopSafe == Spec => []StopIsSafe
<1>1. IInv /\ StopInv => StopIsSafe
  BY DEF StopInv, Stopping, StopIsSafe
<1>2. QED
  BY <1>1, StopInvariance, PTL

\* The safety part of the contract of IoService.
ServiceSafety == Service!Init /\ [][Service!Next]_(Service!vars)

\* Each operation is begun and ended once, by a thread that is in run() and not
\* executing anything else, and run() returns only when no work is left and no
\* operation that was begun in time.
THEOREM ServiceRefined == Spec => ServiceSafety
<1>1. Init => Service!Init
  BY InitRefines
<1>2. IInv /\ StopInv /\ [Next]_vars => [Service!Next]_(Service!vars)
  BY NextRefines
<1>3. QED
  BY <1>1, <1>2, StopInvariance, PTL DEF Spec, ServiceSafety

-----------------------------------------------------------------------------
(* No wakeup is lost.  The proof is relative to IInv, of which it needs who *)
(* is in the reactor and what is in the queue.                             *)

\* The thread is in epoll_wait() with no timeout of zero.
Blocked(t) == pc[t] = "task" /\ block[t]

\* The event stays signalled while anything is queued: clear() is called on an
\* empty queue only.
SignalledInv == queue # <<>> => signalled

\* After stop() everybody has been told.
StoppedInv ==
  stopped => /\ signalled
             /\ \A t \in Threads : pc[t] # "waiting"
             /\ \A t \in Threads : Blocked(t) => interrupt

\* task_interrupted_ is a promise: the thread blocked in the reactor returns.
\* Who goes to signal before it enters the reactor does not block there.
InterruptInv ==
  /\ \A t \in Threads : Blocked(t) /\ taskInterrupted => interrupt
  /\ \A t \in Threads : pc[t] = "signal" /\ ret[t] = "task" => ~block[t]

WakeInv ==
  /\ SignalledInv
  /\ StoppedInv
  /\ InterruptInv
  /\ NoLostWakeup

-----------------------------------------------------------------------------
(* wake_one_thread_and_unlock().                                           *)

\* What it does to the process, to the event and to the reactor.
LEMMA WakeOneThreadEffect ==
  ASSUME TypeOK, NEW p \in Processes, NEW i \in BOOLEAN, NEW c \in BOOLEAN,
         WakeOneThread(p, "user", i, c)
  PROVE  /\ signalled' = TRUE
         /\ \/ /\ Moves(p, "signal", "user")
               /\ \E w \in Threads : w # p /\ pc[w] \in {"waiting", "woken"}
               /\ taskInterrupted' = i /\ interrupt' = interrupt
            \/ /\ Moves(p, "user", ret[p])
               /\ \A w \in Threads : w # p => pc[w] # "waiting"
               /\ \/ c /\ ~i /\ taskInterrupted' = TRUE /\ interrupt' = TRUE
                  \/ ~(c /\ ~i) /\ taskInterrupted' = i /\ interrupt' = interrupt
<1>1. "signal" \in PCs /\ "user" \in PCs
  BY DEF PCs
<1>2. CASE Waiters(p) # {}
  BY <1>1, <1>2, GotoMoves DEF WakeOneThread, Waiters
<1>3. CASE Waiters(p) = {}
  BY <1>1, <1>3, GotoMoves DEF WakeOneThread, InterruptTask, Waiters
<1>4. QED
  BY <1>2, <1>3

\* Whatever has been pushed, somebody is on the way to it: a waiter, or the
\* thread in the reactor, provided that the flag is that of this thread.
LEMMA WakeOneThreadWakes ==
  ASSUME TypeOK, WakeInv, NEW p \in Processes, NEW i \in BOOLEAN, NEW c \in BOOLEAN,
         WakeOneThread(p, "user", i, c),
         UNCHANGED <<stopped, block, ready>>,
         \A u \in Threads : u # p /\ Blocked(u) => c /\ (i <=> taskInterrupted)
  PROVE  WakeInv'
<1>1. /\ signalled' = TRUE
      /\ \/ /\ Moves(p, "signal", "user")
            /\ \E w \in Threads : w # p /\ pc[w] \in {"waiting", "woken"}
            /\ taskInterrupted' = i /\ interrupt' = interrupt
         \/ /\ Moves(p, "user", ret[p])
            /\ \A w \in Threads : w # p => pc[w] # "waiting"
            /\ \/ c /\ ~i /\ taskInterrupted' = TRUE /\ interrupt' = TRUE
               \/ ~(c /\ ~i) /\ taskInterrupted' = i /\ interrupt' = interrupt
  BY WakeOneThreadEffect
<1>2. /\ pc'[p] \in {"signal", "user"}
      /\ pc'[p] = "signal" => ret'[p] = "user"
      /\ \A q \in Processes : q # p => pc'[q] = pc[q] /\ ret'[q] = ret[q]
  BY <1>1 DEF Moves
<1>3. interrupt => interrupt'
  BY <1>1
<1>4. SignalledInv'
  BY <1>1 DEF SignalledInv
<1>5. StoppedInv'
  BY <1>1, <1>2, <1>3 DEF WakeInv, StoppedInv, Blocked, Processes
<1>6. InterruptInv'
  <2>1. ASSUME NEW u \in Threads, Blocked(u)', taskInterrupted'
        PROVE  interrupt'
    <3>1. u # p /\ Blocked(u)
      BY <1>2, <2>1 DEF Blocked, Processes
    <3>2. c /\ (i <=> taskInterrupted)
      BY <3>1
    <3>3. CASE taskInterrupted
      BY <1>3, <3>1, <3>3 DEF WakeInv, InterruptInv
    <3>4. CASE ~taskInterrupted
      BY <1>1, <2>1, <3>2, <3>4
    <3>5. QED
      BY <3>3, <3>4
  <2>2. \A u \in Threads : pc'[u] = "signal" /\ ret'[u] = "task" => ~block'[u]
    BY <1>2 DEF WakeInv, InterruptInv, Processes
  <2>3. QED
    BY <2>1, <2>2 DEF InterruptInv
<1>7. ASSUME NEW u \in Threads, Parked(u)'
      PROVE  \E q \in Processes : Coming(q)'
  <2>1. u # p /\ u \in Processes /\ pc'[u] = pc[u]
    BY <1>2, <1>7 DEF Parked, Processes
  <2>2. CASE /\ Moves(p, "signal", "user")
             /\ \E w \in Threads : w # p /\ pc[w] \in {"waiting", "woken"}
    <3>1. PICK w \in Threads : w # p /\ pc[w] \in {"waiting", "woken"}
      BY <2>2
    <3>2. w \in Processes /\ pc'[w] = pc[w] /\ pc'[p] = "signal"
      BY <1>2, <2>2, <3>1 DEF Processes, Moves
    <3>3. CASE pc[w] = "waiting"
      BY <3>2, <3>3 DEF Coming
    <3>4. CASE pc[w] = "woken"
      BY <1>1, <3>2, <3>4 DEF Coming, AtLoop
    <3>5. QED
      BY <3>1, <3>3, <3>4
  <2>3. CASE /\ \A w \in Threads : w # p => pc[w] # "waiting"
             /\ \/ c /\ ~i /\ taskInterrupted' = TRUE /\ interrupt' = TRUE
                \/ ~(c /\ ~i) /\ taskInterrupted' = i /\ interrupt' = interrupt
    <3>1. Blocked(u) /\ ~interrupt'
      BY <1>7, <2>1, <2>3 DEF Parked, Blocked
    <3>2. c /\ (i <=> taskInterrupted)
      BY <2>1, <3>1
    <3>3. ~taskInterrupted
      BY <1>3, <3>1 DEF WakeInv, InterruptInv
    <3>4. QED
      BY <2>3, <3>1, <3>2, <3>3
  <2>4. QED
    BY <1>1, <2>2, <2>3
<1>8. NoLostWakeup'
  BY <1>7 DEF NoLostWakeup
<1>9. QED
  BY <1>4, <1>5, <1>6, <1>8 DEF WakeInv

-----------------------------------------------------------------------------
(* The steps that push.                                                    *)

LEMMA PushWakes ==
  ASSUME IInv, WakeInv, NEW p \in Processes, Push(p)
  PROVE  WakeInv'
<1>1. TypeOK /\ task \in BOOLEAN /\ taskInterrupted \in BOOLEAN
  BY DEF IInv, TypeOK
<1>2. \A u \in Threads : Blocked(u) => task
  BY DEF IInv, QueueInv, InTask, Blocked
<1>3. QED
  BY <1>1, <1>2, WakeOneThreadWakes DEF Push, threadVars, reactorVars

LEMMA InitTaskWakes ==
  ASSUME IInv, WakeInv, NEW p \in Processes, InitTask(p)
  PROVE  WakeInv'
<1>1. TypeOK /\ taskInterrupted \in BOOLEAN
  BY DEF IInv, TypeOK
<1>2. \A u \in Threads : ~Blocked(u)
  BY DEF IInv, QueueInv, InTask, Blocked, InitTask
<1>3. QED
  BY <1>1, <1>2, WakeOneThreadWakes DEF InitTask, threadVars, reactorVars

\* Whoever takes an operation from in front of others passes the wakeup on.
LEMMA TakeOperationWakes ==
  ASSUME IInv, WakeInv, NEW t \in Threads, TakeOperation(t)
  PROVE  WakeInv'
<1>1. /\ TypeOK /\ task \in BOOLEAN /\ Interrupted(t) \in BOOLEAN /\ t \in Processes
      /\ UNCHANGED <<stopped, block, ready>>
      /\ pc[t] \notin {"task", "waiting"}
  BY DEF IInv, TypeOK, Interrupted, Processes, TakeOperation, reactorVars, AtLoop
<1>2. \A u \in Threads : Blocked(u) => task /\ pc[t] # "requeue"
  <2>1. ASSUME NEW u \in Threads, Blocked(u) PROVE task /\ pc[t] # "requeue"
    <3>1. InTask(u) /\ u # t
      BY <1>1, <2>1 DEF Blocked, InTask
    <3>2. task /\ ~InTask(t)
      BY <3>1 DEF IInv, QueueInv
    <3>3. QED
      BY <3>2 DEF InTask
  <2>2. QED
    BY <2>1
<1>3. CASE Tail(Requeued(t)) # <<>>
  BY <1>1, <1>2, <1>3, WakeOneThreadWakes DEF TakeOperation, Interrupted
<1>4. CASE Tail(Requeued(t)) = <<>>
  <2>1. /\ Moves(t, "user", ret[t]) /\ queue' = <<>>
        /\ taskInterrupted' = Interrupted(t)
        /\ UNCHANGED <<signalled, interrupt>>
    BY <1>1, <1>4, GotoMoves DEF TakeOperation, PCs
  <2>2. \A q \in Processes : q # t => pc'[q] = pc[q] /\ ret'[q] = ret[q]
    BY <2>1 DEF Moves
  <2>3. pc'[t] = "user"
    BY <2>1 DEF Moves
  <2>4. StoppedInv'
    BY <1>1, <2>1, <2>2, <2>3 DEF WakeInv, StoppedInv, Blocked, Processes
  <2>5. InterruptInv'
    <3>1. ASSUME NEW u \in Threads, Blocked(u)', taskInterrupted'
          PROVE  interrupt'
      <4>1. u # t /\ Blocked(u)
        BY <1>1, <2>2, <2>3, <3>1 DEF Blocked, Processes
      <4>2. taskInterrupted
        BY <1>2, <2>1, <3>1, <4>1 DEF Interrupted
      <4>3. QED
        BY <2>1, <4>1, <4>2 DEF WakeInv, InterruptInv
    <3>2. \A u \in Threads : pc'[u] = "signal" /\ ret'[u] = "task" => ~block'[u]
      BY <1>1, <2>2, <2>3 DEF WakeInv, InterruptInv, Processes
    <3>3. QED
      BY <3>1, <3>2 DEF InterruptInv
  <2>6. SignalledInv' /\ NoLostWakeup'
    BY <2>1 DEF SignalledInv, NoLostWakeup
  <2>7. QED
    BY <2>4, <2>5, <2>6 DEF WakeInv
<1>5. QED
  BY <1>3, <1>4

-----------------------------------------------------------------------------
(* The steps that park a thread: the queue is empty.                       *)

LEMMA WaitForEventWakes ==
  ASSUME IInv, WakeInv, NEW t \in Threads, WaitForEvent(t)
  PROVE  WakeInv'
<1>1. /\ Moves(t, "waiting", ret[t]) /\ t \in Processes /\ ~stopped
      /\ UNCHANGED <<stopped, block, interrupt, taskInterrupted, queue>>
  BY GotoMoves DEF WaitForEvent, IInv, PCs, Processes, threadVars
<1>2. queue' = <<>>
  <2>1. ToSet(queue) = {}
    <3>1. ToSet(Requeued(t)) = {} /\ AtLoop(t)
      BY ToSetEmpty DEF WaitForEvent
    <3>2. /\ QueuedOps = {}
          /\ Task \notin ToSet(queue)
      BY <3>1, RequeuedProperties
    <3>3. QED
      BY <3>2 DEF QueuedOps
  <2>2. queue = <<>>
    <3>1. queue \in Seq(Ops \cup {Task})
      BY DEF IInv, TypeOK
    <3>2. queue # <<>> => 1 \in 1 .. Len(queue)
      BY <3>1
    <3>3. queue # <<>> => queue[1] \in ToSet(queue)
      BY <3>1, <3>2, ToSetDef
    <3>4. QED
      BY <2>1, <3>3
  <2>3. QED
    BY <1>1, <2>2
<1>3. /\ pc'[t] = "waiting"
      /\ \A q \in Processes : q # t => pc'[q] = pc[q] /\ ret'[q] = ret[q]
  BY <1>1 DEF Moves
<1>4. SignalledInv' /\ StoppedInv' /\ NoLostWakeup'
  BY <1>1, <1>2 DEF SignalledInv, StoppedInv, NoLostWakeup
<1>5. InterruptInv'
  BY <1>1, <1>3 DEF WakeInv, InterruptInv, Blocked, Processes
<1>6. QED
  BY <1>4, <1>5 DEF WakeInv

\* A waiter that is woken finds the event signalled, if anything is queued.
LEMMA WaitAgainWakes ==
  ASSUME IInv, WakeInv, NEW t \in Threads, SpuriousWakeup(t) \/ WaitAgain(t)
  PROVE  WakeInv'
<1>1. /\ \/ Moves(t, "waiting", ret[t]) /\ ~signalled
         \/ Moves(t, "woken", ret[t])
      /\ t \in Processes
      /\ UNCHANGED <<queue, stopped, taskInterrupted, signalled, block, interrupt, ready>>
  BY GotoMoves DEF SpuriousWakeup, WaitAgain, IInv, PCs, Processes, schedVars,
     threadVars, reactorVars
<1>2. /\ pc'[t] \in {"waiting", "woken"} /\ (pc'[t] = "waiting" => ~signalled)
      /\ \A q \in Processes : q # t => pc'[q] = pc[q] /\ ret'[q] = ret[q]
  BY <1>1 DEF Moves
<1>3. SignalledInv' /\ InterruptInv' /\ StoppedInv'
  BY <1>1, <1>2 DEF WakeInv, SignalledInv, InterruptInv, StoppedInv, Blocked, Processes
<1>4. NoLostWakeup'
  <2>1. CASE queue # <<>>
    <3>1. signalled' /\ pc'[t] = "woken"
      BY <1>1, <1>2, <2>1 DEF WakeInv, SignalledInv
    <3>2. Coming(t)'
      BY <3>1 DEF Coming, AtLoop
    <3>3. QED
      BY <1>1, <3>2 DEF NoLostWakeup
  <2>2. CASE queue = <<>>
    BY <1>1, <2>2 DEF NoLostWakeup
  <2>3. QED
    BY <2>1, <2>2
<1>5. QED
  BY <1>3, <1>4 DEF WakeInv

\* A thread that enters the reactor blocks there only on an empty queue, and
\* otherwise does not block.
LEMMA TakeTaskWakes ==
  ASSUME IInv, WakeInv, NEW t \in Threads, TakeTask(t)
  PROVE  WakeInv'
<1> DEFINE more == Tail(Requeued(t)) # <<>>
<1>1. /\ TypeOK /\ t \in Processes /\ AtLoop(t) /\ ~stopped /\ stopped' = stopped
      /\ queue' = Tail(Requeued(t)) /\ taskInterrupted' = more
      /\ block' = [block EXCEPT ![t] = ~more]
      /\ signalled' = (signalled \/ more)
      /\ interrupt' = interrupt
  BY DEF IInv, Processes, TakeTask
<1>2. \/ Moves(t, "signal", "task") /\ more
      \/ Moves(t, "task", ret[t])
  BY <1>1, GotoMoves DEF TakeTask, PCs
<1>3. /\ \/ pc'[t] = "signal" /\ ret'[t] = "task" /\ more
         \/ pc'[t] = "task"
      /\ \A q \in Processes : q # t => pc'[q] = pc[q] /\ ret'[q] = ret[q]
  BY <1>2 DEF Moves
<1>4. block'[t] = ~more /\ \A u \in Threads : u # t => block'[u] = block[u]
  BY <1>1 DEF TypeOK
<1>5. more <=> queue' # <<>>
  BY <1>1
<1> HIDE DEF more
<1>6. \A u \in Threads : u # t => pc[u] # "task" /\ ~(pc[u] = "signal" /\ ret[u] = "task")
  <2>1. ASSUME NEW u \in Threads, u # t, InTask(u) PROVE FALSE
    <3>1. Task \notin ToSet(queue) /\ ~InTask(t)
      BY <2>1 DEF IInv, QueueInv
    <3>2. Task \notin ToSet(Requeued(t))
      BY <1>1, <3>1, RequeuedProperties DEF InTask
    <3>3. /\ Requeued(t) \in Seq(Ops \cup {Task}) /\ Requeued(t) # <<>>
          /\ Head(Requeued(t)) = Task
      BY <1>1, RequeuedProperties DEF TakeTask
    <3>4. QED
      BY <3>2, <3>3, ToSetDef
  <2>2. QED
    BY <2>1 DEF InTask
<1>7. SignalledInv' /\ StoppedInv'
  BY <1>1, <1>5 DEF SignalledInv, StoppedInv
<1>8. InterruptInv'
  BY <1>1, <1>3, <1>4, <1>6 DEF InterruptInv, Blocked, Processes
<1>9. NoLostWakeup'
  <2>1. CASE more
    <3>1. Coming(t)'
      BY <1>3, <1>4, <2>1 DEF Coming, Parked
    <3>2. QED
      BY <1>1, <3>1 DEF NoLostWakeup
  <2>2. CASE ~more
    BY <1>5, <2>2 DEF NoLostWakeup
  <2>3. QED
    BY <2>1, <2>2
<1>10. QED
  BY <1>7, <1>8, <1>9 DEF WakeInv

-----------------------------------------------------------------------------
(* The steps that wake.                                                    *)

\* A thread that is woken is on its way; without a waiter the signal was not
\* what the others relied on.
LEMMA SignalWakes ==
  ASSUME IInv, WakeInv, NEW p \in Processes, Signal(p)
  PROVE  WakeInv'
<1>1. /\ pc[p] = "signal" /\ ret[p] \in {"user", "task"} /\ ret' = ret
      /\ UNCHANGED <<queue, stopped, taskInterrupted, signalled, block, interrupt, ready>>
  BY DEF Signal, IInv, PcInv, schedVars, threadVars, reactorVars
<1>2. \/ /\ \A t \in Threads : pc[t] # "waiting"
         /\ pc'[p] = ret[p] /\ \A q \in Processes : q # p => pc'[q] = pc[q]
      \/ \E t \in Threads :
           /\ pc[t] = "waiting" /\ t # p
           /\ pc'[p] = ret[p] /\ pc'[t] = "woken"
           /\ \A q \in Processes : q # p /\ q # t => pc'[q] = pc[q]
  <2>1. CASE {t \in Threads : pc[t] = "waiting"} = {}
    BY <2>1 DEF Signal, Goto, IInv, TypeOK
  <2>2. CASE \E t \in Threads : /\ pc[t] = "waiting"
                                /\ pc' = [pc EXCEPT ![p] = ret[p], ![t] = "woken"]
    <3>1. PICK t \in Threads : /\ pc[t] = "waiting"
                               /\ pc' = [pc EXCEPT ![p] = ret[p], ![t] = "woken"]
      BY <2>2
    <3>2. t # p /\ t \in Processes /\ pc \in [Processes -> PCs]
      BY <1>1, <3>1 DEF Processes, IInv, TypeOK
    <3>3. QED
      BY <3>1, <3>2
  <2>3. QED
    BY <2>1, <2>2 DEF Signal
<1>3. \A q \in Processes :
        \/ pc'[q] = pc[q]
        \/ q = p /\ pc'[q] = ret[q] /\ pc[q] = "signal"
        \/ pc[q] = "waiting" /\ pc'[q] = "woken"
  BY <1>1, <1>2
<1>4. \A u \in Threads : Blocked(u)' => Blocked(u)
  <2>1. p \in Threads /\ ret[p] = "task" => ~block[p]
    BY <1>1 DEF WakeInv, InterruptInv
  <2>2. QED
    BY <1>1, <1>3, <2>1 DEF Blocked, Processes
<1>5. SignalledInv' /\ StoppedInv' /\ InterruptInv'
  BY <1>1, <1>3, <1>4
  DEF WakeInv, SignalledInv, StoppedInv, InterruptInv, Blocked, Processes
<1>6. ASSUME queue # <<>>, NEW u \in Threads, Parked(u)'
      PROVE  \E q \in Processes : Coming(q)'
  <2>1. CASE \E t \in Threads : pc'[t] = "woken"
    <3>1. PICK t \in Threads : pc'[t] = "woken"
      BY <2>1
    <3>2. signalled'
      BY <1>1, <1>6 DEF WakeInv, SignalledInv
    <3>3. Coming(t)' /\ t \in Processes
      BY <3>1, <3>2 DEF Coming, AtLoop, Processes
    <3>4. QED
      BY <3>3
  <2>2. CASE /\ \A t \in Threads : pc[t] # "waiting"
             /\ pc'[p] = ret[p] /\ \A q \in Processes : q # p => pc'[q] = pc[q]
    <3>1. Blocked(u)' /\ ~interrupt' /\ ready' = {}
      BY <1>1, <1>3, <1>6, <2>2 DEF Parked, Blocked, Processes
    <3>2. Blocked(u) /\ Parked(u) /\ u # p
      BY <1>1, <1>4, <3>1 DEF Parked, Blocked
    <3>3. PICK q \in Processes : Coming(q)
      BY <1>6, <3>2 DEF WakeInv, NoLostWakeup
    <3>4. CASE q = p
      <4>1. ret[p] = "task" /\ p \in Threads
        BY <1>1, <2>2, <3>3, <3>4, ConstantsAssumption
        DEF Coming, AtLoop, IInv, PcInv, Processes
      <4>2. InTask(p) /\ InTask(u)
        BY <1>1, <3>2, <4>1 DEF InTask, Blocked
      <4>3. QED
        BY <3>2, <4>1, <4>2 DEF IInv, QueueInv
    <3>5. CASE q # p
      <4>1. pc'[q] = pc[q] /\ ret'[q] = ret[q]
        BY <1>1, <2>2, <3>5
      <4>2. Coming(q)'
        BY <1>1, <2>2, <3>3, <4>1 DEF Coming, AtLoop, Parked
      <4>3. QED
        BY <4>2
    <3>6. QED
      BY <3>4, <3>5
  <2>3. QED
    BY <1>2, <2>1, <2>2
<1>7. NoLostWakeup'
  BY <1>1, <1>6 DEF NoLostWakeup
<1>8. QED
  BY <1>5, <1>7 DEF WakeInv

\* stop(): nobody is left waiting, and the reactor returns.
LEMMA StopWakes ==
  ASSUME IInv, WakeInv, NEW p \in Processes, StopAllThreads(p)
  PROVE  WakeInv'
<1>1. /\ pc[p] = "stop" /\ ret[p] \in {"user", "loop", "returned"} /\ ret' = ret
      /\ UNCHANGED <<queue, task, block, ready>>
      /\ stopped' = TRUE /\ signalled' = TRUE
  BY DEF StopAllThreads, IInv, PcInv, threadVars, reactorVars
<1>2. /\ pc'[p] = ret[p]
      /\ \A q \in Processes : q # p =>
           pc'[q] = IF pc[q] = "waiting" THEN "woken" ELSE pc[q]
  BY DEF StopAllThreads
<1>3. \A u \in Threads : pc'[u] # "waiting" /\ (Blocked(u)' => Blocked(u))
  BY <1>1, <1>2 DEF Blocked, Processes
<1>4. ASSUME NEW u \in Threads, Blocked(u) PROVE interrupt'
  <2>1. task
    BY <1>4 DEF Blocked, IInv, QueueInv, InTask
  <2>2. CASE taskInterrupted
    BY <1>4, <2>2 DEF WakeInv, InterruptInv, StopAllThreads, InterruptTask
  <2>3. CASE ~taskInterrupted
    BY <2>1, <2>3 DEF StopAllThreads, InterruptTask
  <2>4. QED
    BY <2>2, <2>3
<1>5. SignalledInv' /\ StoppedInv'
  BY <1>1, <1>3, <1>4 DEF SignalledInv, StoppedInv
<1>6. InterruptInv'
  BY <1>1, <1>2, <1>3, <1>4 DEF WakeInv, InterruptInv, Processes
<1>7. NoLostWakeup'
  BY <1>3, <1>4 DEF NoLostWakeup, Parked, Blocked
<1>8. QED
  BY <1>5, <1>6, <1>7 DEF WakeInv

-----------------------------------------------------------------------------
(* The other steps: a process moves, to where it is on its way or from      *)
(* where it was not.                                                       *)

\* p may move, and does not park.
LEMMA MoveWakes ==
  ASSUME IInv, WakeInv, NEW p \in Processes, NEW x, NEW y, Moves(p, x, y),
         x \notin {"waiting", "task", "signal"},
         pc[p] \in {"enter", "user"}, pc[p] = "enter" => x \in {"loop", "stop"},
         UNCHANGED <<queue, stopped, taskInterrupted, signalled, block, interrupt, ready>>
  PROVE  WakeInv'
<1>1. /\ pc'[p] = x /\ \A q \in Processes : q # p => pc'[q] = pc[q] /\ ret'[q] = ret[q]
  BY DEF Moves
<1>2. SignalledInv' /\ StoppedInv' /\ InterruptInv'
  BY <1>1 DEF WakeInv, SignalledInv, StoppedInv, InterruptInv, Blocked, Processes
<1>3. ASSUME queue # <<>>, NEW u \in Threads, Parked(u)'
      PROVE  \E q \in Processes : Coming(q)'
  <2>1. Parked(u)
    BY <1>1, <1>3 DEF Parked, Processes
  <2>2. PICK q \in Processes : Coming(q)
    BY <1>3, <2>1 DEF WakeInv, NoLostWakeup
  <2>3. CASE q = p
    <3>1. pc[p] = "enter"
      BY <2>2, <2>3 DEF Coming, AtLoop
    <3>2. x \in {"loop", "stop"} /\ p \in Threads
      BY <3>1, ConstantsAssumption DEF IInv, PcInv, Processes
    <3>3. Coming(p)'
      BY <1>1, <3>1, <3>2 DEF Coming, AtLoop
    <3>4. QED
      BY <3>3
  <2>4. CASE q # p
    <3>1. pc'[q] = pc[q] /\ ret'[q] = ret[q] /\ (Parked(q) <=> Parked(q)')
      BY <1>1, <2>4 DEF Parked
    <3>2. \A t \in Threads : pc[t] = "waiting" => pc'[t] = "waiting"
      BY <1>1 DEF Processes
    <3>3. Coming(q)'
      BY <2>2, <3>1, <3>2 DEF Coming, AtLoop
    <3>4. QED
      BY <3>3
  <2>5. QED
    BY <2>3, <2>4
<1>4. NoLostWakeup'
  BY <1>3 DEF NoLostWakeup
<1>5. QED
  BY <1>2, <1>4 DEF WakeInv

\* A thread looks at outstanding_work_.
LEMMA EnterWakes ==
  ASSUME IInv, WakeInv, NEW t \in Threads, Enter(t)
  PROVE  WakeInv'
<1>1. /\ pc[t] = "enter" /\ t \in Processes
      /\ Moves(t, "stop", "returned") \/ Moves(t, "loop", ret[t])
      /\ UNCHANGED <<queue, stopped, taskInterrupted, signalled, block, interrupt, ready>>
  BY GotoMoves DEF Enter, IInv, PCs, Processes, schedVars, threadVars, reactorVars
<1>2. QED
  BY <1>1, MoveWakes

\* A handler returns.
LEMMA FinishOperationWakes ==
  ASSUME IInv, WakeInv, NEW t \in Threads, FinishOperation(t)
  PROVE  WakeInv'
<1>1. /\ pc[t] = "user" /\ t \in Processes
      /\ Moves(t, "stop", "loop") \/ Moves(t, "loop", ret[t])
      /\ UNCHANGED <<queue, stopped, taskInterrupted, signalled, block, interrupt, ready>>
  BY GotoMoves DEF FinishOperation, IInv, PCs, Processes, schedVars, reactorVars
<1>2. QED
  BY <1>1, MoveWakes

\* post() counts the operation.
LEMMA BeginPostWakes ==
  ASSUME IInv, WakeInv, NEW p \in Processes, NEW o \in Ops, BeginPost(p, o)
  PROVE  WakeInv'
<1>1. /\ pc[p] = "user" /\ Moves(p, "push", ret[p])
      /\ UNCHANGED <<queue, stopped, taskInterrupted, signalled, block, interrupt, ready>>
  BY GotoMoves DEF BeginPost, CanCall, IInv, PCs, schedVars, threadVars, reactorVars
<1>2. QED
  BY <1>1, MoveWakes

\* The reactor returns; its thread is the only one there.
LEMMA RunTaskWakes ==
  ASSUME IInv, WakeInv, NEW t \in Threads, RunTask(t)
  PROVE  WakeInv'
<1>1. /\ pc[t] = "task" /\ t \in Processes /\ Moves(t, "requeue", ret[t])
      /\ UNCHANGED <<queue, stopped, taskInterrupted, signalled, block>>
  BY GotoMoves DEF RunTask, IInv, PCs, Processes
<1>2. /\ pc'[t] = "requeue"
      /\ \A q \in Processes : q # t => pc'[q] = pc[q] /\ ret'[q] = ret[q]
  BY <1>1 DEF Moves
<1>3. \A u \in Threads : ~Blocked(u)'
  <2>1. \A u \in Threads : pc[u] = "task" => u = t
    BY <1>1 DEF IInv, QueueInv, InTask
  <2>2. QED
    BY <1>2, <2>1 DEF Blocked, Processes
<1>4. SignalledInv' /\ StoppedInv' /\ InterruptInv'
  BY <1>1, <1>2, <1>3 DEF WakeInv, SignalledInv, StoppedInv, InterruptInv, Processes
<1>5. Coming(t)'
  BY <1>2 DEF Coming, AtLoop
<1>6. QED
  BY <1>1, <1>4, <1>5 DEF WakeInv, NoLostWakeup

\* run() returns: the service has been stopped, and nobody is parked.
LEMMA ReturnFromRunWakes ==
  ASSUME IInv, WakeInv, NEW t \in Threads, ReturnFromRun(t)
  PROVE  WakeInv'
<1>1. /\ stopped /\ t \in Processes /\ Moves(t, "returned", ret[t])
      /\ taskInterrupted' = Interrupted(t)
      /\ UNCHANGED <<stopped, signalled, block, interrupt>>
  BY GotoMoves DEF ReturnFromRun, IInv, PCs, Processes
<1>2. /\ pc'[t] = "returned"
      /\ \A q \in Processes : q # t => pc'[q] = pc[q] /\ ret'[q] = ret[q]
  BY <1>1 DEF Moves
<1>3. StoppedInv' /\ SignalledInv' /\ InterruptInv'
  BY <1>1, <1>2 DEF WakeInv, SignalledInv, StoppedInv, InterruptInv, Blocked, Processes
<1>4. \A u \in Threads : ~Parked(u)'
  BY <1>1, <1>2, <1>3 DEF StoppedInv, Parked, Blocked
<1>5. QED
  BY <1>3, <1>4 DEF WakeInv, NoLostWakeup

\* Steps that move nobody: a continuation, an asynchronous operation, an event.
LEMMA StillWakes ==
  ASSUME IInv, WakeInv, ready \subseteq ready',
         UNCHANGED <<pc, ret, queue, stopped, taskInterrupted, signalled, block,
                     interrupt>>
  PROVE  WakeInv'
<1>1. SignalledInv' /\ StoppedInv' /\ InterruptInv'
  BY DEF WakeInv, SignalledInv, StoppedInv, InterruptInv, Blocked
<1>2. \A p : (Parked(p)' => Parked(p)) /\ (Coming(p) => Coming(p)')
  BY DEF Parked, Coming, AtLoop
<1>3. QED
  BY <1>1, <1>2 DEF WakeInv, NoLostWakeup

\* ~work().
LEMMA DropWorkWakes ==
  ASSUME IInv, WakeInv, NEW p \in Processes, NEW w \in Clients, DropWork(p, w)
  PROVE  WakeInv'
<1>1. /\ pc[p] = "user"
      /\ Moves(p, "stop", "user") \/ UNCHANGED <<pc, ret>>
      /\ UNCHANGED <<queue, stopped, taskInterrupted, signalled, block, interrupt, ready>>
  BY GotoMoves DEF DropWork, CanCall, IInv, PCs, schedVars, threadVars, reactorVars
<1>2. QED
  BY <1>1, MoveWakes, StillWakes

\* WakeInv holds initially, and every step preserves it.
LEMMA InitWakeInv ==
  ASSUME Init
  PROVE  WakeInv
<1>1. /\ queue = <<>> /\ ~stopped
      /\ \A t \in Threads : pc[t] = "enter"
  BY DEF Init, Processes
<1>2. QED
  BY <1>1 DEF WakeInv, SignalledInv, StoppedInv, InterruptInv, NoLostWakeup, Blocked

LEMMA NextWakeInv ==
  ASSUME IInv, WakeInv, [Next]_vars
  PROVE  WakeInv'
<1>1. CASE UNCHANGED vars
  BY <1>1, StillWakes DEF vars, schedVars, threadVars, reactorVars
<1>2. ASSUME NEW t \in Threads, ThreadStep(t)
      PROVE  WakeInv'
  BY <1>2, EnterWakes, ReturnFromRunWakes, WaitForEventWakes, WaitAgainWakes,
     TakeTaskWakes, TakeOperationWakes, RunTaskWakes, FinishOperationWakes
  DEF ThreadStep
<1>3. ASSUME NEW p \in Processes, LibraryStep(p)
      PROVE  WakeInv'
  BY <1>3, SignalWakes, StopWakes, PushWakes DEF LibraryStep
<1>4. ASSUME NEW p \in Processes, UserStep(p)
      PROVE  WakeInv'
  <2>1. ASSUME NEW o \in Ops, StartAsync(p, o) PROVE WakeInv'
    BY <2>1, StillWakes DEF StartAsync, schedVars, threadVars
  <2>2. QED
    BY <1>4, <2>1, BeginPostWakes, InitTaskWakes, DropWorkWakes DEF UserStep
<1>5. ASSUME NEW t \in Threads, NEW o \in Ops, PostContinuation(t, o)
      PROVE  WakeInv'
  BY <1>5, StillWakes DEF PostContinuation, schedVars, reactorVars
<1>6. ASSUME NEW o \in Ops, EventArrives(o)
      PROVE  WakeInv'
  BY <1>6, StillWakes DEF EventArrives, schedVars, threadVars
<1>7. QED
  BY <1>1, <1>2, <1>3, <1>4, <1>5, <1>6, WaitAgainWakes DEF Next, Terminated

\* While something is queued, no thread stays parked unless another one is on
\* its way to the queue: what push, unlock and signal do in two steps, with a
\* thread that waits and one that blocks in the reactor, loses no wakeup.
THEOREM NoWakeupLost == Spec => []NoLostWakeup
<1>1. Init => IInv /\ WakeInv
  BY InitIInv, InitWakeInv
<1>2. IInv /\ WakeInv /\ [Next]_vars => IInv' /\ WakeInv'
  BY NextIInv, NextWakeInv
<1>3. WakeInv => NoLostWakeup
  BY DEF WakeInv
<1>4. QED
  BY <1>1, <1>2, <1>3, PTL DEF Spec

-----------------------------------------------------------------------------
(* The service never hangs.                                                 *)

\* run() returns from a stopped service only.
ReturnedInv == \A t \in Threads : pc[t] = "returned" => stopped

\* Who brings outstanding_work_ to zero stops the service; if it has been zero
\* from the beginning, so does the first to enter run().
ZeroInv ==
  outstanding = 0 =>
    \/ stopped
    \/ \E p \in Processes : pc[p] = "stop"
    \/ \A t \in Threads : pc[t] = "enter"

\* Who has a private queue is in a handler, or on its way from one or from the
\* reactor to the loop, where it moves the queue to op_queue_.
Carries(t) ==
  \/ InUser(t) \/ pc[t] \in {"loop", "requeue"}
  \/ pc[t] = "stop" /\ ret[t] = "loop"
CarryInv == \A t \in Threads : privateQueue[t] # <<>> => Carries(t)

\* Asynchronous operations need the reactor.
ReactorInv == async \cup ready # {} => task

EndInv == ReturnedInv /\ ZeroInv /\ CarryInv /\ ReactorInv

\* What a step has to leave in order.
LEMMA StepKeepsEnd ==
  ASSUME IInv, EndInv, stopped => stopped', task => task',
         \/ outstanding' # 0 \/ stopped' \/ \E p \in Processes : pc'[p] = "stop"
         \/ /\ outstanding = 0
            /\ \A q \in Processes : pc[q] \in {"enter", "stop"} => pc'[q] = pc[q],
         \A t \in Threads : pc'[t] = "returned" => pc[t] = "returned" \/ stopped',
         \A t \in Threads : \/ privateQueue'[t] = <<>> \/ Carries(t)'
                            \/ /\ privateQueue'[t] = privateQueue[t]
                               /\ Carries(t) => Carries(t)',
         async' \cup ready' \subseteq async \cup ready \/ task'
  PROVE  EndInv'
<1>1. ReturnedInv' /\ ReactorInv' /\ CarryInv'
  BY DEF EndInv, ReturnedInv, ReactorInv, CarryInv
<1>2. ZeroInv'
  BY DEF EndInv, ZeroInv, Processes
<1>3. QED
  BY <1>1, <1>2 DEF EndInv

\* A process that has neither to enter run() nor to stop moves elsewhere.
LEMMA MoveKeepsEnd ==
  ASSUME IInv, EndInv, NEW p \in Processes, NEW x, NEW y, Moves(p, x, y),
         pc[p] \notin {"enter", "stop"}, x # "returned" \/ stopped,
         \/ outstanding' = outstanding
         \/ outstanding' = outstanding + 1,
         UNCHANGED stopped, task => task',
         \A t \in Threads : t # p => privateQueue'[t] = privateQueue[t],
         \/ privateQueue'[p] = <<>> \/ Carries(p)'
         \/ privateQueue'[p] = privateQueue[p] /\ ~Carries(p),
         async' \subseteq async /\ ready' \subseteq ready
  PROVE  EndInv'
<1>1. /\ pc'[p] = x
      /\ \A q \in Processes : q # p => pc'[q] = pc[q] /\ ret'[q] = ret[q]
  BY DEF Moves
<1>2. outstanding' # 0 \/ outstanding = 0
  BY Outstanding
<1>3. \A t \in Threads : t # p => (Carries(t) => Carries(t)')
  BY <1>1 DEF Carries, InUser, Processes
<1>4. \A q \in Processes : pc[q] \in {"enter", "stop"} => pc'[q] = pc[q]
  BY <1>1
<1>5. \A t \in Threads : pc'[t] = "returned" => pc[t] = "returned" \/ stopped'
  BY <1>1 DEF Processes
<1>6. QED
  BY <1>2, <1>3, <1>4, <1>5, StepKeepsEnd

\* run() is entered: with nothing to do, to stop.
LEMMA EnterKeepsEnd ==
  ASSUME IInv, EndInv, NEW t \in Threads, Enter(t)
  PROVE  EndInv'
<1>1. /\ pc[t] = "enter" /\ t \in Processes
      /\ \/ Moves(t, "stop", "returned")
         \/ Moves(t, "loop", ret[t]) /\ outstanding # 0
      /\ UNCHANGED <<stopped, task, outstanding, privateQueue, async, ready>>
  BY GotoMoves DEF Enter, IInv, PCs, Processes, schedVars, threadVars, reactorVars
<1>2. /\ pc'[t] \in {"stop", "loop"} /\ (pc'[t] = "loop" => outstanding # 0)
      /\ \A q \in Processes : q # t => pc'[q] = pc[q] /\ ret'[q] = ret[q]
  BY <1>1 DEF Moves
<1>3. \A u \in Threads : Carries(u) => Carries(u)'
  BY <1>1, <1>2 DEF Carries, InUser, Processes
<1>4. QED
  BY <1>1, <1>2, <1>3, StepKeepsEnd DEF Processes

\* stop(): some go on to the end.
LEMMA StopKeepsEnd ==
  ASSUME IInv, EndInv, NEW p \in Processes, StopAllThreads(p)
  PROVE  EndInv'
<1>1. /\ pc[p] = "stop" /\ ret[p] \in {"user", "loop", "returned"} /\ ret' = ret
      /\ UNCHANGED <<task, outstanding, privateQueue, async, ready>>
      /\ stopped' = TRUE
      /\ pc'[p] = ret[p]
      /\ \A q \in Processes : q # p =>
           pc'[q] = IF pc[q] = "waiting" THEN "woken" ELSE pc[q]
  BY DEF StopAllThreads, IInv, PcInv, threadVars, reactorVars
<1>2. \A u \in Threads : Carries(u) => Carries(u)'
  BY <1>1 DEF Carries, InUser, Processes
<1>3. QED
  BY <1>1, <1>2, StepKeepsEnd

\* pthread_cond_signal(), and threads that wake for nothing.
LEMMA SignalKeepsEnd ==
  ASSUME IInv, EndInv, NEW p \in Processes, Signal(p)
  PROVE  EndInv'
<1>1. /\ pc[p] = "signal" /\ ret[p] \in {"user", "task"} /\ ret' = ret
      /\ UNCHANGED <<stopped, task, outstanding, privateQueue, async, ready>>
  BY DEF Signal, IInv, PcInv, schedVars, threadVars, reactorVars
<1>2. \A q \in Processes :
        \/ pc'[q] = pc[q]
        \/ pc'[q] = ret[q] /\ pc[q] = "signal" /\ ret[q] \in {"user", "task"}
        \/ pc[q] = "waiting" /\ pc'[q] = "woken"
  <2>1. CASE pc' = [pc EXCEPT ![p] = ret[p]]
    BY <1>1, <2>1 DEF IInv, TypeOK
  <2>2. CASE \E t \in Threads : /\ pc[t] = "waiting"
                                /\ pc' = [pc EXCEPT ![p] = ret[p], ![t] = "woken"]
    <3>1. PICK t \in Threads : /\ pc[t] = "waiting"
                               /\ pc' = [pc EXCEPT ![p] = ret[p], ![t] = "woken"]
      BY <2>2
    <3>2. t # p /\ t \in Processes /\ pc \in [Processes -> PCs]
      BY <1>1, <3>1 DEF Processes, IInv, TypeOK
    <3>3. QED
      BY <1>1, <3>1, <3>2
  <2>3. QED
    BY <2>1, <2>2 DEF Signal, Goto
<1>3. \A u \in Threads : Carries(u) => Carries(u)'
  BY <1>1, <1>2 DEF Carries, InUser, Processes
<1>4. \A q \in Processes : pc[q] \in {"enter", "stop"} => pc'[q] = pc[q]
  BY <1>2
<1>5. outstanding' # 0 \/ outstanding = 0
  BY <1>1
<1>6. \A t \in Threads : pc'[t] = "returned" => pc[t] = "returned"
  BY <1>2 DEF Processes
<1>7. QED
  BY <1>1, <1>3, <1>4, <1>5, <1>6, StepKeepsEnd

\* The steps of a thread in run() but its handlers.
LEMMA LoopKeepsEnd ==
  ASSUME IInv, EndInv, NEW t \in Threads,
         \/ ReturnFromRun(t) \/ WaitForEvent(t) \/ WaitAgain(t) \/ SpuriousWakeup(t)
         \/ TakeTask(t) \/ TakeOperation(t) \/ RunTask(t)
  PROVE  EndInv'
<1>1. TypeOK /\ t \in Processes /\ privateQueue \in [Threads -> Seq(Ops)]
  BY DEF IInv, TypeOK, Processes
<1>2. PrivateQueueMoved(t) => /\ privateQueue'[t] = <<>>
                              /\ \A u \in Threads : u # t => privateQueue'[u] = privateQueue[u]
  BY <1>1 DEF PrivateQueueMoved
<1>3. AtLoop(t) => pc[t] \in {"loop", "requeue", "woken"}
  BY DEF AtLoop
<1>4. CASE ReturnFromRun(t)
  <2>1. /\ Moves(t, "returned", ret[t]) /\ AtLoop(t) /\ PrivateQueueMoved(t) /\ stopped
        /\ UNCHANGED <<stopped, task, outstanding, async, ready>>
    BY <1>1, <1>4, GotoMoves DEF ReturnFromRun, PCs, reactorVars
  <2>2. QED
    BY <1>1, <1>2, <1>3, <2>1, MoveKeepsEnd
<1>5. CASE WaitForEvent(t)
  <2>1. /\ Moves(t, "waiting", ret[t]) /\ AtLoop(t)
        /\ UNCHANGED <<stopped, task, outstanding, privateQueue, async, ready>>
    BY <1>1, <1>5, GotoMoves DEF WaitForEvent, PCs, threadVars, reactorVars
  <2>2. privateQueue[t] = <<>>
    <3>1. ToSet(Requeued(t)) = {}
      BY <1>5, ToSetEmpty DEF WaitForEvent
    <3>2. ToSet(privateQueue[t]) = {} /\ privateQueue[t] \in Seq(Ops)
      BY <1>1, <2>1, <3>1, RequeuedProperties
    <3> DEFINE v == privateQueue[t]
    <3>3. v \in Seq(Ops) /\ ToSet(v) = {}
      BY <3>2
    <3> HIDE DEF v
    <3>4. v # <<>> => 1 \in 1 .. Len(v)
      BY <3>3
    <3>5. v # <<>> => v[1] \in ToSet(v)
      BY <3>3, <3>4, ToSetDef
    <3>6. v = <<>>
      BY <3>3, <3>5
    <3>7. QED
      BY <3>6 DEF v
  <2>3. QED
    BY <1>1, <1>3, <2>1, <2>2, MoveKeepsEnd
<1>6. CASE WaitAgain(t) \/ SpuriousWakeup(t)
  <2>1. /\ \E x \in {"waiting", "woken"} : Moves(t, x, ret[t])
        /\ pc[t] \in {"waiting", "woken"}
        /\ UNCHANGED <<stopped, task, outstanding, privateQueue, async, ready>>
    BY <1>1, <1>6, GotoMoves
    DEF WaitAgain, SpuriousWakeup, PCs, schedVars, threadVars, reactorVars
  <2>2. ~Carries(t)
    BY <2>1 DEF Carries, InUser
  <2>3. PICK x \in {"waiting", "woken"} : Moves(t, x, ret[t])
    BY <2>1
  <2>4. QED
    BY <1>1, <2>1, <2>2, <2>3, MoveKeepsEnd
<1>7. CASE TakeTask(t)
  <2>1. /\ \E x \in {"signal", "task"}, y \in {"task", ret[t]} : Moves(t, x, y)
        /\ AtLoop(t) /\ PrivateQueueMoved(t)
        /\ UNCHANGED <<stopped, task, outstanding, async, ready>>
    BY <1>1, <1>7, GotoMoves DEF TakeTask, PCs, reactorVars
  <2>2. PICK x \in {"signal", "task"}, y \in {"task", ret[t]} : Moves(t, x, y)
    BY <2>1
  <2>3. QED
    BY <1>1, <1>2, <1>3, <2>1, <2>2, MoveKeepsEnd
<1>8. CASE TakeOperation(t)
  <2>1. /\ AtLoop(t) /\ PrivateQueueMoved(t)
        /\ UNCHANGED <<stopped, task, outstanding, async, ready>>
    BY <1>8 DEF TakeOperation, reactorVars
  <2>2. \E x \in {"signal", "user"}, y \in {"user", ret[t]} : Moves(t, x, y)
    BY <1>1, <1>8, GotoMoves DEF TakeOperation, WakeOneThread, PCs
  <2>3. PICK x \in {"signal", "user"}, y \in {"user", ret[t]} : Moves(t, x, y)
    BY <2>2
  <2>4. QED
    BY <1>1, <1>2, <1>3, <2>1, <2>3, MoveKeepsEnd
<1>9. CASE RunTask(t)
  <2>1. /\ pc[t] = "task" /\ Moves(t, "requeue", ret[t]) /\ ready' = {}
        /\ UNCHANGED <<stopped, task, outstanding, async>>
    BY <1>1, <1>9, GotoMoves DEF RunTask, PCs
  <2>2. \A u \in Threads : u # t => privateQueue'[u] = privateQueue[u]
    BY <1>1, <1>9 DEF RunTask
  <2>3. Carries(t)'
    BY <2>1 DEF Carries, Moves
  <2>4. QED
    BY <1>1, <2>1, <2>2, <2>3, MoveKeepsEnd
<1>10. QED
  BY <1>4, <1>5, <1>6, <1>7, <1>8, <1>9

\* A handler returns: to stop() if it has brought the count to zero.
LEMMA FinishKeepsEnd ==
  ASSUME IInv, EndInv, NEW t \in Threads, FinishOperation(t)
  PROVE  EndInv'
<1>1. /\ TypeOK /\ t \in Processes /\ pc[t] = "user" /\ InUser(t)
      /\ UNCHANGED <<stopped, task, privateQueue, async, ready>>
      /\ outstanding' = outstanding + privateWork[t] - 1
      /\ privateWork[t] \in Nat
  BY DEF IInv, TypeOK, Processes, FinishOperation, schedVars, reactorVars, InUser
<1>2. \/ Moves(t, "stop", "loop")
      \/ Moves(t, "loop", ret[t]) /\ ~(privateWork[t] = 0 /\ outstanding' = 0)
  BY <1>1, GotoMoves DEF FinishOperation, PCs
<1>3. outstanding \in Nat /\ outstanding > 0
  BY <1>1, Outstanding
<1>4. outstanding' # 0 \/ pc'[t] = "stop"
  BY <1>1, <1>2, <1>3 DEF Moves
<1>5. /\ Carries(t)' /\ pc'[t] # "returned"
      /\ \A q \in Processes : q # t => pc'[q] = pc[q] /\ ret'[q] = ret[q]
  BY <1>2 DEF Moves, Carries
<1>6. \A u \in Threads : u # t => (Carries(u) => Carries(u)')
  BY <1>5 DEF Carries, InUser, Processes
<1>7. \A u \in Threads : pc'[u] = "returned" => pc[u] = "returned"
  BY <1>5 DEF Processes
<1>8. QED
  BY <1>1, <1>4, <1>5, <1>6, <1>7, StepKeepsEnd

\* post() and init_task(): the process goes on, at most to signal.
LEMMA PostKeepsEnd ==
  ASSUME IInv, EndInv, NEW p \in Processes,
         Push(p) \/ InitTask(p) \/ \E o \in Ops : BeginPost(p, o)
  PROVE  EndInv'
<1>1. TypeOK
  BY DEF IInv
<1>2. CASE Push(p)
  <2>1. /\ pc[p] = "push"
        /\ UNCHANGED <<stopped, task, outstanding, privateQueue, async, ready>>
    BY <1>2 DEF Push, threadVars, reactorVars
  <2>2. \E x \in {"signal", "user"}, y \in {"user", ret[p]} : Moves(p, x, y) /\ (x = "signal" => y = "user")
    BY <1>1, <1>2, GotoMoves DEF Push, WakeOneThread, PCs
  <2>3. PICK x \in {"signal", "user"}, y \in {"user", ret[p]} : Moves(p, x, y) /\ (x = "signal" => y = "user")
    BY <2>2
  <2>4. Carries(p)'
    BY <2>3 DEF Moves, Carries, InUser
  <2>5. QED
    BY <2>1, <2>3, <2>4, MoveKeepsEnd
<1>3. CASE InitTask(p)
  <2>1. /\ pc[p] = "user" /\ task' = TRUE
        /\ UNCHANGED <<stopped, outstanding, privateQueue, async, ready>>
    BY <1>3 DEF InitTask, CanCall, threadVars, reactorVars
  <2>2. \E x \in {"signal", "user"}, y \in {"user", ret[p]} : Moves(p, x, y) /\ (x = "signal" => y = "user")
    BY <1>1, <1>3, GotoMoves DEF InitTask, WakeOneThread, PCs
  <2>3. PICK x \in {"signal", "user"}, y \in {"user", ret[p]} : Moves(p, x, y) /\ (x = "signal" => y = "user")
    BY <2>2
  <2>4. Carries(p)'
    BY <2>3 DEF Moves, Carries, InUser
  <2>5. QED
    BY <2>1, <2>3, <2>4, MoveKeepsEnd
<1>4. ASSUME NEW o \in Ops, BeginPost(p, o)
      PROVE  EndInv'
  <2>1. /\ pc[p] = "user" /\ Moves(p, "push", ret[p]) /\ outstanding' = outstanding + 1
        /\ UNCHANGED <<stopped, task, privateQueue, async, ready>>
    BY <1>1, <1>4, GotoMoves DEF BeginPost, CanCall, PCs, schedVars, threadVars, reactorVars
  <2>2. Carries(p)'
    BY <2>1 DEF Moves, Carries, InUser
  <2>3. QED
    BY <2>1, <2>2, MoveKeepsEnd
<1>5. QED
  BY <1>2, <1>3, <1>4

\* Nobody moves: a continuation, an asynchronous operation, an event.
LEMMA StillKeepsEnd ==
  ASSUME IInv, EndInv, UNCHANGED <<pc, ret, stopped, task>>,
         outstanding' = outstanding \/ outstanding' = outstanding + 1,
         \A t \in Threads : privateQueue'[t] = privateQueue[t] \/ pc[t] = "user",
         async' \cup ready' \subseteq async \cup ready \/ task
  PROVE  EndInv'
<1>1. outstanding' # 0 \/ outstanding = 0
  BY Outstanding
<1>2. \A t \in Threads : (pc[t] = "user" => Carries(t)') /\ (Carries(t) => Carries(t)')
  BY DEF Carries, InUser
<1>3. QED
  BY <1>1, <1>2, StepKeepsEnd

\* ~work(): to stop() if it has brought the count to zero.
LEMMA DropKeepsEnd ==
  ASSUME IInv, EndInv, NEW p \in Processes, NEW w \in Clients, DropWork(p, w)
  PROVE  EndInv'
<1>1. /\ TypeOK /\ pc[p] = "user"
      /\ UNCHANGED <<stopped, task, privateQueue, async, ready>>
  BY DEF IInv, DropWork, CanCall, schedVars, threadVars, reactorVars
<1>2. \/ Moves(p, "stop", "user")
      \/ UNCHANGED <<pc, ret>> /\ outstanding' # 0
  BY <1>1, GotoMoves DEF DropWork, PCs
<1>3. /\ outstanding' # 0 \/ pc'[p] = "stop"
      /\ \A q \in Processes : q # p => pc'[q] = pc[q] /\ ret'[q] = ret[q]
      /\ pc'[p] # "returned"
      /\ pc'[p] = "user" \/ (pc'[p] = "stop" /\ ret'[p] = "user")
  <2>1. CASE Moves(p, "stop", "user")
    BY <2>1 DEF Moves
  <2>2. CASE UNCHANGED <<pc, ret>> /\ outstanding' # 0
    BY <1>1, <2>2
  <2>3. QED
    BY <1>2, <2>1, <2>2
<1>4. \A u \in Threads : Carries(u) => Carries(u)'
  BY <1>3 DEF Carries, InUser, Processes
<1>5. \A u \in Threads : pc'[u] = "returned" => pc[u] = "returned"
  BY <1>3 DEF Processes
<1>6. QED
  BY <1>1, <1>3, <1>4, <1>5, StepKeepsEnd

\* EndInv holds initially, and every step preserves it.
LEMMA InitEndInv ==
  ASSUME Init
  PROVE  EndInv
<1>1. /\ async = {} /\ ready = {}
      /\ \A t \in Threads : pc[t] = "enter" /\ privateQueue[t] = <<>>
  BY DEF Init, Processes
<1>2. QED
  BY <1>1 DEF EndInv, ReturnedInv, ZeroInv, CarryInv, ReactorInv

LEMMA NextEndInv ==
  ASSUME IInv, EndInv, [Next]_vars
  PROVE  EndInv'
<1>1. CASE UNCHANGED vars
  BY <1>1, StillKeepsEnd DEF vars, schedVars, threadVars, reactorVars
<1>2. ASSUME NEW t \in Threads, ThreadStep(t)
      PROVE  EndInv'
  BY <1>2, EnterKeepsEnd, LoopKeepsEnd, FinishKeepsEnd DEF ThreadStep
<1>3. ASSUME NEW p \in Processes, LibraryStep(p)
      PROVE  EndInv'
  BY <1>3, SignalKeepsEnd, StopKeepsEnd, PostKeepsEnd DEF LibraryStep
<1>4. ASSUME NEW p \in Processes, UserStep(p)
      PROVE  EndInv'
  <2>1. ASSUME NEW o \in Ops, StartAsync(p, o) PROVE EndInv'
    BY <2>1, StillKeepsEnd DEF StartAsync, schedVars, threadVars
  <2>2. QED
    BY <1>4, <2>1, PostKeepsEnd, DropKeepsEnd DEF UserStep
<1>5. ASSUME NEW t \in Threads, NEW o \in Ops, PostContinuation(t, o)
      PROVE  EndInv'
  <2>1. /\ UNCHANGED <<pc, ret, stopped, task, outstanding, async, ready>>
        /\ pc[t] = "user"
        /\ \A u \in Threads : u # t => privateQueue'[u] = privateQueue[u]
    BY <1>5 DEF PostContinuation, schedVars, reactorVars, IInv, TypeOK
  <2>2. QED
    BY <2>1, StillKeepsEnd
<1>6. ASSUME NEW o \in Ops, EventArrives(o)
      PROVE  EndInv'
  <2>1. /\ UNCHANGED <<pc, ret, stopped, task, outstanding, privateQueue>>
        /\ async' \cup ready' = async \cup ready
    BY <1>6 DEF EventArrives, schedVars, threadVars
  <2>2. QED
    BY <2>1, StillKeepsEnd
<1>7. QED
  BY <1>1, <1>2, <1>3, <1>4, <1>5, <1>6, LoopKeepsEnd DEF Next, Terminated

\* Whether a process may take a step other than to wait again: the guards of
\* ThreadStep and LibraryStep.
MayGoOn(p) ==
  \/ pc[p] \in {"enter", "push", "signal", "stop"}
  \/ p \in Threads /\ (pc[p] = "user" \/ AtLoop(p))
  \/ pc[p] = "task" /\ ~Parked(p)

NotHung ==
  works = {} /\ async = {} =>
    \/ \A t \in Threads : pc[t] = "returned"
    \/ \E p \in Processes : MayGoOn(p)

\* When the last work is gone and no asynchronous operation waits for its event,
\* then until every run() has returned somebody may go on: never are all threads
\* parked, or about to be, with a handler left to run or nobody to stop them.
THEOREM NeverHangs == Spec => []NotHung
<1>1. ASSUME IInv, WakeInv, EndInv, works = {}, async = {},
             NEW t \in Threads, pc[t] # "returned",
             \A p \in Processes : ~MayGoOn(p)
      PROVE  FALSE
  <2>1. \A p \in Processes : ~Coming(p)
    BY <1>1 DEF MayGoOn, Coming
  <2>2. \A u \in Threads :
          /\ pc[u] \in {"waiting", "woken", "task", "returned"}
          /\ pc[u] = "woken" => ~signalled
          /\ pc[u] = "task" => Parked(u)
    BY <1>1 DEF MayGoOn, AtLoop, Processes, IInv, TypeOK, PCs
  <2>3. ~stopped
    <3>1. pc[t] = "task" => Blocked(t) /\ ~interrupt
      BY <2>2 DEF Parked, Blocked
    <3>2. QED
      BY <1>1, <2>2, <3>1 DEF WakeInv, StoppedInv
  <2>4. \A u \in Threads : pc[u] # "returned"
    BY <1>1, <2>3 DEF EndInv, ReturnedInv
  <2>5. queue = <<>>
    <3>1. CASE pc[t] = "woken"
      BY <1>1, <2>2, <3>1 DEF WakeInv, SignalledInv
    <3>2. CASE Parked(t)
      BY <1>1, <2>1, <3>2 DEF WakeInv, NoLostWakeup
    <3>3. QED
      BY <2>2, <2>4, <3>1, <3>2 DEF Parked
  <2>6. ready = {}
    <3>1. SUFFICES ASSUME ready # {} PROVE FALSE
      OBVIOUS
    <3>2. task
      BY <1>1, <3>1 DEF EndInv, ReactorInv
    <3>3. PICK u \in Threads : InTask(u)
      BY <1>1, <2>5, <3>2, ToSetEmpty DEF IInv, QueueInv
    <3>4. Parked(u)
      BY <2>2, <3>3 DEF InTask
    <3>5. QED
      BY <2>2, <3>1, <3>3, <3>4 DEF Parked, InTask
  <2>7. Counted = {}
    <3>1. QueuedOps = {}
      BY <2>5, ToSetEmpty DEF QueuedOps
    <3>2. \A p \in Processes : transit[p] = None
      BY <1>1 DEF MayGoOn, IInv, PcInv
    <3>3. \A u \in Threads : current[u] = None /\ ToSet(privateQueue[u]) = {}
      <4>1. \A u \in Threads : ~InUser(u) /\ ~Carries(u)
        BY <2>2 DEF InUser, Carries
      <4>2. \A u \in Threads : privateQueue[u] = <<>>
        BY <1>1, <4>1 DEF EndInv, CarryInv
      <4>3. QED
        BY <1>1, <4>1, <4>2, ToSetEmpty DEF IInv, PcInv
    <3>4. ASSUME NEW o PROVE o \notin Counted
      BY <1>1, <2>6, <3>1, <3>2, <3>3, CountedElement
    <3>5. QED
      BY <3>4
  <2>8. outstanding = 0
    BY <1>1, <2>7, Outstanding
  <2>9. PICK p \in Processes : pc[p] = "stop"
    BY <1>1, <2>2, <2>3, <2>8 DEF EndInv, ZeroInv
  <2>10. QED
    BY <1>1, <2>9 DEF MayGoOn
<1>2. IInv /\ WakeInv /\ EndInv => NotHung
  BY <1>1 DEF NotHung
<1>3. Init => IInv /\ WakeInv /\ EndInv
  BY InitIInv, InitWakeInv, InitEndInv
<1>4. IInv /\ WakeInv /\ EndInv /\ [Next]_vars => IInv' /\ WakeInv' /\ EndInv'
  BY NextIInv, NextWakeInv, NextEndInv
<1>5. QED
  BY <1>2, <1>3, <1>4, PTL DEF Spec
=============================================================================
