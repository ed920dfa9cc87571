--------------------------- MODULE ElogAsync_proofs ---------------------------
(***************************************************************************)
(* For any number of logging threads, any logs and any size of the ring:   *)
(* no wake-up of the output thread is lost, bytes are printed in the order *)
(* of the lock until a stop, none is ever lost or printed twice, and       *)
(* nobody uses what an orderly elog_deinit destroys.                       *)
(***************************************************************************)
EXTENDS ElogAsync, TLAPS, SequenceTheorems, FiniteSetTheorems

\* Who holds the output lock, by where each thread is.
Holder ==
    \A t \in Thread : pc[t] \in {"emit", "notice", "unlock"} <=> lock = t

\* What that gives: the lock excludes.
OneInside ==
    \A t, u \in Thread :
        /\ pc[t] \in {"emit", "notice", "unlock"}
        /\ pc[u] \in {"emit", "notice", "unlock"}
        => t = u

\* Where the output thread and the main thread can be, by what is initialised.
LifeCycle ==
    /\ init_ok /\ mpc # "destroy" <=> opc # "none"
    /\ ~init_ok => mpc = "idle" /\ pc[Main] = "idle"
    /\ mpc \in {"notify", "join", "destroy"} => past = "deinited" /\ pc[Main] = "idle"
    /\ mpc = "disable" => past # "started"

\* While the logger is not initialised nobody has the mutex, and none of this
\* ends the behaviour after an orderly deinit: output stays disabled and no
\* thread gets into a log call until the next elog_init is done.
Destroyed ==
    /\ ~init_ok /\ ~undefined => lock = NoOne
    /\ orderly /\ (mpc \in {"notify", "join", "destroy"} \/ ~init_ok) =>
          ~output_enabled /\ \A t \in Thread : pc[t] = "idle"
    /\ orderly => ~undefined

\* Which bytes are where: a line in hand is being printed, a logger that was
\* never enabled holds nothing, nor does one that was never deinitialised
\* before its elog_init.
Holds ==
    /\ opc = "print" <=> line # <<>>
    /\ past = "started" /\ ~is_enabled => queue = <<>> /\ line = <<>>
    /\ past # "deinited" /\ ~init_ok => queue = <<>>

Histories == emitted \in Seq(Nat) /\ printed \in Seq(Nat)

\* Every byte is printed, in hand or stored as often as it was accepted.
Counted == \A b : CountOf(b, printed \o line \o queue) = CountOf(b, emitted)

IInv ==
    /\ TypeOK /\ Histories
    /\ Holder /\ LifeCycle /\ Destroyed /\ Holds
    /\ NoLostWakeup /\ OutputInOrder /\ Counted

-----------------------------------------------------------------------------
\* A sequence cut at n is its two parts put together.
LEMMA Cut ==
    ASSUME NEW q \in Seq(Nat), NEW n \in 0..Len(q)
    PROVE  /\ SubSeq(q, 1, n) \in Seq(Nat) /\ Len(SubSeq(q, 1, n)) = n
           /\ SubSeq(q, n + 1, Len(q)) \in Seq(Nat)
           /\ Len(SubSeq(q, n + 1, Len(q))) = Len(q) - n
           /\ SubSeq(q, 1, n) \o SubSeq(q, n + 1, Len(q)) = q
<1>1. /\ Len(q) \in Nat /\ n \in Nat /\ n <= Len(q)
      /\ \A i \in 1..Len(q) : q[i] \in Nat
  BY ElementOfSeq
<1>2. /\ SubSeq(q, 1, n) \in Seq(Nat)
      /\ Len(SubSeq(q, 1, n)) = IF 1 <= n THEN n - 1 + 1 ELSE 0
  <2>1. 1 \in Int /\ n \in Int /\ \A i \in 1..n : q[i] \in Nat
    BY <1>1
  <2> QED BY ONLY <2>1, SubSeqProperties
<1>3. /\ SubSeq(q, n + 1, Len(q)) \in Seq(Nat)
      /\ Len(SubSeq(q, n + 1, Len(q))) = IF n + 1 <= Len(q) THEN Len(q) - (n + 1) + 1 ELSE 0
  <2>1. n + 1 \in Int /\ Len(q) \in Int /\ \A i \in (n + 1)..Len(q) : q[i] \in Nat
    BY <1>1
  <2> QED BY ONLY <2>1, SubSeqProperties
<1>4. SubSeq(q, 1, n) \o SubSeq(q, n + 1, Len(q)) = SubSeq(q, 1, Len(q))
  <2>1. 1 \in 1..(Len(q) + 1) /\ n \in (1 - 1)..Len(q) /\ Len(q) \in n..Len(q)
    BY <1>1
  <2> QED BY ONLY <2>1, q \in Seq(Nat), ConcatAdjacentSubSeq
<1>5. SubSeq(q, 1, Len(q)) = q
  BY SubSeqFull
<1>6. Len(SubSeq(q, 1, n)) = n
  BY ONLY <1>1, <1>2
<1>7. Len(SubSeq(q, n + 1, Len(q))) = Len(q) - n
  BY ONLY <1>1, <1>3
<1> QED BY ONLY <1>2, <1>3, <1>4, <1>5, <1>6, <1>7

\* Concatenation is associative.
LEMMA Regroup ==
    \A s, t, u \in Seq(Nat) : (s \o t) \o u = s \o (t \o u)
BY ConcatAssociative, SMTT(40)

\* How often a byte occurs in two sequences together.
LEMMA CountConcat ==
    ASSUME NEW b, NEW s \in Seq(Nat), NEW t \in Seq(Nat)
    PROVE  /\ CountOf(b, s) \in Nat
           /\ CountOf(b, s \o t) = CountOf(b, s) + CountOf(b, t)
<1> DEFINE m == Len(s)
           n == Len(t)
           A == {i \in 1..m : s[i] = b}
           B == {i \in 1..n : t[i] = b}
           C == {i \in (m + 1)..(m + n) : (s \o t)[i] = b}
           f == [i \in B |-> m + i]
<1>1. m \in Nat /\ n \in Nat
  OBVIOUS
<1>2. /\ Len(s \o t) = m + n
      /\ \A i \in 1..(m + n) : (s \o t)[i] = IF i <= m THEN s[i] ELSE t[i - m]
  BY ConcatProperties
<1>3. IsFiniteSet(A) /\ IsFiniteSet(B) /\ IsFiniteSet(C)
  <2>1. IsFiniteSet(1..m) /\ IsFiniteSet(1..n) /\ IsFiniteSet((m + 1)..(m + n))
    BY <1>1, FS_Interval
  <2>2. A \in SUBSET (1..m) /\ B \in SUBSET (1..n) /\ C \in SUBSET ((m + 1)..(m + n))
    OBVIOUS
  <2> QED BY ONLY <2>1, <2>2, FS_Subset
<1>4. {i \in 1..Len(s \o t) : (s \o t)[i] = b} = A \cup C
  <2> HIDE DEF m, n
  <2>1. ASSUME NEW i \in 1..(m + n) PROVE (s \o t)[i] = b <=> i \in A \cup C
    <3>1. CASE i <= m
      <4>1. i \in 1..m /\ i \notin (m + 1)..(m + n) /\ (s \o t)[i] = s[i]
        BY <1>1, <1>2, <3>1
      <4> QED BY <4>1
    <3>2. CASE ~(i <= m)
      <4>1. i \notin 1..m /\ i \in (m + 1)..(m + n)
        BY <1>1, <3>2
      <4> QED BY <4>1
    <3> QED BY <3>1, <3>2
  <2>2. A \cup C \subseteq 1..(m + n)
    BY <1>1
  <2> QED BY <1>2, <2>1, <2>2
<1>5. A \cap C = {}
  BY <1>1
<1>6. ExistsBijection(B, C)
  <2> HIDE DEF m, n
  <2>1. \A i \in B : m + i \in C
    <3> TAKE i \in B
    <3>1. i \in Nat /\ i >= 1 /\ i <= n /\ t[i] = b
      BY <1>1
    <3>2. m + i \in (m + 1)..(m + n) /\ m + i \in 1..(m + n) /\ ~(m + i <= m)
          /\ (m + i) - m = i
      BY ONLY <1>1, <3>1
    <3> QED BY <1>2, <3>1, <3>2
  <2>2. f \in [B -> C]
    BY <2>1
  <2>3. \A i, j \in B : f[i] = f[j] => i = j
    BY <1>1
  <2>4. \A k \in C : \E i \in B : f[i] = k
    <3> TAKE k \in C
    <3>1. k \in (m + 1)..(m + n) /\ (s \o t)[k] = b
      OBVIOUS
    <3>2. k - m \in 1..n /\ k \in 1..(m + n) /\ ~(k <= m) /\ m + (k - m) = k
      BY ONLY <1>1, <3>1
    <3>3. t[k - m] = b
      BY <1>2, <3>1, <3>2
    <3>4. k - m \in B /\ f[k - m] = k
      BY <3>2, <3>3
    <3> QED BY <3>4
  <2>5. f \in Bijection(B, C)
    BY <2>2, <2>3, <2>4 DEF Bijection, Injection, Surjection, IsInjective
  <2> QED BY <2>5 DEF ExistsBijection
<1>7. Cardinality(C) = Cardinality(B)
  BY ONLY <1>3, <1>6, FS_Bijection
<1>8. Cardinality(A \cup C) = Cardinality(A) + Cardinality(C)
  <2>1. Cardinality(A \cap C) = 0
    BY ONLY <1>5, FS_EmptySet
  <2>2. Cardinality(A \cup C) = Cardinality(A) + Cardinality(C) - Cardinality(A \cap C)
    BY ONLY <1>3, FS_Union
  <2>3. Cardinality(A) \in Nat /\ Cardinality(C) \in Nat
    BY ONLY <1>3, FS_CardinalityType
  <2> HIDE DEF A, C
  <2> QED BY ONLY <2>1, <2>2, <2>3
<1>9. Cardinality(A) \in Nat
  BY ONLY <1>3, FS_CardinalityType
<1>10. CountOf(b, s) = Cardinality(A) /\ CountOf(b, t) = Cardinality(B)
       /\ CountOf(b, s \o t) = Cardinality(A \cup C)
  BY <1>4 DEF CountOf
<1> QED BY ONLY <1>7, <1>8, <1>9, <1>10

\* What the queue does for a put: it grows by a beginning of the log.
LEMMA PutGrows ==
    ASSUME TypeOK, NEW l \in Seq(Nat), Ring!Put(l)
    PROVE  LET p == SubSeq(l, 1, Len(queue') - Len(queue)) IN
           /\ p \in Seq(Nat) /\ queue' = queue \o p /\ line' = line
           /\ queue' \in Seq(Nat) /\ Len(queue') <= N
<1>1. queue \in Seq(Nat) /\ Len(queue) \in Nat /\ Len(queue) <= N /\ N \in Nat /\ Len(l) \in Nat
  BY AsyncAssumption DEF TypeOK
<1> DEFINE n == Ring!Lesser(Len(l), Ring!Room)
           p == SubSeq(l, 1, n)
<1>2. n \in 0..Len(l) /\ n <= N - Len(queue)
  BY ONLY <1>1 DEF Ring!Lesser, Ring!Room
<1>3. queue' = queue \o p /\ line' = line
  BY DEF Ring!Put
<1> HIDE DEF n
<1>4. p \in Seq(Nat) /\ Len(p) = n
  BY ONLY <1>2, l \in Seq(Nat), Cut
<1>5. queue' \in Seq(Nat) /\ Len(queue') = Len(queue) + n
  BY ONLY <1>1, <1>3, <1>4, ConcatProperties
<1>6. Len(queue') - Len(queue) = n /\ Len(queue') <= N
  BY ONLY <1>1, <1>2, <1>5
<1> QED BY ONLY <1>3, <1>4, <1>5, <1>6

\* And for a get: it is divided into the line and the rest.
LEMMA GetDivides ==
    ASSUME TypeOK, Ring!Get
    PROVE  /\ line' \in Seq(Nat) /\ Len(line') <= PollSize
           /\ queue' \in Seq(Nat) /\ Len(queue') <= N
           /\ line' \o queue' = queue
           /\ line' = <<>> => queue = <<>> /\ queue' = <<>>
<1>1. /\ queue \in Seq(Nat) /\ Len(queue) \in Nat /\ Len(queue) <= N
      /\ N \in Nat /\ PollSize \in Nat
  BY AsyncAssumption DEF TypeOK
<1>2. PICK n \in 0..Ring!Lesser(PollSize, Len(queue)) :
        /\ n = 0 => queue = <<>>
        /\ line' = SubSeq(queue, 1, n)
        /\ queue' = SubSeq(queue, n + 1, Len(queue))
  BY DEF Ring!Get
<1>3. n \in 0..Len(queue) /\ n <= PollSize /\ n \in Nat
  BY ONLY <1>1, n \in 0..Ring!Lesser(PollSize, Len(queue)) DEF Ring!Lesser
<1>4. /\ line' \in Seq(Nat) /\ Len(line') = n
      /\ queue' \in Seq(Nat) /\ Len(queue') = Len(queue) - n
      /\ line' \o queue' = queue
  BY ONLY <1>1, <1>2, <1>3, Cut
<1>5. ASSUME line' = <<>> PROVE queue = <<>> /\ queue' = <<>>
  <2>1. n = 0
    BY ONLY <1>4, <1>5
  <2>2. queue = <<>> /\ Len(queue') = 0
    BY ONLY <1>1, <1>2, <1>3, <1>4, <2>1
  <2> QED BY ONLY <1>4, <2>2, EmptySeq
<1>6. Len(line') <= PollSize /\ Len(queue') <= N
  BY ONLY <1>1, <1>3, <1>4
<1> QED BY ONLY <1>4, <1>5, <1>6

-----------------------------------------------------------------------------
\* Initially everything is empty and nobody is inside.
LEMMA InitIInv == Init => IInv
<1> SUFFICES ASSUME Init PROVE IInv
  OBVIOUS
<1> USE DEF Init, Ring!Init
<1>1. <<>> \in Seq(Nat) /\ Len(<<>>) = 0
  OBVIOUS
<1>2. TypeOK /\ Histories
  <2>1. /\ queue \in Seq(Nat) /\ Len(queue) <= N
        /\ line \in Seq(Nat) /\ Len(line) <= PollSize
    BY <1>1, AsyncAssumption
  <2>2. log \in [Thread -> Seq(Nat)]
    BY <1>1
  <2>3. calls \in 0..MaxLogs /\ inits \in 0..MaxInits /\ starts \in 0..MaxStarts
    BY AsyncAssumption
  <2> QED BY <1>1, <2>1, <2>2, <2>3 DEF TypeOK, Histories
<1>3. Holder /\ LifeCycle /\ Destroyed /\ Holds
  BY AsyncAssumption DEF Holder, LifeCycle, Destroyed, Holds, Thread
<1>4. printed \o line \o queue = <<>>
  OBVIOUS
<1> QED BY <1>2, <1>3, <1>4 DEF IInv, NoLostWakeup, OutputInOrder, Counted

\* A step that leaves the bytes where they are.
BytesStay == UNCHANGED <<queue, line, printed, emitted>>

\* What such a step has to show.
LEMMA Kept ==
    ASSUME IInv, BytesStay, TypeOK', Holder', LifeCycle', Destroyed', Holds', NoLostWakeup',
           past' = "started" => past = "started"
    PROVE  IInv'
<1>1. Histories' /\ Counted'
  <2>1. printed' \o line' \o queue' = printed \o line \o queue /\ emitted' = emitted
    BY DEF BytesStay
  <2> QED BY <2>1 DEF IInv, BytesStay, Histories, Counted
<1>2. OutputInOrder'
  BY DEF IInv, BytesStay, OutputInOrder
<1> QED BY <1>1, <1>2 DEF IInv

\* The steps of a log call that take and give back the lock.
LEMMA CallerBeginsIInv ==
    ASSUME IInv, ~undefined, NEW c \in Caller, NEW l \in Log, CallerBegins(c, l)
    PROVE  IInv'
<1> USE DEF CallerBegins, Begin, ring, flags, hist, end
<1>1. TypeOK'
  BY AsyncAssumption DEF IInv, TypeOK, Thread
<1>2. Holder'
  BY DEF IInv, TypeOK, Holder
<1>3. c # Main /\ c \in Thread
  BY AsyncAssumption DEF Thread
<1>4. LifeCycle' /\ Holds' /\ NoLostWakeup'
  BY <1>3 DEF IInv, TypeOK, LifeCycle, Holds, NoLostWakeup
<1>5. Destroyed'
  BY <1>3 DEF IInv, TypeOK, Destroyed
<1>6. BytesStay
  BY DEF BytesStay
<1> QED BY <1>1, <1>2, <1>4, <1>5, <1>6, Kept

\* Filter keeps the inductive invariant.
LEMMA FilterIInv == ASSUME IInv, ~undefined, NEW t \in Thread, Filter(t) PROVE IInv'
<1> USE DEF Filter, ring, flags, hist, count, end
<1>1. TypeOK'
  BY DEF IInv, TypeOK
<1>2. Holder' /\ LifeCycle' /\ Destroyed' /\ Holds' /\ NoLostWakeup'
  BY DEF IInv, TypeOK, Holder, LifeCycle, Destroyed, Holds, NoLostWakeup
<1>3. BytesStay
  BY DEF BytesStay
<1> QED BY <1>1, <1>2, <1>3, Kept

\* Lock keeps the inductive invariant.
LEMMA LockIInv == ASSUME IInv, ~undefined, NEW t \in Thread, Lock(t) PROVE IInv'
<1> USE DEF Lock, ring, flags, hist, count, end
<1>1. TypeOK'
  BY DEF IInv, TypeOK
<1>2. Holder'
  BY AsyncAssumption DEF IInv, TypeOK, Holder
<1>3. LifeCycle' /\ Destroyed' /\ Holds' /\ NoLostWakeup'
  BY DEF IInv, TypeOK, LifeCycle, Destroyed, Holds, NoLostWakeup
<1>4. BytesStay
  BY DEF BytesStay
<1> QED BY <1>1, <1>2, <1>3, <1>4, Kept

\* Notice keeps the inductive invariant.
LEMMA NoticeIInv == ASSUME IInv, ~undefined, NEW t \in Thread, Notice(t) PROVE IInv'
<1> USE DEF Notice, ring, flags, hist, count, end
<1>1. TypeOK'
  BY DEF IInv, TypeOK
<1>2. Holder' /\ LifeCycle' /\ Destroyed' /\ Holds'
  BY DEF IInv, TypeOK, Holder, LifeCycle, Destroyed, Holds
<1>3. NoLostWakeup'
  BY DEF IInv, TypeOK, NoLostWakeup
<1>4. BytesStay
  BY DEF BytesStay
<1> QED BY <1>1, <1>2, <1>3, <1>4, Kept

\* What ends the behaviour leaves everything else as it is; none of it comes
\* after an orderly deinit.
LEMMA UndefinedIInv ==
    ASSUME IInv, ~undefined, NEW t \in Thread, LockDestroyed(t) \/ NoticeDestroyed(t)
    PROVE  IInv'
<1> USE DEF LockDestroyed, NoticeDestroyed, ring, flags, hist, count
<1>1. TypeOK' /\ Holder'
  BY DEF IInv, TypeOK, Holder
<1>2. LifeCycle' /\ Destroyed' /\ Holds' /\ NoLostWakeup'
  BY DEF IInv, TypeOK, LifeCycle, Destroyed, Holds, NoLostWakeup
<1>3. BytesStay
  BY DEF BytesStay
<1> QED BY <1>1, <1>2, <1>3, Kept

\* Unlock keeps the inductive invariant.
LEMMA UnlockIInv == ASSUME IInv, ~undefined, NEW t \in Thread, Unlock(t) PROVE IInv'
<1> USE DEF Unlock, ring, flags, hist, count, end
<1>1. TypeOK'
  BY DEF IInv, TypeOK
<1>2. Holder'
  BY AsyncAssumption DEF IInv, TypeOK, Holder
<1>3. LifeCycle' /\ Destroyed' /\ Holds' /\ NoLostWakeup'
  BY DEF IInv, TypeOK, LifeCycle, Destroyed, Holds, NoLostWakeup
<1>4. BytesStay
  BY DEF BytesStay
<1> QED BY <1>1, <1>2, <1>3, <1>4, Kept

\* The two steps that accept bytes.
LEMMA StoreIInv == ASSUME IInv, ~undefined, NEW t \in Thread, Store(t) PROVE IInv'
<1> USE DEF Store, flags, count, end
<1> DEFINE p == SubSeq(log[t], 1, Len(queue') - Len(queue))
<1>1. TypeOK /\ log[t] \in Seq(Nat)
  BY DEF IInv, TypeOK
<1>2. /\ p \in Seq(Nat) /\ queue' = queue \o p /\ line' = line
      /\ queue' \in Seq(Nat) /\ Len(queue') <= N
  BY <1>1, PutGrows
<1>3. emitted' = emitted \o p /\ printed' = printed
  OBVIOUS
<1> HIDE DEF p
<1>4. /\ queue \in Seq(Nat) /\ line \in Seq(Nat) /\ printed \in Seq(Nat) /\ emitted \in Seq(Nat)
      /\ printed \o line \in Seq(Nat) /\ printed \o line \o queue \in Seq(Nat)
  BY ConcatProperties DEF IInv, TypeOK, Histories
<1>5. TypeOK' /\ Histories'
  <2>1. emitted' \in Seq(Nat)
    BY ONLY <1>2, <1>3, <1>4, ConcatProperties
  <2>2. Histories'
    BY <1>3, <1>4, <2>1 DEF Histories
  <2>3. TypeOK'
    BY <1>2 DEF IInv, TypeOK
  <2> QED BY <2>2, <2>3
<1>6. Holder' /\ LifeCycle' /\ Destroyed'
  BY DEF IInv, TypeOK, Holder, LifeCycle, Destroyed
<1>7. init_ok
  BY AsyncAssumption DEF IInv, TypeOK, Holder, Destroyed
<1>8. Holds'
  BY <1>2, <1>7 DEF IInv, Holds
<1>9. NoLostWakeup'
  <2>1. CASE queue' = queue
    BY <2>1 DEF IInv, TypeOK, NoLostWakeup
  <2>2. CASE queue' # queue
    <3>1. pc'[t] = "notice"
      BY <2>2 DEF IInv, TypeOK
    <3> QED BY <3>1 DEF NoLostWakeup
  <2> QED BY <2>1, <2>2
<1>10. printed' \o line' \o queue' = (printed \o line \o queue) \o p
  <2>1. (printed \o line) \o (queue \o p) = ((printed \o line) \o queue) \o p
    <3>1. p \in Seq(Nat) /\ queue \in Seq(Nat) /\ printed \o line \in Seq(Nat)
      BY <1>2, <1>4
    <3> QED BY ONLY <3>1, Regroup
  <2> QED BY ONLY <1>2, <1>3, <2>1
<1>11. OutputInOrder'
  BY <1>3, <1>10 DEF IInv, OutputInOrder
<1>12. Counted'
  <2> SUFFICES ASSUME NEW b
               PROVE  CountOf(b, (printed \o line \o queue) \o p) = CountOf(b, emitted \o p)
    BY <1>3, <1>10 DEF Counted
  <2>1. CountOf(b, printed \o line \o queue) = CountOf(b, emitted)
    BY DEF IInv, Counted
  <2>2. CountOf(b, (printed \o line \o queue) \o p)
          = CountOf(b, printed \o line \o queue) + CountOf(b, p)
    BY ONLY <1>2, <1>4, CountConcat
  <2>3. CountOf(b, emitted \o p) = CountOf(b, emitted) + CountOf(b, p)
    BY ONLY <1>2, <1>4, CountConcat
  <2> QED BY ONLY <2>1, <2>2, <2>3
<1> QED BY <1>5, <1>6, <1>8, <1>9, <1>11, <1>12 DEF IInv

\* Direct keeps the inductive invariant.
LEMMA DirectIInv == ASSUME IInv, ~undefined, NEW t \in Thread, Direct(t) PROVE IInv'
<1> USE DEF Direct, ring, flags, count, end
<1> DEFINE l == log[t]
<1>1. /\ queue \in Seq(Nat) /\ line \in Seq(Nat) /\ printed \in Seq(Nat) /\ emitted \in Seq(Nat)
      /\ l \in Seq(Nat)
  BY DEF IInv, TypeOK, Histories
<1>2. emitted' = emitted \o l /\ printed' = printed \o l /\ queue' = queue /\ line' = line
  OBVIOUS
<1> HIDE DEF l
<1>3. TypeOK' /\ Histories'
  BY <1>1, <1>2, ConcatProperties DEF IInv, TypeOK, Histories
<1>4. Holder' /\ LifeCycle' /\ Destroyed' /\ Holds' /\ NoLostWakeup'
  BY DEF IInv, TypeOK, Holder, LifeCycle, Destroyed, Holds, NoLostWakeup
<1>5. OutputInOrder'
  <2> SUFFICES ASSUME past = "started" PROVE printed' \o line' \o queue' = emitted'
    BY DEF OutputInOrder
  <2>1. queue = <<>> /\ line = <<>>
    BY DEF IInv, Holds
  <2>2. \A s \in Seq(Nat) : s \o <<>> = s
    BY ConcatEmptySeq
  <2>3. printed' \in Seq(Nat)
    BY <1>3 DEF Histories
  <2>4. printed = emitted
    BY <1>1, <2>1, <2>2 DEF IInv, OutputInOrder
  <2> QED BY <1>2, <2>1, <2>2, <2>3, <2>4
<1>6. Counted'
  <2> SUFFICES ASSUME NEW b
               PROVE  CountOf(b, (printed \o l) \o line \o queue) = CountOf(b, emitted \o l)
    BY <1>2 DEF Counted
  <2>1. CountOf(b, printed \o line \o queue) = CountOf(b, emitted)
    BY DEF IInv, Counted
  <2>2. /\ printed \o l \in Seq(Nat) /\ (printed \o l) \o line \in Seq(Nat)
        /\ printed \o line \in Seq(Nat)
    BY <1>1, ConcatProperties
  <2>3. CountOf(b, printed \o line \o queue)
          = CountOf(b, printed) + CountOf(b, line) + CountOf(b, queue)
    <3>1. CountOf(b, (printed \o line) \o queue) = CountOf(b, printed \o line) + CountOf(b, queue)
      BY ONLY <1>1, <2>2, CountConcat
    <3>2. CountOf(b, printed \o line) = CountOf(b, printed) + CountOf(b, line)
      BY ONLY <1>1, CountConcat
    <3> QED BY ONLY <3>1, <3>2
  <2>4. CountOf(b, (printed \o l) \o line \o queue)
          = CountOf(b, printed) + CountOf(b, l) + CountOf(b, line) + CountOf(b, queue)
    <3>1. CountOf(b, ((printed \o l) \o line) \o queue)
            = CountOf(b, (printed \o l) \o line) + CountOf(b, queue)
      BY ONLY <1>1, <2>2, CountConcat
    <3>2. CountOf(b, (printed \o l) \o line) = CountOf(b, printed \o l) + CountOf(b, line)
      BY ONLY <1>1, <2>2, CountConcat
    <3>3. CountOf(b, printed \o l) = CountOf(b, printed) + CountOf(b, l)
      BY ONLY <1>1, CountConcat
    <3> QED BY ONLY <3>1, <3>2, <3>3
  <2>5. CountOf(b, emitted \o l) = CountOf(b, emitted) + CountOf(b, l)
    BY <1>1, CountConcat
  <2>6. CountOf(b, printed) \in Nat /\ CountOf(b, l) \in Nat /\ CountOf(b, line) \in Nat
        /\ CountOf(b, queue) \in Nat
    BY <1>1, CountConcat
  <2>7. CountOf(b, emitted \o l) = CountOf(b, printed) + CountOf(b, line) + CountOf(b, queue)
                                    + CountOf(b, l)
    BY ONLY <2>1, <2>3, <2>5
  <2> QED BY ONLY <2>4, <2>6, <2>7
<1> QED BY <1>3, <1>4, <1>5, <1>6 DEF IInv

-----------------------------------------------------------------------------
\* The output thread.
LEMMA ReadRunningIInv == ASSUME IInv, ~undefined, ReadRunning PROVE IInv'
<1> USE DEF ReadRunning, ring, flags, hist, count, end
<1>1. TypeOK' /\ Holder'
  BY DEF IInv, TypeOK, Holder
<1>2. LifeCycle' /\ Destroyed' /\ Holds' /\ NoLostWakeup'
  BY DEF IInv, TypeOK, LifeCycle, Destroyed, Holds, NoLostWakeup
<1>3. BytesStay
  BY DEF BytesStay
<1> QED BY <1>1, <1>2, <1>3, Kept

\* Wait keeps the inductive invariant.
LEMMA WaitIInv == ASSUME IInv, ~undefined, Wait PROVE IInv'
<1> USE DEF Wait, ring, flags, hist, count, end
<1>1. TypeOK' /\ Holder'
  BY DEF IInv, TypeOK, Holder
<1>2. LifeCycle' /\ Destroyed' /\ Holds' /\ NoLostWakeup'
  BY DEF IInv, TypeOK, LifeCycle, Destroyed, Holds, NoLostWakeup
<1>3. BytesStay
  BY DEF BytesStay
<1> QED BY <1>1, <1>2, <1>3, Kept

\* Get keeps the inductive invariant.
LEMMA GetIInv == ASSUME IInv, ~undefined, Get PROVE IInv'
<1> USE DEF Get, flags, hist, count, end
<1>1. /\ line' \in Seq(Nat) /\ Len(line') <= PollSize
      /\ queue' \in Seq(Nat) /\ Len(queue') <= N
      /\ line' \o queue' = queue
      /\ line' = <<>> => queue = <<>> /\ queue' = <<>>
  BY GetDivides DEF IInv
<1>2. line = <<>> /\ init_ok
  BY DEF IInv, Holds, LifeCycle
<1>3. TypeOK' /\ Histories'
  BY <1>1 DEF IInv, TypeOK, Histories
<1>4. Holder' /\ LifeCycle' /\ Destroyed'
  BY <1>2 DEF IInv, TypeOK, Holder, LifeCycle, Destroyed
<1>5. Holds'
  <2>1. queue = <<>> => line' = <<>> /\ queue' = <<>>
    BY <1>1, ConcatEqualIffEmpty
  <2> QED BY <1>1, <1>2, <2>1 DEF IInv, Holds
<1>6. NoLostWakeup'
  BY <1>1 DEF IInv, NoLostWakeup
<1>7. printed' \o line' \o queue' = printed \o line \o queue
  <2>1. printed \in Seq(Nat) /\ queue \in Seq(Nat)
    BY DEF IInv, TypeOK, Histories
  <2>2. printed \o <<>> = printed
    BY <2>1, ConcatEmptySeq
  <2>3. (printed \o line') \o queue' = printed \o (line' \o queue')
    BY ONLY <1>1, <2>1, Regroup, ZenonT(60)
  <2> QED BY <1>1, <1>2, <2>2, <2>3
<1>8. OutputInOrder' /\ Counted'
  BY <1>7 DEF IInv, OutputInOrder, Counted
<1> QED BY <1>3, <1>4, <1>5, <1>6, <1>8 DEF IInv

\* PrintLine keeps the inductive invariant.
LEMMA PrintLineIInv == ASSUME IInv, ~undefined, PrintLine PROVE IInv'
<1> USE DEF PrintLine, flags, count, end
<1>1. /\ queue \in Seq(Nat) /\ line \in Seq(Nat) /\ printed \in Seq(Nat)
      /\ printed \o line \in Seq(Nat)
  BY ConcatProperties DEF IInv, TypeOK, Histories
<1>2. <<>> \in Seq(Nat) /\ Len(<<>>) <= PollSize
  BY AsyncAssumption
<1>3. TypeOK' /\ Histories'
  BY <1>1, <1>2 DEF IInv, TypeOK, Histories
<1>4. Holder' /\ LifeCycle' /\ Destroyed' /\ Holds' /\ NoLostWakeup'
  BY DEF IInv, TypeOK, Holder, LifeCycle, Destroyed, Holds, NoLostWakeup
<1>5. printed' \o line' \o queue' = printed \o line \o queue
  <2>1. (printed \o line) \o <<>> = printed \o line
    BY <1>1, ConcatEmptySeq
  <2> QED BY <2>1
<1>6. OutputInOrder' /\ Counted'
  BY <1>5 DEF IInv, OutputInOrder, Counted
<1> QED BY <1>3, <1>4, <1>6 DEF IInv

-----------------------------------------------------------------------------
\* The main thread.
LEMMA ElogInitIInv == ASSUME IInv, ~undefined, ElogInit PROVE IInv'
<1> USE DEF ElogInit, ring, hist, end
<1>1. TypeOK'
  BY AsyncAssumption DEF IInv, TypeOK
<1>2. Holder'
  BY DEF IInv, Destroyed, Holder
<1>3. LifeCycle' /\ Destroyed' /\ Holds' /\ NoLostWakeup'
  BY DEF IInv, TypeOK, LifeCycle, Destroyed, Holds, NoLostWakeup
<1>4. BytesStay
  BY DEF BytesStay
<1> QED BY <1>1, <1>2, <1>3, <1>4, Kept

\* ElogStart keeps the inductive invariant.
LEMMA ElogStartIInv == ASSUME IInv, ~undefined, ElogStart PROVE IInv'
<1> USE DEF ElogStart, ring, hist, end
<1>1. TypeOK'
  BY AsyncAssumption DEF IInv, TypeOK
<1>2. Holder' /\ LifeCycle' /\ Destroyed' /\ Holds' /\ NoLostWakeup'
  BY DEF IInv, TypeOK, Holder, LifeCycle, Destroyed, Holds, NoLostWakeup
<1>3. BytesStay
  BY DEF BytesStay
<1> QED BY <1>1, <1>2, <1>3, Kept

\* ElogStop keeps the inductive invariant.
LEMMA ElogStopIInv == ASSUME IInv, ~undefined, ElogStop PROVE IInv'
<1> USE DEF ElogStop, ring, hist, end
<1>1. TypeOK'
  BY DEF IInv, TypeOK
<1>2. Holder' /\ LifeCycle' /\ Destroyed' /\ Holds' /\ NoLostWakeup'
  BY DEF IInv, TypeOK, Holder, LifeCycle, Destroyed, Holds, NoLostWakeup
<1>3. BytesStay
  BY DEF BytesStay
<1> QED BY <1>1, <1>2, <1>3, Kept

\* AsyncEnabled keeps the inductive invariant.
LEMMA AsyncEnabledIInv == ASSUME IInv, ~undefined, AsyncEnabled PROVE IInv'
<1> USE DEF AsyncEnabled, ring, hist, count, end
<1>1. TypeOK'
  BY DEF IInv, TypeOK
<1>2. Holder' /\ LifeCycle' /\ Destroyed' /\ Holds' /\ NoLostWakeup'
  BY DEF IInv, TypeOK, Holder, LifeCycle, Destroyed, Holds, NoLostWakeup
<1>3. BytesStay
  BY DEF BytesStay
<1> QED BY <1>1, <1>2, <1>3, Kept

\* SayVersion keeps the inductive invariant.
LEMMA SayVersionIInv == ASSUME IInv, ~undefined, SayVersion PROVE IInv'
<1> USE DEF SayVersion, Begin, ring, flags, hist, count, end
<1>1. TypeOK'
  BY AsyncAssumption DEF IInv, TypeOK, Thread
<1>2. Holder'
  BY DEF IInv, TypeOK, Holder
<1>3. LifeCycle' /\ Destroyed' /\ Holds' /\ NoLostWakeup'
  BY DEF IInv, TypeOK, LifeCycle, Destroyed, Holds, NoLostWakeup, Thread
<1>4. BytesStay
  BY DEF BytesStay
<1> QED BY <1>1, <1>2, <1>3, <1>4, Kept

\* ElogDeinit keeps the inductive invariant.
LEMMA ElogDeinitIInv == ASSUME IInv, ~undefined, ElogDeinit PROVE IInv'
<1> USE DEF ElogDeinit, ring, hist, Thread
<1>1. TypeOK'
  BY DEF IInv, TypeOK
<1>2. Holder' /\ LifeCycle' /\ Destroyed' /\ Holds' /\ NoLostWakeup'
  BY DEF IInv, TypeOK, Holder, LifeCycle, Destroyed, Holds, NoLostWakeup
<1>3. BytesStay
  BY DEF BytesStay
<1> QED BY <1>1, <1>2, <1>3, Kept

\* DeinitNotice keeps the inductive invariant.
LEMMA DeinitNoticeIInv == ASSUME IInv, ~undefined, DeinitNotice PROVE IInv'
<1> USE DEF DeinitNotice, ring, flags, hist, count, end
<1>1. TypeOK'
  BY DEF IInv, TypeOK
<1>2. Holder' /\ LifeCycle' /\ Destroyed' /\ Holds' /\ NoLostWakeup'
  BY DEF IInv, TypeOK, Holder, LifeCycle, Destroyed, Holds, NoLostWakeup
<1>3. BytesStay
  BY DEF BytesStay
<1> QED BY <1>1, <1>2, <1>3, Kept

\* Join keeps the inductive invariant.
LEMMA JoinIInv == ASSUME IInv, ~undefined, Join PROVE IInv'
<1> USE DEF Join, ring, flags, hist, count, end
<1>1. TypeOK'
  BY DEF IInv, TypeOK
<1>2. Holder' /\ LifeCycle' /\ Destroyed' /\ Holds' /\ NoLostWakeup'
  BY DEF IInv, TypeOK, Holder, LifeCycle, Destroyed, Holds, NoLostWakeup
<1>3. BytesStay
  BY DEF BytesStay
<1> QED BY <1>1, <1>2, <1>3, Kept

\* PortDeinit keeps the inductive invariant.
LEMMA PortDeinitIInv == ASSUME IInv, ~undefined, PortDeinit PROVE IInv'
<1> USE DEF PortDeinit, ring, hist, count
<1>1. TypeOK'
  BY DEF IInv, TypeOK
<1>2. orderly => lock = NoOne
  BY DEF IInv, Destroyed, Holder, TypeOK
<1>3. Holder' /\ LifeCycle' /\ Destroyed' /\ Holds' /\ NoLostWakeup'
  BY <1>2 DEF IInv, TypeOK, Holder, LifeCycle, Destroyed, Holds, NoLostWakeup
<1>4. BytesStay
  BY DEF BytesStay
<1> QED BY <1>1, <1>3, <1>4, Kept

-----------------------------------------------------------------------------
\* Every step preserves the invariant.
LEMMA NextIInv == IInv /\ [Next]_vars => IInv'
<1> SUFFICES ASSUME IInv, [Next]_vars PROVE IInv'
  OBVIOUS
<1>1. ASSUME ~undefined, NEW c \in Caller, NEW l \in Log, CallerBegins(c, l) PROVE IInv'
  BY <1>1, CallerBeginsIInv
<1>2. ASSUME ~undefined, NEW t \in Thread, Logging(t) PROVE IInv'
  BY <1>2, FilterIInv, LockIInv, StoreIInv, DirectIInv, NoticeIInv, UnlockIInv,
     UndefinedIInv DEF Logging
<1>3. CASE ~undefined /\ OutputThread
  BY <1>3, ReadRunningIInv, WaitIInv, GetIInv, PrintLineIInv DEF OutputThread
<1>4. CASE ~undefined /\ (ElogInit \/ ElogStart \/ ElogStop \/ ElogDeinit)
  BY <1>4, ElogInitIInv, ElogStartIInv, ElogStopIInv, ElogDeinitIInv
<1>5. CASE ~undefined /\ Life
  BY <1>5, AsyncEnabledIInv, SayVersionIInv, DeinitNoticeIInv, JoinIInv,
     PortDeinitIInv DEF Life
<1>6. CASE UNCHANGED vars
  <2> USE <1>6 DEF vars, ring, flags, count, end, hist
  <2>1. TypeOK' /\ Holder' /\ LifeCycle' /\ Destroyed' /\ Holds' /\ NoLostWakeup'
    BY DEF IInv, TypeOK, Holder, LifeCycle, Destroyed, Holds, NoLostWakeup
  <2>2. BytesStay
    BY DEF BytesStay
  <2> QED BY <2>1, <2>2, Kept
<1> QED BY <1>1, <1>2, <1>3, <1>4, <1>5, <1>6 DEF Next

\* The inductive invariant holds in every reachable state.
THEOREM IInvAlways == Spec => []IInv
BY InitIInv, NextIInv, PTL DEF Spec

\* Types; in particular the ring never holds more than it has room for.
THEOREM TypeCorrect == Spec => []TypeOK
<1>1. IInv => TypeOK
  BY DEF IInv
<1> QED BY <1>1, IInvAlways, PTL

\* The output thread never sleeps on stored bytes that nobody will wake it for,
\* until a deinit.
THEOREM NoLostWakeupAlways == Spec => []NoLostWakeup
<1>1. IInv => NoLostWakeup
  BY DEF IInv
<1> QED BY <1>1, IInvAlways, PTL

\* Until a stop, the bytes leave in the order in which the lock accepted them.
THEOREM OutputInOrderAlways == Spec => []OutputInOrder
<1>1. IInv => OutputInOrder
  BY DEF IInv
<1> QED BY <1>1, IInvAlways, PTL

\* Whatever starts, stops, deinits and inits come in between, each accepted byte
\* is printed once, in hand or still stored.
THEOREM NothingLostOrTwiceAlways == Spec => []NothingLostOrTwice
<1>1. IInv => NothingLostOrTwice
  BY DEF IInv, Counted, NothingLostOrTwice
<1> QED BY <1>1, IInvAlways, PTL

\* After an elog_deinit that found the output disabled and nobody in a log call,
\* no thread uses the mutex or the semaphore it destroys, whatever calls come.
THEOREM OrderlyDeinitIsSafeAlways == Spec => []OrderlyDeinitIsSafe
<1>1. IInv => OrderlyDeinitIsSafe
  BY DEF IInv, Destroyed, OrderlyDeinitIsSafe
<1> QED BY <1>1, IInvAlways, PTL

\* At most one thread is between elog_output_lock and elog_output_unlock, where
\* log_buf is in use.
THEOREM OneInsideAlways == Spec => []OneInside
<1>1. IInv => OneInside
  BY DEF IInv, Holder, OneInside
<1> QED BY <1>1, IInvAlways, PTL
=============================================================================
