--------------------------- MODULE ElogFile_proofs ---------------------------
(***************************************************************************)
(* For every number and size of files, every set of lines and whatever     *)
(* fails: the log files stay bounded, hold the latest lines in order, and  *)
(* lose nothing while nothing fails.                                       *)
(***************************************************************************)
EXTENDS ElogFile, TLAPS, ProofFacts, SequenceTheorems

-----------------------------------------------------------------------------
\* The size of lines.
LEMMA SizeType == \A s \in Seq(Line) : \A i \in 1..Len(s) : s[i].size \in Nat
<1> SUFFICES ASSUME NEW s \in Seq(Line), NEW i \in 1..Len(s) PROVE s[i].size \in Nat
  OBVIOUS
<1>1. \A l \in Line : l.size \in LineSize
  BY DEF Line
<1> HIDE DEF Line
<1>2. s[i] \in Line
  OBVIOUS
<1>3. s[i].size \in LineSize
  BY <1>1, <1>2
<1>4. LineSize \subseteq Nat
  BY FileAssumption
<1> QED BY <1>3, <1>4

\* Bytes sums the sizes from the first line on.
LEMMA SumDoes ==
    ASSUME NEW s \in Seq(Line)
    PROVE  \E f \in [0..Len(s) -> Nat] :
               /\ f[0] = 0 /\ \A i \in 1..Len(s) : f[i] = f[i - 1] + s[i].size
               /\ Bytes(s) = f[Len(s)]
<1> DEFINE N == Len(s)
           sums(f) == f = [i \in 0..N |-> IF i = 0 THEN 0 ELSE f[i - 1] + s[i].size]
           sum == CHOOSE f : sums(f)
           step == [i \in 1..N |-> [x \in Nat |-> x + s[i].size]]
<1>1. N \in Nat /\ \A i \in 1..N : s[i].size \in Nat
  BY SizeType
<1>2. Bytes(s) = sum[N]
  BY DEF Bytes
<1> HIDE DEF N
<1>3. step \in [1..N -> [Nat -> Nat]]
  BY <1>1
<1>4. PICK f \in [0..N -> Nat] : Recurs(f, N, 0, step)
  <2> HIDE DEF step
  <2> QED BY <1>1, <1>3, Recursion
<1>5. ASSUME NEW i \in 0..N
      PROVE  f[i] = IF i = 0 THEN 0 ELSE f[i - 1] + s[i].size
  <2>1. i # 0 => i \in 1..N /\ i - 1 \in 0..N
    BY <1>1
  <2> QED BY <1>4, <2>1 DEF Recurs
<1>6. sums(f)
  BY <1>4, <1>5
<1>7. sums(sum)
  <2> HIDE DEF sums
  <2> QED BY <1>6
<1> HIDE DEF sum
<1>8. sum[0] = 0 /\ \A i \in 1..N : sum[i] = sum[i - 1] + s[i].size
  <2>1. 0 \in 0..N /\ \A i \in 1..N : i \in 0..N /\ i # 0
    BY <1>1
  <2> QED BY <1>7, <2>1
<1>9. \A i \in 0..N : i \in {j \in 0..N : sum[j] \in Nat}
  <2> DEFINE Good == {j \in 0..N : sum[j] \in Nat}
  <2>1. 0 \in Good
    BY <1>1, <1>8
  <2>2. ASSUME NEW i \in 1..N, i - 1 \in Good PROVE i \in Good
    <3>1. sum[i] = sum[i - 1] + s[i].size /\ s[i].size \in Nat /\ sum[i - 1] \in Nat
      BY <1>1, <1>8, <2>2
    <3>2. sum[i] \in Nat
      BY <3>1
    <3>3. i \in 0..N
      BY <1>1
    <3> QED BY <3>2, <3>3
  <2> HIDE DEF Good
  <2>3. \A i \in 0..N : i \in Good
    BY <1>1, <2>1, <2>2, Induction
  <2> QED BY <2>3 DEF Good
<1>10. sum \in [0..N -> Nat]
  BY <1>7, <1>9
<1> QED BY <1>2, <1>8, <1>10 DEF N

\* The size of lines is a number.
LEMMA BytesType == \A s \in Seq(Line) : Bytes(s) \in Nat
<1> SUFFICES ASSUME NEW s \in Seq(Line) PROVE Bytes(s) \in Nat
  OBVIOUS
<1>1. PICK f \in [0..Len(s) -> Nat] : Bytes(s) = f[Len(s)]
  BY SumDoes
<1>2. Len(s) \in 0..Len(s)
  OBVIOUS
<1> QED BY <1>1, <1>2

\* No lines have no size.
LEMMA BytesEmpty == Bytes(<<>>) = 0
<1>1. <<>> \in Seq(Line) /\ Len(<<>>) = 0
  OBVIOUS
<1> QED BY <1>1, SumDoes

\* One line has its own size.
LEMMA BytesOne == \A l \in Line : Bytes(<<l>>) = l.size
<1> SUFFICES ASSUME NEW l \in Line PROVE Bytes(<<l>>) = l.size
  OBVIOUS
<1> DEFINE s == <<l>>
<1>1. s \in Seq(Line) /\ Len(s) = 1 /\ s[1] = l
  OBVIOUS
<1> HIDE DEF s
<1>2. l.size \in Nat
  <2>1. 1 \in 1..Len(s)
    BY <1>1
  <2> QED BY <1>1, <2>1, SizeType
<1>3. PICK f \in [0..Len(s) -> Nat] :
          /\ f[0] = 0 /\ \A i \in 1..Len(s) : f[i] = f[i - 1] + s[i].size
          /\ Bytes(s) = f[Len(s)]
  BY <1>1, SumDoes
<1>4. f[1] = f[0] + l.size
  BY <1>1, <1>3
<1>5. Bytes(s) = l.size
  BY <1>1, <1>3, <1>4, <1>2
<1> QED BY <1>5 DEF s

\* The sizes of two parts add up.
LEMMA BytesConcat == \A a, b \in Seq(Line) : Bytes(a \o b) = Bytes(a) + Bytes(b)
<1> SUFFICES ASSUME NEW a \in Seq(Line), NEW b \in Seq(Line)
             PROVE  Bytes(a \o b) = Bytes(a) + Bytes(b)
  OBVIOUS
<1> DEFINE A == Len(a)
           B == Len(b)
           c == a \o b
<1>1. /\ c \in Seq(Line) /\ Len(c) = A + B /\ A \in Nat /\ B \in Nat
      /\ \A i \in 1..A : c[i] = a[i]
      /\ \A i \in 1..B : c[A + i] = b[i]
  OBVIOUS
<1> HIDE DEF c
<1>2. PICK f \in [0..A -> Nat] :
          /\ f[0] = 0 /\ \A i \in 1..A : f[i] = f[i - 1] + a[i].size
          /\ Bytes(a) = f[A]
  BY SumDoes
<1>3. PICK g \in [0..B -> Nat] :
          /\ g[0] = 0 /\ \A i \in 1..B : g[i] = g[i - 1] + b[i].size
          /\ Bytes(b) = g[B]
  BY SumDoes
<1>4. PICK h \in [0..A + B -> Nat] :
          /\ h[0] = 0 /\ \A i \in 1..A + B : h[i] = h[i - 1] + c[i].size
          /\ Bytes(c) = h[A + B]
  BY <1>1, SumDoes
<1>5. \A i \in 1..B : b[i].size \in Nat
  BY SizeType
<1> HIDE DEF A, B
<1>6. h[A] = f[A]
  <2> DEFINE Good == {i \in 0..A : h[i] = f[i]}
  <2>1. 0 \in Good
    BY <1>1, <1>2, <1>4
  <2>2. ASSUME NEW i \in 1..A, i - 1 \in Good PROVE i \in Good
    <3>1. i \in 1..A + B /\ i \in 0..A
      BY <1>1
    <3>2. h[i] = h[i - 1] + c[i].size /\ f[i] = f[i - 1] + a[i].size
      BY <1>2, <1>4, <3>1
    <3> QED BY <1>1, <2>2, <3>1, <3>2
  <2> HIDE DEF Good
  <2>3. \A i \in 0..A : i \in Good
    BY <1>1, <2>1, <2>2, Induction
  <2>4. A \in Good
    BY <1>1, <2>3
  <2> QED BY <2>4 DEF Good
<1>7. h[A + B] = f[A] + g[B]
  <2> DEFINE Good == {i \in 0..B : h[A + i] = f[A] + g[i]}
  <2>1. f[A] \in Nat /\ \A i \in 0..B : g[i] \in Nat
    BY <1>1, <1>2, <1>3
  <2>2. 0 \in Good
    BY <1>1, <1>3, <1>6, <2>1
  <2>3. ASSUME NEW i \in 1..B, i - 1 \in Good PROVE i \in Good
    <3>1. A + i \in 1..A + B /\ i \in 0..B /\ (A + i) - 1 = A + (i - 1) /\ i - 1 \in 0..B
      BY <1>1
    <3>2. h[A + i] = h[(A + i) - 1] + c[A + i].size /\ g[i] = g[i - 1] + b[i].size
      BY <1>3, <1>4, <3>1
    <3>3. h[A + i] = (f[A] + g[i - 1]) + b[i].size
      BY <1>1, <2>3, <3>1, <3>2
    <3>4. f[A] \in Nat /\ g[i - 1] \in Nat /\ b[i].size \in Nat
      BY <1>5, <2>1, <3>1
    <3>5. h[A + i] = f[A] + g[i]
      BY <3>2, <3>3, <3>4, SMTT(40)
    <3> QED BY <3>1, <3>5
  <2> HIDE DEF Good
  <2>4. \A i \in 0..B : i \in Good
    BY <1>1, <2>2, <2>3, Induction
  <2>5. B \in Good
    BY <1>1, <2>4
  <2> QED BY <2>5 DEF Good
<1> QED BY <1>2, <1>3, <1>4, <1>7 DEF c

-----------------------------------------------------------------------------
\* What is kept, file by file: pile[k] is what the files k, .., 0 hold.
Files == [0..MaxRotate -> Seq(Line)]
Piles(pile, f) ==
    /\ pile \in Files
    /\ pile[0] = f[0]
    /\ \A k \in 1..MaxRotate : pile[k] = f[k] \o pile[k - 1]

\* Kept piles the files up, from the log to the oldest one.
LEMMA KeptDoes == \A f \in Files : \E pile : Piles(pile, f) /\ Kept(f) = pile[MaxRotate]
<1> SUFFICES ASSUME NEW f \in Files
             PROVE  \E pile : Piles(pile, f) /\ Kept(f) = pile[MaxRotate]
  OBVIOUS
<1> DEFINE N == MaxRotate
           X == Seq(Line)
           kepts(g) == g = [k \in 0..N |-> IF k = 0 THEN f[0] ELSE f[k] \o g[k - 1]]
           kept == CHOOSE g : kepts(g)
           step == [k \in 1..N |-> [x \in X |-> f[k] \o x]]
<1>1. N \in Nat /\ N # 0 /\ f[0] \in X /\ \A k \in 1..N : f[k] \in X
  BY FileAssumption DEF Files
<1>2. Kept(f) = kept[N]
  BY DEF Kept
<1>3. step \in [1..N -> [X -> X]]
  <2>1. \A a, b \in X : a \o b \in X
    OBVIOUS
  <2> HIDE DEF X
  <2> QED BY <1>1, <2>1
<1> HIDE DEF N, X
<1>4. PICK g \in [0..N -> X] : Recurs(g, N, f[0], step)
  <2> HIDE DEF step
  <2> QED BY <1>1, <1>3, Recursion
<1>5. ASSUME NEW k \in 0..N
      PROVE  g[k] = IF k = 0 THEN f[0] ELSE f[k] \o g[k - 1]
  <2>1. k # 0 => k \in 1..N /\ k - 1 \in 0..N
    BY <1>1
  <2> QED BY <1>4, <2>1 DEF Recurs
<1>6. kepts(g)
  BY <1>4, <1>5
<1>7. kepts(kept)
  <2> HIDE DEF kepts
  <2> QED BY <1>6
<1> HIDE DEF kept
<1>8. kept[0] = f[0] /\ \A k \in 1..N : kept[k] = f[k] \o kept[k - 1]
  <2>1. 0 \in 0..N /\ \A k \in 1..N : k \in 0..N /\ k # 0
    BY <1>1
  <2> QED BY <1>7, <2>1
<1>9. \A k \in 0..N : k \in {j \in 0..N : kept[j] \in X}
  <2> DEFINE Good == {j \in 0..N : kept[j] \in X}
  <2>1. 0 \in Good
    BY <1>1, <1>8
  <2>2. ASSUME NEW k \in 1..N, k - 1 \in Good PROVE k \in Good
    <3>1. kept[k] = f[k] \o kept[k - 1] /\ f[k] \in X /\ kept[k - 1] \in X
      BY <1>1, <1>8, <2>2
    <3>2. kept[k] \in X
      BY <3>1 DEF X
    <3> QED BY <1>1, <3>2
  <2> HIDE DEF Good
  <2>3. \A k \in 0..N : k \in Good
    BY <1>1, <2>1, <2>2, Induction
  <2> QED BY <2>3 DEF Good
<1>10. kept \in [0..N -> X]
  BY <1>7, <1>9
<1>11. Piles(kept, f)
  BY <1>8, <1>10 DEF Piles, Files, N, X
<1> QED BY <1>2, <1>11 DEF N

Agree(f, g, ks) == \A j \in ks : f[j] = g[j]
Parted(p, q, k) ==
    \E b \in Seq(Line) : /\ p[MaxRotate] = b \o p[k] /\ q[MaxRotate] = b \o q[k]
                         /\ k = MaxRotate => b = <<>>

\* Where the files 0, .., k agree, so do their piles.
LEMMA PilesBelow ==
    ASSUME NEW f, NEW g, NEW p, NEW q, Piles(p, f), Piles(q, g),
           NEW k \in 0..MaxRotate, \A j \in 0..k : f[j] = g[j]
    PROVE  p[k] = q[k]
<1> DEFINE Good == {j \in 0..k : p[j] = q[j]}
<1>1. k \in Nat /\ MaxRotate \in Nat
  BY FileAssumption
<1>2. 0 \in Good
  BY <1>1 DEF Piles
<1>3. ASSUME NEW j \in 1..k, j - 1 \in Good PROVE j \in Good
  <2>1. j \in 1..MaxRotate /\ j \in 0..k
    BY <1>1
  <2>2. p[j] = f[j] \o p[j - 1] /\ q[j] = g[j] \o q[j - 1] /\ f[j] = g[j]
    BY <2>1 DEF Piles
  <2> QED BY <1>3, <2>1, <2>2
<1> HIDE DEF Good
<1>4. \A j \in 0..k : j \in Good
  BY <1>1, <1>2, <1>3, Induction
<1>5. k \in Good
  BY <1>1, <1>4
<1> QED BY <1>5 DEF Good

\* Where the files above k agree, the piles differ by what is below.
LEMMA PilesAbove ==
    \A f, g \in Files : \A p, q : \A k \in 0..MaxRotate :
        Piles(p, f) /\ Piles(q, g) /\ Agree(f, g, (k + 1)..MaxRotate) => Parted(p, q, k)
<1> SUFFICES ASSUME NEW f \in Files, NEW g \in Files, NEW p, NEW q, NEW k \in 0..MaxRotate,
                    Piles(p, f), Piles(q, g), Agree(f, g, (k + 1)..MaxRotate)
             PROVE  Parted(p, q, k)
  OBVIOUS
<1> DEFINE N == MaxRotate - k
           X == Seq(Line)
           Under(b, i) == p[k + i] = b \o p[k] /\ q[k + i] = b \o q[k]
           Good == {i \in 0..N : \E b \in X : Under(b, i) /\ (i = 0 => b = <<>>)}
<1>1. k \in Nat /\ MaxRotate \in Nat /\ N \in Nat /\ k + N = MaxRotate
  BY FileAssumption
<1>2. \A i \in 0..MaxRotate : p[i] \in X /\ q[i] \in X /\ f[i] \in X
  BY DEF Piles, Files
<1>3. 0 \in Good
  <2>1. <<>> \in X /\ \A a \in X : <<>> \o a = a
    OBVIOUS
  <2> HIDE DEF X
  <2>2. Under(<<>>, 0)
    BY <1>1, <1>2, <2>1
  <2> HIDE DEF Under
  <2>3. 0 \in 0..N
    BY <1>1
  <2> QED BY <2>1, <2>2, <2>3
<1>4. ASSUME NEW i \in 1..N, i - 1 \in Good PROVE i \in Good
  <2>1. PICK b \in X : Under(b, i - 1)
    BY <1>4
  <2>2. k + i \in 1..MaxRotate /\ k + i \in (k + 1)..MaxRotate /\ (k + i) - 1 = k + (i - 1)
        /\ i \in 0..N /\ i # 0 /\ k + i \in 0..MaxRotate
    BY <1>1
  <2>3. p[k + i] = f[k + i] \o p[k + (i - 1)] /\ q[k + i] = f[k + i] \o q[k + (i - 1)]
    BY <2>2 DEF Piles, Agree
  <2>4. f[k + i] \o b \in X /\ \A a \in X : f[k + i] \o (b \o a) = (f[k + i] \o b) \o a
    <3>1. f[k + i] \in X
      BY <1>2, <2>2
    <3>2. \A c \in X : c \o b \in X /\ \A a \in X : c \o (b \o a) = (c \o b) \o a
      BY SMTT(40)
    <3> HIDE DEF X
    <3> QED BY <3>1, <3>2
  <2> HIDE DEF X
  <2>5. Under(f[k + i] \o b, i)
    BY <1>2, <2>1, <2>3, <2>4
  <2> QED BY <2>2, <2>4, <2>5
<1> HIDE DEF Good, N
<1>5. \A i \in 0..N : i \in Good
  BY <1>1, <1>3, <1>4, Induction
<1>6. N \in Good
  BY <1>1, <1>5
<1>7. k = MaxRotate => N = 0
  BY <1>1
<1> QED BY <1>1, <1>6, <1>7 DEF Good, Parted

\* What the proofs use of concatenation.
LEMMA ConcatFacts ==
    ASSUME NEW a \in Seq(Line), NEW b \in Seq(Line), NEW c \in Seq(Line)
    PROVE  /\ a \o b \in Seq(Line) /\ (a \o b) \o c = a \o (b \o c)
           /\ <<>> \o a = a /\ a \o <<>> = a /\ <<>> \in Seq(Line)
OBVIOUS

\* One file changes.
ChangesOne(f, g, k) ==
    \E a, b \in Seq(Line) : /\ Kept(f) = b \o (f[k] \o a)
                            /\ Kept(g) = b \o (g[k] \o a)
                            /\ k = 0 => a = <<>>
                            /\ k = MaxRotate => b = <<>>

\* Then the rest of what is kept stays the same.
LEMMA KeptOne ==
    \A f, g \in Files : \A k \in 0..MaxRotate :
        (\A j \in 0..MaxRotate : j # k => g[j] = f[j]) => ChangesOne(f, g, k)
<1> SUFFICES ASSUME NEW f \in Files, NEW g \in Files, NEW k \in 0..MaxRotate,
                    \A j \in 0..MaxRotate : j # k => g[j] = f[j]
             PROVE  ChangesOne(f, g, k)
  OBVIOUS
<1>1. f[k] \in Seq(Line) /\ g[k] \in Seq(Line)
  BY DEF Files
<1>2. PICK p : Piles(p, f) /\ Kept(f) = p[MaxRotate]
  BY KeptDoes
<1>3. PICK q : Piles(q, g) /\ Kept(g) = q[MaxRotate]
  BY KeptDoes
<1>4. k \in Nat /\ MaxRotate \in Nat
  BY FileAssumption
<1>5. PICK b \in Seq(Line) : /\ p[MaxRotate] = b \o p[k] /\ q[MaxRotate] = b \o q[k]
                             /\ k = MaxRotate => b = <<>>
  <2>1. Agree(f, g, (k + 1)..MaxRotate)
    BY <1>4 DEF Agree
  <2>2. Parted(p, q, k)
    BY <1>2, <1>3, <2>1, PilesAbove
  <2> QED BY <2>2 DEF Parted
<1>6. CASE k = 0
  <2>1. p[k] = f[k] \o <<>> /\ q[k] = g[k] \o <<>> /\ <<>> \in Seq(Line)
    <3>1. p[k] = f[k] /\ q[k] = g[k]
      BY <1>2, <1>3, <1>6 DEF Piles
    <3> QED BY <1>1, <3>1, ConcatFacts
  <2> QED BY <1>2, <1>3, <1>5, <2>1 DEF ChangesOne
<1>7. CASE k # 0
  <2>1. k \in 1..MaxRotate /\ k - 1 \in 0..MaxRotate
        /\ \A j \in 0..k - 1 : j \in 0..MaxRotate /\ j # k
    BY <1>4, <1>7
  <2>2. p[k - 1] = q[k - 1]
    <3>1. \A j \in 0..k - 1 : f[j] = g[j]
      BY <2>1
    <3> QED BY <1>2, <1>3, <2>1, <3>1, PilesBelow
  <2>3. p[k] = f[k] \o p[k - 1] /\ q[k] = g[k] \o p[k - 1] /\ p[k - 1] \in Seq(Line)
    BY <1>2, <1>3, <2>1, <2>2 DEF Piles, Files
  <2> QED BY <1>2, <1>3, <1>5, <1>7, <2>3 DEF ChangesOne
<1> QED BY <1>6, <1>7

\* A file and the next one change.
ChangesTwo(f, g, k) ==
    \E a, b \in Seq(Line) : /\ Kept(f) = b \o (f[k + 1] \o (f[k] \o a))
                            /\ Kept(g) = b \o (g[k + 1] \o (g[k] \o a))

\* Then, too, the rest stays the same.
LEMMA KeptTwo ==
    \A f, g \in Files : \A k \in 0..(MaxRotate - 1) :
        (\A j \in 0..MaxRotate : j # k /\ j # k + 1 => g[j] = f[j]) => ChangesTwo(f, g, k)
<1> SUFFICES ASSUME NEW f \in Files, NEW g \in Files, NEW k \in 0..(MaxRotate - 1),
                    \A j \in 0..MaxRotate : j # k /\ j # k + 1 => g[j] = f[j]
             PROVE  \E a, b \in Seq(Line) : /\ Kept(f) = b \o (f[k + 1] \o (f[k] \o a))
                                           /\ Kept(g) = b \o (g[k + 1] \o (g[k] \o a))
  BY DEF ChangesTwo
<1>1. PICK p : Piles(p, f) /\ Kept(f) = p[MaxRotate]
  BY KeptDoes
<1>2. PICK q : Piles(q, g) /\ Kept(g) = q[MaxRotate]
  BY KeptDoes
<1>3. k \in Nat /\ MaxRotate \in Nat /\ k + 1 \in 1..MaxRotate /\ k \in 0..MaxRotate /\ (k + 1) - 1 = k
      /\ k + 1 \in 0..MaxRotate
  BY FileAssumption
<1>4. PICK b \in Seq(Line) : /\ p[MaxRotate] = b \o p[k + 1] /\ q[MaxRotate] = b \o q[k + 1]
  <2>1. Agree(f, g, ((k + 1) + 1)..MaxRotate)
    BY <1>3 DEF Agree
  <2>2. Parted(p, q, k + 1)
    BY <1>1, <1>2, <1>3, <2>1, PilesAbove
  <2> QED BY <2>2 DEF Parted
<1>5. p[k + 1] = f[k + 1] \o p[k] /\ q[k + 1] = g[k + 1] \o q[k]
  BY <1>1, <1>2, <1>3 DEF Piles
<1>6. CASE k = 0
  <2>1. p[k] = f[k] \o <<>> /\ q[k] = g[k] \o <<>> /\ <<>> \in Seq(Line)
    <3>1. p[k] = f[k] /\ q[k] = g[k] /\ f[k] \in Seq(Line) /\ g[k] \in Seq(Line)
      BY <1>1, <1>2, <1>3, <1>6 DEF Piles, Files
    <3> QED BY <3>1, ConcatFacts
  <2> QED BY <1>1, <1>2, <1>4, <1>5, <2>1
<1>7. CASE k # 0
  <2>1. k \in 1..MaxRotate /\ k - 1 \in 0..MaxRotate
        /\ \A j \in 0..k - 1 : j \in 0..MaxRotate /\ j # k /\ j # k + 1
    BY <1>3, <1>7
  <2>2. p[k - 1] = q[k - 1]
    <3>1. \A j \in 0..k - 1 : f[j] = g[j]
      BY <2>1
    <3> QED BY <1>1, <1>2, <2>1, <3>1, PilesBelow
  <2>3. p[k] = f[k] \o p[k - 1] /\ q[k] = g[k] \o p[k - 1] /\ p[k - 1] \in Seq(Line)
    BY <1>1, <1>2, <2>1, <2>2 DEF Piles, Files
  <2> QED BY <1>1, <1>2, <1>4, <1>5, <1>7, <2>3
<1> QED BY <1>6, <1>7

\* What is kept are lines.
LEMMA KeptType == \A f \in Files : Kept(f) \in Seq(Line)
<1> SUFFICES ASSUME NEW f \in Files PROVE Kept(f) \in Seq(Line)
  OBVIOUS
<1>1. PICK p : Piles(p, f) /\ Kept(f) = p[MaxRotate]
  BY KeptDoes
<1>2. MaxRotate \in 0..MaxRotate
  BY FileAssumption
<1> QED BY <1>1, <1>2 DEF Piles, Files

\* Nothing is kept in empty files.
LEMMA KeptEmpty == \A f \in Files : (\A k \in 0..MaxRotate : f[k] = <<>>) => Kept(f) = <<>>
<1> SUFFICES ASSUME NEW f \in Files, \A k \in 0..MaxRotate : f[k] = <<>>
             PROVE  Kept(f) = <<>>
  OBVIOUS
<1>1. PICK p : Piles(p, f) /\ Kept(f) = p[MaxRotate]
  BY KeptDoes
<1> DEFINE Good == {k \in 0..MaxRotate : p[k] = <<>>}
<1>2. MaxRotate \in Nat
  BY FileAssumption
<1>3. 0 \in Good
  BY <1>1, <1>2 DEF Piles
<1>4. ASSUME NEW k \in 1..MaxRotate, k - 1 \in Good PROVE k \in Good
  <2>1. k \in 0..MaxRotate
    BY <1>2
  <2>2. p[k - 1] = <<>>
    BY <1>4
  <2>3. p[k] = f[k] \o p[k - 1]
    BY <1>1 DEF Piles
  <2>4. f[k] \in Seq(Line) /\ f[k] = <<>>
    BY <2>1 DEF Files
  <2>5. p[k] = <<>>
    BY <2>2, <2>3, <2>4, ConcatFacts
  <2> QED BY <2>1, <2>5
<1> HIDE DEF Good
<1>5. \A k \in 0..MaxRotate : k \in Good
  BY <1>2, <1>3, <1>4, Induction
<1>6. MaxRotate \in Good
  BY <1>2, <1>5
<1> QED BY <1>1, <1>6 DEF Good

\* What is added to the log is the newest.
LEMMA KeptAdd ==
    ASSUME NEW f \in Files, NEW c \in Seq(Line)
    PROVE  /\ [f EXCEPT ![0] = @ \o c] \in Files
           /\ Kept([f EXCEPT ![0] = @ \o c]) = Kept(f) \o c
<1> DEFINE g == [f EXCEPT ![0] = @ \o c]
<1>1. 0 \in 0..MaxRotate /\ f[0] \in Seq(Line)
  BY FileAssumption DEF Files
<1>2. f[0] \o c \in Seq(Line)
  BY <1>1, ConcatFacts
<1>3. g \in Files /\ g[0] = f[0] \o c /\ \A j \in 0..MaxRotate : j # 0 => g[j] = f[j]
  BY <1>1, <1>2 DEF Files
<1> HIDE DEF g
<1>4. PICK k \in 0..MaxRotate : k = 0
  BY <1>1
<1>5. PICK a, b \in Seq(Line) :
          /\ Kept(f) = b \o (f[k] \o a)
          /\ Kept(g) = b \o (g[k] \o a)
          /\ k = 0 => a = <<>>
          /\ k = MaxRotate => b = <<>>
  <2>1. ChangesOne(f, g, k)
    BY <1>3, <1>4, KeptOne
  <2> QED BY <2>1 DEF ChangesOne
<1>6. f[0] \o a = f[0] /\ (f[0] \o c) \o a = f[0] \o c /\ b \o (f[0] \o c) = (b \o f[0]) \o c
  <2>1. a = <<>>
    BY <1>4, <1>5
  <2>2. \A s \in Seq(Line) : s \o <<>> = s
    OBVIOUS
  <2>3. \A s, u, v \in Seq(Line) : s \o (u \o v) = (s \o u) \o v
    BY SMTT(40)
  <2> QED BY <1>1, <1>2, <2>1, <2>2, <2>3
<1>7. Kept(g) = Kept(f) \o c
  BY <1>3, <1>4, <1>5, <1>6
<1> QED BY <1>3, <1>7 DEF g

\* A file that is moved to where there is none keeps its place.
MovedOn(f, k) == [f EXCEPT ![k + 1] = f[k], ![k] = <<>>]

\* The move changes these two files.
LEMMA MovedOnDoes ==
    ASSUME NEW f \in Files, NEW k \in 0..(MaxRotate - 1)
    PROVE  /\ MovedOn(f, k) \in Files
           /\ MovedOn(f, k)[k + 1] = f[k] /\ MovedOn(f, k)[k] = <<>>
           /\ \A j \in 0..MaxRotate : j # k /\ j # k + 1 => MovedOn(f, k)[j] = f[j]
<1> DEFINE g == [f EXCEPT ![k + 1] = f[k]]
<1>1. k \in 0..MaxRotate /\ k + 1 \in 0..MaxRotate /\ k # k + 1
  BY FileAssumption
<1>2. f[k] \in Seq(Line) /\ <<>> \in Seq(Line)
  BY <1>1, ConcatFacts DEF Files
<1>3. g \in Files /\ g[k + 1] = f[k] /\ \A j \in 0..MaxRotate : j # k + 1 => g[j] = f[j]
  BY <1>1, <1>2 DEF Files
<1>4. MovedOn(f, k) = [g EXCEPT ![k] = <<>>]
  BY DEF MovedOn
<1> HIDE DEF g
<1> QED BY <1>1, <1>2, <1>3, <1>4 DEF Files

\* What was in the file that is moved to is gone; the rest stays in order.
LEMMA KeptMoved ==
    ASSUME NEW f \in Files, NEW k \in 0..(MaxRotate - 1)
    PROVE  \E a, b \in Seq(Line) : /\ Kept(f) = b \o (f[k + 1] \o (f[k] \o a))
                                  /\ Kept(MovedOn(f, k)) = b \o (f[k] \o a)
<1> DEFINE g == MovedOn(f, k)
<1>1. g \in Files /\ g[k + 1] = f[k] /\ g[k] = <<>>
      /\ \A j \in 0..MaxRotate : j # k /\ j # k + 1 => g[j] = f[j]
  BY MovedOnDoes
<1> HIDE DEF g
<1>2. PICK a \in Seq(Line), b \in Seq(Line) :
          /\ Kept(f) = b \o (f[k + 1] \o (f[k] \o a))
          /\ Kept(g) = b \o (g[k + 1] \o (g[k] \o a))
  <2>1. ChangesTwo(f, g, k)
    BY <1>1, KeptTwo
  <2> QED BY <2>1 DEF ChangesTwo
<1>3. g[k] \o a = a
  BY <1>1, ConcatFacts
<1> QED BY <1>1, <1>2, <1>3 DEF g

\* Full files hold what max_rotate files have room for, and more.
LEMMA KeptFull ==
    ASSUME NEW f \in Files, \A k \in 1..MaxRotate : Bytes(f[k]) > MaxSize, NEW c \in Seq(Line)
    PROVE  Bytes(Kept(f) \o c) > MaxRotate * MaxSize
<1>1. PICK p : Piles(p, f) /\ Kept(f) = p[MaxRotate]
  BY KeptDoes
<1> DEFINE Good == {k \in 0..MaxRotate : Bytes(p[k]) >= k * (MaxSize + 1)}
<1>2. MaxRotate \in Nat /\ MaxRotate # 0 /\ MaxSize \in Nat
  BY FileAssumption
<1>3. \A k \in 0..MaxRotate : p[k] \in Seq(Line) /\ Bytes(p[k]) \in Nat
                           /\ f[k] \in Seq(Line) /\ Bytes(f[k]) \in Nat
  BY <1>1, BytesType DEF Piles, Files
<1>4. 0 \in Good
  BY <1>2, <1>3
<1>5. ASSUME NEW k \in 1..MaxRotate, k - 1 \in Good PROVE k \in Good
  <2>1. k \in 0..MaxRotate /\ k - 1 \in 0..MaxRotate
    BY <1>2
  <2>2. Bytes(p[k]) = Bytes(f[k]) + Bytes(p[k - 1])
    <3>1. p[k] = f[k] \o p[k - 1]
      BY <1>1 DEF Piles
    <3> QED BY <1>3, <2>1, <3>1, BytesConcat
  <2>3. Bytes(f[k]) >= MaxSize + 1 /\ Bytes(p[k - 1]) >= (k - 1) * (MaxSize + 1)
    <3>1. Bytes(f[k]) > MaxSize /\ Bytes(f[k]) \in Nat
      BY <1>3, <2>1
    <3> QED BY <1>2, <1>5, <3>1
  <2>4. k * (MaxSize + 1) = (MaxSize + 1) + (k - 1) * (MaxSize + 1)
    BY <1>2
  <2>5. (k - 1) * (MaxSize + 1) \in Int
    BY <1>2
  <2> DEFINE lower == (k - 1) * (MaxSize + 1)
  <2> HIDE DEF lower
  <2>6. Bytes(f[k]) + Bytes(p[k - 1]) >= (MaxSize + 1) + lower
    BY <1>2, <1>3, <2>1, <2>3, <2>5 DEF lower
  <2> QED BY <2>1, <2>2, <2>4, <2>6 DEF lower
<1> HIDE DEF Good
<1>6. \A k \in 0..MaxRotate : k \in Good
  BY <1>2, <1>4, <1>5, Induction
<1>7. MaxRotate \in Good /\ MaxRotate \in 0..MaxRotate
  BY <1>2, <1>6
<1>8. Bytes(p[MaxRotate]) >= MaxRotate * (MaxSize + 1)
  BY <1>7 DEF Good
<1>9. MaxRotate * (MaxSize + 1) = MaxRotate * MaxSize + MaxRotate
  BY <1>2
<1>10. Bytes(Kept(f) \o c) = Bytes(p[MaxRotate]) + Bytes(c)
  BY <1>1, <1>3, <1>7, BytesConcat
<1>11. Bytes(p[MaxRotate]) \in Nat /\ Bytes(c) \in Nat /\ MaxRotate * MaxSize \in Nat
  BY <1>2, <1>3, <1>7, BytesType
<1> QED BY <1>2, <1>8, <1>9, <1>10, <1>11

-----------------------------------------------------------------------------
\* The numbers of lines.
LEMMA IdsDoes ==
    ASSUME NEW a \in Seq(Line), NEW b \in Seq(Line)
    PROVE  /\ Ids(a \o b) = Ids(a) \cup Ids(b)
           /\ Ids(a) \subseteq 1..MaxLines
           /\ Ids(<<>>) = {}
<1>1. /\ DOMAIN a = 1..Len(a) /\ DOMAIN b = 1..Len(b) /\ DOMAIN (a \o b) = 1..Len(a) + Len(b)
      /\ \A i \in 1..Len(a) : (a \o b)[i] = a[i]
      /\ \A i \in 1..Len(b) : (a \o b)[Len(a) + i] = b[i]
      /\ Len(a) \in Nat /\ Len(b) \in Nat
  OBVIOUS
<1> DEFINE c == a \o b
<1> HIDE DEF c
<1>2. Ids(c) \subseteq Ids(a) \cup Ids(b)
  <2> SUFFICES ASSUME NEW i \in 1..Len(a) + Len(b)
               PROVE  c[i].id \in Ids(a) \cup Ids(b)
    BY <1>1 DEF Ids, c
  <2>1. CASE i \in 1..Len(a)
    BY <1>1, <2>1 DEF Ids, c
  <2>2. CASE i \notin 1..Len(a)
    <3>1. i - Len(a) \in 1..Len(b) /\ i = Len(a) + (i - Len(a))
      BY <1>1, <2>2
    <3> QED BY <1>1, <3>1 DEF Ids, c
  <2> QED BY <2>1, <2>2
<1>3. Ids(a) \subseteq Ids(c) /\ Ids(b) \subseteq Ids(c)
  <2>1. \A i \in 1..Len(a) : i \in 1..Len(a) + Len(b)
    BY <1>1
  <2>2. \A i \in 1..Len(b) : Len(a) + i \in 1..Len(a) + Len(b)
    BY <1>1
  <2>3. Ids(a) \subseteq Ids(c)
    BY <1>1, <2>1 DEF Ids, c
  <2>4. Ids(b) \subseteq Ids(c)
    <3> SUFFICES ASSUME NEW i \in 1..Len(b) PROVE b[i].id \in Ids(c)
      BY <1>1 DEF Ids
    <3>1. c[Len(a) + i].id \in Ids(c)
      BY <1>1, <2>2 DEF Ids, c
    <3> QED BY <1>1, <3>1 DEF c
  <2> QED BY <2>3, <2>4
<1>4. Ids(a) \subseteq 1..MaxLines
  <2>1. \A l \in Line : l.id \in 1..MaxLines
    BY DEF Line
  <2> HIDE DEF Line
  <2>2. \A i \in DOMAIN a : a[i] \in Line
    OBVIOUS
  <2> QED BY <2>1, <2>2 DEF Ids
<1>5. Ids(<<>>) = {}
  BY DEF Ids
<1> QED BY <1>2, <1>3, <1>4, <1>5 DEF c

\* One line has one number.
LEMMA IdsOne == \A l \in Line : Ids(<<l>>) = {l.id}
<1> SUFFICES ASSUME NEW l \in Line PROVE Ids(<<l>>) = {l.id}
  OBVIOUS
<1>1. DOMAIN <<l>> = {1} /\ <<l>>[1] = l
  OBVIOUS
<1> QED BY <1>1 DEF Ids

-----------------------------------------------------------------------------
(***************************************************************************)
(* The inductive invariant.  A rotation moves a gap through the files: the *)
(* one that is to be overwritten next.                                     *)
(***************************************************************************)
Rotating == pc \in {"remove", "rename"}
Gap == IF Rotating THEN n + 1 ELSE 0

\* stdio holds back one line at most, and a rotation has one to write.
Cached ==
    /\ Len(cache) <= 1 /\ (cache # <<>> => pc = "idle")
    /\ IF Rotating \/ pc = "reopen" THEN Len(pending) = 1 ELSE pending = <<>>
    /\ Rotating => ~failed

\* What a rename goes to was moved on, unless it is the oldest file.
Moved ==
    luck # "blind" =>
        /\ Rotating => file[n + 1] = <<>> \/ (pc = "remove" /\ n = MaxRotate - 1)
        /\ pc = "reopen" /\ ~failed => file[0] = <<>>

\* The lines that are neither kept nor known to be missing.
Lost == (1..count) \ (Ids(Log) \cup Ids(pending) \cup missing)

\* While nothing fails, files were full before they were moved on, there is
\* no other hole than the gap, and lines are lost only when all are full.
Over(s) == Bytes(s) > MaxSize
FullFiles(f, rotating) == \A k \in 0..MaxRotate : f[k] # <<>> /\ (k > 0 \/ rotating) => Over(f[k])
NoHole(f, gap) == \A k \in 0..MaxRotate : \A j \in 0..k - 1 : f[k] # <<>> /\ j # gap => f[j] # <<>>
AllUsed(f, gap) == \A j \in 0..MaxRotate : j # gap => f[j] # <<>>
FilledUp(f, rotating, gap, lost) ==
    /\ FullFiles(f, rotating) /\ NoHole(f, gap)
    /\ lost # {} => AllUsed(f, gap)
    /\ rotating => f[0] # <<>>
Filled == luck = "good" => FilledUp(file, Rotating, Gap, Lost) /\ (pc = "reopen" => ~failed)

\* A process that has met no fault has its file open between calls.
Usable == luck = "good" /\ pc = "idle" => open

IInv == TypeOK /\ Cached /\ Moved /\ SizeBound /\ Filled /\ Usable

-----------------------------------------------------------------------------
\* The parts of a step.
LEMMA NumberFacts ==
    ASSUME TypeOK
    PROVE  /\ MaxRotate \in Nat /\ MaxRotate # 0 /\ MaxSize \in Nat /\ MaxLines \in Nat
           /\ n \in Nat /\ n + 1 \in Nat /\ 0 \in 0..MaxRotate
           /\ n \in 0..MaxRotate /\ n + 1 \in 0..MaxRotate /\ n \in 0..(MaxRotate - 1)
           /\ n # n + 1 /\ n # 0 => n - 1 \in 0..(MaxRotate - 1) /\ (n - 1) + 1 = n
BY FileAssumption DEF TypeOK

\* What the types say of the files.
LEMMA FileFacts ==
    ASSUME TypeOK
    PROVE  /\ file \in Files /\ cache \in Seq(Line) /\ pending \in Seq(Line) /\ <<>> \in Seq(Line)
           /\ \A k \in 0..MaxRotate : file[k] \in Seq(Line)
<1>1. <<>> \in Seq(Line)
  OBVIOUS
<1> QED BY <1>1 DEF TypeOK, Files

\* A new line has the next number.
LEMMA NewLineDoes ==
    ASSUME TypeOK, NewLine
    PROVE  /\ Smooth /\ count' = count + 1 /\ count + 1 \in 1..MaxLines
           /\ \E l \in Line : l.id = count + 1 /\ (Write(l) \/ WriteNowhere(l))
<1>1. Smooth /\ count' = count + 1 /\ count + 1 \in 1..MaxLines
  BY FileAssumption DEF TypeOK, NewLine
<1>2. PICK s \in LineSize : LET l == [id |-> count', size |-> s] IN Write(l) \/ WriteNowhere(l)
  BY DEF NewLine
<1> DEFINE l == [id |-> count', size |-> s]
<1>3. l \in Line /\ l.id = count + 1
  BY <1>1 DEF Line
<1> HIDE DEF l
<1> QED BY <1>1, <1>2, <1>3 DEF l

\* Luck does not turn.
LEMMA LuckDoes ==
    ASSUME TypeOK, [Next]_vars
    PROVE  /\ luck' \in {"good", "bad", "blind"}
           /\ luck' = "good" => luck = "good" /\ Smooth
           /\ luck' # "blind" => luck # "blind"
           /\ \A fault \in {"kill", "rename", "open", "probe"} :
                  Goes(fault) => luck' # "good" /\ (fault = "probe" => luck' = "blind")
<1>1. luck \in {"good", "bad", "blind"}
  BY DEF TypeOK
<1>2. ASSUME NEW fault, Goes(fault)
      PROVE  luck' = "blind" \/ (luck' = "bad" /\ luck # "blind" /\ fault # "probe")
  <2>1. luck' = IF fault = "probe" \/ luck = "blind" THEN "blind" ELSE "bad"
    BY <1>2 DEF Goes
  <2> QED BY <2>1
<1>3. Smooth \/ \E fault : Goes(fault)
  <2>1. Open => Smooth \/ \E fault : Goes(fault)
    BY DEF Open
  <2>2. CASE FileInit
    BY <2>1, <2>2 DEF FileInit
  <2>3. CASE NewLine
    BY <2>3 DEF NewLine
  <2>4. CASE RemoveOld
    BY <2>4 DEF RemoveOld
  <2>5. CASE Rename
    BY <2>5 DEF Rename
  <2>6. CASE RenameNothing
    BY <2>6 DEF RenameNothing
  <2>7. CASE RenameFails
    BY <2>7 DEF RenameFails
  <2>8. CASE Reopen
    BY <2>1, <2>8 DEF Reopen
  <2>9. CASE WriteToNull
    BY <2>9 DEF WriteToNull
  <2>10. CASE FileDeinit
    BY <2>10 DEF FileDeinit
  <2>11. CASE Kill
    BY <2>11 DEF Kill
  <2>12. CASE UNCHANGED vars
    BY <2>12 DEF vars, Smooth
  <2> QED BY <2>2, <2>3, <2>4, <2>5, <2>6, <2>7, <2>8, <2>9, <2>10, <2>11, <2>12 DEF Next, Rotate
<1>4. Smooth => luck' = luck
  BY DEF Smooth
<1> QED BY <1>1, <1>2, <1>3, <1>4

\* The write of a line, to the file that has room and to the one that has not.
Flushed == [file EXCEPT ![0] = @ \o cache]

\* What is kept does not change when it is written out.
LEMMA FlushedDoes ==
    ASSUME TypeOK
    PROVE  /\ Flushed \in Files /\ Flushed[0] = file[0] \o cache /\ Flushed[0] \in Seq(Line)
           /\ \A k \in 0..MaxRotate : k # 0 => Flushed[k] = file[k]
           /\ Kept(Flushed) = Log /\ Log \in Seq(Line)
<1>1. Flushed \in Files /\ Kept(Flushed) = Log
  BY FileFacts, KeptAdd DEF Flushed, Log
<1>2. 0 \in 0..MaxRotate
  BY NumberFacts
<1>3. Flushed[0] = file[0] \o cache /\ \A k \in 0..MaxRotate : k # 0 => Flushed[k] = file[k]
  BY <1>2, FileFacts DEF Flushed, Files
<1>4. Flushed[0] \in Seq(Line) /\ Log \in Seq(Line)
  BY <1>1, <1>2, KeptType DEF Files
<1> QED BY <1>1, <1>3, <1>4

\* elog_file_write rotates, or caches the line.
LEMMA WriteDoes ==
    ASSUME TypeOK, NEW l \in Line, Write(l)
    PROVE  /\ pc = "idle" /\ file' = Flushed /\ missing' = missing
           /\ \/ /\ Bytes(file'[0]) > MaxSize
                 /\ pc' = "remove" /\ n' = MaxRotate - 1 /\ failed' = FALSE
                 /\ pending' = <<l>> /\ cache' = <<>> /\ open' = FALSE
              \/ /\ ~(Bytes(file'[0]) > MaxSize)
                 /\ cache' = <<l>> /\ pc' = pc /\ n' = n /\ pending' = pending
                 /\ open' = open /\ failed' = failed
<1>1. CASE Bytes(file'[0]) > MaxSize
  BY <1>1 DEF Write, Flushed
<1>2. CASE ~(Bytes(file'[0]) > MaxSize)
  BY <1>2 DEF Write, Flushed
<1> QED BY <1>1, <1>2

\* None or one is at most one.
LEMMA AtMostOne == \A x : x = 0 \/ x = 1 => x <= 1
OBVIOUS

\* At most one and not none is one.
LEMMA Single ==
    ASSUME NEW s \in Seq(Line), s # <<>>, Len(s) <= 1
    PROVE  s[1] \in Line /\ s = <<s[1]>>
<1>1. Len(s) = 1
  <2>1. Len(s) \in Nat /\ Len(s) # 0
    BY EmptySeq
  <2> QED BY <2>1
<1>2. s[1] \in Line
  BY <1>1
<1> QED BY <1>1, <1>2

\* One line makes a sequence of one.
LEMMA OneLine == \A l \in Line : <<l>> \in Seq(Line) /\ Len(<<l>>) = 1 /\ <<l>> # <<>>
OBVIOUS

-----------------------------------------------------------------------------
\* The types hold at the start.
LEMMA TypeInit == Init => TypeOK
<1>1. <<>> \in Seq(Line)
  OBVIOUS
<1>2. 0 \in 0..(MaxRotate - 1) /\ 0 \in 0..MaxLines
  BY FileAssumption
<1> QED BY <1>1, <1>2 DEF Init, TypeOK

\* Every step keeps the types.
LEMMA TypeStep ==
    ASSUME TypeOK, [Next]_vars
    PROVE  TypeOK'
<1> USE DEF TypeOK
<1>1. luck' \in {"good", "bad", "blind"}
  BY LuckDoes
<1>2. CASE FileInit
  BY <1>1, <1>2 DEF FileInit, Open
<1>3. CASE NewLine
  <2>1. PICK l \in Line : l.id = count + 1 /\ (Write(l) \/ WriteNowhere(l))
    BY <1>3, NewLineDoes
  <2>2. count' \in 0..MaxLines /\ count + 1 \in 1..MaxLines
    <3>1. count' = count + 1 /\ count + 1 \in 1..MaxLines
      BY <1>3, NewLineDoes
    <3> QED BY <3>1, FileAssumption
  <2>3. CASE Write(l)
    <3>1. file' \in [0..MaxRotate -> Seq(Line)]
      BY <2>3, WriteDoes, FlushedDoes DEF Files
    <3>2. /\ pc' \in {"idle", "remove"} /\ n' \in 0..(MaxRotate - 1)
          /\ cache' \in {<<>>, <<l>>} /\ pending' \in {pending, <<l>>} /\ missing' = missing
          /\ open' \in BOOLEAN /\ failed' \in BOOLEAN
      <4>1. MaxRotate - 1 \in 0..(MaxRotate - 1)
        BY FileAssumption
      <4> QED BY <2>3, <4>1, WriteDoes
    <3>3. cache' \in Seq(Line) /\ pending' \in Seq(Line)
      BY <3>2, OneLine, FileFacts
    <3> QED BY <1>1, <2>2, <3>1, <3>2, <3>3
  <2>4. CASE WriteNowhere(l)
    BY <1>1, <2>1, <2>2, <2>4 DEF WriteNowhere
  <2> QED BY <2>1, <2>3, <2>4
<1>4. CASE RemoveOld
  BY <1>1, <1>4, FileFacts DEF RemoveOld
<1>5. NextFile => n' \in 0..(MaxRotate - 1) /\ pc' \in {"reopen", "remove"}
  BY NumberFacts DEF NextFile
<1>6. CASE Rename
  <2>1. file' \in [0..MaxRotate -> Seq(Line)]
    <3>1. file' = MovedOn(file, n)
      BY <1>6 DEF Rename, MovedOn
    <3> QED BY <3>1, MovedOnDoes, FileFacts, NumberFacts DEF Files
  <2>2. NextFile /\ UNCHANGED <<cache, open, failed, pending, count, missing>>
    BY <1>6 DEF Rename
  <2> QED BY <1>1, <1>5, <2>1, <2>2
<1>7. CASE RenameNothing
  BY <1>1, <1>5, <1>7 DEF RenameNothing
<1>8. CASE RenameFails
  BY <1>1, <1>8 DEF RenameFails
<1>9. Ids(cache) \subseteq 1..MaxLines /\ Ids(pending) \subseteq 1..MaxLines
  BY FileFacts, IdsDoes
<1>10. Die => /\ pc' = "off" /\ open' = FALSE /\ cache' = <<>> /\ pending' = <<>>
              /\ n' \in 0..(MaxRotate - 1) /\ failed' = FALSE /\ file' = file /\ count' = count
              /\ missing' \subseteq 1..MaxLines
  <2>1. 0 \in 0..(MaxRotate - 1)
    BY FileAssumption
  <2> QED BY <1>9, <2>1 DEF Die
<1>11. CASE Reopen
  <2>1. /\ pc' = "idle" /\ open' \in BOOLEAN /\ pending' = <<>> /\ cache' \in {<<>>, pending}
        /\ missing' \subseteq 1..MaxLines
        /\ UNCHANGED <<file, n, failed, count>>
    BY <1>9, <1>11 DEF Reopen, Open
  <2> QED BY <1>1, <2>1, FileFacts
<1>12. CASE WriteToNull
  <2>1. Die
    BY <1>12 DEF WriteToNull
  <2> QED BY <1>1, <1>10, <2>1, FileFacts
<1>13. CASE FileDeinit
  <2>1. file' = Flushed /\ pc' = "off" /\ cache' = <<>> /\ open' = FALSE
        /\ UNCHANGED <<n, failed, pending, count, missing>>
    BY <1>13 DEF FileDeinit, Flushed
  <2>2. file' \in [0..MaxRotate -> Seq(Line)]
    BY <2>1, FlushedDoes DEF Files
  <2> QED BY <1>1, <2>1, <2>2, FileFacts
<1>14. CASE Kill
  <2>1. Die
    BY <1>14 DEF Kill
  <2> QED BY <1>1, <1>10, <2>1, FileFacts
<1>15. CASE UNCHANGED vars
  BY <1>15 DEF vars
<1> QED BY <1>2, <1>3, <1>4, <1>6, <1>7, <1>8, <1>11, <1>12, <1>13, <1>14, <1>15 DEF Next, Rotate

\* Only logging, and the last part of it, has something cached or pending.
LEMMA CachedStep ==
    ASSUME TypeOK, Cached, [Next]_vars
    PROVE  Cached'
<1> USE DEF Cached, Rotating
<1>1. Len(<<>>) = 0
  OBVIOUS
<1>2. CASE FileInit
  BY <1>2 DEF FileInit
<1>3. CASE NewLine
  <2>1. PICK l \in Line : Write(l) \/ WriteNowhere(l)
    BY <1>3, NewLineDoes
  <2>2. CASE Write(l)
    <3>1. /\ pc = "idle"
          /\ \/ pc' = "remove" /\ failed' = FALSE /\ pending' = <<l>> /\ cache' = <<>>
             \/ cache' = <<l>> /\ pc' = pc /\ pending' = pending
      BY <2>2, WriteDoes
    <3>2. Len(<<l>>) = 1
      BY OneLine
    <3>3. Len(cache') <= 1 /\ (pc' = "remove" => Len(pending') = 1)
      BY <1>1, <3>1, <3>2, AtMostOne, Zenon
    <3>4. pending = <<>>
      BY <3>1
    <3> QED BY <3>1, <3>3, <3>4
  <2>3. CASE WriteNowhere(l)
    BY <2>3 DEF WriteNowhere
  <2> QED BY <2>1, <2>2, <2>3
<1>4. CASE RemoveOld
  BY <1>4 DEF RemoveOld
<1>5. CASE Rename
  BY <1>5 DEF Rename, NextFile
<1>6. CASE RenameNothing
  BY <1>6 DEF RenameNothing, NextFile
<1>7. CASE RenameFails
  BY <1>7 DEF RenameFails
<1>8. CASE Reopen
  <2>1. pc = "reopen" /\ pc' = "idle" /\ pending' = <<>> /\ cache' \in {<<>>, pending}
    BY <1>8 DEF Reopen
  <2>2. Len(pending) = 1
    BY <2>1
  <2>3. Len(cache') <= 1
    BY <1>1, <2>1, <2>2, AtMostOne, Zenon
  <2> QED BY <2>1, <2>3
<1>9. CASE WriteToNull
  BY <1>1, <1>9 DEF WriteToNull, Die
<1>10. CASE FileDeinit
  BY <1>1, <1>10 DEF FileDeinit
<1>11. CASE Kill
  BY <1>1, <1>11 DEF Kill, Die
<1>12. CASE UNCHANGED vars
  BY <1>12 DEF vars
<1> QED BY <1>2, <1>3, <1>4, <1>5, <1>6, <1>7, <1>8, <1>9, <1>10, <1>11, <1>12 DEF Next, Rotate

\* What a rename and what the removal do to the files.
LEMMA RenameDoes ==
    ASSUME TypeOK, Rename
    PROVE  /\ pc = "rename" /\ file[n] # <<>> /\ NextFile /\ Smooth
           /\ UNCHANGED <<cache, open, failed, pending, count, missing>>
           /\ file' = MovedOn(file, n) /\ file' \in Files
           /\ file'[n + 1] = file[n] /\ file'[n] = <<>>
           /\ \A j \in 0..MaxRotate : j # n /\ j # n + 1 => file'[j] = file[j]
<1>1. file' = MovedOn(file, n)
  BY DEF Rename, MovedOn
<1>2. /\ pc = "rename" /\ file[n] # <<>> /\ NextFile /\ Smooth
      /\ UNCHANGED <<cache, open, failed, pending, count, missing>>
  BY DEF Rename
<1>3. file \in Files /\ n \in 0..(MaxRotate - 1)
  BY NumberFacts, FileFacts
<1> QED BY <1>1, <1>2, <1>3, MovedOnDoes

\* The removal empties the file, unless it is blind.
LEMMA RemoveDoes ==
    ASSUME TypeOK, RemoveOld
    PROVE  /\ pc = "remove" /\ pc' = "rename"
           /\ UNCHANGED <<cache, open, n, failed, pending, count, missing>>
           /\ \/ file' = file /\ Goes("probe")
              \/ /\ Smooth /\ file' \in Files /\ file'[n + 1] = <<>>
                 /\ \A j \in 0..MaxRotate : j # n + 1 => file'[j] = file[j]
<1>1. CASE file' = [file EXCEPT ![n + 1] = <<>>] /\ Smooth
  <2>1. file' \in Files /\ file'[n + 1] = <<>> /\ \A j \in 0..MaxRotate : j # n + 1 => file'[j] = file[j]
    BY <1>1, NumberFacts, FileFacts DEF Files
  <2> QED BY <1>1, <2>1 DEF RemoveOld
<1>2. CASE UNCHANGED file /\ Goes("probe")
  BY <1>2 DEF RemoveOld
<1> QED BY <1>1, <1>2 DEF RemoveOld

\* The next turn of the rotation's loop.
LEMMA NextFileDoes ==
    ASSUME TypeOK, NextFile
    PROVE  \/ n = 0 /\ n' = 0 /\ pc' = "reopen"
           \/ n # 0 /\ n' + 1 = n /\ pc' = "remove"
BY NumberFacts DEF NextFile

\* Every step leaves room for what is moved next.
LEMMA MovedStep ==
    ASSUME TypeOK, Cached, Moved, [Next]_vars
    PROVE  Moved'
<1> SUFFICES ASSUME luck' # "blind"
             PROVE  /\ Rotating' => file'[n' + 1] = <<>> \/ (pc' = "remove" /\ n' = MaxRotate - 1)
                    /\ pc' = "reopen" /\ ~failed' => file'[0] = <<>>
  BY DEF Moved
<1>1. /\ Rotating => file[n + 1] = <<>> \/ (pc = "remove" /\ n = MaxRotate - 1)
      /\ pc = "reopen" /\ ~failed => file[0] = <<>>
  BY LuckDoes DEF Moved
<1>2. ~Goes("probe")
  BY LuckDoes
<1>3. pc' \in {"idle", "off"} => ~Rotating' /\ pc' # "reopen"
  BY DEF Rotating
<1>4. CASE FileInit
  BY <1>3, <1>4 DEF FileInit
<1>5. CASE NewLine
  <2>1. PICK l \in Line : Write(l) \/ WriteNowhere(l)
    BY <1>5, NewLineDoes
  <2>2. CASE Write(l)
    <3>1. (pc' = "remove" /\ n' = MaxRotate - 1) \/ pc' = "idle"
      BY <2>2, WriteDoes
    <3> QED BY <1>3, <3>1
  <2>3. CASE WriteNowhere(l)
    BY <1>3, <2>3 DEF WriteNowhere
  <2> QED BY <2>1, <2>2, <2>3
<1>6. CASE RemoveOld
  <2>1. pc' = "rename" /\ n' = n /\ file'[n + 1] = <<>>
    BY <1>2, <1>6, RemoveDoes
  <2> QED BY <2>1
<1>7. CASE Rename
  <2>1. NextFile /\ file'[n] = <<>>
    BY <1>7, RenameDoes
  <2>2. CASE n = 0 /\ n' = 0 /\ pc' = "reopen"
    BY <2>1, <2>2 DEF Rotating
  <2>3. CASE n # 0 /\ n' + 1 = n /\ pc' = "remove"
    BY <2>1, <2>3
  <2> QED BY <2>1, <2>2, <2>3, NextFileDoes
<1>8. CASE RenameNothing
  <2>1. NextFile /\ file[n] = <<>> /\ file' = file
    BY <1>2, <1>8 DEF RenameNothing
  <2>2. CASE n = 0 /\ n' = 0 /\ pc' = "reopen"
    BY <2>1, <2>2 DEF Rotating
  <2>3. CASE n # 0 /\ n' + 1 = n /\ pc' = "remove"
    BY <2>1, <2>3
  <2> QED BY <2>1, <2>2, <2>3, NextFileDoes
<1>9. CASE RenameFails
  <2>1. pc' = "reopen" /\ failed' = TRUE
    BY <1>9 DEF RenameFails
  <2> QED BY <2>1 DEF Rotating
<1>10. CASE Reopen
  BY <1>3, <1>10 DEF Reopen
<1>11. CASE WriteToNull
  BY <1>3, <1>11 DEF WriteToNull, Die
<1>12. CASE FileDeinit
  BY <1>3, <1>12 DEF FileDeinit
<1>13. CASE Kill
  BY <1>3, <1>13 DEF Kill, Die
<1>14. CASE UNCHANGED vars
  BY <1>1, <1>14 DEF vars, Rotating
<1> QED BY <1>4, <1>5, <1>6, <1>7, <1>8, <1>9, <1>10, <1>11, <1>12, <1>13, <1>14 DEF Next, Rotate

-----------------------------------------------------------------------------
Fits(s, most) == Bytes(s) <= MaxSize + most

\* No step makes a file too large.
LEMMA SizeStep ==
    ASSUME TypeOK, TypeOK', Cached, Moved, SizeBound, [Next]_vars
    PROVE  SizeBound'
<1> SUFFICES ASSUME NEW k \in 0..MaxRotate, NEW s \in LineSize,
                    luck' # "blind", \A t \in LineSize : t <= s
             PROVE  Fits(IF k = 0 THEN file'[0] \o cache' ELSE file'[k], s)
  BY DEF SizeBound, Fits
<1>1. s \in Nat /\ MaxSize \in Nat /\ luck # "blind" /\ 0 \in 0..MaxRotate
  BY FileAssumption, LuckDoes
<1>2. Fits(file[0] \o cache, s) /\ \A j \in 0..MaxRotate : j # 0 => Fits(file[j], s)
  <2>1. \A j \in 0..MaxRotate : Fits(IF j = 0 THEN file[0] \o cache ELSE file[j], s)
    BY <1>1 DEF SizeBound, Fits
  <2>2. Fits(IF 0 = 0 THEN file[0] \o cache ELSE file[0], s)
    BY <1>1, <2>1
  <2> QED BY <2>1, <2>2
<1>3. Fits(file[0], s)
  <2>1. Bytes(file[0] \o cache) = Bytes(file[0]) + Bytes(cache)
    BY <1>1, FileFacts, BytesConcat
  <2>2. Bytes(file[0]) \in Nat /\ Bytes(cache) \in Nat
    BY <1>1, FileFacts, BytesType
  <2>3. Bytes(file[0] \o cache) <= MaxSize + s
    BY <1>2 DEF Fits
  <2> QED BY <1>1, <2>1, <2>2, <2>3 DEF Fits
<1>4. \A j \in 0..MaxRotate : Fits(file[j], s)
  BY <1>2, <1>3
<1>5. Fits(<<>>, s)
  BY <1>1, BytesEmpty DEF Fits
<1>6. cache' = <<>> /\ (\A j \in 0..MaxRotate : Fits(file'[j], s))
      => Fits(IF k = 0 THEN file'[0] \o cache' ELSE file'[k], s)
  <2>1. file'[0] \in Seq(Line)
    BY <1>1 DEF TypeOK
  <2>2. file'[0] \o <<>> = file'[0]
    BY <2>1, ConcatFacts
  <2> QED BY <1>1, <2>2
<1>7. file' = file /\ cache' = cache => Fits(IF k = 0 THEN file'[0] \o cache' ELSE file'[k], s)
  BY <1>2
<1>8. pc # "idle" => cache = <<>>
  BY DEF Cached
<1>9. Fits(Flushed[0], s) /\ \A j \in 0..MaxRotate : Fits(Flushed[j], s)
  BY <1>2, FlushedDoes
<1>10. CASE FileInit
  BY <1>7, <1>10 DEF FileInit
<1>11. CASE NewLine
  <2>1. PICK l \in Line : Write(l) \/ WriteNowhere(l)
    BY <1>11, NewLineDoes
  <2>2. CASE Write(l) /\ cache' = <<>>
    <3>1. file' = Flushed
      BY <2>2, WriteDoes
    <3> QED BY <1>6, <1>9, <2>2, <3>1
  <2>3. CASE Write(l) /\ cache' # <<>>
    <3>1. file' = Flushed /\ cache' = <<l>> /\ ~(Bytes(Flushed[0]) > MaxSize)
      BY <2>3, WriteDoes
    <3>2. Bytes(Flushed[0]) \in Nat /\ Flushed[0] \in Seq(Line)
      BY FlushedDoes, BytesType
    <3>3. l.size <= s /\ l.size \in Nat
      <4>1. l.size \in LineSize
        BY DEF Line
      <4> QED BY <4>1, FileAssumption
    <3>4. Bytes(Flushed[0] \o <<l>>) = Bytes(Flushed[0]) + l.size
      BY <3>2, BytesConcat, BytesOne, OneLine
    <3>5. Fits(Flushed[0] \o <<l>>, s)
      <4> DEFINE old == Bytes(Flushed[0])
                 new == l.size
      <4>1. old \in Nat /\ new \in Nat /\ ~(old > MaxSize) /\ new <= s
        BY <3>1, <3>2, <3>3
      <4> HIDE DEF old, new
      <4>2. old + new <= MaxSize + s
        BY <1>1, <4>1
      <4> QED BY <3>4, <4>2 DEF Fits, old, new
    <3> QED BY <1>9, <3>1, <3>5
  <2>4. CASE WriteNowhere(l)
    BY <1>7, <2>4 DEF WriteNowhere
  <2> QED BY <2>1, <2>2, <2>3, <2>4
<1>12. CASE RemoveOld
  <2>1. cache' = <<>>
    BY <1>8, <1>12, RemoveDoes
  <2>2. \A j \in 0..MaxRotate : file'[j] \in {file[j], <<>>}
    BY <1>12, RemoveDoes
  <2> QED BY <1>4, <1>5, <1>6, <2>1, <2>2
<1>13. CASE Rename
  <2>1. cache' = <<>>
    BY <1>8, <1>13, RenameDoes
  <2>2. \A j \in 0..MaxRotate : file'[j] \in {file[j], file[n], <<>>}
    BY <1>13, RenameDoes
  <2>3. Fits(file[n], s)
    BY <1>4, NumberFacts
  <2> QED BY <1>4, <1>5, <1>6, <2>1, <2>2, <2>3
<1>14. CASE RenameNothing
  BY <1>7, <1>14 DEF RenameNothing
<1>15. CASE RenameFails
  BY <1>7, <1>15 DEF RenameFails
<1>16. CASE Reopen
  <2>1. file' = file /\ pc = "reopen"
    BY <1>16 DEF Reopen
  <2>2. CASE failed
    BY <1>4, <1>6, <1>16, <2>1, <2>2 DEF Reopen
  <2>3. CASE ~failed
    <3>1. cache' = pending /\ file[0] = <<>>
      BY <1>1, <1>16, <2>1, <2>3 DEF Reopen, Moved
    <3>2. PICK l \in Line : pending = <<l>>
      <4>1. pending \in Seq(Line) /\ Len(pending) = 1
        BY <2>1, FileFacts DEF Cached
      <4>2. pending[1] \in Line /\ pending = <<pending[1]>>
        BY <4>1
      <4> QED BY <4>2
    <3>3. l.size <= s /\ l.size \in Nat
      <4>1. l.size \in LineSize
        BY DEF Line
      <4> QED BY <4>1, FileAssumption
    <3>4. <<>> \o <<l>> = <<l>>
      BY OneLine, ConcatFacts
    <3>5. Fits(<<l>>, s)
      <4> DEFINE new == l.size
      <4>1. new \in Nat /\ new <= s
        BY <3>3
      <4> HIDE DEF new
      <4>2. new <= MaxSize + s
        BY <1>1, <4>1
      <4> QED BY <4>2, BytesOne DEF Fits, new
    <3> QED BY <1>4, <2>1, <3>1, <3>2, <3>4, <3>5
  <2> QED BY <2>2, <2>3
<1>17. CASE WriteToNull
  BY <1>4, <1>6, <1>17 DEF WriteToNull, Die
<1>18. CASE FileDeinit
  <2>1. file' = Flushed /\ cache' = <<>>
    BY <1>18 DEF FileDeinit, Flushed
  <2> QED BY <1>6, <1>9, <2>1
<1>19. CASE Kill
  BY <1>4, <1>6, <1>19 DEF Kill, Die
<1>20. CASE UNCHANGED vars
  BY <1>7, <1>20 DEF vars
<1> QED BY <1>10, <1>11, <1>12, <1>13, <1>14, <1>15, <1>16, <1>17, <1>18, <1>19, <1>20 DEF Next, Rotate

-----------------------------------------------------------------------------
\* A write, a move within the files and the end of a rotation lose no line.
LEMMA LogDoes ==
    ASSUME TypeOK
    PROVE  Ids(Log) = Ids(Kept(file)) \cup Ids(cache)
BY FileFacts, KeptType, IdsDoes DEF Log

\* A write loses none: the new line is cached, or pending.
LEMMA LostByWrite ==
    ASSUME TypeOK, TypeOK', Cached, NEW l \in Line, l.id = count + 1, count' = count + 1, Write(l)
    PROVE  Lost' \subseteq Lost
<1>1. /\ pc = "idle" /\ file' = Flushed /\ missing' = missing
      /\ (pending' = <<l>> /\ cache' = <<>>) \/ (cache' = <<l>> /\ pending' = pending)
  BY WriteDoes
<1>2. pending = <<>>
  BY <1>1 DEF Cached, Rotating
<1>3. Log' = Kept(file') \o cache' /\ Kept(file') = Log /\ Log \in Seq(Line)
  BY <1>1, FlushedDoes DEF Log
<1>4. Ids(Log') = Ids(Log) \cup Ids(cache')
  <2>1. cache' \in Seq(Line)
    BY DEF TypeOK
  <2> QED BY <1>3, <2>1, IdsDoes
<1>5. Ids(<<l>>) = {count + 1} /\ Ids(<<>>) = {}
  BY IdsOne, IdsDoes, FileFacts
<1>6. Ids(Log') \cup Ids(pending') = (Ids(Log) \cup Ids(pending)) \cup {count + 1}
  BY <1>1, <1>2, <1>4, <1>5
<1>7. \A id \in 1..count + 1 : id # count + 1 => id \in 1..count
  BY DEF TypeOK
<1> QED BY <1>1, <1>6, <1>7 DEF Lost

\* Nor does a rename to where there is no file.
LEMMA LostByRename ==
    ASSUME TypeOK, TypeOK', Rename, file[n + 1] = <<>>
    PROVE  Lost' \subseteq Lost /\ Log' = Log
<1>1. /\ file' = MovedOn(file, n) /\ cache' = cache /\ count' = count /\ missing' = missing
      /\ pending' = pending
  BY RenameDoes
<1>2. PICK a, b \in Seq(Line) : /\ Kept(file) = b \o (file[n + 1] \o (file[n] \o a))
                              /\ Kept(MovedOn(file, n)) = b \o (file[n] \o a)
  BY FileFacts, NumberFacts, KeptMoved
<1>3. file[n + 1] \o (file[n] \o a) = file[n] \o a
  BY FileFacts, NumberFacts, ConcatFacts
<1>4. Log' = Log
  BY <1>1, <1>2, <1>3 DEF Log
<1> QED BY <1>1, <1>4 DEF Lost

\* Files stay filled when the log grows; a rotation starts with the gap behind
\* the oldest one.
LEMMA FillLog ==
    ASSUME NEW f \in Files, NEW g \in Files, \A k \in 0..MaxRotate : k # 0 => g[k] = f[k],
           FullFiles(f, FALSE), NoHole(f, 0)
    PROVE  /\ FullFiles(g, FALSE) /\ NoHole(g, 0) /\ (AllUsed(f, 0) => AllUsed(g, 0))
           /\ Over(g[0]) => FullFiles(g, TRUE) /\ NoHole(g, MaxRotate) /\ g[0] # <<>>
           /\ Over(g[0]) /\ AllUsed(f, 0) => AllUsed(g, MaxRotate)
<1>1. MaxRotate \in Nat /\ MaxSize \in Nat
  BY FileAssumption
<1>2. \A k \in 0..MaxRotate : (k # 0 <=> k > 0) /\ \A j \in 0..k - 1 : j \in 0..MaxRotate /\ k # 0 /\ j # MaxRotate
  BY <1>1
<1>3. Over(g[0]) => g[0] # <<>>
  <2>1. ~(0 > MaxSize)
    BY <1>1
  <2> QED BY <2>1, BytesEmpty DEF Over
<1>4. FullFiles(g, FALSE)
  BY <1>2 DEF FullFiles
<1>5. Over(g[0]) => FullFiles(g, TRUE)
  BY <1>2 DEF FullFiles
<1>6. NoHole(g, 0)
  BY <1>2 DEF NoHole
<1>7. Over(g[0]) => NoHole(g, MaxRotate)
  BY <1>2, <1>3 DEF NoHole
<1>8. (AllUsed(f, 0) => AllUsed(g, 0)) /\ (Over(g[0]) /\ AllUsed(f, 0) => AllUsed(g, MaxRotate))
  BY <1>2, <1>3 DEF AllUsed
<1> QED BY <1>3, <1>4, <1>5, <1>6, <1>7, <1>8

\* The same lines in every file are the same files.
LEMMA SameFiles ==
    ASSUME NEW f \in Files, NEW g \in Files, \A j \in 0..MaxRotate : g[j] = f[j]
    PROVE  g = f
<1>1. f = [j \in 0..MaxRotate |-> f[j]] /\ g = [j \in 0..MaxRotate |-> g[j]]
  BY DEF Files
<1> QED BY <1>1

\* The removal of the file in the gap: where the gap is already, or the oldest.
LEMMA FillRemove ==
    ASSUME NEW f \in Files, NEW g \in Files, NEW k \in 0..(MaxRotate - 1), g[k + 1] = <<>>,
           \A j \in 0..MaxRotate : j # k + 1 => g[j] = f[j],
           FullFiles(f, TRUE), NoHole(f, k + 1)
    PROVE  /\ FullFiles(g, TRUE) /\ NoHole(g, k + 1) /\ g[0] = f[0]
           /\ f[k + 1] # <<>> /\ k = MaxRotate - 1 => AllUsed(g, k + 1)
<1>1. MaxRotate \in Nat /\ k \in Nat /\ k + 1 # 0 /\ 0 \in 0..MaxRotate /\ k + 1 \in 0..MaxRotate
  BY FileAssumption
<1>2. \A i \in 0..MaxRotate : \A j \in 0..i - 1 : j \in 0..MaxRotate
  BY <1>1
<1>3. FullFiles(g, TRUE)
  BY <1>2 DEF FullFiles
<1>4. NoHole(g, k + 1)
  BY <1>2 DEF NoHole
<1>5. ASSUME f[k + 1] # <<>>, k = MaxRotate - 1 PROVE AllUsed(g, k + 1)
  <2>1. \A j \in 0..MaxRotate : j # k + 1 => j \in 0..(k + 1) - 1
    BY <1>1, <1>5
  <2> QED BY <1>1, <1>5, <2>1 DEF NoHole, AllUsed
<1> QED BY <1>1, <1>3, <1>4, <1>5

\* The move to the gap moves the gap.
LEMMA FillRename ==
    ASSUME NEW f \in Files, NEW g \in Files, NEW k \in 0..(MaxRotate - 1),
           f[k + 1] = <<>>, f[k] # <<>>, g[k + 1] = f[k], g[k] = <<>>,
           \A j \in 0..MaxRotate : j # k /\ j # k + 1 => g[j] = f[j],
           FullFiles(f, TRUE), NoHole(f, k + 1)
    PROVE  /\ FullFiles(g, TRUE) /\ NoHole(g, k) /\ (k # 0 => g[0] = f[0])
           /\ AllUsed(f, k + 1) => AllUsed(g, k)
<1>1. MaxRotate \in Nat /\ k \in Nat /\ k + 1 # 0 /\ k # k + 1 /\ 0 \in 0..MaxRotate
      /\ k + 1 \in 0..MaxRotate /\ k \in 0..MaxRotate
  BY FileAssumption
<1>2. \A i \in 0..MaxRotate : \A j \in 0..i - 1 : j \in 0..MaxRotate
  BY <1>1
<1>3. FullFiles(g, TRUE)
  <2> SUFFICES ASSUME NEW i \in 0..MaxRotate, g[i] # <<>> PROVE Over(g[i])
    BY DEF FullFiles
  <2>1. CASE i = k + 1
    BY <1>1, <2>1 DEF FullFiles
  <2>2. CASE i # k + 1
    BY <1>1, <2>2 DEF FullFiles
  <2> QED BY <2>1, <2>2
<1>4. NoHole(g, k)
  <2> SUFFICES ASSUME NEW i \in 0..MaxRotate, NEW j \in 0..i - 1, g[i] # <<>>, j # k PROVE g[j] # <<>>
    BY DEF NoHole
  <2>1. CASE j = k + 1
    BY <2>1
  <2>2. CASE j # k + 1 /\ i # k + 1
    BY <1>2, <2>2 DEF NoHole
  <2>3. CASE j # k + 1 /\ i = k + 1
    <3>1. j \in 0..k - 1 /\ j \in 0..MaxRotate
      BY <1>1, <2>3
    <3> QED BY <1>1, <2>3, <3>1 DEF NoHole
  <2> QED BY <2>1, <2>2, <2>3
<1>5. AllUsed(f, k + 1) => AllUsed(g, k)
  BY <1>1 DEF AllUsed
<1> QED BY <1>1, <1>3, <1>4, <1>5

\* A file that is missing moves the gap, too; and then nothing was lost before.
LEMMA FillSkip ==
    ASSUME NEW f \in Files, NEW k \in 0..(MaxRotate - 1), f[k] = <<>>, NoHole(f, k + 1)
    PROVE  NoHole(f, k) /\ ~AllUsed(f, k + 1)
<1>1. MaxRotate \in Nat /\ k \in Nat /\ k # k + 1 /\ k \in 0..MaxRotate
  BY FileAssumption
<1>2. NoHole(f, k)
  <2> SUFFICES ASSUME NEW i \in 0..MaxRotate, NEW j \in 0..i - 1, f[i] # <<>>, j # k PROVE f[j] # <<>>
    BY DEF NoHole
  <2>1. CASE j = k + 1
    <3>1. k \in 0..i - 1
      BY <1>1, <2>1
    <3> QED BY <1>1, <3>1 DEF NoHole
  <2>2. CASE j # k + 1
    BY <2>2 DEF NoHole
  <2> QED BY <2>1, <2>2
<1>3. ~AllUsed(f, k + 1)
  BY <1>1 DEF AllUsed
<1> QED BY <1>2, <1>3

\* While nothing fails, every step keeps the files filled up to the gap.
LEMMA FilledStep ==
    ASSUME TypeOK, TypeOK', Cached, Moved, Filled, [Next]_vars
    PROVE  Filled'
<1> SUFFICES ASSUME luck' = "good"
             PROVE  FilledUp(file', Rotating', Gap', Lost') /\ (pc' = "reopen" => ~failed')
  BY DEF Filled
<1>1. FilledUp(file, Rotating, Gap, Lost) /\ (pc = "reopen" => ~failed)
  BY LuckDoes DEF Filled
<1>2. luck # "blind" /\ ~Goes("probe") /\ ~Goes("rename") /\ ~Goes("open") /\ ~Goes("kill")
  BY LuckDoes
<1>3. file \in Files /\ file' \in Files /\ n \in 0..(MaxRotate - 1)
  BY DEF TypeOK, Files
<1>4. pc \in {"off", "idle", "reopen"} => Rotating = FALSE /\ Gap = 0
  BY DEF Rotating, Gap
<1>5. pc' \in {"off", "idle", "reopen"} => Rotating' = FALSE /\ Gap' = 0
  BY DEF Rotating, Gap
<1>6. pc \in {"remove", "rename"} => Rotating = TRUE /\ Gap = n + 1
  BY DEF Rotating, Gap
<1>7. pc' \in {"remove", "rename"} => Rotating' = TRUE /\ Gap' = n' + 1
  BY DEF Rotating, Gap
<1>8. /\ pc \in {"off", "idle", "reopen"} /\ pc' \in {"off", "idle", "reopen"}
      /\ file' = file /\ Lost' \subseteq Lost
      => FilledUp(file', Rotating', Gap', Lost')
  BY <1>1, <1>4, <1>5 DEF FilledUp
<1>9. CASE FileInit
  <2>1. UNCHANGED <<file, cache, pending, count, missing>> /\ pc = "off" /\ pc' = "idle"
    BY <1>9 DEF FileInit
  <2>2. Lost' \subseteq Lost
    BY <2>1 DEF Lost, Log
  <2> QED BY <1>8, <2>1, <2>2
<1>10. CASE NewLine
  <2>1. PICK l \in Line : l.id = count + 1 /\ (Write(l) \/ WriteNowhere(l))
    BY <1>10, NewLineDoes
  <2>2. count' = count + 1
    BY <1>10, NewLineDoes
  <2>3. CASE Write(l)
    <3>1. /\ pc = "idle" /\ file' = Flushed
          /\ \/ Over(file'[0]) /\ pc' = "remove" /\ n' = MaxRotate - 1
             \/ pc' = pc
      BY <2>3, WriteDoes DEF Over
    <3>2. Lost' \subseteq Lost
      BY <2>1, <2>2, <2>3, LostByWrite
    <3>3. \A k \in 0..MaxRotate : k # 0 => file'[k] = file[k]
      BY <3>1, FlushedDoes
    <3>4. FullFiles(file, FALSE) /\ NoHole(file, 0) /\ (Lost # {} => AllUsed(file, 0))
      BY <1>1, <1>4, <3>1 DEF FilledUp
    <3>5. CASE Over(file'[0]) /\ pc' = "remove" /\ n' = MaxRotate - 1
      <4>1. Rotating' = TRUE /\ Gap' = MaxRotate
        BY <1>7, <3>5, FileAssumption
      <4>2. /\ FullFiles(file', TRUE) /\ NoHole(file', MaxRotate) /\ file'[0] # <<>>
            /\ AllUsed(file, 0) => AllUsed(file', MaxRotate)
        BY <1>3, <3>3, <3>4, <3>5, FillLog
      <4>3. FilledUp(file', TRUE, MaxRotate, Lost')
        BY <3>2, <3>4, <4>2 DEF FilledUp
      <4> QED BY <3>5, <4>1, <4>3
    <3>6. CASE pc' = pc
      <4>1. FilledUp(file', FALSE, 0, Lost')
        BY <1>3, <3>2, <3>3, <3>4, FillLog DEF FilledUp
      <4> QED BY <1>5, <3>1, <3>6, <4>1
    <3> QED BY <3>1, <3>5, <3>6
  <2>4. CASE WriteNowhere(l)
    <3>1. UNCHANGED <<file, cache, pc, pending>> /\ pc = "idle" /\ missing' = missing \cup {l.id}
      BY <2>4 DEF WriteNowhere
    <3>2. Lost' \subseteq Lost
      <4>1. \A id \in 1..count + 1 : id # count + 1 => id \in 1..count
        BY DEF TypeOK
      <4> QED BY <2>1, <2>2, <3>1, <4>1 DEF Lost, Log
    <3> QED BY <1>8, <3>1, <3>2
  <2> QED BY <2>1, <2>3, <2>4
<1>11. CASE RemoveOld
  <2>1. /\ pc = "remove" /\ pc' = "rename" /\ n' = n /\ file'[n + 1] = <<>>
        /\ \A j \in 0..MaxRotate : j # n + 1 => file'[j] = file[j]
    BY <1>2, <1>11, RemoveDoes
  <2>2. FullFiles(file, TRUE) /\ NoHole(file, n + 1) /\ (Lost # {} => AllUsed(file, n + 1)) /\ file[0] # <<>>
    BY <1>1, <1>6, <2>1 DEF FilledUp
  <2>3. /\ FullFiles(file', TRUE) /\ NoHole(file', n + 1) /\ file'[0] = file[0]
        /\ file[n + 1] # <<>> /\ n = MaxRotate - 1 => AllUsed(file', n + 1)
    BY <1>3, <2>1, <2>2, FillRemove
  <2>4. Lost' # {} => AllUsed(file', n + 1)
    <3>1. CASE file[n + 1] = <<>>
      <4>1. \A j \in 0..MaxRotate : file'[j] = file[j]
        BY <2>1, <3>1
      <4>2. file' = file
        BY <1>3, <4>1, SameFiles
      <4>3. Lost' = Lost
        BY <1>11, <4>2, RemoveDoes DEF Lost, Log
      <4> QED BY <2>2, <4>2, <4>3
    <3>2. CASE file[n + 1] # <<>>
      <4>1. n = MaxRotate - 1
        BY <1>2, <2>1, <3>2 DEF Moved, Rotating
      <4> QED BY <2>3, <3>2, <4>1
    <3> QED BY <3>1, <3>2
  <2>5. FilledUp(file', TRUE, n + 1, Lost')
    BY <2>2, <2>3, <2>4 DEF FilledUp
  <2> QED BY <1>7, <2>1, <2>5
<1>12. CASE Rename
  <2>1. /\ pc = "rename" /\ file[n] # <<>> /\ NextFile /\ failed' = failed
        /\ file'[n + 1] = file[n] /\ file'[n] = <<>>
        /\ \A j \in 0..MaxRotate : j # n /\ j # n + 1 => file'[j] = file[j]
    BY <1>12, RenameDoes
  <2>2. ~failed /\ file[n + 1] = <<>>
    BY <1>2, <2>1 DEF Cached, Moved, Rotating
  <2>3. FullFiles(file, TRUE) /\ NoHole(file, n + 1) /\ (Lost # {} => AllUsed(file, n + 1)) /\ file[0] # <<>>
    BY <1>1, <1>6, <2>1 DEF FilledUp
  <2>4. /\ FullFiles(file', TRUE) /\ NoHole(file', n) /\ (n # 0 => file'[0] = file[0])
        /\ AllUsed(file, n + 1) => AllUsed(file', n)
    BY <1>3, <2>1, <2>2, <2>3, FillRename
  <2>5. Lost' \subseteq Lost
    BY <1>12, <2>2, LostByRename
  <2>6. CASE n = 0 /\ n' = 0 /\ pc' = "reopen"
    <3>1. FullFiles(file', FALSE)
      BY <2>4 DEF FullFiles
    <3>2. FilledUp(file', FALSE, 0, Lost')
      BY <2>3, <2>4, <2>5, <2>6, <3>1 DEF FilledUp
    <3> QED BY <1>5, <2>1, <2>2, <2>6, <3>2
  <2>7. CASE n # 0 /\ n' + 1 = n /\ pc' = "remove"
    <3>1. FilledUp(file', TRUE, n, Lost')
      BY <2>3, <2>4, <2>5, <2>7 DEF FilledUp
    <3> QED BY <1>7, <2>7, <3>1
  <2> QED BY <2>1, <2>6, <2>7, NextFileDoes
<1>13. CASE RenameNothing
  <2>1. /\ pc = "rename" /\ file[n] = <<>> /\ NextFile
        /\ UNCHANGED <<file, cache, open, failed, pending, count, missing>>
    BY <1>2, <1>13 DEF RenameNothing
  <2>2. FullFiles(file, TRUE) /\ NoHole(file, n + 1) /\ (Lost # {} => AllUsed(file, n + 1)) /\ file[0] # <<>>
    BY <1>1, <1>6, <2>1 DEF FilledUp
  <2>3. NoHole(file, n) /\ ~AllUsed(file, n + 1)
    BY <1>3, <2>1, <2>2, FillSkip
  <2>4. Lost' = Lost /\ Lost = {}
    BY <2>1, <2>2, <2>3 DEF Lost, Log
  <2>5. n # 0
    BY <2>1, <2>2
  <2>6. n' + 1 = n /\ pc' = "remove"
    BY <2>1, <2>5, NextFileDoes
  <2>7. FilledUp(file', TRUE, n, Lost')
    BY <2>1, <2>2, <2>3, <2>4 DEF FilledUp
  <2> QED BY <1>7, <2>6, <2>7
<1>14. CASE RenameFails
  BY <1>2, <1>14 DEF RenameFails
<1>15. CASE Reopen
  <2>1. pc = "reopen" /\ pc' = "idle" /\ file' = file /\ count' = count
        /\ pending' = <<>> /\ cache' = pending /\ missing' = missing
    BY <1>1, <1>15 DEF Reopen
  <2>2. cache = <<>>
    BY <2>1 DEF Cached
  <2>3. Ids(Log') = Ids(Kept(file)) \cup Ids(pending) /\ Ids(Log) = Ids(Kept(file)) \cup Ids(<<>>)
    <3>1. Log' = Kept(file) \o pending
      BY <2>1 DEF Log
    <3> QED BY <2>2, <3>1, LogDoes, FileFacts, KeptType, IdsDoes
  <2>4. Lost' \subseteq Lost
    BY <2>1, <2>3, FileFacts, IdsDoes DEF Lost
  <2> QED BY <1>8, <2>1, <2>4
<1>16. CASE WriteToNull
  BY <1>2, <1>16 DEF WriteToNull
<1>17. CASE FileDeinit
  <2>1. /\ pc = "idle" /\ pc' = "off" /\ file' = Flushed /\ cache' = <<>>
        /\ pending' = pending /\ count' = count /\ missing' = missing
    BY <1>17 DEF FileDeinit, Flushed
  <2>2. Log' = Log
    <3>1. Log' = Log \o <<>> /\ Log \in Seq(Line)
      BY <2>1, FlushedDoes DEF Log
    <3> QED BY <3>1, ConcatFacts
  <2>3. Lost' \subseteq Lost
    BY <2>1, <2>2 DEF Lost
  <2>4. \A k \in 0..MaxRotate : k # 0 => file'[k] = file[k]
    BY <2>1, FlushedDoes
  <2>5. FullFiles(file, FALSE) /\ NoHole(file, 0) /\ (Lost # {} => AllUsed(file, 0))
    BY <1>1, <1>4, <2>1 DEF FilledUp
  <2>6. FilledUp(file', FALSE, 0, Lost')
    BY <1>3, <2>3, <2>4, <2>5, FillLog DEF FilledUp
  <2> QED BY <1>5, <2>1, <2>6
<1>18. CASE Kill
  BY <1>2, <1>18 DEF Kill
<1>19. CASE UNCHANGED vars
  <2>1. Lost' = Lost /\ Gap' = Gap /\ file' = file /\ Rotating' = Rotating /\ pc' = pc /\ failed' = failed
    BY <1>19 DEF vars, Lost, Log, Gap, Rotating
  <2> QED BY <1>1, <2>1
<1> QED BY <1>9, <1>10, <1>11, <1>12, <1>13, <1>14, <1>15, <1>16, <1>17, <1>18, <1>19 DEF Next, Rotate

-----------------------------------------------------------------------------
\* The file is opened at the start and after a rotation, or that has failed.
LEMMA UsableStep ==
    ASSUME IInv, [Next]_vars
    PROVE  Usable'
<1> SUFFICES ASSUME luck' = "good", pc' = "idle" PROVE open'
  BY DEF Usable
<1>1. TypeOK /\ luck = "good" /\ (pc = "idle" => open)
  BY LuckDoes DEF IInv, Usable
<1>2. ~Goes("open")
  BY <1>1, LuckDoes
<1>3. CASE FileInit
  BY <1>2, <1>3 DEF FileInit, Open
<1>4. CASE NewLine
  <2>1. PICK l \in Line : Write(l) \/ WriteNowhere(l)
    BY <1>1, <1>4, NewLineDoes
  <2>2. CASE Write(l)
    <3>1. pc = "idle" /\ (pc' = "remove" \/ open' = open)
      BY <1>1, <2>2, WriteDoes
    <3> QED BY <1>1, <3>1
  <2>3. CASE WriteNowhere(l)
    BY <1>1, <2>3 DEF WriteNowhere
  <2> QED BY <2>1, <2>2, <2>3
<1>5. CASE RemoveOld
  BY <1>5 DEF RemoveOld
<1>6. CASE Rename \/ RenameNothing
  <2>1. pc' \in {"reopen", "remove"}
    BY <1>6 DEF Rename, RenameNothing, NextFile
  <2> QED BY <2>1
<1>7. CASE RenameFails
  BY <1>7 DEF RenameFails
<1>8. CASE Reopen
  BY <1>2, <1>8 DEF Reopen, Open
<1>9. CASE WriteToNull \/ Kill
  BY <1>9 DEF WriteToNull, Kill, Die
<1>10. CASE FileDeinit
  BY <1>10 DEF FileDeinit
<1>11. CASE UNCHANGED vars
  BY <1>1, <1>11 DEF vars
<1> QED BY <1>3, <1>4, <1>5, <1>6, <1>7, <1>8, <1>9, <1>10, <1>11 DEF Next, Rotate

\* The inductive invariant holds at the start.
LEMMA IInvInit == Init => IInv
<1> SUFFICES ASSUME Init PROVE IInv
  OBVIOUS
<1>1. TypeOK
  BY TypeInit
<1>2. /\ \A k \in 0..MaxRotate : file[k] = <<>>
      /\ cache = <<>> /\ pending = <<>> /\ pc = "off" /\ count = 0 /\ failed = FALSE
  BY DEF Init
<1>3. Rotating = FALSE /\ Gap = 0
  BY <1>2 DEF Rotating, Gap
<1>4. Cached
  <2>1. Len(<<>>) = 0
    OBVIOUS
  <2>2. Len(cache) <= 1
    BY <1>2, <2>1, AtMostOne, Zenon
  <2> QED BY <1>2, <1>3, <2>2 DEF Cached
<1>5. Moved
  BY <1>2, <1>3 DEF Moved
<1>6. SizeBound
  <2>1. 0 \in 0..MaxRotate /\ MaxSize \in Nat /\ LineSize \subseteq Nat
    BY FileAssumption
  <2>2. <<>> \o <<>> = <<>>
    OBVIOUS
  <2>3. \A s \in LineSize : Fits(<<>>, s)
    BY <2>1, BytesEmpty DEF Fits
  <2> QED BY <1>2, <2>1, <2>2, <2>3 DEF SizeBound, Fits
<1>7. Filled
  <2>1. Lost = {}
    <3>1. 1..count = {}
      BY <1>2
    <3> QED BY <3>1 DEF Lost
  <2>2. FullFiles(file, Rotating) /\ NoHole(file, Gap)
    BY <1>2 DEF FullFiles, NoHole
  <2> QED BY <1>2, <1>3, <2>1, <2>2 DEF Filled, FilledUp
<1>8. Usable
  BY <1>2 DEF Usable
<1> QED BY <1>1, <1>4, <1>5, <1>6, <1>7, <1>8 DEF IInv

\* Every step keeps the inductive invariant.
LEMMA IInvStep == IInv /\ [Next]_vars => IInv'
<1> SUFFICES ASSUME IInv, [Next]_vars PROVE IInv'
  OBVIOUS
<1>1. TypeOK /\ Cached /\ Moved /\ SizeBound /\ Filled
  BY DEF IInv
<1>2. TypeOK'
  BY <1>1, TypeStep
<1> QED BY <1>1, <1>2, CachedStep, MovedStep, SizeStep, FilledStep, UsableStep DEF IInv

\* The inductive invariant holds, whatever fails.
THEOREM IInvAlways == Spec => []IInv
BY IInvInit, IInvStep, PTL DEF Spec

\* elog_file.c's variables have their types.
THEOREM TypeCorrect == Spec => []TypeOK
<1>1. IInv => TypeOK
  BY DEF IInv
<1> QED BY <1>1, IInvAlways, PTL

\* However rotations fail, no log file grows beyond max_size and one line
\* more, as long as no log that is there is taken for missing: for every
\* number and size of files, and every set of lines.
THEOREM SizeBoundAlways == Spec => []SizeBound
<1>1. IInv => SizeBound
  BY DEF IInv
<1> QED BY <1>1, IInvAlways, PTL

\* While nothing fails, elog_file_rotate removes no line that it has room
\* for: when one is gone, the rotated files hold more than max_rotate times
\* max_size.
THEOREM RetentionAlways == Spec => []Retention
<1>1. IInv => Retention
  <2> SUFFICES ASSUME IInv, pc = "idle", luck = "good", NEW id \in (1..count) \ (Ids(Log) \cup missing)
               PROVE  Bytes(Log) > MaxRotate * MaxSize
    BY DEF Retention
  <2>1. pending = <<>> /\ Rotating = FALSE /\ Gap = 0
    BY DEF IInv, Cached, Rotating, Gap
  <2>2. id \in Lost
    BY <2>1, FileFacts, IdsDoes DEF IInv, Lost
  <2>3. FullFiles(file, FALSE) /\ AllUsed(file, 0)
    BY <2>1, <2>2 DEF IInv, Filled, FilledUp
  <2>4. \A k \in 1..MaxRotate : Bytes(file[k]) > MaxSize
    <3>1. \A k \in 1..MaxRotate : k \in 0..MaxRotate /\ k # 0 /\ k > 0
      BY FileAssumption
    <3>2. \A k \in 1..MaxRotate : Over(file[k])
      BY <2>3, <3>1 DEF FullFiles, AllUsed
    <3> QED BY <3>2 DEF Over
  <2>5. file \in Files /\ cache \in Seq(Line)
    BY FileFacts DEF IInv
  <2> QED BY <2>4, <2>5, KeptFull DEF Log
<1> QED BY <1>1, IInvAlways, PTL

-----------------------------------------------------------------------------
(***************************************************************************)
(* The files are a log that loses lines at its old end, and the last one   *)
(* with the process that had it cached.                                    *)
(***************************************************************************)
\* What follows the first lines is a suffix.
LEMMA ForgetDoes ==
    ASSUME NEW x \in Seq(Line), NEW a \in Seq(Line), x # <<>>
    PROVE  \E i \in 2..(Len(x \o a) + 1) : a = SubSeq(x \o a, i, Len(x \o a))
<1> DEFINE s == x \o a
<1>1. /\ s \in Seq(Line) /\ Len(s) = Len(x) + Len(a) /\ Len(x) \in Nat /\ Len(a) \in Nat /\ Len(x) # 0
      /\ \A j \in 1..Len(a) : s[Len(x) + j] = a[j]
  OBVIOUS
<1> HIDE DEF s
<1>2. Len(x) + 1 \in 2..(Len(s) + 1)
  BY <1>1
<1>3. /\ SubSeq(s, Len(x) + 1, Len(s)) \in Seq(Line)
      /\ Len(SubSeq(s, Len(x) + 1, Len(s))) = Len(a)
      /\ \A j \in 1..Len(a) : SubSeq(s, Len(x) + 1, Len(s))[j] = s[Len(x) + j]
  BY <1>1
<1>4. SubSeq(s, Len(x) + 1, Len(s)) = a
  BY <1>1, <1>3
<1> QED BY <1>2, <1>4 DEF s

\* What comes before the last line is a prefix.
LEMMA CutDoes ==
    ASSUME NEW s \in Seq(Line), NEW l \in Line
    PROVE  s \o <<l>> # <<>> /\ s = SubSeq(s \o <<l>>, 1, Len(s \o <<l>>) - 1)
OBVIOUS

Holed(s, t) ==
    \E i \in 1..Len(s) : \E j \in i..Len(s) : t = SubSeq(s, 1, i - 1) \o SubSeq(s, j + 1, Len(s))

\* What is around lines is what is left without them.
LEMMA BlindDoes ==
    ASSUME NEW b \in Seq(Line), NEW x \in Seq(Line), NEW a \in Seq(Line), x # <<>>
    PROVE  Holed(b \o (x \o a), b \o a)
<1> DEFINE s == b \o (x \o a)
           B == Len(b)
           X == Len(x)
           A == Len(a)
<1>1. \A t, u \in Seq(Line) :
          /\ t \o u \in Seq(Line) /\ Len(t \o u) = Len(t) + Len(u)
          /\ \A j \in 1..Len(t) : (t \o u)[j] = t[j]
          /\ \A j \in 1..Len(u) : (t \o u)[Len(t) + j] = u[j]
  OBVIOUS
<1>2. B \in Nat /\ X \in Nat /\ A \in Nat /\ X # 0
  OBVIOUS
<1>3. /\ s \in Seq(Line) /\ Len(s) = B + (X + A)
      /\ \A j \in 1..B : s[j] = b[j]
      /\ \A j \in 1..A : s[B + (X + j)] = a[j]
  <2> DEFINE t == x \o a
  <2>1. t \in Seq(Line) /\ Len(t) = X + A /\ \A j \in 1..A : t[X + j] = a[j]
    OBVIOUS
  <2> HIDE DEF t
  <2>2. /\ b \o t \in Seq(Line) /\ Len(b \o t) = B + Len(t)
        /\ \A j \in 1..B : (b \o t)[j] = b[j]
        /\ \A j \in 1..Len(t) : (b \o t)[B + j] = t[j]
    BY <1>1, <2>1
  <2>3. \A j \in 1..A : X + j \in 1..Len(t)
    BY <1>2, <2>1
  <2> QED BY <2>1, <2>2, <2>3 DEF t
<1> HIDE DEF s
<1>4. SubSeq(s, 1, (B + 1) - 1) = b
  BY <1>2, <1>3
<1>5. SubSeq(s, (B + X) + 1, Len(s)) = a
  <2> DEFINE low == (B + X) + 1
             t == SubSeq(s, low, Len(s))
  <2>1. low \in 1..(Len(s) + 1) /\ Len(s) - low + 1 = A /\ \A j \in 1..A : low + j - 1 = B + (X + j)
    BY <1>2, <1>3
  <2> HIDE DEF low
  <2>2. t \in Seq(Line) /\ Len(t) = Len(s) - low + 1 /\ \A j \in 1..Len(s) - low + 1 : t[j] = s[low + j - 1]
    BY <1>3, <2>1
  <2>3. Len(t) = A /\ \A j \in 1..A : t[j] = a[j]
    BY <1>3, <2>1, <2>2
  <2> HIDE DEF t
  <2>4. t = a
    BY <2>2, <2>3
  <2> QED BY <2>4 DEF t, low
<1>6. B + 1 \in 1..Len(s) /\ B + X \in (B + 1)..Len(s)
  BY <1>2, <1>3
<1> QED BY <1>4, <1>5, <1>6 DEF s, Holed

\* At the start nothing is kept.
LEMMA HistoryInit == Init => History!Init
<1> SUFFICES ASSUME Init PROVE Log = <<>>
  BY DEF History!Init, Init
<1>1. TypeOK
  BY TypeInit
<1>2. (\A k \in 0..MaxRotate : file[k] = <<>>) /\ cache = <<>>
  BY DEF Init
<1>3. Kept(file) = <<>>
  BY <1>1, <1>2, KeptEmpty, FileFacts
<1>4. <<>> \o <<>> = <<>>
  OBVIOUS
<1> QED BY <1>2, <1>3, <1>4 DEF Log, Init

\* A call writes its line to the new end of the log, or rotates first.
LEMMA HistoryWrite ==
    ASSUME TypeOK, Cached, NEW l \in Line, l.id = count + 1, count' = count + 1, Write(l)
    PROVE  History!Write \/ History!Wait
<1>1. pc = "idle" /\ file' = Flushed /\ cache' \in {<<>>, <<l>>}
  BY WriteDoes
<1>2. Log' = Log \o cache' /\ Log \in Seq(Line)
  BY <1>1, FlushedDoes DEF Log
<1>3. Log \o <<>> = Log /\ Log \o <<l>> = Append(Log, l)
  BY <1>2
<1>4. pending = <<>>
  BY <1>1 DEF Cached, Rotating
<1>5. History!Call(l)
  BY <1>4 DEF History!Call
<1>6. CASE cache' = <<>> /\ pending' = <<l>> /\ pc' = "remove" /\ n' = MaxRotate - 1
  BY <1>2, <1>3, <1>5, <1>6 DEF History!Wait
<1>7. CASE cache' = <<l>> /\ pending' = pending /\ pc' = pc /\ n' = n
  BY <1>2, <1>3, <1>5, <1>7 DEF History!Write
<1> QED BY <1>6, <1>7, WriteDoes

\* Without a file there is no place for the line, after a failure only.
LEMMA HistoryRefuse ==
    ASSUME TypeOK, Cached, Usable, NEW l \in Line, l.id = count + 1, count' = count + 1, WriteNowhere(l)
    PROVE  History!Refuse
<1>1. pc = "idle" /\ ~open /\ UNCHANGED <<file, cache, pc, n, pending>>
  BY DEF WriteNowhere
<1>2. luck # "good"
  BY <1>1 DEF Usable
<1>3. pending = <<>>
  BY <1>1 DEF Cached, Rotating
<1>4. Log' = Log
  BY <1>1 DEF Log
<1>5. History!Call(l)
  BY <1>3 DEF History!Call
<1> QED BY <1>1, <1>2, <1>4, <1>5 DEF History!Refuse

\* The oldest file is removed, or, blindly, another one.
LEMMA HistoryRemove ==
    ASSUME TypeOK, Cached, Moved, RemoveOld
    PROVE  History!Forget \/ History!Blind \/ History!Fail
<1>1. pc = "remove" /\ cache' = cache /\ cache = <<>>
  BY RemoveDoes DEF Cached
<1>0. pc' = "rename" /\ UNCHANGED <<n, pending, count>>
  BY RemoveDoes
<1>2. CASE Log' = Log
  <2>1. CASE n = MaxRotate - 1
    BY <1>0, <1>1, <1>2, <2>1 DEF History!Forget
  <2>2. CASE n # MaxRotate - 1
    BY <1>0, <1>2, <2>2 DEF History!Fail
  <2> QED BY <2>1, <2>2
<1>3. CASE /\ file' \in Files /\ file'[n + 1] = <<>>
           /\ \A j \in 0..MaxRotate : j # n + 1 => file'[j] = file[j]
  <2>1. ChangesOne(file, file', n + 1)
    BY <1>3, FileFacts, NumberFacts, KeptOne
  <2>2. PICK a, b \in Seq(Line) :
            /\ Kept(file) = b \o (file[n + 1] \o a)
            /\ Kept(file') = b \o (file'[n + 1] \o a)
            /\ n + 1 = 0 => a = <<>>
            /\ n + 1 = MaxRotate => b = <<>>
    BY <2>1 DEF ChangesOne
  <2>3. file[n + 1] \in Seq(Line)
    BY FileFacts, NumberFacts
  <2>4. file'[n + 1] \o a = a /\ b \o (file[n + 1] \o a) \in Seq(Line) /\ b \o a \in Seq(Line)
    BY <1>3, <2>3, ConcatFacts
  <2>5. Log = b \o (file[n + 1] \o a) /\ Log' = b \o a
    <3>1. Log = Kept(file) \o <<>> /\ Log' = Kept(file') \o <<>>
      BY <1>1 DEF Log
    <3> QED BY <2>2, <2>4, <3>1, ConcatFacts
  <2>6. CASE file[n + 1] = <<>>
    <3>1. Log' = Log
      BY <2>3, <2>5, <2>6, ConcatFacts
    <3> QED BY <1>2, <3>1
  <2>7. CASE file[n + 1] # <<>> /\ n # MaxRotate - 1
    <3>1. luck = "blind"
      BY <1>1, <2>7 DEF Moved, Rotating
    <3>2. Holed(Log, Log')
      BY <2>3, <2>5, <2>7, BlindDoes
    <3> QED BY <1>0, <2>7, <3>1, <3>2 DEF History!Blind, Holed
  <2>8. CASE file[n + 1] # <<>> /\ n = MaxRotate - 1
    <3>1. n + 1 = MaxRotate
      BY <2>8, NumberFacts
    <3>2. Log = file[n + 1] \o a /\ Log' = a
      BY <2>2, <2>3, <2>5, <3>1, ConcatFacts
    <3>3. \E i \in 2..(Len(Log) + 1) : Log' = SubSeq(Log, i, Len(Log))
      BY <2>3, <2>8, <3>2, ForgetDoes
    <3> QED BY <1>0, <1>1, <2>8, <3>3 DEF History!Forget
  <2> QED BY <2>6, <2>7, <2>8
<1>4. file' = file => Log' = Log
  BY <1>1 DEF Log
<1> QED BY <1>2, <1>3, <1>4, RemoveDoes

\* A rename keeps the log; a blind one may overwrite another file.
LEMMA HistoryRename ==
    ASSUME TypeOK, TypeOK', Cached, Moved, Rename
    PROVE  History!Blind \/ History!Fail
<1>1. pc = "rename" /\ file' = MovedOn(file, n) /\ cache' = cache /\ cache = <<>>
  BY RenameDoes DEF Cached
<1>0. pc' = "reopen" \/ n' # MaxRotate - 1
  <2>1. (n' + 1 = n /\ n' \in 0..(MaxRotate - 1)) \/ pc' = "reopen"
    BY RenameDoes, NextFileDoes DEF TypeOK
  <2> QED BY <2>1, NumberFacts
<1>4. UNCHANGED <<pending, count>> /\ (IF pc' = "remove" /\ n' = MaxRotate - 1 THEN 1 ELSE 0) = 0
      /\ (IF pc = "remove" /\ n = MaxRotate - 1 THEN 1 ELSE 0) = 0
  BY <1>0, <1>1, RenameDoes
<1>2. CASE file[n + 1] = <<>>
  <2>1. Log' = Log
    BY <1>2, LostByRename
  <2> QED BY <1>4, <2>1 DEF History!Fail
<1>3. CASE file[n + 1] # <<>>
  <2>1. luck = "blind"
    BY <1>1, <1>3 DEF Moved, Rotating
  <2>2. PICK a, b \in Seq(Line) :
            /\ Kept(file) = b \o (file[n + 1] \o (file[n] \o a))
            /\ Kept(MovedOn(file, n)) = b \o (file[n] \o a)
    BY FileFacts, NumberFacts, KeptMoved
  <2>3. file[n + 1] \in Seq(Line) /\ file[n] \in Seq(Line)
    BY FileFacts, NumberFacts
  <2> DEFINE rest == file[n] \o a
  <2>4. rest \in Seq(Line)
    BY <2>3, ConcatFacts
  <2> HIDE DEF rest
  <2>5. b \o (file[n + 1] \o rest) \in Seq(Line) /\ b \o rest \in Seq(Line)
    BY <2>3, <2>4, ConcatFacts
  <2>6. Log = b \o (file[n + 1] \o rest) /\ Log' = b \o rest
    <3>1. Log = Kept(file) \o <<>> /\ Log' = Kept(MovedOn(file, n)) \o <<>>
      BY <1>1 DEF Log
    <3>2. Kept(file) = b \o (file[n + 1] \o rest) /\ Kept(MovedOn(file, n)) = b \o rest
      BY <2>2 DEF rest
    <3>3. \A s \in Seq(Line) : s \o <<>> = s
      OBVIOUS
    <3>4. /\ (b \o (file[n + 1] \o rest)) \o <<>> = b \o (file[n + 1] \o rest)
          /\ (b \o rest) \o <<>> = b \o rest
      BY <2>5, <3>3
    <3> QED BY <3>1, <3>2, <3>4, Zenon
  <2>7. Holed(Log, Log')
    BY <1>3, <2>3, <2>4, <2>6, BlindDoes
  <2> QED BY <1>4, <2>1, <2>7 DEF History!Blind, Holed
<1> QED BY <1>2, <1>3

\* The process takes the line it had cached with it.
LEMMA HistoryDie ==
    ASSUME TypeOK, Cached, Die, luck' # "good"
    PROVE  History!Die
<1>1. file' = file /\ cache' = <<>>
  BY DEF Die
<1>6. pending' = <<>> /\ pc' = "off" /\ count' = count
  BY DEF Die
<1>2. Kept(file) \in Seq(Line) /\ cache \in Seq(Line)
  BY FileFacts, KeptType
<1>3. Log' = Kept(file)
  <2>1. Log' = Kept(file) \o <<>>
    BY <1>1 DEF Log
  <2> QED BY <1>2, <2>1, ConcatFacts
<1>4. CASE cache = <<>>
  <2>1. Log' = Log
    BY <1>2, <1>3, <1>4, ConcatFacts DEF Log
  <2> QED BY <1>6, <2>1 DEF History!Die
<1>5. CASE cache # <<>>
  <2>1. Len(cache) <= 1
    BY DEF Cached
  <2>2. cache = <<cache[1]>> /\ cache[1] \in Line
    BY <1>2, <1>5, <2>1, Single
  <2>3. Log = Kept(file) \o <<cache[1]>>
    BY <2>2 DEF Log
  <2>4. History!CutLast
    BY <1>2, <1>3, <2>2, <2>3, CutDoes DEF History!CutLast
  <2> QED BY <1>6, <2>4 DEF History!Die
<1> QED BY <1>4, <1>5

\* After a good rotation, the line that waited for it; a failed one drops it.
LEMMA HistoryReopen ==
    ASSUME TypeOK, Cached, Filled, Reopen
    PROVE  History!Deliver \/ History!Drop
<1>1. /\ pc = "reopen" /\ pc' = "idle" /\ file' = file /\ count' = count /\ pending' = <<>>
      /\ cache' = IF failed THEN <<>> ELSE pending
  BY DEF Reopen
<1>2. cache = <<>> /\ Len(pending) = 1
  BY <1>1 DEF Cached
<1>3. Kept(file) \in Seq(Line) /\ pending # <<>>
  <2>1. pending # <<>>
    BY <1>2
  <2> QED BY <2>1, FileFacts, KeptType
<1>4. Log = Kept(file)
  <2>1. Log = Kept(file) \o <<>>
    BY <1>2 DEF Log
  <2> QED BY <1>3, <2>1, ConcatFacts
<1>5. Log' = Log \o cache' /\ Log \o <<>> = Log
  BY <1>1, <1>3, <1>4, ConcatFacts DEF Log
<1>6. CASE failed
  <2>1. luck # "good"
    BY <1>1, <1>6 DEF Filled
  <2>2. Log' = Log
    BY <1>1, <1>5, <1>6
  <2> QED BY <1>1, <1>3, <2>1, <2>2 DEF History!Drop
<1>7. CASE ~failed
  BY <1>1, <1>3, <1>5, <1>7 DEF History!Deliver
<1> QED BY <1>6, <1>7

\* What is not a call of elog_file_write, or fails in one, keeps the log.
LEMMA HistoryFail ==
    ASSUME TypeOK, FileInit \/ RenameNothing \/ RenameFails \/ FileDeinit \/ UNCHANGED vars
    PROVE  History!Fail
<1>1. CASE FileInit
  BY <1>1 DEF FileInit, Log, History!Fail
<1>2. CASE RenameNothing
  <2>1. pc = "rename" /\ UNCHANGED <<file, cache, pending, count>>
    BY <1>2 DEF RenameNothing
  <2>2. (n' + 1 = n /\ n \in 0..(MaxRotate - 1) /\ n' # MaxRotate - 1) \/ pc' = "reopen"
    BY <1>2, NextFileDoes, NumberFacts DEF RenameNothing, TypeOK
  <2> QED BY <2>1, <2>2 DEF Log, History!Fail
<1>3. CASE RenameFails
  BY <1>3 DEF RenameFails, Log, History!Fail
<1>4. CASE FileDeinit
  <2>1. file' = Flushed /\ cache' = <<>> /\ pc = "idle" /\ pc' = "off" /\ UNCHANGED <<pending, count>>
    BY <1>4 DEF FileDeinit, Flushed
  <2>2. Log' = Log \o <<>> /\ Log \in Seq(Line)
    BY <2>1, FlushedDoes DEF Log
  <2>3. Log' = Log
    BY <2>2, ConcatFacts
  <2> QED BY <2>1, <2>3 DEF History!Fail
<1>5. CASE UNCHANGED vars
  BY <1>5 DEF vars, Log, History!Fail
<1> QED BY <1>1, <1>2, <1>3, <1>4, <1>5

\* Every step is one of LogHistory.
LEMMA HistoryStep == IInv /\ [Next]_vars => [History!Next]_History!vars
<1> SUFFICES ASSUME IInv, [Next]_vars
             PROVE  History!Next
  OBVIOUS
<1>1. TypeOK /\ Cached /\ Moved /\ Filled /\ Usable /\ TypeOK'
  BY TypeStep DEF IInv
<1>2. History!Worse
  <2>1. luck \in {"good", "bad", "blind"}
    BY <1>1 DEF TypeOK
  <2> QED BY <1>1, <2>1, LuckDoes DEF History!Worse
<1>3. CASE NewLine
  <2>1. PICK l \in Line : l.id = count + 1 /\ (Write(l) \/ WriteNowhere(l))
    BY <1>1, <1>3, NewLineDoes
  <2>2. count' = count + 1
    BY <1>1, <1>3, NewLineDoes
  <2>3. History!Write \/ History!Wait \/ History!Refuse
    BY <1>1, <2>1, <2>2, HistoryWrite, HistoryRefuse
  <2> QED BY <1>2, <2>3 DEF History!Next
<1>4. CASE RemoveOld
  BY <1>1, <1>2, <1>4, HistoryRemove DEF History!Next
<1>5. CASE Rename
  BY <1>1, <1>2, <1>5, HistoryRename DEF History!Next
<1>6. CASE Reopen
  BY <1>1, <1>2, <1>6, HistoryReopen DEF History!Next
<1>7. CASE WriteToNull \/ Kill
  <2>1. Die /\ luck' # "good"
    BY <1>1, <1>7, LuckDoes DEF WriteToNull, Kill
  <2> QED BY <1>1, <1>2, <2>1, HistoryDie DEF History!Next
<1>8. CASE FileInit \/ RenameNothing \/ RenameFails \/ FileDeinit \/ UNCHANGED vars
  BY <1>1, <1>2, <1>8, HistoryFail DEF History!Next
<1> QED BY <1>3, <1>4, <1>5, <1>6, <1>7, <1>8 DEF Next, Rotate

\* The log files implement LogHistory, whatever is killed or fails on the way:
\* a call writes its line, at the cost of old lines once; lines are dropped only
\* after a failure, and the one that was being written with its process; from
\* the middle lines go only when a file that is there cannot be opened.
THEOREM HistoryImplemented == Spec => ImplementsHistory
<1> QED BY HistoryInit, HistoryStep, IInvAlways, PTL DEF Spec, ImplementsHistory, History!Spec

=============================================================================
