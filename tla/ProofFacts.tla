----------------------------- MODULE ProofFacts -----------------------------
(***************************************************************************)
(* What the proofs need of numbers, sets and functions that the library    *)
(* does not say in a form without operator parameters.                     *)
(***************************************************************************)
EXTENDS Naturals, TLAPS, WellFoundedInduction

\* A non-empty set of naturals has a least element: induction for a set of
\* counterexamples.
LEMMA LeastElement ==
    ASSUME NEW T, T \subseteq Nat, T # {}
    PROVE  \E x \in T : \A y \in T : x <= y
<1>1. \E x \in T : \A y \in T : ~(<<y, x>> \in OpToRel(<, Nat))
  BY NatLessThanWellFounded, WFMin
<1>2. \A x, y \in Nat : <<y, x>> \in OpToRel(<, Nat) <=> y < x
  BY DEF OpToRel
<1>3. PICK x \in T : \A y \in T : ~(<<y, x>> \in OpToRel(<, Nat))
  BY <1>1
<1>4. \A y \in T : ~(y < x)
  BY <1>2, <1>3
<1> QED BY <1>4

\* Induction over the numbers up to N, for the set of those that are good.
LEMMA Induction ==
    ASSUME NEW N \in Nat, NEW Good, 0 \in Good, \A i \in 1..N : i - 1 \in Good => i \in Good
    PROVE  \A i \in 0..N : i \in Good
<1> DEFINE Bad == {i \in 0..N : i \notin Good}
<1> SUFFICES ASSUME Bad # {} PROVE FALSE
  OBVIOUS
<1>1. Bad \subseteq Nat
  OBVIOUS
<1>2. PICK i \in Bad : \A j \in Bad : i <= j
  <2> HIDE DEF Bad
  <2> QED BY ONLY <1>1, Bad # {}, LeastElement
<1>3. i \in 1..N /\ i - 1 \in 0..N /\ ~(i <= i - 1)
  BY <1>2
<1> QED BY <1>2, <1>3

\* The function f starts with base and goes on with step[i] up to N.
Recurs(f, N, base, step) == \A i \in 0..N : f[i] = IF i = 0 THEN base ELSE step[i][f[i - 1]]

\* A recursion over the numbers up to N has a solution.
LEMMA Recursion ==
    \A N \in Nat : \A X : \A base \in X : \A step \in [1..N -> [X -> X]] :
        \E f \in [0..N -> X] : Recurs(f, N, base, step)
<1> SUFFICES ASSUME NEW N \in Nat, NEW X, NEW base \in X, NEW step \in [1..N -> [X -> X]]
             PROVE  \E f \in [0..N -> X] : Recurs(f, N, base, step)
  OBVIOUS
<1> DEFINE Solves(f, n) == /\ f \in [0..n -> X]
                           /\ \A i \in 0..n : f[i] = IF i = 0 THEN base ELSE step[i][f[i - 1]]
           Open == {n \in 0..N : ~\E f : Solves(f, n)}
<1>1. CASE Open = {}
  <2>1. N \in 0..N
    OBVIOUS
  <2> QED BY <1>1, <2>1 DEF Recurs
<1>2. CASE Open # {}
  <2>1. PICK n \in Open : \A m \in Open : n <= m
    <3>1. Open \subseteq Nat
      OBVIOUS
    <3> QED BY ONLY <1>2, <3>1, LeastElement
  <2>2. n # 0
    <3>1. Solves([i \in 0..0 |-> base], 0)
      OBVIOUS
    <3> QED BY <2>1, <3>1
  <2>3. n - 1 \in 0..N /\ n - 1 \notin Open /\ n \in 1..N
    <3>1. n \in 0..N
      BY <2>1
    <3>2. n - 1 \in 0..N /\ ~(n <= n - 1) /\ n \in 1..N
      BY <2>2, <3>1
    <3> HIDE DEF Open
    <3> QED BY <2>1, <3>2
  <2>4. PICK f : Solves(f, n - 1)
    BY <2>3
  <2> DEFINE g == [i \in 0..n |-> IF i = n THEN step[n][f[n - 1]] ELSE f[i]]
  <2>5. \A i \in 0..n : i # n => i \in 0..(n - 1)
    BY <2>3
  <2>6. f[n - 1] \in X /\ step[n][f[n - 1]] \in X
    BY <2>3, <2>4
  <2>7. g \in [0..n -> X]
    BY <2>4, <2>5, <2>6
  <2>8. ASSUME NEW i \in 0..n PROVE g[i] = IF i = 0 THEN base ELSE step[i][g[i - 1]]
    <3>1. CASE i = n
      BY <2>2, <2>3, <3>1
    <3>2. CASE i # n
      <4>1. i \in 0..(n - 1) /\ g[i] = f[i]
        BY <2>5, <3>2
      <4>2. i # 0 => i - 1 \in 0..n /\ i - 1 # n
        BY <2>3, <4>1
      <4> QED BY <2>4, <4>1, <4>2
    <3> QED BY <3>1, <3>2
  <2> QED BY <2>1, <2>7, <2>8
<1> QED BY <1>1, <1>2

\* What rule[i] makes of a function depends on the larger numbers only.
LooksUp(rule, N, V) ==
    \A i \in 1..N : \A g, h \in [1..N -> V] :
        (\A j \in 1..N : j > i => g[j] = h[j]) => rule[i][g] = rule[i][h]

\* The function g is what the rules make of it.
Obeys(g, rule, N) == \A i \in 1..N : g[i] = rule[i][g]

\* A recursion from the numbers up to N downwards has a solution.
LEMMA DownRecursion ==
    \A N \in Nat : \A V : \A v \in V : \A rule \in [1..N -> [[1..N -> V] -> V]] :
        LooksUp(rule, N, V) => \E g \in [1..N -> V] : Obeys(g, rule, N)
<1> SUFFICES ASSUME NEW N \in Nat, NEW V, NEW v \in V,
                    NEW rule \in [1..N -> [[1..N -> V] -> V]], LooksUp(rule, N, V)
             PROVE  \E g \in [1..N -> V] : Obeys(g, rule, N)
  OBVIOUS
<1> DEFINE Good == {n \in 0..N : \E g \in [1..N -> V] :
                                    \A i \in 1..N : i > N - n => g[i] = rule[i][g]}
<1>1. 0 \in Good
  <2>1. [i \in 1..N |-> v] \in [1..N -> V]
    OBVIOUS
  <2>2. \A i \in 1..N : ~(i > N - 0)
    OBVIOUS
  <2>3. \E g \in [1..N -> V] : \A i \in 1..N : i > N - 0 => g[i] = rule[i][g]
    BY <2>1, <2>2, Zenon
  <2> QED BY <2>3
<1>2. ASSUME NEW n \in 1..N, n - 1 \in Good PROVE n \in Good
  <2>1. PICK g \in [1..N -> V] : \A i \in 1..N : i > N - (n - 1) => g[i] = rule[i][g]
    BY <1>2
  <2> DEFINE m == N + 1 - n
             h == [g EXCEPT ![m] = rule[m][g]]
  <2>2. m \in 1..N /\ \A i \in 1..N : (i > N - n <=> i = m \/ i > m) /\ (i > N - (n - 1) <=> i > m)
    OBVIOUS
  <2>3. h \in [1..N -> V] /\ h[m] = rule[m][g] /\ \A i \in 1..N : i # m => h[i] = g[i]
    BY <2>2
  <2> HIDE DEF m, h
  <2>4. ASSUME NEW i \in 1..N, i = m \/ i > m PROVE rule[i][g] = rule[i][h]
    <3>1. \A j \in 1..N : j > i => g[j] = h[j]
      BY <2>2, <2>3, <2>4
    <3> QED BY <2>3, <3>1 DEF LooksUp
  <2>5. ASSUME NEW i \in 1..N, i > N - n PROVE h[i] = rule[i][h]
    <3>1. CASE i = m
      BY <2>3, <2>4, <3>1
    <3>2. CASE i # m
      <4>1. i > m /\ h[i] = g[i] /\ g[i] = rule[i][g]
        BY <2>1, <2>2, <2>3, <2>5, <3>2
      <4> QED BY <2>4, <4>1
    <3> QED BY <3>1, <3>2
  <2> QED BY <2>3, <2>5
<1>3. N \in 0..N
  OBVIOUS
<1>4. N \in Good
  <2> HIDE DEF Good
  <2> QED BY <1>1, <1>2, <1>3, Induction
<1>5. PICK g \in [1..N -> V] : \A i \in 1..N : i > N - N => g[i] = rule[i][g]
  BY <1>4
<1>6. \A i \in 1..N : i > N - N
  OBVIOUS
<1> QED BY <1>5, <1>6 DEF Obeys
=============================================================================
