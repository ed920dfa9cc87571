-------------------------- MODULE CJSONBuild_proofs --------------------------
(***************************************************************************)
(* For every number of cells, of nesting levels and set of names, and for  *)
(* every sequence of calls of cJSON's tree functions, with the parser and  *)
(* cJSON_Duplicate step by step among them: the lists are linked both      *)
(* ways, each item has one owner and each name is freed by who owns it.    *)
(*                                                                         *)
(* The argument: there is a function L that gives each item the list of    *)
(* its children, and, behind MaxNodes, the lists that a call that runs is  *)
(* still building.  Good says that memory is linked as L says and that L   *)
(* has each item that is no root exactly once.  Each helper of the code    *)
(* (suffix_object, detach, insert, replace, delete) takes a good memory to *)
(* a good one with another L, and each call is made of these.              *)
(***************************************************************************)
EXTENDS CJSONBuild, TLAPS, ProofFacts, SequenceTheorems, FiniteSetTheorems

\* The first and the last of a list.
First(s) == IF s = <<>> THEN Null ELSE s[1]
Final(s) == IF s = <<>> THEN Null ELSE s[Len(s)]
Elems(s) == {s[i] : i \in 1..Len(s)}

\* The items of s are linked in this order; nothing is said of the prev of
\* the first one.
IsList(h, s) ==
    /\ s \in Seq(Node)
    /\ \A i, j \in 1..Len(s) : s[i] = s[j] => i = j
    /\ \A i \in 1..Len(s) : h[s[i]].next = IF i < Len(s) THEN s[i + 1] ELSE Null
    /\ \A i \in 2..Len(s) : h[s[i]].prev = s[i - 1]

\* Memory in which `al` is allocated and R are the items that are in no list.
Heap(h, al, R) ==
    /\ h \in [Node -> Cell] /\ al \subseteq Node /\ R \subseteq al
    /\ \A n \in Node \ al : h[n] = Zeroed
    /\ \A n \in R : h[n].next = Null

\* L has the list of each item, and behind MaxNodes those of calls that run.
Lists(h, al, R, L) ==
    /\ L \in [Nat -> Seq(Node)]
    /\ \A k \in Nat : IsList(h, L[k]) /\ Elems(L[k]) \subseteq al \ R

Apart(L) == \A k, l \in Nat : k # l => Elems(L[k]) \cap Elems(L[l]) = {}

Held(al, R, L) == \A n \in al \ R : \E k \in Nat : n \in Elems(L[k])

\* The child of an item that is no reference is the first in its list, whose
\* prev is the last one, but for the items of O.
Owns(h, al, L, O) ==
    \A n \in Node :
        IF n \in al /\ ~h[n].isReference
        THEN /\ h[n].child = First(L[n])
             /\ n \notin O /\ L[n] # <<>> => h[L[n][1]].prev = Final(L[n])
        ELSE L[n] = <<>>

Good(h, al, R, L, O) ==
    Heap(h, al, R) /\ Lists(h, al, R, L) /\ Apart(L) /\ Held(al, R, L) /\ Owns(h, al, L, O)

-----------------------------------------------------------------------------
(* Cells and the fields set in them                                        *)

\* Memory in which one field of one cell is set.
SameBut(h, g, n) == g \in [Node -> Cell] /\ \A m \in Node \ {n} : g[m] = h[m]
Keeps(h, g, n)   == /\ g[n].isReference = h[n].isReference /\ g[n].string = h[n].string
                    /\ g[n].stringIsConst = h[n].stringIsConst

NextSet(h, g, n, v) ==
    /\ SameBut(h, g, n) /\ Keeps(h, g, n)
    /\ g[n].next = v /\ g[n].prev = h[n].prev /\ g[n].child = h[n].child

PrevSet(h, g, n, v) ==
    /\ SameBut(h, g, n) /\ Keeps(h, g, n)
    /\ g[n].next = h[n].next /\ g[n].prev = v /\ g[n].child = h[n].child

ChildSet(h, g, n, v) ==
    /\ SameBut(h, g, n) /\ Keeps(h, g, n)
    /\ g[n].next = h[n].next /\ g[n].prev = h[n].prev /\ g[n].child = v

\* The assignments of the code do so.
LEMMA FieldsSet ==
    ASSUME NEW h \in [Node -> Cell], NEW n \in Node, NEW v \in Node \cup {Null}
    PROVE  /\ NextSet(h, [h EXCEPT ![n].next = v], n, v)
           /\ PrevSet(h, [h EXCEPT ![n].prev = v], n, v)
           /\ ChildSet(h, [h EXCEPT ![n].child = v], n, v)
<1>1. h[n] \in Cell
  OBVIOUS
<1>2. /\ [h[n] EXCEPT !.next = v] \in Cell /\ [h[n] EXCEPT !.prev = v] \in Cell
      /\ [h[n] EXCEPT !.child = v] \in Cell
  BY <1>1 DEF Cell
<1>3. /\ [h EXCEPT ![n].next = v] = [h EXCEPT ![n] = [h[n] EXCEPT !.next = v]]
      /\ [h EXCEPT ![n].prev = v] = [h EXCEPT ![n] = [h[n] EXCEPT !.prev = v]]
      /\ [h EXCEPT ![n].child = v] = [h EXCEPT ![n] = [h[n] EXCEPT !.child = v]]
  OBVIOUS
<1>4. ASSUME NEW c \in Cell
      PROVE  SameBut(h, [h EXCEPT ![n] = c], n) /\ [h EXCEPT ![n] = c][n] = c
  BY DEF SameBut
<1>5. NextSet(h, [h EXCEPT ![n].next = v], n, v)
  BY <1>1, <1>2, <1>3, <1>4 DEF NextSet, Keeps, Cell
<1>6. PrevSet(h, [h EXCEPT ![n].prev = v], n, v)
  BY <1>1, <1>2, <1>3, <1>4 DEF PrevSet, Keeps, Cell
<1>7. ChildSet(h, [h EXCEPT ![n].child = v], n, v)
  BY <1>1, <1>2, <1>3, <1>4 DEF ChildSet, Keeps, Cell
<1> QED BY <1>5, <1>6, <1>7

\* Links are items or Null.
LEMMA LinksAre ==
    ASSUME NEW h \in [Node -> Cell], NEW n \in Node
    PROVE  /\ h[n].next \in Node \cup {Null} /\ h[n].prev \in Node \cup {Null}
           /\ h[n].child \in Node \cup {Null} /\ h[n].isReference \in BOOLEAN
           /\ h[n].string \in String /\ h[n].stringIsConst \in BOOLEAN
BY DEF Cell

\* A new cell.
LEMMA ZeroedIs ==
    /\ Zeroed \in Cell /\ Zeroed.next = Null /\ Zeroed.prev = Null /\ Zeroed.child = Null
    /\ Zeroed.string = NoString /\ ~Zeroed.isReference /\ ~Zeroed.stringIsConst
BY DEF Zeroed, Cell, String, NoString

\* Null is no item, and the items are numbers.
LEMMA NodesAre == Null \notin Node /\ Node \subseteq Nat /\ MaxNodes \in Nat /\ Null \in Nat
BY TreeAssumption DEF Node, Null

-----------------------------------------------------------------------------
(* Lists: their length, their ends, the items of a container               *)

\* A list without repetition has at most as many items as there are.
LEMMA ListFits ==
    ASSUME NEW h, NEW s, IsList(h, s)
    PROVE  s \in Seq(Node) /\ Len(s) \in 0..MaxNodes /\ \A i \in 1..Len(s) : s[i] \in Node
<1>1. /\ s \in Seq(Node) /\ Len(s) \in Nat /\ \A i \in 1..Len(s) : s[i] \in Node
      /\ \A i, j \in 1..Len(s) : s[i] = s[j] => i = j
  BY DEF IsList
<1>2. IsFiniteSet(Node) /\ Cardinality(Node) = MaxNodes
  <2>1. MaxNodes \in Nat /\ 1 \in Int /\ MaxNodes \in Int
    BY NodesAre
  <2> QED BY <2>1, FS_Interval DEF Node
<1>3. Cardinality(1..Len(s)) = Len(s) /\ IsFiniteSet(1..Len(s))
  <2> DEFINE n == Len(s)
  <2>1. n \in Nat /\ n \in Int /\ 1 \in Int /\ (1 > n <=> n = 0)
    BY <1>1
  <2> HIDE DEF n
  <2>2. Cardinality(1..n) = n /\ IsFiniteSet(1..n)
    BY <2>1, FS_Interval
  <2> QED BY <2>2 DEF n
<1>4. [i \in 1..Len(s) |-> s[i]] \in Injection(1..Len(s), Node)
  BY <1>1 DEF Injection, IsInjective
<1>5. Cardinality(1..Len(s)) <= Cardinality(Node)
  BY <1>2, <1>4, FS_Injection
<1> QED BY <1>1, <1>2, <1>3, <1>5

\* The first k items.
Pre(s, k) == [i \in 1..(IF k <= Len(s) THEN k ELSE Len(s)) |-> s[i]]

\* The first k items of a list.
LEMMA PreIs ==
    ASSUME NEW s \in Seq(Node), NEW k \in Nat
    PROVE  /\ Pre(s, k) \in Seq(Node) /\ Len(Pre(s, k)) = IF k <= Len(s) THEN k ELSE Len(s)
           /\ \A i \in 1..Len(Pre(s, k)) : Pre(s, k)[i] = s[i]
           /\ k >= Len(s) => Pre(s, k) = s
<1> DEFINE m == IF k <= Len(s) THEN k ELSE Len(s)
<1>1. m \in Nat /\ m <= Len(s) /\ Len(s) \in Nat /\ (k >= Len(s) => m = Len(s))
  OBVIOUS
<1>2. Pre(s, k) = [i \in 1..m |-> s[i]]
  BY DEF Pre
<1> HIDE DEF m
<1>3. \A i \in 1..m : s[i] \in Node
  BY <1>1
<1>4. Pre(s, k) \in Seq(Node) /\ Len(Pre(s, k)) = m /\ \A i \in 1..m : Pre(s, k)[i] = s[i]
  BY <1>1, <1>2, <1>3
<1>5. k >= Len(s) => Pre(s, k) = s
  BY <1>1, <1>2
<1> QED BY <1>4, <1>5 DEF m

\* One item further on.
LEMMA PreGrows ==
    ASSUME NEW h, NEW s, IsList(h, s), NEW c, c = First(s), NEW k \in 1..MaxNodes, NEW n,
           n = IF k = 1 THEN c
               ELSE IF Pre(s, k - 1) = <<>> THEN Null ELSE h[Last(Pre(s, k - 1))].next
    PROVE  Pre(s, k) = IF n = Null THEN Pre(s, k - 1) ELSE Append(Pre(s, k - 1), n)
<1>1. /\ s \in Seq(Node) /\ Len(s) \in Nat /\ \A i \in 1..Len(s) : s[i] \in Node
      /\ \A i \in 1..Len(s) : h[s[i]].next = IF i < Len(s) THEN s[i + 1] ELSE Null
  BY DEF IsList
<1>2. k \in Nat /\ k - 1 \in Nat /\ Null \notin Node
  BY NodesAre
<1> DEFINE b == Pre(s, k - 1)
           a == Pre(s, k)
<1>3. /\ b \in Seq(Node) /\ Len(b) = IF k - 1 <= Len(s) THEN k - 1 ELSE Len(s)
      /\ \A i \in 1..Len(b) : b[i] = s[i]
      /\ k - 1 >= Len(s) => b = s
  BY <1>1, <1>2, PreIs
<1>4. /\ a \in Seq(Node) /\ Len(a) = IF k <= Len(s) THEN k ELSE Len(s)
      /\ \A i \in 1..Len(a) : a[i] = s[i]
      /\ k >= Len(s) => a = s
  BY <1>1, <1>2, PreIs
<1> HIDE DEF a, b
<1>5. CASE k <= Len(s)
  <2>1. Len(b) = k - 1 /\ Len(a) = k /\ s[k] \in Node
    BY <1>1, <1>2, <1>3, <1>4, <1>5
  <2>2. n = s[k]
    <3>1. CASE k = 1
      <4>1. s # <<>>
        BY <1>1, <1>5, <3>1
      <4> QED BY <3>1, <4>1 DEF First
    <3>2. CASE k # 1
      <4>1. b # <<>> /\ k - 1 \in 1..Len(s) /\ b[k - 1] = s[k - 1] /\ k - 1 < Len(s)
        BY <1>1, <1>2, <1>3, <1>5, <2>1, <3>2
      <4>2. h[s[k - 1]].next = s[k]
        BY <1>1, <1>2, <4>1
      <4>3. Last(b) = s[k - 1]
        BY <2>1, <4>1 DEF Last
      <4> QED BY <3>2, <4>1, <4>2, <4>3 DEF b
    <3> QED BY <3>1, <3>2
  <2>3. a = Append(b, n)
    <3>1. Append(b, n) \in Seq(Node) /\ Len(Append(b, n)) = k
      BY <1>2, <1>3, <2>1, <2>2
    <3>2. ASSUME NEW i \in 1..k PROVE Append(b, n)[i] = a[i]
      BY <1>2, <1>3, <1>4, <2>1, <2>2
    <3> QED BY ONLY <1>4, <2>1, <3>1, <3>2
  <2> QED BY <1>2, <2>1, <2>2, <2>3 DEF a, b
<1>6. CASE ~(k <= Len(s))
  <2>1. b = s /\ a = s
    BY <1>1, <1>2, <1>3, <1>4, <1>6
  <2>2. n = Null
    <3>1. CASE s = <<>>
      BY <2>1, <3>1 DEF First, b
    <3>2. CASE s # <<>>
      <4>1. k # 1 /\ Len(s) \in 1..Len(s) /\ ~(Len(s) < Len(s))
        BY <1>1, <1>2, <1>6, <3>2
      <4>2. h[s[Len(s)]].next = Null
        BY <1>1, <4>1
      <4> QED BY <2>1, <3>2, <4>1, <4>2 DEF Last, b
    <3> QED BY <3>1, <3>2
  <2> QED BY <2>1, <2>2 DEF a, b
<1> QED BY <1>5, <1>6

\* From finds a list by its first item.
LEMMA FromIs ==
    ASSUME NEW h, NEW s, IsList(h, s), NEW c, c = First(s)
    PROVE  From(h, c) = s
<1> DEFINE after(k, before) ==
             LET n == IF k = 1 THEN c ELSE IF before = <<>> THEN Null ELSE h[Last(before)].next
             IN  IF n = Null THEN before ELSE Append(before, n)
           finds(f) == f = [k \in 0..MaxNodes |-> IF k = 0 THEN <<>> ELSE after(k, f[k - 1])]
           to == CHOOSE f : finds(f)
<1>1. From(h, c) = to[MaxNodes]
  BY DEF From
<1>2. s \in Seq(Node) /\ Len(s) \in 0..MaxNodes /\ MaxNodes \in Nat
  BY ListFits, NodesAre
<1>3. \A k \in 1..MaxNodes : Pre(s, k) = after(k, Pre(s, k - 1))
  BY PreGrows
<1>4. Pre(s, 0) = <<>>
  <2>1. Pre(s, 0) \in Seq(Node) /\ Len(Pre(s, 0)) = 0
    BY <1>2, PreIs
  <2> QED BY <2>1
<1> HIDE DEF after
<1>5. finds(to)
  <2> DEFINE F == [k \in 0..MaxNodes |-> Pre(s, k)]
  <2>1. ASSUME NEW k \in 0..MaxNodes
        PROVE  F[k] = IF k = 0 THEN <<>> ELSE after(k, F[k - 1])
    <3>1. k # 0 => k \in 1..MaxNodes /\ k - 1 \in 0..MaxNodes
      BY <1>2
    <3> QED BY <1>3, <1>4, <3>1
  <2>2. finds(F)
    BY <2>1
  <2> HIDE DEF finds, F
  <2> QED BY <2>2
<1>6. \A k \in 0..MaxNodes : to[k] = IF k = 0 THEN <<>> ELSE after(k, to[k - 1])
  BY <1>5
<1> HIDE DEF to
<1> DEFINE Right == {k \in 0..MaxNodes : to[k] = Pre(s, k)}
<1>7. 0 \in Right
  BY <1>2, <1>4, <1>6
<1>8. ASSUME NEW k \in 1..MaxNodes, k - 1 \in Right PROVE k \in Right
  <2>1. k \in 0..MaxNodes /\ k # 0
    BY <1>2
  <2> QED BY <1>3, <1>6, <1>8, <2>1
<1>9. \A k \in 0..MaxNodes : k \in Right
  <2> HIDE DEF Right
  <2> QED BY <1>2, <1>7, <1>8, Induction
<1>10. to[MaxNodes] = Pre(s, MaxNodes)
  BY <1>2, <1>9
<1> QED BY <1>1, <1>2, <1>10, PreIs

\* What follows from the cells of D by next and by the child of those in P is in D.
Closed(h, P, D) ==
    \A m \in D : /\ h[m].next # Null => h[m].next \in D
                 /\ m \in P /\ h[m].child # Null => h[m].child \in D

\* One step further down.
Grown(h, P, A) ==
    A \cup (({h[m].next : m \in A} \cup {h[m].child : m \in A \cap P}) \ {Null})

\* Grown(h, P, A) is the least set round A that the children, and for items of
\* P the followers, do not lead out of.
LEMMA GrownIs ==
    ASSUME NEW h \in [Node -> Cell], NEW P, NEW A \in SUBSET Node
    PROVE  /\ Grown(h, P, A) \in SUBSET Node /\ A \subseteq Grown(h, P, A)
           /\ Closed(h, P, A) <=> Grown(h, P, A) = A
           /\ \A T : A \subseteq T /\ Closed(h, P, T) => Grown(h, P, A) \subseteq T
<1>1. \A m \in A : /\ h[m].next \in Node \cup {Null} /\ h[m].child \in Node \cup {Null}
  BY LinksAre
<1>2. Null \notin Node
  BY NodesAre
<1>3. Grown(h, P, A) \in SUBSET Node /\ A \subseteq Grown(h, P, A)
  BY <1>1 DEF Grown
<1>4. ASSUME Grown(h, P, A) = A PROVE Closed(h, P, A)
  BY <1>1, <1>4 DEF Grown, Closed
<1>5. ASSUME NEW T, A \subseteq T, Closed(h, P, T) PROVE Grown(h, P, A) \subseteq T
  BY <1>5 DEF Grown, Closed
<1>6. ASSUME Closed(h, P, A) PROVE Grown(h, P, A) = A
  BY <1>3, <1>5, <1>6
<1> QED BY <1>3, <1>4, <1>5, <1>6

\* Following takes all of it: each step but the last finds one more, and there
\* are no more than MaxNodes.
LEMMA FollowingIs ==
    ASSUME NEW h \in [Node -> Cell], NEW n \in Node, NEW P
    PROVE  /\ Following(h, n, P) \subseteq Node /\ n \in Following(h, n, P)
           /\ Closed(h, P, Following(h, n, P))
           /\ \A T : n \in T /\ Closed(h, P, T) => Following(h, n, P) \subseteq T
<1> DEFINE falls(f) == f = [d \in 0..MaxNodes |-> IF d = 0 THEN {n} ELSE Grown(h, P, f[d - 1])]
           down == CHOOSE f : falls(f)
<1>1. Following(h, n, P) = down[MaxNodes]
  BY DEF Following, Grown
<1>2. MaxNodes \in Nat
  BY NodesAre
<1>3. PICK F \in [0..MaxNodes -> SUBSET Node] :
          \A d \in 0..MaxNodes : F[d] = IF d = 0 THEN {n} ELSE Grown(h, P, F[d - 1])
  <2> DEFINE step == [d \in 1..MaxNodes |-> [A \in SUBSET Node |-> Grown(h, P, A)]]
  <2>1. step \in [1..MaxNodes -> [SUBSET Node -> SUBSET Node]]
    BY GrownIs
  <2>2. {n} \in SUBSET Node
    OBVIOUS
  <2>3. PICK F \in [0..MaxNodes -> SUBSET Node] : Recurs(F, MaxNodes, {n}, step)
    <3> HIDE DEF step
    <3> QED BY <1>2, <2>1, <2>2, Recursion
  <2>4. ASSUME NEW d \in 0..MaxNodes
        PROVE  F[d] = IF d = 0 THEN {n} ELSE Grown(h, P, F[d - 1])
    <3>1. d # 0 => d \in 1..MaxNodes /\ d - 1 \in 0..MaxNodes
      BY <1>2
    <3> QED BY <2>3, <3>1 DEF Recurs
  <2> QED BY <2>4
<1>4. falls(down)
  <2>1. falls(F)
    BY <1>3
  <2> HIDE DEF falls
  <2> QED BY <2>1
<1>5. \A d \in 0..MaxNodes : down[d] = IF d = 0 THEN {n} ELSE Grown(h, P, down[d - 1])
  BY <1>4
<1> HIDE DEF down
<1>6. 0 \in 0..MaxNodes /\ MaxNodes \in 0..MaxNodes
  BY <1>2
<1>7. IsFiniteSet(Node) /\ Cardinality(Node) = MaxNodes
  <2>1. 1 \in Int /\ MaxNodes \in Int /\ (1 > MaxNodes <=> MaxNodes = 0)
    BY <1>2
  <2>2. IsFiniteSet(1..MaxNodes) /\ Cardinality(1..MaxNodes) = MaxNodes
    BY <1>2, <2>1, FS_Interval
  <2> QED BY <2>2 DEF Node
<1> DEFINE Right == {d \in 0..MaxNodes : /\ down[d] \in SUBSET Node /\ n \in down[d]
                                         /\ Closed(h, P, down[d]) \/ Cardinality(down[d]) > d}
<1>8. \A d \in 0..MaxNodes : d \in Right
  <2>1. 0 \in Right
    <3>1. down[0] = {n} /\ Cardinality({n}) = 1
      BY <1>5, <1>6, FS_Singleton
    <3>2. Cardinality(down[0]) > 0 /\ down[0] \in SUBSET Node /\ n \in down[0]
      BY <3>1
    <3> QED BY <1>6, <3>2
  <2>2. ASSUME NEW d \in 1..MaxNodes, d - 1 \in Right PROVE d \in Right
    <3> DEFINE A == down[d - 1]
    <3>1. d \in 0..MaxNodes /\ d # 0 /\ d \in Nat /\ down[d] = Grown(h, P, A)
      BY <1>2, <1>5
    <3>2. A \in SUBSET Node /\ n \in A /\ (Closed(h, P, A) \/ Cardinality(A) > d - 1)
      BY <2>2
    <3> HIDE DEF A
    <3>3. down[d] \in SUBSET Node /\ n \in down[d] /\ A \subseteq down[d]
      BY <3>1, <3>2, GrownIs
    <3>4. CASE Closed(h, P, A)
      <4>1. down[d] = A
        BY <3>1, <3>2, <3>4, GrownIs
      <4> QED BY <3>1, <3>3, <3>4, <4>1
    <3>5. CASE ~Closed(h, P, A)
      <4>1. A # down[d]
        BY <3>1, <3>2, <3>5, GrownIs
      <4>2. /\ IsFiniteSet(down[d]) /\ Cardinality(A) <= Cardinality(down[d])
            /\ Cardinality(A) # Cardinality(down[d])
        <5>1. IsFiniteSet(down[d])
          BY <1>7, <3>3, FS_Subset
        <5> QED BY <3>3, <4>1, <5>1, FS_Subset
      <4>3. Cardinality(A) \in Nat /\ Cardinality(down[d]) \in Nat
        <5>1. IsFiniteSet(A) /\ IsFiniteSet(down[d])
          BY <1>7, <3>2, <3>3, FS_Subset
        <5> QED BY <5>1, FS_CardinalityType
      <4>4. Cardinality(A) > d - 1
        BY <3>2, <3>5
      <4>5. Cardinality(down[d]) > d
        <5> DEFINE p == Cardinality(A)
                   q == Cardinality(down[d])
        <5>1. p \in Nat /\ q \in Nat /\ p <= q /\ p # q /\ p > d - 1
          BY <4>2, <4>3, <4>4
        <5> HIDE DEF p, q
        <5>2. q > d
          BY <3>1, <5>1
        <5> QED BY <5>2 DEF q
      <4> QED BY <3>1, <3>3, <4>5
    <3> QED BY <3>4, <3>5
  <2> HIDE DEF Right
  <2> QED BY <1>2, <2>1, <2>2, Induction
<1> DEFINE D == down[MaxNodes]
<1>9. D \in SUBSET Node /\ n \in D /\ (Closed(h, P, D) \/ Cardinality(D) > MaxNodes)
  BY <1>6, <1>8
<1>10. Cardinality(D) <= MaxNodes /\ Cardinality(D) \in Nat
  BY <1>7, <1>9, FS_Subset, FS_CardinalityType
<1>11. Closed(h, P, D)
  <2> HIDE DEF D
  <2> QED BY <1>2, <1>9, <1>10
<1>12. ASSUME NEW T, n \in T, Closed(h, P, T) PROVE D \subseteq T
  <2> DEFINE Under == {d \in 0..MaxNodes : down[d] \subseteq T}
  <2>1. 0 \in Under
    BY <1>5, <1>6, <1>12
  <2>2. ASSUME NEW d \in 1..MaxNodes, d - 1 \in Under PROVE d \in Under
    <3>1. d \in 0..MaxNodes /\ d # 0 /\ d - 1 \in 0..MaxNodes
      BY <1>2
    <3>2. down[d] = Grown(h, P, down[d - 1]) /\ down[d - 1] \in SUBSET Node
      BY <1>5, <1>8, <3>1
    <3> QED BY <1>12, <2>2, <3>1, <3>2, GrownIs
  <2>3. \A d \in 0..MaxNodes : d \in Under
    <3> HIDE DEF Under
    <3> QED BY <1>2, <2>1, <2>2, Induction
  <2> QED BY <1>6, <2>3
<1> QED BY <1>1, <1>9, <1>11, <1>12

-----------------------------------------------------------------------------
(* Writes that stay within some cells                                      *)

\* Only the links of the cells of C and the child of k may differ.
Alike(h, g) ==
    /\ h \in [Node -> Cell] /\ g \in [Node -> Cell]
    /\ \A n \in Node : Keeps(h, g, n)

Within(h, g, C, k) ==
    /\ Alike(h, g)
    /\ \A n \in Node \ C : g[n].next = h[n].next /\ g[n].prev = h[n].prev
    /\ \A n \in Node \ {k} : g[n].child = h[n].child

\* Memory differs from itself nowhere.
LEMMA WithinSelf ==
    ASSUME NEW h \in [Node -> Cell], NEW C, NEW k
    PROVE  Within(h, h, C, k)
BY DEF Within, Alike, Keeps

\* Setting a link of one of these keeps within.
LEMMA WithinSet ==
    ASSUME NEW h, NEW g, NEW C, NEW k, Within(h, g, C, k), NEW f, NEW n \in Node, NEW v,
           \/ n \in C /\ NextSet(g, f, n, v)
           \/ n \in C /\ PrevSet(g, f, n, v)
           \/ n = k /\ ChildSet(g, f, n, v)
    PROVE  Within(h, f, C, k)
<1>1. f \in [Node -> Cell] /\ \A m \in Node \ {n} : f[m] = g[m]
  BY DEF NextSet, PrevSet, ChildSet, SameBut
<1>2. Keeps(g, f, n)
  BY DEF NextSet, PrevSet, ChildSet
<1>3. Alike(h, f)
  BY <1>1, <1>2 DEF Within, Alike, Keeps
<1>4. n \notin C => f[n].next = g[n].next /\ f[n].prev = g[n].prev
  BY DEF ChildSet
<1>5. n # k => f[n].child = g[n].child
  BY DEF NextSet, PrevSet
<1>6. \A m \in Node \ C : f[m].next = h[m].next /\ f[m].prev = h[m].prev
  BY <1>1, <1>4 DEF Within
<1>7. \A m \in Node \ {k} : f[m].child = h[m].child
  BY <1>1, <1>5 DEF Within
<1> QED BY <1>3, <1>6, <1>7 DEF Within

\* A cell is its fields.
LEMMA CellIs ==
    ASSUME NEW c \in Cell, NEW d \in Cell, c.next = d.next, c.prev = d.prev, c.child = d.child,
           c.string = d.string, c.isReference = d.isReference, c.stringIsConst = d.stringIsConst
    PROVE  c = d
<1>1. \A e \in Cell : e = [next |-> e.next, prev |-> e.prev, child |-> e.child,
                           string |-> e.string, isReference |-> e.isReference,
                           stringIsConst |-> e.stringIsConst]
  BY DEF Cell
<1> QED BY <1>1

\* An item of a list is one of its elements.
LEMMA ElemsOf ==
    ASSUME NEW s, NEW i \in 1..Len(s)
    PROVE  s[i] \in Elems(s)
BY DEF Elems

\* The elements of a list of nodes, its first and its last.
LEMMA ElemsTyped ==
    ASSUME NEW s \in Seq(Node)
    PROVE  /\ Elems(s) \subseteq Node
           /\ s # <<>> => /\ Len(s) \in 1..Len(s) /\ 1 \in 1..Len(s)
                          /\ First(s) = s[1] /\ First(s) \in Elems(s)
                          /\ Final(s) = s[Len(s)] /\ Final(s) \in Elems(s)
           /\ s = <<>> => Elems(s) = {} /\ First(s) = Null /\ Final(s) = Null /\ Len(s) = 0
<1>1. \A i \in 1..Len(s) : s[i] \in Node
  OBVIOUS
<1>2. s # <<>> => Len(s) \in 1..Len(s) /\ 1 \in 1..Len(s)
  OBVIOUS
<1>3. s = <<>> => Len(s) = 0 /\ Elems(s) = {}
  BY DEF Elems
<1> QED BY <1>1, <1>2, <1>3 DEF Elems, First, Final

\* A list whose links are as they were.
LEMMA SameList ==
    ASSUME NEW h, NEW g, NEW s, IsList(h, s),
           \A n \in Elems(s) : g[n].next = h[n].next /\ g[n].prev = h[n].prev
    PROVE  IsList(g, s)
<1>1. \A i \in 1..Len(s) : g[s[i]].next = h[s[i]].next /\ g[s[i]].prev = h[s[i]].prev
  BY ElemsOf
<1>2. \A i \in 2..Len(s) : i \in 1..Len(s)
  BY DEF IsList
<1> QED BY <1>1, <1>2 DEF IsList

\* The list of k gets other items, of its own and of R.
LEMMA Relisted ==
    ASSUME NEW h, NEW al, NEW R, NEW L, NEW O, Good(h, al, R, L, O),
           NEW k \in Nat, NEW g, NEW S, NEW s, NEW Q,
           Within(h, g, Elems(L[k]) \cup R, k),
           IsList(g, s), Elems(s) \cup S = Elems(L[k]) \cup R, Elems(s) \cap S = {},
           \A n \in S : g[n].next = Null, O \ {k} \subseteq Q,
           k \in Node => /\ k \in al /\ ~h[k].isReference /\ g[k].child = First(s)
                         /\ k \notin Q /\ s # <<>> => g[s[1]].prev = Final(s)
    PROVE  Good(g, al, S, [L EXCEPT ![k] = s], Q)
<1> DEFINE M == [L EXCEPT ![k] = s]
<1>1. /\ h \in [Node -> Cell] /\ al \subseteq Node /\ R \subseteq al
      /\ \A n \in Node \ al : h[n] = Zeroed
  BY DEF Good, Heap
<1>2. /\ L \in [Nat -> Seq(Node)]
      /\ \A l \in Nat : IsList(h, L[l]) /\ Elems(L[l]) \subseteq al \ R
  BY DEF Good, Lists
<1>3. \A l, m \in Nat : l # m => Elems(L[l]) \cap Elems(L[m]) = {}
  BY DEF Good, Apart
<1>4. g \in [Node -> Cell] /\ s \in Seq(Node)
  BY DEF Within, Alike, IsList
<1>5. /\ M \in [Nat -> Seq(Node)] /\ M[k] = s
      /\ \A l \in Nat \ {k} : M[l] = L[l]
  BY <1>2, <1>4
<1> HIDE DEF M
<1>6. Elems(L[k]) \subseteq al /\ Elems(s) \subseteq al /\ S \subseteq al
  BY <1>1, <1>2
<1>7. \A l \in Nat \ {k} : \A n \in Elems(L[l]) : n \notin Elems(L[k]) \cup R /\ n \in Node
  BY <1>1, <1>2, <1>3
<1>8. Heap(g, al, S)
  <2>1. ASSUME NEW n \in Node \ al PROVE g[n] = Zeroed
    <3>1. n \notin Elems(L[k]) \cup R /\ n # k
      BY <1>1, <1>6
    <3>2. /\ g[n].next = h[n].next /\ g[n].prev = h[n].prev /\ g[n].child = h[n].child
          /\ Keeps(h, g, n)
      BY <3>1 DEF Within, Alike
    <3>3. g[n] = h[n]
      <4>1. g[n] \in Cell /\ h[n] \in Cell
        BY <1>1, <1>4
      <4> QED BY <3>2, <4>1, CellIs DEF Keeps
    <3> QED BY <1>1, <3>3
  <2> QED BY <1>1, <1>4, <1>6, <2>1 DEF Heap
<1>9. Lists(g, al, S, M)
  <2>1. ASSUME NEW l \in Nat PROVE IsList(g, M[l]) /\ Elems(M[l]) \subseteq al \ S
    <3>1. CASE l = k
      BY <1>5, <1>6, <3>1
    <3>2. CASE l # k
      <4>1. M[l] = L[l] /\ IsList(h, L[l]) /\ Elems(L[l]) \subseteq al
        BY <1>2, <1>5, <3>2
      <4>2. \A n \in Elems(L[l]) : g[n].next = h[n].next /\ g[n].prev = h[n].prev
        BY <1>7, <3>2 DEF Within
      <4>3. IsList(g, L[l])
        BY <4>1, <4>2, SameList
      <4>4. \A n \in Elems(L[l]) : n \notin S
        BY <1>7, <3>2
      <4> QED BY <4>1, <4>3, <4>4
    <3> QED BY <3>1, <3>2
  <2> QED BY <1>5, <2>1 DEF Lists
<1>10. Apart(M)
  <2>1. \A l \in Nat \ {k} : Elems(M[l]) \cap Elems(M[k]) = {}
    BY <1>5, <1>7
  <2>2. \A l, m \in Nat \ {k} : l # m => Elems(M[l]) \cap Elems(M[m]) = {}
    BY <1>3, <1>5
  <2> QED BY <2>1, <2>2 DEF Apart
<1>11. Held(al, S, M)
  <2>1. ASSUME NEW n \in al \ S PROVE \E l \in Nat : n \in Elems(M[l])
    <3>1. CASE n \in Elems(s)
      BY <1>5, <3>1
    <3>2. CASE n \notin Elems(s)
      <4>1. n \in al \ R /\ n \notin Elems(L[k])
        BY <2>1, <3>2
      <4>2. PICK l \in Nat : n \in Elems(L[l])
        BY <4>1 DEF Good, Held
      <4> QED BY <1>5, <4>1, <4>2
    <3> QED BY <3>1, <3>2
  <2> QED BY <2>1 DEF Held
<1>12. Owns(g, al, M, Q)
  <2>1. ASSUME NEW n \in Node, n # k
        PROVE  IF n \in al /\ ~g[n].isReference
               THEN /\ g[n].child = First(M[n])
                    /\ n \notin Q /\ M[n] # <<>> => g[M[n][1]].prev = Final(M[n])
               ELSE M[n] = <<>>
    <3>1. n \in Nat /\ M[n] = L[n] /\ L[n] \in Seq(Node)
      BY <1>2, <1>5, <2>1, NodesAre
    <3>2. g[n].isReference = h[n].isReference /\ g[n].child = h[n].child
      BY <2>1 DEF Within, Alike, Keeps
    <3>3. L[n] # <<>> => g[L[n][1]].prev = h[L[n][1]].prev
      <4>1. L[n] # <<>> => L[n][1] \in Elems(L[n])
        BY <3>1, ElemsTyped
      <4> QED BY <1>7, <2>1, <3>1, <4>1 DEF Within
    <3>4. n \notin Q => n \notin O
      BY <2>1
    <3> QED BY <3>1, <3>2, <3>3, <3>4 DEF Good, Owns
  <2>2. k \in Node => g[k].isReference = h[k].isReference
    BY DEF Within, Alike, Keeps
  <2>3. \A n \in Node : IF n \in al /\ ~g[n].isReference
               THEN /\ g[n].child = First(M[n])
                    /\ n \notin Q /\ M[n] # <<>> => g[M[n][1]].prev = Final(M[n])
               ELSE M[n] = <<>>
    BY <1>5, <2>1, <2>2
  <2> QED BY <2>3 DEF Owns
<1> QED BY <1>8, <1>9, <1>10, <1>11, <1>12 DEF Good, M

-----------------------------------------------------------------------------
(* A list grows at its end: suffix_object                                  *)

\* Setting one pointer leaves everything else as it was.
LEMMA AlikeSet ==
    ASSUME NEW h \in [Node -> Cell], NEW n \in Node, NEW v, NEW g,
           NextSet(h, g, n, v) \/ PrevSet(h, g, n, v) \/ ChildSet(h, g, n, v)
    PROVE  Alike(h, g)
BY DEF NextSet, PrevSet, ChildSet, SameBut, Keeps, Alike

\* And so do two such steps.
LEMMA AlikeAlike ==
    ASSUME NEW f, NEW g, NEW h, Alike(f, g), Alike(g, h)
    PROVE  Alike(f, h)
BY DEF Alike, Keeps

\* suffix_object sets a next and a prev.
LEMMA SuffixSets ==
    ASSUME NEW h \in [Node -> Cell], NEW p \in Node, NEW x \in Node
    PROVE  \E f : NextSet(h, f, p, x) /\ PrevSet(f, SuffixObject(h, p, x), x, p)
<1> DEFINE f == [h EXCEPT ![p].next = x]
<1>1. NextSet(h, f, p, x)
  BY FieldsSet
<1>2. f \in [Node -> Cell]
  BY <1>1 DEF NextSet, SameBut
<1>3. SuffixObject(h, p, x) = [f EXCEPT ![x].prev = p]
  BY DEF SuffixObject
<1> HIDE DEF f
<1>4. PrevSet(f, SuffixObject(h, p, x), x, p)
  BY <1>2, <1>3, FieldsSet, ZenonT(60)
<1> QED BY <1>1, <1>4

\* It writes to the two items it links and to no other.
LEMMA SuffixWithin ==
    ASSUME NEW h \in [Node -> Cell], NEW p \in Node, NEW x \in Node, NEW g,
           g = SuffixObject(h, p, x)
    PROVE  Within(h, g, {p, x}, 0)
<1>1. PICK f : NextSet(h, f, p, x) /\ PrevSet(f, g, x, p)
  BY SuffixSets
<1>2. Within(h, h, {p, x}, 0)
  BY WithinSelf
<1>3. Within(h, f, {p, x}, 0)
  BY <1>1, <1>2, WithinSet
<1> QED BY <1>1, <1>3, WithinSet

\* The list with one more item at its end.
LEMMA AppendIs ==
    ASSUME NEW s \in Seq(Node), NEW x \in Node
    PROVE  /\ Append(s, x) \in Seq(Node) /\ Append(s, x) # <<>>
           /\ Final(Append(s, x)) = x /\ First(Append(s, x)) = IF s = <<>> THEN x ELSE First(s)
           /\ s = <<>> => Append(s, x) = <<x>>
<1>1. /\ Append(s, x) \in Seq(Node) /\ Len(Append(s, x)) = Len(s) + 1 /\ Len(s) \in Nat
      /\ Append(s, x)[Len(s) + 1] = x
      /\ s # <<>> => Len(s) >= 1 /\ Append(s, x)[1] = s[1]
  OBVIOUS
<1>2. Append(s, x) # <<>>
  <2> DEFINE t == Append(s, x)
  <2>1. Len(t) = Len(s) + 1 /\ Len(s) \in Nat /\ Len(<<>>) = 0
    BY <1>1
  <2> HIDE DEF t
  <2>2. t # <<>>
    BY <2>1
  <2> QED BY <2>2 DEF t
<1>3. s = <<>> => Append(s, x) = <<x>> /\ Append(s, x)[1] = x
  OBVIOUS
<1> QED BY <1>1, <1>2, <1>3 DEF First, Final

\* A list with one more at its end.
LEMMA AppendedList ==
    ASSUME NEW h, NEW s, IsList(h, s), s # <<>>, NEW x \in Node, x \notin Elems(s),
           NEW f, NEW g, NextSet(h, f, Final(s), x), PrevSet(f, g, x, Final(s)),
           h[x].next = Null
    PROVE  /\ IsList(g, Append(s, x)) /\ Elems(Append(s, x)) = Elems(s) \cup {x}
           /\ First(Append(s, x)) = First(s) /\ Final(Append(s, x)) = x
<1> DEFINE m == Len(s)
           t == Append(s, x)
<1>1. /\ s \in Seq(Node) /\ m \in Nat /\ m # 0 /\ \A i \in 1..m : s[i] \in Node
      /\ \A i, j \in 1..m : s[i] = s[j] => i = j
      /\ \A i \in 1..m : h[s[i]].next = IF i < m THEN s[i + 1] ELSE Null
      /\ \A i \in 2..m : h[s[i]].prev = s[i - 1]
  BY DEF IsList
<1>2. /\ t \in Seq(Node) /\ Len(t) = m + 1 /\ t[m + 1] = x /\ \A i \in 1..m : t[i] = s[i]
  BY <1>1
<1>3. Final(s) = s[m] /\ First(s) = s[1] /\ First(t) = s[1] /\ Final(t) = x
  BY <1>1, <1>2 DEF First, Final
<1>4. \A i \in 1..m : s[i] # x
  BY ElemsOf
<1> HIDE DEF m, t
<1>5. \A i \in 1..(m + 1) : i \in 1..m \/ i = m + 1
  BY <1>1
<1>6. \A i, j \in 1..Len(t) : t[i] = t[j] => i = j
  <2> SUFFICES ASSUME NEW i \in 1..(m + 1), NEW j \in 1..(m + 1), t[i] = t[j] PROVE i = j
    BY <1>2
  <2>1. CASE i \in 1..m /\ j \in 1..m
    BY <1>1, <1>2, <2>1
  <2>2. CASE i = m + 1 /\ j \in 1..m
    BY <1>2, <1>4, <2>2
  <2>3. CASE i \in 1..m /\ j = m + 1
    BY <1>2, <1>4, <2>3
  <2> QED BY <1>5, <2>1, <2>2, <2>3
<1>7. s[m] \in Node /\ s[m] # x
  BY <1>1, <1>4
<1>8. /\ g[x].next = Null /\ g[x].prev = s[m] /\ g[s[m]].next = x
      /\ \A n \in Node : n # s[m] => g[n].next = h[n].next
      /\ \A n \in Node : n # x => g[n].prev = h[n].prev
  BY <1>3, <1>7 DEF NextSet, PrevSet, SameBut
<1>9. ASSUME NEW i \in 1..Len(t)
      PROVE  g[t[i]].next = IF i < Len(t) THEN t[i + 1] ELSE Null
  <2>1. CASE i = m + 1
    BY <1>1, <1>2, <1>8, <2>1
  <2>2. CASE i = m
    BY <1>1, <1>2, <1>8, <2>2
  <2>3. CASE i \in 1..m /\ i # m
    <3>1. i < m /\ i + 1 \in 1..m /\ i < Len(t) /\ s[i] # s[m] /\ m \in 1..m
      BY <1>1, <1>2, <2>3
    <3>2. g[s[i]].next = s[i + 1]
      BY <1>1, <1>8, <2>3, <3>1
    <3> QED BY <1>2, <2>3, <3>1, <3>2
  <2> QED BY <1>2, <1>5, <2>1, <2>2, <2>3
<1>10. ASSUME NEW i \in 2..Len(t)
       PROVE  g[t[i]].prev = t[i - 1]
  <2>1. CASE i = m + 1
    <3>1. i - 1 = m /\ m \in 1..m
      BY <1>1, <2>1
    <3> QED BY <1>2, <1>8, <2>1, <3>1
  <2>2. CASE i # m + 1
    <3>1. i \in 2..m /\ i \in 1..m /\ i - 1 \in 1..m
      BY <1>1, <1>2, <2>2
    <3>2. t[i] = s[i] /\ t[i - 1] = s[i - 1] /\ h[s[i]].prev = s[i - 1]
      BY <1>1, <1>2, <3>1
    <3>3. g[s[i]].prev = h[s[i]].prev
      BY <1>1, <1>4, <1>8, <3>1
    <3> QED BY <3>2, <3>3
  <2> QED BY <2>1, <2>2
<1>11. Elems(t) = Elems(s) \cup {x}
  <2>1. ASSUME NEW n \in Elems(t) PROVE n \in Elems(s) \cup {x}
    <3>1. PICK i \in 1..(m + 1) : n = t[i]
      BY <1>2 DEF Elems
    <3> QED BY <1>2, <1>5, <3>1 DEF Elems, m
  <2>2. ASSUME NEW n \in Elems(s) PROVE n \in Elems(t)
    <3>1. PICK i \in 1..m : n = s[i]
      BY DEF Elems, m
    <3>2. i \in 1..(m + 1) /\ n = t[i]
      BY <1>1, <1>2, <3>1
    <3> QED BY <1>2, <3>2 DEF Elems
  <2>3. x \in Elems(t)
    <3>1. m + 1 \in 1..(m + 1)
      BY <1>1
    <3> QED BY <1>2, <3>1 DEF Elems
  <2> QED BY <2>1, <2>2, <2>3
<1>12. IsList(g, t)
  BY <1>2, <1>6, <1>9, <1>10 DEF IsList
<1> QED BY <1>3, <1>11, <1>12 DEF t

\* A list of one.
LEMMA SingleList ==
    ASSUME NEW h \in [Node -> Cell], NEW x \in Node, h[x].next = Null
    PROVE  /\ IsList(h, <<x>>) /\ Elems(<<x>>) = {x} /\ <<x>> # <<>>
           /\ First(<<x>>) = x /\ Final(<<x>>) = x
<1>1. <<x>> \in Seq(Node) /\ Len(<<x>>) = 1 /\ <<x>>[1] = x /\ <<x>> # <<>>
  OBVIOUS
<1>2. \A i \in 1..1 : i = 1
  OBVIOUS
<1>3. Elems(<<x>>) = {x}
  BY <1>1, <1>2 DEF Elems
<1>4. IsList(h, <<x>>)
  BY <1>1, <1>2 DEF IsList
<1> QED BY <1>1, <1>3, <1>4 DEF First, Final

\* What the lists, the roots and their items are.
LEMMA GoodIs ==
    ASSUME NEW h, NEW al, NEW R, NEW L, NEW O, Good(h, al, R, L, O)
    PROVE  /\ h \in [Node -> Cell] /\ al \subseteq Node /\ R \subseteq al
           /\ \A n \in Node \ al : h[n] = Zeroed
           /\ \A n \in R : h[n].next = Null
           /\ L \in [Nat -> Seq(Node)]
           /\ \A k \in Nat : IsList(h, L[k]) /\ Elems(L[k]) \subseteq al \ R
           /\ \A k, l \in Nat : k # l => Elems(L[k]) \cap Elems(L[l]) = {}
           /\ \A n \in al \ R : \E k \in Nat : n \in Elems(L[k])
           /\ \A n \in Node : n \in al /\ ~h[n].isReference => h[n].child = First(L[n])
           /\ \A n \in Node : L[n] # <<>> => n \in al /\ ~h[n].isReference
           /\ \A n \in Node \ O : L[n] # <<>> => h[L[n][1]].prev = Final(L[n])
BY DEF Good, Heap, Lists, Apart, Held, Owns

\* The items with their lists, whatever else is said of a place.
LEMMA OpenedMore ==
    ASSUME NEW h, NEW al, NEW R, NEW L, NEW O, Good(h, al, R, L, O), NEW Q, O \subseteq Q
    PROVE  Good(h, al, R, L, Q)
BY DEF Good, Owns

\* A root becomes the first item of a list.
LEMMA Started ==
    ASSUME NEW h, NEW al, NEW R, NEW L, NEW O, Good(h, al, R, L, O),
           NEW k \in Nat, L[k] = <<>>, NEW x \in R, NEW Q, O \ {k} \subseteq Q, NEW g,
           IF k \in Node THEN /\ k \in Q /\ k \in al /\ ~h[k].isReference
                              /\ ChildSet(h, g, k, x)
                         ELSE g = h
    PROVE  Good(g, al, R \ {x}, [L EXCEPT ![k] = <<x>>], Q)
<1>1. h \in [Node -> Cell] /\ R \subseteq Node /\ x \in Node /\ h[x].next = Null
  BY GoodIs
<1>2. Within(h, g, Elems(L[k]) \cup R, k)
  <2>1. Within(h, h, Elems(L[k]) \cup R, k)
    BY <1>1, WithinSelf
  <2>2. CASE k \in Node
    BY <2>1, <2>2, WithinSet
  <2>3. CASE k \notin Node
    BY <2>1, <2>3
  <2> QED BY <2>2, <2>3
<1>3. g \in [Node -> Cell] /\ \A n \in Node : g[n].next = h[n].next
  <2>1. CASE k \in Node
    BY <2>1 DEF ChildSet, SameBut
  <2> QED BY <1>1, <2>1
<1>4. Elems(L[k]) = {}
  <2>1. <<>> \in Seq(Node)
    OBVIOUS
  <2> QED BY <2>1, ElemsTyped
<1>5. /\ IsList(g, <<x>>) /\ Elems(<<x>>) = {x} /\ First(<<x>>) = x
  BY <1>1, <1>3, SingleList
<1>6. \A n \in R : g[n].next = Null
  BY <1>1, <1>3, GoodIs
<1>7. k \in Node => g[k].child = First(<<x>>)
  BY <1>5 DEF ChildSet
<1>8. Elems(<<x>>) \cup (R \ {x}) = Elems(L[k]) \cup R /\ Elems(<<x>>) \cap (R \ {x}) = {}
  BY <1>4, <1>5
<1>9. \A n \in R \ {x} : g[n].next = Null
  BY <1>6
<1> QED BY <1>2, <1>5, <1>7, <1>8, <1>9, Relisted

\* suffix_object, of a root behind the last item of a list.
LEMMA Suffixed ==
    ASSUME NEW h, NEW al, NEW R, NEW L, NEW O, Good(h, al, R, L, O),
           NEW k \in Nat, L[k] # <<>>, NEW x \in R, NEW Q, O \ {k} \subseteq Q,
           k \in Node => k \in Q, NEW g, g = SuffixObject(h, Final(L[k]), x)
    PROVE  Good(g, al, R \ {x}, [L EXCEPT ![k] = Append(L[k], x)], Q)
<1> DEFINE s == L[k]
           p == Final(s)
<1>1. /\ h \in [Node -> Cell] /\ R \subseteq Node /\ x \in Node /\ h[x].next = Null
      /\ IsList(h, s) /\ s \in Seq(Node) /\ Elems(s) \cap R = {}
      /\ \A n \in R : h[n].next = Null
  BY GoodIs
<1>2. p \in Elems(s) /\ p \in Node
  BY <1>1, ElemsTyped
<1>3. PICK f : NextSet(h, f, p, x) /\ PrevSet(f, g, x, p)
  BY <1>1, <1>2, SuffixSets
<1> HIDE DEF p, s
<1>4. Within(h, g, {p, x}, 0) /\ {p, x} \subseteq Elems(s) \cup R
  BY <1>1, <1>2, SuffixWithin DEF p, s
<1>5. Within(h, g, Elems(s) \cup R, k) /\ \A n \in Node : g[n].child = h[n].child
  <2>1. \A n \in Node : n # 0
    BY NodesAre DEF Null
  <2> QED BY <1>4, <2>1 DEF Within
<1>6. /\ IsList(g, Append(s, x)) /\ Elems(Append(s, x)) = Elems(s) \cup {x}
      /\ First(Append(s, x)) = First(s) /\ Final(Append(s, x)) = x
  BY <1>1, <1>3, AppendedList DEF p, s
<1>7. \A n \in R \ {x} : g[n].next = Null
  <2>1. \A n \in R \ {x} : n \notin {p, x}
    BY <1>1, <1>2
  <2>2. \A n \in R \ {x} : g[n].next = h[n].next
    BY <1>1, <1>4, <2>1 DEF Within
  <2> QED BY <1>1, <2>2
<1>8. k \in Node => k \in al /\ ~h[k].isReference /\ g[k].child = First(Append(s, x))
  <2>1. k \in Node => k \in al /\ ~h[k].isReference /\ h[k].child = First(s)
    BY GoodIs DEF s
  <2> QED BY <1>5, <1>6, <2>1
<1>9. /\ Elems(Append(s, x)) \cup (R \ {x}) = Elems(s) \cup R
      /\ Elems(Append(s, x)) \cap (R \ {x}) = {}
  BY <1>1, <1>6
<1>10. Good(g, al, R \ {x}, [L EXCEPT ![k] = Append(s, x)], Q)
  BY <1>5, <1>6, <1>7, <1>8, <1>9, Relisted DEF s
<1> QED BY <1>10 DEF s

\* The first item of a list learns which one is the last.
LEMMA Ended ==
    ASSUME NEW h, NEW al, NEW R, NEW L, NEW O, Good(h, al, R, L, O),
           NEW k \in Node, L[k] # <<>>, NEW Q, O \ {k} \subseteq Q, NEW g,
           PrevSet(h, g, First(L[k]), Final(L[k]))
    PROVE  Good(g, al, R, L, Q)
<1> DEFINE s == L[k]
           c == First(s)
<1>1. /\ h \in [Node -> Cell] /\ k \in Nat /\ L \in [Nat -> Seq(Node)]
      /\ IsList(h, s) /\ s \in Seq(Node) /\ k \in al /\ ~h[k].isReference /\ h[k].child = c
      /\ Elems(s) \cap R = {}
  BY GoodIs, NodesAre
<1>2. c \in Elems(s) /\ c \in Node /\ c = s[1] /\ Len(s) \in Nat
  BY <1>1, ElemsTyped
<1>3. Within(h, g, Elems(s) \cup R, 0)
  <2>1. Within(h, h, Elems(s) \cup R, 0)
    BY <1>1, WithinSelf
  <2> QED BY <1>2, <2>1, WithinSet
<1>4. /\ Within(h, g, Elems(s) \cup R, k) /\ \A n \in Node : g[n].child = h[n].child
      /\ \A n \in Node : n # 0
  <2>1. \A n \in Node : n # 0
    BY NodesAre DEF Null
  <2> QED BY <1>3, <2>1 DEF Within
<1>5. /\ \A n \in Node : g[n].next = h[n].next
      /\ \A n \in Node : n # c => g[n].prev = h[n].prev
      /\ g[c].prev = Final(s)
  BY <1>2 DEF PrevSet, SameBut
<1> HIDE DEF s, c
<1>6. IsList(g, s)
  <2>1. \A i \in 1..Len(s) : s[i] \in Node /\ g[s[i]].next = h[s[i]].next
    <3>1. \A i \in 1..Len(s) : s[i] \in Node
      BY <1>1
    <3> QED BY <1>5, <3>1
  <2>2. \A i \in 2..Len(s) : i \in 1..Len(s) /\ s[i] # c
    <3>1. \A i \in 2..Len(s) : i \in 1..Len(s) /\ 1 \in 1..Len(s) /\ i # 1
      BY <1>2
    <3> QED BY <1>1, <1>2, <3>1 DEF IsList
  <2>3. \A i \in 2..Len(s) : g[s[i]].prev = h[s[i]].prev
    BY <1>5, <2>1, <2>2
  <2> QED BY <1>1, <2>1, <2>3 DEF IsList
<1>7. \A n \in R : g[n].next = Null
  BY <1>5, GoodIs
<1>8. g[k].child = First(s) /\ g[s[1]].prev = Final(s)
  BY <1>1, <1>2, <1>4, <1>5 DEF c
<1>9. [L EXCEPT ![k] = s] = L
  BY <1>1 DEF s
<1>10. Good(g, al, R, [L EXCEPT ![k] = s], Q)
  BY <1>1, <1>4, <1>6, <1>7, <1>8, Relisted DEF s
<1> QED BY <1>9, <1>10 DEF s

-----------------------------------------------------------------------------
(* Whole lists: the first item knows the last                              *)

\* The items of s are linked in this order, and the first knows the last.
Ring(h, s) == IsList(h, s) /\ (s # <<>> => h[s[1]].prev = Final(s))

\* What the items of a whole list point to.
LEMMA RingIs ==
    ASSUME NEW h, NEW s, Ring(h, s)
    PROVE  /\ s \in Seq(Node) /\ Len(s) \in Nat /\ \A j \in 1..Len(s) : s[j] \in Node
           /\ \A j, l \in 1..Len(s) : s[j] = s[l] => j = l
           /\ \A j \in 1..Len(s) : h[s[j]].next = IF j < Len(s) THEN s[j + 1] ELSE Null
           /\ \A j \in 1..Len(s) : h[s[j]].prev = IF j = 1 THEN s[Len(s)] ELSE s[j - 1]
<1>1. /\ s \in Seq(Node) /\ Len(s) \in Nat
      /\ \A j, l \in 1..Len(s) : s[j] = s[l] => j = l
      /\ \A j \in 1..Len(s) : h[s[j]].next = IF j < Len(s) THEN s[j + 1] ELSE Null
      /\ \A j \in 2..Len(s) : h[s[j]].prev = s[j - 1]
  BY DEF Ring, IsList
<1>2. ASSUME NEW j \in 1..Len(s)
      PROVE  s[j] \in Node /\ h[s[j]].prev = IF j = 1 THEN s[Len(s)] ELSE s[j - 1]
  <2>1. s # <<>> /\ s[j] \in Node
    BY <1>1
  <2>2. j # 1 => j \in 2..Len(s)
    BY <1>1
  <2> QED BY <1>1, <2>1, <2>2 DEF Ring, Final
<1> QED BY <1>1, <1>2

\* A sequence t of n items that are linked in this order.
LEMMA RingBy ==
    ASSUME NEW g, NEW n \in Nat, NEW t \in [1..n -> Node],
           \A j, l \in 1..n : t[j] = t[l] => j = l,
           \A j \in 1..n : g[t[j]].next = IF j < n THEN t[j + 1] ELSE Null,
           \A j \in 1..n : g[t[j]].prev = IF j = 1 THEN t[n] ELSE t[j - 1]
    PROVE  Ring(g, t) /\ Len(t) = n /\ t \in Seq(Node)
<1>1. t \in Seq(Node) /\ Len(t) = n
  OBVIOUS
<1>2. \A j \in 2..n : j \in 1..n /\ j # 1
  OBVIOUS
<1>3. IsList(g, t)
  BY <1>1, <1>2 DEF IsList
<1>4. t # <<>> => 1 \in 1..n
  BY <1>1
<1> QED BY <1>1, <1>3, <1>4 DEF Ring, Final

\* The list of an item that is none of a running copy's.
LEMMA ChildrenRing ==
    ASSUME NEW h, NEW al, NEW R, NEW L, Good(h, al, R, L, {}),
           NEW a \in al, ~h[a].isReference
    PROVE  /\ Ring(h, L[a]) /\ h[a].child = First(L[a]) /\ a \in Node /\ a \in Nat
           /\ Elems(L[a]) \subseteq al \ R
           /\ L[a] \in Seq(Node) /\ h \in [Node -> Cell]
           /\ \A j, l \in 1..Len(L[a]) : L[a][j] = L[a][l] => j = l
           /\ \A n \in R : h[n].next = Null
           /\ R \subseteq Node
<1>1. a \in Node /\ a \in Nat /\ h \in [Node -> Cell] /\ R \subseteq Node
      /\ \A n \in R : h[n].next = Null
  <2>1. a \in Node /\ h \in [Node -> Cell] /\ R \subseteq Node
    BY DEF Good, Heap
  <2>2. \A n \in R : h[n].next = Null
    BY DEF Good, Heap
  <2> QED BY <2>1, <2>2, NodesAre
<1>2. IsList(h, L[a]) /\ h[a].child = First(L[a]) /\ Elems(L[a]) \subseteq al \ R
  BY <1>1, GoodIs
<1>3. L[a] # <<>> => h[L[a][1]].prev = Final(L[a])
  <2>1. a \in Node \ {}
    BY <1>1
  <2> QED BY <2>1, GoodIs
<1>4. /\ L[a] \in Seq(Node)
      /\ \A j, l \in 1..Len(L[a]) : L[a][j] = L[a][l] => j = l
  BY <1>2 DEF IsList
<1> QED BY <1>1, <1>2, <1>3, <1>4 DEF Ring

\* Memory with the same names and flags, and with such lists.
Becomes(h, g, al, R, L, O) == Alike(h, g) /\ Good(g, al, R, L, O)

\* add_item_to_array puts a root behind the children of a.
LEMMA Added ==
    ASSUME NEW h, NEW al, NEW R, NEW L, Good(h, al, R, L, {}),
           NEW a \in al, ~h[a].isReference, NEW x \in R
    PROVE  Becomes(h, AddItemToArray(h, a, x), al, R \ {x}, [L EXCEPT ![a] = Append(L[a], x)], {})
<1> DEFINE s == L[a]
           t == Append(s, x)
           g == AddItemToArray(h, a, x)
           Q == {a}
           M == [L EXCEPT ![a] = t]
<1>1. /\ Ring(h, s) /\ h[a].child = First(s) /\ a \in Node /\ a \in Nat /\ s \in Seq(Node)
      /\ h \in [Node -> Cell] /\ x \in Node /\ L \in [Nat -> Seq(Node)]
  BY ChildrenRing, RingIs, GoodIs
<1>2. {} \ {a} \subseteq Q /\ a \in Q /\ Q \ {a} \subseteq {}
  OBVIOUS
<1>3. /\ t \in Seq(Node) /\ t # <<>> /\ Final(t) = x /\ First(t) = IF s = <<>> THEN x ELSE First(s)
      /\ s = <<>> => t = <<x>>
  <2> HIDE DEF s
  <2> QED BY <1>1, AppendIs
<1>4. M[a] = t
  <2> HIDE DEF t
  <2> QED BY <1>1, <1>3
<1> HIDE DEF Q
<1>5. ASSUME NEW f, Good(f, al, R \ {x}, M, Q), NEW e, PrevSet(f, e, First(t), x)
      PROVE  Good(e, al, R \ {x}, M, {})
  <2> HIDE DEF M, t
  <2>1. PrevSet(f, e, First(M[a]), Final(M[a])) /\ M[a] # <<>>
    BY <1>3, <1>4, <1>5
  <2> QED BY ONLY <1>1, <1>2, <1>5, <2>1, Ended, Zenon
<1>6. CASE s = <<>>
  <2> DEFINE f == [h EXCEPT ![a].child = x]
             e == [f EXCEPT ![x].prev = x]
  <2>1. h[a].child = Null
    BY <1>1, <1>6 DEF First
  <2>2. g = [e EXCEPT ![x].next = Null]
    BY <2>1 DEF AddItemToArray
  <2>3. ChildSet(h, f, a, x)
    BY <1>1, FieldsSet
  <2>4. f \in [Node -> Cell]
    BY <2>3 DEF ChildSet, SameBut
  <2> HIDE DEF f
  <2>5. PrevSet(f, e, x, x)
    BY <1>1, <2>4, FieldsSet
  <2>6. Alike(h, f) /\ Alike(f, e)
    BY <1>1, <2>3, <2>4, <2>5, AlikeSet
  <2> HIDE DEF e, g
  <2>7. Good(f, al, R \ {x}, M, Q)
    <3>1. IF a \in Node THEN a \in Q /\ a \in al /\ ~h[a].isReference /\ ChildSet(h, f, a, x)
                        ELSE f = h
      BY <1>1, <1>2, <2>3
    <3>2. L[a] = <<>> /\ M = [L EXCEPT ![a] = <<x>>]
      BY <1>3, <1>6
    <3> HIDE DEF M, s
    <3> QED BY <1>1, <1>2, <3>1, <3>2, Started
  <2>8. First(t) = x
    BY <1>3, <1>6
  <2> HIDE DEF t, M, s
  <2>9. Good(e, al, R \ {x}, M, {})
    BY <1>5, <2>5, <2>7, <2>8
  <2>10. e[x].next = Null
    <3>1. IsList(e, t)
      BY <1>1, <1>4, <2>9 DEF Good, Lists
    <3>2. Len(t) = 1 /\ t[1] = x
      BY <1>3, <1>6
    <3> QED BY <3>1, <3>2 DEF IsList
  <2>11. e = g
    <3>1. e \in [Node -> Cell]
      BY <2>6 DEF Alike
    <3>2. NextSet(e, g, x, Null)
      BY <1>1, <2>2, <3>1, FieldsSet
    <3>3. g[x] \in Cell /\ e[x] \in Cell /\ g \in [Node -> Cell]
      BY <1>1, <3>1, <3>2 DEF NextSet, SameBut
    <3>4. g[x] = e[x]
      BY <2>10, <3>2, <3>3, CellIs DEF NextSet, Keeps
    <3>5. \A n \in Node : g[n] = e[n]
      BY <3>2, <3>4 DEF NextSet, SameBut
    <3> QED BY <3>1, <3>3, <3>5
  <2>12. Alike(h, g)
    BY <2>6, <2>11, AlikeAlike
  <2> QED BY <2>9, <2>11, <2>12 DEF Becomes, M, s, g, t
<1>7. CASE s # <<>>
  <2> DEFINE c == First(s)
             p == Final(s)
             f == SuffixObject(h, p, x)
  <2>1. h[a].child = c /\ c = s[1] /\ c \in Node /\ h[c].prev = p /\ p \in Node
    BY <1>1, <1>7, ElemsTyped DEF Ring
  <2>2. c # Null /\ h[c].prev # Null
    BY <2>1, NodesAre
  <2>3. g = [f EXCEPT ![c].prev = x]
    BY <2>1, <2>2 DEF AddItemToArray
  <2>4. Good(f, al, R \ {x}, M, Q)
    <3>1. L[a] # <<>> /\ (a \in Node => a \in Q) /\ f = SuffixObject(h, Final(L[a]), x)
      BY <1>2, <1>7
    <3> HIDE DEF f
    <3> QED BY <1>1, <1>2, <3>1, Suffixed
  <2>5. f \in [Node -> Cell] /\ Alike(h, f)
    <3> HIDE DEF p
    <3>1. Within(h, f, {p, x}, 0)
      BY <1>1, <2>1, SuffixWithin
    <3> QED BY <3>1 DEF Within, Alike
  <2> HIDE DEF f, g, c
  <2>6. PrevSet(f, g, c, x) /\ Alike(f, g)
    <3>1. PrevSet(f, g, c, x)
      BY <1>1, <2>1, <2>3, <2>5, FieldsSet
    <3> QED BY <2>1, <2>5, <3>1, AlikeSet
  <2>7. First(t) = c
    BY <1>3, <1>7 DEF c
  <2> HIDE DEF t, M
  <2>8. Good(g, al, R \ {x}, M, {})
    BY <1>5, <2>4, <2>6, <2>7
  <2>9. Alike(h, g)
    BY <2>5, <2>6, AlikeAlike
  <2> QED BY <2>8, <2>9 DEF Becomes, M, s, g, t
<1> QED BY <1>6, <1>7

-----------------------------------------------------------------------------
(* An item's links are reset                                               *)

\* The links of x are reset.
CutOff(h, g, x) ==
    /\ SameBut(h, g, x) /\ Keeps(h, g, x)
    /\ g[x].next = Null /\ g[x].prev = Null /\ g[x].child = h[x].child

\* The two orders in which the code clears prev and next of an item.
LEMMA CutOffBy ==
    ASSUME NEW h \in [Node -> Cell], NEW x \in Node, NEW g,
           \/ g = [h EXCEPT ![x].prev = Null, ![x].next = Null]
           \/ g = [h EXCEPT ![x].next = Null, ![x].prev = Null]
    PROVE  CutOff(h, g, x)
<1>1. CASE g = [h EXCEPT ![x].prev = Null, ![x].next = Null]
  <2> DEFINE f == [h EXCEPT ![x].prev = Null]
  <2>1. PrevSet(h, f, x, Null)
    BY FieldsSet
  <2>2. f \in [Node -> Cell] /\ g = [f EXCEPT ![x].next = Null]
    BY <1>1, <2>1 DEF PrevSet, SameBut
  <2> HIDE DEF f
  <2>3. NextSet(f, g, x, Null)
    BY <2>2, FieldsSet
  <2> QED BY <2>1, <2>3 DEF PrevSet, NextSet, SameBut, Keeps, CutOff
<1>2. CASE g = [h EXCEPT ![x].next = Null, ![x].prev = Null]
  <2> DEFINE f == [h EXCEPT ![x].next = Null]
  <2>1. NextSet(h, f, x, Null)
    BY FieldsSet
  <2>2. f \in [Node -> Cell] /\ g = [f EXCEPT ![x].prev = Null]
    BY <1>2, <2>1 DEF NextSet, SameBut
  <2> HIDE DEF f
  <2>3. PrevSet(f, g, x, Null)
    BY <2>2, FieldsSet
  <2> QED BY <2>1, <2>3 DEF PrevSet, NextSet, SameBut, Keeps, CutOff
<1> QED BY <1>1, <1>2

\* Clearing the pointers of an item that was written to anyway.
LEMMA WithinCut ==
    ASSUME NEW h, NEW g, NEW C, NEW k, Within(h, g, C, k), NEW f, NEW n \in C, n \in Node,
           CutOff(g, f, n)
    PROVE  Within(h, f, C, k)
<1>1. f \in [Node -> Cell] /\ \A m \in Node \ {n} : f[m] = g[m]
  BY DEF CutOff, SameBut
<1>2. Keeps(g, f, n) /\ f[n].child = g[n].child
  BY DEF CutOff
<1>3. Alike(h, f)
  BY <1>1, <1>2 DEF Within, Alike, Keeps
<1>4. \A m \in Node \ C : f[m].next = h[m].next /\ f[m].prev = h[m].prev
  BY <1>1 DEF Within
<1>5. \A m \in Node \ {k} : f[m].child = h[m].child
  BY <1>1, <1>2 DEF Within
<1> QED BY <1>3, <1>4, <1>5 DEF Within

-----------------------------------------------------------------------------
(* An item is taken out of a list                                          *)

\* A list without its i-th item.
Without(s, i) == [j \in 1..(Len(s) - 1) |-> IF j < i THEN s[j] ELSE s[j + 1]]

\* The first item then.
LeaderWithout(s, i) == IF i # 1 THEN s[1] ELSE IF Len(s) = 1 THEN Null ELSE s[2]

\* A linked list of such items, with c for its first.
RingOf(g, t, E, c) == Ring(g, t) /\ Elems(t) = E /\ First(t) = c

\* Only links of C differ, and the child of a, which is c.
Hung(h, g, C, a, c) == Within(h, g, C, a) /\ g[a].child = c

\* The links when it has been taken out.
Unlinks(g, s, i) ==
    /\ g[s[i]].next = Null
    /\ \A j \in 1..Len(s) : j # i =>
          /\ g[s[j]].next = IF j = i - 1 THEN (IF i < Len(s) THEN s[i + 1] ELSE Null)
                            ELSE IF j < Len(s) THEN s[j + 1] ELSE Null
          /\ g[s[j]].prev = IF j = i + 1 THEN (IF i = 1 THEN s[Len(s)] ELSE s[i - 1])
                            ELSE IF j = 1 THEN (IF i = Len(s) THEN s[i - 1] ELSE s[Len(s)])
                            ELSE s[j - 1]

\* What unlinking an item leaves is the list without it.
LEMMA RingWithout ==
    ASSUME NEW g, NEW s \in Seq(Node), \A j, l \in 1..Len(s) : s[j] = s[l] => j = l,
           NEW i \in 1..Len(s), Unlinks(g, s, i)
    PROVE  RingOf(g, Without(s, i), Elems(s) \ {s[i]}, LeaderWithout(s, i))
<1> DEFINE m == Len(s)
           n == m - 1
           t == Without(s, i)
<1>1. m \in Nat /\ n \in Nat /\ i \in 1..m /\ i \in Nat /\ \A j \in 1..m : s[j] \in Node
  OBVIOUS
<1>2. t = [j \in 1..n |-> IF j < i THEN s[j] ELSE s[j + 1]]
  BY DEF Without
<1>3. /\ \A j, l \in 1..m : s[j] = s[l] => j = l
      /\ \A j \in 1..m : j # i =>
           /\ g[s[j]].next = IF j = i - 1 THEN (IF i < m THEN s[i + 1] ELSE Null)
                             ELSE IF j < m THEN s[j + 1] ELSE Null
           /\ g[s[j]].prev = IF j = i + 1 THEN (IF i = 1 THEN s[m] ELSE s[i - 1])
                             ELSE IF j = 1 THEN (IF i = m THEN s[i - 1] ELSE s[m])
                             ELSE s[j - 1]
  BY DEF Unlinks
<1> HIDE DEF t, n, m
<1>4. n = m - 1
  BY DEF n
<1> DEFINE o(j) == IF j < i THEN j ELSE j + 1
<1>5. ASSUME NEW j \in 1..n
      PROVE  /\ o(j) \in 1..m /\ o(j) # i /\ t[j] = s[o(j)] /\ t[j] \in Node
             /\ j < n => j + 1 \in 1..n
             /\ j # 1 => j - 1 \in 1..n
             /\ n \in 1..n
  <2>1. /\ j < i => j \in 1..m /\ j # i
        /\ ~(j < i) => j + 1 \in 1..m /\ j + 1 # i
        /\ j < n => j + 1 \in 1..n
        /\ j # 1 => j - 1 \in 1..n
        /\ n \in 1..n
    BY <1>1, <1>4
  <2> QED BY <1>1, <1>2, <2>1
<1>6. \A j, l \in 1..n : t[j] = t[l] => j = l
  <2> SUFFICES ASSUME NEW j \in 1..n, NEW l \in 1..n, t[j] = t[l] PROVE j = l
    OBVIOUS
  <2>1. o(j) = o(l)
    BY <1>3, <1>5, SMTT(40)
  <2> QED BY <1>1, <2>1
<1>7. ASSUME NEW j \in 1..n
      PROVE  g[t[j]].next = IF j < n THEN t[j + 1] ELSE Null
  <2>1. g[s[o(j)]].next = IF o(j) = i - 1 THEN (IF i < m THEN s[i + 1] ELSE Null)
                          ELSE IF o(j) < m THEN s[o(j) + 1] ELSE Null
    BY <1>3, <1>5
  <2>2. CASE j < n
    <3>1. j + 1 \in 1..n /\ t[j + 1] = s[o(j + 1)]
      BY <1>5, <2>2
    <3>2. CASE o(j) = i - 1
      <4>1. i < m /\ o(j + 1) = i + 1
        BY <1>1, <1>4, <2>2, <3>2
      <4> QED BY <1>5, <2>1, <2>2, <3>1, <3>2, <4>1
    <3>3. CASE o(j) # i - 1
      <4>1. o(j) < m /\ o(j + 1) = o(j) + 1
        BY <1>1, <1>4, <2>2, <3>3
      <4> QED BY <1>5, <2>1, <2>2, <3>1, <3>3, <4>1
    <3> QED BY <3>2, <3>3
  <2>3. CASE ~(j < n)
    <3>1. IF o(j) = i - 1 THEN ~(i < m) ELSE ~(o(j) < m)
      BY <1>1, <1>4, <2>3
    <3> QED BY <1>5, <2>1, <2>3, <3>1
  <2> QED BY <2>2, <2>3
<1>8. ASSUME NEW j \in 1..n
      PROVE  g[t[j]].prev = IF j = 1 THEN t[n] ELSE t[j - 1]
  <2>1. g[s[o(j)]].prev = IF o(j) = i + 1 THEN (IF i = 1 THEN s[m] ELSE s[i - 1])
                          ELSE IF o(j) = 1 THEN (IF i = m THEN s[i - 1] ELSE s[m])
                          ELSE s[o(j) - 1]
    BY <1>3, <1>5
  <2>2. n \in 1..n /\ t[n] = s[o(n)]
    BY <1>5
  <2>3. CASE j = 1
    <3>1. CASE o(j) = i + 1
      <4>1. i = 1 /\ o(n) = m
        BY <1>1, <1>4, <2>2, <2>3, <3>1
      <4> QED BY <1>5, <2>1, <2>2, <2>3, <3>1, <4>1
    <3>2. CASE o(j) # i + 1
      <4>1. o(j) = 1 /\ o(n) = IF i = m THEN i - 1 ELSE m
        BY <1>1, <1>4, <2>2, <2>3, <3>2
      <4> QED BY <1>5, <2>1, <2>2, <2>3, <3>2, <4>1
    <3> QED BY <3>1, <3>2
  <2>4. CASE j # 1
    <3>1. j - 1 \in 1..n /\ t[j - 1] = s[o(j - 1)]
      BY <1>5, <2>4
    <3>2. CASE o(j) = i + 1
      <4>1. i # 1 /\ o(j - 1) = i - 1
        BY <1>1, <1>4, <2>4, <3>1, <3>2
      <4> QED BY <1>5, <2>1, <2>4, <3>1, <3>2, <4>1
    <3>3. CASE o(j) # i + 1
      <4>1. o(j) # 1 /\ o(j - 1) = o(j) - 1
        BY <1>1, <1>4, <2>4, <3>1, <3>3
      <4> QED BY <1>5, <2>1, <2>4, <3>1, <3>3, <4>1
    <3> QED BY <3>2, <3>3
  <2> QED BY <2>3, <2>4
<1>9. t \in [1..n -> Node] /\ n \in Nat
  BY <1>1, <1>2, <1>5
<1>10. Ring(g, t) /\ Len(t) = n /\ t \in Seq(Node)
  <2> HIDE DEF o
  <2> QED BY <1>6, <1>7, <1>8, <1>9, RingBy
<1>11. Elems(t) = Elems(s) \ {s[i]}
  <2>1. ASSUME NEW e \in Elems(t) PROVE e \in Elems(s) \ {s[i]}
    <3>1. PICK j \in 1..n : e = t[j]
      BY <1>10 DEF Elems
    <3>2. o(j) \in 1..m /\ o(j) # i /\ e = s[o(j)]
      BY <1>5, <3>1
    <3> HIDE DEF o
    <3> QED BY <1>1, <1>3, <3>2 DEF Elems, m
  <2>2. ASSUME NEW e \in Elems(s) \ {s[i]} PROVE e \in Elems(t)
    <3>1. PICK j \in 1..m : e = s[j] /\ j # i
      BY DEF Elems, m
    <3> DEFINE l == IF j < i THEN j ELSE j - 1
    <3>2. l \in 1..n /\ o(l) = j
      BY <1>1, <1>4, <3>1
    <3>3. e = t[l]
      BY <1>5, <3>1, <3>2
    <3> HIDE DEF l, o
    <3> QED BY <1>10, <3>2, <3>3 DEF Elems
  <2> QED BY <2>1, <2>2
<1>12. First(t) = IF i # 1 THEN s[1] ELSE IF m = 1 THEN Null ELSE s[2]
  <2>1. CASE n = 0
    <3>1. t = <<>> /\ m = 1 /\ i = 1
      BY <1>1, <1>4, <1>10, <2>1
    <3> QED BY <3>1 DEF First
  <2>2. CASE n # 0
    <3>1. 1 \in 1..n /\ t # <<>> /\ m # 1 /\ o(1) = IF i # 1 THEN 1 ELSE 2
      BY <1>1, <1>4, <1>10, <2>2
    <3> QED BY <1>5, <3>1 DEF First
  <2> QED BY <2>1, <2>2
<1> QED BY <1>10, <1>11, <1>12 DEF RingOf, LeaderWithout, t, m

\* cJSON_DetachItemViaPointer takes the item out of its list and resets its
\* links.
LEMMA DetachLinks ==
    ASSUME NEW h \in [Node -> Cell], NEW a \in Node, NEW s, Ring(h, s), h[a].child = First(s),
           NEW i \in 1..Len(s)
    PROVE  /\ Hung(h, Detach(h, a, s[i]), Elems(s), a, LeaderWithout(s, i))
           /\ Unlinks(Detach(h, a, s[i]), s, i)
<1> DEFINE m == Len(s)
           x == s[i]
           g == Detach(h, a, x)
           next == IF i < m THEN s[i + 1] ELSE Null
           prev == IF i = 1 THEN s[m] ELSE s[i - 1]
<1>1. /\ s \in Seq(Node) /\ m \in Nat /\ i \in 1..m /\ i \in Nat /\ \A j \in 1..m : s[j] \in Node
      /\ \A j, l \in 1..m : s[j] = s[l] => j = l
      /\ \A j \in 1..m : h[s[j]].next = IF j < m THEN s[j + 1] ELSE Null
      /\ \A j \in 1..m : h[s[j]].prev = IF j = 1 THEN s[m] ELSE s[j - 1]
      /\ \A j \in 1..m : s[j] \in Elems(s)
  BY RingIs, ElemsOf
<1>2. Null \notin Node /\ 1 \in 1..m /\ m \in 1..m
  BY <1>1, NodesAre
<1>3. h[a].child = s[1] /\ h[x].next = next /\ h[x].prev = prev /\ x \in Node /\ x \in Elems(s)
  <2>1. s # <<>>
    BY <1>1
  <2> QED BY <1>1, <2>1 DEF First
<1> DEFINE one == IF i = 1 THEN h ELSE [h EXCEPT ![prev].next = next]
           two == IF i = m THEN one ELSE [one EXCEPT ![next].prev = prev]
           three == IF i = 1 THEN [two EXCEPT ![a].child = next]
                    ELSE IF i = m THEN [two EXCEPT ![s[1]].prev = prev] ELSE two
<1>4. /\ i # 1 => i - 1 \in 1..m /\ prev = s[i - 1] /\ i - 1 # i
      /\ i # m => i + 1 \in 1..m /\ next = s[i + 1] /\ i < m /\ i + 1 # i
      /\ i = m => next = Null /\ ~(i < m)
      /\ i = 1 => prev = s[m]
      /\ prev \in Node /\ prev \in Elems(s)
      /\ i # m => next \in Node /\ next \in Elems(s) /\ next # Null
      /\ i # 1 => x # s[1]
      /\ next \in Node \cup {Null}
  BY <1>1, <1>2
<1>5. s[1] \in Node /\ s[1] \in Elems(s)
  BY <1>1, <1>2
<1> HIDE DEF next, prev, m, x
<1>6. \/ i = 1 /\ one = h
      \/ i # 1 /\ NextSet(h, one, prev, next)
  BY <1>4, FieldsSet
<1>7. Within(h, one, Elems(s), a) /\ one \in [Node -> Cell]
  <2>1. Within(h, h, Elems(s), a)
    BY WithinSelf
  <2>2. Within(h, one, Elems(s), a)
    <3> HIDE DEF one
    <3> QED BY <1>4, <1>6, <2>1, WithinSet
  <2> QED BY <2>2 DEF Within, Alike
<1>8. /\ \A n \in Node : one[n].prev = h[n].prev /\ one[n].child = h[n].child
      /\ \A n \in Node : one[n].next = IF i # 1 /\ n = prev THEN next ELSE h[n].next
  <2> HIDE DEF one
  <2>1. CASE i = 1 /\ one = h
    BY <2>1
  <2>2. CASE i # 1 /\ NextSet(h, one, prev, next)
    BY <1>4, <2>2 DEF NextSet, SameBut
  <2> QED BY <1>6, <2>1, <2>2
<1>9. \/ i = m /\ two = one
      \/ i # m /\ PrevSet(one, two, next, prev)
  <2> HIDE DEF one
  <2> QED BY <1>4, <1>7, FieldsSet
<1>10. Within(h, two, Elems(s), a) /\ two \in [Node -> Cell]
  <2>1. Within(h, two, Elems(s), a)
    <3> HIDE DEF two, one
    <3> QED BY <1>4, <1>7, <1>9, WithinSet
  <2> QED BY <2>1 DEF Within, Alike
<1>11. /\ \A n \in Node : two[n].next = one[n].next /\ two[n].child = one[n].child
       /\ \A n \in Node : two[n].prev = IF i # m /\ n = next THEN prev ELSE one[n].prev
  <2> HIDE DEF one, two
  <2>1. CASE i = m /\ two = one
    BY <2>1
  <2>2. CASE i # m /\ PrevSet(one, two, next, prev)
    BY <1>4, <2>2 DEF PrevSet, SameBut
  <2> QED BY <1>9, <2>1, <2>2
<1>12. \/ i = 1 /\ ChildSet(two, three, a, next)
       \/ i # 1 /\ i = m /\ PrevSet(two, three, s[1], prev)
       \/ i # 1 /\ i # m /\ three = two
  <2> HIDE DEF two
  <2> QED BY <1>4, <1>5, <1>10, FieldsSet
<1>13. Within(h, three, Elems(s), a) /\ three \in [Node -> Cell]
  <2>1. Within(h, three, Elems(s), a)
    <3> HIDE DEF two, three
    <3> QED BY <1>4, <1>5, <1>10, <1>12, WithinSet
  <2> QED BY <2>1 DEF Within, Alike
<1>14. /\ \A n \in Node : three[n].next = two[n].next
       /\ \A n \in Node : three[n].prev = IF i # 1 /\ i = m /\ n = s[1] THEN prev ELSE two[n].prev
       /\ three[a].child = IF i = 1 THEN next ELSE s[1]
  <2>0. two[a].child = s[1]
    BY <1>3, <1>8, <1>11
  <2> HIDE DEF two, three
  <2>1. CASE i = 1 /\ ChildSet(two, three, a, next)
    BY <2>1 DEF ChildSet, SameBut
  <2>2. CASE i # 1 /\ i = m /\ PrevSet(two, three, s[1], prev)
    BY <1>5, <2>0, <2>2 DEF PrevSet, SameBut
  <2>3. CASE i # 1 /\ i # m /\ three = two
    BY <2>0, <2>3
  <2> QED BY <1>12, <2>1, <2>2, <2>3
<1>15. g = [three EXCEPT ![x].prev = Null, ![x].next = Null]
  <2>1. two[a].child = s[1] /\ (x = s[1] <=> i = 1) /\ h[a].child = s[1]
    BY <1>3, <1>4, <1>8, <1>11 DEF x
  <2>2. next = Null <=> i = m
    BY <1>4
  <2>3. one = IF x = h[a].child THEN h ELSE [h EXCEPT ![h[x].prev].next = h[x].next]
    BY <1>3, <2>1
  <2> HIDE DEF one
  <2>4. two = IF h[x].next = Null THEN one ELSE [one EXCEPT ![h[x].next].prev = h[x].prev]
    BY <1>3, <2>2
  <2> HIDE DEF two
  <2>5. three = IF x = two[a].child THEN [two EXCEPT ![a].child = h[x].next]
                ELSE IF h[x].next = Null THEN [two EXCEPT ![two[a].child].prev = h[x].prev]
                ELSE two
    BY <1>3, <2>1, <2>2
  <2> HIDE DEF three
  <2> DEFINE h1 == IF x = h[a].child THEN h ELSE [h EXCEPT ![h[x].prev].next = h[x].next]
             h2 == IF h[x].next = Null THEN h1 ELSE [h1 EXCEPT ![h[x].next].prev = h[x].prev]
             h3 == IF x = h2[a].child THEN [h2 EXCEPT ![a].child = h[x].next]
                   ELSE IF h[x].next = Null THEN [h2 EXCEPT ![h2[a].child].prev = h[x].prev]
                   ELSE h2
  <2>6. g = [h3 EXCEPT ![x].prev = Null, ![x].next = Null]
    BY DEF Detach
  <2>7. h1 = one
    BY ONLY <2>3 DEF h1
  <2> HIDE DEF h1
  <2>8. h2 = two
    BY ONLY <2>4, <2>7 DEF h2
  <2> HIDE DEF h2
  <2>9. h3 = three
    BY ONLY <2>5, <2>8 DEF h3
  <2> HIDE DEF h3, g
  <2> QED BY ONLY <2>6, <2>9
<1> HIDE DEF one, two, three, g
<1>16. CutOff(three, g, x)
  BY <1>3, <1>13, <1>15, CutOffBy
<1>17. Within(h, g, Elems(s), a)
  BY <1>3, <1>13, <1>16, WithinCut
<1>18. /\ g[x].next = Null /\ g[x].prev = Null /\ g[a].child = three[a].child
       /\ \A n \in Node \ {x} : g[n].next = three[n].next /\ g[n].prev = three[n].prev
  BY <1>3, <1>16 DEF CutOff, SameBut
<1>19. g[a].child = IF i # 1 THEN s[1] ELSE IF m = 1 THEN Null ELSE s[2]
  BY <1>4, <1>14, <1>18
<1>20. \A n \in Node \ {x} :
          /\ g[n].next = IF i # 1 /\ n = prev THEN next ELSE h[n].next
          /\ g[n].prev = IF i # 1 /\ i = m /\ n = s[1] THEN prev
                         ELSE IF i # m /\ n = next THEN prev ELSE h[n].prev
  BY <1>8, <1>11, <1>14, <1>18
<1>21. ASSUME NEW j \in 1..m, j # i
       PROVE  /\ g[s[j]].next = IF j = i - 1 THEN (IF i < m THEN s[i + 1] ELSE Null)
                                ELSE IF j < m THEN s[j + 1] ELSE Null
              /\ g[s[j]].prev = IF j = i + 1 THEN (IF i = 1 THEN s[m] ELSE s[i - 1])
                                ELSE IF j = 1 THEN (IF i = m THEN s[i - 1] ELSE s[m])
                                ELSE s[j - 1]
  <2>1. s[j] \in Node /\ s[j] # x
    BY <1>1, <1>21 DEF x
  <2>2. i # 1 /\ s[j] = prev <=> j = i - 1
    BY <1>1, <1>4, <1>21
  <2>3. i # m /\ s[j] = next <=> j = i + 1
    BY <1>1, <1>4, <1>21, SMTT(40)
  <2>4. s[j] = s[1] <=> j = 1
    BY <1>1, <1>2
  <2>5. next = IF i < m THEN s[i + 1] ELSE Null
    BY DEF next
  <2>6. prev = IF i = 1 THEN s[m] ELSE s[i - 1]
    BY DEF prev
  <2>7. g[s[j]].next = IF j = i - 1 THEN next ELSE h[s[j]].next
    BY <1>20, <2>1, <2>2
  <2>8. g[s[j]].prev = IF i # 1 /\ i = m /\ j = 1 THEN prev
                       ELSE IF j = i + 1 THEN prev ELSE h[s[j]].prev
    BY <1>20, <2>1, <2>3, <2>4
  <2>9. h[s[j]].next = (IF j < m THEN s[j + 1] ELSE Null)
        /\ h[s[j]].prev = (IF j = 1 THEN s[m] ELSE s[j - 1])
    BY <1>1
  <2>10. i # m => ~(i # 1 /\ i = m /\ j = 1)
    OBVIOUS
  <2>11. i = m => j # i + 1 /\ (j = 1 => i # 1)
    BY <1>1, <1>21
  <2> QED BY <2>5, <2>6, <2>7, <2>8, <2>9, <2>11
<1>22. Unlinks(g, s, i)
  BY <1>18, <1>21 DEF Unlinks, m, x
<1> QED BY <1>17, <1>18, <1>19, <1>22 DEF Hung, LeaderWithout, g, m, x

-----------------------------------------------------------------------------
(* An item is put into a list                                              *)

\* A list with x before its i-th item.
With(s, i, x) == [j \in 1..(Len(s) + 1) |-> IF j < i THEN s[j] ELSE IF j = i THEN x ELSE s[j - 1]]

\* The first item then.
LeaderWith(s, i, x) == IF i = 1 THEN x ELSE s[1]

Inserts(g, s, i, x) ==
    /\ g[x].next = s[i] /\ g[x].prev = IF i = 1 THEN s[Len(s)] ELSE s[i - 1]
    /\ \A j \in 1..Len(s) :
          /\ g[s[j]].next = IF j = i - 1 THEN x ELSE IF j < Len(s) THEN s[j + 1] ELSE Null
          /\ g[s[j]].prev = IF j = i THEN x ELSE IF j = 1 THEN s[Len(s)] ELSE s[j - 1]

\* What inserting an item makes is the list with it.
LEMMA RingWith ==
    ASSUME NEW g, NEW s \in Seq(Node), \A j, l \in 1..Len(s) : s[j] = s[l] => j = l,
           NEW i \in 1..Len(s), NEW x \in Node, x \notin Elems(s), Inserts(g, s, i, x)
    PROVE  RingOf(g, With(s, i, x), Elems(s) \cup {x}, LeaderWith(s, i, x))
<1> DEFINE m == Len(s)
           n == m + 1
           t == With(s, i, x)
<1>1. /\ m \in Nat /\ n \in Nat /\ i \in 1..m /\ i \in Nat /\ \A j \in 1..m : s[j] \in Node
      /\ \A j \in 1..m : s[j] # x
  BY ElemsOf
<1>2. t = [j \in 1..n |-> IF j < i THEN s[j] ELSE IF j = i THEN x ELSE s[j - 1]]
  BY DEF With
<1>3. /\ \A j, l \in 1..m : s[j] = s[l] => j = l
      /\ g[x].next = s[i] /\ g[x].prev = IF i = 1 THEN s[m] ELSE s[i - 1]
      /\ \A j \in 1..m :
           /\ g[s[j]].next = IF j = i - 1 THEN x ELSE IF j < m THEN s[j + 1] ELSE Null
           /\ g[s[j]].prev = IF j = i THEN x ELSE IF j = 1 THEN s[m] ELSE s[j - 1]
  BY DEF Inserts
<1> HIDE DEF t, n, m
<1>4. n = m + 1 /\ n \in 1..n /\ i \in 1..n
  BY <1>1 DEF n
<1> DEFINE o(j) == IF j < i THEN j ELSE j - 1
<1>5. ASSUME NEW j \in 1..n
      PROVE  /\ j # i => o(j) \in 1..m /\ t[j] = s[o(j)]
             /\ j = i => t[j] = x
             /\ t[j] \in Node
             /\ j < n => j + 1 \in 1..n
             /\ j # 1 => j - 1 \in 1..n
  <2>1. /\ j < i => j \in 1..m
        /\ j # i /\ ~(j < i) => j - 1 \in 1..m
        /\ j < n => j + 1 \in 1..n
        /\ j # 1 => j - 1 \in 1..n
        /\ j = i => ~(j < i)
    BY <1>1, <1>4
  <2> QED BY <1>1, <1>2, <2>1
<1>6. \A j, l \in 1..n : t[j] = t[l] => j = l
  <2> SUFFICES ASSUME NEW j \in 1..n, NEW l \in 1..n, t[j] = t[l] PROVE j = l
    OBVIOUS
  <2>1. CASE j # i /\ l # i
    <3>1. o(j) = o(l)
      BY <1>3, <1>5, <2>1
    <3> QED BY <1>1, <2>1, <3>1
  <2>2. CASE j = i \/ l = i
    <3> HIDE DEF o
    <3> QED BY <1>1, <1>5, <2>2
  <2> QED BY <2>1, <2>2
<1>7. ASSUME NEW j \in 1..n
      PROVE  g[t[j]].next = IF j < n THEN t[j + 1] ELSE Null
  <2>1. CASE j = i
    <3>1. j < n /\ j + 1 \in 1..n /\ j + 1 # i /\ o(j + 1) = i
      BY <1>1, <1>4, <2>1
    <3>2. t[j] = x /\ t[j + 1] = s[i]
      BY <1>5, <2>1, <3>1
    <3> QED BY <1>3, <3>1, <3>2
  <2>2. CASE j # i
    <3>1. o(j) \in 1..m /\ t[j] = s[o(j)]
      BY <1>5, <2>2
    <3>2. g[t[j]].next = IF o(j) = i - 1 THEN x ELSE IF o(j) < m THEN s[o(j) + 1] ELSE Null
      BY <1>3, <3>1
    <3>3. CASE j + 1 = i
      <4>1. o(j) = i - 1 /\ j < n /\ j + 1 \in 1..n
        BY <1>1, <1>4, <3>3
      <4> QED BY <1>5, <3>2, <3>3, <4>1
    <3>4. CASE j + 1 # i /\ j < n
      <4>1. j + 1 \in 1..n /\ o(j) # i - 1 /\ o(j) < m /\ o(j + 1) = o(j) + 1
        BY <1>1, <1>4, <2>2, <3>4
      <4>2. t[j + 1] = s[o(j + 1)]
        BY <1>5, <3>4, <4>1
      <4> HIDE DEF o
      <4> QED BY <3>2, <3>4, <4>1, <4>2
    <3>5. CASE j + 1 # i /\ ~(j < n)
      <4>1. o(j) # i - 1 /\ ~(o(j) < m)
        BY <1>1, <1>4, <2>2, <3>5
      <4> QED BY <3>2, <3>5, <4>1
    <3> QED BY <3>3, <3>4, <3>5
  <2> QED BY <2>1, <2>2
<1>8. ASSUME NEW j \in 1..n
      PROVE  g[t[j]].prev = IF j = 1 THEN t[n] ELSE t[j - 1]
  <2>0. n # i /\ o(n) = m /\ t[n] = s[m]
    <3>1. n # i /\ o(n) = m
      BY <1>1, <1>4
    <3> QED BY <1>4, <1>5, <3>1
  <2>1. CASE j = i
    <3>1. CASE j = 1
      BY <1>3, <1>5, <2>0, <2>1, <3>1
    <3>2. CASE j # 1
      <4>1. j - 1 \in 1..n /\ j - 1 # i /\ o(j - 1) = i - 1
        BY <1>1, <1>4, <2>1, <3>2
      <4>2. t[j - 1] = s[i - 1]
        BY <1>5, <4>1
      <4> QED BY <1>3, <1>5, <2>1, <3>2, <4>2
    <3> QED BY <3>1, <3>2
  <2>2. CASE j # i
    <3>1. o(j) \in 1..m /\ t[j] = s[o(j)]
      BY <1>5, <2>2
    <3>2. g[t[j]].prev = IF o(j) = i THEN x ELSE IF o(j) = 1 THEN s[m] ELSE s[o(j) - 1]
      BY <1>3, <3>1
    <3>3. CASE j - 1 = i
      <4>1. o(j) = i /\ j # 1 /\ j - 1 \in 1..n
        BY <1>1, <1>4, <3>3
      <4> QED BY <1>5, <3>2, <3>3, <4>1
    <3>4. CASE j - 1 # i /\ j # 1
      <4>1. j - 1 \in 1..n /\ o(j) # i /\ o(j) # 1 /\ o(j - 1) = o(j) - 1
        BY <1>1, <1>4, <2>2, <3>4
      <4>2. t[j - 1] = s[o(j - 1)]
        BY <1>5, <3>4, <4>1
      <4> HIDE DEF o
      <4> QED BY <3>2, <3>4, <4>1, <4>2
    <3>5. CASE j = 1
      <4>1. o(j) # i /\ o(j) = 1
        BY <1>1, <1>4, <2>2, <3>5
      <4> QED BY <2>0, <3>2, <3>5, <4>1
    <3> QED BY <3>3, <3>4, <3>5
  <2> QED BY <2>1, <2>2
<1>9. t \in [1..n -> Node] /\ n \in Nat
  BY <1>1, <1>2, <1>5
<1>10. Ring(g, t) /\ Len(t) = n /\ t \in Seq(Node)
  <2> HIDE DEF o
  <2> QED BY <1>6, <1>7, <1>8, <1>9, RingBy
<1>11. Elems(t) = Elems(s) \cup {x}
  <2>1. ASSUME NEW e \in Elems(t) PROVE e \in Elems(s) \cup {x}
    <3>1. PICK j \in 1..n : e = t[j]
      BY <1>10 DEF Elems
    <3>2. e = x \/ (o(j) \in 1..m /\ e = s[o(j)])
      BY <1>5, <3>1
    <3> HIDE DEF o
    <3> QED BY <3>2 DEF Elems, m
  <2>2. ASSUME NEW e \in Elems(s) PROVE e \in Elems(t)
    <3>1. PICK j \in 1..m : e = s[j]
      BY DEF Elems, m
    <3> DEFINE l == IF j < i THEN j ELSE j + 1
    <3>2. l \in 1..n /\ l # i /\ o(l) = j
      BY <1>1, <1>4, <3>1
    <3>3. e = t[l]
      BY <1>5, <3>1, <3>2
    <3> HIDE DEF l, o
    <3> QED BY <1>10, <3>2, <3>3 DEF Elems
  <2>3. x \in Elems(t)
    <3>1. t[i] = x
      BY <1>4, <1>5
    <3> QED BY <1>4, <1>10, <3>1 DEF Elems
  <2> QED BY <2>1, <2>2, <2>3
<1>12. First(t) = IF i = 1 THEN x ELSE s[1]
  <2>1. 1 \in 1..n /\ t # <<>> /\ (i # 1 => o(1) = 1)
    BY <1>1, <1>4, <1>10
  <2> QED BY <1>5, <2>1 DEF First
<1> QED BY <1>10, <1>11, <1>12 DEF RingOf, LeaderWith, t

\* cJSON_InsertItemInArray links the new item before the one at the place.
LEMMA InsertLinks ==
    ASSUME NEW h \in [Node -> Cell], NEW a \in Node, NEW s, Ring(h, s), h[a].child = First(s),
           NEW i \in 1..Len(s), NEW x \in Node, x \notin Elems(s)
    PROVE  /\ Hung(h, InsertBefore(h, a, s[i], x), Elems(s) \cup {x}, a, LeaderWith(s, i, x))
           /\ Inserts(InsertBefore(h, a, s[i], x), s, i, x)
<1> DEFINE m == Len(s)
           y == s[i]
           g == InsertBefore(h, a, y, x)
           prev == IF i = 1 THEN s[m] ELSE s[i - 1]
           C == Elems(s) \cup {x}
<1>1. /\ s \in Seq(Node) /\ m \in Nat /\ i \in 1..m /\ i \in Nat /\ \A j \in 1..m : s[j] \in Node
      /\ \A j, l \in 1..m : s[j] = s[l] => j = l
      /\ \A j \in 1..m : h[s[j]].next = IF j < m THEN s[j + 1] ELSE Null
      /\ \A j \in 1..m : h[s[j]].prev = IF j = 1 THEN s[m] ELSE s[j - 1]
      /\ \A j \in 1..m : s[j] \in Elems(s) /\ s[j] # x
  BY RingIs, ElemsOf
<1>2. 1 \in 1..m /\ m \in 1..m
  BY <1>1
<1>3. h[a].child = s[1] /\ h[y].prev = prev /\ y \in Node /\ y \in Elems(s) /\ y # x
  <2>1. s # <<>>
    BY <1>1
  <2> QED BY <1>1, <2>1 DEF First
<1>4. /\ i # 1 => i - 1 \in 1..m /\ prev = s[i - 1] /\ i - 1 # i
      /\ prev \in Node /\ prev \in Elems(s) /\ prev # x
      /\ y = s[1] <=> i = 1
  BY <1>1, <1>2
<1> DEFINE one == [h EXCEPT ![x].next = y]
           two == [one EXCEPT ![x].prev = prev]
           three == [two EXCEPT ![y].prev = x]
           four == IF i = 1 THEN [three EXCEPT ![a].child = x] ELSE [three EXCEPT ![prev].next = x]
<1> HIDE DEF m, y, prev, C
<1>5. x \in C /\ y \in C /\ prev \in C
  BY <1>3, <1>4 DEF C
<1>6. NextSet(h, one, x, y) /\ one \in [Node -> Cell]
  <2>1. NextSet(h, one, x, y)
    BY <1>3, FieldsSet
  <2> QED BY <2>1 DEF NextSet, SameBut
<1>7. PrevSet(one, two, x, prev) /\ two \in [Node -> Cell]
  <2> HIDE DEF one
  <2>1. PrevSet(one, two, x, prev)
    BY <1>4, <1>6, FieldsSet
  <2> QED BY <2>1 DEF PrevSet, SameBut
<1>8. PrevSet(two, three, y, x) /\ three \in [Node -> Cell]
  <2> HIDE DEF two
  <2>1. PrevSet(two, three, y, x)
    BY <1>3, <1>7, FieldsSet
  <2> QED BY <2>1 DEF PrevSet, SameBut
<1>9. \/ i = 1 /\ ChildSet(three, four, a, x)
      \/ i # 1 /\ NextSet(three, four, prev, x)
  <2> HIDE DEF three
  <2> QED BY <1>4, <1>8, FieldsSet
<1>10. g = four
  <2>1. three = [h EXCEPT ![x].next = y, ![x].prev = h[y].prev, ![y].prev = x]
    BY <1>3
  <2>2. three[x].prev = prev /\ h[a].child = s[1]
    <3> HIDE DEF three, two, one
    <3> QED BY <1>3, <1>7, <1>8 DEF PrevSet, SameBut
  <2> HIDE DEF three
  <2> DEFINE h1 == [h EXCEPT ![x].next = y, ![x].prev = h[y].prev, ![y].prev = x]
  <2>3. g = IF y = h[a].child THEN [h1 EXCEPT ![a].child = x] ELSE [h1 EXCEPT ![h1[x].prev].next = x]
    BY DEF InsertBefore
  <2>4. h1 = three
    BY <2>1
  <2> HIDE DEF h1, g
  <2>5. g = IF y = h[a].child THEN [three EXCEPT ![a].child = x]
            ELSE [three EXCEPT ![three[x].prev].next = x]
    BY ONLY <2>3, <2>4
  <2> QED BY <1>4, <2>2, <2>5
<1> HIDE DEF one, two, three, four, g
<1>11. Within(h, g, C, a)
  <2>1. Within(h, h, C, a)
    BY WithinSelf
  <2>2. Within(h, one, C, a)
    BY <1>5, <1>6, <2>1, WithinSet
  <2>3. Within(h, two, C, a)
    BY <1>5, <1>7, <2>2, WithinSet
  <2>4. Within(h, three, C, a)
    BY <1>3, <1>5, <1>8, <2>3, WithinSet
  <2> QED BY <1>4, <1>5, <1>9, <1>10, <2>4, WithinSet
<1>12. /\ three[x].next = y /\ three[x].prev = prev /\ three[a].child = s[1]
       /\ \A n \in Node \ {x} : /\ three[n].next = h[n].next
                                /\ three[n].prev = IF n = y THEN x ELSE h[n].prev
  <2>1. /\ one[x].next = y /\ \A n \in Node \ {x} : one[n].next = h[n].next
        /\ \A n \in Node : one[n].prev = h[n].prev /\ one[n].child = h[n].child
    BY <1>6 DEF NextSet, SameBut
  <2>2. /\ two[x].prev = prev /\ \A n \in Node \ {x} : two[n].prev = one[n].prev
        /\ \A n \in Node : two[n].next = one[n].next /\ two[n].child = one[n].child
    BY <1>7 DEF PrevSet, SameBut
  <2>3. /\ three[y].prev = x /\ \A n \in Node \ {y} : three[n].prev = two[n].prev
        /\ \A n \in Node : three[n].next = two[n].next /\ three[n].child = two[n].child
    BY <1>8 DEF PrevSet, SameBut
  <2> QED BY <1>3, <2>1, <2>2, <2>3
<1>13. /\ \A n \in Node : g[n].next = IF i # 1 /\ n = prev THEN x ELSE three[n].next
       /\ \A n \in Node : g[n].prev = three[n].prev
       /\ g[a].child = IF i = 1 THEN x ELSE s[1]
  <2>1. CASE i = 1 /\ ChildSet(three, g, a, x)
    BY <2>1 DEF ChildSet, SameBut
  <2>2. CASE i # 1 /\ NextSet(three, g, prev, x)
    BY <1>4, <1>12, <2>2 DEF NextSet, SameBut
  <2> QED BY <1>9, <1>10, <2>1, <2>2
<1>14. ASSUME NEW j \in 1..m
       PROVE  /\ g[s[j]].next = IF j = i - 1 THEN x ELSE IF j < m THEN s[j + 1] ELSE Null
              /\ g[s[j]].prev = IF j = i THEN x ELSE IF j = 1 THEN s[m] ELSE s[j - 1]
  <2>1. s[j] \in Node \ {x}
    BY <1>1
  <2>2. i # 1 /\ s[j] = prev <=> j = i - 1
    BY <1>1, <1>4
  <2>3. s[j] = y <=> j = i
    BY <1>1 DEF y
  <2>4. g[s[j]].next = IF j = i - 1 THEN x ELSE h[s[j]].next
    BY <1>12, <1>13, <2>1, <2>2
  <2>5. g[s[j]].prev = IF j = i THEN x ELSE h[s[j]].prev
    BY <1>12, <1>13, <2>1, <2>3
  <2> QED BY <1>1, <2>4, <2>5
<1>15. g[x].next = y /\ g[x].prev = prev
  BY <1>4, <1>12, <1>13
<1>16. Inserts(g, s, i, x)
  BY <1>14, <1>15 DEF Inserts, m, y, prev
<1> QED BY <1>11, <1>13, <1>16 DEF Hung, LeaderWith, g, y, C

-----------------------------------------------------------------------------
(* An item of a list is exchanged                                          *)

\* A list with x for its i-th item.
Replaces(g, s, i, x) ==
    /\ g[s[i]].next = Null
    /\ g[x].next = IF i < Len(s) THEN s[i + 1] ELSE Null
    /\ g[x].prev = IF i # 1 THEN s[i - 1] ELSE IF Len(s) = 1 THEN x ELSE s[Len(s)]
    /\ \A j \in 1..Len(s) : j # i =>
          /\ g[s[j]].next = IF j = i - 1 THEN x ELSE IF j < Len(s) THEN s[j + 1] ELSE Null
          /\ g[s[j]].prev = IF j = i + 1 THEN x
                            ELSE IF j # 1 THEN s[j - 1] ELSE IF i = Len(s) THEN x ELSE s[Len(s)]

\* What replacing an item makes is the list with the other in its place.
LEMMA RingReplaced ==
    ASSUME NEW g, NEW s \in Seq(Node), \A j, l \in 1..Len(s) : s[j] = s[l] => j = l,
           NEW i \in 1..Len(s), NEW x \in Node, x \notin Elems(s), Replaces(g, s, i, x)
    PROVE  RingOf(g, [s EXCEPT ![i] = x], (Elems(s) \ {s[i]}) \cup {x}, LeaderWith(s, i, x))
<1> DEFINE m == Len(s)
           t == [s EXCEPT ![i] = x]
<1>1. /\ m \in Nat /\ i \in 1..m /\ i \in Nat /\ \A j \in 1..m : s[j] \in Node
      /\ \A j \in 1..m : s[j] # x
  BY ElemsOf
<1>2. t \in [1..m -> Node] /\ t[i] = x /\ \A j \in 1..m : j # i => t[j] = s[j]
  OBVIOUS
<1>3. /\ \A j, l \in 1..m : s[j] = s[l] => j = l
      /\ g[x].next = IF i < m THEN s[i + 1] ELSE Null
      /\ g[x].prev = IF i # 1 THEN s[i - 1] ELSE IF m = 1 THEN x ELSE s[m]
      /\ \A j \in 1..m : j # i =>
           /\ g[s[j]].next = IF j = i - 1 THEN x ELSE IF j < m THEN s[j + 1] ELSE Null
           /\ g[s[j]].prev = IF j = i + 1 THEN x
                             ELSE IF j # 1 THEN s[j - 1] ELSE IF i = m THEN x ELSE s[m]
  BY DEF Replaces
<1> HIDE DEF t, m
<1>4. \A j, l \in 1..m : t[j] = t[l] => j = l
  <2> SUFFICES ASSUME NEW j \in 1..m, NEW l \in 1..m, t[j] = t[l] PROVE j = l
    OBVIOUS
  <2>1. CASE j # i /\ l # i
    BY <1>2, <1>3, <2>1
  <2>2. CASE j = i \/ l = i
    BY <1>1, <1>2, <2>2
  <2> QED BY <2>1, <2>2
<1>5. ASSUME NEW j \in 1..m
      PROVE  g[t[j]].next = IF j < m THEN t[j + 1] ELSE Null
  <2>1. j < m => j + 1 \in 1..m /\ j + 1 # j
    BY <1>1
  <2>2. CASE j = i
    BY <1>2, <1>3, <2>1, <2>2
  <2>3. CASE j # i
    <3>1. g[t[j]].next = IF j = i - 1 THEN x ELSE IF j < m THEN s[j + 1] ELSE Null
      BY <1>2, <1>3, <2>3
    <3>2. CASE j = i - 1
      <4>1. j < m /\ j + 1 = i
        BY <1>1, <3>2
      <4> QED BY <1>2, <3>1, <3>2, <4>1
    <3>3. CASE j # i - 1
      <4>1. j < m => t[j + 1] = s[j + 1]
        <5>1. j + 1 # i
          BY <1>1, <3>3
        <5> QED BY <1>2, <2>1, <5>1
      <4> QED BY <3>1, <3>3, <4>1
    <3> QED BY <3>2, <3>3
  <2> QED BY <2>2, <2>3
<1>6. ASSUME NEW j \in 1..m
      PROVE  g[t[j]].prev = IF j = 1 THEN t[m] ELSE t[j - 1]
  <2>1. (j # 1 => j - 1 \in 1..m) /\ m \in 1..m
    BY <1>1
  <2>2. CASE j = i
    <3>1. CASE j = 1
      <4>1. m # 1 => m # i
        BY <2>2, <3>1
      <4> QED BY <1>2, <1>3, <2>1, <2>2, <3>1, <4>1
    <3>2. CASE j # 1
      <4>1. j - 1 # i
        BY <1>1, <2>2
      <4> QED BY <1>2, <1>3, <2>1, <2>2, <3>2, <4>1
    <3> QED BY <3>1, <3>2
  <2>3. CASE j # i
    <3>1. g[t[j]].prev = IF j = i + 1 THEN x
                         ELSE IF j # 1 THEN s[j - 1] ELSE IF i = m THEN x ELSE s[m]
      BY <1>2, <1>3, <2>3
    <3>2. CASE j = i + 1
      <4>1. j # 1 /\ j - 1 = i
        BY <1>1, <3>2
      <4> QED BY <1>2, <3>1, <3>2, <4>1
    <3>3. CASE j # i + 1 /\ j # 1
      <4>1. j - 1 # i
        BY <1>1, <3>3
      <4> QED BY <1>2, <2>1, <3>1, <3>3, <4>1
    <3>4. CASE j # i + 1 /\ j = 1
      BY <1>2, <2>1, <3>1, <3>4
    <3> QED BY <3>2, <3>3, <3>4
  <2> QED BY <2>2, <2>3
<1>7. Ring(g, t) /\ Len(t) = m /\ t \in Seq(Node)
  BY <1>1, <1>2, <1>4, <1>5, <1>6, RingBy
<1>8. Elems(t) = (Elems(s) \ {s[i]}) \cup {x}
  <2>1. ASSUME NEW e \in Elems(t) PROVE e \in (Elems(s) \ {s[i]}) \cup {x}
    <3>1. PICK j \in 1..m : e = t[j]
      BY <1>7 DEF Elems
    <3>2. e = x \/ (e = s[j] /\ j # i)
      BY <1>2, <3>1
    <3> QED BY <1>1, <1>3, <3>2 DEF Elems, m
  <2>2. ASSUME NEW e \in Elems(s), e # s[i] PROVE e \in Elems(t)
    <3>1. PICK j \in 1..m : e = s[j]
      BY DEF Elems, m
    <3>2. e = t[j]
      BY <1>2, <2>2, <3>1
    <3> QED BY <1>7, <3>2 DEF Elems
  <2>3. x \in Elems(t)
    BY <1>1, <1>2, <1>7 DEF Elems
  <2> QED BY <2>1, <2>2, <2>3
<1>9. First(t) = IF i = 1 THEN x ELSE s[1]
  <2>1. 1 \in 1..m /\ t # <<>>
    BY <1>1, <1>7
  <2> QED BY <1>2, <2>1 DEF First
<1> QED BY <1>7, <1>8, <1>9 DEF RingOf, LeaderWith, t

\* cJSON_ReplaceItemViaPointer links the new item where the old one was.
LEMMA ReplaceLinks ==
    ASSUME NEW h \in [Node -> Cell], NEW a \in Node, NEW s, Ring(h, s), h[a].child = First(s),
           NEW i \in 1..Len(s), NEW x \in Node, x \notin Elems(s)
    PROVE  /\ Hung(h, Replace(h, a, s[i], x), Elems(s) \cup {x}, a, LeaderWith(s, i, x))
           /\ Replaces(Replace(h, a, s[i], x), s, i, x)
<1> DEFINE m == Len(s)
           y == s[i]
           g == Replace(h, a, y, x)
           next == IF i < m THEN s[i + 1] ELSE Null
           prev == IF i = 1 THEN s[m] ELSE s[i - 1]
           last == IF m = 1 THEN x ELSE prev
           C == Elems(s) \cup {x}
<1>1. /\ s \in Seq(Node) /\ m \in Nat /\ i \in 1..m /\ i \in Nat /\ \A j \in 1..m : s[j] \in Node
      /\ \A j, l \in 1..m : s[j] = s[l] => j = l
      /\ \A j \in 1..m : h[s[j]].next = IF j < m THEN s[j + 1] ELSE Null
      /\ \A j \in 1..m : h[s[j]].prev = IF j = 1 THEN s[m] ELSE s[j - 1]
      /\ \A j \in 1..m : s[j] \in Elems(s) /\ s[j] # x
  BY RingIs, ElemsOf
<1>2. 1 \in 1..m /\ m \in 1..m /\ Null \notin Node
  BY <1>1, NodesAre
<1>3. /\ h[a].child = s[1] /\ h[y].next = next /\ h[y].prev = prev
      /\ y \in Node /\ y \in Elems(s) /\ y # x
  <2>1. s # <<>>
    BY <1>1
  <2> QED BY <1>1, <2>1 DEF First
<1>4. /\ i # 1 => i - 1 \in 1..m /\ prev = s[i - 1] /\ i - 1 # i
      /\ i # m => i + 1 \in 1..m /\ next = s[i + 1] /\ i < m /\ i + 1 # i
      /\ i = m => next = Null /\ ~(i < m)
      /\ i = 1 => prev = s[m]
      /\ prev \in Node /\ prev \in Elems(s) /\ prev # x /\ prev # Null
      /\ i # m => next \in Node /\ next \in Elems(s) /\ next # Null /\ next # x /\ next # y
      /\ y = s[1] <=> i = 1
      /\ next \in Node \cup {Null}
      /\ i = 1 => (prev = y <=> m = 1)
      /\ i # 1 => prev # y
  <2>1. /\ i # 1 => i - 1 \in 1..m /\ prev = s[i - 1] /\ i - 1 # i
        /\ i # m => i + 1 \in 1..m /\ next = s[i + 1] /\ i < m /\ i + 1 # i
        /\ i = m => next = Null /\ ~(i < m)
        /\ i = 1 => prev = s[m]
    BY <1>1, <1>2
  <2> HIDE DEF prev, next
  <2>2. /\ i # 1 => prev \in Node /\ prev \in Elems(s) /\ prev # x /\ prev # y
        /\ i = 1 => prev \in Node /\ prev \in Elems(s) /\ prev # x /\ (prev = y <=> m = 1)
    BY <1>1, <1>2, <2>1
  <2>3. i # m => next \in Node /\ next \in Elems(s) /\ next # x /\ next # y
    BY <1>1, <2>1
  <2>4. y = s[1] <=> i = 1
    BY <1>1, <1>2
  <2> QED BY <1>2, <2>1, <2>2, <2>3, <2>4
<1>5. s[1] \in Node /\ s[1] \in Elems(s) /\ s[1] # x
  BY <1>1, <1>2
<1> DEFINE zero == [h EXCEPT ![x].next = next]
           one == [zero EXCEPT ![x].prev = prev]
           two == IF i = m THEN one ELSE [one EXCEPT ![next].prev = x]
           three == IF i = 1 THEN [two EXCEPT ![x].prev = last] ELSE [two EXCEPT ![prev].next = x]
           four == IF i = 1 THEN [three EXCEPT ![a].child = x]
                   ELSE IF i = m THEN [three EXCEPT ![s[1]].prev = x] ELSE three
<1>6. last \in Node
  BY <1>4
<1> HIDE DEF m, y, next, prev, C, last
<1>7. x \in C /\ y \in C /\ prev \in C /\ (i # m => next \in C) /\ s[1] \in C
  BY <1>3, <1>4, <1>5 DEF C
<1>8. NextSet(h, zero, x, next) /\ zero \in [Node -> Cell]
  <2>1. NextSet(h, zero, x, next)
    BY <1>4, FieldsSet
  <2> QED BY <2>1 DEF NextSet, SameBut
<1>9. PrevSet(zero, one, x, prev) /\ one \in [Node -> Cell]
  <2> HIDE DEF zero
  <2>1. PrevSet(zero, one, x, prev)
    BY <1>4, <1>8, FieldsSet
  <2> QED BY <2>1 DEF PrevSet, SameBut
<1>10. \/ i = m /\ two = one
       \/ i # m /\ PrevSet(one, two, next, x)
  <2> HIDE DEF one
  <2> QED BY <1>4, <1>9, FieldsSet
<1>11. two \in [Node -> Cell]
  <2> HIDE DEF one, two
  <2> QED BY <1>9, <1>10 DEF PrevSet, SameBut
<1>12. \/ i = 1 /\ PrevSet(two, three, x, last)
       \/ i # 1 /\ NextSet(two, three, prev, x)
  <2> HIDE DEF two
  <2> QED BY <1>4, <1>6, <1>11, FieldsSet
<1>13. three \in [Node -> Cell]
  <2> HIDE DEF two, three
  <2> QED BY <1>12 DEF PrevSet, NextSet, SameBut
<1>14. \/ i = 1 /\ ChildSet(three, four, a, x)
       \/ i # 1 /\ i = m /\ PrevSet(three, four, s[1], x)
       \/ i # 1 /\ i # m /\ four = three
  <2> HIDE DEF three
  <2> QED BY <1>5, <1>13, FieldsSet
<1>15. Within(h, four, C, a) /\ four \in [Node -> Cell]
  <2> HIDE DEF zero, one, two, three, four
  <2>1. Within(h, h, C, a)
    BY WithinSelf
  <2>2. Within(h, zero, C, a)
    BY <1>7, <1>8, <2>1, WithinSet
  <2>3. Within(h, one, C, a)
    BY <1>7, <1>9, <2>2, WithinSet
  <2>4. Within(h, two, C, a)
    BY <1>4, <1>7, <1>10, <2>3, WithinSet
  <2>5. Within(h, three, C, a)
    BY <1>4, <1>7, <1>12, <2>4, WithinSet
  <2>6. Within(h, four, C, a)
    BY <1>5, <1>7, <1>14, <2>5, WithinSet
  <2> QED BY <2>6 DEF Within, Alike
<1>16. /\ one[x].next = next /\ one[x].prev = prev /\ one[a].child = s[1]
       /\ \A n \in Node \ {x} : one[n].next = h[n].next /\ one[n].prev = h[n].prev
  <2> HIDE DEF zero, one
  <2>1. /\ zero[x].next = next /\ \A n \in Node \ {x} : zero[n].next = h[n].next
        /\ \A n \in Node : zero[n].prev = h[n].prev /\ zero[n].child = h[n].child
    BY <1>8 DEF NextSet, SameBut
  <2>2. /\ one[x].prev = prev /\ \A n \in Node \ {x} : one[n].prev = zero[n].prev
        /\ \A n \in Node : one[n].next = zero[n].next /\ one[n].child = zero[n].child
    BY <1>9 DEF PrevSet, SameBut
  <2> QED BY <1>3, <2>1, <2>2
<1>17. /\ two[x].next = next /\ two[x].prev = prev /\ two[a].child = s[1]
       /\ \A n \in Node \ {x} : /\ two[n].next = h[n].next
                                /\ two[n].prev = IF i # m /\ n = next THEN x ELSE h[n].prev
  <2> HIDE DEF one, two
  <2>1. CASE i = m /\ two = one
    BY <1>16, <2>1
  <2>2. CASE i # m /\ PrevSet(one, two, next, x)
    <3>1. /\ two[next].prev = x /\ \A n \in Node \ {next} : two[n].prev = one[n].prev
          /\ \A n \in Node : two[n].next = one[n].next /\ two[n].child = one[n].child
      BY <1>4, <2>2 DEF PrevSet, SameBut
    <3> QED BY <1>4, <1>16, <2>2, <3>1
  <2> QED BY <1>10, <2>1, <2>2
<1>18. /\ three[x].next = next /\ three[x].prev = (IF i = 1 THEN last ELSE prev)
       /\ three[a].child = s[1]
       /\ \A n \in Node \ {x} : /\ three[n].next = IF i # 1 /\ n = prev THEN x ELSE h[n].next
                                /\ three[n].prev = IF i # m /\ n = next THEN x ELSE h[n].prev
  <2> HIDE DEF two, three
  <2>1. CASE i = 1 /\ PrevSet(two, three, x, last)
    <3>1. /\ three[x].prev = last /\ \A n \in Node \ {x} : three[n].prev = two[n].prev
          /\ \A n \in Node : three[n].next = two[n].next /\ three[n].child = two[n].child
      BY <2>1 DEF PrevSet, SameBut
    <3> QED BY <1>17, <2>1, <3>1
  <2>2. CASE i # 1 /\ NextSet(two, three, prev, x)
    <3>1. /\ three[prev].next = x /\ \A n \in Node \ {prev} : three[n].next = two[n].next
          /\ \A n \in Node : three[n].prev = two[n].prev /\ three[n].child = two[n].child
      BY <1>4, <2>2 DEF NextSet, SameBut
    <3> QED BY <1>4, <1>17, <2>2, <3>1
  <2> QED BY <1>12, <2>1, <2>2
<1>19. /\ four[x].next = next /\ four[x].prev = (IF i = 1 THEN last ELSE prev)
       /\ four[a].child = IF i = 1 THEN x ELSE s[1]
       /\ \A n \in Node \ {x} : /\ four[n].next = IF i # 1 /\ n = prev THEN x ELSE h[n].next
                                /\ four[n].prev = IF i # 1 /\ i = m /\ n = s[1] THEN x
                                                  ELSE IF i # m /\ n = next THEN x ELSE h[n].prev
  <2> HIDE DEF three, four
  <2>1. CASE i = 1 /\ ChildSet(three, four, a, x)
    <3>1. /\ four[a].child = x
          /\ \A n \in Node : four[n].next = three[n].next /\ four[n].prev = three[n].prev
      BY <2>1 DEF ChildSet, SameBut
    <3> QED BY <1>18, <2>1, <3>1
  <2>2. CASE i # 1 /\ i = m /\ PrevSet(three, four, s[1], x)
    <3>1. /\ four[s[1]].prev = x /\ \A n \in Node \ {s[1]} : four[n].prev = three[n].prev
          /\ \A n \in Node : four[n].next = three[n].next /\ four[n].child = three[n].child
      BY <1>5, <2>2 DEF PrevSet, SameBut
    <3> QED BY <1>5, <1>18, <2>2, <3>1
  <2>3. CASE i # 1 /\ i # m /\ four = three
    BY <1>18, <2>3
  <2> QED BY <1>14, <2>1, <2>2, <2>3
<1>20. g = [four EXCEPT ![y].next = Null, ![y].prev = Null]
  <2> DEFINE h1 == [h EXCEPT ![x].next = h[y].next, ![x].prev = h[y].prev]
             h2 == IF h1[x].next = Null THEN h1 ELSE [h1 EXCEPT ![h1[x].next].prev = x]
             first == h2[a].child
             h4 == IF h2[x].prev = Null THEN h2 ELSE [h2 EXCEPT ![h2[x].prev].next = x]
             h3 == IF first = y
                   THEN [h2 EXCEPT ![x].prev = IF h2[first].prev = first THEN x ELSE @,
                                   ![a].child = x]
                   ELSE IF h4[x].next # Null THEN h4 ELSE [h4 EXCEPT ![first].prev = x]
  <2>1. g = [h3 EXCEPT ![y].next = Null, ![y].prev = Null]
    BY DEF Replace
  <2>2. h1 = one
    BY <1>3
  <2> HIDE DEF h1, one
  <2>3. h2 = IF one[x].next = Null THEN one ELSE [one EXCEPT ![one[x].next].prev = x]
    BY ONLY <2>2 DEF h2
  <2> HIDE DEF h2
  <2>4. h2 = two
    BY <1>4, <1>16, <2>3
  <2> HIDE DEF two
  <2>5. first = s[1] /\ h2[x].prev = prev /\ h2[x].next = next
    BY <1>17, <2>4
  <2> HIDE DEF first
  <2>6. CASE i = 1
    <3>1. first = y
      BY <1>4, <2>5, <2>6
    <3>2. h3 = [h2 EXCEPT ![x].prev = IF h2[y].prev = y THEN x ELSE h2[x].prev, ![a].child = x]
      BY <3>1
    <3>3. two[y].prev = y <=> m = 1
      BY <1>3, <1>4, <1>17, <2>6
    <3>4. (IF h2[y].prev = y THEN x ELSE h2[x].prev) = last
      BY <2>4, <2>5, <3>3 DEF last
    <3>5. h3 = [[two EXCEPT ![x].prev = last] EXCEPT ![a].child = x]
      <4> HIDE DEF h3
      <4> DEFINE v == IF h2[y].prev = y THEN x ELSE h2[x].prev
      <4>1. h3 = [[h2 EXCEPT ![x].prev = v] EXCEPT ![a].child = x]
        BY <3>2
      <4>2. v = last
        BY <3>4
      <4> HIDE DEF v
      <4> QED BY ONLY <2>4, <4>1, <4>2
    <3>6. h3 = four
      <4> HIDE DEF h3
      <4> QED BY <2>6, <3>5
    <3> HIDE DEF h3, four, g
    <3> QED BY ONLY <2>1, <3>6
  <2>7. CASE i # 1
    <3>1. first # y /\ h2[x].prev # Null
      BY <1>4, <2>5, <2>7
    <3>2. h4 = [two EXCEPT ![prev].next = x]
      BY <2>4, <2>5, <3>1
    <3> HIDE DEF h4
    <3>3. h4 = three
      BY <2>7, <3>2
    <3> HIDE DEF three
    <3>4. h4[x].next = next
      BY <1>18, <3>3
    <3>5. h3 = IF next # Null THEN three ELSE [three EXCEPT ![s[1]].prev = x]
      BY <2>5, <3>1, <3>3, <3>4
    <3> HIDE DEF h3
    <3>6. h3 = four
      BY <1>4, <2>7, <3>5
    <3> HIDE DEF four, g
    <3> QED BY ONLY <2>1, <3>6
  <2> QED BY <2>6, <2>7
<1> HIDE DEF zero, one, two, three, four, g
<1>21. CutOff(four, g, y)
  BY <1>3, <1>15, <1>20, CutOffBy
<1>22. Within(h, g, C, a)
  BY <1>3, <1>7, <1>15, <1>21, WithinCut
<1>23. /\ g[y].next = Null /\ g[a].child = four[a].child
       /\ \A n \in Node \ {y} : g[n].next = four[n].next /\ g[n].prev = four[n].prev
  BY <1>3, <1>21 DEF CutOff, SameBut
<1>24. ASSUME NEW j \in 1..m, j # i
       PROVE  /\ g[s[j]].next = IF j = i - 1 THEN x ELSE IF j < m THEN s[j + 1] ELSE Null
              /\ g[s[j]].prev = IF j = i + 1 THEN x
                                ELSE IF j # 1 THEN s[j - 1] ELSE IF i = m THEN x ELSE s[m]
  <2>1. s[j] \in Node \ {x} /\ s[j] # y
    BY <1>1, <1>24 DEF y
  <2>2. i # 1 /\ s[j] = prev <=> j = i - 1
    BY <1>1, <1>4, <1>24
  <2>3. i # m /\ s[j] = next <=> j = i + 1
    <3>1. i # m => i + 1 \in 1..m /\ next = s[i + 1]
      BY <1>4
    <3>2. j = i + 1 => i # m
      BY <1>1, <1>24
    <3> QED BY ONLY <1>1, <1>24, <3>1, <3>2
  <2>4. s[j] = s[1] <=> j = 1
    BY <1>1, <1>2
  <2>5. g[s[j]].next = IF j = i - 1 THEN x ELSE h[s[j]].next
    BY <1>19, <1>23, <2>1, <2>2
  <2>6. g[s[j]].prev = IF i # 1 /\ i = m /\ j = 1 THEN x
                       ELSE IF j = i + 1 THEN x ELSE h[s[j]].prev
    BY <1>19, <1>23, <2>1, <2>3, <2>4
  <2>7. (i = m => j # i + 1 /\ (j = 1 => i # 1)) /\ (j = i + 1 => j # 1)
    BY <1>1, <1>24
  <2> QED BY <1>1, <2>5, <2>6, <2>7
<1>25. /\ g[x].next = next
       /\ g[x].prev = IF i # 1 THEN s[i - 1] ELSE IF m = 1 THEN x ELSE s[m]
  <2>1. x \in Node \ {y}
    BY <1>3
  <2>2. g[x].next = next /\ g[x].prev = IF i = 1 THEN last ELSE prev
    BY <1>19, <1>23, <2>1
  <2> QED BY <1>4, <2>2 DEF last
<1>26. Replaces(g, s, i, x)
  BY <1>23, <1>24, <1>25 DEF Replaces, m, next, y
<1> QED BY <1>19, <1>22, <1>23, <1>26 DEF Hung, LeaderWith, g, y, C

-----------------------------------------------------------------------------
(* What this does to all the lists                                         *)

\* What is written to within C is written to within any set round C.
LEMMA WithinMore ==
    ASSUME NEW h, NEW g, NEW C, NEW k, Within(h, g, C, k), NEW D, C \subseteq D
    PROVE  Within(h, g, D, k)
BY DEF Within

\* The list of an item changes to t, and the first of t knows the last.
LEMMA Rehung ==
    ASSUME NEW h, NEW al, NEW R, NEW L, Good(h, al, R, L, {}),
           NEW a \in al, ~h[a].isReference, NEW g, NEW C, Within(h, g, C, a),
           C \subseteq Elems(L[a]) \cup R, NEW t, Ring(g, t), g[a].child = First(t),
           NEW S, Elems(t) \cup S = Elems(L[a]) \cup R, Elems(t) \cap S = {},
           \A n \in S : g[n].next = Null
    PROVE  Becomes(h, g, al, S, [L EXCEPT ![a] = t], {})
<1>1. a \in Node /\ a \in Nat
  BY GoodIs, NodesAre
<1>2. Within(h, g, Elems(L[a]) \cup R, a)
  BY WithinMore
<1>3. IsList(g, t) /\ (t # <<>> => g[t[1]].prev = Final(t))
  BY DEF Ring
<1>4. {} \ {a} \subseteq {}
  OBVIOUS
<1>5. Good(g, al, S, [L EXCEPT ![a] = t], {})
  BY <1>1, <1>2, <1>3, <1>4, Relisted
<1> QED BY <1>2, <1>5 DEF Becomes, Within

\* cJSON_DetachItemViaPointer makes an item a root.
LEMMA Detached ==
    ASSUME NEW h, NEW al, NEW R, NEW L, Good(h, al, R, L, {}),
           NEW a \in al, ~h[a].isReference, NEW i \in 1..Len(L[a])
    PROVE  Becomes(h, Detach(h, a, L[a][i]), al, R \cup {L[a][i]},
                   [L EXCEPT ![a] = Without(L[a], i)], {})
<1> DEFINE s == L[a]
           x == s[i]
           g == Detach(h, a, x)
           t == Without(s, i)
<1>1. /\ Ring(h, s) /\ h[a].child = First(s) /\ a \in Node /\ s \in Seq(Node) /\ h \in [Node -> Cell]
      /\ \A j, l \in 1..Len(s) : s[j] = s[l] => j = l
      /\ \A n \in R : h[n].next = Null
      /\ Elems(s) \subseteq al \ R /\ R \subseteq Node /\ i \in 1..Len(s)
  BY ChildrenRing
<1>2. x \in Elems(s)
  BY ElemsOf
<1> HIDE DEF g, s
<1>3. Hung(h, g, Elems(s), a, LeaderWithout(s, i)) /\ Unlinks(g, s, i)
  BY <1>1, DetachLinks DEF g
<1>4. RingOf(g, t, Elems(s) \ {x}, LeaderWithout(s, i))
  BY ONLY <1>1, <1>3, RingWithout DEF t, x
<1> HIDE DEF t, x
<1>5. \A n \in R \cup {x} : g[n].next = Null
  <2>1. g[x].next = Null
    BY <1>3 DEF Unlinks, x
  <2> QED BY <1>1, <1>3, <2>1 DEF Within, Hung
<1>6. /\ Elems(t) \cup (R \cup {x}) = Elems(s) \cup R /\ Elems(t) \cap (R \cup {x}) = {}
      /\ Elems(s) \subseteq Elems(s) \cup R /\ g[a].child = First(t)
  BY <1>1, <1>2, <1>3, <1>4 DEF RingOf, Hung
<1>7. Becomes(h, g, al, R \cup {x}, [L EXCEPT ![a] = t], {})
  BY <1>3, <1>4, <1>5, <1>6, Rehung DEF RingOf, Hung, s
<1> QED BY <1>7 DEF g, t, x, s

\* cJSON_InsertItemInArray puts a root before an item.
LEMMA Inserted ==
    ASSUME NEW h, NEW al, NEW R, NEW L, Good(h, al, R, L, {}),
           NEW a \in al, ~h[a].isReference, NEW i \in 1..Len(L[a]), NEW x \in R
    PROVE  Becomes(h, InsertBefore(h, a, L[a][i], x), al, R \ {x},
                   [L EXCEPT ![a] = With(L[a], i, x)], {})
<1> DEFINE s == L[a]
           g == InsertBefore(h, a, s[i], x)
           t == With(s, i, x)
<1>1. /\ Ring(h, s) /\ h[a].child = First(s) /\ a \in Node /\ s \in Seq(Node) /\ h \in [Node -> Cell]
      /\ \A j, l \in 1..Len(s) : s[j] = s[l] => j = l
      /\ \A n \in R : h[n].next = Null
      /\ Elems(s) \subseteq al \ R /\ R \subseteq Node /\ x \in Node /\ i \in 1..Len(s)
  BY ChildrenRing
<1>2. x \notin Elems(s)
  BY <1>1
<1> HIDE DEF g, s
<1>3. Hung(h, g, Elems(s) \cup {x}, a, LeaderWith(s, i, x)) /\ Inserts(g, s, i, x)
  BY ONLY <1>1, <1>2, InsertLinks DEF g
<1>4. RingOf(g, t, Elems(s) \cup {x}, LeaderWith(s, i, x))
  BY ONLY <1>1, <1>2, <1>3, RingWith DEF t
<1> HIDE DEF t
<1>5. \A n \in R \ {x} : g[n].next = Null
  BY <1>1, <1>3 DEF Within, Hung
<1>6. /\ Elems(t) \cup (R \ {x}) = Elems(s) \cup R /\ Elems(t) \cap (R \ {x}) = {}
      /\ Elems(s) \cup {x} \subseteq Elems(s) \cup R /\ g[a].child = First(t)
  BY <1>1, <1>2, <1>3, <1>4 DEF RingOf, Hung
<1>7. Becomes(h, g, al, R \ {x}, [L EXCEPT ![a] = t], {})
  BY <1>3, <1>4, <1>5, <1>6, Rehung DEF RingOf, Hung, s
<1> QED BY <1>7 DEF g, t, s

\* cJSON_ReplaceItemViaPointer puts a root where an item was, and the item is
\* a root then.
LEMMA Replaced ==
    ASSUME NEW h, NEW al, NEW R, NEW L, Good(h, al, R, L, {}),
           NEW a \in al, ~h[a].isReference, NEW i \in 1..Len(L[a]), NEW x \in R
    PROVE  Becomes(h, Replace(h, a, L[a][i], x), al, (R \ {x}) \cup {L[a][i]},
                   [L EXCEPT ![a] = [L[a] EXCEPT ![i] = x]], {})
<1> DEFINE s == L[a]
           y == s[i]
           g == Replace(h, a, y, x)
           t == [s EXCEPT ![i] = x]
           S == (R \ {x}) \cup {y}
<1>1. /\ Ring(h, s) /\ h[a].child = First(s) /\ a \in Node /\ s \in Seq(Node) /\ h \in [Node -> Cell]
      /\ \A j, l \in 1..Len(s) : s[j] = s[l] => j = l
      /\ \A n \in R : h[n].next = Null
      /\ Elems(s) \subseteq al \ R /\ R \subseteq Node /\ x \in Node /\ i \in 1..Len(s)
  BY ChildrenRing
<1>2. x \notin Elems(s) /\ y \in Elems(s)
  BY <1>1, ElemsOf
<1> HIDE DEF g, s
<1>3. Hung(h, g, Elems(s) \cup {x}, a, LeaderWith(s, i, x)) /\ Replaces(g, s, i, x)
  BY ONLY <1>1, <1>2, ReplaceLinks DEF g, y
<1>4. RingOf(g, t, (Elems(s) \ {y}) \cup {x}, LeaderWith(s, i, x))
  BY ONLY <1>1, <1>2, <1>3, RingReplaced DEF t, y
<1> HIDE DEF t, y
<1>5. \A n \in S : g[n].next = Null
  <2>1. g[y].next = Null
    BY <1>3 DEF Replaces, y
  <2> QED BY <1>1, <1>3, <2>1 DEF Within, Hung
<1>6. /\ Elems(t) \cup S = Elems(s) \cup R /\ Elems(t) \cap S = {}
      /\ Elems(s) \cup {x} \subseteq Elems(s) \cup R /\ g[a].child = First(t)
  BY <1>1, <1>2, <1>3, <1>4 DEF RingOf, Hung
<1> HIDE DEF S
<1>7. Becomes(h, g, al, S, [L EXCEPT ![a] = t], {})
  BY <1>3, <1>4, <1>5, <1>6, Rehung DEF RingOf, Hung, s
<1> QED BY <1>7 DEF g, t, y, s, S

-----------------------------------------------------------------------------
(* Cells are allocated and freed                                           *)

\* A free cell becomes a root without children.
LEMMA Allocated ==
    ASSUME NEW h, NEW al, NEW R, NEW L, NEW O, Good(h, al, R, L, O), NEW n \in Node \ al
    PROVE  Good(h, al \cup {n}, R \cup {n}, L, O)
<1>1. h[n] = Zeroed /\ h[n].next = Null /\ h[n].child = Null /\ ~h[n].isReference
  BY ZeroedIs DEF Good, Heap
<1>2. L[n] = <<>> /\ First(<<>>) = Null
  BY DEF Good, Owns, First
<1>3. Heap(h, al \cup {n}, R \cup {n})
  BY <1>1 DEF Good, Heap
<1>4. Lists(h, al \cup {n}, R \cup {n}, L)
  BY DEF Good, Lists
<1>5. Held(al \cup {n}, R \cup {n}, L)
  BY DEF Good, Held
<1>6. Owns(h, al \cup {n}, L, O)
  <2>1. ASSUME NEW m \in Node
        PROVE  IF m \in al \cup {n} /\ ~h[m].isReference
               THEN /\ h[m].child = First(L[m])
                    /\ m \notin O /\ L[m] # <<>> => h[L[m][1]].prev = Final(L[m])
               ELSE L[m] = <<>>
    <3>1. CASE m = n
      BY <1>1, <1>2, <3>1
    <3>2. CASE m # n
      BY <3>2 DEF Good, Owns
    <3> QED BY <3>1, <3>2
  <2> QED BY <2>1 DEF Owns
<1> QED BY <1>3, <1>4, <1>5, <1>6 DEF Good

\* Only names, and the flags of names, may differ, and of allocated cells.
LEMMA Marked ==
    ASSUME NEW h, NEW al, NEW R, NEW L, NEW O, Good(h, al, R, L, O), NEW g \in [Node -> Cell],
           \A n \in Node : /\ g[n].next = h[n].next /\ g[n].prev = h[n].prev
                           /\ g[n].child = h[n].child /\ g[n].isReference = h[n].isReference,
           \A n \in Node \ al : g[n] = h[n]
    PROVE  Good(g, al, R, L, O)
<1>1. Heap(g, al, R)
  BY DEF Good, Heap
<1>2. /\ \A k \in Nat : IsList(h, L[k]) /\ Elems(L[k]) \subseteq Node
      /\ L \in [Nat -> Seq(Node)]
  BY DEF Good, Heap, Lists
<1>3. \A k \in Nat : IsList(g, L[k])
  BY <1>2, SameList
<1>4. Lists(g, al, R, L)
  BY <1>3 DEF Good, Lists
<1>5. \A n \in Node : L[n] # <<>> => L[n][1] \in Node
  <2>1. \A n \in Node : L[n] \in Seq(Node)
    BY <1>2, NodesAre
  <2> QED BY <2>1
<1>6. Owns(g, al, L, O)
  BY <1>5 DEF Good, Owns
<1> QED BY <1>1, <1>4, <1>6 DEF Good

\* A root without children gets other contents, but no children of its own.
LEMMA Filled ==
    ASSUME NEW h, NEW al, NEW R, NEW L, NEW O, Good(h, al, R, L, O), NEW g, NEW x \in R,
           SameBut(h, g, x), L[x] = <<>>, g[x].next = Null, g[x].isReference \/ g[x].child = Null
    PROVE  Good(g, al, R, L, O)
<1>1. x \in al /\ x \in Node /\ g \in [Node -> Cell] /\ \A n \in Node \ {x} : g[n] = h[n]
  BY DEF Good, Heap, SameBut
<1>2. Heap(g, al, R)
  BY <1>1 DEF Good, Heap
<1>3. \A k \in Nat : IsList(h, L[k]) /\ Elems(L[k]) \subseteq al \ R /\ Elems(L[k]) \subseteq Node
  BY DEF Good, Heap, Lists
<1>4. ASSUME NEW k \in Nat PROVE IsList(g, L[k]) /\ \A n \in Elems(L[k]) : g[n] = h[n]
  <2>1. \A n \in Elems(L[k]) : g[n] = h[n]
    BY <1>1, <1>3
  <2> QED BY <1>3, <2>1, SameList
<1>5. Lists(g, al, R, L)
  BY <1>4 DEF Good, Lists
<1>6. \A n \in Node : L[n] # <<>> => g[L[n][1]] = h[L[n][1]]
  <2>1. \A n \in Node : n \in Nat /\ L[n] \in Seq(Node)
    BY NodesAre DEF Good, Lists
  <2>2. \A n \in Node : L[n] # <<>> => L[n][1] \in Elems(L[n])
    BY <2>1, ElemsTyped
  <2> QED BY <1>4, <2>1, <2>2
<1>7. Owns(g, al, L, O)
  <2>1. First(<<>>) = Null
    BY DEF First
  <2>2. ASSUME NEW m \in Node
        PROVE  IF m \in al /\ ~g[m].isReference
               THEN /\ g[m].child = First(L[m])
                    /\ m \notin O /\ L[m] # <<>> => g[L[m][1]].prev = Final(L[m])
               ELSE L[m] = <<>>
    <3>1. CASE m = x
      BY <1>1, <2>1, <3>1
    <3>2. CASE m # x
      BY <1>1, <1>6, <3>2 DEF Good, Owns
    <3> QED BY <3>1, <3>2
  <2> QED BY <2>2 DEF Owns
<1> QED BY <1>2, <1>5, <1>7 DEF Good

\* The list of a running call becomes the children of an item.
LEMMA Moved ==
    ASSUME NEW h, NEW al, NEW R, NEW L, NEW O, Good(h, al, R, L, O), NEW g, NEW Q,
           NEW k \in Nat \ Node, NEW a \in al, ~h[a].isReference, L[a] = <<>>,
           Within(h, g, {First(L[k])}, a), \A n \in Node : g[n].next = h[n].next,
           g[a].child = First(L[k]), O \ {a} \subseteq Q,
           a \notin Q /\ L[k] # <<>> => g[First(L[k])].prev = Final(L[k])
    PROVE  Good(g, al, R, [L EXCEPT ![k] = <<>>, ![a] = L[k]], Q)
<1> DEFINE s == L[k]
           M == [L EXCEPT ![k] = <<>>, ![a] = L[k]]
<1>1. /\ h \in [Node -> Cell] /\ al \subseteq Node /\ R \subseteq al
      /\ \A n \in Node \ al : h[n] = Zeroed
      /\ \A n \in R : h[n].next = Null
  BY DEF Good, Heap
<1>2. /\ L \in [Nat -> Seq(Node)]
      /\ \A l \in Nat : IsList(h, L[l]) /\ Elems(L[l]) \subseteq al \ R
  BY DEF Good, Lists
<1>3. \A l, m \in Nat : l # m => Elems(L[l]) \cap Elems(L[m]) = {}
  BY DEF Good, Apart
<1>4. a \in Node /\ a \in Nat /\ k \in Nat /\ k # a /\ s \in Seq(Node)
  BY <1>1, <1>2, NodesAre
<1>5. /\ M \in [Nat -> Seq(Node)] /\ M[k] = <<>> /\ M[a] = s
      /\ \A l \in Nat \ {k, a} : M[l] = L[l]
  BY <1>2, <1>4
<1> HIDE DEF M
<1>6. g \in [Node -> Cell] /\ \A n \in Node : Keeps(h, g, n)
  BY DEF Within, Alike
<1>7. Heap(g, al, R)
  <2>1. ASSUME NEW n \in Node \ al PROVE g[n] = Zeroed
    <3>1. n # a /\ n # First(s)
      <4>1. s # <<>> => First(s) \in al
        BY <1>2, <1>4, ElemsTyped
      <4>2. s = <<>> => First(s) = Null
        BY DEF First
      <4> QED BY <2>1, <4>1, <4>2, NodesAre
    <3>2. /\ g[n].next = h[n].next /\ g[n].prev = h[n].prev /\ g[n].child = h[n].child
          /\ Keeps(h, g, n) /\ g[n] \in Cell /\ h[n] \in Cell
      BY <1>1, <1>6, <3>1 DEF Within
    <3>3. g[n] = h[n]
      BY <3>2, CellIs DEF Keeps
    <3> QED BY <1>1, <3>3
  <2> QED BY <1>1, <1>6, <2>1 DEF Heap
<1>8. ASSUME NEW l \in Nat, l # k
      PROVE  /\ IsList(g, L[l])
             /\ L[l] # <<>> => g[L[l][1]].prev = h[L[l][1]].prev
  <2>1. \A n \in Elems(L[l]) : n \in Node /\ n # First(s)
    <3>1. s # <<>> => First(s) \in Elems(s)
      BY <1>4, ElemsTyped
    <3>2. s = <<>> => First(s) = Null
      BY DEF First
    <3> QED BY <1>1, <1>2, <1>3, <1>8, <3>1, <3>2, NodesAre
  <2>2. \A n \in Elems(L[l]) : g[n].next = h[n].next /\ g[n].prev = h[n].prev
    BY <2>1 DEF Within
  <2>3. IsList(g, L[l])
    BY <1>2, <2>2, SameList
  <2>4. L[l] # <<>> => L[l][1] \in Elems(L[l])
    BY <1>2, ElemsTyped
  <2> QED BY <2>2, <2>3, <2>4
<1>9. IsList(g, s)
  <2>1. \A i \in 1..Len(s) : s[i] \in Node
    BY <1>4
  <2>2. \A i \in 2..Len(s) : i \in 1..Len(s) /\ s[i] # First(s)
    <3>1. \A i \in 2..Len(s) : i \in 1..Len(s) /\ 1 \in 1..Len(s) /\ i # 1 /\ s # <<>>
      BY <1>4
    <3>2. \A i, j \in 1..Len(s) : s[i] = s[j] => i = j
      BY <1>2 DEF IsList
    <3> QED BY <3>1, <3>2 DEF First
  <2>3. IsList(h, s)
    BY <1>2
  <2> HIDE DEF s
  <2> QED BY <2>1, <2>2, <2>3 DEF IsList, Within, s
<1>10. IsList(g, <<>>) /\ Elems(<<>>) = {}
  BY DEF IsList, Elems
<1>11. Lists(g, al, R, M)
  <2>1. ASSUME NEW l \in Nat PROVE IsList(g, M[l]) /\ Elems(M[l]) \subseteq al \ R
    <3>1. CASE l = k
      BY <1>5, <1>10, <3>1
    <3>2. CASE l = a
      BY <1>2, <1>4, <1>5, <1>9, <3>2
    <3>3. CASE l \in Nat \ {k, a}
      BY <1>2, <1>5, <1>8, <3>3
    <3> QED BY <3>1, <3>2, <3>3
  <2> QED BY <1>5, <2>1 DEF Lists
<1>12. Apart(M)
  <2>1. Elems(M[k]) = {} /\ Elems(M[a]) = Elems(L[k])
    BY <1>5, <1>10
  <2>2. \A l \in Nat \ {k, a} : Elems(M[l]) = Elems(L[l])
    BY <1>5
  <2> QED BY <1>3, <1>4, <2>1, <2>2 DEF Apart
<1>13. Held(al, R, M)
  <2>1. ASSUME NEW n \in al \ R PROVE \E l \in Nat : n \in Elems(M[l])
    <3>1. PICK l \in Nat : n \in Elems(L[l])
      BY DEF Good, Held
    <3>2. l # a
      BY <1>10, <3>1
    <3>3. CASE l = k
      BY <1>4, <1>5, <3>1, <3>3
    <3>4. CASE l # k
      BY <1>5, <3>1, <3>2, <3>4
    <3> QED BY <3>3, <3>4
  <2> QED BY <2>1 DEF Held
<1>14. Owns(g, al, M, Q)
  <2>1. ASSUME NEW n \in Node
        PROVE  IF n \in al /\ ~g[n].isReference
               THEN /\ g[n].child = First(M[n])
                    /\ n \notin Q /\ M[n] # <<>> => g[M[n][1]].prev = Final(M[n])
               ELSE M[n] = <<>>
    <3>1. g[n].isReference = h[n].isReference
      BY <1>6 DEF Keeps
    <3>2. CASE n = a
      <4>1. s # <<>> => First(s) = s[1]
        BY DEF First
      <4> QED BY <1>5, <3>1, <3>2, <4>1
    <3>3. CASE n # a
      <4>1. n \in Nat /\ n # k /\ M[n] = L[n] /\ g[n].child = h[n].child
        BY <1>5, <3>3, NodesAre DEF Within
      <4>2. n \notin Q => n \notin O
        BY <3>3
      <4> QED BY <1>8, <3>1, <4>1, <4>2 DEF Good, Owns
    <3> QED BY <3>2, <3>3
  <2> QED BY <2>1 DEF Owns
<1> QED BY <1>7, <1>11, <1>12, <1>13, <1>14 DEF Good, M

\* The list without items.
LEMMA EmptyList ==
    \A h : IsList(h, <<>>) /\ Elems(<<>>) = {} /\ First(<<>>) = Null /\ Final(<<>>) = Null
<1>1. Elems(<<>>) = {} /\ First(<<>>) = Null /\ Final(<<>>) = Null
  BY DEF Elems, First, Final
<1>2. ASSUME NEW h PROVE IsList(h, <<>>)
  BY DEF IsList
<1> QED BY <1>1, <1>2

\* What leads on from the first item of a list leads through the list.
LEMMA Walks ==
    ASSUME NEW h, NEW s, IsList(h, s), NEW P, NEW D, Closed(h, P, D), First(s) \in D
    PROVE  Elems(s) \subseteq D
<1>1. /\ s \in Seq(Node) /\ Len(s) \in Nat /\ \A i \in 1..Len(s) : s[i] \in Node
      /\ \A i \in 1..Len(s) : h[s[i]].next = IF i < Len(s) THEN s[i + 1] ELSE Null
  BY DEF IsList
<1> DEFINE Seen == {i \in 0..Len(s) : i # 0 => s[i] \in D}
<1>2. 0 \in Seen
  BY <1>1
<1>3. ASSUME NEW i \in 1..Len(s), i - 1 \in Seen PROVE i \in Seen
  <2>1. i \in 0..Len(s)
    BY <1>1
  <2>2. CASE i = 1
    <3>1. s # <<>>
      BY <1>1, <2>2
    <3> QED BY <1>1, <2>1, <2>2, <3>1 DEF First
  <2>3. CASE i # 1
    <3>1. i - 1 \in 1..Len(s) /\ i - 1 < Len(s) /\ (i - 1) + 1 = i /\ i - 1 # 0
      BY <1>1, <2>3
    <3>2. h[s[i - 1]].next = s[i] /\ s[i - 1] \in D /\ s[i] \in Node
      BY <1>1, <1>3, <3>1
    <3> QED BY <2>1, <3>2, NodesAre DEF Closed
  <2> QED BY <2>2, <2>3
<1>4. \A i \in 0..Len(s) : i \in Seen
  <2> HIDE DEF Seen
  <2> QED BY <1>1, <1>2, <1>3, Induction
<1>5. \A i \in 1..Len(s) : i \in 0..Len(s) /\ i # 0
  BY <1>1
<1> QED BY <1>4, <1>5 DEF Elems

\* The lists of the places P, and all that is below them.
Grove(L, D, P) ==
    /\ D \subseteq Node
    /\ \A k \in P : Elems(L[k]) \subseteq D
    /\ \A m \in D : Elems(L[m]) \subseteq D
    /\ \A y \in D : \E k \in P \cup D : y \in Elems(L[k])

\* cJSON_Delete frees a list and what is below it.
LEMMA FreedList ==
    ASSUME NEW h, NEW al, NEW R, NEW L, NEW O, Good(h, al, R, L, O),
           NEW k \in Nat, L[k] # <<>>
    PROVE  Grove(L, Freed(h, First(L[k])), {k})
<1> DEFINE n == First(L[k])
           P == {m \in Node : ~h[m].isReference}
           D == Freed(h, n)
<1>1. /\ h \in [Node -> Cell] /\ al \subseteq Node
      /\ \A l \in Nat : IsList(h, L[l]) /\ L[l] \in Seq(Node)
  BY DEF Good, Heap, Lists
<1>2. n \in Node /\ n \in Elems(L[k])
  BY <1>1, ElemsTyped
<1>3. /\ D \subseteq Node /\ n \in D /\ Closed(h, P, D)
      /\ \A T : n \in T /\ Closed(h, P, T) => D \subseteq T
  <2>1. D = Following(h, n, P)
    BY DEF Freed
  <2> HIDE DEF D, P, n
  <2> QED BY <1>1, <1>2, <2>1, FollowingIs
<1>4. \A m \in Node : L[m] # <<>> =>
          m \in al /\ m \in P /\ h[m].child = First(L[m]) /\ First(L[m]) \in Elems(L[m])
  <2>1. \A m \in Node : L[m] \in Seq(Node)
    BY <1>1, NodesAre
  <2> QED BY <2>1, ElemsTyped DEF Good, Owns
<1>5. \A m \in P : h[m].child # Null => L[m] # <<>>
  <2>1. ASSUME NEW m \in P, h[m].child # Null PROVE L[m] # <<>>
    <3>1. m \in al
      BY <2>1, ZeroedIs DEF Good, Heap
    <3> QED BY <2>1, <3>1 DEF Good, Owns, First
  <2> QED BY <2>1
<1> HIDE DEF D, n, P
<1>6. Elems(L[k]) \subseteq D
  BY <1>1, <1>3, Walks DEF n
<1>7. ASSUME NEW m \in D PROVE Elems(L[m]) \subseteq D
  <2>1. m \in Node /\ m \in Nat
    BY <1>3, NodesAre
  <2>2. CASE L[m] = <<>>
    BY <1>1, <2>1, <2>2, ElemsTyped
  <2>3. CASE L[m] # <<>>
    <3>1. m \in P /\ h[m].child = First(L[m]) /\ First(L[m]) \in Node
      BY <1>1, <1>4, <2>1, <2>3, ElemsTyped
    <3>2. First(L[m]) \in D
      BY <1>3, <3>1, NodesAre DEF Closed
    <3> QED BY <1>1, <1>3, <2>1, <3>2, Walks
  <2> QED BY <2>2, <2>3
<1> DEFINE T == {y \in D : \E l \in {k} \cup D : y \in Elems(L[l])}
<1>8. n \in T
  BY <1>2, <1>3
<1>9. Closed(h, P, T)
  <2>1. ASSUME NEW m \in T, h[m].next # Null PROVE h[m].next \in T
    <3>1. PICK l \in {k} \cup D : m \in Elems(L[l])
      OBVIOUS
    <3>2. l \in Nat
      BY <1>3, NodesAre
    <3>3. h[m].next \in Elems(L[l])
      <4>1. PICK i \in 1..Len(L[l]) : m = L[l][i]
        BY <3>1 DEF Elems
      <4>2. h[m].next = (IF i < Len(L[l]) THEN L[l][i + 1] ELSE Null) /\ Len(L[l]) \in Nat
        BY <1>1, <3>2, <4>1 DEF IsList
      <4>3. i < Len(L[l]) /\ i + 1 \in 1..Len(L[l]) /\ h[m].next = L[l][i + 1]
        BY <2>1, <4>2
      <4> QED BY <4>3 DEF Elems
    <3>4. h[m].next \in D
      BY <1>3, <2>1 DEF Closed
    <3> QED BY <3>3, <3>4
  <2>2. ASSUME NEW m \in T, m \in P, h[m].child # Null PROVE h[m].child \in T
    <3>1. m \in D /\ h[m].child \in D /\ m \in Node
      BY <1>3, <2>2 DEF Closed
    <3>2. h[m].child \in Elems(L[m])
      BY <1>4, <1>5, <2>2, <3>1
    <3> QED BY <3>1, <3>2
  <2> HIDE DEF T
  <2> QED BY <2>1, <2>2 DEF Closed
<1>10. D \subseteq T
  <2> HIDE DEF T
  <2> QED BY <1>3, <1>8, <1>9
<1>11. \A y \in D : \E l \in {k} \cup D : y \in Elems(L[l])
  BY <1>10
<1> QED BY <1>3, <1>6, <1>7, <1>11 DEF Grove, D, n

\* Several lists are freed.
LEMMA FreedLists ==
    ASSUME NEW h, NEW al, NEW R, NEW L, NEW O, Good(h, al, R, L, O),
           NEW P \in SUBSET Nat,
           NEW D, D = UNION {Freed(h, First(L[k])) : k \in {l \in P : L[l] # <<>>}}
    PROVE  Grove(L, D, P)
<1>1. \A k \in P : L[k] # <<>> => Grove(L, Freed(h, First(L[k])), {k}) /\ Freed(h, First(L[k])) \subseteq D
  BY FreedList
<1>2. \A k \in P : L[k] = <<>> => Elems(L[k]) = {}
  BY ElemsTyped DEF Good, Lists
<1>3. \A y \in D : \E k \in P : L[k] # <<>> /\ y \in Freed(h, First(L[k]))
  OBVIOUS
<1>4. D \subseteq Node
  BY <1>1, <1>3 DEF Grove
<1>5. \A k \in P : Elems(L[k]) \subseteq D
  BY <1>1, <1>2 DEF Grove
<1>6. \A m \in D : Elems(L[m]) \subseteq D
  BY <1>1, <1>3 DEF Grove
<1>7. ASSUME NEW y \in D PROVE \E k \in P \cup D : y \in Elems(L[k])
  <2>1. PICK k \in P : L[k] # <<>> /\ y \in Freed(h, First(L[k]))
    BY <1>3
  <2>2. PICK l \in {k} \cup Freed(h, First(L[k])) : y \in Elems(L[l])
    BY <1>1, <2>1 DEF Grove
  <2> QED BY <1>1, <2>1, <2>2
<1> QED BY <1>4, <1>5, <1>6, <1>7 DEF Grove

\* Memory in which the cells of D are freed, and no list is left of the places K.
Cleared(h, D) == [n \in Node |-> IF n \in D THEN Zeroed ELSE h[n]]
Emptied(L, K) == [k \in Nat |-> IF k \in K THEN <<>> ELSE L[k]]

\* What is freed is in no other list, and the others stay as they are.
LEMMA Pruned ==
    ASSUME NEW h, NEW al, NEW R, NEW L, NEW O, Good(h, al, R, L, O),
           NEW P, P \subseteq Nat \ Node, NEW D, Grove(L, D, P)
    PROVE  Good(Cleared(h, D), al \ D, R, Emptied(L, P \cup D), O)
<1> DEFINE g == Cleared(h, D)
           M == Emptied(L, P \cup D)
<1>1. /\ h \in [Node -> Cell] /\ al \subseteq Node /\ R \subseteq al
      /\ \A n \in Node \ al : h[n] = Zeroed
      /\ \A n \in R : h[n].next = Null
  BY DEF Good, Heap
<1>2. /\ L \in [Nat -> Seq(Node)]
      /\ \A k \in Nat : IsList(h, L[k]) /\ Elems(L[k]) \subseteq al \ R
  BY DEF Good, Lists
<1>3. \A k, l \in Nat : k # l => Elems(L[k]) \cap Elems(L[l]) = {}
  BY DEF Good, Apart
<1>4. /\ D \subseteq Node /\ D \subseteq Nat /\ P \cup D \subseteq Nat
      /\ \A y \in D : \E k \in P \cup D : y \in Elems(L[k])
      /\ \A k \in P \cup D : Elems(L[k]) \subseteq D
  BY NodesAre DEF Grove
<1>5. R \cap D = {}
  BY <1>2, <1>4
<1>6. \A n \in Node \ D : g[n] = h[n]
  BY DEF Cleared
<1>7. \A n \in D : g[n] = Zeroed
  BY <1>4 DEF Cleared
<1>8. g \in [Node -> Cell]
  BY <1>1, ZeroedIs DEF Cleared
<1> HIDE DEF g
<1>9. Heap(g, al \ D, R)
  <2>1. R \subseteq al \ D
    BY <1>1, <1>5
  <2>2. \A n \in Node \ (al \ D) : g[n] = Zeroed
    BY <1>1, <1>6, <1>7
  <2>3. \A n \in R : g[n].next = Null
    BY <1>1, <1>5, <1>6
  <2> QED BY <1>1, <1>8, <2>1, <2>2, <2>3 DEF Heap
<1>10. /\ M \in [Nat -> Seq(Node)]
       /\ \A k \in P \cup D : M[k] = <<>>
       /\ \A k \in Nat \ (P \cup D) : M[k] = L[k]
  <2>1. <<>> \in Seq(Node)
    OBVIOUS
  <2> QED BY <1>2, <1>4, <2>1 DEF Emptied
<1> HIDE DEF M
<1>11. \A k \in Nat \ (P \cup D) : Elems(L[k]) \cap D = {}
  <2> SUFFICES ASSUME NEW k \in Nat \ (P \cup D), NEW y \in Elems(L[k]), y \in D PROVE FALSE
    OBVIOUS
  <2>1. PICK l \in P \cup D : y \in Elems(L[l])
    BY <1>4
  <2>2. l \in Nat /\ l # k
    BY <1>4, <2>1
  <2> QED BY <1>3, <2>1, <2>2
<1>12. ASSUME NEW k \in Nat \ (P \cup D)
       PROVE  IsList(g, L[k]) /\ Elems(L[k]) \subseteq (al \ D) \ R
  <2>1. \A n \in Elems(L[k]) : g[n] = h[n]
    BY <1>1, <1>2, <1>6, <1>11
  <2>2. IsList(g, L[k])
    BY <1>2, <2>1, SameList
  <2> QED BY <1>2, <1>11, <2>2
<1>13. IsList(g, <<>>) /\ Elems(<<>>) = {}
  BY EmptyList
<1>14. Lists(g, al \ D, R, M)
  <2>1. ASSUME NEW k \in Nat PROVE IsList(g, M[k]) /\ Elems(M[k]) \subseteq (al \ D) \ R
    <3>1. CASE k \in P \cup D
      BY <1>10, <1>13, <3>1
    <3>2. CASE k \notin P \cup D
      BY <1>10, <1>12, <3>2
    <3> QED BY <3>1, <3>2
  <2> QED BY <1>10, <2>1 DEF Lists
<1>15. Apart(M)
  <2>1. \A k \in Nat : Elems(M[k]) \subseteq Elems(L[k])
    BY <1>10, <1>13
  <2> QED BY <1>3, <2>1 DEF Apart
<1>16. Held(al \ D, R, M)
  <2>1. ASSUME NEW n \in (al \ D) \ R PROVE \E k \in Nat : n \in Elems(M[k])
    <3>1. PICK k \in Nat : n \in Elems(L[k])
      BY DEF Good, Held
    <3>2. k \notin P \cup D
      BY <1>4, <3>1
    <3> QED BY <1>10, <3>1, <3>2
  <2> QED BY <2>1 DEF Held
<1>17. Owns(g, al \ D, M, O)
  <2>1. ASSUME NEW n \in Node
        PROVE  IF n \in al \ D /\ ~g[n].isReference
               THEN /\ g[n].child = First(M[n])
                    /\ n \notin O /\ M[n] # <<>> => g[M[n][1]].prev = Final(M[n])
               ELSE M[n] = <<>>
    <3>1. CASE n \in D
      BY <1>10, <3>1
    <3>2. CASE n \notin D
      <4>1. n \in Nat \ (P \cup D) /\ M[n] = L[n] /\ g[n] = h[n]
        BY <1>6, <1>10, <3>2, NodesAre
      <4>2. L[n] # <<>> => g[L[n][1]] = h[L[n][1]]
        <5>1. L[n] # <<>> => L[n][1] \in Elems(L[n])
          BY <1>2, <4>1, ElemsTyped
        <5> QED BY <1>1, <1>2, <1>6, <1>11, <4>1, <5>1
      <4> QED BY <3>2, <4>1, <4>2 DEF Good, Owns
    <3> QED BY <3>1, <3>2
  <2> QED BY <2>1 DEF Owns
<1> QED BY <1>9, <1>14, <1>15, <1>16, <1>17 DEF Good, g, M

\* No call runs: every list is an item's.
Quiet(L) == \A k \in Nat \ Node : L[k] = <<>>

\* What a list of a running call holds becomes a root when the call returns.
LEMMA Returned ==
    ASSUME NEW h, NEW al, NEW R, NEW L, NEW O, Good(h, al, R, L, O),
           NEW k \in Nat \ Node, NEW x, L[k] = <<x>>
    PROVE  Good(h, al, R \cup {x}, [L EXCEPT ![k] = <<>>], O) /\ x \in al \ R
<1>1. /\ h \in [Node -> Cell] /\ al \subseteq Node /\ R \subseteq al
      /\ \A n \in R : h[n].next = Null
  BY DEF Good, Heap
<1>2. IsList(h, <<x>>) /\ Elems(<<x>>) \subseteq al \ R /\ k \in Nat
  BY DEF Good, Lists
<1>3. Elems(<<x>>) = {x} /\ h[x].next = Null
  <2>1. Len(<<x>>) = 1 /\ <<x>>[1] = x /\ \A i \in 1..1 : i = 1
    OBVIOUS
  <2> QED BY <1>2, <2>1 DEF Elems, IsList
<1> DEFINE S == R \cup {x}
<1>4. Within(h, h, Elems(L[k]) \cup R, k)
  BY <1>1, WithinSelf
<1>5. IsList(h, <<>>) /\ Elems(<<>>) = {}
  BY EmptyList
<1>6. Elems(<<>>) \cup S = Elems(L[k]) \cup R /\ Elems(<<>>) \cap S = {} /\ O \ {k} \subseteq O
  BY <1>3, <1>5
<1>7. \A n \in S : h[n].next = Null
  BY <1>1, <1>3
<1>8. k \notin Node
  OBVIOUS
<1> HIDE DEF S
<1>9. Good(h, al, S, [L EXCEPT ![k] = <<>>], O)
  BY <1>2, <1>4, <1>5, <1>6, <1>7, <1>8, Relisted
<1> QED BY <1>2, <1>3, <1>9 DEF S

\* An item whose list is empty, or which is freed, needs no exception.
LEMMA Settled ==
    ASSUME NEW h, NEW al, NEW R, NEW L, NEW O, Good(h, al, R, L, O), NEW Q,
           \A n \in O \ Q : n \in al => L[n] = <<>>
    PROVE  Good(h, al, R, L, Q)
<1>1. Owns(h, al, L, Q)
  BY DEF Good, Owns
<1> QED BY <1>1 DEF Good

\* A root is freed with all that is below it.
LEMMA RootFreed ==
    ASSUME NEW h, NEW al, NEW R, NEW L, NEW O, Good(h, al, R, L, O), Quiet(L),
           NEW x \in R, O \subseteq {x}
    PROVE  \E M : Good(Delete(h, x), al \ Freed(h, x), R \ {x}, M, {}) /\ Quiet(M)
<1> DEFINE k == MaxNodes + 1
           D == Freed(h, x)
<1>1. L \in [Nat -> Seq(Node)] /\ x \in Node
  BY DEF Good, Heap, Lists
<1>2. k \in Nat \ Node
  BY NodesAre DEF Node
<1> DEFINE L1 == [L EXCEPT ![k] = <<x>>]
           L2 == Emptied(L1, {k} \cup D)
<1>3. L[k] = <<>>
  BY <1>2 DEF Quiet
<1> HIDE DEF k
<1>4. O \ {k} \subseteq O /\ k \in Nat /\ k \notin Node
  BY <1>2
<1>5. Good(h, al, R \ {x}, L1, O)
  BY <1>1, <1>3, <1>4, Started
<1>6. L1[k] = <<x>> /\ <<x>> # <<>> /\ First(<<x>>) = x /\ x \in Elems(<<x>>)
  <2>1. L1[k] = <<x>> /\ <<x>> # <<>> /\ First(<<x>>) = x
    BY <1>1, <1>4 DEF First
  <2>2. Elems(<<x>>) = {x}
    BY <1>1, SingleList DEF Good, Heap
  <2> QED BY <2>1, <2>2
<1> HIDE DEF L1
<1>7. Grove(L1, D, {k})
  <2>1. Grove(L1, Freed(h, First(L1[k])), {k})
    BY <1>4, <1>5, <1>6, FreedList
  <2> QED BY <1>6, <2>1
<1>8. Delete(h, x) = Cleared(h, D)
  BY DEF Delete, Cleared
<1>9. Good(Delete(h, x), al \ D, R \ {x}, L2, O)
  <2>1. {k} \subseteq Nat \ Node
    BY <1>2
  <2> HIDE DEF D
  <2>2. Good(Cleared(h, D), al \ D, R \ {x}, Emptied(L1, {k} \cup D), O)
    BY <1>5, <1>7, <2>1, Pruned
  <2> QED BY <1>8, <2>2
<1>10. Quiet(L2)
  <2>1. \A l \in Nat \ Node : l # k => L1[l] = <<>>
    BY <1>1, <1>3 DEF Quiet, L1
  <2> QED BY <2>1 DEF Quiet, Emptied
<1>11. Good(Delete(h, x), al \ D, R \ {x}, L2, {})
  <2>1. x \in D
    BY <1>6, <1>7 DEF Grove
  <2>2. \A n \in O \ {} : n \in al \ D => L2[n] = <<>>
    BY <2>1
  <2> HIDE DEF L2, D
  <2> QED BY <1>9, <2>2, Settled
<1> QED BY <1>10, <1>11

\* A free cell becomes a root without children, whatever else it says.
LEMMA RootFilled ==
    ASSUME NEW h, NEW al, NEW R, NEW L, NEW O, Good(h, al, R, L, O), NEW n \in Node \ al,
           NEW c \in Cell, c.next = Null, c.isReference \/ c.child = Null
    PROVE  Good([h EXCEPT ![n] = c], al \cup {n}, R \cup {n}, L, O) /\ L[n] = <<>>
<1> DEFINE g == [h EXCEPT ![n] = c]
<1>1. h \in [Node -> Cell] /\ L[n] = <<>>
  BY DEF Good, Heap, Owns
<1>2. Good(h, al \cup {n}, R \cup {n}, L, O)
  BY Allocated
<1>3. SameBut(h, g, n) /\ g[n] = c
  BY <1>1 DEF SameBut
<1> HIDE DEF g
<1>4. n \in R \cup {n} /\ g[n].next = Null /\ (g[n].isReference \/ g[n].child = Null)
  BY <1>3
<1>5. Good(g, al \cup {n}, R \cup {n}, L, O)
  BY <1>1, <1>2, <1>3, <1>4, Filled
<1> QED BY <1>1, <1>5 DEF g

-----------------------------------------------------------------------------
(* Trees: lists and names                                                  *)

\* A name's flag tells its owner, of every cell.
NameRight(c) == c.string # NoString => (c.stringIsConst <=> ~c.string.heap)
NamesRight(h) == \A n \in Node : NameRight(h[n])

Tree(h, al, R) == NamesRight(h) /\ \E L : Good(h, al, R, L, {}) /\ Quiet(L)

\* The types of a tree's memory.
LEMMA TreeIs ==
    ASSUME NEW h, NEW al, NEW R, Tree(h, al, R)
    PROVE  h \in [Node -> Cell] /\ al \subseteq Node /\ R \subseteq al
BY DEF Tree, Good, Heap

\* A tree has lists, and no call is running.
LEMMA TreeHas ==
    ASSUME NEW h, NEW al, NEW R, Tree(h, al, R)
    PROVE  NamesRight(h) /\ \E L \in [Nat -> Seq(Node)] : Good(h, al, R, L, {}) /\ Quiet(L)
BY DEF Tree, Good, Lists

\* The flags are as they were when the cells are alike.
LEMMA NamesAlike ==
    ASSUME NEW h, NEW g, Alike(h, g), NamesRight(h)
    PROVE  NamesRight(g)
BY DEF Alike, Keeps, NamesRight, NameRight

\* What becomes of a tree when the list of one item changes.
LEMMA TreeBecomes ==
    ASSUME NEW h, NEW al, NEW R, NamesRight(h), NEW L, Quiet(L), L \in [Nat -> Seq(Node)],
           NEW a \in Node, NEW g, NEW S, NEW s, Becomes(h, g, al, S, [L EXCEPT ![a] = s], {})
    PROVE  Tree(g, al, S) /\ Alike(h, g)
<1>1. Quiet([L EXCEPT ![a] = s])
  BY NodesAre DEF Quiet
<1>2. Alike(h, g) /\ Good(g, al, S, [L EXCEPT ![a] = s], {})
  BY DEF Becomes
<1> QED BY <1>1, <1>2, NamesAlike DEF Tree

\* The items of a place are those the code walks along.
LEMMA ItemsAre ==
    ASSUME NEW h, NEW al, NEW R, NEW L, NEW O, Good(h, al, R, L, O),
           NEW a \in al, ~h[a].isReference
    PROVE  Items(h, a) = L[a]
<1>1. a \in Node /\ a \in Nat
  BY NodesAre DEF Good, Heap
<1>2. h[a].child = First(L[a]) /\ IsList(h, L[a])
  BY <1>1 DEF Good, Owns, Lists
<1> QED BY <1>2, FromIs DEF Items

\* What get_array_item finds is a child.
LEMMA KidAt ==
    ASSUME NEW h, NEW a, NEW i \in Nat \ {0}, ItemAt(h, a, i) # Null,
           Items(h, a) \in Seq(Node)
    PROVE  ItemAt(h, a, i) \in Elems(Items(h, a))
<1> DEFINE s == Items(h, a)
<1>1. i <= Len(s) /\ ItemAt(h, a, i) = s[i] /\ Len(s) \in Nat
  BY DEF ItemAt
<1> HIDE DEF s
<1>2. i \in 1..Len(s)
  BY <1>1
<1> QED BY <1>1, <1>2, ElemsOf DEF s

\* What get_object_item finds is a child.
LEMMA KidNamed ==
    ASSUME NEW h, NEW a, NEW name, NEW cs, ItemNamed(h, a, name, cs) # Null
    PROVE  ItemNamed(h, a, name, cs) \in Elems(Items(h, a))
<1> DEFINE kids == Items(h, a)
           stops(i) == LET s == h[kids[i]].string.name IN
                       IF cs THEN s \in {name, NoName} ELSE s # NoName /\ Fold[s] = Fold[name]
           found == {i \in 1..Len(kids) : stops(i) /\ \A j \in 1..(i - 1) : ~stops(j)}
<1>1. ItemNamed(h, a, name, cs) = IF \E i \in found : h[kids[i]].string # NoString
                                  THEN kids[CHOOSE i \in found : TRUE] ELSE Null
  BY DEF ItemNamed
<1>2. found \subseteq 1..Len(kids)
  OBVIOUS
<1> HIDE DEF found, kids
<1>3. found # {} /\ ItemNamed(h, a, name, cs) = kids[CHOOSE i \in found : TRUE]
  BY <1>1
<1>4. (CHOOSE i \in found : TRUE) \in 1..Len(kids)
  BY <1>2, <1>3
<1> QED BY <1>3, <1>4, ElemsOf DEF kids

\* malloc gives a free cell.
LEMMA NewIs ==
    ASSUME alloc \subseteq Node, alloc # Node
    PROVE  NewNode \in Node \ alloc
<1> DEFINE T == Node \ alloc
<1>1. T \subseteq Nat /\ T # {}
  BY NodesAre
<1> HIDE DEF T
<1>2. \E n \in T : \A m \in T : n <= m
  BY ONLY <1>1, LeastElement
<1> QED BY <1>2 DEF NewNode, T

\* A free cell becomes a root without children, whatever else it says.
LEMMA NewFilled ==
    ASSUME NEW h, NEW al, NEW R, Tree(h, al, R), NEW n \in Node \ al, NEW c \in Cell,
           c.next = Null, c.isReference \/ c.child = Null, NameRight(c)
    PROVE  Tree([h EXCEPT ![n] = c], al \cup {n}, R \cup {n})
<1>1. PICK L : Good(h, al, R, L, {}) /\ Quiet(L)
  BY DEF Tree
<1>2. Good([h EXCEPT ![n] = c], al \cup {n}, R \cup {n}, L, {})
  BY <1>1, RootFilled
<1>3. NamesRight([h EXCEPT ![n] = c])
  BY TreeIs DEF Tree, NamesRight
<1> QED BY <1>1, <1>2, <1>3 DEF Tree

\* cJSON_New_Item: a new item is a root of its own.
LEMMA NewPlain ==
    ASSUME NEW h, NEW al, NEW R, Tree(h, al, R), NEW n \in Node \ al
    PROVE  Tree(h, al \cup {n}, R \cup {n})
BY Allocated DEF Tree

\* An item is renamed.
Renames(h, g, x) ==
    /\ SameBut(h, g, x)
    /\ g[x].next = h[x].next /\ g[x].prev = h[x].prev /\ g[x].child = h[x].child
    /\ g[x].isReference = h[x].isReference /\ NameRight(g[x])

\* Giving a root another name leaves the lists alone.
LEMMA TreeRenamed ==
    ASSUME NEW h, NEW al, NEW R, Tree(h, al, R), NEW x \in al, NEW g, Renames(h, g, x)
    PROVE  Tree(g, al, R)
<1>1. PICK L : Good(h, al, R, L, {}) /\ Quiet(L)
  BY DEF Tree
<1>2. x \in Node /\ g \in [Node -> Cell] /\ \A n \in Node \ {x} : g[n] = h[n]
  BY TreeIs DEF Renames, SameBut
<1>3. /\ \A n \in Node : /\ g[n].next = h[n].next /\ g[n].prev = h[n].prev
                         /\ g[n].child = h[n].child /\ g[n].isReference = h[n].isReference
      /\ \A n \in Node \ al : g[n] = h[n]
  BY <1>2 DEF Renames
<1>4. Good(g, al, R, L, {})
  BY <1>1, <1>2, <1>3, Marked
<1>5. NamesRight(g)
  BY <1>2 DEF Renames, NamesRight, Tree
<1> QED BY <1>1, <1>4, <1>5 DEF Tree

\* add_item_to_object and replace_item_in_object name an item.
LEMMA StringSet ==
    ASSUME NEW h \in [Node -> Cell], NEW x \in Node, NEW name \in Name, NEW constant \in BOOLEAN
    PROVE  Renames(h, SetString(h, x, name, constant), x)
<1> DEFINE s == [name |-> name, heap |-> ~constant]
           c == [h[x] EXCEPT !.string = s, !.stringIsConst = constant]
<1>1. SetString(h, x, name, constant) = [h EXCEPT ![x] = c]
  BY DEF SetString
<1>2. s \in String /\ s.heap = ~constant
  BY DEF String
<1> HIDE DEF s
<1>3. /\ c \in Cell /\ c.next = h[x].next /\ c.prev = h[x].prev /\ c.child = h[x].child
      /\ c.isReference = h[x].isReference /\ c.string = s /\ c.stringIsConst = constant
  BY <1>2 DEF Cell
<1> HIDE DEF c
<1>4. NameRight(c)
  BY <1>2, <1>3 DEF NameRight
<1> QED BY <1>1, <1>3, <1>4 DEF Renames, SameBut

\* Dropping the name is such a renaming.
LEMMA StringLost ==
    ASSUME NEW h \in [Node -> Cell], NEW x \in Node
    PROVE  Renames(h, [h EXCEPT ![x].string = NoString], x)
<1> DEFINE c == [h[x] EXCEPT !.string = NoString]
<1>1. [h EXCEPT ![x].string = NoString] = [h EXCEPT ![x] = c]
  OBVIOUS
<1>2. NoString \in String
  BY DEF String, NoString
<1>3. /\ c \in Cell /\ c.next = h[x].next /\ c.prev = h[x].prev /\ c.child = h[x].child
      /\ c.isReference = h[x].isReference /\ c.string = NoString
  BY <1>2 DEF Cell
<1> HIDE DEF c
<1> QED BY <1>1, <1>3 DEF Renames, SameBut, NameRight

\* The children of an item of a tree.
LEMMA TreeKids ==
    ASSUME NEW h, NEW al, NEW R, Tree(h, al, R), NEW a \in al, ~h[a].isReference
    PROVE  Items(h, a) \in Seq(Node) /\ Elems(Items(h, a)) \subseteq al \ R
<1>1. PICK L : Good(h, al, R, L, {})
  BY DEF Tree
<1>2. a \in Node
  BY TreeIs
<1>3. a \in Nat /\ Items(h, a) = L[a]
  BY <1>1, <1>2, ItemsAre, NodesAre
<1> QED BY <1>1, <1>3 DEF Good, Lists

\* add_item_to_array: a root becomes the last item of the container.
LEMMA TreeAdded ==
    ASSUME NEW h, NEW al, NEW R, Tree(h, al, R), NEW a \in al, ~h[a].isReference, NEW x \in R
    PROVE  Tree(AddItemToArray(h, a, x), al, R \ {x})
<1>1. PICK L \in [Nat -> Seq(Node)] : Good(h, al, R, L, {}) /\ Quiet(L)
  BY TreeHas
<1>2. Becomes(h, AddItemToArray(h, a, x), al, R \ {x}, [L EXCEPT ![a] = Append(L[a], x)], {})
  BY <1>1, Added
<1>3. a \in Node /\ NamesRight(h)
  BY TreeIs, TreeHas
<1> QED BY <1>1, <1>2, <1>3, TreeBecomes

\* cJSON_DetachItemViaPointer: an item becomes a root.
LEMMA TreeDetached ==
    ASSUME NEW h, NEW al, NEW R, Tree(h, al, R), NEW a \in al, ~h[a].isReference,
           NEW x \in Elems(Items(h, a))
    PROVE  Tree(Detach(h, a, x), al, R \cup {x})
<1>1. PICK L \in [Nat -> Seq(Node)] : Good(h, al, R, L, {}) /\ Quiet(L)
  BY TreeHas
<1>2. PICK i \in 1..Len(L[a]) : x = L[a][i]
  <2>1. Items(h, a) = L[a]
    BY <1>1, ItemsAre
  <2> QED BY <2>1 DEF Elems
<1>3. Becomes(h, Detach(h, a, L[a][i]), al, R \cup {L[a][i]}, [L EXCEPT ![a] = Without(L[a], i)], {})
  BY <1>1, Detached
<1>4. a \in Node /\ NamesRight(h)
  BY TreeIs, TreeHas
<1> QED BY <1>1, <1>2, <1>3, <1>4, TreeBecomes

\* cJSON_InsertItemInArray: a root takes its place before an item.
LEMMA TreeInserted ==
    ASSUME NEW h, NEW al, NEW R, Tree(h, al, R), NEW a \in al, ~h[a].isReference,
           NEW y \in Elems(Items(h, a)), NEW x \in R
    PROVE  Tree(InsertBefore(h, a, y, x), al, R \ {x})
<1>1. PICK L \in [Nat -> Seq(Node)] : Good(h, al, R, L, {}) /\ Quiet(L)
  BY TreeHas
<1>2. PICK i \in 1..Len(L[a]) : y = L[a][i]
  <2>1. Items(h, a) = L[a]
    BY <1>1, ItemsAre
  <2> QED BY <2>1 DEF Elems
<1>3. Becomes(h, InsertBefore(h, a, L[a][i], x), al, R \ {x}, [L EXCEPT ![a] = With(L[a], i, x)], {})
  BY <1>1, Inserted
<1>4. a \in Node /\ NamesRight(h)
  BY TreeIs, TreeHas
<1> QED BY <1>1, <1>2, <1>3, <1>4, TreeBecomes

\* cJSON_ReplaceItemViaPointer: a root takes an item's place, and the item
\* becomes a root.
LEMMA TreeReplaced ==
    ASSUME NEW h, NEW al, NEW R, Tree(h, al, R), NEW a \in al, ~h[a].isReference,
           NEW y \in Elems(Items(h, a)), NEW x \in R
    PROVE  Tree(Replace(h, a, y, x), al, (R \ {x}) \cup {y})
<1>1. PICK L \in [Nat -> Seq(Node)] : Good(h, al, R, L, {}) /\ Quiet(L)
  BY TreeHas
<1>2. PICK i \in 1..Len(L[a]) : y = L[a][i]
  <2>1. Items(h, a) = L[a]
    BY <1>1, ItemsAre
  <2> QED BY <2>1 DEF Elems
<1>3. Becomes(h, Replace(h, a, L[a][i], x), al, (R \ {x}) \cup {L[a][i]},
              [L EXCEPT ![a] = [L[a] EXCEPT ![i] = x]], {})
  BY <1>1, Replaced
<1>4. a \in Node /\ NamesRight(h)
  BY TreeIs, TreeHas
<1> QED BY <1>1, <1>2, <1>3, <1>4, TreeBecomes

\* The names of the cells that stay are right.
LEMMA NamesFreed ==
    ASSUME NEW h, NamesRight(h), NEW D
    PROVE  NamesRight(Cleared(h, D))
BY ZeroedIs DEF Cleared, NamesRight, NameRight

\* cJSON_Delete takes a root and what is below it out of the forest.
LEMMA TreeDeleted ==
    ASSUME NEW h, NEW al, NEW R, Tree(h, al, R), NEW x \in R
    PROVE  Tree(Delete(h, x), al \ Freed(h, x), R \ {x})
<1>1. PICK L : Good(h, al, R, L, {}) /\ Quiet(L)
  BY DEF Tree
<1>2. {} \subseteq {x}
  OBVIOUS
<1>3. \E M : Good(Delete(h, x), al \ Freed(h, x), R \ {x}, M, {}) /\ Quiet(M)
  BY <1>1, <1>2, RootFreed
<1>4. Delete(h, x) = Cleared(h, Freed(h, x))
  BY DEF Delete, Cleared
<1>5. NamesRight(Delete(h, x))
  BY <1>4, NamesFreed DEF Tree
<1> QED BY <1>3, <1>5 DEF Tree

-----------------------------------------------------------------------------
(* The calls that are one step                                             *)

\* The forest, and who has its roots.
Sound(h, al, hd, lk) == Tree(h, al, hd \cup lk) /\ hd \cap lk = {}

\* What is sound between two calls.
LEMMA SoundIs ==
    ASSUME Sound(mem, alloc, held, leaked)
    PROVE  /\ mem \in [Node -> Cell] /\ alloc \subseteq Node
           /\ held \subseteq alloc /\ leaked \subseteq alloc /\ held \cap leaked = {}
           /\ Tree(mem, alloc, held \cup leaked)
BY TreeIs DEF Sound

\* What the caller holds may be handed over or freed.
LEMMA Given ==
    ASSUME Sound(mem, alloc, held, leaked), NEW x \in held, NEW h, NEW al,
           Tree(h, al, (held \cup leaked) \ {x})
    PROVE  Sound(h, al, held \ {x}, leaked)
<1>1. (held \cup leaked) \ {x} = (held \ {x}) \cup leaked /\ (held \ {x}) \cap leaked = {}
  BY DEF Sound
<1> QED BY <1>1 DEF Sound

\* A call of cJSON_Create keeps memory sound.
LEMMA SoundCreate ==
    ASSUME Sound(mem, alloc, held, leaked), Create
    PROVE  Sound(mem', alloc', held', leaked')
<1>1. /\ alloc # Node /\ mem' = mem /\ leaked' = leaked
      /\ alloc' = alloc \cup {NewNode} /\ held' = held \cup {NewNode}
  BY DEF Create
<1>2. NewNode \in Node \ alloc
  BY <1>1, SoundIs, NewIs
<1>3. Tree(mem, alloc \cup {NewNode}, (held \cup leaked) \cup {NewNode})
  BY <1>2, SoundIs, NewPlain
<1>4. /\ (held \cup leaked) \cup {NewNode} = held' \cup leaked'
      /\ held' \cap leaked' = {}
  BY <1>1, <1>2, SoundIs
<1> QED BY <1>1, <1>3, <1>4 DEF Sound

\* Adding an item to an array or an object keeps memory sound.
LEMMA SoundAdd ==
    ASSUME Sound(mem, alloc, held, leaked), Add
    PROVE  Sound(mem', alloc', held', leaked')
<1> DEFINE R == held \cup leaked
<1>1. PICK a \in alloc, x \in held :
          \/ AddToArray(a, x)
          \/ \E name \in Name, constant \in BOOLEAN : AddToObject(a, name, x, constant)
          \/ \E i \in 1..MaxNodes : InsertItem(a, i, x)
  BY DEF Add
<1>2. /\ ~mem[a].isReference /\ alloc' = alloc /\ held' = held \ {x} /\ leaked' = leaked
  BY <1>1 DEF AddToArray, AddToObject, InsertItem, MayAdd, Target, Give
<1>3. Tree(mem, alloc, R) /\ x \in R /\ x \in alloc /\ x \in Node /\ a \in Node /\ mem \in [Node -> Cell]
  BY SoundIs
<1>4. Tree(mem', alloc, R \ {x})
  <2>1. CASE AddToArray(a, x)
    <3>1. mem' = AddItemToArray(mem, a, x)
      BY <2>1 DEF AddToArray
    <3> HIDE DEF R
    <3> QED BY <1>2, <1>3, <3>1, TreeAdded
  <2>2. ASSUME NEW name \in Name, NEW constant \in BOOLEAN, AddToObject(a, name, x, constant)
        PROVE  Tree(mem', alloc, R \ {x})
    <3> DEFINE g == SetString(mem, x, name, constant)
    <3>1. mem' = AddItemToArray(g, a, x)
      BY <2>2 DEF AddToObject
    <3>2. Renames(mem, g, x)
      BY <1>3, StringSet
    <3> HIDE DEF R, g
    <3>3. Tree(g, alloc, R)
      BY <1>3, <3>2, TreeRenamed
    <3>4. ~g[a].isReference
      BY <1>2, <1>3, <3>2 DEF Renames, SameBut
    <3> QED BY <1>3, <3>1, <3>3, <3>4, TreeAdded
  <2>3. ASSUME NEW i \in 1..MaxNodes, InsertItem(a, i, x) PROVE Tree(mem', alloc, R \ {x})
    <3> DEFINE y == ItemAt(mem, a, i)
    <3>1. mem' = IF y = Null THEN AddItemToArray(mem, a, x) ELSE InsertBefore(mem, a, y, x)
      BY <2>3 DEF InsertItem
    <3> HIDE DEF R
    <3>2. CASE y = Null
      BY <1>2, <1>3, <3>1, <3>2, TreeAdded
    <3>3. CASE y # Null
      <4>1. Items(mem, a) \in Seq(Node) /\ i \in Nat \ {0}
        BY <1>2, <1>3, TreeKids
      <4>2. y \in Elems(Items(mem, a))
        BY <3>3, <4>1, KidAt
      <4> HIDE DEF y
      <4> QED BY <1>2, <1>3, <3>1, <3>3, <4>2, TreeInserted
    <3> QED BY <3>2, <3>3
  <2> QED BY <1>1, <2>1, <2>2, <2>3
<1> QED BY <1>2, <1>4, Given

\* The cJSON_Add...ToObject functions keep memory sound, also when the item
\* they made cannot be added and is deleted.
LEMMA SoundAddNew ==
    ASSUME Sound(mem, alloc, held, leaked), NEW a \in alloc, NEW name \in Name,
           AddNewToObject(a, name)
    PROVE  Sound(mem', alloc', held', leaked')
<1> DEFINE R == held \cup leaked
           n == NewNode
           g == SetString(mem, n, name, FALSE)
<1>1. /\ alloc # Node /\ ~mem[a].isReference /\ mem' = AddItemToArray(g, a, n)
      /\ alloc' = alloc \cup {n} /\ held' = held /\ leaked' = leaked
  BY DEF AddNewToObject, Target
<1>2. n \in Node \ alloc
  BY <1>1, SoundIs, NewIs
<1> HIDE DEF n, g
<1>3. Tree(mem, alloc \cup {n}, R \cup {n})
  BY <1>2, SoundIs, NewPlain
<1>4. a \in Node /\ mem \in [Node -> Cell] /\ R \subseteq alloc
  BY SoundIs
<1>5. Renames(mem, g, n)
  BY <1>2, <1>4, StringSet DEF g
<1> HIDE DEF R
<1>6. Tree(g, alloc \cup {n}, R \cup {n})
  <2>1. n \in alloc \cup {n}
    OBVIOUS
  <2> QED BY <1>3, <1>5, <2>1, TreeRenamed
<1>7. ~g[a].isReference
  BY <1>1, <1>2, <1>4, <1>5 DEF Renames, SameBut
<1>8. Tree(mem', alloc \cup {n}, (R \cup {n}) \ {n})
  <2>1. n \in R \cup {n} /\ a \in alloc \cup {n}
    OBVIOUS
  <2> QED BY <1>1, <1>6, <1>7, <2>1, TreeAdded
<1>9. (R \cup {n}) \ {n} = held' \cup leaked' /\ held' \cap leaked' = {}
  BY <1>1, <1>2, <1>4, SoundIs DEF R
<1> QED BY <1>1, <1>8, <1>9 DEF Sound

\* create_reference makes a root of a free cell.
LEMMA ReferenceMade ==
    ASSUME Sound(mem, alloc, held, leaked), NEW x \in alloc, NEW n \in Node \ alloc
    PROVE  /\ Tree(CreateReference(mem, x, n), alloc \cup {n}, (held \cup leaked) \cup {n})
           /\ \A a \in alloc : CreateReference(mem, x, n)[a] = mem[a]
           /\ CreateReference(mem, x, n) \in [Node -> Cell]
<1> DEFINE c == [mem[x] EXCEPT !.string = NoString, !.isReference = TRUE,
                               !.next = Null, !.prev = Null]
<1>1. CreateReference(mem, x, n) = [mem EXCEPT ![n] = c]
  BY DEF CreateReference
<1>2. x \in Node /\ mem \in [Node -> Cell] /\ alloc \subseteq Node
  BY SoundIs
<1>3. NoString \in String
  BY DEF String, NoString
<1>4. c \in Cell /\ c.next = Null /\ c.isReference /\ c.string = NoString
  BY <1>2, <1>3 DEF Cell
<1> HIDE DEF c
<1>5. NameRight(c) /\ (c.isReference \/ c.child = Null)
  BY <1>4 DEF NameRight
<1>6. Tree([mem EXCEPT ![n] = c], alloc \cup {n}, (held \cup leaked) \cup {n})
  BY <1>4, <1>5, SoundIs, NewFilled
<1> QED BY <1>1, <1>2, <1>4, <1>6

\* Adding a reference keeps memory sound: the reference is an item of its own,
\* though its child is not.
LEMMA SoundAddReference ==
    ASSUME Sound(mem, alloc, held, leaked), AddReference
    PROVE  Sound(mem', alloc', held', leaked')
<1> DEFINE R == held \cup leaked
           n == NewNode
           al == alloc \cup {n}
<1>1. PICK a \in alloc, x \in alloc :
          \/ AddReferenceToArray(a, x) \/ AddReferenceToObjectFails(a, x)
          \/ \E name \in Name : AddReferenceToObject(a, name, x)
  BY DEF AddReference
<1> DEFINE g == CreateReference(mem, x, n)
<1>2. alloc # Node /\ ~mem[a].isReference /\ alloc' = al /\ held' = held
  BY <1>1 DEF AddReferenceToArray, AddReferenceToObject, AddReferenceToObjectFails, MayRefer, Target
<1>3. n \in Node \ alloc
  BY <1>2, SoundIs, NewIs
<1> HIDE DEF n
<1>4. /\ Tree(g, al, R \cup {n}) /\ \A m \in alloc : g[m] = mem[m]
      /\ g \in [Node -> Cell]
  BY <1>3, ReferenceMade
<1>5. /\ R \subseteq alloc /\ n \notin held /\ n \notin leaked /\ held \cap leaked = {}
      /\ a \in Node /\ n \in R \cup {n} /\ a \in al /\ n \in al
  BY <1>3, SoundIs
<1>6. ~g[a].isReference
  BY <1>2, <1>4
<1>7. CASE AddReferenceToArray(a, x)
  <2>1. mem' = AddItemToArray(g, a, n) /\ leaked' = leaked
    BY <1>7 DEF AddReferenceToArray, n
  <2> HIDE DEF g
  <2>2. Tree(mem', al, (R \cup {n}) \ {n})
    <3> HIDE DEF R, al
    <3> QED BY <1>4, <1>5, <1>6, <2>1, TreeAdded
  <2>3. (R \cup {n}) \ {n} = held \cup leaked
    BY <1>5
  <2> HIDE DEF R, al
  <2> QED BY <1>2, <1>5, <2>1, <2>2, <2>3 DEF Sound
<1>8. CASE AddReferenceToObjectFails(a, x)
  <2>1. mem' = g /\ leaked' = leaked \cup {n}
    BY <1>8 DEF AddReferenceToObjectFails, n
  <2> HIDE DEF g
  <2>2. R \cup {n} = held \cup leaked' /\ held \cap leaked' = {}
    BY <1>5, <2>1
  <2> HIDE DEF R, al
  <2> QED BY <1>2, <1>4, <2>1, <2>2 DEF Sound
<1>9. ASSUME NEW name \in Name, AddReferenceToObject(a, name, x)
      PROVE  Sound(mem', alloc', held', leaked')
  <2> DEFINE f == SetString(g, n, name, FALSE)
  <2>1. mem' = AddItemToArray(f, a, n) /\ leaked' = leaked
    BY <1>9 DEF AddReferenceToObject, n
  <2> HIDE DEF g
  <2>2. Renames(g, f, n)
    BY <1>3, <1>4, StringSet
  <2> HIDE DEF f
  <2>3. Tree(f, al, R \cup {n})
    <3> HIDE DEF R, al
    <3> QED BY <1>4, <1>5, <2>2, TreeRenamed
  <2>4. ~f[a].isReference
    BY <1>5, <1>6, <2>2 DEF Renames, SameBut
  <2>5. Tree(mem', al, (R \cup {n}) \ {n})
    <3> HIDE DEF R, al
    <3> QED BY <1>5, <2>1, <2>3, <2>4, TreeAdded
  <2>6. (R \cup {n}) \ {n} = held \cup leaked
    BY <1>5
  <2> HIDE DEF R, al
  <2> QED BY <1>2, <1>5, <2>1, <2>5, <2>6 DEF Sound
<1> QED BY <1>1, <1>7, <1>8, <1>9

\* cJSON_Delete of a root keeps memory sound.
LEMMA SoundDeleteRoot ==
    ASSUME Sound(mem, alloc, held, leaked), NEW x \in held, DeleteRoot(x)
    PROVE  Sound(mem', alloc', held', leaked')
<1>1. /\ mem' = Delete(mem, x) /\ alloc' = alloc \ Freed(mem, x)
      /\ held' = held \ {x} /\ leaked' = leaked
  BY DEF DeleteRoot
<1>2. Tree(mem, alloc, held \cup leaked) /\ x \in held \cup leaked
  BY SoundIs
<1>3. Tree(mem', alloc', (held \cup leaked) \ {x})
  BY <1>1, <1>2, TreeDeleted
<1> QED BY <1>1, <1>3, Given

\* A child is detached, and then either held or deleted.
LEMMA SoundOut ==
    ASSUME Sound(mem, alloc, held, leaked), NEW a \in alloc, NEW x,
           x # Null => x \in Elems(Items(mem, a)), DetachItem(a, x) \/ DeleteItem(a, x)
    PROVE  Sound(mem', alloc', held', leaked')
<1> DEFINE h == Detach(mem, a, x)
           R == held \cup leaked
<1>1. x \in Elems(Items(mem, a)) /\ ~mem[a].isReference /\ leaked' = leaked
  BY DEF DetachItem, DeleteItem, Target
<1>2. Tree(mem, alloc, R) /\ R \subseteq alloc /\ held \cap leaked = {}
  BY SoundIs
<1>3. Tree(h, alloc, R \cup {x}) /\ x \notin R
  <2> HIDE DEF R
  <2> QED BY <1>1, <1>2, TreeDetached, TreeKids
<1>4. CASE DetachItem(a, x)
  <2>1. mem' = h /\ held' = held \cup {x} /\ alloc' = alloc
    BY <1>4 DEF DetachItem
  <2>2. held' \cup leaked' = R \cup {x} /\ held' \cap leaked' = {}
    BY <1>1, <1>2, <1>3, <2>1
  <2> HIDE DEF R, h
  <2> QED BY <1>3, <2>1, <2>2 DEF Sound
<1>5. CASE DeleteItem(a, x)
  <2>1. mem' = Delete(h, x) /\ held' = held /\ alloc' = alloc \ Freed(h, x)
    BY <1>5 DEF DeleteItem
  <2>2. (R \cup {x}) \ {x} = held' \cup leaked' /\ held' \cap leaked' = {}
    BY <1>1, <1>2, <1>3, <2>1
  <2> HIDE DEF R, h
  <2>3. x \in R \cup {x}
    OBVIOUS
  <2>4. Tree(Delete(h, x), alloc \ Freed(h, x), (R \cup {x}) \ {x})
    BY <1>3, <2>3, TreeDeleted
  <2> QED BY <2>1, <2>2, <2>4 DEF Sound
<1> QED BY <1>4, <1>5

\* Detaching or deleting an item of a container keeps memory sound.
LEMMA SoundTakeOut ==
    ASSUME Sound(mem, alloc, held, leaked), TakeOut
    PROVE  Sound(mem', alloc', held', leaked')
<1>1. PICK a \in alloc :
          \/ \E i \in 1..Len(Items(mem, a)) :
                DetachItem(a, ItemAt(mem, a, i)) \/ DeleteItem(a, ItemAt(mem, a, i))
          \/ \E name \in Name, cs \in BOOLEAN :
                \/ DetachItem(a, ItemNamed(mem, a, name, cs))
                \/ DeleteItem(a, ItemNamed(mem, a, name, cs))
  BY DEF TakeOut
<1>2. ~mem[a].isReference
  BY <1>1 DEF DetachItem, DeleteItem, Target
<1>3. Items(mem, a) \in Seq(Node)
  BY <1>2, SoundIs, TreeKids
<1>4. ASSUME NEW i \in 1..Len(Items(mem, a)),
             DetachItem(a, ItemAt(mem, a, i)) \/ DeleteItem(a, ItemAt(mem, a, i))
      PROVE  Sound(mem', alloc', held', leaked')
  <2>1. i \in Nat \ {0}
    BY <1>3
  <2>2. ItemAt(mem, a, i) # Null => ItemAt(mem, a, i) \in Elems(Items(mem, a))
    BY <1>3, <2>1, KidAt
  <2> QED BY <1>4, <2>2, SoundOut
<1>5. ASSUME NEW name \in Name, NEW cs \in BOOLEAN,
             \/ DetachItem(a, ItemNamed(mem, a, name, cs))
             \/ DeleteItem(a, ItemNamed(mem, a, name, cs))
      PROVE  Sound(mem', alloc', held', leaked')
  <2>1. ItemNamed(mem, a, name, cs) # Null => ItemNamed(mem, a, name, cs) \in Elems(Items(mem, a))
    BY KidNamed
  <2> QED BY <1>5, <2>1, SoundOut
<1> QED BY <1>1, <1>4, <1>5

\* A child is replaced and deleted.
LEMMA SoundReplace ==
    ASSUME Sound(mem, alloc, held, leaked), NEW a \in alloc, NEW x \in held, NEW h, NEW old,
           Tree(h, alloc, held \cup leaked), ~h[a].isReference,
           old \in Elems(Items(h, a)), ReplaceItem(h, a, old, x)
    PROVE  Sound(mem', alloc', held', leaked')
<1> DEFINE R == held \cup leaked
           h1 == Replace(h, a, old, x)
<1>1. /\ mem' = Delete(h1, old) /\ alloc' = alloc \ Freed(h1, old)
      /\ held' = held \ {x} /\ leaked' = leaked
  BY DEF ReplaceItem
<1>2. x \in R /\ Tree(h, alloc, R)
  OBVIOUS
<1> HIDE DEF h1, R
<1>3. Tree(h1, alloc, (R \ {x}) \cup {old}) /\ old \notin R
  BY <1>2, TreeReplaced, TreeKids DEF h1
<1>4. old \in (R \ {x}) \cup {old}
  OBVIOUS
<1>5. Tree(mem', alloc', ((R \ {x}) \cup {old}) \ {old})
  BY <1>1, <1>3, <1>4, TreeDeleted
<1>6. ((R \ {x}) \cup {old}) \ {old} = R \ {x}
  BY <1>3
<1>7. Tree(mem', alloc', R \ {x})
  BY <1>5, <1>6
<1> QED BY <1>1, <1>7, Given DEF R

\* Inserting and replacing keep memory sound.
LEMMA SoundExchange ==
    ASSUME Sound(mem, alloc, held, leaked), Exchange
    PROVE  Sound(mem', alloc', held', leaked')
<1> DEFINE R == held \cup leaked
<1>1. PICK a \in alloc, x \in held :
          \/ \E i \in 1..Len(Items(mem, a)) : ReplaceItem(mem, a, ItemAt(mem, a, i), x)
          \/ \E name \in Name, cs \in BOOLEAN : ReplaceMember(a, name, x, cs)
          \/ ReplaceMemberFails(a, x)
  BY DEF Exchange
<1>2. ~mem[a].isReference
  BY <1>1 DEF ReplaceItem, ReplaceMember, ReplaceMemberFails, MayAdd, Target
<1>3. /\ Tree(mem, alloc, R) /\ a \in Node /\ x \in Node /\ x \in alloc /\ mem \in [Node -> Cell]
      /\ held \cap leaked = {}
  BY SoundIs
<1> HIDE DEF R
<1>4. ASSUME NEW i \in 1..Len(Items(mem, a)), ReplaceItem(mem, a, ItemAt(mem, a, i), x)
      PROVE  Sound(mem', alloc', held', leaked')
  <2>1. Items(mem, a) \in Seq(Node)
    BY <1>2, <1>3, TreeKids
  <2>2. ItemAt(mem, a, i) # Null
    BY <1>4 DEF ReplaceItem
  <2>3. i \in Nat \ {0}
    BY <2>1
  <2>4. ItemAt(mem, a, i) \in Elems(Items(mem, a))
    BY <2>1, <2>2, <2>3, KidAt
  <2> QED BY <1>2, <1>3, <1>4, <2>4, SoundReplace DEF R
<1>5. ASSUME NEW name \in Name, NEW cs \in BOOLEAN, ReplaceMember(a, name, x, cs)
      PROVE  Sound(mem', alloc', held', leaked')
  <2> DEFINE h == SetString(mem, x, name, FALSE)
             old == ItemNamed(h, a, name, cs)
  <2>1. IF old = Null THEN mem' = h /\ UNCHANGED <<alloc, held, leaked>>
                      ELSE ReplaceItem(h, a, old, x)
    BY <1>5 DEF ReplaceMember
  <2>2. Renames(mem, h, x)
    BY <1>3, StringSet
  <2> HIDE DEF h
  <2>3. Tree(h, alloc, R)
    BY <1>3, <2>2, TreeRenamed
  <2>4. ~h[a].isReference
    BY <1>2, <1>3, <2>2 DEF Renames, SameBut
  <2>5. CASE old = Null
    BY <1>3, <2>1, <2>3, <2>5 DEF Sound, R
  <2>6. CASE old # Null
    <3>1. old \in Elems(Items(h, a)) /\ ReplaceItem(h, a, old, x)
      BY <2>1, <2>6, KidNamed
    <3> HIDE DEF old
    <3> QED BY <2>3, <2>4, <3>1, SoundReplace DEF R
  <2> QED BY <2>5, <2>6
<1>6. CASE ReplaceMemberFails(a, x)
  <2>1. mem' = [mem EXCEPT ![x].string = NoString] /\ UNCHANGED <<alloc, held, leaked>>
    BY <1>6 DEF ReplaceMemberFails
  <2>2. Renames(mem, mem', x)
    BY <1>3, <2>1, StringLost
  <2>3. Tree(mem', alloc, R)
    BY <1>3, <2>2, TreeRenamed
  <2> QED BY <1>3, <2>1, <2>3 DEF Sound, R
<1> QED BY <1>1, <1>4, <1>5, <1>6

\* The calls of CJSONTree keep the forest.
LEMMA SoundNext ==
    ASSUME Sound(mem, alloc, held, leaked), Next
    PROVE  Sound(mem', alloc', held', leaked')
BY SoundCreate, SoundAdd, SoundAddNew, SoundAddReference, SoundDeleteRoot, SoundTakeOut,
   SoundExchange DEF Next

-----------------------------------------------------------------------------
(* Frames of calls that run                                                *)

\* The last element of a sequence, and a sequence with another one instead.
LEMMA LastIs ==
    ASSUME NEW S, NEW s \in Seq(S), s # <<>>
    PROVE  /\ Last(s) = s[Len(s)] /\ Len(s) \in 1..Len(s) /\ s[Len(s)] \in S
           /\ Front(s) \in Seq(S) /\ Len(Front(s)) = Len(s) - 1
           /\ \A d \in 1..(Len(s) - 1) : Front(s)[d] = s[d]
<1>1. /\ Len(s) \in Nat /\ Len(s) >= 1 /\ Len(s) \in 1..Len(s)
      /\ \A d \in 1..Len(s) : s[d] \in S
  OBVIOUS
<1>2. \A d \in 1..(Len(s) - 1) : d \in 1..Len(s)
  BY <1>1
<1>3. Front(s) = [d \in 1..(Len(s) - 1) |-> s[d]]
  <2>1. Front(s) = [d \in 1..(1 + (Len(s) - 1) - 1) |-> s[1 + d - 1]]
    BY <1>1 DEF Front
  <2>2. 1 + (Len(s) - 1) - 1 = Len(s) - 1 /\ \A d \in 1..(Len(s) - 1) : 1 + d - 1 = d
    BY <1>1
  <2> QED BY <2>1, <2>2
<1>4. Len(s) - 1 \in Nat
  BY <1>1
<1>5. Front(s) \in Seq(S) /\ Len(Front(s)) = Len(s) - 1
  BY <1>1, <1>2, <1>3, <1>4
<1> QED BY <1>1, <1>3, <1>5 DEF Last

\* The elements of a sequence.
LEMMA SetOf ==
    ASSUME NEW S, NEW s \in Seq(S)
    PROVE  ToSet(s) = {s[d] : d \in 1..Len(s)}
<1>1. DOMAIN s = 1..Len(s)
  OBVIOUS
<1> QED BY <1>1 DEF ToSet

OtherLast(S, s, t, v) ==
    /\ t \in Seq(S) /\ Len(t) = Len(s) /\ t[Len(s)] = v
    /\ \A d \in 1..(Len(s) - 1) : t[d] = s[d]

\* A sequence of frames whose last one is exchanged.
LEMMA LastSet ==
    ASSUME NEW S, NEW s \in Seq(S), s # <<>>, NEW v \in S
    PROVE  OtherLast(S, s, Append(Front(s), v), v)
<1> DEFINE t == Front(s)
<1>1. t \in Seq(S) /\ Len(t) = Len(s) - 1 /\ Len(s) \in Nat /\ \A d \in 1..(Len(s) - 1) : t[d] = s[d]
  BY LastIs
<1> HIDE DEF t, OtherLast
<1>2. /\ Append(t, v) \in Seq(S) /\ Len(Append(t, v)) = Len(t) + 1 /\ Append(t, v)[Len(t) + 1] = v
      /\ \A d \in 1..Len(t) : Append(t, v)[d] = t[d]
  BY <1>1
<1> QED BY <1>1, <1>2 DEF t, OtherLast

-----------------------------------------------------------------------------
(* cJSON_Parse, call by call                                               *)

\* The list s of the parsing call d: its head and its end; a call inside of it
\* reads the last item, which has no children yet.
Reads(h, ps, d, s) ==
    /\ ps[d].head = First(s) /\ ps[d].last = Final(s)
    /\ d = 1 => s = <<ps[d].head>>
    /\ d > 1 => ps[d].item = ps[d - 1].last
    /\ d < Len(ps) => ~ps[d].read
    /\ ~ps[d].read => /\ ps[d].last # Null /\ h[ps[d].last].child = Null
                      /\ ~h[ps[d].last].isReference

\* No more than m calls run.
Covers(L, m) == \A k \in Nat \ Node : k = 0 \/ k > MaxNodes + m => L[k] = <<>>

ReadsAll(h, ps, L) == \A d \in 1..Len(ps) : Reads(h, ps, d, L[MaxNodes + d])

Reading(h, al, R, ps) ==
    /\ ps \in Seq(ParseFrame) /\ ps # <<>> /\ NamesRight(h)
    /\ \E L \in [Nat -> Seq(Node)] :
          Good(h, al, R, L, {}) /\ Covers(L, Len(ps)) /\ ReadsAll(h, ps, L)

\* The places of the calls.
LEMMA PlacesAre ==
    /\ \A d \in Nat \ {0} : MaxNodes + d \in Nat \ Node /\ MaxNodes + d # 0
    /\ \A d, e \in Nat : MaxNodes + d = MaxNodes + e => d = e
    /\ \A d, e \in Nat : MaxNodes + d > MaxNodes + e <=> d > e
    /\ \A k \in Nat \ Node : k # 0 => k > MaxNodes + 0
BY NodesAre DEF Node, Null

\* The ends of a list are items.
LEMMA EndsAre ==
    ASSUME NEW s \in Seq(Node)
    PROVE  /\ First(s) \in Node \cup {Null} /\ Final(s) \in Node \cup {Null}
           /\ First(s) = Null <=> s = <<>>
           /\ Final(s) = Null <=> s = <<>>
BY ElemsTyped, NodesAre

\* A call whose list and last item stay.
Stays(h, g, ps, qs, d) ==
    /\ qs[d] = ps[d]
    /\ d > 1 => qs[d - 1].last = ps[d - 1].last
    /\ d < Len(qs) => d < Len(ps)
    /\ ~ps[d].read => /\ g[ps[d].last].child = h[ps[d].last].child
                      /\ g[ps[d].last].isReference = h[ps[d].last].isReference

\* A frame that stays reads what it read.
LEMMA ReadsKept ==
    ASSUME NEW h, NEW g, NEW ps, NEW qs, NEW d, NEW s, Reads(h, ps, d, s), Stays(h, g, ps, qs, d)
    PROVE  Reads(g, qs, d, s)
BY DEF Reads, Stays

\* cJSON_Parse begins with one new item.
LEMMA ReadingStart ==
    ASSUME Sound(mem, alloc, held, leaked), ParseStart
    PROVE  Reading(mem', alloc', held' \cup leaked', parsing')
<1> DEFINE n == NewNode
           R == held \cup leaked
           f == [item |-> Null, head |-> n, last |-> n, read |-> FALSE]
           k == MaxNodes + 1
<1>1. /\ alloc # Node /\ alloc' = alloc \cup {n} /\ parsing' = <<f>>
      /\ mem' = mem /\ held' = held /\ leaked' = leaked
  BY DEF ParseStart
<1>2. n \in Node \ alloc
  BY <1>1, SoundIs, NewIs
<1> HIDE DEF n
<1>3. Tree(mem, alloc, R) /\ NamesRight(mem) /\ R \subseteq alloc
  BY SoundIs DEF Tree
<1>4. PICK L \in [Nat -> Seq(Node)] : Good(mem, alloc, R, L, {}) /\ Quiet(L)
  BY <1>3, TreeHas
<1>5. k \in Nat \ Node /\ k \notin Node /\ k \in Nat
  BY PlacesAre
<1> HIDE DEF R
<1>6. Good(mem, alloc \cup {n}, R \cup {n}, L, {})
  BY <1>2, <1>4, Allocated
<1> DEFINE M == [L EXCEPT ![k] = <<n>>]
<1>7. Good(mem, alloc \cup {n}, (R \cup {n}) \ {n}, M, {})
  <2>1. n \in R \cup {n} /\ {} \ {k} \subseteq {} /\ L[k] = <<>>
    BY <1>4, <1>5 DEF Quiet
  <2> HIDE DEF k
  <2> QED BY <1>5, <1>6, <2>1, Started
<1>8. (R \cup {n}) \ {n} = R
  BY <1>2, <1>3
<1>9. /\ M \in [Nat -> Seq(Node)] /\ M[k] = <<n>> /\ \A l \in Nat : l # k => M[l] = L[l]
  <2> HIDE DEF k
  <2> QED BY <1>2, <1>4, <1>5
<1> HIDE DEF M
<1>10. f \in ParseFrame /\ f.head = n /\ f.last = n /\ ~f.read
  BY <1>2 DEF ParseFrame
<1> HIDE DEF f
<1>11. parsing' \in Seq(ParseFrame) /\ parsing' # <<>> /\ Len(parsing') = 1 /\ parsing'[1] = f
  BY <1>1, <1>10
<1>12. Covers(M, 1)
  <2>1. \A l \in Nat \ Node : l # k => M[l] = <<>>
    BY <1>4, <1>9 DEF Quiet
  <2>2. k # 0 /\ ~(k > MaxNodes + 1)
    BY NodesAre
  <2> HIDE DEF k
  <2> QED BY <2>1, <2>2 DEF Covers
<1>13. Reads(mem, parsing', 1, M[MaxNodes + 1])
  <2>1. mem[n].child = Null /\ ~mem[n].isReference /\ n # Null
    BY <1>2, <1>4, ZeroedIs, NodesAre DEF Good, Heap
  <2>2. First(<<n>>) = n /\ Final(<<n>>) = n
    BY DEF First, Final
  <2>3. parsing'[1].head = n /\ parsing'[1].last = n /\ M[MaxNodes + 1] = <<n>>
    BY <1>9, <1>10, <1>11
  <2>4. ~(1 > 1) /\ ~(1 < Len(parsing'))
    BY <1>11
  <2> QED BY <2>1, <2>2, <2>3, <2>4 DEF Reads
<1>14. ReadsAll(mem, parsing', M)
  BY <1>11, <1>13 DEF ReadsAll
<1>15. Good(mem, alloc \cup {n}, R, M, {})
  BY <1>7, <1>8
<1>16. Reading(mem, alloc \cup {n}, R, parsing')
  BY <1>3, <1>9, <1>11, <1>12, <1>14, <1>15 DEF Reading
<1> QED BY <1>1, <1>16 DEF R

\* parse_value of a value that has no items.
LEMMA ReadingScalar ==
    ASSUME Reading(mem, alloc, held \cup leaked, parsing), ParseScalar
    PROVE  Reading(mem', alloc', held' \cup leaked', parsing')
<1> DEFINE m == Len(parsing)
           f == parsing[m]
           v == [f EXCEPT !.read = TRUE]
<1>1. parsing \in Seq(ParseFrame) /\ parsing # <<>>
  BY DEF Reading
<1>2. Parser = f /\ f \in ParseFrame /\ m \in 1..m /\ m \in Nat
  BY <1>1, LastIs DEF Parser
<1>3. /\ ~f.read /\ parsing' = Append(Front(parsing), v)
      /\ mem' = mem /\ alloc' = alloc /\ held' = held /\ leaked' = leaked
  BY <1>2 DEF ParseScalar, Parsing
<1>4. v \in ParseFrame /\ v.head = f.head /\ v.last = f.last /\ v.item = f.item /\ v.read
  BY <1>2 DEF ParseFrame
<1> HIDE DEF v
<1>5. /\ parsing' \in Seq(ParseFrame) /\ Len(parsing') = m /\ parsing'[m] = v
      /\ \A d \in 1..(m - 1) : parsing'[d] = parsing[d]
  <2>1. OtherLast(ParseFrame, parsing, Append(Front(parsing), v), v)
    BY <1>1, <1>4, LastSet
  <2> QED BY <1>3, <2>1 DEF OtherLast
<1>6. PICK L \in [Nat -> Seq(Node)] :
          /\ Good(mem, alloc, held \cup leaked, L, {}) /\ Covers(L, m) /\ ReadsAll(mem, parsing, L)
  BY DEF Reading
<1>7. parsing' # <<>>
  BY <1>2, <1>5
<1>8. ASSUME NEW d \in 1..m PROVE Reads(mem, parsing', d, L[MaxNodes + d])
  <2>1. Reads(mem, parsing, d, L[MaxNodes + d])
    BY <1>6 DEF ReadsAll
  <2>2. d > 1 => d - 1 \in 1..(m - 1)
    BY <1>2
  <2>3. CASE d = m
    <3>1. /\ parsing'[d] = v /\ v.head = parsing[d].head /\ v.last = parsing[d].last
          /\ v.item = parsing[d].item /\ v.read
      BY <1>4, <1>5, <2>3
    <3>2. ~(d < Len(parsing'))
      BY <1>2, <1>5, <2>3
    <3>3. d > 1 => parsing'[d - 1] = parsing[d - 1]
      BY <1>5, <2>2
    <3> QED BY <2>1, <3>1, <3>2, <3>3 DEF Reads
  <2>4. CASE d # m
    <3>1. d \in 1..(m - 1)
      BY <1>2, <2>4
    <3>2. parsing'[d] = parsing[d] /\ Len(parsing') = Len(parsing)
      BY <1>5, <3>1
    <3>3. d > 1 => parsing'[d - 1] = parsing[d - 1]
      BY <1>5, <2>2
    <3>4. Stays(mem, mem, parsing, parsing', d)
      BY <3>2, <3>3 DEF Stays
    <3> QED BY <2>1, <3>4, ReadsKept
  <2> QED BY <2>3, <2>4
<1>9. ReadsAll(mem, parsing', L)
  BY <1>5, <1>8 DEF ReadsAll
<1>10. NamesRight(mem)
  BY DEF Reading
<1>11. Reading(mem, alloc, held \cup leaked, parsing')
  BY <1>5, <1>6, <1>7, <1>9, <1>10 DEF Reading
<1> QED BY <1>3, <1>11

\* parse_array and parse_object go one level deeper.
LEMMA ReadingOpen ==
    ASSUME Reading(mem, alloc, held \cup leaked, parsing), ParseOpen
    PROVE  Reading(mem', alloc', held' \cup leaked', parsing')
<1> DEFINE m == Len(parsing)
           f == parsing[m]
           v == [item |-> f.last, head |-> Null, last |-> Null, read |-> TRUE]
<1>1. parsing \in Seq(ParseFrame) /\ parsing # <<>>
  BY DEF Reading
<1>2. Parser = f /\ f \in ParseFrame /\ m \in 1..m /\ m \in Nat /\ m >= 1
  BY <1>1, LastIs DEF Parser
<1>3. /\ ~f.read /\ parsing' = Append(parsing, v)
      /\ mem' = mem /\ alloc' = alloc /\ held' = held /\ leaked' = leaked
  BY <1>2 DEF ParseOpen
<1>4. v \in ParseFrame /\ v.head = Null /\ v.last = Null /\ v.item = f.last /\ v.read
  BY <1>2 DEF ParseFrame
<1> HIDE DEF v
<1>5. /\ parsing' \in Seq(ParseFrame) /\ Len(parsing') = m + 1 /\ parsing'[m + 1] = v
      /\ \A d \in 1..m : parsing'[d] = parsing[d]
  BY <1>1, <1>3, <1>4
<1>6. PICK L \in [Nat -> Seq(Node)] :
          /\ Good(mem, alloc, held \cup leaked, L, {}) /\ Covers(L, m) /\ ReadsAll(mem, parsing, L)
  BY DEF Reading
<1>7. parsing' # <<>>
  BY <1>2, <1>5
<1>8. L[MaxNodes + (m + 1)] = <<>>
  <2>1. m + 1 \in Nat \ {0} /\ m + 1 > m
    BY <1>2, SMTT(40)
  <2> DEFINE k == MaxNodes + (m + 1)
  <2>2. k \in Nat \ Node /\ k > MaxNodes + m
    BY <1>2, <2>1, PlacesAre
  <2> HIDE DEF k
  <2> QED BY <1>6, <2>2 DEF Covers, k
<1>9. ASSUME NEW d \in 1..(m + 1) PROVE Reads(mem, parsing', d, L[MaxNodes + d])
  <2>1. CASE d = m + 1
    <3>1. parsing'[d] = v /\ d > 1 /\ parsing'[d - 1] = f /\ ~(d < Len(parsing')) /\ d # 1
      <4>1. d > 1 /\ ~(d < Len(parsing')) /\ d # 1 /\ d - 1 = m
        BY <1>2, <1>5, <2>1, SMTT(40)
      <4>2. parsing'[d] = v
        BY <1>5, <2>1
      <4>3. parsing'[m] = parsing[m]
        BY <1>2, <1>5
      <4> QED BY <4>1, <4>2, <4>3
    <3>2. First(L[MaxNodes + d]) = Null /\ Final(L[MaxNodes + d]) = Null
      BY <1>8, <2>1, EmptyList
    <3> HIDE DEF f
    <3> QED BY <1>4, <3>1, <3>2 DEF Reads
  <2>2. CASE d # m + 1
    <3>1. d \in 1..m
      BY <1>2, <2>2
    <3>2. Reads(mem, parsing, d, L[MaxNodes + d])
      BY <1>6, <3>1 DEF ReadsAll
    <3>3. parsing'[d] = parsing[d]
      BY <1>5, <3>1
    <3>4. d > 1 => parsing'[d - 1] = parsing[d - 1]
      <4>1. d > 1 => d - 1 \in 1..m
        BY <1>2, <3>1
      <4> QED BY <1>5, <4>1
    <3>5. ~parsing[d].read
      <4>1. d < m \/ d = m
        BY <1>2, <3>1
      <4> QED BY <1>3, <3>2, <4>1 DEF Reads
    <3> QED BY <3>2, <3>3, <3>4, <3>5 DEF Reads
  <2> QED BY <2>1, <2>2
<1>10. ReadsAll(mem, parsing', L)
  BY <1>5, <1>9 DEF ReadsAll
<1>11. Covers(L, m + 1)
  <2>1. \A k \in Nat : k > MaxNodes + (m + 1) => k > MaxNodes + m
    BY <1>2, NodesAre
  <2> QED BY <1>6, <2>1 DEF Covers
<1>12. NamesRight(mem)
  BY DEF Reading
<1>13. Reading(mem, alloc, held \cup leaked, parsing')
  BY <1>5, <1>6, <1>7, <1>10, <1>11, <1>12 DEF Reading
<1> QED BY <1>3, <1>13

\* The next item of the list.
LEMMA ReadingElement ==
    ASSUME Reading(mem, alloc, held \cup leaked, parsing),
           NEW string \in String, string # NoString => string.heap, ParseElement(string)
    PROVE  Reading(mem', alloc', held' \cup leaked', parsing')
<1> DEFINE m == Len(parsing)
           f == parsing[m]
           n == NewNode
           h == [mem EXCEPT ![n].string = string]
           R == held \cup leaked
           k == MaxNodes + m
           v == [f EXCEPT !.head = IF f.head = Null THEN n ELSE @, !.last = n, !.read = FALSE]
<1>1. parsing \in Seq(ParseFrame) /\ parsing # <<>> /\ NamesRight(mem)
  BY DEF Reading
<1>2. Parser = f /\ f \in ParseFrame /\ m \in 1..m /\ m \in Nat
  BY <1>1, LastIs DEF Parser
<1>3. PICK L \in [Nat -> Seq(Node)] :
          Good(mem, alloc, R, L, {}) /\ Covers(L, m) /\ ReadsAll(mem, parsing, L)
  BY DEF Reading
<1>4. alloc \subseteq Node /\ mem \in [Node -> Cell] /\ R \subseteq alloc
  BY <1>3 DEF Good, Heap
<1>5. /\ m > 1 /\ f.read /\ alloc # Node /\ alloc' = alloc \cup {n}
      /\ held' = held /\ leaked' = leaked
      /\ mem' = IF f.head = Null THEN h ELSE SuffixObject(h, f.last, n)
  BY <1>2 DEF ParseElement
<1>6. parsing' = Append(Front(parsing), v)
  <2>1. f.head = Null => v = [f EXCEPT !.head = n, !.last = n, !.read = FALSE]
    BY <1>2 DEF ParseFrame
  <2>2. f.head # Null => v = [f EXCEPT !.last = n, !.read = FALSE]
    BY <1>2 DEF ParseFrame
  <2> HIDE DEF v
  <2> QED BY <1>2, <2>1, <2>2 DEF ParseElement, Parsing
<1>7. n \in Node \ alloc
  BY <1>4, <1>5, NewIs
<1> HIDE DEF n
<1>8. /\ v \in ParseFrame /\ v.last = n /\ ~v.read /\ v.item = f.item
      /\ v.head = IF f.head = Null THEN n ELSE f.head
  BY <1>2, <1>7 DEF ParseFrame
<1> HIDE DEF v
<1>9. /\ parsing' \in Seq(ParseFrame) /\ Len(parsing') = m /\ parsing'[m] = v
      /\ \A d \in 1..(m - 1) : parsing'[d] = parsing[d]
  <2>1. v \in ParseFrame
    BY <1>8
  <2>2. OtherLast(ParseFrame, parsing, Append(Front(parsing), v), v)
    BY <1>1, <2>1, LastSet
  <2> QED BY <1>6, <2>2 DEF OtherLast
<1>10. /\ h \in [Node -> Cell] /\ NamesRight(h) /\ \A c \in Node \ {n} : h[c] = mem[c]
       /\ h[n].next = Null /\ h[n].child = Null /\ ~h[n].isReference
       /\ h[n].prev = mem[n].prev /\ h[n].isReference = mem[n].isReference
  <2> DEFINE c == [mem[n] EXCEPT !.string = string]
  <2>1. h = [mem EXCEPT ![n] = c]
    OBVIOUS
  <2>2. mem[n] = Zeroed
    BY <1>3, <1>7 DEF Good, Heap
  <2>3. /\ c \in Cell /\ c.next = Null /\ c.prev = mem[n].prev /\ c.child = Null
        /\ ~c.isReference /\ ~c.stringIsConst /\ c.string = string
        /\ c.isReference = mem[n].isReference
    BY <2>2, ZeroedIs DEF Cell
  <2> HIDE DEF c, h
  <2>4. h \in [Node -> Cell] /\ h[n] = c /\ \A e \in Node \ {n} : h[e] = mem[e]
    BY <1>4, <1>7, <2>1, <2>3
  <2>5. NameRight(c)
    BY <2>3 DEF NameRight
  <2>6. NamesRight(h)
    BY <1>1, <2>4, <2>5 DEF NamesRight
  <2> QED BY <2>3, <2>4, <2>6
<1> HIDE DEF h
<1>11. Good(h, alloc \cup {n}, R \cup {n}, L, {})
  <2>1. Good(mem, alloc \cup {n}, R \cup {n}, L, {})
    BY <1>3, <1>7, Allocated
  <2>2. mem[n].next = Null /\ mem[n].child = Null /\ ~mem[n].isReference
    BY <1>3, <1>7, ZeroedIs DEF Good, Heap
  <2>3. \A e \in Node : /\ h[e].next = mem[e].next /\ h[e].prev = mem[e].prev
                        /\ h[e].child = mem[e].child /\ h[e].isReference = mem[e].isReference
    BY <1>10, <2>2
  <2>4. \A e \in Node \ (alloc \cup {n}) : h[e] = mem[e]
    BY <1>10
  <2> HIDE DEF R
  <2> QED BY <1>10, <2>1, <2>3, <2>4, Marked
<1>12. k \in Nat \ Node /\ k \in Nat /\ k \notin Node /\ k # 0
  BY <1>2, PlacesAre
<1>13. Reads(mem, parsing, m, L[k]) /\ f.head = First(L[k]) /\ f.last = Final(L[k])
  <2>1. Reads(mem, parsing, m, L[k])
    BY <1>2, <1>3 DEF ReadsAll
  <2> QED BY <2>1 DEF Reads
<1>14. L[k] \in Seq(Node) /\ (f.head = Null <=> L[k] = <<>>)
  <2> HIDE DEF k, R
  <2>2. L[k] \in Seq(Node)
    BY <1>12
  <2>1. First(L[k]) = Null <=> L[k] = <<>>
    BY <2>2, EndsAre
  <2> QED BY <1>13, <2>1, <2>2
<1> DEFINE M == [L EXCEPT ![k] = Append(L[k], n)]
<1>15. /\ Good(mem', alloc', (R \cup {n}) \ {n}, M, {}) /\ Alike(h, mem')
       /\ \A e \in Node : mem'[e].child = h[e].child
  <2> HIDE DEF R, k
  <2>1. n \in R \cup {n} /\ {} \ {k} \subseteq {}
    OBVIOUS
  <2>2. CASE f.head = Null
    <3>1. L[k] = <<>> /\ Append(L[k], n) = <<n>> /\ mem' = h
      BY <1>5, <1>7, <1>14, <2>2, AppendIs
    <3>2. Good(h, alloc \cup {n}, (R \cup {n}) \ {n}, [L EXCEPT ![k] = <<n>>], {})
      BY <1>11, <1>12, <2>1, <3>1, Started
    <3>3. Alike(h, h)
      BY <1>10 DEF Alike, Keeps
    <3> QED BY <1>5, <3>1, <3>2, <3>3
  <2>3. CASE f.head # Null
    <3>1. L[k] # <<>> /\ mem' = SuffixObject(h, Final(L[k]), n) /\ (k \in Node => k \in {})
      BY <1>5, <1>12, <1>13, <1>14, <2>3
    <3>2. Good(mem', alloc \cup {n}, (R \cup {n}) \ {n}, M, {})
      BY <1>11, <1>12, <2>1, <3>1, Suffixed
    <3>3. Final(L[k]) \in Node
      <4>1. Final(L[k]) \in Node \cup {Null} /\ (Final(L[k]) = Null <=> L[k] = <<>>)
        BY <1>14, EndsAre
      <4> QED BY <3>1, <4>1
    <3>4. Within(h, mem', {Final(L[k]), n}, 0)
      BY <1>7, <1>10, <3>1, <3>3, SuffixWithin
    <3>5. Alike(h, mem') /\ \A e \in Node : mem'[e].child = h[e].child
      BY <3>4, NodesAre DEF Within, Null
    <3> QED BY <1>5, <3>2, <3>5
  <2> QED BY <2>2, <2>3
<1>16. (R \cup {n}) \ {n} = R
  BY <1>4, <1>7
<1>17. /\ M \in [Nat -> Seq(Node)] /\ M[k] = Append(L[k], n)
       /\ \A l \in Nat : l # k => M[l] = L[l]
  <2>1. Append(L[k], n) \in Seq(Node)
    BY <1>7, <1>14, AppendIs
  <2> HIDE DEF k
  <2> QED BY <1>12, <2>1
<1> HIDE DEF M
<1>18. \A e \in Node : /\ mem'[e].child = mem[e].child /\ mem'[e].isReference = mem[e].isReference
                       /\ e = n => mem'[e].child = Null /\ ~mem'[e].isReference
  <2>1. mem[n].child = Null /\ ~mem[n].isReference
    BY <1>3, <1>7, ZeroedIs DEF Good, Heap
  <2> QED BY <1>10, <1>15, <2>1 DEF Alike, Keeps
<1>19. ASSUME NEW d \in 1..m PROVE Reads(mem', parsing', d, M[MaxNodes + d])
  <2>1. Reads(mem, parsing, d, L[MaxNodes + d])
    BY <1>3 DEF ReadsAll
  <2>2. d > 1 => d - 1 \in 1..(m - 1)
    BY <1>2
  <2>3. d > 1 => parsing'[d - 1] = parsing[d - 1]
    BY <1>9, <2>2
  <2>4. CASE d = m
    <3>1. parsing'[d] = v /\ d # 1 /\ ~(d < Len(parsing')) /\ d > 1 /\ parsing[d] = f
      <4>1. d # 1 /\ d > 1 /\ ~(d < Len(parsing'))
        <5>1. Len(parsing') = m
          BY <1>9
        <5>2. m > 1
          BY <1>5
        <5> HIDE DEF m
        <5> QED BY <1>2, <2>4, <5>1, <5>2
      <4>2. parsing'[d] = v
        BY <1>9, <2>4
      <4> QED BY <2>4, <4>1, <4>2
    <3>2. v.item = parsing'[d - 1].last
      <4>1. parsing[d].item = parsing[d - 1].last
        BY <2>1, <3>1 DEF Reads
      <4>2. parsing'[d - 1] = parsing[d - 1] /\ v.item = f.item
        BY <1>8, <2>3, <3>1
      <4> HIDE DEF f
      <4> QED BY <3>1, <4>1, <4>2
    <3>3. v.head = First(M[k]) /\ v.last = Final(M[k])
      <4>1. /\ Final(Append(L[k], n)) = n
            /\ First(Append(L[k], n)) = IF L[k] = <<>> THEN n ELSE First(L[k])
        BY <1>7, <1>14, AppendIs
      <4> HIDE DEF k, f
      <4> QED BY <1>8, <1>13, <1>14, <1>17, <4>1
    <3>4. v.last # Null /\ mem'[v.last].child = Null /\ ~mem'[v.last].isReference
      BY <1>7, <1>8, <1>18, NodesAre
    <3>5. MaxNodes + d = k
      BY <2>4
    <3> HIDE DEF k, m, f
    <3> QED BY <3>1, <3>2, <3>3, <3>4, <3>5 DEF Reads
  <2>5. CASE d # m
    <3>1. d \in 1..(m - 1)
      BY <1>2, <2>5
    <3>2. parsing'[d] = parsing[d] /\ Len(parsing') = Len(parsing)
      BY <1>9, <3>1
    <3>3. MaxNodes + d \in Nat /\ MaxNodes + d # k
      BY <1>2, <2>5, NodesAre
    <3>4. ~parsing[d].read => parsing[d].last \in Node
      <4>1. parsing[d].last = Final(L[MaxNodes + d]) /\ (~parsing[d].read => parsing[d].last # Null)
        BY <2>1 DEF Reads
      <4> HIDE DEF R
      <4>2. Final(L[MaxNodes + d]) \in Node \cup {Null}
        BY <3>3, EndsAre
      <4> QED BY <4>1, <4>2
    <3>5. Stays(mem, mem', parsing, parsing', d)
      BY <1>18, <2>3, <3>2, <3>4 DEF Stays
    <3>6. M[MaxNodes + d] = L[MaxNodes + d]
      BY <1>17, <3>3
    <3> QED BY <2>1, <3>5, <3>6, ReadsKept
  <2> QED BY <2>4, <2>5
<1>20. ReadsAll(mem', parsing', M)
  BY <1>9, <1>19 DEF ReadsAll
<1>21. Covers(M, m)
  <2>1. ~(k > MaxNodes + m)
    BY <1>2, NodesAre
  <2> HIDE DEF k
  <2> QED BY <1>3, <1>12, <1>17, <2>1 DEF Covers
<1>22. NamesRight(mem')
  BY <1>10, <1>15, NamesAlike
<1>23. parsing' # <<>>
  BY <1>2, <1>9
<1>24. Good(mem', alloc', R, M, {})
  BY <1>15, <1>16
<1>25. Reading(mem', alloc', R, parsing')
  BY <1>9, <1>17, <1>20, <1>21, <1>22, <1>23, <1>24 DEF Reading
<1> QED BY <1>5, <1>25

\* A list is complete: it becomes the children of the item that was read.
LEMMA ReadingClose ==
    ASSUME Reading(mem, alloc, held \cup leaked, parsing), ParseClose
    PROVE  Reading(mem', alloc', held' \cup leaked', parsing')
<1> DEFINE m == Len(parsing)
           f == parsing[m]
           p == parsing[m - 1]
           R == held \cup leaked
           k == MaxNodes + m
           j == MaxNodes + (m - 1)
           a == f.item
           h == IF f.head = Null THEN mem ELSE [mem EXCEPT ![f.head].prev = f.last]
           w == [p EXCEPT !.read = TRUE]
<1>1. parsing \in Seq(ParseFrame) /\ parsing # <<>> /\ NamesRight(mem)
  BY DEF Reading
<1>2. Parser = f /\ f \in ParseFrame /\ m \in 1..m /\ m \in Nat
  BY <1>1, LastIs DEF Parser
<1>3. PICK L \in [Nat -> Seq(Node)] :
          Good(mem, alloc, R, L, {}) /\ Covers(L, m) /\ ReadsAll(mem, parsing, L)
  BY DEF Reading
<1>4. mem \in [Node -> Cell] /\ alloc \subseteq Node
  BY <1>3 DEF Good, Heap
<1>5. /\ m > 1 /\ mem' = [h EXCEPT ![a].child = f.head]
      /\ parsing' = [Front(parsing) EXCEPT ![m - 1].read = TRUE]
      /\ alloc' = alloc /\ held' = held /\ leaked' = leaked
  BY <1>2 DEF ParseClose
<1>6. m - 1 \in 1..m /\ m - 1 \in 1..(m - 1) /\ m - 1 \in Nat /\ p \in ParseFrame
  <2>1. m - 1 \in 1..m /\ m - 1 \in 1..(m - 1) /\ m - 1 \in Nat
    <3>1. m > 1
      BY <1>5
    <3> HIDE DEF m
    <3> QED BY <1>2, <3>1
  <2> QED BY <1>1, <2>1
<1>7. /\ k \in Nat \ Node /\ k \in Nat /\ k \notin Node
      /\ j \in Nat \ Node /\ j \in Nat /\ j \notin Node /\ j # k
  <2>1. m \in Nat \ {0} /\ m - 1 \in Nat \ {0} /\ m # m - 1
    <3>1. m > 1
      BY <1>5
    <3> HIDE DEF m
    <3> QED BY <1>2, <3>1
  <2> HIDE DEF m
  <2> QED BY <2>1, PlacesAre
<1>8. Reads(mem, parsing, m, L[k]) /\ Reads(mem, parsing, m - 1, L[j])
  BY <1>2, <1>3, <1>6 DEF ReadsAll
<1>9. f.head = First(L[k]) /\ f.last = Final(L[k]) /\ a = p.last
  BY <1>5, <1>8 DEF Reads
<1>10. p.last = Final(L[j]) /\ p.last # Null /\ mem[p.last].child = Null /\ ~mem[p.last].isReference
  <2>1. m - 1 < Len(parsing)
    BY <1>2
  <2> QED BY <1>8, <2>1 DEF Reads
<1> HIDE DEF f, p, j, k
<1>11. L[k] \in Seq(Node) /\ L[j] \in Seq(Node)
  BY <1>7
<1>12. L[j] # <<>> /\ a \in Elems(L[j]) /\ a \in alloc /\ a \in Node /\ mem[a].child = Null
       /\ ~mem[a].isReference
  <2>1. a = Final(L[j]) /\ a # Null /\ mem[a].child = Null /\ ~mem[a].isReference
    BY <1>9, <1>10
  <2> HIDE DEF a, R
  <2>2. L[j] # <<>> /\ a \in Elems(L[j])
    BY <1>11, <2>1, ElemsTyped
  <2>3. Elems(L[j]) \subseteq alloc
    BY <1>3, <1>7 DEF Good, Lists
  <2> QED BY <1>4, <2>1, <2>2, <2>3
<1> HIDE DEF a
<1>13. L[a] = <<>> /\ a \in Nat
  <2>1. a \in Nat /\ L[a] \in Seq(Node)
    BY <1>12, NodesAre
  <2>2. First(L[a]) = Null
    BY <1>3, <1>12 DEF Good, Owns
  <2> QED BY <2>1, <2>2, EndsAre
<1>14. /\ Within(mem, mem', {First(L[k])}, a) /\ \A n \in Node : mem'[n].next = mem[n].next
       /\ mem'[a].child = First(L[k])
       /\ L[k] # <<>> => mem'[First(L[k])].prev = Final(L[k])
  <2> DEFINE s == L[k]
             v == First(s)
  <2>1. v \in Node \cup {Null} /\ (v = Null <=> s = <<>>) /\ Final(s) \in Node \cup {Null}
    BY <1>11, EndsAre
  <2>2. Within(mem, mem, {v}, a)
    BY <1>4, WithinSelf
  <2>3. CASE v = Null
    <3>1. h = mem /\ mem' = [mem EXCEPT ![a].child = v]
      BY <1>5, <1>9, <2>3
    <3>2. ChildSet(mem, mem', a, v)
      BY <1>4, <1>12, <2>1, <3>1, FieldsSet
    <3>3. Within(mem, mem', {v}, a)
      BY <1>12, <2>2, <3>2, WithinSet
    <3>4. mem'[a].child = v /\ \A n \in Node : mem'[n].next = mem[n].next
      BY <3>2 DEF ChildSet, SameBut
    <3> QED BY <2>1, <2>3, <3>3, <3>4
  <2>4. CASE v # Null
    <3>1. h = [mem EXCEPT ![v].prev = Final(s)] /\ v \in Node /\ mem' = [h EXCEPT ![a].child = v]
      BY <1>5, <1>9, <2>1, <2>4
    <3> HIDE DEF h
    <3>2. PrevSet(mem, h, v, Final(s))
      BY <1>4, <2>1, <3>1, FieldsSet
    <3>3. h \in [Node -> Cell]
      BY <3>2 DEF PrevSet, SameBut
    <3>4. ChildSet(h, mem', a, v)
      BY <1>12, <2>1, <3>1, <3>3, FieldsSet
    <3>5. Within(mem, h, {v}, a)
      BY <2>2, <3>1, <3>2, WithinSet
    <3>6. Within(mem, mem', {v}, a)
      BY <1>12, <3>4, <3>5, WithinSet
    <3>7. \A n \in Node : mem'[n].next = h[n].next /\ mem'[n].prev = h[n].prev
      BY <3>4 DEF ChildSet, SameBut
    <3>8. (\A n \in Node : h[n].next = mem[n].next) /\ h[v].prev = Final(s)
      BY <3>2 DEF PrevSet, SameBut
    <3>9. mem'[a].child = v
      BY <3>4 DEF ChildSet
    <3> QED BY <3>1, <3>6, <3>7, <3>8, <3>9
  <2> QED BY <2>3, <2>4
<1> DEFINE M == [L EXCEPT ![k] = <<>>, ![a] = L[k]]
<1>15. Good(mem', alloc, R, M, {})
  <2>1. {} \ {a} \subseteq {} /\ (a \notin {} /\ L[k] # <<>> => mem'[First(L[k])].prev = Final(L[k]))
    BY <1>14
  <2> HIDE DEF R
  <2> QED BY <1>3, <1>7, <1>12, <1>13, <1>14, <2>1, Moved
<1>16. /\ M \in [Nat -> Seq(Node)] /\ M[k] = <<>>
       /\ \A l \in Nat \ {k, a} : M[l] = L[l]
  BY <1>7, <1>11, <1>12, <1>13
<1> HIDE DEF M
<1>17. w \in ParseFrame /\ w.head = p.head /\ w.last = p.last /\ w.item = p.item /\ w.read
  BY <1>6 DEF ParseFrame
<1>18. /\ parsing' \in Seq(ParseFrame) /\ Len(parsing') = m - 1 /\ parsing' # <<>>
       /\ parsing'[m - 1] = w /\ \A d \in 1..(m - 1) : d # m - 1 => parsing'[d] = parsing[d]
  <2> DEFINE t == Front(parsing)
  <2>1. t \in Seq(ParseFrame) /\ Len(t) = m - 1 /\ \A d \in 1..(m - 1) : t[d] = parsing[d]
    BY <1>1, LastIs
  <2>2. t[m - 1] = p
    BY <1>6, <2>1 DEF p
  <2>3. parsing' = [t EXCEPT ![m - 1] = w]
    BY <1>5, <2>2
  <2> HIDE DEF t, w, m
  <2>4. /\ [t EXCEPT ![m - 1] = w] \in Seq(ParseFrame) /\ Len([t EXCEPT ![m - 1] = w]) = m - 1
        /\ [t EXCEPT ![m - 1] = w][m - 1] = w
        /\ \A d \in 1..(m - 1) : d # m - 1 => [t EXCEPT ![m - 1] = w][d] = t[d]
    BY <1>6, <1>17, <2>1
  <2>5. m - 1 # 0
    BY <1>6
  <2> QED BY <2>1, <2>3, <2>4, <2>5
<1> HIDE DEF w
<1>19. ASSUME NEW d \in 1..(m - 1) PROVE Reads(mem', parsing', d, M[MaxNodes + d])
  <2>1. d \in 1..m /\ d \in Nat \ {0} /\ d # m /\ (d > 1 => d - 1 \in 1..(m - 1) /\ d - 1 # m - 1)
    <3> HIDE DEF m
    <3> QED BY <1>2, <1>6
  <2>2. Reads(mem, parsing, d, L[MaxNodes + d])
    BY <1>3, <2>1 DEF ReadsAll
  <2>3. MaxNodes + d \in Nat /\ MaxNodes + d \notin Node /\ MaxNodes + d # k
    BY <1>2, <2>1, PlacesAre DEF k
  <2>4. M[MaxNodes + d] = L[MaxNodes + d]
    BY <1>12, <1>16, <2>3
  <2>5. d > 1 => parsing'[d - 1] = parsing[d - 1]
    BY <1>18, <2>1
  <2>6. CASE d = m - 1
    <3>1. parsing'[d] = w /\ parsing[d] = p
      BY <1>18, <2>6 DEF p
    <3>2. ~(d < Len(parsing'))
      BY <1>6, <1>18, <2>6
    <3> HIDE DEF m
    <3> QED BY <1>17, <2>2, <2>4, <2>5, <3>1, <3>2 DEF Reads
  <2>7. CASE d # m - 1
    <3>1. parsing'[d] = parsing[d]
      BY <1>18, <2>7
    <3>2. d < Len(parsing)
      BY <1>2, <2>1
    <3>3. ASSUME ~parsing[d].read PROVE parsing[d].last \in Node /\ parsing[d].last # a
      <4>1. parsing[d].last = Final(L[MaxNodes + d]) /\ parsing[d].last # Null
        BY <2>2, <3>3 DEF Reads
      <4>2. L[MaxNodes + d] \in Seq(Node)
        BY <2>3
      <4>3. parsing[d].last \in Node /\ parsing[d].last \in Elems(L[MaxNodes + d])
        BY <4>1, <4>2, ElemsTyped
      <4>4. MaxNodes + d # j
        <5>1. d \in Nat /\ m - 1 \in Nat
          BY <1>6, <2>1
        <5> HIDE DEF m
        <5> QED BY <2>7, <5>1, PlacesAre DEF j
      <4>5. Elems(L[MaxNodes + d]) \cap Elems(L[j]) = {}
        BY <1>3, <1>7, <2>3, <4>4 DEF Good, Apart
      <4> QED BY <1>12, <4>3, <4>5
    <3>4. \A n \in Node : n # a => mem'[n].child = mem[n].child /\ mem'[n].isReference = mem[n].isReference
      BY <1>14 DEF Within, Alike, Keeps
    <3>5. Stays(mem, mem', parsing, parsing', d)
      BY <2>5, <3>1, <3>2, <3>3, <3>4 DEF Stays
    <3> QED BY <2>2, <2>4, <3>5, ReadsKept
  <2> QED BY <2>6, <2>7
<1>20. ReadsAll(mem', parsing', M)
  BY <1>18, <1>19 DEF ReadsAll
<1>21. Covers(M, m - 1)
  <2>1. ASSUME NEW l \in Nat \ Node, l = 0 \/ l > MaxNodes + (m - 1) PROVE M[l] = <<>>
    <3>1. CASE l = k
      BY <1>16, <3>1
    <3>2. CASE l # k
      <4>1. l = 0 \/ l > MaxNodes + m
        <5> HIDE DEF m
        <5> QED BY <1>2, <2>1, <3>2, NodesAre DEF k
      <4>2. M[l] = L[l]
        BY <1>12, <1>16, <3>2
      <4> QED BY <1>3, <4>1, <4>2 DEF Covers
    <3> QED BY <3>1, <3>2
  <2> QED BY <2>1 DEF Covers
<1>22. NamesRight(mem')
  BY <1>1, <1>14, NamesAlike DEF Within
<1>23. Reading(mem', alloc, R, parsing')
  BY <1>15, <1>16, <1>18, <1>20, <1>21, <1>22 DEF Reading
<1> QED BY <1>5, <1>23

\* The text ends: its root is the caller's.
LEMMA ReadingEnd ==
    ASSUME Reading(mem, alloc, held \cup leaked, parsing), held \cap leaked = {}, ParseEnd
    PROVE  Sound(mem', alloc', held', leaked')
<1> DEFINE R == held \cup leaked
           k == MaxNodes + 1
           x == parsing[1].head
<1>1. parsing \in Seq(ParseFrame) /\ parsing # <<>> /\ NamesRight(mem)
  BY DEF Reading
<1>2. /\ Len(parsing) = 1 /\ held' = held \cup {x}
      /\ mem' = mem /\ alloc' = alloc /\ leaked' = leaked
  BY <1>1, LastIs DEF ParseEnd, Parser
<1>3. PICK L \in [Nat -> Seq(Node)] :
          Good(mem, alloc, R, L, {}) /\ Covers(L, 1) /\ ReadsAll(mem, parsing, L)
  BY <1>2 DEF Reading
<1>4. L[k] = <<x>>
  <2>1. 1 \in 1..Len(parsing)
    BY <1>2
  <2>2. Reads(mem, parsing, 1, L[MaxNodes + 1])
    BY <1>3, <2>1 DEF ReadsAll
  <2> QED BY <2>2 DEF Reads
<1>5. k \in Nat \ Node
  BY PlacesAre
<1> HIDE DEF R, x, k
<1>6. Good(mem, alloc, R \cup {x}, [L EXCEPT ![k] = <<>>], {}) /\ x \in alloc \ R
  BY <1>3, <1>4, <1>5, Returned
<1>7. Quiet([L EXCEPT ![k] = <<>>])
  <2>1. ASSUME NEW l \in Nat \ Node, l # k PROVE L[l] = <<>>
    <3>1. l = 0 \/ l > MaxNodes + 1
      BY <2>1, NodesAre DEF Node, k
    <3> QED BY <1>3, <3>1 DEF Covers
  <2> QED BY <1>3, <1>5, <2>1 DEF Quiet
<1>8. R \cup {x} = held' \cup leaked' /\ held' \cap leaked' = {}
  BY <1>2, <1>6 DEF R
<1>9. Tree(mem, alloc, R \cup {x})
  BY <1>1, <1>6, <1>7 DEF Tree
<1> QED BY <1>2, <1>8, <1>9 DEF Sound

\* The text is wrong: each call deletes its list, and nothing is left of it.
LEMMA ReadingFail ==
    ASSUME Reading(mem, alloc, held \cup leaked, parsing), held \cap leaked = {}, ParseFail
    PROVE  Sound(mem', alloc', held', leaked')
<1> DEFINE m == Len(parsing)
           R == held \cup leaked
           D == UNION {Freed(mem, f.head) : f \in {g \in ToSet(parsing) : g.head # Null}}
           P == {MaxNodes + d : d \in 1..m}
<1>1. parsing \in Seq(ParseFrame) /\ NamesRight(mem) /\ m \in Nat
  BY DEF Reading
<1>12. ToSet(parsing) = {parsing[d] : d \in 1..m}
  BY <1>1, SetOf
<1>2. mem' = Cleared(mem, D) /\ alloc' = alloc \ D /\ held' = held /\ leaked' = leaked
  BY DEF ParseFail, Free, Cleared
<1>3. PICK L \in [Nat -> Seq(Node)] :
          Good(mem, alloc, R, L, {}) /\ Covers(L, m) /\ ReadsAll(mem, parsing, L)
  BY DEF Reading
<1>4. P \subseteq Nat \ Node
  <2>1. \A d \in 1..m : d \in Nat \ {0}
    BY <1>1
  <2> QED BY <2>1, PlacesAre
<1>5. ASSUME NEW d \in 1..m
      PROVE  /\ parsing[d].head = First(L[MaxNodes + d])
             /\ L[MaxNodes + d] = <<>> <=> parsing[d].head = Null
  <2>1. Reads(mem, parsing, d, L[MaxNodes + d])
    BY <1>3 DEF ReadsAll
  <2>2. parsing[d].head = First(L[MaxNodes + d])
    BY <2>1 DEF Reads
  <2>3. MaxNodes + d \in P
    OBVIOUS
  <2>4. L[MaxNodes + d] \in Seq(Node)
    BY <1>4, <2>3
  <2> QED BY <2>2, <2>4, EndsAre
<1>6. D = UNION {Freed(mem, First(L[k])) : k \in {l \in P : L[l] # <<>>}}
  <2> DEFINE E == UNION {Freed(mem, First(L[k])) : k \in {l \in P : L[l] # <<>>}}
  <2>1. ASSUME NEW y \in D PROVE y \in E
    <3>1. PICK f \in ToSet(parsing) : f.head # Null /\ y \in Freed(mem, f.head)
      OBVIOUS
    <3>2. PICK d \in 1..m : f = parsing[d]
      BY <1>12, <3>1
    <3>3. MaxNodes + d \in P /\ L[MaxNodes + d] # <<>> /\ y \in Freed(mem, First(L[MaxNodes + d]))
      BY <1>5, <3>1, <3>2
    <3> HIDE DEF P
    <3> QED BY <3>3
  <2>2. ASSUME NEW y \in E PROVE y \in D
    <3>1. PICK k \in P : L[k] # <<>> /\ y \in Freed(mem, First(L[k]))
      OBVIOUS
    <3>2. PICK d \in 1..m : k = MaxNodes + d
      BY <3>1
    <3>3. /\ parsing[d] \in ToSet(parsing) /\ parsing[d].head # Null
          /\ y \in Freed(mem, parsing[d].head)
      <4>1. parsing[d] \in ToSet(parsing)
        BY <1>12
      <4> QED BY <1>5, <3>1, <3>2, <4>1
    <3> QED BY <3>3
  <2> HIDE DEF D, E
  <2>3. D = E
    BY <2>1, <2>2
  <2> QED BY <2>3 DEF E
<1> HIDE DEF D, R, P
<1>7. Grove(L, D, P)
  <2>1. P \in SUBSET Nat
    BY <1>4
  <2> QED BY <1>3, <1>6, <2>1, FreedLists
<1>8. Good(mem', alloc', R, Emptied(L, P \cup D), {})
  <2>1. Good(Cleared(mem, D), alloc \ D, R, Emptied(L, P \cup D), {})
    BY <1>3, <1>4, <1>7, Pruned
  <2> QED BY <1>2, <2>1
<1>9. Quiet(Emptied(L, P \cup D))
  <2>1. ASSUME NEW l \in Nat \ Node, l \notin P PROVE L[l] = <<>>
    <3>1. l = 0 \/ l > MaxNodes + m
      <4>1. l > MaxNodes /\ l <= MaxNodes + m => l - MaxNodes \in 1..m /\ l = MaxNodes + (l - MaxNodes)
        BY <1>1, NodesAre
      <4>2. l = 0 \/ l > MaxNodes
        BY NodesAre DEF Node
      <4>3. ~(l > MaxNodes /\ l <= MaxNodes + m)
        BY <2>1, <4>1 DEF P
      <4> HIDE DEF m
      <4> QED BY <1>1, <4>2, <4>3, NodesAre
    <3> QED BY <1>3, <3>1 DEF Covers
  <2> QED BY <2>1 DEF Quiet, Emptied
<1>10. NamesRight(mem')
  BY <1>1, <1>2, NamesFreed
<1>11. Tree(mem', alloc', R)
  BY <1>8, <1>9, <1>10 DEF Tree
<1> QED BY <1>2, <1>11 DEF Sound, R

-----------------------------------------------------------------------------
(* cJSON_Duplicate of one item                                             *)

\* The copying call d has an item of its own, and adds to its children.
Copies(h, cs, d, L) ==
    /\ L[MaxNodes + d] = <<cs[d].new>>
    /\ cs[d].last = Final(L[cs[d].new])
    /\ ~h[cs[d].new].isReference
    /\ d < Len(cs) => cs[d].rest # Null

News(cs) == {cs[d].new : d \in 1..Len(cs)}

CopiesAll(h, cs, L) == \A d \in 1..Len(cs) : Copies(h, cs, d, L)

Copying(h, al, R, cs) ==
    /\ cs \in Seq(CopyFrame) /\ NamesRight(h)
    /\ \E L \in [Nat -> Seq(Node)] :
          Good(h, al, R, L, News(cs)) /\ Covers(L, Len(cs)) /\ CopiesAll(h, cs, L)

\* When no call runs, every list is an item's.
LEMMA NoneCopying ==
    ASSUME NEW h, NEW al, NEW R
    PROVE  Copying(h, al, R, <<>>) <=> Tree(h, al, R)
<1>1. Len(<<>>) = 0 /\ <<>> \in Seq(CopyFrame) /\ 1..0 = {}
  OBVIOUS
<1>2. News(<<>>) = {} /\ \A L : CopiesAll(h, <<>>, L)
  BY <1>1 DEF News, CopiesAll
<1>3. \A L : Covers(L, 0) <=> Quiet(L)
  BY PlacesAre DEF Covers, Quiet
<1>4. ASSUME Tree(h, al, R) PROVE Copying(h, al, R, <<>>)
  <2>1. NamesRight(h) /\ \E L \in [Nat -> Seq(Node)] : Good(h, al, R, L, {}) /\ Quiet(L)
    BY <1>4, TreeHas
  <2> QED BY <1>1, <1>2, <1>3, <2>1 DEF Copying
<1>5. ASSUME Copying(h, al, R, <<>>) PROVE Tree(h, al, R)
  BY <1>1, <1>2, <1>3, <1>5 DEF Copying, Tree
<1> QED BY <1>4, <1>5

\* What cJSON_Duplicate copies of an item.
LEMMA CopyOfIs ==
    ASSUME mem \in [Node -> Cell], NamesRight(mem), NEW x \in Node
    PROVE  /\ CopyOf(x) \in Cell /\ CopyOf(x).next = Null /\ CopyOf(x).child = Null
           /\ ~CopyOf(x).isReference /\ NameRight(CopyOf(x))
<1> DEFINE c == mem[x]
           s == IF c.stringIsConst THEN c.string
                ELSE [c.string EXCEPT !.heap = c.string # NoString]
<1>1. c \in Cell /\ c.string \in String /\ c.stringIsConst \in BOOLEAN /\ NameRight(c)
  <2>1. c \in Cell /\ NameRight(c)
    BY DEF NamesRight
  <2> HIDE DEF c
  <2>2. c.string \in String /\ c.stringIsConst \in BOOLEAN
    BY <2>1 DEF Cell
  <2> QED BY <2>1, <2>2
<1>2. [NoString EXCEPT !.heap = FALSE] = NoString
  <2>1. \A a, b : [[name |-> a, heap |-> b] EXCEPT !.heap = b] = [name |-> a, heap |-> b]
    OBVIOUS
  <2> QED BY ONLY <2>1 DEF NoString
<1>3. c.string # NoString => c.string \in [name : Name, heap : BOOLEAN]
  BY <1>1 DEF String, NoString
<1>4. NoString \in String
  BY DEF String, NoString
<1>5. s \in String /\ (s # NoString => (c.stringIsConst <=> ~s.heap))
  <2>1. CASE c.stringIsConst
    BY <1>1, <2>1 DEF NameRight
  <2>2. CASE ~c.stringIsConst /\ c.string = NoString
    <3>1. s = [NoString EXCEPT !.heap = FALSE]
      BY <2>2
    <3> HIDE DEF s
    <3> QED BY <1>2, <1>4, <3>1
  <2>3. CASE ~c.stringIsConst /\ c.string # NoString
    <3>1. s = [c.string EXCEPT !.heap = TRUE]
      BY <2>3
    <3>2. c.string \in [name : Name, heap : BOOLEAN]
      BY <1>3, <2>3
    <3> HIDE DEF s, c
    <3>3. s \in [name : Name, heap : BOOLEAN] /\ s.heap
      BY <3>1, <3>2
    <3>4. s \in String
      BY <3>3 DEF String
    <3> QED BY <2>3, <3>3, <3>4
  <2> QED BY <2>1, <2>2, <2>3
<1>6. CopyOf(x) = [Zeroed EXCEPT !.stringIsConst = c.stringIsConst, !.string = s]
  BY DEF CopyOf
<1> HIDE DEF c, s
<1>7. /\ CopyOf(x) \in Cell /\ CopyOf(x).next = Null /\ CopyOf(x).child = Null
      /\ ~CopyOf(x).isReference
      /\ CopyOf(x).stringIsConst = c.stringIsConst /\ CopyOf(x).string = s
  BY <1>1, <1>5, <1>6, ZeroedIs DEF Cell
<1>8. NameRight(CopyOf(x))
  BY <1>5, <1>7 DEF NameRight
<1> QED BY <1>7, <1>8

\* cJSON_Duplicate of one item keeps memory sound.
LEMMA SoundCopyItem ==
    ASSUME Sound(mem, alloc, held, leaked), NEW x \in alloc, CopyItem(x)
    PROVE  Sound(mem', alloc', held', leaked')
<1> DEFINE n == NewNode
           R == held \cup leaked
<1>1. /\ alloc # Node /\ mem' = [mem EXCEPT ![n] = CopyOf(x)]
      /\ alloc' = alloc \cup {n} /\ held' = held \cup {n} /\ leaked' = leaked
  BY DEF CopyItem
<1>2. n \in Node \ alloc
  BY <1>1, SoundIs, NewIs
<1> HIDE DEF n
<1>3. /\ Tree(mem, alloc, R) /\ R \subseteq alloc /\ held \cap leaked = {}
      /\ x \in Node /\ mem \in [Node -> Cell]
  BY SoundIs
<1>4. NamesRight(mem)
  BY <1>3, TreeHas
<1>5. /\ CopyOf(x) \in Cell /\ CopyOf(x).next = Null
      /\ (CopyOf(x).isReference \/ CopyOf(x).child = Null) /\ NameRight(CopyOf(x))
  BY <1>3, <1>4, CopyOfIs
<1>6. R \cup {n} = held' \cup leaked' /\ held' \cap leaked' = {}
  BY <1>1, <1>2, <1>3
<1> HIDE DEF R
<1>7. Tree([mem EXCEPT ![n] = CopyOf(x)], alloc \cup {n}, R \cup {n})
  BY <1>2, <1>3, <1>5, NewFilled
<1> QED BY <1>1, <1>6, <1>7 DEF Sound

\* A call begins, inside of the one that runs or outside of any.
LEMMA CopyingMore ==
    ASSUME Copying(mem, alloc, held \cup leaked, copying), NEW x \in Node, Copy(x),
           copying # <<>> => Copier.rest # Null
    PROVE  Copying(mem', alloc', held' \cup leaked', copying')
<1> DEFINE m == Len(copying)
           n == NewNode
           R == held \cup leaked
           O == News(copying)
           k == MaxNodes + (m + 1)
           v == [of |-> x, new |-> n, last |-> Null, rest |-> mem[x].child]
<1>1. copying \in Seq(CopyFrame) /\ NamesRight(mem) /\ m \in Nat
  BY DEF Copying
<1>2. PICK L \in [Nat -> Seq(Node)] :
          Good(mem, alloc, R, L, O) /\ Covers(L, m) /\ CopiesAll(mem, copying, L)
  BY DEF Copying
<1>3. mem \in [Node -> Cell] /\ alloc \subseteq Node /\ R \subseteq alloc
  BY <1>2 DEF Good, Heap
<1>4. /\ alloc # Node /\ mem' = [mem EXCEPT ![n] = CopyOf(x)] /\ alloc' = alloc \cup {n}
      /\ copying' = Append(copying, v) /\ held' = held /\ leaked' = leaked
  BY DEF Copy
<1>5. n \in Node \ alloc
  BY <1>3, <1>4, NewIs
<1> HIDE DEF n
<1>6. /\ v \in CopyFrame /\ v.new = n /\ v.last = Null
  <2>1. mem[x].child \in Node \cup {Null}
    BY <1>3, LinksAre
  <2> QED BY <1>5, <2>1 DEF CopyFrame
<1> HIDE DEF v
<1>7. /\ copying' \in Seq(CopyFrame) /\ Len(copying') = m + 1 /\ copying'[m + 1] = v
      /\ \A d \in 1..m : copying'[d] = copying[d]
  BY <1>1, <1>4, <1>6
<1>8. /\ CopyOf(x) \in Cell /\ CopyOf(x).next = Null /\ CopyOf(x).child = Null
      /\ ~CopyOf(x).isReference /\ NameRight(CopyOf(x))
  BY <1>1, <1>3, CopyOfIs
<1>9. mem'[n] = CopyOf(x) /\ mem' \in [Node -> Cell] /\ \A e \in Node \ {n} : mem'[e] = mem[e]
  BY <1>3, <1>4, <1>5, <1>8
<1>10. NamesRight(mem')
  BY <1>1, <1>8, <1>9 DEF NamesRight
<1>11. Good(mem', alloc \cup {n}, R \cup {n}, L, O) /\ L[n] = <<>>
  <2>1. Good(mem, alloc, R, L, O) /\ SameBut(mem, mem', n)
    BY <1>2, <1>9 DEF SameBut
  <2>2. mem'[n].next = Null /\ (mem'[n].isReference \/ mem'[n].child = Null)
    BY <1>8, <1>9
  <2> HIDE DEF R, O, k, m
  <2>3. Good(mem, alloc \cup {n}, R \cup {n}, L, O)
    BY <1>5, <2>1, Allocated
  <2>4. L[n] = <<>> /\ n \in R \cup {n}
    BY <1>5, <2>1 DEF Good, Heap, Owns
  <2>5. Good(mem', alloc \cup {n}, R \cup {n}, L, O)
    BY <2>1, <2>2, <2>3, <2>4, Filled
  <2> QED BY <2>4, <2>5
<1>12. k \in Nat \ Node /\ k \in Nat /\ k \notin Node /\ k > MaxNodes + m
  <2>1. m + 1 \in Nat \ {0} /\ m + 1 > m
    BY <1>1
  <2> HIDE DEF m
  <2> QED BY <1>1, <2>1, PlacesAre
<1>13. L[k] = <<>>
  <2> HIDE DEF k
  <2> QED BY <1>2, <1>12 DEF Covers
<1> DEFINE M == [L EXCEPT ![k] = <<n>>]
<1>14. Good(mem', alloc', R, M, O \cup {n})
  <2>1. n \in R \cup {n} /\ O \ {k} \subseteq O \cup {n} /\ (R \cup {n}) \ {n} = R
    BY <1>3, <1>5
  <2> HIDE DEF R, O, k
  <2>2. Good(mem', alloc \cup {n}, (R \cup {n}) \ {n}, M, O \cup {n})
    BY <1>11, <1>12, <1>13, <2>1, Started
  <2> QED BY <1>4, <2>1, <2>2
<1>15. M \in [Nat -> Seq(Node)] /\ M[k] = <<n>> /\ \A l \in Nat : l # k => M[l] = L[l]
  <2> HIDE DEF k
  <2> QED BY <1>5, <1>12
<1> HIDE DEF M
<1>16. News(copying') = O \cup {n}
  <2>12. m \in Nat
    BY <1>1
  <2> HIDE DEF m
  <2>1. \A d \in 1..(m + 1) : d \in 1..m \/ d = m + 1
    BY <2>12
  <2>2. m + 1 \in 1..(m + 1) /\ \A d \in 1..m : d \in 1..(m + 1)
    BY <2>12
  <2> USE DEF m
  <2> QED BY <1>6, <1>7, <2>1, <2>2 DEF News
<1>17. ASSUME NEW d \in 1..(m + 1) PROVE Copies(mem', copying', d, M)
  <2>1. CASE d = m + 1
    <3>1. copying'[d] = v /\ ~(d < Len(copying')) /\ MaxNodes + d = k
      BY <1>1, <1>7, <2>1
    <3>2. n \in Nat /\ n # k
      BY <1>5, <1>12, NodesAre
    <3>3. M[n] = <<>> /\ Final(<<>>) = Null
      BY <1>11, <1>15, <3>2, EmptyList
    <3> HIDE DEF k
    <3> QED BY <1>6, <1>8, <1>9, <1>15, <3>1, <3>3 DEF Copies
  <2>2. CASE d # m + 1
    <3>1. d \in 1..m /\ d \in Nat
      <4>1. m \in Nat /\ d \in 1..(m + 1) /\ d # m + 1
        BY <1>1, <2>2
      <4> HIDE DEF m
      <4> QED BY <4>1
    <3>2. Copies(mem, copying, d, L) /\ copying'[d] = copying[d] /\ copying[d].new \in Node
      <4>1. copying[d] \in CopyFrame
        BY <1>1, <3>1
      <4> QED BY <1>2, <1>7, <3>1, <4>1 DEF CopiesAll, CopyFrame
    <3>3. MaxNodes + d \in Nat /\ MaxNodes + d # k /\ copying[d].new \in Nat /\ copying[d].new # k
      <4>1. MaxNodes + d \in Nat /\ MaxNodes + d # k
        BY <1>1, <3>1, NodesAre
      <4> QED BY <1>12, <3>2, <4>1, NodesAre
    <3>4. M[MaxNodes + d] = L[MaxNodes + d] /\ M[copying[d].new] = L[copying[d].new]
      BY <1>15, <3>3
    <3>5. ~mem'[copying[d].new].isReference
      BY <1>8, <1>9, <3>2 DEF Copies
    <3>6. copying[d].rest # Null
      <4>1. CASE d < m
        BY <3>2, <4>1 DEF Copies
      <4>2. CASE d = m
        <5>1. copying # <<>>
          BY <3>1
        <5> QED BY <1>1, <4>2, <5>1, LastIs DEF Copier
      <4>3. d < m \/ d = m
        BY <1>1, <3>1
      <4> QED BY <4>1, <4>2, <4>3
    <3> QED BY <3>2, <3>4, <3>5, <3>6 DEF Copies
  <2> QED BY <2>1, <2>2
<1>18. CopiesAll(mem', copying', M)
  BY <1>7, <1>17 DEF CopiesAll
<1>19. Covers(M, m + 1)
  <2>1. \A l \in Nat : l > MaxNodes + (m + 1) => l > MaxNodes + m
    BY <1>1, NodesAre
  <2>2. k # 0 /\ ~(k > MaxNodes + (m + 1))
    <3>1. m \in Nat
      BY <1>1
    <3> HIDE DEF m
    <3> QED BY <3>1, NodesAre
  <2> HIDE DEF k
  <2> QED BY <1>2, <1>15, <2>1, <2>2 DEF Covers
<1>20. Good(mem', alloc', R, M, News(copying'))
  BY <1>14, <1>16
<1>21. Copying(mem', alloc', R, copying')
  BY <1>7, <1>10, <1>15, <1>18, <1>19, <1>20 DEF Copying
<1> QED BY <1>4, <1>21

-----------------------------------------------------------------------------
(* cJSON_Duplicate, call by call                                           *)

\* The call d has an item of its own, and no other call has it.
LEMMA NewsApart ==
    ASSUME NEW h, NEW al, NEW R, NEW cs \in Seq(CopyFrame), NEW L, NEW O, Good(h, al, R, L, O),
           CopiesAll(h, cs, L), NEW d \in 1..Len(cs)
    PROVE  /\ cs[d].new \in Node /\ cs[d].new \in Nat /\ cs[d].new \in al /\ cs[d] \in CopyFrame
           /\ MaxNodes + d \in Nat \ Node /\ L[MaxNodes + d] = <<cs[d].new>>
           /\ \A e \in 1..Len(cs) : cs[e].new = cs[d].new => e = d
<1> DEFINE m == Len(cs)
<1>1. m \in Nat
  OBVIOUS
<1>2. \A e \in 1..m : cs[e] \in CopyFrame
  OBVIOUS
<1>3. \A e \in 1..m : Copies(h, cs, e, L)
  BY DEF CopiesAll
<1> HIDE DEF m
<1>4. \A e \in 1..m : e \in Nat \ {0}
  BY <1>1
<1>5. \A e \in 1..m : /\ cs[e].new \in Node /\ MaxNodes + e \in Nat \ Node
                      /\ L[MaxNodes + e] = <<cs[e].new>>
  BY <1>2, <1>3, <1>4, PlacesAre DEF CopyFrame, Copies
<1>6. \A x : Elems(<<x>>) = {x}
  BY DEF Elems
<1>7. cs[d].new \in al
  BY <1>5, <1>6 DEF m, Good, Lists
<1>8. ASSUME NEW e \in 1..m, cs[e].new = cs[d].new, e # d PROVE FALSE
  <2>1. MaxNodes + e # MaxNodes + d
    BY <1>4, <1>8, PlacesAre DEF m
  <2>2. Elems(L[MaxNodes + e]) \cap Elems(L[MaxNodes + d]) = {}
    BY <1>5, <2>1 DEF m, Good, Apart
  <2> QED BY <1>5, <1>6, <1>8, <2>2 DEF m
<1> QED BY <1>2, <1>5, <1>7, <1>8, NodesAre DEF m

\* The children of the copy are complete: the first knows the last.
LEMMA CopiedIs ==
    ASSUME NEW R, NEW L, NEW O, Good(mem, alloc, R, L, O), copying \in Seq(CopyFrame),
           copying # <<>>, CopiesAll(mem, copying, L)
    PROVE  Becomes(mem, Copied, alloc, R, L, O \ {Copier.new})
<1> DEFINE m == Len(copying)
           u == Copier.new
           s == L[u]
<1>1. Copier = copying[m] /\ m \in 1..m
  BY LastIs DEF Copier
<1>2. u \in Node /\ u \in Nat /\ u \in alloc /\ Copier \in CopyFrame
  BY <1>1, NewsApart
<1>3. Copier.last = Final(s) /\ ~mem[u].isReference
  BY <1>1 DEF CopiesAll, Copies
<1>4. s \in Seq(Node) /\ mem \in [Node -> Cell]
  BY <1>2, GoodIs, SMTT(40)
<1>5. mem[u].child = First(s)
  <2>1. \A n \in Node : n \in alloc /\ ~mem[n].isReference => mem[n].child = First(L[n])
    BY GoodIs
  <2> HIDE DEF u
  <2> QED BY <1>2, <1>3, <2>1
<1>6. /\ First(s) \in Node \cup {Null} /\ Final(s) \in Node \cup {Null}
      /\ First(s) = Null <=> s = <<>>
  BY <1>4, EndsAre
<1>7. CASE s = <<>>
  <2>1. Copied = mem
    BY <1>5, <1>6, <1>7 DEF Copied
  <2>2. \A n \in O \ (O \ {u}) : n \in alloc => L[n] = <<>>
    BY <1>7
  <2> HIDE DEF u
  <2>3. Good(mem, alloc, R, L, O \ {u})
    BY <2>2, Settled
  <2>4. Alike(mem, mem)
    BY <1>4 DEF Alike, Keeps
  <2> QED BY <2>1, <2>3, <2>4 DEF Becomes, u
<1>8. CASE s # <<>>
  <2>1. Copied = [mem EXCEPT ![First(s)].prev = Final(s)]
    BY <1>3, <1>5, <1>6, <1>8 DEF Copied
  <2>2. PrevSet(mem, Copied, First(s), Final(s)) /\ First(s) \in Node
    BY <1>4, <1>6, <1>8, <2>1, FieldsSet
  <2>3. O \ {u} \subseteq O \ {u}
    OBVIOUS
  <2>4. Alike(mem, Copied)
    BY <1>4, <2>2, AlikeSet
  <2> HIDE DEF u
  <2>5. Good(Copied, alloc, R, L, O \ {u})
    BY <1>2, <1>8, <2>2, <2>3, Ended
  <2> QED BY <2>4, <2>5 DEF Becomes, u
<1> QED BY <1>7, <1>8

\* The copy is the caller's.
LEMMA CopyingEnd ==
    ASSUME Copying(mem, alloc, held \cup leaked, copying), held \cap leaked = {}, CopyEnd
    PROVE  Sound(mem', alloc', held', leaked')
<1> DEFINE R == held \cup leaked
           u == Copier.new
           k == MaxNodes + 1
<1>1. copying \in Seq(CopyFrame) /\ NamesRight(mem)
  BY DEF Copying
<1>2. /\ Len(copying) = 1 /\ copying # <<>> /\ held' = held \cup {u}
      /\ mem' = Copied /\ alloc' = alloc /\ leaked' = leaked
  BY <1>1 DEF CopyEnd
<1>3. PICK L \in [Nat -> Seq(Node)] :
          Good(mem, alloc, R, L, News(copying)) /\ Covers(L, 1) /\ CopiesAll(mem, copying, L)
  BY <1>2 DEF Copying
<1>4. Copier = copying[1] /\ 1 \in 1..Len(copying)
  <2>1. Copier = copying[Len(copying)]
    BY <1>1, <1>2, LastIs DEF Copier
  <2> QED BY <1>2, <2>1
<1>5. L[k] = <<u>> /\ k \in Nat \ Node
  <2>1. L[MaxNodes + 1] = <<copying[1].new>> /\ MaxNodes + 1 \in Nat \ Node
    BY <1>3, <1>4, PlacesAre DEF CopiesAll, Copies
  <2> QED BY <1>4, <2>1
<1>6. News(copying) \ {u} = {}
  BY <1>2, <1>4 DEF News
<1>7. Becomes(mem, Copied, alloc, R, L, {})
  <2>1. Becomes(mem, Copied, alloc, R, L, News(copying) \ {u})
    BY <1>1, <1>2, <1>3, CopiedIs
  <2> QED BY <1>6, <2>1
<1> HIDE DEF R, u, k
<1>8. Good(Copied, alloc, R \cup {u}, [L EXCEPT ![k] = <<>>], {}) /\ u \in alloc \ R
  BY <1>5, <1>7, Returned DEF Becomes
<1>9. Quiet([L EXCEPT ![k] = <<>>])
  <2>1. ASSUME NEW l \in Nat \ Node, l # k PROVE L[l] = <<>>
    <3>1. l = 0 \/ l > MaxNodes + 1
      BY <2>1, NodesAre DEF Node, k
    <3> QED BY <1>3, <3>1 DEF Covers
  <2> QED BY <1>3, <1>5, <2>1 DEF Quiet
<1>10. R \cup {u} = held' \cup leaked' /\ held' \cap leaked' = {}
  BY <1>2, <1>8 DEF R
<1>11. NamesRight(Copied)
  BY <1>1, <1>7, NamesAlike DEF Becomes
<1>12. Tree(Copied, alloc, R \cup {u})
  BY <1>8, <1>9, <1>11 DEF Tree
<1> QED BY <1>2, <1>10, <1>12 DEF Sound

\* There is no memory: each call deletes its item, and nothing is left of it.
LEMMA CopyingFail ==
    ASSUME Copying(mem, alloc, held \cup leaked, copying), held \cap leaked = {}, CopyFail
    PROVE  Sound(mem', alloc', held', leaked')
<1> DEFINE m == Len(copying)
           R == held \cup leaked
           D == UNION {Freed(mem, f.new) : f \in ToSet(copying)}
           P == {MaxNodes + d : d \in 1..m}
<1>1. copying \in Seq(CopyFrame) /\ NamesRight(mem) /\ m \in Nat
  BY DEF Copying
<1>2. ToSet(copying) = {copying[d] : d \in 1..m}
  BY <1>1, SetOf
<1>3. mem' = Cleared(mem, D) /\ alloc' = alloc \ D /\ held' = held /\ leaked' = leaked
  BY DEF CopyFail, Free, Cleared
<1>4. PICK L \in [Nat -> Seq(Node)] :
          Good(mem, alloc, R, L, News(copying)) /\ Covers(L, m) /\ CopiesAll(mem, copying, L)
  BY DEF Copying
<1>5. ASSUME NEW d \in 1..m
      PROVE  /\ MaxNodes + d \in Nat \ Node /\ MaxNodes + d \in P
             /\ L[MaxNodes + d] # <<>> /\ copying[d].new = First(L[MaxNodes + d])
             /\ Elems(L[MaxNodes + d]) = {copying[d].new}
  <2>1. MaxNodes + d \in P
    OBVIOUS
  <2>2. \A x : First(<<x>>) = x /\ Elems(<<x>>) = {x} /\ <<x>> # <<>>
    BY DEF First, Elems
  <2>3. d \in Nat \ {0}
    BY <1>1
  <2> HIDE DEF R, D, P
  <2>4. MaxNodes + d \in Nat \ Node
    BY <2>3, PlacesAre
  <2>5. L[MaxNodes + d] = <<copying[d].new>>
    BY <1>4 DEF CopiesAll, Copies
  <2> QED BY <2>1, <2>2, <2>4, <2>5
<1>6. P \subseteq Nat \ Node
  BY <1>5
<1>7. D = UNION {Freed(mem, First(L[k])) : k \in {l \in P : L[l] # <<>>}}
  <2> DEFINE E == UNION {Freed(mem, First(L[k])) : k \in {l \in P : L[l] # <<>>}}
  <2>1. ASSUME NEW y \in D PROVE y \in E
    <3>1. PICK d \in 1..m : y \in Freed(mem, copying[d].new)
      BY <1>2
    <3>2. MaxNodes + d \in P /\ L[MaxNodes + d] # <<>> /\ y \in Freed(mem, First(L[MaxNodes + d]))
      BY <1>5, <3>1
    <3> HIDE DEF P
    <3> QED BY <3>2
  <2>2. ASSUME NEW y \in E PROVE y \in D
    <3>1. PICK k \in P : L[k] # <<>> /\ y \in Freed(mem, First(L[k]))
      OBVIOUS
    <3>2. PICK d \in 1..m : k = MaxNodes + d
      BY <3>1
    <3>3. copying[d] \in ToSet(copying) /\ y \in Freed(mem, copying[d].new)
      BY <1>2, <1>5, <3>1, <3>2
    <3> QED BY <3>3
  <2> HIDE DEF D, E
  <2>3. D = E
    BY <2>1, <2>2
  <2> QED BY <2>3 DEF E
<1> HIDE DEF D, R, P
<1>8. Grove(L, D, P)
  <2>1. P \in SUBSET Nat
    BY <1>6
  <2> QED BY <1>4, <1>7, <2>1, FreedLists
<1> DEFINE M == Emptied(L, P \cup D)
<1>9. Good(mem', alloc', R, M, News(copying))
  <2>1. Good(Cleared(mem, D), alloc \ D, R, Emptied(L, P \cup D), News(copying))
    BY <1>4, <1>6, <1>8, Pruned
  <2> QED BY <1>3, <2>1
<1>10. Good(mem', alloc', R, M, {})
  <2>1. ASSUME NEW n \in News(copying) PROVE n \notin alloc'
    <3>1. PICK d \in 1..m : n = copying[d].new
      BY DEF News
    <3>2. n \in D
      BY <1>5, <1>8, <3>1 DEF Grove
    <3> QED BY <1>3, <3>2
  <2>2. \A n \in News(copying) \ {} : n \in alloc' => M[n] = <<>>
    BY <2>1
  <2> HIDE DEF M
  <2> QED BY <1>9, <2>2, Settled
<1>11. Quiet(M)
  <2>1. ASSUME NEW l \in Nat \ Node, l \notin P PROVE L[l] = <<>>
    <3>1. l = 0 \/ l > MaxNodes + m
      <4>1. l > MaxNodes /\ l <= MaxNodes + m => l - MaxNodes \in 1..m /\ l = MaxNodes + (l - MaxNodes)
        BY <1>1, NodesAre
      <4>2. l = 0 \/ l > MaxNodes
        BY NodesAre DEF Node
      <4>3. ~(l > MaxNodes /\ l <= MaxNodes + m)
        BY <2>1, <4>1 DEF P
      <4> HIDE DEF m
      <4> QED BY <1>1, <4>2, <4>3, NodesAre
    <3> QED BY <1>4, <3>1 DEF Covers
  <2> QED BY <2>1 DEF Quiet, Emptied
<1>12. NamesRight(mem')
  BY <1>1, <1>3, NamesFreed
<1>13. Tree(mem', alloc', R)
  BY <1>10, <1>11, <1>12 DEF Tree
<1> QED BY <1>3, <1>13 DEF Sound, R

\* The item a call has copied goes behind the others of the call around it.
LEMMA CopyingReturn ==
    ASSUME Copying(mem, alloc, held \cup leaked, copying), CopyReturn
    PROVE  Copying(mem', alloc', held' \cup leaked', copying')
<1> DEFINE m == Len(copying)
           R == held \cup leaked
           O == News(copying)
           u == Copier.new
           w == copying[m - 1]
           c == w.new
           k == MaxNodes + m
           j == MaxNodes + (m - 1)
           v == [w EXCEPT !.last = u, !.rest = mem[w.rest].next]
<1>1. copying \in Seq(CopyFrame) /\ NamesRight(mem) /\ m \in Nat
  BY DEF Copying
<1>2. PICK L \in [Nat -> Seq(Node)] :
          Good(mem, alloc, R, L, O) /\ Covers(L, m) /\ CopiesAll(mem, copying, L)
  BY DEF Copying
<1>3. /\ m > 1 /\ copying # <<>>
      /\ mem' = IF w.last = Null THEN [Copied EXCEPT ![c].child = u] ELSE SuffixObject(Copied, w.last, u)
      /\ copying' = Append(Front(Front(copying)), v)
      /\ alloc' = alloc /\ held' = held /\ leaked' = leaked
  BY DEF CopyReturn
<1>4. Copier = copying[m] /\ mem \in [Node -> Cell]
  <2>1. Copier = copying[m]
    BY <1>1, <1>3, LastIs DEF Copier
  <2>2. mem \in [Node -> Cell]
    BY <1>2 DEF Good, Heap
  <2> QED BY <2>1, <2>2
<1>5. /\ m \in 1..m /\ m - 1 \in 1..m /\ m - 1 \in 1..(m - 1) /\ m - 1 < m /\ m - 1 \in Nat
      /\ m - 1 # m /\ \A d \in 1..(m - 1) : d \in 1..m /\ d # m /\ d \in Nat /\ d < m
  <2>1. m > 1
    BY <1>3
  <2> HIDE DEF m
  <2> QED BY <1>1, <2>1
<1>6. \A d \in 1..m : /\ copying[d].new \in Node /\ copying[d].new \in Nat /\ copying[d].new \in alloc
                      /\ copying[d] \in CopyFrame
                      /\ \A e \in 1..m : copying[e].new = copying[d].new => e = d
  BY <1>1, <1>2, NewsApart
<1>7. \A d \in 1..m : Copies(mem, copying, d, L)
  BY <1>2 DEF CopiesAll
<1>8. /\ \A d \in 1..m : MaxNodes + d \in Nat /\ MaxNodes + d \notin Node
      /\ \A d, e \in 1..m : MaxNodes + d = MaxNodes + e => d = e
  <2>1. \A d \in 1..m : d \in Nat \ {0}
    BY <1>1
  <2> HIDE DEF m
  <2> QED BY <2>1, PlacesAre
<1>9. /\ u \in Node /\ u \in Nat /\ c \in Node /\ c \in Nat /\ c \in alloc /\ c # u
      /\ w \in CopyFrame
  BY <1>4, <1>5, <1>6
<1>10. /\ L[k] = <<u>> /\ w.last = Final(L[c]) /\ ~mem[c].isReference /\ w.rest # Null
  <2>1. Copies(mem, copying, m, L) /\ Copies(mem, copying, m - 1, L)
    BY <1>5, <1>7
  <2> QED BY <1>4, <1>5, <2>1 DEF Copies
<1>11. k \in Nat \ Node /\ k \in Nat /\ c # k /\ u # k
  BY <1>5, <1>8, <1>9
<1>12. Becomes(mem, Copied, alloc, R, L, O \ {u})
  BY <1>1, <1>2, <1>3, CopiedIs
<1> HIDE DEF u, w, c, k, O, R
<1> DEFINE L1 == [L EXCEPT ![k] = <<>>]
           M  == [L1 EXCEPT ![c] = Append(L1[c], u)]
<1>13. Good(Copied, alloc, R \cup {u}, L1, O \ {u}) /\ u \in alloc \ R
  <2> DEFINE Q == O \ {u}
             g == Copied
  <2>1. Good(g, alloc, R, L, Q) /\ L[k] = <<u>>
    BY <1>10, <1>12 DEF Becomes
  <2> HIDE DEF M, Q, g
  <2>2. Good(g, alloc, R \cup {u}, [L EXCEPT ![k] = <<>>], Q)
    BY <1>11, <2>1, Returned, ZenonT(60)
  <2>3. u \in alloc \ R
    <3>1. Elems(L[k]) \subseteq alloc \ R
      BY <1>11, <2>1 DEF Good, Lists
    <3> QED BY <2>1, <3>1 DEF Elems
  <2> QED BY <2>2, <2>3 DEF Q, g
<1>14. L1 \in [Nat -> Seq(Node)] /\ L1[k] = <<>> /\ \A l \in Nat : l # k => L1[l] = L[l]
  BY <1>11
<1> HIDE DEF L1
<1>15. M \in [Nat -> Seq(Node)] /\ M[c] = Append(L1[c], u) /\ \A l \in Nat : l # c => M[l] = L1[l]
  <2>1. L1[c] \in Seq(Node) /\ Append(L1[c], u) \in Seq(Node)
    BY <1>9, <1>14
  <2> QED BY <1>9, <1>14, <2>1
<1>16. L1[c] = L[c] /\ L1[c] \in Seq(Node) /\ w.last = Final(L1[c])
  BY <1>9, <1>10, <1>11, <1>14
<1>17. c \in O \ {u}
  <2>1. c \in O
    BY <1>5 DEF c, w, O, News
  <2> QED BY <1>9, <2>1
<1>18. Copied \in [Node -> Cell] /\ ~Copied[c].isReference /\ Alike(mem, Copied)
  BY <1>9, <1>10, <1>12 DEF Becomes, Alike, Keeps
<1>19. Good(mem', alloc, R, M, O \ {u}) /\ Alike(Copied, mem')
  <2>1. /\ u \in R \cup {u} /\ (R \cup {u}) \ {u} = R
        /\ (O \ {u}) \ {c} \subseteq O \ {u}
    BY <1>13
  <2> DEFINE Q == O \ {u}
             S == R \cup {u}
  <2>2. CASE w.last = Null
    <3>1. L1[c] = <<>>
      BY <1>16, <2>2, EndsAre
    <3>2. ChildSet(Copied, mem', c, u)
      BY <1>3, <1>9, <1>18, <2>2, FieldsSet
    <3>3. M = [L1 EXCEPT ![c] = <<u>>]
      BY <1>9, <3>1, AppendIs
    <3>4. Good(Copied, alloc, S, L1, Q) /\ Q \ {c} \subseteq Q /\ u \in S /\ c \in Q
      BY <1>13, <1>17, <2>1
    <3> HIDE DEF Q, S, M
    <3>5. Good(mem', alloc, S \ {u}, [L1 EXCEPT ![c] = <<u>>], Q)
      BY <1>9, <1>18, <3>1, <3>2, <3>4, Started
    <3>6. Alike(Copied, mem')
      BY <1>9, <1>18, <3>2, AlikeSet
    <3> QED BY <2>1, <3>3, <3>5, <3>6 DEF Q, S
  <2>3. CASE w.last # Null
    <3>1. L1[c] # <<>>
      BY <1>16, <2>3, EndsAre
    <3>2. mem' = SuffixObject(Copied, Final(L1[c]), u) /\ Final(L1[c]) \in Node
      BY <1>3, <1>16, <2>3, EndsAre
    <3>3. Good(Copied, alloc, S, L1, Q) /\ Q \ {c} \subseteq Q /\ u \in S /\ c \in Q
      BY <1>13, <1>17, <2>1
    <3> HIDE DEF Q, S, M
    <3>4. Good(mem', alloc, S \ {u}, [L1 EXCEPT ![c] = Append(L1[c], u)], Q)
      BY <1>9, <3>1, <3>2, <3>3, Suffixed
    <3>5. Within(Copied, mem', {Final(L1[c]), u}, 0)
      BY <1>9, <1>18, <3>2, SuffixWithin
    <3> QED BY <2>1, <3>4, <3>5 DEF Q, S, M, Within
  <2> QED BY <2>2, <2>3
<1>20. Alike(mem, mem')
  BY <1>18, <1>19, AlikeAlike
<1>21. Final(M[c]) = u
  BY <1>9, <1>15, <1>16, AppendIs
<1> HIDE DEF M
<1>22. v \in CopyFrame /\ v.new = c /\ v.last = u
  <2>1. w.rest \in Node
    BY <1>9, <1>10 DEF CopyFrame
  <2>2. mem[w.rest].next \in Node \cup {Null}
    BY <1>4, <2>1, LinksAre
  <2> QED BY <1>9, <2>2 DEF CopyFrame, c
<1> HIDE DEF v
<1>23. /\ copying' \in Seq(CopyFrame) /\ Len(copying') = m - 1 /\ copying'[m - 1] = v
       /\ \A d \in 1..(m - 1) : d # m - 1 => copying'[d] = copying[d]
  <2> DEFINE s == Front(copying)
             t == Front(s)
  <2>1. s \in Seq(CopyFrame) /\ Len(s) = m - 1 /\ \A d \in 1..(m - 1) : s[d] = copying[d]
    BY <1>1, <1>3, LastIs
  <2> HIDE DEF s
  <2>2. s # <<>> /\ Len(s) \in Nat
    <3>1. Len(s) > 0
      BY <1>5, <2>1
    <3> QED BY <2>1, <3>1
  <2>3. OtherLast(CopyFrame, s, Append(t, v), v)
    BY <1>22, <2>1, <2>2, LastSet
  <2>4. copying' = Append(t, v)
    BY <1>3 DEF s
  <2> HIDE DEF t, m
  <2>5. /\ copying' \in Seq(CopyFrame) /\ Len(copying') = m - 1 /\ copying'[m - 1] = v
        /\ \A d \in 1..((m - 1) - 1) : copying'[d] = s[d]
    BY <2>1, <2>3, <2>4 DEF OtherLast
  <2>6. \A d \in 1..(m - 1) : d # m - 1 => d \in 1..((m - 1) - 1)
    BY <1>1
  <2> QED BY <2>1, <2>5, <2>6
<1>24. \A d \in 1..(m - 1) : copying'[d].new = copying[d].new
  BY <1>22, <1>23 DEF c, w
<1>25. News(copying') = O \ {u}
  <2>1. News(copying') = {copying[d].new : d \in 1..(m - 1)}
    BY <1>23, <1>24 DEF News
  <2>2. u = copying[m].new
    BY <1>4 DEF u
  <2>3. \A d \in 1..m : d = m \/ d \in 1..(m - 1)
    <3> HIDE DEF m
    <3> QED BY <1>1
  <2>4. ASSUME NEW x \in News(copying') PROVE x \in O /\ x # u
    <3>1. PICK d \in 1..(m - 1) : x = copying[d].new
      BY <2>1
    <3>2. d \in 1..m /\ d # m
      BY <1>5
    <3>3. x # u
      BY <1>5, <1>6, <2>2, <3>1, <3>2
    <3> QED BY <3>1, <3>2, <3>3 DEF O, News
  <2>5. ASSUME NEW x \in O, x # u PROVE x \in News(copying')
    <3>1. PICK d \in 1..m : x = copying[d].new
      BY DEF O, News
    <3>2. d \in 1..(m - 1)
      BY <2>2, <2>3, <2>5, <3>1
    <3> QED BY <2>1, <3>1, <3>2
  <2> QED BY <2>4, <2>5
<1>26. ASSUME NEW d \in 1..(m - 1) PROVE Copies(mem', copying', d, M)
  <2>1. d \in 1..m /\ d # m /\ d < m
    BY <1>5
  <2>2. Copies(mem, copying, d, L) /\ copying[d].new \in Node /\ copying[d].new \in Nat
    BY <1>6, <1>7, <2>1
  <2>3. MaxNodes + d \in Nat /\ MaxNodes + d \notin Node /\ MaxNodes + d # k
    BY <1>5, <1>8, <2>1 DEF k
  <2>4. M[MaxNodes + d] = L[MaxNodes + d]
    BY <1>9, <1>14, <1>15, <2>3
  <2>5. ~mem'[copying[d].new].isReference
    BY <1>20, <2>2 DEF Alike, Keeps, Copies
  <2>6. CASE d = m - 1
    <3>1. copying'[d] = v /\ copying[d].new = c
      BY <1>23, <2>6 DEF c, w
    <3>2. ~(d < Len(copying'))
      BY <1>5, <1>23, <2>6
    <3> HIDE DEF m
    <3> QED BY <1>21, <1>22, <2>2, <2>4, <2>5, <3>1, <3>2 DEF Copies
  <2>7. CASE d # m - 1
    <3>1. copying'[d] = copying[d]
      BY <1>23, <2>7
    <3>2. d < Len(copying)
      BY <2>1
    <3>3. copying[d].new # c
      BY <1>5, <1>6, <2>1, <2>7 DEF c, w
    <3>4. copying[d].new # k
      BY <1>11, <2>2
    <3>5. M[copying[d].new] = L[copying[d].new]
      BY <1>14, <1>15, <2>2, <3>3, <3>4
    <3> HIDE DEF m
    <3> QED BY <2>2, <2>4, <2>5, <3>1, <3>2, <3>5 DEF Copies
  <2> QED BY <2>6, <2>7
<1>27. CopiesAll(mem', copying', M)
  BY <1>23, <1>26 DEF CopiesAll
<1>28. Covers(M, m - 1)
  <2>1. ASSUME NEW l \in Nat \ Node, l = 0 \/ l > MaxNodes + (m - 1) PROVE M[l] = <<>>
    <3>1. M[l] = L1[l]
      BY <1>9, <1>15
    <3>2. CASE l = k
      BY <1>14, <3>1, <3>2
    <3>3. CASE l # k
      <4>1. l = 0 \/ l > MaxNodes + m
        <5> HIDE DEF m
        <5> QED BY <1>1, <2>1, <3>3, NodesAre DEF k
      <4>2. L1[l] = L[l]
        BY <1>14, <3>3
      <4> QED BY <1>2, <3>1, <4>1, <4>2 DEF Covers
    <3> QED BY <3>2, <3>3
  <2> QED BY <2>1 DEF Covers
<1>29. NamesRight(mem')
  BY <1>1, <1>20, NamesAlike
<1>30. Copying(mem', alloc', R, copying')
  <2>1. Good(mem', alloc', R, M, News(copying'))
    BY <1>3, <1>19, <1>25
  <2>2. Covers(M, Len(copying'))
    BY <1>23, <1>28
  <2> QED BY <1>15, <1>23, <1>27, <1>29, <2>1, <2>2 DEF Copying
<1> QED BY <1>3, <1>30 DEF R

-----------------------------------------------------------------------------
(* cJSON_CreateIntArray and the like: the cells                            *)

\* Free cells become roots without children.
LEMMA AllAllocated ==
    ASSUME NEW h, NEW al, NEW R, NEW L, NEW O, Good(h, al, R, L, O), NEW N, N \subseteq Node \ al
    PROVE  Good(h, al \cup N, R \cup N, L, O)
<1>1. \A n \in N : h[n] = Zeroed
  BY DEF Good, Heap
<1>2. \A n \in N : h[n].next = Null /\ h[n].child = Null /\ ~h[n].isReference /\ L[n] = <<>>
  <2>1. \A n \in N : L[n] = <<>>
    BY DEF Good, Owns
  <2> QED BY <1>1, <2>1, ZeroedIs
<1>3. Heap(h, al \cup N, R \cup N)
  BY <1>2 DEF Good, Heap
<1>4. Lists(h, al \cup N, R \cup N, L)
  BY DEF Good, Lists
<1>5. Held(al \cup N, R \cup N, L)
  BY DEF Good, Held
<1>6. Owns(h, al \cup N, L, O)
  <2>1. ASSUME NEW m \in Node
        PROVE  IF m \in al \cup N /\ ~h[m].isReference
               THEN /\ h[m].child = First(L[m])
                    /\ m \notin O /\ L[m] # <<>> => h[L[m][1]].prev = Final(L[m])
               ELSE L[m] = <<>>
    <3>1. CASE m \in N
      BY <1>2, <3>1, EmptyList
    <3>2. CASE m \notin N
      BY <3>2 DEF Good, Owns
    <3> QED BY <3>1, <3>2
  <2> QED BY <2>1 DEF Owns
<1> QED BY <1>3, <1>4, <1>5, <1>6 DEF Good

\* The cells of an array: that many, and all different.
Cells(n) == CHOOSE s \in Injection(1..n, Node \ alloc) : TRUE

\* The cells a cJSON_Create...Array call takes are free, and no two are one.
LEMMA CellsAre ==
    ASSUME NEW n \in Nat, n <= Cardinality(Node \ alloc)
    PROVE  /\ Cells(n) \in [1..n -> Node \ alloc]
           /\ \A i, j \in 1..n : Cells(n)[i] = Cells(n)[j] => i = j
<1> DEFINE S == Node \ alloc
           c == Cardinality(S)
<1>1. IsFiniteSet(S)
  <2>1. MaxNodes \in Int /\ 1 \in Int
    BY NodesAre
  <2>2. IsFiniteSet(Node)
    BY <2>1, FS_Interval DEF Node
  <2> QED BY <2>2, FS_Subset
<1>2. c \in Nat /\ ExistsBijection(1..c, S)
  BY <1>1, FS_CardinalityType
<1>3. PICK f \in [1..c -> S] : \A i, j \in 1..c : f[i] = f[j] => i = j
  BY <1>2 DEF ExistsBijection, Bijection, Injection, IsInjective
<1> HIDE DEF c
<1>4. n <= c
  BY DEF c
<1> HIDE DEF S
<1>5. \A i \in 1..n : i \in 1..c
  BY <1>2, <1>4
<1> DEFINE g == [i \in 1..n |-> f[i]]
<1>6. g \in [1..n -> S] /\ \A i, j \in 1..n : g[i] = g[j] => i = j
  BY <1>3, <1>5
<1>7. g \in Injection(1..n, S)
  BY <1>6 DEF Injection, IsInjective
<1>8. Cells(n) \in Injection(1..n, S)
  <2> HIDE DEF g
  <2> QED BY <1>7 DEF Cells, S
<1> HIDE DEF g
<1> QED BY <1>8 DEF Injection, IsInjective, S

\* The memory when the items cells[2] up to cells[i + 1] have been linked.
Links(f, n, cells, h) ==
    f = [i \in 1..n |-> IF i = 1 THEN h ELSE SuffixObject(f[i - 1], cells[i], cells[i + 1])]

\* What the loop of cJSON_CreateIntArray makes exists: the recursive function
\* of the model has values.
LEMMA LinksFound ==
    ASSUME NEW n \in Nat \ {0}, NEW cells \in [1..(n + 1) -> Node], NEW h \in [Node -> Cell]
    PROVE  \E f : Links(f, n, cells, h)
<1> DEFINE M == [Node -> Cell]
           step == [i \in 1..(n - 1) |-> [g \in M |-> SuffixObject(g, cells[i + 1], cells[i + 2])]]
<1>1. n - 1 \in Nat /\ \A i \in 1..(n - 1) : i + 1 \in 1..(n + 1) /\ i + 2 \in 1..(n + 1)
  OBVIOUS
<1>2. ASSUME NEW g \in M, NEW p \in Node, NEW x \in Node PROVE SuffixObject(g, p, x) \in M
  BY SuffixWithin DEF Within, Alike
<1>3. step \in [1..(n - 1) -> [M -> M]]
  <2> HIDE DEF M
  <2>1. \A i \in 1..(n - 1) : cells[i + 1] \in Node /\ cells[i + 2] \in Node
    BY <1>1
  <2> QED BY <1>2, <2>1
<1> HIDE DEF M
<1>4. PICK F \in [0..(n - 1) -> M] : Recurs(F, n - 1, h, step)
  <2> HIDE DEF step
  <2>1. h \in M
    BY DEF M
  <2> QED BY <1>1, <1>3, <2>1, Recursion
<1> DEFINE f == [i \in 1..n |-> F[i - 1]]
<1>5. ASSUME NEW i \in 1..n
      PROVE  f[i] = IF i = 1 THEN h ELSE SuffixObject(f[i - 1], cells[i], cells[i + 1])
  <2>1. i - 1 \in 0..(n - 1) /\ i \in Nat
    BY <1>1
  <2>2. f[i] = F[i - 1] /\ F[i - 1] = IF i - 1 = 0 THEN h ELSE step[i - 1][F[(i - 1) - 1]]
    BY <1>4, <2>1 DEF Recurs
  <2>3. CASE i = 1
    BY <2>2, <2>3
  <2>4. CASE i # 1
    <3>1. /\ i - 1 \in 1..(n - 1) /\ i - 1 \in 1..n /\ (i - 1) - 1 \in 0..(n - 1) /\ i - 1 # 0
          /\ (i - 1) + 1 = i /\ (i - 1) + 2 = i + 1
      BY <1>1, <2>4
    <3>2. f[i - 1] = F[(i - 1) - 1] /\ F[(i - 1) - 1] \in M
      BY <3>1
    <3>3. step[i - 1][F[(i - 1) - 1]] = SuffixObject(F[(i - 1) - 1], cells[i], cells[i + 1])
      BY <3>1, <3>2
    <3> HIDE DEF f, step
    <3> QED BY <2>2, <2>4, <3>1, <3>2, <3>3
  <2> QED BY <2>3, <2>4
<1>6. Links(f, n, cells, h)
  BY <1>5 DEF Links
<1> HIDE DEF f
<1> QED BY <1>6

-----------------------------------------------------------------------------
(* The loop that links them                                                *)

\* The list of the place k goes from x to y, and the others are those of L.
Strung(h, g, al, R, L, k, x, y) ==
    /\ Alike(h, g)
    /\ \E M \in [Nat -> Seq(Node)] :
          /\ Good(g, al, R, M, {}) /\ M[k] # <<>> /\ First(M[k]) = x /\ Final(M[k]) = y
          /\ \A l \in Nat : l # k => M[l] = L[l]

\* The loop of cJSON_CreateIntArray after its first item.
LEMMA StrungOne ==
    ASSUME NEW h, NEW al, NEW R, NEW L \in [Nat -> Seq(Node)], Good(h, al, R, L, {}),
           NEW k \in Nat \ Node, L[k] = <<>>, NEW x \in R
    PROVE  Strung(h, h, al, R \ {x}, L, k, x, x)
<1>1. h \in [Node -> Cell] /\ x \in Node
  BY GoodIs
<1>2. Alike(h, h)
  BY <1>1 DEF Alike, Keeps
<1> DEFINE M == [L EXCEPT ![k] = <<x>>]
<1>3. M \in [Nat -> Seq(Node)] /\ M[k] = <<x>> /\ \A l \in Nat : l # k => M[l] = L[l]
  BY <1>1
<1>4. {} \ {k} \subseteq {} /\ k \in Nat /\ k \notin Node
  OBVIOUS
<1>5. Good(h, al, R \ {x}, M, {})
  BY <1>4, Started
<1>6. <<x>> # <<>> /\ First(<<x>>) = x /\ Final(<<x>>) = x
  BY DEF First, Final
<1> HIDE DEF M
<1> QED BY <1>2, <1>3, <1>5, <1>6 DEF Strung

\* One more turn of that loop.
LEMMA StrungMore ==
    ASSUME NEW h, NEW g, NEW al, NEW R, NEW L, NEW k \in Nat \ Node, NEW x, NEW y,
           Strung(h, g, al, R, L, k, x, y), NEW z \in R
    PROVE  Strung(h, SuffixObject(g, y, z), al, R \ {z}, L, k, x, z)
<1> DEFINE e == SuffixObject(g, y, z)
<1>1. PICK M \in [Nat -> Seq(Node)] :
          /\ Good(g, al, R, M, {}) /\ M[k] # <<>> /\ First(M[k]) = x /\ Final(M[k]) = y
          /\ \A l \in Nat : l # k => M[l] = L[l]
  BY DEF Strung
<1>2. g \in [Node -> Cell] /\ z \in Node /\ M[k] \in Seq(Node)
  BY <1>1, GoodIs
<1>3. y \in Node
  BY <1>1, <1>2, EndsAre
<1> DEFINE S == [M EXCEPT ![k] = Append(M[k], z)]
<1>4. S \in [Nat -> Seq(Node)] /\ S[k] = Append(M[k], z) /\ \A l \in Nat : l # k => S[l] = M[l]
  <2>1. Append(M[k], z) \in Seq(Node)
    BY <1>2
  <2> QED BY <2>1
<1>5. S[k] # <<>> /\ First(S[k]) = x /\ Final(S[k]) = z
  BY <1>1, <1>2, <1>4, AppendIs
<1>6. Good(e, al, R \ {z}, S, {})
  <2>1. {} \ {k} \subseteq {} /\ k \in Nat /\ k \notin Node /\ e = SuffixObject(g, Final(M[k]), z)
    BY <1>1
  <2> HIDE DEF e
  <2> QED BY <1>1, <2>1, Suffixed
<1>7. Alike(h, e)
  <2>1. Within(g, e, {y, z}, 0)
    BY <1>2, <1>3, SuffixWithin
  <2> QED BY <2>1, AlikeAlike DEF Strung, Within
<1> HIDE DEF S, e
<1>8. Strung(h, e, al, R \ {z}, L, k, x, z)
  BY <1>1, <1>4, <1>5, <1>6, <1>7 DEF Strung
<1> QED BY <1>8 DEF e

\* All of them.
LEMMA StrungAll ==
    ASSUME NEW h, NEW al, NEW R, NEW L \in [Nat -> Seq(Node)], Good(h, al, R, L, {}),
           NEW k \in Nat \ Node, L[k] = <<>>, NEW n \in Nat \ {0}, NEW cells \in [1..(n + 1) -> R],
           \A i, j \in 1..(n + 1) : cells[i] = cells[j] => i = j,
           NEW f, Links(f, n, cells, h)
    PROVE  Strung(h, f[n], al, R \ {cells[j] : j \in 2..(n + 1)}, L, k, cells[2], cells[n + 1])
<1> DEFINE Rest(i) == R \ {cells[j] : j \in 2..(i + 1)}
           Done == {i \in 0..n : i = 0 \/ Strung(h, f[i], al, Rest(i), L, k, cells[2], cells[i + 1])}
<1>1. 0 \in Done
  OBVIOUS
<1>2. \A i \in 1..n : f[i] = IF i = 1 THEN h ELSE SuffixObject(f[i - 1], cells[i], cells[i + 1])
  BY DEF Links
<1>3. ASSUME NEW i \in 1..n, i - 1 \in Done PROVE i \in Done
  <2>1. i \in 0..n /\ i + 1 \in 1..(n + 1) /\ i + 1 \in 2..(i + 1) /\ i \in Nat
    OBVIOUS
  <2>2. CASE i = 1
    <3>1. f[i] = h /\ cells[2] \in R /\ i + 1 = 2
      <4>1. i + 1 = 2 /\ 2 \in 1..(n + 1)
        BY <2>1, <2>2
      <4> QED BY <1>2, <2>2, <4>1
    <3>2. 2..(i + 1) = {2}
      <4>1. 2..(i + 1) = 2..2
        BY <3>1
      <4>2. 2..2 = {2}
        OBVIOUS
      <4> QED BY <4>1, <4>2
    <3>3. Rest(i) = R \ {cells[2]}
      BY <3>2
    <3>4. Strung(h, h, al, R \ {cells[2]}, L, k, cells[2], cells[2])
      BY <3>1, StrungOne
    <3>5. Strung(h, f[i], al, Rest(i), L, k, cells[2], cells[i + 1])
      BY <3>1, <3>3, <3>4
    <3> QED BY <2>1, <3>5
  <2>3. CASE i # 1
    <3>1. /\ f[i] = SuffixObject(f[i - 1], cells[i], cells[i + 1])
          /\ i - 1 # 0 /\ (i - 1) + 1 = i
      BY <1>2, <2>1, <2>3
    <3>2. Strung(h, f[i - 1], al, Rest(i - 1), L, k, cells[2], cells[i])
      BY <1>3, <3>1
    <3>3. cells[i + 1] \in Rest(i - 1)
      <4>1. \A j \in 2..((i - 1) + 1) : j \in 1..(n + 1) /\ j # i + 1
        BY <2>1, <3>1
      <4> QED BY <2>1, <4>1
    <3>4. Rest(i) = Rest(i - 1) \ {cells[i + 1]}
      <4>1. Rest(i - 1) = R \ {cells[j] : j \in 2..i}
        BY <3>1
      <4>2. \A j \in 2..(i + 1) : j \in 2..i \/ j = i + 1
        BY <2>1
      <4>3. \A j \in 2..i : j \in 2..(i + 1)
        BY <2>1
      <4>4. {cells[j] : j \in 2..(i + 1)} = {cells[j] : j \in 2..i} \cup {cells[i + 1]}
        <5> DEFINE I == 2..i
                   J == 2..(i + 1)
                   q == i + 1
        <5>1. J = I \cup {q}
          BY <2>1, <4>2, <4>3
        <5> HIDE DEF I, J, q
        <5>2. {cells[j] : j \in J} = {cells[j] : j \in I} \cup {cells[q]}
          BY <5>1
        <5> QED BY <5>2 DEF I, J, q
      <4>5. Rest(i) = R \ {cells[j] : j \in 2..(i + 1)}
        OBVIOUS
      <4> HIDE DEF Rest
      <4> QED BY <4>1, <4>4, <4>5
    <3> HIDE DEF Rest
    <3>5. Strung(h, SuffixObject(f[i - 1], cells[i], cells[i + 1]), al,
                 Rest(i - 1) \ {cells[i + 1]}, L, k, cells[2], cells[i + 1])
      BY <3>2, <3>3, StrungMore
    <3>6. Strung(h, f[i], al, Rest(i), L, k, cells[2], cells[i + 1])
      BY <3>1, <3>4, <3>5
    <3> QED BY <2>1, <3>6
  <2> QED BY <2>2, <2>3
<1>4. \A i \in 0..n : i \in Done
  <2>1. n \in Nat
    OBVIOUS
  <2> HIDE DEF Done
  <2> QED BY <1>1, <1>3, <2>1, Induction
<1>5. n \in 0..n /\ n # 0
  OBVIOUS
<1>6. n \in Done
  BY <1>4, <1>5
<1> QED BY <1>5, <1>6

-----------------------------------------------------------------------------
(* The call                                                                *)

\* An array without items.
LEMMA SoundArrayEmpty ==
    ASSUME Sound(mem, alloc, held, leaked), NEW count \in Nat, CreateArray(count, 0)
    PROVE  Sound(mem', alloc', held', leaked')
<1> DEFINE cells == Cells(0 + 1)
           a == cells[1]
           R == held \cup leaked
<1>1. /\ 0 < Cardinality(Node \ alloc) /\ leaked' = leaked
      /\ IF 0 = count THEN mem' = mem /\ alloc' = alloc \cup ToSet(cells) /\ held' = held \cup {a}
         ELSE /\ mem' = Delete(mem, a) /\ held' = held
              /\ alloc' = (alloc \cup ToSet(cells)) \ Freed(mem, a)
  BY DEF CreateArray, Cells
<1>2. cells \in [1..1 -> Node \ alloc]
  <2>1. 1 \in Nat /\ 1 <= Cardinality(Node \ alloc)
    <3>1. IsFiniteSet(Node \ alloc)
      <4>1. MaxNodes \in Int /\ 1 \in Int
        BY NodesAre
      <4>2. IsFiniteSet(Node)
        BY <4>1, FS_Interval DEF Node
      <4> QED BY <4>2, FS_Subset
    <3>2. Cardinality(Node \ alloc) \in Nat
      BY <3>1, FS_CardinalityType
    <3> QED BY <1>1, <3>2
  <2>2. 0 + 1 = 1
    OBVIOUS
  <2> QED BY <2>1, <2>2, CellsAre
<1> HIDE DEF cells
<1>3. ToSet(cells) = {a} /\ a \in Node \ alloc
  BY <1>2 DEF ToSet
<1>4. Tree(mem, alloc, R) /\ R \subseteq alloc /\ held \cap leaked = {}
  BY SoundIs
<1> HIDE DEF a, R
<1>5. Tree(mem, alloc \cup {a}, R \cup {a})
  BY <1>3, <1>4, NewPlain
<1>6. CASE 0 = count
  <2>1. R \cup {a} = held' \cup leaked' /\ held' \cap leaked' = {}
    BY <1>1, <1>3, <1>4, <1>6 DEF R
  <2> QED BY <1>1, <1>3, <1>5, <1>6, <2>1 DEF Sound
<1>7. CASE 0 # count
  <2>1. a \in R \cup {a} /\ (R \cup {a}) \ {a} = R
    BY <1>3, <1>4
  <2> DEFINE S == R \cup {a}
             al == alloc \cup {a}
  <2>2. Tree(mem, al, S) /\ a \in S
    BY <1>5, <2>1
  <2> HIDE DEF S, al
  <2>3. Tree(Delete(mem, a), al \ Freed(mem, a), S \ {a})
    BY <2>2, TreeDeleted
  <2>4. Tree(mem', alloc', R)
    BY <1>1, <1>3, <1>7, <2>1, <2>3 DEF S, al
  <2> QED BY <1>1, <1>4, <1>7, <2>4 DEF Sound, R
<1> QED BY <1>6, <1>7

\* An array with its items.
LEMMA SoundArray ==
    ASSUME Sound(mem, alloc, held, leaked), NEW count \in Nat, NEW made \in Nat \ {0},
           CreateArray(count, made)
    PROVE  Sound(mem', alloc', held', leaked')
<1> DEFINE cells == Cells(made + 1)
           a == cells[1]
           c == cells[2]
           z == cells[made + 1]
           f == CHOOSE g : Links(g, made, cells, mem)
           e == f[made]
           h == [e EXCEPT ![a].child = c]
           R == held \cup leaked
           k == MaxNodes + 1
           N == ToSet(cells)
           al == alloc \cup N
           S == R \cup {a}
<1>1. /\ made < Cardinality(Node \ alloc) /\ leaked' = leaked
      /\ IF made = count
         THEN mem' = [h EXCEPT ![c].prev = Last(cells)] /\ alloc' = al /\ held' = held \cup {a}
         ELSE mem' = Delete(h, a) /\ held' = held /\ alloc' = al \ Freed(h, a)
  BY DEF CreateArray, Cells, Links
<1>2. made + 1 \in Nat /\ made \in Nat /\ made # 0 /\ 1 \in 1..(made + 1) /\ 2 \in 1..(made + 1)
      /\ made + 1 \in 1..(made + 1)
  OBVIOUS
<1>3. /\ cells \in [1..(made + 1) -> Node \ alloc]
      /\ \A i, j \in 1..(made + 1) : cells[i] = cells[j] => i = j
  <2>1. made + 1 <= Cardinality(Node \ alloc)
    <3>1. IsFiniteSet(Node \ alloc)
      <4>1. MaxNodes \in Int /\ 1 \in Int
        BY NodesAre
      <4>2. IsFiniteSet(Node)
        BY <4>1, FS_Interval DEF Node
      <4> QED BY <4>2, FS_Subset
    <3>2. Cardinality(Node \ alloc) \in Nat
      BY <3>1, FS_CardinalityType
    <3> QED BY <1>1, <3>2
  <2> QED BY <1>2, <2>1, CellsAre
<1> HIDE DEF cells
<1>4. Last(cells) = z
  <2>1. cells \in Seq(Node \ alloc) /\ Len(cells) = made + 1
    BY <1>2, <1>3
  <2> QED BY <2>1 DEF Last
<1>5. N = {cells[j] : j \in 1..(made + 1)}
  BY <1>3 DEF ToSet
<1>6. Tree(mem, alloc, R) /\ R \subseteq alloc /\ held \cap leaked = {} /\ mem \in [Node -> Cell]
  BY SoundIs
<1>7. a \in Node /\ c \in Node /\ z \in Node /\ a \notin alloc /\ a # c /\ a \in N /\ a # z
  <2>1. made + 1 # 1
    BY <1>2
  <2> QED BY <1>2, <1>3, <1>5, <2>1
<1>8. Links(f, made, cells, mem)
  <2>1. cells \in [1..(made + 1) -> Node]
    BY <1>3
  <2>2. \E g : Links(g, made, cells, mem)
    BY <1>6, <2>1, LinksFound
  <2> QED BY <2>2
<1> HIDE DEF f, N, R, al
<1>9. PICK L \in [Nat -> Seq(Node)] : Good(mem, alloc, R, L, {}) /\ Quiet(L)
  BY <1>6, TreeHas
<1>10. Good(mem, al, R \cup N, L, {})
  <2>1. N \subseteq Node \ alloc
    BY <1>3, <1>5
  <2> QED BY <1>9, <2>1, AllAllocated DEF al
<1>11. k \in Nat \ Node /\ L[k] = <<>> /\ a \in Nat /\ k # a
  <2>1. k \in Nat \ Node
    BY PlacesAre
  <2> QED BY <1>7, <1>9, <2>1, NodesAre DEF Quiet
<1> HIDE DEF k, a, c, z, e
<1>12. Strung(mem, e, al, S, L, k, c, z)
  <2>1. cells \in [1..(made + 1) -> R \cup N]
    BY <1>3, <1>5
  <2>2. Strung(mem, f[made], al, (R \cup N) \ {cells[j] : j \in 2..(made + 1)}, L, k,
               cells[2], cells[made + 1])
    BY <1>3, <1>8, <1>9, <1>10, <1>11, <2>1, StrungAll
  <2>3. (R \cup N) \ {cells[j] : j \in 2..(made + 1)} = S
    <3> DEFINE X == {cells[j] : j \in 2..(made + 1)}
    <3>1. \A j \in 2..(made + 1) : j \in 1..(made + 1) /\ j # 1
      OBVIOUS
    <3>2. \A j \in 1..(made + 1) : j \in 2..(made + 1) \/ j = 1
      OBVIOUS
    <3>3. N = X \cup {a} /\ a \notin X
      <4>1. X \subseteq N
        BY <1>5, <3>1
      <4>2. ASSUME NEW x \in N PROVE x \in X \/ x = a
        <5>1. PICK j \in 1..(made + 1) : x = cells[j]
          BY <1>5
        <5>2. CASE j = 1
          BY <5>1, <5>2 DEF a
        <5>3. CASE j # 1
          BY <3>2, <5>1, <5>3
        <5> QED BY <5>2, <5>3
      <4>3. ASSUME a \in X PROVE FALSE
        <5>1. PICK j \in 2..(made + 1) : cells[1] = cells[j]
          BY <4>3 DEF a
        <5> QED BY <1>2, <1>3, <3>1, <5>1
      <4> HIDE DEF X
      <4> QED BY <1>7, <4>1, <4>2, <4>3
    <3>4. X \cap R = {}
      <4>1. \A j \in 2..(made + 1) : cells[j] \notin alloc
        BY <1>3, <3>1
      <4> QED BY <1>6, <4>1
    <3> HIDE DEF X
    <3>5. (R \cup N) \ X = S
      BY <3>3, <3>4
    <3> QED BY <3>5 DEF X
  <2> QED BY <2>2, <2>3 DEF e, c, z
<1>13. PICK M \in [Nat -> Seq(Node)] :
          /\ Good(e, al, S, M, {}) /\ M[k] # <<>> /\ First(M[k]) = c /\ Final(M[k]) = z
          /\ \A l \in Nat : l # k => M[l] = L[l]
  BY <1>12 DEF Strung
<1>14. e \in [Node -> Cell] /\ Alike(mem, e)
  BY <1>12 DEF Strung, Alike
<1>15. a \in al /\ ~e[a].isReference /\ M[a] = <<>>
  <2>1. a \in al
    BY <1>7 DEF al
  <2>2. mem[a] = Zeroed /\ L[a] = <<>>
    BY <1>7, <1>9 DEF Good, Heap, Owns
  <2>3. ~e[a].isReference
    BY <1>7, <1>14, <2>2, ZeroedIs DEF Alike, Keeps
  <2> QED BY <1>11, <1>13, <2>1, <2>2, <2>3
<1> HIDE DEF S
<1>16. /\ ChildSet(e, h, a, c) /\ h \in [Node -> Cell] /\ Within(e, h, {c}, a) /\ h[a].child = c
       /\ \A n \in Node : h[n].next = e[n].next
  <2>1. ChildSet(e, h, a, c)
    BY <1>7, <1>14, FieldsSet
  <2> HIDE DEF h
  <2>2. Within(e, e, {c}, a)
    BY <1>14, WithinSelf
  <2>3. Within(e, h, {c}, a)
    BY <1>7, <2>1, <2>2, WithinSet
  <2>4. h \in [Node -> Cell] /\ h[a].child = c /\ \A n \in Node : h[n].next = e[n].next
    BY <2>1 DEF ChildSet, SameBut
  <2> QED BY <2>1, <2>3, <2>4
<1> HIDE DEF h
<1> DEFINE K == [M EXCEPT ![k] = <<>>, ![a] = M[k]]
<1>17. Quiet(K)
  <2>1. ASSUME NEW l \in Nat \ Node PROVE K[l] = <<>>
    <3>1. l # a
      BY <1>7
    <3>2. CASE l = k
      BY <1>11, <1>13, <3>1, <3>2
    <3>3. CASE l # k
      BY <1>9, <1>13, <3>1, <3>3 DEF Quiet
    <3> QED BY <3>2, <3>3
  <2> QED BY <2>1 DEF Quiet
<1>18. NamesRight(mem) /\ S = R \cup {a} /\ a \in S
  BY <1>6, TreeHas DEF S
<1>19. CASE made = count
  <2>1. mem' = [h EXCEPT ![c].prev = z] /\ alloc' = al /\ held' = held \cup {a} /\ leaked' = leaked
    BY <1>1, <1>4, <1>19
  <2>2. PrevSet(h, mem', c, z)
    BY <1>7, <1>16, <2>1, FieldsSet
  <2>3. Within(e, mem', {c}, a)
    BY <1>7, <1>16, <2>2, WithinSet
  <2>4. /\ \A n \in Node : mem'[n].next = e[n].next
        /\ mem'[a].child = c /\ mem'[c].prev = z
    BY <1>7, <1>16, <2>2 DEF PrevSet, SameBut
  <2>5. /\ Within(e, mem', {First(M[k])}, a) /\ mem'[a].child = First(M[k])
        /\ {} \ {a} \subseteq {}
        /\ a \notin {} /\ M[k] # <<>> => mem'[First(M[k])].prev = Final(M[k])
    BY <1>13, <2>3, <2>4
  <2>6. Good(mem', al, S, K, {})
    BY <1>11, <1>13, <1>15, <2>4, <2>5, Moved
  <2>7. NamesRight(mem')
    <3>1. Alike(mem, mem')
      BY <1>14, <2>3, AlikeAlike DEF Within
    <3> QED BY <1>18, <3>1, NamesAlike
  <2>8. Tree(mem', al, S)
    BY <1>17, <2>6, <2>7 DEF Tree
  <2>9. S = held' \cup leaked' /\ held' \cap leaked' = {}
    BY <1>6, <1>7, <1>18, <2>1 DEF R
  <2> QED BY <2>1, <2>8, <2>9 DEF Sound
<1>20. CASE made # count
  <2>1. mem' = Delete(h, a) /\ alloc' = al \ Freed(h, a) /\ held' = held /\ leaked' = leaked
    BY <1>1, <1>20
  <2>2. /\ Within(e, h, {First(M[k])}, a) /\ h[a].child = First(M[k])
        /\ {} \ {a} \subseteq {a} /\ a \in {a}
    BY <1>13, <1>16
  <2>3. Good(h, al, S, K, {a})
    <3> DEFINE Q == {a}
    <3>1. {} \ {a} \subseteq Q /\ (a \notin Q /\ M[k] # <<>> => h[First(M[k])].prev = Final(M[k]))
      OBVIOUS
    <3> HIDE DEF Q
    <3>2. Good(h, al, S, K, Q)
      BY <1>11, <1>13, <1>15, <1>16, <2>2, <3>1, Moved
    <3> QED BY <3>2 DEF Q
  <2> HIDE DEF K
  <2>4. \E G : Good(Delete(h, a), al \ Freed(h, a), S \ {a}, G, {}) /\ Quiet(G)
    <3>1. {a} \subseteq {a}
      OBVIOUS
    <3> QED BY <1>17, <1>18, <2>3, <3>1, RootFreed
  <2>5. S \ {a} = R
    BY <1>6, <1>7, <1>18
  <2>6. NamesRight(Delete(h, a))
    <3>1. Alike(mem, h)
      BY <1>14, <1>16, AlikeAlike DEF Within
    <3>2. NamesRight(h)
      BY <1>18, <3>1, NamesAlike
    <3>3. Delete(h, a) = Cleared(h, Freed(h, a))
      BY DEF Delete, Cleared
    <3> QED BY <3>2, <3>3, NamesFreed
  <2>7. Tree(mem', alloc', R)
    BY <2>1, <2>4, <2>5, <2>6 DEF Tree
  <2> QED BY <1>6, <2>1, <2>7 DEF Sound, R
<1> QED BY <1>19, <1>20

-----------------------------------------------------------------------------
(* The inductive invariant                                                 *)

\* Either the parser runs, or cJSON_Duplicate, or neither.
IInv ==
    /\ held \cap leaked = {}
    /\ \/ copying = <<>> /\ Reading(mem, alloc, held \cup leaked, parsing)
       \/ parsing = <<>> /\ Copying(mem, alloc, held \cup leaked, copying)

\* Between two calls memory is sound.
LEMMA IdleIs ==
    ASSUME IInv, Idle
    PROVE  Sound(mem, alloc, held, leaked) /\ parsing = <<>> /\ copying = <<>>
BY NoneCopying DEF IInv, Idle, Reading, Sound

\* Such is the state when no call runs.
LEMMA IdleKeeps ==
    ASSUME Sound(mem', alloc', held', leaked'), parsing' = <<>>, copying' = <<>>
    PROVE  IInv'
<1>1. Copying(mem', alloc', held' \cup leaked', <<>>)
  BY NoneCopying DEF Sound
<1> QED BY <1>1 DEF IInv, Sound

\* While cJSON_Parse runs, nothing is being copied.
LEMMA ReadingIs ==
    ASSUME IInv, parsing # <<>>
    PROVE  held \cap leaked = {} /\ copying = <<>> /\ Reading(mem, alloc, held \cup leaked, parsing)
BY DEF IInv

\* While cJSON_Duplicate runs, nothing is being parsed.
LEMMA CopyingIs ==
    ASSUME IInv, copying # <<>>
    PROVE  held \cap leaked = {} /\ parsing = <<>> /\ Copying(mem, alloc, held \cup leaked, copying)
BY DEF IInv

\* Nothing is allocated.
LEMMA Starts ==
    ASSUME BuildInit
    PROVE  IInv
<1> DEFINE L == [k \in Nat |-> <<>>]
<1>1. /\ mem = [n \in Node |-> Zeroed] /\ alloc = {} /\ held = {} /\ leaked = {}
      /\ parsing = <<>> /\ copying = <<>>
  BY DEF BuildInit, Init
<1>2. Heap(mem, {}, {})
  BY <1>1, ZeroedIs DEF Heap
<1>3. L \in [Nat -> Seq(Node)] /\ \A k \in Nat : L[k] = <<>>
  OBVIOUS
<1> HIDE DEF L
<1>4. Lists(mem, {}, {}, L) /\ Apart(L) /\ Held({}, {}, L) /\ Owns(mem, {}, L, {}) /\ Quiet(L)
  <2>1. Lists(mem, {}, {}, L)
    BY <1>3, EmptyList DEF Lists
  <2>2. Apart(L)
    BY <1>3, EmptyList DEF Apart
  <2>3. Held({}, {}, L) /\ Quiet(L)
    BY <1>3 DEF Held, Quiet
  <2>4. Owns(mem, {}, L, {})
    BY <1>3, NodesAre DEF Owns
  <2> QED BY <2>1, <2>2, <2>3, <2>4
<1>5. Good(mem, {}, {}, L, {})
  BY <1>2, <1>4 DEF Good
<1>6. NamesRight(mem)
  BY <1>1, ZeroedIs DEF NamesRight, NameRight
<1>7. Tree(mem, {}, {})
  BY <1>4, <1>5, <1>6 DEF Tree
<1>8. Copying(mem, {}, {}, <<>>)
  BY <1>7, NoneCopying
<1>9. {} \cup {} = {} /\ {} \cap {} = {}
  OBVIOUS
<1> QED BY <1>1, <1>8, <1>9 DEF IInv

\* The calls of the tree, while no other runs.
LEMMA CallsKeep ==
    ASSUME IInv, Idle, Next, UNCHANGED <<parsing, copying>>
    PROVE  IInv'
<1>1. Sound(mem', alloc', held', leaked') /\ parsing' = <<>> /\ copying' = <<>>
  BY IdleIs, SoundNext
<1> QED BY <1>1, IdleKeeps

\* The parser.
LEMMA ParseKeeps ==
    ASSUME IInv, Parse
    PROVE  IInv'
<1>1. CASE ParseStart
  <2>1. Reading(mem', alloc', held' \cup leaked', parsing')
    BY <1>1, IdleIs, ReadingStart DEF ParseStart
  <2>2. copying' = <<>> /\ held' \cap leaked' = {}
    BY <1>1, IdleIs DEF ParseStart, Sound
  <2> QED BY <2>1, <2>2 DEF IInv
<1>2. ASSUME Reading(mem', alloc', held' \cup leaked', parsing'),
             parsing # <<>>, UNCHANGED <<held, leaked, copying>>
      PROVE  IInv'
  BY <1>2, ReadingIs DEF IInv
<1>3. CASE ParseScalar
  BY <1>2, <1>3, ReadingIs, ReadingScalar DEF ParseScalar
<1>4. CASE ParseOpen
  BY <1>2, <1>4, ReadingIs, ReadingOpen DEF ParseOpen
<1>5. ASSUME NEW string \in String, string # NoString => string.heap, ParseElement(string)
      PROVE  IInv'
  <2>1. parsing # <<>> /\ UNCHANGED <<held, leaked, copying>>
    <3>1. Len(parsing) > 1 /\ UNCHANGED <<held, leaked, copying>>
      BY <1>5 DEF ParseElement
    <3>2. Len(<<>>) = 0
      OBVIOUS
    <3> QED BY <3>1, <3>2
  <2>2. Reading(mem', alloc', held' \cup leaked', parsing')
    BY <1>5, <2>1, ReadingIs, ReadingElement
  <2> QED BY <1>2, <2>1, <2>2
<1>6. CASE ParseElement(NoString)
  <2>1. NoString \in String
    BY DEF String, NoString
  <2> QED BY <1>5, <1>6, <2>1
<1>7. ASSUME NEW name \in Name, ParseElement([name |-> name, heap |-> TRUE]) PROVE IInv'
  <2> DEFINE string == [name |-> name, heap |-> TRUE]
  <2>1. string \in String /\ string.heap
    BY DEF String
  <2>2. ParseElement(string)
    BY <1>7
  <2> HIDE DEF string
  <2> QED BY <1>5, <2>1, <2>2
<1>8. CASE ParseClose
  <2>1. parsing # <<>> /\ UNCHANGED <<held, leaked, copying>>
    <3>1. Len(parsing) > 1 /\ UNCHANGED <<held, leaked, copying>>
      BY <1>8 DEF ParseClose
    <3>2. Len(<<>>) = 0
      OBVIOUS
    <3> QED BY <3>1, <3>2
  <2>2. Reading(mem', alloc', held' \cup leaked', parsing')
    BY <1>8, <2>1, ReadingIs, ReadingClose
  <2> QED BY <1>2, <2>1, <2>2
<1>9. ASSUME Sound(mem', alloc', held', leaked'), parsing # <<>>, parsing' = <<>>,
             copying' = copying
      PROVE  IInv'
  BY <1>9, ReadingIs, IdleKeeps
<1>10. CASE ParseEnd
  <2>1. parsing # <<>> /\ parsing' = <<>> /\ copying' = copying
    <3>1. Len(parsing) = 1 /\ parsing' = <<>> /\ copying' = copying
      BY <1>10 DEF ParseEnd
    <3>2. Len(<<>>) = 0
      OBVIOUS
    <3> QED BY <3>1, <3>2
  <2>2. Sound(mem', alloc', held', leaked')
    BY <1>10, <2>1, ReadingIs, ReadingEnd
  <2> QED BY <1>9, <2>1, <2>2
<1>11. CASE ParseFail
  <2>1. parsing # <<>> /\ parsing' = <<>> /\ copying' = copying
    BY <1>11 DEF ParseFail
  <2>2. Sound(mem', alloc', held', leaked')
    BY <1>11, <2>1, ReadingIs, ReadingFail
  <2> QED BY <1>9, <2>1, <2>2
<1> QED BY <1>1, <1>3, <1>4, <1>6, <1>7, <1>8, <1>10, <1>11 DEF Parse

\* cJSON_Duplicate
LEMMA DuplicateKeeps ==
    ASSUME IInv, Duplicate
    PROVE  IInv'
<1>1. ASSUME NEW x \in alloc, CopyItem(x) PROVE IInv'
  <2>1. Sound(mem', alloc', held', leaked')
    BY <1>1, IdleIs, SoundCopyItem DEF CopyItem
  <2>2. parsing' = <<>> /\ copying' = <<>>
    BY <1>1, IdleIs DEF CopyItem
  <2> QED BY <2>1, <2>2, IdleKeeps
<1>2. ASSUME NEW x \in Node, Copy(x), Copying(mem, alloc, held \cup leaked, copying),
             copying # <<>> => Copier.rest # Null, parsing = <<>>, held \cap leaked = {}
      PROVE  IInv'
  <2>1. Copying(mem', alloc', held' \cup leaked', copying')
    BY <1>2, CopyingMore
  <2>2. parsing' = <<>> /\ held' \cap leaked' = {}
    BY <1>2 DEF Copy
  <2> QED BY <2>1, <2>2 DEF IInv
<1>3. ASSUME NEW x \in alloc, CopyStart(x) PROVE IInv'
  <2>1. Copy(x) /\ parsing = <<>> /\ copying = <<>> /\ Sound(mem, alloc, held, leaked)
    BY <1>3, IdleIs DEF CopyStart
  <2>2. x \in Node /\ held \cap leaked = {} /\ Tree(mem, alloc, held \cup leaked)
    BY <2>1, SoundIs
  <2>3. Copying(mem, alloc, held \cup leaked, copying)
    BY <2>1, <2>2, NoneCopying
  <2> QED BY <1>2, <2>1, <2>2, <2>3
<1>4. CASE CopyChild
  <2>1. copying # <<>> /\ Copier.rest # Null /\ Copy(Copier.rest)
    BY <1>4 DEF CopyChild
  <2>2. /\ held \cap leaked = {} /\ parsing = <<>>
        /\ Copying(mem, alloc, held \cup leaked, copying)
    BY <2>1, CopyingIs
  <2>3. Copier.rest \in Node
    <3>1. Copier \in CopyFrame
      BY <2>1, <2>2, LastIs, SMTT(40) DEF Copying, Copier
    <3> QED BY <2>1, <3>1 DEF CopyFrame
  <2> QED BY <1>2, <2>1, <2>2, <2>3
<1>5. CASE CopyReturn
  <2>1. copying # <<>>
    <3>1. Len(copying) > 1
      BY <1>5 DEF CopyReturn
    <3>2. Len(<<>>) = 0
      OBVIOUS
    <3> QED BY <3>1, <3>2
  <2>2. /\ held \cap leaked = {} /\ parsing = <<>>
        /\ Copying(mem, alloc, held \cup leaked, copying)
    BY <2>1, CopyingIs
  <2>3. Copying(mem', alloc', held' \cup leaked', copying')
    BY <1>5, <2>2, CopyingReturn
  <2>4. parsing' = <<>> /\ held' \cap leaked' = {}
    BY <1>5, <2>2 DEF CopyReturn
  <2> QED BY <2>3, <2>4 DEF IInv
<1>6. ASSUME Sound(mem', alloc', held', leaked'), copying # <<>>, copying' = <<>>,
             parsing' = parsing
      PROVE  IInv'
  BY <1>6, CopyingIs, IdleKeeps
<1>7. CASE CopyEnd
  <2>1. copying # <<>> /\ copying' = <<>> /\ parsing' = parsing
    <3>1. Len(copying) = 1 /\ copying' = <<>> /\ parsing' = parsing
      BY <1>7 DEF CopyEnd
    <3>2. Len(<<>>) = 0
      OBVIOUS
    <3> QED BY <3>1, <3>2
  <2>2. Sound(mem', alloc', held', leaked')
    BY <1>7, <2>1, CopyingIs, CopyingEnd
  <2> QED BY <1>6, <2>1, <2>2
<1>8. CASE CopyFail
  <2>1. copying # <<>> /\ copying' = <<>> /\ parsing' = parsing
    BY <1>8 DEF CopyFail
  <2>2. Sound(mem', alloc', held', leaked')
    BY <1>8, <2>1, CopyingIs, CopyingFail
  <2> QED BY <1>6, <2>1, <2>2
<1> QED BY <1>1, <1>3, <1>4, <1>5, <1>7, <1>8 DEF Duplicate

\* The constructors of arrays.
LEMMA ArrayKeeps ==
    ASSUME IInv, NEW count \in 0..MaxNodes, NEW made \in 0..count, CreateArray(count, made)
    PROVE  IInv'
<1>1. Sound(mem, alloc, held, leaked) /\ parsing' = <<>> /\ copying' = <<>>
  BY IdleIs DEF CreateArray
<1>2. count \in Nat /\ made \in Nat
  BY NodesAre
<1>3. CASE made = 0
  <2>1. CreateArray(count, 0)
    BY <1>3
  <2>2. Sound(mem', alloc', held', leaked')
    BY <1>1, <1>2, <2>1, SoundArrayEmpty
  <2> QED BY <1>1, <2>2, IdleKeeps
<1>4. CASE made # 0
  <2>1. Sound(mem', alloc', held', leaked')
    BY <1>1, <1>2, <1>4, SoundArray
  <2> QED BY <1>1, <2>1, IdleKeeps
<1> QED BY <1>3, <1>4

\* Every step keeps the invariant.
LEMMA StepKeeps ==
    ASSUME IInv, [BuildNext]_buildVars
    PROVE  IInv'
<1>1. CASE UNCHANGED buildVars
  BY <1>1 DEF IInv, buildVars
<1>2. CASE BuildNext
  BY <1>2, CallsKeep, ParseKeeps, DuplicateKeeps, ArrayKeeps DEF BuildNext
<1> QED BY <1>1, <1>2

-----------------------------------------------------------------------------
(* What it implies: the lists                                              *)

\* The lists of the calls that run are those of their places.
Opens(L) == Covers(L, Len(Open)) /\ \A d \in 1..Len(Open) : Open[d] = L[MaxNodes + d]

\* While cJSON_Parse runs, the lists it builds are open ones.
LEMMA OpenWhileReading ==
    ASSUME copying = <<>>, Reading(mem, alloc, held \cup leaked, parsing)
    PROVE  \E L \in [Nat -> Seq(Node)] :
               Good(mem, alloc, held \cup leaked, L, News(copying)) /\ Opens(L)
<1>1. /\ parsing \in Seq(ParseFrame) /\ Len(parsing) \in Nat
      /\ Len(copying) = 0 /\ 1..0 = {} /\ News(copying) = {}
  BY DEF Reading, News
<1>2. PICK L \in [Nat -> Seq(Node)] :
          /\ Good(mem, alloc, held \cup leaked, L, {}) /\ Covers(L, Len(parsing))
          /\ ReadsAll(mem, parsing, L)
  BY DEF Reading
<1> DEFINE s == [d \in 1..Len(parsing) |-> From(mem, parsing[d].head)]
           t == [d \in 1..Len(copying) |-> <<copying[d].new>>]
<1>3. ASSUME NEW d \in 1..Len(parsing) PROVE s[d] = L[MaxNodes + d] /\ s[d] \in Seq(Node)
  <2>1. Reads(mem, parsing, d, L[MaxNodes + d])
    BY <1>2 DEF ReadsAll
  <2>2. parsing[d].head = First(L[MaxNodes + d])
    BY <2>1 DEF Reads
  <2>3. MaxNodes + d \in Nat
    BY NodesAre
  <2>4. IsList(mem, L[MaxNodes + d]) /\ L[MaxNodes + d] \in Seq(Node)
    BY <1>2, <2>3 DEF Good, Lists
  <2>5. From(mem, parsing[d].head) = L[MaxNodes + d]
    BY <2>2, <2>4, FromIs
  <2> QED BY <2>4, <2>5
<1>4. t = <<>>
  BY <1>1
<1>5. Open = s
  <2>1. Open = s \o t
    BY DEF Open
  <2>2. s \in Seq(Seq(Node))
    <3> DEFINE m == Len(parsing)
    <3>1. s = [d \in 1..m |-> s[d]] /\ \A d \in 1..m : s[d] \in Seq(Node)
      BY <1>3
    <3> HIDE DEF s, m
    <3> QED BY <1>1, <3>1 DEF m
  <2> HIDE DEF s, t
  <2>3. s \o <<>> = s
    BY <2>2
  <2> QED BY <1>4, <2>1, <2>3
<1>6. Len(Open) = Len(parsing)
  BY <1>1, <1>5
<1>7. Opens(L)
  BY <1>2, <1>3, <1>5, <1>6 DEF Opens
<1> QED BY <1>1, <1>2, <1>7

\* While cJSON_Duplicate runs, the lists it builds are open ones.
LEMMA OpenWhileCopying ==
    ASSUME parsing = <<>>, Copying(mem, alloc, held \cup leaked, copying)
    PROVE  \E L \in [Nat -> Seq(Node)] :
               Good(mem, alloc, held \cup leaked, L, News(copying)) /\ Opens(L)
<1>1. copying \in Seq(CopyFrame) /\ Len(copying) \in Nat /\ Len(parsing) = 0 /\ 1..0 = {}
  BY DEF Copying
<1>2. PICK L \in [Nat -> Seq(Node)] :
          /\ Good(mem, alloc, held \cup leaked, L, News(copying)) /\ Covers(L, Len(copying))
          /\ CopiesAll(mem, copying, L)
  BY DEF Copying
<1> DEFINE s == [d \in 1..Len(parsing) |-> From(mem, parsing[d].head)]
           t == [d \in 1..Len(copying) |-> <<copying[d].new>>]
<1>3. ASSUME NEW d \in 1..Len(copying) PROVE t[d] = L[MaxNodes + d] /\ t[d] \in Seq(Node)
  <2>1. L[MaxNodes + d] = <<copying[d].new>>
    BY <1>2 DEF CopiesAll, Copies
  <2>2. MaxNodes + d \in Nat
    BY NodesAre
  <2> QED BY <2>1, <2>2
<1>4. s = <<>>
  BY <1>1
<1>5. Open = t
  <2>1. Open = s \o t
    BY DEF Open
  <2>2. t \in Seq(Seq(Node))
    <3> DEFINE m == Len(copying)
    <3>1. t = [d \in 1..m |-> t[d]] /\ \A d \in 1..m : t[d] \in Seq(Node)
      BY <1>3
    <3> HIDE DEF t, m
    <3> QED BY <1>1, <3>1 DEF m
  <2> HIDE DEF s, t
  <2>3. <<>> \o t = t
    BY <2>2
  <2> QED BY <1>4, <2>1, <2>3
<1>6. Len(Open) = Len(copying)
  BY <1>1, <1>5
<1>7. Opens(L)
  BY <1>2, <1>3, <1>5, <1>6 DEF Opens
<1> QED BY <1>2, <1>7

\* In every reachable state the items are in lists, whatever call is running.
LEMMA ListsAre ==
    ASSUME IInv
    PROVE  \E L \in [Nat -> Seq(Node)] :
               Good(mem, alloc, held \cup leaked, L, News(copying)) /\ Opens(L)
BY OpenWhileReading, OpenWhileCopying DEF IInv

\* And at most one of the two long calls is running.
LEMMA RunningAre ==
    ASSUME IInv
    PROVE  /\ parsing \in Seq(ParseFrame) /\ copying \in Seq(CopyFrame)
           /\ parsing = <<>> \/ copying = <<>>
           /\ NamesRight(mem) /\ News(copying) = {f.new : f \in ToSet(copying)}
<1>1. /\ parsing \in Seq(ParseFrame) /\ copying \in Seq(CopyFrame)
      /\ parsing = <<>> \/ copying = <<>>
      /\ NamesRight(mem)
  <2>1. <<>> \in Seq(ParseFrame) /\ <<>> \in Seq(CopyFrame)
    OBVIOUS
  <2> QED BY <2>1 DEF IInv, Reading, Copying
<1>2. ToSet(copying) = {copying[d] : d \in 1..Len(copying)}
  BY <1>1, SetOf
<1>3. News(copying) = {f.new : f \in ToSet(copying)}
  BY <1>2 DEF News
<1> QED BY <1>1, <1>3

\* IInv implies the type invariant.
LEMMA InvTypes ==
    ASSUME IInv
    PROVE  BuildTypeOK
<1>1. /\ parsing \in Seq(ParseFrame) /\ copying \in Seq(CopyFrame)
      /\ parsing = <<>> \/ copying = <<>>
  BY RunningAre
<1>2. PICK L \in [Nat -> Seq(Node)] : Good(mem, alloc, held \cup leaked, L, News(copying))
  BY ListsAre
<1>3. mem \in [Node -> Cell] /\ alloc \subseteq Node /\ held \cup leaked \subseteq alloc
  BY <1>2 DEF Good, Heap
<1> QED BY <1>1, <1>3 DEF BuildTypeOK, TypeOK

\* IInv implies that a name is freed only by its owner.
LEMMA InvNames ==
    ASSUME IInv
    PROVE  NamesFreedRight
<1>1. BuildTypeOK /\ NamesRight(mem)
  BY InvTypes, RunningAre
<1> QED BY <1>1 DEF BuildTypeOK, TypeOK, NamesRight, NameRight, NamesFreedRight

\* IInv implies that the lists are linked both ways.
LEMMA InvLinked ==
    ASSUME IInv
    PROVE  ListsLinked
<1>1. PICK L \in [Nat -> Seq(Node)] : Good(mem, alloc, held \cup leaked, L, News(copying))
  BY ListsAre
<1>2. ASSUME NEW n \in Owner \ {f.new : f \in ToSet(copying)}, Items(mem, n) # <<>>
      PROVE  /\ mem[Last(Items(mem, n))].next = Null
             /\ mem[Items(mem, n)[1]].prev = Last(Items(mem, n))
             /\ \A i \in 2..Len(Items(mem, n)) : mem[Items(mem, n)[i]].prev = Items(mem, n)[i - 1]
  <2> DEFINE kids == Items(mem, n)
  <2>1. n \in alloc /\ ~mem[n].isReference /\ n \in Node /\ n \in Nat /\ n \notin News(copying)
    <3>1. News(copying) = {f.new : f \in ToSet(copying)}
      BY RunningAre
    <3>2. alloc \subseteq Node
      BY <1>1 DEF Good, Heap
    <3> QED BY <3>1, <3>2, NodesAre DEF Owner
  <2>2. kids = L[n]
    BY <1>1, <2>1, ItemsAre
  <2>3. IsList(mem, L[n]) /\ L[n] \in Seq(Node)
    BY <1>1, <2>1 DEF Good, Lists
  <2>4. mem[L[n][1]].prev = Final(L[n])
    BY <1>1, <1>2, <2>1, <2>2 DEF Good, Owns
  <2> HIDE DEF kids
  <2>5. kids # <<>> /\ kids \in Seq(Node) /\ IsList(mem, kids) /\ mem[kids[1]].prev = Final(kids)
    BY <1>2, <2>2, <2>3, <2>4 DEF kids
  <2>6. Last(kids) = kids[Len(kids)] /\ Len(kids) \in 1..Len(kids) /\ Final(kids) = kids[Len(kids)]
    BY <2>5, LastIs DEF Final
  <2>7. mem[kids[Len(kids)]].next = Null
    <3>1. ~(Len(kids) < Len(kids))
      BY <2>5
    <3> QED BY <2>5, <2>6, <3>1 DEF IsList
  <2>8. \A i \in 2..Len(kids) : mem[kids[i]].prev = kids[i - 1]
    BY <2>5 DEF IsList
  <2> QED BY <2>5, <2>6, <2>7, <2>8 DEF kids
<1> QED BY <1>2 DEF ListsLinked

-----------------------------------------------------------------------------
(* What it implies: one owner                                              *)

\* The place i of the list k is one of n's exactly when it has n.
Sits(L) ==
    \A n \in Node : \A k, i :
        <<k, i>> \in Places(n) <=> k \in Nat /\ i \in 1..Len(L[k]) /\ L[k][i] = n

\* With such lists, the places of an item that the property looks for can only
\* be its place in the list it sits in.
LEMMA PlaceIs ==
    ASSUME NEW R, NEW O, NEW L \in [Nat -> Seq(Node)], Good(mem, alloc, R, L, O), Opens(L)
    PROVE  Sits(L)
<1> SUFFICES ASSUME NEW n \in Node, NEW k, NEW i
             PROVE  <<k, i>> \in Places(n) <=> k \in Nat /\ i \in 1..Len(L[k]) /\ L[k][i] = n
  BY DEF Sits
<1>1. /\ alloc \subseteq Node /\ Null \notin Node /\ Node \subseteq Nat
      /\ \A l \in Nat : IsList(mem, L[l]) /\ L[l] \in Seq(Node) /\ Len(L[l]) \in 0..MaxNodes
  <2>1. \A l \in Nat : IsList(mem, L[l]) /\ L[l] \in Seq(Node)
    BY DEF Good, Lists
  <2> QED BY <2>1, NodesAre, ListFits DEF Good, Heap
<1>2. ASSUME NEW a \in Owner PROVE a \in alloc /\ a \in Nat /\ Items(mem, a) = L[a]
  <2>1. a \in alloc /\ ~mem[a].isReference
    BY DEF Owner
  <2>2. Items(mem, a) = L[a]
    BY <2>1, ItemsAre
  <2>3. a \in Nat
    BY <1>1, <2>1
  <2> QED BY <2>1, <2>2, <2>3
<1>3. \A l \in Nat : \A j \in Node : j <= Len(L[l]) <=> j \in 1..Len(L[l])
  BY <1>1 DEF Node
<1>4. \A l \in Nat : \A j \in 1..Len(L[l]) : j \in Node
  BY <1>1, NodesAre DEF Node
<1>5. ASSUME NEW a \in Owner, NEW j \in Node
      PROVE  ItemAt(mem, a, j) = n <=> j \in 1..Len(L[a]) /\ L[a][j] = n
  BY <1>1, <1>2, <1>3, NodesAre DEF ItemAt
<1>6. ASSUME NEW d \in 1..Len(Open)
      PROVE  MaxNodes + d \in Nat \ Node /\ (MaxNodes + d) - MaxNodes = d /\ Open[d] = L[MaxNodes + d]
  <2>1. d \in Nat \ {0}
    BY DEF Open
  <2>2. MaxNodes + d \in Nat \ Node
    BY <2>1, PlacesAre
  <2>3. (MaxNodes + d) - MaxNodes = d
    BY <2>1, NodesAre
  <2> QED BY <2>2, <2>3 DEF Opens
<1>7. ASSUME <<k, i>> \in Places(n) PROVE k \in Nat /\ i \in 1..Len(L[k]) /\ L[k][i] = n
  <2>1. CASE k \in Owner /\ i \in Node /\ ItemAt(mem, k, i) = n
    BY <1>2, <1>5, <2>1
  <2>2. CASE /\ k \in {MaxNodes + d : d \in 1..Len(Open)} /\ i \in Node
             /\ i <= Len(Open[k - MaxNodes]) /\ Open[k - MaxNodes][i] = n
    <3>1. PICK d \in 1..Len(Open) : k = MaxNodes + d
      BY <2>2
    <3>2. k \in Nat /\ Open[k - MaxNodes] = L[k]
      BY <1>6, <3>1
    <3> QED BY <1>3, <2>2, <3>2
  <2> QED BY <1>7, <2>1, <2>2 DEF Places
<1>8. ASSUME k \in Nat, i \in 1..Len(L[k]), L[k][i] = n PROVE <<k, i>> \in Places(n)
  <2>1. i \in Node /\ L[k] # <<>>
    <3>1. Len(<<>>) = 0 /\ 1..0 = {}
      OBVIOUS
    <3> QED BY <1>4, <1>8, <3>1
  <2>2. CASE k \in Node
    <3>1. k \in alloc /\ ~mem[k].isReference
      BY <2>1, <2>2 DEF Good, Owns
    <3>2. k \in Owner
      BY <3>1 DEF Owner
    <3>3. ItemAt(mem, k, i) = n
      BY <1>5, <1>8, <2>1, <3>2
    <3> QED BY <2>1, <3>2, <3>3 DEF Places
  <2>3. CASE k \notin Node
    <3>1. k # 0 /\ ~(k > MaxNodes + Len(Open)) /\ k > MaxNodes
      <4>1. k # 0 /\ ~(k > MaxNodes + Len(Open))
        BY <1>8, <2>1, <2>3 DEF Opens, Covers
      <4> QED BY <1>8, <2>3, <4>1, NodesAre DEF Node
    <3>2. Len(Open) \in Nat
      BY DEF Open
    <3>3. PICK d \in 1..Len(Open) : k = MaxNodes + d
      <4>1. k - MaxNodes \in 1..Len(Open) /\ k = MaxNodes + (k - MaxNodes)
        BY <1>8, <3>1, <3>2, NodesAre
      <4> QED BY <4>1
    <3>4. Open[k - MaxNodes] = L[k]
      BY <1>6, <3>3
    <3>5. i <= Len(Open[k - MaxNodes]) /\ Open[k - MaxNodes][i] = n
      BY <1>3, <1>8, <2>1, <3>4
    <3> QED BY <2>1, <3>3, <3>5 DEF Places
  <2> QED BY <2>2, <2>3
<1> QED BY <1>7, <1>8

\* IInv implies that an item has one place.
LEMMA InvOwned ==
    ASSUME IInv
    PROVE  OwnedOnce
<1> DEFINE R == held \cup leaked
           O == News(copying)
<1>1. PICK L \in [Nat -> Seq(Node)] : Good(mem, alloc, R, L, O) /\ Opens(L)
  BY ListsAre
<1> HIDE DEF R, O
<1>2. /\ mem \in [Node -> Cell] /\ alloc \subseteq Node /\ R \subseteq alloc
      /\ \A n \in R : mem[n].next = Null
      /\ \A l \in Nat : IsList(mem, L[l]) /\ L[l] \in Seq(Node) /\ Elems(L[l]) \subseteq alloc \ R
  BY <1>1 DEF Good, Heap, Lists
<1>3. ASSUME NEW n \in Owner PROVE ToSet(Items(mem, n)) \subseteq alloc
  <2>1. n \in alloc /\ ~mem[n].isReference /\ n \in Nat
    BY <1>2, NodesAre DEF Owner
  <2>2. Items(mem, n) = L[n]
    BY <1>1, <2>1, ItemsAre
  <2>3. ToSet(L[n]) = Elems(L[n])
    BY <1>2, <2>1, SetOf DEF Elems
  <2> QED BY <1>2, <2>1, <2>2, <2>3
<1>4. ASSUME NEW n \in Node, NEW p \in Places(n)
      PROVE  p = <<p[1], p[2]>>
  BY DEF Places
<1>5. ASSUME NEW n \in Node, NEW k, NEW i
      PROVE  <<k, i>> \in Places(n) <=> k \in Nat /\ i \in 1..Len(L[k]) /\ L[k][i] = n
  <2>1. Sits(L)
    BY <1>1, PlaceIs
  <2> QED BY <2>1 DEF Sits
<1>6. ASSUME NEW n \in alloc, n \in R PROVE Places(n) = {} /\ mem[n].next = Null
  <2>1. ASSUME NEW p \in Places(n) PROVE FALSE
    <3> DEFINE k == p[1]
               i == p[2]
    <3>1. n \in Node /\ <<k, i>> \in Places(n)
      BY <1>2, <1>4
    <3> HIDE DEF k, i
    <3>2. k \in Nat /\ i \in 1..Len(L[k]) /\ L[k][i] = n
      BY <1>5, <3>1
    <3>3. n \in Elems(L[k])
      BY <3>2, ElemsOf
    <3> QED BY <1>2, <1>6, <3>2, <3>3
  <2> QED BY <1>2, <1>6, <2>1
<1>7. ASSUME NEW n \in alloc, n \notin R PROVE Cardinality(Places(n)) = 1
  <2>1. n \in Node
    BY <1>2
  <2>2. PICK k \in Nat : n \in Elems(L[k])
    BY <1>1, <1>7 DEF Good, Held
  <2>3. PICK i \in 1..Len(L[k]) : L[k][i] = n
    BY <2>2 DEF Elems
  <2>4. <<k, i>> \in Places(n)
    BY <1>5, <2>1, <2>3
  <2>5. ASSUME NEW p \in Places(n) PROVE p = <<k, i>>
    <3> DEFINE l == p[1]
               j == p[2]
    <3>1. p = <<l, j>> /\ <<l, j>> \in Places(n)
      BY <1>4, <2>1
    <3> HIDE DEF l, j
    <3>2. l \in Nat /\ j \in 1..Len(L[l]) /\ L[l][j] = n
      BY <1>5, <2>1, <3>1
    <3>3. n \in Elems(L[l])
      BY <3>2, ElemsOf
    <3>4. l = k
      BY <1>1, <2>2, <3>2, <3>3 DEF Good, Apart
    <3>5. j = i
      BY <1>2, <2>3, <3>2, <3>4, SMTT(40) DEF IsList
    <3> QED BY <3>1, <3>4, <3>5
  <2>6. Places(n) = {<<k, i>>}
    BY <2>4, <2>5
  <2> QED BY <2>6, FS_Singleton
<1> QED BY <1>3, <1>6, <1>7 DEF OwnedOnce, R

-----------------------------------------------------------------------------
(* Theorems                                                                *)

\* The inductive invariant holds in every reachable state.
LEMMA Always == BuildSpec => []IInv
<1>1. BuildInit => IInv
  BY Starts
<1>2. IInv /\ [BuildNext]_buildVars => IInv'
  BY StepKeeps
<1> QED BY <1>1, <1>2, PTL DEF BuildSpec

\* The cells keep their types, and never do the parser and cJSON_Duplicate run
\* at the same time: each call is finished before the caller makes the next.
THEOREM TypeCorrect == BuildSpec => []BuildTypeOK
<1>1. IInv => BuildTypeOK
  BY InvTypes
<1> QED BY <1>1, Always, PTL

\* Whatever is renamed, replaced, copied or added under a constant name:
\* cJSON_StringIsConst is set exactly when the name is not on the heap, so that
\* cJSON_Delete frees every name of its own and none of the caller's.
THEOREM NamesOfTheirOwn == BuildSpec => []NamesFreedRight
<1>1. IInv => NamesFreedRight
  BY InvNames
<1> QED BY <1>1, Always, PTL

\* Between two calls, and within cJSON_Parse and cJSON_Duplicate but for the
\* items these still add to: in every list that is reached through a child, next
\* and prev agree, next ends it and the prev of the first item is the last one,
\* which add_item_to_array, cJSON_DetachItemViaPointer, cJSON_InsertItemInArray
\* and cJSON_ReplaceItemViaPointer each rely on and restore.
THEOREM LinkedBothWays == BuildSpec => []ListsLinked
<1>1. IInv => ListsLinked
  BY InvLinked
<1> QED BY <1>1, Always, PTL

\* Each allocated item is in one place of one list, or a root that the caller
\* holds or that a failed call lost, and no list has a free item: so cJSON_Delete
\* of the roots frees each cell once, and a failed parse or copy what it made.
THEOREM OneOwner == BuildSpec => []OwnedOnce
<1>1. IInv => OwnedOnce
  BY InvOwned
<1> QED BY <1>1, Always, PTL
=============================================================================
