----------------------------- MODULE HSM_proofs -----------------------------
(***************************************************************************)
(* For every tree of states whose levels HSM_STATE_Create accepts, every   *)
(* table of handlers and a machine created in a state at the top: the      *)
(* lists of HSM_Tran fit their arrays, the states entered and not left are *)
(* always one path from the top, and each transition runs in its order.    *)
(*                                                                         *)
(* The argument: what is active is the chain of one state, Reached, which  *)
(* each EXIT call moves to its parent and each ENTRY call to a child of    *)
(* it.  The two lists are the way it takes.                                *)
(***************************************************************************)
EXTENDS HSM, TLAPS, SequenceTheorems, ProofFacts

Node == State \cup {Root}

\* A set of states that holds the parents of its members up to the root.
Closed(D) == D \subseteq State /\ \A d \in D : Parent[d] \in D \cup {Root}

\* c and what is above it, without recursion.
Above(c) == {d \in State : \A D \in SUBSET State :
                 Closed(D) /\ c \in D \cup {Root} => d \in D}

\* Induction from the root down: a set that holds the root, and each state whose
\* parent it holds, holds all of them.
LEMMA FromTheRoot ==
    ASSUME NEW G, Root \in G,
           \A s \in State : Parent[s] \in G => s \in G
    PROVE  Node \subseteq G
<1> USE TreeAssumption DEF Node, HSM_STATE_Create
<1> DEFINE Bad == Node \ G
           T == {Level[c] : c \in Bad}
<1> SUFFICES ASSUME Bad # {} PROVE FALSE
  OBVIOUS
<1>1. T \subseteq Nat /\ T # {}
  OBVIOUS
<1>2. PICK n \in T : \A y \in T : n <= y
  BY <1>1, LeastElement
<1>3. PICK c \in Bad : Level[c] = n
  BY <1>2
<1>4. Parent[c] \in Bad /\ Level[Parent[c]] < n
  BY <1>3
<1>5. Level[Parent[c]] \in T /\ Level[Parent[c]] \in Nat /\ n \in Nat
  BY <1>4
<1>6. n <= Level[Parent[c]]
  BY ONLY <1>2, <1>5
<1> QED BY ONLY <1>4, <1>5, <1>6

\* What is above a state, by what is above its parent.
LEMMA AboveUp ==
    /\ Above(Root) = {}
    /\ \A c \in State : Above(c) = {c} \cup Above(Parent[c])
    /\ \A c \in Node : Closed(Above(c))
<1> USE TreeAssumption
<1>1. Above(Root) = {}
  <2>1. Closed({}) /\ Root \in {} \cup {Root}
    BY DEF Closed
  <2> QED BY <2>1 DEF Above
<1>2. ASSUME NEW c \in Node PROVE Closed(Above(c))
  BY DEF Closed, Above, Node
<1>3. ASSUME NEW c \in State PROVE Above(c) = {c} \cup Above(Parent[c])
  <2>1. Parent[c] \in Node
    BY DEF Node
  <2>2. {c} \cup Above(Parent[c]) \subseteq Above(c)
    BY DEF Above, Closed
  <2>3. Parent[c] \in Above(Parent[c]) \cup {Root}
    BY DEF Above, Node
  <2>4. Closed({c} \cup Above(Parent[c]))
    BY <1>2, <2>1, <2>3 DEF Closed
  <2>5. Above(c) \subseteq {c} \cup Above(Parent[c])
    BY <2>4 DEF Above, Closed
  <2> QED BY <2>2, <2>5
<1> QED BY <1>1, <1>2, <1>3

\* The equation by which Chain is defined has a solution, so Chain satisfies it.
LEMMA ChainUp ==
    \A c \in Node : Chain(c) = IF c = Root THEN {} ELSE {c} \cup Chain(Parent[c])
<1> DEFINE S == State \cup {Root}
           f == [c \in S |-> Above(c)]
           IsUp(u) == u = [c \in S |-> IF c = Root THEN {} ELSE {c} \cup u[Parent[c]]]
           up == CHOOSE u : IsUp(u)
<1>1. IsUp(f)
  BY AboveUp, TreeAssumption DEF Node
<1>2. IsUp(up)
  BY <1>1
<1>3. \A c : Chain(c) = up[c]
  BY DEF Chain
<1> QED BY <1>2, <1>3, TreeAssumption DEF Node

\* And it is the only solution.
LEMMA ChainIsAbove == \A c \in Node : Chain(c) = Above(c)
<1> DEFINE G == {c \in Node : Chain(c) = Above(c)}
<1>1. Root \in G
  BY ChainUp, AboveUp DEF Node
<1>2. \A s \in State : Parent[s] \in G => s \in G
  BY ChainUp, AboveUp, TreeAssumption DEF Node
<1>3. Node \subseteq G
  <2> HIDE DEF G
  <2> QED BY <1>1, <1>2, FromTheRoot
<1> QED BY <1>3

\* What lies above c are states no deeper than c, at most one of each level,
\* with their parents.
LEMMA ChainShape ==
    ASSUME NEW c \in Node
    PROVE  /\ Closed(Chain(c))
           /\ \A d \in Chain(c) : Level[d] <= Level[c]
           /\ \A s, t \in Chain(c) : Level[s] = Level[t] => s = t
<1> USE TreeAssumption DEF Node, HSM_STATE_Create
<1>1. \A e \in Node : Closed(Chain(e))
  BY ChainIsAbove, AboveUp
<1>2. ASSUME NEW e \in Node PROVE \A d \in Chain(e) : Level[d] <= Level[e]
  <2> DEFINE D == {d \in State : Level[d] <= Level[e]}
  <2>1. Closed(D)
    BY DEF Closed
  <2>2. e \in D \cup {Root}
    OBVIOUS
  <2>3. Above(e) \subseteq D
    BY <2>1, <2>2 DEF Above
  <2> QED BY <2>3, ChainIsAbove
<1>3. \A s, t \in Chain(c) : Level[s] = Level[t] => s = t
  <2> DEFINE G == {e \in Node : \A s, t \in Chain(e) : Level[s] = Level[t] => s = t}
  <2>1. Root \in G
    BY ChainUp
  <2>2. ASSUME NEW e \in State, Parent[e] \in G PROVE e \in G
    <3>1. Chain(e) = {e} \cup Chain(Parent[e])
      BY ChainUp
    <3>2. \A d \in Chain(Parent[e]) : d \in State /\ Level[d] < Level[e]
      <4>1. \A d \in Chain(Parent[e]) : d \in State /\ Level[d] <= Level[Parent[e]]
        BY <1>1, <1>2, <2>2 DEF Closed
      <4> QED BY <4>1
    <3> QED BY <2>2, <3>1, <3>2
  <2>3. Node \subseteq G
    <3> HIDE DEF G
    <3> QED BY <2>1, <2>2, FromTheRoot
  <2> QED BY <2>3
<1> QED BY <1>1, <1>2, <1>3

\* A state is above itself, its parent's chain is its own without it.
LEMMA ChainOfState ==
    ASSUME NEW s \in State
    PROVE  /\ Parent[s] \in Node
           /\ Chain(s) = {s} \cup Chain(Parent[s])
           /\ s \notin Chain(Parent[s])
<1>1. Parent[s] \in Node /\ s \in Node /\ s # Root
  BY TreeAssumption DEF Node
<1>2. Chain(s) = {s} \cup Chain(Parent[s])
  BY <1>1, ChainUp
<1>3. Level[s] > Level[Parent[s]] /\ Level[s] \in Nat /\ Level[Parent[s]] \in Nat
  BY TreeAssumption, <1>1 DEF Node, HSM_STATE_Create
<1>4. \A d \in Chain(Parent[s]) : Level[d] <= Level[Parent[s]]
  BY <1>1, ChainShape
<1> QED BY <1>1, <1>2, <1>3, <1>4

\* HSM_IsInState answers whether the state is in the chain of the current one.
LEMMA IsInStateIsChain ==
    ASSUME NEW s \in State, curState \in State
    PROVE  IsInState(s) <=> s \in Chain(curState)
<1> USE TreeAssumption DEF Node
<1> DEFINE S == State \cup {Root}
           f == [c \in S |-> s \in Chain(c)]
           Finds(g) == g = [c \in S |-> c = s \/ (c # Root /\ g[Parent[c]])]
           found == CHOOSE g : Finds(g)
<1>1. ASSUME NEW c \in S
      PROVE  (s \in Chain(c)) = (c = s \/ (c # Root /\ s \in Chain(Parent[c])))
  <2>1. CASE c = Root
    BY <2>1, ChainUp
  <2>2. CASE c # Root
    <3>1. c \in State
      BY <2>2
    <3> QED BY <3>1, <2>2, ChainOfState
  <2> QED BY <2>1, <2>2
<1>2. Finds(f)
  <2>1. \A c \in S : f[c] = (c = s \/ (c # Root /\ f[Parent[c]]))
    <3> TAKE c \in S
    <3>1. c # Root => Parent[c] \in S
      OBVIOUS
    <3> QED BY <1>1, <3>1
  <2> QED BY <2>1
<1>3. Finds(found)
  BY <1>2
<1>4. IsInState(s) = found[curState]
  BY Zenon DEF IsInState
<1> HIDE DEF found
<1> DEFINE G == {c \in S : found[c] = f[c]}
<1>5. \A c \in S : /\ found[c] = (c = s \/ (c # Root /\ found[Parent[c]]))
                   /\ f[c] = (c = s \/ (c # Root /\ f[Parent[c]]))
  BY <1>2, <1>3
<1>6. Root \in G
  BY <1>5
<1>7. ASSUME NEW c \in State, Parent[c] \in G PROVE c \in G
  BY <1>5, <1>7
<1>8. Node \subseteq G
  <2> HIDE DEF G
  <2> QED BY <1>6, <1>7, FromTheRoot
<1> QED BY <1>4, <1>8

-----------------------------------------------------------------------------
\* The list l is the climb from one state to another: each element is the parent
\* of the one before it, and so is `to` of the last.  Its length follows from
\* the levels, which is what keeps it inside an array of HSM_MAX_DEPTH.
Climb(l, from, to) ==
    LET p == Append(l, to) IN
    /\ l \in Seq(State)
    /\ p[1] = from
    /\ \A i \in 1..Len(l) : p[i + 1] = Parent[l[i]]
    /\ Len(l) + Level[to] = Level[from]

\* Recording the state a climb has come to, and going on to its parent, climbs on.
LEMMA ClimbOn ==
    ASSUME NEW l, NEW from, NEW s \in State, Climb(l, from, s)
    PROVE  Climb(Append(l, s), from, Parent[s])
<1> USE TreeAssumption DEF HSM_STATE_Create
<1> DEFINE q == Append(l, s)
           p == Append(q, Parent[s])
<1>1. l \in Seq(State) /\ q \in Seq(State) /\ Len(q) = Len(l) + 1 /\ Len(l) \in Nat
  BY DEF Climb
<1>2. p[1] = from
  BY <1>1 DEF Climb
<1>3. ASSUME NEW i \in 1..Len(q) PROVE p[i + 1] = Parent[q[i]]
  <2>1. CASE i = Len(q)
    BY <1>1, <2>1
  <2>2. CASE i # Len(q)
    <3>1. i \in 1..Len(l) /\ i + 1 \in 1..Len(q)
      BY <1>1, <2>2
    <3>2. p[i + 1] = q[i + 1] /\ q[i] = l[i]
      BY <1>1, <3>1
    <3> QED BY <3>1, <3>2 DEF Climb
  <2> QED BY <2>1, <2>2
<1>4. Len(q) + Level[Parent[s]] = Level[from]
  <2>1. Len(l) + Level[s] = Level[from]
    BY DEF Climb
  <2>2. Level[s] = Level[Parent[s]] + 1 /\ Level[Parent[s]] \in Nat
    OBVIOUS
  <2> QED BY ONLY <1>1, <2>1, <2>2
<1> QED BY <1>1, <1>2, <1>3, <1>4 DEF Climb

\* Without its first element, a climb begins one further up.
LEMMA ClimbTail ==
    ASSUME NEW l, NEW from, NEW to \in Node, Climb(l, from, to), l # <<>>
    PROVE  /\ from \in State /\ from = Head(l)
           /\ Climb(Tail(l), Parent[from], to)
<1> USE TreeAssumption DEF HSM_STATE_Create, Node
<1>1. l \in Seq(State) /\ Len(l) \in Nat /\ Len(l) > 0
  BY DEF Climb
<1>2. from = l[1] /\ from \in State /\ Head(l) = l[1]
  BY <1>1 DEF Climb
<1> DEFINE t == Tail(l)
           p == Append(l, to)
           q == Append(t, to)
<1>3. t \in Seq(State) /\ Len(t) = Len(l) - 1 /\ \A i \in 1..Len(t) : t[i] = l[i + 1]
  BY <1>1, HeadTailProperties
<1>4. \A i \in 1..(Len(t) + 1) : q[i] = p[i + 1]
  <2> HIDE DEF t
  <2>1. l \in Seq(Node) /\ t \in Seq(Node)
    BY <1>1, <1>3, SeqMonotonic
  <2>2. \A i \in 1..Len(l) : p[i] = l[i]
    BY <2>1
  <2>3. \A i \in 1..Len(t) : q[i] = t[i]
    BY <2>1
  <2>4. p[Len(l) + 1] = to /\ q[Len(t) + 1] = to
    BY <2>1
  <2>5. ASSUME NEW i \in 1..(Len(t) + 1) PROVE q[i] = p[i + 1]
    <3>1. CASE i = Len(t) + 1
      BY <1>3, <2>4, <3>1
    <3>2. CASE i # Len(t) + 1
      <4>1. i \in 1..Len(t) /\ i + 1 \in 1..Len(l)
        BY <1>1, <1>3, <3>2
      <4> QED BY <1>3, <2>2, <2>3, <4>1
    <3> QED BY <3>1, <3>2
  <2> QED BY <2>5
<1>5. q[1] = Parent[from]
  <2>1. q[1] = p[2]
    <3>1. 1 \in 1..(Len(t) + 1) /\ 1 + 1 = 2
      BY <1>1, <1>3
    <3> QED BY ONLY <1>4, <3>1
  <2>2. p[2] = Parent[l[1]]
    BY <1>1 DEF Climb
  <2> QED BY <1>2, <2>1, <2>2
<1>6. ASSUME NEW i \in 1..Len(t) PROVE q[i + 1] = Parent[t[i]]
  <2>1. i + 1 \in 1..Len(l) /\ i + 1 \in 1..(Len(t) + 1)
    BY <1>1, <1>3
  <2>2. p[(i + 1) + 1] = Parent[l[i + 1]]
    BY <2>1 DEF Climb
  <2> QED BY <1>3, <1>4, <2>1, <2>2
<1>7. Len(t) + Level[to] = Level[Parent[from]]
  BY <1>1, <1>2, <1>3 DEF Climb
<1> QED BY <1>2, <1>3, <1>5, <1>6, <1>7 DEF Climb

\* Without its last element, a climb ends at that element.
LEMMA ClimbFront ==
    ASSUME NEW l, NEW from, NEW to \in Node, Climb(l, from, to), l # <<>>
    PROVE  /\ Last(l) \in State /\ Parent[Last(l)] = to
           /\ Climb(Front(l), from, Last(l))
<1> USE TreeAssumption DEF HSM_STATE_Create, Node
<1>1. l \in Seq(State) /\ Len(l) \in Nat /\ Len(l) > 0
  BY DEF Climb
<1> DEFINE n == Len(l)
           t == Front(l)
           p == Append(l, to)
           q == Append(t, Last(l))
<1>2. Last(l) = l[n] /\ l[n] \in State
  BY <1>1 DEF Last
<1>3. t \in Seq(State) /\ Len(t) = n - 1 /\ \A i \in 1..(n - 1) : t[i] = l[i]
  <2>1. \A i \in 1..(n - 1) : l[i] \in State
    BY <1>1
  <2>2. 1 \in Int /\ n - 1 \in Int
    BY <1>1
  <2>3. /\ t \in Seq(State)
        /\ Len(t) = IF 1 <= n - 1 THEN (n - 1) - 1 + 1 ELSE 0
        /\ \A i \in 1..((n - 1) - 1 + 1) : t[i] = l[1 + i - 1]
    BY ONLY <2>1, <2>2, SubSeqProperties DEF Front
  <2>4. n \in Nat /\ n > 0
    BY <1>1
  <2> HIDE DEF t, n
  <2>5. Len(t) = IF 1 <= n - 1 THEN (n - 1) - 1 + 1 ELSE 0
    BY <2>3
  <2>6. Len(t) = n - 1 /\ (n - 1) - 1 + 1 = n - 1
    BY ONLY <2>4, <2>5
  <2>7. \A i \in 1..(n - 1) : t[i] = l[1 + i - 1] /\ 1 + i - 1 = i
    BY <1>1, <2>3, <2>6
  <2> QED BY <2>3, <2>6, <2>7
<1>4. q = l
  <2> HIDE DEF t
  <2>1. q \in Seq(State) /\ Len(q) = n
    BY <1>1, <1>2, <1>3
  <2>2. \A i \in 1..n : q[i] = l[i]
    BY <1>1, <1>2, <1>3
  <2> HIDE DEF q
  <2> QED BY <1>1, <2>1, <2>2, SeqEqual
<1>5. Parent[l[n]] = to
  <2>1. n \in 1..n /\ p[n + 1] = to
    BY <1>1
  <2> QED BY <2>1 DEF Climb
<1>6. q[1] = from
  <2>1. p[1] = l[1]
    BY <1>1
  <2> QED BY <1>4, <2>1 DEF Climb
<1>7. ASSUME NEW i \in 1..Len(t) PROVE q[i + 1] = Parent[t[i]]
  <2>1. i \in 1..n /\ i + 1 \in 1..n
    BY <1>1, <1>3
  <2>2. p[i + 1] = Parent[l[i]] /\ p[i + 1] = l[i + 1]
    BY <1>1, <2>1, SMTT(40) DEF Climb
  <2> QED BY <1>3, <1>4, <2>2
<1>8. Len(t) + Level[l[n]] = Level[from]
  <2>1. n + Level[to] = Level[from]
    BY DEF Climb
  <2>2. Level[l[n]] = Level[to] + 1 /\ Level[to] \in Nat
    BY <1>2, <1>5
  <2> QED BY <1>1, <1>3, <2>1, <2>2
<1> QED BY <1>2, <1>3, <1>5, <1>6, <1>7, <1>8 DEF Climb

-----------------------------------------------------------------------------
\* The state the last ENTRY or EXIT call has left the machine in: in the middle
\* of a transition neither the old current state nor the new one.
Reached ==
    CASE pc \in {"off", "createEntry"} -> Root
      [] pc = "exit"  -> Append(tran.exits, tran.src)[1]
      [] pc = "entry" -> IF tran.entries = <<>> THEN tran.next
                                                ELSE Parent[Last(tran.entries)]
      [] OTHER -> curState

\* Which of the locals hold something, by the place in the engine.
Control ==
    /\ hsmTran <=> (pc \in {"walk", "exit", "entry"})
    /\ pc \in {"off", "createEntry"} \/ curState \in State
    /\ pc = "createEntry" => curState = InitState
    /\ ~hsmTran => tran = NoTran
    /\ hsmTran => tran.next \in State /\ tran.src \in Node /\ tran.dst \in Node
    /\ run.event # HSME_NULL => run.state \in Node

\* The lists of HSM_Tran: what they hold already, and, since both climbs stop at
\* the common parent, what they are to hold.
Lists ==
    /\ pc = "walk" =>
         /\ Climb(tran.exits, curState, tran.src)
         /\ Climb(tran.entries, tran.next, tran.dst)
         /\ Chain(tran.src) \cap Chain(tran.dst) = Chain(curState) \cap Chain(tran.next)
    /\ pc = "exit" =>
         /\ tran.src = tran.dst
         /\ Climb(tran.exits, Reached, tran.src)
         /\ Climb(tran.entries, tran.next, tran.dst)
         /\ Chain(tran.src) = Chain(curState) \cap Chain(tran.next)
    /\ pc = "entry" =>
         /\ tran.exits = <<>>
         /\ Climb(tran.entries, tran.next, Reached)

Path == Reached \in Node /\ active = Chain(Reached)

IInv == TypeOK /\ Control /\ Lists /\ Path

-----------------------------------------------------------------------------
\* The bound of HSM_STATE_Create, with the root.
LEMMA LevelRange ==
    /\ MAX_DEPTH \in Nat /\ 0 < MAX_DEPTH
    /\ \A c \in Node : Level[c] \in Nat /\ Level[c] < MAX_DEPTH
<1>1. MAX_DEPTH \in Nat /\ 0 < MAX_DEPTH
  BY TreeAssumption, InitAssumption DEF HSM_STATE_Create
<1> QED BY <1>1, TreeAssumption DEF Node, HSM_STATE_Create

\* A climb fits an array of HSM_MAX_DEPTH states with a slot to spare.
LEMMA ClimbShort ==
    ASSUME NEW l, NEW from \in Node, NEW to \in Node, Climb(l, from, to)
    PROVE  l \in Seq(State) /\ Len(l) < MAX_DEPTH
<1>1. l \in Seq(State) /\ Len(l) \in Nat /\ Len(l) + Level[to] = Level[from]
  BY DEF Climb
<1>2. Level[from] \in Nat /\ Level[from] < MAX_DEPTH /\ Level[to] \in Nat /\ MAX_DEPTH \in Nat
  BY LevelRange
<1> QED BY ONLY <1>1, <1>2

\* A climb begins empty, at its source.
LEMMA ClimbNone == \A s \in Node : Climb(<<>>, s, s)
<1> TAKE s \in Node
<1>1. Append(<<>>, s)[1] = s /\ Len(<<>>) = 0 /\ <<>> \in Seq(State)
  OBVIOUS
<1> QED BY <1>1, LevelRange DEF Climb

\* Outside of HSM_Tran the invariant says little.
LEMMA Settled ==
    ASSUME Types', ~hsmTran', tran' = NoTran, curState' \in State,
           pc' \in {"createInit", "idle", "dispatch", "init"},
           run'.event # HSME_NULL => run'.state \in Node,
           active' = Chain(curState')
    PROVE  IInv'
<1>1. Reached' = curState'
  BY DEF Reached
<1>2. TypeOK'
  <2>1. tran'.exits = <<>> /\ tran'.entries = <<>>
    BY DEF NoTran
  <2>2. Len(<<>>) < MAX_DEPTH
    BY LevelRange
  <2> QED BY <2>1, <2>2 DEF TypeOK
<1>3. Control'
  BY DEF Control, Node
<1>4. Lists'
  BY DEF Lists
<1>5. Path'
  BY <1>1 DEF Path, Node
<1> QED BY <1>2, <1>3, <1>4, <1>5 DEF IInv

\* An HSM_Tran that is not refused has its lists empty and its ends at the
\* current state and the target.
LEMMA Accepted ==
    ASSUME NEW next \in State, NEW after \in {"idle", "createInit", "dispatch"},
           AcceptTran(next, after),
           curState' = curState, curState \in State, active' = Chain(curState),
           run' \in [event : Event \cup {HSME_NULL}, state : State \cup {Root, NoState}],
           run'.event # HSME_NULL => run'.state \in Node
    PROVE  IInv'
<1>1. tran' = [next |-> next, src |-> curState, dst |-> next,
               exits |-> <<>>, entries |-> <<>>]
  BY DEF AcceptTran, NoTran
<1>2. hsmTran' = TRUE /\ pc' = "walk" /\ back' = after
  BY DEF AcceptTran
<1>3. curState \in Node /\ next \in Node
  BY DEF Node
<1>4. Types'
  <2>1. <<>> \in Seq(State)
    OBVIOUS
  <2>2. tran' \in Locals
    BY <1>1, <2>1 DEF Locals
  <2>3. active' \subseteq State
    BY <1>3, ChainShape DEF Closed
  <2> QED BY <1>2, <2>2, <2>3 DEF Types
<1>5. TypeOK'
  <2>1. Len(<<>>) < MAX_DEPTH
    BY LevelRange
  <2> QED BY <1>1, <1>4, <2>1 DEF TypeOK
<1>6. Control'
  BY <1>1, <1>2, <1>3 DEF Control
<1>7. Lists'
  BY <1>1, <1>2, <1>3, ClimbNone DEF Lists
<1>8. Path'
  BY <1>2, <1>3 DEF Path, Reached
<1> QED BY <1>5, <1>6, <1>7, <1>8 DEF IInv

\* What a handler call makes of its HSM_Tran, if it is in none yet.
LEMMA FreeCall ==
    ASSUME IInv, ~hsmTran, curState \in State, curState' = curState,
           NEW o \in Outcome,
           NEW after \in {"idle", "createInit", "dispatch"},
           CallTran(o, after, tran), active' = Chain(curState),
           run' \in [event : Event \cup {HSME_NULL}, state : State \cup {Root, NoState}],
           run'.event # HSME_NULL => run'.state \in Node
    PROVE  IInv'
<1>1. CASE o.tran = NoState
  <2>1. pc' = after /\ tran' = tran /\ hsmTran' = hsmTran /\ back' = back
    BY <1>1 DEF CallTran
  <2>2. active' \subseteq State
    BY ChainShape DEF Closed, Node
  <2>3. Types'
    BY <2>1, <2>2 DEF IInv, TypeOK, Types
  <2>4. tran' = NoTran
    BY <2>1 DEF IInv, Control
  <2> QED BY <2>1, <2>3, <2>4, Settled
<1>2. CASE o.tran # NoState
  <2>1. o.tran \in State /\ AcceptTran(o.tran, after)
    BY <1>2 DEF CallTran, Outcome
  <2> QED BY <2>1, Accepted
<1> QED BY <1>1, <1>2

\* Within a transition it is refused.
LEMMA RefusedCall ==
    ASSUME IInv, hsmTran, NEW o, NEW after, NEW t, CallTran(o, after, t)
    PROVE  pc' = after /\ tran' = t /\ hsmTran' = hsmTran /\ back' = back
BY DEF CallTran

-----------------------------------------------------------------------------
\* The invariant holds when the program starts.
LEMMA InitIInv == Init => IInv
<1> SUFFICES ASSUME Init PROVE IInv
  OBVIOUS
<1> USE DEF Init
<1>1. Reached = Root
  BY DEF Reached
<1>2. Chain(Root) = {}
  BY ChainUp DEF Node
<1>3. <<>> \in Seq(State) /\ Len(<<>>) < MAX_DEPTH
  BY LevelRange
<1>4. TypeOK
  <2>1. tran \in Locals
    BY <1>3 DEF Locals, NoTran
  <2>2. run \in [event : Event \cup {HSME_NULL}, state : State \cup {Root, NoState}]
    BY DEF NoRun
  <2>3. Types
    BY <2>1, <2>2 DEF Types
  <2> QED BY <1>3, <2>3 DEF TypeOK, NoTran
<1>5. Control
  BY DEF Control, NoRun
<1> QED BY <1>1, <1>2, <1>4, <1>5 DEF IInv, Lists, Path, Node

\* HSM_Create and HSM_Run, outside of any transition.
LEMMA CreateIInv == ASSUME IInv, Create PROVE IInv'
<1> USE DEF Create, engine
<1>1. Types /\ Types'
  BY InitAssumption DEF IInv, TypeOK, Types
<1>2. TypeOK'
  BY <1>1 DEF IInv, TypeOK
<1>3. Control'
  BY InitAssumption DEF IInv, Control
<1>4. Path'
  BY DEF IInv, Path, Reached
<1> QED BY <1>2, <1>3, <1>4 DEF IInv, Lists

\* The first ENTRY enters a state below the root: the path begins with it.
LEMMA CreateEntryIInv == ASSUME IInv, NEW o \in Outcome, CreateEntry(o) PROVE IInv'
<1>1. pc = "createEntry" /\ ~hsmTran /\ curState = InitState
  BY DEF IInv, Control, CreateEntry
<1>2. active' = Chain(curState)
  <2>1. active = Chain(Root)
    BY <1>1 DEF IInv, Path, Reached
  <2>2. Chain(curState) = {curState} \cup Chain(Root)
    BY <1>1, InitAssumption, ChainUp, TreeAssumption DEF Node
  <2>3. Chain(Root) = {}
    BY ChainUp DEF Node
  <2> QED BY <2>1, <2>2, <2>3 DEF CreateEntry
<1> QED BY <1>1, <1>2, InitAssumption, FreeCall DEF CreateEntry, IInv, TypeOK, Types, Control

\* Between the calls of the application and in their handlers, up to a transition.
LEMMA AtCurrent ==
    ASSUME IInv, pc \in {"createInit", "idle", "dispatch", "init"}
    PROVE  ~hsmTran /\ curState \in State /\ active = Chain(curState)
BY DEF IInv, Control, Path, Reached

\* CreateInit keeps the inductive invariant.
LEMMA CreateInitIInv == ASSUME IInv, NEW o \in Outcome, CreateInit(o) PROVE IInv'
<1>1. ~hsmTran /\ curState \in State /\ active = Chain(curState)
  BY AtCurrent DEF CreateInit
<1> QED BY <1>1, FreeCall DEF CreateInit, IInv, TypeOK, Types, Control

\* Run keeps the inductive invariant.
LEMMA RunIInv == ASSUME IInv, NEW e \in RunEvent, Run(e) PROVE IInv'
<1>1. ~hsmTran /\ curState \in State /\ active = Chain(curState)
  BY AtCurrent DEF Run
<1>2. run' \in [event : Event \cup {HSME_NULL}, state : State \cup {Root, NoState}]
      /\ run'.state \in Node
  BY <1>1, HandlerAssumption DEF Run, Node
<1>3. Types'
  BY <1>2 DEF IInv, TypeOK, Types, Run, engine
<1> QED BY <1>1, <1>2, <1>3, Settled DEF Run, engine, IInv, Control

\* Dispatch keeps the inductive invariant.
LEMMA DispatchIInv == ASSUME IInv, NEW o \in Outcome, Dispatch(o) PROVE IInv'
<1>1. ~hsmTran /\ curState \in State /\ active = Chain(curState)
  BY AtCurrent DEF Dispatch
<1>2. run.state \in Node
  BY DEF IInv, Control, Dispatch
<1>3. run' = [event |-> o.ret,
              state |-> IF run.state = Root THEN NoState ELSE Parent[run.state]]
  BY DEF Dispatch
<1>4. run' \in [event : Event \cup {HSME_NULL}, state : State \cup {Root, NoState}]
  BY <1>2, <1>3, TreeAssumption DEF Outcome, Node
<1>5. run'.event # HSME_NULL => run'.state \in Node
  <2>1. CASE run.state = Root
    BY <2>1, <1>3 DEF Dispatch, Offer
  <2>2. CASE run.state # Root
    BY <2>2, <1>2, <1>3, TreeAssumption DEF Node
  <2> QED BY <2>1, <2>2
<1> QED BY <1>1, <1>4, <1>5, FreeCall DEF Dispatch

\* RunReturns keeps the inductive invariant.
LEMMA RunReturnsIInv == ASSUME IInv, RunReturns PROVE IInv'
<1>1. ~hsmTran /\ curState \in State /\ active = Chain(curState)
  BY AtCurrent DEF RunReturns
<1>2. Types' /\ run'.event = HSME_NULL
  BY DEF IInv, TypeOK, Types, RunReturns, engine, NoRun
<1> QED BY <1>1, <1>2, Settled DEF RunReturns, engine, IInv, Control

\* InitHandler keeps the inductive invariant.
LEMMA InitHandlerIInv == ASSUME IInv, NEW o \in Outcome, InitHandler(o) PROVE IInv'
<1>1. ~hsmTran /\ curState \in State /\ active = Chain(curState)
  BY AtCurrent DEF InitHandler
<1>2. back \in {"idle", "createInit", "dispatch"}
  BY DEF IInv, TypeOK, Types
<1> QED BY <1>1, <1>2, FreeCall DEF InitHandler, IInv, TypeOK, Types, Control

-----------------------------------------------------------------------------
\* HSM_Tran: the climb to the common parent.

\* Where the two ends differ, what is above both is above the next of the deeper
\* one, or of both where they are level; and that one is a state.
LEMMA CommonAbove ==
    ASSUME NEW c \in Node, NEW d \in Node, c # d
    PROVE  /\ Level[c] > Level[d] =>
                c \in State /\ Chain(Parent[c]) \cap Chain(d) = Chain(c) \cap Chain(d)
           /\ Level[c] < Level[d] =>
                d \in State /\ Chain(c) \cap Chain(Parent[d]) = Chain(c) \cap Chain(d)
           /\ Level[c] = Level[d] =>
                /\ c \in State /\ d \in State
                /\ Chain(Parent[c]) \cap Chain(Parent[d]) = Chain(c) \cap Chain(d)
<1> USE LevelRange
<1>1. \A e, f \in Node : e \in State /\ e # f /\ Level[e] >= Level[f] => e \notin Chain(f)
  <2> SUFFICES ASSUME NEW e \in State, NEW f \in Node, e # f, Level[e] >= Level[f]
               PROVE  e \notin Chain(f)
    BY DEF Node
  <2>1. CASE f = Root
    BY <2>1, ChainUp
  <2>2. CASE f # Root
    <3>1. f \in State
      BY <2>2 DEF Node
    <3>2. Chain(f) = {f} \cup Chain(Parent[f]) /\ Parent[f] \in Node
      BY <3>1, ChainOfState
    <3>3. Level[Parent[f]] < Level[f]
      BY <3>1, <3>2, TreeAssumption DEF HSM_STATE_Create
    <3>4. \A x \in Chain(Parent[f]) : Level[x] <= Level[Parent[f]]
      BY <3>2, ChainShape
    <3>5. e \notin Chain(Parent[f])
      <4>1. e \in Node
        BY DEF Node
      <4> QED BY <3>2, <3>3, <3>4, <4>1
    <3> QED BY <3>2, <3>5
  <2> QED BY <2>1, <2>2
<1>2. \A e \in Node : e \notin State => e = Root /\ Level[e] = 0
  BY TreeAssumption DEF Node
<1>3. \A e \in State : Level[e] > 0
  BY TreeAssumption DEF HSM_STATE_Create, Node
<1>4. CASE Level[c] > Level[d]
  <2>1. c \in State
    BY <1>2, <1>4
  <2> QED BY <1>1, <1>4, <2>1, ChainOfState
<1>5. CASE Level[c] < Level[d]
  <2>1. d \in State
    BY <1>2, <1>5
  <2> QED BY <1>1, <1>5, <2>1, ChainOfState
<1>6. CASE Level[c] = Level[d]
  <2>1. c \in State /\ d \in State
    BY <1>2, <1>3, <1>6
  <2>2. c \notin Chain(d) /\ d \notin Chain(c)
    BY <1>1, <1>6, <2>1
  <2> QED BY <1>6, <2>1, <2>2, ChainOfState
<1> QED BY <1>4, <1>5, <1>6

\* A round of the loops that leaves the locals as the invariant has them.
LEMMA Walked ==
    ASSUME IInv, pc = "walk", pc' = "walk",
           UNCHANGED <<engine, run, back, active>>,
           NEW src \in Node, NEW dst \in Node, NEW exits, NEW entries,
           Climb(exits, curState, src), Climb(entries, tran.next, dst),
           Chain(src) \cap Chain(dst) = Chain(tran.src) \cap Chain(tran.dst),
           tran' = [tran EXCEPT !.src = src, !.dst = dst,
                                !.exits = exits, !.entries = entries]
    PROVE  IInv'
<1>1. hsmTran /\ curState \in State /\ tran.next \in State /\ tran \in Locals
      /\ curState \in Node /\ tran.next \in Node
  BY DEF IInv, Control, TypeOK, Types, Node
<1>2. exits \in Seq(State) /\ Len(exits) < MAX_DEPTH
  BY <1>1, ClimbShort
<1>3. entries \in Seq(State) /\ Len(entries) < MAX_DEPTH
  BY <1>1, ClimbShort
<1>4. tran' = [next |-> tran.next, src |-> src, dst |-> dst,
               exits |-> exits, entries |-> entries]
  BY <1>1 DEF Locals
<1>5. tran' \in Locals
  BY <1>1, <1>2, <1>3, <1>4 DEF Locals, Node
<1>6. TypeOK'
  BY <1>2, <1>3, <1>4, <1>5 DEF IInv, TypeOK, Types, engine
<1>7. Control'
  BY <1>1, <1>4 DEF IInv, Control, engine
<1>8. Lists'
  BY <1>4 DEF IInv, Lists, engine
<1>9. Path'
  BY DEF IInv, Path, Reached, engine
<1> QED BY <1>6, <1>7, <1>8, <1>9 DEF IInv

\* The climb goes on from the deeper end, or from both, or is over.
LEMMA WalkIInv == ASSUME IInv, Walk PROVE IInv'
<1>1. /\ pc = "walk" /\ hsmTran /\ curState \in State
      /\ tran.next \in State /\ tran.src \in Node /\ tran.dst \in Node /\ tran \in Locals
  BY DEF IInv, Control, TypeOK, Types, Walk
<1>2. /\ Climb(tran.exits, curState, tran.src)
      /\ Climb(tran.entries, tran.next, tran.dst)
      /\ Chain(tran.src) \cap Chain(tran.dst) = Chain(curState) \cap Chain(tran.next)
  BY <1>1 DEF IInv, Lists
<1>3. CASE tran.src = tran.dst
  <2>1. /\ tran' = tran /\ pc' = "exit" /\ curState' = curState /\ hsmTran' = hsmTran
        /\ run' = run /\ back' = back /\ active' = active
    BY <1>3 DEF Walk, engine
  <2>2. Append(tran.exits, tran.src)[1] = curState
    BY <1>2 DEF Climb
  <2>3. Reached' = curState /\ active = Chain(curState) /\ curState \in Node
    BY <1>1, <2>1, <2>2 DEF Reached, IInv, Path, Node
  <2>4. TypeOK' /\ Control'
    BY <1>1, <2>1 DEF IInv, TypeOK, Types, Control
  <2>5. Lists'
    BY <1>2, <1>3, <2>1, <2>3 DEF Lists
  <2> QED BY <2>1, <2>3, <2>4, <2>5 DEF IInv, Path
<1>4. CASE tran.src # tran.dst
  <2>1. tran' = WalkStep(tran) /\ pc' = "walk" /\ UNCHANGED <<engine, run, back, active>>
    BY <1>1, <1>4 DEF Walk
  <2>2. Level[tran.src] \in Nat /\ Level[tran.dst] \in Nat
    BY <1>1, LevelRange
  <2>3. CASE Level[tran.src] > Level[tran.dst]
    <3>1. tran.src \in State
      BY <1>1, <1>4, <2>3, CommonAbove
    <3>2. tran' = [tran EXCEPT !.src = Parent[tran.src],
                               !.exits = Append(tran.exits, tran.src)]
      <4>1. tran' = SrcUp(tran)
        BY <2>1, <2>2, <2>3 DEF WalkStep
      <4>2. Up(tran.src) = Parent[tran.src]
        BY <3>1, TreeAssumption DEF Up
      <4> QED BY <1>1, <4>1, <4>2 DEF SrcUp, Locals
    <3>3. tran' = [tran EXCEPT !.src = Parent[tran.src], !.dst = tran.dst,
                               !.exits = Append(tran.exits, tran.src),
                               !.entries = tran.entries]
      BY <1>1, <3>2 DEF Locals
    <3>4. Climb(Append(tran.exits, tran.src), curState, Parent[tran.src])
      BY <1>2, <3>1, ClimbOn
    <3>5. Parent[tran.src] \in Node
      BY <3>1, ChainOfState
    <3>6. Chain(Parent[tran.src]) \cap Chain(tran.dst) = Chain(tran.src) \cap Chain(tran.dst)
      BY <1>1, <1>4, <2>3, CommonAbove
    <3> QED BY <1>1, <1>2, <2>1, <3>3, <3>4, <3>5, <3>6, Walked
  <2>4. CASE Level[tran.src] < Level[tran.dst]
    <3>1. tran.dst \in State
      BY <1>1, <1>4, <2>4, CommonAbove
    <3>2. tran' = [tran EXCEPT !.dst = Parent[tran.dst],
                               !.entries = Append(tran.entries, tran.dst)]
      <4>1. tran' = DstUp(tran)
        BY <2>1, <2>2, <2>4 DEF WalkStep
      <4>2. Up(tran.dst) = Parent[tran.dst]
        BY <3>1, TreeAssumption DEF Up
      <4> QED BY <1>1, <4>1, <4>2 DEF DstUp, Locals
    <3>3. tran' = [tran EXCEPT !.src = tran.src, !.dst = Parent[tran.dst],
                               !.exits = tran.exits,
                               !.entries = Append(tran.entries, tran.dst)]
      BY <1>1, <3>2 DEF Locals
    <3>4. Climb(Append(tran.entries, tran.dst), tran.next, Parent[tran.dst])
      BY <1>2, <3>1, ClimbOn
    <3>5. Parent[tran.dst] \in Node
      BY <3>1, ChainOfState
    <3>6. Chain(tran.src) \cap Chain(Parent[tran.dst]) = Chain(tran.src) \cap Chain(tran.dst)
      BY <1>1, <1>4, <2>4, CommonAbove
    <3> QED BY <1>1, <1>2, <2>1, <3>3, <3>4, <3>5, <3>6, Walked
  <2>5. CASE Level[tran.src] = Level[tran.dst]
    <3>1. tran.src \in State /\ tran.dst \in State
      BY <1>1, <1>4, <2>5, CommonAbove
    <3>2. tran' = DstUp(SrcUp(tran))
      BY <2>1, <2>2, <2>5 DEF WalkStep
    <3>3. SrcUp(tran) = [tran EXCEPT !.src = Parent[tran.src],
                                     !.exits = Append(tran.exits, tran.src)]
      BY <1>1, <3>1, TreeAssumption DEF SrcUp, Up, Locals
    <3>4. tran' = [tran EXCEPT !.src = Parent[tran.src], !.dst = Parent[tran.dst],
                               !.exits = Append(tran.exits, tran.src),
                               !.entries = Append(tran.entries, tran.dst)]
      BY <1>1, <3>1, <3>2, <3>3, TreeAssumption, ZenonT(60) DEF DstUp, Up, Locals
    <3>5. /\ Climb(Append(tran.exits, tran.src), curState, Parent[tran.src])
          /\ Climb(Append(tran.entries, tran.dst), tran.next, Parent[tran.dst])
      BY <1>2, <3>1, ClimbOn
    <3>6. Parent[tran.src] \in Node /\ Parent[tran.dst] \in Node
      BY <3>1, ChainOfState
    <3>7. Chain(Parent[tran.src]) \cap Chain(Parent[tran.dst])
            = Chain(tran.src) \cap Chain(tran.dst)
      BY <1>1, <1>4, <2>5, CommonAbove
    <3> QED BY <1>1, <2>1, <3>4, <3>5, <3>6, <3>7, Walked
  <2> QED BY <2>2, <2>3, <2>4, <2>5
<1> QED BY <1>3, <1>4

-----------------------------------------------------------------------------
\* HSM_Tran: the calls of EXIT, the hook and the calls of ENTRY.
LEMMA ExitStateIInv == ASSUME IInv, NEW o \in Outcome, ExitState(o) PROVE IInv'
<1> DEFINE s == Head(tran.exits)
           rest == Tail(tran.exits)
<1>1. /\ pc = "exit" /\ hsmTran /\ curState \in State /\ tran \in Locals
      /\ tran.next \in State /\ tran.src \in Node /\ tran.dst \in Node
      /\ tran.exits # <<>>
  BY DEF IInv, Control, TypeOK, Types, ExitState
<1>2. pc' = "exit" /\ tran' = [tran EXCEPT !.exits = rest]
      /\ hsmTran' = hsmTran /\ back' = back
  BY <1>1, RefusedCall DEF ExitState
<1>3. UNCHANGED <<curState, run>> /\ active' = active \ {s}
  BY DEF ExitState
<1>4. Climb(tran.exits, Reached, tran.src) /\ tran.src = tran.dst
      /\ Climb(tran.entries, tran.next, tran.dst)
      /\ Chain(tran.src) = Chain(curState) \cap Chain(tran.next)
  BY <1>1 DEF IInv, Lists
<1>5. s \in State /\ s = Reached /\ Climb(rest, Parent[s], tran.src)
  BY <1>1, <1>4, ClimbTail
<1>6. tran' = [next |-> tran.next, src |-> tran.src, dst |-> tran.dst,
               exits |-> rest, entries |-> tran.entries]
  BY <1>1, <1>2 DEF Locals
<1>7. Parent[s] \in Node /\ active' = Chain(Parent[s])
  <2>1. active = Chain(s)
    BY <1>5 DEF IInv, Path
  <2> QED BY <1>3, <1>5, <2>1, ChainOfState
<1>8. rest \in Seq(State) /\ Len(rest) < MAX_DEPTH
  BY <1>1, <1>5, <1>7, ClimbShort
<1>9. TypeOK'
  <2>1. tran' \in Locals
    BY <1>1, <1>6, <1>8 DEF Locals
  <2>2. active' \subseteq State
    BY <1>7, ChainShape DEF Closed
  <2>3. Types'
    BY <1>2, <1>3, <2>1, <2>2 DEF IInv, TypeOK, Types
  <2> QED BY <1>6, <1>8, <2>3 DEF IInv, TypeOK
<1>10. Control'
  BY <1>1, <1>2, <1>3, <1>6 DEF IInv, Control
<1>11. Reached' = Parent[s]
  <2>1. Append(rest, tran.src)[1] = Parent[s]
    BY <1>5 DEF Climb
  <2> QED BY <1>2, <1>6, <2>1 DEF Reached
<1>12. Lists'
  BY <1>2, <1>3, <1>4, <1>5, <1>6, <1>11 DEF Lists
<1> QED BY <1>7, <1>9, <1>10, <1>11, <1>12 DEF IInv, Path

\* CallMethod keeps the inductive invariant.
LEMMA CallMethodIInv == ASSUME IInv, CallMethod PROVE IInv'
<1>1. /\ pc = "exit" /\ tran.exits = <<>> /\ pc' = "entry" /\ hsmTran
      /\ curState' = curState /\ hsmTran' = hsmTran /\ run' = run
      /\ tran' = tran /\ back' = back /\ active' = active
      /\ tran.next \in State /\ tran.src \in Node /\ tran.dst \in Node
  BY DEF IInv, Control, CallMethod, engine
<1>2. tran.src = tran.dst /\ Climb(tran.entries, tran.next, tran.dst)
  BY <1>1 DEF IInv, Lists
<1>3. Reached = tran.src
  <2>1. Append(<<>>, tran.src)[1] = tran.src
    OBVIOUS
  <2> QED BY <1>1, <2>1 DEF Reached
<1>4. Reached' = tran.dst
  <2>1. CASE tran.entries = <<>>
    <3>1. Append(<<>>, tran.dst)[1] = tran.dst
      OBVIOUS
    <3>2. tran.next = tran.dst
      BY <1>2, <2>1, <3>1 DEF Climb
    <3> QED BY <1>1, <2>1, <3>2 DEF Reached
  <2>2. CASE tran.entries # <<>>
    <3>1. Parent[Last(tran.entries)] = tran.dst
      BY <1>1, <1>2, <2>2, ClimbFront
    <3> QED BY <1>1, <2>2, <3>1 DEF Reached
  <2> QED BY <2>1, <2>2
<1>5. TypeOK' /\ Control'
  BY <1>1 DEF IInv, TypeOK, Types, Control
<1>6. Lists'
  BY <1>1, <1>2, <1>4 DEF Lists
<1>7. Path'
  BY <1>1, <1>2, <1>3, <1>4 DEF IInv, Path
<1> QED BY <1>5, <1>6, <1>7 DEF IInv

\* EntryState keeps the inductive invariant.
LEMMA EntryStateIInv == ASSUME IInv, NEW o \in Outcome, EntryState(o) PROVE IInv'
<1> DEFINE s == Last(tran.entries)
           rest == Front(tran.entries)
<1>1. /\ pc = "entry" /\ hsmTran /\ curState \in State /\ tran \in Locals
      /\ tran.next \in State /\ tran.src \in Node /\ tran.dst \in Node
      /\ tran.entries # <<>> /\ tran.exits = <<>>
  BY DEF IInv, Control, Lists, TypeOK, Types, EntryState
<1>2. pc' = "entry" /\ tran' = [tran EXCEPT !.entries = rest]
      /\ hsmTran' = hsmTran /\ back' = back
  BY <1>1, RefusedCall DEF EntryState, DropEntry
<1>3. UNCHANGED <<curState, run>> /\ active' = active \cup {s}
  BY DEF EntryState, NextEntry
<1>4. Climb(tran.entries, tran.next, Reached) /\ Reached \in Node /\ active = Chain(Reached)
  BY <1>1 DEF IInv, Lists, Path
<1>5. s \in State /\ Parent[s] = Reached /\ Climb(rest, tran.next, s)
  BY <1>1, <1>4, ClimbFront
<1>6. tran' = [next |-> tran.next, src |-> tran.src, dst |-> tran.dst,
               exits |-> <<>>, entries |-> rest]
  BY <1>1, <1>2 DEF Locals
<1>7. s \in Node /\ tran.next \in Node /\ active' = Chain(s)
  BY <1>1, <1>3, <1>4, <1>5, ChainOfState DEF Node
<1>8. rest \in Seq(State) /\ Len(rest) < MAX_DEPTH
  BY <1>5, <1>7, ClimbShort
<1>9. TypeOK'
  <2>1. tran' \in Locals
    BY <1>1, <1>6, <1>8 DEF Locals
  <2>2. active' \subseteq State
    BY <1>7, ChainShape DEF Closed
  <2>3. Types'
    BY <1>2, <1>3, <2>1, <2>2 DEF IInv, TypeOK, Types
  <2> QED BY <1>1, <1>6, <1>8, <2>3 DEF IInv, TypeOK
<1>10. Control'
  BY <1>1, <1>2, <1>3, <1>6 DEF IInv, Control
<1>11. Reached' = s
  <2>1. CASE rest = <<>>
    <3>1. Append(<<>>, s)[1] = s
      OBVIOUS
    <3>2. s = tran.next
      BY <1>5, <2>1, <3>1 DEF Climb
    <3> QED BY <1>2, <1>6, <2>1, <3>2 DEF Reached
  <2>2. CASE rest # <<>>
    <3>1. Parent[Last(rest)] = s
      BY <1>5, <1>7, <2>2, ClimbFront
    <3> QED BY <1>2, <1>6, <2>2, <3>1 DEF Reached
  <2> QED BY <2>1, <2>2
<1>12. Lists'
  BY <1>2, <1>5, <1>6, <1>11 DEF Lists
<1> QED BY <1>7, <1>9, <1>10, <1>11, <1>12 DEF IInv, Path

\* When the last state has been entered, the path ends at the target.
LEMMA CommitIInv == ASSUME IInv, Commit PROVE IInv'
<1>1. hsmTran /\ tran.next \in State
  BY DEF IInv, Control, Commit
<1>2. active = Chain(tran.next)
  BY DEF IInv, Path, Reached, Commit
<1>3. Types'
  <2>1. <<>> \in Seq(State)
    OBVIOUS
  <2>2. NoTran \in Locals
    BY <2>1 DEF NoTran, Locals
  <2> QED BY <1>1, <2>2 DEF IInv, TypeOK, Types, Commit
<1> QED BY <1>1, <1>2, <1>3, Settled DEF Commit, IInv, Control

-----------------------------------------------------------------------------
\* Every step preserves the invariant.
LEMMA NextIInv == IInv /\ [Next]_vars => IInv'
<1> SUFFICES ASSUME IInv, [Next]_vars PROVE IInv'
  OBVIOUS
<1>1. CASE Create
  BY <1>1, CreateIInv
<1>2. ASSUME NEW e \in RunEvent, Run(e) PROVE IInv'
  BY <1>2, RunIInv
<1>3. ASSUME NEW o \in Outcome, CreateEntry(o) \/ CreateInit(o) \/ Dispatch(o)
      PROVE  IInv'
  BY <1>3, CreateEntryIInv, CreateInitIInv, DispatchIInv
<1>4. CASE RunReturns
  BY <1>4, RunReturnsIInv
<1>5. CASE TranStep
  BY <1>5, WalkIInv, CallMethodIInv, CommitIInv, ExitStateIInv, EntryStateIInv,
     InitHandlerIInv DEF TranStep
<1>6. CASE UNCHANGED vars
  BY <1>6 DEF vars, IInv, TypeOK, Types, Control, Lists, Path, Reached
<1> QED BY <1>1, <1>2, <1>3, <1>4, <1>5, <1>6 DEF Next, Inside

\* The inductive invariant holds in every reachable state.
THEOREM IInvAlways == Spec => []IInv
BY InitIInv, NextIInv, PTL DEF Spec

\* Types; and list_exit and list_entry never hold HSM_MAX_DEPTH states, whatever
\* the tree: the levels that HSM_STATE_Create bounds bound the two climbs.
THEOREM TypeCorrect == Spec => []TypeOK
<1>1. IInv => TypeOK
  BY DEF IInv
<1> QED BY <1>1, IInvAlways, PTL

\* At every handler call the states entered and not left are one path from the
\* top of the tree.
LEMMA ActiveIsPath == IInv => ActivePath
<1> SUFFICES ASSUME IInv PROVE ActivePath
  OBVIOUS
<1>1. Reached \in Node /\ active = Chain(Reached)
  BY DEF IInv, Path
<1> QED BY <1>1, ChainShape DEF ActivePath, Closed

\* In every reachable state, then, for every tree and all handlers.
THEOREM ActivePathAlways == Spec => []ActivePath
BY ActiveIsPath, IInvAlways, PTL

\* Between the calls of the application HSM_IsInState reports exactly the states
\* entered and not left, and the next HSM_Tran is not refused.
LEMMA IdleIsConsistent == IInv => IdleConsistent
<1> SUFFICES ASSUME IInv, pc = "idle"
             PROVE  ~hsmTran /\ \A s \in State : IsInState(s) <=> s \in active
  BY DEF IdleConsistent
<1>1. ~hsmTran /\ curState \in State /\ active = Chain(curState)
  BY AtCurrent
<1> QED BY <1>1, IsInStateIsChain

\* In every reachable state, then.
THEOREM IdleConsistentAlways == Spec => []IdleConsistent
BY IdleIsConsistent, IInvAlways, PTL

\* EXIT reaches only states that are active.
LEMMA ExitIsActive ==
    ASSUME IInv, NEW o \in Outcome, ExitState(o)
    PROVE  Head(tran.exits) \in active
<1>1. Climb(tran.exits, Reached, tran.src) /\ tran.src \in Node /\ tran.exits # <<>>
  BY DEF ExitState, IInv, Lists, Control
<1>2. Head(tran.exits) = Reached /\ Reached \in State
  BY <1>1, ClimbTail
<1> QED BY <1>2, ChainOfState DEF IInv, Path

\* EXIT reaches only states that are active, ENTRY only states that are not; the
\* hook runs when what is active is what source and target have in common; and
\* no handler diverts a transition from the target of its HSM_Tran.
THEOREM TransitionOrderAlways == Spec => TransitionOrder
<1> DEFINE Ordered ==
    /\ \A o \in Outcome : ExitState(o) => Head(tran.exits) \in active
    /\ \A o \in Outcome : EntryState(o) => NextEntry \notin active
    /\ CallMethod => active = Chain(curState) \cap Chain(tran.next)
    /\ hsmTran => IF hsmTran' THEN tran'.next = tran.next
                              ELSE curState' = tran.next
<1>1. IInv /\ [Next]_vars => [Ordered]_vars
  <2> SUFFICES ASSUME IInv, Next PROVE Ordered
    OBVIOUS
  <2>1. ASSUME NEW o \in Outcome, ExitState(o) PROVE Head(tran.exits) \in active
    BY <2>1, ExitIsActive
  <2>2. ASSUME NEW o \in Outcome, EntryState(o) PROVE NextEntry \notin active
    <3>1. Climb(tran.entries, tran.next, Reached) /\ Reached \in Node /\ tran.entries # <<>>
      BY <2>2 DEF EntryState, IInv, Lists, Path
    <3>2. Parent[NextEntry] = Reached /\ NextEntry \in State
      BY <3>1, ClimbFront DEF NextEntry
    <3> QED BY <3>2, ChainOfState DEF IInv, Path
  <2>3. CallMethod => active = Chain(curState) \cap Chain(tran.next)
    <3> SUFFICES ASSUME CallMethod PROVE active = Chain(curState) \cap Chain(tran.next)
      OBVIOUS
    <3>1. Append(<<>>, tran.src)[1] = tran.src
      OBVIOUS
    <3> QED BY <3>1 DEF CallMethod, IInv, Lists, Path, Reached
  <2>4. hsmTran => IF hsmTran' THEN tran'.next = tran.next ELSE curState' = tran.next
    <3> SUFFICES ASSUME hsmTran
                 PROVE  IF hsmTran' THEN tran'.next = tran.next ELSE curState' = tran.next
      OBVIOUS
    <3>1. pc \in {"walk", "exit", "entry"} /\ tran \in Locals
      BY DEF IInv, Control, TypeOK, Types
    <3>2. CASE Walk
      <4>1. \A t \in Locals : SrcUp(t).next = t.next /\ DstUp(t).next = t.next
                              /\ DstUp(SrcUp(t)).next = t.next
        BY DEF SrcUp, DstUp, Locals
      <4>2. WalkStep(tran).next = tran.next
        BY <3>1, <4>1 DEF WalkStep
      <4> QED BY <3>2, <4>2 DEF Walk, engine
    <3>3. CASE CallMethod
      BY <3>3 DEF CallMethod, engine
    <3>4. CASE Commit
      BY <3>4 DEF Commit
    <3>5. ASSUME NEW o \in Outcome, ExitState(o) PROVE hsmTran' /\ tran'.next = tran.next
      <4>1. hsmTran' = hsmTran /\ tran' = [tran EXCEPT !.exits = Tail(tran.exits)]
        BY <3>5, RefusedCall DEF ExitState
      <4> QED BY <3>1, <4>1 DEF Locals
    <3>6. ASSUME NEW o \in Outcome, EntryState(o) PROVE hsmTran' /\ tran'.next = tran.next
      <4>1. hsmTran' = hsmTran /\ tran' = [tran EXCEPT !.entries = DropEntry]
        BY <3>6, RefusedCall DEF EntryState
      <4> QED BY <3>1, <4>1 DEF Locals
    <3> QED BY <3>1, <3>2, <3>3, <3>4, <3>5, <3>6
         DEF Next, Inside, TranStep, Create, Run, CreateEntry, CreateInit, Dispatch,
             RunReturns, InitHandler
  <2> QED BY <2>1, <2>2, <2>3, <2>4
<1> QED BY <1>1, IInvAlways, PTL DEF Spec, TransitionOrder
=============================================================================
