---------------------------- MODULE CJSONForest ----------------------------
(***************************************************************************)
(* What the tree functions of cJSON promise: a forest of items, each with  *)
(* a sequence of children, none of them in two places.  A call puts a root *)
(* into a sequence, takes an item out of one, or deletes a whole tree, and *)
(* leaves every other sequence as it is.                                   *)
(***************************************************************************)
EXTENDS Naturals, Sequences, SequencesExt, FiniteSets

CONSTANT Node

VARIABLES live,   \* the items there are
          items   \* the children of each

vars == <<live, items>>

Children(n) == ToSet(items[n])
IsRoot(n)   == \A m \in live : n \notin Children(m)

\* n and its descendants, one generation after the other.
TreeOf(n) ==
    LET down[d \in Nat] == IF d = 0 THEN {n}
                           ELSE LET above == down[d - 1]
                                IN  above \cup UNION {Children(m) : m \in above}
    IN  down[Cardinality(Node)]

Without(kids, dead) ==
    /\ live' = live \ dead
    /\ items' = [m \in Node |-> IF m \in dead THEN <<>> ELSE kids[m]]

\* x may become a child of a.
MayGo(a, x) == x \in live /\ a # x /\ IsRoot(x) /\ a \notin TreeOf(x)

Init == live = {} /\ items = [n \in Node |-> <<>>]

\* A tree of new items, each in one place of it and n at its root.
NewTree(n) ==
    LET new == live' \ live IN
    /\ n \in new /\ live \subseteq live'
    /\ \A m \in Node \ new : items'[m] = items[m]
    /\ TreeOf(n)' = new
    /\ \A m \in new : Cardinality({p \in new \X (1..Cardinality(Node)) :
                                      p[2] \in DOMAIN items'[p[1]] /\ items'[p[1]][p[2]] = m})
                       = IF m = n THEN 0 ELSE 1

Put(a, i, x) ==
    /\ UNCHANGED live
    /\ items' = [items EXCEPT ![a] = InsertAt(@, i, x)]
    /\ MayGo(a, x)

\* A new item is made and put in one call.
PutNew(a, i, x) ==
    /\ x \notin live
    /\ live' = live \cup {x}
    /\ items' = [items EXCEPT ![a] = InsertAt(@, i, x)]

Take(a, i) == UNCHANGED live /\ items' = [items EXCEPT ![a] = RemoveAt(@, i)]

Drop(a, i) ==
    /\ items[a][i] \notin live'
    /\ Without([items EXCEPT ![a] = RemoveAt(@, i)], TreeOf(items[a][i]))

Swap(a, i, x) ==
    /\ items[a][i] \notin live'
    /\ MayGo(a, x)
    /\ Without([items EXCEPT ![a] = ReplaceAt(@, i, x)], TreeOf(items[a][i]))

Delete(n) == n \notin live' /\ IsRoot(n) /\ Without(items, TreeOf(n))

Next ==
    \/ \E n \in Node : NewTree(n)
    \/ \E n \in live : Delete(n)
    \/ \E a \in live :
         /\ items'[a] # items[a]
         /\ \E i \in 1..(Len(items[a]) + 1) :
               \/ \E x \in Node : Put(a, i, x) \/ PutNew(a, i, x)
               \/ i \in DOMAIN items[a] /\ (Take(a, i) \/ Drop(a, i) \/ \E x \in live : Swap(a, i, x))

Spec == Init /\ [][Next]_vars
=============================================================================
