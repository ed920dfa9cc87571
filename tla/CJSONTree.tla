----------------------------- MODULE CJSONTree -----------------------------
(***************************************************************************)
(* The item trees of extlib/cJSON/cJSON.c: cells linked by next, prev and  *)
(* child, the calls that add, detach, insert, replace and delete items,    *)
(* and the references that share the children of another item.             *)
(*                                                                         *)
(* Each call is one step: the library has no threads.  A call that returns *)
(* before it changes anything is not a step.  What the model keeps of an   *)
(* item is its links, its name and its two flags; values and types are     *)
(* left out, since none of these calls looks at them.                      *)
(***************************************************************************)
EXTENDS Naturals, Sequences, SequencesExt, FiniteSets

CONSTANTS MaxNodes,   \* bound: the items there may be at once
          Name,       \* the names of members
          Fold        \* a name in lower case

ASSUME TreeAssumption ==
    /\ MaxNodes \in Nat \ {0}
    /\ Fold \in [Name -> Name]

Node   == 1..MaxNodes
Null   == 0
NoName == "no name"

\* The memory of a name is the item's own (heap) or the caller's.
String == [name : Name, heap : BOOLEAN] \cup {[name |-> NoName, heap |-> FALSE]}
NoString == [name |-> NoName, heap |-> FALSE]

Cell == [next : Node \cup {Null}, prev : Node \cup {Null}, child : Node \cup {Null},
         string : String,
         isReference : BOOLEAN,      \* cJSON_IsReference
         stringIsConst : BOOLEAN]    \* cJSON_StringIsConst

\* cJSON_New_Item
Zeroed == [next |-> Null, prev |-> Null, child |-> Null, string |-> NoString,
           isReference |-> FALSE, stringIsConst |-> FALSE]

VARIABLES mem,      \* the cells
          alloc,    \* the allocated ones
          held,     \* the items the caller has to delete or hand over
          leaked    \* the ones a failed call has lost

vars == <<mem, alloc, held, leaked>>

Init ==
    /\ mem = [n \in Node |-> Zeroed]
    /\ alloc = {} /\ held = {} /\ leaked = {}

-----------------------------------------------------------------------------
\* The items from c on, by next.  At most MaxNodes are taken, so that a list
\* which bites its tail has a value too.
From(h, c) ==
    LET to[k \in 0..MaxNodes] ==
          IF k = 0 THEN <<>>
          ELSE LET before == to[k - 1]
                   n == IF k = 1 THEN c ELSE IF before = <<>> THEN Null ELSE h[Last(before)].next
               IN  IF n = Null THEN before ELSE Append(before, n)
    IN  to[MaxNodes]

Items(h, n) == From(h, h[n].child)

\* get_array_item, counted from 1; Null behind the end.
ItemAt(h, n, i) == IF i <= Len(Items(h, n)) THEN Items(h, n)[i] ELSE Null

\* get_object_item: the first member of that name.  The exact comparison also
\* stops at a member without a name, and then finds none.
ItemNamed(h, n, name, caseSensitive) ==
    LET kids == Items(h, n)
        stops(i) == LET s == h[kids[i]].string.name IN
                    IF caseSensitive THEN s \in {name, NoName}
                                     ELSE s # NoName /\ Fold[s] = Fold[name]
        found == {i \in 1..Len(kids) : stops(i) /\ \A j \in 1..(i - 1) : ~stops(j)}
    IN  IF \E i \in found : h[kids[i]].string # NoString
        THEN kids[CHOOSE i \in found : TRUE] ELSE Null

\* n, and what follows from it by next and by the child of those in `parents`.
Following(h, n, parents) ==
    LET down[d \in 0..MaxNodes] == IF d = 0 THEN {n}
          ELSE LET above == down[d - 1] IN
               above \cup (({h[m].next : m \in above}
                            \cup {h[m].child : m \in above \cap parents}) \ {Null})
    IN  down[MaxNodes]

\* Mutant: cJSON_Delete does not spare what a reference refers to.
FreedThroughReference(h, n) == Following(h, n, Node)

\* The cells cJSON_Delete frees: n, its next and its own children, and theirs.
Freed(h, n) == Following(h, n, {m \in Node : ~h[m].isReference})

\* What can be reached from n, through references too.
Reach(h, n) == Following(h, n, Node)

Delete(h, n) == [m \in Node |-> IF m \in Freed(h, n) THEN Zeroed ELSE h[m]]

\* malloc gives some cell; which one does not matter, so it is the least.
NewNode == CHOOSE n \in Node \ alloc : \A m \in Node \ alloc : n <= m

-----------------------------------------------------------------------------
\* suffix_object
SuffixObject(h, prev, item) == [h EXCEPT ![prev].next = item, ![item].prev = prev]

\* add_item_to_array
AddItemToArray(h, array, item) ==
    LET child == h[array].child IN
    IF child = Null
    THEN [h EXCEPT ![array].child = item, ![item].prev = item, ![item].next = Null]
    ELSE IF h[child].prev = Null THEN h
    ELSE [SuffixObject(h, h[child].prev, item) EXCEPT ![child].prev = item]

\* Mutant: the flag of a constant name stays when the item gets its own.
SetStringKeepsFlag(h, item, name, constant) ==
    [h EXCEPT ![item].string = [name |-> name, heap |-> ~constant],
              ![item].stringIsConst = @ \/ constant]

\* The name an item gets from add_item_to_object or replace_item_in_object.
\* The old one is freed unless the flag says that it is the caller's.
SetString(h, item, name, constant) ==
    [h EXCEPT ![item].string = [name |-> name, heap |-> ~constant],
              ![item].stringIsConst = constant]

\* create_reference, into the cell n
CreateReference(h, item, n) ==
    [h EXCEPT ![n] = [h[item] EXCEPT !.string = NoString, !.isReference = TRUE,
                                     !.next = Null, !.prev = Null]]

\* Mutant: the first item does not learn that the last one is another now.
DetachKeepsLast(h, parent, item) ==
    LET c  == h[item]
        h1 == IF item = h[parent].child THEN h ELSE [h EXCEPT ![c.prev].next = c.next]
        h2 == IF c.next = Null THEN h1 ELSE [h1 EXCEPT ![c.next].prev = c.prev]
        h3 == IF item = h2[parent].child THEN [h2 EXCEPT ![parent].child = c.next] ELSE h2
    IN  [h3 EXCEPT ![item].prev = Null, ![item].next = Null]

\* cJSON_DetachItemViaPointer
Detach(h, parent, item) ==
    LET c  == h[item]
        h1 == IF item = h[parent].child THEN h ELSE [h EXCEPT ![c.prev].next = c.next]
        h2 == IF c.next = Null THEN h1 ELSE [h1 EXCEPT ![c.next].prev = c.prev]
        h3 == IF item = h2[parent].child THEN [h2 EXCEPT ![parent].child = c.next]
              ELSE IF c.next = Null THEN [h2 EXCEPT ![h2[parent].child].prev = c.prev]
              ELSE h2
    IN  [h3 EXCEPT ![item].prev = Null, ![item].next = Null]

\* Mutant: inserting before the first item forgets the parent.
InsertBeforeKeepsChild(h, array, after, new) ==
    [h EXCEPT ![new].next = after, ![new].prev = h[after].prev, ![after].prev = new]

\* cJSON_InsertItemInArray, before the item `after`
InsertBefore(h, array, after, new) ==
    LET h1 == [h EXCEPT ![new].next = after, ![new].prev = h[after].prev,
                        ![after].prev = new]
    IN  IF after = h[array].child THEN [h1 EXCEPT ![array].child = new]
                                  ELSE [h1 EXCEPT ![h1[new].prev].next = new]

\* cJSON_ReplaceItemViaPointer, up to the deletion of the old item
Replace(h, parent, item, new) ==
    LET h1 == [h EXCEPT ![new].next = h[item].next, ![new].prev = h[item].prev]
        h2 == IF h1[new].next = Null THEN h1 ELSE [h1 EXCEPT ![h1[new].next].prev = new]
        first == h2[parent].child
        h3 == IF first = item
              THEN [h2 EXCEPT ![new].prev = IF h2[first].prev = first THEN new ELSE @,
                              ![parent].child = new]
              ELSE LET h4 == IF h2[new].prev = Null THEN h2
                             ELSE [h2 EXCEPT ![h2[new].prev].next = new]
                   IN  IF h4[new].next # Null THEN h4 ELSE [h4 EXCEPT ![first].prev = new]
    IN  [h3 EXCEPT ![item].next = Null, ![item].prev = Null]

-----------------------------------------------------------------------------
\* How the calls may be used.  An item that is added is a root of the
\* caller's and not around the target; references are not added to; nothing
\* that a reference outside of it can reach is deleted.
Target(a)    == a \in alloc \ leaked /\ ~mem[a].isReference
MayAdd(a, x) == Target(a) /\ x \in held /\ a \notin Freed(mem, x)
Unreferred(dead) ==
    \A r \in alloc \ dead : mem[r].isReference => Reach(mem, r) \cap dead = {}

\* cJSON_CreateNull and the other constructors
Create ==
    /\ alloc # Node
    /\ alloc' = alloc \cup {NewNode} /\ held' = held \cup {NewNode}
    /\ UNCHANGED <<mem, leaked>>

Give(x) == held' = held \ {x} /\ UNCHANGED <<alloc, leaked>>

AddToArray(a, x) == MayAdd(a, x) /\ mem' = AddItemToArray(mem, a, x) /\ Give(x)

AddToObject(a, name, x, constant) ==
    /\ MayAdd(a, x)
    /\ mem' = AddItemToArray(SetString(mem, x, name, constant), a, x)
    /\ Give(x)

\* cJSON_AddStringToObject and the like: a new item under a name.
AddNewToObject(a, name) ==
    /\ Target(a) /\ alloc # Node
    /\ mem' = AddItemToArray(SetString(mem, NewNode, name, FALSE), a, NewNode)
    /\ alloc' = alloc \cup {NewNode}
    /\ UNCHANGED <<held, leaked>>

\* A reference may be to anything but the target itself or what is around it.
MayRefer(a, x) == Target(a) /\ x \in alloc \ leaked /\ alloc # Node /\ a \notin Reach(mem, x)

AddReferenceToArray(a, x) ==
    /\ MayRefer(a, x)
    /\ mem' = AddItemToArray(CreateReference(mem, x, NewNode), a, NewNode)
    /\ alloc' = alloc \cup {NewNode}
    /\ UNCHANGED <<held, leaked>>

AddReferenceToObject(a, name, x) ==
    /\ MayRefer(a, x)
    /\ mem' = AddItemToArray(SetString(CreateReference(mem, x, NewNode),
                                       NewNode, name, FALSE), a, NewNode)
    /\ alloc' = alloc \cup {NewNode}
    /\ UNCHANGED <<held, leaked>>

\* The same when there is no memory for the name: the reference is lost.
AddReferenceToObjectFails(a, x) ==
    /\ MayRefer(a, x)
    /\ mem' = CreateReference(mem, x, NewNode)
    /\ alloc' = alloc \cup {NewNode} /\ leaked' = leaked \cup {NewNode}
    /\ UNCHANGED held

\* cJSON_DetachItemFromArray and cJSON_DetachItemFromObject
DetachItem(a, x) ==
    /\ Target(a) /\ x # Null
    /\ mem' = Detach(mem, a, x)
    /\ held' = held \cup {x}
    /\ UNCHANGED <<alloc, leaked>>

\* cJSON_Delete of a root
DeleteRoot(x) ==
    /\ x \in held
    /\ Unreferred(Freed(mem, x))
    /\ mem' = Delete(mem, x)
    /\ alloc' = alloc \ Freed(mem, x)
    /\ held' = held \ {x}
    /\ UNCHANGED leaked

\* cJSON_DeleteItemFromArray and cJSON_DeleteItemFromObject
DeleteItem(a, x) ==
    LET h == Detach(mem, a, x) IN
    /\ Target(a) /\ x # Null
    /\ Unreferred(Freed(h, x))
    /\ mem' = Delete(h, x)
    /\ alloc' = alloc \ Freed(h, x)
    /\ UNCHANGED <<held, leaked>>

\* cJSON_InsertItemInArray; behind the end it adds.
InsertItem(a, i, x) ==
    /\ MayAdd(a, x)
    /\ mem' = IF ItemAt(mem, a, i) = Null THEN AddItemToArray(mem, a, x)
                                          ELSE InsertBefore(mem, a, ItemAt(mem, a, i), x)
    /\ Give(x)

\* Mutant: the replaced item is not deleted.
ReplaceItemKeepsOld(h, a, old, x) ==
    /\ MayAdd(a, x) /\ old # Null
    /\ Unreferred(Freed(Replace(h, a, old, x), old))
    /\ mem' = Replace(h, a, old, x)
    /\ held' = held \ {x}
    /\ UNCHANGED <<alloc, leaked>>

\* cJSON_ReplaceItemViaPointer, with the cells as they are in h
ReplaceItem(h, a, old, x) ==
    LET h1 == Replace(h, a, old, x) IN
    /\ MayAdd(a, x) /\ old # Null
    /\ Unreferred(Freed(h1, old))
    /\ mem' = Delete(h1, old)
    /\ alloc' = alloc \ Freed(h1, old)
    /\ held' = held \ {x}
    /\ UNCHANGED leaked

\* Mutant: without a member of that name the replacement is deleted.
ReplaceMemberDeletes(a, name, x, caseSensitive) ==
    LET h == SetString(mem, x, name, FALSE)
        old == ItemNamed(h, a, name, caseSensitive)
    IN  /\ MayAdd(a, x)
        /\ IF old = Null
           THEN mem' = Delete(h, x) /\ alloc' = alloc \ Freed(h, x) /\ UNCHANGED <<held, leaked>>
           ELSE ReplaceItem(h, a, old, x)

\* replace_item_in_object: the replacement is renamed first, and only then
\* looked for; without a member of that name it stays the caller's.
ReplaceMember(a, name, x, caseSensitive) ==
    LET h == SetString(mem, x, name, FALSE)
        old == ItemNamed(h, a, name, caseSensitive)
    IN  /\ MayAdd(a, x)
        /\ IF old = Null THEN mem' = h /\ UNCHANGED <<alloc, held, leaked>>
                         ELSE ReplaceItem(h, a, old, x)

\* No memory for the name: the replacement has none then, and keeps its flag.
ReplaceMemberFails(a, x) ==
    /\ MayAdd(a, x)
    /\ mem' = [mem EXCEPT ![x].string = NoString]
    /\ UNCHANGED <<alloc, held, leaked>>

Add ==
    \E a \in alloc, x \in held :
        \/ AddToArray(a, x)
        \/ \E name \in Name, constant \in BOOLEAN : AddToObject(a, name, x, constant)
        \/ \E i \in 1..MaxNodes : InsertItem(a, i, x)

AddReference ==
    \E a \in alloc, x \in alloc :
        \/ AddReferenceToArray(a, x) \/ AddReferenceToObjectFails(a, x)
        \/ \E name \in Name : AddReferenceToObject(a, name, x)

TakeOut ==
    \E a \in alloc :
        \/ \E i \in 1..Len(Items(mem, a)) :
              DetachItem(a, ItemAt(mem, a, i)) \/ DeleteItem(a, ItemAt(mem, a, i))
        \/ \E name \in Name, cs \in BOOLEAN :
              LET x == ItemNamed(mem, a, name, cs) IN DetachItem(a, x) \/ DeleteItem(a, x)

Exchange ==
    \E a \in alloc, x \in held :
        \/ \E i \in 1..Len(Items(mem, a)) : ReplaceItem(mem, a, ItemAt(mem, a, i), x)
        \/ \E name \in Name, cs \in BOOLEAN : ReplaceMember(a, name, x, cs)
        \/ ReplaceMemberFails(a, x)

Next ==
    \/ Create
    \/ \E a \in alloc, name \in Name : AddNewToObject(a, name)
    \/ \E x \in held : DeleteRoot(x)
    \/ Add \/ AddReference \/ TakeOut \/ Exchange

Spec == Init /\ [][Next]_vars

-----------------------------------------------------------------------------
\* The cells hold what their types say, and nobody holds a freed item.
TypeOK ==
    /\ mem \in [Node -> Cell]
    /\ alloc \subseteq Node /\ held \subseteq alloc /\ leaked \subseteq alloc

\* The flag tells the owner of a name, through every renaming: the name
\* freed with an item is never the caller's, and none of its own is kept.
NamesFreedRight ==
    \A n \in alloc : mem[n].string # NoString =>
        (mem[n].stringIsConst <=> ~mem[n].string.heap)
=============================================================================
