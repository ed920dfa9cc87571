----------------------------- MODULE CJSONBuild -----------------------------
(***************************************************************************)
(* The calls of extlib/cJSON/cJSON.c that make many items: the parser,     *)
(* cJSON_Duplicate and cJSON_CreateIntArray and the like, beside the calls *)
(* of CJSONTree.  They link the items themselves, and when one of their    *)
(* steps fails they delete what they have made.                            *)
(*                                                                         *)
(* A call runs in steps here, one for each item, since it may fail at each *)
(* of them; no other call runs meanwhile.  Of the text that is parsed the  *)
(* model keeps the nesting: which token comes next, or that the text is    *)
(* wrong there, is a choice.                                               *)
(***************************************************************************)
EXTENDS CJSONTree

CONSTANT NestingLimit       \* CJSON_NESTING_LIMIT

ASSUME NestingAssumption == NestingLimit \in Nat

VARIABLES
    parsing,  \* the calls of parse_array and parse_object that run, innermost
              \* last; the first is cJSON_Parse itself, whose list is the root
    copying   \* the calls of cJSON_Duplicate that run, innermost last

buildVars == <<mem, alloc, held, leaked, parsing, copying>>

ParseFrame == [item : Node \cup {Null}, head : Node \cup {Null}, last : Node \cup {Null},
               read : BOOLEAN]      \* the last item has its value
CopyFrame  == [of : Node, new : Node, last : Node \cup {Null},
               rest : Node \cup {Null}]     \* what is still to be copied

BuildInit == Init /\ parsing = <<>> /\ copying = <<>>

Idle == parsing = <<>> /\ copying = <<>>

\* The cells of `dead` are freed.
Free(dead) ==
    /\ mem' = [n \in Node |-> IF n \in dead THEN Zeroed ELSE mem[n]]
    /\ alloc' = alloc \ dead

-----------------------------------------------------------------------------
Parser == Last(parsing)
Parsing(f) == parsing' = Append(Front(parsing), f)

\* cJSON_ParseWithLengthOpts, up to parse_value
ParseStart ==
    /\ Idle /\ alloc # Node
    /\ alloc' = alloc \cup {NewNode}
    /\ parsing' = <<[item |-> Null, head |-> NewNode, last |-> NewNode, read |-> FALSE]>>
    /\ UNCHANGED <<mem, held, leaked, copying>>

\* parse_value of what is not a list
ParseScalar ==
    /\ parsing # <<>> /\ ~Parser.read
    /\ Parsing([Parser EXCEPT !.read = TRUE])
    /\ UNCHANGED <<mem, alloc, held, leaked, copying>>

\* parse_value of a list: parse_array or parse_object begins.
ParseOpen ==
    /\ parsing # <<>> /\ ~Parser.read
    /\ Len(parsing) <= NestingLimit
    /\ parsing' = Append(parsing, [item |-> Parser.last, head |-> Null, last |-> Null,
                                   read |-> TRUE])
    /\ UNCHANGED <<mem, alloc, held, leaked, copying>>

\* The next item of the list, with a name of its own in an object.
ParseElement(string) ==
    LET f == Parser
        h == [mem EXCEPT ![NewNode].string = string]
    IN  /\ Len(parsing) > 1 /\ f.read /\ alloc # Node
        /\ f.head # Null => (string = NoString <=> mem[f.head].string = NoString)
        /\ alloc' = alloc \cup {NewNode}
        /\ IF f.head = Null
           THEN mem' = h /\ Parsing([f EXCEPT !.head = NewNode, !.last = NewNode, !.read = FALSE])
           ELSE /\ mem' = SuffixObject(h, f.last, NewNode)
                /\ Parsing([f EXCEPT !.last = NewNode, !.read = FALSE])
        /\ UNCHANGED <<held, leaked, copying>>

\* Mutant: the first item does not learn which one is the last.
ParseCloseKeepsPrev ==
    LET f == Parser IN
    /\ Len(parsing) > 1 /\ f.read
    /\ mem' = [mem EXCEPT ![f.item].child = f.head]
    /\ parsing' = [Front(parsing) EXCEPT ![Len(parsing) - 1].read = TRUE]
    /\ UNCHANGED <<alloc, held, leaked, copying>>

\* The end of the list: only now has the item its children.
ParseClose ==
    LET f == Parser
        h == IF f.head = Null THEN mem ELSE [mem EXCEPT ![f.head].prev = f.last]
    IN  /\ Len(parsing) > 1 /\ f.read
        /\ mem' = [h EXCEPT ![f.item].child = f.head]
        /\ parsing' = [Front(parsing) EXCEPT ![Len(parsing) - 1].read = TRUE]
        /\ UNCHANGED <<alloc, held, leaked, copying>>

ParseEnd ==
    /\ Len(parsing) = 1 /\ Parser.read
    /\ held' = held \cup {Parser.head}
    /\ parsing' = <<>>
    /\ UNCHANGED <<mem, alloc, leaked, copying>>

\* Mutant: parse_array and parse_object keep their list.
ParseFailKeepsLists ==
    /\ parsing # <<>>
    /\ Free(Freed(mem, parsing[1].head))
    /\ parsing' = <<>>
    /\ UNCHANGED <<held, leaked, copying>>

\* The text is wrong, too deeply nested, or there is no memory: each call
\* deletes its list.
ParseFail ==
    /\ parsing # <<>>
    /\ Free(UNION {Freed(mem, f.head) : f \in {g \in ToSet(parsing) : g.head # Null}})
    /\ parsing' = <<>>
    /\ UNCHANGED <<held, leaked, copying>>

-----------------------------------------------------------------------------
Copier == Last(copying)

\* The item that cJSON_Duplicate makes of x, without children.  A reference
\* becomes an item of its own, and a constant name is shared.
CopyOf(x) ==
    [Zeroed EXCEPT !.stringIsConst = mem[x].stringIsConst,
                   !.string = IF mem[x].stringIsConst THEN mem[x].string
                              ELSE [mem[x].string EXCEPT !.heap = mem[x].string # NoString]]

\* cJSON_Duplicate, not recursive
CopyItem(x) ==
    /\ Idle /\ x \in alloc \ leaked /\ alloc # Node
    /\ mem' = [mem EXCEPT ![NewNode] = CopyOf(x)]
    /\ alloc' = alloc \cup {NewNode} /\ held' = held \cup {NewNode}
    /\ UNCHANGED <<leaked, parsing, copying>>

\* Mutant: what a reference shares is not copied.
CopyOwnOnly(x) ==
    /\ alloc # Node
    /\ mem' = [mem EXCEPT ![NewNode] = CopyOf(x)]
    /\ alloc' = alloc \cup {NewNode}
    /\ copying' = Append(copying, [of |-> x, new |-> NewNode, last |-> Null,
                                   rest |-> IF mem[x].isReference THEN Null ELSE mem[x].child])
    /\ UNCHANGED <<held, leaked, parsing>>

\* cJSON_Duplicate(x, true) begins.  For items that reach themselves through
\* a reference it begins without end, until there is no memory.
Copy(x) ==
    /\ alloc # Node
    /\ mem' = [mem EXCEPT ![NewNode] = CopyOf(x)]
    /\ alloc' = alloc \cup {NewNode}
    /\ copying' = Append(copying, [of |-> x, new |-> NewNode, last |-> Null,
                                   rest |-> mem[x].child])
    /\ UNCHANGED <<held, leaked, parsing>>

CopyStart(x) == Idle /\ x \in alloc \ leaked /\ Copy(x)
CopyChild    == copying # <<>> /\ Copier.rest # Null /\ Copy(Copier.rest)

\* All children are copied: the first learns which one is the last.
Copied == IF mem[Copier.new].child = Null THEN mem
          ELSE [mem EXCEPT ![mem[Copier.new].child].prev = Copier.last]

\* The copy of a child goes behind those before it.
CopyReturn ==
    LET new    == Copier.new
        caller == copying[Len(copying) - 1]
    IN  /\ Len(copying) > 1 /\ Copier.rest = Null
        /\ mem' = IF caller.last = Null THEN [Copied EXCEPT ![caller.new].child = new]
                                        ELSE SuffixObject(Copied, caller.last, new)
        /\ copying' = Append(Front(Front(copying)),
                             [caller EXCEPT !.last = new, !.rest = mem[caller.rest].next])
        /\ UNCHANGED <<alloc, held, leaked, parsing>>

CopyEnd ==
    /\ Len(copying) = 1 /\ Copier.rest = Null
    /\ mem' = Copied
    /\ held' = held \cup {Copier.new}
    /\ copying' = <<>>
    /\ UNCHANGED <<alloc, leaked, parsing>>

\* No memory for the next item, or for a name: each call deletes its item.
CopyFail ==
    /\ copying # <<>> /\ (Copier.rest # Null \/ Copier.last = Null)
    /\ Free(UNION {Freed(mem, f.new) : f \in ToSet(copying)})
    /\ copying' = <<>>
    /\ UNCHANGED <<held, leaked, parsing>>

-----------------------------------------------------------------------------
\* cJSON_CreateIntArray, ...FloatArray, ...DoubleArray and ...StringArray.  Of
\* the items `made` are made; when there is no memory for the next one the
\* array is deleted with them.
CreateArray(count, made) ==
    LET cells == CHOOSE s \in Injection(1..(made + 1), Node \ alloc) : TRUE
        array == cells[1]
        linked[i \in 1..made] ==
            IF i = 1 THEN mem ELSE SuffixObject(linked[i - 1], cells[i], cells[i + 1])
        h     == IF made = 0 THEN mem ELSE [linked[made] EXCEPT ![array].child = cells[2]]
    IN  /\ Idle /\ made < Cardinality(Node \ alloc)
        /\ IF made = count
           THEN /\ mem' = IF made = 0 THEN h ELSE [h EXCEPT ![cells[2]].prev = Last(cells)]
                /\ alloc' = alloc \cup ToSet(cells)
                /\ held' = held \cup {array}
           ELSE /\ mem' = Delete(h, array)
                /\ alloc' = (alloc \cup ToSet(cells)) \ Freed(h, array)
                /\ UNCHANGED held
        /\ UNCHANGED <<leaked, parsing, copying>>

Parse ==
    \/ ParseStart \/ ParseScalar \/ ParseOpen
    \/ ParseElement(NoString) \/ \E name \in Name : ParseElement([name |-> name, heap |-> TRUE])
    \/ ParseClose \/ ParseEnd \/ ParseFail

Duplicate ==
    \/ \E x \in alloc : CopyItem(x) \/ CopyStart(x)
    \/ CopyChild \/ CopyReturn \/ CopyEnd \/ CopyFail

BuildNext ==
    \/ Idle /\ Next /\ UNCHANGED <<parsing, copying>>
    \/ Parse \/ Duplicate
    \/ \E count \in 0..MaxNodes : \E made \in 0..count : CreateArray(count, made)

BuildSpec == BuildInit /\ [][BuildNext]_buildVars

-----------------------------------------------------------------------------
Owner == {n \in alloc : ~mem[n].isReference}

\* Lists that belong to a call which still runs, and all that is in them.
Open == [d \in 1..Len(parsing) |-> From(mem, parsing[d].head)]
        \o [d \in 1..Len(copying) |-> <<copying[d].new>>]
Unfinished == UNION {Reach(mem, list[1]) : list \in ToSet(Open) \ {<<>>}}

BuildTypeOK ==
    /\ TypeOK
    /\ parsing \in Seq(ParseFrame) /\ copying \in Seq(CopyFrame)
    /\ parsing = <<>> \/ copying = <<>>

\* What every walk and every append relies on: next ends the list, prev leads
\* back, and the prev of the first item is the last one; but for an item to
\* which cJSON_Duplicate still adds.
ListsLinked ==
    \A n \in Owner \ {f.new : f \in ToSet(copying)} : LET kids == Items(mem, n) IN
        kids # <<>> =>
            /\ mem[Last(kids)].next = Null
            /\ mem[kids[1]].prev = Last(kids)
            /\ \A i \in 2..Len(kids) : mem[kids[i]].prev = kids[i - 1]

\* Each item has one owner: it is in exactly one place of one list, an open
\* one too, or the caller holds it, or a failed call lost it; and no list has
\* an item that is free.  So cJSON_Delete of everything held frees each cell
\* once, and all but the lost ones, and so does a call that fails.
Places(n) ==
    {p \in Owner \X Node : ItemAt(mem, p[1], p[2]) = n}
    \cup {p \in {MaxNodes + d : d \in 1..Len(Open)} \X Node :
            LET list == Open[p[1] - MaxNodes] IN p[2] <= Len(list) /\ list[p[2]] = n}
OwnedOnce ==
    /\ \A n \in Owner : ToSet(Items(mem, n)) \subseteq alloc
    /\ \A n \in alloc :
        IF n \in held \cup leaked
        THEN Places(n) = {} /\ mem[n].next = Null
        ELSE Cardinality(Places(n)) = 1

\* n with its name and those of its children, to the depth there may be.
Shape(n) ==
    LET shape[d \in Nat] ==
          [m \in Node |-> IF d = 0 THEN <<>>
             ELSE LET below == shape[d - 1] IN
                  <<mem[m].string.name, [i \in 1..Len(Items(mem, m)) |-> below[Items(mem, m)[i]]]>>]
    IN  shape[MaxNodes][n]

\* A deep copy is equal to what it is made of, a reference with what it
\* shares: what is copied of each item is equal to its first children, and
\* when nothing is left to copy, to all of them.
CopyIsEqual ==
    \A f \in ToSet(copying) :
        LET from == Items(mem, f.of)
            to   == Items(mem, f.new)
        IN  /\ mem[f.new].string.name = mem[f.of].string.name
            /\ Len(to) <= Len(from)
            /\ \A i \in 1..Len(to) : Shape(to[i]) = Shape(from[i])
            /\ f.rest = Null => Len(to) = Len(from)

\* The cells are a forest, and each call does to it what it says: a call that
\* makes many items adds a whole tree at its end, or nothing.
Forest == INSTANCE CJSONForest WITH
    live <- alloc \ Unfinished,
    items <- [n \in Node |-> IF n \in alloc \ Unfinished /\ ~mem[n].isReference
                             THEN Items(mem, n) ELSE <<>>]
ImplementsForest == Forest!Spec
=============================================================================
