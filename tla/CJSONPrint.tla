----------------------------- MODULE CJSONPrint -----------------------------
(***************************************************************************)
(* The printer of extlib/cJSON/cJSON.c: cJSON_Print, cJSON_PrintBuffered   *)
(* and cJSON_PrintPreallocated, with the buffer they write, byte by byte.  *)
(*                                                                         *)
(* Each step is what the code does after one call of `ensure`, which finds *)
(* room, makes room or fails: the size that is asked of it, the bytes that *)
(* are written and the offset that is set are three separate computations, *)
(* and the offset of some texts is only set later, by update_offset.       *)
(* Items do not change meanwhile; they are a table, a parent before its    *)
(* children.  A call is followed by another once its caller has freed the  *)
(* text.                                                                   *)
(***************************************************************************)
EXTENDS Integers, Sequences, SequencesExt

CONSTANTS Tree,         \* the items: kind, value, name and kids
          Room,         \* the sizes of buffer a caller may give
          DefaultSize,  \* default_buffer_size
          IntMax        \* INT_MAX

Item == DOMAIN Tree
Nul  == "NUL"
Byte == STRING \ {Nul}      \* of a C string
NoText == <<"no text">>     \* a null valuestring or string

Kind == {"null", "true", "false", "number", "string", "raw", "array", "object", "invalid"}

ASSUME PrintAssumption ==
    /\ Len(Tree) \in Nat /\ Item = 1..Len(Tree)
    /\ \A i \in Item : /\ Tree[i].kind \in Kind
                       /\ Tree[i].value \in Seq(Byte) /\ Tree[i].name \in Seq(Byte)
                       /\ Tree[i].kids \in Seq(Item)
                       /\ \A k \in 1..Len(Tree[i].kids) : Tree[i].kids[k] > i
    /\ Room \subseteq 0..IntMax      \* the callers' sizes are int
    /\ DefaultSize \in Nat \ {0} /\ IntMax \in Nat \ {0}

Junk == "indeterminate"

VARIABLES
    call,         \* the function that was called: its name, item and format
    where,        \* how far it is
    stack,        \* the calls of print_value that run, innermost last
    buffer,       \* the bytes of the buffer
    length, offset, depth,   \* of the printbuffer
    lost,         \* the buffer pointer is null
    blocks,       \* the allocated blocks of memory
    reallocate    \* whether global_hooks has reallocate

vars == <<call, where, stack, buffer, length, offset, depth, lost, blocks, reallocate>>

NoCall == [name |-> "none", item |-> 1, format |-> FALSE]

Init ==
    /\ call = NoCall /\ where = "idle" /\ stack = <<>>
    /\ buffer = <<>> /\ length = 0 /\ offset = 0 /\ depth = 0
    /\ lost = FALSE /\ blocks = 0 /\ reallocate = TRUE

-----------------------------------------------------------------------------
Larger(a, b)  == IF a > b THEN a ELSE b
Smaller(a, b) == IF a < b THEN a ELSE b

\* The buffer b after s is written behind its first n bytes; it gets longer
\* when that is past its end.
Over(b, n, s) ==
    [i \in 1..Larger(Len(b), n + Len(s)) |->
        IF i \in n + 1..n + Len(s) THEN s[i - n] ELSE IF i <= Len(b) THEN b[i] ELSE Junk]

\* strlen of what is behind the first n bytes of b
Strlen(b, n) ==
    CHOOSE k \in 0..Len(b) - n :
        /\ n + k = Len(b) \/ b[n + k + 1] = Nul
        /\ \A j \in 1..k : b[n + j] # Nul

\* Fresh memory of n bytes that begins with the first k bytes of b.
Fresh(b, k, n) == [i \in 1..n |-> IF i <= Smaller(k, Len(b)) THEN b[i] ELSE Junk]

noalloc == call.name = "preallocated"

\* Mutant: the null byte, which the callers ask for, is added once more.
AskedWithNull(needed) == needed + offset + 2

\* ensure: needed += p->offset + 1
Asked(needed) == needed + offset + 1

\* Mutant: the bytes at the end of the buffer are not counted.
FitsBarely(needed) == needed + offset <= length + 1

Fits(needed) == Asked(needed) <= length

\* The offset is out of the buffer or the size out of range, or the buffer is
\* too small and is not to be changed.
Refuses(needed) ==
    \/ length > 0 /\ offset >= length
    \/ needed > IntMax
    \/ ~Fits(needed) /\ (noalloc \/ Asked(needed) > IntMax)

NewSize(needed) == IF Asked(needed) > IntMax \div 2 THEN IntMax ELSE 2 * Asked(needed)

\* realloc keeps all bytes; malloc and memcpy keep offset + 1 of them (where a
\* buffer of no bytes has none to give, the byte is indeterminate).
Grown(needed) ==
    Fresh(buffer, IF reallocate THEN length ELSE offset + 1, NewSize(needed))

\* A step of the printer: ensure(needed), and if that gives room, the bytes
\* are written at the offset and the printer goes on as `to` says.  If not,
\* every function on the stack returns false.
Write(needed, bytes, to) ==
    \/ /\ ~Refuses(needed)
       /\ IF Fits(needed)
          THEN buffer' = Over(buffer, offset, bytes) /\ UNCHANGED length
          ELSE buffer' = Over(Grown(needed), offset, bytes) /\ length' = NewSize(needed)
       /\ offset' = to.offset /\ depth' = to.depth /\ stack' = to.stack
       /\ where' = IF to.stack = <<>> THEN "printed" ELSE "printing"
       /\ UNCHANGED <<call, lost, blocks, reallocate>>
    \/ /\ Refuses(needed)
       /\ where' = "failed" /\ stack' = <<>>
       /\ UNCHANGED <<call, buffer, length, offset, depth, lost, blocks, reallocate>>
    \/ /\ ~Refuses(needed) /\ ~Fits(needed)     \* there is no memory
       /\ buffer' = <<>> /\ length' = 0 /\ lost' = TRUE /\ blocks' = blocks - 1
       /\ where' = "failed" /\ stack' = <<>>
       /\ UNCHANGED <<call, offset, depth, reallocate>>

-----------------------------------------------------------------------------
\* The innermost print_value: its item, the child it is at and its place.
Top == Last(stack)
It  == Tree[Top.item]
Frame(i) == [item |-> i, kid |-> 0, at |-> "value"]

At(kinds, place) == where = "printing" /\ It.kind \in kinds /\ Top.at = place
To(place) == Append(Front(stack), [Top EXCEPT !.at = place])
Returned  == Front(stack)
PrintKid(k) == Append(Append(Front(stack), [Top EXCEPT !.kid = k, !.at = "returned"]),
                      Frame(It.kids[k]))
More == Top.kid < Len(It.kids)
Formatted(a, b) == IF call.format THEN a ELSE b
Tabs(n) == [i \in 1..n |-> "\t"]

\* A text of print_value or print_string_ptr: the offset stays at its start.
WriteText(needed, bytes, frames) ==
    Write(needed, bytes, [offset |-> offset, depth |-> depth, stack |-> frames])

Constant(kind) == CASE kind = "null"  -> <<"n", "u", "l", "l">>
                    [] kind = "true"  -> <<"t", "r", "u", "e">>
                    [] kind = "false" -> <<"f", "a", "l", "s", "e">>

PrintConstant ==
    /\ At({"null", "true", "false"}, "value")
    /\ WriteText(Len(Constant(It.kind)) + 1, Append(Constant(It.kind), Nul), Returned)

\* print_number, whose text is at most 25 characters
PrintNumber ==
    /\ At({"number"}, "value")
    /\ Write(Len(It.value) + 1, Append(It.value, Nul),
             [offset |-> offset + Len(It.value), depth |-> depth, stack |-> Returned])

PrintRaw ==
    /\ At({"raw"}, "value") /\ It.value # NoText
    /\ WriteText(Len(It.value) + 1, Append(It.value, Nul), Returned)

\* An item that is not there, of no known type, or raw without a text
PrintNothing ==
    /\ At({"invalid", "raw"}, "value")
    /\ It.kind = "raw" => It.value = NoText
    /\ where' = "failed" /\ stack' = <<>>
    /\ UNCHANGED <<call, buffer, length, offset, depth, lost, blocks, reallocate>>

\* print_string_ptr: one pass counts the characters, another writes them.  Of
\* the seven characters with a short form, which both passes treat alike, three
\* stand for all: the two that mean something to the parser, and a control
\* character, as the others are.
Short == [c \in {"\"", "\\", "\n"} |-> CASE c = "\"" -> "\"" [] c = "\\" -> "\\" [] c = "\n" -> "n"]
Control == {"ESC"}      \* below 32 and without a short form

EscapeCharacters(c) == IF c \in DOMAIN Short THEN 1 ELSE IF c \in Control THEN 5 ELSE 0

Escaped(c) == IF c \in DOMAIN Short THEN <<"\\", Short[c]>>
              ELSE IF c \in Control THEN <<"\\", "u", "0", "0", "1", "b">> ELSE <<c>>

\* Mutant: of the characters to be escaped only the quotes are counted.
OutputLengthOfQuotes(text) ==
    FoldLeft(LAMBDA n, c : n + IF c = "\"" THEN 1 ELSE 0, Len(text), text)

OutputLength(text) ==
    LET counted[i \in 0..Len(text)] ==
          IF i = 0 THEN Len(text) ELSE counted[i - 1] + EscapeCharacters(text[i])
    IN  IF text = NoText THEN 0 ELSE counted[Len(text)]

EscapedText(text) ==
    LET output[i \in 0..Len(text)] ==
          IF i = 0 THEN <<>> ELSE output[i - 1] \o Escaped(text[i])
    IN  IF text = NoText THEN <<>> ELSE output[Len(text)]

\* The second quote goes where the first pass says.
WriteString(text, frames) ==
    WriteText(OutputLength(text) + 3,
              Over(<<"\"">> \o EscapedText(text), OutputLength(text) + 1, <<"\"", Nul>>), frames)

PrintString == At({"string"}, "value") /\ WriteString(It.value, Returned)

\* Where the list goes on after a key or a child.
AfterText == IF Top.at = "named" THEN "colon"
             ELSE IF It.kind = "object" THEN "after" ELSE IF More THEN "comma" ELSE "close"

\* Mutant: the offset stays behind what a child has written.
UpdateOffsetOfKey ==
    /\ where = "printing" /\ Top.at \in {"returned", "named"}
    /\ offset' = IF Top.at = "named" THEN offset + Strlen(buffer, offset) ELSE offset
    /\ stack' = To(AfterText)
    /\ UNCHANGED <<call, where, buffer, length, depth, lost, blocks, reallocate>>

\* update_offset, after a child or a key
UpdateOffset ==
    /\ where = "printing" /\ Top.at \in {"returned", "named"}
    /\ offset' = offset + Strlen(buffer, offset)
    /\ stack' = To(AfterText)
    /\ UNCHANGED <<call, where, buffer, length, depth, lost, blocks, reallocate>>

-----------------------------------------------------------------------------
\* print_array
OpenArray ==
    /\ At({"array"}, "value")
    /\ Write(1, <<"[">>, [offset |-> offset + 1, depth |-> depth + 1,
                          stack |-> IF More THEN PrintKid(1) ELSE To("close")])

Comma ==
    LET bytes == Formatted(<<",", " ">>, <<",">>) IN
    /\ At({"array"}, "comma")
    /\ Write(Len(bytes) + 1, Append(bytes, Nul),
             [offset |-> offset + Len(bytes), depth |-> depth, stack |-> PrintKid(Top.kid + 1)])

CloseArray ==
    /\ At({"array"}, "close")
    /\ Write(2, <<"]", Nul>>, [offset |-> offset, depth |-> depth - 1, stack |-> Returned])

\* print_object
Member(k) == Append(Front(stack), [Top EXCEPT !.kid = k, !.at = Formatted("indent", "key")])

OpenObject ==
    LET bytes == Formatted(<<"{", "\n">>, <<"{">>) IN
    /\ At({"object"}, "value")
    /\ Write(Len(bytes) + 1, bytes, [offset |-> offset + Len(bytes), depth |-> depth + 1,
                                     stack |-> IF More THEN Member(1) ELSE To("close")])

Indent ==
    /\ At({"object"}, "indent")
    /\ Write(depth, Tabs(depth), [offset |-> offset + depth, depth |-> depth, stack |-> To("key")])

Key == At({"object"}, "key") /\ WriteString(Tree[It.kids[Top.kid]].name, To("named"))

Colon ==
    LET bytes == Formatted(<<":", "\t">>, <<":">>) IN
    /\ At({"object"}, "colon")
    /\ Write(Len(bytes), bytes,
             [offset |-> offset + Len(bytes), depth |-> depth, stack |-> PrintKid(Top.kid)])

AfterMember ==
    LET bytes == (IF More THEN <<",">> ELSE <<>>) \o Formatted(<<"\n">>, <<>>) IN
    /\ At({"object"}, "after")
    /\ Write(Len(bytes) + 1, Append(bytes, Nul),
             [offset |-> offset + Len(bytes), depth |-> depth,
              stack |-> IF More THEN Member(Top.kid + 1) ELSE To("close")])

CloseObject ==
    /\ At({"object"}, "close")
    /\ Write(Formatted(depth + 1, 2), Tabs(Formatted(depth - 1, 0)) \o <<"}", Nul>>,
             [offset |-> offset, depth |-> depth - 1, stack |-> Returned])

PrintValue ==
    \/ PrintConstant \/ PrintNumber \/ PrintRaw \/ PrintString \/ PrintNothing \/ UpdateOffset
    \/ OpenArray \/ Comma \/ CloseArray
    \/ OpenObject \/ Indent \/ Key \/ Colon \/ AfterMember \/ CloseObject

-----------------------------------------------------------------------------
\* cJSON_Print, cJSON_PrintBuffered or cJSON_PrintPreallocated begins, with a
\* buffer of n bytes.
Begin(name, i, format, n) ==
    /\ where = "idle"
    /\ call' = [name |-> name, item |-> i, format |-> format]
    /\ buffer' = Fresh(<<>>, 0, n) /\ length' = n
    /\ stack' = <<Frame(i)>> /\ where' = "printing"
    /\ blocks' = IF name = "preallocated" THEN blocks ELSE blocks + 1
    /\ UNCHANGED <<offset, depth, lost, reallocate>>

\* There is no memory for the buffer.
BeginFails(name, i, format) ==
    /\ where = "idle" /\ where' = "null"
    /\ call' = [name |-> name, item |-> i, format |-> format]
    /\ UNCHANGED <<stack, buffer, length, offset, depth, lost, blocks, reallocate>>

\* print_value has succeeded.  Only cJSON_Print goes on: the text is moved to
\* memory of its own size.
Return ==
    /\ where = "printed" /\ call.name # "print"
    /\ where' = "returned"
    /\ UNCHANGED <<call, stack, buffer, length, offset, depth, lost, blocks, reallocate>>

\* Mutant: the offset is taken as print_value has left it.
ShrinkToOffset ==
    /\ where = "printed" /\ call.name = "print"
    /\ buffer' = Over(Fresh(buffer, length, offset + 1), offset, <<Nul>>)
    /\ length' = offset + 1
    /\ where' = "returned"
    /\ UNCHANGED <<call, stack, offset, depth, lost, blocks, reallocate>>

Shrink ==
    LET end == offset + Strlen(buffer, offset) IN
    /\ where = "printed" /\ call.name = "print"
    /\ buffer' = IF reallocate THEN Fresh(buffer, length, end + 1)
                 ELSE Over(Fresh(buffer, Smaller(length, end + 1), end + 1), end, <<Nul>>)
    /\ length' = end + 1 /\ offset' = end
    /\ where' = "returned"
    /\ UNCHANGED <<call, stack, depth, lost, blocks, reallocate>>

ShrinkFails ==
    /\ where = "printed" /\ call.name = "print"
    /\ where' = "failed"
    /\ UNCHANGED <<call, stack, buffer, length, offset, depth, lost, blocks, reallocate>>

\* Mutant: the buffer is freed also when ensure has done so.
FailFreesAgain ==
    /\ where = "failed" /\ where' = "null"
    /\ blocks' = IF noalloc THEN blocks ELSE blocks - 1
    /\ UNCHANGED <<call, stack, buffer, length, offset, depth, lost, reallocate>>

\* The call returns null, or false, and frees a buffer of its own.
Fail ==
    /\ where = "failed" /\ where' = "null"
    /\ blocks' = IF lost \/ noalloc THEN blocks ELSE blocks - 1
    /\ UNCHANGED <<call, stack, buffer, length, offset, depth, lost, reallocate>>

\* The caller frees the text, if it has one to free, with cJSON_free.
Release ==
    /\ where \in {"returned", "null"} /\ where' = "idle"
    /\ blocks' = IF where = "null" \/ noalloc THEN blocks ELSE blocks - 1
    /\ call' = NoCall /\ buffer' = <<>> /\ length' = 0 /\ offset' = 0 /\ depth' = 0
    /\ lost' = FALSE
    /\ UNCHANGED <<stack, reallocate>>

\* cJSON_InitHooks: there is no reallocate unless malloc and free are the
\* library's.
InitHooks ==
    /\ where = "idle" /\ reallocate' \in BOOLEAN
    /\ UNCHANGED <<call, where, stack, buffer, length, offset, depth, lost, blocks>>

Next ==
    \/ \E i \in Item, f \in BOOLEAN :
          \/ Begin("print", i, f, DefaultSize)
          \/ \E n \in Room : Begin("buffered", i, f, n) \/ Begin("preallocated", i, f, n)
          \/ \E name \in {"print", "buffered"} : BeginFails(name, i, f)
    \/ PrintValue \/ Return \/ Shrink \/ ShrinkFails \/ Fail \/ Release \/ InitHooks

Spec == Init /\ [][Next]_vars

-----------------------------------------------------------------------------
\* The text of an item, as the JSON and the format define it: of a string, ...
Quoted(text) == <<"\"">> \o EscapedText(text) \o <<"\"">>

\* ... of a list before, between and behind its children, and before each ...
Newline(f)   == IF f THEN <<"\n">> ELSE <<>>
ColonText(f) == IF f THEN <<":", "\t">> ELSE <<":">>
OpenText(kind, f)     == IF kind = "array" THEN <<"[">> ELSE <<"{">> \o Newline(f)
BetweenText(kind, f)  == IF kind = "object" THEN <<",">> \o Newline(f)
                         ELSE IF f THEN <<",", " ">> ELSE <<",">>
LastText(i, f)        == Newline(f /\ Tree[i].kind = "object" /\ Tree[i].kids # <<>>)
CloseText(kind, f, d) == IF kind = "array" THEN <<"]">> ELSE Tabs(IF f THEN d ELSE 0) \o <<"}">>
NameText(i, k, f, d)  ==
    IF Tree[i].kind = "array" THEN <<>>
    ELSE Tabs(IF f THEN d + 1 ELSE 0) \o (Quoted(Tree[Tree[i].kids[k]].name) \o ColonText(f))

\* ... of its children, those from the k-th on: each but the first has
\* `between` before it.
Joined(texts, between, k) ==
    LET last[n \in 0..Len(texts)] ==
          IF n = 0 THEN <<>>
          ELSE LET i == Len(texts) + 1 - n
               IN  (IF i = 1 THEN <<>> ELSE between) \o (texts[i] \o last[n - 1])
    IN  last[Len(texts) + 1 - k]

\* The text of item i at depth d, when `text` has those of its children.
KidTexts(text, i, f, d) ==
    [k \in 1..Len(Tree[i].kids) |-> NameText(i, k, f, d) \o text[Tree[i].kids[k]][f][d + 1]]

TextFrom(text, i, f, d) ==
    LET x == Tree[i]
    IN  CASE x.kind \in {"null", "true", "false"} -> Constant(x.kind)
          [] x.kind = "string" -> Quoted(x.value)
          [] x.kind \in {"number", "raw"} -> x.value
          [] x.kind \in {"array", "object"} ->
                OpenText(x.kind, f)
                  \o (Joined(KidTexts(text, i, f, d), BetweenText(x.kind, f), 1)
                        \o (LastText(i, f) \o CloseText(x.kind, f, d)))
          [] OTHER -> NoText

TextOf[i \in Item] == [f \in BOOLEAN |-> [d \in Nat |-> TextFrom(TextOf, i, f, d)]]

\* The items at and below i that print_value refuses
Unprintable[i \in Item] ==
    {j \in {i} : Tree[j].kind = "invalid" \/ (Tree[j].kind = "raw" /\ Tree[j].value = NoText)}
    \cup UNION {Unprintable[Tree[i].kids[k]] : k \in 1..Len(Tree[i].kids)}

Printable == Unprintable[call.item] = {}
Wanted    == TextOf[call.item][call.format][0]

\* What is in the buffer before the offset is the beginning of the text, at
\* every step and however often the buffer was moved, and what a call returns
\* is the whole text and a null byte.
PrintsTheTree ==
    /\ where = "printing" => IsPrefix(SubSeq(buffer, 1, offset), Wanted)
    /\ where = "returned" => SubSeq(buffer, 1, Strlen(buffer, 0)) = Wanted

\* Nothing is written behind the end of the buffer, and strlen finds a null
\* byte in it wherever update_offset or a caller looks for one.
StaysInside ==
    /\ Len(buffer) = length
    /\ \/ where = "printing" /\ Top.at \in {"returned", "named"}
       \/ where \in {"printed", "returned"}
       => \E k \in offset + 1..length : buffer[k] = Nul

\* A buffer with room for the text, the null byte and one byte more is always
\* large enough, although cJSON.h asks callers to give five; and when the
\* library makes the buffer larger itself, only INT_MAX or the memory limits
\* the text.
FailsOnlyForRoom ==
    where = "failed" /\ Printable /\ call.name # "print" =>
        lost \/ (IF noalloc THEN length ELSE IntMax) < Len(Wanted) + 2

\* A call that fails has freed what it allocated, once; one that returns a
\* text leaves that to its caller and nothing else.
BuffersFreed ==
    /\ where \in {"idle", "null"} => blocks = 0
    /\ where = "returned" => blocks = IF noalloc THEN 0 ELSE 1
=============================================================================
