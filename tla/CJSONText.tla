------------------------------ MODULE CJSONText ------------------------------
(***************************************************************************)
(* What a program does with texts of extlib/cJSON/cJSON.c: it takes what   *)
(* CJSONPrint has printed, or a text of its own, cuts it short (as a save  *)
(* that was interrupted does), calls cJSON_Minify, which works in place,   *)
(* and cJSON_Parse, which reads it byte by byte, and cJSON_Compare.        *)
(*                                                                         *)
(* The parser does nothing but read, so it is an operator; CJSONBuild has  *)
(* the items it makes and what happens to them when it fails.  Here there  *)
(* is always memory, and items are values: records of kind, name, value    *)
(* and kids.  A text ends with its null byte; positions count from 0.      *)
(***************************************************************************)
EXTENDS CJSONPrint, TLC

CONSTANTS Given,        \* texts of the program's own
          Literal,      \* code points, and code units, to be read from escapes
          Numeral,      \* texts that strtod reads to their end
          Lower,        \* tolower, for the letters it changes
          NestingLimit  \* CJSON_NESTING_LIMIT

ASSUME TextAssumption ==
    /\ \A t \in Given : t \in Seq(Byte) /\ ~Contains(t, Nul)
    /\ Literal \subseteq 0..\h10FFFF
    /\ NestingLimit \in Nat

VARIABLES text,    \* the text in hand, with its null byte; none
          from,    \* where it is from
          mini,    \* the cJSON_Minify that runs: json and into, from the start
          result   \* what cJSON_Parse has returned

textVars == <<vars, text, from, mini, result>>

None     == [ok |-> FALSE, offset |-> -1]
Failed   == [ok |-> FALSE, offset |-> 0]
Nowhere  == [item |-> 0, code |-> -1, text |-> <<>>, cut |-> FALSE, minified |-> FALSE]
NoMinify == [json |-> -1, into |-> -1]

TextInit == Init /\ text = <<>> /\ from = Nowhere /\ mini = NoMinify /\ result = None

-----------------------------------------------------------------------------
Has(t, o, b) == o < Len(t) /\ t[o + 1] = b
LeastOf(S)    == CHOOSE x \in S : \A y \in S : x <= y
GreatestOf(S) == CHOOSE x \in S : \A y \in S : x >= y

\* buffer_skip_whitespace: at the end it steps back.
Blank == {" ", "\t", "\r", "\n"}
White == Blank \cup {"ESC", Nul}    \* bytes up to 32

SkipWhitespace(t, o) ==
    LET others == {p \in o..Len(t) - 1 : t[p + 1] \notin White} IN
    IF o >= Len(t) THEN o ELSE IF others = {} THEN Len(t) - 1 ELSE LeastOf(others)

\* skip_utf8_bom
SkipBom(t) == IF Len(t) > 4 /\ SubSeq(t, 1, 3) = <<"239", "187", "191">> THEN 3 ELSE 0

\* parse_hex4: 0 when a digit is none
HexDigit == [c \in {"0", "1", "2", "3", "4", "5", "6", "7", "8", "9"} |->
                CHOOSE n \in 0..9 : ToString(n) = c]
            @@ "a" :> 10 @@ "b" :> 11 @@ "c" :> 12 @@ "d" :> 13 @@ "e" :> 14 @@ "f" :> 15
            @@ "A" :> 10 @@ "B" :> 11 @@ "C" :> 12 @@ "D" :> 13 @@ "E" :> 14 @@ "F" :> 15

ParseHex4(t, p) ==
    LET digits == SubSeq(t, p + 1, p + 4) IN
    IF \E i \in 1..4 : digits[i] \notin DOMAIN HexDigit THEN 0
    ELSE FoldLeft(LAMBDA h, c : 16 * h + HexDigit[c], 0, digits)

\* The bytes as this module writes them: by name, or by number.
AsByte(n) == CASE n = 0 -> Nul [] n = 10 -> "\n" [] n = 27 -> "ESC" [] n = 34 -> "\""
               [] n = 92 -> "\\" [] n = 97 -> "a" [] OTHER -> ToString(n)

\* Mutant: one code point too many is taken for ASCII.
Utf8LengthLate(c) == IF c <= 128 THEN 1 ELSE IF c < 2048 THEN 2 ELSE IF c < 65536 THEN 3 ELSE 4

Utf8Length(c) == IF c < 128 THEN 1 ELSE IF c < 2048 THEN 2 ELSE IF c < 65536 THEN 3 ELSE 4
FirstByteMark == <<0, 192, 224, 240>>

\* Encoded from the last byte to the first, six bits each.
Utf8(c) ==
    LET n == Utf8Length(c)
        bits(i) == c \div 64^(n - i)
    IN  [i \in 1..n |-> AsByte(IF i > 1 THEN 128 + (bits(i) % 64)
                               ELSE IF n = 1 THEN c % 128 ELSE FirstByteMark[n] + bits(1))]

\* What an escape or a byte at p is: the bytes it takes and those it stands
\* for.  It takes 0 when it is wrong.
Wrong == [length |-> 0, bytes |-> <<>>]

\* utf16_literal_to_utf8
Utf16(t, p, end) ==
    LET first  == ParseHex4(t, p + 2)
        second == ParseHex4(t, p + 8)
    IN  IF end - p < 6 THEN Wrong
        ELSE IF first \in \hDC00..\hDFFF THEN Wrong
        ELSE IF first \notin \hD800..\hDBFF THEN [length |-> 6, bytes |-> Utf8(first)]
        ELSE IF end - p < 12 THEN Wrong
        ELSE IF ~(Has(t, p + 6, "\\") /\ Has(t, p + 7, "u") /\ second \in \hDC00..\hDFFF) THEN Wrong
        ELSE [length |-> 12, bytes |-> Utf8(65536 + (first % 1024) * 1024 + (second % 1024))]

Unescape == "b" :> "BS" @@ "f" :> "\f" @@ "n" :> "\n" @@ "r" :> "\r" @@ "t" :> "\t"
            @@ "\"" :> "\"" @@ "\\" :> "\\" @@ "/" :> "/"

Sequence(t, p, end) ==
    IF ~Has(t, p, "\\") THEN [length |-> 1, bytes |-> <<t[p + 1]>>]
    ELSE IF t[p + 2] \in DOMAIN Unescape THEN [length |-> 2, bytes |-> <<Unescape[t[p + 2]]>>]
    ELSE IF Has(t, p + 1, "u") THEN Utf16(t, p, end) ELSE Wrong

\* The first pass: the closing quote, which is past the end when there is
\* none, and the number of escapes before it.
StringEnd(t, o) ==
    LET f[p \in 0..Len(t) + 1] ==
            IF p >= Len(t) \/ Has(t, p, "\"") THEN [end |-> p, skipped |-> 0]
            ELSE IF Has(t, p, "\\") THEN [f[p + 2] EXCEPT !.skipped = @ + 1]
            ELSE f[p + 1]
    IN  f[o + 1]

\* parse_string; `room` is the size of the memory for it.
ParseString(t, o) ==
    LET first == StringEnd(t, o)
        f[p \in 0..Len(t)] ==       \* the second pass
            LET s == Sequence(t, p, first.end) IN
            IF p >= first.end THEN [ok |-> TRUE, bytes |-> <<>>]
            ELSE IF s.length = 0 THEN [ok |-> FALSE, bytes |-> <<>>]
            ELSE [f[p + s.length] EXCEPT !.bytes = s.bytes \o @]
    IN  IF ~Has(t, o, "\"") THEN Failed
        ELSE IF first.end >= Len(t) THEN Failed
        ELSE IF ~f[o + 1].ok THEN Failed
        ELSE [ok |-> TRUE, offset |-> first.end + 1, value |-> f[o + 1].bytes,
              room |-> first.end - o - first.skipped + 1]

-----------------------------------------------------------------------------
NewItem(kind, value, kids) == [kind |-> kind, name |-> NoText, value |-> value, kids |-> kids]
Read(o, item) == [ok |-> TRUE, offset |-> o, item |-> item]

\* parse_number: at most 63 of the bytes a number may have, and of them as
\* many as strtod reads.
InNumber == {"0", "1", "2", "3", "4", "5", "6", "7", "8", "9", "+", "-", "e", "E", "."}
ParseNumber(t, o) ==
    LET run == {n \in 1..Smaller(63, Len(t) - o) :
                    \A i \in o + 1..o + n : t[i] \in InNumber}
        reads == {n \in run : SubSeq(t, o + 1, o + n) \in Numeral}
        n == GreatestOf(reads)
    IN  IF reads = {} THEN Failed
        ELSE Read(o + n, NewItem("number", SubSeq(t, o + 1, o + n), <<>>))

\* can_read and strncmp
Reads(t, o, kind) ==
    LET s == Constant(kind) IN o + Len(s) <= Len(t) /\ SubSeq(t, o + 1, o + Len(s)) = s

Opening(t, o) == IF Has(t, o, "[") THEN "array" ELSE IF Has(t, o, "{") THEN "object" ELSE "none"
Closing == [array |-> "]", object |-> "}"]

RECURSIVE ParseValue(_, _, _), ParseKids(_, _, _, _, _)

\* Behind a child there is another, or the end of the list.
AfterKid(t, kind, kids, kid, nesting) ==
    LET end == SkipWhitespace(t, kid.offset)
        all == Append(kids, kid.item)
    IN  IF ~kid.ok THEN Failed
        ELSE IF Has(t, end, ",") THEN ParseKids(t, end, kind, all, nesting)
        ELSE IF Has(t, end, Closing[kind]) THEN Read(end + 1, NewItem(kind, NoText, all))
        ELSE Failed

\* A value that has been read gets its name.
Named(kid, name) == IF kid.ok THEN [kid EXCEPT !.item.name = name] ELSE Failed

ParseMember(t, name, nesting) ==
    LET colon == SkipWhitespace(t, name.offset) IN
    IF ~name.ok THEN Failed
    ELSE IF ~Has(t, colon, ":") THEN Failed
    ELSE Named(ParseValue(t, SkipWhitespace(t, colon + 1), nesting), name.value)

\* The loop of parse_array and parse_object, from the byte before a child.
ParseKids(t, before, kind, kids, nesting) ==
    LET o == SkipWhitespace(t, before + 1) IN
    AfterKid(t, kind, kids, IF kind = "object" THEN ParseMember(t, ParseString(t, o), nesting)
                            ELSE ParseValue(t, o, nesting), nesting)

\* parse_array and parse_object
ParseList(t, o, kind, nesting) ==
    LET first == SkipWhitespace(t, o + 1) IN
    IF nesting >= NestingLimit THEN Failed
    ELSE IF Has(t, first, Closing[kind]) THEN Read(first + 1, NewItem(kind, NoText, <<>>))
    ELSE IF first >= Len(t) THEN Failed
    ELSE ParseKids(t, first - 1, kind, <<>>, nesting + 1)

\* parse_value
ParseValue(t, o, nesting) ==
    LET constants == {kind \in {"null", "false", "true"} : Reads(t, o, kind)}
        string    == ParseString(t, o)
    IN  IF constants # {}
        THEN LET kind == CHOOSE k \in constants : TRUE
             IN  Read(o + Len(Constant(kind)), NewItem(kind, NoText, <<>>))
        ELSE IF Has(t, o, "\"")
        THEN IF string.ok THEN Read(string.offset, NewItem("string", string.value, <<>>)) ELSE Failed
        ELSE IF o < Len(t) /\ t[o + 1] \in InNumber \ {"+", "e", "E", "."} THEN ParseNumber(t, o)
        ELSE IF Opening(t, o) # "none" THEN ParseList(t, o, Opening(t, o), nesting)
        ELSE Failed

\* cJSON_ParseWithLengthOpts of a text and its null byte
ParseWithOpts(t, requireNullTerminated) ==
    LET v == ParseValue(t, SkipWhitespace(t, SkipBom(t)), 0) IN
    IF v.ok /\ requireNullTerminated /\ ~Has(t, SkipWhitespace(t, v.offset), Nul) THEN Failed
    ELSE v

-----------------------------------------------------------------------------
\* case_insensitive_strcmp of two names that are there, or strcmp
Folded(name) == [i \in DOMAIN name |-> IF name[i] \in DOMAIN Lower THEN Lower[name[i]] ELSE name[i]]
EqualNames(a, b, sensitive) == IF sensitive THEN a = b ELSE Folded(a) = Folded(b)

\* get_object_item: the places of the item, which is the only one, or none
GetObjectItem(object, name, sensitive) ==
    LET kids == object.kids
        stops == {k \in DOMAIN kids : IF kids[k].name = NoText THEN sensitive
                                      ELSE EqualNames(name, kids[k].name, sensitive)}
    IN  IF name = NoText \/ stops = {} THEN {}
        ELSE {k \in {LeastOf(stops)} : kids[k].name # NoText}

RECURSIVE Compare(_, _, _)

\* Each member of a has its like in b.
Covers(a, b, sensitive) ==
    \A i \in DOMAIN a.kids : \E k \in GetObjectItem(b, a.kids[i].name, sensitive) :
        Compare(a.kids[i], b.kids[k], sensitive)

\* Mutant: b may have more members.
EqualObjectsOneWay(a, b, sensitive) == Covers(a, b, sensitive)

EqualObjects(a, b, sensitive) == Covers(a, b, sensitive) /\ Covers(b, a, sensitive)

\* cJSON_Compare of two items that are not the same one
Compare(a, b, sensitive) ==
    /\ a.kind = b.kind /\ a.kind # "invalid"
    /\ a.kind = "number" => a.value = b.value
    /\ a.kind \in {"string", "raw"} => a.value = b.value /\ a.value # NoText
    /\ a.kind = "array" =>
          /\ Len(a.kids) = Len(b.kids)
          /\ \A k \in DOMAIN a.kids : Compare(a.kids[k], b.kids[k], sensitive)
    /\ a.kind = "object" => EqualObjects(a, b, sensitive)

-----------------------------------------------------------------------------
Minifying == mini # NoMinify
Free == text # <<>> /\ ~Minifying

\* The text of a call is taken before it is freed.
Take ==
    /\ where = "returned" /\ text = <<>>
    /\ Release
    /\ text' = SubSeq(buffer, 1, Strlen(buffer, 0) + 1)
    /\ from' = [Nowhere EXCEPT !.item = call.item, !.text = text']
    /\ UNCHANGED <<mini, result>>

Give(t, code) ==
    /\ where = "idle" /\ text = <<>>
    /\ text' = Append(t, Nul)
    /\ from' = [Nowhere EXCEPT !.code = code, !.text = text']
    /\ UNCHANGED <<vars, mini, result>>

\* A text that was printed loses its end.
Cut(n) ==
    /\ Free /\ result = None /\ from.item # 0 /\ ~from.cut /\ ~from.minified
    /\ text' = Append(SubSeq(text, 1, n), Nul)
    /\ from' = [from EXCEPT !.cut = TRUE, !.text = text']
    /\ UNCHANGED <<vars, mini, result>>

Parse(requireNullTerminated) ==
    /\ Free /\ result = None
    /\ result' = [ParseWithOpts(text, requireNullTerminated) EXCEPT !.offset = 0]
    /\ UNCHANGED <<vars, text, from, mini>>

Drop ==
    /\ Free
    /\ text' = <<>> /\ from' = Nowhere /\ result' = None
    /\ UNCHANGED <<vars, mini>>

\* cJSON_Minify, one round of its loop at a time
MinifyBegin ==
    /\ Free /\ result = None /\ ~from.minified
    /\ mini' = [json |-> 0, into |-> 0]
    /\ UNCHANGED <<vars, text, from, result>>

Ahead == text[mini.json + 1]
Skip(n) == mini' = [mini EXCEPT !.json = @ + n] /\ UNCHANGED text
CopyTo(end) ==
    LET s == SubSeq(text, mini.json + 1, end) IN
    /\ text' = Over(text, mini.into, s)
    /\ mini' = [json |-> end, into |-> mini.into + Len(s)]

MinifyBlank == Ahead \in Blank /\ Skip(1)

\* The least position from p on where s begins, or the null byte is.
Until(p, s) ==
    LeastOf({q \in p..Len(text) - 1 :
                \/ Has(text, q, Nul)
                \/ q + Len(s) <= Len(text) /\ SubSeq(text, q + 1, q + Len(s)) = s})
Behind(p, s) == IF Has(text, Until(p, s), Nul) THEN Until(p, s) ELSE Until(p, s) + Len(s)

\* skip_oneline_comment and skip_multiline_comment; a slash alone is dropped.
MinifyComment ==
    LET p == mini.json IN
    /\ Ahead = "/"
    /\ Skip(IF Has(text, p + 1, "/") THEN Behind(p + 2, <<"\n">>) - p
            ELSE IF Has(text, p + 1, "*") THEN Behind(p + 2, <<"*", "/">>) - p ELSE 1)

\* Mutant: the first quote ends the string.
BehindQuoteAtOnce(p) == Behind(p, <<"\"">>)

\* Where minify_string ends: a quote behind a backslash does not count.
BehindQuote(p) ==
    LET f[q \in 0..Len(text)] ==
            IF Has(text, q, Nul) THEN q
            ELSE IF Has(text, q, "\"") THEN q + 1
            ELSE IF Has(text, q, "\\") /\ Has(text, q + 1, "\"") THEN f[q + 2]
            ELSE f[q + 1]
    IN  f[p]

MinifyString == Ahead = "\"" /\ CopyTo(BehindQuote(mini.json + 1))
MinifyCopy   == Ahead \notin Blank \cup {"/", "\"", Nul} /\ CopyTo(mini.json + 1)

MinifyStep ==
    /\ Minifying
    /\ MinifyBlank \/ MinifyComment \/ MinifyString \/ MinifyCopy
    /\ UNCHANGED <<vars, from, result>>

MinifyEnd ==
    /\ Minifying /\ Ahead = Nul
    /\ text' = Append(SubSeq(text, 1, mini.into), Nul)
    /\ mini' = NoMinify
    /\ from' = [from EXCEPT !.minified = TRUE]
    /\ UNCHANGED <<vars, result>>

\* A code point as escapes, of UTF-16
Hex(n) == LET digits == <<"0", "1", "2", "3", "4", "5", "6", "7", "8", "9", "a", "B", "c", "D", "e", "F">>
          IN  [i \in 1..4 |-> digits[1 + ((n \div 16^(4 - i)) % 16)]]
Escape(n) == <<"\\", "u">> \o Hex(n)
AsLiteral(c) ==
    <<"\"">> \o (IF c < 65536 THEN Escape(c)
                ELSE Escape(\hD800 + ((c - 65536) \div 1024)) \o Escape(\hDC00 + (c % 1024))) \o <<"\"">>

TextNext ==
    \/ text = <<>> /\ Next /\ UNCHANGED <<text, from, mini, result>>
    \/ Take \/ Drop
    \/ \E t \in Given : Give(t, -1)
    \/ \E c \in Literal : Give(AsLiteral(c), c)
    \/ \E n \in 0..Len(text) - 2 : Cut(n)
    \/ \E require \in BOOLEAN : Parse(require)
    \/ MinifyBegin \/ MinifyStep \/ MinifyEnd

TextSpec == TextInit /\ [][TextNext]_textVars

-----------------------------------------------------------------------------
\* The item that a printed text is read as: as it was, but for a null
\* valuestring or name, which is printed as an empty string.
Texted(s) == IF s = NoText THEN <<>> ELSE s
ItemOf[i \in Item] ==
    LET x == Tree[i] IN
    NewItem(x.kind,
            IF x.kind = "string" THEN Texted(x.value) ELSE x.value,
            [k \in DOMAIN x.kids |->
                [ItemOf[x.kids[k]] EXCEPT !.name = IF x.kind = "object" THEN Texted(Tree[x.kids[k]].name)
                                                   ELSE NoText]])

\* Items with raw text may be read as anything.
HasRaw[i \in Item] ==
    Tree[i].kind = "raw" \/ \E k \in DOMAIN Tree[i].kids : HasRaw[Tree[i].kids[k]]

\* Two items are the same JSON: their members need not have the same order.
RECURSIVE Same(_, _, _)
Same(a, b, sensitive) ==
    /\ a.kind = b.kind /\ a.value = b.value /\ Len(a.kids) = Len(b.kids)
    /\ \A k \in DOMAIN a.kids :
          IF a.kind = "array" THEN Same(a.kids[k], b.kids[k], sensitive)
          ELSE \E j \in DOMAIN b.kids :
                  /\ EqualNames(a.kids[k].name, b.kids[j].name, sensitive)
                  /\ Same(a.kids[k], b.kids[j], sensitive)

\* No two members of an object have equal names.
RECURSIVE DistinctNames(_, _)
DistinctNames(a, sensitive) ==
    \A k, j \in DOMAIN a.kids :
        /\ DistinctNames(a.kids[k], sensitive)
        /\ a.kind = "object" /\ EqualNames(a.kids[k].name, a.kids[j].name, sensitive) => k = j

\* A quote behind an escaped backslash, where minify_string goes wrong.
QuoteMissed ==
    \E i \in 3..Len(from.text) : SubSeq(from.text, i - 2, i) = <<"\\", "\\", "\"">>

\* What JSON with comments has between its strings, without the blanks and
\* the comments, and the strings as they are.
Unspaced(t) ==
    LET emit(m, c, to) == [mode |-> to, out |-> Append(m.out, c)]
        step(m, c) ==
            CASE m.mode = "string" -> emit(m, c, IF c = "\"" THEN "code" ELSE IF c = "\\" THEN "escape" ELSE "string")
              [] m.mode = "escape" -> emit(m, c, "string")
              [] m.mode = "slash"  -> [m EXCEPT !.mode = IF c = "/" THEN "line" ELSE "block"]
              [] m.mode = "line"   -> [m EXCEPT !.mode = IF c = "\n" THEN "code" ELSE "line"]
              [] m.mode = "block"  -> [m EXCEPT !.mode = IF c = "*" THEN "star" ELSE "block"]
              [] m.mode = "star"   -> [m EXCEPT !.mode = IF c = "/" THEN "code" ELSE IF c = "*" THEN "star" ELSE "block"]
              [] c \in Blank -> m
              [] c = "/"     -> [m EXCEPT !.mode = "slash"]
              [] OTHER       -> emit(m, c, IF c = "\"" THEN "string" ELSE "code")
    IN  FoldLeft(step, [mode |-> "code", out |-> <<>>], Front(t)).out

\* UTF-8, as it is defined.
Encoded(c) ==
    LET six(n) == 128 + ((c \div n) % 64) IN
    CASE c < 128   -> <<c>>
      [] c < 2048  -> <<192 + (c \div 64), six(1)>>
      [] c < 65536 -> <<224 + (c \div 4096), six(64), six(1)>>
      [] OTHER     -> <<240 + (c \div 262144), six(4096), six(64), six(1)>>

Printed == from.item # 0 /\ ~HasRaw[from.item]

\* What was printed, formatted or not, minified or not, is read as the item it
\* was printed from, names, order and all, and for cJSON_Compare it is equal
\* to the items of the same JSON and to no others.  A list, an object, a string or a
\* constant that was cut anywhere, as by a save that was interrupted, is refused.
ReadsBack ==
    result # None /\ Printed /\ (from.minified => ~QuoteMissed) =>
        /\ ~from.cut => /\ result.ok /\ result.item = ItemOf[from.item]
                        /\ \A i \in Item, s \in BOOLEAN :
                              ~HasRaw[i] /\ DistinctNames(ItemOf[i], s) /\ DistinctNames(result.item, s)
                              => (Compare(result.item, ItemOf[i], s) <=> Same(result.item, ItemOf[i], s))
        /\ from.cut /\ Tree[from.item].kind # "number" => ~result.ok

\* cJSON_Minify takes away blanks and comments and nothing else, and makes of
\* a formatted text the unformatted one; it never writes what it has not read.
MinifyUnformats ==
    /\ Minifying => mini.into <= mini.json
    /\ from.minified /\ ~QuoteMissed =>
          /\ text = Append(Unspaced(from.text), Nul)
          /\ Printed /\ ~from.cut => text = Append(TextOf[from.item][FALSE][0], Nul)

\* The strings of a text fit in the memory that the first pass has found for
\* them, and an escape is read as the UTF-8 form of its code point; half a
\* surrogate pair is refused.
StringsReadRight ==
    /\ result # None => \A o \in 0..Len(text) - 1 :
          ParseString(text, o).ok =>
              Len(ParseString(text, o).value) + 1 <= ParseString(text, o).room
    /\ result # None /\ from.code >= 0 /\ ~from.minified =>
          /\ result.ok <=> from.code \notin \hD800..\hDFFF
          /\ result.ok => result.item.value =
                             [i \in DOMAIN Encoded(from.code) |-> AsByte(Encoded(from.code)[i])]
=============================================================================
