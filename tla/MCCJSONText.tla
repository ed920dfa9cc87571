----------------------------- MODULE MCCJSONText -----------------------------
(***************************************************************************)
(* The items that TLC prints and the texts that it reads.  Items: the      *)
(* document of DT with a list beside it, names and values with each kind   *)
(* of character, lists that are empty and in one another, an item without  *)
(* a name in an object, items that cannot be printed, and objects that are *)
(* equal but for the order or the case of their names or one member.       *)
(* Texts: blanks and comments at all places, what does not end, nesting at *)
(* the limit and past it, escapes that are wrong, and code points at each  *)
(* bound of UTF-8 and UTF-16.  The sizes are scaled down, so that a buffer *)
(* grows up to three times and the longest text is beyond INT_MAX.         *)
(***************************************************************************)
EXTENDS CJSONText

Of(kind, name, value, kids) == [kind |-> kind, name |-> name, value |-> value, kids |-> kids]

MCTree == <<
    Of("object", NoText, NoText, <<2, 6>>),                     \* 1
    Of("array", <<"a">>, NoText, <<3, 4, 5>>),                  \* 2
    Of("number", NoText, <<"4", "2">>, <<>>),                   \* 3
    Of("object", NoText, NoText, <<8>>),                        \* 4
    Of("array", NoText, NoText, <<>>),                          \* 5
    Of("object", <<"\"", "d">>, NoText, <<>>),                  \* 6
    Of("array", NoText, NoText, <<9, 8>>),                      \* 7
    Of("true", NoText, NoText, <<>>),                           \* 8
    Of("string", NoText, <<"x", "\n", "ESC", "\\">>, <<>>),     \* 9
    Of("object", NoText, NoText, <<11, 12>>),                   \* 10
    Of("raw", <<"r">>, <<"1">>, <<>>),                          \* 11
    Of("raw", <<"q">>, NoText, <<>>),                           \* 12
    Of("invalid", NoText, NoText, <<>>),                        \* 13
    Of("null", NoText, NoText, <<>>),                           \* 14
    Of("false", NoText, NoText, <<>>),                          \* 15
    Of("object", NoText, NoText, <<18, 19>>),                   \* 16
    Of("object", NoText, NoText, <<18>>),                       \* 17
    Of("null", <<"k">>, NoText, <<>>),                          \* 18
    Of("string", <<"b">>, <<"\\", " ">>, <<>>),                 \* 19
    Of("object", NoText, NoText, <<21, 22>>),                   \* 20
    Of("string", <<"B">>, <<"\\", " ">>, <<>>),                 \* 21
    Of("null", <<"k">>, NoText, <<>>)>>                         \* 22

MCRoom == 0..46

\* The characters of a string.
Chars(s) == [i \in 1..Len(s) |-> SubSeq(s, i, i)]

MCGiven ==
    {Chars(s) : s \in {
        " [ 1 , /* * / */ [ -1 ] ] // [ \n", "{\"a b\" :1}/**/", "[ \"a\\\" b\" ]", "[/*", "1//", "\"a //",
        "[[[]]]", "[[[{}]]]", "[[1],2", "[1}", "{\"a\"1}", "{1:1}", "{\"a\":", "1e1.5", "-", "nul", "1 x", "{ }",
        "\"\\", "\"\\u12\"", "\"\\ud834\"", "\"\\ud834\\n45678\"", "\"\\ud834\\u0061\"", "\"\\ug000\"", "\"\\x\"",
        "\"\\b\\f\\n\\r\\t\\/\\\"\\\\\""}}
    \cup {<<"239", "187", "191", "1">>, <<"1", "ESC">>}

MCLiteral == {10, 97, 127, 128, 2047, 2048, \hD7FF, \hD800, \hDBFF, \hDC00, \hDFFF, \hE000,
              65535, 65536, 66563, 66564, \h10FFFF}
MCNumeral == {<<"1">>, <<"4">>, <<"4", "2">>, <<"-", "1">>, <<"1", "e", "1">>}
MCLower   == "B" :> "b"
=============================================================================
