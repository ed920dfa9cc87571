---------------------------- MODULE MCElogOutput ----------------------------
(***************************************************************************)
(* The instance of ElogOutput that TLC checks.  Two slots and four tags    *)
(* that the table keeps as three, so that a tag finds no slot and two tags *)
(* share one.  A line has 16 bytes: a header has none, 9 to 12, or has no *)
(* room itself, and there are messages that just fit behind it, just do    *)
(* not, or are longer than the line.                                       *)
(***************************************************************************)
EXTENDS ElogOutput

MCTag == {<<"a">>, <<"b", "c">>, <<"b", "c", "d", "e">>, <<"b", "c", "d", "e", "f">>}
MCCut == [t \in MCTag |-> Take(t, 4)]
MCNoTag == <<>>
MCKey == {MCCut[t] : t \in MCTag}
MCMessage == {[i \in 1..n |-> "m"] : n \in {0, 3, 4, 6, 7, 8, 16, 17}} \cup {<<"m", "k">>, Fails}
MCKeyword == {<<>>, <<"m", "k", "x">>}
MCPart == {<<>>, <<"c", "d">>}
Short == {"LVL", "TAG", "TIME"}
MCFormat == [levels : {Level}, set : {Short, FormatIndex}]
              \cup [levels : {{4, 5}}, set : {FormatIndex \ {"FUNC"}}]
MCInfo == [time |-> <<"t">>, process |-> <<"p">>, thread |-> <<"h">>, file |-> <<"f">>,
           function |-> <<"g">>, line |-> <<"1", "2">>]
MCDump == [width : {0, 3, 4}, size : {0, 8, 12, 15}]
=============================================================================
