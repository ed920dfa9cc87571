------------------------------- MODULE DTMode -------------------------------
(***************************************************************************)
(* What the radio of tests/main.cpp promises to its operator: it is off or *)
(* in one of five modes, it starts in normal, and a key moves it as below  *)
(* or leaves it where it is.                                               *)
(***************************************************************************)
Mode == {"normal", "normal.n1", "normal.n2", "damage", "maintenance"}
Off  == "none"

\* <<mode, event, next mode>>
Moves ==
    {<<m, "ERROR", "damage">>         : m \in {"normal", "normal.n2", "maintenance"}}
    \cup {<<m, "MAINTAIN", "maintenance">> : m \in {"normal", "normal.n2", "damage"}}
    \cup {<<m, "JOIN", "normal">>     : m \in {"damage", "maintenance"}}
    \cup {<<m, "JOIN_N1", "normal.n1">> : m \in {"normal", "normal.n1", "normal.n2"}}
    \cup {<<m, "JOIN_N2", "normal.n2">> : m \in {"normal", "normal.n1", "normal.n2"}}
    \cup {<<"normal.n1", "EXIT", "normal">>}

VARIABLE mode

Init    == mode = Off
Start   == mode = Off /\ mode' = "normal"
Move    == \E mv \in Moves : mv[1] = mode /\ mode' = mv[3]
SwitchOff == mode' = Off

Next == Start \/ Move \/ SwitchOff
Spec == Init /\ [][Next]_mode
=============================================================================
