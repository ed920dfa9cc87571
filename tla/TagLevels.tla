----------------------------- MODULE TagLevels -----------------------------
(***************************************************************************)
(* The levels that were set for tags, as a function of at most Slots tags: *)
(* what the filter table of elog.c stands for.                             *)
(***************************************************************************)
EXTENDS Naturals, FiniteSets, Functions

CONSTANTS Key, Slots, All

VARIABLE levels

Init == levels = << >>

Remove(k) == levels' = Restrict(levels, DOMAIN levels \ {k})
Change(k, l) ==
    /\ k \in DOMAIN levels \/ Cardinality(DOMAIN levels) < Slots
    /\ levels' = [x \in DOMAIN levels \cup {k} |-> IF x = k THEN l ELSE levels[x]]
Reset == levels' = << >>

Next == Reset \/ \E k \in Key : Remove(k) \/ \E l \in 0..(All - 1) : Change(k, l)
Spec == Init /\ [][Next]_levels
=============================================================================
