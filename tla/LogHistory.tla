----------------------------- MODULE LogHistory -----------------------------
(***************************************************************************)
(* What rotating log files promise: the lines that are kept are the latest *)
(* ones, in the order they were written.  A call appends its line, or has  *)
(* it wait until there is room: that costs old lines, once for each call.  *)
(* Only when something goes wrong a call drops its line, and a process     *)
(* that ends takes with it the line that waits or the last one.  A rotation *)
(* that is blind to a file may lose it from the middle.                    *)
(***************************************************************************)
EXTENDS Naturals, Sequences

CONSTANT Line    \* with the number of the call that writes it as its id

VARIABLES log,
          count,     \* the calls so far
          waiting,   \* the line of a call that makes room first
          forgets,   \* how many times that call may still cost old lines
          trouble    \* "good" as long as nothing has failed, "blind" when a
                     \* file that is there could not be seen

vars == <<log, count, waiting, forgets, trouble>>

Init == log = <<>> /\ count = 0 /\ waiting = <<>> /\ forgets = 0 /\ trouble = "good"

Call(l) == waiting = <<>> /\ l.id = count + 1 /\ count' = count + 1
Write   == \E l \in Line : Call(l) /\ log' = Append(log, l) /\ UNCHANGED <<waiting, forgets>>
Wait    == \E l \in Line : Call(l) /\ waiting' = <<l>> /\ forgets' = 1 /\ UNCHANGED log
Refuse  == \E l \in Line : Call(l) /\ trouble # "good" /\ UNCHANGED <<log, waiting, forgets>>

Forget  == /\ forgets = 1 /\ forgets' = 0
           /\ log' = log \/ \E i \in 2..(Len(log) + 1) : log' = SubSeq(log, i, Len(log))
           /\ UNCHANGED <<count, waiting>>
Deliver == /\ waiting # <<>> /\ waiting' = <<>> /\ log' = log \o waiting
           /\ UNCHANGED <<count, forgets>>
Drop    == /\ waiting # <<>> /\ waiting' = <<>> /\ trouble # "good"
           /\ UNCHANGED <<log, count, forgets>>

CutLast == log # <<>> /\ log' = SubSeq(log, 1, Len(log) - 1)
Die     == /\ log' = log \/ CutLast
           /\ waiting' = <<>> /\ forgets' = 0 /\ trouble' # "good" /\ UNCHANGED count

Blind   == /\ trouble = "blind"
           /\ \E i \in 1..Len(log) : \E j \in i..Len(log) :
                 log' = SubSeq(log, 1, i - 1) \o SubSeq(log, j + 1, Len(log))
           /\ UNCHANGED <<count, waiting, forgets>>
Fail    == UNCHANGED <<log, count, waiting, forgets>>

Worse == trouble' = trouble \/ trouble' = "blind" \/ (trouble = "good" /\ trouble' = "bad")
Next == (Write \/ Wait \/ Refuse \/ Forget \/ Deliver \/ Drop \/ Die \/ Blind \/ Fail) /\ Worse
Spec == Init /\ [][Next]_vars
=============================================================================
