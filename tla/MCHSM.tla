------------------------------- MODULE MCHSM -------------------------------
(***************************************************************************)
(* HSM on a tree with two branches, one of the greatest depth that         *)
(* HSM_STATE_Create accepts and one shallower, so that a transition may    *)
(* climb on either side, on both, or on neither:                           *)
(*                                                                         *)
(*            Root -- a -- a1 -- a11 -- a111                               *)
(*                     \-- a2                                              *)
(*                 \- b -- b1                                              *)
(***************************************************************************)
EXTENDS HSM

CONSTANTS a, a1, a11, a111, a2, b, b1, root, null

MCState  == {a, a1, a11, a111, a2, b, b1}
MCParent == [s \in MCState |->
    CASE s \in {a, b} -> root [] s \in {a1, a2} -> a
      [] s = a11 -> a1        [] s = a111 -> a11
      [] s = b1 -> b]
MCLevel == [s \in MCState \cup {root} |->
    CASE s = root -> 0          [] s \in {a, b} -> 1
      [] s \in {a1, a2, b1} -> 2 [] s = a11 -> 3 [] s = a111 -> 4]

MCRunEvent == {"go", "EXIT"}
MCEvent    == MCRunEvent \cup {"INIT", "ENTRY"}

\* A state that descends from s, the only target its INIT handler may have:
\* an INIT that leaves its state can chase its own tail for ever.
Below(s) == {t \in MCState : Level[t] > Level[s] /\ s \in Chain(t)}

Quiet == [tran |-> null, ret |-> "NULL"]
To(S) == {[tran |-> t, ret |-> "NULL"] : t \in S}

\* Every state may go anywhere on "go" and pass it on or not; EXIT and ENTRY
\* handlers may try an (illegal) transition to b, and b may descend on INIT.
MCHandler == [s \in MCState |-> [e \in MCEvent |->
    CASE e = "go"    -> [tran : MCState \cup {null}, ret : {"NULL", "go"}]
      [] e = "INIT"  -> {Quiet} \cup To(IF s \in {a, b} THEN Below(s) ELSE {})
      [] OTHER       -> {Quiet} \cup To({b})]]
=============================================================================
