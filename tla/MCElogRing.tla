----------------------------- MODULE MCElogRing -----------------------------
(***************************************************************************)
(* ElogRing with N = 5 slots, a reader's buffer of 3 and logs of 1 to 4    *)
(* bytes: a log may be longer than the room left and than the reader's     *)
(* buffer, and a line may wrap at every slot.                              *)
(***************************************************************************)
EXTENDS ElogRing

CONSTANTS a, b, nl, nul

MCByte == {a, b, nl, nul}
MCLog  == {<<nl>>, <<a, nl>>, <<b, a, nl>>, <<a, b, b, nl>>}
=============================================================================
