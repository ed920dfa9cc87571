---------------------------- MODULE MCElogAsync ----------------------------
(***************************************************************************)
(* ElogAsync with two logging threads and a ring of three bytes, which two *)
(* logs of two bytes overfill.  The bytes of a log are told apart, so that *)
(* a reordering shows.                                                     *)
(***************************************************************************)
EXTENDS ElogAsync

CONSTANTS c1, c2, main

MCCaller  == {c1, c2}
MCLog     == {<<1, 2>>, <<3>>}
MCVersion == <<4>>
=============================================================================
