----------------------------- MODULE MCElogFile -----------------------------
(***************************************************************************)
(* The instances of ElogFile that TLC checks: two rotated files, lines of  *)
(* one or two units and room for two in a file, so that rotations follow   *)
(* each other and the oldest file is removed.                              *)
(***************************************************************************)
EXTENDS ElogFile

MCLineSize == {1, 2}
=============================================================================
