---------------------------- MODULE MCCJSONTree ----------------------------
(***************************************************************************)
(* The instances of CJSONTree that TLC checks: MCCJSONTree.cfg with two    *)
(* names that differ only in case, as in DT.cpp's "dt", and three items;   *)
(* MCCJSONTree_array.cfg without names and with four items, so that a list *)
(* has three and a reference shares a child.                               *)
(***************************************************************************)
EXTENDS CJSONBuild

MCName == {"dt", "DT"}
MCFold == [n \in MCName |-> "dt"]
NoFold == [n \in {} |-> n]
=============================================================================
