-------------------------------- MODULE MCDT --------------------------------
(***************************************************************************)
(* DT with the files it may meet: the one of assets/, one without the      *)
(* member, one with it twice, and none (or one that is not JSON).          *)
(***************************************************************************)
EXTENDS DT

Doc(s) == [ok |-> TRUE, dt |-> s]

MCInitialFile == {Doc(<<"maintenance">>), Doc(<<>>), Doc(<<"other", "damage">>),
                  NoDocument}
AssetFile == {Doc(<<"maintenance">>)}
=============================================================================
