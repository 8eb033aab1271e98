---------------------------- MODULE MCBluePrints ----------------------------
(* Instances of BluePrints for TLC.                                        *)
EXTENDS BluePrints

OneMethod  == <<"GET">>
TwoMethods == <<"GET", "POST">>
=============================================================================
