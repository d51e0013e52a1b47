----------------------------- MODULE MCPipeline -----------------------------
(***************************************************************************)
(* Instances of Pipeline for TLC.                                          *)
(***************************************************************************)
EXTENDS Pipeline, TLC

CONSTANTS i1, i2

OneVehicle   == {<<i1, "pic">>}
OneWithPlate == {<<i1, "pic">>, <<i1, "plate">>}
TwoVehicles  == {<<i1, "pic">>, <<i2, "pic">>}

\* The vehicles of TwoVehicles are interchangeable.
Interchangeable == Permutations({i1, i2})
=============================================================================
