---------------------------- MODULE MCStartStop ----------------------------
(***************************************************************************)
(* Instances of StartStop for TLC: all five workers, or the two that can   *)
(* be held up in a turn.                                                   *)
(***************************************************************************)
EXTENDS StartStop

HeldUp == <<"watcher", "upload">>
=============================================================================
