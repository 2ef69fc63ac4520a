---------------------------- MODULE MCTapSplice ----------------------------
(***************************************************************************)
(* An instance of TapSplice for TLC.                                       *)
(***************************************************************************)
EXTENDS TapSplice

PushSizes == {1, 2}
NoneOrOne == {0, 1}
=============================================================================
