---------------------------- MODULE MCServoTrim ----------------------------
(***************************************************************************)
(* Instances of ServoTrim for TLC.                                         *)
(***************************************************************************)
EXTENDS ServoTrim

CONSTANTS cam, mic

OneTap == {cam}
SmallBlocks == {2, 4}
OneDelay == {0, 3}
=============================================================================
