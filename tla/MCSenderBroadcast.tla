-------------------------- MODULE MCSenderBroadcast --------------------------
(***************************************************************************)
(* Two sources with the same display name, hence the same base name: the   *)
(* allocator's candidates are cam and cam_2, Spout's are the name itself   *)
(* and then _1, _2, ... of it.                                             *)
(***************************************************************************)
EXTENDS SenderBroadcast, TLC

MCNames == {"cam", "cam_1", "cam_2", "cam_3", "cam_1_1", "cam_2_1"}

MCBaseName == [s \in Sources |-> "cam"]

MCAllocNames ==
  [n \in MCNames |-> IF n = "cam" THEN <<"cam", "cam_2">> ELSE <<n>>]

MCSpoutNames ==
  [n \in MCNames |-> CASE n = "cam"   -> <<"cam", "cam_1", "cam_2", "cam_3">>
                       [] n = "cam_1" -> <<"cam_1", "cam_1_1">>
                       [] n = "cam_2" -> <<"cam_2", "cam_2_1">>
                       [] OTHER       -> <<n>>]

\* Both sources have the same base name, so they are interchangeable.
Twins == Permutations(Sources)

Nobody == {}
OneRival == {"cam"}
TwoRivals == {"cam", "cam_1"}
=============================================================================
