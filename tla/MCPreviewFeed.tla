---------------------------- MODULE MCPreviewFeed ----------------------------
(***************************************************************************)
(* Two cameras, the type whose device is gated, exclusive and released     *)
(* when idle; sources share only the preview, so they are interchangeable. *)
(***************************************************************************)
EXTENDS PreviewFeed, TLC

Cameras == [s \in Sources |-> "camera"]
Twins == Permutations(Sources)
=============================================================================
