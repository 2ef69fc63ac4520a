---------------------------- MODULE MCProfileDesk ----------------------------
(***************************************************************************)
(* Two names with a file each, or, for the case-insensitive file system,   *)
(* two spellings of one file.                                              *)
(***************************************************************************)
EXTENDS ProfileDesk

CONSTANTS show, Show

Apart == [n \in Names |-> n]
SameFile == [n \in Names |-> show]
=============================================================================
