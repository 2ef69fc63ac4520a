----------------------------- MODULE MCAudioRing -----------------------------
(***************************************************************************)
(* A ring of a few slots, each of them written and read at least twice.    *)
(***************************************************************************)
EXTENDS AudioRing
=============================================================================
