----------------------------- MODULE MCSourceDesk -----------------------------
(* Two files whose filters carry the same numbers.  Nothing in the modules   *)
(* tells the files apart.                                                    *)
EXTENDS SourceDesk

Symmetry == Permutations(Sources)
=============================================================================
