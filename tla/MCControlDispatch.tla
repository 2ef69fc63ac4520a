-------------------------- MODULE MCControlDispatch --------------------------
(***************************************************************************)
(* Two connections, with two verbs between them; either may arrive late.     *)
(***************************************************************************)
EXTENDS ControlDispatch

EitherTray == BOOLEAN
NoTray == {FALSE}
=============================================================================
