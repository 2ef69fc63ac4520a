-------------------------- MODULE MCInstanceDiscovery --------------------------
(* Two processes, launched twice in all in either mode, and two ports.       *)
EXTENDS InstanceDiscovery
=============================================================================
