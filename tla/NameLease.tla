----------------------------- MODULE NameLease -----------------------------
(***************************************************************************)
(* What the sender-name machinery promises its receivers, without saying   *)
(* how.  A source leases one name, keeps that very name until the source   *)
(* is gone, is only ever on the air under it, and no two sources hold the  *)
(* same name.  SenderBroadcast implements this specification when no other *)
(* process claims names of the instance's own prefix.                      *)
(***************************************************************************)

CONSTANTS
  Sources,  \* the sources an instance can hold
  Names,    \* the Spout sender names
  None      \* the absence of a name

VARIABLES
  lease,    \* lease[s]: the name source s holds, or None
  onAir     \* onAir[s]: the name source s is registered under, or None

vars == <<lease, onAir>>

Init ==
  /\ lease = [s \in Sources |-> None]
  /\ onAir = [s \in Sources |-> None]

\* A source without a name gets one that nobody holds.
Acquire(s, n) ==
  /\ lease[s] = None
  /\ \A t \in Sources : lease[t] # n
  /\ lease' = [lease EXCEPT ![s] = n]
  /\ UNCHANGED onAir

\* A source goes on the air under the name it holds, and under no other.
GoOnAir(s) ==
  /\ lease[s] # None
  /\ onAir[s] = None
  /\ onAir' = [onAir EXCEPT ![s] = lease[s]]
  /\ UNCHANGED lease

\* It leaves the air and keeps its name: that is what "sticky" means.
GoDark(s) ==
  /\ onAir[s] # None
  /\ onAir' = [onAir EXCEPT ![s] = None]
  /\ UNCHANGED lease

\* The name returns to the pool only when its source is off the air.
Surrender(s) ==
  /\ lease[s] # None
  /\ onAir[s] = None
  /\ lease' = [lease EXCEPT ![s] = None]
  /\ UNCHANGED onAir

\* The whole source set is swapped (profile load) or the instance ends.
SurrenderAll ==
  /\ lease' = [s \in Sources |-> None]
  /\ onAir' = [s \in Sources |-> None]

Next ==
  \/ \E s \in Sources :
       \/ \E n \in Names : Acquire(s, n)
       \/ GoOnAir(s)
       \/ GoDark(s)
       \/ Surrender(s)
  \/ SurrenderAll

Spec == Init /\ [][Next]_vars
=============================================================================
