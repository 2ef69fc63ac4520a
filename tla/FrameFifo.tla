------------------------------ MODULE FrameFifo ------------------------------
(***************************************************************************)
(* What a source's push thread and the render thread rely on when they     *)
(* share an AudioRing: a bounded first-in first-out buffer of frames.      *)
(* Frames are numbered in the order they are accepted, so the buffer is    *)
(* the interval from first to next - 1.                                    *)
(***************************************************************************)
EXTENDS Integers, Sequences

CONSTANT Capacity  \* the frames the buffer holds at most

VARIABLES
  first,  \* the oldest frame in the buffer
  next,   \* the number of the next frame accepted
  heard   \* the frames handed over by the last read, in order

vars == <<first, next, heard>>

Init == first = 0 /\ next = 0 /\ heard = <<>>

\* A chunk is accepted whole or not at all.
Accept(n) ==
  /\ next + n - first <= Capacity
  /\ next' = next + n
  /\ UNCHANGED <<first, heard>>

\* A read hands over the n oldest frames, each once and in order.
Take(n) ==
  /\ n <= next - first
  /\ heard' = [i \in 1..n |-> first + i - 1]
  /\ first' = first + n
  /\ UNCHANGED next

\* A resync drops the n oldest frames unheard.
Drop(n) ==
  /\ n <= next - first
  /\ first' = first + n
  /\ UNCHANGED <<next, heard>>

Next == \E n \in 0..Capacity : Accept(n) \/ Take(n) \/ Drop(n)

Spec == Init /\ [][Next]_vars
=============================================================================
