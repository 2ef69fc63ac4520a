---------------------------- MODULE MCDeviceHeal -----------------------------
(***************************************************************************)
(* Two cameras that saved the same device, and a second device whose       *)
(* presence decides whether an enumeration without the first is empty.     *)
(***************************************************************************)
EXTENDS DeviceHeal

CONSTANTS c1, c2, stick, webcam

TwoCameras == <<c1, c2>>
OneCamera == <<c1>>
SameDevice == [c \in Cameras |-> stick]
=============================================================================
