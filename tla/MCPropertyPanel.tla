--------------------------- MODULE MCPropertyPanel ---------------------------
(* A camera whose resolutions depend on its device, and a text source.      *)
EXTENDS PropertyPanel

cam == "camera"
txt == "text"
MCTargets == {cam, txt}
MCKeysOf == cam :> {"device", "resolution", "gain"} @@ txt :> {"gain", "text"}
MCParent == "resolution" :> "device"
MCCascadeKeys == {"device", "resolution"}
=============================================================================
