---------------------------- MODULE MCLowerEngine ----------------------------
(* Values for model checking LowerEngine. *)
EXTENDS LowerEngine

AllFails == {"preflight", "load", "compat", "init", "lut", "planes", "mapping",
             "update", "reset"}
NoFails == {}
FourKinds == {"page", "sleep", "white", "cleanup"}
Both == {"quality", "gray"}
QualityAlone == {"quality"}
=============================================================================
