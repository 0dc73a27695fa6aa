--------------------------- MODULE MCEinkPipeline ---------------------------
(* Small instances of the pipeline for TLC. *)
EXTENDS EinkPipeline, TLC

CONSTANTS p, q, dark
OnePage == {p}
TwoPages == {p, q}
PagePermutations == Permutations(TwoPages)
NoPages == {}
NoDark == {}
OneDark == {dark}
Binder == {"present"}
AnyLifecycle == {"present", "arm"}
OpaqueOnly == {"opaque"}
OverlayOnly == {"overlay"}
BothModes == {"opaque", "overlay"}
=============================================================================
