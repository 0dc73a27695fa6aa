----------------------- MODULE MCPresentationAdapter -----------------------
(* Small instances of the presentation adapter for TLC. *)
EXTENDS PresentationAdapter

CONSTANTS conversion, binder
TwoCallers == {conversion, binder}
ChangingInterval == {1, 2}
=============================================================================
