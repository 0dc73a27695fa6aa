------------------------- MODULE MCSessionControls -------------------------
(* One session from construction to destruction, two catalogs, two changes *)
(* of the settings and two refreshes.                                      *)
EXTENDS SessionControls
=============================================================================
