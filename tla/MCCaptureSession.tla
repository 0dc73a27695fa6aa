-------------------------- MODULE MCCaptureSession --------------------------
(* Values for model checking CaptureSession. *)
EXTENDS CaptureSession

Everything == AllUpsets
=============================================================================
