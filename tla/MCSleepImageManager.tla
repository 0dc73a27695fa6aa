------------------------ MODULE MCSleepImageManager ------------------------
(* Instances of SleepImageManager for TLC. *)
EXTENDS SleepImageManager

AllModes == AllSleepModes
=============================================================================
