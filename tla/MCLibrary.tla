----------------------------- MODULE MCLibrary ------------------------------
(* Instances of Library for TLC.  The inputs of the pixel arithmetic: channels *)
(* on both sides of every threshold and of a rounding, as full colours and as  *)
(* neighbours in a block; every rotation of a small image; every pair of small *)
(* images over three levels.                                                   *)
EXTENDS Library

Channels == {0, 1, 90, 98, 99, 106, 114, 130, 255}
Neighbours == {<<90, 90, 90>>, <<90, 97, 90>>, <<99, 90, 114>>, <<0, 130, 255>>}
Images(w, h) == [0..(w * h - 1) -> {0, 16, 32}]

Tones == [kind : {"tone"},
          block : {<<a, b>> : a \in Channels \X Channels \X Channels, b \in Neighbours}]
Sides == [kind : {"sides"}, w : 1..4, h : 1..4, rotation : Pixel!Rotations]
Deltas == UNION {[kind : {"delta"}, w : {size[1]}, h : {size[2]},
                  previous : Images(size[1], size[2]), current : Images(size[1], size[2])]
                   : size \in {<<2, 2>>, <<3, 1>>, <<1, 3>>}}

PixelSamples == Tones \cup Sides \cup Deltas
=============================================================================
