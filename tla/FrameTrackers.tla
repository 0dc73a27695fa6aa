--------------------------- MODULE FrameTrackers ----------------------------
(***************************************************************************)
(* RgbFrameTracker and GrayscaleFrameTracker: the signature of a captured  *)
(* frame by which the demand gate recognizes a page that did not change.   *)
(* Both keep the last frame.  The colour tracker compares in a buffer it    *)
(* may just have resized, in which a new geometry can meet the pixels of    *)
(* the old one or blank ones; its pass compares each pixel before it writes *)
(* over it and visits none twice, so it is the comparison of two whole      *)
(* frames here.  A frame is its geometry and its content; the generation is *)
(* a counter of 64 bits that skips zero, here of few values.                *)
(***************************************************************************)
EXTENDS Naturals

CONSTANTS Geometries, Contents, Blank,   \* Blank: what a resized buffer holds
          Modulus

VARIABLES kept,        \* per tracker: the geometry and the content it compares with
          generation,
          signatures,  \* the last answers, per tracker
          shown        \* the frame they were given for, and whether a reset followed

trackerVars == <<kept, generation, signatures, shown>>
Trackers == {"gray", "rgb"}
Empty == [geometry |-> "none", content |-> Blank]

Init ==
  /\ kept = [t \in Trackers |-> Empty]
  /\ generation = [t \in Trackers |-> 0]
  /\ signatures = [t \in Trackers |-> 0]
  /\ shown = [geometry |-> "none", content |-> Blank, again |-> FALSE]

NextGeneration(g) == LET n == (g + 1) % Modulus IN IF n = 0 THEN 1 ELSE n

GrayChanged(geometry, content) ==
  kept["gray"].geometry # geometry \/ kept["gray"].content # content

RgbChanged(geometry, content) ==
  \/ kept["rgb"].geometry # geometry
  \/ kept["rgb"].content # content

Changed(t, geometry, content) ==
  IF t = "gray" THEN GrayChanged(geometry, content) ELSE RgbChanged(geometry, content)

\* A valid frame; the trackers are used on the same frames.
Update(geometry, content) ==
  /\ generation' = [t \in Trackers |->
       IF Changed(t, geometry, content) THEN NextGeneration(generation[t]) ELSE generation[t]]
  /\ kept' = [t \in Trackers |-> [geometry |-> geometry, content |-> content]]
  /\ signatures' = generation'
  /\ shown' = [geometry |-> geometry, content |-> content, again |-> TRUE]

\* An invalid source answers zero and leaves the tracker alone.
UpdateInvalid ==
  /\ signatures' = [t \in Trackers |-> 0]
  /\ UNCHANGED <<kept, generation, shown>>

\* Keeps the generation.
Reset ==
  /\ kept' = [t \in Trackers |-> Empty]
  /\ shown' = [shown EXCEPT !.again = FALSE]
  /\ UNCHANGED <<generation, signatures>>

Next ==
  \/ UpdateInvalid \/ Reset
  \/ \E g \in Geometries, c \in Contents : Update(g, c)

Spec == Init /\ [][Next]_trackerVars

-----------------------------------------------------------------------------
\* Two frames in a row have the same signature exactly when they are the same
\* frame with no reset between them; a valid frame never has the signature of
\* an invalid one.
SignatureTellsFrames ==
  [][\A g \in Geometries, c \in Contents : Update(g, c) =>
       /\ \A t \in Trackers : signatures'[t] # 0
       /\ \A t \in Trackers :
            (generation'[t] = generation[t])
              <=> (shown.again /\ shown.geometry = g /\ shown.content = c)]_trackerVars
=============================================================================
