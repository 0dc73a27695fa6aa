-------------------------- MODULE SleepImagePlanes --------------------------
(***************************************************************************)
(* The way of a sleep image through four components that each check it:    *)
(* EinkSleepImageCatalog validates and keeps the published entries,        *)
(* SleepImageBackground keeps the last page the panel accepted, Compose-   *)
(* SleepImageOverlay blends one over the other, and ValidateLowerEngine-   *)
(* Planes admits the frame to the engine.  An image is one pixel of its    *)
(* gray plane and its alpha plane, with the size of each plane; sizes are  *)
(* right or wrong for the panel, values are what the checks look at; an    *)
(* offered entry has at most one fault.                                    *)
(***************************************************************************)
EXTENDS Integers, Sequences

CONSTANTS
  Levels,         \* panel gray of the sample pixel; Dense is a value between levels
  Dense, Alphas,
  MaxEntries,     \* kMaximumEntries
  MaxSequence

VARIABLES
  profile,     \* the build's panel: known, and has_color_cfa
  catalog,     \* the published snapshot
  background,  \* panel_gray_ of the background, or None, and its sequence
  presented    \* what PresentSleepImage made of an image, until the next call

planeVars == <<profile, catalog, background, presented>>

None == -1
White == 240

Entry == [size : BOOLEAN, gray : Levels \cup {Dense}, graySize : BOOLEAN,
          alpha : Alphas, alphaSize : BOOLEAN, rgba : {"none", "right", "size", "alpha"}]
Faults(e) == {f \in {"size", "graySize", "alphaSize"} : ~e[f]}
             \cup (IF e.gray = Dense THEN {"gray"} ELSE {})
             \cup (IF e.rgba \in {"size", "alpha"} THEN {"rgba"} ELSE {})
Offered == {e \in Entry : \A f, g \in Faults(e) : f = g}
NotPresented == [result |-> "none", gray |-> None, status |-> "none", alpha |-> 0, over |-> 0,
                 under |-> 0]

Init ==
  /\ profile = [known |-> TRUE, cfa |-> FALSE]
  /\ catalog = <<>> /\ background = [gray |-> None, sequence |-> 0]
  /\ presented = NotPresented

IsPanelGray(gray) == gray \in 0..240 /\ gray % 16 = 0

-----------------------------------------------------------------------------
(* The catalog *)

\* Mistaken: the alpha plane is taken as it comes.
ValidateWithoutAlpha(entry) ==
  /\ entry.size /\ entry.graySize /\ IsPanelGray(entry.gray)
  /\ entry.rgba = "none" \/ (profile.cfa /\ entry.rgba = "right")

\* Geometry, gray bytes, panel gray, alpha bytes; then an RGBA plane only for a
\* colour panel, of the right size and with the same alpha.
ValidateEntry(entry) ==
  /\ entry.size /\ entry.graySize /\ IsPanelGray(entry.gray) /\ entry.alphaSize
  /\ entry.rgba = "none" \/ (profile.cfa /\ entry.rgba = "right")

Validate(entries) ==
  /\ Len(entries) \in 1..MaxEntries
  /\ profile.known
  /\ \A i \in DOMAIN entries : ValidateEntry(entries[i])

\* All or nothing: a rejected catalog leaves the one published before.
Publish(entries) ==
  /\ catalog' = IF Validate(entries) THEN entries ELSE catalog
  /\ presented' = NotPresented
  /\ UNCHANGED <<profile, background>>

Clear ==
  /\ catalog' = <<>>
  /\ presented' = NotPresented
  /\ UNCHANGED <<profile, background>>

-----------------------------------------------------------------------------
(* The background *)

Retains(frame, accepted) ==
  /\ accepted /\ frame.epoch = 0 /\ frame.sequence > background.sequence
  /\ frame.full /\ frame.graySize /\ IsPanelGray(frame.gray)

ObserveSubmission(frame, accepted) ==
  /\ background' = IF Retains(frame, accepted)
                     THEN [gray |-> frame.gray, sequence |-> frame.sequence] ELSE background
  /\ presented' = NotPresented
  /\ UNCHANGED <<profile, catalog>>

Release ==
  /\ background' = [gray |-> None, sequence |-> 0]
  /\ presented' = NotPresented
  /\ UNCHANGED <<profile, catalog>>

-----------------------------------------------------------------------------
(* The overlay *)

QuantizePanelGray(gray) ==
  LET level == (gray + 8) \div 16 IN 16 * IF level > 15 THEN 15 ELSE level

Blended(over, alpha, under) ==
  QuantizePanelGray((over * alpha + under * (255 - alpha) + 127) \div 255)

ComposeRefusal(entry, under) ==
  CASE ~entry.graySize \/ ~entry.alphaSize \/ entry.rgba = "size" -> "bytes"
    [] ~IsPanelGray(entry.gray) \/ ~IsPanelGray(under)            -> "panel_gray"
    [] OTHER                                                      -> "none"

\* The frame's planes: gray bytes of the panel's size, no captured buffer, and
\* on a colour panel the epoch that stands for the missing colour plane.
ValidateLowerEnginePlanes(frame) ==
  CASE frame.source                        -> "unexpected_source"
    [] ~frame.graySize                     -> "invalid_gray"
    [] profile.cfa /\ ~frame.compose /\ frame.epoch = 0 -> "missing_color"
    [] ~profile.cfa /\ frame.compose       -> "unexpected_color"
    [] OTHER                               -> "ready"

SleepFrame(entry) == [source |-> FALSE, compose |-> FALSE, epoch |-> 1, graySize |-> entry.graySize]

Outcome(result, entry, under) ==
  [result |-> result,
   gray |-> IF result = "composited" THEN Blended(entry.gray, entry.alpha, under) ELSE None,
   status |-> IF result = "composited" THEN ValidateLowerEnginePlanes(SleepFrame(entry))
              ELSE "none",
   alpha |-> entry.alpha, over |-> entry.gray, under |-> under]

\* An index past the end finds no candidate; an overlay needs a background, an
\* image on its own is composed over white.
PresentSleepImage(index, overlay) ==
  /\ presented' =
       IF index > Len(catalog) THEN [NotPresented EXCEPT !.result = "no_candidate"]
       ELSE IF overlay /\ background.gray = None
         THEN [NotPresented EXCEPT !.result = "no_background"]
       ELSE LET entry == catalog[index]
                under == IF overlay THEN background.gray ELSE White
            IN IF ComposeRefusal(entry, under) = "none"
                 THEN Outcome("composited", entry, under)
                 ELSE [NotPresented EXCEPT !.result = "rejected"]
  /\ UNCHANGED <<profile, catalog, background>>

-----------------------------------------------------------------------------
Build(known, cfa) ==
  /\ catalog = <<>> /\ background.sequence = 0 /\ presented = NotPresented
  /\ profile' = [known |-> known, cfa |-> cfa]
  /\ UNCHANGED <<catalog, background, presented>>

SubmittedFrames == [epoch : 0..1, sequence : 1..MaxSequence, full : BOOLEAN, graySize : BOOLEAN,
                    gray : Levels \cup {Dense}]
Next ==
  \/ \E known \in BOOLEAN, cfa \in BOOLEAN : Build(known, cfa)
  \/ \E e \in Offered : \E n \in 0..MaxEntries + 1 : Publish([i \in 1..n |-> e])
  \/ Clear \/ Release
  \/ \E f \in SubmittedFrames, accepted \in BOOLEAN : ObserveSubmission(f, accepted)
  \/ \E index \in 1..MaxEntries + 1, overlay \in BOOLEAN : PresentSleepImage(index, overlay)

Spec == Init /\ [][Next]_planeVars

-----------------------------------------------------------------------------
Between(x, a, b) == (a <= x /\ x <= b) \/ (b <= x /\ x <= a)

\* An image the catalog accepted is never refused later on its way to the
\* engine, over whatever page was retained; what arrives is panel gray between
\* the image and the page, the image where it is opaque and the page where it
\* is transparent.
AcceptedImageIsPresentable ==
  /\ presented.result # "rejected"
  /\ presented.result = "composited" =>
       /\ presented.status = "ready" /\ IsPanelGray(presented.gray)
       /\ Between(presented.gray, presented.over, presented.under)
       /\ presented.alpha = 255 => presented.gray = presented.over
       /\ presented.alpha = 0 => presented.gray = presented.under
=============================================================================
