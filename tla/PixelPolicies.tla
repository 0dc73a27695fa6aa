--------------------------- MODULE PixelPolicies ----------------------------
(***************************************************************************)
(* The pixel arithmetic between a captured composition and the panel: the  *)
(* gray conversion with its rotation, the two colour treatments in their   *)
(* scalar and vector forms, the comparison of two gray frames and the row  *)
(* layout of one controller.  A colour is a sequence <<red, green, blue>>  *)
(* of 0..255; a gray image is a function on the indices 0..w*h-1 of its    *)
(* rows.  Buffers always have the size their width and height say.         *)
(***************************************************************************)
EXTENDS Integers, Sequences, FiniteSets, SequencesExt, FiniteSetsExt

Byte == 0..255
Colour == [1..3 -> Byte]
Frames(w, h) == [0..(w * h - 1) -> Byte]
Highest(rgb) == Max({rgb[c] : c \in 1..3})
Lowest(rgb) == Min({rgb[c] : c \in 1..3})
Spread(rgb) == Highest(rgb) - Lowest(rgb)

-----------------------------------------------------------------------------
(* Gray conversion *)

Luma(rgb) == (38 * rgb[1] + 75 * rgb[2] + 15 * rgb[3]) \div 128

\* & 0xf0: the sixteen levels the panel takes.
PanelGray(rgb) == Luma(rgb) - (Luma(rgb) % 16)

IsPanelGray(gray) == gray % 16 = 0

\* A retained sleep image on a colour panel: both nibbles carry the level.
ExpandSleepGrayscaleToRgba(gray) ==
  LET level == gray - (gray % 16) IN [c \in 1..3 |-> level + gray \div 16]

Rotations == {"none", "clockwise", "counterclockwise"}

\* Mistaken: the clockwise column counts from the left.
ClockwiseUnmirrored(x, y, w, h, rotation) ==
  CASE rotation = "none"             -> <<x, y>>
    [] rotation = "clockwise"        -> <<y, x>>
    [] rotation = "counterclockwise" -> <<y, w - 1 - x>>

\* Where the pixel at (x, y) of a w by h source goes.
Destination(x, y, w, h, rotation) ==
  CASE rotation = "none"             -> <<x, y>>
    [] rotation = "clockwise"        -> <<h - 1 - y, x>>
    [] rotation = "counterclockwise" -> <<y, w - 1 - x>>

TransformRect(r, w, h, rotation) ==
  CASE rotation = "none"             -> r
    [] rotation = "clockwise"        ->
         [left |-> h - r.bottom, top |-> r.left, right |-> h - r.top, bottom |-> r.right]
    [] rotation = "counterclockwise" ->
         [left |-> r.top, top |-> w - r.right, right |-> r.bottom, bottom |-> w - r.left]

-----------------------------------------------------------------------------
(* Gray preference *)

Thresholds == [balanced |-> [low |-> 8, high |-> 24], stronger |-> [low |-> 16, high |-> 40]]
Width(t) == t.high - t.low
Denominator(t) == Width(t) * Width(t) * Width(t)

\* A smoothstep between the thresholds, as a numerator over Denominator.
Weight(t, spread) ==
  LET step == IF spread <= t.low THEN 0 ELSE Min({spread - t.low, Width(t)})
  IN step * step * (3 * Width(t) - 2 * step)

RoundedLuma(rgb) == (38 * rgb[1] + 75 * rgb[2] + 15 * rgb[3] + 64) \div 128

Blend(t, channel, luma, weight) ==
  ((Denominator(t) - weight) * luma + weight * channel + Denominator(t) \div 2)
    \div Denominator(t)

\* The scalar loop, for one pixel.
ApplyPixel(t, rgb) ==
  IF Spread(rgb) = 0 \/ Spread(rgb) >= t.high THEN rgb
  ELSE [c \in 1..3 |-> Blend(t, rgb[c], RoundedLuma(rgb), Weight(t, Spread(rgb)))]

\* The vector loop, for one block: untouched when no pixel needs it, plain luma
\* when every pixel is below the fade, else blended under a mask.
ApplyVectors(t, block) ==
  LET spreads == {Spread(block[i]) : i \in DOMAIN block}
  IN IF Max(spreads) = 0 \/ Min(spreads) >= t.high THEN block
     ELSE IF Max(spreads) <= t.low
       THEN [i \in DOMAIN block |-> [c \in 1..3 |-> RoundedLuma(block[i])]]
     ELSE [i \in DOMAIN block |->
             IF Spread(block[i]) < t.high
               THEN [c \in 1..3 |-> Blend(t, block[i][c], RoundedLuma(block[i]),
                                          Weight(t, Spread(block[i])))]
               ELSE block[i]]

\* Reduces the common component, the more the further a channel is from the peak.
ApplyVividColor(rgb) ==
  IF Spread(rgb) <= 24 \/ Lowest(rgb) = 0 THEN rgb
  ELSE LET strength == Min({Spread(rgb) - 24, 40})
           denominator == 160 * Spread(rgb)
       IN [c \in 1..3 |->
             rgb[c] - (Lowest(rgb) * strength * (Highest(rgb) - rgb[c])
                       + denominator \div 2) \div denominator]

-----------------------------------------------------------------------------
(* Comparing two gray frames *)

NoChange(w, h) == [changed |-> 0, lighter |-> 0, darker |-> 0,
                   left |-> w, top |-> h, right |-> 0, bottom |-> 0]

Widen(delta, x, y) ==
  [delta EXCEPT !.left = Min({@, x}), !.top = Min({@, y}),
                !.right = Max({@, x + 1}), !.bottom = Max({@, y + 1})]

\* One pass over the pixels; an unchanged frame has the empty box.
MeasureGrayscaleDelta(previous, current, w, h) ==
  LET Step(delta, i) ==
        IF previous[i] = current[i] THEN delta
        ELSE LET counted == [delta EXCEPT
                   !.changed = @ + 1,
                   !.lighter = @ + (IF current[i] > previous[i] THEN 1 ELSE 0),
                   !.darker = @ + (IF current[i] > previous[i] THEN 0 ELSE 1)]
             IN Widen(counted, i % w, i \div w)
      delta == FoldLeft(Step, NoChange(w, h), [i \in 1..(w * h) |-> i - 1])
  IN IF delta.changed = 0 THEN [delta EXCEPT !.left = 0, !.top = 0] ELSE delta

ClassifyDeltaDirection(delta) ==
  IF delta.changed = 0 \/ delta.lighter + delta.darker # delta.changed THEN "unavailable"
  ELSE IF delta.lighter = delta.changed THEN "lighter"
  ELSE IF delta.darker = delta.changed THEN "darker" ELSE "mixed"

\* Two captures of the same size: exact or the box of what differs.
CompareGrayscaleFidelity(source, snapshot, w, h) ==
  LET differing == {i \in 0..(w * h - 1) : source[i] # snapshot[i]}
  IN [exact |-> differing = {}, differing |-> Cardinality(differing),
      left |-> IF differing = {} THEN 0 ELSE Min({i % w : i \in differing}),
      top |-> IF differing = {} THEN 0 ELSE Min({i \div w : i \in differing}),
      right |-> IF differing = {} THEN 0 ELSE Max({i % w : i \in differing}) + 1,
      bottom |-> IF differing = {} THEN 0 ELSE Max({i \div w : i \in differing}) + 1]

\* One controller takes each pair of rows as one row of alternating pixels;
\* an odd height is refused.
InterleaveAdjacentGrayscaleRows(image, w, h) ==
  IF h % 2 # 0 THEN <<>>
  ELSE [i \in 0..(w * h - 1) |->
          LET pair == i \div (2 * w)
              within == i % (2 * w)
          IN image[(2 * pair + (within % 2)) * w + within \div 2]]

-----------------------------------------------------------------------------
(* What the conversions promise each other *)

\* The vector loop and the scalar tail of the gray preference give each pixel
\* the same colour, whatever its neighbours in the block; a vivid colour keeps
\* its peak and the order of its channels, and both stay within a byte.
TonesAgree(block) ==
  /\ \A p \in DOMAIN Thresholds :
       LET t == Thresholds[p] IN ApplyVectors(t, block) = [i \in DOMAIN block |->
                                                             ApplyPixel(t, block[i])]
  /\ \A i \in DOMAIN block :
       LET rgb == block[i]  vivid == ApplyVividColor(rgb)
       IN /\ Highest(vivid) = Highest(rgb)
          /\ \A c, d \in 1..3 : rgb[c] <= rgb[d] => vivid[c] <= vivid[d]
          /\ \A p \in DOMAIN Thresholds : \A c \in 1..3 :
               vivid[c] \in Byte /\ ApplyPixel(Thresholds[p], rgb)[c] \in Byte
  /\ \A i \in DOMAIN block :
       PanelGray(ExpandSleepGrayscaleToRgba(PanelGray(block[i]))) = PanelGray(block[i])

Pixels(r) == {<<x, y>> : x \in r.left..(r.right - 1), y \in r.top..(r.bottom - 1)}
Rectangles(w, h) == {r \in [left : 0..w, top : 0..h, right : 0..w, bottom : 0..h] :
                       r.left < r.right /\ r.top < r.bottom}

\* Damage follows the pixels: the transformed rectangle covers exactly where the
\* converted pixels of the rectangle went, and no two pixels share a place.
DamageFollowsPixels(w, h, rotation) ==
  \A r \in Rectangles(w, h) :
    {Destination(p[1], p[2], w, h, rotation) : p \in Pixels(r)}
      = Pixels(TransformRect(r, w, h, rotation))

\* The measured box holds every changed pixel and none smaller does; both
\* comparisons agree on it, and the direction says what every pixel did.
DeltaIsExact(previous, current, w, h) ==
  LET delta == MeasureGrayscaleDelta(previous, current, w, h)
      changed == {i \in 0..(w * h - 1) : previous[i] # current[i]}
      fidelity == CompareGrayscaleFidelity(previous, current, w, h)
  IN /\ delta.changed = Cardinality(changed) /\ delta.changed = fidelity.differing
     /\ \A side \in {"left", "top", "right", "bottom"} : delta[side] = fidelity[side]
     /\ \A i \in changed : <<i % w, i \div w>> \in Pixels(delta)
     /\ ClassifyDeltaDirection(delta) = "lighter" =>
          \A i \in changed : current[i] > previous[i]
     /\ changed # {} => ClassifyDeltaDirection(delta) # "unavailable"

\* No pixel is lost or doubled by the controller's row pairs.
InterleaveLosesNothing(w, h) ==
  h % 2 = 0 =>
    LET out == InterleaveAdjacentGrayscaleRows([i \in 0..(w * h - 1) |-> i], w, h)
    IN {out[i] : i \in DOMAIN out} = 0..(w * h - 1)
=============================================================================
