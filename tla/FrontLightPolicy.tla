--------------------------- MODULE FrontLightPolicy ---------------------------
(***************************************************************************)
(* eink_frontlight_policy.cpp: from a request in percent, or in raw codes, *)
(* to the codes of the cold and the warm controller channel.  The direct   *)
(* resolver partitions the requested step between the channels; the        *)
(* calibrated one shares out electrical power under a cap.                 *)
(*                                                                         *)
(* Tables are functions on 0..n, as the code's arrays.  Power is counted   *)
(* in an integer unit and shares of it are compared as fractions, where    *)
(* the code rounds doubles.                                                *)
(***************************************************************************)
EXTENDS Integers

Percent == 0..100

LastOf(table) == CHOOSE i \in DOMAIN table : \A j \in DOMAIN table : j <= i

Ascending(table) == \A i \in DOMAIN table : i > 0 => table[i - 1] < table[i]

IsValidFrontLightBrightnessCodes(codes) == codes[0] = 0 /\ Ascending(codes)

\* A calibration: codes, cold and warm power by step, drive codes and power.
IsValidFrontLightCalibration(calibration) ==
  /\ IsValidFrontLightBrightnessCodes(calibration.codes)
  /\ Ascending(calibration.drive_codes)
  /\ \A power \in {calibration.cold_power, calibration.warm_power, calibration.drive_power} :
       \A i \in DOMAIN power : power[i] >= 0

----------------------------------------------------------------------------
(* Direct codes *)

\* Percent of `last` steps, to the nearest, upwards on a tie.
Share(last, percent) == (last * percent + 50) \div 100

IntensityStep(last, brightness) == Share(last, brightness)
WarmStep(last, brightness, warmth) == Share(IntensityStep(last, brightness), warmth)
ColdStep(last, brightness, warmth) ==
  IntensityStep(last, brightness) - WarmStep(last, brightness, warmth)

ResolveDirectFrontLightPercent(codes, brightness, warmth) ==
  LET last == LastOf(codes)
  IN [cold |-> codes[ColdStep(last, brightness, warmth)],
      warm |-> codes[WarmStep(last, brightness, warmth)],
      capped |-> FALSE]

----------------------------------------------------------------------------
(* Calibrated power *)

Distance(a, b) == IF a < b THEN b - a ELSE a - b

\* NearestIndex of numerator / denominator: the first of the closest entries.
NearestIndex(table, numerator, denominator) ==
  CHOOSE i \in DOMAIN table : \A j \in DOMAIN table :
    LET di == Distance(table[i] * denominator, numerator)
        dj == Distance(table[j] * denominator, numerator)
    IN di < dj \/ (di = dj /\ i <= j)

Clamp(x, low, high) == IF x < low THEN low ELSE IF x > high THEN high ELSE x

\* The warm channel is scaled only above this step.
WarmScalingStep == 20

\* The cap is `multiple` times the cold power of the last step.
ResolveFrontLight(calibration, cold_code, warm_code, multiple, warm_percentage) ==
  LET nearestCode(code) == NearestIndex(calibration.codes, Clamp(code, 0, 65535), 1)
      cold_step == nearestCode(cold_code)
      warm_step == nearestCode(warm_code)
      requested == calibration.cold_power[cold_step] + calibration.warm_power[warm_step]
      maximum == calibration.cold_power[LastOf(calibration.cold_power)] * multiple
      applied == IF requested < maximum THEN requested ELSE maximum
      \* The steps share it out, then the warm share is scaled and clamped.
      shares == IF cold_step + warm_step = 0 THEN 1 ELSE cold_step + warm_step
      scale == IF warm_step > WarmScalingStep THEN warm_percentage ELSE 100
      warm_target == Clamp(applied * warm_step * scale, 0, applied * shares * 100)
      warm_drive == NearestIndex(calibration.drive_power, warm_target, shares * 100)
      warm_power == calibration.drive_power[warm_drive]
      cold_target == IF applied < warm_power THEN 0 ELSE applied - warm_power
      cold_drive == NearestIndex(calibration.drive_power, cold_target, 1)
  IN [cold |-> calibration.drive_codes[cold_drive],
      warm |-> calibration.drive_codes[warm_drive],
      power |-> warm_power + calibration.drive_power[cold_drive],
      applied |-> applied, capped |-> requested > maximum]

\* Unlike the direct resolver, both steps are rounded down here.
ResolveFrontLightPercent(calibration, brightness, warmth, multiple, warm_percentage) ==
  LET step == IntensityStep(LastOf(calibration.codes), brightness)
  IN ResolveFrontLight(calibration,
                       calibration.codes[(step * (100 - warmth)) \div 100],
                       calibration.codes[(step * warmth) \div 100],
                       multiple, warm_percentage)
=============================================================================
