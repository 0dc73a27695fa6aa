----------------------------- MODULE MCFrontLight -----------------------------
(* Instances of FrontLight for TLC: a table of three steps; a board without a  *)
(* secondary channel, one of which a channel is forbidden, one with direct     *)
(* codes and one whose calibration file is malformed.                          *)
EXTENDS FrontLight

Table ==
  [codes |-> [i \in 0..2 |-> 10 * i],
   cold_power |-> [i \in 0..2 |-> 4 * i], warm_power |-> [i \in 0..2 |-> 3 * i],
   drive_codes |-> [i \in 0..4 |-> i], drive_power |-> [i \in 0..4 |-> 2 * i]]

Endpoints(secondaries, state) ==
  [c \in Channels |-> IF c \in secondaries THEN state ELSE "writable"]
Device(payload, secondaries, state) ==
  [payload |-> payload, endpoints |-> Endpoints(secondaries, state)]

Devices == {Device("calibrated", {"warm_secondary"}, "missing"),
            Device("calibrated", {"cold_secondary"}, "denied"),
            Device("direct", {}, "missing"), Device("malformed", {}, "missing")}
=============================================================================
