----------------------------- MODULE MCNeo2Eink -----------------------------
(* Neo2Eink with two snapshot slots, as the product has, and a short and a *)
(* long output interval.                                                   *)
EXTENDS Neo2Eink

MCDark == {2}
MCIntervals == {1, 2}
MCModes == {"overlay"}
MCUpsets == AllUpsets
=============================================================================
