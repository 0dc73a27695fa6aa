-------------------------- MODULE PogoConfigurator --------------------------
(***************************************************************************)
(* ConfigurePogoButtonLongPressSelectors: two selector files of the keypad *)
(* driver are read, both are written, and when either write cannot be      *)
(* verified both are written back.  A write may fail before it reached the *)
(* driver or after: open, a short write, close or the reading back.        *)
(***************************************************************************)
EXTENDS Naturals

CONSTANTS Keys, F5, F6   \* what a selector may hold

VARIABLES selector,   \* the driver's two selectors
          pogo,       \* the call: its next step
          original,   \* original_up and original_down
          verified,   \* per selector: its last write was read back
          pogoResult  \* what the call returned, and what it logged of the rollback

pogoVars == <<selector, pogo, original, verified, pogoResult>>

Sides == {"up", "down"}
Wanted == [up |-> F5, down |-> F6]

Init ==
  /\ selector = [s \in Sides |-> F6]
  /\ pogo = "boot" /\ original = selector
  /\ verified = [s \in Sides |-> FALSE] /\ pogoResult = "none"

\* What an earlier start or a vendor tool left in the driver.
Boot ==
  /\ pogo = "boot"
  /\ \E left \in [Sides -> Keys] : selector' = left
  /\ pogo' = "read"
  /\ UNCHANGED <<original, verified, pogoResult>>

\* An endpoint is missing, empty or not writable: nothing is written.
Unavailable ==
  /\ pogo = "read"
  /\ pogo' = "done" /\ pogoResult' = "unavailable"
  /\ UNCHANGED <<selector, original, verified>>

ReadBoth ==
  /\ pogo = "read"
  /\ original' = selector
  /\ pogo' = "writeUp"
  /\ UNCHANGED <<selector, verified, pogoResult>>

\* A verified write changed the driver; a failed one may have.
WriteSelector(side, value, next) ==
  \E ok \in BOOLEAN, reached \in BOOLEAN :
    /\ ok => reached
    /\ selector' = IF reached THEN [selector EXCEPT ![side] = value] ELSE selector
    /\ verified' = [verified EXCEPT ![side] = ok]
    /\ pogo' = next[ok]

WriteUp ==
  /\ pogo = "writeUp"
  /\ WriteSelector("up", Wanted["up"],
                   [ok \in BOOLEAN |-> IF ok THEN "writeDown" ELSE "restoreDown"])
  /\ UNCHANGED <<original, pogoResult>>

WriteDown ==
  /\ pogo = "writeDown"
  /\ WriteSelector("down", Wanted["down"],
                   [ok \in BOOLEAN |-> IF ok THEN "succeed" ELSE "restoreDown"])
  /\ UNCHANGED <<original, pogoResult>>

RestoreDown ==
  /\ pogo = "restoreDown"
  /\ WriteSelector("down", original["down"], [ok \in BOOLEAN |-> "restoreUp"])
  /\ UNCHANGED <<original, pogoResult>>

RestoreUp ==
  /\ pogo = "restoreUp"
  /\ WriteSelector("up", original["up"], [ok \in BOOLEAN |-> "fail"])
  /\ UNCHANGED <<original, pogoResult>>

\* Mistaken: the call reports the restoring write it made last.
RollbackReportsLast == verified["up"]

RollbackComplete == verified["up"] /\ verified["down"]

Return ==
  /\ pogo \in {"succeed", "fail"}
  /\ pogoResult' = IF pogo = "succeed" THEN "configured"
                   ELSE IF RollbackComplete THEN "restored" ELSE "incomplete"
  /\ pogo' = "done"
  /\ UNCHANGED <<selector, original, verified>>

Next == Boot \/ Unavailable \/ ReadBoth \/ WriteUp \/ WriteDown \/ RestoreDown \/ RestoreUp \/ Return
Spec == Init /\ [][Next]_pogoVars

-----------------------------------------------------------------------------
\* Every variable has its type.
PogoTypeOK == selector \in [Sides -> Keys] /\ original \in [Sides -> Keys]

\* What the call reports is what the driver holds, whichever writes failed and
\* whether the failed ones reached the driver: both keys configured, both as
\* they were found, or nothing claimed.
ReportMatchesDriver ==
  /\ pogoResult = "configured" => selector = Wanted
  /\ pogoResult = "restored" => selector = original
=============================================================================
