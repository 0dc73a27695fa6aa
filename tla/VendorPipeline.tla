--------------------------- MODULE VendorPipeline ---------------------------
(***************************************************************************)
(* The direct vendor path of the Neo2 panel: AndroidVendorEinkPipeline     *)
(* takes owned GPU snapshots from the composition thread, one worker hands *)
(* the newest to the presentation adapter (FrameSlot), and the adapter's   *)
(* worker submits it through OneShotEngine to SyncControllerBackend, whose *)
(* vendor object can be initialized once and never torn down.  One owner   *)
(* initializes, arms, starts, enables and stops, one call at a time.       *)
(***************************************************************************)
EXTENDS Naturals, FiniteSets

CONSTANTS MaxCaptures, NoFrame

VARIABLES
  owner,      \* the owner's call: idle, or a step of Start or Stop
  pipe,       \* enabled, started, stopping; the pending capture; next_sequence
  worker,     \* the conversion worker: its place and the capture in its hands
  captured,   \* captures offered so far
  adapter, slot, call,   \* the presentation adapter, as FrameSlot has it
  gate,       \* OneShotEngine: its state and diagnostics
  attempt,    \* where the Submit of the adapter's worker is inside the engines
  sync        \* SyncControllerBackend: its state and diagnostics

vendorVars == <<owner, pipe, worker, captured, adapter, slot, call, gate, attempt, sync>>
slotVars == <<adapter, slot, call>>
engineVars == <<gate, attempt, sync>>

VendorFrames == [sequence : 1..MaxCaptures, capture : 1..MaxCaptures, epoch : {0}, request : {0}]
Slot == INSTANCE FrameSlot WITH Frames <- VendorFrames, state <- adapter

Init ==
  /\ owner = "idle"
  /\ pipe = [enabled |-> FALSE, started |-> FALSE, stopping |-> FALSE, pending |-> 0, next |-> 1]
  /\ worker = [at |-> "none", capture |-> 0, sequence |-> 0]
  /\ captured = 0
  /\ Slot!Init
  /\ gate = [state |-> "disarmed", rejected |-> 0, attempts |-> 0, accepted |-> FALSE]
  /\ attempt = "none"
  /\ sync = [state |-> "stopped", rejected |-> 0, submitted |-> 0]

-----------------------------------------------------------------------------
(* The owner *)

InitializeForObservedPanel ==
  /\ owner = "idle" /\ attempt # "vendor" /\ sync.state = "stopped"
  /\ sync' = [sync EXCEPT !.state = "initialized"]
  /\ UNCHANGED <<owner, pipe, worker, captured, slotVars, gate, attempt>>

Arm ==
  /\ owner = "idle" /\ gate.state = "disarmed"
  /\ gate' = [gate EXCEPT !.state = "armed"]
  /\ UNCHANGED <<owner, pipe, worker, captured, slotVars, attempt, sync>>

Start ==
  /\ owner = "idle" /\ ~pipe.started /\ ~pipe.stopping
  /\ pipe' = [pipe EXCEPT !.started = TRUE]
  /\ owner' = "starting"
  /\ UNCHANGED <<worker, captured, slotVars, engineVars>>

\* adapter_.Start(), then the conversion worker.
StartWorkers ==
  /\ owner = "starting"
  /\ Slot!Open
  /\ worker' = [worker EXCEPT !.at = "wait"]
  /\ owner' = "idle"
  /\ UNCHANGED <<pipe, captured, engineVars>>

SetEnabled(on) ==
  /\ owner = "idle" /\ pipe.started /\ ~pipe.stopping
  /\ pipe' = [pipe EXCEPT !.enabled = on]
  /\ UNCHANGED <<owner, worker, captured, slotVars, engineVars>>

\* Mistaken: the pending capture is left to the worker.
StopKeepingPending ==
  /\ owner = "idle" /\ pipe.started /\ ~pipe.stopping
  /\ pipe' = [pipe EXCEPT !.stopping = TRUE, !.enabled = FALSE]
  /\ owner' = "joining"
  /\ UNCHANGED <<worker, captured, slotVars, engineVars>>

Stop ==
  /\ owner = "idle" /\ pipe.started /\ ~pipe.stopping
  /\ pipe' = [pipe EXCEPT !.stopping = TRUE, !.enabled = FALSE, !.pending = 0]
  /\ owner' = "joining"
  /\ UNCHANGED <<worker, captured, slotVars, engineVars>>

StopAdapter ==
  /\ owner = "joining" /\ worker.at = "none"
  /\ Slot!Close
  /\ owner' = "closing"
  /\ UNCHANGED <<pipe, worker, captured, engineVars>>

StopReturns ==
  /\ owner = "closing" /\ call.stage = "idle"
  /\ owner' = "stopped"
  /\ UNCHANGED <<pipe, worker, captured, slotVars, engineVars>>

-----------------------------------------------------------------------------
(* The composition thread *)

\* A capture counts as owned when it has a lease, a buffer of the panel's size
\* and a fence.
Taking == pipe.started /\ ~pipe.stopping /\ pipe.enabled

OnCapturedComposition(isOwned) ==
  /\ captured < MaxCaptures
  /\ captured' = captured + 1
  /\ pipe' = IF Taking /\ isOwned THEN [pipe EXCEPT !.pending = captured + 1] ELSE pipe
  /\ UNCHANGED <<owner, worker, slotVars, engineVars>>

-----------------------------------------------------------------------------
(* The conversion worker *)

WorkerTake ==
  /\ worker.at = "wait" /\ ~pipe.stopping /\ pipe.pending # 0
  /\ worker' = [at |-> "has", capture |-> pipe.pending, sequence |-> pipe.next]
  /\ pipe' = [pipe EXCEPT !.pending = 0, !.next = @ + 1]
  /\ UNCHANGED <<owner, captured, slotVars, engineVars>>

WorkerEnqueue ==
  /\ worker.at = "has"
  /\ Slot!Put([sequence |-> worker.sequence, capture |-> worker.capture, epoch |-> 0,
               request |-> 0])
  /\ worker' = [at |-> "wait", capture |-> 0, sequence |-> 0]
  /\ UNCHANGED <<owner, pipe, captured, engineVars>>

WorkerExits ==
  /\ worker.at = "wait" /\ pipe.stopping
  /\ worker' = [worker EXCEPT !.at = "none"]
  /\ UNCHANGED <<owner, pipe, captured, slotVars, engineVars>>

-----------------------------------------------------------------------------
(* The adapter's worker, inside the engines *)

AdapterTake ==
  /\ Slot!Take
  /\ attempt' = "gate"
  /\ UNCHANGED <<owner, pipe, worker, captured, gate, sync>>

GateRejects ==
  /\ attempt = "gate" /\ gate.state # "armed"
  /\ gate' = [gate EXCEPT !.rejected = @ + 1]
  /\ attempt' = "none"
  /\ Slot!Answer(FALSE)
  /\ UNCHANGED <<owner, pipe, worker, captured, sync>>

\* Terminal before the delegate is called.
GateAdmits ==
  /\ attempt = "gate" /\ gate.state = "armed"
  /\ gate' = [gate EXCEPT !.state = "attempted", !.attempts = @ + 1]
  /\ attempt' = "delegate"
  /\ UNCHANGED <<owner, pipe, worker, captured, slotVars, sync>>

SyncRejects ==
  /\ attempt = "delegate" /\ sync.state # "initialized"
  /\ sync' = [sync EXCEPT !.rejected = @ + 1]
  /\ attempt' = "refused"
  /\ UNCHANGED <<owner, pipe, worker, captured, slotVars, gate>>

\* The vendor's refresh runs with the backend's mutex held.
SyncRefresh ==
  /\ attempt = "delegate" /\ sync.state = "initialized"
  /\ attempt' = "vendor"
  /\ UNCHANGED <<owner, pipe, worker, captured, slotVars, gate, sync>>

RefreshReturns ==
  /\ attempt = "vendor"
  /\ sync' = [sync EXCEPT !.submitted = @ + 1]
  /\ attempt' = "returned"
  /\ UNCHANGED <<owner, pipe, worker, captured, slotVars, gate>>

GateAnswers ==
  /\ attempt \in {"returned", "refused"}
  /\ gate' = [gate EXCEPT !.accepted = (attempt = "returned")]
  /\ attempt' = "none"
  /\ Slot!Answer(attempt = "returned")
  /\ UNCHANGED <<owner, pipe, worker, captured, sync>>

AdapterObserves ==
  /\ Slot!Observe
  /\ UNCHANGED <<owner, pipe, worker, captured, engineVars>>

-----------------------------------------------------------------------------
Next ==
  \/ InitializeForObservedPanel \/ Arm \/ Start \/ StartWorkers
  \/ \E on \in BOOLEAN : SetEnabled(on)
  \/ Stop \/ StopAdapter \/ StopReturns
  \/ \E isOwned \in BOOLEAN : OnCapturedComposition(isOwned)
  \/ WorkerTake \/ WorkerEnqueue \/ WorkerExits
  \/ AdapterTake \/ GateRejects \/ GateAdmits \/ SyncRejects \/ SyncRefresh \/ RefreshReturns
  \/ GateAnswers \/ AdapterObserves

Spec == Init /\ [][Next]_vendorVars

-----------------------------------------------------------------------------
\* Every variable has its type.
VendorTypeOK ==
  /\ owner \in {"idle", "starting", "joining", "closing", "stopped"}
  /\ pipe.pending \in 0..MaxCaptures /\ worker.at \in {"none", "wait", "has"}
  /\ gate.state \in {"disarmed", "armed", "attempted"}
  /\ sync.state \in {"stopped", "initialized"}

\* The vendor object sees at most one refresh in the life of the process,
\* whatever the first one did and however many captures, enables and owners'
\* calls come after it, and only when the gate was armed for it.
OneVendorAttempt ==
  /\ gate.attempts <= 1
  /\ sync.submitted + sync.rejected <= 1
  /\ gate.state # "attempted" => gate.attempts = 0 /\ attempt \notin {"delegate", "vendor"}

\* Once Stop has returned, no capture's pool lease is left anywhere on its way:
\* not pending, not with either worker, not in the slot or in the engine.
StopReturnsLeases ==
  owner = "stopped" =>
    /\ pipe.pending = 0 /\ worker.capture = 0
    /\ slot = NoFrame /\ call.frame = NoFrame
=============================================================================
