---------------------------- MODULE EinkPipeline ----------------------------
(***************************************************************************)
(* android_eink_pipeline.cpp: composed frames arrive on the composition    *)
(* thread, a conversion worker turns the newest into a panel frame and     *)
(* decides whether the panel needs it, and the presentation adapter (here  *)
(* its abstract specification, FrameSlot) hands it to the engine.  Binder  *)
(* threads publish a sleep-image catalog, present its image when the       *)
(* screen goes off and disarm the cycle when it comes back.                *)
(*                                                                         *)
(* Every action is one hold of the pipeline mutex.  The conversion worker  *)
(* takes and releases it several times for one capture; its stages are the *)
(* places where it holds no lock and others may run.                       *)
(***************************************************************************)
EXTENDS Naturals

CONSTANTS
  Pages,        \* bright page contents; equal pages convert to equal pixels
  DarkPages,    \* contents whose brightest pixel qualifies as terminal black
  White,        \* what an opaque or replacing sleep image covers
  NoPage,
  Lifecycle,    \* entry points used: "present" (binder), "arm" (public API)
  Modes,        \* catalog presentation modes: "opaque", "overlay"
  MayToggle,    \* whether the presentation property ever changes
  MaxCaptures,  \* bound: captures, among them those a source change discards
  MaxEpoch, MaxRefresh, MaxResets,  \* bounds on what callers do
  MayStop, MayFail  \* whether Stop is called, whether a conversion may fail

ASSUME PipelineAssumption ==
  /\ Pages \cap DarkPages = {}
  /\ {White, NoPage} \cap (Pages \cup DarkPages) = {} /\ White # NoPage
  /\ Lifecycle \subseteq {"present", "arm"}
  /\ Modes \subseteq {"opaque", "overlay"}
  /\ {MaxCaptures, MaxEpoch, MaxRefresh, MaxResets} \subseteq Nat
  /\ MayToggle \in BOOLEAN /\ MayStop \in BOOLEAN /\ MayFail \in BOOLEAN

VARIABLES
  started, stopping, enabled, has_been_enabled,
  pending,               \* the captured page waiting for conversion
  conversion,            \* the worker's stage and its local state
  next_sequence, source_generation,
  baseline,              \* FrameDemandGate's previous signature
  reset_demand_gate, reset_source_state,
  latch_state, last_armed_epoch, active_epoch,           \* SleepImageLatch
  background,            \* SleepImageBackground: page and sequence
  catalog_epoch, mode,   \* the accepted catalog
  refresh_id, refresh_busy, refresh_requested,
  state, slot, call,     \* the adapter, as FrameSlot
  armed,                 \* the presentation property
  polled,                \* what the composition thread read of it in this capture
  admitted,              \* Submit has passed its check of the property
  panel,                 \* history: the last frame the engine accepted
  refused,               \* history: a later frame the engine refused, since the
                         \* pipeline was last enabled or disabled
  newest,                \* history: the newest capture nothing has superseded
  displaced,             \* history: a sleep image took the newest request's place
  resets

lifeVars == <<started, stopping, enabled, has_been_enabled>>
captureVars == <<pending, next_sequence, source_generation>>
gateVars == <<baseline, reset_demand_gate, reset_source_state>>
latchVars == <<latch_state, last_armed_epoch, active_epoch>>
sleepVars == <<latchVars, background, catalog_epoch, mode>>
refreshVars == <<refresh_id, refresh_busy, refresh_requested, displaced>>
slotVars == <<state, slot, call>>
engineVars == <<armed, polled, admitted, panel, refused>>
vars == <<lifeVars, captureVars, conversion, gateVars, sleepVars, refreshVars,
          slotVars, engineVars, newest, resets>>

Contents == Pages \cup DarkPages
NoFrame == [sequence |-> 0, epoch |-> 0, page |-> NoPage, request |-> 0]
Frames == [sequence : Nat, epoch : Nat, page : Contents \cup {White, NoPage}, request : Nat]

Slot == INSTANCE FrameSlot

NoBackground == [page |-> NoPage, sequence |-> 0]

Resting == [stage |-> "idle", page |-> NoPage, sequence |-> 0, generation |-> 0,
            replace |-> 0, changed |-> FALSE, request |-> 0]

Init ==
  /\ started = FALSE /\ stopping = FALSE /\ enabled = FALSE /\ has_been_enabled = FALSE
  /\ pending = NoPage /\ next_sequence = 1 /\ source_generation = 0
  /\ conversion = Resting
  /\ baseline = NoPage /\ reset_demand_gate = FALSE /\ reset_source_state = FALSE
  /\ latch_state = "inactive" /\ last_armed_epoch = 0 /\ active_epoch = 0
  /\ background = NoBackground /\ catalog_epoch = 0 /\ mode = "opaque"
  /\ refresh_id = 0 /\ refresh_busy = FALSE /\ refresh_requested = 0
  /\ Slot!Init
  /\ armed = TRUE /\ polled = "on" /\ admitted = FALSE
  /\ panel = NoFrame /\ refused = NoFrame /\ newest = NoPage /\ displaced = FALSE
  /\ resets = 0

Running == started /\ ~stopping

(* Variants of definitions below, each a mistake the code could make: they *)
(* are never part of the specification.                                    *)
RetainsRefusedFrames == call.frame.epoch = 0 /\ call.frame.sequence > background.sequence
KeepsGeneration == source_generation
DisarmKeepsSlot == slot
ForgetsOnSourceChangeOnly == reset_source_state
StandsUnchecked == conversion.request # 0
WokenByCaptureOnly == stopping /\ pending # NoPage

----------------------------------------------------------------------------
(* Life cycle and enable state *)

Start ==
  /\ ~started /\ ~stopping
  /\ started' = TRUE
  /\ Slot!Open
  /\ UNCHANGED <<stopping, enabled, has_been_enabled, captureVars, conversion, gateVars,
                 sleepVars, refreshVars, engineVars, newest, resets>>

\* Stop discards the pending capture, then joins the conversion worker, then
\* stops the adapter.
StopBegin ==
  /\ MayStop
  /\ Running
  /\ stopping' = TRUE /\ enabled' = FALSE
  /\ pending' = NoPage
  /\ newest' = NoPage
  /\ UNCHANGED <<started, has_been_enabled, next_sequence, source_generation, conversion,
                 gateVars, sleepVars, refreshVars, slotVars, engineVars, resets>>

StopAdapter ==
  /\ stopping
  /\ conversion.stage = "exited"
  /\ Slot!Close
  /\ UNCHANGED <<lifeVars, captureVars, conversion, gateVars, sleepVars, refreshVars,
                 engineVars, newest, resets>>

\* debug.neo2.eink.enabled is written by whoever operates the device, at any
\* time: nothing in the pipeline notices before the property is read.
ToggleProperty ==
  /\ MayToggle
  /\ Running
  /\ armed' = ~armed
  /\ UNCHANGED <<lifeVars, captureVars, conversion, gateVars, sleepVars, refreshVars,
                 slotVars, polled, admitted, panel, refused, newest, resets>>

\* CaptureM3 reads the property once, when a composition reaches the session; what
\* it read decides the rest of that capture.  (MaybeStartM3, which creates the
\* pipeline, read it before: the first `polled` is "on".)
PollProperty ==
  /\ Running
  /\ polled = "none"
  /\ polled' = IF armed THEN "on" ELSE "off"
  /\ UNCHANGED <<lifeVars, captureVars, conversion, gateVars, sleepVars, refreshVars,
                 slotVars, armed, admitted, panel, refused, newest, resets>>

\* A frame converted while disabled must not become the panel's baseline.
Rearms(b) == enabled # b /\ has_been_enabled

\* SetEnabled(b) under the pipeline's mutex; disabling withdraws every diagnostic
\* request not yet submitted.
Enabling(b) ==
  /\ enabled' = b
  /\ has_been_enabled' = (has_been_enabled \/ b)
  /\ reset_demand_gate' = (reset_demand_gate \/ Rearms(b))
  /\ IF b THEN UNCHANGED <<refresh_id, refresh_busy, slot, newest>>
     ELSE /\ refresh_id' = 0 /\ refresh_busy' = FALSE
          /\ slot' = IF slot = NoFrame THEN slot ELSE [slot EXCEPT !.request = 0]
          /\ newest' = NoPage
  /\ refused' = NoFrame
  /\ UNCHANGED <<started, stopping, captureVars, conversion, baseline, reset_source_state,
                 sleepVars, refresh_requested, state, call, armed, admitted, panel, displaced,
                 resets>>

\* The composition thread passes on a change it has read.  A capture that disables
\* ends there, and so does the start of the pipeline, which is not a capture.
SetEnabled ==
  /\ Running
  /\ polled # "none"
  /\ enabled # (polled = "on")
  /\ Enabling(polled = "on")
  /\ polled' = IF polled = "on" /\ has_been_enabled THEN "on" ELSE "none"

\* A capture that ends without a composition for the pipeline: still disarmed, the
\* submission budget used up, held back by admission or for want of a free
\* snapshot, its copy failed, or the pipeline holds captures back for a sleep image.
CaptureSkipped ==
  /\ Running
  /\ polled # "none"
  /\ enabled = (polled = "on")
  /\ polled' = "none"
  /\ UNCHANGED <<lifeVars, captureVars, conversion, gateVars, sleepVars, refreshVars,
                 slotVars, armed, admitted, panel, refused, newest, resets>>

\* CaptureM3 discards the capture in which the source mode changed.
ResetForSourceChange ==
  /\ Running
  /\ polled = "on" /\ enabled
  /\ polled' = "none"
  /\ resets < MaxResets
  /\ resets' = resets + 1
  /\ source_generation' = source_generation + 1
  /\ pending' = NoPage
  /\ reset_source_state' = TRUE
  /\ background' = NoBackground
  /\ newest' = NoPage
  /\ UNCHANGED <<lifeVars, next_sequence, conversion, baseline, reset_demand_gate, latchVars,
                 catalog_epoch, mode, refreshVars, slotVars, armed, admitted, panel, refused>>

----------------------------------------------------------------------------
(* Diagnostic refresh requests *)

RequestDiagnosticRefresh ==
  /\ Running /\ enabled
  /\ active_epoch = 0
  /\ ~refresh_busy
  /\ refresh_requested < MaxRefresh
  /\ refresh_requested' = refresh_requested + 1
  /\ refresh_id' = refresh_requested + 1
  /\ refresh_busy' = TRUE
  /\ displaced' = FALSE
  /\ UNCHANGED <<lifeVars, captureVars, conversion, gateVars, sleepVars, slotVars,
                 engineVars, newest, resets>>

\* The caller withdraws its request when it could not ask for a composition.
CancelDiagnosticRefresh ==
  /\ refresh_id # 0
  /\ refresh_id' = 0
  /\ refresh_busy' = FALSE
  /\ UNCHANGED <<lifeVars, captureVars, conversion, gateVars, sleepVars, refresh_requested,
                 displaced, slotVars, engineVars, newest, resets>>

----------------------------------------------------------------------------
(* The sleep-image cycle *)

PublishSleepImageCatalog(m) ==
  /\ ~stopping
  /\ catalog_epoch < MaxEpoch
  /\ catalog_epoch' = catalog_epoch + 1
  /\ mode' = m
  /\ UNCHANGED <<lifeVars, captureVars, conversion, gateVars, latchVars, background,
                 refreshVars, slotVars, engineVars, newest, resets>>

\* SleepImageLatch::ArmSleepCycle: an epoch is armed once, in order, and never
\* while another is active.
LatchAccepts(e) == e > last_armed_epoch /\ active_epoch = 0

ArmSleepCycle ==
  /\ "arm" \in Lifecycle
  /\ ~stopping
  /\ catalog_epoch # 0
  /\ LatchAccepts(catalog_epoch)
  /\ latch_state' = "armed"
  /\ last_armed_epoch' = catalog_epoch /\ active_epoch' = catalog_epoch
  /\ refresh_id' = 0 /\ refresh_busy' = FALSE
  /\ slot' = IF slot = NoFrame THEN slot ELSE [slot EXCEPT !.request = 0]
  /\ UNCHANGED <<lifeVars, captureVars, conversion, gateVars, background, catalog_epoch, mode,
                 refresh_requested, displaced, state, call, engineVars, newest, resets>>

\* The sleep image supersedes every capture that has not been enqueued.
Superseded == source_generation + 1

PresentSleepImage ==
  /\ "present" \in Lifecycle
  /\ Running /\ enabled
  /\ catalog_epoch # 0
  /\ mode = "overlay" => background # NoBackground
  /\ LatchAccepts(catalog_epoch)
  /\ latch_state' = "consumed"
  /\ last_armed_epoch' = catalog_epoch /\ active_epoch' = catalog_epoch
  /\ source_generation' = Superseded
  /\ pending' = NoPage
  /\ next_sequence' = next_sequence + 1
  /\ Slot!Put([sequence |-> next_sequence, epoch |-> catalog_epoch,
               page |-> IF mode = "overlay" THEN background.page ELSE White,
               request |-> 0])
  /\ newest' = NoPage
  /\ displaced' = (displaced \/ slot.request # 0)
  /\ UNCHANGED <<lifeVars, conversion, gateVars, background, catalog_epoch, mode, refresh_id,
                 refresh_busy, refresh_requested, engineVars, resets>>

\* What disarming leaves in the adapter's slot.
AfterDisarm == IF slot.epoch = active_epoch THEN NoFrame ELSE slot

DisarmSleepCycle ==
  /\ active_epoch # 0
  /\ latch_state' = "inactive" /\ active_epoch' = 0
  /\ slot' = AfterDisarm
  /\ background' = NoBackground
  /\ reset_demand_gate' = TRUE
  /\ UNCHANGED <<lifeVars, captureVars, conversion, baseline, reset_source_state,
                 last_armed_epoch, catalog_epoch, mode, refreshVars, state, call, engineVars,
                 newest, resets>>

----------------------------------------------------------------------------
(* Captures and their conversion *)

\* Once a cycle is consumed, captures are held back; otherwise the newest
\* capture replaces the pending one.
CaptureHeld == latch_state = "consumed"

OnCapturedComposition(page) ==
  /\ Running
  /\ polled = "on" /\ enabled
  /\ polled' = "none"
  /\ ~CaptureHeld
  /\ next_sequence + resets <= MaxCaptures + last_armed_epoch
  /\ pending' = page
  /\ newest' = page
  /\ UNCHANGED <<lifeVars, next_sequence, source_generation, conversion, gateVars, sleepVars,
                 refreshVars, slotVars, armed, admitted, panel, refused, resets>>

\* The worker's wait ends for a Stop as well as for a capture.
WokenByStop == stopping

ConversionExit ==
  /\ conversion.stage = "idle" /\ WokenByStop
  /\ conversion' = [Resting EXCEPT !.stage = "exited"]
  /\ UNCHANGED <<lifeVars, captureVars, gateVars, sleepVars, refreshVars, slotVars,
                 engineVars, newest, resets>>

ForgetsBaseline == reset_demand_gate \/ reset_source_state

ConversionTake ==
  /\ conversion.stage = "idle" /\ Running
  /\ pending # NoPage
  /\ conversion' = [Resting EXCEPT !.stage = "converting", !.page = pending,
                                   !.sequence = next_sequence,
                                   !.generation = source_generation]
  /\ pending' = NoPage
  /\ next_sequence' = next_sequence + 1
  /\ baseline' = IF ForgetsBaseline THEN NoPage ELSE baseline
  /\ reset_demand_gate' = FALSE /\ reset_source_state' = FALSE
  /\ UNCHANGED <<lifeVars, source_generation, sleepVars, refreshVars, slotVars, engineVars,
                 newest, resets>>

\* A failed conversion also fails the request that was waiting for a frame.
ConversionFails ==
  /\ MayFail
  /\ conversion.stage = "converting"
  /\ conversion' = Resting
  /\ refresh_id' = 0
  /\ refresh_busy' = (refresh_busy /\ refresh_id = 0)
  /\ newest' = IF pending = NoPage THEN NoPage ELSE newest
  /\ UNCHANGED <<lifeVars, captureVars, gateVars, sleepVars, refresh_requested, displaced,
                 slotVars, engineVars, resets>>

Current == conversion.generation = source_generation

CheckGeneration ==
  /\ conversion.stage = "converting"
  /\ conversion' = IF Current THEN [conversion EXCEPT !.stage = "checked"] ELSE Resting
  /\ UNCHANGED <<lifeVars, captureVars, gateVars, sleepVars, refreshVars, slotVars,
                 engineVars, newest, resets>>

\* SleepImageLatch::Evaluate: a dark frame in an armed cycle is replaced by the
\* catalog's image if that has the frame's size, and shown as it is otherwise.
Terminal == conversion.page \in DarkPages

Decision(sized) ==
  IF ~Terminal \/ latch_state \in {"inactive", "fallback"} THEN "pass"
  ELSE IF latch_state = "consumed" THEN "suppress"
  ELSE IF sized THEN "replace" ELSE "fall back"

\* FrameDemandGate::Evaluate, whose state only the worker touches, adopts the
\* page as its baseline whatever becomes of the frame.
ContentChanged == baseline # conversion.page

Evaluate(sized) ==
  /\ conversion.stage = "checked"
  /\ latch_state' = CASE Decision(sized) = "replace" -> "consumed"
                      [] Decision(sized) = "fall back" -> "fallback"
                      [] OTHER -> latch_state
  /\ conversion' = IF Decision(sized) = "suppress" THEN Resting
                   ELSE [conversion EXCEPT
                           !.stage = "evaluated",
                           !.replace = IF Decision(sized) = "replace" THEN active_epoch ELSE 0,
                           !.changed = ContentChanged]
  /\ baseline' = conversion.page
  /\ newest' = IF Decision(sized) \in {"replace", "suppress"} /\ pending = NoPage
               THEN NoPage ELSE newest
  /\ UNCHANGED <<lifeVars, captureVars, reset_demand_gate, reset_source_state,
                 last_armed_epoch, active_epoch, background, catalog_epoch, mode, refreshVars,
                 slotVars, engineVars, resets>>

\* A request applies to an unchanged page too; without one it is not shown again.
Route ==
  /\ conversion.stage = "evaluated"
  /\ LET request == IF enabled /\ active_epoch = 0 THEN refresh_id ELSE 0
     IN  conversion' = IF ~conversion.changed /\ conversion.replace = 0 /\ request = 0
                       THEN Resting
                       ELSE [conversion EXCEPT !.stage = "routed", !.request = request]
  /\ UNCHANGED <<lifeVars, captureVars, gateVars, sleepVars, refreshVars, slotVars,
                 engineVars, newest, resets>>

\* The request is checked again under the lock that enqueues the frame: sleep or
\* a disable may have withdrawn it since.
RequestStands == /\ conversion.request # 0
                 /\ refresh_id = conversion.request
                 /\ enabled
                 /\ active_epoch = 0

EnqueueConverted ==
  /\ conversion.stage = "routed"
  /\ refresh_id' = IF RequestStands THEN 0 ELSE refresh_id
  /\ Slot!Put([sequence |-> conversion.sequence, epoch |-> conversion.replace,
               page |-> IF conversion.replace # 0 THEN White ELSE conversion.page,
               request |-> IF RequestStands THEN conversion.request ELSE 0])
  /\ conversion' = Resting
  /\ UNCHANGED <<lifeVars, captureVars, gateVars, sleepVars, refresh_busy, refresh_requested,
                 displaced, engineVars, newest, resets>>

----------------------------------------------------------------------------
(* The adapter's worker and the engine *)

SubmitTake ==
  /\ Slot!Take
  /\ UNCHANGED <<lifeVars, captureVars, conversion, gateVars, sleepVars, refreshVars,
                 engineVars, newest, resets>>

\* Submit re-reads the property immediately before it drives the panel.
EngineAdmit ==
  /\ call.stage = "submit" /\ ~admitted
  /\ armed
  /\ admitted' = TRUE
  /\ UNCHANGED <<lifeVars, captureVars, conversion, gateVars, sleepVars, refreshVars,
                 slotVars, armed, polled, panel, refused, newest, resets>>

EngineRefuse ==
  /\ ~admitted
  /\ ~armed
  /\ Slot!Answer(FALSE)
  /\ refused' = call.frame
  /\ UNCHANGED <<lifeVars, captureVars, conversion, gateVars, sleepVars, refreshVars, armed,
                 polled, admitted, panel, newest, resets>>

EngineAccept ==
  /\ admitted
  /\ admitted' = FALSE
  /\ Slot!Answer(TRUE)
  /\ panel' = call.frame /\ refused' = NoFrame
  /\ UNCHANGED <<lifeVars, captureVars, conversion, gateVars, sleepVars, refreshVars, armed,
                 polled, newest, resets>>

\* SleepImageBackground::ObserveSubmission keeps accepted ordinary frames only.
Retained == /\ call.accepted
            /\ call.frame.epoch = 0
            /\ call.frame.sequence > background.sequence

OnEngineSubmission ==
  /\ background' = IF Retained
                   THEN [page |-> call.frame.page, sequence |-> call.frame.sequence]
                   ELSE background
  /\ refresh_busy' = (refresh_busy /\ ~(call.frame.request # 0
                                        /\ call.frame.request = refresh_requested))
  /\ Slot!Observe
  /\ UNCHANGED <<lifeVars, captureVars, conversion, gateVars, latchVars, catalog_epoch, mode,
                 refresh_id, refresh_requested, displaced, engineVars, newest, resets>>

----------------------------------------------------------------------------

Caller ==
  \/ Start \/ StopBegin \/ ToggleProperty
  \/ PollProperty \/ SetEnabled \/ CaptureSkipped \/ ResetForSourceChange
  \/ RequestDiagnosticRefresh \/ CancelDiagnosticRefresh
  \/ \E m \in Modes : PublishSleepImageCatalog(m)
  \/ ArmSleepCycle \/ PresentSleepImage \/ DisarmSleepCycle
  \/ \E page \in Contents : OnCapturedComposition(page)

ConversionWorker ==
  \/ ConversionExit \/ ConversionTake \/ ConversionFails \/ CheckGeneration
  \/ \E sized \in BOOLEAN : Evaluate(sized)
  \/ Route \/ EnqueueConverted

EngineWorker ==
  \/ SubmitTake \/ EngineAdmit \/ EngineRefuse \/ EngineAccept \/ OnEngineSubmission

Next == Caller \/ ConversionWorker \/ StopAdapter \/ EngineWorker

Spec == Init /\ [][Next]_vars

\* The two worker threads and a Stop under way keep running; nobody is obliged
\* to compose, to sleep or to stop.
FairSpec == /\ Spec
            /\ WF_vars(ConversionWorker)
            /\ WF_vars(EngineWorker)
            /\ WF_vars(StopAdapter)

----------------------------------------------------------------------------
(* Properties *)

\* Nothing is on its way to the panel.
Quiet == /\ pending = NoPage
         /\ conversion.stage = "idle"
         /\ slot = NoFrame
         /\ call.stage = "idle"

Stages == {"idle", "converting", "checked", "evaluated", "routed", "exited"}

FlagsOK ==
  /\ started \in BOOLEAN /\ stopping \in BOOLEAN /\ enabled \in BOOLEAN
  /\ has_been_enabled \in BOOLEAN /\ refresh_busy \in BOOLEAN
  /\ reset_demand_gate \in BOOLEAN /\ reset_source_state \in BOOLEAN
  /\ armed \in BOOLEAN /\ admitted \in BOOLEAN /\ displaced \in BOOLEAN
  /\ polled \in {"none", "off", "on"}

CountersOK ==
  /\ next_sequence \in Nat /\ source_generation \in Nat /\ resets \in Nat
  /\ refresh_id \in Nat /\ refresh_requested \in Nat

ConversionOK ==
  /\ pending \in Contents \cup {NoPage} /\ newest \in Contents \cup {NoPage}
  /\ baseline \in Contents \cup {NoPage}
  /\ conversion \in [stage : Stages, page : Contents \cup {NoPage}, sequence : Nat,
                     generation : Nat, replace : Nat, changed : BOOLEAN, request : Nat]

SleepOK ==
  /\ latch_state \in {"inactive", "armed", "consumed", "fallback"}
  /\ last_armed_epoch \in Nat /\ active_epoch \in Nat /\ catalog_epoch \in Nat
  /\ mode \in {"opaque", "overlay"}
  /\ background \in [page : Contents \cup {White, NoPage}, sequence : Nat]

AdapterOK ==
  /\ state \in {"fresh", "open", "closed"}
  /\ slot \in Frames /\ panel \in Frames /\ refused \in Frames
  /\ call \in [stage : {"idle", "submit", "answered"}, frame : Frames, accepted : BOOLEAN]

\* Every variable holds a value of its type; a page is never White, which only
\* a frame can be, and an empty slot is a frame that holds no page.
TypeOK == FlagsOK /\ CountersOK /\ ConversionOK /\ SleepOK /\ AdapterOK

\* While a presented sleep image is up, no further capture gets past the checks
\* that hold it back: none is pending, and one still being converted will find
\* its generation superseded.  (A capture already past that check is not
\* stopped: see SleepImageHeld.)
ConsumedHoldsCaptures ==
  latch_state = "consumed" =>
    /\ pending = NoPage
    /\ conversion.stage = "converting" => conversion.generation # source_generation

\* A sleep image waits in the adapter only for the cycle that is active: waking
\* before it was submitted leaves no cover behind.
SleepFrameBelongsToCycle == slot.epoch \in {0, active_epoch}

\* The frame the engine was last offered since the pipeline was last enabled or
\* disabled: it is on the panel, unless the property went off between its capture
\* and its submission.
Offered == IF refused = NoFrame THEN panel ELSE refused

\* When everything has come to rest awake, the newest capture is what the engine
\* was last offered: neither coalescing, nor a baseline, nor a sleep cycle or a
\* disabled period in between has lost it.
RestOffersNewest ==
  Quiet /\ Running /\ newest # NoPage => Offered.page = newest /\ Offered.epoch = 0

\* At rest, the page the demand gate compares against is the one the engine was
\* last offered, unless the gate is about to be reset: a page withheld from the
\* engine is never assumed to be on the panel.
BaselineWasOffered ==
  Quiet /\ Running /\ active_epoch = 0 /\ ~ForgetsBaseline /\ baseline # NoPage
    => Offered.page = baseline /\ Offered.epoch = 0

\* At rest what was captured, what the gate remembers and what the engine was
\* given agree.
RestAgrees == RestOffersNewest /\ BaselineWasOffered

\* The retained overlay background is the last ordinary frame the engine
\* accepted, once its observer has run.
BackgroundWasShown ==
  background # NoBackground /\ panel.epoch = 0 /\ call.stage # "answered"
    => background.page = panel.page /\ background.sequence = panel.sequence

\* A sleep cycle withdraws diagnostic requests that have not been submitted, and
\* none is queued until it ends.
NoDiagnosticWhileAsleep == active_epoch # 0 => slot.request = 0

\* A disabled pipeline has no request waiting and none on a frame that waits: the
\* ones it had are withdrawn, and a frame converted before is enqueued without.
DisableWithdraws == Running /\ ~enabled => ~refresh_busy /\ refresh_id = 0 /\ slot.request = 0

\* The newest request is somewhere: waiting for a frame, on the frame in the slot,
\* or in the engine's hands.
RefreshPending == \/ refresh_id # 0
                  \/ refresh_requested \in {slot.request, call.frame.request}

\* While the pipeline turns new diagnostic requests away, the last one is pending,
\* or a presented sleep image has taken the place of the frame that carried it.
BusyIsExplained == refresh_busy /\ Running => RefreshPending \/ displaced

\* A diagnostic request is neither carried into a sleep cycle or a disabled period
\* nor forgotten while it blocks the next, save by the image that displaced it.
RefreshAccounted == NoDiagnosticWhileAsleep /\ DisableWithdraws /\ BusyIsExplained

\* Once a sleep image is on the panel it stays there until its cycle is disarmed.
SleepImageHeld ==
  [][ /\ active_epoch # 0 /\ active_epoch' = active_epoch
      /\ panel.epoch = active_epoch
      => panel' = panel ]_vars

\* A Stop under way ends with the adapter closed and nothing in the engine.
StopCompletes == stopping ~> state = "closed" /\ call.stage = "idle"
=============================================================================
