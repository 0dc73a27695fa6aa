# TLA+ models of the e-ink display path

These modules model the native display path of `src/android/device-eink`, the
framework patches that drive its sleep images and its front light, and the older
build of it in `src/android/neo2-eink`. SurfaceFlinger composes the screen; the
path copies the composition, converts it to gray on a worker thread, decides
whether the panel needs it, and hands at most one frame at a time to a slow
engine. What is difficult there is not computation. It is five threads, queues
of depth one, leases on two GPU buffers, sleep images that must replace what is
under way, processes that die and restart around it, and an engine that refuses what
comes too early and overwrites what it has not started.

`PROJECT.json` lists components, runs, mutants, the source lines of every
definition, the hazards of the code, findings and theorems.

## 1. The system

Paths are below `src/android/device-eink/` unless they say otherwise.

| component | files | state | operations | talks to |
|---|---|---|---|---|
| capture session | `android/src/render_surface_capture_session.cpp` | pipeline pointer, source mode, admission policy, resample bridge, retained catalog, counters | `Capture`, `MaybeStartM3`, `CaptureM3`, binder and debug calls, `Stop` | called by the composition thread and by Binder threads; calls pool, policies and pipeline |
| snapshot pool | `android/src/gpu_snapshot_pool.cpp` (`src/eink_snapshot_pool.cpp` for hosts) | two slots, each free, copying or converting, with a generation | `TryCopy`, `ReleaseAfterConversion` | leases come back from whichever thread drops the last owner |
| full-pool resample policy | `src/eink_full_pool_resample_policy.cpp` and the bridge in the session | `outstanding_`, `awaiting_capture_` | `ObserveFullPool`, `OnResourceReleased`, `TakeCaptureOpportunity`, `RecordCaptureOutcome`, `Cancel` | requests one composition |
| admission policy, pressure accounting | `src/eink_capture_admission_policy.cpp`, `src/eink_capture_pressure_accounting.cpp` | the late-sampled slot; counters | `Evaluate`; `Record...` | session only |
| pipeline | `android/src/android_eink_pipeline.cpp` | pending capture, generation, enabled, reset flags, refresh request, catalog | `OnCapturedComposition`, `ConversionWorkerMain`, `SetEnabled`, `ResetForSourceChange`, `RequestDiagnosticRefresh`, `PublishSleepImageCatalog`, `PresentSleepImage`, `DisarmSleepCycle`, `OnEngineSubmission`, `Start`, `Stop` | one conversion thread; every operation holds the pipeline mutex, some call the adapter inside it |
| latch, gate, background | `src/eink_sleep_image_latch.cpp`, `src/eink_frame_demand_gate.cpp`, `src/eink_sleep_image_background.cpp` | the cycle and its epochs; the previous signature; the last accepted page | | under the pipeline mutex or in its worker |
| presentation adapter | `src/eink_presentation_adapter.cpp` | one pending frame, eligibility time, counters | `Start`, `Enqueue`, two cancellations, `Stop`, `WorkerMain` | its own thread and condition variable; calls the engine and then the pipeline's observer |
| lower engine backend | `android/src/lower_engine_direct_backend.cpp`, `include/eink_engine_marker_guard.h`, `android/src/ocean_waveform_compatibility.cpp` | one initialisation per process, white and target, markers, history, budget, colour settings | `InitializeForOneShot`, `Submit`, completion observation | vendor library |
| sleep image binder, catalog, overlay | `android/src/sleep_image_binder_service.cpp`, `android/src/eink_sleep_image_catalog.cpp`, `src/eink_sleep_image_overlay.cpp` | the accepted catalog | publish, present, disarm | session |
| sleep image manager | `src/profiles/aura-c/patches/aura/frameworks/base.patch` | epoch, retained catalog, request under way, mode, power-off guard | display edges, provider answers, mode changes | the provider in `src/android/ink-controls`, SurfaceFlinger |
| front light | `src/eink_frontlight_policy.cpp`, `android/src/frontlight_direct_backend.cpp`, `src/eink_manual_frontlight_control.cpp`; its manager in `base.patch` | calibration, latched failure; desired state, generation | gestures, requests, display edges, boot | up to four sysfs channels |
| libraries | dispatcher, host pool, micro-delta, trackers, tones, delta, fidelity, interleaving, vendor one-shot pipeline, keypad set-up | | | section 2 |
| Neo 2 build | `src/android/neo2-eink/` | an older session, pipeline, adapter and engine | | |
| not modelled | `src/core/`, most of `src/android/ink-controls/`, `src/tools/` | | | section 6 |

Behaviours that are hard: callers unlock before they notify; the pipeline
decides in one hold of its mutex and enqueues in another; the observer of a
submission runs in the adapter's thread after the engine has taken the frame;
two clocks time the same interval; admission is decided from state read a few
instructions before; leases are destroyed in four different lock contexts; a
refresh is two submissions of which the second may fail; a Binder thread may be
in a session that is about to be destroyed; the system server and the provider
die and come back while SurfaceFlinger keeps its side of a sleep cycle; requests
to the front light are stamped by one thread and handled by another; the property
that arms the engine is read by three parties, each at its own time.

What makes each component correct, in a sentence: the *adapter* hands frames to
the engine in order, each once, the newest of what waits, and loses no wake-up;
the *pipeline* rests when the engine has been offered the newest capture, with a
demand baseline that agrees with what was offered and an overlay background that
agrees with what was accepted; a *sleep cycle* leaves
nothing behind, shows the catalog that is current and is ended by whoever began
it; the *pool* neither leaks nor doubles a lease; each *obligation* ends once and
is attempted; a *white* is followed by its target or by a poisoned backend; the
*session* is not called while it dies; the *light* ends up as the desired state
says and never lights the dark.

## 2. The modules

| module | what it is |
|---|---|
| `FrameSlot` | abstract: what the adapter promises: one slot, one call to the engine, coalescing, withdrawal, closing |
| `PresentationAdapter` | the adapter's threads in detail; implements `FrameSlot` |
| `EinkPipeline` | the pipeline with latch, gate and background, composed with `FrameSlot` |
| `CaptureSession` | the capture side: `CaptureM3`, pool, leases, obligation, admission, accounting |
| `LowerEngine` | the backend's one initialisation and `Submit` with its pair of images |
| `SessionControls` | one session from construction to destruction between Binder services, composition thread and worker |
| `SessionDiagnostics` | the session's and the engine's mutex around the diagnostics line |
| `SleepSession` | SurfaceFlinger's side of the sleep image; extended by |
| `SleepImageManager` | the framework's manager, the power controller's guard, the provider |
| `FrontLightPolicy`, `FrontLight` | percent to codes; the manager, the control and the channels |
| `SleepImagePlanes` | the four checks on a sleep image's way, and the overlay |
| `ResampleDispatcher`, `SnapshotLeases`, `MicroDelta`, `FrameTrackers` | library policies with a state |
| `VendorPipeline` | the direct vendor path, composed with `FrameSlot` |
| `PogoConfigurator`, `WaveformCompatibility` | two set-ups that change something and may have to undo it |
| `PixelPolicies` | gray conversion, rotation, tones, delta, fidelity and rows, as operators with reference definitions |
| `Neo2Eink` | the Neo 2 build from the composition thread to the engine |
| `Library` | the nine stand-alone components with a state, and the pixel arithmetic, composed so that one of them runs in each behaviour |
| `...Proofs` | theorems about a module and their proofs; `StandaloneProofs` has those about `Library` and `FrontLight` |
| `MC...` | instances for TLC |

### FrameSlot and PresentationAdapter

`pending` is `impl_->pending`; a frame is its identity in order of acceptance,
its sleep epoch (0 for an ordinary frame) and its diagnostic request (0 for
none). One action is one hold of the adapter's mutex: `Enqueue`, the two
cancellations, `StopBegin`; in the worker, `WorkerWait` (predicate false, block),
`WorkerDefer` (too early, wait until eligible), `WorkerTake`, `WorkerRecord`,
`WorkerObserve`. `notify_one` comes after the unlock and is an action of its own
(`Notify`, `StopNotify`); `SignalReaches` keeps a signal only if the worker is
blocked, as a condition variable does, and `WorkerWake` covers signal, timeout
and spurious wake-up. The engine is between: `EngineAdmit`, then `EngineAccept`
or `EngineRefuse` with its own time stamp, taken before the adapter's. `Tick`
is the clock, `SetInterval` the property that both sides read separately.

`FrameSlot` has the state that a client can tell apart (`fresh`, `open`,
`closed`; the slot; the frame in the engine). `SlotState` and `SlotCall` are the
refinement mapping.

### EinkPipeline

One action is one hold of the pipeline mutex. The conversion worker holds it
several times for one capture, so `conversion.stage` says where it is between
them: `ConversionTake`, the conversion itself, `CheckGeneration`, `Evaluate`
(latch, then gate), `Route`, `EnqueueConverted`. Calls into the adapter that the code makes inside the hold
are conjuncts of the same action (`Slot!Put`, the slot's withdrawal in
`Enabling`, `ArmSleepCycle`, `DisarmSleepCycle`). Pages are model values; equal
pages have equal signatures, and a page of `DarkPages` qualifies as terminal
black. A catalog is one valid candidate per epoch; `sized` chooses whether it
fits the frame. `Lifecycle` chooses the entry points that a product uses: this
tree's binder calls `PresentSleepImage`; `ArmSleepCycle` is the older API.

The presentation property has three readers, which may each see another value:
whoever operates the device writes it at any time (`ToggleProperty`, if
`MayToggle`); the composition thread reads it once per capture (`PollProperty`),
and `polled` is what the rest of that capture goes by (`SetEnabled`,
`CaptureSkipped`, `ResetForSourceChange`, `OnCapturedComposition`); the engine
reads it again inside Submit (`EngineAdmit`, `EngineRefuse`). Four variables are
history. `newest` is the last capture that nothing has superseded: a sleep image,
a disable, a source change, a failed conversion. `panel` is the last frame the
engine accepted, `refused` a later one that it refused since the last change of
`enabled`; `Offered` is the later of the two. `displaced` says that a presented
sleep image took the slot from the frame with the newest diagnostic request.

### CaptureSession

`composer` is where `CaptureM3` is: each stage lies between two pieces of shared state it
reads or writes. A `copy` is a page with the lease on its slot; `Places` are the
places where it may be. The lease moves with it from composer to `pending`,
`worker` (which drops a page equal to the last one it passed on), and on a color
panel on to `retained` and `engine`; a monochrome frame gives it up when it is
assembled. Destroying a lease takes three
steps in the thread that does it: `ReleaseSlot`, `OnResourceReleased`,
`RequestComposite` (or `RequestRefused` and `Cancel`), with `release[t].locked`
saying that the thread still holds the pipeline mutex (and the worker the
adapter's too). Pipeline and adapter are reduced to where a copy is. Time is the
adapter's next output slot: none, closed, within the late-sample window, elapsed.
`Upsets` names what may go wrong.

### LowerEngine

`pc` is the place in `Submit`, which holds the backend's mutex throughout while
the engine, the clock, the properties and the three process-wide settings move
on: `planes` (validation, the process-wide words are read), `white`, `map` (the
target is mapped while the white is under way), `gap`, `whiteGuard`, `target`,
`targetGuard`, `finish`. `stage` is the initialisation's. The vendor engine is
external: `engine.last` the image handed over last, `shown` the one it started
last, `submitted` and `displaying` its markers, which wrap at `MarkerMax`;
`EngineStart` starts the latest image and thereby merges away any it skipped.
`waited` is the time since the image the guard looks at was handed over.

### SessionControls and SessionDiagnostics

`g_fresh_snapshot_session_mutex` and the sleep-image service's `g_session_mutex`
are held for a whole call, so `call` and `sleepCall` are those calls;
`registered` says which of the two globals still names the session. `main` is
`MaybeStartM3` between its holds of the mutex (set-up, publish, replay, start),
`pipeline` how far the pipeline has come, `carried` the composition thread's
local copy of the retained catalog. A capture ends in one of four ways:
`CaptureDisarmed` (the property is off, `SetEnabled(false)` withdraws the
refresh), `CaptureSwitched` (the source changed), `CaptureSkipped` (budget,
admission, a full pool or a failed copy: no copy is made) and `CaptureM3` (a copy
is made). `work` is the conversion between its holds of the pipeline mutex
(`current` while no sleep image or source change has made it stale), `queued` the
refresh on the frame in the adapter's slot, `engine` the one inside Submit with
the settings read there. `PresentSleepImage` takes the slot and the waiting
capture and leaves `refresh_id` and `refresh_busy` as they are. A refresh is
stamped with the `version` of the settings; `receipt` is what has become of it:
admitted, answered "queued", passed over (its composition gave no copy, so that
it waits for the next one that does), redrawn, or dropped. `SessionDiagnostics` has the
session's and the engine's mutex alone: who holds which while a Submit lasts.

### SleepSession and SleepImageManager

Every manager action is one hold of `mStateLock`. A generation is only ever
compared with the latest, so a request and an answer carry `current`, which
every event that increments `mRequestGeneration` clears. Between display
controller (`target`, `reported`, `powerOffPending`) and manager lie the guard's
settling delay and the display listener, which may lag (`PromptListener =
FALSE`) and thereby miss a short sleep. The provider answers one-way requests or
dies; the system server may restart, with SurfaceFlinger's catalog and cycle left
as they were. A death of SurfaceFlinger is not modelled. `SleepSession` is the Binder
service, the session's retained catalog, `MaybeStartM3`'s replay and what of the
pipeline those calls meet.

### FrontLightPolicy and FrontLight

`SubmitBegin` stamps a request with a new generation in a Binder thread and
`SubmitPost` posts it; one handler thread does the rest, and calls
SurfaceFlinger while further requests are stamped. `Apply` writes the channels
in the code's order; a write that fails leaves those before it changed and
blocks further writes for the life of the process. A power or code is a small
integer; shares of power are compared as fractions where the code rounds doubles.

### The library

`Library` runs one of ten parts in each behaviour, so that their state spaces
add up; what each part needs to know of its parameters is in `LibraryAssumption`.
`Request` of `ResampleDispatcher` is three steps because the task is posted
outside the mutex; `SnapshotLeases` lets clients present any lease they
ever had; `VendorPipeline` has the owner's calls, two workers and the one-shot
gate; `WaveformCompatibility` takes every relocation image the checks can tell
apart as an input; `SleepImagePlanes` publishes catalogs with at most one fault
and presents them over whatever the panel accepted. `PixelPolicies` states the
code's arithmetic and, beside it, what it should compute; `Library` takes its
inputs from a constant, of which it assumes no more than that a colour is three
bytes and that a frame has a byte for every place. The samples of `MCLibrary` are
channel values on both sides of every threshold, images up to 4 by 4 and all
changes of small gray images.

### Neo2Eink

A capture decides in one step and a returned lease reaches the resample policy
in the same step; what the detailed modules look into is left to them, and the
question is what the parts do together: session set-up and replay, pool,
pending capture, worker, gate, sleep cycle, adapter with its window, engine with
its own spacing and budget. This tree has no diagnostic refresh and no colour
panel, so a lease goes back as soon as its copy is converted.

## 3. The runs

| run | checks | instance |
|---|---|---|
| `adapter` | `Accounting`, `NewestCandidate`, `SleepImageNeverFlashed`, `QuietAfterStop`, refinement `SlotSpec`, liveness `NoWakeUpLost` | two callers, two frames, the interval changing between 1 and 2 ticks, a refusing engine, Stop |
| `pipeline_sleep` | `ConsumedHoldsCaptures`, `SleepFrameBelongsToCycle`, `RestAgrees`, `BackgroundWasShown` | two pages, three captures, two epochs, both modes, a source change, failing conversions, skipped captures, the property written at any time; symmetric in the pages |
| `pipeline_refresh` | `RefreshAccounted`, liveness `StopCompletes` | presented and armed cycles over one dark page, one epoch, two captures, two requests, the property written at any time, failing conversions, Stop |
| `capture` | `OneLeasePerSlot`, `AccountsSettle`, liveness `DeferredIsRetried` | two slots, four compositions, color panel; copies, conversions and requests fail, the source switches, the composition thread stalls |
| `lower_engine` | `WhiteShownBeforeTarget`, `NoLoneWhite`, `HistoryIsLastTarget`, liveness `SubmitReturns` | color panel, two images in four kinds, three submissions of limit two, markers up to 6 starting at 2 or 4, every failure, one change of the settings |
| `sleep_manager` | `ActiveIsOwed`, action `ShownIsRetained`, liveness `CatalogRenewed`, `WakeReleasesPanel` | three modes, two store generations, two screen-offs, one upset: a lost or refused answer, a death, a restart, a mode or property change |
| `frontlight` | `LightMatches`, action `LitOnlyAwake`, liveness `WakeRestores` | four boards: calibrated without a secondary channel, calibrated with a forbidden one, direct, malformed; two requests, one sleep, one failed write or restart |
| `session_controls` | `CallsUseLiveSession`, `CatalogAgrees`, liveness `QueuedIsRedrawn` | one session, two catalogs, two settings, two refreshes; captures of either geometry that are skipped, switched, disarmed or copied, failing conversions, sleep images, a refusing engine |
| `library` | `AdmittedOnce`, `VendorPipelineSettles`, `FailureIsReported`, `HeldWithinBound`, `AcceptedImageIsPresentable`, `PixelsAgree`, action `StaleIsRecognised`, liveness `DiagnosticsProgress` | see `MCLibrary` |
| `neo2` | `CatalogsAgree`, action `EngineKeepsPace`, liveness `NewestReachesPanel` | two slots, two pages, two epochs, two intervals, budget two, one incident of any kind |
| `pipeline_sleep_held` | `SleepImageHeld`: violated | one capture, one epoch |
| `lower_engine_guard` | `StartedWhiteIsFollowed`: violated | an interval as long as the guard's timeout |

A name that joins several statements (`Accounting`, `RestAgrees`,
`RefreshAccounted`, `AccountsSettle`, the ones of `Library`) is a conjunction of
named parts, each with its own comment in the module it is about. Every
property has one definition of the code whose plausible mistake breaks it; these
mistakes stand beside the definitions, marked as such, and no action uses them.

**Bounds.** `MaxFrames`, `MaxCaptures`, `MaxCompositions`, `MaxEpoch`,
`MaxRefresh`, `MaxResets`, `MaxSubmissions`, `MaxChanges`, `MaxStore`, `MaxOffs`,
`MaxUpsets`, `MaxRequests`, `MaxVersion`, `MaxSessions`, `MaxIncidents` limit only
how often outsiders act (`MaxCaptures` of the pipeline also counts the captures a
source change discards); `MaxTime` stops the adapter's clock. Queues and pool
have their real size (one, one, two). Two frames are the least of which one is in
the engine and one pending, and the second displaces the first when it is still
there. Four compositions are the least that fill the pool (one copy in
conversion, one waiting), find it full and come again. Two epochs let a cycle
meet what the last one left. Two images and three submissions with a limit of
two are the least for a pair followed by a frame the limit refuses; markers up
to 6 let a pair begin just below the wrap. One upset at every point of a
manager's run is every single failure; two failures together are not explored.
In `Neo2Eink` one incident is one property write, one switched source, one failed
copy, conversion or update, or one composition of an unchanged screen, which with
the two pages is the third capture that finds the pool full. Deadlock is not
checked: with the outsiders' bounds used up, the system may rest.

**Fairness.** Weak fairness of each thread that is running: the adapter's
worker, the engine's answer (a vendor call that returns), the clock, a caller
between unlock and notify, `Stop` once begun, the conversion worker, the
composition thread inside a capture, a thread inside a destructor, the worker
inside `Submit`, the handler threads of the system server, and SurfaceFlinger drawing a composition it accepted a
request for (that the composition leads to a copy is not assumed). `SubmitReturns`
assumes no fairness of the engine's starts: Submit has its own timeout.
`CatalogRenewed` assumes that a bound provider is started and answers, with any
of its results. `DiagnosticsProgress` has strong fairness for the two threads
that compete for a mutex which is free again and again: a mutex that starves
nobody for ever, which Linux gives in practice and POSIX does not promise. No
fairness for outsiders: nobody has to compose, enqueue, sleep, wake, gesture,
write a property or stop.

## 4. What is proved

Every invariant and every action property of the runs that hold is a theorem,
and so is the refinement: for every number of callers, frames, pages, epochs,
slots, images, requests and sessions, from the assumptions on the constants that
the modules declare, and four of them from a hypothesis which the table names.

| theorem | statement | invariant it rests on |
|---|---|---|
| `PresentationAdapterProofs!FramesInOrder` | `Spec => []NewestCandidate` | `IInv` |
| `SleepImagesKeepQuiet`, `StopIsFinal`, `TypeCorrect` | `[]SleepImageNeverFlashed`, `[]QuietAfterStop`, `[]TypeOK` | `IInv` |
| `CountersAddUp` | `[]Accounting` | `AccountingInv`, `IInv` |
| `Refinement` | `Spec => SlotSpec` | `IInv` |
| `EinkPipelineProofs!TypeCorrect` | `[]TypeOK` | itself, in five groups of variables |
| `CapturesAreHeld`, `NoCoverLeftBehind` | `[]ConsumedHoldsCaptures`, `[]SleepFrameBelongsToCycle`, if `"arm" \notin Lifecycle` | `BinderInv` |
| `RestIsConsistent` | `[]RestAgrees`, if `"arm" \notin Lifecycle` | `RestInv`, `BinderInv` |
| `BackgroundIsLastShown` | `[]BackgroundWasShown` | `BackgroundInv` |
| `RefreshIsAccounted` | `[]RefreshAccounted` | `RefreshInv` |
| `LowerEngineProofs!NoWhiteLeftBehind` | `[]NoLoneWhite` | `WhiteInv` |
| `HistoryIsAccepted` | `[]HistoryIsLastTarget` | `HistoryInv` |
| `TargetFollowsItsWhite` | `[]WhiteShownBeforeTarget`, if `MarkersSuffice` | `MarkerInv`, `PairInv` |
| `CaptureSessionProofs!AccountsAlwaysSettle` | `[]AccountsSettle` | `AccountsInv` |
| `TypesAlwaysOK` | `[]TypeOK` | `TypesInv` |
| `SlotsHaveOneLease` | `[]OneLeasePerSlot` | `TypesInv`, `LeasesOK` |
| `SessionControlsProofs!NoCallInDyingSession` | `[]CallsUseLiveSession` | `RegisteredInv` |
| `PipelineHasTheCatalog` | `[]CatalogAgrees` | `CatalogInv` |
| `SleepImageManagerProofs!CyclesAreOwed` | `[]ActiveIsOwed` | `OwedInv` |
| `RetainedIsShown` | `Spec => ShownIsRetained` | `CatalogsInv` |
| `StandaloneProofs!EveryRequestEndsOnce` | `[]AdmittedOnce` | `DispatcherInv` |
| `VendorTriedOnce` | `[]VendorPipelineSettles` | `AttemptInv`, `StopInv` |
| `FailuresAreReported` | `[]FailureIsReported` | `PogoInv`, `WaveInv` |
| `HoldingEnds` | `[]HeldWithinBound` | `HeldInv` |
| `StaleIsTold` | `LibrarySpec => StaleIsRecognised` | `LeasesTypeOK`, `KeptInv` |
| `AcceptedIsPresented` | `[]AcceptedImageIsPresentable` | `PlanesInv` |
| `TonesAlwaysAgree`, `ChangeIsExact`, `ArithmeticIsRight` | `TonesAgree` of every block, `DeltaIsExact` of every pair of frames; `[]PixelsAgree` | lemmas on the arithmetic |
| `LightsAreRight`, `NothingLitAsleep` | `[]LightMatches`, `Spec => LitOnlyAwake` | `TypeOK`, `LightInv` |
| `Neo2EinkProofs!ReplayLosesNoCatalog` | `[]CatalogsAgree` | `CatalogInv` |
| `EngineFollowsAdapter` | `Spec => EngineKeepsPace` | `PaceInv` |

* **Adapter.** `TypeOK` alone is not inductive: that the worker holds a frame
  exactly during a submission needs that only the worker changes it and that
  Stop joins. `ThreadInv` says when worker and stopper exist; `SubmissionInv`
  that a worker outside a submission has forgotten the last one and that what
  Stop cleared stays clear; `OrderInv` that nothing was handed over that was not
  accepted. The counters need one fact more: that the slot is occupied is too
  little to bound the deferrals after the next one; the trailing mark is what
  stands for a deferral until the frame is submitted or withdrawn
  (`DeferralsMarked`). For the refinement each
  action maps to one action of `FrameSlot` or leaves its variables alone.
* **Pipeline.** A capture held back by a cycle is one whose generation is older,
  so `BinderInv` carries that a converting capture's generation never exceeds
  the current one; a cover in the slot belongs to the active epoch because the
  latch is consumed exactly while there is one. With the arm lifecycle the
  worker may enqueue a cover after the cycle it decided for was disarmed, which
  is why the theorems exclude it. `RefreshInv` follows one request, for
  every lifecycle, through `refresh_id`, slot and engine; the only step that makes
  it vanish with the busy mark standing is a presented sleep image that takes the
  slot, and that step is remembered in `displaced` (section 5).
* **What the panel shows at rest.** `BackgroundInv` keeps captures in the order of
  their sequence through conversion, slot and engine, so that the background is
  behind the panel by at most the frame whose observer has not run. `RestInv` is
  the claim about rest extended to every moment before it: the gate remembers
  what is on its way or on the panel (`GateInv`), and the newest page is pending,
  converting, or what that last frame shows, and is not skipped as unchanged
  (`NewestInv`). "That last frame" is the last the engine was offered: a frame it
  refuses, because the property went off after the capture that read it, is still
  what the gate remembers, and the claim is that gate and offer never disagree
  however the property is written. That a refused page may stay off the panel is
  said in section 5. The exclusion of the arm lifecycle is needed, and TLC finds
  the behaviour: a disarm while the conversion of an unchanged dark page is between
  its two holds of the mutex loses that page until the next change.
* **Lower engine.** `WhiteInv` ties the last image to the place in `Submit`:
  every way out between white and target poisons. `MarkerInv` bounds how far the
  engine is behind, counted across a wrap of the markers (`Behind`), by the update
  calls made. So under `MarkersSuffice` (no more update calls than there are
  markers) the white's marker is never the one the engine is displaying already,
  and "displaying equals the white's marker" means the white was started and not
  an image a whole turn before it: `PairInv`. The markers may start anywhere and
  wrap: before the wrap `CanTrackNextEngineMarker` refuses a pair, after it the
  comparison is of equal turns. Without the bound the claim is false of the code:
  an engine that left 2^32 - 1 single images unstarted would pass the guard of the
  next white at once, and the target could replace it unseen.
* **Captures.** Each account has its own step lemma: what is opened and not yet
  closed is read off the composer's stage. The leases are tied to the slots from
  both sides: two places hold different slots (`Apart`), what a place holds is
  busy in the same generation (`HeldInUse`), and what is busy is held somewhere
  (`InUseHeld`). A step either moves leases between places, which `LeasesMoved`
  covers with a permutation, or takes or frees one slot.
* **Sessions.** A call is in a live session because the destructor can only
  leave a global while no call holds its mutex; the replay loses nothing because
  the local copy is never newer than the session's epoch and the pipeline
  refuses an older one (`CatalogInv`, in both trees).
* **Manager.** Every path that clears `mScreenOff` withdraws, and what is
  published under the manager's newest epoch is what it retains, wherever on its
  way to the pipeline it is.
* **Front light.** The lights match once the handler rests, so the invariant says
  what they are on the way: state is loaded by the first message and no other
  (`LoadInv`); a request that nothing has superseded asks for darkness with a
  reason that still stands, or for the desired state, awake and with nothing left
  to restore (`PendingInv`), and its drain is scheduled (`DrainInv`); an off that
  is answered or awaited has darkened the board (`DarkInv`); and unless something
  is coming that will set them again, the lights are right (`MatchInv`). A failed
  write blocks the channels for the life of the process: `LightMatches` is about
  a process without one, `LitOnlyAwake` about every process.
* **The library.** `PartsRun` shows that each component behaves as its own
  specification says, so that each theorem is about that component alone.
  The vendor path's Stop leaves no lease because none of the places it empties
  fills again: captures are taken only before it, the worker is joined, and the
  closed adapter hands nothing over (`StopInv`). A change held back always has a
  deadline, at most one repeat window and one settle time after it was first held
  (`HeldInv`). The trackers need `Modulus > 2`, as 32-bit generations have: a
  generation skips zero, and with two values it would not change.
* **Arithmetic.** That a rectangle or a block is treated right is proved for every
  size. The pass that measures a change is a fold; it is solved explicitly (what
  has been measured after a set of places is the cardinalities and the bounds of
  the changed ones), the solution is shown to satisfy the fold's recursion, and any
  other solution would differ from it first at a least prefix. `LeastExists` is
  the form of induction used here: the library's induction theorems, which take
  a predicate, cannot be instantiated by the installed provers.
* **Pacing.** The engine's time stamp is taken before the adapter's, so its
  spacing is at least the adapter's window (`PaceInv`), whatever the interval is.

Only model-checked: liveness, for which the prover has no rules about fairness:
`NoWakeUpLost`, `StopCompletes`, `DeferredIsRetried`, `SubmitReturns`,
`CatalogRenewed`, `WakeReleasesPanel`, `WakeRestores`, `QueuedIsRedrawn`,
`DiagnosticsProgress` and `NewestReachesPanel`. The type invariants of
`LowerEngine`, `SleepImageManager` and `SessionControls` document the state and
hold on the instances above; no run lists them, and the theorems carry the parts
of them that they need.

## 5. What the checks showed

* **A sleep image can be overwritten** (`SleepImageHeld`). The conversion checks
  its generation, releases the mutex, and enqueues in a later hold without
  looking again. A capture that has passed the check when `PresentSleepImage` runs
  follows the sleep image onto the panel, and captures are then held until wake.
* **A gap as long as the guard's timeout** (`StartedWhiteIsFollowed`). With the
  interval property at its upper clamp, `Submit` sleeps 5000 ms after the white
  and then asks the guard, which counts the same 5000 ms from the white and
  times out before it looks whether the image started: each pair poisons the
  backend.

Observed while modelling, kept in words; the properties are stated so that they
hold of the code as it is:

* *Pipeline, diagnostic refresh.* `PresentSleepImage` takes the slot from a frame
  that carries a diagnostic request and leaves `refresh_busy` set
  (`android_eink_pipeline.cpp:326-438`); `DisarmSleepCycle` does not clear it. Every
  later refresh is refused, with a message that offers "pending" among its reasons
  (`render_surface_capture_session.cpp:533`) although nothing is, until the pipeline is disabled.
  `BusyIsExplained` names this case and shows there is no other.
* *Pipeline, property.* A page is captured; the property goes off before its Submit,
  which refuses it (`lower_engine_direct_backend.cpp:562`); the property is on again
  when the next capture polls it. `SetEnabled` sees no change, the gate keeps the
  refused page as its baseline, and the page is not shown until the content
  changes. The reset of the gate (`android_eink_pipeline.cpp:229-232`) covers only
  an off that a capture has read. If no further capture comes at all, the page is
  offered once and not again. `RestAgrees` says what is left: the engine was
  offered it.
* *Pipeline, background and cover.* The observer of a page submitted before
  `DisarmSleepCycle` retains it after the release. An overlay presented between the
  engine's acceptance and the observer is composed over the previous page. With
  `ArmSleepCycle`, a conversion that has been told to replace its page enqueues the
  cover even if its cycle was disarmed meanwhile, and a new diagnostic request may
  ride on it; nothing in this tree calls it.
* *Captures.* An obligation can be made for a pool that has just become empty;
  then only a later copy's lease dispatches it. A capture that sees a source
  switch uses up the composition a resample asked for. A direct source without
  output ends its attempt uncounted. Admission skips compositions while any copy
  is on its way, and nobody asks for the skipped one again.
* *Session.* A refresh whose composition is skipped, because a candidate is already
  retained, the pool is full or a copy fails, is not asked for again: it goes with
  the next composition that is copied. After another geometry has closed the gate, a refresh is still
  answered "queued" and never made. A request whose composition is refused is
  reported withdrawn although the worker may have taken it. A second display's
  session overwrites the first one's global. The destructor may wait long behind
  sleep calls. The dirty flag of the diagnostics line may be lost; the five-second
  interval repairs it. `Stop` drops the pool before it stops the pipeline.
* *Sleep manager.* An abandoned power-off withdraws its request once
  (`base.patch:361-371`): the screen-on call to SurfaceFlinger is sent a single
  time, and the flags are cleared whether or not it arrived. The model lets every
  such call arrive. A change of mode drops the retained catalog in the manager
  but not the one SurfaceFlinger holds, so until the provider has answered a
  sleep may show an image of the old mode; `ShownIsRetained` therefore speaks of
  a retained catalog only.
* *Front light.* A brightness of 1 percent, or a low calibrated one, may be
  answered "applied" with both codes dark. A failed OFF leaves the light lit and
  blocks further writes. The calibrated sum may exceed the cap by half a step. A
  gesture that a newer one supersedes before it is handled is not committed
  (`ANDROID14.md:65` reads otherwise).
* *Library.* A dispatcher request coalesced onto one whose post is refused is
  lost silently, and its action may run after `Stop` returned. The vendor
  pipeline's `SetEnabled(false)` keeps the pending capture, and `Start` sets its
  flag before the worker exists. A failed second `mprotect` leaves the slot
  replaced on a writable page. The keypad's rollback may be incomplete, and says
  so. Equivalent micro-changes may drift without bound, within the time bound.
* *Neo 2.* A refused frame stays the baseline until the next reset.
  `PresentSleepImage` may answer accepted although the spent budget makes the
  engine refuse it.

## 6. Not modelled

* `ArmSleepCycle` outside `EinkPipeline`; the expiry of an obligation, which
  selects one of two counters; `Diagnostics` counters that no property relates;
  the debug-build quality gaps; logging and the layout of the diagnostics line;
  the parcels of the Binder services and the check of the caller's identity.
* Lifetimes of objects and memory: who holds a lease is modelled, the pool's
  destruction is not.
* An engine that is a whole turn of its 32-bit markers behind (`MarkersSuffice`).
* The JPEG import, image store and activities of `src/android/ink-controls`:
  user interface and files, outside the display path.
* A death of SurfaceFlinger: capture side, pipeline and sleep cycle begin anew with
  its process, and how the manager learns of it is left out.
* `src/core` (the same policies under another namespace), the Neo 2 tree's
  `Stop`, front light and diagnostics, and the scripts in `src/tools`.
* Two or more independent failures in one behaviour of the manager and the
  front light.

## 7. Where to go on

`RestAgrees` promises that the newest page is offered; a pipeline that reset its
gate when the engine refuses a frame could be shown to bring it to the panel, and
one that cleared its busy mark with the displaced frame would need no `displaced`.
The capture session's pool and `SnapshotLeases` state the same promise
twice; a refinement would state it once. The safety part of the liveness
properties (what a waiting thread waits for, and that it is there) can be proved
as invariants although the eventual step cannot. The image store's order of
replacement, manifest and deletion would be the next module.
