------------------------------ MODULE Library -------------------------------
(***************************************************************************)
(* The components that stand alone, one per behaviour: the first step      *)
(* chooses which of them runs, the others stay as they were initialized.   *)
(* Their state spaces add up instead of multiplying, and each behaviour of *)
(* the library is one of the component that runs in it.                    *)
(***************************************************************************)
EXTENDS Integers, FiniteSets, Sequences

CONSTANTS
  Workers, MaxAsked,                            \* ResampleDispatcher
  Slots, Clients, MaxGeneration,                \* SnapshotLeases
  MaxCaptures,                                  \* VendorPipeline
  Keys, F5, F6,                                 \* PogoConfigurator
  Libc, Scalar, Other, MaxInstalls,             \* WaveformCompatibility
  Places, MoveLimit, Settle, Repeat, MaxNow,    \* MicroDelta
  Geometries, Contents, Blank, Modulus,         \* FrameTrackers
  Levels, Dense, Alphas, MaxEntries, MaxSequence, \* SleepImagePlanes
  MaxCatalogs, MaxSubmissions,                  \* SessionDiagnostics
  Samples                                       \* inputs of the pixel arithmetic

\* A generation skips zero and must differ from the next; a place on the edge is
\* a coordinate; gray and alpha are bytes; the vendor library's functions are
\* distinct; a frame has a geometry.
ASSUME LibraryAssumption ==
  /\ {MaxCaptures, MoveLimit, Settle, Repeat, MaxNow, MaxEntries} \subseteq Nat
  /\ {F5, F6} \subseteq Keys
  /\ Scalar \notin {Libc, Other}
  /\ Places \subseteq Nat
  /\ "none" \notin Geometries /\ Modulus \in Nat /\ Modulus > 2
  /\ Levels \cup {Dense} \subseteq 0..255 /\ Alphas \subseteq 0..255

VARIABLES part,
  stopped, outstanding, sequence, counts, asking, tasks, acting,
  slots, dropCount, leases, presented,
  owner, pipe, worker, captured, adapter, slot, call, gate, attempt, sync,
  selector, pogo, original, verified, pogoResult,
  image, slotValue, page, installs, outcome,
  now, signature, microDeadline, deferred, repeatGuard, waitingSince,
  kept, generation, signatures, shown,
  main, fresh, counted, dirty, elapsed, copied, submitting, submissions, snapshot, answer,
  profile, catalog, background, planePresented,
  sample   \* an input of the pixel arithmetic

NoFrame == [sequence |-> 0]

Dispatcher == INSTANCE ResampleDispatcher WITH MaxRequests <- MaxAsked
Leases == INSTANCE SnapshotLeases
Vendor == INSTANCE VendorPipeline
Pogo == INSTANCE PogoConfigurator
Wave == INSTANCE WaveformCompatibility
Micro == INSTANCE MicroDelta
Trackers == INSTANCE FrameTrackers
Planes == INSTANCE SleepImagePlanes WITH presented <- planePresented
Diagnostics == INSTANCE SessionDiagnostics
Pixel == INSTANCE PixelPolicies

\* A block has a pixel of three bytes; a gray frame has a byte for every place.
IsInput(s) ==
  \/ s.kind = "tone" /\ DOMAIN s.block # {} /\ s.block \in [DOMAIN s.block -> Pixel!Colour]
  \/ s.kind = "sides" /\ {s.w, s.h} \subseteq Nat /\ s.rotation \in Pixel!Rotations
  \/ s.kind = "delta" /\ {s.w, s.h} \subseteq Nat
                      /\ {s.previous, s.current} \subseteq Pixel!Frames(s.w, s.h)

ASSUME SamplesAssumption == \A s \in Samples : IsInput(s)

Parts == {"dispatcher", "leases", "vendor", "pogo", "wave", "micro", "trackers", "planes",
          "diagnostics", "pixels"}

NoSample == [kind |-> "none"]
ChooseSample == sample = NoSample /\ sample' \in Samples

dispatcherState == <<stopped, outstanding, sequence, counts, asking, tasks, acting>>
leaseState == <<slots, dropCount, leases, presented>>
vendorState == <<owner, pipe, worker, captured, adapter, slot, call, gate, attempt, sync>>
pogoState == <<selector, pogo, original, verified, pogoResult>>
waveState == <<image, slotValue, page, installs, outcome>>
microState == <<now, signature, microDeadline, deferred, repeatGuard, waitingSince>>
trackerState == <<kept, generation, signatures, shown>>
planeState == <<profile, catalog, background, planePresented>>
diagnosticsState == <<main, fresh, counted, dirty, elapsed, copied, submitting, submissions,
                      snapshot, answer>>
libraryVars == <<part, dispatcherState, leaseState, vendorState, pogoState, waveState,
                 microState, trackerState, planeState, diagnosticsState, sample>>

LibraryInit ==
  /\ part \in Parts
  /\ Dispatcher!Init /\ Leases!Init /\ Vendor!Init /\ Pogo!Init /\ Wave!Init /\ Micro!Init
  /\ Trackers!Init /\ Planes!Init /\ Diagnostics!Init /\ sample = NoSample

\* The rest of the library stands still.
Only(mine) ==
  /\ part = mine /\ UNCHANGED part
  /\ mine = "dispatcher" \/ UNCHANGED dispatcherState
  /\ mine = "leases" \/ UNCHANGED leaseState
  /\ mine = "vendor" \/ UNCHANGED vendorState
  /\ mine = "pogo" \/ UNCHANGED pogoState
  /\ mine = "wave" \/ UNCHANGED waveState
  /\ mine = "micro" \/ UNCHANGED microState
  /\ mine = "trackers" \/ UNCHANGED trackerState
  /\ mine = "planes" \/ UNCHANGED planeState
  /\ mine = "diagnostics" \/ UNCHANGED diagnosticsState
  /\ mine = "pixels" \/ UNCHANGED sample

LibraryNext ==
  \/ Only("dispatcher") /\ Dispatcher!Next
  \/ Only("leases") /\ Leases!Next
  \/ Only("vendor") /\ Vendor!Next
  \/ Only("pogo") /\ Pogo!Next
  \/ Only("wave") /\ Wave!Next
  \/ Only("micro") /\ Micro!Next
  \/ Only("trackers") /\ Trackers!Next
  \/ Only("planes") /\ Planes!Next
  \/ Only("diagnostics") /\ Diagnostics!Next
  \/ Only("pixels") /\ ChooseSample

\* The threads that take the two mutexes of the diagnostics go on when the one
\* they wait for is free often enough, a Submit ends, and time passes; nothing
\* obliges a screen to change or a caller to ask.
LibraryFairness ==
  /\ SF_libraryVars(Only("diagnostics") /\ Diagnostics!Logging)
  /\ SF_libraryVars(Only("diagnostics") /\ Diagnostics!Asking)
  /\ WF_libraryVars(Only("diagnostics") /\ Diagnostics!SubmitEnd)
  /\ WF_libraryVars(Only("diagnostics") /\ Diagnostics!IntervalElapses)

LibrarySpec == LibraryInit /\ [][LibraryNext]_libraryVars /\ LibraryFairness

-----------------------------------------------------------------------------
\* A request is admitted once, whoever asks (ResampleDispatcher).
AdmittedOnce == Dispatcher!AdmittedOnce

\* The vendor's controller is tried once, and a Stop has returned every lease
\* (VendorPipeline).
VendorPipelineSettles == Vendor!OneVendorAttempt /\ Vendor!StopReturnsLeases

\* When one step of several fails, what is reported is what was left behind:
\* the pogo driver's keys and the patched function (PogoConfigurator,
\* WaveformCompatibility).
FailureIsReported == Pogo!ReportMatchesDriver /\ Wave!OnlyStrncpyReplaced

\* Small changes are held back for a bounded time (MicroDelta).
HeldWithinBound == Micro!HeldWithinBound

\* What is stale is told from what is current: a lease of an older generation
\* and a frame seen before (SnapshotLeases, FrameTrackers).
StaleIsRecognised == Leases!OnlyHolderMoves /\ Trackers!SignatureTellsFrames

\* A sleep image the catalog took can be presented (SleepImagePlanes).
AcceptedImageIsPresentable == Planes!AcceptedImageIsPresentable

\* The two mutexes of the diagnostics hold nobody for ever, and the cached line
\* catches up (SessionDiagnostics).
DiagnosticsProgress == Diagnostics!NobodyWaitsForEver /\ Diagnostics!SnapshotCatchesUp

\* The colour treatments agree on every sampled block, and rotated damage, the
\* row layout of the controller and the measured change hold exactly the pixels
\* they should (PixelPolicies).
PixelsAgree ==
  /\ sample.kind = "tone" => Pixel!TonesAgree(sample.block)
  /\ sample.kind = "sides" =>
       /\ Pixel!DamageFollowsPixels(sample.w, sample.h, sample.rotation)
       /\ Pixel!InterleaveLosesNothing(sample.w, sample.h)
  /\ sample.kind = "delta" =>
       Pixel!DeltaIsExact(sample.previous, sample.current, sample.w, sample.h)
=============================================================================
