------------------------- MODULE EinkPipelineProofs -------------------------
(***************************************************************************)
(* What EinkPipeline promises for every set of pages and every bound: what *)
(* the sleep cycle holds back and withdraws and what a pipeline at rest    *)
(* has given the engine, for the entry points binder clients use; what     *)
(* becomes of a diagnostic refresh and what an overlay is composed over,   *)
(* for every entry point; all of it with a property that may be written at *)
(* any time.                                                               *)
(***************************************************************************)
EXTENDS EinkPipeline, TLAPS

USE DEF lifeVars, captureVars, gateVars, latchVars, sleepVars, refreshVars, slotVars,
        engineVars

----------------------------------------------------------------------------
(* Types, one part of TypeOK after the other                               *)

\* The pending frame hands its diagnostic request on, and nothing else.
LEMMA CoalesceShape ==
  ASSUME NEW new \in Frames, NEW old \in Frames
  PROVE  /\ Slot!Coalesce(new, old) \in Frames
         /\ Slot!Coalesce(new, old).epoch = new.epoch
         /\ Slot!Coalesce(new, old).sequence = new.sequence
         /\ Slot!Coalesce(new, old).page = new.page
         /\ Slot!Coalesce(new, old).request \in {new.request, old.request}
         /\ new.request # 0 \/ new.epoch # 0 => Slot!Coalesce(new, old).request = new.request
         /\ new.epoch = 0 /\ new.request = 0 /\ old # NoFrame
              => Slot!Coalesce(new, old).request = old.request
BY DEF Slot!Coalesce, Frames

LEMMA WithoutRequest ==
  ASSUME NEW f \in Frames
  PROVE  /\ [f EXCEPT !.request = 0] \in Frames
         /\ [f EXCEPT !.request = 0].epoch = f.epoch
         /\ [f EXCEPT !.request = 0].sequence = f.sequence
         /\ [f EXCEPT !.request = 0].page = f.page
         /\ [f EXCEPT !.request = 0].request = 0
BY DEF Frames

LEMMA EmptyFrame ==
  /\ NoFrame \in Frames /\ NoFrame.epoch = 0 /\ NoFrame.request = 0
  /\ NoFrame.sequence = 0 /\ NoFrame.page = NoPage
BY DEF NoFrame, Frames

LEMMA FlagsKept == FlagsOK /\ [Next]_vars => FlagsOK'
<1> SUFFICES ASSUME FlagsOK, [Next]_vars
             PROVE  FlagsOK'
  OBVIOUS
<1> USE DEF FlagsOK
<1>1. CASE Caller
  <2>1. CASE Start
    BY <2>1 DEF Start
  <2>2. CASE StopBegin
    BY <2>2 DEF StopBegin
  <2>3. CASE SetEnabled
    BY <2>3 DEF SetEnabled, Enabling, Rearms
  <2>4. CASE ToggleProperty \/ PollProperty \/ CaptureSkipped
    <3>1. CASE ToggleProperty
      BY <3>1 DEF ToggleProperty
    <3>2. CASE PollProperty
      BY <3>2 DEF PollProperty
    <3>3. CASE CaptureSkipped
      BY <3>3 DEF CaptureSkipped
    <3> QED
      BY <2>4, <3>1, <3>2, <3>3
  <2>5. CASE ResetForSourceChange
    BY <2>5 DEF ResetForSourceChange
  <2>6. CASE RequestDiagnosticRefresh
    BY <2>6 DEF RequestDiagnosticRefresh
  <2>7. CASE CancelDiagnosticRefresh
    BY <2>7 DEF CancelDiagnosticRefresh
  <2>8. ASSUME NEW m \in Modes, PublishSleepImageCatalog(m) PROVE FlagsOK'
    BY <2>8 DEF PublishSleepImageCatalog
  <2>9. CASE ArmSleepCycle
    BY <2>9 DEF ArmSleepCycle
  <2>10. CASE PresentSleepImage
    BY <2>10 DEF PresentSleepImage, Superseded
  <2>11. CASE DisarmSleepCycle
    BY <2>11 DEF DisarmSleepCycle
  <2>12. ASSUME NEW page \in Contents, OnCapturedComposition(page) PROVE FlagsOK'
    BY <2>12 DEF OnCapturedComposition
  <2> QED
    BY <1>1, <2>1, <2>2, <2>3, <2>4, <2>5, <2>6, <2>7, <2>8, <2>9, <2>10, <2>11, <2>12 DEF Caller
<1>2. CASE ConversionWorker
  <2>1. CASE ConversionExit
    BY <2>1 DEF ConversionExit
  <2>2. CASE ConversionTake
    BY <2>2 DEF ConversionTake
  <2>3. CASE ConversionFails
    BY <2>3 DEF ConversionFails
  <2>4. CASE CheckGeneration
    BY <2>4 DEF CheckGeneration
  <2>5. ASSUME NEW sized \in BOOLEAN, Evaluate(sized) PROVE FlagsOK'
    BY <2>5 DEF Evaluate
  <2>6. CASE Route
    BY <2>6 DEF Route
  <2>7. CASE EnqueueConverted
    BY <2>7 DEF EnqueueConverted
  <2> QED
    BY <1>2, <2>1, <2>2, <2>3, <2>4, <2>5, <2>6, <2>7 DEF ConversionWorker
<1>3. CASE EngineWorker
  <2>1. CASE SubmitTake
    BY <2>1 DEF SubmitTake
  <2>2. CASE EngineAdmit
    BY <2>2 DEF EngineAdmit
  <2>3. CASE EngineRefuse
    BY <2>3 DEF EngineRefuse
  <2>4. CASE EngineAccept
    BY <2>4 DEF EngineAccept
  <2>5. CASE OnEngineSubmission
    BY <2>5 DEF OnEngineSubmission
  <2> QED
    BY <1>3, <2>1, <2>2, <2>3, <2>4, <2>5 DEF EngineWorker
<1>4. CASE StopAdapter
  BY <1>4 DEF StopAdapter, Slot!Close
<1>5. CASE UNCHANGED vars
  BY <1>5 DEF vars
<1> QED
  BY <1>1, <1>2, <1>3, <1>4, <1>5 DEF Next

LEMMA CountersKept == CountersOK /\ [Next]_vars => CountersOK'
<1> SUFFICES ASSUME CountersOK, [Next]_vars
             PROVE  CountersOK'
  OBVIOUS
<1> USE DEF CountersOK
<1>1. CASE Caller
  <2>1. CASE Start
    BY <2>1 DEF Start
  <2>2. CASE StopBegin
    BY <2>2 DEF StopBegin
  <2>3. CASE SetEnabled
    BY <2>3 DEF SetEnabled, Enabling, Rearms
  <2>4. CASE ToggleProperty \/ PollProperty \/ CaptureSkipped
    BY <2>4 DEF ToggleProperty, PollProperty, CaptureSkipped
  <2>5. CASE ResetForSourceChange
    BY <2>5 DEF ResetForSourceChange
  <2>6. CASE RequestDiagnosticRefresh
    BY <2>6 DEF RequestDiagnosticRefresh
  <2>7. CASE CancelDiagnosticRefresh
    BY <2>7 DEF CancelDiagnosticRefresh
  <2>8. ASSUME NEW m \in Modes, PublishSleepImageCatalog(m) PROVE CountersOK'
    BY <2>8 DEF PublishSleepImageCatalog
  <2>9. CASE ArmSleepCycle
    BY <2>9 DEF ArmSleepCycle
  <2>10. CASE PresentSleepImage
    BY <2>10 DEF PresentSleepImage, Superseded
  <2>11. CASE DisarmSleepCycle
    BY <2>11 DEF DisarmSleepCycle
  <2>12. ASSUME NEW page \in Contents, OnCapturedComposition(page) PROVE CountersOK'
    BY <2>12 DEF OnCapturedComposition
  <2> QED
    BY <1>1, <2>1, <2>2, <2>3, <2>4, <2>5, <2>6, <2>7, <2>8, <2>9, <2>10, <2>11, <2>12 DEF Caller
<1>2. CASE ConversionWorker
  <2>1. CASE ConversionExit
    BY <2>1 DEF ConversionExit
  <2>2. CASE ConversionTake
    BY <2>2 DEF ConversionTake
  <2>3. CASE ConversionFails
    BY <2>3 DEF ConversionFails
  <2>4. CASE CheckGeneration
    BY <2>4 DEF CheckGeneration
  <2>5. ASSUME NEW sized \in BOOLEAN, Evaluate(sized) PROVE CountersOK'
    BY <2>5 DEF Evaluate
  <2>6. CASE Route
    BY <2>6 DEF Route
  <2>7. CASE EnqueueConverted
    BY <2>7 DEF EnqueueConverted
  <2> QED
    BY <1>2, <2>1, <2>2, <2>3, <2>4, <2>5, <2>6, <2>7 DEF ConversionWorker
<1>3. CASE EngineWorker
  BY <1>3 DEF EngineWorker, SubmitTake, EngineAdmit, EngineRefuse, EngineAccept,
          OnEngineSubmission
<1>4. CASE StopAdapter
  BY <1>4 DEF StopAdapter, Slot!Close
<1>5. CASE UNCHANGED vars
  BY <1>5 DEF vars
<1> QED
  BY <1>1, <1>2, <1>3, <1>4, <1>5 DEF Next

LEMMA ConversionKept == ConversionOK /\ CountersOK /\ SleepOK /\ [Next]_vars => ConversionOK'
<1> SUFFICES ASSUME ConversionOK /\ CountersOK /\ SleepOK, [Next]_vars
             PROVE  ConversionOK'
  OBVIOUS
<1> USE DEF ConversionOK
<1>1. CASE Caller
  <2>1. CASE Start
    BY <2>1 DEF Start
  <2>2. CASE StopBegin
    BY <2>2 DEF StopBegin
  <2>3. CASE SetEnabled
    BY <2>3 DEF SetEnabled, Enabling, Rearms
  <2>4. CASE ToggleProperty \/ PollProperty \/ CaptureSkipped
    BY <2>4 DEF ToggleProperty, PollProperty, CaptureSkipped
  <2>5. CASE ResetForSourceChange
    BY <2>5 DEF ResetForSourceChange
  <2>6. CASE RequestDiagnosticRefresh
    BY <2>6 DEF RequestDiagnosticRefresh
  <2>7. CASE CancelDiagnosticRefresh
    BY <2>7 DEF CancelDiagnosticRefresh
  <2>8. ASSUME NEW m \in Modes, PublishSleepImageCatalog(m) PROVE ConversionOK'
    BY <2>8 DEF PublishSleepImageCatalog
  <2>9. CASE ArmSleepCycle
    BY <2>9 DEF ArmSleepCycle
  <2>10. CASE PresentSleepImage
    BY <2>10 DEF PresentSleepImage, Superseded
  <2>11. CASE DisarmSleepCycle
    BY <2>11 DEF DisarmSleepCycle
  <2>12. ASSUME NEW page \in Contents, OnCapturedComposition(page) PROVE ConversionOK'
    BY <2>12 DEF OnCapturedComposition
  <2> QED
    BY <1>1, <2>1, <2>2, <2>3, <2>4, <2>5, <2>6, <2>7, <2>8, <2>9, <2>10, <2>11, <2>12 DEF Caller
<1>2. CASE ConversionWorker
  <2>1. CASE ConversionExit
    BY <2>1 DEF ConversionExit, CountersOK, SleepOK, Resting, Stages, ContentChanged
  <2>2. CASE ConversionTake
    BY <2>2 DEF ConversionTake, CountersOK, SleepOK, Resting, Stages, ContentChanged
  <2>3. CASE ConversionFails
    BY <2>3 DEF ConversionFails, CountersOK, SleepOK, Resting, Stages, ContentChanged
  <2>4. CASE CheckGeneration
    BY <2>4 DEF CheckGeneration, CountersOK, SleepOK, Resting, Stages, ContentChanged
  <2>5. ASSUME NEW sized \in BOOLEAN, Evaluate(sized) PROVE ConversionOK'
    BY <2>5 DEF Evaluate, CountersOK, SleepOK, Resting, Stages, ContentChanged
  <2>6. CASE Route
    BY <2>6 DEF Route, CountersOK, SleepOK, Resting, Stages, ContentChanged
  <2>7. CASE EnqueueConverted
    BY <2>7 DEF EnqueueConverted, CountersOK, SleepOK, Resting, Stages, ContentChanged
  <2> QED
    BY <1>2, <2>1, <2>2, <2>3, <2>4, <2>5, <2>6, <2>7 DEF ConversionWorker
<1>3. CASE EngineWorker
  BY <1>3 DEF EngineWorker, SubmitTake, EngineAdmit, EngineRefuse, EngineAccept,
          OnEngineSubmission
<1>4. CASE StopAdapter
  BY <1>4 DEF StopAdapter, Slot!Close
<1>5. CASE UNCHANGED vars
  BY <1>5 DEF vars
<1> QED
  BY <1>1, <1>2, <1>3, <1>4, <1>5 DEF Next

LEMMA SleepKept == SleepOK /\ AdapterOK /\ [Next]_vars => SleepOK'
<1> SUFFICES ASSUME SleepOK /\ AdapterOK, [Next]_vars
             PROVE  SleepOK'
  OBVIOUS
<1> USE DEF SleepOK
<1>1. CASE Caller
  <2>1. CASE Start
    BY <2>1 DEF Start
  <2>2. CASE StopBegin
    BY <2>2 DEF StopBegin
  <2>3. CASE SetEnabled
    BY <2>3 DEF SetEnabled, Enabling, Rearms
  <2>4. CASE ToggleProperty \/ PollProperty \/ CaptureSkipped
    BY <2>4 DEF ToggleProperty, PollProperty, CaptureSkipped
  <2>5. CASE ResetForSourceChange
    BY <2>5 DEF ResetForSourceChange, NoBackground
  <2>6. CASE RequestDiagnosticRefresh
    BY <2>6 DEF RequestDiagnosticRefresh
  <2>7. CASE CancelDiagnosticRefresh
    BY <2>7 DEF CancelDiagnosticRefresh
  <2>8. ASSUME NEW m \in Modes, PublishSleepImageCatalog(m) PROVE SleepOK'
    BY <2>8, PipelineAssumption DEF PublishSleepImageCatalog
  <2>9. CASE ArmSleepCycle
    BY <2>9 DEF ArmSleepCycle
  <2>10. CASE PresentSleepImage
    BY <2>10 DEF PresentSleepImage, Superseded
  <2>11. CASE DisarmSleepCycle
    BY <2>11 DEF DisarmSleepCycle, NoBackground
  <2>12. ASSUME NEW page \in Contents, OnCapturedComposition(page) PROVE SleepOK'
    BY <2>12 DEF OnCapturedComposition
  <2> QED
    BY <1>1, <2>1, <2>2, <2>3, <2>4, <2>5, <2>6, <2>7, <2>8, <2>9, <2>10, <2>11, <2>12 DEF Caller
<1>2. CASE ConversionWorker
  <2>1. CASE ConversionExit
    BY <2>1 DEF ConversionExit
  <2>2. CASE ConversionTake
    BY <2>2 DEF ConversionTake
  <2>3. CASE ConversionFails
    BY <2>3 DEF ConversionFails
  <2>4. CASE CheckGeneration
    BY <2>4 DEF CheckGeneration
  <2>5. ASSUME NEW sized \in BOOLEAN, Evaluate(sized) PROVE SleepOK'
    BY <2>5 DEF Evaluate
  <2>6. CASE Route
    BY <2>6 DEF Route
  <2>7. CASE EnqueueConverted
    BY <2>7 DEF EnqueueConverted
  <2> QED
    BY <1>2, <2>1, <2>2, <2>3, <2>4, <2>5, <2>6, <2>7 DEF ConversionWorker
<1>3. CASE EngineWorker
  <2>1. CASE OnEngineSubmission
    <3>1. [page |-> call.frame.page, sequence |-> call.frame.sequence]
            \in [page : Contents \cup {White, NoPage}, sequence : Nat]
      BY DEF AdapterOK, Frames
    <3>2. background' \in [page : Contents \cup {White, NoPage}, sequence : Nat]
      BY <2>1, <3>1 DEF OnEngineSubmission
    <3> QED
      BY <2>1, <3>2 DEF OnEngineSubmission
  <2>2. CASE SubmitTake \/ EngineAdmit \/ EngineRefuse \/ EngineAccept
    BY <2>2 DEF SubmitTake, EngineAdmit, EngineRefuse, EngineAccept
  <2> QED
    BY <1>3, <2>1, <2>2 DEF EngineWorker
<1>4. CASE StopAdapter
  BY <1>4 DEF StopAdapter, Slot!Close
<1>5. CASE UNCHANGED vars
  BY <1>5 DEF vars
<1> QED
  BY <1>1, <1>2, <1>3, <1>4, <1>5 DEF Next

LEMMA AdapterKept == AdapterOK /\ SleepOK /\ CountersOK /\ ConversionOK /\ [Next]_vars => AdapterOK'
<1> SUFFICES ASSUME AdapterOK, SleepOK, CountersOK, ConversionOK, [Next]_vars
             PROVE  AdapterOK'
  OBVIOUS
<1> USE DEF AdapterOK
<1>1. CASE Caller
  <2>1. CASE Start
    BY <2>1 DEF Start, Slot!Open
  <2>2. CASE SetEnabled
    BY <2>2, WithoutRequest, EmptyFrame DEF SetEnabled, Enabling
  <2>3. CASE ArmSleepCycle
    BY <2>3, WithoutRequest DEF ArmSleepCycle
  <2>4. CASE PresentSleepImage
    <3> DEFINE f == [sequence |-> next_sequence, epoch |-> catalog_epoch,
                     page |-> IF mode = "overlay" THEN background.page ELSE White,
                     request |-> 0]
    <3>1. f \in Frames
      BY DEF Frames, SleepOK, CountersOK
    <3>2. slot' = Slot!Coalesce(f, slot) /\ UNCHANGED <<state, call, panel, refused>>
      BY <2>4 DEF PresentSleepImage, Slot!Put
    <3> HIDE DEF f
    <3> QED
      BY <3>1, <3>2, CoalesceShape
  <2>5. CASE DisarmSleepCycle
    BY <2>5, EmptyFrame DEF DisarmSleepCycle, AfterDisarm
  <2>6. CASE UNCHANGED <<state, slot, call, panel, refused>>
    BY <2>6
  <2> QED
    BY <1>1, <2>1, <2>2, <2>3, <2>4, <2>5, <2>6
       DEF Caller, StopBegin, ToggleProperty, PollProperty, CaptureSkipped, ResetForSourceChange, RequestDiagnosticRefresh,
           CancelDiagnosticRefresh, PublishSleepImageCatalog, OnCapturedComposition
<1>2. CASE ConversionWorker
  <2>1. CASE EnqueueConverted
    <3> DEFINE f == [sequence |-> conversion.sequence, epoch |-> conversion.replace,
                     page |-> IF conversion.replace # 0 THEN White ELSE conversion.page,
                     request |-> IF RequestStands THEN conversion.request ELSE 0]
    <3>1. f \in Frames
      BY DEF Frames, ConversionOK
    <3>2. slot' = Slot!Coalesce(f, slot) /\ UNCHANGED <<state, call, panel, refused>>
      BY <2>1 DEF EnqueueConverted, Slot!Put
    <3> HIDE DEF f
    <3> QED
      BY <3>1, <3>2, CoalesceShape
  <2>2. CASE UNCHANGED <<state, slot, call, panel, refused>>
    BY <2>2
  <2> QED
    BY <1>2, <2>1, <2>2 DEF ConversionWorker, ConversionExit, ConversionTake,
                            ConversionFails, CheckGeneration, Evaluate, Route
<1>3. CASE EngineWorker
  <2>1. CASE SubmitTake
    BY <2>1, EmptyFrame DEF SubmitTake, Slot!Take
  <2>2. CASE EngineAdmit
    BY <2>2 DEF EngineAdmit
  <2>3. CASE EngineRefuse
    BY <2>3 DEF EngineRefuse, Slot!Answer
  <2>4. CASE EngineAccept
    BY <2>4, EmptyFrame DEF EngineAccept, Slot!Answer
  <2>5. CASE OnEngineSubmission
    BY <2>5, EmptyFrame DEF OnEngineSubmission, Slot!Observe, Slot!Idle
  <2> QED
    BY <1>3, <2>1, <2>2, <2>3, <2>4, <2>5 DEF EngineWorker
<1>4. CASE StopAdapter
  BY <1>4, EmptyFrame DEF StopAdapter, Slot!Close
<1>5. CASE UNCHANGED vars
  BY <1>5 DEF vars
<1> QED
  BY <1>1, <1>2, <1>3, <1>4, <1>5 DEF Next

LEMMA TypeKept == TypeOK /\ [Next]_vars => TypeOK'
BY FlagsKept, CountersKept, ConversionKept, SleepKept, AdapterKept DEF TypeOK

LEMMA TypeInitially == Init => TypeOK
<1> SUFFICES ASSUME Init PROVE TypeOK
  OBVIOUS
<1>1. FlagsOK /\ CountersOK
  BY DEF Init, FlagsOK, CountersOK
<1>2. ConversionOK
  BY DEF Init, ConversionOK, Resting, Stages
<1>3. SleepOK
  BY DEF Init, SleepOK, NoBackground
<1>4. AdapterOK
  BY EmptyFrame DEF Init, AdapterOK, Slot!Init, Slot!Idle
<1> QED
  BY <1>1, <1>2, <1>3, <1>4 DEF TypeOK

\* Every variable keeps its type, whatever callers, workers and the property do.
THEOREM TypeCorrect == Spec => []TypeOK
BY TypeInitially, TypeKept, PTL DEF Spec

----------------------------------------------------------------------------
(* The sleep cycle as binder clients drive it.  They publish, present and  *)
(* disarm; nothing outside the tests arms a cycle ahead of its dark frame. *)

\* Without an armed cycle the latch knows two states, no converted frame is
\* replaced, and a capture under conversion never comes from a later generation.
BinderInv ==
  /\ latch_state \in {"inactive", "consumed"}
  /\ latch_state = "inactive" <=> active_epoch = 0
  /\ conversion.replace = 0
  /\ conversion.stage = "converting" => conversion.generation <= source_generation
  /\ ConsumedHoldsCaptures
  /\ SleepFrameBelongsToCycle

LEMMA BinderInvKept ==
  ASSUME "arm" \notin Lifecycle
  PROVE BinderInv /\ TypeOK /\ [Next]_vars => BinderInv'
<1> SUFFICES ASSUME BinderInv /\ TypeOK, [Next]_vars
             PROVE  BinderInv'
  OBVIOUS
<1> USE DEF TypeOK, BinderInv, ConsumedHoldsCaptures, SleepFrameBelongsToCycle
<1>1. CASE Caller
  <2>1. CASE Start
    BY <2>1 DEF Start, Slot!Open
  <2>2. CASE StopBegin
    BY <2>2 DEF StopBegin
  <2>3. CASE SetEnabled
    <3>1. slot'.epoch = slot.epoch
      BY <2>3, WithoutRequest DEF SetEnabled, Enabling, AdapterOK
    <3> QED
      BY <2>3, <3>1 DEF SetEnabled, Enabling
  <2>4. CASE ToggleProperty \/ PollProperty \/ CaptureSkipped
    BY <2>4 DEF ToggleProperty, PollProperty, CaptureSkipped
  <2>5. CASE ResetForSourceChange
    BY <2>5 DEF ResetForSourceChange, ConversionOK, CountersOK
  <2>6. CASE RequestDiagnosticRefresh
    BY <2>6 DEF RequestDiagnosticRefresh
  <2>7. CASE CancelDiagnosticRefresh
    BY <2>7 DEF CancelDiagnosticRefresh
  <2>8. ASSUME NEW m \in Modes, PublishSleepImageCatalog(m) PROVE BinderInv'
    BY <2>8 DEF PublishSleepImageCatalog
  <2>9. CASE ArmSleepCycle
    BY <2>9 DEF ArmSleepCycle
  <2>10. CASE PresentSleepImage
    <3> DEFINE f == [sequence |-> next_sequence, epoch |-> catalog_epoch,
                     page |-> IF mode = "overlay" THEN background.page ELSE White,
                     request |-> 0]
    <3>1. f \in Frames /\ f.epoch = catalog_epoch /\ f.request = 0
      BY DEF Frames, SleepOK, CountersOK
    <3>2. slot' = Slot!Coalesce(f, slot)
      BY <2>10 DEF PresentSleepImage, Slot!Put
    <3> HIDE DEF f
    <3>3. slot'.epoch = catalog_epoch
      BY <3>1, <3>2, CoalesceShape DEF AdapterOK
    <3> QED
      BY <2>10, <3>3 DEF PresentSleepImage, Superseded, LatchAccepts, ConversionOK, CountersOK
  <2>11. CASE DisarmSleepCycle
    BY <2>11, EmptyFrame DEF DisarmSleepCycle, AfterDisarm
  <2>12. ASSUME NEW page \in Contents, OnCapturedComposition(page) PROVE BinderInv'
    BY <2>12 DEF OnCapturedComposition, CaptureHeld
  <2> QED
    BY <1>1, <2>1, <2>2, <2>3, <2>4, <2>5, <2>6, <2>7, <2>8, <2>9, <2>10, <2>11, <2>12 DEF Caller
<1>2. CASE ConversionWorker
  <2>1. CASE ConversionExit
    BY <2>1 DEF ConversionExit, Resting
  <2>2. CASE ConversionTake
    BY <2>2 DEF ConversionTake, Resting, CountersOK
  <2>3. CASE ConversionFails
    BY <2>3 DEF ConversionFails, Resting
  <2>4. CASE CheckGeneration
    BY <2>4 DEF CheckGeneration, Current, Resting, ConversionOK
  <2>5. ASSUME NEW sized \in BOOLEAN, Evaluate(sized) PROVE BinderInv'
    BY <2>5 DEF Evaluate, Decision, Resting, ConversionOK
  <2>6. CASE Route
    BY <2>6 DEF Route, Resting, ConversionOK
  <2>7. CASE EnqueueConverted
    <3> DEFINE f == [sequence |-> conversion.sequence, epoch |-> conversion.replace,
                     page |-> IF conversion.replace # 0 THEN White ELSE conversion.page,
                     request |-> IF RequestStands THEN conversion.request ELSE 0]
    <3>1. /\ f \in Frames /\ f.epoch = conversion.replace
          /\ f.request = IF RequestStands THEN conversion.request ELSE 0
      BY DEF Frames, ConversionOK
    <3>2. slot' = Slot!Coalesce(f, slot)
      BY <2>7 DEF EnqueueConverted, Slot!Put
    <3> HIDE DEF f
    <3>3. slot'.epoch = 0
      BY <3>1, <3>2, CoalesceShape DEF AdapterOK
    <3> QED
      BY <2>7, <3>3 DEF EnqueueConverted, Resting
  <2> QED
    BY <1>2, <2>1, <2>2, <2>3, <2>4, <2>5, <2>6, <2>7 DEF ConversionWorker
<1>3. CASE EngineWorker
  <2>1. CASE SubmitTake
    BY <2>1, EmptyFrame DEF SubmitTake, Slot!Take
  <2>2. CASE EngineAdmit
    BY <2>2 DEF EngineAdmit
  <2>3. CASE EngineRefuse
    BY <2>3 DEF EngineRefuse, Slot!Answer
  <2>4. CASE EngineAccept
    BY <2>4 DEF EngineAccept, Slot!Answer
  <2>5. CASE OnEngineSubmission
    BY <2>5, EmptyFrame DEF OnEngineSubmission, Slot!Observe, Slot!Idle
  <2> QED
    BY <1>3, <2>1, <2>2, <2>3, <2>4, <2>5 DEF EngineWorker
<1>4. CASE StopAdapter
  BY <1>4, EmptyFrame DEF StopAdapter, Slot!Close
<1>5. CASE UNCHANGED vars
  BY <1>5 DEF vars
<1> QED
  BY <1>1, <1>2, <1>3, <1>4, <1>5 DEF Next

LEMMA BinderInvAlways ==
  ASSUME "arm" \notin Lifecycle
  PROVE  Spec => []BinderInv
<1>1. Init => BinderInv
  BY EmptyFrame DEF Init, BinderInv, ConsumedHoldsCaptures, SleepFrameBelongsToCycle,
          Slot!Init, Resting
<1> QED
  BY <1>1, BinderInvKept, TypeCorrect, PTL DEF Spec

\* While a presented sleep image is up, no capture gets past the checks that hold
\* it back (OnCapturedComposition, PresentSleepImage's superseding, and the
\* worker's generation check).
THEOREM CapturesAreHeld ==
  ASSUME "arm" \notin Lifecycle
  PROVE  Spec => []ConsumedHoldsCaptures
BY BinderInvAlways, PTL DEF BinderInv

\* Waking before the sleep image was submitted leaves no cover behind: what waits
\* in the adapter is an ordinary frame or the active cycle's.
THEOREM NoCoverLeftBehind ==
  ASSUME "arm" \notin Lifecycle
  PROVE  Spec => []SleepFrameBelongsToCycle
BY BinderInvAlways, PTL DEF BinderInv

----------------------------------------------------------------------------
(* Diagnostic refreshes, for every entry point.                            *)

\* The request a blocked pipeline waits for is the newest one made; a converted
\* frame that covers the slot finds no request there, a presented one is recorded;
\* an idle engine call carries none.
RefreshInv ==
  /\ NoDiagnosticWhileAsleep
  /\ ~enabled /\ ~stopping => ~refresh_busy /\ refresh_id = 0 /\ slot.request = 0
  /\ refresh_busy /\ ~stopping => RefreshPending \/ displaced
  /\ refresh_id \in {0, refresh_requested}
  /\ refresh_busy => refresh_requested # 0
  /\ conversion.replace # 0 => slot.request = 0
  /\ call.stage = "idle" => call.frame.request = 0

LEMMA RefreshInvKept == RefreshInv /\ TypeOK /\ [Next]_vars => RefreshInv'
<1> SUFFICES ASSUME RefreshInv /\ TypeOK, [Next]_vars
             PROVE  RefreshInv'
  OBVIOUS
<1> USE DEF TypeOK, RefreshInv, NoDiagnosticWhileAsleep, RefreshPending
<1>1. CASE Caller
  <2>1. CASE Start
    BY <2>1 DEF Start, Slot!Open
  <2>2. CASE StopBegin
    BY <2>2 DEF StopBegin
  <2>3. CASE SetEnabled
    <3>1. CASE polled = "on"
      BY <2>3, <3>1 DEF SetEnabled, Enabling, FlagsOK
    <3>2. CASE polled # "on"
      <4>1. slot'.request = 0
        BY <2>3, <3>2, WithoutRequest, EmptyFrame DEF SetEnabled, Enabling, AdapterOK
      <4> QED
        BY <2>3, <3>2, <4>1 DEF SetEnabled, Enabling
    <3> QED
      BY <3>1, <3>2
  <2>4. CASE ToggleProperty \/ PollProperty \/ CaptureSkipped
    BY <2>4 DEF ToggleProperty, PollProperty, CaptureSkipped
  <2>5. CASE ResetForSourceChange
    BY <2>5 DEF ResetForSourceChange
  <2>6. CASE RequestDiagnosticRefresh
    BY <2>6 DEF RequestDiagnosticRefresh, CountersOK
  <2>7. CASE CancelDiagnosticRefresh
    BY <2>7 DEF CancelDiagnosticRefresh
  <2>8. ASSUME NEW m \in Modes, PublishSleepImageCatalog(m) PROVE RefreshInv'
    BY <2>8 DEF PublishSleepImageCatalog
  <2>9. CASE ArmSleepCycle
    BY <2>9, WithoutRequest, EmptyFrame DEF ArmSleepCycle, AdapterOK
  <2>10. CASE PresentSleepImage
    <3> DEFINE f == [sequence |-> next_sequence, epoch |-> catalog_epoch,
                     page |-> IF mode = "overlay" THEN background.page ELSE White,
                     request |-> 0]
    <3>1. f \in Frames /\ f.epoch # 0 /\ f.request = 0
      BY <2>10 DEF PresentSleepImage, Frames, SleepOK, CountersOK
    <3>2. slot' = Slot!Coalesce(f, slot) /\ UNCHANGED call
      BY <2>10 DEF PresentSleepImage, Slot!Put
    <3> HIDE DEF f
    <3>3. slot'.request = 0
      BY <3>1, <3>2, CoalesceShape DEF AdapterOK
    <3> QED
      BY <2>10, <3>2, <3>3 DEF PresentSleepImage
  <2>11. CASE DisarmSleepCycle
    BY <2>11, EmptyFrame DEF DisarmSleepCycle, AfterDisarm
  <2>12. ASSUME NEW page \in Contents, OnCapturedComposition(page) PROVE RefreshInv'
    BY <2>12 DEF OnCapturedComposition
  <2> QED
    BY <1>1, <2>1, <2>2, <2>3, <2>4, <2>5, <2>6, <2>7, <2>8, <2>9, <2>10, <2>11, <2>12 DEF Caller
<1>2. CASE ConversionWorker
  <2>1. CASE ConversionExit
    BY <2>1 DEF ConversionExit, Resting
  <2>2. CASE ConversionTake
    BY <2>2 DEF ConversionTake, Resting
  <2>3. CASE ConversionFails
    BY <2>3 DEF ConversionFails, Resting
  <2>4. CASE CheckGeneration
    BY <2>4 DEF CheckGeneration, Resting, ConversionOK
  <2>5. ASSUME NEW sized \in BOOLEAN, Evaluate(sized) PROVE RefreshInv'
    BY <2>5 DEF Evaluate, Resting, ConversionOK
  <2>6. CASE Route
    BY <2>6 DEF Route, Resting, ConversionOK
  <2>7. CASE EnqueueConverted
    <3> DEFINE f == [sequence |-> conversion.sequence, epoch |-> conversion.replace,
                     page |-> IF conversion.replace # 0 THEN White ELSE conversion.page,
                     request |-> IF RequestStands THEN conversion.request ELSE 0]
    <3>1. /\ f \in Frames /\ f.epoch = conversion.replace
          /\ f.request = IF RequestStands THEN conversion.request ELSE 0
      BY DEF Frames, ConversionOK
    <3>2. slot' = Slot!Coalesce(f, slot) /\ UNCHANGED call
      BY <2>7 DEF EnqueueConverted, Slot!Put
    <3> HIDE DEF f
    <3>3. CASE RequestStands
      <4>1. slot'.request = refresh_requested /\ refresh_requested # 0 /\ active_epoch = 0
        BY <3>1, <3>2, <3>3, CoalesceShape DEF AdapterOK, RequestStands
      <4> QED
        BY <2>7, <3>2, <3>3, <4>1 DEF EnqueueConverted, RequestStands, Resting
    <3>4. CASE ~RequestStands
      <4>1. slot'.request = slot.request
        BY <3>1, <3>2, <3>4, CoalesceShape, EmptyFrame DEF AdapterOK
      <4> QED
        BY <2>7, <3>2, <3>4, <4>1 DEF EnqueueConverted, Resting
    <3> QED
      BY <3>3, <3>4
  <2> QED
    BY <1>2, <2>1, <2>2, <2>3, <2>4, <2>5, <2>6, <2>7 DEF ConversionWorker
<1>3. CASE EngineWorker
  <2>1. CASE SubmitTake
    BY <2>1, EmptyFrame DEF SubmitTake, Slot!Take
  <2>2. CASE EngineAdmit
    BY <2>2 DEF EngineAdmit
  <2>3. CASE EngineRefuse
    BY <2>3 DEF EngineRefuse, Slot!Answer
  <2>4. CASE EngineAccept
    BY <2>4 DEF EngineAccept, Slot!Answer
  <2>5. CASE OnEngineSubmission
    BY <2>5, EmptyFrame DEF OnEngineSubmission, Slot!Observe, Slot!Idle
  <2> QED
    BY <1>3, <2>1, <2>2, <2>3, <2>4, <2>5 DEF EngineWorker
<1>4. CASE StopAdapter
  BY <1>4, EmptyFrame DEF StopAdapter, Slot!Close
<1>5. CASE UNCHANGED vars
  BY <1>5 DEF vars
<1> QED
  BY <1>1, <1>2, <1>3, <1>4, <1>5 DEF Next

LEMMA RefreshInvAlways == Spec => []RefreshInv
<1>1. Init => RefreshInv
  BY EmptyFrame DEF Init, RefreshInv, NoDiagnosticWhileAsleep, Slot!Init, Slot!Idle, Resting
<1> QED
  BY <1>1, RefreshInvKept, TypeCorrect, PTL DEF Spec

\* A diagnostic request is neither carried into a sleep cycle or a disabled period
\* nor forgotten while it turns the next one away, unless PresentSleepImage has
\* enqueued its image over the frame that carried it.
THEOREM RefreshIsAccounted == Spec => []RefreshAccounted
<1>1. RefreshInv => RefreshAccounted
  BY DEF RefreshInv, RefreshAccounted, DisableWithdraws, BusyIsExplained, Running
<1> QED
  BY <1>1, RefreshInvAlways, PTL

----------------------------------------------------------------------------
(* The overlay background, for every entry point.                          *)

\* Ordinary frames come from the one conversion worker, which numbers them in
\* order; a sleep image may overtake them, but they do not overtake each other.
Converting == conversion.stage \in {"converting", "checked", "evaluated", "routed"}
Ordinary(f) == f # NoFrame /\ f.epoch = 0

SequenceInv ==
  /\ background.sequence < next_sequence
  /\ Ordinary(slot) => background.sequence < slot.sequence /\ slot.sequence < next_sequence
  /\ Ordinary(call.frame) => background.sequence < call.frame.sequence
                             /\ call.frame.sequence < next_sequence
  /\ Ordinary(slot) /\ Ordinary(call.frame) => call.frame.sequence < slot.sequence
  /\ Converting => /\ conversion.sequence < next_sequence
                   /\ background.sequence < conversion.sequence
                   /\ Ordinary(slot) => slot.sequence < conversion.sequence
                   /\ Ordinary(call.frame) => call.frame.sequence < conversion.sequence

\* Until the observer runs, the panel may be ahead of the background by the frame
\* that is being answered.
BackgroundInv ==
  /\ SequenceInv
  /\ call.stage = "idle" <=> call.frame = NoFrame
  /\ call.stage = "answered" /\ call.accepted => panel = call.frame
  /\ background # NoBackground /\ panel.epoch = 0 /\ ~(call.stage = "answered" /\ call.accepted)
       => background.page = panel.page /\ background.sequence = panel.sequence

\* What disabling and arming take from the slot is at most its request.
LEMMA RequestWithdrawn ==
  ASSUME AdapterOK,
         SetEnabled \/ ArmSleepCycle
  PROVE  /\ slot' = slot \/ (slot # NoFrame /\ slot' = [slot EXCEPT !.request = 0])
         /\ slot'.epoch = slot.epoch /\ slot'.sequence = slot.sequence
         /\ slot'.page = slot.page
         /\ Ordinary(slot') => Ordinary(slot)
<1>1. slot' = slot \/ (slot # NoFrame /\ slot' = [slot EXCEPT !.request = 0])
  BY DEF SetEnabled, Enabling, ArmSleepCycle
<1> QED
  BY <1>1, WithoutRequest DEF AdapterOK, Ordinary

LEMMA BackgroundInvKept == BackgroundInv /\ TypeOK /\ [Next]_vars => BackgroundInv'
<1> SUFFICES ASSUME BackgroundInv, TypeOK, [Next]_vars
             PROVE  BackgroundInv'
  OBVIOUS
<1> USE DEF BackgroundInv, SequenceInv
<1>0. /\ background.sequence \in Nat /\ next_sequence \in Nat
      /\ slot \in Frames /\ slot.sequence \in Nat
      /\ call.frame \in Frames /\ call.frame.sequence \in Nat
      /\ conversion.sequence \in Nat
  BY DEF TypeOK, SleepOK, CountersOK, AdapterOK, ConversionOK, Frames
<1>1. CASE /\ UNCHANGED <<background, call, panel, next_sequence>>
           /\ slot' = NoFrame \/ (slot'.sequence = slot.sequence
                                  /\ (Ordinary(slot') => Ordinary(slot)))
           /\ Converting' => Converting /\ conversion'.sequence = conversion.sequence
  BY <1>1 DEF Ordinary
<1>2. CASE SetEnabled \/ ArmSleepCycle
  <2>1. UNCHANGED <<background, call, panel, next_sequence, conversion>>
    BY <1>2 DEF SetEnabled, Enabling, ArmSleepCycle
  <2> QED
    BY <1>1, <1>2, <2>1, RequestWithdrawn DEF TypeOK, Converting
<1>3. CASE ResetForSourceChange
  BY <1>0, <1>3 DEF ResetForSourceChange, NoBackground, Ordinary, Converting
<1>4. CASE DisarmSleepCycle
  BY <1>0, <1>4 DEF DisarmSleepCycle, AfterDisarm, NoBackground, Ordinary, Converting
<1>5. CASE PresentSleepImage
  <2> DEFINE f == [sequence |-> next_sequence, epoch |-> catalog_epoch,
                   page |-> IF mode = "overlay" THEN background.page ELSE White,
                   request |-> 0]
  <2>1. f \in Frames /\ f.epoch = catalog_epoch
    BY DEF TypeOK, Frames, SleepOK, CountersOK
  <2>2. slot' = Slot!Coalesce(f, slot) /\ catalog_epoch # 0
    BY <1>5 DEF PresentSleepImage, Slot!Put
  <2> HIDE DEF f
  <2>3. ~Ordinary(slot')
    BY <1>0, <2>1, <2>2, CoalesceShape DEF Ordinary
  <2>4. UNCHANGED <<background, call, panel, conversion>> /\ next_sequence' = next_sequence + 1
    BY <1>5 DEF PresentSleepImage, Slot!Put
  <2> QED
    BY <1>0, <2>3, <2>4 DEF Ordinary, Converting
<1>6. CASE ConversionTake
  BY <1>0, <1>6 DEF ConversionTake, Resting, Ordinary, Converting
<1>7. CASE EnqueueConverted
  <2> DEFINE f == [sequence |-> conversion.sequence, epoch |-> conversion.replace,
                   page |-> IF conversion.replace # 0 THEN White ELSE conversion.page,
                   request |-> IF RequestStands THEN conversion.request ELSE 0]
  <2>1. f \in Frames /\ f.sequence = conversion.sequence
    BY DEF TypeOK, Frames, ConversionOK
  <2>2. slot' = Slot!Coalesce(f, slot) /\ Converting
    BY <1>7 DEF EnqueueConverted, Slot!Put, Converting
  <2> HIDE DEF f
  <2>3. slot'.sequence = conversion.sequence
    BY <1>0, <2>1, <2>2, CoalesceShape
  <2>4. UNCHANGED <<background, call, panel, next_sequence>> /\ ~Converting'
    BY <1>7 DEF EnqueueConverted, Slot!Put, Converting, Resting
  <2> QED
    BY <1>0, <2>2, <2>3, <2>4 DEF Ordinary
<1>8. CASE SubmitTake
  BY <1>0, <1>8 DEF SubmitTake, Slot!Take, Ordinary, Converting
<1>9. CASE EngineRefuse
  BY <1>0, <1>9 DEF EngineRefuse, Slot!Answer, Ordinary, Converting
<1>10. CASE EngineAccept
  BY <1>0, <1>10 DEF EngineAccept, Slot!Answer, Ordinary, Converting
<1>11. CASE OnEngineSubmission
  <2>1. /\ call.stage = "answered" /\ call.frame # NoFrame
        /\ call' = Slot!Idle /\ call'.stage = "idle" /\ call'.frame = NoFrame
        /\ UNCHANGED <<slot, panel, next_sequence, conversion>>
    BY <1>11 DEF OnEngineSubmission, Slot!Observe, Slot!Idle
  <2>2. CASE call.accepted /\ call.frame.epoch = 0
    <3>1. Retained /\ panel = call.frame /\ Ordinary(call.frame)
      BY <2>1, <2>2 DEF Retained, Ordinary
    <3>2. background' = [page |-> panel.page, sequence |-> panel.sequence]
      BY <1>11, <3>1 DEF OnEngineSubmission
    <3> QED
      BY <1>0, <2>1, <3>1, <3>2 DEF Ordinary, Converting
  <2>3. CASE ~(call.accepted /\ call.frame.epoch = 0)
    <3>1. UNCHANGED background
      BY <1>11, <2>3 DEF OnEngineSubmission, Retained
    <3>2. ~call.accepted \/ panel.epoch # 0
      BY <2>1, <2>3
    <3> QED
      BY <1>0, <2>1, <3>1, <3>2 DEF Ordinary, Converting
  <2> QED
    BY <2>2, <2>3
<1>12. CASE StopAdapter
  BY <1>1, <1>12 DEF StopAdapter, Slot!Close, Converting
<1>13. CASE \/ Start \/ StopBegin \/ RequestDiagnosticRefresh \/ CancelDiagnosticRefresh
            \/ \E m \in Modes : PublishSleepImageCatalog(m)
            \/ \E page \in Contents : OnCapturedComposition(page)
            \/ ToggleProperty \/ PollProperty \/ CaptureSkipped
            \/ EngineAdmit \/ UNCHANGED vars
  BY <1>1, <1>13 DEF ToggleProperty, PollProperty, CaptureSkipped, Start, Slot!Open, StopBegin, RequestDiagnosticRefresh,
       CancelDiagnosticRefresh, PublishSleepImageCatalog, OnCapturedComposition, EngineAdmit,
       vars, Converting, Ordinary
<1>14. CASE ConversionExit \/ ConversionFails
  BY <1>1, <1>14 DEF ConversionExit, ConversionFails, Converting, Resting, Ordinary
<1>15. CASE CheckGeneration \/ (\E sized \in BOOLEAN : Evaluate(sized)) \/ Route
  <2>1. /\ Converting
        /\ conversion' = Resting \/ conversion'.sequence = conversion.sequence
    BY <1>15 DEF TypeOK, ConversionOK, CheckGeneration, Evaluate, Route, Converting
  <2>2. UNCHANGED <<background, slot, call, panel, next_sequence>>
    BY <1>15 DEF CheckGeneration, Evaluate, Route
  <2> QED
    BY <1>1, <2>1, <2>2 DEF Converting, Resting, Ordinary
<1> QED
  BY <1>2, <1>3, <1>4, <1>5, <1>6, <1>7, <1>8, <1>9, <1>10, <1>11, <1>12, <1>13, <1>14, <1>15
     DEF Next, Caller, ConversionWorker, EngineWorker

LEMMA BackgroundInvAlways == Spec => []BackgroundInv
<1>1. Init => BackgroundInv
  BY EmptyFrame DEF Init, BackgroundInv, SequenceInv, Slot!Init, Slot!Idle, Resting, Ordinary,
     Converting, NoBackground, NoFrame
<1> QED
  BY <1>1, BackgroundInvKept, TypeCorrect, PTL DEF Spec

\* The overlay background is the ordinary frame the panel shows: the engine's
\* answers reach OnEngineSubmission in order, and ObserveSubmission keeps each
\* ordinary frame that was accepted, since none is older than the one it has.
THEOREM BackgroundIsLastShown == Spec => []BackgroundWasShown
<1>1. BackgroundInv => BackgroundWasShown
  BY DEF BackgroundInv, BackgroundWasShown
<1> QED
  BY <1>1, BackgroundInvAlways, PTL

----------------------------------------------------------------------------
(* Coming to rest, for binder clients and any writer of the property.      *)

\* The gate has adopted the page of the capture under conversion.
Committed == conversion.stage \in {"evaluated", "routed"}

\* The last frame the adapter was given that it may still offer to the engine, or
\* has offered.
Last == IF slot # NoFrame THEN slot ELSE IF call.stage = "submit" THEN call.frame ELSE Offered

Shows(page) == Last.page = page /\ Last.epoch = 0

EnabledInv ==
  /\ enabled => has_been_enabled /\ Running
  /\ has_been_enabled => started
  /\ ~has_been_enabled => baseline = NoPage /\ pending = NoPage /\ ~Converting
  /\ Converting => conversion.page \in Contents
  /\ Committed => baseline = conversion.page

\* What the gate remembers was offered to the engine, is on its way there, or is
\* about to be put on its way.
GateInv ==
  Running /\ active_epoch = 0 /\ ~ForgetsBaseline /\ baseline # NoPage
    => (Committed /\ conversion.changed) \/ Shows(baseline)

\* The newest capture is where a capture is furthest from the panel.
NewestInv ==
  newest # NoPage =>
    /\ enabled /\ active_epoch = 0
    /\ pending \in {newest, NoPage}
    /\ pending = NoPage =>
         /\ ~ForgetsBaseline
         /\ Converting => conversion.page = newest
         /\ conversion.stage = "converting" => Current
         /\ ~Converting => Shows(newest)

RestInv == EnabledInv /\ GateInv /\ NewestInv

\* Nothing the invariant speaks of changes, except what is on its way to the
\* panel, which goes a step further.
LEMMA RestStays ==
  ASSUME RestInv,
         UNCHANGED <<lifeVars, pending, source_generation, conversion, gateVars, active_epoch,
                     newest>>,
         newest # NoPage \/ (Running /\ active_epoch = 0) => Last' = Last
  PROVE  RestInv'
BY DEF RestInv, EnabledInv, GateInv, NewestInv, Running, Converting, Committed, Shows,
       ForgetsBaseline, Current

LEMMA RestInvKept ==
  ASSUME "arm" \notin Lifecycle
  PROVE  RestInv /\ BinderInv /\ BackgroundInv /\ TypeOK /\ [Next]_vars => RestInv'
<1> SUFFICES ASSUME RestInv, BinderInv, BackgroundInv, TypeOK, [Next]_vars
             PROVE  RestInv'
  OBVIOUS
<1>0. /\ enabled \in BOOLEAN /\ armed \in BOOLEAN /\ has_been_enabled \in BOOLEAN
      /\ conversion \in [stage : Stages, page : Contents \cup {NoPage}, sequence : Nat,
                         generation : Nat, replace : Nat, changed : BOOLEAN, request : Nat]
      /\ pending \in Contents \cup {NoPage} /\ NoPage \notin Contents
  BY PipelineAssumption DEF TypeOK, FlagsOK, ConversionOK, Contents
<1>1. /\ latch_state \in {"inactive", "consumed"}
      /\ latch_state = "inactive" <=> active_epoch = 0
      /\ conversion.replace = 0
  BY DEF BinderInv
<1>2. CASE Caller
  <2>1. CASE Start
    BY <2>1, RestStays DEF Start, Slot!Open, RestInv, EnabledInv, GateInv, NewestInv, Running,
       Converting, Committed, Shows, Last, Offered, ForgetsBaseline, Current
  <2>2. CASE StopBegin
    BY <2>2, <1>0 DEF StopBegin, RestInv, EnabledInv, GateInv, NewestInv, Running,
       Converting, Committed
  <2>3. CASE ToggleProperty \/ PollProperty \/ CaptureSkipped
    BY <2>3, RestStays DEF ToggleProperty, PollProperty, CaptureSkipped, Last, Offered
  <2>4. ASSUME NEW b \in BOOLEAN, Running, Enabling(b), enabled # b PROVE RestInv'
    <3>1. CASE b
      BY <2>4, <3>1, <1>0 DEF Enabling, Rearms, RestInv, EnabledInv, GateInv, NewestInv, Running,
         Converting, Committed, ForgetsBaseline
    <3>2. CASE ~b
      BY <2>4, <3>2, <1>0 DEF Enabling, Rearms, RestInv, EnabledInv, GateInv, NewestInv, Running,
         Converting, Committed, ForgetsBaseline
    <3> QED
      BY <3>1, <3>2
  <2>5. CASE SetEnabled
    BY <2>4, <2>5, <1>0 DEF SetEnabled
  <2>6. CASE ResetForSourceChange
    BY <2>6, <1>0 DEF ResetForSourceChange, RestInv, EnabledInv, GateInv, NewestInv, Running,
       Converting, Committed, ForgetsBaseline
  <2>7. CASE PresentSleepImage
    BY <2>7, <1>0 DEF PresentSleepImage, RestInv, EnabledInv, GateInv, NewestInv, Running,
       Converting, Committed
  <2>8. CASE DisarmSleepCycle
    BY <2>8, <1>0 DEF DisarmSleepCycle, RestInv, EnabledInv, GateInv, NewestInv, Running,
       Converting, Committed, ForgetsBaseline
  <2>9. ASSUME NEW page \in Contents, OnCapturedComposition(page) PROVE RestInv'
    <3>1. /\ pending' = page /\ newest' = page /\ enabled /\ active_epoch = 0
          /\ UNCHANGED <<lifeVars, conversion, gateVars, active_epoch>> /\ Last' = Last
      BY <2>9, <1>1 DEF OnCapturedComposition, CaptureHeld, Last, Offered
    <3> QED
      BY <3>1, <1>0 DEF RestInv, EnabledInv, GateInv, NewestInv, Running, Converting, Committed,
         Shows, ForgetsBaseline
  <2>10. CASE \/ RequestDiagnosticRefresh \/ CancelDiagnosticRefresh
              \/ \E m \in Modes : PublishSleepImageCatalog(m)
    BY <2>10, RestStays DEF RequestDiagnosticRefresh, CancelDiagnosticRefresh,
       PublishSleepImageCatalog, Last, Offered
  <2>11. ~ArmSleepCycle
    BY DEF ArmSleepCycle
  <2> QED
    BY <1>2, <2>1, <2>2, <2>3, <2>5, <2>6, <2>7, <2>8, <2>9, <2>10, <2>11 DEF Caller
<1>3. CASE ConversionWorker
  <2>1. CASE ConversionExit
    BY <2>1, <1>0 DEF ConversionExit, WokenByStop, Resting, RestInv, EnabledInv, GateInv,
       NewestInv, Running, Converting, Committed
  <2>2. CASE ConversionTake
    <3>1. /\ conversion.stage = "idle" /\ pending # NoPage /\ pending' = NoPage
          /\ conversion'.stage = "converting" /\ conversion'.page = pending
          /\ conversion'.generation = source_generation
          /\ baseline' = (IF ForgetsBaseline THEN NoPage ELSE baseline) /\ ~ForgetsBaseline'
          /\ UNCHANGED <<lifeVars, source_generation, active_epoch, newest>>
          /\ Last' = Last
      BY <2>2 DEF ConversionTake, Resting, ForgetsBaseline, Last, Offered
    <3> QED
      BY <3>1, <1>0 DEF RestInv, EnabledInv, GateInv, NewestInv, Running, Converting, Committed,
         Shows, Current
  <2>3. CASE ConversionFails
    <3>1. /\ conversion.stage = "converting" /\ conversion'.stage = "idle"
          /\ newest' = (IF pending = NoPage THEN NoPage ELSE newest)
          /\ UNCHANGED <<lifeVars, pending, source_generation, gateVars, active_epoch>>
          /\ Last' = Last
      BY <2>3 DEF ConversionFails, Resting, Last, Offered
    <3> QED
      BY <3>1, <1>0 DEF RestInv, EnabledInv, GateInv, NewestInv, Running, Converting, Committed,
         Shows, ForgetsBaseline
  <2>4. CASE CheckGeneration
    <3>1. /\ conversion.stage = "converting"
          /\ UNCHANGED <<lifeVars, pending, source_generation, gateVars, active_epoch,
                         newest>>
          /\ Last' = Last
      BY <2>4 DEF CheckGeneration, Last, Offered
    <3>2. CASE Current
      <4>1. conversion'.stage = "checked" /\ conversion'.page = conversion.page
        BY <2>4, <3>2, <1>0 DEF CheckGeneration
      <4> QED
        BY <3>1, <4>1, <1>0 DEF RestInv, EnabledInv, GateInv, NewestInv, Running, Converting,
           Committed, Shows, ForgetsBaseline
    <3>3. CASE ~Current
      <4>1. conversion'.stage = "idle"
        BY <2>4, <3>3 DEF CheckGeneration, Resting
      <4> QED
        BY <3>1, <3>3, <4>1, <1>0 DEF RestInv, EnabledInv, GateInv, NewestInv, Running,
           Converting, Committed, Shows, ForgetsBaseline
    <3> QED
      BY <3>2, <3>3
  <2>5. ASSUME NEW sized \in BOOLEAN, Evaluate(sized) PROVE RestInv'
    <3>1. /\ conversion.stage = "checked" /\ baseline' = conversion.page
          /\ UNCHANGED <<lifeVars, pending, source_generation, reset_demand_gate,
                         reset_source_state, active_epoch>>
          /\ Last' = Last
      BY <2>5 DEF Evaluate, Last, Offered
    <3>2. Decision(sized) \in {"pass", "suppress"}
      BY <1>1 DEF Decision
    <3>3. CASE Decision(sized) = "suppress"
      <4>1. active_epoch # 0 /\ conversion'.stage = "idle"
        BY <2>5, <3>3, <1>1 DEF Evaluate, Decision, Resting
      <4>2. newest' = NoPage
        BY <2>5, <3>3, <4>1 DEF Evaluate, RestInv, NewestInv
      <4> QED
        BY <3>1, <4>1, <4>2, <1>0 DEF RestInv, EnabledInv, GateInv, NewestInv, Running,
           Converting, Committed
    <3>4. CASE Decision(sized) = "pass"
      <4>1. /\ conversion'.stage = "evaluated" /\ conversion'.page = conversion.page
            /\ conversion'.changed = ContentChanged /\ newest' = newest
        BY <2>5, <3>4, <1>0 DEF Evaluate
      <4> QED
        BY <3>1, <4>1, <1>0 DEF RestInv, EnabledInv, GateInv, NewestInv, Running, Converting,
           Committed, Shows, ForgetsBaseline, ContentChanged
    <3> QED
      BY <3>2, <3>3, <3>4
  <2>6. CASE Route
    <3>1. /\ conversion.stage = "evaluated"
          /\ UNCHANGED <<lifeVars, pending, source_generation, gateVars, active_epoch,
                         newest>>
          /\ Last' = Last
      BY <2>6 DEF Route, Last, Offered
    <3>2. \/ conversion'.stage = "idle" /\ ~conversion.changed
          \/ /\ conversion'.stage = "routed" /\ conversion'.page = conversion.page
             /\ conversion'.changed = conversion.changed
      BY <2>6, <1>0 DEF Route, Resting
    <3>3. CASE conversion'.stage = "idle" /\ ~conversion.changed
      BY <3>1, <3>3, <1>0 DEF RestInv, EnabledInv, GateInv, NewestInv, Running, Converting,
         Committed, Shows, ForgetsBaseline
    <3>4. CASE /\ conversion'.stage = "routed" /\ conversion'.page = conversion.page
               /\ conversion'.changed = conversion.changed
      BY <3>1, <3>4, <1>0 DEF RestInv, EnabledInv, GateInv, NewestInv, Running, Converting,
         Committed, Shows, ForgetsBaseline
    <3> QED
      BY <3>2, <3>3, <3>4
  <2>7. CASE EnqueueConverted
    <3> DEFINE f == [sequence |-> conversion.sequence, epoch |-> conversion.replace,
                     page |-> IF conversion.replace # 0 THEN White ELSE conversion.page,
                     request |-> IF RequestStands THEN conversion.request ELSE 0]
    <3>1. f \in Frames /\ f.page = conversion.page /\ f.epoch = 0
      BY <1>0, <1>1 DEF Frames
    <3>2. /\ slot' = Slot!Coalesce(f, slot) /\ conversion.stage = "routed"
          /\ conversion'.stage = "idle"
          /\ UNCHANGED <<lifeVars, pending, source_generation, gateVars, active_epoch,
                         newest>>
      BY <2>7 DEF EnqueueConverted, Slot!Put, Resting
    <3> HIDE DEF f
    <3>3. slot'.page = conversion.page /\ slot'.epoch = 0
      BY <3>1, <3>2, CoalesceShape DEF TypeOK, AdapterOK
    <3>4. conversion.page \in Contents
      BY <3>2 DEF RestInv, EnabledInv, Converting
    <3>5. Last'.page = conversion.page /\ Last'.epoch = 0
      BY <3>3, <3>4, <1>0, EmptyFrame DEF Last
    <3> QED
      BY <3>2, <3>5, <1>0 DEF RestInv, EnabledInv, GateInv, NewestInv, Running, Converting,
         Committed, Shows, ForgetsBaseline
  <2> QED
    BY <1>3, <2>1, <2>2, <2>3, <2>4, <2>5, <2>6, <2>7 DEF ConversionWorker
<1>4. CASE EngineWorker \/ StopAdapter
  <2>1. UNCHANGED <<lifeVars, pending, source_generation, conversion, gateVars, active_epoch,
                    newest>>
    BY <1>4 DEF EngineWorker, SubmitTake, EngineAdmit, EngineRefuse, EngineAccept,
       OnEngineSubmission, StopAdapter
  <2>2. CASE EngineWorker
    <3>1. call.stage = "submit" => call.frame # NoFrame
      BY DEF BackgroundInv
    <3>2. Last' = Last
      BY <2>2, <3>1 DEF EngineWorker, SubmitTake, Slot!Take, EngineAdmit, EngineRefuse,
         EngineAccept, Slot!Answer, OnEngineSubmission, Slot!Observe, Slot!Idle, Last, Offered
    <3> QED
      BY <2>1, <3>2, RestStays
  <2>3. CASE StopAdapter
    <3>1. ~Running /\ ~enabled
      BY <2>3 DEF StopAdapter, RestInv, EnabledInv, Running
    <3> QED
      BY <2>1, <3>1, RestStays DEF RestInv, NewestInv
  <2> QED
    BY <1>4, <2>2, <2>3 DEF EngineWorker
<1>5. CASE UNCHANGED vars
  BY <1>5, RestStays DEF vars, Last, Offered
<1> QED
  BY <1>2, <1>3, <1>4, <1>5 DEF Next

\* What was captured and what the demand gate remembers is what the engine was last
\* offered, whenever the pipeline is at rest and whenever the property is written.
\* It takes a cycle that is never armed ahead of its frame: a page adopted by the
\* gate in a cycle disarmed under it is lost until the next change.
THEOREM RestIsConsistent ==
  ASSUME "arm" \notin Lifecycle
  PROVE  Spec => []RestAgrees
<1>1. Init => RestInv
  BY DEF Init, RestInv, EnabledInv, GateInv, NewestInv, Converting, Committed, Resting
<1>2. RestInv => RestAgrees
  BY DEF RestInv, RestAgrees, RestOffersNewest, BaselineWasOffered, Quiet, GateInv, NewestInv,
     Converting, Committed, Shows, Last
<1> QED
  BY <1>1, <1>2, RestInvKept, BinderInvAlways, BackgroundInvAlways, TypeCorrect, PTL DEF Spec

=============================================================================
