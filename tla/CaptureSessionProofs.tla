------------------------ MODULE CaptureSessionProofs ------------------------
(***************************************************************************)
(* What CaptureSession promises for every pool, every panel and every      *)
(* upset: each capture opportunity and each full-pool obligation has       *)
(* exactly one end, and each slot in use is on lease in exactly one place. *)
(***************************************************************************)
EXTENDS CaptureSession, FiniteSetTheorems, TLAPS

USE DEF poolVars, screenVars, adapterVars, policyVars

Stages == {"idle", "entered", "opportunity", "count", "observe", "attempt", "copying",
           "failed", "copied", "deliver"}

Accounts == [opportunities : Nat, closed_slot_skip : Nat, full_pool_deferred : Nat,
             attempts : Nat, resample_attempts : Nat, outcomes : Nat, no_output : Nat]
Obligations == [created : Nat, fulfilled : Nat, copy_failures : Nat, cancelled : Nat,
                no_output : Nat]

AccountsOK ==
  /\ accounting \in Accounts /\ obligations \in Obligations
  /\ outstanding \in BOOLEAN /\ awaiting_capture \in BOOLEAN
  /\ ~(outstanding /\ awaiting_capture)
  /\ composer = [stage |-> composer.stage, page |-> composer.page,
                 resample |-> composer.resample, full |-> composer.full,
                 state |-> composer.state, copy |-> composer.copy]
  /\ composer.stage \in Stages /\ composer.resample \in BOOLEAN
  /\ composer.resample
       => composer.stage \in {"count", "attempt", "copying", "failed", "copied", "deliver"}

\* An opportunity that has been counted and not yet attempted, and an attempt that
\* has no outcome yet, are the composition thread's own: it stands between the two
\* counts.
Counted == ~composer.resample /\ composer.stage \in {"count", "observe"}
Attempted == composer.stage \in {"attempt", "copying", "failed", "copied", "deliver"}

OpportunitiesInv ==
  accounting.opportunities = accounting.attempts + accounting.closed_slot_skip
                               + accounting.full_pool_deferred + One(Counted)

AttemptsInv ==
  accounting.attempts + accounting.resample_attempts
    = accounting.outcomes + accounting.no_output + One(Attempted)

LEMMA SkipCounted ==
  ASSUME NEW a \in Accounts
  PROVE  [a EXCEPT !.opportunities = @ + 1, !.closed_slot_skip = @ + 1] \in Accounts
<1> DEFINE n == a.opportunities + 1
           m == a.closed_slot_skip + 1
<1>1. n \in Nat /\ m \in Nat
  BY DEF Accounts
<1>2. [a EXCEPT !.opportunities = @ + 1, !.closed_slot_skip = @ + 1]
        = [a EXCEPT !.opportunities = n, !.closed_slot_skip = m]
  OBVIOUS
<1> HIDE DEF n, m
<1>3. [a EXCEPT !.opportunities = n, !.closed_slot_skip = m] \in Accounts
  BY <1>1 DEF Accounts
<1> QED
  BY <1>2, <1>3

LEMMA ResampleCounted ==
  ASSUME NEW a \in Accounts
  PROVE  [a EXCEPT !.resample_attempts = @ + 1, !.attempts = @ + 0] \in Accounts
<1> DEFINE n == a.resample_attempts + 1
           m == a.attempts + 0
<1>1. n \in Nat /\ m \in Nat
  BY DEF Accounts
<1>2. [a EXCEPT !.resample_attempts = @ + 1, !.attempts = @ + 0]
        = [a EXCEPT !.resample_attempts = n, !.attempts = m]
  OBVIOUS
<1> HIDE DEF n, m
<1>3. [a EXCEPT !.resample_attempts = n, !.attempts = m] \in Accounts
  BY <1>1 DEF Accounts
<1> QED
  BY <1>2, <1>3

AccountsInv == AccountsOK /\ OpportunitiesInv /\ AttemptsInv /\ ObligationsSettled

LEMMA AccountsOKKept == AccountsOK /\ [Next]_vars => AccountsOK'
<1> SUFFICES ASSUME AccountsOK, [Next]_vars
             PROVE  AccountsOK'
  OBVIOUS
<1> USE DEF AccountsOK, Stages, Accounts, Obligations
<1>1. CASE Compose \/ Repaint
  <2>1. \E page : composer' = [Resting EXCEPT !.stage = "entered", !.page = page]
    BY <1>1 DEF Compose, Repaint, Composed
  <2>2. composer = Resting /\ UNCHANGED <<policyVars, accounting>>
    BY <1>1 DEF Compose, Repaint, Composed
  <2> QED
    BY <2>1, <2>2 DEF Resting
<1>2. CASE SwitchSource
  BY <1>2 DEF SwitchSource, Resting
<1>3. CASE Capture
  <2>1. CASE ReadState
    BY <2>1 DEF ReadState
  <2>2. CASE TakeResample
    BY <2>2 DEF TakeResample
  <2>3. CASE Skip
    <3>1. accounting' \in Accounts
      BY <2>3, SkipCounted DEF Skip
    <3> QED
      BY <2>3, <3>1 DEF Skip, Resting
  <2>4. CASE Admit
    BY <2>4 DEF Admit
  <2>5. CASE CountBusy
    <3>1. accounting' \in Accounts
      BY <2>5, ResampleCounted DEF CountBusy, ResampleAttempt
    <3> QED
      BY <2>5, <3>1 DEF CountBusy
  <2>6. CASE Defer
    BY <2>6 DEF Defer, Resting, Coalesces, One
  <2>7. CASE Proceed
    BY <2>7 DEF Proceed
  <2>8. CASE DirectNoOutput
    BY <2>8 DEF DirectNoOutput, Resting, One
  <2>9. CASE Acquire
    BY <2>9 DEF Acquire
  <2>10. CASE SourceRefused
    BY <2>10 DEF SourceRefused
  <2>11. CASE PoolDrop
    BY <2>11 DEF PoolDrop
  <2>12. CASE CopyFails
    BY <2>12 DEF CopyFails
  <2>13. CASE RecordFailure
    BY <2>13 DEF RecordFailure, Resting, One
  <2>14. CASE HandOff
    BY <2>14 DEF HandOff
  <2>15. CASE RecordCopy
    BY <2>15 DEF RecordCopy, One
  <2>16. CASE OnCapturedComposition
    BY <2>16 DEF OnCapturedComposition, Resting
  <2> QED
    BY <1>3, <2>1, <2>2, <2>3, <2>4, <2>5, <2>6, <2>7, <2>8, <2>9, <2>10, <2>11, <2>12, <2>13, <2>14, <2>15, <2>16 DEF Capture
<1>4. CASE Convert \/ Submit \/ PassTime
  <2>1. UNCHANGED <<composer, policyVars, accounting>>
    BY <1>4 DEF Convert, ConversionTake, ConversionDiscard, ConversionEnds, ConversionCheck,
            ConversionUnchanged, ConversionAssemble, ConversionEnqueue, ConversionFinish,
            Submit, SubmitTake, SubmitAccept, PassTime
  <2> QED
    BY <2>1
<1>5. ASSUME NEW t \in Threads, Release(t)
      PROVE  AccountsOK'
  <2>1. CASE ReleaseSlot(t)
    BY <2>1 DEF ReleaseSlot
  <2>2. CASE OnResourceReleased(t)
    BY <2>2 DEF OnResourceReleased, Dispatches
  <2>3. CASE RequestComposite(t) \/ RequestRefused(t)
    BY <2>3 DEF RequestComposite, RequestRefused
  <2>4. CASE Cancel(t)
    <3>1. obligations' \in Obligations
      BY <2>4 DEF Cancel, One, Obligations
    <3> QED
      BY <2>4, <3>1 DEF Cancel
  <2> QED
    BY <1>5, <2>1, <2>2, <2>3, <2>4 DEF Release
<1>6. CASE UNCHANGED vars
  BY <1>6 DEF vars
<1> QED
  BY <1>1, <1>2, <1>3, <1>4, <1>5, <1>6 DEF Next

LEMMA OpportunitiesKept == AccountsOK /\ OpportunitiesInv /\ [Next]_vars => OpportunitiesInv'
<1> SUFFICES ASSUME AccountsOK /\ OpportunitiesInv, [Next]_vars
             PROVE  OpportunitiesInv'
  OBVIOUS
<1> USE DEF OpportunitiesInv, Counted, One, AccountsOK, Stages, Accounts, Obligations
<1>1. CASE Compose \/ Repaint
  <2>1. \E page : composer' = [Resting EXCEPT !.stage = "entered", !.page = page]
    BY <1>1 DEF Compose, Repaint, Composed
  <2>2. composer = Resting /\ UNCHANGED <<policyVars, accounting>>
    BY <1>1 DEF Compose, Repaint, Composed
  <2> QED
    BY <2>1, <2>2 DEF Resting
<1>2. CASE SwitchSource
  BY <1>2 DEF SwitchSource, Resting
<1>3. CASE Capture
  <2>1. CASE ReadState
    BY <2>1 DEF ReadState
  <2>2. CASE TakeResample
    BY <2>2 DEF TakeResample
  <2>3. CASE Skip
    BY <2>3 DEF Skip, Resting
  <2>4. CASE Admit
    BY <2>4 DEF Admit
  <2>5. CASE CountBusy
    BY <2>5 DEF CountBusy, ResampleAttempt
  <2>6. CASE Defer
    BY <2>6 DEF Defer, Resting, Coalesces, One
  <2>7. CASE Proceed
    BY <2>7 DEF Proceed
  <2>8. CASE DirectNoOutput
    BY <2>8 DEF DirectNoOutput, Resting, One
  <2>9. CASE Acquire
    BY <2>9 DEF Acquire
  <2>10. CASE SourceRefused
    BY <2>10 DEF SourceRefused
  <2>11. CASE PoolDrop
    BY <2>11 DEF PoolDrop
  <2>12. CASE CopyFails
    BY <2>12 DEF CopyFails
  <2>13. CASE RecordFailure
    BY <2>13 DEF RecordFailure, Resting, One
  <2>14. CASE HandOff
    BY <2>14 DEF HandOff
  <2>15. CASE RecordCopy
    BY <2>15 DEF RecordCopy, One
  <2>16. CASE OnCapturedComposition
    BY <2>16 DEF OnCapturedComposition, Resting
  <2> QED
    BY <1>3, <2>1, <2>2, <2>3, <2>4, <2>5, <2>6, <2>7, <2>8, <2>9, <2>10, <2>11, <2>12, <2>13, <2>14, <2>15, <2>16 DEF Capture
<1>4. CASE Convert \/ Submit \/ PassTime
  <2>1. UNCHANGED <<composer, policyVars, accounting>>
    BY <1>4 DEF Convert, ConversionTake, ConversionDiscard, ConversionEnds, ConversionCheck,
            ConversionUnchanged, ConversionAssemble, ConversionEnqueue, ConversionFinish,
            Submit, SubmitTake, SubmitAccept, PassTime
  <2> QED
    BY <2>1
<1>5. ASSUME NEW t \in Threads, Release(t)
      PROVE  OpportunitiesInv'
  <2>1. CASE ReleaseSlot(t)
    BY <2>1 DEF ReleaseSlot
  <2>2. CASE OnResourceReleased(t)
    BY <2>2 DEF OnResourceReleased, Dispatches
  <2>3. CASE RequestComposite(t) \/ RequestRefused(t)
    BY <2>3 DEF RequestComposite, RequestRefused
  <2>4. CASE Cancel(t)
    BY <2>4 DEF Cancel, One
  <2> QED
    BY <1>5, <2>1, <2>2, <2>3, <2>4 DEF Release
<1>6. CASE UNCHANGED vars
  BY <1>6 DEF vars
<1> QED
  BY <1>1, <1>2, <1>3, <1>4, <1>5, <1>6 DEF Next

LEMMA AttemptsKept == AccountsOK /\ AttemptsInv /\ [Next]_vars => AttemptsInv'
<1> SUFFICES ASSUME AccountsOK /\ AttemptsInv, [Next]_vars
             PROVE  AttemptsInv'
  OBVIOUS
<1> USE DEF AttemptsInv, Attempted, One, AccountsOK, Stages, Accounts, Obligations
<1>1. CASE Compose \/ Repaint
  <2>1. \E page : composer' = [Resting EXCEPT !.stage = "entered", !.page = page]
    BY <1>1 DEF Compose, Repaint, Composed
  <2>2. composer = Resting /\ UNCHANGED <<policyVars, accounting>>
    BY <1>1 DEF Compose, Repaint, Composed
  <2> QED
    BY <2>1, <2>2 DEF Resting
<1>2. CASE SwitchSource
  BY <1>2 DEF SwitchSource, Resting
<1>3. CASE Capture
  <2>1. CASE ReadState
    BY <2>1 DEF ReadState
  <2>2. CASE TakeResample
    BY <2>2 DEF TakeResample
  <2>3. CASE Skip
    BY <2>3 DEF Skip, Resting
  <2>4. CASE Admit
    BY <2>4 DEF Admit
  <2>5. CASE CountBusy
    BY <2>5 DEF CountBusy, ResampleAttempt
  <2>6. CASE Defer
    BY <2>6 DEF Defer, Resting, Coalesces, One
  <2>7. CASE Proceed
    BY <2>7 DEF Proceed
  <2>8. CASE DirectNoOutput
    BY <2>8 DEF DirectNoOutput, Resting, One
  <2>9. CASE Acquire
    BY <2>9 DEF Acquire
  <2>10. CASE SourceRefused
    BY <2>10 DEF SourceRefused
  <2>11. CASE PoolDrop
    BY <2>11 DEF PoolDrop
  <2>12. CASE CopyFails
    BY <2>12 DEF CopyFails
  <2>13. CASE RecordFailure
    BY <2>13 DEF RecordFailure, Resting, One
  <2>14. CASE HandOff
    BY <2>14 DEF HandOff
  <2>15. CASE RecordCopy
    BY <2>15 DEF RecordCopy, One
  <2>16. CASE OnCapturedComposition
    BY <2>16 DEF OnCapturedComposition, Resting
  <2> QED
    BY <1>3, <2>1, <2>2, <2>3, <2>4, <2>5, <2>6, <2>7, <2>8, <2>9, <2>10, <2>11, <2>12, <2>13, <2>14, <2>15, <2>16 DEF Capture
<1>4. CASE Convert \/ Submit \/ PassTime
  <2>1. UNCHANGED <<composer, policyVars, accounting>>
    BY <1>4 DEF Convert, ConversionTake, ConversionDiscard, ConversionEnds, ConversionCheck,
            ConversionUnchanged, ConversionAssemble, ConversionEnqueue, ConversionFinish,
            Submit, SubmitTake, SubmitAccept, PassTime
  <2> QED
    BY <2>1
<1>5. ASSUME NEW t \in Threads, Release(t)
      PROVE  AttemptsInv'
  <2>1. CASE ReleaseSlot(t)
    BY <2>1 DEF ReleaseSlot
  <2>2. CASE OnResourceReleased(t)
    BY <2>2 DEF OnResourceReleased, Dispatches
  <2>3. CASE RequestComposite(t) \/ RequestRefused(t)
    BY <2>3 DEF RequestComposite, RequestRefused
  <2>4. CASE Cancel(t)
    BY <2>4 DEF Cancel, One
  <2> QED
    BY <1>5, <2>1, <2>2, <2>3, <2>4 DEF Release
<1>6. CASE UNCHANGED vars
  BY <1>6 DEF vars
<1> QED
  BY <1>1, <1>2, <1>3, <1>4, <1>5, <1>6 DEF Next

LEMMA ObligationsKept == AccountsOK /\ ObligationsSettled /\ [Next]_vars => ObligationsSettled'
<1> SUFFICES ASSUME AccountsOK /\ ObligationsSettled, [Next]_vars
             PROVE  ObligationsSettled'
  OBVIOUS
<1> USE DEF ObligationsSettled, One, AccountsOK, Stages, Accounts, Obligations
<1>1. CASE Compose \/ Repaint
  <2>1. \E page : composer' = [Resting EXCEPT !.stage = "entered", !.page = page]
    BY <1>1 DEF Compose, Repaint, Composed
  <2>2. composer = Resting /\ UNCHANGED <<policyVars, accounting>>
    BY <1>1 DEF Compose, Repaint, Composed
  <2> QED
    BY <2>1, <2>2 DEF Resting
<1>2. CASE SwitchSource
  BY <1>2 DEF SwitchSource, Resting
<1>3. CASE Capture
  <2>1. CASE ReadState
    BY <2>1 DEF ReadState
  <2>2. CASE TakeResample
    BY <2>2 DEF TakeResample
  <2>3. CASE Skip
    BY <2>3 DEF Skip, Resting
  <2>4. CASE Admit
    BY <2>4 DEF Admit
  <2>5. CASE CountBusy
    BY <2>5 DEF CountBusy, ResampleAttempt
  <2>6. CASE Defer
    <3>1. ~composer.resample
      BY <2>6 DEF Defer
    <3>2. CASE Coalesces
      BY <2>6, <3>1, <3>2 DEF Defer, Resting, Coalesces
    <3>3. CASE ~Coalesces
      <4>1. obligations' = [obligations EXCEPT !.created = obligations.created + 1] /\ outstanding' /\ ~outstanding
        BY <2>6, <3>3 DEF Defer, Coalesces
      <4>2. ~awaiting_capture /\ awaiting_capture' = awaiting_capture /\ ~composer'.resample
        BY <2>6, <3>3 DEF Defer, Coalesces, Resting
      <4> QED
        BY <3>1, <4>1, <4>2
    <3> QED
      BY <3>2, <3>3
  <2>7. CASE Proceed
    BY <2>7 DEF Proceed
  <2>8. CASE DirectNoOutput
    BY <2>8 DEF DirectNoOutput, Resting, One
  <2>9. CASE Acquire
    BY <2>9 DEF Acquire
  <2>10. CASE SourceRefused
    BY <2>10 DEF SourceRefused
  <2>11. CASE PoolDrop
    BY <2>11 DEF PoolDrop
  <2>12. CASE CopyFails
    BY <2>12 DEF CopyFails
  <2>13. CASE RecordFailure
    BY <2>13 DEF RecordFailure, Resting, One
  <2>14. CASE HandOff
    BY <2>14 DEF HandOff
  <2>15. CASE RecordCopy
    BY <2>15 DEF RecordCopy, One
  <2>16. CASE OnCapturedComposition
    BY <2>16 DEF OnCapturedComposition, Resting
  <2> QED
    BY <1>3, <2>1, <2>2, <2>3, <2>4, <2>5, <2>6, <2>7, <2>8, <2>9, <2>10, <2>11, <2>12, <2>13, <2>14, <2>15, <2>16 DEF Capture
<1>4. CASE Convert \/ Submit \/ PassTime
  <2>1. UNCHANGED <<composer, policyVars, accounting>>
    BY <1>4 DEF Convert, ConversionTake, ConversionDiscard, ConversionEnds, ConversionCheck,
            ConversionUnchanged, ConversionAssemble, ConversionEnqueue, ConversionFinish,
            Submit, SubmitTake, SubmitAccept, PassTime
  <2> QED
    BY <2>1
<1>5. ASSUME NEW t \in Threads, Release(t)
      PROVE  ObligationsSettled'
  <2>1. CASE ReleaseSlot(t)
    BY <2>1 DEF ReleaseSlot
  <2>2. CASE OnResourceReleased(t)
    BY <2>2 DEF OnResourceReleased, Dispatches
  <2>3. CASE RequestComposite(t) \/ RequestRefused(t)
    BY <2>3 DEF RequestComposite, RequestRefused
  <2>4. CASE Cancel(t)
    BY <2>4 DEF Cancel, One
  <2> QED
    BY <1>5, <2>1, <2>2, <2>3, <2>4 DEF Release
<1>6. CASE UNCHANGED vars
  BY <1>6 DEF vars
<1> QED
  BY <1>1, <1>2, <1>3, <1>4, <1>5, <1>6 DEF Next

\* Between captures every opportunity was skipped, deferred or attempted, every
\* attempt has one outcome, and every full-pool obligation one end: fulfilled,
\* failed, cancelled, or still owed.
THEOREM AccountsAlwaysSettle == Spec => []AccountsSettle
<1>1. Init => AccountsInv
  <2> SUFFICES ASSUME Init PROVE AccountsInv
    OBVIOUS
  <2>1. AccountsOK
    BY DEF Init, AccountsOK, Accounts, Obligations, Resting, Stages
  <2>2. OpportunitiesInv /\ AttemptsInv /\ ObligationsSettled
    BY DEF Init, OpportunitiesInv, AttemptsInv, ObligationsSettled, Counted, Attempted, One,
           Resting
  <2> QED
    BY <2>1, <2>2 DEF AccountsInv
<1>2. AccountsInv /\ [Next]_vars => AccountsInv'
  BY AccountsOKKept, OpportunitiesKept, AttemptsKept, ObligationsKept DEF AccountsInv
<1>3. AccountsInv => AccountsSettle
  <2> SUFFICES ASSUME AccountsInv PROVE AccountsSettle
    OBVIOUS
  <2>1. ASSUME composer.stage = "idle"
        PROVE  One(Counted) = 0 /\ One(Attempted) = 0
    BY <2>1 DEF Counted, Attempted, One
  <2>2. ReconciledAccounting
    BY <2>1 DEF AccountsInv, AccountsOK, Accounts, OpportunitiesInv, AttemptsInv,
                ReconciledAccounting
  <2> QED
    BY <2>2 DEF AccountsInv, AccountsSettle
<1> QED
  BY <1>1, <1>2, <1>3, PTL DEF Spec

----------------------------------------------------------------------------
(* The leases.  Cardinalities are of no use in an induction: the invariant   *)
(* says instead that no two places hold the same slot, that every slot in    *)
(* use is held, and that what is held is in use in its own generation.       *)

ReleaseStages == {"none", "pool", "bridge", "request", "cancel"}
WorkerStages == {"waiting", "converting", "checked", "assembled", "enqueued"}
Workers == [stage : WorkerStages, copy : Copies, stale : BOOLEAN, reset : BOOLEAN,
            baseline : Pages]

Releases == [Threads -> [stage : ReleaseStages, copy : Copies, locked : BOOLEAN]]
SlotStates == [state : {"free", "copying", "converting"}, generation : Nat]

ScreenOK ==
  /\ slots \in [Slots -> SlotStates]
  /\ screen \in Pages /\ panel \in Pages /\ repaint \in BOOLEAN
  /\ window \in {"none", "closed", "late", "elapsed"} /\ late_sampled \in BOOLEAN

\* The composition thread has a lease from the acquisition of a slot to its delivery.
ComposerOK ==
  /\ composer.page \in Pages /\ composer.copy \in Copies
  /\ composer.copy.slot # 0 <=> composer.stage \in {"copying", "copied", "deliver"}

\* The worker has one from the taking of a capture to the enqueueing of its frame,
\* which keeps it only for a color panel.
WorkerOK ==
  /\ worker \in Workers
  /\ worker.copy.slot # 0 => worker.stage \in {"converting", "checked", "assembled"}
  /\ ~ColorPanel /\ worker.stage = "assembled" => worker.copy.slot = 0

AdapterOK ==
  /\ pending \in Copies /\ retained \in Copies /\ engine \in Copies
  /\ ~ColorPanel => retained.slot = 0 /\ engine.slot = 0

\* A thread that is about to destroy a lease is not destroying one already.
ReleaseOK ==
  /\ release \in Releases
  /\ \A t \in Threads : release[t].copy.slot # 0 <=> release[t].stage = "pool"
  /\ composer.stage # "idle" => ~Busy("composer")
  /\ worker.stage \in {"converting", "checked"} => ~Busy("worker")
  /\ engine # NoCopy => ~Busy("submitter")

Apart == \A p, q \in Places : Held(p).slot # 0 /\ Held(p).slot = Held(q).slot => p = q

HeldInUse == \A p \in Places : Held(p).slot # 0 =>
               /\ slots[Held(p).slot].generation = Held(p).generation
               /\ slots[Held(p).slot].state
                    = IF p = "capture" /\ composer.stage = "copying" THEN "copying"
                                                                     ELSE "converting"

InUseHeld == \A s \in Slots : slots[s].state # "free" => \E p \in Places : Held(p).slot = s

TypesInv == AccountsOK /\ ScreenOK /\ ComposerOK /\ WorkerOK /\ AdapterOK /\ ReleaseOK

\* What each place holds, one by one.
LEMMA HeldAt ==
  /\ Held("capture") = composer.copy /\ Held("pending") = pending
  /\ Held("conversion") = worker.copy
  /\ Held("retained") = retained /\ Held("engine") = engine
  /\ \A t \in Threads : Held(t) = release[t].copy
BY DEF Held, Threads

LEMMA PlacesListed ==
  /\ Threads \subseteq Places
  /\ {"capture", "pending", "conversion", "retained", "engine"} \subseteq Places
  /\ \A p \in Places : p \in {"capture", "pending", "conversion", "retained", "engine"}
                          \/ p \in Threads
  /\ \A t \in Threads : t \notin {"capture", "pending", "conversion", "retained", "engine"}
BY DEF Places, Threads

LEMMA HeldType == TypesInv => \A p \in Places : Held(p) \in Copies
BY HeldAt, PlacesListed
   DEF TypesInv, ComposerOK, WorkerOK, AdapterOK, ReleaseOK, Workers, Releases

LeasesOK == Apart /\ HeldInUse /\ InUseHeld

SameLease(c, d) == c.slot = d.slot /\ (c.slot # 0 => c.generation = d.generation)

\* Leases that change places, none lost and none doubled: every place holds what
\* another one held.
LEMMA LeasesMoved ==
  ASSUME LeasesOK, UNCHANGED slots,
         NEW origin \in [Places -> Places], NEW goal \in [Places -> Places],
         \A p \in Places : goal[origin[p]] = p /\ origin[goal[p]] = p,
         \A p \in Places : SameLease(Held(p)', Held(origin[p])),
         composer.stage = "copying" <=> composer'.stage = "copying",
         composer.stage = "copying" => origin["capture"] = "capture"
  PROVE  LeasesOK'
<1> USE DEF SameLease
<1>1. Apart'
  <2> SUFFICES ASSUME NEW p \in Places, NEW q \in Places,
                      Held(p).slot' # 0, Held(p).slot' = Held(q).slot'
               PROVE  p = q
    BY DEF Apart
  <2>1. Held(origin[p]).slot # 0 /\ Held(origin[p]).slot = Held(origin[q]).slot
    OBVIOUS
  <2>2. origin[p] = origin[q]
    BY <2>1 DEF LeasesOK, Apart
  <2> QED
    BY <2>2
<1>2. HeldInUse'
  <2> SUFFICES ASSUME NEW p \in Places, Held(p).slot' # 0
               PROVE  /\ slots'[Held(p).slot'].generation = Held(p).generation'
                      /\ slots'[Held(p).slot'].state
                           = IF p = "capture" /\ composer'.stage = "copying" THEN "copying"
                                                                            ELSE "converting"
    BY DEF HeldInUse
  <2>1. /\ slots[Held(origin[p]).slot].generation = Held(origin[p]).generation
        /\ slots[Held(origin[p]).slot].state
             = IF origin[p] = "capture" /\ composer.stage = "copying" THEN "copying"
                                                                      ELSE "converting"
    BY DEF LeasesOK, HeldInUse
  <2>2. composer.stage = "copying" => (origin[p] = "capture" <=> p = "capture")
    BY DEF Places
  <2> QED
    BY <2>1, <2>2
<1>3. InUseHeld'
  <2> SUFFICES ASSUME NEW s \in Slots, slots[s].state # "free"
               PROVE  \E p \in Places : Held(p).slot' = s
    BY DEF InUseHeld
  <2>1. PICK q \in Places : Held(q).slot = s
    BY DEF LeasesOK, InUseHeld
  <2>2. Held(goal[q]).slot' = s
    BY <2>1
  <2> QED
    BY <2>2
<1> QED
  BY <1>1, <1>2, <1>3 DEF LeasesOK

\* Leases that stay where they are.
LEMMA LeasesStay ==
  ASSUME LeasesOK, UNCHANGED slots,
         \A p \in Places : SameLease(Held(p)', Held(p)),
         composer.stage = "copying" <=> composer'.stage = "copying"
  PROVE  LeasesOK'
<1> USE DEF SameLease
<1>1. Apart'
  BY DEF LeasesOK, Apart
<1>2. HeldInUse'
  BY DEF LeasesOK, HeldInUse
<1>3. InUseHeld'
  BY DEF LeasesOK, InUseHeld
<1> QED
  BY <1>1, <1>2, <1>3 DEF LeasesOK

\* A lease that ends: its place is empty and its slot free.
LEMMA LeaseReturned ==
  ASSUME LeasesOK, TypesInv, NEW place \in Places, Held(place).slot # 0,
         slots' = [slots EXCEPT ![Held(place).slot].state = "free"],
         Held(place).slot' = 0,
         \A p \in Places \ {place} : SameLease(Held(p)', Held(p)),
         composer'.stage = "copying" => place # "capture" /\ composer.stage = "copying",
         composer.stage = "copying" => place = "capture" \/ composer'.stage = "copying"
  PROVE  LeasesOK'
<1> USE DEF SameLease
<1> DEFINE s == Held(place).slot
<1>1. s \in Slots /\ slots \in [Slots -> SlotStates]
  BY HeldType DEF TypesInv, ScreenOK, Copies
<1>2. /\ slots'[s].state = "free"
      /\ \A r \in Slots \ {s} : slots'[r] = slots[r]
  BY <1>1 DEF SlotStates
<1>3. ASSUME NEW p \in Places, Held(p).slot' # 0
      PROVE  /\ p # place /\ Held(p).slot' = Held(p).slot
             /\ Held(p).generation' = Held(p).generation
             /\ Held(p).slot \in Slots \ {s}
  <2>1. p # place /\ Held(p).slot' = Held(p).slot /\ Held(p).generation' = Held(p).generation
    BY <1>3
  <2>2. Held(p).slot \in Slots
    BY <1>3, <2>1, HeldType DEF Copies
  <2>3. Held(p).slot # s
    BY <1>3, <2>1 DEF LeasesOK, Apart
  <2> QED
    BY <2>1, <2>2, <2>3
<1> HIDE DEF s
<1>4. Apart'
  BY <1>3 DEF LeasesOK, Apart
<1>5. HeldInUse'
  <2> SUFFICES ASSUME NEW p \in Places, Held(p).slot' # 0
               PROVE  /\ slots'[Held(p).slot'].generation = Held(p).generation'
                      /\ slots'[Held(p).slot'].state
                           = IF p = "capture" /\ composer'.stage = "copying" THEN "copying"
                                                                            ELSE "converting"
    BY DEF HeldInUse
  <2>1. slots'[Held(p).slot'] = slots[Held(p).slot]
    BY <1>2, <1>3
  <2>2. /\ slots[Held(p).slot].generation = Held(p).generation
        /\ slots[Held(p).slot].state = IF p = "capture" /\ composer.stage = "copying"
                                        THEN "copying" ELSE "converting"
    BY <1>3 DEF LeasesOK, HeldInUse
  <2>3. p = "capture" => (composer.stage = "copying" <=> composer'.stage = "copying")
    BY <1>3
  <2> QED
    BY <1>3, <2>1, <2>2, <2>3
<1>6. InUseHeld'
  <2> SUFFICES ASSUME NEW r \in Slots, slots'[r].state # "free"
               PROVE  \E p \in Places : Held(p).slot' = r
    BY DEF InUseHeld
  <2>1. r # s /\ slots[r].state # "free"
    BY <1>2
  <2>2. PICK q \in Places : Held(q).slot = r
    BY <2>1 DEF LeasesOK, InUseHeld
  <2>3. q # place
    BY <2>1, <2>2 DEF s
  <2> QED
    BY <2>2, <2>3
<1> QED
  BY <1>4, <1>5, <1>6 DEF LeasesOK

LEMMA NoCopyType == NoCopy \in Copies /\ NoCopy.slot = 0
BY CaptureAssumption DEF NoCopy, Copies, Pages

LEMMA ReleasingHolds ==
  ASSUME release \in Releases, NEW t \in Threads, NEW copy \in Copies, NEW locked \in BOOLEAN
  PROVE  /\ Releasing(t, copy, locked) \in Releases
         /\ SameLease(Releasing(t, copy, locked)[t].copy, copy)
         /\ Releasing(t, copy, locked)[t].copy.slot # 0
              <=> Releasing(t, copy, locked)[t].stage = "pool"
         /\ \A u \in Threads \ {t} : Releasing(t, copy, locked)[u] = release[u]
<1>1. CASE copy.slot = 0
  BY <1>1, NoCopyType DEF Releasing, NoRelease, Releases, ReleaseStages, SameLease
<1>2. CASE copy.slot # 0
  BY <1>2 DEF Releasing, NoRelease, Releases, ReleaseStages, SameLease
<1> QED
  BY <1>1, <1>2

LEMMA ScreenKept == TypesInv /\ [Next]_vars => ScreenOK'
<1> SUFFICES ASSUME TypesInv, [Next]_vars
             PROVE  ScreenOK'
  OBVIOUS
<1> USE DEF ScreenOK
<1>0. ScreenOK
  BY DEF TypesInv
<1>1. CASE Compose \/ Repaint
  <2>1. screen' \in Pages /\ repaint' \in BOOLEAN
    <3>1. CASE Compose
      <4>1. screen' = screen + 1 /\ screen < MaxCompositions /\ repaint' \in {FALSE, repaint}
        BY <3>1 DEF Compose
      <4>2. screen \in Pages /\ repaint \in BOOLEAN
        BY <1>0
      <4>3. screen' \in Pages
        BY <4>1, <4>2, CaptureAssumption DEF Pages
      <4> QED
        BY <4>1, <4>2, <4>3
    <3>2. CASE Repaint
      BY <1>0, <3>2 DEF Repaint
    <3> QED
      BY <1>1, <3>1, <3>2
  <2>2. UNCHANGED <<slots, panel, window, late_sampled>>
    BY <1>1 DEF Compose, Repaint, Composed
  <2> QED
    BY <1>0, <2>1, <2>2
<1>2. CASE Admit \/ PassTime
  BY <1>0, <1>2 DEF Admit, PassTime
<1>3. CASE Acquire
  BY <1>0, <1>3 DEF Acquire, Free, SlotStates
<1>4. CASE CopyFails \/ HandOff
  BY <1>0, <1>4 DEF CopyFails, HandOff, FailedSlot, SlotStates
<1>5. CASE SubmitAccept
  BY <1>0, <1>5 DEF SubmitAccept, TypesInv, AdapterOK, Copies
<1>6. CASE \E t \in Threads : Release(t)
  <2>1. slots' = slots \/ \E s : slots' = [slots EXCEPT ![s].state = "free"]
    BY <1>6 DEF Release, ReleaseSlot, OnResourceReleased, RequestComposite, RequestRefused, Cancel
  <2>2. repaint' = TRUE \/ repaint' = repaint
    BY <1>6 DEF Release, ReleaseSlot, OnResourceReleased, RequestComposite, RequestRefused, Cancel
  <2>3. UNCHANGED <<screen, adapterVars, late_sampled>>
    BY <1>6 DEF Release, ReleaseSlot, OnResourceReleased, RequestComposite, RequestRefused, Cancel
  <2>4. slots' \in [Slots -> SlotStates]
    BY <1>0, <2>1 DEF SlotStates
  <2> QED
    BY <1>0, <2>2, <2>3, <2>4
<1>7. CASE UNCHANGED <<slots, screenVars, panel, window, late_sampled>>
  BY <1>0, <1>7
<1> QED
  BY <1>1, <1>2, <1>3, <1>4, <1>5, <1>6, <1>7
     DEF Next, vars, Capture, Convert, Submit, SwitchSource, ReadState, TakeResample, Skip,
         CountBusy, Defer, Proceed, DirectNoOutput, SourceRefused, PoolDrop, RecordFailure,
         RecordCopy, OnCapturedComposition, ConversionTake, ConversionDiscard, ConversionEnds,
         ConversionCheck, ConversionUnchanged, ConversionAssemble, ConversionEnqueue,
         ConversionFinish, SubmitTake

LEMMA ComposerKept == TypesInv /\ [Next]_vars => ComposerOK'
<1> SUFFICES ASSUME TypesInv, [Next]_vars
             PROVE  ComposerOK'
  OBVIOUS
<1> USE DEF ComposerOK, AccountsOK
<1>0. ComposerOK /\ AccountsOK /\ Resting.page = 0 /\ Resting.copy = NoCopy
      /\ Resting.stage = "idle" /\ NoCopy \in Copies /\ NoCopy.slot = 0 /\ 0 \in Pages
  BY NoCopyType, CaptureAssumption DEF TypesInv, Resting, Pages
<1>1. CASE Compose \/ Repaint
  <2>1. PICK page \in Pages : composer' = [Resting EXCEPT !.stage = "entered", !.page = page]
    <3>1. CASE Compose
      <4>1. screen + 1 \in Pages
        <5>1. screen \in Pages /\ screen < MaxCompositions
          BY <3>1 DEF Compose, TypesInv, ScreenOK
        <5> QED
          BY <5>1, CaptureAssumption DEF Pages
      <4>2. composer' = [Resting EXCEPT !.stage = "entered", !.page = screen + 1]
        BY <3>1 DEF Compose, Composed
      <4> QED
        BY <4>1, <4>2
    <3>2. CASE Repaint
      BY <3>2 DEF Repaint, Composed, TypesInv, ScreenOK
    <3> QED
      BY <1>1, <3>1, <3>2
  <2> QED
    BY <1>0, <2>1 DEF Resting
<1>2. CASE composer' = Resting
  BY <1>0, <1>2
<1>3. CASE ReadState \/ TakeResample \/ Admit \/ CountBusy \/ Proceed \/ SourceRefused \/ PoolDrop
  BY <1>0, <1>3 DEF ReadState, TakeResample, Admit, CountBusy, Proceed, SourceRefused, PoolDrop
<1>4. CASE Acquire
  <2>1. PICK s \in Free : composer' = [composer EXCEPT !.stage = "copying",
                 !.copy = [page |-> composer.page, slot |-> s,
                           generation |-> slots[s].generation + 1]]
    BY <1>4 DEF Acquire
  <2>2. s \in Slots /\ s # 0 /\ slots[s].generation + 1 \in Nat
    BY CaptureAssumption DEF Free, TypesInv, ScreenOK, SlotStates, Slots
  <2>3. composer'.copy \in Copies /\ composer'.copy.slot # 0
    BY <1>0, <2>1, <2>2 DEF Copies
  <2> QED
    BY <1>0, <2>1, <2>3
<1>5. CASE CopyFails \/ HandOff \/ RecordCopy
  BY <1>0, <1>5 DEF CopyFails, HandOff, RecordCopy
<1>6. CASE UNCHANGED composer
  BY <1>0, <1>6
<1> QED
  BY <1>1, <1>2, <1>3, <1>4, <1>5, <1>6
     DEF Next, vars, Capture, Convert, Submit, SwitchSource, Skip, Defer, DirectNoOutput,
         RecordFailure, OnCapturedComposition, ConversionTake, ConversionDiscard,
         ConversionEnds, ConversionCheck, ConversionUnchanged, ConversionAssemble,
         ConversionEnqueue, ConversionFinish, SubmitTake, SubmitAccept, PassTime, Release,
         ReleaseSlot, OnResourceReleased, RequestComposite, RequestRefused, Cancel

LEMMA WorkerKept == TypesInv /\ [Next]_vars => WorkerOK'
<1> SUFFICES ASSUME TypesInv, [Next]_vars
             PROVE  WorkerOK'
  OBVIOUS
<1> USE DEF WorkerOK, Workers, WorkerStages
<1>0. WorkerOK /\ NoCopy \in Copies /\ NoCopy.slot = 0 /\ 0 \in Pages
  BY NoCopyType, CaptureAssumption DEF TypesInv, Pages
<1>1. CASE SwitchSource
  BY <1>0, <1>1 DEF SwitchSource
<1>2. CASE ConversionTake
  BY <1>0, <1>2 DEF ConversionTake, TypesInv, AdapterOK
<1>3. CASE ConversionDiscard \/ ConversionUnchanged
  BY <1>0, <1>3 DEF ConversionDiscard, ConversionUnchanged, ConversionEnds
<1>4. CASE ConversionCheck \/ ConversionFinish \/ ConversionEnqueue
  BY <1>0, <1>4 DEF ConversionCheck, ConversionFinish, ConversionEnqueue
<1>5. CASE ConversionAssemble
  <2> DEFINE bare == [worker.copy EXCEPT !.slot = 0, !.generation = 0]
  <2>1. bare \in Copies /\ bare.slot = 0
    BY <1>0 DEF Copies
  <2>2. worker' = [worker EXCEPT !.stage = "assembled", !.baseline = worker.copy.page,
                     !.copy = IF ColorPanel THEN worker.copy ELSE bare]
    BY <1>5 DEF ConversionAssemble
  <2>3. worker.copy.page \in Pages
    BY <1>0 DEF Copies
  <2> HIDE DEF bare
  <2> QED
    BY <1>0, <2>1, <2>2, <2>3
<1>6. CASE UNCHANGED worker
  BY <1>0, <1>6
<1> QED
  BY <1>1, <1>2, <1>3, <1>4, <1>5, <1>6
     DEF Next, vars, Compose, Repaint, Composed, Capture, Convert, Submit, ReadState,
         TakeResample, Skip, Admit, CountBusy, Defer, Proceed, DirectNoOutput, Acquire,
         SourceRefused, PoolDrop, CopyFails, RecordFailure, HandOff, RecordCopy,
         OnCapturedComposition, SubmitTake, SubmitAccept, PassTime, Release, ReleaseSlot,
         OnResourceReleased, RequestComposite, RequestRefused, Cancel

LEMMA AdapterKept == TypesInv /\ [Next]_vars => AdapterOK'
<1> SUFFICES ASSUME TypesInv, [Next]_vars
             PROVE  AdapterOK'
  OBVIOUS
<1> USE DEF AdapterOK
<1>0. AdapterOK /\ NoCopy \in Copies /\ NoCopy.slot = 0
  BY NoCopyType DEF TypesInv
<1>1. CASE SwitchSource \/ ConversionTake \/ SubmitTake \/ SubmitAccept
  BY <1>0, <1>1 DEF SwitchSource, ConversionTake, SubmitTake, SubmitAccept
<1>2. CASE OnCapturedComposition
  BY <1>0, <1>2 DEF OnCapturedComposition, Displacing, TypesInv, ComposerOK
<1>3. CASE ConversionEnqueue
  BY <1>0, <1>3 DEF ConversionEnqueue, TypesInv, WorkerOK, Workers
<1>4. CASE UNCHANGED <<pending, retained, engine>>
  BY <1>0, <1>4
<1> QED
  BY <1>1, <1>2, <1>3, <1>4
     DEF Next, vars, Compose, Repaint, Composed, Capture, Convert, Submit, ReadState,
         TakeResample, Skip, Admit, CountBusy, Defer, Proceed, DirectNoOutput, Acquire,
         SourceRefused, PoolDrop, CopyFails, RecordFailure, HandOff, RecordCopy,
         ConversionDiscard, ConversionEnds, ConversionCheck, ConversionUnchanged,
         ConversionAssemble, ConversionFinish, PassTime, Release, ReleaseSlot,
         OnResourceReleased, RequestComposite, RequestRefused, Cancel

LEMMA ReleaseKept == TypesInv /\ [Next]_vars => ReleaseOK'
<1> SUFFICES ASSUME TypesInv, [Next]_vars
             PROVE  ReleaseOK'
  OBVIOUS
<1> USE DEF ReleaseOK, Busy
<1>0. ReleaseOK /\ AccountsOK /\ {"composer", "worker", "submitter"} = Threads
  BY DEF TypesInv, Threads
<1>1. CASE Compose \/ Repaint
  BY <1>0, <1>1 DEF Compose, Repaint, Composed, Resting
<1>2. CASE SwitchSource \/ OnCapturedComposition
  <2>1. PICK copy \in Copies : release' = Releasing("composer", copy, TRUE)
    BY <1>2 DEF SwitchSource, OnCapturedComposition, TypesInv, ComposerOK, AdapterOK
  <2>2. /\ release' \in Releases
        /\ release'["composer"].copy.slot # 0 <=> release'["composer"].stage = "pool"
        /\ \A u \in Threads \ {"composer"} : release'[u] = release[u]
    BY <1>0, <2>1, ReleasingHolds
  <2>3. /\ composer'.stage = "idle"
        /\ worker'.stage = worker.stage /\ UNCHANGED engine
    <3>1. CASE SwitchSource
      BY <3>1 DEF SwitchSource, Resting, TypesInv, WorkerOK, Workers
    <3>2. CASE OnCapturedComposition
      BY <3>2 DEF OnCapturedComposition, Resting
    <3> QED
      BY <1>2, <3>1, <3>2
  <2> QED
    BY <1>0, <2>2, <2>3
<1>3. CASE ConversionDiscard \/ ConversionUnchanged \/ ConversionAssemble \/ ConversionEnqueue
  <2>1. CASE UNCHANGED release /\ ConversionAssemble
    BY <1>0, <2>1 DEF ConversionAssemble, TypesInv, WorkerOK, Workers
  <2>2. CASE \E copy \in Copies, locked \in BOOLEAN : release' = Releasing("worker", copy, locked)
    <3>1. PICK copy \in Copies, locked \in BOOLEAN : release' = Releasing("worker", copy, locked)
      BY <2>2
    <3>2. /\ release' \in Releases
          /\ release'["worker"].copy.slot # 0 <=> release'["worker"].stage = "pool"
          /\ \A u \in Threads \ {"worker"} : release'[u] = release[u]
      BY <1>0, <3>1, ReleasingHolds
    <3>3. /\ worker'.stage \in {"waiting", "assembled", "enqueued"}
          /\ UNCHANGED <<composer, engine>>
      BY <1>3 DEF ConversionDiscard, ConversionUnchanged, ConversionEnds, ConversionAssemble,
                  ConversionEnqueue, TypesInv, WorkerOK, Workers
    <3> QED
      BY <1>0, <3>2, <3>3
  <2> QED
    BY <1>3, <2>1, <2>2 DEF ConversionDiscard, ConversionUnchanged, ConversionEnds, ConversionAssemble,
                  ConversionEnqueue, TypesInv, WorkerOK, Workers, AdapterOK
<1>4. CASE ConversionTake \/ ConversionCheck \/ ConversionFinish
  BY <1>0, <1>4 DEF ConversionTake, ConversionCheck, ConversionFinish, TypesInv, WorkerOK, Workers
<1>5. CASE SubmitTake \/ PassTime
  BY <1>0, <1>5 DEF SubmitTake, PassTime
<1>6. CASE SubmitAccept
  <2>1. release' = Releasing("submitter", engine, FALSE) /\ engine \in Copies
    BY <1>6 DEF SubmitAccept, TypesInv, AdapterOK
  <2>2. /\ release' \in Releases
        /\ release'["submitter"].copy.slot # 0 <=> release'["submitter"].stage = "pool"
        /\ \A u \in Threads \ {"submitter"} : release'[u] = release[u]
    BY <1>0, <2>1, ReleasingHolds
  <2>3. engine' = NoCopy /\ UNCHANGED <<composer, worker>>
    BY <1>6 DEF SubmitAccept
  <2> QED
    BY <1>0, <2>2, <2>3
<1>7. ASSUME NEW t \in Threads, Release(t)
      PROVE  ReleaseOK'
  <2>0. NoRelease \in [stage : ReleaseStages, copy : Copies, locked : BOOLEAN]
        /\ NoRelease.copy.slot = 0 /\ NoRelease.stage = "none"
    BY NoCopyType DEF NoRelease, ReleaseStages
  <2>1. /\ release' \in Releases
        /\ release'[t].copy.slot # 0 <=> release'[t].stage = "pool"
        /\ release[t].stage # "none"
        /\ \A u \in Threads \ {t} : release'[u] = release[u]
    <3>1. CASE ReleaseSlot(t)
      <4>1. CASE release' = [release EXCEPT ![t].stage = "bridge", ![t].copy = NoCopy]
        BY <1>0, <3>1, <4>1, NoCopyType DEF ReleaseSlot, Releases, ReleaseStages
      <4>2. CASE release' = [release EXCEPT ![t] = NoRelease]
        BY <1>0, <2>0, <3>1, <4>2 DEF ReleaseSlot, Releases
      <4> QED
        BY <3>1, <4>1, <4>2 DEF ReleaseSlot
    <3>2. CASE OnResourceReleased(t)
      BY <1>0, <3>2, NoCopyType DEF OnResourceReleased, Releases, ReleaseStages, NoRelease
    <3>3. CASE RequestComposite(t) \/ Cancel(t)
      BY <1>0, <2>0, <3>3 DEF RequestComposite, Cancel, Releases
    <3>4. CASE RequestRefused(t)
      BY <1>0, <3>4, NoCopyType DEF RequestRefused, Releases, ReleaseStages
    <3> QED
      BY <1>7, <3>1, <3>2, <3>3, <3>4 DEF Release
  <2>2. UNCHANGED <<composer, worker, engine>>
    BY <1>7 DEF Release, ReleaseSlot, OnResourceReleased, RequestComposite, RequestRefused, Cancel
  <2> QED
    BY <1>0, <2>1, <2>2
<1>8. CASE UNCHANGED <<release, worker, engine>>
           /\ (composer.stage = "idle" => composer'.stage = "idle")
  BY <1>0, <1>8
<1>9. CASE Capture /\ ~OnCapturedComposition
  BY <1>8, <1>9
     DEF Capture, ReadState, TakeResample, Skip, Admit, CountBusy, Defer, Proceed,
         DirectNoOutput, Acquire, SourceRefused, PoolDrop, CopyFails, RecordFailure, HandOff,
         RecordCopy
<1> QED
  BY <1>1, <1>2, <1>3, <1>4, <1>5, <1>6, <1>7, <1>8, <1>9 DEF Next, vars, Convert, Submit

LEMMA TypesKept == TypesInv /\ [Next]_vars => TypesInv'
BY AccountsOKKept, ScreenKept, ComposerKept, WorkerKept, AdapterKept, ReleaseKept DEF TypesInv

LEMMA HeldAtNext ==
  /\ Held("capture")' = composer'.copy /\ Held("pending")' = pending'
  /\ Held("conversion")' = worker'.copy
  /\ Held("retained")' = retained' /\ Held("engine")' = engine'
  /\ \A t \in Threads : Held(t)' = release'[t].copy
BY DEF Held, Threads

\* b's lease goes to a, c's to b, and a's to c; c = a when only two places exchange.
Turn(a, b, c) ==
  [p \in Places |-> IF p = a THEN b ELSE IF p = b THEN c ELSE IF p = c THEN a ELSE p]

LEMMA LeasesTurned ==
  ASSUME LeasesOK, UNCHANGED slots, NEW a \in Places, NEW b \in Places, NEW c \in Places,
         a # b, b # c,
         \A p \in Places : SameLease(Held(p)', Held(Turn(a, b, c)[p])),
         composer.stage = "copying" <=> composer'.stage = "copying",
         composer.stage = "copying" => "capture" \notin {a, b, c}
  PROVE  LeasesOK'
<1>1. /\ Turn(a, b, c) \in [Places -> Places] /\ Turn(c, b, a) \in [Places -> Places]
      /\ \A p \in Places : Turn(c, b, a)[Turn(a, b, c)[p]] = p /\ Turn(a, b, c)[Turn(c, b, a)[p]] = p
  BY DEF Turn
<1>2. composer.stage = "copying" => Turn(a, b, c)["capture"] = "capture"
  BY DEF Turn, Places
<1> QED
  BY <1>1, <1>2, LeasesMoved

LEMMA LeasesKept == TypesInv /\ LeasesOK /\ [Next]_vars => LeasesOK'
<1> SUFFICES ASSUME TypesInv, LeasesOK, [Next]_vars
             PROVE  LeasesOK'
  OBVIOUS
<1>0. NoCopy.slot = 0 /\ Resting.copy = NoCopy /\ Resting.stage = "idle"
      /\ "composer" \in Threads /\ "worker" \in Threads /\ "submitter" \in Threads
  BY NoCopyType DEF Resting, Threads
<1>a. /\ "capture" \in Places /\ "pending" \in Places /\ "conversion" \in Places
      /\ "retained" \in Places /\ "engine" \in Places /\ Threads \subseteq Places
      /\ \A p \in Places : p \in Threads \/ p \in {"capture", "pending", "conversion", "retained", "engine"}
      /\ \A t \in Threads : t \notin {"capture", "pending", "conversion", "retained", "engine"}
  BY DEF Places, Threads
\* Steps that leave every lease where it is.
<1>1. CASE /\ UNCHANGED <<slots, pending, worker.copy, retained, engine>>
           /\ \A t \in Threads : SameLease(release'[t].copy, release[t].copy)
           /\ SameLease(composer'.copy, composer.copy)
           /\ composer.stage = "copying" <=> composer'.stage = "copying"
  BY <1>1, <1>a, HeldAt, HeldAtNext, LeasesStay DEF SameLease
<1>2. ASSUME Compose \/ Repaint \/ ReadState \/ TakeResample \/ Skip \/ Admit \/ CountBusy
               \/ Defer \/ Proceed \/ DirectNoOutput \/ SourceRefused \/ PoolDrop \/ RecordFailure
               \/ RecordCopy
      PROVE  LeasesOK'
  <2>1. UNCHANGED <<slots, pending, worker, retained, engine, release>>
    BY <1>2 DEF Compose, Repaint, Composed, ReadState, TakeResample, Skip, Admit, CountBusy, Defer,
                Proceed, DirectNoOutput, SourceRefused, PoolDrop, RecordFailure, RecordCopy
  <2>2. SameLease(composer'.copy, composer.copy)
        /\ composer.stage # "copying" /\ composer'.stage # "copying"
    BY <1>0, <1>2
       DEF Compose, Repaint, Composed, ReadState, TakeResample, Skip, Admit, CountBusy, Defer,
           Proceed, DirectNoOutput, SourceRefused, PoolDrop, RecordFailure, RecordCopy, Resting,
           TypesInv, AccountsOK, ComposerOK, SameLease
  <2> QED
    BY <1>1, <2>1, <2>2 DEF SameLease
<1>3. CASE ConversionCheck \/ ConversionFinish \/ PassTime \/ UNCHANGED vars
  BY <1>1, <1>3 DEF ConversionCheck, ConversionFinish, PassTime, vars, TypesInv, WorkerOK, Workers, SameLease
<1>4. ASSUME NEW t \in Threads, release[t].stage # "pool", Release(t)
      PROVE  LeasesOK'
  <2>1. UNCHANGED <<slots, pending, worker, retained, engine, composer>>
    BY <1>4 DEF Release, ReleaseSlot, OnResourceReleased, RequestComposite, RequestRefused, Cancel
  <2>2. /\ release'[t].copy.slot = 0 /\ release[t].copy.slot = 0
        /\ \A u \in Threads \ {t} : release'[u] = release[u]
    BY <1>4, NoCopyType
       DEF Release, ReleaseSlot, OnResourceReleased, RequestComposite, RequestRefused, Cancel,
           NoRelease, TypesInv, ReleaseOK, Releases
  <2> QED
    BY <1>1, <2>1, <2>2 DEF SameLease
\* Steps that move a lease.
<1>5. CASE SwitchSource
  <2>1. /\ SameLease(release'["composer"].copy, pending) /\ SameLease(pending', release["composer"].copy)
        /\ \A u \in Threads \ {"composer"} : release'[u] = release[u]
        /\ SameLease(composer'.copy, composer.copy) /\ worker'.copy = worker.copy
        /\ UNCHANGED <<slots, retained, engine>>
        /\ composer.stage # "copying" /\ composer'.stage # "copying"
    <3>1. /\ release' = Releasing("composer", pending, TRUE) /\ pending' = NoCopy
          /\ composer' = Resting /\ composer.stage = "entered" /\ worker'.copy = worker.copy
          /\ UNCHANGED <<slots, retained, engine>>
      BY <1>5 DEF SwitchSource, TypesInv, WorkerOK, Workers
    <3>2. composer.copy.slot = 0 /\ release["composer"].copy.slot = 0
      BY <1>0, <3>1 DEF TypesInv, ComposerOK, ReleaseOK, Busy
    <3>3. /\ SameLease(Releasing("composer", pending, TRUE)["composer"].copy, pending)
          /\ \A u \in Threads \ {"composer"} : Releasing("composer", pending, TRUE)[u] = release[u]
      BY <1>0, ReleasingHolds DEF TypesInv, AdapterOK, ReleaseOK
    <3> QED
      BY <1>0, <3>1, <3>2, <3>3 DEF SameLease
  <2>2. \A p \in Places : SameLease(Held(p)', Held(Turn("composer", "pending", "composer")[p]))
    BY <1>0, <1>a, <2>1, HeldAt, HeldAtNext DEF Turn, SameLease
  <2> QED
    BY <1>0, <2>1, <2>2, <1>a, LeasesTurned
<1>6. CASE OnCapturedComposition
  <2>1. /\ pending' = composer.copy /\ composer'.copy.slot = 0
        /\ release["composer"].copy.slot = 0
        /\ SameLease(release'["composer"].copy, pending)
        /\ \A u \in Threads \ {"composer"} : release'[u] = release[u]
        /\ UNCHANGED <<slots, worker, retained, engine>>
        /\ composer.stage # "copying" /\ composer'.stage # "copying"
    <3>1. /\ pending' = composer.copy /\ composer' = Resting
          /\ UNCHANGED <<slots, worker, retained, engine>> /\ composer.stage = "deliver"
          /\ release["composer"].copy.slot = 0
          /\ release' = Releasing("composer", IF composer.copy = pending THEN composer.copy ELSE pending, TRUE)
      BY <1>0, <1>6 DEF OnCapturedComposition, Displacing, TypesInv, ReleaseOK, Busy
    <3>2. release' = Releasing("composer", pending, TRUE)
      BY <3>1
    <3>3. /\ SameLease(Releasing("composer", pending, TRUE)["composer"].copy, pending)
          /\ \A u \in Threads \ {"composer"} : Releasing("composer", pending, TRUE)[u] = release[u]
      BY <1>0, ReleasingHolds DEF TypesInv, AdapterOK, ReleaseOK
    <3> QED
      BY <1>0, <3>1, <3>2, <3>3
  <2>2. \A p \in Places : SameLease(Held(p)', Held(Turn("pending", "capture", "composer")[p]))
    BY <1>0, <1>a, <2>1, HeldAt, HeldAtNext DEF Turn, SameLease
  <2> QED
    BY <1>0, <2>1, <2>2, <1>a, LeasesTurned
<1>7. CASE ConversionTake
  <2>1. \A p \in Places : SameLease(Held(p)', Held(Turn("conversion", "pending", "conversion")[p]))
    BY <1>0, <1>a, <1>7, HeldAt, HeldAtNext DEF ConversionTake, Turn, SameLease, TypesInv, WorkerOK, Workers
  <2> QED
    BY <1>0, <1>7, <2>1, <1>a, LeasesTurned DEF ConversionTake
<1>8. CASE ConversionDiscard \/ ConversionUnchanged \/ (ConversionAssemble /\ ~ColorPanel)
  <2>1. /\ release["worker"].copy.slot = 0 /\ worker'.copy.slot = 0
        /\ \E locked \in BOOLEAN : release' = Releasing("worker", worker.copy, locked)
        /\ worker.copy \in Copies
        /\ UNCHANGED <<slots, composer, pending, retained, engine>>
    <3>1. /\ worker.stage \in {"converting", "checked"} /\ worker \in Workers
          /\ release["worker"].copy.slot = 0
      BY <1>0, <1>8 DEF ConversionDiscard, ConversionUnchanged, ConversionAssemble, TypesInv, WorkerOK,
                        ReleaseOK, Busy
    <3>2. CASE ConversionDiscard \/ ConversionUnchanged
      BY <1>0, <3>1, <3>2 DEF ConversionDiscard, ConversionUnchanged, ConversionEnds, Workers
    <3>3. CASE ConversionAssemble /\ ~ColorPanel
      <4>1. /\ worker' = [worker EXCEPT !.stage = "assembled", !.baseline = worker.copy.page,
                            !.copy = [worker.copy EXCEPT !.slot = 0, !.generation = 0]]
            /\ release' = Releasing("worker", worker.copy, FALSE)
            /\ UNCHANGED <<slots, composer, pending, retained, engine>>
        BY <3>3 DEF ConversionAssemble
      <4> QED
        BY <3>1, <4>1 DEF Workers, Copies
    <3> QED
      BY <1>8, <3>2, <3>3
  <2>2. /\ SameLease(release'["worker"].copy, worker.copy)
        /\ \A u \in Threads \ {"worker"} : release'[u] = release[u]
    BY <1>0, <2>1, ReleasingHolds DEF TypesInv, ReleaseOK
  <2>3. \A p \in Places : SameLease(Held(p)', Held(Turn("worker", "conversion", "worker")[p]))
    BY <1>0, <1>a, <2>1, <2>2, HeldAt, HeldAtNext DEF Turn, SameLease
  <2> QED
    BY <1>0, <2>1, <2>3, <1>a, LeasesTurned
<1>9. CASE ConversionAssemble /\ ColorPanel
  <2>1. worker'.copy = worker.copy /\ UNCHANGED <<slots, composer, pending, retained, engine, release>>
    BY <1>9 DEF ConversionAssemble, TypesInv, WorkerOK, Workers
  <2> QED
    BY <1>1, <2>1 DEF SameLease
<1>10. CASE ConversionEnqueue
  <2>1. /\ release["worker"].copy.slot = 0 /\ worker'.copy.slot = 0
        /\ release' = Releasing("worker", retained, TRUE) /\ retained' = worker.copy
        /\ retained \in Copies /\ release \in Releases
        /\ UNCHANGED <<slots, composer, pending, engine>>
    BY <1>0, <1>10
       DEF ConversionEnqueue, TypesInv, WorkerOK, Workers, AdapterOK, ReleaseOK, Busy
  <2>2. /\ SameLease(release'["worker"].copy, retained)
        /\ \A u \in Threads \ {"worker"} : release'[u] = release[u]
    <3>1. TRUE \in BOOLEAN
      OBVIOUS
    <3> QED
      BY <1>0, <2>1, <3>1, ReleasingHolds
  <2>3. \A p \in Places : SameLease(Held(p)', Held(Turn("retained", "conversion", "worker")[p]))
    <3> SUFFICES ASSUME NEW p \in Places
                 PROVE  SameLease(Held(p)', Held(Turn("retained", "conversion", "worker")[p]))
      OBVIOUS
    <3>1. CASE p \in Threads \ {"worker"}
      <4>1. Turn("retained", "conversion", "worker")[p] = p
        BY <1>a, <3>1 DEF Turn
      <4> QED
        BY <2>2, <3>1, <4>1, HeldAt, HeldAtNext DEF SameLease
    <3>2. CASE p = "worker"
      BY <1>0, <1>a, <2>1, <2>2, <3>2, NoCopyType, HeldAt, HeldAtNext DEF Turn, SameLease
    <3>3. CASE p \notin Threads
      BY <1>0, <1>a, <2>1, <2>2, <3>3, NoCopyType, HeldAt, HeldAtNext DEF Turn, SameLease
    <3> QED
      BY <3>1, <3>2, <3>3
  <2> QED
    BY <1>0, <2>1, <2>3, <1>a, LeasesTurned
<1>11. CASE SubmitTake
  <2>1. \A p \in Places : SameLease(Held(p)', Held(Turn("engine", "retained", "engine")[p]))
    BY <1>0, <1>a, <1>11, HeldAt, HeldAtNext DEF SubmitTake, Turn, SameLease
  <2> QED
    BY <1>0, <1>11, <2>1, <1>a, LeasesTurned DEF SubmitTake
<1>12. CASE SubmitAccept
  <2>1. /\ release["submitter"].copy.slot = 0 /\ engine' = NoCopy
        /\ release' = Releasing("submitter", engine, FALSE)
        /\ engine \in Copies /\ release \in Releases
        /\ UNCHANGED <<slots, composer, pending, worker, retained>>
    BY <1>0, <1>12 DEF SubmitAccept, TypesInv, AdapterOK, ReleaseOK, Busy
  <2>2. /\ SameLease(release'["submitter"].copy, engine)
        /\ \A u \in Threads \ {"submitter"} : release'[u] = release[u]
    <3>1. FALSE \in BOOLEAN
      OBVIOUS
    <3> QED
      BY <1>0, <2>1, <3>1, ReleasingHolds
  <2>3. \A p \in Places : SameLease(Held(p)', Held(Turn("submitter", "engine", "submitter")[p]))
    <3> SUFFICES ASSUME NEW p \in Places
                 PROVE  SameLease(Held(p)', Held(Turn("submitter", "engine", "submitter")[p]))
      OBVIOUS
    <3>1. CASE p \in Threads \ {"submitter"}
      <4>1. Turn("submitter", "engine", "submitter")[p] = p
        BY <1>a, <3>1 DEF Turn
      <4> QED
        BY <2>2, <3>1, <4>1, HeldAt, HeldAtNext DEF SameLease
    <3>2. CASE p = "submitter"
      BY <1>0, <1>a, <2>1, <2>2, <3>2, NoCopyType, HeldAt, HeldAtNext DEF Turn, SameLease
    <3>3. CASE p \notin Threads
      BY <1>0, <1>a, <2>1, <2>2, <3>3, NoCopyType, HeldAt, HeldAtNext DEF Turn, SameLease
    <3> QED
      BY <3>1, <3>2, <3>3
  <2> QED
    BY <1>0, <2>1, <2>3, <1>a, LeasesTurned
\* Steps that end a lease.
<1>13. ASSUME NEW t \in Threads, release[t].stage = "pool", Release(t)
       PROVE  LeasesOK'
  <2>1. ReleaseSlot(t) /\ release[t].copy.slot # 0
    BY <1>13 DEF Release, OnResourceReleased, RequestComposite, RequestRefused, Cancel, TypesInv,
                 ReleaseOK
  <2>2. /\ slots[release[t].copy.slot].state = "converting"
        /\ slots[release[t].copy.slot].generation = release[t].copy.generation
    BY <1>a, <2>1, HeldAt DEF LeasesOK, HeldInUse
  <2>3. /\ slots' = [slots EXCEPT ![release[t].copy.slot].state = "free"]
        /\ release' = [release EXCEPT ![t].stage = "bridge", ![t].copy = NoCopy]
        /\ UNCHANGED <<composer, pending, worker, retained, engine>>
    BY <2>1, <2>2 DEF ReleaseSlot, Matches
  <2>4. /\ release'[t].copy.slot = 0
        /\ \A u \in Threads \ {t} : release'[u] = release[u]
    BY <1>0, <2>3 DEF TypesInv, ReleaseOK, Releases
  <2>5. \A p \in Places \ {t} : SameLease(Held(p)', Held(p))
    <3> SUFFICES ASSUME NEW p \in Places \ {t}
                 PROVE  SameLease(Held(p)', Held(p))
      OBVIOUS
    <3>1. CASE p \in Threads
      BY <2>4, <3>1, HeldAt, HeldAtNext DEF SameLease
    <3>2. CASE p \notin Threads
      BY <1>a, <2>3, <3>2, HeldAt, HeldAtNext DEF SameLease
    <3> QED
      BY <3>1, <3>2
  <2> QED
    BY <1>a, <2>1, <2>3, <2>4, <2>5, HeldAt, HeldAtNext, LeaseReturned
<1>14. CASE CopyFails
  <2>1. /\ slots' = [slots EXCEPT ![composer.copy.slot].state = "free"]
        /\ composer'.copy = NoCopy /\ composer'.stage = "failed"
        /\ composer.stage = "copying" /\ composer.copy.slot # 0
        /\ UNCHANGED <<pending, worker, retained, engine, release>>
    BY <1>14 DEF CopyFails, FailedSlot, TypesInv, AccountsOK, ComposerOK
  <2>2. \A p \in Places \ {"capture"} : SameLease(Held(p)', Held(p))
    BY <1>a, <2>1, HeldAt, HeldAtNext DEF SameLease
  <2> QED
    BY <1>0, <1>a, <2>1, <2>2, HeldAt, HeldAtNext, LeaseReturned
<1>15. CASE HandOff
  <2>1. /\ slots' = [slots EXCEPT ![composer.copy.slot].state = "converting"]
        /\ composer'.copy = composer.copy /\ composer'.stage = "copied"
        /\ composer.stage = "copying" /\ composer.copy.slot \in Slots
        /\ UNCHANGED <<pending, worker, retained, engine, release>>
    BY <1>15 DEF HandOff, TypesInv, AccountsOK, ComposerOK, Copies
  <2>2. \A p \in Places : Held(p)' = Held(p)
    BY <1>a, <2>1, HeldAt, HeldAtNext
  <2>3. /\ slots'[composer.copy.slot].state = "converting"
        /\ slots'[composer.copy.slot].generation = slots[composer.copy.slot].generation
        /\ \A s \in Slots \ {composer.copy.slot} : slots'[s] = slots[s]
    BY <2>1 DEF TypesInv, ScreenOK, SlotStates
  <2>4. Apart'
    BY <2>2 DEF LeasesOK, Apart
  <2>5. InUseHeld'
    <3> SUFFICES ASSUME NEW s \in Slots, slots'[s].state # "free"
                 PROVE  \E p \in Places : Held(p).slot = s
      BY <2>2 DEF InUseHeld
    <3>1. CASE s = composer.copy.slot
      BY <1>a, <3>1, HeldAt
    <3>2. CASE s # composer.copy.slot
      BY <2>3, <3>2 DEF LeasesOK, InUseHeld
    <3> QED
      BY <3>1, <3>2
  <2>6. HeldInUse'
    <3> SUFFICES ASSUME NEW p \in Places, Held(p).slot # 0
                 PROVE  /\ slots'[Held(p).slot].generation = Held(p).generation
                        /\ slots'[Held(p).slot].state = "converting"
      BY <2>1, <2>2 DEF HeldInUse
    <3>1. /\ slots[Held(p).slot].generation = Held(p).generation
          /\ p # "capture" => slots[Held(p).slot].state = "converting"
      BY DEF LeasesOK, HeldInUse
    <3>2. CASE p = "capture"
      BY <2>3, <3>1, <3>2, HeldAt
    <3>3. CASE p # "capture"
      <4>1. Held(p).slot # composer.copy.slot
        BY <1>a, <3>3, HeldAt DEF LeasesOK, Apart
      <4>2. Held(p).slot \in Slots
        BY HeldType DEF Copies
      <4> QED
        BY <2>3, <3>1, <3>3, <4>1, <4>2
    <3> QED
      BY <3>2, <3>3
  <2> QED
    BY <2>4, <2>5, <2>6 DEF LeasesOK
<1>16. CASE Acquire
  <2>1. PICK s \in Free : /\ slots' = [slots EXCEPT ![s] = [state |-> "copying", generation |-> @.generation + 1]]
                          /\ composer' = [composer EXCEPT !.stage = "copying",
                                !.copy = [page |-> composer.page, slot |-> s,
                                          generation |-> slots[s].generation + 1]]
                          /\ UNCHANGED <<release, pending, worker, retained, engine>>
    BY <1>16 DEF Acquire
  <2>2. /\ s \in Slots /\ s # 0 /\ slots[s].state = "free"
        /\ slots'[s].state = "copying" /\ slots'[s].generation = slots[s].generation + 1
        /\ \A r \in Slots \ {s} : slots'[r] = slots[r]
    BY <2>1, CaptureAssumption DEF Free, Slots, TypesInv, ScreenOK, SlotStates
  <2>3. /\ composer.copy.slot = 0 /\ composer.stage = "attempt"
        /\ composer'.stage = "copying" /\ composer'.copy.slot = s
        /\ composer'.copy.generation = slots[s].generation + 1
    BY <1>16, <2>1 DEF Acquire, TypesInv, AccountsOK, ComposerOK
  <2>4. /\ Held("capture").slot = 0 /\ Held("capture").slot' = s
        /\ Held("capture").generation' = slots[s].generation + 1
        /\ \A p \in Places \ {"capture"} : Held(p)' = Held(p)
    BY <1>a, <2>1, <2>3, HeldAt, HeldAtNext
  <2>5. \A p \in Places : Held(p).slot # s
    BY <2>2 DEF LeasesOK, HeldInUse
  <2>6. Apart'
    BY <2>2, <2>4, <2>5 DEF LeasesOK, Apart
  <2>7. HeldInUse'
    <3> SUFFICES ASSUME NEW p \in Places, Held(p).slot' # 0
                 PROVE  /\ slots'[Held(p).slot'].generation = Held(p).generation'
                        /\ slots'[Held(p).slot'].state
                             = IF p = "capture" THEN "copying" ELSE "converting"
      BY <2>3 DEF HeldInUse
    <3>1. CASE p = "capture"
      BY <2>2, <2>4, <3>1
    <3>2. CASE p # "capture"
      <4>1. /\ slots[Held(p).slot].generation = Held(p).generation
            /\ slots[Held(p).slot].state = "converting"
        BY <2>4, <3>2 DEF LeasesOK, HeldInUse
      <4>2. Held(p).slot \in Slots
        BY <2>4, <3>2, HeldType DEF Copies
      <4> QED
        BY <2>2, <2>4, <2>5, <3>2, <4>1, <4>2
    <3> QED
      BY <3>1, <3>2
  <2>8. InUseHeld'
    <3> SUFFICES ASSUME NEW r \in Slots, slots'[r].state # "free"
                 PROVE  \E p \in Places : Held(p).slot' = r
      BY DEF InUseHeld
    <3>1. CASE r = s
      BY <1>a, <2>4, <3>1
    <3>2. CASE r # s
      <4>1. slots[r].state # "free" /\ r # 0
        BY <2>2, <3>2 DEF Slots
      <4>2. PICK p \in Places : Held(p).slot = r
        BY <4>1 DEF LeasesOK, InUseHeld
      <4> QED
        BY <2>4, <4>1, <4>2
    <3> QED
      BY <3>1, <3>2
  <2> QED
    BY <2>6, <2>7, <2>8 DEF LeasesOK
<1>17. CASE \E t \in Threads : Release(t)
  BY <1>4, <1>13, <1>17
<1>18. CASE Capture
  BY <1>2, <1>6, <1>14, <1>15, <1>16, <1>18 DEF Capture
<1>19. CASE Convert
  BY <1>3, <1>7, <1>8, <1>9, <1>10, <1>19 DEF Convert
<1> QED
  BY <1>2, <1>3, <1>5, <1>11, <1>12, <1>17, <1>18, <1>19 DEF Next, Submit

\* The leases at the start, and in every state: types and leases together.
LEMMA LeasesAlwaysOK == Spec => [](TypesInv /\ LeasesOK)
<1>1. Init => TypesInv /\ LeasesOK
  <2> SUFFICES ASSUME Init PROVE TypesInv /\ LeasesOK
    OBVIOUS
  <2>0. NoCopy \in Copies /\ NoCopy.slot = 0 /\ 0 \in Pages
    BY NoCopyType, CaptureAssumption DEF Pages
  <2>1. AccountsOK
    BY DEF Init, AccountsOK, Accounts, Obligations, Resting, Stages
  <2>2. ScreenOK
    BY <2>0 DEF Init, ScreenOK, SlotStates
  <2>3. ComposerOK /\ WorkerOK /\ AdapterOK
    BY <2>0 DEF Init, ComposerOK, WorkerOK, AdapterOK, Workers, WorkerStages, Resting
  <2>4. ReleaseOK
    <3>1. release = [t \in Threads |-> NoRelease] /\ composer.stage = "idle"
          /\ worker.stage = "waiting" /\ engine = NoCopy
      BY DEF Init, Resting
    <3>2. NoRelease \in [stage : ReleaseStages, copy : Copies, locked : BOOLEAN]
          /\ NoRelease.stage = "none" /\ NoRelease.copy.slot = 0
      BY <2>0 DEF NoRelease, ReleaseStages
    <3> QED
      BY <3>1, <3>2 DEF ReleaseOK, Releases, Busy
  <2>5. \A p \in Places : Held(p).slot = 0
    BY <2>0, HeldAt DEF Init, Resting, NoRelease, Places
  <2>6. LeasesOK
    BY <2>5 DEF Init, LeasesOK, Apart, HeldInUse, InUseHeld
  <2> QED
    BY <2>1, <2>2, <2>3, <2>4, <2>6 DEF TypesInv
<1> QED
  BY <1>1, TypesKept, LeasesKept, PTL DEF Spec

\* What the session keeps has the types the code declares, whatever goes wrong.
THEOREM TypesAlwaysOK == Spec => []TypeOK
<1>1. TypesInv => TypeOK
  BY DEF TypesInv, TypeOK, AccountsOK, ScreenOK, ComposerOK, WorkerOK, AdapterOK, SlotStates,
         Workers, WorkerStages
<1> QED
  BY <1>1, LeasesAlwaysOK, PTL

\* A slot that is not free is on lease to exactly one of capture, pipeline,
\* conversion worker, adapter, engine or a thread that is returning it, and in
\* the slot's own generation; so no sequence of copies, conversions, failures,
\* source switches and releases leaks a slot or returns one twice.
THEOREM SlotsHaveOneLease == Spec => []OneLeasePerSlot
<1>1. TypesInv /\ LeasesOK => OneLeasePerSlot
  <2> SUFFICES ASSUME TypesInv, LeasesOK, NEW s \in Slots
               PROVE  /\ Cardinality(Holders(s)) = One(slots[s].state # "free")
                      /\ \A p \in Holders(s) : Held(p).generation = slots[s].generation
                      /\ slots[s].state = "copying" <=>
                           composer.stage = "copying" /\ composer.copy.slot = s
    BY DEF OneLeasePerSlot
  <2>0. s # 0 /\ "capture" \in Places
    BY DEF Slots, Places
  <2>1. \A p \in Holders(s) : /\ slots[s].generation = Held(p).generation
                              /\ slots[s].state = IF p = "capture" /\ composer.stage = "copying"
                                                  THEN "copying" ELSE "converting"
    BY <2>0 DEF Holders, LeasesOK, HeldInUse
  <2>2. CASE slots[s].state = "free"
    <3>1. Holders(s) = {}
      BY <2>1, <2>2
    <3>2. ~(composer.stage = "copying" /\ composer.copy.slot = s)
      BY <2>0, <3>1, HeldAt DEF Holders
    <3> QED
      BY <2>2, <3>1, <3>2, FS_EmptySet DEF One
  <2>3. CASE slots[s].state # "free"
    <3>1. PICK p \in Places : Held(p).slot = s
      BY <2>3 DEF LeasesOK, InUseHeld
    <3>2. Holders(s) = {p}
      BY <2>0, <3>1 DEF Holders, LeasesOK, Apart
    <3>3. Cardinality(Holders(s)) = 1
      BY <3>2, FS_Singleton
    <3>4. slots[s].state = "copying" <=> p = "capture" /\ composer.stage = "copying"
      BY <2>1, <3>2
    <3>5. composer.copy.slot = s <=> p = "capture"
      BY <2>0, <3>2, HeldAt DEF Holders
    <3> QED
      BY <2>1, <2>3, <3>3, <3>4, <3>5 DEF One
  <2> QED
    BY <2>2, <2>3
<1> QED
  BY <1>1, LeasesAlwaysOK, PTL

=============================================================================
