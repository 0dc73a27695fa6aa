----------------------------- MODULE MicroDelta -----------------------------
(***************************************************************************)
(* MicroDeltaPolicy with the caller its header describes: small changes of *)
(* the system chrome are held until a deadline, an equivalent change after *)
(* an expiry is suppressed until the repeat deadline, anything else is     *)
(* submitted at once.  The pipeline does not use it.  A change is abstract *)
(* where IsMicro and IsEquivalent look at rectangles: a place along the    *)
(* edge band, or none for a change that is not micro; two places are       *)
(* equivalent when they lie within MoveLimit of each other.                *)
(***************************************************************************)
EXTENDS Integers

CONSTANTS Places, MoveLimit, Settle, Repeat, MaxNow

VARIABLES now,
          signature,     \* the place of the change held or last submitted
          microDeadline,
          deferred, repeatGuard,
          waitingSince   \* when the caller began to hold back its candidate

microVars == <<now, signature, microDeadline, deferred, repeatGuard, waitingSince>>

Never == -1
Nowhere == -1
Substantive == -2   \* no delta, or one IsMicro refuses

Init ==
  /\ now = 0 /\ signature = Nowhere /\ microDeadline = Never
  /\ deferred = FALSE /\ repeatGuard = FALSE /\ waitingSince = Never

IsMicro(change) == change \in Places
IsEquivalent(change) ==
  /\ IsMicro(change)
  /\ change - signature \in -MoveLimit..MoveLimit

RepeatExpired == repeatGuard /\ microDeadline # Never /\ now >= microDeadline

Reset == signature' = Nowhere /\ microDeadline' = Never /\ deferred' = FALSE /\ repeatGuard' = FALSE

\* The caller holds back the newest candidate; the wait began with the oldest.
Holds == waitingSince' = IF waitingSince = Never THEN now ELSE waitingSince

SubmitSubstantive(change) ==
  /\ ~IsMicro(change)
  /\ IF deferred \/ (repeatGuard /\ ~RepeatExpired) THEN Reset
     ELSE IF RepeatExpired THEN signature' = Nowhere /\ microDeadline' = Never
                                /\ repeatGuard' = FALSE /\ UNCHANGED deferred
     ELSE UNCHANGED <<signature, microDeadline, deferred, repeatGuard>>
  /\ waitingSince' = Never
  /\ UNCHANGED now

HoldFirst(change) ==
  /\ IsMicro(change) /\ (signature = Nowhere \/ RepeatExpired)
  /\ signature' = change
  /\ microDeadline' = now + Settle
  /\ deferred' = TRUE
  /\ repeatGuard' = FALSE
  /\ Holds
  /\ UNCHANGED now

SubmitPromoted(change) ==
  /\ IsMicro(change) /\ signature # Nowhere /\ ~RepeatExpired /\ ~IsEquivalent(change)
  /\ Reset
  /\ waitingSince' = Never
  /\ UNCHANGED now

\* Mistaken: every equivalent change starts the wait again.
HoldAgainLonger(change) ==
  /\ IsMicro(change) /\ signature # Nowhere /\ ~RepeatExpired /\ IsEquivalent(change)
  /\ signature' = change
  /\ deferred' = TRUE
  /\ microDeadline' = now + Settle
  /\ Holds
  /\ UNCHANGED <<now, repeatGuard>>

\* Held until the deadline already set, or suppressed until the repeat's.
HoldAgain(change) ==
  /\ IsMicro(change) /\ signature # Nowhere /\ ~RepeatExpired /\ IsEquivalent(change)
  /\ signature' = change
  /\ deferred' = TRUE
  /\ Holds
  /\ UNCHANGED <<now, microDeadline, repeatGuard>>

\* The caller submits its candidate at Deadline().
MarkExpirySubmitted ==
  /\ deferred /\ now >= microDeadline
  /\ deferred' = FALSE
  /\ repeatGuard' = TRUE
  /\ microDeadline' = now + Repeat
  /\ waitingSince' = Never
  /\ UNCHANGED <<now, signature>>

\* A pause or a changed configuration: the caller drops its candidate.
CallerResets ==
  /\ Reset
  /\ waitingSince' = Never
  /\ UNCHANGED now

\* The caller's timer wakes it at the deadline, before time goes on.
Tick ==
  /\ now < MaxNow
  /\ deferred => now < microDeadline
  /\ now' = now + 1
  /\ UNCHANGED <<signature, microDeadline, deferred, repeatGuard, waitingSince>>

Evaluate(change) ==
  SubmitSubstantive(change) \/ HoldFirst(change) \/ SubmitPromoted(change) \/ HoldAgain(change)

Next ==
  \/ \E change \in Places \cup {Substantive} : Evaluate(change)
  \/ MarkExpirySubmitted \/ CallerResets \/ Tick

Spec == Init /\ [][Next]_microVars

-----------------------------------------------------------------------------
\* Every variable has its type.
MicroTypeOK ==
  /\ now \in 0..MaxNow /\ signature \in Places \cup {Nowhere}
  /\ microDeadline \in {Never} \cup Nat /\ deferred \in BOOLEAN /\ repeatGuard \in BOOLEAN

\* A candidate is never held back without a deadline, and never longer than one
\* repeat window and one settle time, however many equivalent changes keep
\* coming and wherever they drift.
HeldWithinBound ==
  deferred => /\ microDeadline # Never /\ signature # Nowhere
              /\ waitingSince # Never /\ now - waitingSince <= Repeat + Settle
=============================================================================
