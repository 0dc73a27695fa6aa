----------------------------- MODULE FrameSlot -----------------------------
(***************************************************************************)
(* What PresentationAdapter promises the pipeline, without threads, clocks *)
(* or wake-ups: one slot in which the newest frame replaces the older one, *)
(* one frame at a time in the engine's hands, and nothing accepted or      *)
(* handed over once the adapter is closed.  A frame is any record with the *)
(* fields  epoch  (sleep_image_epoch, 0 for an ordinary frame) and         *)
(* request  (diagnostic_request, 0 for none).                              *)
(*                                                                         *)
(* PresentationAdapter implements this specification; EinkPipeline and the *)
(* modules that compose with it use these actions for their adapter.       *)
(***************************************************************************)
EXTENDS Naturals

CONSTANTS Frames,   \* the frames a caller may enqueue
          NoFrame   \* the empty slot

VARIABLES state,    \* "fresh" before Start, "open", "closed" once Stop begins
          slot,     \* the pending frame
          call      \* the engine call: its stage, frame and answer

slotVars == <<state, slot, call>>

Idle == [stage |-> "idle", frame |-> NoFrame, accepted |-> FALSE]

\* A frame that replaces a pending one takes over its diagnostic request,
\* unless it brings its own or is a sleep frame.
Coalesce(new, old) ==
  IF old # NoFrame /\ new.epoch = 0 /\ new.request = 0
  THEN [new EXCEPT !.request = old.request]
  ELSE new

Holds(f) == slot # NoFrame /\ slot = f

Open == /\ state = "fresh"
        /\ state' = "open"
        /\ UNCHANGED <<slot, call>>

Put(f) == /\ state = "open"
          /\ slot' = Coalesce(f, slot)
          /\ UNCHANGED <<state, call>>

\* An in-flight submission is never withdrawn, only the pending candidate.
WithdrawSleep(e) == /\ slot # NoFrame
                    /\ e # 0
                    /\ slot.epoch = e
                    /\ slot' = NoFrame
                    /\ UNCHANGED <<state, call>>

WithdrawDiagnostic == /\ slot # NoFrame
                      /\ slot.request # 0
                      /\ slot' = [slot EXCEPT !.request = 0]
                      /\ UNCHANGED <<state, call>>

\* The worker hands the pending frame to the engine.
Take == /\ state = "open"
        /\ slot # NoFrame
        /\ call.stage = "idle"
        /\ call' = [stage |-> "submit", frame |-> slot, accepted |-> FALSE]
        /\ slot' = NoFrame
        /\ UNCHANGED state

\* Submit returns; the observer has not run yet.
Answer(ok) == /\ call.stage = "submit"
              /\ call' = [stage |-> "answered", frame |-> call.frame, accepted |-> ok]
              /\ UNCHANGED <<state, slot>>

\* The observer has run: the worker is free for the next frame.
Observe == /\ call.stage = "answered"
           /\ call' = Idle
           /\ UNCHANGED <<state, slot>>

Close == /\ state = "open"
         /\ state' = "closed"
         /\ slot' = NoFrame
         /\ UNCHANGED call

Init == state = "fresh" /\ slot = NoFrame /\ call = Idle

Next == \/ Open
        \/ Close
        \/ \E f \in Frames : Put(f)
        \/ \E f \in Frames : WithdrawSleep(f.epoch)
        \/ WithdrawDiagnostic
        \/ Take
        \/ \E ok \in BOOLEAN : Answer(ok)
        \/ Observe

Spec == Init /\ [][Next]_slotVars
=============================================================================
