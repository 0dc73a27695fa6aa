------------------------------ MODULE FrontLight ------------------------------
(***************************************************************************)
(* The front light: Neo2FrontLightManagerService in the system server,     *)
(* which owns the desired state and turns the light off with the screen,   *)
(* and the process-lifetime control in SurfaceFlinger, which resolves a    *)
(* request and writes up to four controller channels.                      *)
(*                                                                         *)
(* The manager's binder threads only stamp a request with a new generation *)
(* and post it; one handler thread does everything else, and calls         *)
(* SurfaceFlinger while further requests are stamped.  A generation is     *)
(* only ever compared with the latest one: a message, the pending request  *)
(* and the call underway carry `current`, which a new generation clears.   *)
(* The last nonzero brightness and warmth always equal the desired ones,   *)
(* and the marker of the first initialisation decides nothing: both are    *)
(* left out, as are requests out of range, which are answered and dropped. *)
(***************************************************************************)
EXTENDS FrontLightPolicy, Sequences

CONSTANTS
  None,
  Calibration,        \* its tables
  Multiple, WarmPercentage, \* its cap and warm scaling
  Boards,             \* calibration file and channels of the devices considered
  Brightnesses, Warmths, \* of the requests
  MaxRequests,        \* bound: requests
  MaxOffs,            \* bound: times the screen turns off
  MaxUpsets           \* bound: failed writes and restarts

Payloads == {"absent", "malformed", "direct", "calibrated"}

ASSUME FrontLightAssumption ==
  /\ \A b \in Boards : b.payload \in Payloads
  /\ Brightnesses \subseteq Percent /\ Warmths \subseteq Percent
  /\ {MaxRequests, MaxOffs, MaxUpsets} \subseteq Nat

VARIABLES
  display, setup_complete,   \* the display; USER_SETUP_COMPLETE
  settings,                  \* the persisted state, None at first
  posting,                   \* stamped by a binder thread, not posted yet
  inbox,                     \* messages of the handler
  calling,                   \* the request whose result the handler awaits
  mPending, mDrainScheduled,
  mStateLoaded, mSetupComplete, mDisplayOn, mWakeRestorePending,
  mOffCompleted,             \* mCompletedOffEpoch = mScreenEpoch
  mEnabled, mDesiredBrightness, mDesiredWarmth,
  board, \* [payload, endpoints]: of each channel writable, missing or denied
  failure_latched,
  lights,                    \* the codes last written
  requests, offs, upsets

worldVars == <<display, setup_complete, offs>>
desiredVars == <<mEnabled, mDesiredBrightness, mDesiredWarmth, settings>>
screenVars == <<mDisplayOn, mWakeRestorePending, mOffCompleted>>
bootVars == <<mStateLoaded, mSetupComplete>>
queueVars == <<inbox, mPending, mDrainScheduled>>
binderVars == <<posting, requests>>
deviceVars == <<failure_latched, lights>>
vars == <<worldVars, desiredVars, screenVars, bootVars, queueVars, binderVars, calling,
          board, deviceVars, upsets>>

Upset == upsets < MaxUpsets /\ upsets' = upsets + 1

(* Mistakes the code could make, never part of the specification. *)
UserRequestAnyway(request) == request
RestoreAtOnce == TRUE
NeverRestores == FALSE

----------------------------------------------------------------------------
(* SurfaceFlinger: preflight, resolution and the writes *)

INITIAL_BRIGHTNESS == 50
INITIAL_WARMTH == 50

WriteOrder == <<"warm_primary", "warm_secondary", "cold_primary", "cold_secondary">>
Channels == {WriteOrder[i] : i \in 1..4}
Primaries == {"warm_primary", "cold_primary"}
WarmChannels == {"warm_primary", "warm_secondary"}

\* A secondary channel may be absent, but none may be forbidden.
PreflightSucceeds ==
  /\ \/ board.payload = "direct" /\ IsValidFrontLightBrightnessCodes(Calibration.codes)
     \/ board.payload = "calibrated" /\ IsValidFrontLightCalibration(Calibration)
  /\ \A c \in Primaries : board.endpoints[c] = "writable"
  /\ \A c \in Channels : board.endpoints[c] # "denied"

Resolved ==
  [payload \in Payloads, brightness \in Brightnesses \cup {0, INITIAL_BRIGHTNESS}, warmth \in Warmths \cup {0, INITIAL_WARMTH} |->
     IF payload = "direct"
     THEN ResolveDirectFrontLightPercent(Calibration.codes, brightness, warmth)
     ELSE ResolveFrontLightPercent(Calibration, brightness, warmth, Multiple, WarmPercentage)]

Code(brightness, warmth, channel) ==
  IF channel \in WarmChannels THEN Resolved[board.payload, brightness, warmth].warm
  ELSE Resolved[board.payload, brightness, warmth].cold

\* The channels after the first n of the writes.
Written(n, brightness, warmth) ==
  [c \in Channels |->
     IF board.endpoints[c] = "writable" /\ \E i \in 1..n : WriteOrder[i] = c
     THEN Code(brightness, warmth, c) ELSE lights[c]]

Results == {"off", "capped", "applied", "unavailable", "failed"}

Outcome(brightness, warmth) ==
  IF brightness = 0 THEN "off"
  ELSE IF Resolved[board.payload, brightness, warmth].capped THEN "capped" ELSE "applied"

\* ManualFrontLightControl::Apply: the first failure is kept for the life of
\* the process, and leaves the channels written before it changed.  The manager
\* treats the answers failure_latched and unavailable alike.
Unavailable == failure_latched \/ ~PreflightSucceeds

Apply(brightness, warmth, result) ==
  \/ /\ Unavailable /\ result = "unavailable"
     /\ UNCHANGED <<lights, failure_latched, upsets>>
  \/ /\ ~Unavailable /\ result = Outcome(brightness, warmth)
     /\ lights' = Written(Len(WriteOrder), brightness, warmth)
     /\ UNCHANGED <<failure_latched, upsets>>
  \/ /\ ~Unavailable /\ result = "failed"
     /\ Upset
     /\ \E i \in 1..Len(WriteOrder) :
          board.endpoints[WriteOrder[i]] = "writable" /\ lights' = Written(i - 1, brightness, warmth)
     /\ failure_latched' = TRUE

----------------------------------------------------------------------------
(* Requests and messages *)

Message(what) == [what |-> what, current |-> TRUE, brightness |-> 0, warmth |-> 0]
OffRequest == [kind |-> "off", current |-> TRUE, brightness |-> 0, warmth |-> 0]
UserRequest(kind) ==
  [kind |-> kind, current |-> TRUE, brightness |-> mDesiredBrightness', warmth |-> mDesiredWarmth']

Stale(item) == IF item = None THEN None ELSE [item EXCEPT !.current = FALSE]
Superseded(messages) == [i \in DOMAIN messages |-> Stale(messages[i])]

Init ==
  /\ display = "on" /\ setup_complete = FALSE /\ settings = None
  /\ posting = None /\ inbox = <<Message("load")>> /\ calling = None
  /\ mPending = None /\ mDrainScheduled = FALSE
  /\ mStateLoaded = FALSE /\ mSetupComplete = FALSE /\ mDisplayOn = FALSE
  /\ mWakeRestorePending = FALSE /\ mOffCompleted = FALSE
  /\ mEnabled = TRUE /\ mDesiredBrightness = INITIAL_BRIGHTNESS /\ mDesiredWarmth = INITIAL_WARMTH
  /\ board \in Boards
  /\ failure_latched = FALSE
  /\ lights = [c \in Channels |-> 0]
  /\ requests = 0 /\ offs = 0 /\ upsets = 0

\* A binder thread takes the next generation, and posts afterwards.
SubmitBegin ==
  /\ posting = None /\ requests < MaxRequests
  /\ requests' = requests + 1
  /\ \E what \in {"manual", "brightness", "warmth", "enable", "disable"},
        b \in Brightnesses, w \in Warmths :
       /\ what \notin {"manual", "brightness"} => b = 0
       /\ what \notin {"manual", "warmth"} => w = 0
       /\ posting' = [Message(what) EXCEPT !.brightness = b, !.warmth = w]
  /\ inbox' = Superseded(inbox) /\ mPending' = Stale(mPending) /\ calling' = Stale(calling)
  /\ UNCHANGED <<worldVars, desiredVars, screenVars, bootVars, mDrainScheduled, board,
                 deviceVars, upsets>>

SubmitPost ==
  /\ posting # None
  /\ inbox' = Append(inbox, posting) /\ posting' = None
  /\ UNCHANGED <<worldVars, desiredVars, screenVars, bootVars, mPending, mDrainScheduled,
                 requests, calling, board, deviceVars, upsets>>

----------------------------------------------------------------------------
(* The handler.  Of a message handled, `rest` is what is left of the inbox. *)

Handling(what) == calling = None /\ inbox # <<>> /\ Head(inbox).what = what

\* scheduleDrain
PostDrain(rest) ==
  /\ inbox' = IF mDrainScheduled THEN rest ELSE Append(rest, Message("drain"))
  /\ mDrainScheduled' = TRUE

NothingQueued(rest) == inbox' = rest /\ UNCHANGED mDrainScheduled

\* A new generation of the handler's own.
NewGeneration(rest) ==
  posting' = Stale(posting) /\ UNCHANGED calling /\ PostDrain(Superseded(rest))

\* selectPhysicalRequest, on the desired state as just changed.
PhysicalRequest(request) ==
  IF ~mDisplayOn' \/ mWakeRestorePending \/ ~mEnabled' THEN OffRequest ELSE request

\* queueDesiredOrOff of a request of the latest generation.
QueueDesiredOrOff(kind, rest) ==
  IF ~mStateLoaded' \/ ~mSetupComplete' THEN NothingQueued(rest) /\ UNCHANGED mPending
  ELSE IF ~mDisplayOn' /\ mOffCompleted THEN NothingQueued(rest) /\ mPending' = None
  ELSE PostDrain(rest) /\ mPending' = PhysicalRequest(UserRequest(kind))

PersistState ==
  settings' = [enabled |-> mEnabled', brightness |-> mDesiredBrightness', warmth |-> mDesiredWarmth']

\* Brightness 0 disables the light and keeps what was desired.
UpdateDesired(brightness, warmth) ==
  IF brightness > 0
  THEN mEnabled' = TRUE /\ mDesiredBrightness' = brightness /\ mDesiredWarmth' = warmth
  ELSE mEnabled' = FALSE /\ UNCHANGED <<mDesiredBrightness, mDesiredWarmth>>

HandlerRest == UNCHANGED <<worldVars, requests, board, upsets>>

Gestures == {"manual", "brightness", "warmth", "enable", "disable"}

DesiredAfter(message) ==
  CASE message.what = "manual" -> UpdateDesired(message.brightness, message.warmth)
    [] message.what = "brightness" -> UpdateDesired(message.brightness, mDesiredWarmth)
    [] message.what = "warmth" -> UpdateDesired(mDesiredBrightness, message.warmth)
    [] OTHER -> /\ mEnabled' = (message.what = "enable")
                /\ UNCHANGED <<mDesiredBrightness, mDesiredWarmth>>

\* queueManual, queueBrightness, queueWarmth, queueEnabled
HandleGesture ==
  /\ \E what \in Gestures : Handling(what)
  /\ IF Head(inbox).current
     THEN /\ DesiredAfter(Head(inbox)) /\ PersistState
          /\ UNCHANGED <<screenVars, bootVars>>
          /\ QueueDesiredOrOff("user", Tail(inbox))
     ELSE /\ inbox' = Tail(inbox)
          /\ UNCHANGED <<desiredVars, screenVars, bootVars, mPending, mDrainScheduled>>
  /\ UNCHANGED <<posting, calling, deviceVars>>
  /\ HandlerRest

\* handleSetupStateChanged, also the end of loadState.
SetupStateChanged(rest) ==
  IF setup_complete /\ ~mSetupComplete
  THEN /\ mSetupComplete' = TRUE
       /\ posting' = Stale(posting) /\ UNCHANGED calling
       /\ QueueDesiredOrOff("initialization", Superseded(rest))
  ELSE NothingQueued(rest) /\ UNCHANGED <<mSetupComplete, mPending, posting, calling>>

LoadState ==
  /\ Handling("load")
  /\ IF settings = None
     THEN UNCHANGED <<mEnabled, mDesiredBrightness, mDesiredWarmth>>
     ELSE /\ mEnabled' = settings.enabled
          /\ mDesiredBrightness' = settings.brightness /\ mDesiredWarmth' = settings.warmth
  /\ mDisplayOn' = (display = "on")
  /\ mStateLoaded' = TRUE
  /\ PersistState
  /\ UNCHANGED <<mWakeRestorePending, mOffCompleted>>
  /\ SetupStateChanged(Tail(inbox))
  /\ UNCHANGED deviceVars
  /\ HandlerRest

HandleSetup ==
  /\ Handling("setup")
  /\ UNCHANGED <<desiredVars, screenVars, mStateLoaded, deviceVars>>
  /\ IF mStateLoaded THEN SetupStateChanged(Tail(inbox))
     ELSE inbox' = Tail(inbox)
          /\ UNCHANGED <<mSetupComplete, mPending, mDrainScheduled, posting, calling>>
  /\ HandlerRest

\* queueDesired
RestoreRequest == IF mEnabled THEN UserRequest("restore") ELSE OffRequest

RestoreNow == mOffCompleted

HandleDisplay ==
  /\ Handling("display")
  /\ UNCHANGED <<desiredVars, bootVars, deviceVars>>
  /\ IF ~mStateLoaded \/ mDisplayOn = (display = "on")
     THEN /\ inbox' = Tail(inbox)
          /\ UNCHANGED <<screenVars, mPending, mDrainScheduled, posting, calling>>
     ELSE IF mDisplayOn
     THEN \* handleDisplayOff
          /\ mDisplayOn' = FALSE /\ mWakeRestorePending' = FALSE /\ mOffCompleted' = FALSE
          /\ mPending' = OffRequest
          /\ NewGeneration(Tail(inbox))
     ELSE \* handleDisplayOn
          /\ mDisplayOn' = TRUE
          /\ UNCHANGED mOffCompleted
          /\ IF mSetupComplete /\ RestoreNow
             THEN /\ mWakeRestorePending' = FALSE
                  /\ mPending' = RestoreRequest
                  /\ NewGeneration(Tail(inbox))
             ELSE /\ mWakeRestorePending' = (mSetupComplete \/ mWakeRestorePending)
                  /\ inbox' = Tail(inbox)
                  /\ UNCHANGED <<mPending, mDrainScheduled, posting, calling>>
  /\ HandlerRest

\* continueDrain
ContinueDrain(pending, rest) ==
  IF pending # None THEN inbox' = Append(rest, Message("drain")) /\ UNCHANGED mDrainScheduled
  ELSE inbox' = rest /\ mDrainScheduled' = FALSE

Drains == mPending # None /\ mPending.current

\* drainOne up to the call.
DrainCalls(result) ==
  /\ Handling("drain")
  /\ Drains
  /\ Apply(mPending.brightness, mPending.warmth, result)
  /\ calling' = [kind |-> mPending.kind, current |-> TRUE, result |-> result]
  /\ mPending' = None
  /\ inbox' = Tail(inbox)
  /\ UNCHANGED <<worldVars, desiredVars, screenVars, bootVars, mDrainScheduled, binderVars,
                 board>>

\* Nothing pending, or superseded meanwhile.
DrainSkips ==
  /\ Handling("drain")
  /\ ~Drains
  /\ mPending' = None
  /\ inbox' = Tail(inbox) /\ mDrainScheduled' = FALSE
  /\ UNCHANGED <<desiredVars, screenVars, bootVars, posting, calling, deviceVars>>
  /\ HandlerRest

\* consumeCurrentResult and the end of drainOne.  A result that is no longer
\* current, even that of turning the light off, is forgotten.
ConsumesOff == calling.current /\ calling.kind = "off"

DrainReturns ==
  /\ calling # None
  /\ calling' = None
  /\ UNCHANGED <<desiredVars, bootVars, mDisplayOn, deviceVars>>
  /\ IF ConsumesOff
     THEN /\ mWakeRestorePending' = FALSE
          /\ mOffCompleted' = (mOffCompleted \/ calling.result = "off")
          /\ IF calling.result = "off" /\ mWakeRestorePending /\ mDisplayOn
             THEN /\ mPending' = RestoreRequest
                  /\ posting' = Stale(posting)
                  /\ ContinueDrain(mPending', Superseded(inbox))
             ELSE UNCHANGED <<mPending, posting>> /\ ContinueDrain(mPending, inbox)
     ELSE /\ UNCHANGED <<mWakeRestorePending, mOffCompleted, mPending, posting>>
          /\ ContinueDrain(mPending, inbox)
  /\ HandlerRest

Handler ==
  \/ HandleGesture \/ LoadState \/ HandleSetup \/ HandleDisplay
  \/ (\E result \in Results : DrainCalls(result)) \/ DrainSkips \/ DrainReturns

----------------------------------------------------------------------------
(* Outside *)

OutsideRest == UNCHANGED <<desiredVars, screenVars, bootVars, mPending, mDrainScheduled, binderVars,
                           calling, board, deviceVars, upsets>>

\* Every change of the display posts a message; what it says is read later.
DisplayTurnsOff ==
  /\ display = "on" /\ offs < MaxOffs
  /\ display' = "off" /\ offs' = offs + 1
  /\ inbox' = Append(inbox, Message("display"))
  /\ UNCHANGED setup_complete
  /\ OutsideRest

DisplayTurnsOn ==
  /\ display = "off"
  /\ display' = "on"
  /\ inbox' = Append(inbox, Message("display"))
  /\ UNCHANGED <<setup_complete, offs>>
  /\ OutsideRest

SetupCompletes ==
  /\ ~setup_complete
  /\ setup_complete' = TRUE
  /\ inbox' = Append(inbox, Message("setup"))
  /\ UNCHANGED <<display, offs>>
  /\ OutsideRest

\* The framework and SurfaceFlinger go down together, perhaps in the middle of
\* the writes.  The controllers and the settings keep what they have.
Restart ==
  /\ Upset
  /\ \/ UNCHANGED lights
     \/ /\ Handling("drain") /\ Drains /\ ~Unavailable
        /\ \E n \in 1..Len(WriteOrder) : lights' = Written(n, mPending.brightness, mPending.warmth)
  /\ failure_latched' = FALSE
  /\ display' = "on"
  /\ posting' = None /\ inbox' = <<Message("load")>> /\ calling' = None
  /\ mPending' = None /\ mDrainScheduled' = FALSE
  /\ mStateLoaded' = FALSE /\ mSetupComplete' = FALSE /\ mDisplayOn' = FALSE
  /\ mWakeRestorePending' = FALSE /\ mOffCompleted' = FALSE
  /\ mEnabled' = TRUE
  /\ mDesiredBrightness' = INITIAL_BRIGHTNESS /\ mDesiredWarmth' = INITIAL_WARMTH
  /\ UNCHANGED <<setup_complete, settings, board, requests, offs>>

Outside == DisplayTurnsOff \/ DisplayTurnsOn \/ SetupCompletes \/ Restart

Next == SubmitBegin \/ SubmitPost \/ Handler \/ Outside

Spec == Init /\ [][Next]_vars

\* A thread that has stamped a request posts it, and the handler runs.
FairSpec == Spec /\ WF_vars(SubmitPost) /\ WF_vars(Handler)

----------------------------------------------------------------------------
(* Properties *)

Messages == [what : Gestures \cup {"load", "setup", "display", "drain"}, current : BOOLEAN,
             brightness : Percent, warmth : Percent]
Kinds == {"off", "user", "initialization", "restore"}
Requests == [kind : Kinds, current : BOOLEAN, brightness : Percent, warmth : Percent]
Calls == [kind : Kinds, current : BOOLEAN, result : Results]
States == [enabled : BOOLEAN, brightness : 1..100, warmth : Percent]

\* The absence of a message, request, call or state is none of these.
ASSUME NoneAssumption == None \notin Messages \cup Requests \cup Calls \cup States

FlagsOK ==
  /\ setup_complete \in BOOLEAN /\ mDrainScheduled \in BOOLEAN /\ mStateLoaded \in BOOLEAN
  /\ mSetupComplete \in BOOLEAN /\ mDisplayOn \in BOOLEAN /\ mWakeRestorePending \in BOOLEAN
  /\ mOffCompleted \in BOOLEAN /\ mEnabled \in BOOLEAN /\ failure_latched \in BOOLEAN

DesiredOK ==
  /\ mDesiredBrightness \in 1..100 /\ mDesiredWarmth \in Percent
  /\ settings \in States \cup {None}

QueueOK ==
  /\ inbox \in Seq(Messages)
  /\ posting = None \/ (posting \in Messages /\ posting.what \in Gestures)
  /\ mPending \in Requests \cup {None} /\ calling \in Calls \cup {None}

\* Every variable holds a value of its type; the brightness to return to is
\* never zero, whatever was requested or stored.
TypeOK ==
  /\ FlagsOK /\ DesiredOK /\ QueueOK
  /\ display \in {"on", "off"} /\ DOMAIN lights = Channels
  /\ requests \in Nat /\ offs \in Nat /\ upsets \in Nat

Quiet == mStateLoaded /\ mSetupComplete /\ inbox = <<>> /\ posting = None /\ calling = None

DarkCode(c) == Code(0, 0, c)

Wanted(c) == IF mDisplayOn /\ mEnabled THEN Code(mDesiredBrightness, mDesiredWarmth, c)
             ELSE DarkCode(c)

Fitting == \A c \in Channels : board.endpoints[c] = "writable" => lights[c] = Wanted(c)

\* Whatever gestures, sleeps and wakes came between, stamped and handled in
\* whatever order: once nothing is underway every channel of the board has the
\* code of the desired state, or of darkness while the display is off.
LightMatches == Quiet /\ ~Unavailable => Fitting

\* No channel is lit, not even by a call that fails half-way, unless the
\* display is on and the off of the sleep before was confirmed.
LitOnlyAwake ==
  [][ (\E c \in Channels : lights'[c] # lights[c] /\ lights'[c] # DarkCode(c)) =>
        /\ mDisplayOn /\ ~mWakeRestorePending
        /\ (mPending.kind = "restore" => mOffCompleted) ]_vars

\* ANDROID14.md:67 "Restore the user's desired light state, including disabled
\* light, on wake".
WakeRestores ==
  (display = "on" /\ setup_complete) ~>
    (display = "off" \/ Unavailable \/ (mDisplayOn /\ Fitting))
=============================================================================
