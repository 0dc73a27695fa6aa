----------------------------- MODULE LowerEngine -----------------------------
(***************************************************************************)
(* LowerEngineDirectBackend of the device tree: its one initialisation per *)
(* process, and Submit, which hands the retained vendor engine one frame,  *)
(* or on a colour panel a white frame followed by its target.              *)
(*                                                                         *)
(* Submit holds the backend's mutex from start to end, but the engine, the *)
(* clock, the debug properties and the three process-wide colour settings  *)
(* move on while it does, so it is several steps here.  The vendor library *)
(* is external: it accepts or refuses an image, numbers the accepted and   *)
(* refused ones alike, overwrites an image that has not started with the   *)
(* next one, and starts the latest when it likes.                          *)
(*                                                                         *)
(* A frame is a record [image, kind].  "page" is an ordinary differential  *)
(* frame, "sleep" a sleep image; the other kinds carry a diagnostic        *)
(* request.  The three debug-build quality gaps are 0, their default.  A   *)
(* Submit that is refused outright (no live engine, presentation off, too  *)
(* early, over the limit) only counts, and is not a step.                  *)
(***************************************************************************)
EXTENDS Integers, FiniteSets

CONSTANTS Images,         \* what a frame shows
          NoImage,        \* nothing
          Kinds,          \* the kinds of frames, a subset of AllKinds
          ColorPanel,     \* has_color_cfa: the Aura C profile
          OceanPanel,     \* the Ocean profile
          HardLimit,      \* kM4HardSubmissionLimit
          Limits,         \* values of debug.neo2.eink.max_updates
          Intervals,      \* values of min_interval_ms, in ticks
          GuardTimeout,   \* the 5000 ms of WaitForMarkerStart, in ticks
          CompletionTimeout, \* completion_observation_ms, in ticks
          MarkerMax,      \* UINT32_MAX
          FirstMarkers,   \* markers the engine may start from
          Settings,       \* which of the colour settings change
          MaxChanges,     \* bound: changes of a colour setting
          MaxSubmissions, \* bound: update calls
          Fails,          \* the steps of the external world that may fail
          Prompt          \* TRUE: the worker never lags behind the clock

Unlimited == 1000
AllKinds == {"page", "sleep", "differential", "full", "white", "cleanup"}

ASSUME BudgetAssumption ==
  /\ Kinds \subseteq AllKinds
  /\ HardLimit \in 1..(Unlimited - 2)
  /\ Limits \subseteq 1..HardLimit
  /\ Intervals \subseteq Nat \ {0}
  /\ GuardTimeout \in Nat \ {0}
  /\ CompletionTimeout \in Nat \ {0}
  /\ MarkerMax \in Nat \ {0, 1}
  /\ FirstMarkers \subseteq 0..MarkerMax
  /\ {ColorPanel, OceanPanel, Prompt} \subseteq BOOLEAN
  /\ MaxChanges \in Nat /\ MaxSubmissions \in Nat

VARIABLES
  state,        \* diagnostics.state
  stage,        \* the next stage of InitializeForOneShot, "none" outside it
  initCalls,    \* calls of iDisplayEngine_init
  pc,           \* where Submit is
  frame,        \* Submit's argument
  paired,       \* white_submitted
  before,       \* the engine's marker read before the last update call
  engine,       \* the vendor engine's markers and images
  submissions,  \* diagnostics.submissions
  allowed,      \* the submission limit Submit last compared with
  age,          \* ticks since last_submission
  waited,       \* ticks since the last update call returned
  props,        \* the debug properties
  setting,      \* g_quality_config, g_gray_config, g_vivid_config
  words,        \* the words Submit last saw of them
  history,      \* ColorQualityHistory
  observer,     \* SubmissionObserver
  reported      \* diagnostics.completion_unknown_submissions

initVars == <<state, stage, initCalls>>
callVars == <<pc, frame, paired, before>>
vars == <<initVars, callVars, engine, submissions, allowed, age, waited, props,
          setting, words, history, observer, reported>>

Frames == [image : Images, kind : Kinds]
NoFrame == [image |-> NoImage, kind |-> "page"]
Blank == [image |-> NoImage, part |-> "none"]
NoHistory == [image |-> NoImage, under |-> << >>]

Requested(f) == f.kind \notin {"page", "sleep"}

Horizon == CHOOSE n \in Intervals \cup {GuardTimeout, CompletionTimeout} :
             \A m \in Intervals \cup {GuardTimeout, CompletionTimeout} : m <= n
Later(t) == IF t < Horizon THEN t + 1 ELSE t

Init ==
  /\ state = "stopped" /\ stage = "none" /\ initCalls = 0
  /\ pc = "idle" /\ frame = NoFrame /\ paired = FALSE /\ before = 0
  /\ \E m \in FirstMarkers :
       engine = [submitted |-> m, displaying |-> m, last |-> Blank, shown |-> Blank]
  /\ submissions = 0 /\ allowed = 0 /\ age = Horizon /\ waited = Horizon
  /\ props \in [continuous : {FALSE}, limit : Limits, interval : Intervals]
  /\ setting = [s \in Settings |-> [value |-> 0, version |-> 0]]
  /\ words = setting
  /\ history = NoHistory
  /\ observer = [accepted |-> 0, timeouts |-> 0, pending |-> FALSE,
                 recorded |-> FALSE, age |-> 0]
  /\ reported = 0

-----------------------------------------------------------------------------
(* InitializeForOneShot: stages in order, the first failure is terminal.   *)

Poison == state' = "poisoned" /\ stage' = "none"

RestOfInit == UNCHANGED <<callVars, engine, submissions, allowed, age, waited, props,
                          setting, words, history, observer, reported>>

MayInitialize == state = "stopped"

BeginInitialize ==
  /\ MayInitialize /\ stage = "none" /\ pc = "idle"
  /\ stage' = "preflight"
  /\ UNCHANGED <<state, initCalls>> /\ RestOfInit

\* Files, devices and the bridge property; on a colour panel its runtime too.
Preflight ==
  /\ stage = "preflight"
  /\ \/ Poison /\ "preflight" \in Fails
     \/ stage' = "load" /\ UNCHANGED state
  /\ UNCHANGED initCalls /\ RestOfInit

LoadEngine ==
  /\ stage = "load"
  /\ \/ Poison /\ "load" \in Fails
     \/ state' = "resolved" /\ stage' = (IF ColorPanel THEN "color" ELSE "compat")
  /\ UNCHANGED initCalls /\ RestOfInit

LoadColorRuntime ==
  /\ stage = "color"
  /\ \/ Poison /\ "load" \in Fails
     \/ stage' = "compat" /\ UNCHANGED state
  /\ UNCHANGED initCalls /\ RestOfInit

InstallCompatibility ==
  /\ stage = "compat"
  /\ \/ Poison /\ OceanPanel /\ "compat" \in Fails
     \/ stage' = "init" /\ UNCHANGED state
  /\ UNCHANGED initCalls /\ RestOfInit

CallInitializer ==
  /\ stage = "init"
  /\ initCalls' = initCalls + 1
  /\ \/ Poison /\ "init" \in Fails
     \/ IF ColorPanel
        THEN stage' = "lut" /\ UNCHANGED state
        ELSE stage' = "none" /\ state' = "initialized"
  /\ RestOfInit

InitializeColor ==
  /\ stage = "lut"
  /\ \/ Poison /\ "lut" \in Fails
     \/ stage' = "none" /\ state' = "initialized"
  /\ UNCHANGED initCalls /\ RestOfInit

InitializeForOneShot ==
  \/ BeginInitialize \/ Preflight \/ LoadEngine \/ LoadColorRuntime
  \/ InstallCompatibility \/ CallInitializer \/ InitializeColor

-----------------------------------------------------------------------------
(* Process-wide settings and debug properties, written by other threads.   *)

Values(s) == IF s = "gray" THEN 0..2 ELSE 0..1

\* SetColorQualityEnabled, SetVividColorEnabled, SetGrayPreference: a change
\* of the value takes a new version; the same value leaves the word alone.
Rewritten(word, v) == [value |-> v, version |-> word.version + 1]

SetSetting ==
  /\ ColorPanel
  /\ \E s \in Settings : \E v \in Values(s) :
       /\ setting[s].value # v
       /\ setting[s].version < MaxChanges
       /\ setting' = [setting EXCEPT ![s] = Rewritten(@, v)]
  /\ UNCHANGED <<initVars, callVars, engine, submissions, allowed, age, waited, props,
                 words, history, observer, reported>>

Properties == [continuous : BOOLEAN, limit : Limits, interval : Intervals]

SetProperties ==
  /\ props' \in Properties
  /\ UNCHANGED <<initVars, callVars, engine, submissions, allowed, age, waited,
                 setting, words, history, observer, reported>>

ActiveSubmissionLimit == IF props.continuous THEN Unlimited ELSE props.limit

QualityOn == "quality" \in Settings /\ words["quality"].value = 1

-----------------------------------------------------------------------------
(* The vendor engine (external).                                           *)

NextMarker(m) == (m + 1) % (MarkerMax + 1)

\* An update call copies the image; one that has not started is overwritten.
Update(part) == [engine EXCEPT !.submitted = NextMarker(@),
                               !.last = [image |-> frame.image, part |-> part]]

EngineStart ==
  /\ engine.displaying # engine.submitted
  /\ engine' = [engine EXCEPT !.displaying = engine.submitted, !.shown = engine.last]
  /\ UNCHANGED <<initVars, callVars, submissions, allowed, age, waited, props, setting,
                 words, history, observer, reported>>

\* The engine restarts its numbering while a call waits for its marker.
EngineReset ==
  /\ "reset" \in Fails /\ pc \in {"whiteGuard", "target", "targetGuard"} /\ paired
  /\ engine' = [engine EXCEPT !.submitted = 0, !.displaying = 0]
  /\ engine' # engine
  /\ UNCHANGED <<initVars, callVars, submissions, allowed, age, waited, props, setting,
                 words, history, observer, reported>>

-----------------------------------------------------------------------------
(* eink_engine_marker_guard.h, SubmissionObserver.                         *)

CanTrackNextEngineMarker(m) == m < MarkerMax - 1

\* Mistaken: the guard has no timeout.
WaitsForever ==
  IF \/ ~CanTrackNextEngineMarker(before)
     \/ engine.submitted # before + 1
     \/ engine.displaying > engine.submitted
  THEN "drift"
  ELSE IF engine.displaying = engine.submitted THEN "started" ELSE "waiting"

CheckEngineMarkerStart ==
  IF \/ ~CanTrackNextEngineMarker(before)
     \/ engine.submitted # before + 1
     \/ engine.displaying > engine.submitted
  THEN "drift"
  ELSE IF waited >= GuardTimeout THEN "timeout"
  ELSE IF engine.displaying = engine.submitted THEN "started" ELSE "waiting"

RecordAccepted == [observer EXCEPT !.accepted = @ + 1, !.pending = TRUE,
                                   !.recorded = FALSE, !.age = 0]

ObserveDue == observer.pending /\ ~observer.recorded /\ observer.age >= CompletionTimeout

\* Called by the composition thread; it waits for the mutex Submit holds.
ObserveCompletionTimeout ==
  /\ pc = "idle" /\ stage = "none"
  /\ ObserveDue
  /\ observer' = [observer EXCEPT !.timeouts = @ + 1, !.recorded = TRUE]
  /\ UNCHANGED <<initVars, callVars, engine, submissions, allowed, age, waited, props,
                 setting, words, history, reported>>

-----------------------------------------------------------------------------
(* Submit.                                                                 *)

Return == pc' = "idle" /\ frame' = NoFrame /\ paired' = FALSE /\ UNCHANGED before
ReturnPoisoned == Return /\ state' = "poisoned" /\ UNCHANGED <<stage, initCalls>>
Goto(label) == pc' = label /\ UNCHANGED <<frame, paired, before>>

\* The early returns.  Only the finite budget's end changes the state.
BudgetSpent == ~props.continuous /\ submissions >= HardLimit
TooEarly == submissions # 0 /\ age < props.interval

SubmitBudgetSpent ==
  /\ pc = "idle" /\ state = "initialized" /\ BudgetSpent
  /\ state' = "submitted"
  /\ UNCHANGED <<stage, initCalls, callVars, engine, submissions, allowed, age, waited,
                 props, setting, words, history, observer, reported>>

\* The history belongs to one set of words and to no sleep image.
\* Mistaken: the gray preference is left out of the comparison.
StaleButForGray(f) == (\E s \in Settings \ {"gray"} : words[s] # setting[s])
                        \/ f.kind = "sleep"
Stale(f) == words # setting \/ f.kind = "sleep"

SubmitBegin(f) ==
  /\ pc = "idle" /\ state = "initialized" /\ ~BudgetSpent
  /\ submissions < ActiveSubmissionLimit
  /\ ~TooEarly
  /\ allowed' = ActiveSubmissionLimit
  /\ words' = setting
  /\ history' = IF Stale(f) THEN NoHistory ELSE history
  /\ pc' = "planes" /\ frame' = f /\ paired' = FALSE /\ UNCHANGED before
  /\ UNCHANGED <<initVars, engine, submissions, age, waited, props, setting, observer,
                 reported>>

\* A request on a monochrome panel, or planes that cannot be read.
PlanesUnusable == (Requested(frame) /\ ~ColorPanel) \/ "planes" \in Fails

SubmitRejectPlanes ==
  /\ pc = "planes" /\ PlanesUnusable
  /\ Return
  /\ UNCHANGED <<initVars, engine, submissions, allowed, age, waited, props, setting,
                 words, history, observer, reported>>

\* Whether some pixels go white first.
Whitened == CASE frame.kind = "white" -> {TRUE}
              [] frame.kind = "cleanup" -> BOOLEAN
              [] frame.kind = "page" /\ QualityOn /\ history # NoHistory -> BOOLEAN
              [] OTHER -> {FALSE}

SubmitPrepare ==
  /\ pc = "planes"
  /\ Requested(frame) => ColorPanel
  /\ \E w \in Whitened :
       Goto(IF ~ColorPanel THEN "target" ELSE IF w THEN "white" ELSE "map")
  /\ UNCHANGED <<initVars, engine, submissions, allowed, age, waited, props, setting,
                 words, history, observer, reported>>

PairFits == submissions + 2 <= ActiveSubmissionLimit

SubmitPairTooLong ==
  /\ pc = "white" /\ ~PairFits
  /\ Return
  /\ UNCHANGED <<initVars, engine, submissions, allowed, age, waited, props, setting,
                 words, history, observer, reported>>

\* The white plane cannot be mapped, or its marker cannot be followed.
SubmitWhiteFails ==
  /\ pc = "white" /\ PairFits
  /\ "mapping" \in Fails \/ ~CanTrackNextEngineMarker(engine.submitted)
  /\ ReturnPoisoned
  /\ UNCHANGED <<engine, submissions, allowed, age, waited, props, setting, words,
                 history, observer, reported>>

SubmitWhite ==
  /\ pc = "white" /\ PairFits
  /\ CanTrackNextEngineMarker(engine.submitted)
  /\ engine' = Update("white")
  /\ before' = engine.submitted
  /\ submissions' = submissions + 1 /\ age' = 0 /\ waited' = 0
  /\ allowed' = ActiveSubmissionLimit
  /\ \/ /\ pc' = "map" /\ paired' = TRUE /\ UNCHANGED <<frame, initVars>>
        /\ observer' = RecordAccepted
     \/ /\ "update" \in Fails
        /\ pc' = "idle" /\ frame' = NoFrame /\ paired' = FALSE
        /\ state' = "poisoned" /\ UNCHANGED <<stage, initCalls, observer>>
  /\ UNCHANGED <<props, setting, words, history, reported>>

\* The target's own mapping, which overlaps the white's progress.
\* Mistaken: a failed mapping rejects the frame, with its white already out.
MappingRejects == Return /\ UNCHANGED initVars
MappingFailed == ReturnPoisoned

SubmitMapTarget ==
  /\ pc = "map"
  /\ \/ Goto(IF paired THEN "gap" ELSE "target") /\ UNCHANGED initVars
     \/ "mapping" \in Fails /\ MappingFailed
  /\ UNCHANGED <<engine, submissions, allowed, age, waited, props, setting, words,
                 history, observer, reported>>

GapOver == age >= props.interval

SubmitGap ==
  /\ pc = "gap" /\ GapOver
  /\ Goto("whiteGuard")
  /\ UNCHANGED <<initVars, engine, submissions, allowed, age, waited, props, setting,
                 words, history, observer, reported>>

\* WaitForMarkerStart, for the white image and for the target.
GuardDecided == CheckEngineMarkerStart # "waiting"
\* Mistaken: the target follows a white that has not started.
FollowsUnstartedWhite == CheckEngineMarkerStart \in {"started", "waiting"}
WhiteMayBeFollowed == CheckEngineMarkerStart = "started"

SubmitGuardPassed ==
  /\ \/ pc = "whiteGuard" /\ WhiteMayBeFollowed /\ Goto("target")
     \/ pc = "targetGuard" /\ CheckEngineMarkerStart = "started" /\ Goto("finish")
  /\ UNCHANGED <<initVars, engine, submissions, allowed, age, waited, props, setting,
                 words, history, observer, reported>>

SubmitGuardStops ==
  /\ pc \in {"whiteGuard", "targetGuard"}
  /\ CheckEngineMarkerStart \in {"drift", "timeout"}
  /\ ReturnPoisoned
  /\ history' = NoHistory
  /\ UNCHANGED <<engine, submissions, allowed, age, waited, props, setting, words,
                 observer, reported>>

\* Nobody else may have submitted between the white and the target.
TargetDrifted == paired /\ \/ engine.submitted # before + 1
                           \/ ~CanTrackNextEngineMarker(engine.submitted)

SubmitTargetDrifted ==
  /\ pc = "target" /\ TargetDrifted
  /\ ReturnPoisoned
  /\ history' = NoHistory
  /\ UNCHANGED <<engine, submissions, allowed, age, waited, props, setting, words,
                 observer, reported>>

SubmitTarget ==
  /\ pc = "target" /\ ~TargetDrifted
  /\ engine' = Update(IF paired THEN "target" ELSE "single")
  /\ submissions' = submissions + 1 /\ waited' = 0
  /\ \/ /\ pc' = (IF paired THEN "targetGuard" ELSE "finish")
        /\ before' = engine.submitted
        /\ UNCHANGED <<frame, paired, initVars>>
     \/ "update" \in Fails /\ ReturnPoisoned
  /\ UNCHANGED <<allowed, age, props, setting, words, history, observer, reported>>

\* Only an accepted target defines the history.
Remembered == IF QualityOn /\ frame.kind # "sleep"
              THEN [image |-> frame.image, under |-> words] ELSE NoHistory

Reported == observer'.accepted

SubmitFinish ==
  /\ pc = "finish"
  /\ history' = IF ColorPanel THEN Remembered ELSE history
  /\ age' = 0
  /\ observer' = RecordAccepted
  /\ reported' = Reported
  /\ state' = IF ~props.continuous /\ submissions = HardLimit THEN "submitted" ELSE state
  /\ Return
  /\ UNCHANGED <<stage, initCalls, engine, submissions, allowed, waited, props, setting,
                 words>>

SubmitStep ==
  \/ SubmitRejectPlanes \/ SubmitPrepare \/ SubmitPairTooLong \/ SubmitWhiteFails
  \/ SubmitWhite \/ SubmitMapTarget \/ SubmitGap \/ SubmitGuardPassed
  \/ SubmitGuardStops \/ SubmitTargetDrifted \/ SubmitTarget \/ SubmitFinish

Submit == SubmitStep \/ SubmitBudgetSpent
            \/ \E f \in Frames : submissions < MaxSubmissions /\ SubmitBegin(f)

\* The worker has something to do without the clock or the engine moving.
WorkerReady == \/ pc \in {"planes", "white", "map", "target", "finish"}
               \/ pc = "gap" /\ GapOver
               \/ pc \in {"whiteGuard", "targetGuard"} /\ GuardDecided

Tick ==
  /\ Prompt => ~WorkerReady
  /\ age' = Later(age) /\ waited' = Later(waited)
  /\ observer' = [observer EXCEPT !.age = Later(@)]
  /\ <<age, waited, observer>>' # <<age, waited, observer>>
  /\ UNCHANGED <<initVars, callVars, engine, submissions, allowed, props, setting, words,
                 history, reported>>

Next == \/ InitializeForOneShot \/ Submit \/ ObserveCompletionTimeout
        \/ SetSetting \/ SetProperties \/ EngineStart \/ EngineReset \/ Tick

Spec == Init /\ [][Next]_vars

\* The worker runs on inside Submit, and time passes.
FairSpec == Spec /\ WF_vars(SubmitStep) /\ WF_vars(Tick)

-----------------------------------------------------------------------------
(* Properties.                                                             *)

States == {"stopped", "resolved", "initialized", "submitted", "poisoned"}
Stages == {"none", "preflight", "load", "color", "compat", "init", "lut"}
Places == {"idle", "planes", "white", "map", "gap", "whiteGuard", "target",
           "targetGuard", "finish"}
Word == [value : 0..2, version : 0..MaxChanges]
Shown == [image : Images \cup {NoImage}, part : {"none", "white", "target", "single"}]

\* Every variable has the type of the field it stands for, and a Submit is only
\* under way in an initialised engine.
TypeOK ==
  /\ state \in States /\ stage \in Stages /\ initCalls \in Nat
  /\ pc \in Places /\ frame \in Frames \cup {NoFrame} /\ paired \in BOOLEAN
  /\ pc # "idle" => state = "initialized" /\ frame \in Frames
  /\ before \in 0..MarkerMax
  /\ engine \in [submitted : 0..MarkerMax, displaying : 0..MarkerMax,
                 last : Shown, shown : Shown]
  /\ submissions \in Nat /\ allowed \in 0..Unlimited
  /\ age \in 0..Horizon /\ waited \in 0..Horizon
  /\ props \in Properties
  /\ setting \in [Settings -> Word] /\ words \in [Settings -> Word]
  /\ history \in [image : Images, under : [Settings -> Word]] \cup {NoHistory}
  /\ observer \in [accepted : Nat, timeouts : Nat, pending : BOOLEAN,
                  recorded : BOOLEAN, age : 0..Horizon]
  /\ reported \in Nat

Settled == state = "initialized" /\ pc = "idle"

\* A target the engine has not started yet finds its own white on the panel:
\* the guard withheld it while the engine could still have merged the white
\* away (lower_engine_direct_backend.cpp:815).
WhiteShownBeforeTarget ==
  engine.last.part = "target" /\ engine.shown # engine.last
    => engine.shown = [engine.last EXCEPT !.part = "white"]

\* Between two Submits of a live engine the last image handed over is never a
\* white: a pair that cannot be completed poisons the backend instead
\* (lower_engine_direct_backend.cpp:785).
NoLoneWhite == Settled => engine.last.part # "white"

\* Between two Submits of a live engine the quality history is the last image
\* the engine accepted, prepared under the very settings that stand now.
HistoryIsLastTarget ==
  Settled /\ history # NoHistory
    => history.image = engine.last.image /\ history.under = words

\* Submit ends, even when the engine never starts the image it was given.
SubmitReturns == pc # "idle" ~> pc = "idle"

\* A white that starts within the guard's time is followed by its target: only
\* a white the engine could still merge away withholds it
\* (lower_engine_direct_backend.cpp:815-816).
StartedWhiteIsFollowed ==
  (/\ pc = "gap" /\ waited < GuardTimeout
   /\ engine.shown = [image |-> frame.image, part |-> "white"])
    ~> engine.last.part = "target"
=============================================================================
