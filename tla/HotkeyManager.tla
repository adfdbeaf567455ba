--------------------------- MODULE HotkeyManager ---------------------------
(***************************************************************************)
(* The push-to-talk / hands-free gesture machine of HotkeyManager.swift,   *)
(* together with the keyboard that drives it and the client that receives  *)
(* its callbacks.                                                          *)
(*                                                                         *)
(* Time is discrete.  The code only ever compares the age of a past        *)
(* instant (a press, an accepted edge) with a constant, so each timestamp  *)
(* is kept as its age and an age stops growing once no comparison can tell *)
(* it from a larger one.  All ages are measured when the main thread       *)
(* handles an event, which is what nowMillis() does.                       *)
(***************************************************************************)
EXTENDS Integers

CONSTANTS
  Keys,          \* the virtual keys that take part
  FlagKeys,      \* modifiers: the OS reports both edges as flagsChanged
  OptionKeys,    \* the two Option keys, the only ones whose flag is tested
  RepeatKeys,    \* ordinary keys the OS auto-repeats while they are held
  DefaultKey,    \* watchedKeyCode of a fresh HotkeyManager
  Windows,       \* the disambiguation windows the Settings slider offers
  WindowMax,     \* an upper bound of Windows, where ages of presses saturate
  EdgeInterval,  \* minEdgeIntervalMillis
  MinTap,        \* minIntentionalTapMs
  MaxLate,       \* how late the main actor may run an expired timer task
  DupJitter,     \* how late the OS repeats a modifier edge (about 4 ms)
  MinSameEdge,   \* the keyboard's shortest time between two presses, or two
                 \* releases, of the watched key
  RebindBusy,    \* may the binding change while a key is in use?
  BothOptions    \* may the other Option key go down while one is watched?

ASSUME KeyAssumption ==
  /\ OptionKeys \subseteq FlagKeys
  /\ FlagKeys \subseteq Keys
  /\ RepeatKeys \subseteq Keys \ FlagKeys
  /\ DefaultKey \in OptionKeys

ASSUME TimeAssumption ==
  /\ EdgeInterval \in Nat /\ MinTap \in Nat /\ WindowMax \in Nat /\ MaxLate \in Nat
  /\ EdgeInterval <= MinTap /\ MinTap <= WindowMax
  /\ Windows \subseteq 1..WindowMax
  /\ Windows # {}
  /\ DupJitter \in Nat /\ DupJitter < EdgeInterval
  /\ MinSameEdge \in 1..EdgeInterval

ASSUME SwitchAssumption == RebindBusy \in BOOLEAN /\ BothOptions \in BOOLEAN

VARIABLES
  (* HotkeyManager *)
  hotkeyState,       \* the HotkeyState enum, without its associated value
  pressAge,          \* now - pressStartMs of the current .keyDown / .handsFreeStopKeyDown
  sinceStart,        \* now - lastStartEdgeMillis
  sinceStop,         \* now - lastStopEdgeMillis
  timer,             \* the live pendingTimerTask: "none", "hold" or "interTap"
  timerLeft,         \* what is left of its sleep, negative when it runs late
  armed,             \* the window that task captured when it was scheduled
  watchedKeyCode,
  handsFreeEnabled,
  disambiguationWindow,
  (* the keyboard *)
  held,              \* the keys that are physically down
  sincePress,        \* age of the last physical press of the watched key
  sinceRelease,      \* age of its last physical release
  (* the client of the callbacks *)
  session,           \* the session the callbacks announced so far
  accepted           \* start edges accepted since the last physical press (capped at 2)

config   == <<watchedKeyCode, handsFreeEnabled, disambiguationWindow>>
timers   == <<timer, timerLeft, armed>>
keyboard == <<held, sincePress, sinceRelease>>
vars == <<hotkeyState, pressAge, sinceStart, sinceStop, timers, config,
          keyboard, session, accepted>>

HotkeyState == {"idle", "keyDown", "tapPending", "holding",
                "handsFreeRecording", "handsFreeStopKeyDown"}

\* States in which the machine believes that the key is down.
HeldStates == {"keyDown", "holding", "handsFreeStopKeyDown"}

\* Modifiers whose own flag the manager never looks at (Shift, Control, Command).
DeafKeys == FlagKeys \ OptionKeys

TypeOK ==
  /\ hotkeyState \in HotkeyState
  /\ pressAge \in 0..WindowMax
  /\ sinceStart \in 0..EdgeInterval
  /\ sinceStop \in 0..EdgeInterval
  /\ timer \in {"none", "hold", "interTap"}
  /\ timerLeft \in -MaxLate..WindowMax
  /\ armed \in 0..WindowMax
  /\ watchedKeyCode \in Keys
  /\ handsFreeEnabled \in BOOLEAN
  /\ disambiguationWindow \in Windows
  /\ held \subseteq Keys
  /\ sincePress \in 0..WindowMax
  /\ sinceRelease \in 0..EdgeInterval
  /\ session \in {"off", "ptt", "handsFree", "broken"}
  /\ accepted \in 0..2

Init ==
  /\ hotkeyState = "idle"
  /\ pressAge = 0
  /\ sinceStart = EdgeInterval          \* -infinity
  /\ sinceStop = EdgeInterval
  /\ timer = "none" /\ timerLeft = 0 /\ armed = 0
  /\ watchedKeyCode = DefaultKey
  /\ handsFreeEnabled \in BOOLEAN
  /\ disambiguationWindow \in Windows
  /\ held = {}
  /\ sincePress = WindowMax
  /\ sinceRelease = EdgeInterval
  /\ session = "off"
  /\ accepted = 0
-----------------------------------------------------------------------------
(* The client's view: a callback out of turn breaks the session protocol.  *)

onStartRecording == session' = IF session = "off" THEN "ptt" ELSE "broken"
onStopRecording  == session' = IF session = "ptt" THEN "off" ELSE "broken"
onHandsFreeStart == session' = IF session = "off" THEN "handsFree" ELSE "broken"
onHandsFreeStop  == session' = IF session = "handsFree" THEN "off" ELSE "broken"
-----------------------------------------------------------------------------
(* Timers.  A cancelled task returns without effect, so only the live one  *)
(* is kept.  The states that schedule one have cancelled the last, or have *)
(* none by TimerMatchesState, so scheduling never overwrites a live task.  *)

\* Definitions named Faulty... are plausible bugs.  No action uses them: each
\* stands in for the definition after it to show that a property can fail.

Schedule(kind) ==
  /\ timer' = kind
  /\ timerLeft' = disambiguationWindow
  /\ armed' = disambiguationWindow

cancelPendingTimer ==
  /\ timer' = "none"
  /\ timerLeft' = 0
  /\ UNCHANGED armed

scheduleHoldTimer     == Schedule("hold")
scheduleInterTapTimer == Schedule("interTap")
-----------------------------------------------------------------------------
(* Edge debounce.                                                          *)

FaultyNoDebounce == sinceStart' = 0

acceptStartEdge ==
  /\ sinceStart >= EdgeInterval
  /\ sinceStart' = 0

acceptStopEdge ==
  /\ sinceStop >= EdgeInterval
  /\ sinceStop' = 0

FaultyRestartHoldTimer ==
  /\ hotkeyState \in HeldStates \/ sinceStart < EdgeInterval
  /\ IF hotkeyState = "keyDown" THEN scheduleHoldTimer ELSE UNCHANGED timers
  /\ UNCHANGED <<hotkeyState, pressAge, sinceStart, session>>

\* A start edge is dropped by the debounce or by the state it finds.
IgnoreKeyDown ==
  /\ hotkeyState \in HeldStates \/ sinceStart < EdgeInterval
  /\ UNCHANGED <<hotkeyState, pressAge, sinceStart, timers, session>>

AcceptKeyDown ==
  /\ hotkeyState \notin HeldStates
  /\ acceptStartEdge
  /\ pressAge' = 0
  /\ \/ /\ hotkeyState = "idle" \/ (hotkeyState = "tapPending" /\ ~handsFreeEnabled)
        /\ hotkeyState' = "keyDown"
        /\ scheduleHoldTimer
        /\ UNCHANGED session
     \/ /\ hotkeyState = "tapPending" /\ handsFreeEnabled
        /\ cancelPendingTimer
        /\ hotkeyState' = "handsFreeRecording"
        /\ onHandsFreeStart
     \/ /\ hotkeyState = "handsFreeRecording"
        /\ hotkeyState' = "handsFreeStopKeyDown"
        /\ UNCHANGED <<timers, session>>

\* count is what this event finds in accepted.
handleKeyDown(count) ==
  /\ UNCHANGED sinceStop
  /\ \/ IgnoreKeyDown /\ accepted' = count
     \/ AcceptKeyDown /\ accepted' = IF count < 2 THEN count + 1 ELSE 2

FaultyKeepHoldTimer ==
  /\ hotkeyState = "keyDown"
  /\ UNCHANGED session
  /\ IF pressAge >= MinTap /\ handsFreeEnabled
       THEN hotkeyState' = "tapPending" /\ scheduleInterTapTimer
       ELSE hotkeyState' = "idle" /\ UNCHANGED timers

ReleaseKeyDown ==
  /\ hotkeyState = "keyDown"
  /\ UNCHANGED session
  /\ IF pressAge >= MinTap /\ handsFreeEnabled
       THEN hotkeyState' = "tapPending" /\ scheduleInterTapTimer
       ELSE hotkeyState' = "idle" /\ cancelPendingTimer

FaultySilentStop ==
  hotkeyState = "holding" /\ hotkeyState' = "idle" /\ UNCHANGED <<session, timers>>

ReleaseHolding ==
  /\ hotkeyState = "holding"
  /\ hotkeyState' = "idle"
  /\ onStopRecording
  /\ UNCHANGED timers

FaultyShortStopTap ==
  /\ hotkeyState = "handsFreeStopKeyDown"
  /\ UNCHANGED timers
  /\ IF pressAge >= MinTap
       THEN hotkeyState' = "idle" /\ onHandsFreeStop
       ELSE UNCHANGED <<hotkeyState, session>>

ReleaseStopTap ==
  /\ hotkeyState = "handsFreeStopKeyDown"
  /\ UNCHANGED timers
  /\ IF pressAge >= MinTap
       THEN hotkeyState' = "idle" /\ onHandsFreeStop
       ELSE hotkeyState' = "handsFreeRecording" /\ UNCHANGED session

\* The stop edge is recorded before the state is looked at, so a spurious
\* key up also silences the next 50 ms of key ups.
handleKeyUp ==
  /\ UNCHANGED sinceStart
  /\ \/ /\ sinceStop < EdgeInterval
        /\ UNCHANGED <<hotkeyState, pressAge, sinceStop, timers, session>>
     \/ /\ acceptStopEdge
        /\ pressAge' = 0
        /\ \/ ReleaseKeyDown
           \/ ReleaseHolding
           \/ ReleaseStopTap
           \/ /\ hotkeyState \notin HeldStates
              /\ UNCHANGED <<hotkeyState, timers, session>>
-----------------------------------------------------------------------------
(* What handleEvent makes of an edge of the watched key: an ordinary key   *)
(* reports its own edges, a modifier only whether some Option key is down. *)

handleEvent(down, nowHeld, count) ==
  LET isDown == IF watchedKeyCode \in FlagKeys
                  THEN OptionKeys \cap nowHeld # {} ELSE down
  IN IF isDown THEN handleKeyDown(count)
               ELSE handleKeyUp /\ accepted' = count

manager == <<hotkeyState, pressAge, sinceStart, sinceStop, timers, session>>
machine == <<manager, accepted>>

\* With BothOptions FALSE nobody holds another Option key while a modifier
\* is the hotkey.
MayPress(k) ==
  \/ k = watchedKeyCode /\ sincePress >= MinSameEdge
  \/ /\ k # watchedKeyCode
     /\ k \in OptionKeys /\ watchedKeyCode \in FlagKeys => BothOptions

PressKey(k) ==
  /\ k \notin held
  /\ MayPress(k)
  /\ held' = held \cup {k}
  /\ IF k = watchedKeyCode
       THEN /\ sincePress' = 0
            /\ handleEvent(TRUE, held', 0)
       ELSE UNCHANGED <<sincePress, machine>>
  /\ UNCHANGED <<sinceRelease, config>>

ReleaseKey(k) ==
  /\ k \in held
  /\ k = watchedKeyCode => sinceRelease >= MinSameEdge
  /\ held' = held \ {k}
  /\ IF k = watchedKeyCode
       THEN /\ sinceRelease' = 0
            /\ handleEvent(FALSE, held', accepted)
       ELSE UNCHANGED <<sinceRelease, machine>>
  /\ UNCHANGED <<sincePress, config>>

\* The OS reports an edge of a modifier a second time, a few ms later.
DuplicateEdge ==
  /\ watchedKeyCode \in FlagKeys
  /\ \/ watchedKeyCode \in held /\ sincePress <= DupJitter
     \/ watchedKeyCode \notin held /\ sinceRelease <= DupJitter
  /\ handleEvent(watchedKeyCode \in held, held, accepted)
  /\ UNCHANGED <<config, keyboard>>

\* An ordinary key that stays down reports keyDown again and again.  The
\* shortest auto-repeat delay macOS offers is longer than the accidental tap.
AutoRepeat ==
  /\ watchedKeyCode \in RepeatKeys \cap held
  /\ sincePress >= MinTap
  /\ handleEvent(TRUE, held, accepted)
  /\ UNCHANGED <<config, keyboard>>
-----------------------------------------------------------------------------
(* The timer tasks, on the main actor, at or after their deadline.         *)

FaultyEarlyHold ==
  /\ timer = "hold" /\ timerLeft <= MinTap
  /\ timer' = "none" /\ timerLeft' = 0 /\ UNCHANGED armed
  /\ hotkeyState = "keyDown" /\ hotkeyState' = "holding" /\ onStartRecording
  /\ UNCHANGED <<pressAge, sinceStart, sinceStop, accepted, config, keyboard>>

holdTimerFired ==
  /\ timer = "hold" /\ timerLeft <= 0
  /\ timer' = "none" /\ timerLeft' = 0 /\ UNCHANGED armed
  /\ IF hotkeyState = "keyDown"
       THEN hotkeyState' = "holding" /\ onStartRecording
       ELSE UNCHANGED <<hotkeyState, session>>
  /\ UNCHANGED <<pressAge, sinceStart, sinceStop, accepted, config, keyboard>>

tapPendingTimerFired ==
  /\ timer = "interTap" /\ timerLeft <= 0
  /\ timer' = "none" /\ timerLeft' = 0 /\ UNCHANGED armed
  /\ hotkeyState' = IF hotkeyState = "tapPending" THEN "idle" ELSE hotkeyState
  /\ UNCHANGED <<pressAge, sinceStart, sinceStop, session, accepted, config, keyboard>>

Older(age, cap) == IF age < cap THEN age + 1 ELSE cap

Tick ==
  /\ timer # "none" => timerLeft > -MaxLate
  /\ timerLeft' = IF timer = "none" THEN timerLeft ELSE timerLeft - 1
  /\ pressAge' = IF hotkeyState \in {"keyDown", "handsFreeStopKeyDown"}
                   THEN Older(pressAge, WindowMax) ELSE pressAge
  /\ sinceStart' = Older(sinceStart, EdgeInterval)
  /\ sinceStop' = Older(sinceStop, EdgeInterval)
  /\ sincePress' = Older(sincePress, WindowMax)
  /\ sinceRelease' = Older(sinceRelease, EdgeInterval)
  /\ UNCHANGED <<hotkeyState, timer, armed, config, held, session, accepted>>
-----------------------------------------------------------------------------
(* Settings, applied together by startHotkey's observer (main.swift) and     *)
(* HotkeyDispatcher.syncBindings, long after they were changed or at once.  *)

\* Nothing held, nothing recorded, and no edge within the debounce interval.
AtRest ==
  /\ hotkeyState = "idle" /\ held = {}
  /\ sinceStart = EdgeInterval /\ sinceStop = EdgeInterval
  /\ sincePress = WindowMax /\ sinceRelease = EdgeInterval

\* A cleared binding leaves watchedKeyCode as it is.
SyncSettings(k, w, h) ==
  /\ k # watchedKeyCode => RebindBusy \/ AtRest
  /\ watchedKeyCode' = k /\ disambiguationWindow' = w /\ handsFreeEnabled' = h
  /\ accepted' = IF k = watchedKeyCode THEN accepted ELSE 0
  /\ UNCHANGED <<manager, keyboard>>

Next ==
  \/ \E k \in Keys : PressKey(k) \/ ReleaseKey(k)
  \/ DuplicateEdge
  \/ AutoRepeat
  \/ holdTimerFired
  \/ tapPendingTimerFired
  \/ Tick
  \/ \E k \in Keys, w \in Windows, h \in BOOLEAN : SyncSettings(k, w, h)

Spec == Init /\ [][Next]_vars

\* Time passes and the main actor runs what is due; nobody has to press a key.
FairSpec == Spec /\ WF_vars(Tick) /\ WF_vars(holdTimerFired) /\ WF_vars(tapPendingTimerFired)
-----------------------------------------------------------------------------
(* Properties.                                                             *)

\* A pending timer task is always the one the current state is waiting for
\* (HotkeyManager.swift: scheduleHoldTimer, scheduleInterTapTimer and
\* cancelPendingTimer): no state is left without its timer, and no stale
\* timer survives into another state.
TimerMatchesState ==
  /\ timer = "hold" <=> hotkeyState = "keyDown"
  /\ timer = "interTap" <=> hotkeyState = "tapPending"

\* The machine never takes the key for held when it is not: a missed release
\* would leave the microphone open with nobody holding the hotkey
\* (handleKeyUp and its debounce).
RecordingNeedsHeldKey == hotkeyState \in HeldStates => watchedKeyCode \in held

\* One physical press of a key that does not auto-repeat is at most one accepted
\* start edge, however often the OS reports it: a duplicate never counts as the
\* second tap of a double tap or as the tap that stops a hands-free recording
\* (acceptStartEdge).  A hotkey that repeats, held at the second tap, is accepted
\* again once hands-free recording is on (handleKeyDown): see NextTapStops.
OnePressOneEdge == watchedKeyCode \notin RepeatKeys => accepted <= 1

\* A hands-free recording is stopped by the next tap, never by the press that
\* started it ("Next valid tap -> onHandsFreeStop fires", HotkeyManager.swift:19).
\* It fails for a hotkey that auto-repeats: the repeat is accepted while the
\* second tap is still held, and its release stops the recording.
NextTapStops ==
  [][session = "handsFree" /\ session' # "handsFree" => accepted <= 1]_vars

\* Push-to-talk recording starts only while the hotkey is down and only when
\* this very press has lasted for the disambiguation window
\* (holdTimerFired: "Press and hold the hotkey for >= disambiguationWindowMs").
PttAfterFullHold ==
  [][session # "ptt" /\ session' = "ptt"
       => watchedKeyCode \in held /\ sincePress >= armed]_vars

\* The callbacks open and close sessions one at a time, in matching pairs.
Sessions == INSTANCE GestureSession
SessionProtocol == Sessions!Spec

\* A press that is not released becomes a hold: duplicates and auto-repeats
\* cannot keep postponing the decision (handleKeyDown ignores .keyDown).
PressResolves == hotkeyState = "keyDown" ~> hotkeyState # "keyDown"
=============================================================================
