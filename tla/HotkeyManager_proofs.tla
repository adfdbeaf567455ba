------------------------ MODULE HotkeyManager_proofs ------------------------
(***************************************************************************)
(* Proofs about HotkeyManager for every keyboard, window, debounce         *)
(* interval and tap floor that satisfy the module's assumptions.           *)
(***************************************************************************)
EXTENDS HotkeyManager, TLAPS

\* Every variable keeps its type: in particular ages and timers stay within
\* the bounds at which they saturate.
THEOREM Typing == Spec => []TypeOK
<1> USE KeyAssumption, TimeAssumption, SwitchAssumption
<1>1. Init => TypeOK
  BY DEF Init, TypeOK, HotkeyState
<1>2. TypeOK /\ [Next]_vars => TypeOK'
  <2> SUFFICES ASSUME TypeOK, [Next]_vars PROVE TypeOK'
    OBVIOUS
  <2> USE DEF TypeOK, HotkeyState, HeldStates, config, timers, keyboard, manager, machine
  <2>down. ASSUME NEW count \in 0..2, handleKeyDown(count), UNCHANGED <<config, watchedKeyCode>>
           PROVE /\ hotkeyState' \in HotkeyState /\ pressAge' \in 0..WindowMax
                 /\ sinceStart' \in 0..EdgeInterval /\ sinceStop' \in 0..EdgeInterval
                 /\ timer' \in {"none", "hold", "interTap"}
                 /\ timerLeft' \in -MaxLate..WindowMax /\ armed' \in 0..WindowMax
                 /\ session' \in {"off", "ptt", "handsFree", "broken"}
                 /\ accepted' \in 0..2
    BY <2>down DEF handleKeyDown, IgnoreKeyDown, AcceptKeyDown, acceptStartEdge,
       scheduleHoldTimer, Schedule, cancelPendingTimer, onHandsFreeStart
  <2>up. ASSUME handleKeyUp
         PROVE /\ hotkeyState' \in HotkeyState /\ pressAge' \in 0..WindowMax
               /\ sinceStart' \in 0..EdgeInterval /\ sinceStop' \in 0..EdgeInterval
               /\ timer' \in {"none", "hold", "interTap"}
               /\ timerLeft' \in -MaxLate..WindowMax /\ armed' \in 0..WindowMax
               /\ session' \in {"off", "ptt", "handsFree", "broken"}
    BY <2>up DEF handleKeyUp, acceptStopEdge, ReleaseKeyDown, ReleaseHolding, ReleaseStopTap,
       scheduleInterTapTimer, Schedule, cancelPendingTimer, onStopRecording, onHandsFreeStop
  <2>1. ASSUME NEW k \in Keys, PressKey(k) PROVE TypeOK'
    BY <2>1, <2>down, <2>up DEF PressKey, handleEvent
  <2>2. ASSUME NEW k \in Keys, ReleaseKey(k) PROVE TypeOK'
    BY <2>2, <2>down, <2>up DEF ReleaseKey, handleEvent
  <2>3. CASE DuplicateEdge
    BY <2>3, <2>down, <2>up DEF DuplicateEdge, handleEvent
  <2>4. CASE AutoRepeat
    BY <2>4, <2>down, <2>up DEF AutoRepeat, handleEvent
  <2>5. CASE holdTimerFired
    BY <2>5 DEF holdTimerFired, onStartRecording
  <2>6. CASE tapPendingTimerFired
    BY <2>6 DEF tapPendingTimerFired
  <2>7. CASE Tick
    BY <2>7 DEF Tick, Older
  <2>8. ASSUME NEW k \in Keys, NEW w \in Windows, NEW h \in BOOLEAN, SyncSettings(k, w, h)
        PROVE TypeOK'
    BY <2>8 DEF SyncSettings
  <2>9. CASE UNCHANGED vars
    BY <2>9 DEF vars
  <2>10. QED
    BY <2>1, <2>2, <2>3, <2>4, <2>5, <2>6, <2>7, <2>8, <2>9 DEF Next
<1>3. QED
  BY <1>1, <1>2, PTL DEF Spec
-----------------------------------------------------------------------------
(* The timer and the announced session are functions of hotkeyState: no    *)
(* assumption about the keyboard is needed.                                *)

SessionOf(state) ==
  CASE state = "holding" -> "ptt"
    [] state \in {"handsFreeRecording", "handsFreeStopKeyDown"} -> "handsFree"
    [] OTHER -> "off"

MachineInv == TimerMatchesState /\ session = SessionOf(hotkeyState)

\* Handling a key down leaves the timer and the session in step with the state
\* and moves the session as GestureSession allows.
LEMMA KeyDownKeepsMachineInv ==
  ASSUME TypeOK, MachineInv, NEW count, handleKeyDown(count)
  PROVE  MachineInv' /\ [Sessions!Next]_session
BY DEF TypeOK, HotkeyState, HeldStates, MachineInv, TimerMatchesState, SessionOf,
   handleKeyDown, IgnoreKeyDown, AcceptKeyDown, scheduleHoldTimer, Schedule, timers,
   cancelPendingTimer, onHandsFreeStart, Sessions!Next, Sessions!OpenHandsFree

\* So does handling a key up.
LEMMA KeyUpKeepsMachineInv ==
  ASSUME TypeOK, MachineInv, handleKeyUp
  PROVE  MachineInv' /\ [Sessions!Next]_session
BY DEF TypeOK, HotkeyState, HeldStates, MachineInv, TimerMatchesState, SessionOf,
   handleKeyUp, ReleaseKeyDown, ReleaseHolding, ReleaseStopTap, scheduleInterTapTimer,
   Schedule, timers, cancelPendingTimer, onStopRecording, onHandsFreeStop,
   Sessions!Next, Sessions!ClosePtt, Sessions!CloseHandsFree

\* And so does every step of the system.
LEMMA StepKeepsMachineInv ==
  ASSUME TypeOK, MachineInv, [Next]_vars
  PROVE  MachineInv' /\ [Sessions!Next]_session
<1> USE DEF manager, machine, timers, config, keyboard
<1> DEFINE Kept == MachineInv' /\ [Sessions!Next]_session
<1>same. ASSUME UNCHANGED <<hotkeyState, timer, session>> PROVE Kept
  BY <1>same DEF MachineInv, TimerMatchesState
<1>1. ASSUME NEW k \in Keys, PressKey(k) PROVE Kept
  BY <1>1, <1>same, KeyDownKeepsMachineInv, KeyUpKeepsMachineInv DEF PressKey, handleEvent
<1>2. ASSUME NEW k \in Keys, ReleaseKey(k) PROVE Kept
  BY <1>2, <1>same, KeyDownKeepsMachineInv, KeyUpKeepsMachineInv DEF ReleaseKey, handleEvent
<1>3. CASE DuplicateEdge
  BY <1>3, KeyDownKeepsMachineInv, KeyUpKeepsMachineInv DEF DuplicateEdge, handleEvent
<1>4. CASE AutoRepeat
  BY <1>4, KeyDownKeepsMachineInv, KeyUpKeepsMachineInv DEF AutoRepeat, handleEvent
<1>5. CASE holdTimerFired
  BY <1>5 DEF holdTimerFired, onStartRecording, MachineInv, TimerMatchesState, SessionOf,
     Sessions!Next, Sessions!OpenPtt
<1>6. CASE tapPendingTimerFired
  BY <1>6 DEF tapPendingTimerFired, MachineInv, TimerMatchesState, SessionOf
<1>7. CASE Tick
  BY <1>7, <1>same DEF Tick
<1>8. ASSUME NEW k \in Keys, NEW w \in Windows, NEW h \in BOOLEAN, SyncSettings(k, w, h)
      PROVE Kept
  BY <1>8, <1>same DEF SyncSettings
<1>9. CASE UNCHANGED vars
  BY <1>9, <1>same DEF vars
<1>10. QED
  BY <1>1, <1>2, <1>3, <1>4, <1>5, <1>6, <1>7, <1>8, <1>9 DEF Next

LEMMA InitMachineInv == Init => MachineInv
BY DEF Init, MachineInv, TimerMatchesState, SessionOf

LEMMA MachineInvariant == Spec => []MachineInv
<1>1. TypeOK /\ MachineInv /\ [Next]_vars => MachineInv'
  BY StepKeepsMachineInv
<1>2. QED
  BY <1>1, InitMachineInv, Typing, PTL DEF Spec

\* A pending timer task always belongs to the current state.
THEOREM TimersMatchStates == Spec => []TimerMatchesState
<1>1. MachineInv => TimerMatchesState
  BY DEF MachineInv
<1>2. QED
  BY <1>1, MachineInvariant, PTL

\* HotkeyManager implements the session protocol its client relies on.
THEOREM ImplementsSessions == Spec => SessionProtocol
<1>1. Init => Sessions!Init
  BY DEF Init, Sessions!Init
<1>2. TypeOK /\ MachineInv /\ [Next]_vars => [Sessions!Next]_session
  BY StepKeepsMachineInv
<1>3. QED
  BY <1>1, <1>2, Typing, MachineInvariant, PTL DEF Spec, SessionProtocol, Sessions!Spec
-----------------------------------------------------------------------------
(* Claims about the physical key hold for a keyboard whose presses (and    *)
(* whose releases) are at least the debounce interval apart, as long as    *)
(* the binding changes only at rest and the other Option key stays up.     *)

CleanKeyboard ==
  /\ MinSameEdge = EdgeInterval
  /\ ~RebindBusy
  /\ ~BothOptions

\* With a modifier as hotkey no other Option key is down.
NoOtherOption == watchedKeyCode \in FlagKeys => OptionKeys \cap held \subseteq {watchedKeyCode}

\* The debounce clock of releases restarts exactly at physical releases, so
\* it never drops one; a modifier the manager is deaf to leaves it idle.
StopClock ==
  IF watchedKeyCode \in DeafKeys THEN hotkeyState = "idle" ELSE sinceStop = sinceRelease

\* The debounce clock of presses is no older than the press that restarted it.
StartClock == watchedKeyCode \notin RepeatKeys /\ accepted > 0 => sinceStart <= sincePress

\* While a press is being timed, the timer, the press and the key agree.
PressClock ==
  /\ hotkeyState = "keyDown" => pressAge <= sincePress
  /\ timer = "hold" => pressAge + timerLeft >= armed \/ pressAge = WindowMax

KeyInv ==
  /\ NoOtherOption
  /\ StopClock
  /\ StartClock
  /\ PressClock
  /\ RecordingNeedsHeldKey
  /\ OnePressOneEdge

\* The part of KeyInv that handling an event must re-establish, given what the
\* keyboard has just done.
EventInv ==
  /\ StopClock
  /\ StartClock
  /\ PressClock
  /\ RecordingNeedsHeldKey
  /\ OnePressOneEdge

\* Handling a key down while the key is down keeps EventInv, unless it counts
\* a press of a non-repeating key twice.
LEMMA KeyDownKeepsEventInv ==
  ASSUME TypeOK, TypeOK', MachineInv, PressClock, NEW count \in 0..2, handleKeyDown(count),
         UNCHANGED config, watchedKeyCode \notin RepeatKeys => count <= 1,
         watchedKeyCode \in held', watchedKeyCode \notin DeafKeys,
         sinceStop' = sinceRelease',
         hotkeyState \in HeldStates => sincePress' = sincePress,
         watchedKeyCode \notin RepeatKeys /\ count > 0
           => sinceStart < EdgeInterval /\ sinceStart <= sincePress'
  PROVE  EventInv'
<1> USE KeyAssumption, TimeAssumption
        DEF TypeOK, HotkeyState, HeldStates, DeafKeys, MachineInv, TimerMatchesState, EventInv, config
<1>1. CASE IgnoreKeyDown /\ accepted' = count
  BY <1>1 DEF handleKeyDown, IgnoreKeyDown, timers, StopClock, StartClock, PressClock,
     RecordingNeedsHeldKey, OnePressOneEdge
<1>2. CASE AcceptKeyDown /\ accepted' = IF count < 2 THEN count + 1 ELSE 2
  <2> USE <1>2 DEF handleKeyDown, AcceptKeyDown, acceptStartEdge, scheduleHoldTimer, Schedule,
        cancelPendingTimer, timers
  <2>1. StopClock' /\ RecordingNeedsHeldKey'
    BY DEF StopClock, RecordingNeedsHeldKey
  <2>2. StartClock'
    BY DEF StartClock
  <2>3. PressClock'
    <3>1. pressAge' = 0 /\ sincePress' >= 0 /\ disambiguationWindow \in Int
      OBVIOUS
    <3>2. timer' = "hold" => timerLeft' = armed' /\ armed' = disambiguationWindow
      <4>1. CASE hotkeyState = "handsFreeRecording"
        <5>1. timer' = timer
          BY <4>1
        <5>2. timer # "hold"
          BY <4>1
        <5>3. QED BY <5>1, <5>2
      <4>2. CASE hotkeyState # "handsFreeRecording"
        BY <4>2
      <4>3. QED BY <4>1, <4>2
    <3>3. hotkeyState' = "keyDown" => pressAge' <= sincePress'
      BY <3>1
    <3>4. timer' = "hold" => pressAge' + timerLeft' >= armed'
      BY <3>1, <3>2
    <3>5. QED
      BY <3>3, <3>4 DEF PressClock
  <2>4. OnePressOneEdge'
    BY DEF OnePressOneEdge
  <2>5. QED
    BY <2>1, <2>2, <2>3, <2>4
<1>3. QED
  BY <1>1, <1>2 DEF handleKeyDown

\* Handling a key up once the key is up: the release is accepted or repeats one
\* that was.
LEMMA KeyUpKeepsEventInv ==
  ASSUME TypeOK, TypeOK', MachineInv, StartClock, OnePressOneEdge, handleKeyUp,
         UNCHANGED <<config, accepted>>, sincePress' = sincePress,
         watchedKeyCode \notin DeafKeys,
         \/ sinceStop = EdgeInterval /\ sinceRelease' = 0
         \/ /\ sinceStop < EdgeInterval /\ sinceRelease' = sinceStop
            /\ hotkeyState \notin HeldStates
  PROVE  EventInv'
<1> USE KeyAssumption, TimeAssumption
        DEF TypeOK, HotkeyState, HeldStates, DeafKeys, MachineInv, TimerMatchesState, config,
        handleKeyUp, acceptStopEdge, ReleaseKeyDown, ReleaseHolding, ReleaseStopTap,
        scheduleInterTapTimer, Schedule, cancelPendingTimer, timers
<1>1. hotkeyState' \notin HeldStates
  OBVIOUS
<1>2. timer' # "hold"
  OBVIOUS
<1>3. StopClock'
  BY DEF StopClock
<1>4. StartClock' /\ OnePressOneEdge'
  BY DEF StartClock, OnePressOneEdge
<1>5. QED
  BY <1>1, <1>2, <1>3, <1>4 DEF EventInv, PressClock, RecordingNeedsHeldKey

\* A modifier the manager is deaf to only ever produces key ups, which an idle
\* machine ignores.
LEMMA DeafKeyUp ==
  ASSUME TypeOK, TypeOK', MachineInv, KeyInv, handleKeyUp, UNCHANGED config,
         accepted' \in {0, accepted}, accepted' = 0 \/ sincePress' = sincePress,
         watchedKeyCode \in DeafKeys
  PROVE  EventInv'
<1> USE KeyAssumption, TimeAssumption
        DEF TypeOK, HotkeyState, HeldStates, DeafKeys, MachineInv, TimerMatchesState, config,
        handleKeyUp, acceptStopEdge, ReleaseKeyDown, ReleaseHolding, ReleaseStopTap, timers
<1>1. hotkeyState' = "idle" /\ timer' # "hold"
  BY DEF KeyInv, StopClock
<1>2. StartClock' /\ OnePressOneEdge'
  BY DEF KeyInv, StartClock, OnePressOneEdge
<1>3. QED
  BY <1>1, <1>2 DEF EventInv, StopClock, PressClock, RecordingNeedsHeldKey

\* Every step keeps KeyInv on a clean keyboard.
LEMMA StepKeepsKeyInv ==
  ASSUME CleanKeyboard, TypeOK, TypeOK', MachineInv, KeyInv, [Next]_vars
  PROVE  KeyInv'
<1> USE KeyAssumption, TimeAssumption, SwitchAssumption
        DEF CleanKeyboard, KeyInv, DeafKeys, config, keyboard
<1>1. ASSUME NEW k \in Keys, PressKey(k) PROVE KeyInv'
  <2>1. NoOtherOption'
    BY <1>1 DEF PressKey, MayPress, NoOtherOption
  <2>2. CASE k # watchedKeyCode
    BY <1>1, <2>1, <2>2 DEF PressKey, machine, manager, timers, StopClock, StartClock,
       PressClock, RecordingNeedsHeldKey, OnePressOneEdge
  <2>3. CASE k = watchedKeyCode /\ k \in DeafKeys
    <3>1. handleKeyUp /\ accepted' = 0
      BY <1>1, <2>1, <2>3 DEF PressKey, handleEvent, NoOtherOption
    <3>2. EventInv'
      BY <1>1, <2>3, <3>1, DeafKeyUp DEF PressKey
    <3>3. QED
      BY <2>1, <3>2 DEF EventInv
  <2>4. CASE k = watchedKeyCode /\ k \notin DeafKeys
    <3>1. handleKeyDown(0)
      BY <1>1, <2>4 DEF PressKey, handleEvent
    <3>2. hotkeyState \notin HeldStates
      BY <1>1, <2>4 DEF PressKey, RecordingNeedsHeldKey
    <3>3. sinceStop' = sinceRelease'
      BY <1>1, <2>4, <3>1 DEF PressKey, handleKeyDown, StopClock
    <3>4. EventInv'
      BY <1>1, <2>4, <3>1, <3>2, <3>3, KeyDownKeepsEventInv DEF PressKey
    <3>5. QED
      BY <2>1, <3>4 DEF EventInv
  <2>5. QED
    BY <2>2, <2>3, <2>4
<1>2. ASSUME NEW k \in Keys, ReleaseKey(k) PROVE KeyInv'
  <2>1. NoOtherOption'
    BY <1>2 DEF ReleaseKey, NoOtherOption
  <2>2. CASE k # watchedKeyCode
    BY <1>2, <2>1, <2>2 DEF ReleaseKey, machine, manager, timers, StopClock, StartClock,
       PressClock, RecordingNeedsHeldKey, OnePressOneEdge
  <2>3. CASE k = watchedKeyCode
    <3>1. handleKeyUp /\ accepted' = accepted
      BY <1>2, <2>1, <2>3 DEF ReleaseKey, handleEvent, NoOtherOption
    <3>2. CASE k \in DeafKeys
      <4>1. EventInv'
        BY <1>2, <2>3, <3>1, <3>2, DeafKeyUp DEF ReleaseKey
      <4>2. QED
        BY <2>1, <4>1 DEF EventInv
    <3>3. CASE k \notin DeafKeys
      <4>1. sinceStop = EdgeInterval /\ sinceRelease' = 0
        BY <1>2, <2>3, <3>3 DEF ReleaseKey, StopClock, TypeOK
      <4>2. EventInv'
        BY <1>2, <2>3, <3>1, <3>3, <4>1, KeyUpKeepsEventInv DEF ReleaseKey
      <4>3. QED
        BY <2>1, <4>2 DEF EventInv
    <3>4. QED
      BY <3>2, <3>3
  <2>4. QED
    BY <2>2, <2>3
<1>3. CASE DuplicateEdge
  <2>1. NoOtherOption'
    BY <1>3 DEF DuplicateEdge, NoOtherOption
  <2>2. CASE watchedKeyCode \in DeafKeys
    <3>1. handleKeyUp /\ accepted' = accepted
      BY <1>3, <2>2 DEF DuplicateEdge, handleEvent, NoOtherOption
    <3>2. EventInv'
      BY <1>3, <2>2, <3>1, DeafKeyUp DEF DuplicateEdge
    <3>3. QED
      BY <2>1, <3>2 DEF EventInv
  <2>3. CASE watchedKeyCode \notin DeafKeys /\ watchedKeyCode \in held
    <3>1. handleKeyDown(accepted) /\ sincePress <= DupJitter
      BY <1>3, <2>3 DEF DuplicateEdge, handleEvent
    <3>2. watchedKeyCode \notin RepeatKeys /\ accepted \in 0..1
      BY <1>3 DEF DuplicateEdge, OnePressOneEdge, TypeOK
    <3>3. accepted > 0 => sinceStart < EdgeInterval /\ sinceStart <= sincePress
      BY <3>1, <3>2 DEF StartClock, TypeOK
    <3>4. sinceStop' = sinceRelease'
      BY <1>3, <2>3, <3>1 DEF DuplicateEdge, handleKeyDown, StopClock
    <3>5. EventInv'
      BY <1>3, <2>3, <3>1, <3>2, <3>3, <3>4, KeyDownKeepsEventInv DEF DuplicateEdge
    <3>6. QED
      BY <2>1, <3>5 DEF EventInv
  <2>4. CASE watchedKeyCode \notin DeafKeys /\ watchedKeyCode \notin held
    <3>1. handleKeyUp /\ accepted' = accepted /\ sinceRelease <= DupJitter
      BY <1>3, <2>4 DEF DuplicateEdge, handleEvent, NoOtherOption
    <3>2. hotkeyState \notin HeldStates
      BY <2>4 DEF RecordingNeedsHeldKey
    <3>3. sinceStop < EdgeInterval /\ sinceRelease' = sinceStop
      BY <1>3, <2>4, <3>1 DEF DuplicateEdge, StopClock, TypeOK
    <3>4. EventInv'
      BY <1>3, <2>4, <3>1, <3>2, <3>3, KeyUpKeepsEventInv DEF DuplicateEdge
    <3>5. QED
      BY <2>1, <3>4 DEF EventInv
  <2>5. QED
    BY <2>2, <2>3, <2>4
<1>4. CASE AutoRepeat
  <2>1. NoOtherOption'
    BY <1>4 DEF AutoRepeat, NoOtherOption
  <2>2. handleKeyDown(accepted) /\ watchedKeyCode \in RepeatKeys
    BY <1>4 DEF AutoRepeat, handleEvent
  <2>3. accepted \in 0..2 /\ watchedKeyCode \notin DeafKeys
    BY <1>4 DEF AutoRepeat, TypeOK
  <2>4. sinceStop' = sinceRelease'
    BY <1>4, <2>2, <2>3 DEF AutoRepeat, handleKeyDown, StopClock
  <2>5. EventInv'
    BY <1>4, <2>2, <2>3, <2>4, KeyDownKeepsEventInv DEF AutoRepeat
  <2>6. QED
    BY <2>1, <2>5 DEF EventInv
<1>5. CASE holdTimerFired
  BY <1>5 DEF holdTimerFired, onStartRecording, NoOtherOption, StopClock, StartClock,
     PressClock, RecordingNeedsHeldKey, OnePressOneEdge, HeldStates, MachineInv,
     TimerMatchesState
<1>6. CASE tapPendingTimerFired
  BY <1>6 DEF tapPendingTimerFired, NoOtherOption, StopClock, StartClock, PressClock,
     RecordingNeedsHeldKey, OnePressOneEdge, HeldStates
<1>7. CASE Tick
  BY <1>7 DEF Tick, Older, TypeOK, NoOtherOption, StopClock, StartClock, PressClock,
     RecordingNeedsHeldKey, OnePressOneEdge, MachineInv, TimerMatchesState
<1>8. ASSUME NEW k \in Keys, NEW w \in Windows, NEW h \in BOOLEAN, SyncSettings(k, w, h)
      PROVE KeyInv'
  <2> USE DEF manager, timers, NoOtherOption, StopClock, StartClock, PressClock,
              RecordingNeedsHeldKey, OnePressOneEdge
  <2>1. CASE k = watchedKeyCode
    BY <1>8, <2>1 DEF SyncSettings
  <2>2. CASE k # watchedKeyCode
    BY <1>8, <2>2 DEF SyncSettings, AtRest, HeldStates
  <2>3. QED
    BY <2>1, <2>2
<1>9. CASE UNCHANGED vars
  BY <1>9 DEF vars, timers, NoOtherOption, StopClock, StartClock, PressClock,
     RecordingNeedsHeldKey, OnePressOneEdge
<1>10. QED
  BY <1>1, <1>2, <1>3, <1>4, <1>5, <1>6, <1>7, <1>8, <1>9 DEF Next

LEMMA InitKeyInv == Init => KeyInv
BY KeyAssumption, TimeAssumption
   DEF Init, KeyInv, NoOtherOption, StopClock, StartClock, PressClock,
   RecordingNeedsHeldKey, OnePressOneEdge, HeldStates, DeafKeys

LEMMA KeyInvariant == CleanKeyboard /\ Spec => [](TypeOK /\ MachineInv /\ KeyInv)
<1>1. CleanKeyboard /\ TypeOK /\ TypeOK' /\ MachineInv /\ KeyInv /\ [Next]_vars => KeyInv'
  BY StepKeepsKeyInv
<1> DEFINE Clean == CleanKeyboard
<1>2. Clean => Clean'
  BY DEF CleanKeyboard
<1> HIDE DEF Clean
<1>3. Clean /\ TypeOK /\ TypeOK' /\ MachineInv /\ KeyInv /\ [Next]_vars => KeyInv'
  BY <1>1 DEF Clean
<1>4. Clean /\ Spec => [](TypeOK /\ MachineInv /\ KeyInv)
  BY <1>2, <1>3, InitKeyInv, Typing, MachineInvariant, PTL DEF Spec
<1>5. QED
  BY <1>4 DEF Clean

\* On a clean keyboard the machine believes the key held only while it is.
THEOREM RecordingOnlyWhileHeld == CleanKeyboard /\ Spec => []RecordingNeedsHeldKey
<1>1. KeyInv => RecordingNeedsHeldKey
  BY DEF KeyInv
<1>2. QED
  BY <1>1, KeyInvariant, PTL

\* On a clean keyboard a press of a key that does not auto-repeat counts once,
\* however often the OS reports it.
THEOREM PressCountsOnce == CleanKeyboard /\ Spec => []OnePressOneEdge
<1>1. KeyInv => OnePressOneEdge
  BY DEF KeyInv
<1>2. QED
  BY <1>1, KeyInvariant, PTL

\* On a clean keyboard push-to-talk starts only in a press that has lasted for
\* the whole window the timer was armed with.
THEOREM PttNeedsFullHold == CleanKeyboard /\ Spec => PttAfterFullHold
<1> DEFINE Held == watchedKeyCode \in held /\ sincePress >= armed
           Opens == session # "ptt" /\ session' = "ptt"
<1>1. ASSUME TypeOK, MachineInv, KeyInv, [Next]_vars, Opens PROVE Held
  <2> USE DEF manager, machine, timers, config, keyboard
  <2>down. ASSUME NEW count, handleKeyDown(count) PROVE FALSE
    BY <1>1, <2>down DEF handleKeyDown, IgnoreKeyDown, AcceptKeyDown, onHandsFreeStart
  <2>up. ASSUME handleKeyUp PROVE FALSE
    BY <1>1, <2>up DEF handleKeyUp, ReleaseKeyDown, ReleaseHolding, ReleaseStopTap,
       onStopRecording, onHandsFreeStop
  <2>same. ASSUME session' = session PROVE FALSE
    BY <1>1, <2>same
  <2>1. ASSUME NEW k \in Keys, PressKey(k) \/ ReleaseKey(k) PROVE FALSE
    BY <2>1, <2>down, <2>up, <2>same DEF PressKey, ReleaseKey, handleEvent
  <2>2. ASSUME DuplicateEdge \/ AutoRepeat PROVE FALSE
    BY <2>2, <2>down, <2>up DEF DuplicateEdge, AutoRepeat, handleEvent
  <2>3. ASSUME \/ tapPendingTimerFired \/ Tick
               \/ \E k \in Keys, w \in Windows, h \in BOOLEAN : SyncSettings(k, w, h)
               \/ UNCHANGED vars
        PROVE FALSE
    BY <2>3, <2>same DEF tapPendingTimerFired, Tick, SyncSettings, vars
  <2>4. holdTimerFired
    BY <1>1, <2>1, <2>2, <2>3 DEF Next
  <2>5. timer = "hold" /\ timerLeft <= 0 /\ hotkeyState = "keyDown"
    BY <1>1, <2>4 DEF holdTimerFired, MachineInv, TimerMatchesState
  <2>6. pressAge <= sincePress /\ (pressAge + timerLeft >= armed \/ pressAge = WindowMax)
    BY <1>1, <2>5 DEF KeyInv, PressClock
  <2>7. sincePress >= armed
    BY <1>1, <2>5, <2>6, TimeAssumption DEF TypeOK
  <2>8. QED
    BY <1>1, <2>5, <2>7 DEF KeyInv, RecordingNeedsHeldKey, HeldStates
<1>2. TypeOK /\ MachineInv /\ KeyInv /\ [Next]_vars => [Opens => Held]_vars
  BY <1>1
<1>3. CleanKeyboard /\ Spec => [][Opens => Held]_vars
  BY <1>2, KeyInvariant, PTL DEF Spec
<1>4. QED
  BY <1>3 DEF PttAfterFullHold
=============================================================================
