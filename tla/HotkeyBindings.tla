--------------------------- MODULE HotkeyBindings ---------------------------
(* The four hotkey bindings: the store with its cache and what UserDefaults keep, the settings rows in which a binding is  *)
(* recorded, and the dispatcher that passes keys on to the hotkey manager and to a second event tap.                       *)
EXTENDS Integers, FiniteSets

CONSTANTS
  HotkeyActions,  \* HotkeyAction.allCases
  DefaultAction,  \* defaultTranscription
  TapActions,     \* the actions of the second tap: openPopover and injectLastTranscription
  Combos,         \* key combinations, each with its key and its modifier flags
  DefaultCombo,   \* Right Option
  Reserved,       \* combinations that macOS keeps for itself
  NotSet          \* the binding of an action that has none; also no row

ASSUME BindingsAssumption ==
  /\ DefaultAction \in HotkeyActions \ TapActions /\ TapActions \subseteq HotkeyActions /\ NotSet \notin HotkeyActions
  /\ Reserved \subseteq Combos /\ DefaultCombo \in Combos \ Reserved /\ NotSet \notin Combos
  /\ \A c \in Combos : DOMAIN c = {"key", "flags"}

VARIABLES
  cache,            \* per action, its combination or NotSet
  saved,            \* the cache as UserDefaults have it
  syncDue,          \* a change of UserDefaults has been announced and its task has not run yet
  watchedKeyCode,   \* the hotkey manager's key
  secondaryState,   \* per action of the second tap, its key code
  recordingAction,  \* the row that records, or NotSet
  rowStates,
  eventMonitor,     \* the action for which the event monitor captures, or NotSet if it is not installed
  confirmations,    \* the actions whose confirmation is still to be dismissed
  reseeded          \* history: a launch has put the default back where the user had cleared it

bindingVars == <<cache, saved, syncDue, watchedKeyCode, secondaryState, recordingAction, rowStates, eventMonitor,
                 confirmations, reseeded>>
storeVars == <<cache, saved, syncDue, reseeded>>
dispatcherVars == <<watchedKeyCode, secondaryState>>
rowVars == <<recordingAction, rowStates, eventMonitor, confirmations>>

KeyOf(combo) == IF combo = NotSet THEN NotSet ELSE combo.key

\* What syncBindings does for the cache c: a default that is not set leaves the watched key as it was.
Synced(c) ==
  /\ watchedKeyCode' = IF c[DefaultAction] = NotSet THEN watchedKeyCode ELSE KeyOf(c[DefaultAction])
  /\ secondaryState' = [a \in TapActions |-> KeyOf(c[a])]

\* The first launch, up to syncBindings: the default is seeded and saved.
Seeded == [a \in HotkeyActions |-> IF a = DefaultAction THEN DefaultCombo ELSE NotSet]

BindingsInit ==
  /\ cache = Seeded
  /\ saved = Seeded
  /\ syncDue = FALSE
  /\ watchedKeyCode = DefaultCombo.key
  /\ secondaryState = [a \in TapActions |-> NotSet]
  /\ recordingAction = NotSet
  /\ rowStates = [a \in HotkeyActions |-> "idle"]
  /\ eventMonitor = NotSet
  /\ confirmations = {}
  /\ reseeded = FALSE

\* setBinding and clearBinding: the cache, the defaults, and the notification the defaults send.
SetBinding(a, combo) ==
  /\ cache' = [cache EXCEPT ![a] = combo]
  /\ saved' = cache'
  /\ syncDue' = TRUE
  /\ UNCHANGED reseeded

syncBindings ==
  /\ syncDue
  /\ syncDue' = FALSE
  /\ Synced(cache)
  /\ UNCHANGED <<cache, saved, reseeded, rowVars>>

\* The record button; the buttons of other rows are off while a row records.
startRecording(a) ==
  /\ recordingAction = NotSet
  /\ recordingAction' = a
  /\ rowStates' = [rowStates EXCEPT ![a] = "recording"]
  /\ eventMonitor' = a
  /\ UNCHANGED <<storeVars, dispatcherVars, confirmations>>

\* The row's dismiss button, or Escape.
cancelRecording(a) ==
  /\ recordingAction = a
  /\ recordingAction' = NotSet
  /\ rowStates' = [rowStates EXCEPT ![a] = "idle"]
  /\ eventMonitor' = NotSet
  /\ UNCHANGED <<storeVars, dispatcherVars, confirmations>>

\* The clear button, which a row has while it is neither recording nor in conflict, and a binding is set.
clearBinding(a) ==
  /\ rowStates[a] \notin {"recording", "conflict"}
  /\ cache[a] # NotSet
  /\ SetBinding(a, NotSet)
  /\ rowStates' = [rowStates EXCEPT ![a] = "idle"]
  /\ UNCHANGED <<dispatcherVars, recordingAction, eventMonitor, confirmations>>

\* conflictingAction, excluding the row that records.
FaultyConflicts(combo, excluding) == {a \in TapActions \ {excluding} : cache[a] = combo}
Conflicts(combo, excluding) == {a \in HotkeyActions \ {excluding} : cache[a] = combo}

\* A key is pressed while the monitor is installed. The row stays a recording one when its key is refused.
Capture(combo) ==
  /\ eventMonitor # NotSet
  /\ LET a == eventMonitor IN
     IF combo \in Reserved \/ Conflicts(combo, a) # {}
     THEN /\ rowStates' = [rowStates EXCEPT ![a] = "conflict"]
          /\ UNCHANGED <<storeVars, recordingAction, eventMonitor, confirmations>>
     ELSE /\ SetBinding(a, combo)
          /\ eventMonitor' = NotSet
          /\ recordingAction' = NotSet
          /\ rowStates' = [rowStates EXCEPT ![a] = "confirmed"]
          /\ confirmations' = confirmations \cup {a}  \* the task of an earlier confirmation is cancelled
  /\ UNCHANGED dispatcherVars

FaultyDismissConfirmation(a) ==
  /\ a \in confirmations
  /\ confirmations' = confirmations \ {a}
  /\ rowStates' = [rowStates EXCEPT ![a] = "idle"]
  /\ UNCHANGED <<storeVars, dispatcherVars, recordingAction, eventMonitor>>

\* Two seconds after the confirmation.
DismissConfirmation(a) ==
  /\ a \in confirmations
  /\ confirmations' = confirmations \ {a}
  /\ rowStates' = [rowStates EXCEPT ![a] = IF @ = "confirmed" THEN "idle" ELSE @]
  /\ UNCHANGED <<storeVars, dispatcherVars, recordingAction, eventMonitor>>

\* The app is started again: loadOrMigrate with seedMissingDefaults, then syncBindings on a new hotkey manager.
LaunchAgain ==
  /\ cache' = [saved EXCEPT ![DefaultAction] = IF @ = NotSet THEN DefaultCombo ELSE @]
  /\ reseeded' = (reseeded \/ saved[DefaultAction] = NotSet)
  /\ watchedKeyCode' = KeyOf(cache'[DefaultAction])
  /\ secondaryState' = [a \in TapActions |-> KeyOf(cache'[a])]
  /\ syncDue' = FALSE
  /\ recordingAction' = NotSet
  /\ rowStates' = [a \in HotkeyActions |-> "idle"]
  /\ eventMonitor' = NotSet
  /\ confirmations' = {}
  /\ UNCHANGED saved

BindingsNext ==
  \/ \E a \in HotkeyActions : startRecording(a) \/ cancelRecording(a) \/ clearBinding(a) \/ DismissConfirmation(a)
  \/ \E combo \in Combos : Capture(combo)
  \/ syncBindings
  \/ LaunchAgain

BindingsSpec == BindingsInit /\ [][BindingsNext]_bindingVars
-----------------------------------------------------------------------------
BindingsTypeOK ==
  /\ cache \in [HotkeyActions -> Combos \cup {NotSet}]
  /\ saved \in [HotkeyActions -> Combos \cup {NotSet}]
  /\ syncDue \in BOOLEAN
  /\ watchedKeyCode \in {c.key : c \in Combos}
  /\ secondaryState \in [TapActions -> {c.key : c \in Combos} \cup {NotSet}]
  /\ recordingAction \in HotkeyActions \cup {NotSet}
  /\ rowStates \in [HotkeyActions -> {"idle", "recording", "conflict", "confirmed"}]
  /\ eventMonitor \in HotkeyActions \cup {NotSet}
  /\ confirmations \subseteq HotkeyActions
  /\ reseeded \in BOOLEAN

\* No two actions have one combination, however they are recorded, cleared and recorded again, unless a launch has brought
\* the default back over another action's. Code: conflictingAction ("the HotkeyAction that already owns the given key combo").
CombosUnique ==
  \A a, b \in HotkeyActions :
    a # b /\ cache[a] # NotSet /\ cache[a] = cache[b] => reseeded /\ cache[a] = DefaultCombo

\* The event monitor captures for the row that shows that it records, and for no other; a confirmation that ends late never
\* takes that away. Code: "do not overwrite a subsequent recording" (HotkeySettingsViewModel).
OneRowRecords ==
  /\ eventMonitor = recordingAction
  /\ \A a \in HotkeyActions : rowStates[a] \in {"recording", "conflict"} <=> a = recordingAction

\* Once the notification is dealt with, the taps listen for the keys that the settings show.
\* Code: "Hotkeys take effect immediately" (HotkeySettingsView); a cleared default goes on being watched.
TapsFollowBindings ==
  ~syncDue =>
    /\ cache[DefaultAction] # NotSet => watchedKeyCode = KeyOf(cache[DefaultAction])
    /\ \A a \in TapActions : secondaryState[a] = KeyOf(cache[a])
=============================================================================
