---------------------------- MODULE HistoryPanel ----------------------------
(* The transcription history: the table behind its store, the list that the popover shows of it, and the rows' countdowns  *)
(* after which an old text is injected again. An entry's number is its timestamp.                                          *)
EXTENDS Integers, Sequences, FiniteSets, Functions

CONSTANTS
  Entries,   \* the entries that transcriptions produce
  Retained,  \* maxEntries of insert, and the limit of fetchRecent: 500 both
  Loops,     \* bound: taps on the buttons of rows
  MaxPanelLoads   \* bound: times that the popover loads the list

ASSUME HistoryAssumption == Entries \subseteq Nat /\ Retained \in Nat \ {0} /\ MaxPanelLoads \in Nat

VARIABLES
  table,              \* the history table
  persisted,           \* per entry: "none", "stored", "notified", or "failed"
  entries,            \* the list, newest first
  answers,            \* lists that the store has given and the panel has not taken yet
  removing,           \* entries that the list no longer shows and the store is still to delete
  clearing,           \* "no", "deleted": deleteAll has returned and the list is still to be emptied
  loads,              \* times the list was loaded
  trimmed,            \* history: entries that the store has dropped and the list, asked for before, goes on showing
  outOfStep,          \* history: something happened that the list and the table see in different orders, or one only
  reinjectionStates,  \* per entry
  isInjecting,        \* the rows' buttons are off; their context menus are not
  loop,               \* per tap: its entry, where reinject is and the seconds that its countdown still has
  asleep,             \* the taps whose task sleeps, in the order in which they fell asleep
  wanted              \* history: per entry, its last tap was neither cancelled nor answered with an injection

listVars == <<table, persisted, entries, answers, removing, clearing, loads, trimmed, outOfStep>>
reinjectVars == <<reinjectionStates, isInjecting, loop, asleep, wanted>>
historyPanelVars == <<listVars, reinjectVars>>

\* The k-th of a set of numbers, from the smallest.
Kth(s, k) == CHOOSE x \in s : Cardinality({y \in s : y <= x}) = k

\* The newest n of a set of entries, newest first.
Newest(s, n) ==
  LET count == Cardinality(s)
  IN [i \in 1..(IF count < n THEN count ELSE n) |-> Kth(s, count + 1 - i)]

Shown == {entries[i] : i \in 1..Len(entries)}

\* What the list shows at rest.
Kept == table \cup trimmed

\* removeAll: what is left keeps its order.
Without(list, e) ==
  LET kept == {i \in 1..Len(list) : list[i] # e}
  IN [k \in 1..Cardinality(kept) |-> list[Kth(kept, k)]]

HistoryInit ==
  /\ table = {}
  /\ persisted = [e \in Entries |-> "none"]
  /\ entries = <<>>
  /\ answers = <<>>
  /\ removing = {}
  /\ clearing = "no"
  /\ loads = 0
  /\ trimmed = {} /\ outOfStep = FALSE
  /\ reinjectionStates = [e \in Entries |-> "idle"]
  /\ isInjecting = FALSE
  /\ loop = [t \in Loops |-> [entry |-> 0, at |-> "unused", remaining |-> 0]]
  /\ asleep = <<>>
  /\ wanted = [e \in Entries |-> FALSE]

Busy == answers # <<>> \/ removing # {} \/ clearing # "no" \/ \E e \in Entries : persisted[e] = "stored"

\* HistoryStore.insert: the entry and the trim are one transaction, which may fail. An entry may be stored after a later one.
Insert(e) ==
  /\ persisted[e] = "none"
  /\ table' = Range(Newest(table \cup {e}, Retained))
  /\ trimmed' = trimmed \cup ((table \cup {e}) \ table')
  /\ persisted' = [persisted EXCEPT ![e] = "stored"]
  /\ outOfStep' = (outOfStep \/ Busy \/ \E x \in Kept : x > e)
  /\ UNCHANGED <<entries, answers, removing, clearing, loads, reinjectVars>>

InsertFails(e) ==
  /\ persisted[e] = "none"
  /\ persisted' = [persisted EXCEPT ![e] = "failed"]
  /\ UNCHANGED <<table, entries, answers, removing, clearing, loads, trimmed, outOfStep, reinjectVars>>

FaultyNotify(e) ==
  /\ persisted[e] \in {"stored", "failed"}
  /\ persisted' = [persisted EXCEPT ![e] = "notified"]
  /\ entries' = IF loads > 0 THEN <<e>> \o entries ELSE entries
  /\ UNCHANGED <<table, answers, removing, clearing, loads, trimmed, outOfStep, reinjectVars>>

\* onHistoryEntryReady, once the popover has set it: appendEntry puts the entry in front and, unlike the store, trims nothing.
Notify(e) ==
  /\ persisted[e] = "stored"
  /\ persisted' = [persisted EXCEPT ![e] = "notified"]
  /\ entries' = IF loads > 0 THEN <<e>> \o entries ELSE entries
  /\ UNCHANGED <<table, answers, removing, clearing, loads, trimmed, outOfStep, reinjectVars>>

\* loadHistory, each time the popover appears: the store answers ...
Load ==
  /\ loads < MaxPanelLoads
  /\ loads' = loads + 1
  /\ answers' = Append(answers, Newest(table, Retained))
  /\ trimmed' = {} /\ outOfStep' = Busy  \* what was out of step is forgotten, unless something else is under way
  /\ UNCHANGED <<table, persisted, entries, removing, clearing, reinjectVars>>

\* ... and the panel takes the answer, whatever it shows by then.
TakeAnswer ==
  /\ answers # <<>>
  /\ entries' = Head(answers)
  /\ answers' = Tail(answers)
  /\ UNCHANGED <<table, persisted, removing, clearing, loads, trimmed, outOfStep, reinjectVars>>

\* A row's delete button, or its context menu, which is never off: the list first, then the store, which may fail.
DeleteRow(e) ==
  /\ e \in Shown
  /\ entries' = Without(entries, e)
  /\ removing' = removing \cup {e}
  /\ trimmed' = trimmed \ {e}
  /\ outOfStep' = (outOfStep \/ Busy)
  /\ UNCHANGED <<table, persisted, answers, clearing, loads, reinjectVars>>

DeleteStored(e, fails) ==
  /\ e \in removing
  /\ removing' = removing \ {e}
  /\ table' = IF fails THEN table ELSE table \ {e}
  /\ outOfStep' = (outOfStep \/ fails)
  /\ UNCHANGED <<persisted, entries, answers, clearing, loads, trimmed, reinjectVars>>

\* clearAll, whose failure leaves everything as it is.
ClearTable ==
  /\ clearing = "no"
  /\ Shown # {}
  /\ table' = {}
  /\ clearing' = "deleted"
  /\ outOfStep' = (outOfStep \/ Busy)
  /\ UNCHANGED <<persisted, entries, answers, removing, loads, trimmed, reinjectVars>>

ClearList ==
  /\ clearing = "deleted"
  /\ clearing' = "no"
  /\ entries' = <<>>
  /\ trimmed' = {}
  /\ UNCHANGED <<table, persisted, answers, removing, loads, outOfStep, reinjectVars>>
-----------------------------------------------------------------------------
\* Sleeps end in the order of their ends: a sleep that began earlier and is not longer ends first.
Length(at) == CASE at = "counting" -> 10 [] at = "succeeded" -> 12 [] at = "failed" -> 20
Wakes(t) ==
  /\ \E i \in 1..Len(asleep) :
       /\ asleep[i] = t
       /\ \A j \in 1..i - 1 : Length(loop[asleep[j]].at) > Length(loop[t].at)
Sleeps(others, t, at, n) ==
  /\ asleep' = Append(others, t)
  /\ loop' = [loop EXCEPT ![t].at = at, ![t].remaining = n]
SetState(e, state) == reinjectionStates' = [reinjectionStates EXCEPT ![e] = state]

\* A tap on the button of a row, or "Re-inject" in its context menu, which is never off: also while another row's text, or this
\* row's last one, is being injected, and while the row shows how that ended.
Reinject(t, e) ==
  /\ loop[t].at = "unused"
  /\ e \in Shown
  /\ reinjectionStates[e] \notin {"countdown", "loading"}
  /\ SetState(e, "countdown")
  /\ asleep' = Append(asleep, t)
  /\ loop' = [loop EXCEPT ![t] = [entry |-> e, at |-> "counting", remaining |-> 3]]
  /\ wanted' = [wanted EXCEPT ![e] = TRUE]
  /\ UNCHANGED <<listVars, isInjecting>>

CancelReinject(e) ==
  /\ reinjectionStates[e] = "countdown"
  /\ SetState(e, "idle")
  /\ wanted' = [wanted EXCEPT ![e] = FALSE]
  /\ UNCHANGED <<listVars, isInjecting, loop, asleep>>

Counting(t) == loop[t].at = "counting" /\ Wakes(t)

\* A second is over and the state is another's.
CountdownBroken(t) ==
  /\ Counting(t)
  /\ reinjectionStates[loop[t].entry] # "countdown"
  /\ asleep' = Without(asleep, t)
  /\ loop' = [loop EXCEPT ![t].at = "ended"]
  /\ UNCHANGED <<listVars, reinjectionStates, isInjecting, wanted>>

CountDown(t) ==
  /\ Counting(t)
  /\ reinjectionStates[loop[t].entry] = "countdown"
  /\ loop[t].remaining > 1
  /\ Sleeps(Without(asleep, t), t, "counting", loop[t].remaining - 1)
  /\ UNCHANGED <<listVars, reinjectionStates, isInjecting, wanted>>

\* The last second is over: the app in front may be one that nothing is injected into.
Blocked(t) ==
  /\ Counting(t)
  /\ reinjectionStates[loop[t].entry] = "countdown"
  /\ loop[t].remaining = 1
  /\ SetState(loop[t].entry, "failure")
  /\ Sleeps(Without(asleep, t), t, "failed", 0)
  /\ wanted' = [wanted EXCEPT ![loop[t].entry] = FALSE]
  /\ UNCHANGED <<listVars, isInjecting>>

FaultyBeginInjection(t) ==
  /\ Counting(t)
  /\ loop[t].remaining = 1
  /\ SetState(loop[t].entry, "loading")
  /\ isInjecting' = TRUE
  /\ asleep' = Without(asleep, t)
  /\ loop' = [loop EXCEPT ![t].at = "injecting"]
  /\ wanted' = [wanted EXCEPT ![loop[t].entry] = FALSE]
  /\ UNCHANGED listVars

BeginInjection(t) ==
  /\ Counting(t)
  /\ reinjectionStates[loop[t].entry] = "countdown"
  /\ loop[t].remaining = 1
  /\ SetState(loop[t].entry, "loading")
  /\ isInjecting' = TRUE
  /\ asleep' = Without(asleep, t)
  /\ loop' = [loop EXCEPT ![t].at = "injecting"]
  /\ wanted' = [wanted EXCEPT ![loop[t].entry] = FALSE]
  /\ UNCHANGED listVars

\* The injector has done what it could, and never says that it failed.
EndInjection(t) ==
  /\ loop[t].at = "injecting"
  /\ reinjectionStates[loop[t].entry] # "failure"
  /\ SetState(loop[t].entry, "success")
  /\ Sleeps(asleep, t, "succeeded", 0)
  /\ UNCHANGED <<listVars, isInjecting, wanted>>

\* Another countdown of the entry was blocked in the meantime.
EndAfterFailure(t) ==
  /\ loop[t].at = "injecting"
  /\ reinjectionStates[loop[t].entry] = "failure"
  /\ Sleeps(asleep, t, "failed", 1)
  /\ UNCHANGED <<listVars, reinjectionStates, isInjecting, wanted>>

\* The end of reinject; one that injected also turns the buttons on, even while another one still injects.
ReinjectEnds(t) ==
  /\ loop[t].at \in {"succeeded", "failed"}
  /\ Wakes(t)
  /\ SetState(loop[t].entry, "idle")
  /\ isInjecting' = (isInjecting /\ loop[t].at = "failed" /\ loop[t].remaining = 0)
  /\ asleep' = Without(asleep, t)
  /\ loop' = [loop EXCEPT ![t].at = "ended"]
  /\ UNCHANGED <<listVars, wanted>>

HistoryNext ==
  \/ \E e \in Entries :
       \/ Insert(e) \/ InsertFails(e) \/ Notify(e) \/ DeleteRow(e) \/ CancelReinject(e)
       \/ \E fails \in BOOLEAN : DeleteStored(e, fails)
       \/ \E t \in Loops : Reinject(t, e)
  \/ Load \/ TakeAnswer \/ ClearTable \/ ClearList
  \/ \E t \in Loops :
       CountdownBroken(t) \/ CountDown(t) \/ Blocked(t) \/ BeginInjection(t) \/ EndInjection(t) \/ EndAfterFailure(t)
         \/ ReinjectEnds(t)

HistorySpec == HistoryInit /\ [][HistoryNext]_historyPanelVars
-----------------------------------------------------------------------------
\* At rest the list shows what is stored, and behind it what retention has dropped from the table since the list was asked for,
\* newest first and nothing twice. This holds if since then no two of insert, load, delete and clear overlapped, no entry was
\* stored after a later one, and no deletion failed in the store. Code: "so the in-memory list stays consistent with the
\* persistent store" (persistAndNotify).
ListIsTable == loads > 0 /\ ~Busy /\ ~outOfStep => entries = Newest(Kept, Cardinality(Kept))

\* A text is injected only for a tap that was not cancelled since, and once for each, whatever is tapped in the buttons and the
\* context menus of the rows meanwhile. A tap may be lost: the end of the row's last injection takes the state from under the new
\* countdown. Code: "Tapping cancel sets the state to .idle, which breaks the loop" (reinject).
InjectedOncePerTap ==
  [][\A t \in Loops : loop[t].at # "injecting" /\ loop'[t].at = "injecting" => wanted[loop[t].entry]]_historyPanelVars
=============================================================================
