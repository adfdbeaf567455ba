------------------------------ MODULE Injection ------------------------------
(* Delivering text: the waterfall of strategies and the clipboard they share with the output modes and the user. Calls of  *)
(* the pipeline overlap, because its actor is free while it waits; every step below is one turn of the main thread.        *)
EXTENDS Integers, Sequences

CONSTANTS
  Deliveries,    \* calls of dispatchOutput and of the voice commands; each is also the text it delivers
  UserContents,  \* what the user may put on the clipboard: "string" or "picture"
  MaxCopies      \* bound: times the user copies something

ASSUME InjectionAssumption ==
  /\ UserContents \subseteq {"string", "picture"}
  /\ MaxCopies \in Nat
  /\ Deliveries \cap {"empty", "string", "picture", "no timer"} = {}

VARIABLES
  clipboard,  \* a delivery's text, what the user copied last, or "empty"
  left,       \* per delivery: the strategies it may still try
  mode,       \* per delivery: the output mode it was made in
  delivery,   \* per delivery: "idle", "active", "done"
  restore,    \* per delivery: what its timer will put on the clipboard, or "no timer"
  pastes,     \* the Command-V events posted and not yet served, oldest first
  received,   \* history: what came out in the target, as [of, content, inTime]
  trusted,    \* the accessibility permission
  puts,       \* history: per delivery, how many strategies reported success
  intended,   \* history: what the user, or a mode that copies, put on the clipboard last
  disturbed,  \* history: the clipboard was written while a restore was pending
  userCopies  \* times the user copied something

injectionVars ==
  <<clipboard, left, mode, delivery, restore, pastes, received, trusted, puts, intended, disturbed, userCopies>>
historyVars == <<puts, intended, disturbed>>

Contents == {"empty", "string", "picture"} \cup Deliveries

InjectionInit ==
  /\ clipboard \in UserContents
  /\ left = [d \in Deliveries |-> <<>>]
  /\ mode = [d \in Deliveries |-> "none"]
  /\ delivery = [d \in Deliveries |-> "idle"]
  /\ restore = [d \in Deliveries |-> "no timer"]
  /\ pastes = <<>>
  /\ received = <<>>
  /\ trusted = TRUE
  /\ puts = [d \in Deliveries |-> 0]
  /\ intended = clipboard
  /\ disturbed = FALSE
  /\ userCopies = 0

\* The strategies of TextInjector.inject, in order.
Chain(method) ==
  CASE method \in {"auto", "ax"} -> <<"ax", "pasteboard", "cgEvent">>
    [] method = "pasteboard" -> <<"pasteboard", "cgEvent">>
    [] method = "cgEvent" -> <<"cgEvent">>

Plan(m, method) == IF m = "clipboard" THEN <<>> ELSE Chain(method)

\* Voice commands inject their newlines like mode activeWindow.
dispatchOutput(d, m, method) ==
  /\ delivery[d] = "idle"
  /\ delivery' = [delivery EXCEPT ![d] = "active"]
  /\ mode' = [mode EXCEPT ![d] = m]
  /\ left' = [left EXCEPT ![d] = Plan(m, method)]
  /\ UNCHANGED <<clipboard, restore, pastes, received, trusted, historyVars, userCopies>>

Tries(d, strategy) == delivery[d] = "active" /\ left[d] # <<>> /\ Head(left[d]) = strategy
Passes(d) == left' = [left EXCEPT ![d] = Tail(@)] /\ UNCHANGED puts
Succeeds(d) ==
  /\ left' = [left EXCEPT ![d] = <<>>]
  /\ puts' = [puts EXCEPT ![d] = @ + 1]

Arrives(d, content, inTime) == received' = Append(received, [of |-> d, content |-> content, inTime |-> inTime])

Pending == {d \in Deliveries : restore[d] # "no timer"}

Write(content) ==
  /\ clipboard' = content
  /\ disturbed' = (disturbed \/ Pending # {})

\* AXInjector.inject: needs the permission, a text field and an app that is not on its list, and may fail all the same.
InjectAX(d) ==
  /\ Tries(d, "ax")
  /\ \/ trusted /\ Succeeds(d) /\ Arrives(d, d, TRUE)
     \/ Passes(d) /\ UNCHANGED received
  /\ UNCHANGED <<clipboard, mode, delivery, restore, pastes, trusted, intended, disturbed, userCopies>>

\* Only a string can be saved.
StringOf(content) == IF content = "picture" THEN "empty" ELSE content

FaultySaveLate(d) ==
  /\ Tries(d, "pasteboard")
  /\ trusted
  /\ Succeeds(d)
  /\ restore' = [restore EXCEPT ![d] = d]
  /\ Write(d)
  /\ pastes' = Append(pastes, d)
  /\ UNCHANGED <<mode, delivery, received, trusted, intended, userCopies>>

FaultyPutBackEarly(d) ==
  /\ Tries(d, "pasteboard")
  /\ trusted
  /\ Succeeds(d)
  /\ restore' = [restore EXCEPT ![d] = StringOf(clipboard)]
  /\ Write(StringOf(clipboard))
  /\ pastes' = Append(pastes, d)
  /\ UNCHANGED <<mode, delivery, received, trusted, intended, userCopies>>

\* PasteboardInjector.inject, which the app in front stays in front of: the text is put on the clipboard, Command-V is posted
\* and the timer started.
InjectPasteboard(d) ==
  /\ Tries(d, "pasteboard")
  /\ trusted
  /\ Succeeds(d)
  /\ restore' = [restore EXCEPT ![d] = StringOf(clipboard)]
  /\ Write(d)
  /\ pastes' = Append(pastes, d)
  /\ UNCHANGED <<mode, delivery, received, trusted, intended, userCopies>>

\* No permission; or another app has come to the front, and the string is put back at once.
AbortPaste(d) ==
  /\ Tries(d, "pasteboard")
  /\ Passes(d)
  /\ IF trusted THEN Write(StringOf(clipboard)) ELSE UNCHANGED <<clipboard, disturbed>>
  /\ UNCHANGED <<mode, delivery, restore, pastes, received, trusted, intended, userCopies>>

FaultyInjectCGEvent(d) ==
  /\ Tries(d, "cgEvent")
  /\ Passes(d)
  /\ UNCHANGED <<clipboard, mode, delivery, restore, pastes, received, trusted, intended, disturbed, userCopies>>

\* CGEventInjector.inject types the text, or does nothing without the permission; there is no strategy after it.
\* One step stands for the events that a background queue posts 5 ms apart, one for each scalar; that an event
\* which cannot be made is skipped, and that a scalar is cut to 16 bits, is left out with the text itself.
InjectCGEvent(d) ==
  /\ Tries(d, "cgEvent")
  /\ IF trusted THEN Succeeds(d) /\ Arrives(d, d, TRUE) ELSE Passes(d) /\ UNCHANGED received
  /\ UNCHANGED <<clipboard, mode, delivery, restore, pastes, trusted, intended, disturbed, userCopies>>

Planned(d) == delivery[d] = "active" /\ left[d] = <<>>

\* Modes clipboard and both copy the text at the end.
clipboardOnly(d) ==
  /\ Planned(d) /\ mode[d] \in {"clipboard", "both"}
  /\ delivery' = [delivery EXCEPT ![d] = "done"]
  /\ Write(d)
  /\ intended' = d
  /\ UNCHANGED <<left, mode, restore, pastes, received, trusted, puts, userCopies>>

DispatchReturns(d) ==
  /\ Planned(d) /\ mode[d] = "activeWindow"
  /\ delivery' = [delivery EXCEPT ![d] = "done"]
  /\ UNCHANGED <<clipboard, left, mode, restore, pastes, received, trusted, historyVars, userCopies>>

\* 150 ms later the clipboard is restored, whatever it holds by then.
Restore(d) ==
  /\ restore[d] # "no timer"
  /\ clipboard' = restore[d]
  /\ restore' = [restore EXCEPT ![d] = "no timer"]
  /\ disturbed' = (disturbed \/ Pending # {d})
  /\ UNCHANGED <<left, mode, delivery, pastes, received, trusted, puts, intended, userCopies>>

\* The target serves the oldest Command-V with what the clipboard holds now.
ServePaste ==
  /\ pastes # <<>>
  /\ LET d == Head(pastes) IN Arrives(d, clipboard, restore[d] # "no timer")
  /\ pastes' = Tail(pastes)
  /\ UNCHANGED <<clipboard, left, mode, delivery, restore, trusted, historyVars, userCopies>>

UserCopies(content) ==
  /\ userCopies < MaxCopies
  /\ userCopies' = userCopies + 1
  /\ Write(content)
  /\ intended' = content
  /\ UNCHANGED <<left, mode, delivery, restore, pastes, received, trusted, puts>>

PermissionRevoked ==
  /\ trusted
  /\ trusted' = FALSE
  /\ UNCHANGED <<clipboard, left, mode, delivery, restore, pastes, received, historyVars, userCopies>>

InjectionNext ==
  \/ \E d \in Deliveries :
       \/ \E m \in {"activeWindow", "clipboard", "both"}, method \in {"auto", "ax", "pasteboard", "cgEvent"} :
            dispatchOutput(d, m, method)
       \/ InjectAX(d) \/ InjectPasteboard(d) \/ AbortPaste(d) \/ InjectCGEvent(d) \/ clipboardOnly(d)
       \/ DispatchReturns(d) \/ Restore(d)
  \/ ServePaste
  \/ \E content \in UserContents : UserCopies(content)
  \/ PermissionRevoked

InjectionSpec == InjectionInit /\ [][InjectionNext]_injectionVars
------------------------------------------------------------------------------
Settled == \A d \in Deliveries : delivery[d] # "active" /\ restore[d] = "no timer"

\* A delivery is made by one strategy and no more, and by one as long as the permission is there.
\* Code: "never hard-fails and never silently drops the user's dictation" (TextInjector).
InjectedOnce ==
  \A d \in Deliveries :
    /\ puts[d] <= 1
    /\ delivery[d] = "done" /\ mode[d] # "clipboard" /\ trusted => puts[d] = 1

\* A paste that is served in time gets the text it was posted for, unless something else wrote the clipboard in between.
\* Code: PasteboardInjector.inject.
PastesItsText == \A i \in 1..Len(received) : received[i].inTime /\ ~disturbed => received[i].content = received[i].of

\* When all is over, the clipboard holds what the user or an output mode put there, if that was text and nobody wrote to the
\* clipboard while a restore was pending. Code: PasteboardInjector.inject.
ClipboardReturns == Settled /\ ~disturbed /\ intended # "picture" => clipboard = intended

\* The same without the conditions. Code: "restores prior clipboard" and "`both`: Inject + write to clipboard" (README).
ClipboardAsIntended == Settled => clipboard = intended
=============================================================================
