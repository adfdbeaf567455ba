--------------------------- MODULE Injection_proofs ---------------------------
(* Proofs about Injection for every number of deliveries and of copies by the user.                                        *)
EXTENDS Injection, SequenceTheorems, TLAPS

Modes == {"activeWindow", "clipboard", "both"}
Methods == {"auto", "ax", "pasteboard", "cgEvent"}
Receipt == [of : Deliveries, content : Contents, inTime : BOOLEAN]

\* What is left of a plan before the text is injected.
Chains == {<<"ax", "pasteboard", "cgEvent">>, <<"pasteboard", "cgEvent">>, <<"cgEvent">>}

Types ==
  /\ clipboard \in Contents
  /\ delivery \in [Deliveries -> {"idle", "active", "done"}]
  /\ mode \in [Deliveries -> Modes \cup {"none"}]
  /\ \A d \in Deliveries : delivery[d] # "idle" => mode[d] \in Modes
  /\ restore \in [Deliveries -> Contents \cup {"no timer"}]
  /\ pastes \in Seq(Deliveries)
  /\ received \in Seq(Receipt)
  /\ trusted \in BOOLEAN
  /\ intended \in Contents
  /\ disturbed \in BOOLEAN
  /\ DOMAIN left = Deliveries
  /\ puts \in [Deliveries -> Nat]

\* How far each delivery is in its plan, and what that says of the strategies that succeeded.
Made(d) ==
  /\ puts[d] <= 1
  /\ mode[d] # "clipboard" /\ trusted => puts[d] = 1

PlanInv(d) ==
  /\ delivery[d] = "idle" => puts[d] = 0
  /\ delivery[d] = "active" =>
       \/ mode[d] # "clipboard" /\ left[d] \in Chains /\ puts[d] = 0
       \/ left[d] = <<>> /\ Made(d)
  /\ delivery[d] = "done" => Made(d)

\* While nobody has written to the clipboard under a pending restore, at most one is pending, the clipboard holds that
\* delivery's text, and its timer will bring back what was intended.
ClipboardInv ==
  ~disturbed =>
    /\ \A d \in Pending :
         /\ clipboard = d
         /\ Pending = {d}
         /\ intended # "picture" => restore[d] = intended
    /\ Pending = {} /\ intended # "picture" => clipboard = intended

InjectionInv == Types /\ (\A d \in Deliveries : PlanInv(d)) /\ ClipboardInv /\ PastesItsText

LEMMA Kinds ==
  /\ \A d \in Deliveries : d \in Contents /\ d \notin {"empty", "string", "picture", "no timer"}
  /\ \A content \in UserContents : content \in Contents
  /\ \A content \in Contents : StringOf(content) \in Contents /\ content # "no timer" /\ StringOf(content) # "no timer"
  /\ \A content : content # "picture" => StringOf(content) = content
  BY InjectionAssumption DEF Contents, StringOf

LEMMA InitInv == InjectionInit => InjectionInv
<1> SUFFICES ASSUME InjectionInit PROVE InjectionInv
  OBVIOUS
<1>1. Pending = {}
  BY DEF InjectionInit, Pending
<1>2. Types
  BY Kinds, EmptySeq DEF InjectionInit, Types
<1>3. \A d \in Deliveries : PlanInv(d)
  BY DEF InjectionInit, PlanInv
<1>4. ClipboardInv
  BY <1>1 DEF InjectionInit, ClipboardInv
<1>5. PastesItsText
  <2>1. Len(received) = 0
    BY DEF InjectionInit
  <2>2. QED
    BY <2>1 DEF PastesItsText
<1>6. QED
  BY <1>2, <1>3, <1>4, <1>5 DEF InjectionInv
------------------------------------------------------------------------------
(* The plan of a delivery.                                                                                                 *)

LEMMA PlanStarts ==
  ASSUME NEW m \in Modes, NEW method \in Methods
  PROVE IF m = "clipboard" THEN Plan(m, method) = <<>> ELSE Plan(m, method) \in Chains
  BY DEF Modes, Methods, Plan, Chain, Chains

LEMMA PlanSteps ==
  ASSUME NEW l \in Chains
  PROVE /\ l # <<>>
        /\ Head(l) # "cgEvent" => Tail(l) \in Chains
        /\ Head(l) = "cgEvent" => Tail(l) = <<>>
<1>1. CASE l = <<"ax", "pasteboard", "cgEvent">>
  BY <1>1 DEF Chains
<1>2. CASE l = <<"pasteboard", "cgEvent">>
  BY <1>2 DEF Chains
<1>3. CASE l = <<"cgEvent">>
  BY <1>3 DEF Chains
<1>4. QED
  BY <1>1, <1>2, <1>3 DEF Chains

\* Only delivery d moves, or none at all.
Others(d) ==
  \A e \in Deliveries \ {d} :
    delivery'[e] = delivery[e] /\ mode'[e] = mode[e] /\ left'[e] = left[e] /\ puts'[e] = puts[e]

LEMMA OthersKeep ==
  ASSUME NEW d, \A e \in Deliveries : PlanInv(e), Others(d), trusted' => trusted
  PROVE \A e \in Deliveries \ {d} : PlanInv(e)'
  BY DEF Others, PlanInv, Made

LEMMA PlansKept ==
  ASSUME \A e \in Deliveries : PlanInv(e), UNCHANGED <<delivery, mode, left, puts>>, trusted' => trusted
  PROVE \A e \in Deliveries : PlanInv(e)'
  BY DEF PlanInv, Made

\* A strategy that fails leaves the next one, and the last one fails only without the permission.
LEMMA PassesInv ==
  ASSUME InjectionInv, NEW d \in Deliveries, NEW strategy, Tries(d, strategy), Passes(d),
         UNCHANGED <<delivery, mode, trusted>>, strategy = "cgEvent" => ~trusted
  PROVE DOMAIN left' = Deliveries /\ \A e \in Deliveries : PlanInv(e)'
<1>1. left[d] \in Chains /\ mode[d] # "clipboard" /\ puts[d] = 0
  BY DEF InjectionInv, PlanInv, Tries
<1>2. DOMAIN left' = Deliveries /\ left'[d] = Tail(left[d]) /\ \A e \in Deliveries \ {d} : left'[e] = left[e]
  BY DEF Passes, InjectionInv, Types
<1>3. \A e \in Deliveries \ {d} : PlanInv(e)'
  BY <1>2, OthersKeep DEF Others, Passes, InjectionInv
<1>4. PlanInv(d)'
  <2>1. CASE strategy = "cgEvent"
    <3>1. left'[d] = <<>> /\ ~trusted
      BY <1>1, <1>2, <2>1, PlanSteps DEF Tries
    <3>2. QED
      BY <1>1, <3>1 DEF PlanInv, Made, Passes, Tries
  <2>2. CASE strategy # "cgEvent"
    <3>1. left'[d] \in Chains
      BY <1>1, <1>2, <2>2, PlanSteps DEF Tries
    <3>2. QED
      BY <1>1, <3>1 DEF PlanInv, Passes, Tries
  <2>3. QED
    BY <2>1, <2>2
<1>5. QED
  BY <1>2, <1>3, <1>4

LEMMA SucceedsInv ==
  ASSUME InjectionInv, NEW d \in Deliveries, NEW strategy, Tries(d, strategy), Succeeds(d),
         UNCHANGED <<delivery, mode, trusted>>
  PROVE DOMAIN left' = Deliveries /\ puts' \in [Deliveries -> Nat] /\ \A e \in Deliveries : PlanInv(e)'
<1>1. puts[d] = 0 /\ delivery[d] = "active"
  <2>1. left[d] # <<>> /\ delivery[d] = "active"
    BY DEF Tries
  <2>2. QED
    BY <2>1 DEF InjectionInv, PlanInv
<1>2. /\ DOMAIN left' = Deliveries /\ left'[d] = <<>> /\ \A e \in Deliveries \ {d} : left'[e] = left[e]
      /\ puts' \in [Deliveries -> Nat] /\ puts'[d] = 1 /\ \A e \in Deliveries \ {d} : puts'[e] = puts[e]
  <2>1. DOMAIN left = Deliveries /\ puts \in [Deliveries -> Nat]
    BY DEF InjectionInv, Types
  <2>2. DOMAIN left' = Deliveries /\ left'[d] = <<>> /\ \A e \in Deliveries \ {d} : left'[e] = left[e]
    BY <2>1 DEF Succeeds
  <2>3. puts' \in [Deliveries -> Nat] /\ puts'[d] = 1 /\ \A e \in Deliveries \ {d} : puts'[e] = puts[e]
    BY <1>1, <2>1 DEF Succeeds
  <2>4. QED
    BY <2>2, <2>3
<1>3. \A e \in Deliveries \ {d} : PlanInv(e)'
  BY <1>2, OthersKeep DEF Others, InjectionInv
<1>4. PlanInv(d)'
  BY <1>1, <1>2 DEF PlanInv, Made
<1>5. QED
  BY <1>2, <1>3, <1>4
------------------------------------------------------------------------------
(* The clipboard and what arrives.                                                                                         *)

LEMMA ClipboardKept ==
  ASSUME InjectionInv, UNCHANGED <<clipboard, restore, intended, disturbed>>
  PROVE ClipboardInv'
  BY DEF InjectionInv, ClipboardInv, Pending

\* A write without a pending timer leaves the clipboard as intended if what is written is.
LEMMA WriteKeeps ==
  ASSUME InjectionInv, NEW content, Write(content), restore' = restore,
         ~disturbed /\ Pending = {} /\ intended' # "picture" => content = intended'
  PROVE ClipboardInv'
  BY DEF Write, InjectionInv, ClipboardInv, Pending, Types

LEMMA ReceivedKept ==
  ASSUME InjectionInv, received' = received, disturbed => disturbed'
  PROVE PastesItsText'
  BY DEF InjectionInv, PastesItsText

LEMMA ArrivesInv ==
  ASSUME InjectionInv, NEW d \in Deliveries, NEW content \in Contents, NEW inTime \in BOOLEAN,
         Arrives(d, content, inTime), disturbed' = disturbed, inTime /\ ~disturbed => content = d
  PROVE received' \in Seq(Receipt) /\ PastesItsText'
<1>0. received \in Seq(Receipt)
  BY DEF InjectionInv, Types
<1> DEFINE r == [of |-> d, content |-> content, inTime |-> inTime]
<1>1. r \in Receipt /\ r.of = d /\ r.content = content /\ r.inTime = inTime
  BY DEF Receipt
<1> HIDE DEF r
<1>2. /\ received' \in Seq(Receipt) /\ Len(received') = Len(received) + 1
      /\ received'[Len(received) + 1] = r /\ \A i \in 1..Len(received) : received'[i] = received[i]
  <2>1. received' = Append(received, r)
    BY DEF Arrives, r
  <2>2. QED
    BY <1>0, <1>1, <2>1, AppendProperties
<1>3. Len(received) \in Nat
  BY <1>0
<1>4. ASSUME NEW i \in 1..Len(received) + 1, received'[i].inTime, ~disturbed
      PROVE received'[i].content = received'[i].of
  <2>1. CASE i = Len(received) + 1
    BY <1>1, <1>2, <1>4, <2>1
  <2>2. CASE i \in 1..Len(received)
    BY <1>2, <1>4, <2>2 DEF InjectionInv, PastesItsText
  <2>3. QED
    BY <1>3, <2>1, <2>2
<1>5. QED
  BY <1>2, <1>4 DEF PastesItsText
------------------------------------------------------------------------------
(* The steps.                                                                                                              *)

LEMMA DispatchInv ==
  ASSUME InjectionInv, NEW d \in Deliveries, NEW m \in Modes, NEW method \in Methods, dispatchOutput(d, m, method)
  PROVE InjectionInv'
<1>1. /\ delivery[d] = "idle" /\ puts[d] = 0 /\ puts' = puts /\ trusted' = trusted
      /\ delivery'[d] = "active" /\ mode'[d] = m /\ left'[d] = Plan(m, method) /\ Others(d)
  BY DEF dispatchOutput, InjectionInv, Types, PlanInv, Others, historyVars
<1>2. PlanInv(d)'
  BY <1>1, PlanStarts DEF PlanInv, Made
<1>3. \A e \in Deliveries \ {d} : PlanInv(e)'
  BY <1>1, OthersKeep DEF InjectionInv
<1>4. Types'
  BY DEF dispatchOutput, InjectionInv, Types, historyVars
<1>5. QED
  BY <1>2, <1>3, <1>4, ClipboardKept, ReceivedKept DEF dispatchOutput, historyVars, InjectionInv

LEMMA AXInv ==
  ASSUME InjectionInv, NEW d \in Deliveries, InjectAX(d)
  PROVE InjectionInv'
<1>1. ClipboardInv'
  BY ClipboardKept DEF InjectAX
<1>2. CASE Succeeds(d) /\ Arrives(d, d, TRUE)
  <2>1. DOMAIN left' = Deliveries /\ puts' \in [Deliveries -> Nat] /\ \A e \in Deliveries : PlanInv(e)'
    BY <1>2, SucceedsInv DEF InjectAX
  <2>2. received' \in Seq(Receipt) /\ PastesItsText'
    BY <1>2, Kinds, ArrivesInv DEF InjectAX
  <2>3. QED
    BY <1>1, <2>1, <2>2 DEF InjectAX, InjectionInv, Types
<1>3. CASE Passes(d) /\ received' = received
  <2>1. DOMAIN left' = Deliveries /\ puts' = puts /\ \A e \in Deliveries : PlanInv(e)'
    BY <1>3, PassesInv DEF InjectAX, Passes
  <2>2. PastesItsText'
    BY <1>3, ReceivedKept DEF InjectAX
  <2>3. QED
    BY <1>1, <1>3, <2>1, <2>2 DEF InjectAX, InjectionInv, Types
<1>4. QED
  BY <1>2, <1>3 DEF InjectAX

LEMMA PasteboardInv ==
  ASSUME InjectionInv, NEW d \in Deliveries, InjectPasteboard(d)
  PROVE InjectionInv'
<1>1. DOMAIN left' = Deliveries /\ puts' \in [Deliveries -> Nat] /\ \A e \in Deliveries : PlanInv(e)'
  BY SucceedsInv DEF InjectPasteboard
<1>2. /\ clipboard' = d /\ disturbed' = (disturbed \/ Pending # {}) /\ intended' = intended
      /\ restore' \in [Deliveries -> Contents \cup {"no timer"}]
      /\ restore'[d] = StringOf(clipboard) /\ restore'[d] # "no timer"
      /\ \A e \in Deliveries \ {d} : restore'[e] = restore[e]
  <2>1. restore' = [restore EXCEPT ![d] = StringOf(clipboard)] /\ clipboard \in Contents
        /\ restore \in [Deliveries -> Contents \cup {"no timer"}]
    BY DEF InjectPasteboard, InjectionInv, Types
  <2>2. StringOf(clipboard) \in Contents /\ StringOf(clipboard) # "no timer"
    BY <2>1, Kinds
  <2>3. /\ restore' \in [Deliveries -> Contents \cup {"no timer"}] /\ restore'[d] = StringOf(clipboard)
        /\ \A e \in Deliveries \ {d} : restore'[e] = restore[e]
    <3> HIDE DEF StringOf
    <3>1. QED
      BY <2>1, <2>2
  <2>4. QED
    BY <2>2, <2>3 DEF InjectPasteboard, Write
<1>3. ClipboardInv'
  <2> SUFFICES ASSUME ~disturbed' PROVE ClipboardInv'
    BY DEF ClipboardInv
  <2>1. Pending = {} /\ ~disturbed
    BY <1>2
  <2>2. Pending' = {d}
    BY <1>2, <2>1 DEF Pending
  <2>3. intended # "picture" => StringOf(clipboard) = intended
    BY <2>1, Kinds DEF InjectionInv, ClipboardInv
  <2>4. QED
    BY <1>2, <2>2, <2>3 DEF ClipboardInv
<1>4. pastes' \in Seq(Deliveries)
  <2>1. pastes \in Seq(Deliveries) /\ pastes' = Append(pastes, d)
    BY DEF InjectPasteboard, InjectionInv, Types
  <2>2. QED
    BY <2>1, AppendProperties
<1>5. disturbed' \in BOOLEAN /\ clipboard' \in Contents
  BY <1>2, Kinds
<1>6. Types'
  BY <1>1, <1>2, <1>4, <1>5 DEF InjectPasteboard, InjectionInv, Types
<1>7. PastesItsText'
  BY <1>2, ReceivedKept DEF InjectPasteboard
<1>8. QED
  BY <1>1, <1>3, <1>6, <1>7 DEF InjectionInv

LEMMA AbortInv ==
  ASSUME InjectionInv, NEW d \in Deliveries, AbortPaste(d)
  PROVE InjectionInv'
<1>1. DOMAIN left' = Deliveries /\ puts' = puts /\ \A e \in Deliveries : PlanInv(e)'
  BY PassesInv DEF AbortPaste, Passes
<1>2. /\ ClipboardInv' /\ clipboard' \in Contents /\ disturbed' \in BOOLEAN
      /\ disturbed => disturbed'
  <2>1. CASE UNCHANGED <<clipboard, disturbed>>
    BY <2>1, ClipboardKept DEF AbortPaste, InjectionInv, Types
  <2>2. CASE Write(StringOf(clipboard))
    <3>1. clipboard \in Contents /\ StringOf(clipboard) \in Contents
      BY Kinds DEF InjectionInv, Types
    <3>2. ~disturbed /\ Pending = {} /\ intended' # "picture" => StringOf(clipboard) = intended'
      BY Kinds DEF AbortPaste, InjectionInv, ClipboardInv
    <3>3. ClipboardInv'
      BY <2>2, <3>2, WriteKeeps DEF AbortPaste
    <3>4. QED
      BY <2>2, <3>1, <3>3 DEF Write
  <2>3. QED
    BY <2>1, <2>2 DEF AbortPaste
<1>3. Types'
  BY <1>1, <1>2 DEF AbortPaste, InjectionInv, Types
<1>4. PastesItsText'
  BY <1>2, ReceivedKept DEF AbortPaste
<1>5. QED
  BY <1>1, <1>2, <1>3, <1>4 DEF InjectionInv

LEMMA CGEventInv ==
  ASSUME InjectionInv, NEW d \in Deliveries, InjectCGEvent(d)
  PROVE InjectionInv'
<1>1. ClipboardInv'
  BY ClipboardKept DEF InjectCGEvent
<1>2. CASE trusted
  <2>1. Succeeds(d) /\ Arrives(d, d, TRUE)
    BY <1>2 DEF InjectCGEvent
  <2>2. DOMAIN left' = Deliveries /\ puts' \in [Deliveries -> Nat] /\ \A e \in Deliveries : PlanInv(e)'
    BY <2>1, SucceedsInv DEF InjectCGEvent
  <2>3. received' \in Seq(Receipt) /\ PastesItsText'
    BY <2>1, Kinds, ArrivesInv DEF InjectCGEvent
  <2>4. QED
    BY <1>1, <2>2, <2>3 DEF InjectCGEvent, InjectionInv, Types
<1>3. CASE ~trusted
  <2>1. Passes(d) /\ received' = received
    BY <1>3 DEF InjectCGEvent
  <2>2. DOMAIN left' = Deliveries /\ puts' = puts /\ \A e \in Deliveries : PlanInv(e)'
    BY <1>3, <2>1, PassesInv DEF InjectCGEvent, Passes
  <2>3. PastesItsText'
    BY <2>1, ReceivedKept DEF InjectCGEvent
  <2>4. QED
    BY <1>1, <2>1, <2>2, <2>3 DEF InjectCGEvent, InjectionInv, Types
<1>4. QED
  BY <1>2, <1>3

\* A delivery whose plan is at its end is done, whether it copies or not.
LEMMA DoneInv ==
  ASSUME InjectionInv, NEW d \in Deliveries, Planned(d), delivery' = [delivery EXCEPT ![d] = "done"],
         UNCHANGED <<left, mode, puts, trusted>>
  PROVE /\ \A e \in Deliveries : PlanInv(e)'
        /\ delivery' \in [Deliveries -> {"idle", "active", "done"}]
        /\ \A e \in Deliveries : delivery'[e] # "idle" => mode'[e] \in Modes
<1>1. Made(d)
  BY PlanSteps DEF Planned, InjectionInv, PlanInv
<1>2. delivery'[d] = "done" /\ \A e \in Deliveries \ {d} : delivery'[e] = delivery[e]
  BY DEF InjectionInv, Types
<1>3. \A e \in Deliveries \ {d} : PlanInv(e)'
  BY <1>2, OthersKeep DEF Others, InjectionInv
<1>4. PlanInv(d)'
  BY <1>1, <1>2 DEF PlanInv, Made
<1>5. QED
  BY <1>2, <1>3, <1>4 DEF Planned, InjectionInv, Types

LEMMA CopyInv ==
  ASSUME InjectionInv, NEW d \in Deliveries, clipboardOnly(d)
  PROVE InjectionInv'
<1>1. ClipboardInv'
  BY WriteKeeps DEF clipboardOnly
<1>2. /\ \A e \in Deliveries : PlanInv(e)'
      /\ delivery' \in [Deliveries -> {"idle", "active", "done"}]
      /\ \A e \in Deliveries : delivery'[e] # "idle" => mode'[e] \in Modes
  BY DoneInv DEF clipboardOnly
<1>3. PastesItsText'
  BY ReceivedKept DEF clipboardOnly, Write
<1>4. Types'
  BY <1>2, Kinds DEF clipboardOnly, Write, InjectionInv, Types
<1>5. QED
  BY <1>1, <1>2, <1>3, <1>4 DEF InjectionInv

LEMMA ReturnInv ==
  ASSUME InjectionInv, NEW d \in Deliveries, DispatchReturns(d)
  PROVE InjectionInv'
<1>1. /\ \A e \in Deliveries : PlanInv(e)'
      /\ delivery' \in [Deliveries -> {"idle", "active", "done"}]
      /\ \A e \in Deliveries : delivery'[e] # "idle" => mode'[e] \in Modes
  BY DoneInv DEF DispatchReturns, historyVars
<1>2. ClipboardInv' /\ PastesItsText'
  BY ClipboardKept, ReceivedKept DEF DispatchReturns, historyVars
<1>3. Types'
  BY <1>1 DEF DispatchReturns, historyVars, InjectionInv, Types
<1>4. QED
  BY <1>1, <1>2, <1>3 DEF InjectionInv

\* A timer that fires undisturbed is the only one, and brings back what was intended.
LEMMA RestoreInv ==
  ASSUME InjectionInv, NEW d \in Deliveries, Restore(d)
  PROVE InjectionInv'
<1>1. /\ restore[d] # "no timer" /\ clipboard' = restore[d] /\ restore' = [restore EXCEPT ![d] = "no timer"]
      /\ disturbed' = (disturbed \/ Pending # {d}) /\ intended' = intended
      /\ restore \in [Deliveries -> Contents \cup {"no timer"}]
  BY DEF Restore, InjectionInv, Types
<1>2. ClipboardInv'
  <2> SUFFICES ASSUME ~disturbed' PROVE ClipboardInv'
    BY DEF ClipboardInv
  <2>1. Pending = {d} /\ ~disturbed
    BY <1>1
  <2>2. Pending' = {}
    BY <1>1, <2>1 DEF Pending
  <2>3. intended # "picture" => restore[d] = intended
    BY <2>1 DEF InjectionInv, ClipboardInv
  <2>4. QED
    BY <1>1, <2>2, <2>3 DEF ClipboardInv
<1>3. clipboard' \in Contents /\ restore' \in [Deliveries -> Contents \cup {"no timer"}] /\ disturbed' \in BOOLEAN
  BY <1>1
<1>4. Types'
  BY <1>3 DEF Restore, InjectionInv, Types
<1>5. \A e \in Deliveries : PlanInv(e)'
  BY PlansKept DEF Restore, InjectionInv
<1>6. PastesItsText'
  BY <1>1, ReceivedKept DEF Restore
<1>7. QED
  BY <1>2, <1>4, <1>5, <1>6 DEF InjectionInv

LEMMA ServeInv ==
  ASSUME InjectionInv, ServePaste
  PROVE InjectionInv'
<1> DEFINE d == Head(pastes)
           inTime == restore[d] # "no timer"
<1>1. pastes \in Seq(Deliveries) /\ pastes # <<>>
  BY DEF ServePaste, InjectionInv, Types
<1>2. d \in Deliveries /\ pastes' \in Seq(Deliveries)
  BY <1>1, HeadTailProperties DEF ServePaste
<1>3. inTime /\ ~disturbed => clipboard = d
  BY <1>2 DEF InjectionInv, ClipboardInv, Pending
<1>4. clipboard \in Contents /\ inTime \in BOOLEAN /\ Arrives(d, clipboard, inTime) /\ disturbed' = disturbed
  BY DEF ServePaste, historyVars, InjectionInv, Types
<1> HIDE DEF d, inTime
<1>5. received' \in Seq(Receipt) /\ PastesItsText'
  BY <1>2, <1>3, <1>4, ArrivesInv
<1>6. ClipboardInv'
  BY ClipboardKept DEF ServePaste, historyVars
<1>7. \A e \in Deliveries : PlanInv(e)'
  BY PlansKept DEF ServePaste, historyVars, InjectionInv
<1>8. Types'
  BY <1>2, <1>5 DEF ServePaste, historyVars, InjectionInv, Types
<1>9. QED
  BY <1>5, <1>6, <1>7, <1>8 DEF InjectionInv

LEMMA UserInv ==
  ASSUME InjectionInv, NEW content \in UserContents, UserCopies(content)
  PROVE InjectionInv'
<1>1. ClipboardInv'
  BY WriteKeeps DEF UserCopies
<1>2. \A e \in Deliveries : PlanInv(e)'
  BY PlansKept DEF UserCopies, InjectionInv
<1>3. PastesItsText'
  BY ReceivedKept DEF UserCopies, Write
<1>4. Types'
  BY Kinds DEF UserCopies, Write, InjectionInv, Types
<1>5. QED
  BY <1>1, <1>2, <1>3, <1>4 DEF InjectionInv

LEMMA RevokedInv ==
  ASSUME InjectionInv, PermissionRevoked
  PROVE InjectionInv'
<1>1. \A e \in Deliveries : PlanInv(e)'
  BY PlansKept DEF PermissionRevoked, historyVars, InjectionInv
<1>2. ClipboardInv' /\ PastesItsText'
  BY ClipboardKept, ReceivedKept DEF PermissionRevoked, historyVars
<1>3. Types'
  BY DEF PermissionRevoked, historyVars, InjectionInv, Types
<1>4. QED
  BY <1>1, <1>2, <1>3 DEF InjectionInv

THEOREM InjectionInvariant == InjectionSpec => []InjectionInv
<1>1. InjectionInv /\ [InjectionNext]_injectionVars => InjectionInv'
  <2> SUFFICES ASSUME InjectionInv, [InjectionNext]_injectionVars PROVE InjectionInv'
    OBVIOUS
  <2>1. ASSUME NEW d \in Deliveries, NEW m \in Modes, NEW method \in Methods, dispatchOutput(d, m, method)
        PROVE InjectionInv'
    BY <2>1, DispatchInv
  <2>2. ASSUME NEW d \in Deliveries,
               InjectAX(d) \/ InjectPasteboard(d) \/ AbortPaste(d) \/ InjectCGEvent(d) \/ clipboardOnly(d)
                 \/ DispatchReturns(d) \/ Restore(d)
        PROVE InjectionInv'
    BY <2>2, AXInv, PasteboardInv, AbortInv, CGEventInv, CopyInv, ReturnInv, RestoreInv
  <2>3. CASE ServePaste
    BY <2>3, ServeInv
  <2>4. ASSUME NEW content \in UserContents, UserCopies(content) PROVE InjectionInv'
    BY <2>4, UserInv
  <2>5. CASE PermissionRevoked
    BY <2>5, RevokedInv
  <2>6. CASE UNCHANGED injectionVars
    <3>1. UNCHANGED <<clipboard, left, mode, delivery, restore, pastes, received, trusted, puts, intended, disturbed>>
      BY <2>6 DEF injectionVars
    <3>2. Types'
      BY <3>1 DEF InjectionInv, Types
    <3>3. (\A e \in Deliveries : PlanInv(e)') /\ ClipboardInv' /\ PastesItsText'
      BY <3>1, PlansKept, ClipboardKept, ReceivedKept DEF InjectionInv
    <3>4. QED
      BY <3>2, <3>3 DEF InjectionInv
  <2>7. QED
    BY <2>1, <2>2, <2>3, <2>4, <2>5, <2>6 DEF InjectionNext, Modes, Methods
<1>2. QED
  BY <1>1, InitInv, PTL DEF InjectionSpec

\* A text is delivered by one strategy and no more, and by one for as long as the permission is there, whatever other
\* deliveries do to the clipboard meanwhile. Code: TextInjector.inject, dispatchOutput.
THEOREM DeliveredOnce == InjectionSpec => []InjectedOnce
<1>1. InjectionInv => InjectedOnce
  <2> SUFFICES ASSUME InjectionInv, NEW d \in Deliveries
               PROVE puts[d] <= 1 /\ (delivery[d] = "done" /\ mode[d] # "clipboard" /\ trusted => puts[d] = 1)
    BY DEF InjectedOnce
  <2>1. PlanInv(d) /\ delivery[d] \in {"idle", "active", "done"}
    BY DEF InjectionInv, Types
  <2>2. QED
    BY <2>1 DEF PlanInv, Made
<1>2. QED
  BY <1>1, InjectionInvariant, PTL

\* A paste served before its timer fires gets its own text, if nothing else wrote the clipboard while the timer ran.
\* Code: PasteboardInjector.inject.
THEOREM PastesOwnText == InjectionSpec => []PastesItsText
<1>1. InjectionInv => PastesItsText
  BY DEF InjectionInv
<1>2. QED
  BY <1>1, InjectionInvariant, PTL

\* What was on the clipboard comes back when the last timer has fired, if it was text and nothing wrote the clipboard while
\* a timer ran. Code: PasteboardInjector.inject.
THEOREM ClipboardRestored == InjectionSpec => []ClipboardReturns
<1>1. InjectionInv => ClipboardReturns
  BY DEF InjectionInv, ClipboardInv, ClipboardReturns, Settled, Pending
<1>2. QED
  BY <1>1, InjectionInvariant, PTL
=============================================================================
