--------------------------- MODULE Windows_proofs ---------------------------
(* Proofs about what the windows edit: the hotkey bindings, for every set of actions, combinations and reserved
   combinations; the snippets, for every set of triggers and every number of snippets and uses; the countdowns of the
   history's rows, for any number of them on any entries; and the history's list beside its table, for every set of entries
   and every limit. *)
EXTENDS HotkeyBindings, SnippetStore, HistoryPanel, FiniteSetTheorems, TLAPS

LEMMA BindingsTypeInit == BindingsInit => BindingsTypeOK
<1> SUFFICES ASSUME BindingsInit PROVE BindingsTypeOK
  OBVIOUS
<1> USE BindingsAssumption
<1>1. Seeded \in [HotkeyActions -> Combos \cup {NotSet}]
  BY DEF Seeded
<1>2. watchedKeyCode \in {c.key : c \in Combos}
  BY DEF BindingsInit
<1>3. secondaryState \in [TapActions -> {c.key : c \in Combos} \cup {NotSet}]
  BY DEF BindingsInit
<1>4. QED
  BY <1>1, <1>2, <1>3 DEF BindingsInit, BindingsTypeOK

\* A combination's key, or none.
LEMMA KeyOfType ==
  ASSUME NEW c \in Combos \cup {NotSet}
  PROVE /\ c # NotSet => KeyOf(c) \in {d.key : d \in Combos}
        /\ KeyOf(c) \in {d.key : d \in Combos} \cup {NotSet}
  BY DEF KeyOf

\* What setting a binding does to the types of the store.
LEMMA SetBindingType ==
  ASSUME BindingsTypeOK, NEW a \in HotkeyActions, NEW c \in Combos \cup {NotSet}, SetBinding(a, c)
  PROVE /\ cache' \in [HotkeyActions -> Combos \cup {NotSet}]
        /\ saved' \in [HotkeyActions -> Combos \cup {NotSet}]
        /\ syncDue' \in BOOLEAN /\ reseeded' \in BOOLEAN
  BY DEF BindingsTypeOK, SetBinding

LEMMA BindingsTypeStep == BindingsTypeOK /\ [BindingsNext]_bindingVars => BindingsTypeOK'
<1> SUFFICES ASSUME BindingsTypeOK, [BindingsNext]_bindingVars PROVE BindingsTypeOK'
  OBVIOUS
<1> USE BindingsAssumption
<1>1. ASSUME NEW a \in HotkeyActions, startRecording(a) \/ cancelRecording(a) \/ DismissConfirmation(a)
      PROVE BindingsTypeOK'
  BY <1>1 DEF startRecording, cancelRecording, DismissConfirmation, BindingsTypeOK, storeVars, dispatcherVars
<1>2. ASSUME NEW a \in HotkeyActions, clearBinding(a) PROVE BindingsTypeOK'
  <2>1. SetBinding(a, NotSet)
    BY <1>2 DEF clearBinding
  <2>2. QED
    BY <1>2, <2>1, SetBindingType DEF clearBinding, BindingsTypeOK, dispatcherVars
<1>3. ASSUME NEW combo \in Combos, Capture(combo) PROVE BindingsTypeOK'
  <2>1. eventMonitor \in HotkeyActions
    BY <1>3 DEF Capture, BindingsTypeOK
  <2>2. CASE combo \in Reserved \/ Conflicts(combo, eventMonitor) # {}
    BY <1>3, <2>1, <2>2 DEF Capture, BindingsTypeOK, storeVars, dispatcherVars
  <2>3. CASE ~(combo \in Reserved \/ Conflicts(combo, eventMonitor) # {})
    <3>1. SetBinding(eventMonitor, combo)
      BY <1>3, <2>3 DEF Capture
    <3>2. QED
      BY <1>3, <2>1, <2>3, <3>1, SetBindingType DEF Capture, BindingsTypeOK, dispatcherVars
  <2>4. QED
    BY <2>2, <2>3
<1>4. CASE syncBindings
  <2>1. \A a \in HotkeyActions : cache[a] \in Combos \cup {NotSet}
    BY DEF BindingsTypeOK
  <2>2. watchedKeyCode' \in {c.key : c \in Combos}
    BY <1>4, <2>1, KeyOfType DEF syncBindings, Synced, BindingsTypeOK
  <2>3. secondaryState' \in [TapActions -> {c.key : c \in Combos} \cup {NotSet}]
    BY <1>4, <2>1, KeyOfType DEF syncBindings, Synced
  <2>4. QED
    BY <1>4, <2>2, <2>3 DEF syncBindings, BindingsTypeOK, rowVars
<1>5. CASE LaunchAgain
  <2>1. cache' \in [HotkeyActions -> Combos \cup {NotSet}] /\ cache'[DefaultAction] \in Combos
    BY <1>5 DEF LaunchAgain, BindingsTypeOK
  <2>2. watchedKeyCode' \in {c.key : c \in Combos}
    BY <1>5, <2>1, KeyOfType DEF LaunchAgain
  <2>3. secondaryState' \in [TapActions -> {c.key : c \in Combos} \cup {NotSet}]
    BY <1>5, <2>1, KeyOfType DEF LaunchAgain
  <2>4. QED
    BY <1>5, <2>1, <2>2, <2>3 DEF LaunchAgain, BindingsTypeOK
<1>6. CASE UNCHANGED bindingVars
  BY <1>6 DEF bindingVars, storeVars, dispatcherVars, rowVars, BindingsTypeOK
<1>7. QED
  BY <1>1, <1>2, <1>3, <1>4, <1>5, <1>6 DEF BindingsNext

\* The store, the dispatcher and the rows keep their types, whatever is recorded, cleared and restarted.
THEOREM BindingsTyped == BindingsSpec => []BindingsTypeOK
  BY BindingsTypeInit, BindingsTypeStep, PTL DEF BindingsSpec
-----------------------------------------------------------------------------
\* CombosUnique of the bindings f, of the cache or of those saved.
UniqueIn(f) ==
  \A a, b \in HotkeyActions : a # b /\ f[a] # NotSet /\ f[a] = f[b] => reseeded /\ f[a] = DefaultCombo
UniqueInv == UniqueIn(cache) /\ UniqueIn(saved)

\* No two actions have one combination, for every set of actions and combinations: what is saved has no two either, so that
\* a launch brings in only the default. Code: conflictingAction.
THEOREM EveryComboOnce == BindingsSpec => []CombosUnique
<1>1. BindingsInit => UniqueInv
  BY BindingsAssumption DEF BindingsInit, Seeded, UniqueInv, UniqueIn
<1>2. BindingsTypeOK /\ UniqueInv /\ [BindingsNext]_bindingVars => UniqueInv'
  <2> SUFFICES ASSUME BindingsTypeOK, UniqueInv, [BindingsNext]_bindingVars PROVE UniqueInv'
    OBVIOUS
  <2> USE BindingsAssumption
  <2>1. CASE UNCHANGED storeVars
    BY <2>1 DEF storeVars, UniqueInv, UniqueIn
  <2>2. ASSUME NEW a \in HotkeyActions, NEW c \in Combos \cup {NotSet}, SetBinding(a, c),
               \A b \in HotkeyActions : b # a /\ c # NotSet => cache[b] # c
        PROVE UniqueInv'
    <3>1. /\ cache' = [cache EXCEPT ![a] = c] /\ saved' = cache' /\ reseeded' = reseeded
          /\ cache \in [HotkeyActions -> Combos \cup {NotSet}]
      BY <2>2 DEF SetBinding, BindingsTypeOK
    <3>2. ASSUME NEW d \in HotkeyActions, NEW e \in HotkeyActions, d # e, cache'[d] # NotSet, cache'[d] = cache'[e]
          PROVE reseeded' /\ cache'[d] = DefaultCombo
      <4>1. d # a /\ e # a
        BY <2>2, <3>1, <3>2
      <4>2. cache'[d] = cache[d] /\ cache'[e] = cache[e]
        BY <3>1, <4>1
      <4>3. QED
        BY <3>1, <3>2, <4>2 DEF UniqueInv, UniqueIn
    <3>3. QED
      BY <3>1, <3>2 DEF UniqueInv, UniqueIn
  <2>3. ASSUME NEW combo \in Combos, Capture(combo) PROVE UniqueInv'
    <3>1. CASE combo \in Reserved \/ Conflicts(combo, eventMonitor) # {}
      BY <2>1, <2>3, <3>1 DEF Capture
    <3>2. CASE ~(combo \in Reserved \/ Conflicts(combo, eventMonitor) # {})
      <4>1. eventMonitor \in HotkeyActions /\ SetBinding(eventMonitor, combo)
        BY <2>3, <3>2 DEF Capture, BindingsTypeOK
      <4>2. \A b \in HotkeyActions : b # eventMonitor => cache[b] # combo
        BY <3>2 DEF Conflicts
      <4>3. QED
        BY <2>2, <4>1, <4>2
    <3>3. QED
      BY <3>1, <3>2
  <2>4. ASSUME NEW a \in HotkeyActions, clearBinding(a) PROVE UniqueInv'
    BY <2>2, <2>4 DEF clearBinding
  <2>5. CASE LaunchAgain
    <3>1. /\ saved' = saved /\ reseeded' = (reseeded \/ saved[DefaultAction] = NotSet)
          /\ saved \in [HotkeyActions -> Combos \cup {NotSet}]
          /\ DefaultAction \in HotkeyActions
      BY <2>5 DEF LaunchAgain, BindingsTypeOK
    <3>2. CASE saved[DefaultAction] # NotSet
      BY <2>5, <3>1, <3>2 DEF LaunchAgain, UniqueInv, UniqueIn
    <3>3. CASE saved[DefaultAction] = NotSet
      <4>1. cache' = [saved EXCEPT ![DefaultAction] = DefaultCombo] /\ reseeded'
        BY <2>5, <3>1, <3>3 DEF LaunchAgain
      <4>2. ASSUME NEW d \in HotkeyActions, NEW e \in HotkeyActions, d # e, cache'[d] # NotSet, cache'[d] = cache'[e]
            PROVE cache'[d] = DefaultCombo
        BY <3>1, <4>1, <4>2 DEF UniqueInv, UniqueIn
      <4>3. QED
        BY <3>1, <4>1, <4>2 DEF UniqueInv, UniqueIn
    <3>4. QED
      BY <3>2, <3>3
  <2>6. ASSUME NEW a \in HotkeyActions, startRecording(a) \/ cancelRecording(a) \/ DismissConfirmation(a)
        PROVE UniqueInv'
    BY <2>1, <2>6 DEF startRecording, cancelRecording, DismissConfirmation
  <2>7. CASE syncBindings
    BY <2>7 DEF syncBindings, UniqueInv, UniqueIn
  <2>8. CASE UNCHANGED bindingVars
    BY <2>1, <2>8 DEF bindingVars, storeVars
  <2>9. QED
    BY <2>3, <2>4, <2>5, <2>6, <2>7, <2>8 DEF BindingsNext
<1>3. UniqueInv => CombosUnique
  BY DEF UniqueInv, UniqueIn, CombosUnique
<1>4. QED
  BY <1>1, <1>2, <1>3, BindingsTyped, PTL DEF BindingsSpec
-----------------------------------------------------------------------------
\* The event monitor and the rows agree on who records, for any number of rows and of confirmations that end late.
THEOREM OneRowAtATime == BindingsSpec => []OneRowRecords
<1>1. BindingsInit => OneRowRecords
  BY BindingsAssumption DEF BindingsInit, OneRowRecords
<1>2. BindingsTypeOK /\ OneRowRecords /\ [BindingsNext]_bindingVars => OneRowRecords'
  <2> SUFFICES ASSUME BindingsTypeOK, OneRowRecords, [BindingsNext]_bindingVars PROVE OneRowRecords'
    OBVIOUS
  <2> USE BindingsAssumption DEF OneRowRecords, BindingsTypeOK
  <2>1. ASSUME NEW a \in HotkeyActions, startRecording(a) PROVE OneRowRecords'
    BY <2>1 DEF startRecording
  <2>2. ASSUME NEW a \in HotkeyActions, cancelRecording(a) PROVE OneRowRecords'
    BY <2>2 DEF cancelRecording
  <2>3. ASSUME NEW a \in HotkeyActions, clearBinding(a) PROVE OneRowRecords'
    BY <2>3 DEF clearBinding
  <2>4. ASSUME NEW a \in HotkeyActions, DismissConfirmation(a) PROVE OneRowRecords'
    BY <2>4 DEF DismissConfirmation
  <2>5. ASSUME NEW combo \in Combos, Capture(combo) PROVE OneRowRecords'
    <3>1. CASE combo \in Reserved \/ Conflicts(combo, eventMonitor) # {}
      BY <2>5, <3>1 DEF Capture
    <3>2. CASE ~(combo \in Reserved \/ Conflicts(combo, eventMonitor) # {})
      BY <2>5, <3>2 DEF Capture
    <3>3. QED
      BY <3>1, <3>2
  <2>6. CASE syncBindings
    BY <2>6 DEF syncBindings, rowVars
  <2>7. CASE LaunchAgain
    BY <2>7 DEF LaunchAgain
  <2>8. CASE UNCHANGED bindingVars
    BY <2>8 DEF bindingVars, rowVars
  <2>9. QED
    BY <2>1, <2>2, <2>3, <2>4, <2>5, <2>6, <2>7, <2>8 DEF BindingsNext
<1>3. QED
  BY <1>1, <1>2, BindingsTyped, PTL DEF BindingsSpec
-----------------------------------------------------------------------------
\* Once the notification of a change is dealt with, both taps listen for the keys that the settings show, except that a
\* cleared default goes on being watched. Code: syncBindings.
THEOREM TapsKeepUp == BindingsSpec => []TapsFollowBindings
<1>1. BindingsInit => TapsFollowBindings
  BY BindingsAssumption DEF BindingsInit, Seeded, TapsFollowBindings, KeyOf
<1>2. BindingsTypeOK /\ TapsFollowBindings /\ [BindingsNext]_bindingVars => TapsFollowBindings'
  <2> SUFFICES ASSUME BindingsTypeOK, TapsFollowBindings, [BindingsNext]_bindingVars PROVE TapsFollowBindings'
    OBVIOUS
  <2>1. ASSUME NEW a \in HotkeyActions, startRecording(a) \/ cancelRecording(a) \/ DismissConfirmation(a)
        PROVE TapsFollowBindings'
    BY <2>1 DEF startRecording, cancelRecording, DismissConfirmation, storeVars, dispatcherVars, TapsFollowBindings
  <2>2. ASSUME NEW a \in HotkeyActions, clearBinding(a) PROVE TapsFollowBindings'
    BY <2>2 DEF clearBinding, SetBinding, TapsFollowBindings
  <2>3. ASSUME NEW combo \in Combos, Capture(combo) PROVE TapsFollowBindings'
    BY <2>3 DEF Capture, SetBinding, storeVars, dispatcherVars, TapsFollowBindings
  <2>4. CASE syncBindings
    BY <2>4 DEF syncBindings, Synced, TapsFollowBindings
  <2>5. CASE LaunchAgain
    BY <2>5 DEF LaunchAgain, TapsFollowBindings
  <2>6. CASE UNCHANGED bindingVars
    BY <2>6 DEF bindingVars, storeVars, dispatcherVars, TapsFollowBindings
  <2>7. QED
    BY <2>1, <2>2, <2>3, <2>4, <2>5, <2>6 DEF BindingsNext
<1>3. QED
  BY <1>1, <1>2, BindingsTyped, PTL DEF BindingsSpec
------------------------------------------------------------------------------
(* The snippet store. *)

LEMMA SnippetTypeInit == SnippetInit => SnippetTypeOK
<1> SUFFICES ASSUME SnippetInit PROVE SnippetTypeOK
  OBVIOUS
<1>1. \A t \in Triggers : [id |-> 1, trigger |-> t, uses |-> 0] \in Snippet
  BY SnippetAssumption DEF Snippet
<1>2. file \subseteq Snippet
  BY <1>1 DEF SnippetInit
<1>3. kept \subseteq 1..MaxIds
  BY <1>2 DEF SnippetInit, Ids, Snippet
<1>4. nextId \in 2..MaxIds + 1
  BY SnippetAssumption DEF SnippetInit
<1>5. cachedSnippets \subseteq Snippet /\ loadedOnce \in BOOLEAN /\ readable \in BOOLEAN /\ shown \subseteq Snippet
  BY DEF SnippetInit
<1>6. QED
  BY <1>2, <1>3, <1>4, <1>5 DEF SnippetTypeOK

\* A call that gets as far as working on the list works on snippets.
LEMMA CurrentType ==
  ASSUME SnippetTypeOK
  PROVE Current \subseteq Snippet /\ Existing \subseteq Snippet
  BY DEF SnippetTypeOK, Current, Existing

LEMMA SaveType ==
  ASSUME SnippetTypeOK, NEW s \in Snippet, Save(s) PROVE SnippetTypeOK'
<1>1. file' \subseteq Snippet /\ cachedSnippets' = file' /\ loadedOnce' /\ readable' /\ kept' \subseteq 1..MaxIds
  BY CurrentType DEF Save, Persist, FillCache, SnippetTypeOK, Snippet
<1>2. nextId' \in 2..MaxIds + 1
  BY SnippetAssumption DEF Save, SnippetTypeOK, Snippet
<1>3. QED
  BY <1>1, <1>2 DEF Save, Persist, FillCache, SnippetTypeOK

\* A new snippet.
LEMMA NewType ==
  ASSUME SnippetTypeOK, NEW t \in Triggers, nextId <= MaxIds
  PROVE [id |-> nextId, trigger |-> t, uses |-> 0] \in Snippet /\ nextId \in 1..MaxIds /\ nextId + 1 \in 2..MaxIds + 1
  BY SnippetAssumption DEF SnippetTypeOK, Snippet

LEMMA SnippetTypeStep == SnippetTypeOK /\ [SnippetNext]_snippetVars => SnippetTypeOK'
<1> SUFFICES ASSUME SnippetTypeOK, [SnippetNext]_snippetVars PROVE SnippetTypeOK'
  OBVIOUS
<1>1. CASE loadAll \/ allSnippets \/ SaveFails
  BY <1>1, CurrentType DEF loadAll, allSnippets, SaveFails, FillCache, SnippetTypeOK
<1>2. ASSUME NEW t \in Triggers, SaveNew(t) PROVE SnippetTypeOK'
  BY <1>2, NewType, SaveType DEF SaveNew
<1>3. ASSUME NEW s \in shown, NEW t \in Triggers, SaveShown(s, t) PROVE SnippetTypeOK'
  <2>1. [s EXCEPT !.trigger = t] \in Snippet
    BY DEF SnippetTypeOK, Snippet
  <2>2. QED
    BY <1>3, <2>1, SaveType DEF SaveShown
<1>4. ASSUME NEW id \in 1..MaxIds, Delete(id) PROVE SnippetTypeOK'
  BY <1>4, CurrentType DEF Delete, Persist, FillCache, SnippetTypeOK
<1>5. ASSUME NEW s \in cachedSnippets, incrementUseCount(s) PROVE SnippetTypeOK'
  <2>1. [s EXCEPT !.uses = @ + 1] \in Snippet
    BY <1>5, SnippetAssumption DEF incrementUseCount, SnippetTypeOK, Snippet
  <2>2. QED
    BY <1>5, <2>1 DEF incrementUseCount, Persist, FillCache, SnippetTypeOK
<1>6. ASSUME NEW t \in Triggers, ImportMerge(t) PROVE SnippetTypeOK'
  <2> DEFINE new == [id |-> nextId, trigger |-> t, uses |-> 0]
             added == IF \E x \in Existing : x.trigger = t THEN {} ELSE {new}
  <2>1. new \in Snippet /\ nextId \in 1..MaxIds /\ nextId + 1 \in 2..MaxIds + 1
    BY <1>6, NewType DEF ImportMerge
  <2>2. added \subseteq Snippet /\ Ids(added) \subseteq 1..MaxIds
    BY <2>1 DEF Ids
  <2>3. file' = Existing \cup added /\ cachedSnippets' = file' /\ loadedOnce' /\ readable'
    BY <1>6 DEF ImportMerge, Persist, FillCache
  <2>4. kept' \subseteq 1..MaxIds
    BY <1>6, <2>2 DEF ImportMerge, SnippetTypeOK
  <2> HIDE DEF added
  <2>5. QED
    BY <1>6, <2>1, <2>2, <2>3, <2>4, CurrentType DEF ImportMerge, Persist, FillCache, SnippetTypeOK
<1>7. ASSUME NEW t \in Triggers, ImportReplace(t) PROVE SnippetTypeOK'
  BY <1>7, NewType DEF ImportReplace, Persist, FillCache, SnippetTypeOK
<1>8. CASE Reset \/ FileBreaks \/ FileMended \/ RelaunchStore
  BY <1>8 DEF Reset, FileBreaks, FileMended, RelaunchStore, FillCache, SnippetTypeOK
<1>9. CASE UNCHANGED snippetVars
  BY <1>9 DEF snippetVars, SnippetTypeOK
<1>10. QED
  BY <1>1, <1>2, <1>3, <1>4, <1>5, <1>6, <1>7, <1>8, <1>9 DEF SnippetNext

\* The store, its file and the list in the settings keep their types.
THEOREM SnippetsTyped == SnippetSpec => []SnippetTypeOK
  BY SnippetTypeInit, SnippetTypeStep, PTL DEF SnippetSpec
-----------------------------------------------------------------------------
\* What the list operations of the store do to the ids that it holds.
LEMMA IdsOfSaved ==
  ASSUME NEW S, NEW s PROVE Ids({x \in S : x.id # s.id} \cup {s}) = Ids(S) \cup {s.id}
  BY DEF Ids

LEMMA IdsOfRest ==
  ASSUME NEW S, NEW id PROVE Ids({x \in S : x.id # id}) = Ids(S) \ {id}
  BY DEF Ids

LEMMA IdsOfUnion ==
  ASSUME NEW S, NEW T PROVE Ids(S \cup T) = Ids(S) \cup Ids(T)
  BY DEF Ids

LEMMA IdsOfCounted ==
  ASSUME NEW S \in SUBSET Snippet, NEW s \in S PROVE Ids((S \ {s}) \cup {[s EXCEPT !.uses = @ + 1]}) = Ids(S)
<1> DEFINE c == [s EXCEPT !.uses = @ + 1]
<1>1. c.id = s.id
  BY DEF Snippet
<1>2. Ids({c}) = {s.id}
  BY <1>1 DEF Ids
<1> HIDE DEF c
<1>3. Ids((S \ {s}) \cup {c}) = Ids(S \ {s}) \cup {s.id}
  BY <1>2, IdsOfUnion
<1>4. Ids(S) = Ids(S \ {s}) \cup {s.id}
  BY DEF Ids
<1>5. QED
  BY <1>3, <1>4 DEF c

\* A call that works on the list works on what the file holds.
LEMMA CurrentIsFile ==
  ASSUME KeepsWhatIsSaved
  PROVE Current = file
  BY DEF KeepsWhatIsSaved, Current

\* Nothing is lost that nobody has asked to lose, for any number of snippets, calls, failures and relaunches: a call works on
\* what the file holds, whether it has just been loaded or long ago. Code: SnippetStore, save to reset.
THEOREM NothingLostUnasked == SnippetSpec => []KeepsWhatIsSaved
<1>1. SnippetInit => KeepsWhatIsSaved
  BY DEF SnippetInit, KeepsWhatIsSaved
<1>2. SnippetTypeOK /\ KeepsWhatIsSaved /\ [SnippetNext]_snippetVars => KeepsWhatIsSaved'
  <2> SUFFICES ASSUME SnippetTypeOK, KeepsWhatIsSaved, [SnippetNext]_snippetVars PROVE KeepsWhatIsSaved'
    OBVIOUS
  <2>0. Ids(file) = kept /\ Current = file
    BY CurrentIsFile DEF KeepsWhatIsSaved
  <2> SUFFICES Ids(file') = kept' /\ (loadedOnce' => cachedSnippets' = file')
    BY DEF KeepsWhatIsSaved, Ids
  <2>1. CASE loadAll \/ allSnippets \/ SaveFails
    BY <2>0, <2>1 DEF loadAll, allSnippets, SaveFails, FillCache
  <2>2. ASSUME NEW s, Save(s) PROVE Ids(file') = kept' /\ (loadedOnce' => cachedSnippets' = file')
    <3>1. file' = {x \in file : x.id # s.id} \cup {s} /\ cachedSnippets' = file' /\ kept' = kept \cup {s.id}
      BY <2>0, <2>2 DEF Save, Persist, FillCache
    <3>2. Ids(file') = Ids(file) \cup {s.id}
      BY <3>1, IdsOfSaved
    <3>3. QED
      BY <2>0, <3>1, <3>2
  <2>3. ASSUME NEW id \in 1..MaxIds, Delete(id) PROVE Ids(file') = kept' /\ (loadedOnce' => cachedSnippets' = file')
    <3>1. file' = {x \in file : x.id # id} /\ cachedSnippets' = file' /\ kept' = kept \ {id}
      BY <2>0, <2>3 DEF Delete, Persist, FillCache
    <3>2. Ids(file') = Ids(file) \ {id}
      BY <3>1, IdsOfRest
    <3>3. QED
      BY <2>0, <3>1, <3>2
  <2>4. ASSUME NEW s \in cachedSnippets, incrementUseCount(s)
        PROVE Ids(file') = kept' /\ (loadedOnce' => cachedSnippets' = file')
    <3>1. cachedSnippets = file /\ cachedSnippets \in SUBSET Snippet
      BY <2>4 DEF incrementUseCount, KeepsWhatIsSaved, SnippetTypeOK
    <3>2. file' = (file \ {s}) \cup {[s EXCEPT !.uses = @ + 1]} /\ cachedSnippets' = file' /\ kept' = kept
      BY <2>4, <3>1 DEF incrementUseCount, Persist, FillCache
    <3>3. Ids(file') = Ids(file)
      BY <3>1, <3>2, IdsOfCounted
    <3>4. QED
      BY <2>0, <3>2, <3>3
  <2>5. ASSUME NEW t \in Triggers, ImportMerge(t) PROVE Ids(file') = kept' /\ (loadedOnce' => cachedSnippets' = file')
    <3> DEFINE new == [id |-> nextId, trigger |-> t, uses |-> 0]
               added == IF \E x \in Existing : x.trigger = t THEN {} ELSE {new}
    <3>1. /\ file' = Existing \cup added /\ cachedSnippets' = file'
          /\ kept' = (IF MayLoad THEN kept ELSE {}) \cup Ids(added)
      BY <2>5 DEF ImportMerge, Persist, FillCache
    <3>2. Ids(Existing) = IF MayLoad THEN kept ELSE {}
      BY <2>0 DEF Existing, Ids
    <3> HIDE DEF added
    <3>3. Ids(file') = Ids(Existing) \cup Ids(added)
      BY <3>1, IdsOfUnion
    <3>4. QED
      BY <3>1, <3>2, <3>3
  <2>6. ASSUME NEW t \in Triggers, ImportReplace(t) PROVE Ids(file') = kept' /\ (loadedOnce' => cachedSnippets' = file')
    BY <2>6 DEF ImportReplace, Persist, FillCache, Ids
  <2>7. CASE Reset
    BY <2>7 DEF Reset, FillCache, Ids
  <2>8. CASE FileBreaks \/ FileMended \/ RelaunchStore
    BY <2>0, <2>8 DEF FileBreaks, FileMended, RelaunchStore, KeepsWhatIsSaved
  <2>9. CASE UNCHANGED snippetVars
    BY <2>0, <2>9 DEF snippetVars, KeepsWhatIsSaved
  <2>10. QED
    BY <2>1, <2>2, <2>3, <2>4, <2>5, <2>6, <2>7, <2>8, <2>9 DEF SnippetNext, SaveNew, SaveShown
<1>3. QED
  BY <1>1, <1>2, SnippetsTyped, PTL DEF SnippetSpec
------------------------------------------------------------------------------
(* The countdowns of the history's rows. *)

\* A row counts down only for a tap that was not cancelled. This is all that BeginInjection looks at: the loop that gets to
\* it may be one whose own tap was cancelled, when another tap has followed.
CountdownInv ==
  /\ reinjectionStates \in [Entries -> {"idle", "countdown", "loading", "success", "failure"}]
  /\ wanted \in [Entries -> BOOLEAN]
  /\ loop \in [Loops -> [entry : Entries \cup {0}, at : {"unused", "counting", "injecting", "succeeded", "failed", "ended"},
                         remaining : Nat]]
  /\ \A t \in Loops : loop[t].at # "unused" => loop[t].entry \in Entries
  /\ \A e \in Entries : reinjectionStates[e] = "countdown" => wanted[e] = TRUE

\* What a step of a tap's loop may do to the row, and to the tap.
LEMMA LoopStep ==
  ASSUME CountdownInv, NEW t \in Loops, loop[t].at # "unused",
         NEW at \in {"counting", "injecting", "succeeded", "failed", "ended"}, NEW n \in Nat,
         loop' = [loop EXCEPT ![t].at = at, ![t].remaining = n],
         \/ UNCHANGED <<reinjectionStates, wanted>>
         \/ /\ \E state \in {"idle", "loading", "success", "failure"} : SetState(loop[t].entry, state)
            /\ wanted' = wanted \/ wanted' = [wanted EXCEPT ![loop[t].entry] = FALSE]
  PROVE CountdownInv' /\ \A u \in Loops : u # t => loop'[u] = loop[u]
<1> DEFINE e == loop[t].entry
<1>1. e \in Entries
  BY DEF CountdownInv
<1>2. loop' \in [Loops -> [entry : Entries \cup {0}, at : {"unused", "counting", "injecting", "succeeded", "failed", "ended"},
                          remaining : Nat]]
  <2>1. loop'[t] = [entry |-> loop[t].entry, at |-> at, remaining |-> n] /\ DOMAIN loop' = Loops
    <3>1. /\ t \in DOMAIN loop /\ DOMAIN loop = Loops
          /\ loop[t] = [entry |-> loop[t].entry, at |-> loop[t].at, remaining |-> loop[t].remaining]
      BY DEF CountdownInv
    <3>2. loop'[t] = [[loop[t] EXCEPT !.at = at] EXCEPT !.remaining = n] /\ DOMAIN loop' = Loops
      BY <3>1
    <3>3. QED
      BY <3>1, <3>2
  <2>2. \A u \in Loops \ {t} : loop'[u] = loop[u]
    BY DEF CountdownInv
  <2>3. QED
    BY <2>1, <2>2 DEF CountdownInv
<1>3. loop'[t].entry = e /\ \A u \in Loops : u # t => loop'[u] = loop[u]
  BY DEF CountdownInv
<1>4. \A u \in Loops : loop'[u].at # "unused" => loop'[u].entry \in Entries
  BY <1>1, <1>3 DEF CountdownInv
<1> HIDE DEF e
<1>5. CASE UNCHANGED <<reinjectionStates, wanted>>
  BY <1>2, <1>3, <1>4, <1>5 DEF CountdownInv
<1>6. CASE /\ \E state \in {"idle", "loading", "success", "failure"} : SetState(e, state)
           /\ wanted' = wanted \/ wanted' = [wanted EXCEPT ![e] = FALSE]
  <2>1. /\ reinjectionStates' \in [Entries -> {"idle", "countdown", "loading", "success", "failure"}]
        /\ reinjectionStates'[e] # "countdown" /\ \A f \in Entries \ {e} : reinjectionStates'[f] = reinjectionStates[f]
    BY <1>1, <1>6 DEF CountdownInv, SetState
  <2>2. wanted' \in [Entries -> BOOLEAN] /\ \A f \in Entries \ {e} : wanted'[f] = wanted[f]
    BY <1>1, <1>6 DEF CountdownInv
  <2>3. QED
    BY <1>2, <1>3, <1>4, <2>1, <2>2 DEF CountdownInv
<1>7. QED
  BY <1>3, <1>5, <1>6 DEF e

\* The steps of a loop, one by one.
LEMMA LoopSteps ==
  ASSUME CountdownInv, NEW t \in Loops,
         CountdownBroken(t) \/ CountDown(t) \/ Blocked(t) \/ BeginInjection(t) \/ EndInjection(t) \/ EndAfterFailure(t)
           \/ ReinjectEnds(t)
  PROVE /\ CountdownInv' /\ \A u \in Loops : u # t => loop'[u] = loop[u]
        /\ loop'[t].at = "injecting" => wanted[loop[t].entry] = TRUE
<1> DEFINE n == loop[t].remaining
<1>1. n \in Nat /\ loop[t] \in [entry : Entries \cup {0}, at : {"unused", "counting", "injecting", "succeeded", "failed", "ended"},
                                remaining : Nat]
  BY DEF CountdownInv
<1>2. ASSUME NEW at, loop' = [loop EXCEPT ![t].at = at]
      PROVE loop' = [loop EXCEPT ![t].at = at, ![t].remaining = n] /\ loop'[t].at = at
  BY <1>1, <1>2 DEF CountdownInv
<1>3. ASSUME NEW at, NEW k, loop' = [loop EXCEPT ![t].at = at, ![t].remaining = k] PROVE loop'[t].at = at
  BY <1>1, <1>3 DEF CountdownInv
<1>4. CASE CountdownBroken(t)
  <2>1. loop' = [loop EXCEPT ![t].at = "ended", ![t].remaining = n] /\ loop'[t].at = "ended"
    BY <1>2, <1>4 DEF CountdownBroken
  <2>2. loop[t].at # "unused" /\ UNCHANGED <<reinjectionStates, wanted>>
    BY <1>4 DEF CountdownBroken, Counting
  <2> HIDE DEF n
  <2>3. QED
    BY <1>1, <2>1, <2>2, LoopStep
<1>5. CASE CountDown(t)
  <2>1. n - 1 \in Nat
    BY <1>1, <1>5 DEF CountDown
  <2>2. QED
    BY <1>3, <1>5, <2>1, LoopStep DEF CountDown, Counting, Sleeps
<1>6. CASE Blocked(t)
  BY <1>3, <1>6, LoopStep DEF Blocked, Counting, Sleeps
<1>7. CASE BeginInjection(t)
  <2>1. wanted[loop[t].entry] = TRUE
    BY <1>7 DEF BeginInjection, Counting, CountdownInv
  <2>2. QED
    BY <1>1, <1>2, <1>7, <2>1, LoopStep DEF BeginInjection, Counting
<1>8. CASE EndInjection(t)
  BY <1>3, <1>8, LoopStep DEF EndInjection, Sleeps
<1>9. CASE EndAfterFailure(t)
  BY <1>3, <1>9, LoopStep DEF EndAfterFailure, Sleeps
<1>10. CASE ReinjectEnds(t)
  <2>1. loop' = [loop EXCEPT ![t].at = "ended", ![t].remaining = n] /\ loop'[t].at = "ended"
    BY <1>2, <1>10 DEF ReinjectEnds
  <2>2. loop[t].at # "unused" /\ SetState(loop[t].entry, "idle") /\ wanted' = wanted
    BY <1>10 DEF ReinjectEnds
  <2> HIDE DEF n
  <2>3. QED
    BY <1>1, <2>1, <2>2, LoopStep
<1>11. QED
  BY <1>4, <1>5, <1>6, <1>7, <1>8, <1>9, <1>10

\* The user taps the button of a row, or cancels.
LEMMA RowTapped ==
  ASSUME CountdownInv, NEW t \in Loops, NEW e \in Entries, Reinject(t, e)
  PROVE CountdownInv' /\ loop'[t].at # "injecting" /\ \A u \in Loops : u # t => loop'[u] = loop[u]
<1>1. /\ reinjectionStates' = [reinjectionStates EXCEPT ![e] = "countdown"]
      /\ wanted' = [wanted EXCEPT ![e] = TRUE]
      /\ loop' = [loop EXCEPT ![t] = [entry |-> e, at |-> "counting", remaining |-> 3]]
  BY DEF Reinject, SetState
<1>2. QED
  BY <1>1 DEF CountdownInv

LEMMA RowCancelled ==
  ASSUME CountdownInv, NEW e \in Entries, CancelReinject(e)
  PROVE CountdownInv' /\ loop' = loop
<1>1. /\ reinjectionStates' = [reinjectionStates EXCEPT ![e] = "idle"]
      /\ wanted' = [wanted EXCEPT ![e] = FALSE] /\ loop' = loop
  BY DEF CancelReinject, SetState
<1>2. QED
  BY <1>1 DEF CountdownInv

\* Every step, with what it may do to the loops.
LEMMA CountdownStep ==
  ASSUME CountdownInv, [HistoryNext]_historyPanelVars
  PROVE /\ CountdownInv'
        /\ \A t \in Loops : loop[t].at # "injecting" /\ loop'[t].at = "injecting" => wanted[loop[t].entry] = TRUE
<1>1. CASE UNCHANGED <<reinjectionStates, wanted, loop>>
  BY <1>1 DEF CountdownInv
<1>2. CASE \E t \in Loops : \E e \in Entries : Reinject(t, e)
  BY <1>2, RowTapped
<1>3. CASE \E e \in Entries : CancelReinject(e)
  BY <1>3, RowCancelled
<1>4. CASE \E t \in Loops : CountdownBroken(t) \/ CountDown(t) \/ Blocked(t) \/ BeginInjection(t) \/ EndInjection(t)
                           \/ EndAfterFailure(t) \/ ReinjectEnds(t)
  <2>1. PICK t \in Loops : CountdownBroken(t) \/ CountDown(t) \/ Blocked(t) \/ BeginInjection(t) \/ EndInjection(t)
                           \/ EndAfterFailure(t) \/ ReinjectEnds(t)
    BY <1>4
  <2>2. /\ CountdownInv' /\ \A u \in Loops : u # t => loop'[u] = loop[u]
        /\ loop'[t].at = "injecting" => wanted[loop[t].entry] = TRUE
    BY <2>1, LoopSteps
  <2>3. QED
    BY <2>2
<1>5. CASE \/ Load \/ TakeAnswer \/ ClearTable \/ ClearList
           \/ \E e \in Entries : \/ Insert(e) \/ InsertFails(e) \/ Notify(e) \/ DeleteRow(e)
                               \/ \E fails \in BOOLEAN : DeleteStored(e, fails)
  BY <1>1, <1>5 DEF Load, TakeAnswer, ClearTable, ClearList, Insert, InsertFails, Notify, DeleteRow, DeleteStored, reinjectVars
<1>6. CASE UNCHANGED historyPanelVars
  BY <1>1, <1>6 DEF historyPanelVars, reinjectVars
<1>7. QED
  BY <1>2, <1>3, <1>4, <1>5, <1>6 DEF HistoryNext

\* Two loops may count one row down after a cancel and another tap; the text is injected only while a tap that was not
\* cancelled has not had its injection. Code: reinject, cancelReinject.
THEOREM OneInjectionPerTap == HistorySpec => InjectedOncePerTap
<1>1. HistoryInit => CountdownInv
  BY DEF HistoryInit, CountdownInv
<1>2. CountdownInv /\ [HistoryNext]_historyPanelVars
      => CountdownInv' /\ [\A t \in Loops : loop[t].at # "injecting" /\ loop'[t].at = "injecting" => wanted[loop[t].entry]]_historyPanelVars
  BY CountdownStep
<1>3. QED
  BY <1>1, <1>2, PTL DEF HistorySpec, InjectedOncePerTap
------------------------------------------------------------------------------
(* The list of the history and its table. First the k-th of a set of numbers.                                             *)

UpTo(s, x) == {y \in s : y <= x}

LEMMA UpToFinite ==
  ASSUME NEW s, s \subseteq Int, IsFiniteSet(s), NEW x \in s
  PROVE  /\ IsFiniteSet(UpTo(s, x)) /\ Cardinality(UpTo(s, x)) \in Nat
         /\ Cardinality(s) \in Nat /\ Cardinality(UpTo(s, x)) \in 1..Cardinality(s)
<1>0. x \in Int
  OBVIOUS
<1>1. UpTo(s, x) \subseteq s /\ x \in UpTo(s, x)
  BY <1>0 DEF UpTo
<1>2. IsFiniteSet(UpTo(s, x)) /\ Cardinality(UpTo(s, x)) <= Cardinality(s)
  BY <1>1, FS_Subset
<1>3. Cardinality(UpTo(s, x)) \in Nat /\ Cardinality(s) \in Nat
  BY <1>2, FS_CardinalityType
<1>4. Cardinality(UpTo(s, x)) # 0
  BY <1>1, <1>2, FS_EmptySet
<1> QED
  BY <1>1, <1>2, <1>3, <1>4

LEMMA RankAscends ==
  ASSUME NEW s, s \subseteq Int, IsFiniteSet(s), NEW x \in s, NEW y \in s, x < y
  PROVE  Cardinality(UpTo(s, x)) < Cardinality(UpTo(s, y))
<1>0. x \in Int /\ y \in Int /\ \A z \in s : z \in Int
  OBVIOUS
<1>1. UpTo(s, x) \in SUBSET UpTo(s, y) /\ y \in UpTo(s, y) /\ y \notin UpTo(s, x)
  <2>1. ASSUME NEW z \in UpTo(s, x) PROVE z \in UpTo(s, y)
    <3>1. z \in s /\ z \in Int /\ z <= x
      BY <1>0 DEF UpTo
    <3>2. z <= y
      BY <1>0, <3>1
    <3> QED
      BY <3>1, <3>2 DEF UpTo
  <2>2. y <= y /\ ~(y <= x)
    BY <1>0
  <2> QED
    BY <2>1, <2>2 DEF UpTo
<1>2. IsFiniteSet(UpTo(s, x)) /\ IsFiniteSet(UpTo(s, y)) /\ Cardinality(UpTo(s, x)) \in Nat /\ Cardinality(UpTo(s, y)) \in Nat
  BY UpToFinite
<1>3. Cardinality(UpTo(s, x)) <= Cardinality(UpTo(s, y))
  BY <1>1, <1>2, FS_Subset
<1>4. Cardinality(UpTo(s, x)) # Cardinality(UpTo(s, y))
  BY <1>1, <1>2, FS_Subset
<1> QED
  BY <1>2, <1>3, <1>4

LEMMA OneRankEach ==
  ASSUME NEW s, s \subseteq Int, IsFiniteSet(s), NEW x \in s, NEW y \in s, Cardinality(UpTo(s, x)) = Cardinality(UpTo(s, y))
  PROVE  x = y
<1>1. x \in Int /\ y \in Int
  OBVIOUS
<1>2. Cardinality(UpTo(s, x)) \in Nat
  BY UpToFinite
<1>3. CASE x < y
  <2>1. Cardinality(UpTo(s, x)) < Cardinality(UpTo(s, y))
    BY <1>3, RankAscends
  <2> QED
    BY <1>2, <2>1
<1>4. CASE y < x
  <2>1. Cardinality(UpTo(s, y)) < Cardinality(UpTo(s, x))
    BY <1>4, RankAscends
  <2> QED
    BY <1>2, <2>1
<1> QED
  BY <1>1, <1>3, <1>4

LEMMA KthFacts ==
  ASSUME NEW s, s \subseteq Int, IsFiniteSet(s), NEW k \in 1..Cardinality(s)
  PROVE  Kth(s, k) \in s /\ Cardinality(UpTo(s, Kth(s, k))) = k
<1> DEFINE N == Cardinality(s)
           f == [x \in s |-> Cardinality(UpTo(s, x))]
<1>1. N \in Nat
  BY FS_CardinalityType
<1>2. f \in [s -> 1..N]
  BY UpToFinite
<1>3. f \in Injection(s, 1..N)
  BY <1>2, OneRankEach DEF Injection, IsInjective
<1>4. IsFiniteSet(1..N) /\ Cardinality(1..N) = N
  BY <1>1, FS_Interval
<1> HIDE DEF f
<1>5. f \in Surjection(s, 1..N)
  BY <1>3, <1>4, FS_Injection
<1>6. \E x \in s : f[x] = k
  BY <1>5 DEF Surjection
<1>7. \E x \in s : Cardinality({y \in s : y <= x}) = k
  BY <1>6 DEF f, UpTo
<1> QED
  BY <1>7 DEF Kth, UpTo

LEMMA KthIs ==
  ASSUME NEW s, s \subseteq Int, IsFiniteSet(s), NEW x \in s
  PROVE  Cardinality(UpTo(s, x)) \in 1..Cardinality(s) /\ Kth(s, Cardinality(UpTo(s, x))) = x
<1> DEFINE k == Cardinality(UpTo(s, x))
<1>1. k \in 1..Cardinality(s)
  BY UpToFinite
<1>2. Kth(s, k) \in s /\ Cardinality(UpTo(s, Kth(s, k))) = k
  BY <1>1, KthFacts
<1> QED
  BY <1>1, <1>2, OneRankEach

LEMMA KthAscends ==
  ASSUME NEW s, s \subseteq Int, IsFiniteSet(s), NEW j \in 1..Cardinality(s), NEW k \in 1..Cardinality(s), j < k
  PROVE  Kth(s, j) < Kth(s, k)
<1> DEFINE x == Kth(s, j)
           y == Kth(s, k)
<1>1. x \in s /\ y \in s /\ Cardinality(UpTo(s, x)) = j /\ Cardinality(UpTo(s, y)) = k
  BY KthFacts
<1> HIDE DEF x, y
<1>2. j \in Int /\ k \in Int /\ x \in Int /\ y \in Int
  <2>1. Cardinality(s) \in Nat
    BY FS_CardinalityType
  <2> QED
    BY <1>1, <2>1
<1>3. ~(y < x) /\ x # y
  <2>1. y < x => k < j
    BY <1>1, RankAscends
  <2> QED
    BY <1>1, <1>2, <2>1
<1> QED
  BY <1>2, <1>3 DEF x, y

\* A list that shows a set, the newest first.
Listed(list, s) ==
  /\ list \in Seq(Nat)
  /\ s = {list[i] : i \in 1..Len(list)}
  /\ \A i, j \in 1..Len(list) : i < j => list[i] > list[j]

LEMMA NewestIs ==
  ASSUME NEW s, s \subseteq Nat, IsFiniteSet(s), NEW n \in Nat
  PROVE  /\ Newest(s, n) \in Seq(s) /\ Len(Newest(s, n)) <= n
         /\ Cardinality(s) <= n => Listed(Newest(s, n), s)
<1> DEFINE N == Cardinality(s)
           m == IF N < n THEN N ELSE n
           e(i) == Kth(s, N + 1 - i)
           list == [i \in 1..m |-> e(i)]
<1>0. s \subseteq Int
  OBVIOUS
<1>1. N \in Nat /\ m \in Nat /\ m <= n /\ m <= N
  BY FS_CardinalityType
<1>2. Newest(s, n) = list
  BY DEF Newest
<1>3. \A i \in 1..m : N + 1 - i \in 1..N
  BY <1>1
<1>4. \A i \in 1..m : e(i) \in s
  BY <1>0, <1>3, KthFacts
<1> HIDE DEF m, e
<1>5. list \in Seq(s) /\ Len(list) = m
  <2>1. list \in [1..m -> s]
    BY <1>4
  <2> QED
    BY <1>1, <2>1
<1>6. ASSUME N <= n PROVE Listed(list, s)
  <2>1. m = N
    BY <1>1, <1>6 DEF m
  <2>2. list \in Seq(Nat)
    <3>1. list \in [1..m -> Nat]
      BY <1>4
    <3> QED
      BY <1>1, <3>1
  <2>3. \A i \in 1..m : list[i] = Kth(s, N + 1 - i)
    BY DEF e
  <2>4. ASSUME NEW x \in s PROVE \E i \in 1..m : list[i] = x
    <3> DEFINE k == Cardinality(UpTo(s, x))
    <3>1. k \in 1..N /\ Kth(s, k) = x
      BY <1>0, KthIs
    <3> HIDE DEF k
    <3>2. N + 1 - k \in 1..m /\ N + 1 - (N + 1 - k) = k
      BY <1>1, <2>1, <3>1
    <3> HIDE DEF list
    <3> QED
      BY <2>3, <3>1, <3>2
  <2>5. ASSUME NEW i \in 1..m, NEW j \in 1..m, i < j PROVE list[i] > list[j]
    <3>1. N + 1 - j \in 1..N /\ N + 1 - i \in 1..N /\ N + 1 - j < N + 1 - i
      BY <1>1, <1>3, <2>5
    <3>2. Kth(s, N + 1 - j) < Kth(s, N + 1 - i)
      BY <1>0, <3>1, KthAscends
    <3>3. Kth(s, N + 1 - j) \in Nat /\ Kth(s, N + 1 - i) \in Nat
      BY <1>0, <3>1, KthFacts
    <3> HIDE DEF list
    <3> QED
      BY <2>3, <3>2, <3>3
  <2>6. \A i \in 1..m : list[i] \in s
    BY <1>4
  <2> HIDE DEF list
  <2>7. s = {list[i] : i \in 1..Len(list)}
    BY <1>5, <2>4, <2>6
  <2> QED
    BY <1>5, <2>2, <2>5, <2>7 DEF Listed
<1> QED
  BY <1>1, <1>2, <1>5, <1>6

\* There is one such list.
LEMMA ListedIsNewest ==
  ASSUME NEW s, NEW list, Listed(list, s), NEW n \in Nat, Cardinality(s) <= n
  PROVE  list = Newest(s, n)
<1> DEFINE N == Len(list)
<1>1. /\ list \in Seq(Nat) /\ N \in Nat /\ list \in [1..N -> Nat]
      /\ \A x \in s : \E i \in 1..N : list[i] = x
      /\ \A i \in 1..N : list[i] \in s /\ list[i] \in Nat
      /\ \A i, j \in 1..N : i < j => list[i] > list[j]
  BY DEF Listed
<1>2. s \subseteq Nat
  BY <1>1
<1>3. \A i, j \in 1..N : list[i] <= list[j] => j <= i
  BY <1>1
<1>4. IsFiniteSet(s) /\ Cardinality(s) = N
  <2>1. list \in [1..N -> s]
    BY <1>1
  <2>2. list \in Bijection(1..N, s)
    <3>1. list \in Injection(1..N, s)
      BY <1>1, <1>3, <2>1 DEF Injection, IsInjective
    <3>2. list \in Surjection(1..N, s)
      BY <1>1, <2>1 DEF Surjection
    <3> QED
      BY <3>1, <3>2 DEF Bijection
  <2>3. ExistsBijection(1..N, s)
    BY <2>2 DEF ExistsBijection
  <2>4. IsFiniteSet(1..N) /\ Cardinality(1..N) = N
    <3> HIDE DEF N
    <3> QED
      BY <1>1, FS_Interval
  <2> QED
    BY <2>3, <2>4, FS_Bijection
<1>5. ASSUME NEW i \in 1..N PROVE Cardinality(UpTo(s, list[i])) = N + 1 - i
  <2> DEFINE T == UpTo(s, list[i])
             g == [j \in i..N |-> list[j]]
  <2>1. \A j \in i..N : j \in 1..N /\ list[j] \in T
    <3> SUFFICES ASSUME NEW j \in i..N PROVE j \in 1..N /\ list[j] \in T
      OBVIOUS
    <3>1. j \in 1..N /\ i <= j
      BY <1>1
    <3>2. list[j] <= list[i]
      BY <1>1, <3>1
    <3> QED
      BY <1>1, <3>1, <3>2 DEF UpTo
  <2>2. \A x \in T : \E j \in i..N : list[j] = x
    <3> SUFFICES ASSUME NEW x \in T PROVE \E j \in i..N : list[j] = x
      OBVIOUS
    <3>1. x \in s /\ x <= list[i]
      BY DEF UpTo
    <3>2. PICK j \in 1..N : list[j] = x
      BY <1>1, <3>1
    <3>3. i <= j
      BY <1>3, <3>1, <3>2
    <3> QED
      BY <1>1, <3>2, <3>3
  <2>3. g \in [i..N -> T] /\ \A j \in i..N : g[j] = list[j]
    BY <2>1
  <2>4. \A j, k \in i..N : list[j] = list[k] => j = k
    BY <1>1, <1>3, <2>1
  <2> HIDE DEF g, T
  <2>5. g \in Injection(i..N, T)
    BY <2>3, <2>4 DEF Injection, IsInjective
  <2>6. g \in Surjection(i..N, T)
    BY <2>2, <2>3 DEF Surjection
  <2>7. ExistsBijection(i..N, T)
    BY <2>5, <2>6 DEF Bijection, ExistsBijection
  <2>8. IsFiniteSet(i..N) /\ Cardinality(i..N) = N - i + 1
    <3>1. i \in Int /\ N \in Int /\ ~(i > N)
      BY <1>1
    <3> QED
      BY <3>1, FS_Interval
  <2>9. Cardinality(T) = N - i + 1
    BY <2>7, <2>8, FS_Bijection
  <2> QED
    BY <1>1, <2>9 DEF T
<1>6. \A i \in 1..N : Kth(s, N + 1 - i) = list[i]
  <2> SUFFICES ASSUME NEW i \in 1..N PROVE Kth(s, N + 1 - i) = list[i]
    OBVIOUS
  <2>1. list[i] \in s /\ s \subseteq Int
    BY <1>1, <1>2
  <2> QED
    BY <1>4, <1>5, <2>1, KthIs
<1>7. Newest(s, n) = [i \in 1..N |-> Kth(s, N + 1 - i)]
  <2>1. Newest(s, n) = [i \in 1..(IF Cardinality(s) < n THEN Cardinality(s) ELSE n) |-> Kth(s, Cardinality(s) + 1 - i)]
    BY DEF Newest
  <2>2. (IF Cardinality(s) < n THEN Cardinality(s) ELSE n) = Cardinality(s)
    <3>1. Cardinality(s) \in Nat /\ Cardinality(s) <= n
      BY <1>1, <1>4
    <3> QED
      BY <3>1
  <2> QED
    BY <1>4, <2>1, <2>2
<1> HIDE DEF N
<1>8. list = [i \in 1..N |-> list[i]]
  BY <1>1
<1> QED
  BY <1>6, <1>7, <1>8

LEMMA WithoutListed ==
  ASSUME NEW s, NEW list, Listed(list, s), NEW e
  PROVE  Listed(Without(list, e), s \ {e})
<1> DEFINE N == Len(list)
           others == {i \in 1..N : list[i] # e}
           M == Cardinality(others)
           at(k) == list[Kth(others, k)]
           rest == [k \in 1..M |-> at(k)]
<1>1. /\ list \in Seq(Nat) /\ N \in Nat
      /\ s = {list[i] : i \in 1..N}
      /\ \A i \in 1..N : list[i] \in Nat
      /\ \A i, j \in 1..N : i < j => list[i] > list[j]
  BY DEF Listed
<1>2. others \subseteq Int /\ others \subseteq 1..N /\ IsFiniteSet(others) /\ M \in Nat
  <2>1. others \subseteq 1..N /\ others \subseteq Int
    BY <1>1
  <2>2. IsFiniteSet(others)
    <3> HIDE DEF N, others
    <3>1. IsFiniteSet(1..N)
      BY <1>1, FS_Interval
    <3> QED
      BY <2>1, <3>1, FS_Subset
  <2> QED
    BY <2>1, <2>2, FS_CardinalityType
<1>3. Without(list, e) = rest
  BY DEF Without
<1>4. \A i \in others : list[i] # e /\ list[i] \in Nat
  BY <1>1
<1>5. \A i \in 1..N : list[i] # e => i \in others
  OBVIOUS
<1> HIDE DEF others
<1>6. \A k \in 1..M : Kth(others, k) \in others
  BY <1>2, KthFacts
<1>7. \A i \in others : \E k \in 1..M : Kth(others, k) = i
  BY <1>2, KthIs
<1>8. \A j, k \in 1..M : j < k => Kth(others, j) < Kth(others, k)
  BY <1>2, KthAscends
<1>9. \A k \in 1..M : at(k) \in Nat /\ at(k) \in s \ {e}
  BY <1>1, <1>2, <1>4, <1>6
<1>10. \A x \in s \ {e} : \E k \in 1..M : at(k) = x
  <2> SUFFICES ASSUME NEW x \in s \ {e} PROVE \E k \in 1..M : at(k) = x
    OBVIOUS
  <2>1. PICK i \in 1..N : list[i] = x
    BY <1>1
  <2>2. i \in others
    BY <1>5, <2>1
  <2> QED
    BY <1>7, <2>1, <2>2
<1>11. \A j, k \in 1..M : j < k => at(j) > at(k)
  BY <1>1, <1>2, <1>6, <1>8
<1> HIDE DEF at, M
<1>12. rest \in [1..M -> Nat] /\ \A k \in 1..M : rest[k] = at(k)
  BY <1>9
<1> HIDE DEF rest
<1>13. rest \in Seq(Nat) /\ Len(rest) = M
  BY <1>2, <1>12
<1>14. s \ {e} = {rest[k] : k \in 1..M}
  BY <1>9, <1>10, <1>12
<1> QED
  BY <1>3, <1>11, <1>12, <1>13, <1>14 DEF Listed

LEMMA FrontListed ==
  ASSUME NEW s, NEW list, Listed(list, s), NEW e \in Nat, \A x \in s : x < e
  PROVE  Listed(<<e>> \o list, s \cup {e})
<1> DEFINE N == Len(list)
           longer == <<e>> \o list
<1>1. /\ list \in Seq(Nat) /\ N \in Nat
      /\ s = {list[i] : i \in 1..N}
      /\ \A i \in 1..N : list[i] \in Nat /\ list[i] < e
      /\ \A i, j \in 1..N : i < j => list[i] > list[j]
  BY DEF Listed
<1>2. /\ longer \in Seq(Nat) /\ Len(longer) = N + 1 /\ longer[1] = e
      /\ \A i \in 2..N + 1 : longer[i] = list[i - 1]
      /\ \A i \in 1..N : longer[i + 1] = list[i]
  BY <1>1
<1> HIDE DEF longer
<1>3. \A i, j \in 1..N + 1 : i < j => longer[i] > longer[j]
  <2> SUFFICES ASSUME NEW i \in 1..N + 1, NEW j \in 1..N + 1, i < j PROVE longer[i] > longer[j]
    OBVIOUS
  <2>1. j \in 2..N + 1 /\ j - 1 \in 1..N
    BY <1>1
  <2>2. CASE i = 1
    BY <1>1, <1>2, <2>1, <2>2
  <2>3. CASE i # 1
    <3>1. i \in 2..N + 1 /\ i - 1 \in 1..N /\ i - 1 < j - 1
      BY <1>1, <2>1, <2>3
    <3> QED
      BY <1>1, <1>2, <2>1, <3>1
  <2> QED
    BY <2>2, <2>3
<1>4. ASSUME NEW x PROVE x \in s \cup {e} <=> x \in {longer[i] : i \in 1..N + 1}
  <2>1. ASSUME NEW i \in 1..N PROVE i + 1 \in 1..N + 1 /\ longer[i + 1] = list[i]
    <3>1. i + 1 \in 1..N + 1
      BY <1>1
    <3> QED
      BY <1>2, <3>1
  <2>2. ASSUME NEW i \in 1..N + 1 PROVE i = 1 \/ (i - 1 \in 1..N /\ longer[i] = list[i - 1])
    <3>1. i = 1 \/ (i \in 2..N + 1 /\ i - 1 \in 1..N)
      BY <1>1
    <3>2. i \in 2..N + 1 => longer[i] = list[i - 1]
      BY <1>2
    <3> QED
      BY <3>1, <3>2
  <2>3. 1 \in 1..N + 1
    BY <1>1
  <2>4. CASE x = e
    BY <1>2, <2>3, <2>4
  <2>5. CASE x # e /\ x \in s
    <3>1. PICK i \in 1..N : list[i] = x
      BY <1>1, <2>5
    <3> QED
      BY <2>1, <2>5, <3>1
  <2>6. CASE x # e /\ x \notin s
    <3>1. \A i \in 1..N : list[i] # x
      BY <1>1, <2>6
    <3>2. ASSUME NEW i \in 1..N + 1 PROVE longer[i] # x
      <4>1. CASE i = 1
        BY <1>2, <2>6, <4>1
      <4>2. CASE i - 1 \in 1..N /\ longer[i] = list[i - 1]
        BY <3>1, <4>2
      <4> QED
        BY <2>2, <4>1, <4>2
    <3> QED
      BY <2>6, <3>2
  <2> QED
    BY <2>4, <2>5, <2>6
<1> QED
  BY <1>2, <1>3, <1>4 DEF Listed, longer

\* Retained entries at most, and what trims them is the limit of what the list is given.
HistoryTyping ==
  /\ table \subseteq Entries /\ IsFiniteSet(table) /\ Cardinality(table) <= Retained
  /\ persisted \in [Entries -> {"none", "stored", "notified", "failed"}]
  /\ trimmed \subseteq Entries /\ IsFiniteSet(trimmed)
  /\ \A e \in Kept : persisted[e] # "none"
  /\ removing \subseteq Entries
  /\ outOfStep \in BOOLEAN

Stored == {e \in Entries : persisted[e] = "stored"}

\* What is under way when nothing overlaps: nothing, a load, an insert whose entry is the newest, a delete, or a clear. In each
\* the list differs from what it is at rest by what is still to come.
Resting == ~Busy /\ Listed(entries, Kept)
Loading == answers = <<Newest(table, Retained)>> /\ trimmed = {} /\ removing = {} /\ clearing = "no" /\ Stored = {}
Inserting ==
  /\ answers = <<>> /\ removing = {} /\ clearing = "no"
  /\ \E e \in Kept : Stored = {e} /\ Listed(entries, Kept \ {e}) /\ \A x \in Kept : x <= e
Deleting ==
  /\ answers = <<>> /\ clearing = "no" /\ Stored = {}
  /\ \E e \in Entries : removing = {e} /\ e \notin trimmed /\ Listed(entries, Kept \ {e})
Clearing == answers = <<>> /\ removing = {} /\ Stored = {} /\ clearing # "no" /\ table = {}

PanelInStep == loads > 0 /\ ~outOfStep => Resting \/ Loading \/ Inserting \/ Deleting \/ Clearing

HistoryInv == HistoryTyping /\ PanelInStep

LEMMA BusyIs == Busy <=> answers # <<>> \/ removing # {} \/ clearing # "no" \/ Stored # {}
  BY DEF Busy, Stored

LEMMA AtRest ==
  ASSUME HistoryInv, loads > 0, ~Busy, ~outOfStep
  PROVE  Listed(entries, Kept)
<1>1. answers = <<>> /\ removing = {} /\ clearing = "no" /\ Stored = {}
  BY BusyIs
<1>2. ~Loading
  <2>1. Len(<<Newest(table, Retained)>>) = 1 /\ Len(<<>>) = 0
    OBVIOUS
  <2> QED
    BY <1>1, <2>1 DEF Loading
<1>3. ~Inserting /\ ~Deleting /\ ~Clearing
  BY <1>1 DEF Inserting, Deleting, Clearing
<1> QED
  BY <1>2, <1>3 DEF HistoryInv, PanelInStep, Resting

LEMMA NewestRange ==
  ASSUME NEW s, s \subseteq Nat, IsFiniteSet(s), NEW n \in Nat
  PROVE  /\ Range(Newest(s, n)) \subseteq s /\ IsFiniteSet(Range(Newest(s, n)))
         /\ Cardinality(Range(Newest(s, n))) <= n
<1> DEFINE list == Newest(s, n)
           T == {list[i] : i \in 1..Len(list)}
<1>0. list \in Seq(s) /\ Len(list) <= n
  BY NewestIs
<1> HIDE DEF list
<1>1. list \in Seq(s) /\ Len(list) \in Nat /\ Len(list) <= n /\ list \in [1..Len(list) -> s]
  BY <1>0
<1>2. Range(list) = T
  BY <1>1 DEF Range
<1>3. IsFiniteSet(1..Len(list)) /\ Cardinality(1..Len(list)) = Len(list)
  <2> DEFINE N == Len(list)
  <2>1. N \in Nat
    BY <1>1
  <2> HIDE DEF N
  <2>2. 1 \in Int /\ N \in Int /\ (1 > N => N = 0)
    BY <2>1
  <2>3. IsFiniteSet(1..N) /\ Cardinality(1..N) = IF 1 > N THEN 0 ELSE N - 1 + 1
    BY <2>2, FS_Interval
  <2>4. Cardinality(1..N) = N
    BY <2>2, <2>3
  <2> QED
    BY <2>3, <2>4 DEF N
<1>4. list \in Surjection(1..Len(list), T)
  BY <1>1 DEF Surjection
<1>5. T \subseteq s
  BY <1>1
<1> HIDE DEF T
<1>6. IsFiniteSet(T) /\ Cardinality(T) <= Len(list) /\ Cardinality(T) \in Nat
  BY <1>3, <1>4, FS_Surjection, FS_CardinalityType
<1>7. Cardinality(T) <= n
  BY <1>1, <1>6
<1> QED
  BY <1>2, <1>5, <1>6, <1>7 DEF list

LEMMA HistoryInvInit == HistoryInit => HistoryInv
<1> SUFFICES ASSUME HistoryInit PROVE HistoryInv
  OBVIOUS
<1>1. IsFiniteSet({}) /\ Cardinality({}) = 0
  BY FS_EmptySet
<1>2. HistoryTyping
  <2>1. table \subseteq Entries /\ IsFiniteSet(table) /\ Cardinality(table) <= Retained
    BY <1>1, HistoryAssumption DEF HistoryInit
  <2>2. table = {} /\ trimmed = {} /\ removing = {} /\ outOfStep = FALSE /\ persisted = [e \in Entries |-> "none"]
    BY DEF HistoryInit
  <2> QED
    BY <1>1, <2>1, <2>2 DEF HistoryTyping, Kept
<1>3. PanelInStep
  BY DEF HistoryInit, PanelInStep
<1> QED
  BY <1>2, <1>3 DEF HistoryInv

LEMMA InsertKeeps ==
  ASSUME HistoryInv, NEW e \in Entries, Insert(e)
  PROVE  HistoryInv'
<1> DEFINE s == table \cup {e}
<1>1. s \subseteq Nat /\ s \subseteq Entries /\ IsFiniteSet(s) /\ Retained \in Nat /\ e \notin Kept
  BY HistoryAssumption, FS_AddElement DEF HistoryInv, HistoryTyping, Insert
<1>2. Range(Newest(s, Retained)) \subseteq s /\ IsFiniteSet(table') /\ Cardinality(table') <= Retained /\ table' \subseteq s
  BY <1>1, NewestRange DEF Insert
<1>3. /\ persisted' = [persisted EXCEPT ![e] = "stored"] /\ persisted \in [Entries -> {"none", "stored", "notified", "failed"}]
      /\ persisted[e] = "none"
  BY DEF Insert, HistoryInv, HistoryTyping
<1>4. trimmed' = trimmed \cup (s \ table') /\ trimmed \subseteq Entries /\ IsFiniteSet(trimmed)
  BY DEF Insert, HistoryInv, HistoryTyping
<1> HIDE DEF s
<1>5. trimmed' \subseteq Entries /\ IsFiniteSet(trimmed')
  <2>1. IsFiniteSet(s \ table')
    BY <1>1, FS_Subset
  <2> QED
    BY <1>1, <1>4, <2>1, FS_Union
\* What the store drops, the list keeps.
<1>6. Kept' = Kept \cup {e}
  BY <1>2, <1>4 DEF Kept, s
<1>7. HistoryTyping'
  <2>1. \A x \in Kept' : persisted'[x] # "none"
    BY <1>3, <1>6 DEF HistoryInv, HistoryTyping, Kept
  <2>2. outOfStep' \in BOOLEAN /\ removing' \subseteq Entries
    BY DEF Insert, HistoryInv, HistoryTyping
  <2>3. persisted' \in [Entries -> {"none", "stored", "notified", "failed"}]
    BY <1>3
  <2> QED
    BY <1>1, <1>2, <1>5, <2>1, <2>2, <2>3 DEF HistoryTyping
<1>8. ASSUME loads' > 0, ~outOfStep' PROVE Inserting'
  <2>1. loads > 0 /\ ~outOfStep /\ ~Busy /\ \A x \in Kept : ~(x > e)
    BY <1>8 DEF Insert, listVars
  <2>2. Listed(entries, Kept)
    BY <2>1, AtRest
  <2>3. Stored = {} /\ Stored' = {e}
    BY <1>3, <2>1, BusyIs DEF Stored
  <2>4. Kept' \ {e} = Kept
    BY <1>1, <1>6
  <2>5. \A x \in Kept' : x <= e
    <3>1. Kept \subseteq Nat /\ e \in Nat
      BY HistoryAssumption DEF HistoryInv, HistoryTyping, Kept
    <3> QED
      BY <1>6, <2>1, <3>1
  <2>6. answers' = <<>> /\ removing' = {} /\ clearing' = "no" /\ entries' = entries
    BY <2>1, BusyIs DEF Insert
  <2> QED
    BY <1>6, <2>2, <2>3, <2>4, <2>5, <2>6 DEF Inserting
<1> QED
  BY <1>7, <1>8 DEF HistoryInv, PanelInStep

LEMMA InsertFailsKeeps ==
  ASSUME HistoryInv, NEW e \in Entries, InsertFails(e)
  PROVE  HistoryInv'
<1>1. /\ persisted' = [persisted EXCEPT ![e] = "failed"] /\ persisted \in [Entries -> {"none", "stored", "notified", "failed"}]
      /\ persisted[e] = "none"
      /\ UNCHANGED <<table, entries, answers, removing, clearing, loads, trimmed, outOfStep>>
  BY DEF InsertFails, HistoryInv, HistoryTyping
<1>2. Stored' = Stored
  BY <1>1 DEF Stored
<1>3. HistoryTyping' /\ Kept' = Kept
  BY <1>1 DEF HistoryInv, HistoryTyping, Kept
<1>4. (Busy <=> Busy')
  BY <1>1, <1>2 DEF Busy, Stored
<1>5. PanelInStep'
  BY <1>1, <1>2, <1>3, <1>4 DEF HistoryInv, PanelInStep, Resting, Loading, Inserting, Deleting, Clearing
<1> QED
  BY <1>3, <1>5 DEF HistoryInv

LEMMA NotifyKeeps ==
  ASSUME HistoryInv, NEW e \in Entries, Notify(e)
  PROVE  HistoryInv'
<1>1. /\ persisted' = [persisted EXCEPT ![e] = "notified"] /\ persisted \in [Entries -> {"none", "stored", "notified", "failed"}]
      /\ persisted[e] = "stored"
      /\ UNCHANGED <<table, answers, removing, clearing, loads, trimmed, outOfStep>>
  BY DEF Notify, HistoryInv, HistoryTyping
<1>2. e \in Stored /\ Stored' = Stored \ {e}
  BY <1>1 DEF Stored
<1>3. HistoryTyping' /\ Kept' = Kept
  BY <1>1 DEF HistoryInv, HistoryTyping, Kept
<1>4. ASSUME loads' > 0, ~outOfStep' PROVE Resting'
  <2>1. Inserting
    BY <1>1, <1>2, <1>4, BusyIs DEF HistoryInv, PanelInStep, Resting, Loading, Deleting, Clearing
  <2>2. Stored = {e} /\ Listed(entries, Kept \ {e}) /\ e \in Kept /\ \A x \in Kept : x <= e
    BY <1>2, <2>1 DEF Inserting
  <2>3. e \in Nat /\ Kept \subseteq Nat /\ \A x \in Kept \ {e} : x < e
    BY <2>2, HistoryAssumption DEF HistoryInv, HistoryTyping, Kept
  <2>4. entries' = <<e>> \o entries
    BY <1>1, <1>4 DEF Notify
  <2>5. Listed(entries', (Kept \ {e}) \cup {e})
    BY <2>2, <2>3, <2>4, FrontListed
  <2>6. (Kept \ {e}) \cup {e} = Kept'
    BY <1>3, <2>2
  <2>7. ~Busy'
    <3>1. answers' = <<>> /\ removing' = {} /\ clearing' = "no" /\ Stored' = {}
      BY <1>1, <1>2, <2>1, <2>2 DEF Inserting
    <3> QED
      BY <3>1 DEF Busy, Stored
  <2> QED
    BY <2>5, <2>6, <2>7 DEF Resting
<1> QED
  BY <1>3, <1>4 DEF HistoryInv, PanelInStep

LEMMA LoadKeeps ==
  ASSUME HistoryInv, Load
  PROVE  HistoryInv'
<1>1. HistoryTyping'
  <2>1. outOfStep' \in BOOLEAN
    BY DEF Load, Busy
  <2>2. trimmed' = {} /\ IsFiniteSet({}) /\ Kept' \subseteq Kept
    BY FS_EmptySet DEF Load, Kept
  <2> QED
    BY <2>1, <2>2 DEF Load, HistoryInv, HistoryTyping
<1>2. ASSUME ~outOfStep' PROVE Loading'
  <2>1. ~Busy
    BY <1>2 DEF Load
  <2>2. answers = <<>> /\ trimmed' = {} /\ removing' = {} /\ clearing' = "no" /\ Stored' = {} /\ table' = table
    BY <2>1, BusyIs DEF Load, Stored
  <2>3. answers' = <<Newest(table, Retained)>>
    BY <2>2 DEF Load
  <2>4. Newest(table', Retained) = Newest(table, Retained)
    BY <2>2
  <2> QED
    BY <2>2, <2>3, <2>4 DEF Loading
<1> QED
  BY <1>1, <1>2 DEF HistoryInv, PanelInStep

LEMMA TakeAnswerKeeps ==
  ASSUME HistoryInv, TakeAnswer
  PROVE  HistoryInv'
<1>1. HistoryTyping'
  BY DEF TakeAnswer, HistoryInv, HistoryTyping, Kept
<1>2. ASSUME loads' > 0, ~outOfStep' PROVE Resting'
  <2>1. Loading
    BY <1>2, BusyIs DEF TakeAnswer, HistoryInv, PanelInStep, Resting, Inserting, Deleting, Clearing
  <2>2. entries' = Newest(table, Retained) /\ answers' = <<>>
    BY <2>1 DEF TakeAnswer, Loading
  <2>3. table \subseteq Nat /\ IsFiniteSet(table) /\ Retained \in Nat /\ Cardinality(table) <= Retained
    BY HistoryAssumption DEF HistoryInv, HistoryTyping
  <2>4. Listed(entries', Kept')
    <3>1. Kept' = table
      BY <2>1 DEF TakeAnswer, Loading, Kept
    <3> QED
      BY <2>2, <2>3, <3>1, NewestIs
  <2>5. ~Busy'
    <3>1. removing' = {} /\ clearing' = "no" /\ Stored' = {}
      BY <2>1 DEF TakeAnswer, Loading, Stored
    <3> QED
      BY <2>2, <3>1 DEF Busy, Stored
  <2> QED
    BY <2>4, <2>5 DEF Resting
<1> QED
  BY <1>1, <1>2 DEF HistoryInv, PanelInStep

LEMMA DeleteRowKeeps ==
  ASSUME HistoryInv, NEW e \in Entries, DeleteRow(e)
  PROVE  HistoryInv'
<1>1. HistoryTyping'
  <2>1. outOfStep' \in BOOLEAN /\ removing' \subseteq Entries
    BY DEF DeleteRow, Busy, HistoryInv, HistoryTyping
  <2>2. trimmed' \subseteq trimmed /\ IsFiniteSet(trimmed') /\ Kept' \subseteq Kept
    BY FS_Subset DEF DeleteRow, HistoryInv, HistoryTyping, Kept
  <2> QED
    BY <2>1, <2>2 DEF DeleteRow, HistoryInv, HistoryTyping
<1>2. ASSUME loads' > 0, ~outOfStep' PROVE Deleting'
  <2>1. loads > 0 /\ ~outOfStep /\ ~Busy
    BY <1>2 DEF DeleteRow
  <2>2. Listed(entries, Kept)
    BY <2>1, AtRest
  <2>3. Listed(entries', Kept' \ {e}) /\ e \notin trimmed'
    <3>1. Listed(entries', Kept \ {e})
      BY <2>2, WithoutListed DEF DeleteRow
    <3>2. Kept' \ {e} = Kept \ {e} /\ e \notin trimmed'
      BY DEF DeleteRow, Kept
    <3> QED
      BY <3>1, <3>2
  <2>4. answers' = <<>> /\ clearing' = "no" /\ Stored' = {} /\ removing' = {e}
    BY <2>1, BusyIs DEF DeleteRow, Stored
  <2> QED
    BY <2>3, <2>4 DEF Deleting
<1> QED
  BY <1>1, <1>2 DEF HistoryInv, PanelInStep

LEMMA DeleteStoredKeeps ==
  ASSUME HistoryInv, NEW e \in Entries, NEW fails \in BOOLEAN, DeleteStored(e, fails)
  PROVE  HistoryInv'
<1>1. HistoryTyping'
  <2>1. IsFiniteSet(table') /\ Cardinality(table') <= Retained /\ table' \subseteq table
    <3>1. table' \subseteq table /\ IsFiniteSet(table) /\ Cardinality(table) <= Retained
      BY DEF DeleteStored, HistoryInv, HistoryTyping
    <3>2. IsFiniteSet(table') /\ Cardinality(table') <= Cardinality(table)
      BY <3>1, FS_Subset
    <3>3. Cardinality(table') \in Nat /\ Cardinality(table) \in Nat /\ Retained \in Nat
      BY <3>1, <3>2, FS_CardinalityType, HistoryAssumption
    <3> QED
      BY <3>1, <3>2, <3>3
  <2>2. outOfStep' \in BOOLEAN /\ removing' \subseteq Entries
    BY DEF DeleteStored, HistoryInv, HistoryTyping
  <2>3. Kept' \subseteq Kept
    BY <2>1 DEF DeleteStored, Kept
  <2> QED
    BY <2>1, <2>2, <2>3 DEF DeleteStored, HistoryInv, HistoryTyping
<1>2. ASSUME loads' > 0, ~outOfStep' PROVE Resting'
  <2>1. loads > 0 /\ ~outOfStep /\ ~fails /\ e \in removing
    BY <1>2 DEF DeleteStored
  <2>2. Deleting
    BY <2>1, BusyIs DEF HistoryInv, PanelInStep, Resting, Loading, Inserting, Clearing
  <2>3. removing = {e} /\ e \notin trimmed /\ Listed(entries, Kept \ {e})
    BY <2>1, <2>2 DEF Deleting
  <2>4. Listed(entries', Kept')
    <3>1. Kept' = Kept \ {e} /\ entries' = entries
      BY <2>1, <2>3 DEF DeleteStored, Kept
    <3> QED
      BY <2>3, <3>1
  <2>5. ~Busy'
    <3>1. answers' = <<>> /\ removing' = {} /\ clearing' = "no" /\ Stored' = {}
      BY <2>2, <2>3 DEF DeleteStored, Deleting, Stored
    <3> QED
      BY <3>1 DEF Busy, Stored
  <2> QED
    BY <2>4, <2>5 DEF Resting
<1> QED
  BY <1>1, <1>2 DEF HistoryInv, PanelInStep

LEMMA ClearKeeps ==
  ASSUME HistoryInv, ClearTable \/ ClearList
  PROVE  HistoryInv'
<1>1. IsFiniteSet({}) /\ Cardinality({}) = 0
  BY FS_EmptySet
<1>2. CASE ClearTable
  <2>1. HistoryTyping'
    <3>1. Cardinality(table') <= Retained /\ IsFiniteSet(table') /\ table' = {}
      BY <1>1, <1>2, HistoryAssumption DEF ClearTable
    <3>2. outOfStep' \in BOOLEAN
      BY <1>2 DEF ClearTable, Busy, HistoryInv, HistoryTyping
    <3>3. Kept' \subseteq Kept
      BY <1>2 DEF ClearTable, Kept
    <3> QED
      BY <1>2, <3>1, <3>2, <3>3 DEF ClearTable, HistoryInv, HistoryTyping
  <2>2. ASSUME ~outOfStep' PROVE Clearing'
    <3>1. ~Busy
      BY <1>2, <2>2 DEF ClearTable
    <3> QED
      BY <1>2, <3>1, BusyIs DEF ClearTable, Clearing, Stored
  <2> QED
    BY <2>1, <2>2 DEF HistoryInv, PanelInStep
<1>3. CASE ClearList
  <2>1. HistoryTyping'
    <3>1. trimmed' = {} /\ Kept' \subseteq Kept
      BY <1>3 DEF ClearList, Kept
    <3> QED
      BY <1>1, <1>3, <3>1 DEF ClearList, HistoryInv, HistoryTyping
  <2>2. ASSUME loads' > 0, ~outOfStep' PROVE Resting'
    <3>1. Clearing
      BY <1>3, <2>2, BusyIs DEF ClearList, HistoryInv, PanelInStep, Resting, Loading, Inserting, Deleting
    <3>2. Listed(<<>>, {})
      BY DEF Listed
    <3>3. answers' = <<>> /\ removing' = {} /\ clearing' = "no" /\ Stored' = {}
      BY <1>3, <3>1 DEF ClearList, Clearing, Stored
    <3>4. ~Busy'
      BY <3>3 DEF Busy, Stored
    <3>5. Kept' = {} /\ entries' = <<>>
      BY <1>3, <3>1 DEF ClearList, Clearing, Kept
    <3> QED
      BY <3>2, <3>4, <3>5 DEF Resting
  <2> QED
    BY <2>1, <2>2 DEF HistoryInv, PanelInStep
<1> QED
  BY <1>2, <1>3

LEMMA ListUntouched ==
  ASSUME HistoryInv, UNCHANGED listVars
  PROVE  HistoryInv'
  BY DEF listVars, HistoryInv, HistoryTyping, PanelInStep, Resting, Loading, Inserting, Deleting, Clearing, Busy, Stored, Kept

LEMMA HistoryInvStep == HistoryInv /\ [HistoryNext]_historyPanelVars => HistoryInv'
<1> SUFFICES ASSUME HistoryInv, [HistoryNext]_historyPanelVars PROVE HistoryInv'
  OBVIOUS
<1>1. ASSUME NEW e \in Entries, CancelReinject(e) \/ \E t \in Loops : Reinject(t, e) PROVE UNCHANGED listVars
  BY <1>1 DEF CancelReinject, Reinject
<1>2. ASSUME NEW t \in Loops,
             \/ CountdownBroken(t) \/ CountDown(t) \/ Blocked(t) \/ BeginInjection(t)
             \/ EndInjection(t) \/ EndAfterFailure(t) \/ ReinjectEnds(t)
      PROVE  UNCHANGED listVars
  BY <1>2 DEF CountdownBroken, CountDown, Blocked, BeginInjection, EndInjection, EndAfterFailure, ReinjectEnds
<1>3. UNCHANGED historyPanelVars => UNCHANGED listVars
  BY DEF historyPanelVars
<1> QED
  BY <1>1, <1>2, <1>3, ListUntouched, InsertKeeps, InsertFailsKeeps, NotifyKeeps, LoadKeeps, TakeAnswerKeeps, DeleteRowKeeps,
     DeleteStoredKeeps, ClearKeeps DEF HistoryNext

\* At rest the list that the popover shows is what the table holds and, behind that, what retention has dropped from it since the
\* list was asked for, newest first, for every set of entries and every limit; unless since then two of insert, load, delete and
\* clear overlapped, an entry was stored after a later one, or a deletion failed in the store (HistoryViewModel: loadHistory,
\* appendEntry, deleteEntry, clearAll; HistoryStore: insert, fetchRecent).
THEOREM ListShowsTable == HistorySpec => []ListIsTable
<1>1. HistoryInv => ListIsTable
  <2> SUFFICES ASSUME HistoryInv, loads > 0, ~Busy, ~outOfStep PROVE entries = Newest(Kept, Cardinality(Kept))
    BY DEF ListIsTable
  <2>1. Listed(entries, Kept)
    BY AtRest
  <2>2. Cardinality(Kept) \in Nat
    BY FS_Union, FS_CardinalityType DEF HistoryInv, HistoryTyping, Kept
  <2>3. Cardinality(Kept) <= Cardinality(Kept)
    BY <2>2
  <2> QED
    BY <2>1, <2>2, <2>3, ListedIsNewest
<1> QED
  BY <1>1, HistoryInvInit, HistoryInvStep, PTL DEF HistorySpec
=============================================================================
