---------------------------- MODULE Models_proofs ----------------------------
(* Proofs about the two actors around a model: WhisperBridge, for every number of calls, of model files and of contexts,   *)
(* and LlamaCppProvider, for every number of cleanups and every size of its memory.                                       *)
EXTENDS WhisperBridge, LlamaCppProvider, SequenceTheorems, TLAPS

\* The contexts and the actor's own. The last conjunct is why resetContext must drop the context it frees: a context that
\* outlived the selection would be handed to the next call.
ActorInv ==
  /\ modelFileName \in Files
  /\ loaded \in Seq(Files)
  /\ freed \in Seq(Nat) /\ Len(freed) = Len(loaded)
  /\ context \in {NoContext} \cup Contexts
  /\ FreedOnce
  /\ context # NoContext => loaded[context] = modelFileName

CallInv ==
  /\ call \in [Calls -> {"idle", "waiting", "returned"}]
  /\ uses \in [Calls -> Nat]
  /\ inference \in [Calls -> {"none", "queued", "running", "ended"}]
  /\ \A c \in AtWork \ overtaken : uses[c] = context /\ context # NoContext

WhisperInv == ActorInv /\ CallInv

LEMMA InitInv == WhisperInit => WhisperInv
<1>1. ASSUME WhisperInit PROVE Len(loaded) = 0 /\ loaded = <<>> /\ freed = <<>>
  BY <1>1 DEF WhisperInit
<1>2. ASSUME WhisperInit PROVE ActorInv
  BY <1>1, <1>2, EmptySeq DEF WhisperInit, ActorInv, FreedOnce, Contexts, NoContext
<1>3. ASSUME WhisperInit PROVE CallInv
  BY <1>3 DEF WhisperInit, CallInv, AtWork, NoContext
<1>4. QED
  BY <1>2, <1>3 DEF WhisperInv

\* A context that is there stays the actor's own.
KeepsContext == context # NoContext => context' = context

LEMMA LoadKeeps ==
  ASSUME WhisperInv, NEW got, Loads(got), modelFileName' = modelFileName
  PROVE ActorInv' /\ KeepsContext /\ got = context' /\ got # NoContext
<1>1. CASE got = context /\ UNCHANGED <<context, loaded, freed>>
  <2>1. ActorInv'
    BY <1>1 DEF WhisperInv, ActorInv, FreedOnce, Contexts
  <2>2. QED
    BY <1>1, <2>1 DEF KeepsContext, Loads
<1>2. CASE context = NoContext /\ got = Len(loaded) + 1 /\ context' = got
           /\ loaded' = Append(loaded, modelFileName) /\ freed' = Append(freed, 0)
  <2>1. loaded' \in Seq(Files) /\ Len(loaded') = Len(loaded) + 1
        /\ loaded'[Len(loaded) + 1] = modelFileName /\ \A k \in 1..Len(loaded) : loaded'[k] = loaded[k]
    BY <1>2, AppendProperties DEF WhisperInv, ActorInv
  <2>2. freed' \in Seq(Nat) /\ Len(freed') = Len(loaded) + 1
        /\ freed'[Len(loaded) + 1] = 0 /\ \A k \in 1..Len(loaded) : freed'[k] = freed[k]
    BY <1>2, AppendProperties DEF WhisperInv, ActorInv
  <2>3. Len(loaded) \in Nat
    BY DEF WhisperInv, ActorInv
  <2>4. FreedOnce'
    <3>1. ASSUME NEW k \in 1..Len(loaded) + 1 PROVE freed'[k] = IF k = context' THEN 0 ELSE 1
      <4>1. CASE k = Len(loaded) + 1
        BY <1>2, <2>2, <4>1
      <4>2. CASE k \in 1..Len(loaded)
        <5>1. k # context' /\ k # context
          BY <1>2, <2>3, <4>2 DEF NoContext
        <5>2. freed[k] = 1
          BY <4>2, <5>1 DEF WhisperInv, ActorInv, FreedOnce, Contexts
        <5>3. QED
          BY <2>2, <4>2, <5>1, <5>2
      <4>3. QED
        BY <2>3, <4>1, <4>2
    <3>2. QED
      BY <2>1, <3>1 DEF FreedOnce, Contexts
  <2>5. got \in 1..Len(loaded')
    BY <1>2, <2>1, <2>3
  <2>6. ActorInv'
    BY <1>2, <2>1, <2>2, <2>4, <2>5 DEF WhisperInv, ActorInv, Contexts
  <2>7. QED
    BY <1>2, <2>6 DEF KeepsContext, Loads
<1>3. QED
  BY <1>1, <1>2 DEF Loads

\* Calls that are left alone keep their context.
LEMMA CallsKeep ==
  ASSUME WhisperInv, KeepsContext, UNCHANGED <<call, uses, inference, overtaken>>
  PROVE CallInv'
<1>1. AtWork' = AtWork
  BY DEF AtWork
<1>2. \A c \in AtWork \ overtaken : uses'[c] = context' /\ context' # NoContext
  BY DEF WhisperInv, CallInv, KeepsContext
<1>3. QED
  BY <1>1, <1>2 DEF WhisperInv, CallInv

LEMMA TranscribeInv ==
  ASSUME WhisperInv, NEW c \in Calls, Transcribe(c)
  PROVE WhisperInv'
<1>1. PICK got \in 0..MaxLoads : Loads(got) /\ uses' = [uses EXCEPT ![c] = got]
  BY DEF Transcribe
<1>2. ActorInv' /\ KeepsContext /\ got = context' /\ got # NoContext
  BY <1>1, LoadKeeps DEF Transcribe
<1>3. got \in Nat
  BY <1>1, WhisperAssumption
<1>4. /\ call' = [call EXCEPT ![c] = "waiting"] /\ inference' = [inference EXCEPT ![c] = "queued"]
      /\ overtaken' = overtaken
  BY DEF Transcribe
<1>5. CallInv'
  <2>1. ASSUME NEW d \in AtWork' \ overtaken' PROVE uses'[d] = context'
    <3>1. CASE d = c
      BY <1>1, <1>2, <3>1 DEF AtWork, WhisperInv, CallInv
    <3>2. CASE d # c
      <4>1. d \in AtWork \ overtaken /\ uses'[d] = uses[d]
        BY <1>1, <1>4, <2>1, <3>2 DEF AtWork, WhisperInv, CallInv
      <4>2. QED
        BY <1>2, <4>1 DEF WhisperInv, CallInv, KeepsContext
    <3>3. QED
      BY <3>1, <3>2
  <2>2. QED
    BY <1>1, <1>2, <1>3, <1>4, <2>1 DEF WhisperInv, CallInv
<1>6. QED
  BY <1>2, <1>5 DEF WhisperInv

LEMMA ResetInv ==
  ASSUME WhisperInv, NEW file \in Files, resetContext(file)
  PROVE WhisperInv'
<1>1. /\ context' = NoContext /\ modelFileName' = file /\ loaded' = loaded
      /\ UNCHANGED <<call, uses, inference>> /\ overtaken' = overtaken \cup AtWork
  BY DEF resetContext, callVars
<1>2. freed' \in Seq(Nat) /\ Len(freed') = Len(freed)
      /\ \A k \in Contexts : freed'[k] = 1
  <2>1. CASE context = NoContext
    BY <2>1 DEF resetContext, WhisperInv, ActorInv, FreedOnce, NoContext, Contexts
  <2>2. CASE context \in Contexts
    <3>1. freed' = [freed EXCEPT ![context] = @ + 1]
      BY <2>2 DEF resetContext, NoContext, Contexts
    <3>2. \A k \in 1..Len(freed) : freed[k] \in Nat
      BY DEF WhisperInv, ActorInv
    <3>3. freed' \in Seq(Nat) /\ Len(freed') = Len(freed)
      BY <2>2, <3>1, <3>2 DEF WhisperInv, ActorInv, Contexts
    <3>4. ASSUME NEW k \in Contexts PROVE freed'[k] = 1
      BY <2>2, <3>1, <3>2 DEF WhisperInv, ActorInv, FreedOnce, Contexts
    <3>5. QED
      BY <3>3, <3>4
  <2>3. QED
    BY <2>1, <2>2 DEF WhisperInv, ActorInv
<1>3. ActorInv'
  BY <1>1, <1>2 DEF WhisperInv, ActorInv, FreedOnce, Contexts, NoContext
\* All that are at work are overtaken.
<1>4. CallInv'
  BY <1>1 DEF WhisperInv, CallInv, AtWork
<1>5. QED
  BY <1>3, <1>4 DEF WhisperInv

LEMMA StepInv == WhisperInv /\ [WhisperNext]_whisperVars => WhisperInv'
<1> SUFFICES ASSUME WhisperInv, [WhisperNext]_whisperVars PROVE WhisperInv'
  OBVIOUS
<1>1. ASSUME UNCHANGED <<modelFileName, context, loaded, freed>>, UNCHANGED <<uses, overtaken>>,
             call' \in [Calls -> {"idle", "waiting", "returned"}],
             inference' \in [Calls -> {"none", "queued", "running", "ended"}], AtWork' \subseteq AtWork
      PROVE WhisperInv'
  BY <1>1 DEF WhisperInv, ActorInv, CallInv, FreedOnce, Contexts
<1>2. ASSUME NEW c \in Calls, Transcribe(c) PROVE WhisperInv'
  BY <1>2, TranscribeInv
<1>3. ASSUME NEW c \in Calls, TranscribeThrows(c) \/ TranscribeReturns(c) PROVE WhisperInv'
  <2>1. call' = [call EXCEPT ![c] = "returned"] /\ inference' = inference
    BY <1>3 DEF TranscribeThrows, TranscribeReturns
  <2>2. call' \in [Calls -> {"idle", "waiting", "returned"}] /\ AtWork' = AtWork
    BY <2>1 DEF WhisperInv, CallInv, AtWork
  <2>3. QED
    BY <1>1, <1>3, <2>1, <2>2 DEF TranscribeThrows, TranscribeReturns, actorVars, WhisperInv, CallInv
<1>4. ASSUME UNCHANGED <<actorVars, call, uses, inference, overtaken>> PROVE WhisperInv'
  <2>1. AtWork' = AtWork
    BY <1>4 DEF AtWork
  <2>2. QED
    BY <1>1, <1>4, <2>1 DEF actorVars, WhisperInv, CallInv
<1>5. ASSUME NEW c \in Calls, InferenceStep(c) PROVE WhisperInv'
  <2>1. PICK to \in {"running", "ended"} : inference' = [inference EXCEPT ![c] = to]
    BY <1>5 DEF InferenceStep, BeginInference, EndInference
  <2>2. inference[c] \in {"queued", "running"} /\ UNCHANGED <<actorVars, call, uses, overtaken>>
    BY <1>5 DEF InferenceStep, BeginInference, EndInference
  <2>3. AtWork' \subseteq AtWork /\ inference' \in [Calls -> {"none", "queued", "running", "ended"}]
    BY <2>1, <2>2 DEF WhisperInv, CallInv, AtWork
  <2>4. QED
    BY <1>1, <2>2, <2>3 DEF actorVars, WhisperInv, CallInv
<1>6. ASSUME NEW c \in Calls, NEW why, StopWaiting(c, why) PROVE WhisperInv'
  BY <1>4, <1>6 DEF StopWaiting
<1>7. ASSUME NEW file \in Files, resetContext(file) PROVE WhisperInv'
  BY <1>7, ResetInv
<1>8. ASSUME NEW got, Loads(got), modelFileName' = modelFileName, UNCHANGED <<overtaken, callVars>> PROVE WhisperInv'
  <2>1. ActorInv' /\ KeepsContext
    BY <1>8, LoadKeeps
  <2>2. QED
    BY <1>8, <2>1, CallsKeep DEF WhisperInv, callVars
<1>9. CASE warmUpWhisper
  BY <1>8, <1>9 DEF warmUpWhisper
<1>10. CASE isMultilingual
  BY <1>8, <1>10 DEF isMultilingual
<1>11. CASE WarmedUp
  BY <1>11, CallsKeep DEF WarmedUp, callVars, WhisperInv, ActorInv, KeepsContext, FreedOnce, Contexts
<1>12. CASE UNCHANGED whisperVars
  BY <1>4, <1>12 DEF whisperVars, actorVars
<1>13. QED
  BY <1>2, <1>3, <1>5, <1>6, <1>7, <1>9, <1>10, <1>11, <1>12 DEF WhisperNext

THEOREM WhisperInvariant == WhisperSpec => []WhisperInv
  BY InitInv, StepInv, PTL DEF WhisperSpec

\* No context of whisper.cpp leaks and none is freed twice, however often the model is replaced and whatever inferences are
\* at work. Code: resetContext, loadContextIfNeeded.
THEOREM ContextsFreedOnce == WhisperSpec => []FreedOnce
<1>1. WhisperInv => FreedOnce
  BY DEF WhisperInv, ActorInv
<1>2. QED
  BY <1>1, WhisperInvariant, PTL

\* An inference that no selection overtakes works to its end on the actor's own context, which is of the selected file and not
\* freed, whatever other calls, time limits, cancellations and warm-ups come meanwhile. Code: transcribe, resetContext.
THEOREM SelectedModelUsed == WhisperSpec => []UsesSelectedModel
<1>1. WhisperInv => UsesSelectedModel
  BY DEF WhisperInv, ActorInv, CallInv, FreedOnce, Contexts, NoContext, UsesSelectedModel
<1>2. QED
  BY <1>1, WhisperInvariant, PTL
-------------------------------------------------------------------------------
(* LlamaCppProvider.                                                                                                       *)

LlamaTypes ==
  /\ cleanup \in [Cleanups -> {"idle", "queued", "cleared", "sampling", "completed", "returned"}]
  /\ tokens \in [Cleanups -> 0..MaxPrompt]
  /\ memory \in Seq(Cleanups)
  /\ seen \in [Cleanups -> SUBSET Cleanups]

\* Two completions that are in flight at once both count as overlapped.
AloneInv == \A c, d \in InFlight : c # d => c \in overlapped

\* A completion that was never overlapped has the memory for itself from the moment it has cleared it.
MemoryInv(c) ==
  c \notin overlapped =>
    /\ seen[c] \subseteq {c}
    /\ cleanup[c] \in {"cleared", "sampling"} => Owners(memory) \subseteq {c}

LlamaInv == LlamaTypes /\ AloneInv /\ \A c \in Cleanups : MemoryInv(c)

LEMMA LlamaInitInv == LlamaInit => LlamaInv
<1> SUFFICES ASSUME LlamaInit PROVE LlamaInv
  OBVIOUS
<1>1. memory \in Seq(Cleanups)
  BY EmptySeq DEF LlamaInit
<1>2. LlamaTypes
  BY <1>1, LlamaAssumption DEF LlamaInit, LlamaTypes
<1>3. AloneInv /\ \A c \in Cleanups : MemoryInv(c)
  BY DEF LlamaInit, AloneInv, InFlight, MemoryInv
<1>4. QED
  BY <1>2, <1>3 DEF LlamaInv

\* What decoding adds to the memory is the completion's own.
LEMMA DecodesFacts ==
  ASSUME LlamaInv, NEW c \in Cleanups, NEW n \in Nat, Decodes(c, n)
  PROVE /\ memory' \in Seq(Cleanups)
        /\ Owners(memory') \subseteq Owners(memory) \cup {c}
        /\ Owners(memory) \subseteq Cleanups
        /\ seen' \in [Cleanups -> SUBSET Cleanups]
        /\ seen'[c] = seen[c] \cup Owners(memory) \cup {c}
        /\ \A d \in Cleanups \ {c} : seen'[d] = seen[d]
<1> DEFINE added == [i \in 1..n |-> c]
<1>1. memory \in Seq(Cleanups) /\ seen \in [Cleanups -> SUBSET Cleanups]
  BY DEF LlamaInv, LlamaTypes
<1>2. added \in Seq(Cleanups) /\ Len(added) = n /\ \A i \in 1..n : added[i] = c
  OBVIOUS
<1>3. Owners(memory) \subseteq Cleanups
  BY <1>1 DEF Owners
<1> HIDE DEF added
<1>4. memory' = memory \o added
  BY DEF Decodes, added
<1>5. /\ memory' \in Seq(Cleanups) /\ Len(memory') = Len(memory) + n /\ Len(memory) \in Nat
      /\ \A i \in 1..Len(memory') : memory'[i] = IF i <= Len(memory) THEN memory[i] ELSE added[i - Len(memory)]
  <2>1. /\ memory \o added \in Seq(Cleanups) /\ Len(memory \o added) = Len(memory) + n /\ Len(memory) \in Nat
        /\ \A i \in 1..Len(memory) + n : (memory \o added)[i] = IF i <= Len(memory) THEN memory[i] ELSE added[i - Len(memory)]
    <3>1. /\ memory \o added \in Seq(Cleanups)
          /\ Len(memory \o added) = Len(memory) + Len(added)
          /\ \A i \in 1..Len(memory) + Len(added) :
               (memory \o added)[i] = IF i <= Len(memory) THEN memory[i] ELSE added[i - Len(memory)]
      BY <1>1, <1>2, ConcatProperties, Zenon
    <3>2. Len(memory) \in Nat
      BY <1>1
    <3>3. QED
      BY <1>2, <3>1, <3>2
  <2>2. QED
    BY <1>4, <2>1
<1>6. ASSUME NEW i \in 1..Len(memory') PROVE memory'[i] \in Owners(memory) \cup {c}
  <2>1. CASE i <= Len(memory)
    BY <1>5, <2>1 DEF Owners
  <2>2. CASE ~(i <= Len(memory))
    BY <1>2, <1>5, <2>2
  <2>3. QED
    BY <2>1, <2>2
<1>7. QED
  BY <1>1, <1>3, <1>5, <1>6 DEF Decodes, Owners

\* A completion goes on, with or without adding to the memory, or ends.
LEMMA CompletionKeeps ==
  ASSUME LlamaInv, NEW c \in InFlight,
         NEW p \in {"cleared", "sampling", "completed", "returned"}, cleanup' = [cleanup EXCEPT ![c] = p],
         UNCHANGED <<tokens, overlapped>>,
         \/ UNCHANGED <<memory, seen>> /\ (p = "cleared" => cleanup[c] = "cleared") /\ (p = "sampling" => cleanup[c] = "sampling")
         \/ memory' = <<>> /\ UNCHANGED seen
         \/ cleanup[c] \in {"cleared", "sampling"} /\ \E n \in Nat : Decodes(c, n)
  PROVE LlamaInv'
<1>1. c \in Cleanups /\ cleanup[c] \notin {"idle", "returned"}
  BY DEF InFlight
<1>2. /\ cleanup' \in [Cleanups -> {"idle", "queued", "cleared", "sampling", "completed", "returned"}]
      /\ cleanup'[c] = p /\ \A d \in Cleanups \ {c} : cleanup'[d] = cleanup[d]
  BY <1>1 DEF LlamaInv, LlamaTypes
<1>3. AloneInv'
  BY <1>1, <1>2 DEF LlamaInv, AloneInv, InFlight
<1>4. \A d \in Cleanups \ {c} : cleanup[d] \in {"cleared", "sampling"} => d \in overlapped
  BY <1>1 DEF LlamaInv, AloneInv, InFlight
<1>5. CASE UNCHANGED <<memory, seen>> /\ (p = "cleared" => cleanup[c] = "cleared") /\ (p = "sampling" => cleanup[c] = "sampling")
  BY <1>1, <1>2, <1>3, <1>5 DEF LlamaInv, LlamaTypes, MemoryInv
<1>6. CASE memory' = <<>> /\ UNCHANGED seen
  <2>1. memory' \in Seq(Cleanups) /\ Owners(memory') = {}
    BY <1>6, EmptySeq DEF Owners
  <2>2. QED
    BY <1>2, <1>3, <1>6, <2>1 DEF LlamaInv, LlamaTypes, MemoryInv
<1>7. CASE cleanup[c] \in {"cleared", "sampling"} /\ \E n \in Nat : Decodes(c, n)
  <2>1. PICK n \in Nat : Decodes(c, n)
    BY <1>7
  <2>2. /\ memory' \in Seq(Cleanups)
        /\ Owners(memory') \subseteq Owners(memory) \cup {c}
        /\ seen' \in [Cleanups -> SUBSET Cleanups]
        /\ seen'[c] = seen[c] \cup Owners(memory) \cup {c}
        /\ \A d \in Cleanups \ {c} : seen'[d] = seen[d]
    BY <1>1, <2>1, DecodesFacts
  <2>3. ASSUME NEW d \in Cleanups PROVE MemoryInv(d)'
    <3>1. MemoryInv(d)
      BY DEF LlamaInv
    <3>2. CASE d = c
      BY <1>7, <2>2, <3>1, <3>2 DEF MemoryInv
    <3>3. CASE d # c
      BY <1>2, <1>4, <2>2, <3>1, <3>3 DEF MemoryInv
    <3>4. QED
      BY <3>2, <3>3
  <2>4. QED
    BY <1>2, <1>3, <2>2, <2>3 DEF LlamaInv, LlamaTypes
<1>8. QED
  BY <1>5, <1>6, <1>7

LEMMA CleanupStarts ==
  ASSUME LlamaInv, NEW c \in Cleanups, NEW n \in 1..MaxPrompt, Cleanup(c, n)
  PROVE LlamaInv'
<1>1. /\ cleanup[c] = "idle" /\ cleanup' = [cleanup EXCEPT ![c] = "queued"] /\ tokens' = [tokens EXCEPT ![c] = n]
      /\ overlapped' = IF InFlight = {} THEN overlapped ELSE overlapped \cup InFlight \cup {c}
      /\ UNCHANGED <<memory, seen>>
  BY DEF Cleanup
<1>2. n \in 0..MaxPrompt
  BY LlamaAssumption
<1>3. LlamaTypes'
  BY <1>1, <1>2 DEF LlamaInv, LlamaTypes
<1>4. cleanup'[c] = "queued" /\ \A d \in Cleanups \ {c} : cleanup'[d] = cleanup[d]
  BY <1>1 DEF LlamaInv, LlamaTypes
<1>5. InFlight' = InFlight \cup {c}
  BY <1>1, <1>4 DEF InFlight
<1>6. AloneInv'
  BY <1>1, <1>5 DEF AloneInv
<1>7. \A d \in Cleanups : MemoryInv(d)'
  BY <1>1, <1>4 DEF LlamaInv, MemoryInv
<1>8. QED
  BY <1>3, <1>6, <1>7 DEF LlamaInv

LEMMA LlamaStepInv == LlamaInv /\ [LlamaNext]_llamaVars => LlamaInv'
<1> SUFFICES ASSUME LlamaInv, [LlamaNext]_llamaVars PROVE LlamaInv'
  OBVIOUS
<1>1. CASE UNCHANGED <<cleanup, tokens, memory, seen, overlapped>>
  BY <1>1 DEF LlamaInv, LlamaTypes, AloneInv, InFlight, MemoryInv
<1>2. ASSUME NEW c \in Cleanups, PassThrough(c) PROVE LlamaInv'
  BY <1>2 DEF PassThrough, Returns, LlamaInv, LlamaTypes, AloneInv, InFlight, MemoryInv
<1>3. ASSUME NEW c \in Cleanups, ClearMemory(c) PROVE LlamaInv'
  BY <1>3, CompletionKeeps DEF ClearMemory, InFlight
<1>4. ASSUME NEW c \in Cleanups, DecodePrompt(c) PROVE LlamaInv'
  <2>1. c \in InFlight /\ cleanup[c] = "cleared" /\ UNCHANGED <<tokens, overlapped>> /\ tokens[c] \in Nat
    BY <1>4, LlamaAssumption DEF DecodePrompt, InFlight, LlamaInv, LlamaTypes
  <2>2. CASE UNCHANGED <<memory, seen, cleanup>>
    BY <1>1, <2>1, <2>2
  <2>3. CASE Decodes(c, tokens[c]) /\ cleanup' = [cleanup EXCEPT ![c] = "sampling"]
    BY <2>1, <2>3, CompletionKeeps
  <2>4. CASE Completes(c) /\ UNCHANGED <<memory, seen>>
    BY <2>1, <2>4, CompletionKeeps DEF Completes
  <2>5. QED
    BY <1>4, <2>2, <2>3, <2>4 DEF DecodePrompt
<1>5. ASSUME NEW c \in Cleanups, Sample(c) PROVE LlamaInv'
  <2>1. c \in InFlight /\ cleanup[c] = "sampling" /\ UNCHANGED <<tokens, overlapped>> /\ 1 \in Nat
    BY <1>5 DEF Sample, InFlight
  <2>2. CASE Decodes(c, 1) /\ UNCHANGED cleanup
    <3>1. cleanup' = [cleanup EXCEPT ![c] = "sampling"]
      BY <2>1, <2>2 DEF LlamaInv, LlamaTypes
    <3>2. QED
      BY <2>1, <2>2, <3>1, CompletionKeeps
  <2>3. CASE Completes(c) /\ UNCHANGED <<memory, seen>>
    BY <2>1, <2>3, CompletionKeeps DEF Completes
  <2>4. QED
    BY <1>5, <2>2, <2>3 DEF Sample
<1>6. ASSUME NEW c \in Cleanups, EndOfGeneration(c) \/ LimitReached(c) PROVE LlamaInv'
  BY <1>6, CompletionKeeps DEF EndOfGeneration, LimitReached, Completes, InFlight
<1>7. ASSUME NEW c \in Cleanups, CleanupReturns(c) PROVE LlamaInv'
  <2>1. c \in InFlight /\ cleanup' = [cleanup EXCEPT ![c] = "returned"] /\ UNCHANGED <<tokens, memory, seen, overlapped>>
    BY <1>7 DEF CleanupReturns, Returns, InFlight
  <2>2. QED
    BY <2>1, CompletionKeeps
<1>8. CASE ModelFileChanges \/ warmUp \/ UNCHANGED llamaVars
  BY <1>1, <1>8 DEF ModelFileChanges, warmUp, llamaVars
<1>9. QED
  BY <1>2, <1>3, <1>4, <1>5, <1>6, <1>7, <1>8, CleanupStarts DEF LlamaNext, Completion

THEOREM LlamaInvariant == LlamaSpec => []LlamaInv
  BY LlamaInitInv, LlamaStepInv, PTL DEF LlamaSpec

\* However completions end, also on a memory that is full, and whatever is warmed up, deleted or downloaded: what a later
\* one is computed from is its own prompt, unless two ran at once. Code: llama_bridge_complete.
THEOREM PromptsApart == LlamaSpec => []OwnPromptOnly
<1>1. LlamaInv => OwnPromptOnly
  BY DEF LlamaInv, MemoryInv, OwnPromptOnly
<1>2. QED
  BY <1>1, LlamaInvariant, PTL
===============================================================================
