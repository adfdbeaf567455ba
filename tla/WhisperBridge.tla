---------------------------- MODULE WhisperBridge ----------------------------
(* The actor around whisper.cpp: one lazily loaded context, replaced when another model is selected. Its calls run one at  *)
(* a time on the actor, but an inference runs on a global queue, with the bare pointer, while the actor takes other calls. *)
EXTENDS Integers, Sequences

CONSTANTS
  Calls,     \* calls of transcribe
  Files,     \* model files
  MaxLoads   \* bound: contexts created

ASSUME WhisperAssumption == Files # {} /\ MaxLoads \in Nat

VARIABLES
  modelFileName,
  context,     \* the actor's context, or NoContext
  loaded,      \* history: the file of every context created, in order; a context is its place here
  freed,       \* history: per context, how often it was freed
  warming,     \* the context that warmUpWhisper works on while it keeps the actor, or NoContext
  call,        \* per call: "idle", "waiting" for its task group, "returned"
  uses,        \* per call: the context whose pointer it took
  inference,   \* per call: what its task on the global queue is at
  outcome,     \* per call: what the task group gave first
  overtaken    \* history: the calls whose inference was still to end when a model was selected

whisperVars == <<modelFileName, context, loaded, freed, warming, call, uses, inference, outcome, overtaken>>
actorVars == <<modelFileName, context, loaded, freed, warming>>
callVars == <<call, uses, inference, outcome>>

NoContext == 0
Contexts == 1..Len(loaded)

WhisperInit ==
  /\ modelFileName \in Files
  /\ context = NoContext
  /\ loaded = <<>>
  /\ freed = <<>>
  /\ warming = NoContext
  /\ call = [c \in Calls |-> "idle"]
  /\ uses = [c \in Calls |-> NoContext]
  /\ inference = [c \in Calls |-> "none"]
  /\ outcome = [c \in Calls |-> "none"]
  /\ overtaken = {}

\* warmUpWhisper runs its inference on the actor itself: nothing else gets in.
ActorFree == warming = NoContext

\* loadContextIfNeeded, returning ctx.
Loads(ctx) ==
  /\ ctx # NoContext
  /\ \/ /\ ctx = context
        /\ UNCHANGED <<context, loaded, freed>>
     \/ /\ context = NoContext
        /\ Len(loaded) < MaxLoads
        /\ ctx = Len(loaded) + 1
        /\ context' = ctx
        /\ loaded' = Append(loaded, modelFileName)
        /\ freed' = Append(freed, 0)

\* transcribe up to the first await: both children of the task group are started.
Transcribe(c) ==
  /\ ActorFree
  /\ call[c] = "idle"
  /\ \E ctx \in 0..MaxLoads :
       /\ Loads(ctx)
       /\ uses' = [uses EXCEPT ![c] = ctx]
  /\ call' = [call EXCEPT ![c] = "waiting"]
  /\ inference' = [inference EXCEPT ![c] = "queued"]
  /\ UNCHANGED <<modelFileName, warming, outcome, overtaken>>

\* No samples, no file, or a file that does not load.
TranscribeThrows(c) ==
  /\ ActorFree
  /\ call[c] = "idle"
  /\ call' = [call EXCEPT ![c] = "returned"]
  /\ outcome' = [outcome EXCEPT ![c] = "threw"]
  /\ UNCHANGED <<actorVars, uses, inference, overtaken>>

BeginInference(c) ==
  /\ inference[c] = "queued"
  /\ inference' = [inference EXCEPT ![c] = "running"]
  /\ UNCHANGED <<actorVars, call, uses, outcome, overtaken>>

First(c, result) == outcome' = [outcome EXCEPT ![c] = IF @ = "none" THEN result ELSE @]

FaultyEndInference(c, result) ==
  /\ inference[c] = "running"
  /\ inference' = [inference EXCEPT ![c] = IF result = "empty" THEN "lost" ELSE "ended"]
  /\ First(c, result)
  /\ UNCHANGED <<actorVars, call, uses, overtaken>>

\* The bridge answers with no text when whisper_full fails; the continuation is resumed either way.
EndInference(c, result) ==
  /\ inference[c] = "running"
  /\ inference' = [inference EXCEPT ![c] = "ended"]
  /\ First(c, result)
  /\ UNCHANGED <<actorVars, call, uses, overtaken>>

\* The other child of the group: thirty seconds are over, or the caller's task was cancelled and the sleep throws at once.
StopWaiting(c, why) ==
  /\ call[c] = "waiting"
  /\ outcome[c] = "none"
  /\ outcome' = [outcome EXCEPT ![c] = why]
  /\ UNCHANGED <<actorVars, call, uses, inference, overtaken>>

\* A task group returns or throws when all of its children have ended; the inference ignores cancellation.
TranscribeReturns(c) ==
  /\ ActorFree
  /\ call[c] = "waiting"
  /\ outcome[c] # "none"
  /\ inference[c] = "ended"
  /\ call' = [call EXCEPT ![c] = "returned"]
  /\ UNCHANGED <<actorVars, uses, inference, outcome, overtaken>>

AtWork == {c \in Calls : inference[c] \in {"queued", "running"}}

FaultyResetContext(file) ==
  /\ ActorFree
  /\ freed' = IF context = NoContext THEN freed ELSE [freed EXCEPT ![context] = @ + 1]
  /\ modelFileName' = file
  /\ overtaken' = overtaken \cup AtWork
  /\ UNCHANGED <<context, loaded, warming, callVars>>

FaultyKeepContext(file) ==
  /\ ActorFree
  /\ modelFileName' = file
  /\ overtaken' = overtaken \cup AtWork
  /\ UNCHANGED <<context, loaded, freed, warming, callVars>>

\* Nothing waits for the inferences that are at work on the context.
resetContext(file) ==
  /\ ActorFree
  /\ freed' = IF context = NoContext THEN freed ELSE [freed EXCEPT ![context] = @ + 1]
  /\ context' = NoContext
  /\ modelFileName' = file
  /\ overtaken' = overtaken \cup AtWork
  /\ UNCHANGED <<loaded, warming, callVars>>

warmUpWhisper ==
  /\ ActorFree
  /\ \E ctx \in 0..MaxLoads :
       /\ Loads(ctx)
       /\ warming' = ctx
  /\ UNCHANGED <<modelFileName, overtaken, callVars>>

WarmedUp ==
  /\ warming # NoContext
  /\ warming' = NoContext
  /\ UNCHANGED <<modelFileName, context, loaded, freed, overtaken, callVars>>

\* isMultilingual loads the context as well.
isMultilingual ==
  /\ ActorFree
  /\ \E ctx \in 0..MaxLoads : Loads(ctx)
  /\ UNCHANGED <<modelFileName, warming, overtaken, callVars>>

InferenceStep(c) ==
  \/ BeginInference(c)
  \/ \E result \in {"text", "empty"} : EndInference(c, result)

WhisperNext ==
  \/ \E c \in Calls :
       \/ Transcribe(c) \/ TranscribeThrows(c) \/ InferenceStep(c) \/ TranscribeReturns(c)
       \/ \E why \in {"timeout", "cancelled"} : StopWaiting(c, why)
  \/ \E file \in Files : resetContext(file)
  \/ warmUpWhisper \/ WarmedUp \/ isMultilingual

\* The actor is run when it can be, and its timer fires; nothing is said of how long an inference takes.
ActorRuns ==
  /\ WF_whisperVars(WarmedUp)
  /\ \A c \in Calls :
       /\ SF_whisperVars(TranscribeReturns(c))
       /\ WF_whisperVars(StopWaiting(c, "timeout"))

\* Inferences come to an end.
InferencesEnd == \A c \in Calls : WF_whisperVars(InferenceStep(c))

WhisperSpec == WhisperInit /\ [][WhisperNext]_whisperVars /\ ActorRuns /\ InferencesEnd
HungSpec == WhisperInit /\ [][WhisperNext]_whisperVars /\ ActorRuns
------------------------------------------------------------------------------
WhisperTypeOK ==
  /\ modelFileName \in Files
  /\ loaded \in Seq(Files)
  /\ freed \in Seq(Nat) /\ Len(freed) = Len(loaded)
  /\ context \in {NoContext} \cup Contexts /\ warming \in {NoContext} \cup Contexts
  /\ call \in [Calls -> {"idle", "waiting", "returned"}]
  /\ uses \in [Calls -> {NoContext} \cup Contexts]
  /\ inference \in [Calls -> {"none", "queued", "running", "ended"}]
  /\ outcome \in [Calls -> {"none", "text", "empty", "timeout", "cancelled", "threw"}]
  /\ overtaken \subseteq Calls

\* Every context that was ever loaded is the actor's own or has been freed once: none leaks and none is freed twice.
\* Code: resetContext, loadContextIfNeeded.
FreedOnce == \A ctx \in Contexts : freed[ctx] = IF ctx = context THEN 0 ELSE 1

\* An inference that no selection overtakes works, from the moment it is asked for to its end, on the actor's own context, which
\* is made from the selected file and is not freed, whatever is timed out, cancelled, warmed up or asked for besides. One that a
\* selection overtakes goes on with a context that is freed: see ContextUsedAlone. Code: transcribe, resetContext.
UsesSelectedModel ==
  \A c \in AtWork \ overtaken : uses[c] = context /\ freed[uses[c]] = 0 /\ loaded[uses[c]] = modelFileName

\* Every call returns if its inference does, whatever is cancelled or replaced meanwhile. Code: transcribe.
TranscribeEnds == \A c \in Calls : call[c] = "waiting" ~> call[c] = "returned"

Users(ctx) == {c \in Calls : uses[c] = ctx /\ inference[c] = "running"}

\* A context is used by one inference at a time and not after it was freed. Code: "Thread-safe actor that manages a single
\* whisper.cpp inference context" (WhisperBridge).
ContextUsedAlone ==
  \A ctx \in Contexts, c, d \in Calls :
    c \in Users(ctx) => freed[ctx] = 0 /\ warming # ctx /\ (d \in Users(ctx) => d = c)

\* A call that timed out returns, although its inference is still at work. Code: "Timeout task -- fires after 30 seconds."
TimeoutReturns == \A c \in Calls : outcome[c] = "timeout" ~> call[c] = "returned"
=============================================================================
