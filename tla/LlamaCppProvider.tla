--------------------------- MODULE LlamaCppProvider ---------------------------
(* The actor around llama.cpp and the completion it runs, off the actor, on its one context: clear the memory, decode the  *)
(* prompt, then sample and decode token by token. Tokens are abstracted to the cleanup they belong to.                     *)
EXTENDS Integers, Sequences, FiniteSets

CONSTANTS
  Cleanups,    \* calls of cleanup
  NCtx,        \* cells of the context's memory, which is also its batch size
  MaxTokens,   \* tokens that a completion may generate
  MaxPrompt    \* bound: tokens of a prompt

ASSUME LlamaAssumption == NCtx \in Nat \ {0} /\ MaxTokens \in Nat /\ MaxPrompt \in Nat \ {0}

VARIABLES
  ctx,           \* there is a context
  modelMissing,
  modelOnDisk,   \* the file is there and loads
  cleanup,       \* per call: "idle", "queued", "cleared", "sampling", "completed", "returned"
  tokens,        \* per call: the length of its prompt
  pieces,        \* per call: tokens sampled, which is tokens_generated while the loop runs
  memory,        \* whose tokens the context's memory holds, in order
  seen,          \* history: per call, whose tokens its own were computed from
  answer,        \* per call: "none", "raw", or the "text" of the completion
  aborted,       \* the process was ended by an assertion
  overlapped     \* history: the calls that were in flight together with another

llamaVars == <<ctx, modelMissing, modelOnDisk, cleanup, tokens, pieces, memory, seen, answer, aborted, overlapped>>
actorLlamaVars == <<ctx, modelMissing, modelOnDisk>>

LlamaInit ==
  /\ ctx = FALSE
  /\ modelMissing = FALSE
  /\ modelOnDisk \in BOOLEAN
  /\ cleanup = [c \in Cleanups |-> "idle"]
  /\ tokens = [c \in Cleanups |-> 0]
  /\ pieces = [c \in Cleanups |-> 0]
  /\ memory = <<>>
  /\ seen = [c \in Cleanups |-> {}]
  /\ answer = [c \in Cleanups |-> "none"]
  /\ aborted = FALSE
  /\ overlapped = {}

\* The model is downloaded or deleted.
ModelFileChanges ==
  /\ ~aborted
  /\ modelOnDisk' = ~modelOnDisk
  /\ UNCHANGED <<ctx, modelMissing, cleanup, tokens, pieces, memory, seen, answer, aborted, overlapped>>

\* loadContextIfNeeded, once it is found that nothing stands in its way.
Loaded == ctx \/ modelOnDisk

warmUp ==
  /\ ~aborted
  /\ ctx' = Loaded
  /\ modelMissing' = (modelMissing \/ ~Loaded)
  /\ UNCHANGED <<modelOnDisk, cleanup, tokens, pieces, memory, seen, answer, aborted, overlapped>>

Returns(c, what) ==
  /\ cleanup' = [cleanup EXCEPT ![c] = "returned"]
  /\ answer' = [answer EXCEPT ![c] = what]

\* The profile wants the words as they are, or the model is known to be missing, or it is found to be.
PassThrough(c) ==
  /\ ~aborted
  /\ cleanup[c] = "idle"
  /\ \/ UNCHANGED <<ctx, modelMissing>>
     \/ ~modelMissing /\ ~Loaded /\ modelMissing' = TRUE /\ UNCHANGED ctx
  /\ Returns(c, "raw")
  /\ UNCHANGED <<modelOnDisk, tokens, pieces, memory, seen, aborted, overlapped>>

InFlight == {c \in Cleanups : cleanup[c] \notin {"idle", "returned"}}

\* cleanup up to its await: a detached task has the context's pointer and a prompt of n tokens.
Cleanup(c, n) ==
  /\ ~aborted
  /\ cleanup[c] = "idle"
  /\ ~modelMissing
  /\ Loaded
  /\ ctx' = TRUE
  /\ cleanup' = [cleanup EXCEPT ![c] = "queued"]
  /\ tokens' = [tokens EXCEPT ![c] = n]
  /\ overlapped' = IF InFlight = {} THEN overlapped ELSE overlapped \cup InFlight \cup {c}
  /\ UNCHANGED <<modelMissing, modelOnDisk, pieces, memory, seen, answer, aborted>>

FaultyClearMemory(c) ==
  /\ ~aborted
  /\ cleanup[c] = "queued"
  /\ cleanup' = [cleanup EXCEPT ![c] = "cleared"]
  /\ UNCHANGED <<actorLlamaVars, memory, tokens, pieces, seen, answer, aborted, overlapped>>

ClearMemory(c) ==
  /\ ~aborted
  /\ cleanup[c] = "queued"
  /\ memory' = <<>>
  /\ cleanup' = [cleanup EXCEPT ![c] = "cleared"]
  /\ UNCHANGED <<actorLlamaVars, tokens, pieces, seen, answer, aborted, overlapped>>

Owners(m) == {m[i] : i \in 1..Len(m)}

\* llama_decode adds n tokens of c to the memory, each computed from all that is there, or finds no room for them.
Decodes(c, n) ==
  /\ Len(memory) + n <= NCtx
  /\ memory' = memory \o [i \in 1..n |-> c]
  /\ seen' = [seen EXCEPT ![c] = @ \cup Owners(memory) \cup {c}]

NoRoom(n) == Len(memory) + n > NCtx

Completes(c) == cleanup' = [cleanup EXCEPT ![c] = "completed"]

\* A prompt beyond the batch size fails an assertion in llama_decode, which ends the process.
DecodePrompt(c) ==
  /\ ~aborted
  /\ cleanup[c] = "cleared"
  /\ \/ /\ tokens[c] > NCtx
        /\ aborted' = TRUE
        /\ UNCHANGED <<memory, seen, cleanup>>
     \/ /\ tokens[c] <= NCtx
        /\ Decodes(c, tokens[c])
        /\ cleanup' = [cleanup EXCEPT ![c] = "sampling"]
        /\ UNCHANGED aborted
     \/ /\ tokens[c] <= NCtx
        /\ NoRoom(tokens[c])
        /\ Completes(c)
        /\ UNCHANGED <<memory, seen, aborted>>
  /\ UNCHANGED <<actorLlamaVars, tokens, pieces, answer, overlapped>>

FaultySample(c) ==
  /\ ~aborted
  /\ cleanup[c] = "sampling"
  /\ pieces[c] < MaxTokens
  /\ \/ /\ Decodes(c, 1)
        /\ pieces' = [pieces EXCEPT ![c] = @ + 1]
     \/ /\ NoRoom(1)
        /\ UNCHANGED <<memory, seen, pieces>>
  /\ UNCHANGED <<actorLlamaVars, cleanup, tokens, answer, aborted, overlapped>>

\* One round of the sampling loop: a token is sampled from the last logits, its text kept, and decoded if there is room.
Sample(c) ==
  /\ ~aborted
  /\ cleanup[c] = "sampling"
  /\ pieces[c] < MaxTokens
  /\ pieces' = [pieces EXCEPT ![c] = @ + 1]
  /\ \/ Decodes(c, 1) /\ UNCHANGED cleanup
     \/ NoRoom(1) /\ Completes(c) /\ UNCHANGED <<memory, seen>>
  /\ UNCHANGED <<actorLlamaVars, tokens, answer, aborted, overlapped>>

\* The model ends its answer.
EndOfGeneration(c) ==
  /\ ~aborted
  /\ cleanup[c] = "sampling"
  /\ pieces[c] < MaxTokens
  /\ Completes(c)
  /\ UNCHANGED <<actorLlamaVars, tokens, pieces, memory, seen, answer, aborted, overlapped>>

LimitReached(c) ==
  /\ ~aborted
  /\ cleanup[c] = "sampling"
  /\ pieces[c] = MaxTokens
  /\ Completes(c)
  /\ UNCHANGED <<actorLlamaVars, tokens, pieces, memory, seen, answer, aborted, overlapped>>

\* A completion that is empty, or of spaces, is answered with the transcript.
CleanupReturns(c) ==
  /\ ~aborted
  /\ cleanup[c] = "completed"
  /\ \/ Returns(c, "raw")
     \/ pieces[c] > 0 /\ Returns(c, "text")
  /\ UNCHANGED <<actorLlamaVars, tokens, pieces, memory, seen, aborted, overlapped>>

Completion(c) ==
  ClearMemory(c) \/ DecodePrompt(c) \/ Sample(c) \/ LimitReached(c) \/ CleanupReturns(c)

LlamaNext ==
  \/ ModelFileChanges
  \/ warmUp
  \/ \E c \in Cleanups :
       \/ PassThrough(c)
       \/ \E n \in 1..MaxPrompt : Cleanup(c, n)
       \/ Completion(c) \/ EndOfGeneration(c)

\* The detached task runs; the model need not end its answer.
CompletionsRun == \A c \in Cleanups : WF_llamaVars(Completion(c))

LlamaSpec == LlamaInit /\ [][LlamaNext]_llamaVars /\ CompletionsRun
-------------------------------------------------------------------------------
LlamaTypeOK ==
  /\ ctx \in BOOLEAN /\ modelMissing \in BOOLEAN /\ modelOnDisk \in BOOLEAN /\ aborted \in BOOLEAN
  /\ cleanup \in [Cleanups -> {"idle", "queued", "cleared", "sampling", "completed", "returned"}]
  /\ tokens \in [Cleanups -> 0..MaxPrompt] /\ pieces \in [Cleanups -> 0..MaxTokens]
  /\ memory \in Seq(Cleanups) /\ Len(memory) <= NCtx
  /\ seen \in [Cleanups -> SUBSET Cleanups]
  /\ answer \in [Cleanups -> {"none", "raw", "text"}]
  /\ overlapped \subseteq Cleanups

\* The text of a completion is computed from its own prompt and nothing of earlier ones, however these ended; only two
\* completions at the same time can mix. Code: llama_bridge_complete (llama_memory_clear).
OwnPromptOnly == \A c \in Cleanups : c \notin overlapped => seen[c] \subseteq {c}

\* Every cleanup is answered, although the model may never end its answer and the memory may run full, unless an assertion
\* ends the process. Code: llama_bridge_complete, LlamaCppProvider.cleanup.
CleanupEnds == \A c \in Cleanups : cleanup[c] # "idle" ~> (cleanup[c] = "returned" \/ aborted)

\* A cleanup that cannot be done gives the transcript back. Code: "implementations MUST return `rawTranscript` unchanged rather
\* than throwing" (LLMProvider).
NeverKills == ~aborted
===============================================================================
