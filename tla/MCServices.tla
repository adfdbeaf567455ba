----------------------------- MODULE MCServices -----------------------------
EXTENDS WhisperBridge, LlamaCppProvider, Injection

\* The services share no state, only the pipeline calls all of them: an execution is one of one of them.
VARIABLE service

allVars == <<whisperVars, llamaVars, injectionVars, service>>

MCInit ==
  /\ WhisperInit /\ LlamaInit /\ InjectionInit
  /\ service \in {"whisper", "llama", "injection"}
  /\ service # "whisper" => modelFileName = CHOOSE f \in Files : TRUE
  /\ service # "llama" => modelOnDisk
  /\ service # "injection" => clipboard = "string"

MCNext ==
  \/ service = "whisper" /\ WhisperNext /\ UNCHANGED <<llamaVars, injectionVars, service>>
  \/ service = "llama" /\ LlamaNext /\ UNCHANGED <<whisperVars, injectionVars, service>>
  \/ service = "injection" /\ InjectionNext /\ UNCHANGED <<whisperVars, llamaVars, service>>

MCSpec == MCInit /\ [][MCNext]_allVars /\ ActorRuns /\ InferencesEnd /\ CompletionsRun
=============================================================================
