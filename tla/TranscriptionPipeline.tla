----------------------- MODULE TranscriptionPipeline -----------------------
(***************************************************************************)
(* TranscriptionPipeline.swift: startRecording and stopAndTranscribe on a  *)
(* reentrant actor, from the hotkey callbacks to the delivered text.       *)
(*                                                                         *)
(* Every await gives the actor away, so a step here is what runs between   *)
(* two awaits.  Calls wait for the actor in mailbox and hops to the main   *)
(* thread in mainQueue; both are served in order.  The stages after the    *)
(* capture only use values local to the call, so they take the actor in    *)
(* any order.                                                              *)
(***************************************************************************)
EXTENDS AudioCapture, Sequences, FiniteSets

CONSTANT MaxInFlight   \* bound: how many recordings are unfinished at once

ASSUME InFlightAssumption == MaxInFlight \in Nat \ {0}

VARIABLES
  session,        \* what the hotkey announced last (GestureSession)
  current,        \* the last recording started, 0 before the first
  isRecording,
  mailbox,        \* jobs waiting for the actor
  mainQueue,      \* jobs waiting for the main thread
  actor,          \* the synchronous call that blocks the actor's thread
  phase,          \* how far each recording got
  heard           \* whose audio each recording hands to Whisper

gesture  == <<session, current>>
pipeline == <<isRecording, mailbox, mainQueue, actor, phase, heard>>
pipelineVars == <<audio, device, gesture, pipeline>>

\* Stages in which stopAndTranscribe awaits something outside the actor.
Stages == {"whisper", "cleanup", "output", "persist"}

\* How a recording can end.  Only "failed" and "delivered" call back.
Ends == {"startIgnored", "startFailed", "unheard", "silence", "noise", "failed", "delivered"}

Phases == {"none", "starting", "recording", "stopping", "draining", "ready"} \cup Stages \cup Ends

Job(name, u) == [job |-> name, of |-> u]
Jobs(names) == [job : names, of : Recordings]
ActorJobs == Jobs({"startRecording", "startReturns", "stopAndTranscribe", "stopCapture"})
MainJobs  == Jobs({"onMicOpen", "onError", "startFailed", "axSnapshot", "onReady"})

\* The jobs that the app's callbacks and tasks put on the main thread (AppDelegate).
AppJobs == Jobs({"ShowRecording", "ShowHandsFree", "ShowError", "ShowIdle"})

Free == [job |-> "free", of |-> Nobody]

PipelineTypeOK ==
  /\ AudioTypeOK
  /\ session \in {"off", "ptt", "handsFree"}
  /\ current \in 0..MaxRecordings
  /\ isRecording \in BOOLEAN
  /\ mailbox \in Seq(ActorJobs)
  /\ mainQueue \in Seq(MainJobs \cup AppJobs)
  /\ actor \in Jobs({"opening", "draining"}) \cup {Free}
  /\ phase \in [Recordings -> Phases]
  /\ heard \in [Recordings -> SUBSET Audio]

PipelineInit ==
  /\ AudioInit
  /\ session = "off" /\ current = 0
  /\ isRecording = FALSE
  /\ mailbox = << >> /\ mainQueue = << >> /\ actor = Free
  /\ phase = [u \in Recordings |-> "none"]
  /\ heard = [u \in Recordings |-> {}]

CallActor(name, u) == mailbox' = Append(mailbox, Job(name, u))
CallMain(name, u)  == mainQueue' = Append(mainQueue, Job(name, u))
MoveTo(u, p)       == phase' = [phase EXCEPT ![u] = p]
-----------------------------------------------------------------------------
(* The hotkey's callbacks, as HotkeyManager promises them, on the main     *)
(* thread.                                                                 *)

Gestures == INSTANCE GestureSession

\* onStartRecording and onHandsFreeStart: a Task that calls startRecording.
SessionOpens(u) ==
  /\ MainFree
  /\ u = current + 1
  /\ Cardinality({v \in Recordings : phase[v] \notin Ends \cup {"none"}}) < MaxInFlight
  /\ current' = u
  /\ Gestures!OpenPtt \/ Gestures!OpenHandsFree
  /\ CallActor("startRecording", u)
  /\ MoveTo(u, "starting")
  /\ UNCHANGED <<audio, device, isRecording, mainQueue, actor, heard>>

\* onStopRecording and onHandsFreeStop: a Task that calls stopAndTranscribe.
\* It replaces transcriptionTask, which is cancelled.
SessionCloses ==
  /\ MainFree
  /\ Gestures!ClosePtt \/ Gestures!CloseHandsFree
  /\ CallActor("stopAndTranscribe", current)
  /\ UNCHANGED <<audio, device, current, isRecording, mainQueue, actor,
                 phase, heard>>

\* Each stop cancels the task of the stop before it.
LastClosed == IF session = "off" THEN current ELSE current - 1
Cancelled(u) == u < LastClosed
-----------------------------------------------------------------------------
(* startRecording.                                                         *)

ActorRuns(name, u) ==
  /\ actor = Free
  /\ mailbox # << >>
  /\ Head(mailbox) = Job(name, u)
  /\ mailbox' = Tail(mailbox)

\* Recording already, alreadyRecording thrown, or no input format: only the
\* first leaves without reset() and onError.
StartRecording(u) ==
  /\ ActorRuns("startRecording", u)
  /\ UNCHANGED <<device, gesture, isRecording, heard>>
  /\ \/ /\ isRecording
        /\ MoveTo(u, "startIgnored")
        /\ UNCHANGED <<audio, mainQueue, actor>>
     \/ /\ ~isRecording /\ MayStart
        /\ installTap
        /\ actor' = Job("opening", u)
        /\ UNCHANGED <<mainQueue, phase>>
     \/ /\ ~isRecording /\ (~MayStart \/ EngineMayFail)
        /\ reset
        /\ MoveTo(u, "startFailed")
        /\ CallMain("startFailed", u)
        /\ UNCHANGED actor

\* engine.start() has returned, and the actor awaits onMicOpen on the main
\* thread; or it threw, and the actor awaits onError.
EngineReturns(u) ==
  /\ actor = Job("opening", u)
  /\ actor' = Free
  /\ UNCHANGED <<device, gesture, mailbox, heard>>
  /\ \/ /\ engineStarted
        /\ isRecording' = TRUE
        /\ MoveTo(u, "recording")
        /\ CallMain("onMicOpen", u)
     \/ /\ EngineMayFail
        /\ reset
        /\ UNCHANGED isRecording
        /\ MoveTo(u, "startFailed")
        /\ CallMain("startFailed", u)

\* startRecording returns to the Task that called it, which may have more to do
\* on the main thread.
StartReturns(u, tasks) ==
  /\ ActorRuns("startReturns", u)
  /\ mainQueue' = mainQueue \o tasks
  /\ UNCHANGED <<audio, device, gesture, isRecording, actor, phase, heard>>
-----------------------------------------------------------------------------
(* stopAndTranscribe, up to the samples.                                   *)

FaultyStopAndTranscribe(u) ==
  /\ ActorRuns("stopAndTranscribe", u)
  /\ IF isRecording THEN MoveTo(u, "stopping") /\ CallMain("axSnapshot", u)
                    ELSE UNCHANGED <<mainQueue, phase>>
  /\ UNCHANGED <<audio, device, gesture, isRecording, actor, heard>>

\* The flag is cleared first, then the focused element is read on the main
\* thread.  A stop that finds nothing being recorded returns nil.
StopAndTranscribe(u) ==
  /\ ActorRuns("stopAndTranscribe", u)
  /\ isRecording' = FALSE
  /\ IF isRecording THEN MoveTo(u, "stopping") /\ CallMain("axSnapshot", u)
                    ELSE UNCHANGED <<mainQueue, phase>>
  /\ UNCHANGED <<audio, device, gesture, actor, heard>>

\* stopCapture returns no samples at once when the service is not capturing;
\* else it drains for 80 ms, on the actor's thread.
StopCapture(u) ==
  /\ ActorRuns("stopCapture", u)
  /\ UNCHANGED <<device, gesture, isRecording, mainQueue, heard>>
  /\ IF isCapturing
       THEN /\ actor' = Job("draining", u)
            /\ MoveTo(u, "draining")
            /\ UNCHANGED audio
       ELSE /\ reset
            /\ MoveTo(u, "unheard")
            /\ UNCHANGED actor

\* The drain is over: stopCapture takes the buffer and closes the microphone.
\* An empty buffer, or less than 200 ms of speech in it (applySilenceTrim), ends
\* the call without any callback.
CaptureStopped(u) ==
  /\ actor = Job("draining", u)
  /\ actor' = Free
  /\ reset
  /\ heard' = [heard EXCEPT ![u] = pcmBuffer]
  /\ IF pcmBuffer = {} THEN MoveTo(u, "unheard")
                       ELSE MoveTo(u, "silence") \/ MoveTo(u, "whisper")
  /\ UNCHANGED <<device, gesture, isRecording, mailbox, mainQueue>>
-----------------------------------------------------------------------------
(* stopAndTranscribe, from the samples to the callback.  Each action takes *)
(* the actor when what the stage awaited has come.                         *)

Leaves(u, stage) ==
  /\ actor = Free
  /\ phase[u] = stage
  /\ UNCHANGED <<audio, device, gesture, isRecording, mailbox, actor, heard>>

\* runTranscription.  A cancelled task gets CancellationError, whatever
\* Whisper makes of the audio; blank and noise results are dropped unnoticed.
Transcribed(u) ==
  /\ Leaves(u, "whisper")
  /\ \/ MoveTo(u, "failed") /\ CallMain("onError", u)
     \/ ~Cancelled(u) /\ MoveTo(u, "noise") /\ UNCHANGED mainQueue
     \/ ~Cancelled(u) /\ MoveTo(u, "cleanup") /\ UNCHANGED mainQueue

\* applyLLMCleanup, with the voice commands executed before it.  A provider's
\* error is reported and the raw text goes on.
CleanedUp(u) ==
  /\ Leaves(u, "cleanup")
  /\ MoveTo(u, "output")
  /\ CallMain("onError", u) \/ UNCHANGED mainQueue

\* applySnippetExpansion and dispatchOutput.  Expanded text that a sensitive
\* app must not get is reported as an error, and only saved.
Dispatched(u) ==
  /\ Leaves(u, "output")
  /\ MoveTo(u, "persist")
  /\ CallMain("onError", u) \/ UNCHANGED mainQueue

\* persistAndNotify: the client hears of the result even if saving it failed.
Persisted(u) ==
  /\ Leaves(u, "persist")
  /\ MoveTo(u, "ready")
  /\ CallMain("onReady", u)
-----------------------------------------------------------------------------
(* The main thread runs the next job.  The callbacks are the client's; the  *)
(* tasks that one starts queue behind the jobs that wait.                   *)

MainRuns(name, u, tasks) ==
  /\ MainFree
  /\ mainQueue # << >>
  /\ Head(mainQueue) = Job(name, u)
  /\ mainQueue' = Tail(mainQueue) \o tasks
  /\ UNCHANGED <<audio, device, gesture, isRecording, actor, heard>>

\* A call that awaits the main thread goes on when its job is done.
MainResumes(name, u, tasks, continuation) ==
  MainRuns(name, u, tasks) /\ CallActor(continuation, u) /\ UNCHANGED phase

OnMicOpen(u, tasks)     == MainResumes("onMicOpen", u, tasks, "startReturns")
OnStartFailed(u, tasks) == MainResumes("startFailed", u, tasks, "startReturns")

\* The hop ends but nobody resumes the call that awaits it.
FaultyAxSnapshot(u) == MainRuns("axSnapshot", u, << >>) /\ UNCHANGED <<mailbox, phase>>

AxSnapshot(u) == MainResumes("axSnapshot", u, << >>, "stopCapture")

OnError(u, tasks) == MainRuns("onError", u, tasks) /\ UNCHANGED <<mailbox, phase>>

OnReady(u, tasks) ==
  MainRuns("onReady", u, tasks) /\ MoveTo(u, "delivered") /\ UNCHANGED mailbox
-----------------------------------------------------------------------------
(* The whole pipeline, for a client whose callbacks start the given tasks.  *)

\* One stage of stopAndTranscribe.
StageReturns(u) ==
  Transcribed(u) \/ CleanedUp(u) \/ Dispatched(u) \/ Persisted(u)

ActorStep(u, started) ==
  \/ StartRecording(u) \/ EngineReturns(u) \/ StartReturns(u, started)
  \/ StopAndTranscribe(u) \/ StopCapture(u) \/ CaptureStopped(u)
  \/ StageReturns(u)

MainStep(u, micOpen, error, ready) ==
  \/ OnMicOpen(u, micOpen) \/ OnStartFailed(u, error) \/ OnError(u, error)
  \/ OnReady(u, ready) \/ AxSnapshot(u)

\* Who speaks into an open microphone: the user of the last session, until the
\* last recording has its samples.
Speaker ==
  IF \E u \in Recordings : phase[u] \in {"starting", "recording", "stopping", "draining"}
    THEN current ELSE Nobody

MicrophoneStep == AudioStep(Speaker) /\ UNCHANGED <<gesture, pipeline>>

\* The main thread comes back from a restart: engine.start() returns.
RestartReturns == RestartStep /\ UNCHANGED <<gesture, pipeline>>

\* A client without callbacks.
PipelineNext ==
  \/ \E u \in Recordings :
       SessionOpens(u) \/ ActorStep(u, << >>) \/ MainStep(u, << >>, << >>, << >>)
  \/ SessionCloses
  \/ MicrophoneStep

PipelineSpec == PipelineInit /\ [][PipelineNext]_pipelineVars

\* While a job waits for the actor or for the main thread, or a service owes an
\* answer, one of them comes to run.  Since the recordings are bounded every
\* queue gets its turn.  Nobody has to speak, to press the hotkey or to let go
\* of it, and no device has to come back.
PipelineFairness ==
  WF_pipelineVars(\/ \E u \in Recordings : ActorStep(u, << >>) \/ MainStep(u, << >>, << >>, << >>)
                  \/ RestartReturns)

FairPipelineSpec == PipelineSpec /\ PipelineFairness
-----------------------------------------------------------------------------
(* Properties.                                                             *)

\* isRecording is set exactly while one recording has started and its stop is
\* still to come, from the user or from the mailbox: no two recordings share
\* the flag, no stop is served twice, and the flag cannot get stuck and turn
\* away every later start (startRecording, stopAndTranscribe and their guards).
FlagFollowsRecording ==
  /\ isRecording <=> \E u \in Recordings : phase[u] = "recording"
  /\ \A u \in Recordings :
       phase[u] = "recording" =>
         \/ u = current /\ session # "off"
         \/ \E i \in DOMAIN mailbox : mailbox[i] = Job("stopAndTranscribe", u)
  /\ \A u, v \in Recordings : phase[u] = "recording" /\ phase[v] = "recording" => u = v

\* Whisper never hears what was said before its recording began, to an earlier
\* recording or to a microphone that nobody meant to be open: whatever restarts,
\* failed starts and overlapping stops came between (startCapture's guard, its
\* clearing of the buffer, and reset).  The one exception is Stray: a callback
\* that was under way when the buffer was cleared appends its samples after it
\* (handleAudioBuffer; see OwnAudioOnly).
NoStaleAudio ==
  \A u \in Recordings : heard[u] \subseteq (u..MaxRecordings) \cup {Stray}

\* "Drain in-flight tap callbacks before removing tap" (AudioCaptureService.swift:191),
\* so that a recording hears nothing but its own audio and later: without the
\* exception above.
OwnAudioOnly ==
  \A u \in Recordings : heard[u] \subseteq u..MaxRecordings

\* No call is in progress and nobody holds a session.
AtRest ==
  /\ session = "off" /\ mailbox = << >> /\ mainQueue = << >> /\ actor = Free
  /\ \A u \in Recordings : phase[u] \in {"none", "starting"} \cup Ends

\* Once every call has returned nothing said in a recording is left in memory
\* (stopCapture and the reset on every early return), nor under way to it, but for
\* the samples of a callback that a clearing overtook.
NothingLeftBehind == AtRest => pcmBuffer \cup inFlight \subseteq {Nobody, Stray}

\* Whatever ends a session, its calls return: the actor, the main thread and
\* the callbacks never wait for each other, and no stage is left hanging.
CallsReturn ==
  \A u \in Recordings :
    phase[u] # "none" /\ LastClosed >= u ~> phase[u] \in Ends

\* "AudioCaptureService.isCapturing and TranscriptionPipeline.isRecording always
\* move together" (AudioCaptureService.swift:175): compared when no call is in
\* progress.
FlagsAgreeAtRest == AtRest => isCapturing = isRecording
=============================================================================
