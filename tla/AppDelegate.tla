---------------------------- MODULE AppDelegate ----------------------------
(***************************************************************************)
(* main.swift: what the user sees of the pipeline.  AppDelegate's handlers *)
(* run on the main thread and move the status icon, the popover's          *)
(* recordingState and the floating HUD.  This module composes the hotkey's *)
(* callbacks, the pipeline, the microphone and the handlers.               *)
(***************************************************************************)
EXTENDS TranscriptionPipeline

VARIABLES
  handsFree,        \* the recordings that a hands-free gesture started
  recordingState,   \* pipelineState.recordingState, and the status icon with it
  hud,              \* the HUD animates a recording
  idleTimers        \* pending tasks that go idle three seconds after an error

app == <<handsFree, recordingState, hud, idleTimers>>
vars == <<pipelineVars, app>>

RecordingState == {"idle", "recording", "handsFreeRecording", "processing", "error"}

TypeOK ==
  /\ PipelineTypeOK
  /\ handsFree \subseteq Recordings
  /\ recordingState \in RecordingState
  /\ hud \in BOOLEAN
  /\ idleTimers \in Nat

Init ==
  /\ PipelineInit
  /\ handsFree = {} /\ recordingState = "idle" /\ hud = FALSE /\ idleTimers = 0
-----------------------------------------------------------------------------
(* The transitions, and the tasks and handlers that make them.              *)

Show(state, animate) ==
  recordingState' = state /\ hud' = animate /\ UNCHANGED <<handsFree, idleTimers>>

transitionToIdle == Show("idle", hud)

FaultyTransitionToError == Show("error", hud)

transitionToError ==
  recordingState' = "error" /\ idleTimers' = idleTimers + 1 /\ UNCHANGED <<handsFree, hud>>

\* onStartRecording and onHandsFreeTranscription.
StartCallback(u) ==
  /\ SessionOpens(u)
  /\ handsFree' = IF session' = "handsFree" THEN handsFree \cup {u} ELSE handsFree
  /\ UNCHANGED <<recordingState, hud, idleTimers>>

\* onStopRecording and onHandsFreeStop.
StopCallback == SessionCloses /\ Show("processing", FALSE)

\* A job that belongs to the app alone.
AppRuns(name, u) == MainRuns(name, u, << >>) /\ UNCHANGED <<mailbox, phase>>

FaultyShowRecording(u) == AppRuns("ShowRecording", u) /\ UNCHANGED app

\* onMicOpen's task, the hands-free gesture's, onError's and onTranscriptionReady's.
ShowRecording(u) == AppRuns("ShowRecording", u) /\ Show("recording", TRUE)
ShowHandsFree(u) == AppRuns("ShowHandsFree", u) /\ Show("handsFreeRecording", TRUE)
ShowError(u)     == AppRuns("ShowError", u) /\ transitionToError
ShowIdle(u)      == AppRuns("ShowIdle", u) /\ transitionToIdle

\* Three seconds after an error, whatever has happened since.
IdleTimerFires ==
  /\ MainFree
  /\ idleTimers > 0
  /\ idleTimers' = idleTimers - 1
  /\ recordingState' = "idle"
  /\ UNCHANGED <<pipelineVars, handsFree, hud>>
-----------------------------------------------------------------------------
(* The app and the pipeline together.                                      *)

Task(name, u) == <<Job(name, u)>>

\* The rest of onHandsFreeTranscription, once startRecording has returned.
StartedTask(u) == IF u \in handsFree THEN Task("ShowHandsFree", u) ELSE << >>

AppMainStep(u) ==
  \/ ShowRecording(u) \/ ShowHandsFree(u) \/ ShowError(u) \/ ShowIdle(u)
  \/ /\ MainStep(u, Task("ShowRecording", u), Task("ShowError", u), Task("ShowIdle", u))
     /\ UNCHANGED app

AppActorStep(u) == ActorStep(u, StartedTask(u)) /\ UNCHANGED app

Next ==
  \/ \E u \in Recordings : StartCallback(u) \/ AppMainStep(u) \/ AppActorStep(u)
  \/ StopCallback
  \/ IdleTimerFires
  \/ MicrophoneStep /\ UNCHANGED app

Spec == Init /\ [][Next]_vars

\* As for the pipeline; and timers fire.
Fairness ==
  WF_vars(\/ IdleTimerFires
          \/ \E u \in Recordings : AppMainStep(u) \/ AppActorStep(u)
          \/ RestartReturns /\ UNCHANGED app)

FairSpec == Spec /\ Fairness
-----------------------------------------------------------------------------
(* Properties.                                                             *)

\* Once the microphone is open the HUD comes to show it, unless the recording is
\* over by then (onMicOpen); stale timers and callbacks cannot prevent that.
FeedbackFollowsMic ==
  isRecording /\ session # "off" ~> hud \/ ~isRecording

\* After the last recording's text has been delivered the app goes idle and
\* stays idle, whatever errors, timers and late callbacks of earlier recordings
\* are still on their way (transitionToError, onTranscriptionReady).
DeliveredThenIdle ==
  MaxRecordings > 0 =>
    (phase[MaxRecordings] = "delivered" ~> [](recordingState = "idle"))

\* "At this point mic is open (startRecording has returned)" (main.swift:694).
HandsFreeMicOpen ==
  [][recordingState # "handsFreeRecording" /\ recordingState' = "handsFreeRecording"
       => isCapturing]_vars
=============================================================================
