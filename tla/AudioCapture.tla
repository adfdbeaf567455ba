---------------------------- MODULE AudioCapture ----------------------------
(***************************************************************************)
(* AudioCaptureService.swift: one microphone, one PCM buffer, and a restart *)
(* path that rebuilds the engine when the input device changes.            *)
(*                                                                         *)
(* startCapture, stopCapture and reset are called by the pipeline actor,   *)
(* on its thread; the restart runs on the main thread; the tap calls back   *)
(* on a thread of its own.  Nothing but the PCM buffer is locked, so the    *)
(* three interleave.  Audio is abstracted to who spoke: the user of a       *)
(* recording in progress, or Nobody in particular.                          *)
(***************************************************************************)
EXTENDS Naturals

CONSTANTS
  MaxRecordings,    \* bound: how many recordings are started
  MaxDeviceEvents,  \* bound: how many device or engine notifications arrive
  EngineMayFail     \* may AVAudioEngine or AVAudioConverter refuse to start?

ASSUME AudioAssumption ==
  MaxRecordings \in Nat /\ MaxDeviceEvents \in Nat /\ EngineMayFail \in BOOLEAN

VARIABLES
  isCapturing,
  tap,               \* the tap is installed on the input node
  running,           \* engine.start() succeeded and nothing stopped it since
  pcmBuffer,         \* whose audio the buffer holds
  inFlight,          \* whose audio the tap has called back with and not yet appended
  restartWorkItem,   \* a restart is scheduled (the debounced work item)
  retries,           \* calls scheduled for half a second after sampleRate = 0
  restart,           \* how far the main thread is in restartCapture
  notices,           \* notifications that wait for the main thread
  inputReady,        \* the input format has a sample rate
  deviceEvents       \* device changes so far

audio == <<isCapturing, tap, running, pcmBuffer, inFlight>>
device == <<restartWorkItem, retries, restart, notices, inputReady, deviceEvents>>

Recordings == 1..MaxRecordings
Nobody == 0

\* Audio of a callback that a clearing of the buffer overtook, whoever spoke.
Stray == MaxRecordings + 1
Audio == Recordings \cup {Nobody, Stray}

AudioTypeOK ==
  /\ isCapturing \in BOOLEAN /\ tap \in BOOLEAN /\ running \in BOOLEAN
  /\ pcmBuffer \subseteq Audio /\ inFlight \subseteq Audio
  /\ restartWorkItem \in BOOLEAN
  /\ retries \in Nat /\ notices \in Nat
  /\ restart \in {"no", "tornDown", "starting"}
  /\ inputReady \in BOOLEAN
  /\ deviceEvents \in 0..MaxDeviceEvents

AudioInit ==
  /\ isCapturing = FALSE /\ tap = FALSE /\ running = FALSE
  /\ pcmBuffer = {} /\ inFlight = {}
  /\ restartWorkItem = FALSE /\ retries = 0 /\ restart = "no" /\ notices = 0
  /\ inputReady = TRUE /\ deviceEvents = 0
-----------------------------------------------------------------------------
(* The operations the pipeline calls.                                      *)

\* pcmBuffer = [], under the lock.  What a callback in flight appends later was
\* said before.
ClearBuffer == pcmBuffer' = {} /\ inFlight' = {Stray : v \in inFlight}

\* (Definitions named Faulty... are plausible bugs.  No action uses them: each
\* stands in for the definition after it to show that a property can fail.)
FaultyReset == tap' = FALSE /\ running' = FALSE /\ UNCHANGED <<isCapturing, pcmBuffer, inFlight>>

\* What reset() does, and what stopCapture() leaves behind.
reset ==
  /\ isCapturing' = FALSE /\ tap' = FALSE /\ running' = FALSE
  /\ ClearBuffer

\* The guards of startCapture.
MayStart == ~isCapturing /\ inputReady

FaultyInstallTap == tap' = TRUE /\ UNCHANGED <<isCapturing, running, pcmBuffer, inFlight>>

\* startCapture up to the tap.  The engine is then asked to start, which takes
\* 100 ms and more, and the restart may run meanwhile.
installTap ==
  /\ tap' = TRUE
  /\ ClearBuffer
  /\ UNCHANGED <<isCapturing, running>>

\* The rest of startCapture.
engineStarted ==
  /\ running' = TRUE
  /\ isCapturing' = TRUE
  /\ UNCHANGED <<tap, pcmBuffer, inFlight>>
-----------------------------------------------------------------------------
(* The tap's callbacks, on their own thread.                               *)

\* The tap calls back with what the speaker said.
TapDelivers(speaker) ==
  /\ tap /\ running
  /\ inFlight' = inFlight \cup {speaker}
  /\ UNCHANGED <<isCapturing, tap, running, pcmBuffer, device>>

\* The rest of handleAudioBuffer, whatever became of the tap and of the engine
\* meanwhile: the samples are appended under the lock, or dropped because the
\* converter is gone or fails.
handleAudioBuffer ==
  \E speaker \in inFlight :
    /\ inFlight' = inFlight \ {speaker}
    /\ pcmBuffer' \in {pcmBuffer, pcmBuffer \cup {speaker}}
    /\ UNCHANGED <<isCapturing, tap, running, device>>
-----------------------------------------------------------------------------
(* Device changes, and the restart on the main thread.                     *)

\* The default device or its format changes, at any time; the engine may stop
\* over it.  A notification is queued for the main thread.
DeviceChanged ==
  /\ deviceEvents < MaxDeviceEvents
  /\ deviceEvents' = deviceEvents + 1
  /\ inputReady' \in BOOLEAN
  /\ running' \in {running, FALSE}
  /\ notices' = notices + 1
  /\ UNCHANGED <<isCapturing, tap, pcmBuffer, inFlight, restartWorkItem, retries, restart>>

\* Bluetooth negotiation is over: the input format has its sample rate.
DeviceReady ==
  /\ ~inputReady
  /\ inputReady' = TRUE
  /\ UNCHANGED <<audio, restartWorkItem, retries, restart, notices, deviceEvents>>

\* restartCapture holds the main thread until it returns.
MainFree == restart = "no"

\* A later notification replaces a pending work item.
handleEngineConfigurationChange ==
  /\ MainFree
  /\ restartWorkItem' = (restartWorkItem \/ isCapturing)
  /\ UNCHANGED <<audio, restart, inputReady, deviceEvents>>

Notified ==
  /\ notices > 0
  /\ notices' = notices - 1
  /\ handleEngineConfigurationChange
  /\ UNCHANGED retries

\* Half a second after a restart that found no input format.
RetryRestart ==
  /\ retries > 0
  /\ retries' = retries - 1
  /\ handleEngineConfigurationChange
  /\ UNCHANGED notices

\* The work item tears the engine down, whether or not anybody still records.
\* Work items run one after the other on the main queue, so isRestarting never
\* turns one away.
restartCapture ==
  /\ MainFree
  /\ restartWorkItem
  /\ restartWorkItem' = FALSE
  /\ restart' = "tornDown"
  /\ isCapturing' = FALSE /\ tap' = FALSE /\ running' = FALSE
  /\ UNCHANGED <<pcmBuffer, inFlight, retries, notices, inputReady, deviceEvents>>

\* It reads the format and installs a tap; or there is no format yet, or no
\* converter.
restartInstallsTap ==
  /\ restart = "tornDown"
  /\ UNCHANGED <<isCapturing, running, pcmBuffer, inFlight, restartWorkItem, notices, inputReady, deviceEvents>>
  /\ \/ ~inputReady /\ restart' = "no" /\ retries' = retries + 1 /\ UNCHANGED tap
     \/ inputReady /\ EngineMayFail /\ restart' = "no" /\ UNCHANGED <<tap, retries>>
     \/ inputReady /\ restart' = "starting" /\ tap' = TRUE /\ UNCHANGED retries

\* engine.start() has returned or thrown, and only now is the flag set.
engineRestarted ==
  /\ restart = "starting"
  /\ restart' = "no"
  /\ UNCHANGED <<tap, pcmBuffer, inFlight, restartWorkItem, retries, notices, inputReady, deviceEvents>>
  /\ \/ running' = TRUE /\ isCapturing' = TRUE
     \/ EngineMayFail /\ UNCHANGED <<running, isCapturing>>

\* What goes on by itself once it has begun.
RestartStep == restartInstallsTap \/ engineRestarted

\* Everything the service does without being called by the pipeline.
AudioStep(speaker) ==
  \/ TapDelivers(speaker) \/ handleAudioBuffer
  \/ DeviceChanged \/ DeviceReady \/ Notified \/ RetryRestart
  \/ restartCapture \/ RestartStep
=============================================================================
