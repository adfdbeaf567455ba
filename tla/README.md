# WhisKey: a TLA+ verification project

WhisKey is a macOS menu-bar app for dictation: a global hotkey starts and stops a recording, whisper.cpp transcribes it, an
optional LLM cleans the text up, and the result is typed into the focused application. This directory holds TLA+ models of the
program under `src/`, the TLC configurations that check them and the TLAPS proofs about them. `PROJECT.json` indexes them:
components, runs, the source lines each definition stands for, hazards, findings and theorems.

Paths below are relative to `src/Sources/`. Line numbers refer to the commit in `src/`.

## 1. Inventory

| Component | State it keeps | Operations | What must be right |
|---|---|---|---|
| **Hotkey gestures** `WhisKeyCore/Hotkey/HotkeyManager.swift` | `hotkeyState` (six states), two debounce clocks, one pending timer task, settings | key edges from a CGEvent tap, hold timer, inter-tap timer, settings written from outside | sessions open and close in pairs; one press counts once, repeated or not; push-to-talk only after a full hold; no orphan timers; no press stays undecided |
| **Bindings** `HotkeyDispatcher`, `HotkeyBindingStore`, `HotkeySettingsViewModel` | one combination per action, cached, as one UserDefaults blob; secondary tap; the row being recorded | load and seed, set, clear, conflict check, `syncBindings`, confirmation | no two actions share a combination; one row records; the taps watch what is bound |
| **Microphone** `WhisKeyCore/Audio/AudioCaptureService.swift` | engine, tap, `isCapturing`, locked PCM buffer, debounced restart | `startCapture`, `stopCapture`, `reset`, tap callback, device notifications, restart and retry | microphone open only during a recording; no audio of one recording in another; nothing kept afterwards |
| **Pipeline** `WhisKeyCore/Pipeline/TranscriptionPipeline.swift` | `isRecording` and settings, on a reentrant actor | `startRecording`, `stopAndTranscribe`, `reinjectText`, setters | flag agrees with the recordings; every call returns; every recording ends once |
| **App delegate** `WhisKeyApp/main.swift`, HUD views | `recordingState`, status icon, HUD, `transcriptionTask`, idle timer after errors | hotkey callbacks, pipeline callbacks, timers | the user sees whether the microphone is open; the app comes to rest |
| **Speech recognition** `WhisKeyCore/ASR/WhisperBridge.swift`, `CWhisper/whisper_bridge.cpp` | lazily loaded C context | `transcribe`, `resetContext`, `warmUpWhisper` | a context is freed once and not while in use; a call uses the selected model and ends |
| **LLM cleanup** `WhisKeyCore/LLM/*.swift`, `CLlama/llama_bridge.cpp` | context and its memory, sticky `modelMissing` | `cleanup`, warm-up | prompts do not mix; every cleanup is answered |
| **Text injection** `WhisKeyCore/Injection/*.swift` | the system clipboard, the focused element | accessibility, then pasteboard, then key events | a text arrives once; the clipboard is given back; overlapping deliveries do not mix |
| **Model downloads** `WhisKeyCore/Models/ModelManager.swift` | status per model, live delegates | download, cancel, delete, rescan, three callbacks | late callbacks leave no entry behind; the active model exists and is one for transcription |
| **Snippets** `WhisKeyCore/Snippets/*.swift` | cache and file | load, save, delete, import, reset, count a use | cache agrees with the file; a failed read or write loses nothing |
| **History** `Storage/Database.swift`, `HistoryStore.swift`, `HistoryViewModel` | SQLite table, list, countdowns | insert with trimming, load, delete, clear, reinject, cancel | list agrees with the table; a tap injects at most once, a cancelled one never |
| **Tensor computation** `CGGML/ggml-cpu/ggml-cpu.c` | thread pool: two barrier counters, packed graph number, chunk counter, mutex and condition | `ggml_barrier`, `ggml_graph_compute`, kickoff, pause, resume, free, worker loop | all nodes computed once, in order; no lost wakeup; no worker reads what is being reset |
| **Tensor memory** `CGGML/ggml-alloc.c` | chunks of free blocks, reader and view counts, plan, buffers | best-fit allocation, freeing, graph walk, reuse in place, reuse of the plan | tensors do not overlap while they are read; plans fit their buffers |
| **Settings** `Storage/SettingsManager.swift` | cache over a table | get, set | a setting that was shown was stored, and reaches who uses it |
| **Network activity** `Privacy/*.swift` | sticky state, capped log, 60 s window | record, evaluate, clear | an unexpected connection is never forgotten unseen |
| **Text algorithms** `SilenceTrimmer`, `FillerScrubber`, `VoiceCommandProcessor` | none | pure functions | output bounded by, and made of, the input |
| **Context, profiles, vocabulary** | small lists | lookups | - |
| **Permissions, notifications, logging, views** | - | system calls, drawing | - |
| **Other vendored C and C++** whisper.cpp, llama.cpp, the rest of ggml | weights, graphs, caches | loading, kernels, quantization, sampling | - |

### How the parts interact

```
 keyboard --CGEvent tap--> HotkeyManager --four callbacks--> AppDelegate (main thread)
                               ^                                |   Task per gesture
              syncBindings     |                                v
   Settings / Bindings --------+                   TranscriptionPipeline (actor)
                                                     |  isCapturing   |  await Whisper, LLM,
       device notifications (main queue)             v                v  injection, database
              +--------------------------> AudioCaptureService      services
                                                                     |
                  AppDelegate, HUD <---- onMicOpen / onError / onTranscriptionReady (hop to main)
```

* The hotkey's callbacks run on the main thread and each starts an unstructured `Task` that calls the actor.
* The actor is reentrant: between two `await`s of one call any step of another may run. Its synchronous calls into the capture
  service (`engine.start()`, the 80 ms drain) hold the actor, but not the main thread.
* The capture service is a plain class. Only its PCM buffer is locked; its flags are written by the actor's thread and by the
  restart on the main queue.
* Whisper and the local LLM are actors of their own, but both run the C code on a thread outside the actor, with a bare
  pointer to the context. Underneath, ggml computes each graph with a pool of threads and lays its tensors out beforehand.
* The pipeline's callbacks hop to the main thread, where the app posts one more task for each state change.

### What is hard about it

Timers that race key releases; duplicated and auto-repeated key events; a debounce that loses edges; reentrancy between
overlapping recordings; cancellation of the previous transcription by the next stop; device changes that restart the engine
around a start or a stop; error timers that outlive the error; settings applied in the middle of a gesture; the clipboard as
shared memory between injections; late download callbacks; contexts used off the actor that owns them; tap callbacks that
append after the buffer was taken; a barrier that is used again while a slow thread is still leaving it, and fields reset
without a lock between two graphs; memory given away in the middle of a walk; lists that two windows or two awaits see in
different orders. `PROJECT.json` lists each of them under `hazards` at the line where it bites, with the properties that cover
it or a note on why none does.

## 2. Modules

| Module | Models | Lines of code it stands for |
|---|---|---|
| `GestureSession` | the abstract promise of the hotkey to its client | the four callbacks in `HotkeyManager.swift` |
| `HotkeyManager` | gesture machine, keyboard, debounce, timers, settings | `HotkeyManager.swift`, `HotkeyDispatcher.syncBindings`, the observer in `main.swift` |
| `HotkeyBindings` | the store of bindings, the rows that record them, the taps that follow | `HotkeyBindingStore.swift`, `HotkeyDispatcher.swift`, `HotkeySettingsViewModel.swift` |
| `AudioCapture` | microphone, tap, buffer, device changes | `AudioCaptureService.swift` |
| `TranscriptionPipeline` | `startRecording` and `stopAndTranscribe` on the actor; extends `AudioCapture`, instantiates `GestureSession` | `TranscriptionPipeline.swift`, the two Tasks in `main.swift` |
| `AppDelegate` | icon, popover state, HUD and error timer; extends `TranscriptionPipeline` | `main.swift` callbacks and transitions, HUD views |
| `WhisperBridge` | the actor around whisper.cpp and its inferences | `WhisperBridge.swift`, `whisper_bridge.cpp` |
| `LlamaCppProvider` | the actor around llama.cpp and its completions | `LlamaCppProvider.swift`, `llama_bridge.cpp` |
| `Injection` | delivering a text, and the clipboard | `Injection/*.swift`, the output dispatch of the pipeline |
| `ModelDownloads` | downloads, deletion and selection of model files | `ModelManager.swift`, `ModelStatus.swift`, the picker's SET ACTIVE |
| `SnippetStore` | cache and file of snippets, the settings' copies | `SnippetStore.swift`, the snippet settings |
| `HistoryPanel` | history table, the popover's list, the countdowns | `Database.swift`, `HistoryStore.swift`, `HistoryViewModel.swift` |
| `TeamBarrier` | abstract: what a barrier promises a team of threads | the contract of `ggml_barrier` |
| `GgmlBarrier` | the barrier made of two atomic counters | `ggml_barrier` |
| `GraphCompute` | abstract: a graph is computed stage by stage, each piece once | the contract of `ggml_graph_compute` |
| `ThreadPool` | workers, kickoff, pause, stop, abort, chunks; extends `GgmlBarrier` | `ggml-cpu.c` |
| `DynTallocr` | best-fit allocator of chunks | `ggml_dyn_tallocr_*` in `ggml-alloc.c` |
| `GraphAlloc` | the graph allocator; extends `DynTallocr` | `ggml_gallocr_*` in `ggml-alloc.c` |
| `HotkeyManager_proofs`, `ModelDownloads_proofs`, `Injection_proofs` | theorems about the module they are named after | - |
| `TranscriptionPipeline_proofs` | theorems about the pipeline alone and with `AppDelegate` | - |
| `ThreadPool_proofs` | theorems about `GgmlBarrier` and `ThreadPool` | - |
| `GraphAlloc_proofs` | theorems about `DynTallocr` and `GraphAlloc` | - |
| `Models_proofs` | theorems about `WhisperBridge` and `LlamaCppProvider` | - |
| `Windows_proofs` | theorems about `HotkeyBindings`, `SnippetStore` and `HistoryPanel` | - |
| `MCHotkey`, `MCPipeline`, `MCDictation`, `MCServices`, `MCWindows`, `MCThreadPool`, `MCGraphAlloc` | the modules TLC is run on | - |

Definitions keep the source's names wherever TLA+ allows it. Definitions called `Faulty...` are plausible bugs (a dropped
guard, a missing reset, a lost resumption). No action uses them; each takes the place of the definition after it to
demonstrate that the property listed with it under `mutants` can fail.

*Refinements.* `HotkeyManager` implements `GestureSession` (`SessionProtocol`), whose actions drive the pipeline;
`GgmlBarrier` implements `TeamBarrier` (`BarrierHolds`); `ThreadPool` implements `GraphCompute` (`ComputesGraph`), and its
steps, seen through the barrier's variables, are steps of `GgmlBarrier` (`BarrierSpec`).

*Sums.* `MCServices` and `MCWindows` put components side by side that share no state. Each execution is one of one of them,
chosen by `service` or `window` in the initial state, so that one run answers for all of them without interleaving what cannot
interact. They are not products: nothing is claimed of two of them at work at once.

### HotkeyManager

*State.* Each variable of the first group is a field of the class, `timer`/`timerLeft`/`armed` the pending task with the
window it captured. Timestamps become ages that saturate at the largest constant they are compared with; one `Tick` is 10 ms,
which puts the 50 ms debounce at 5, the 80 ms accidental tap at 8 and the shortest window of the slider at 20.
*Actions.* `PressKey` and `ReleaseKey` are physical edges; `handleEvent` translates them as the event tap does, with
`handleKeyDown` and `handleKeyUp` behind the two debounces, each one atomic step because the callback runs on the main thread
without suspending. `DuplicateEdge` is the second `flagsChanged` macOS sends for a modifier, `AutoRepeat` the repeated
`keyDown` of an ordinary key. `holdTimerFired` and `tapPendingTimerFired` are the two tasks, run at the deadline or up to
`MaxLate` after it. `SyncSettings` is `syncBindings` with any values: the model does not assume when, or with what, the rest
of the program calls it.
*The client.* `session` records what the callbacks announced and becomes `"broken"` on a callback out of turn. `HotkeyManager`
implements `GestureSession` (`SessionProtocol`), and `TranscriptionPipeline` is driven by the actions of `GestureSession`:
this is where the two models meet.

### AudioCapture

Audio is reduced to whose speech it is: the number of the recording whose user speaks, or `Nobody`. Three threads meet here.
*The actor's* calls are split where they are slow: `startCapture` into `installTap` up to `engine.start()` and `engineStarted`
after it, `stopCapture` at its 80 ms drain (`StopCapture`, `CaptureStopped` in the pipeline). *The tap's* callback is two
steps: `TapDelivers` when the tap has called, and `handleAudioBuffer` when the samples are appended under the lock, whatever
has become of tap and engine in between; nothing in the code ends a callback that is under way. Its samples are `inFlight`,
and turn into `Stray` when the buffer is cleared before they arrive, so that what was meant for the cleared buffer can be told
from later speech. *The main thread's* restart is three steps: the work item tears everything down and clears the flag
(`restartCapture`), reads the format and installs a tap (`restartInstallsTap`), and sets the flag when `engine.start()` has
returned (`engineRestarted`). Steps of the other two may fall in between, which the code neither locks out nor checks for; the
main thread itself is busy until the restart returns (`MainFree`), so jobs on the main queue, hotkey callbacks and timers
wait. A device change posts a notification (`Notified`), which schedules one work item (a later one replaces it); a restart
without input format schedules an uncancellable retry (`RetryRestart`). The converter is not a variable: a callback that finds
none, or whose conversion fails, appends nothing, which `handleAudioBuffer` always allows. Installing a tap over a tap is
taken to replace it, where AVFoundation raises an exception.

### TranscriptionPipeline

A step is what runs between two `await`s. Calls queue in `mailbox` and hops in `mainQueue`, served in order; `actor` holds the
synchronous call that blocks the actor's thread. `phase[u]` is where recording `u` stands, from `starting` to one of seven
ends. Cancellation (`Cancelled`) is derived: each stop cancels the task of the stop before it. Every early return of
`stopAndTranscribe` is an end of its own, because only two of them call back. The callbacks are parameters (`tasks`,
`started`, `micOpen`, `error`, `ready`): a client passes the jobs its callbacks post, and `PipelineNext` is the pipeline with
a client that posts none.

### AppDelegate

The jobs that the callbacks post are `ShowRecording`, `ShowHandsFree`, `ShowError` and `ShowIdle`; each is a second hop on the
main thread, behind whatever was queued before it, which is the reordering the properties are about. `IdleTimerFires` is the
three-second task of `transitionToError`, uncancelled by anything. None of these jobs touches a variable of the pipeline
besides the queue they wait in, so the pipeline's own invariants are checked on the smaller specification, with the devices
changing as well, and proved of both.

### ModelDownloads

*State.* The manager's dictionaries are sets (or, for `activeTasks`, a function): of a progress only whether there is an entry
matters, of the list only its members, because nothing but the choice of a replacement depends on the order (`Replacements`
allows every one of the rest). `disk` and `activeModelID` outlive the process.
*Actions.* `downloadModel`, `cancelDownload`, `deleteModel`, `setActive` and `rescanModelsDirectory` are the buttons and the
settings pane's refresh; `didWriteData`, `didFinishDownloading` and `didCompleteWithError` are what URLSession tells the
delegate; `handleProgress`, `handleCompletion` and `handleError` are what the main actor makes of it later. The delegate knows
only the model, so `Forget` clears the entries of the model whichever of its tasks reports. The reports of one task are
handled in order; those of two tasks may be taken in any order, as each could have been sent later. `FailingSteps` names the
file operations that may fail. `Relaunch` is a quit or crash between two handlers and the next start.

### WhisperBridge

*State.* A context is its place in `loaded`, the history of contexts created, which records the file each was made of; `freed`
counts how often each was freed. Per call: the context whose pointer it took, what its inference is at, and what the task
group gave first.
*Actions.* The actor takes one call at a time, but `transcribe` ends its turn when it has handed the bare pointer to the
global queue. From then on `resetContext` (through `modelFileName`), another `transcribe` and `warmUpWhisper` may come in.
`WarmedUp` ends the one call that keeps the actor. `StopWaiting` is the timeout or the cancellation, which only decides the
outcome: the task group still waits for the inference (`TranscribeReturns`). A transcription is abstracted to whether it has a
text; the bridge returns an empty string for every failure. `overtaken` is the history of calls whose inference was still to
end when a model was selected: those go on with a context that has been freed.

### LlamaCppProvider

A completion is a sequence of steps off the actor: clear the memory, decode the prompt, then sample and decode token by token
until the end token, `MaxTokens` or a full memory. Tokens are reduced to the cleanup they belong to, so `memory` and `seen`
tell whether anything was computed from another cleanup's text. `PassThrough` is every way to answer with the transcript
itself, the sticky `modelMissing` among them. A prompt longer than the batch ends the process (`aborted`), as llama.cpp's
assertion does.

### Injection

Each delivery has a plan, `left`: the strategies that its method still allows, in order. A strategy succeeds or fails as the
front application pleases; the pasteboard strategy saves the clipboard, puts the text, posts Command-V and arranges for the
restore. When the paste is served, and when the timer fires, are steps of their own, so deliveries, restores, output modes and
a user who copies meet on the clipboard in every order. `InjectCGEvent` is one step for the key events that a background queue
posts 5 ms apart; that an event which cannot be made is skipped, and that a character outside the first 16 bits is cut, is left
out with the text itself. `intended` is what the user or an output mode last wanted there, and
`disturbed` records that somebody wrote while a restore was pending. A picture is told apart because only a string is saved.

### HotkeyBindings

*State.* `cache` and `saved` are the store and UserDefaults, which announce each change by a task (`syncDue`) that runs
`syncBindings` later. The rows have one event monitor, one recording action, conflicts, and confirmations that end after two
seconds. *Actions.* Recording, capturing a key (refused when it is reserved or taken), cancelling, clearing, the confirmation's
end, the task, and `LaunchAgain`, which seeds the default again. `HotkeyManager.SyncSettings` is what `syncBindings` does at
the other end: there the values are arbitrary, but a key is only changed at rest unless `RebindBusy` is set. The second tap
keeps key codes only and ignores the modifiers (`HotkeyDispatcher.swift:199`): two combinations on one key both fire there.

### SnippetStore

The calls of this actor never suspend, so each is one step. `shown` is the list the settings read last: saving one of its
members writes that copy back, whatever happened to the snippet since (a stale copy also takes the use count back). While the
file cannot be read (`readable`), a store that has not loaded it refuses every call but an import or a reset. `kept` is the
user's view: what was saved and not deleted, replaced or reset. A merge import over a file that cannot be read starts from
nothing and replaces it; the model counts this as asked for and the hazard names it.

### HistoryPanel

`table` is what SQLite holds, `entries` the list. An insertion with its trimming is one transaction and the notification a
step of its own; `load`, `delete` and `deleteAll` await the store between what they do there and what they do to the list. The
store trims with each insertion, the list in front of it never does: `trimmed` holds the entries that are gone from the table
and still shown, until the next load. `outOfStep` records what the list does not recover from before that: that two of insert,
load, delete and clear overlapped, that an entry was stored after a later one, or that a deletion failed. Each tap on a row is a
loop with its own seconds left; a cancel only writes the row's state, which the loop looks at once a second. Sleeps end in the
order of their ends. `isInjecting` disables the rows' buttons but not their context menus (`HistoryRowView.swift:233`), so
`Reinject` and `DeleteRow` do not ask for it; the first of two injections to end clears it.

### GgmlBarrier and ThreadPool

A step is one access to shared memory. `GgmlBarrier` has the two counters, the local copy of `n_barrier_passed` that each
thread spins on, and the reset by the last thread. `ThreadPool` adds the worker loop (poll, then sleep under the mutex), the
packed graph number that a kickoff increments together with the number of threads, pause and resume, stop and join, the abort
mark that thread 0 sets between nodes, and the chunk counter of a matrix product, which starts at the number of threads.
Condition variables may wake spuriously. `GraphCompute` knows of none of this: stages, pieces, and a caller who is told when
all are done.

### DynTallocr and GraphAlloc

`DynTallocr` is the chunk allocator: the smallest fitting hole of the last chunk that has one before its end (`BestInner`),
else the final block of the chunk that would waste or grow least (`BestLast`), else a new chunk; freeing merges with the holes
on both sides, and may free the end of a block only. The last chunk there may be is endless, as in the code. `live` is the
history of blocks handed out. `GraphAlloc` is the walk: it counts readers and views beforehand (`n_children`, `n_views`),
gives each node a place, its parent's when it may, and then takes back what nobody reads any more. It goes one tensor at a time
(`node`, `step`), as the loops of the code do: the parents of a node get their places, then the node itself, then each parent
is released. The plan is kept, compared by sizes with the next graph, and buffers are made anew when they are too small. Sizes
are in alignment units.

A tensor has its sources and, apart from them, the tensor that it is a view of (`view`), which is never a view itself, since
`ggml_new_tensor_impl` resolves views of views. So there are chains of reshapes and permutes, whose readers are counted on each
view and whose views are counted on the root; operations that write into another tensor (`cpy`, `set_rows`); external tensors
(weights, the cache), which get no place; output views; and the views without an operation by which the scheduler keeps a
tensor. Inputs are leafs, as wherever `ggml_set_input` is called, so that allocating them early does nothing more. `Owners` are
the tensors the allocator places.

## 3. Runs

| Run | Bounds | Checks | Distinct states |
|---|---|---|---|
| `hotkey` | 4 keys (watched Option, other Option, Shift, F5), windows 200 and 220 ms | `TimerMatchesState`, `RecordingNeedsHeldKey`, `OnePressOneEdge`, `PttAfterFullHold`, `SessionProtocol`, `PressResolves` | about 128 000 |
| `pipeline_device` | 2 recordings, 2 device changes, engine may fail | `FlagFollowsRecording`, `NoStaleAudio`, `NothingLeftBehind` | about 3 243 000 |
| `dictation` | 2 recordings, no device changes, engine may fail, tap callbacks while `stopCapture` drains | `FlagsAgreeAtRest`, `FeedbackFollowsMic`, `DeliveredThenIdle`, `CallsReturn` | about 409 000 |
| `services` | Whisper: 2 calls, 2 files, 2 contexts. LLM: 2 cleanups, memory of 3, 2 tokens, prompts up to 4. Injection: 2 deliveries, 1 copy by the user | `FreedOnce`, `UsesSelectedModel`, `OwnPromptOnly`, `InjectedOnce`, `PastesItsText`, `ClipboardReturns`, `TranscribeEnds`, `CleanupEnds` | about 142 000 |
| `windows` | downloads: 2 models (one of each kind), 3 tasks, 3 operations that may fail. Hotkeys: 3 actions, 4 combinations, one reserved. Snippets: 2 triggers, 3 ids, 1 use. History: 3 entries, 2 retained, 2 loads, 2 countdowns | `ProgressHasTask`, `KnownTaskIsAlive`, `ActiveIsDownloaded`, `CombosUnique`, `OneRowRecords`, `KeepsWhatIsSaved`, `ListIsTable`, `InjectedOncePerTap` | about 479 000 |
| `thread_pool` | 3 threads; a product, an empty node and a row operation; 8 chunks; 2 graphs; abort | `WorkersQuiet`, `BarrierSpec`, `BarrierHolds`, `ComputesGraph`, `CallsReturn` | about 212 000 |
| `graph_alloc` | chunks of 4 units, 3 chunks, the last of 12; graphs of 3 nodes in 2 sizes, of 3 nodes with output views, external leafs and writers, of 4 and of 5 nodes with chains of views; 2 rounds; or the allocator alone with 4 blocks | `NoOverlap`, `WithinBuffer`, `HolesAreWhole`, `ReadsWhatWasWritten`, `OutputsStay`, `InBuffer` | about 306 000 |
| `hotkey_bounce` | 1 key that may bounce | violates `PttAfterFullHold` | - |
| `late_restart` | 1 recording, 1 device change | violates `FlagsAgreeAtRest` | - |
| `hands_free` | 1 recording, engine may fail | violates `HandsFreeMicOpen` | - |
| `shared_context` | 2 calls, 1 context | violates `ContextUsedAlone` | - |
| `graph_topology` | 2 chains of 3 nodes, the last of which reads the second or the first | violates `ReadsInEveryGraph` | - |

*Why these bounds.* In `hotkey` the four keys are one of each kind the code tells apart, and two windows let a setting change
while a timer with the other window is armed. Nothing in the machine counts presses, so longer histories revisit the same
states. In the pipeline each stop cancels only the stop before it and the flag is shared by neighbours, so two overlapping
recordings meet every pairwise interleaving; for more of them the flag, the buffer and the display are proved. Two device
changes let a restart capture after a stop and the next one fail over its samples, and run two restarts beside any start or
stop, with their retries; for any number of them the same safety is proved.
`MaxInFlight` bounds unfinished recordings, not the total. In `pipeline_device` any set of callbacks may be under way at once
and for any time. In `dictation`, which does not ask whose audio is heard, a callback comes only while `stopCapture` drains
and ends before anything else happens (`PromptCallbacks`): what counts there is whether a recording has audio when the drain
ends, nothing reads the buffer before, and without device changes the tap stays until then. `CallsReturn` is checked there, without device changes: a restart
holds the main thread only until `RestartReturns`. In `services` two calls are a pair that can share, overlap or replace a context or a clipboard, the LLM's
memory of three is full within two short cleanups, and a prompt of four does not fit it. In `windows` three tasks let a
cancelled download, its successor and a third that slips in between coexist for one model, or two for one and one for the
other; tasks are interchangeable, and so are the countdown loops, so their symmetry is sound: the run checks invariants and an
action property. Three actions are the default and two of the second tap, enough for a combination to be taken, cleared and
taken back over a relaunch. Three entries and a table of two are the least for a list whose order matters and that shows a
trimmed entry. Rows are tapped only in executions with one entry, because two loops meet on the row of one; two counting
entries share only `isInjecting`, and the proof of `InjectedOncePerTap` covers any number. In `thread_pool` three threads are
the least for which one can be two steps behind another while a third is between; two graphs with different numbers of threads
show every hand-over from one graph to the next; eight chunks are enough for two threads, who share them by the counter, and
too few for three, who get one each: both branches of the code. In `graph_alloc` three nodes and two sizes are what it takes to
meet a hole that is too small, too large and just right, four nodes to free a tensor behind two views or readers, and five for
a node, a chain of two views on it, and two nodes that might be given its place while the chain is still read.

*Why the systems may stop.* Most runs set `CHECK_DEADLOCK FALSE`: recordings, calls, deliveries, graphs and loads are bounded,
and when they are used up nothing is left to do. `hotkey` and `hotkey_bounce` check deadlock, since a keyboard always accepts
something. Where stopping would be an error, a liveness property says so (`CallsReturn`, `TranscribeEnds`, `CleanupEnds`, `PressResolves`).

### What the passing runs show

* Sessions alternate whatever the keyboard, the timers and the settings do, and the abstract `GestureSession` is implemented.
* On a keyboard that does not bounce no release is lost, a press of a key that does not auto-repeat counts once, and
  push-to-talk needs a full hold. A hotkey that repeats cannot put off the decision, but is accepted twice (`NextTapStops`,
  below).
* `isRecording` follows the recordings however starts and stops overlap; without device changes the two flags agree.
* Under device changes and engine failures, with restarts beside starts and stops, no recording hears what was said before it
  began and nothing remains in memory, but for the samples of a callback that was under way when the buffer was cleared
  (below); every call returns, although the microphone may stay open (below).
* An open microphone comes to be shown, and the app ends idle after its last delivery.
* Whisper's contexts are freed once each; an inference works on the actor's own live context of the selected model unless a
  selection overtakes it (below), and a call ends when its inference does.
* A completion that no other overlaps is computed from its own prompt, also on a memory that an earlier one filled; every
  cleanup is answered, unless its prompt exceeds the batch.
* A delivery is made by one strategy, and by some strategy while the permission is there; what is pasted is its text and the
  clipboard comes back, provided that nobody writes to the clipboard within the 150 ms, which the hazards are about.
* Progress entries and known tasks never outlive their downloads, although the late error of a cancelled download makes the
  manager forget the task that replaced it; the active model stays on disk unless a downloaded file cannot be moved into place.
* Two actions share a combination only if a relaunch has brought back a default that had been cleared and given away; one row
  records at a time, however late a confirmation ends.
* The file holds exactly the snippets that were saved and not deleted, replaced or reset since, and the cache is never anything
  else, whichever reads and writes fail.
* The history list is the table, with what was trimmed since the last load behind it: from entry 501 on it shows entries that
  are gone. This is so unless, since that load, changes overlapped, entries came in the wrong order or a deletion failed. A
  re-injection happens at most once per tap and not after a cancel that nobody took back, from buttons and context menus. A
  second tap's countdown may be cut short by the loop of the first, and be lost when the row's last injection ends under it.
* Every graph is computed stage by stage and every chunk once, for every way that threads poll, sleep, are paused and woken; no
  wakeup is lost, and no worker still looks at the graph, the plan or the abort mark when the caller resets them.
* Blocks and holes tile the chunks. In graphs for which the plan was made, or that differ from it in sizes only, nodes find in
  memory what was written for them, and outputs last unless they are views that a later node reads (below). A plan that is used
  again fits its buffers, whatever the graph, but for leafs that no node reads.

### What the violations show

* `hotkey_bounce`: the header says that any press released in under 80 ms is dropped. A release within 50 ms of the last
  accepted one is not seen, so a tap, a bounce and a short press read as one hold, and recording starts with the key up or held
  too briefly.
* `late_restart`: a comment says that `isCapturing` and `isRecording` always move together. The restart scheduled by a device
  change does not look again after its 300 ms; if the recording has stopped by then it reopens the microphone with nothing to
  close it, and the next start fails.
* `hands_free`: a comment says that the microphone is open once `startRecording` has returned. It returns after failures too,
  and the app announces hands-free recording all the same.
* `shared_context`: a comment calls WhisperBridge a thread-safe actor that manages a single context. An inference runs outside
  the actor, so another call uses the context at the same time, or `resetContext` frees it underneath.
* `graph_topology`: the header promises automatic reallocation if the topology changes. Only sizes are compared; a graph of as
  many nodes with the same sizes, wired otherwise, keeps the plan, and a node reads what another has overwritten. Whether
  llama.cpp or whisper.cpp ever build two such graphs in a row is not modelled.

### Stated, and false

Some modules state more than holds, next to the property that does. No run checks these; they tell a reader where the limits
are. `WhisperBridge.TimeoutReturns` (under `HungSpec`, where an inference may hang): the 30-second timeout cannot be delivered
before the inference ends. `LlamaCppProvider.NeverKills`: a prompt of more than 512 tokens ends the app.
`Injection.ClipboardAsIntended`: `ClipboardReturns` without its conditions. `HotkeyManager.NextTapStops`: the header says that
the next tap stops a hands-free recording, but a hotkey that auto-repeats, held at the second tap, is accepted again as soon as
the recording is on, and its own release stops it. `TranscriptionPipeline.OwnAudioOnly`, which is `NoStaleAudio` without its
exception: a comment says that in-flight tap callbacks are drained, but the drain is a sleep of 80 ms, and a slower callback
appends after the buffer was taken, for the next recording to hear. `GraphAlloc.EveryOutputStays`: the header says that outputs
are never overwritten, but the flag of a view is not looked at when the tensor that it views is freed.
`ModelDownloads.SelectsForTranscription`: a comment calls `activeModelID` the model selected for transcription, but a deletion
selects any remaining model, and a first completed download selects itself, also when it is the cleanup model, which
WhisperBridge is then told to load. TLC refutes these four within seconds: on one repeating key, on two recordings, on a
graph with an output view and two more nodes, and on two models.

## 4. Fairness

* `HotkeyManager`: time passes, and a timer task that is due runs (Swift's `Task.sleep` and the main actor). The user is never
  obliged to press or release.
* Pipeline: weak fairness on the actor's and the main thread's steps together: the program does not stop while either has a
  job it can run or a service owes an answer. Both serve FIFO queues and the recordings are bounded, so each queue gets its
  turn without a stronger assumption. A restart that has begun is one of these jobs (`RestartReturns`: `engine.start()` returns
  or throws). That a service answers is what `TranscribeEnds` and `CleanupEnds` check of the services themselves. No fairness
  on devices, on the speaker or on the user; that a tap callback ends is part of `PromptCallbacks`.
* App: the same, with the idle timer.
* `WhisperBridge`: a warm-up ends (`WarmedUp`), inferences end (`InferencesEnd`), the timeout runs. A call that can return
  does so although the actor may be taken again and again by others: strong fairness on `TranscribeReturns`, which stands for
  the actor's queue being served in order.
* `LlamaCppProvider`: weak fairness on each completion (`CompletionsRun`), which is a thread of its own. Nothing obliges the
  model to end its answer.
* `ThreadPool`: weak fairness on each thread, as the scheduler gives it. No fairness on pausing, on aborting or on spurious
  wakeups.
* `ModelDownloads`, `HotkeyBindings`, `SnippetStore`, `HistoryPanel`, `Injection` and `GraphAlloc` need none: their properties
  are invariants and action properties. `ProgressHasTask` is the safety half of "every progress bar goes away".

## 5. Proofs

TLAPS proves the following for every value of the constants that the modules' assumptions allow. TLC evaluates those
assumptions in the runs of the same modules.

### The hotkey (`HotkeyManager_proofs`)

| Theorem | States |
|---|---|
| `Typing` | `Spec => []TypeOK` |
| `TimersMatchStates` | `Spec => []TimerMatchesState` |
| `ImplementsSessions` | `Spec => SessionProtocol` |
| `RecordingOnlyWhileHeld` | `CleanKeyboard /\ Spec => []RecordingNeedsHeldKey` |
| `PressCountsOnce` | `CleanKeyboard /\ Spec => []OnePressOneEdge` |
| `PttNeedsFullHold` | `CleanKeyboard /\ Spec => PttAfterFullHold` |

*The argument.* `MachineInv` says that a timer is pending exactly in the state that waits for it and that the announced
session is a function of the state (`SessionOf`). It is inductive with `TypeOK`, and gives the first three theorems: a timer
whose state has moved on does not exist, so every callback finds the session it expects.

The other three are about edges the debounce drops, and are false on a bouncing keyboard, which is what `hotkey_bounce` shows.
`CleanKeyboard` is the precise condition: two presses, and two releases, of the watched key are at least a debounce interval
apart; the binding changes only at rest; no second Option key is held along with a watched modifier (the code reads the shared
Option flag). `KeyInv` then compares clocks: the stop clock never runs behind the last release (`StopClock`), nor the start
clock behind the last press (`StartClock`), and the age of the press the machine believes in is bounded by the physical one
(`PressClock`). An edge that physically happens is therefore always accepted, and the machine and the finger cannot disagree.
The `hotkey` run uses `CleanKeyboard`'s values for its constants, and TLC evaluates all three assumptions.


### The pipeline and the app (`TranscriptionPipeline_proofs`)

| Theorem | States |
|---|---|
| `PipelineInvariant` | `PipelineSpec => []FlagInv` |
| `FlagFollows` | `PipelineSpec => []FlagFollowsRecording` |
| `NothingStaleHeard` | `PipelineSpec => []NoStaleAudio` |
| `MemoryIsCleared` | `PipelineSpec => []NothingLeftBehind` |
| `FlagsAgree` | `MaxDeviceEvents = 0 /\ PipelineSpec => []FlagsAgreeAtRest` |
| `AppKeepsPipeline` | `Spec => [](FlagFollowsRecording /\ NoStaleAudio /\ NothingLeftBehind)`, of the whole app |
| `AppFlagsAgree` | `MaxDeviceEvents = 0 /\ Spec => []FlagsAgreeAtRest`, of the whole app |
| `ShowInvariant` | `Spec => []ShowInv` |
| `DisplayComesToRest` | `Spec => []DisplayAtRest` |

`FlagInv` holds the order of the two queues. A start and a stop of recording `u` get the keys `2u` and `2u + 1`; the jobs that
wait in the mailbox are sorted by them (`OrderInv`), so a stop is behind its own start and ahead of every later start.
`PhaseInv` ties each recording's phase to the jobs it has, and `RecordingInv` says that at most one records and that the flag
says so. `HeardInv` adds that a stop is a single thread of steps, and that the buffer of a recording that listens holds only
speech from its beginning on: a failed start, a restart or an older stop may empty it but not bring back what was said before.
What is `inFlight` is part of both: a callback either finds the buffer it was meant for, or the clearing has made its samples
`Stray`, which is the exception that the two statements make (`OwnAudioOnly` fails). `BufferInv` is the
complement: what was said in a recording is in memory, or on its way there, only while some recording is on its way to clear it.
None of this depends on where the restart is, so restarts beside starts and stops are covered by the same proof.
`FlagsAgree` needs that nothing but a recording opens the microphone (`OpenInv`), which a device change breaks, as
`late_restart` shows.

*Any client.* These invariants are proved of `ClientSpec`, the pipeline with a client whose callbacks post any sequences of
jobs to the main thread and whose jobs run there without touching the pipeline. Such jobs push the pipeline's own apart and
never out of order. `PipelineSpec`, whose client posts nothing, is one instance (`NoClient`), and the app, whose handlers post
their tasks, is another (`AppIsClient`). The theorems above follow by the first, and those about the app by the second.

*What the app shows.* The icon, the HUD and the popover are written by tasks of different recordings, by error timers and by
the hotkey's callbacks, and nothing but the order of the two queues keeps them right. `Orderly` states that order for any
client. Once the last session is closed and its stop is under way, what earlier starts still have to do on the main thread is
ahead of the stop's hop to it, and their way back to the actor is ahead of the stop's: when the last recording has its samples,
no start has anything left to do (`StopOrder`). `ShowInv` uses it for the display. When the last text is delivered, nothing
shows a recording any more, or the task that clears the display waits behind every task that does; an open microphone is on the
HUD or about to be; and an error is shown only while its timer runs. `DisplayAtRest` is what is left of that when the main
queue is empty: the safety half of `FeedbackFollowsMic` and `DeliveredThenIdle`. That the main thread comes to empty its queue
is liveness and stays with TLC. `Orderly` and `ShowInv` were checked by TLC as invariants before they were proved.

### The services (`Models_proofs`, `Injection_proofs`)

| Theorem | States |
|---|---|
| `WhisperInvariant` | `WhisperSpec => []WhisperInv` |
| `ContextsFreedOnce` | `WhisperSpec => []FreedOnce` |
| `SelectedModelUsed` | `WhisperSpec => []UsesSelectedModel` |
| `LlamaInvariant` | `LlamaSpec => []LlamaInv` |
| `PromptsApart` | `LlamaSpec => []OwnPromptOnly` |
| `InjectionInvariant` | `InjectionSpec => []InjectionInv` |
| `DeliveredOnce` | `InjectionSpec => []InjectedOnce` |
| `PastesOwnText` | `InjectionSpec => []PastesItsText` |
| `ClipboardRestored` | `InjectionSpec => []ClipboardReturns` |

`WhisperInv` says that the actor's context was made of the file that is selected: a context that outlived the selection would
be handed to the next call. It also says that an inference at work which no selection has overtaken is on that very context, so
that neither a timeout, a cancellation, a warm-up nor another call can take it away (`UsesSelectedModel`). `LlamaInv` says that
a completion that was never overlapped has had the memory for itself since it cleared it; without the clearing the next prompt
would find the last one's tokens. `InjectionInv` describes what is left of each delivery's plan together with the number of
strategies that succeeded, and the clipboard while a restore is pending: undisturbed, at most one is, the clipboard holds that
delivery's text, and its timer will bring back what was intended.

### Windows and downloads (`ModelDownloads_proofs`, `Windows_proofs`)

| Theorem | States |
|---|---|
| `DownloadsTyped` | `Spec => []TypeOK` |
| `ShownDownloadsAreAlive` | `Spec => []ProgressHasTask` |
| `KnownTasksAreAlive` | `Spec => []KnownTaskIsAlive` |
| `ActiveModelOnDisk` | `Spec => []ActiveIsDownloaded` |
| `BindingsTyped` | `BindingsSpec => []BindingsTypeOK` |
| `EveryComboOnce` | `BindingsSpec => []CombosUnique` |
| `OneRowAtATime` | `BindingsSpec => []OneRowRecords` |
| `TapsKeepUp` | `BindingsSpec => []TapsFollowBindings` |
| `SnippetsTyped` | `SnippetSpec => []SnippetTypeOK` |
| `NothingLostUnasked` | `SnippetSpec => []KeepsWhatIsSaved` |
| `OneInjectionPerTap` | `HistorySpec => InjectedOncePerTap` |
| `ListShowsTable` | `HistorySpec => []ListIsTable` |

For the downloads, `TypeOK` is inductive only with `TaskInv`: a created task has a model, a last report means that the task is
over, and a progress report precedes it. On top of it `EntriesInv` joins the two entry properties, since a report clears
entries of its own model only. For the active model, `DiskInv` says that the whole list is on disk: a deletion may choose any
of it. `CombosUnique` needs the same of what is saved, because a relaunch reads it back. `TapsFollowBindings`, that the taps
watch the keys that are bound whenever no task is due, is proved and in no run. `CountdownInv` says that a row counts down
only for a tap that was not cancelled; the loop that gets to inject may be one whose own tap was cancelled, when another tap
has followed.

For the list of the history, `PanelInStep` says what is under way as long as no two changes overlap: nothing, a load, the
insertion of the newest entry, one deletion, or a clearing. In each the list differs from the table, with what was trimmed
behind it (`Kept`), by exactly what is still to come. The list is described by what it contains and by its order (`Listed`),
never by how it is computed; the lemmas say that putting the newest in front, cutting off what exceeds the limit and filtering
one out keep a list such a list. The model sorts with `Kth`, the k-th newest of a set, in place of a recursive sort, so that
the provers can use it.

### Threads (`ThreadPool_proofs`)

| Theorem | States |
|---|---|
| `BarrierInvariant` | `BarrierSpec => []BarrierInv` |
| `BarrierKeepsPromise` | `BarrierSpec => BarrierHolds` |
| `PoolInvariant` | `PoolSpec => []PoolInv` |
| `WorkersAreQuiet` | `PoolSpec => []WorkersQuiet` |
| `PoolUsesBarrier` | `PoolSpec => BarrierSpec` |
| `PoolBarrierHolds` | `PoolSpec => BarrierHolds` |
| `PoolComputesGraph` | `PoolSpec => ComputesGraph` |

`BarrierInv`, for any number of threads: the copies of `n_barrier_passed` are never ahead of it, threads on their way in have
a current one and belong to the team, `n_barrier` counts those that wait until the last thread has reset it, and one thread at
most is the last. The refinement calls a thread that has arrived waiting while its copy is current, and released when it is
behind.

`PoolInv` is about a team that computes a graph while slow threads are still on their way out of an older barrier. A thread
that the barrier has released counts as being behind it already (`at`), so that the whole team passes a barrier in the one step
that opens it. Then the pool is in one of three phases: `Resting`, when the caller has the graph back and every worker that
took part has seen it; `Working(r)`, when the whole team is between the barrier before stage `r` and the one behind it; and
`Aborting`, when thread 0 has set the mark and all leave by the next head of the loop. In `Working(r)` everything before stage
`r` is done and nothing after it is begun (`DoneBefore`), each thread's own piece is done exactly when it is past it
(`OwnPieces`), and the pieces claimed from `current_chunk` are done or being computed by one thread (`ChunksInv`). A node
without anything to do has no barrier, hence the stages are those with work, and `Place` says for every program point which
one its next barrier belongs to.

The caller's freedom between two graphs follows (`WorkersAreQuiet`), and so does that a kickoff finds nobody in the barrier,
which makes the pool's steps steps of the barrier (`PoolUsesBarrier`) and lends it the barrier's refinement. For
`PoolComputesGraph` the invariant gives that a piece somebody is at is of the current stage, not done and nobody else's
(`PieceIsFree`), and that the caller comes back to whole nodes only (`RestIsWhole`); each step then is one of `GraphCompute` or
a stutter. The proof of `PoolUsesBarrier` found that the early return of `ggml_barrier` for one thread (`BarrierAlone`) was
enabled in the model for a thread already inside a barrier of a larger team; it now asks that the thread is outside, as the
code does by being at the call.

### Tensors (`GraphAlloc_proofs`)

| Theorem | States |
|---|---|
| `TallocrInvariant` | `TallocrSpec => []TallocrInv` |
| `TensorsApart` | `TallocrSpec => []NoOverlap` |
| `BufferIsLargeEnough` | `TallocrSpec => []WithinBuffer` |
| `NoSplitHoles` | `TallocrSpec => []HolesAreWhole` |
| `GraphInvariant` | `GraphAllocSpec => []GraphInv` |
| `NodesReadWhatWasWritten` | `GraphAllocSpec => []ReadsWhatWasWritten` |
| `OutputsAreKept` | `GraphAllocSpec => []OutputsStay` |
| `TensorsInBuffer` | `GraphAllocSpec => []InBuffer` |

`TallocrInv` holds chunk by chunk (`Sound`): holes and blocks are disjoint, holes do not touch, and `max_size` covers the
blocks. The lemmas are about one chunk as two sets of blocks: splitting a hole and merging a freed part with its neighbours
keep it sound, the second because no two other holes touch the merged one.

`GraphInv` follows the walk for every graph, every size and any number of chunks. `Counts` says that the counters are what
they stand for: `n_children` the reads that are still to be released (a node that reads a tensor twice counts twice), `n_views`
the views that are still read. `OwnBlocks` gives each owner of a place a block of the tallocr to itself. `KeptWhileRead` is
the heart: a tensor that owns its place no more is no output, and nobody after the node at hand reads it, directly or through
a view. From it follows `PlacesApart`, which is a statement about the finished plan: a tensor lies over an earlier one only
when all that read that one come before it, but for the node that took the place over, which reads it while it writes.
`Reserved` and `AllFit` carry the plan to the next graph. That a counter is zero only when nobody is to come is a statement on
cardinalities, not on how a loop counts, which is why it needs no induction over the graph.

The theorems have no condition on the callers: the next graph may be any graph (`AnyTopology`). What they say of it depends on
whether the plan is for a graph like it (`PlanApplies`: the same wiring, what was of one size still is, and no leaf that is not
read has grown). A plan that has just been made always applies, and so does one that is used again for the same graph in other
sizes, but for the leafs. When a graph is wired otherwise and has the same sizes, `InBuffer` still holds, but for leafs that no
node reads, whose sizes are never compared, and `ReadsWhatWasWritten` claims nothing, since it is false there
(`graph_topology`). `OutputsStay` leaves out output views that a node reads, for which it is false (`EveryOutputStays`). The
parts of `GraphInv` were checked by TLC as invariants on graphs with chains of views, writers, external leafs and dependencies
before they were proved.

### Only model-checked

Every liveness property (`PressResolves`, both `CallsReturn`, `TranscribeEnds`, `CleanupEnds`, `FeedbackFollowsMic`,
`DeliveredThenIdle`): liveness under fairness is out of the provers' reach. Each other property of a passing run, invariant,
action property or refinement, is stated by a theorem.

## 6. Assumptions and abstractions

* Swift actors and the main queue serve jobs in the order they were enqueued. Swift promises this for the main queue and does
  it in practice for actors at equal priority.
* A Task started by a hotkey callback reaches the actor in the order of the callbacks. The short hops in which such a Task
  reads settings before it calls the actor are merged with the call.
* Reading and writing a Swift `Bool` without a lock is taken to be atomic; the lost orders, not torn values, are modelled.
* The stages after the capture use values local to the call. What they compute is left out; which of their outcomes call back
  is kept. Voice-command injection and output dispatch are awaits without state of the pipeline there; `Injection` models
  them.
* A silent recording and one too short to trim are one outcome, as both return before Whisper and without a callback.
* `HotkeyManager.start` and `stop` install and remove the event tap. The app never calls `stop`.
* `EngineMayFail` stands for every reason `startCapture` has to throw after its guards: the converter, the engine, a denied
  microphone.
* LLM: the batch is as large as the context, `min(n_ctx, 2048)` with `n_ctx` 512. Two completions at once are data races
  inside one step of the model; `OwnPromptOnly` says nothing of them. A cleanup of more than `maxTokens` (200) tokens is cut
  off there.
* Thread pool: memory is sequentially consistent, `n_barrier_passed` does not wrap around, and OpenMP is off, as
  `Package.swift` has it. The app makes a disposable pool for each graph (`ggml-cpu.cpp:226`); the model covers the whole life
  of a pool.
* Graph allocator: one buffer type, as on the CPU; sizes of one unit and more; allocating a buffer succeeds. Sizes stand for
  layouts: two tensors of one size may share a place, where the code compares types and strides too. A tensor of the same layout
  has the same size, so `ggml_gallocr_free_extra_space` does nothing. External tensors have their data; one with a buffer and
  without data, which the code initializes later, is not told apart.
* Capture: samples are appended whole. Time is not measured, so a callback, like the 80 ms drain, may take any time.
* History: the pipeline never passes `historyRetentionMax` to `insert` (`TranscriptionPipeline.swift:689`), so `Retained` is
  one constant for the trimming and for the list, 500 in both places.

## 7. Not modelled

* whisper.cpp, llama.cpp and the rest of ggml are 197 000 lines, nearly all of them kernels, quantization, tokenizers, unicode
  tables and one architecture after another: numerical code without shared state, whose correctness is one of values and not
  of orders. What is concurrent or stateful in them and reached by the app, the thread pool and the allocators, is modelled.
  Their share of the lines of the repository therefore stays small.
* `OllamaProvider` is one HTTP request without state; its failures are outcomes of the pipeline's cleanup.
* `EgressAuditor` and `NetworkActivityMonitor` classify and count one event at a time on one actor; `SettingsManager` is a
  write-through dictionary on the main thread. Both are sequential and small.
* Text algorithms are pure functions on text and samples, covered by the repository's unit tests.
* Context, profiles and vocabulary are lookups, two of whose stores nothing consults at this commit. Permissions,
  notifications, logging, views: calls to the system and drawing.
* Inside modelled components: the event tap being disabled by the system, the second tap's installation, the exception
  AVFoundation raises for a second tap on one bus, NUMA distribution and thread priorities, several buffer types, schema
  migrations and the search field of the history.

## 8. What is left

The allocator with several buffer types; the settings table as the source of `SyncSettings`; the type invariant
of the app as a theorem (`FlagInv`, `HeardInv` and `ShowInv` contain the part that the other proofs need).
