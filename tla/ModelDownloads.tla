--------------------------- MODULE ModelDownloads ---------------------------
(***************************************************************************)
(* ModelManager.swift: downloading, cancelling, deleting and selecting the *)
(* model files, on the main actor.  URLSession reports to a delegate that  *)
(* knows its model but not its task, and the delegate posts every report   *)
(* to the main queue: a report may be handled after its download has been  *)
(* cancelled, or replaced by another download of the same model.           *)
(*                                                                         *)
(* The reports of one task are handled in order.  Those of different tasks *)
(* are not ordered here: each may have been sent later.                    *)
(***************************************************************************)

CONSTANTS
  Models,         \* availableModels
  AsrModels,      \* those for transcription; the others are for cleanup
  FailingSteps,   \* the file operations that may fail
  Tasks,          \* bound: the download tasks that can ever be created
  NoModel,        \* activeModelID is nil
  NoTask          \* no active task

ASSUME ModelAssumption == AsrModels \subseteq Models /\ NoModel \notin Models

ASSUME TaskAssumption == NoTask \notin Tasks

ASSUME FailureAssumption == FailingSteps \subseteq {"directory", "copy", "save", "delete"}

VARIABLES
  (* ModelManager *)
  downloadedModels,  \* the list, without its order
  activeModelID,
  downloadProgress,  \* the models with a progress entry; its value does not matter
  downloadError,     \* the models with an error message
  activeTasks,       \* the task known for each model
  (* the disk, which with activeModelID outlives the process *)
  disk,              \* the models whose file is in the directory
  (* URLSession and the main queue *)
  modelOf,           \* the model of each task
  transfer,          \* what becomes of the task
  progressed,        \* the tasks with a progress report still to be handled
  ending             \* the last report of each task, until it is handled

manager == <<downloadedModels, activeModelID, downloadProgress, downloadError, activeTasks>>
network == <<modelOf, transfer, progressed, ending>>
vars == <<manager, disk, network>>

TypeOK ==
  /\ downloadedModels \subseteq Models
  /\ activeModelID \in Models \cup {NoModel}
  /\ downloadProgress \subseteq Models
  /\ downloadError \subseteq Models
  /\ activeTasks \in [Models -> Tasks \cup {NoTask}]
  /\ disk \subseteq Models
  /\ modelOf \in [Tasks -> Models \cup {NoModel}]
  /\ transfer \in [Tasks -> {"unused", "running", "cancelled", "over"}]
  /\ progressed \subseteq Tasks
  /\ ending \in [Tasks -> {"none", "completion", "error"}]

NoTasks == [m \in Models |-> NoTask]

\* Fresh settings; Relaunch is every later start of the process.
Init ==
  /\ disk \in SUBSET Models
  /\ activeModelID = NoModel
  /\ downloadedModels = disk
  /\ downloadProgress = {} /\ downloadError = {} /\ activeTasks = NoTasks
  /\ modelOf = [t \in Tasks |-> NoModel]
  /\ transfer = [t \in Tasks |-> "unused"]
  /\ ending = [t \in Tasks |-> "none"]
  /\ progressed = {}

\* The outcomes of a file operation.
Outcome(step) == {TRUE, step \notin FailingSteps}
-----------------------------------------------------------------------------
(* The buttons.                                                            *)

\* The button starts a Task, which may find that an earlier click has started
\* the download.
downloadModel(m) ==
  /\ m \notin downloadedModels
  /\ activeTasks[m] = NoTask
  /\ UNCHANGED <<downloadedModels, activeModelID, disk, progressed, ending>>
  /\ \E created \in Outcome("directory"), t \in Tasks :
       /\ transfer[t] = "unused"
       /\ IF created
            THEN /\ downloadError' = downloadError \ {m}
                 /\ downloadProgress' = downloadProgress \cup {m}
                 /\ activeTasks' = [activeTasks EXCEPT ![m] = t]
                 /\ modelOf' = [modelOf EXCEPT ![t] = m]
                 /\ transfer' = [transfer EXCEPT ![t] = "running"]
            ELSE /\ downloadError' = downloadError \cup {m}
                 /\ UNCHANGED <<downloadProgress, activeTasks, modelOf, transfer>>

\* Offered while the model has a progress entry; there may be no task for it.
cancelDownload(m) ==
  /\ m \in downloadProgress
  /\ transfer' = [t \in Tasks |-> IF t = activeTasks[m] /\ transfer[t] = "running"
                                    THEN "cancelled" ELSE transfer[t]]
  /\ activeTasks' = [activeTasks EXCEPT ![m] = NoTask]
  /\ downloadProgress' = downloadProgress \ {m}
  /\ UNCHANGED <<downloadedModels, activeModelID, downloadError, disk, modelOf, progressed, ending>>

\* Definitions named Faulty... are plausible bugs.  No action uses them: each
\* stands in for the definition after it to show that a property can fail.
FaultyReplacements(m) == {activeModelID}

\* What may be active once m has gone: the first model of the rest, if m was.
Replacements(m) ==
  LET rest == downloadedModels \ {m}
  IN IF activeModelID # m THEN {activeModelID}
     ELSE IF rest = {} THEN {NoModel} ELSE rest

\* The model leaves the list even when its file stays.
deleteModel(m) ==
  /\ m \in downloadedModels
  /\ \E deleted \in Outcome("delete") : disk' = IF deleted THEN disk \ {m} ELSE disk
  /\ downloadedModels' = downloadedModels \ {m}
  /\ activeModelID' \in Replacements(m)
  /\ UNCHANGED <<downloadProgress, downloadError, activeTasks, network>>

\* SET ACTIVE: the picker offers it for every downloaded model but the active one.
setActive(m) ==
  /\ m \in downloadedModels /\ m # activeModelID
  /\ activeModelID' = m
  /\ UNCHANGED <<downloadedModels, downloadProgress, downloadError, activeTasks, disk, network>>

rescanModelsDirectory ==
  /\ downloadedModels' = disk
  /\ UNCHANGED <<activeModelID, downloadProgress, downloadError, activeTasks, disk, network>>
-----------------------------------------------------------------------------
(* URLSession: a cancelled task may still deliver what was on its way, its  *)
(* file included.                                                          *)

Reporting(t) == transfer[t] \in {"running", "cancelled"}

didWriteData(t) ==
  /\ Reporting(t)
  /\ progressed' = progressed \cup {t}
  /\ UNCHANGED <<manager, disk, modelOf, transfer, ending>>

TaskEnds(t, report) ==
  /\ Reporting(t)
  /\ transfer' = [transfer EXCEPT ![t] = "over"]
  /\ ending' = [ending EXCEPT ![t] = report]
  /\ UNCHANGED <<manager, disk, modelOf, progressed>>

\* The file is copied away before URLSession deletes it.
didFinishDownloading(t) ==
  \E copied \in Outcome("copy") : TaskEnds(t, IF copied THEN "completion" ELSE "error")

didCompleteWithError(t) == TaskEnds(t, "error")
-----------------------------------------------------------------------------
(* The reports, on the main actor.                                         *)

handleProgress(t) ==
  /\ t \in progressed
  /\ progressed' = progressed \ {t}
  /\ downloadProgress' = downloadProgress \cup {modelOf[t]}
  /\ UNCHANGED <<downloadedModels, activeModelID, downloadError, activeTasks, disk,
                 modelOf, transfer, ending>>

FaultyForget(m) ==
  /\ activeTasks' = [activeTasks EXCEPT ![m] = NoTask]
  /\ UNCHANGED downloadProgress

FaultyKeepTask(m) ==
  /\ downloadProgress' = downloadProgress \ {m}
  /\ UNCHANGED activeTasks

\* The model's task is forgotten, whichever task reports.
Forget(m) ==
  /\ activeTasks' = [activeTasks EXCEPT ![m] = NoTask]
  /\ downloadProgress' = downloadProgress \ {m}

Handles(t, report) ==
  /\ ending[t] = report /\ t \notin progressed
  /\ ending' = [ending EXCEPT ![t] = "none"]
  /\ UNCHANGED <<modelOf, transfer, progressed>>

AutoSelect(t) ==
  activeModelID' = IF activeModelID = NoModel THEN modelOf[t] ELSE activeModelID

\* The old file is removed before the new one takes its place.
handleCompletion(t) ==
  LET m == modelOf[t] IN
  /\ Handles(t, "completion")
  /\ Forget(m)
  /\ \E saved \in Outcome("save") :
       IF saved
         THEN /\ disk' = disk \cup {m}
              /\ downloadedModels' = downloadedModels \cup {m}
              /\ AutoSelect(t)
              /\ UNCHANGED downloadError
         ELSE /\ disk' \in {disk, disk \ {m}}
              /\ downloadError' = downloadError \cup {m}
              /\ UNCHANGED <<downloadedModels, activeModelID>>

handleError(t) ==
  /\ Handles(t, "error")
  /\ Forget(modelOf[t])
  /\ downloadError' = downloadError \cup {modelOf[t]}
  /\ UNCHANGED <<downloadedModels, activeModelID, disk>>
-----------------------------------------------------------------------------
\* The app quits or crashes between two steps and is started again.
Relaunch ==
  /\ downloadedModels' = disk
  /\ downloadProgress' = {} /\ downloadError' = {} /\ activeTasks' = NoTasks
  /\ progressed' = {}
  /\ transfer' = [t \in Tasks |-> IF Reporting(t) THEN "over" ELSE transfer[t]]
  /\ ending' = [t \in Tasks |-> "none"]
  /\ UNCHANGED <<activeModelID, disk, modelOf>>

Next ==
  \/ \E m \in Models :
       downloadModel(m) \/ cancelDownload(m) \/ deleteModel(m) \/ setActive(m)
  \/ rescanModelsDirectory
  \/ \E t \in Tasks :
       \/ didWriteData(t) \/ didFinishDownloading(t) \/ didCompleteWithError(t)
       \/ handleProgress(t) \/ handleCompletion(t) \/ handleError(t)
  \/ Relaunch

Spec == Init /\ [][Next]_vars
-----------------------------------------------------------------------------
(* Properties.                                                             *)

\* The task still owes a report of its end.
Alive(t) == Reporting(t) \/ ending[t] # "none"

\* A model shown as downloading has a task that will still report its end, in
\* spite of reports of cancelled tasks that set or clear the entry of the
\* current one (handleProgress, handleCompletion, handleError): the progress bar
\* does not outlive the download.
ProgressHasTask ==
  \A m \in downloadProgress : \E t \in Tasks : modelOf[t] = m /\ Alive(t)

\* The task that downloadModel's guard and CANCEL go by is the model's own, has
\* not been cancelled and is not over: a model is never locked out of a new
\* download, and CANCEL never misses the task that is known (downloadModel,
\* cancelDownload and the two last reports).
KnownTaskIsAlive ==
  \A m \in Models : activeTasks[m] # NoTask =>
    /\ modelOf[activeTasks[m]] = m
    /\ Alive(activeTasks[m])
    /\ transfer[activeTasks[m]] # "cancelled"
    /\ m \in downloadProgress

\* The active model is in the list and its file is on disk, through
\* cancellations, late completions, deletions, rescans and relaunches, as long
\* as a downloaded file can be moved to its place (deleteModel, handleCompletion).
ActiveIsDownloaded ==
  "save" \notin FailingSteps /\ activeModelID # NoModel
    => activeModelID \in downloadedModels \cap disk

\* "Model ID currently selected for transcription" (ModelManager.swift:99): what a
\* completed download or a deletion selects is a model for transcription.  What
\* the user selects is the user's affair.  It fails: deleteModel and
\* handleCompletion select whatever is there.
SelectsForTranscription ==
  [][downloadedModels' # downloadedModels /\ activeModelID' # activeModelID
       => activeModelID' \in AsrModels \cup {NoModel}]_vars
=============================================================================
