----------------------- MODULE ModelDownloads_proofs -----------------------
(***************************************************************************)
(* Proofs about ModelDownloads for every set of models and tasks and every *)
(* choice of file operations that may fail.                                *)
(***************************************************************************)
EXTENDS ModelDownloads, TLAPS

\* What ties a task's reports to its life: a last report comes from a task that
\* is over, a progress report is handled before it, and only a task that was
\* created reports.
TaskInv ==
  \A t \in Tasks :
    /\ transfer[t] # "unused" => modelOf[t] \in Models
    /\ ending[t] # "none" => transfer[t] = "over"
    /\ t \in progressed => Alive(t)

DownloadInv == TypeOK /\ TaskInv

LEMMA InitDownloadInv == Init => DownloadInv
  BY ModelAssumption
  DEF Init, DownloadInv, TypeOK, TaskInv, Alive, Reporting, NoTasks

LEMMA StepKeepsDownloadInv == DownloadInv /\ [Next]_vars => DownloadInv'
<1> SUFFICES ASSUME DownloadInv, [Next]_vars PROVE DownloadInv'
  OBVIOUS
<1> USE ModelAssumption, TaskAssumption DEF DownloadInv, TypeOK, manager, network
<1>1. ASSUME NEW m \in Models, downloadModel(m) PROVE DownloadInv'
  <2>1. TypeOK'
    BY <1>1 DEF downloadModel
  <2>2. TaskInv'
    BY <1>1 DEF downloadModel, TaskInv, Alive, Reporting
  <2>3. QED
    BY <2>1, <2>2
<1>2. ASSUME NEW m \in Models, cancelDownload(m) PROVE DownloadInv'
  <2>1. TypeOK'
    BY <1>2 DEF cancelDownload
  <2>2. TaskInv'
    BY <1>2 DEF cancelDownload, TaskInv, Alive, Reporting
  <2>3. QED
    BY <2>1, <2>2
<1>3. ASSUME NEW m \in Models, deleteModel(m) PROVE DownloadInv'
  <2>1. TypeOK'
    BY <1>3 DEF deleteModel, Replacements
  <2>2. TaskInv'
    BY <1>3 DEF deleteModel, TaskInv, Alive, Reporting
  <2>3. QED
    BY <2>1, <2>2
<1>4. ASSUME NEW m \in Models, setActive(m) PROVE DownloadInv'
  BY <1>4 DEF setActive, TaskInv, Alive, Reporting
<1>5. CASE rescanModelsDirectory
  BY <1>5 DEF rescanModelsDirectory, TaskInv, Alive, Reporting
<1>6. ASSUME NEW t \in Tasks, didWriteData(t) PROVE DownloadInv'
  BY <1>6 DEF didWriteData, TaskInv, Alive, Reporting
<1>ends. ASSUME NEW t \in Tasks, NEW report \in {"completion", "error"}, TaskEnds(t, report)
         PROVE DownloadInv'
  <2>1. TypeOK'
    BY <1>ends DEF TaskEnds
  <2>2. TaskInv'
    BY <1>ends DEF TaskEnds, TaskInv, Alive, Reporting
  <2>3. QED
    BY <2>1, <2>2
<1>7. ASSUME NEW t \in Tasks, didFinishDownloading(t) \/ didCompleteWithError(t) PROVE DownloadInv'
  BY <1>7, <1>ends DEF didFinishDownloading, didCompleteWithError
<1>8. ASSUME NEW t \in Tasks, handleProgress(t) PROVE DownloadInv'
  <2>1. modelOf[t] \in Models
    BY <1>8 DEF handleProgress, TaskInv, Alive, Reporting
  <2>2. TypeOK'
    BY <1>8, <2>1 DEF handleProgress
  <2>3. TaskInv'
    BY <1>8 DEF handleProgress, TaskInv, Alive, Reporting
  <2>4. QED
    BY <2>2, <2>3
<1>9. ASSUME NEW t \in Tasks, handleCompletion(t) \/ handleError(t) PROVE DownloadInv'
  <2>1. ending[t] # "none" /\ modelOf[t] \in Models
    BY <1>9 DEF handleCompletion, handleError, Handles, TaskInv
  <2>2. TypeOK'
    BY <1>9, <2>1 DEF handleCompletion, handleError, Handles, Forget, AutoSelect
  <2>3. TaskInv'
    BY <1>9 DEF handleCompletion, handleError, Handles, TaskInv, Alive, Reporting
  <2>4. QED
    BY <2>2, <2>3
<1>10. CASE Relaunch
  BY <1>10 DEF Relaunch, NoTasks, TaskInv, Alive, Reporting
<1>11. CASE UNCHANGED vars
  BY <1>11 DEF vars, TaskInv, Alive, Reporting
<1>12. QED
  BY <1>1, <1>2, <1>3, <1>4, <1>5, <1>6, <1>7, <1>8, <1>9, <1>10, <1>11 DEF Next

LEMMA DownloadInvariant == Spec => []DownloadInv
  BY InitDownloadInv, StepKeepsDownloadInv, PTL DEF Spec

\* The state of ModelManager, of the disk and of every task keeps its type.
THEOREM DownloadsTyped == Spec => []TypeOK
  BY DownloadInvariant, PTL DEF DownloadInv
-----------------------------------------------------------------------------
(* The known tasks and the progress entries.                               *)

\* Every report belongs to a task of the model whose entries it changes, so
\* what it clears cannot belong to the known task of another model.
EntriesInv == ProgressHasTask /\ KnownTaskIsAlive

LEMMA StepKeepsEntriesInv == DownloadInv /\ EntriesInv /\ [Next]_vars => EntriesInv'
<1> SUFFICES ASSUME DownloadInv, EntriesInv, [Next]_vars PROVE EntriesInv'
  OBVIOUS
<1> USE ModelAssumption, TaskAssumption
    DEF DownloadInv, TypeOK, TaskInv, EntriesInv, Alive, Reporting, manager, network
<1>1. ASSUME NEW m \in Models, downloadModel(m) PROVE EntriesInv'
  <2>1. ProgressHasTask'
    BY <1>1 DEF downloadModel, ProgressHasTask
  <2>2. KnownTaskIsAlive'
    BY <1>1 DEF downloadModel, KnownTaskIsAlive
  <2>3. QED
    BY <2>1, <2>2
<1>2. ASSUME NEW m \in Models, cancelDownload(m) PROVE EntriesInv'
  <2>1. ProgressHasTask'
    BY <1>2 DEF cancelDownload, ProgressHasTask
  <2>2. KnownTaskIsAlive'
    BY <1>2 DEF cancelDownload, KnownTaskIsAlive
  <2>3. QED
    BY <2>1, <2>2
<1>3. ASSUME NEW m \in Models, deleteModel(m) \/ setActive(m) PROVE EntriesInv'
  BY <1>3 DEF deleteModel, setActive, ProgressHasTask, KnownTaskIsAlive
<1>4. CASE rescanModelsDirectory
  BY <1>4 DEF rescanModelsDirectory, ProgressHasTask, KnownTaskIsAlive
<1>5. ASSUME NEW t \in Tasks, didWriteData(t) PROVE EntriesInv'
  BY <1>5 DEF didWriteData, ProgressHasTask, KnownTaskIsAlive
<1>ends. ASSUME NEW t \in Tasks, NEW report \in {"completion", "error"}, TaskEnds(t, report)
         PROVE EntriesInv'
  <2>1. ProgressHasTask'
    BY <1>ends DEF TaskEnds, ProgressHasTask
  <2>2. KnownTaskIsAlive'
    BY <1>ends DEF TaskEnds, KnownTaskIsAlive
  <2>3. QED
    BY <2>1, <2>2
<1>6. ASSUME NEW t \in Tasks, didFinishDownloading(t) \/ didCompleteWithError(t) PROVE EntriesInv'
  BY <1>6, <1>ends DEF didFinishDownloading, didCompleteWithError
<1>7. ASSUME NEW t \in Tasks, handleProgress(t) PROVE EntriesInv'
  <2>1. ProgressHasTask'
    BY <1>7 DEF handleProgress, ProgressHasTask
  <2>2. KnownTaskIsAlive'
    BY <1>7 DEF handleProgress, KnownTaskIsAlive
  <2>3. QED
    BY <2>1, <2>2
<1>8. ASSUME NEW t \in Tasks, handleCompletion(t) \/ handleError(t) PROVE EntriesInv'
  <2>1. /\ Forget(modelOf[t])
        /\ ending' = [ending EXCEPT ![t] = "none"]
        /\ UNCHANGED <<modelOf, transfer>>
    BY <1>8 DEF handleCompletion, handleError, Handles
  <2>2. ProgressHasTask'
    BY <2>1 DEF Forget, ProgressHasTask
  <2>3. KnownTaskIsAlive'
    BY <2>1 DEF Forget, KnownTaskIsAlive
  <2>4. QED
    BY <2>2, <2>3
<1>9. CASE Relaunch
  BY <1>9 DEF Relaunch, NoTasks, ProgressHasTask, KnownTaskIsAlive
<1>10. CASE UNCHANGED vars
  BY <1>10 DEF vars, ProgressHasTask, KnownTaskIsAlive
<1>11. QED
  BY <1>1, <1>2, <1>3, <1>4, <1>5, <1>6, <1>7, <1>8, <1>9, <1>10 DEF Next

LEMMA EntriesInvariant == Spec => []EntriesInv
<1>1. Init => EntriesInv
  BY DEF Init, EntriesInv, ProgressHasTask, KnownTaskIsAlive, NoTasks
<1>2. QED
  BY <1>1, StepKeepsEntriesInv, DownloadInvariant, PTL DEF Spec

\* A progress entry never outlives the last task that could remove it
\* (handleProgress, handleCompletion, handleError), however many downloads of a
\* model are cancelled and started again.
THEOREM ShownDownloadsAreAlive == Spec => []ProgressHasTask
  BY EntriesInvariant, PTL DEF EntriesInv

\* The task that downloadModel and cancelDownload find is the model's own and
\* still running or about to report.
THEOREM KnownTasksAreAlive == Spec => []KnownTaskIsAlive
  BY EntriesInvariant, PTL DEF EntriesInv
-----------------------------------------------------------------------------
(* The active model.                                                       *)

\* deleteModel chooses a replacement from the list, so the whole list has to be
\* on disk for the replacement to be.
DiskInv == "save" \notin FailingSteps => downloadedModels \subseteq disk

\* The active model is on disk as long as downloaded files can be moved to their
\* place (deleteModel, handleCompletion, rescanModelsDirectory).
THEOREM ActiveModelOnDisk == Spec => []ActiveIsDownloaded
<1> DEFINE Inv == DiskInv /\ ActiveIsDownloaded
<1>1. Init => Inv
  BY DEF Init, DiskInv, ActiveIsDownloaded
<1>2. DownloadInv /\ Inv /\ [Next]_vars => Inv'
  <2> SUFFICES ASSUME DownloadInv, Inv, [Next]_vars PROVE Inv'
    OBVIOUS
  <2> USE ModelAssumption
      DEF DownloadInv, TypeOK, DiskInv, ActiveIsDownloaded, manager, network
  <2>1. ASSUME NEW m \in Models, downloadModel(m) \/ cancelDownload(m) \/ setActive(m) PROVE Inv'
    BY <2>1 DEF downloadModel, cancelDownload, setActive
  <2>2. ASSUME NEW m \in Models, deleteModel(m) PROVE Inv'
    BY <2>2 DEF deleteModel, Replacements
  <2>3. CASE rescanModelsDirectory \/ Relaunch
    BY <2>3 DEF rescanModelsDirectory, Relaunch
  <2>4. ASSUME NEW t \in Tasks,
               didWriteData(t) \/ didFinishDownloading(t) \/ didCompleteWithError(t)
               \/ handleProgress(t) \/ handleError(t)
        PROVE Inv'
    BY <2>4 DEF didWriteData, didFinishDownloading, didCompleteWithError, TaskEnds,
       handleProgress, handleError
  <2>5. ASSUME NEW t \in Tasks, handleCompletion(t) PROVE Inv'
    <3> SUFFICES ASSUME "save" \notin FailingSteps
                 PROVE /\ downloadedModels' \subseteq disk'
                       /\ activeModelID' # NoModel => activeModelID' \in downloadedModels' \cap disk'
      OBVIOUS
    <3>1. Outcome("save") = {TRUE}
      BY DEF Outcome
    <3>2. /\ disk' = disk \cup {modelOf[t]}
          /\ downloadedModels' = downloadedModels \cup {modelOf[t]}
          /\ activeModelID' = IF activeModelID = NoModel THEN modelOf[t] ELSE activeModelID
      BY <2>5, <3>1 DEF handleCompletion, AutoSelect
    <3>3. QED
      BY <3>2
  <2>6. CASE UNCHANGED vars
    BY <2>6 DEF vars
  <2>7. QED
    BY <2>1, <2>2, <2>3, <2>4, <2>5, <2>6 DEF Next
<1>3. QED
  BY <1>1, <1>2, DownloadInvariant, PTL DEF Spec
=============================================================================
