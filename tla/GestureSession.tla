--------------------------- MODULE GestureSession ---------------------------
(***************************************************************************)
(* What HotkeyManager promises to the code that installs its four          *)
(* callbacks: recording sessions never overlap.  A push-to-talk session is *)
(* opened by onStartRecording and closed by onStopRecording, a hands-free  *)
(* session by onHandsFreeStart and onHandsFreeStop, and nothing else moves *)
(* between them.  The app's handlers (main.swift) rely on exactly this:    *)
(* each close starts one transcription of what the matching open recorded. *)
(***************************************************************************)
VARIABLE session    \* "off", "ptt" or "handsFree", as the callbacks announced it

Init == session = "off"

OpenPtt        == session = "off"       /\ session' = "ptt"
ClosePtt       == session = "ptt"       /\ session' = "off"
OpenHandsFree  == session = "off"       /\ session' = "handsFree"
CloseHandsFree == session = "handsFree" /\ session' = "off"

Next == OpenPtt \/ ClosePtt \/ OpenHandsFree \/ CloseHandsFree

Spec == Init /\ [][Next]_session
=============================================================================
