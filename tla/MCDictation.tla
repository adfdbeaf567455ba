---------------------------- MODULE MCDictation ----------------------------
\* The bounds of AppDelegate are constants: its configurations set them.
EXTENDS AppDelegate

\* A bound of this run, which asks whether a recording has audio when it is
\* stopped, and not whose: the callback that brings it comes while stopCapture
\* drains, and is through before anything else happens.
PromptCallbacks ==
  /\ inFlight = {} \/ inFlight' = {}
  /\ inFlight' # {} => inFlight = {} /\ pcmBuffer = {} /\ actor.job = "draining"

MCSpec == Init /\ [][Next /\ PromptCallbacks]_vars /\ Fairness
=============================================================================
