----------------------------- MODULE TeamBarrier -----------------------------
(* What a barrier promises to a team of threads that may change between two rounds: nobody gets out before everybody is  *)
(* in. A thread that was let out may still be on its way when the next team forms and goes through barriers of its own.   *)
EXTENDS Integers

CONSTANT MaxThreads

VARIABLES
  n_threads,  \* the team is the threads 0 .. n_threads-1
  waiting,    \* threads that are in and may not leave yet
  released    \* threads that are in and may leave

vars == <<n_threads, waiting, released>>

Team == 0..(n_threads - 1)

Init == n_threads = 0 /\ waiting = {} /\ released = {}

NewTeam(n) ==
  /\ waiting = {}
  /\ n_threads' = n
  /\ UNCHANGED <<waiting, released>>

Wait(t) ==
  /\ t \in Team \ (waiting \cup released)
  /\ waiting' = waiting \cup {t}
  /\ UNCHANGED <<n_threads, released>>

\* The last thread in lets the others out and passes.
Release(t) ==
  /\ t \in waiting
  /\ waiting = Team
  /\ waiting' = {}
  /\ released' = released \cup (Team \ {t})
  /\ UNCHANGED n_threads

Leave(t) ==
  /\ t \in released
  /\ released' = released \ {t}
  /\ UNCHANGED <<n_threads, waiting>>

Next ==
  \/ \E n \in 1..MaxThreads : NewTeam(n)
  \/ \E t \in 0..(MaxThreads - 1) : Wait(t) \/ Release(t) \/ Leave(t)

Spec == Init /\ [][Next]_vars
=============================================================================
