----------------------------- MODULE GgmlBarrier -----------------------------
(* The spinning barrier of ggml's thread pool: two atomic counters and a local copy of one of them. The team of a graph is *)
(* the threads 0 .. n_threads-1, and the next graph may have another team while threads of the last still spin.           *)
EXTENDS Integers, FiniteSets

CONSTANT MaxThreads
ASSUME ThreadsAssumption == MaxThreads \in Nat \ {0}

Threads == 0..(MaxThreads - 1)

VARIABLES
  n_threads,         \* the thread count packed in n_graph; 0 before the first graph
  n_barrier,         \* threads that have arrived in this round
  n_barrier_passed,  \* rounds completed; assumed not to wrap while one thread spins
  bpc,               \* where each thread stands in ggml_barrier
  n_passed           \* the local copy of n_barrier_passed

barrierVars == <<n_threads, n_barrier, n_barrier_passed, bpc, n_passed>>

Team == 0..(n_threads - 1)

BarrierInit ==
  /\ n_threads = 0
  /\ n_barrier = 0
  /\ n_barrier_passed = 0
  /\ bpc = [t \in Threads |-> "out"]
  /\ n_passed = [t \in Threads |-> 0]

\* A team of one returns at once. The reads of n_threads and n_barrier_passed are one step: while a thread of the team is
\* outside, neither can change.
EnterBarrier(t) ==
  /\ t \in Team
  /\ n_threads # 1
  /\ bpc[t] = "out"
  /\ bpc' = [bpc EXCEPT ![t] = "arrive"]
  /\ n_passed' = [n_passed EXCEPT ![t] = n_barrier_passed]
  /\ UNCHANGED <<n_threads, n_barrier, n_barrier_passed>>

FaultyArrive(t) ==
  /\ bpc[t] = "arrive"
  /\ n_barrier' = n_barrier + 1
  /\ bpc' = [bpc EXCEPT ![t] = IF n_barrier + 1 = n_threads - 1 THEN "reset" ELSE "spin"]
  /\ UNCHANGED <<n_threads, n_barrier_passed, n_passed>>

\* atomic_fetch_add returns the old value: the last thread is the one that reads n_threads - 1.
Arrive(t) ==
  /\ bpc[t] = "arrive"
  /\ n_barrier' = n_barrier + 1
  /\ bpc' = [bpc EXCEPT ![t] = IF n_barrier = n_threads - 1 THEN "reset" ELSE "spin"]
  /\ UNCHANGED <<n_threads, n_barrier_passed, n_passed>>

ResetCount(t) ==
  /\ bpc[t] = "reset"
  /\ n_barrier' = 0
  /\ bpc' = [bpc EXCEPT ![t] = "open"]
  /\ UNCHANGED <<n_threads, n_barrier_passed, n_passed>>

Open(t) ==
  /\ bpc[t] = "open"
  /\ n_barrier_passed' = n_barrier_passed + 1
  /\ bpc' = [bpc EXCEPT ![t] = "out"]
  /\ UNCHANGED <<n_threads, n_barrier, n_passed>>

StopSpinning(t) ==
  /\ bpc[t] = "spin"
  /\ n_barrier_passed # n_passed[t]
  /\ bpc' = [bpc EXCEPT ![t] = "out"]
  /\ UNCHANGED <<n_threads, n_barrier, n_barrier_passed, n_passed>>

Waiting == {t \in Threads : bpc[t] \in {"spin", "reset", "open"} /\ n_passed[t] = n_barrier_passed}
Released == {t \in Threads : bpc[t] = "spin" /\ n_passed[t] # n_barrier_passed}

\* What the pool must respect when it announces the next graph: nobody waits and nobody is about to.
NewTeam(n) ==
  /\ Waiting = {}
  /\ \A t \in Threads : bpc[t] # "arrive"
  /\ n_threads' = n
  /\ UNCHANGED <<n_barrier, n_barrier_passed, bpc, n_passed>>

BarrierNext ==
  \/ \E n \in 1..MaxThreads : NewTeam(n)
  \/ \E t \in Threads : EnterBarrier(t) \/ Arrive(t) \/ ResetCount(t) \/ Open(t) \/ StopSpinning(t)

\* The pool uses the barrier as it must be used: between two teams nobody is inside.
\* Code: ggml_graph_compute_kickoff against the final ggml_barrier of ggml_graph_compute_thread.
BarrierSpec == BarrierInit /\ [][BarrierNext]_barrierVars

Promise == INSTANCE TeamBarrier WITH waiting <- Waiting, released <- Released

\* Nobody gets out of a barrier before the whole team is in, whatever earlier teams are still spinning.
\* Code: ggml_barrier.
BarrierHolds == Promise!Spec
=============================================================================
