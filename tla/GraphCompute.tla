---------------------------- MODULE GraphCompute ----------------------------
(* What computing a graph promises to its caller: stage after stage, every piece of work of a stage is done once, none    *)
(* begins before the stages it reads from are done, and when the call returns nobody is still at work.                    *)
EXTENDS Integers

CONSTANTS
  MaxThreads,
  NStages,          \* a node takes one stage, a matrix product two: convert its operand, multiply
  LastStages,       \* stages that complete a node: an abort takes effect after one of them
  Pieces(_, _)      \* the pieces a stage is cut into, for a number of threads

VARIABLES
  running,   \* the number of threads at work on the graph; 0 between two graphs
  doing,     \* the piece <<stage, i>> each thread is at; <<0, 0>> between two pieces
  finished   \* the pieces done since the call

vars == <<running, doing, finished>>

Threads == 0..(MaxThreads - 1)
NoPiece == <<0, 0>>
Work(s, n) == {<<s, i>> : i \in Pieces(s, n)}
WorkUpTo(s, n) == UNION {Work(r, n) : r \in 1..s}

Init == running = 0 /\ doing = [t \in Threads |-> NoPiece] /\ finished = {}

Compute(n) ==
  /\ running = 0
  /\ running' = n
  /\ finished' = {}
  /\ UNCHANGED doing

Begin(t) ==
  /\ t < running /\ doing[t] = NoPiece
  /\ \E s \in 1..NStages :
       /\ WorkUpTo(s - 1, running) \subseteq finished
       /\ \E p \in Work(s, running) \ finished :
            /\ \A u \in Threads : doing[u] # p
            /\ doing' = [doing EXCEPT ![t] = p]
  /\ UNCHANGED <<running, finished>>

Finish(t) ==
  /\ doing[t] # NoPiece
  /\ finished' = finished \cup {doing[t]}
  /\ doing' = [doing EXCEPT ![t] = NoPiece]
  /\ UNCHANGED running

\* Whole nodes only: all of them, or those before an abort.
Return ==
  /\ running > 0
  /\ \A t \in Threads : doing[t] = NoPiece
  /\ \E s \in LastStages \cup {0, NStages} : finished = WorkUpTo(s, running)
  /\ running' = 0
  /\ UNCHANGED <<doing, finished>>

Next ==
  \/ \E n \in 1..MaxThreads : Compute(n)
  \/ \E t \in Threads : Begin(t) \/ Finish(t)
  \/ Return

Spec == Init /\ [][Next]_vars
=============================================================================
