----------------------------- MODULE ThreadPool -----------------------------
(* ggml's CPU thread pool: the caller (thread 0) announces graph after graph, the workers poll or sleep until they see one *)
(* that needs them, and all of the team walk through its nodes with a barrier after each. A step is one access to shared   *)
(* memory; memory is sequentially consistent.                                                                             *)
EXTENDS GgmlBarrier, Sequences

CONSTANTS
  Nodes,       \* the graph: a sequence of "none" (nothing to compute), "rows" and "mul_mat"
  MulChunks,   \* the chunks a matrix product is cut into before the threads are counted
  MaxGraphs,   \* bound: graphs computed in the life of the pool
  MayAbort     \* the caller has installed an abort callback

ASSUME GraphAssumption ==
  /\ Nodes \in Seq({"none", "rows", "mul_mat"})
  /\ MulChunks \in Nat \ {0}
  /\ MaxGraphs \in Nat
  /\ MayAbort \in BOOLEAN

VARIABLES
  pc,             \* where each thread is
  graph,          \* the sequence number packed in n_graph next to n_threads
  stop, pause, abort, ec, current_chunk,
  last_graph,     \* per worker: the n_graph it last saw
  node_n,         \* per thread: the node it is at, from 0
  chunk,          \* per thread: the chunk it is at
  after,          \* per thread: where it goes when it leaves the barrier
  finished        \* history: the pieces of work done for this graph

poolVars == <<pc, graph, stop, pause, abort, ec, current_chunk, last_graph, node_n, chunk, after, finished>>
sharedVars == <<graph, stop, pause, abort, ec, current_chunk>>
workVars == <<node_n, chunk, after, finished>>
vars == <<barrierVars, poolVars>>

NNodes == Len(Nodes)
Main == 0
Workers == Threads \ {Main}

PoolInit ==
  /\ BarrierInit
  /\ pc = [t \in Threads |-> IF t = Main THEN "idle" ELSE "top"]
  /\ graph = 0
  /\ stop = FALSE
  /\ pause = FALSE
  /\ abort = -1
  /\ ec = "success"
  /\ current_chunk = 0
  /\ last_graph = [t \in Threads |-> <<0, 0>>]
  /\ node_n = [t \in Threads |-> 0]
  /\ chunk = [t \in Threads |-> 0]
  /\ after = [t \in Threads |-> "node"]
  /\ finished = {}

Goto(t, to) == pc' = [pc EXCEPT ![t] = to]
Step(t, from, to) == pc[t] = from /\ Goto(t, to)

\* The mutex is held across two steps only by the caller's kickoff.
MutexFree == pc[Main] # "signal"

\* pthread_cond_broadcast: sleepers go back to look at what they slept on.
Woken(p) == [t \in Threads |-> CASE p[t] = "paused" -> "top" [] p[t] = "asleep" -> "checkLocked" [] OTHER -> p[t]]

------------------------------------------------------------------------------
(* The work of one node. Stage 2k+1 is what is done before the barrier inside a matrix product, stage 2k+2 the product, or *)
(* the whole of any other operation, of node k.                                                                           *)

Chunks(n) == IF MulChunks < 4 * n THEN n ELSE MulChunks

\* The pieces of a stage for a team of n: slices, one for each thread, or chunks.
Pieces(s, n) ==
  LET kind == Nodes[(s + 1) \div 2] IN
  IF s % 2 = 1
  THEN IF kind = "mul_mat" THEN 0..(n - 1) ELSE {}
  ELSE CASE kind = "none" -> {} [] kind = "rows" -> 0..(n - 1) [] kind = "mul_mat" -> 0..(Chunks(n) - 1)

Work(s, n) == {<<s, i>> : i \in Pieces(s, n)}
First(t) == 2 * node_n[t] + 1
Second(t) == 2 * node_n[t] + 2
FinishPiece(p) == finished' = finished \cup {p}

AtNode(t) == pc[t] = "node" /\ node_n[t] < NNodes /\ abort # node_n[t]
Kind(t) == Nodes[node_n[t] + 1]

SkipNode(t) ==
  /\ AtNode(t)
  /\ Kind(t) = "none"
  /\ node_n' = [node_n EXCEPT ![t] = @ + 1]
  /\ UNCHANGED <<barrierVars, pc, sharedVars, last_graph, chunk, after, finished>>

BeginRows(t) ==
  /\ AtNode(t)
  /\ Kind(t) = "rows"
  /\ Goto(t, "rows")
  /\ UNCHANGED <<barrierVars, sharedVars, last_graph, node_n, chunk, after, finished>>

FinishRows(t) ==
  /\ Step(t, "rows", "computed")
  /\ FinishPiece(<<Second(t), t>>)
  /\ UNCHANGED <<barrierVars, sharedVars, last_graph, node_n, chunk, after>>

BeginMulMat(t) ==
  /\ AtNode(t)
  /\ Kind(t) = "mul_mat"
  /\ Goto(t, "convert")
  /\ UNCHANGED <<barrierVars, sharedVars, last_graph, node_n, chunk, after, finished>>

FaultyFinishConvert(t) ==
  /\ Step(t, "convert", IF t = Main THEN "chunk" ELSE "barrier")
  /\ FinishPiece(<<First(t), t>>)
  /\ current_chunk' = IF t = Main THEN n_threads ELSE current_chunk
  /\ after' = [after EXCEPT ![t] = "chunk"]
  /\ UNCHANGED <<barrierVars, graph, stop, pause, abort, ec, last_graph, node_n, chunk>>

\* Thread 0 sets the counter to the first chunk that is nobody's by its number; then all meet in the barrier.
FinishConvert(t) ==
  /\ Step(t, "convert", "barrier")
  /\ FinishPiece(<<First(t), t>>)
  /\ current_chunk' = IF t = Main THEN n_threads ELSE current_chunk
  /\ after' = [after EXCEPT ![t] = "chunk"]
  /\ UNCHANGED <<barrierVars, graph, stop, pause, abort, ec, last_graph, node_n, chunk>>

\* The head of the chunk loop, with c the thread's next chunk.
TakeChunk(t, c) ==
  /\ chunk' = [chunk EXCEPT ![t] = c]
  /\ Goto(t, IF c < Chunks(n_threads) THEN "multiply" ELSE "computed")

FirstChunk(t) ==
  /\ pc[t] = "chunk"
  /\ TakeChunk(t, t)
  /\ UNCHANGED <<barrierVars, sharedVars, last_graph, node_n, after, finished>>

FinishChunk(t) ==
  /\ Step(t, "multiply", IF n_threads >= Chunks(n_threads) THEN "computed" ELSE "claim")
  /\ FinishPiece(<<Second(t), chunk[t]>>)
  /\ UNCHANGED <<barrierVars, sharedVars, last_graph, node_n, chunk, after>>

FaultyClaimChunk(t) ==
  /\ pc[t] = "claim"
  /\ TakeChunk(t, current_chunk)
  /\ current_chunk' \in {current_chunk, current_chunk + 1}  \* a load and a store: an increment may be lost
  /\ UNCHANGED <<barrierVars, graph, stop, pause, abort, ec, last_graph, node_n, after, finished>>

\* atomic_fetch_add on the shared counter.
ClaimChunk(t) ==
  /\ pc[t] = "claim"
  /\ TakeChunk(t, current_chunk)
  /\ current_chunk' = current_chunk + 1
  /\ UNCHANGED <<barrierVars, graph, stop, pause, abort, ec, last_graph, node_n, after, finished>>

------------------------------------------------------------------------------
(* ggml_graph_compute_thread: the loop over the nodes.                                                                    *)

\* Only thread 0 asks the callback. After the last node the loop ends without a barrier of its own.
NodeDone(t, aborting) ==
  /\ Step(t, "computed", IF node_n[t] + 1 < NNodes THEN "barrier" ELSE "node")
  /\ aborting => t = Main /\ MayAbort
  /\ abort' = IF aborting THEN node_n[t] + 1 ELSE abort
  /\ ec' = IF aborting THEN "aborted" ELSE ec
  /\ node_n' = [node_n EXCEPT ![t] = @ + 1]
  /\ after' = [after EXCEPT ![t] = "node"]
  /\ UNCHANGED <<barrierVars, graph, stop, pause, current_chunk, last_graph, chunk, finished>>

FaultyLoopEnds(t) ==
  /\ pc[t] = "node"
  /\ node_n[t] = NNodes \/ abort = node_n[t]
  /\ Goto(t, IF t = Main THEN "idle" ELSE "top")
  /\ UNCHANGED <<barrierVars, sharedVars, last_graph, workVars>>

\* The final barrier.
LoopEnds(t) ==
  /\ pc[t] = "node"
  /\ node_n[t] = NNodes \/ abort = node_n[t]
  /\ Goto(t, "barrier")
  /\ after' = [after EXCEPT ![t] = IF t = Main THEN "idle" ELSE "top"]
  /\ UNCHANGED <<barrierVars, sharedVars, last_graph, node_n, chunk, finished>>

------------------------------------------------------------------------------
(* ggml_barrier, called where pc is "barrier".                                                                            *)

BarrierAlone(t) ==
  /\ pc[t] = "barrier" /\ bpc[t] = "out"
  /\ n_threads = 1
  /\ Goto(t, after[t])
  /\ UNCHANGED <<barrierVars, sharedVars, last_graph, workVars>>

InBarrier(t) ==
  /\ pc[t] = "barrier"
  /\ EnterBarrier(t) \/ Arrive(t) \/ ResetCount(t)
  /\ UNCHANGED poolVars

LeaveBarrier(t) ==
  /\ pc[t] = "barrier"
  /\ Open(t) \/ StopSpinning(t)
  /\ Goto(t, after[t])
  /\ UNCHANGED <<sharedVars, last_graph, workVars>>

------------------------------------------------------------------------------
(* The caller.                                                                                                            *)

\* ggml_graph_compute with a pool that may have served graphs before, up to the kickoff's store of n_graph, which holds the
\* mutex. What it resets without a lock nobody reads (WorkersQuiet), so reset and announcement are one step.
StartGraph(n) ==
  /\ Step(Main, "idle", "signal")
  /\ graph < MaxGraphs
  /\ abort' = -1
  /\ ec' = "success"
  /\ current_chunk' = 0
  /\ graph' = graph + 1
  /\ n_threads' = n
  /\ finished' = {}
  /\ UNCHANGED <<n_barrier, n_barrier_passed, bpc, n_passed, stop, pause, last_graph, node_n, chunk, after>>

FaultySignal ==
  /\ pc[Main] = "signal"
  /\ pause' = FALSE
  /\ pc' = [(IF pause THEN Woken(pc) ELSE pc) EXCEPT ![Main] = "node"]
  /\ node_n' = [node_n EXCEPT ![Main] = 0]
  /\ UNCHANGED <<barrierVars, graph, stop, abort, ec, current_chunk, last_graph, chunk, after, finished>>

\* The rest of the kickoff: the pool is resumed and every sleeper woken; the caller goes to work itself.
Signal ==
  /\ pc[Main] = "signal"
  /\ pause' = FALSE
  /\ pc' = [Woken(pc) EXCEPT ![Main] = "node"]
  /\ node_n' = [node_n EXCEPT ![Main] = 0]
  /\ UNCHANGED <<barrierVars, graph, stop, abort, ec, current_chunk, last_graph, chunk, after, finished>>

\* ggml_threadpool_pause and ggml_threadpool_resume, between two graphs.
SetPause(value) ==
  /\ pc[Main] = "idle"
  /\ pause # value
  /\ pause' = value
  /\ pc' = Woken(pc)
  /\ UNCHANGED <<barrierVars, graph, stop, abort, ec, current_chunk, last_graph, workVars>>

\* ggml_threadpool_free: stops, unpauses, wakes, and waits for the workers.
Free ==
  /\ pc[Main] = "idle"
  /\ stop' = TRUE
  /\ pause' = FALSE
  /\ pc' = [Woken(pc) EXCEPT ![Main] = "join"]
  /\ UNCHANGED <<barrierVars, graph, abort, ec, current_chunk, last_graph, workVars>>

Join ==
  /\ Step(Main, "join", "freed")
  /\ \A t \in Workers : pc[t] = "exited"
  /\ UNCHANGED <<barrierVars, sharedVars, last_graph, workVars>>

------------------------------------------------------------------------------
(* A worker.                                                                                                              *)

\* The head of the loop: pause is read without the mutex ...
CheckPause(t) ==
  /\ Step(t, "top", IF pause THEN "pauseLocked" ELSE "checkStop")
  /\ UNCHANGED <<barrierVars, sharedVars, last_graph, workVars>>

\* ... and again with it, before the worker sleeps.
PauseLocked(t) ==
  /\ MutexFree
  /\ Step(t, "pauseLocked", IF pause THEN "paused" ELSE "top")
  /\ UNCHANGED <<barrierVars, sharedVars, last_graph, workVars>>

CheckStop(t) ==
  /\ Step(t, "checkStop", IF stop THEN "exited" ELSE "pollFlags")
  /\ UNCHANGED <<barrierVars, sharedVars, last_graph, workVars>>

\* ggml_graph_compute_thread_ready reads the flags, then n_graph.
PollFlags(t) ==
  /\ Step(t, "pollFlags", IF stop \/ pause THEN "checkLocked" ELSE "pollGraph")
  /\ UNCHANGED <<barrierVars, sharedVars, last_graph, workVars>>

\* A change of n_graph is new work for the threads it counts, who go on to compute; the others go to otherwise.
\* pending is this worker's own note of the result and is cleared where it is read.
SeesGraph(t, otherwise) ==
  /\ last_graph[t] # <<graph, n_threads>>
  /\ last_graph' = [last_graph EXCEPT ![t] = <<graph, n_threads>>]
  /\ node_n' = [node_n EXCEPT ![t] = 0]
  /\ Goto(t, IF t < n_threads THEN "node" ELSE otherwise)

PollGraph(t) ==
  /\ pc[t] = "pollGraph"
  /\ SeesGraph(t, "checkLocked")
  /\ UNCHANGED <<barrierVars, sharedVars, chunk, after, finished>>

\* Nothing new: another round of polling, or, after the last round, on to sleep.
PollAgain(t) ==
  /\ pc[t] = "pollGraph"
  /\ last_graph[t] = <<graph, n_threads>>
  /\ Goto(t, "pollFlags") \/ Goto(t, "checkLocked")
  /\ UNCHANGED <<barrierVars, sharedVars, last_graph, workVars>>

\* The same test with the mutex held, under which every value it reads is written.
CheckLocked(t) ==
  /\ MutexFree
  /\ pc[t] = "checkLocked"
  /\ \/ /\ stop \/ pause
        /\ Goto(t, "top")
        /\ UNCHANGED <<last_graph, node_n>>
     \/ /\ ~stop /\ ~pause
        /\ SeesGraph(t, "top")
  /\ UNCHANGED <<barrierVars, sharedVars, chunk, after, finished>>

FallAsleep(t) ==
  /\ MutexFree
  /\ ~stop /\ ~pause /\ last_graph[t] = <<graph, n_threads>>
  /\ Step(t, "checkLocked", "asleep")
  /\ UNCHANGED <<barrierVars, sharedVars, last_graph, workVars>>

\* pthread_cond_wait may return without a broadcast.
SpuriousWakeup(t) ==
  /\ pc[t] \in {"paused", "asleep"}
  /\ MutexFree
  /\ pc' = [pc EXCEPT ![t] = Woken(pc)[t]]
  /\ UNCHANGED <<barrierVars, sharedVars, last_graph, workVars>>

------------------------------------------------------------------------------
ComputeStep(t) ==
  \/ SkipNode(t) \/ BeginRows(t) \/ FinishRows(t) \/ BeginMulMat(t) \/ FinishConvert(t)
  \/ FirstChunk(t) \/ FinishChunk(t) \/ ClaimChunk(t)
  \/ \E aborting \in BOOLEAN : NodeDone(t, aborting)
  \/ LoopEnds(t) \/ BarrierAlone(t) \/ InBarrier(t) \/ LeaveBarrier(t)

WorkerStep(t) ==
  \/ CheckPause(t) \/ PauseLocked(t) \/ CheckStop(t) \/ PollFlags(t) \/ PollGraph(t) \/ PollAgain(t)
  \/ CheckLocked(t) \/ FallAsleep(t)

CallerStep == Signal \/ Join

Request ==
  \/ \E n \in 1..MaxThreads : StartGraph(n)
  \/ \E value \in BOOLEAN : SetPause(value)
  \/ Free

PoolNext ==
  \/ \E t \in Threads : ComputeStep(t)
  \/ \E t \in Workers : WorkerStep(t) \/ SpuriousWakeup(t)
  \/ CallerStep
  \/ Request

\* Every thread that can take a step is scheduled; nobody is obliged to submit another graph.
ThreadsRun ==
  /\ WF_vars(ComputeStep(Main) \/ CallerStep)
  /\ \A t \in Workers : WF_vars(ComputeStep(t) \/ WorkerStep(t))

PoolSpec == PoolInit /\ [][PoolNext]_vars /\ ThreadsRun
------------------------------------------------------------------------------
PoolTypeOK ==
  /\ pc \in [Threads -> {"idle", "signal", "join", "freed", "top", "pauseLocked", "paused", "checkStop", "exited",
                        "pollFlags", "pollGraph", "checkLocked", "asleep", "node", "rows", "convert",
                        "chunk", "multiply", "claim", "computed", "barrier"}]
  /\ n_threads \in 0..MaxThreads /\ n_barrier \in 0..MaxThreads /\ n_barrier_passed \in Nat
  /\ bpc \in [Threads -> {"out", "arrive", "reset", "open", "spin"}] /\ n_passed \in [Threads -> Nat]
  /\ graph \in 0..MaxGraphs
  /\ stop \in BOOLEAN /\ pause \in BOOLEAN
  /\ abort \in {-1} \cup 1..NNodes /\ ec \in {"success", "aborted"}
  /\ current_chunk \in 0..(MulChunks + MaxThreads)
  /\ last_graph \in [Threads -> (0..MaxGraphs) \X (0..MaxThreads)]
  /\ node_n \in [Threads -> 0..NNodes] /\ chunk \in [Threads -> 0..(MulChunks + MaxThreads)]
  /\ after \in [Threads -> {"node", "chunk", "idle", "top"}]
  /\ finished \subseteq UNION {Work(s, n_threads) : s \in 1..(2 * NNodes)}

Computing == {"node", "rows", "convert", "chunk", "multiply", "claim", "computed"}

\* When the caller resets the graph, the plan and the abort mark without a lock, or frees them, no worker reads them and none
\* is about to. Code: "No worker threads should be accessing the parameters below at this stage" in ggml_graph_compute.
WorkersQuiet ==
  pc[Main] \in {"idle", "join", "freed"} =>
    \A t \in Workers :
      /\ pc[t] \notin Computing
      /\ pc[t] = "barrier" => after[t] = "top"

\* What GraphCompute sees of the pool: the piece each thread is at, and how many threads are at work.
Doing == [t \in Threads |-> CASE pc[t] = "convert" -> <<First(t), t>>
                             [] pc[t] = "rows" -> <<Second(t), t>>
                             [] pc[t] = "multiply" -> <<Second(t), chunk[t]>>
                             [] OTHER -> <<0, 0>>]
Running == IF pc[Main] \in {"idle", "join", "freed"} THEN 0 ELSE n_threads

Graph == INSTANCE GraphCompute WITH
  NStages <- 2 * NNodes,
  LastStages <- {2 * k : k \in 1..NNodes},
  doing <- Doing,
  running <- Running

\* Each piece of each node is computed exactly once, after everything before it, by whichever threads; a call returns when all
\* of them are done, or all those of the nodes before an abort. Code: ggml_graph_compute, ggml_compute_forward_mul_mat.
ComputesGraph == Graph!Spec

\* A graph that was started is finished and the pool can be freed, however the workers sleep, poll and are paused.
\* Code: ggml_graph_compute, ggml_threadpool_free.
CallsReturn == pc[Main] \in {"signal", "join"} ~> pc[Main] \in {"idle", "freed"}
=============================================================================
