-------------------------- MODULE ThreadPool_proofs --------------------------
(* ggml_barrier keeps the promise of TeamBarrier for every number of threads and every sequence of teams; the pool uses it *)
(* as it must be used, leaves the caller alone between two graphs, and computes every graph as GraphCompute promises.      *)
EXTENDS ThreadPool, FiniteSetTheorems, WellFoundedInduction, TLAPS

BarrierTypeOK ==
  /\ n_threads \in 0..MaxThreads
  /\ n_barrier \in Nat
  /\ n_barrier_passed \in Nat
  /\ bpc \in [Threads -> {"out", "arrive", "reset", "open", "spin"}]
  /\ n_passed \in [Threads -> Nat]

Last(t) == bpc[t] \in {"reset", "open"}

\* The local copies are never ahead, and those of threads on their way in are current.
CopiesBehind == \A t \in Threads : n_passed[t] <= n_barrier_passed
InsideIsTeam ==
  /\ \A t \in Threads : bpc[t] \in {"arrive", "reset", "open"} => t \in Team /\ n_passed[t] = n_barrier_passed
  /\ Waiting \subseteq Team

\* One thread is the last, when all are in; the counter counts those that wait until that thread has reset it.
LastIsLast ==
  /\ \A t \in Threads : Last(t) => Waiting = Team
  /\ \A t, u \in Threads : Last(t) /\ Last(u) => t = u
CounterCounts ==
  /\ \A t \in Threads : bpc[t] = "open" => n_barrier = 0
  /\ (\A t \in Threads : bpc[t] # "open") => n_barrier = Cardinality(Waiting)

BarrierInv == BarrierTypeOK /\ CopiesBehind /\ InsideIsTeam /\ LastIsLast /\ CounterCounts

\* A team is a finite set of its size.
LEMMA TeamFinite ==
  ASSUME n_threads \in 0..MaxThreads
  PROVE  IsFiniteSet(Team) /\ Cardinality(Team) = n_threads
<1>1. IsFiniteSet(0..(n_threads - 1)) /\ Cardinality(0..(n_threads - 1)) = IF 0 > n_threads - 1 THEN 0 ELSE (n_threads - 1) - 0 + 1
  BY FS_Interval, ThreadsAssumption
<1> QED
  BY <1>1, ThreadsAssumption DEF Team

LEMMA BarrierStarts == BarrierInit => BarrierInv
<1> SUFFICES ASSUME BarrierInit PROVE BarrierInv
  OBVIOUS
<1>1. Waiting = {}
  BY DEF BarrierInit, Waiting
<1>2. Cardinality({}) = 0
  BY FS_EmptySet
<1> QED
  BY <1>1, <1>2, ThreadsAssumption
  DEF BarrierInit, BarrierInv, BarrierTypeOK, CopiesBehind, InsideIsTeam, LastIsLast, CounterCounts, Last, Team

\* While a thread is on its way in, nobody is the last.
LEMMA ArrivingMeansNoLast ==
  ASSUME BarrierInv, NEW t \in Threads, bpc[t] = "arrive"
  PROVE  \A u \in Threads : ~Last(u)
<1>1. t \in Team /\ t \notin Waiting
  BY DEF BarrierInv, InsideIsTeam, Waiting
<1> QED
  BY <1>1 DEF BarrierInv, LastIsLast

LEMMA ArriveKeeps ==
  ASSUME BarrierInv, NEW t \in Threads, Arrive(t)
  PROVE  BarrierInv' /\ Waiting' = Waiting \cup {t} /\ Released' = Released /\ t \notin Waiting \cup Released /\ t \in Team
<1> USE DEF BarrierInv
<1>1. \A u \in Threads : ~Last(u)
  BY ArrivingMeansNoLast DEF Arrive
<1>2. t \in Team /\ n_passed[t] = n_barrier_passed /\ t \notin Waiting \cup Released
  BY DEF Arrive, InsideIsTeam, Waiting, Released
<1>3. bpc'[t] \in {"reset", "spin"} /\ \A u \in Threads \ {t} : bpc'[u] = bpc[u]
  BY DEF Arrive, BarrierTypeOK
<1>4. Waiting' = Waiting \cup {t} /\ Released' = Released
  BY <1>2, <1>3 DEF Arrive, Waiting, Released
<1>5. Team' = Team /\ Waiting' \subseteq Team
  BY <1>2, <1>4 DEF Arrive, Team, InsideIsTeam
<1>6. IsFiniteSet(Team) /\ Cardinality(Team) = n_threads
  BY TeamFinite DEF BarrierTypeOK
<1>7. IsFiniteSet(Waiting) /\ IsFiniteSet(Waiting')
  BY <1>5, <1>6, FS_Subset DEF InsideIsTeam
<1>8. n_barrier = Cardinality(Waiting)
  BY <1>1 DEF CounterCounts, Last
<1>9. n_barrier' = Cardinality(Waiting')
  BY <1>2, <1>4, <1>7, <1>8, FS_AddElement DEF Arrive
<1>10. bpc'[t] = "reset" => Waiting' = Team
  <2> SUFFICES ASSUME bpc'[t] = "reset" PROVE Waiting' = Team
    OBVIOUS
  <2>1. n_barrier = n_threads - 1
    BY DEF Arrive, BarrierTypeOK
  <2>2. Cardinality(Waiting') = n_threads
    BY <1>9, <2>1, ThreadsAssumption DEF Arrive, BarrierTypeOK
  <2> QED
    BY <1>5, <1>6, <2>2, FS_Subset
<1>11. BarrierTypeOK'
  BY DEF Arrive, BarrierTypeOK
<1>12. CopiesBehind'
  BY DEF Arrive, CopiesBehind
<1>13. InsideIsTeam'
  BY <1>2, <1>3, <1>5 DEF Arrive, InsideIsTeam
<1>14. LastIsLast'
  BY <1>1, <1>3, <1>5, <1>10 DEF LastIsLast, Last
<1>15. CounterCounts'
  BY <1>1, <1>3, <1>9 DEF CounterCounts, Last
<1> QED
  BY <1>2, <1>4, <1>11, <1>12, <1>13, <1>14, <1>15

LEMMA OpenKeeps ==
  ASSUME BarrierInv, NEW t \in Threads, Open(t)
  PROVE  BarrierInv' /\ t \in Waiting /\ Waiting = Team /\ Waiting' = {} /\ Released' = Released \cup (Team \ {t})
<1> USE DEF BarrierInv
<1>1. Last(t) /\ bpc[t] = "open" /\ t \in Threads
  BY DEF Open, Last
<1>2. Waiting = Team /\ t \in Waiting /\ n_barrier = 0
  BY <1>1 DEF LastIsLast, InsideIsTeam, CounterCounts, Waiting
<1>3. \A u \in Threads \ {t} : bpc[u] \in {"out", "spin"}
  <2> SUFFICES ASSUME NEW u \in Threads \ {t} PROVE bpc[u] \in {"out", "spin"}
    OBVIOUS
  <2>1. ~Last(u)
    BY <1>1 DEF LastIsLast
  <2>2. bpc[u] # "arrive"
    BY <1>1, ArrivingMeansNoLast
  <2> QED
    BY <2>1, <2>2 DEF Last, BarrierTypeOK
<1>4. bpc'[t] = "out" /\ \A u \in Threads \ {t} : bpc'[u] = bpc[u]
  BY DEF Open, BarrierTypeOK
<1>5. \A u \in Threads : n_passed'[u] = n_passed[u] /\ n_passed[u] \in Nat /\ n_passed[u] # n_barrier_passed'
  BY DEF Open, CopiesBehind, BarrierTypeOK
<1>6. Waiting' = {}
  BY <1>5 DEF Waiting
<1>7. Released' = Released \cup (Team \ {t})
  <2>1. Released' = {u \in Threads \ {t} : bpc[u] = "spin"}
    BY <1>4, <1>5 DEF Released
  <2>2. Waiting \ {t} = {u \in Threads \ {t} : bpc[u] = "spin" /\ n_passed[u] = n_barrier_passed}
    BY <1>3 DEF Waiting
  <2>3. Released = {u \in Threads \ {t} : bpc[u] = "spin" /\ n_passed[u] # n_barrier_passed}
    BY <1>1 DEF Released
  <2> QED
    BY <1>2, <2>1, <2>2, <2>3
<1>8. BarrierTypeOK' /\ CopiesBehind'
  BY DEF Open, BarrierTypeOK, CopiesBehind
<1>9. \A u \in Threads : bpc'[u] \in {"out", "spin"}
  BY <1>3, <1>4
<1>10. InsideIsTeam' /\ LastIsLast'
  BY <1>6, <1>9 DEF InsideIsTeam, LastIsLast, Last
<1>11. CounterCounts'
  BY <1>2, <1>6, <1>9, FS_EmptySet DEF CounterCounts, Open
<1> QED
  BY <1>2, <1>6, <1>7, <1>8, <1>10, <1>11

\* The other steps leave the sets of waiting and released threads alone, or let one thread out.
LEMMA QuietStepsKeep ==
  ASSUME BarrierInv,
         \/ \E t \in Threads : EnterBarrier(t) \/ ResetCount(t)
         \/ UNCHANGED barrierVars
  PROVE  BarrierInv' /\ Waiting' = Waiting /\ Released' = Released /\ UNCHANGED n_threads
<1> USE DEF BarrierInv
<1>1. ASSUME NEW t \in Threads, EnterBarrier(t)
      PROVE  BarrierInv' /\ Waiting' = Waiting /\ Released' = Released /\ UNCHANGED n_threads
  <2>1. bpc'[t] = "arrive" /\ n_passed'[t] = n_barrier_passed /\ t \in Team
        /\ \A u \in Threads \ {t} : bpc'[u] = bpc[u] /\ n_passed'[u] = n_passed[u]
    BY <1>1 DEF EnterBarrier, BarrierTypeOK
  <2>2. Waiting' = Waiting /\ Released' = Released /\ Team' = Team
    BY <1>1, <2>1 DEF EnterBarrier, Waiting, Released, Team
  <2>3. t \in Team \ Waiting
    BY <1>1, <2>1 DEF EnterBarrier, Waiting
  <2>4. BarrierTypeOK' /\ CopiesBehind'
    BY <1>1 DEF EnterBarrier, BarrierTypeOK, CopiesBehind
  <2>5. InsideIsTeam'
    BY <1>1, <2>1, <2>2 DEF EnterBarrier, InsideIsTeam
  <2>6. LastIsLast' /\ CounterCounts'
    BY <1>1, <2>1, <2>2, <2>3 DEF EnterBarrier, LastIsLast, CounterCounts, Last
  <2> QED
    BY <1>1, <2>2, <2>4, <2>5, <2>6 DEF EnterBarrier
<1>2. ASSUME NEW t \in Threads, ResetCount(t)
      PROVE  BarrierInv' /\ Waiting' = Waiting /\ Released' = Released /\ UNCHANGED n_threads
  <2>1. bpc[t] = "reset" /\ bpc'[t] = "open" /\ \A u \in Threads \ {t} : bpc'[u] = bpc[u]
    BY <1>2 DEF ResetCount, BarrierTypeOK
  <2>2. Waiting' = Waiting /\ Released' = Released /\ Team' = Team
    BY <1>2, <2>1 DEF ResetCount, Waiting, Released, Team
  <2>3. BarrierTypeOK' /\ CopiesBehind'
    BY <1>2 DEF ResetCount, BarrierTypeOK, CopiesBehind
  <2>4. InsideIsTeam'
    BY <1>2, <2>1, <2>2 DEF ResetCount, InsideIsTeam
  <2>5. LastIsLast' /\ CounterCounts'
    BY <1>2, <2>1, <2>2 DEF ResetCount, LastIsLast, CounterCounts, Last
  <2> QED
    BY <1>2, <2>2, <2>3, <2>4, <2>5 DEF ResetCount
<1>3. CASE UNCHANGED barrierVars
  BY <1>3 DEF barrierVars, BarrierTypeOK, CopiesBehind, InsideIsTeam, LastIsLast, CounterCounts, Last, Waiting, Released, Team
<1> QED
  BY <1>1, <1>2, <1>3

LEMMA StopSpinningKeeps ==
  ASSUME BarrierInv, NEW t \in Threads, StopSpinning(t)
  PROVE  BarrierInv' /\ t \in Released /\ Waiting' = Waiting /\ Released' = Released \ {t}
<1> USE DEF BarrierInv
<1>1. bpc'[t] = "out" /\ t \in Released /\ \A u \in Threads \ {t} : bpc'[u] = bpc[u]
  BY DEF StopSpinning, BarrierTypeOK, Released
<1>2. Waiting' = Waiting /\ Released' = Released \ {t} /\ Team' = Team
  BY <1>1 DEF StopSpinning, Waiting, Released, Team
<1>3. BarrierTypeOK' /\ CopiesBehind'
  BY DEF StopSpinning, BarrierTypeOK, CopiesBehind
<1>4. InsideIsTeam' /\ LastIsLast'
  BY <1>1, <1>2 DEF StopSpinning, InsideIsTeam, LastIsLast, Last
<1>5. CounterCounts'
  BY <1>1, <1>2 DEF StopSpinning, CounterCounts, Last
<1> QED
  BY <1>1, <1>2, <1>3, <1>4, <1>5

LEMMA NewTeamKeeps ==
  ASSUME BarrierInv, NEW n \in 1..MaxThreads, NewTeam(n)
  PROVE  BarrierInv' /\ Waiting = {} /\ Waiting' = Waiting /\ Released' = Released
<1> USE DEF BarrierInv
<1>1. Waiting = {} /\ Waiting' = {} /\ Released' = Released
  BY DEF NewTeam, Waiting, Released
<1>2. \A t \in Threads : bpc[t] \in {"out", "spin"} /\ bpc'[t] = bpc[t]
  BY <1>1 DEF NewTeam, BarrierTypeOK, InsideIsTeam, Waiting
<1>3. BarrierTypeOK' /\ CopiesBehind'
  BY ThreadsAssumption DEF NewTeam, BarrierTypeOK, CopiesBehind
<1>4. InsideIsTeam' /\ LastIsLast'
  BY <1>1, <1>2 DEF InsideIsTeam, LastIsLast, Last
<1>5. CounterCounts'
  BY <1>1, <1>2 DEF NewTeam, CounterCounts
<1> QED
  BY <1>1, <1>3, <1>4, <1>5

LEMMA BarrierStep ==
  ASSUME BarrierInv, [BarrierNext]_barrierVars
  PROVE  BarrierInv' /\ [Promise!Next]_(Promise!vars)
<1>1. ASSUME NEW t \in Threads, Arrive(t) PROVE BarrierInv' /\ Promise!Wait(t)
  BY <1>1, ArriveKeeps DEF Promise!Wait, Promise!Team, Team, Arrive
<1>2. ASSUME NEW t \in Threads, Open(t) PROVE BarrierInv' /\ Promise!Release(t)
  BY <1>2, OpenKeeps DEF Promise!Release, Promise!Team, Team, Open
<1>3. ASSUME NEW t \in Threads, StopSpinning(t) PROVE BarrierInv' /\ Promise!Leave(t)
  BY <1>3, StopSpinningKeeps DEF Promise!Leave, StopSpinning
<1>4. ASSUME NEW n \in 1..MaxThreads, NewTeam(n) PROVE BarrierInv' /\ Promise!NewTeam(n)
  BY <1>4, NewTeamKeeps DEF Promise!NewTeam, NewTeam
<1>5. CASE (\E t \in Threads : EnterBarrier(t) \/ ResetCount(t)) \/ UNCHANGED barrierVars
  BY <1>5, QuietStepsKeep DEF Promise!vars
<1>6. BarrierNext =>
        \/ \E n \in 1..MaxThreads : NewTeam(n)
        \/ \E t \in Threads : Arrive(t) \/ Open(t) \/ StopSpinning(t)
        \/ \E t \in Threads : EnterBarrier(t) \/ ResetCount(t)
  BY DEF BarrierNext
<1> QED
  BY <1>1, <1>2, <1>3, <1>4, <1>5, <1>6 DEF Promise!Next, Threads

\* The inductive invariant: one thread is the last, when all are in, and the counter counts those that wait.
\* Code: ggml_barrier.
THEOREM BarrierInvariant == BarrierSpec => []BarrierInv
<1>1. BarrierInv /\ [BarrierNext]_barrierVars => BarrierInv'
  BY BarrierStep
<1> QED
  BY BarrierStarts, <1>1, PTL DEF BarrierSpec

\* For every number of threads: nobody gets out of ggml_barrier before the whole team is in, also while threads of earlier
\* teams are still spinning. Code: ggml_barrier.
THEOREM BarrierKeepsPromise == BarrierSpec => BarrierHolds
<1>1. BarrierInit => Promise!Init
  BY DEF BarrierInit, Promise!Init, Waiting, Released
<1>2. BarrierInv /\ [BarrierNext]_barrierVars => [Promise!Next]_(Promise!vars)
  BY BarrierStep
<1> QED
  BY <1>1, <1>2, BarrierInvariant, PTL DEF BarrierSpec, BarrierHolds, Promise!Spec

------------------------------------------------------------------------------
(* The pool. at is where a thread is once the barrier that has opened for it is behind it: the team leaves a barrier in    *)
(* one step of at, the step that opens it.                                                                                *)

Outer == {"top", "pauseLocked", "paused", "checkStop", "exited", "pollFlags", "pollGraph", "checkLocked", "asleep"}
AtRest == {"idle", "join", "freed"}
Spread == {"node", "rows", "convert", "chunk", "multiply", "claim", "computed", "barrier"}

at == [t \in Threads |-> IF t \in Released THEN after[t] ELSE pc[t]]
Seen(t) == last_graph[t] = <<graph, n_threads>>
Stages == 2 * NNodes
WorkUpTo(s, n) == UNION {Work(r, n) : r \in 1..s}

PoolTyping ==
  /\ pc \in [Threads -> Outer \cup AtRest \cup {"signal"} \cup Spread]
  /\ \A t \in Threads : pc[t] \in Outer => t # Main
  /\ \A t \in Threads : pc[t] \in AtRest \cup {"signal"} => t = Main
  /\ graph \in Nat /\ stop \in BOOLEAN /\ pause \in BOOLEAN
  /\ abort \in {-1} \cup 1..NNodes /\ ec \in {"success", "aborted"}
  /\ current_chunk \in Nat
  /\ last_graph \in [Threads -> (0..graph) \X (0..MaxThreads)]
  /\ node_n \in [Threads -> 0..NNodes]
  /\ chunk \in [Threads -> Nat]
  /\ after \in [Threads -> {"node", "chunk", "idle", "top"}]
  /\ \A t \in Threads : (after[t] = "idle" => t = Main) /\ (after[t] = "top" => t # Main)
  /\ \A t \in Threads : bpc[t] # "out" => pc[t] = "barrier"

\* From the head of node k the first stage with something to do is r; the last stage stands for the end of the graph.
Leads(k, r, n) ==
  /\ 2 * k <= r
  /\ \A s \in (2 * k + 1)..(r - 1) : Work(s, n) = {}
  /\ r = Stages \/ 2 * k < r

StageIsWork(r, n) == r = Stages \/ (r \in 1..Stages /\ Work(r, n) # {})
ChunkStage(s) == s \in 1..Stages /\ s % 2 = 0 /\ Nodes[(s + 1) \div 2] = "mul_mat"
Final(t) == after[t] = IF t = Main THEN "idle" ELSE "top"

\* A thread of the team whose next barrier is the one behind stage r.
Place(t, r) ==
  \/ at[t] \in Outer /\ ~Seen(t) /\ Leads(0, r, n_threads)
  \/ at[t] = "signal" /\ Leads(0, r, n_threads)
  \/ /\ t # Main => Seen(t)
     /\ \/ at[t] = "node" /\ Leads(node_n[t], r, n_threads)
        \/ /\ node_n[t] < NNodes
           /\ \/ at[t] = "rows" /\ Kind(t) = "rows" /\ r = Second(t)
              \/ at[t] = "convert" /\ Kind(t) = "mul_mat" /\ r = First(t)
              \/ at[t] \in {"chunk", "multiply", "claim"} /\ Kind(t) = "mul_mat" /\ r = Second(t)
              \/ at[t] = "computed" /\ Kind(t) # "none" /\ r = Second(t)
              \/ at[t] = "barrier" /\ after[t] = "chunk" /\ Kind(t) = "mul_mat" /\ r = First(t)
              \/ at[t] = "barrier" /\ after[t] = "node" /\ r = 2 * node_n[t] /\ 0 < node_n[t]
        \/ at[t] = "barrier" /\ Final(t) /\ r = Stages

\* It has done its share of stage r.
Past(t, r) == at[t] \in {"computed", "barrier"} \/ (at[t] = "node" /\ 2 * node_n[t] = r)
\* It has done the piece of stage r that has its number.
OwnDone(t, r) == Past(t, r) \/ at[t] = "claim" \/ (at[t] = "multiply" /\ chunk[t] # t)

AllPlaced(r) == \A t \in Team : Place(t, r)
AbortMark(r) == abort = -1 \/ (r = 2 * abort /\ Past(Main, r))
DoneBefore(r) == (\A s \in 1..(r - 1) : Work(s, n_threads) \subseteq finished) /\ finished \subseteq WorkUpTo(r, n_threads)
OwnPieces(r) == \A t \in Team : r > 0 /\ <<r, t>> \in Work(r, n_threads) => (<<r, t>> \in finished <=> OwnDone(t, r))
CounterSet(r) == r % 2 = 1 /\ at[Main] = "barrier" => current_chunk = n_threads

\* The chunks of a product: a thread multiplies its own number or one it has claimed; those claimed are done or being done;
\* nobody passes before all are claimed.
Multiplying(c) == \E t \in Team : at[t] = "multiply" /\ chunk[t] = c
ClaimsFit ==
  /\ \A t \in Team : at[t] = "multiply" =>
       chunk[t] < Chunks(n_threads) /\ (chunk[t] = t \/ chunk[t] \in n_threads..(current_chunk - 1))
  /\ \A t, u \in Team : at[t] = "multiply" /\ at[u] = "multiply" /\ chunk[t] = chunk[u] => t = u
ClaimedDone(r) ==
  \A c \in n_threads..(Chunks(n_threads) - 1) : <<r, c>> \in finished <=> c < current_chunk /\ ~Multiplying(c)
AllClaimed(r) ==
  \A t \in Team : Past(t, r) => Chunks(n_threads) <= n_threads \/ Chunks(n_threads) <= current_chunk
ChunksInv(r) == ChunkStage(r) => current_chunk >= n_threads /\ ClaimsFit /\ ClaimedDone(r) /\ AllClaimed(r)

OthersOut == \A t \in Threads \ Team : at[t] \in Outer

Working(r) ==
  /\ n_threads # 0
  /\ OthersOut /\ StageIsWork(r, n_threads) /\ AllPlaced(r) /\ AbortMark(r)
  /\ DoneBefore(r) /\ OwnPieces(r) /\ CounterSet(r) /\ ChunksInv(r)

Aborting ==
  /\ n_threads # 0
  /\ OthersOut
  /\ abort \in 1..(NNodes - 1)
  /\ \A t \in Team :
       /\ t # Main => Seen(t)
       /\ \/ at[t] = "node" /\ node_n[t] = abort
          \/ at[t] = "barrier" /\ Final(t)
  /\ finished = WorkUpTo(2 * abort, n_threads)

Resting ==
  /\ at[Main] \in AtRest
  /\ \A t \in Workers : at[t] \in Outer
  /\ \A t \in Team \ {Main} : Seen(t)
  /\ n_threads # 0 => finished = WorkUpTo(IF abort = -1 THEN Stages ELSE 2 * abort, n_threads)

Phase == Resting \/ Aborting \/ \E r \in 0..Stages : Working(r)
PoolInv == BarrierInv /\ PoolTyping /\ Phase

------------------------------------------------------------------------------
(* The stages of a graph.                                                                                                 *)

LEMMA ThreadBounds == MaxThreads \in Nat /\ MaxThreads > 0 /\ NNodes \in Nat /\ Stages \in Nat /\ Main \in Threads
BY ThreadsAssumption, GraphAssumption DEF NNodes, Stages, Threads, Main

LEMMA NodeKinds ==
  ASSUME NEW k \in 0..(NNodes - 1)
  PROVE  Nodes[k + 1] \in {"none", "rows", "mul_mat"}
BY ThreadBounds, GraphAssumption DEF NNodes

\* Stage 2k+1 and stage 2k+2 are those of node k.
LEMMA NodeOfStage ==
  ASSUME NEW k \in Nat
  PROVE  /\ (2 * k + 1) % 2 = 1 /\ (2 * k + 2) % 2 = 0 /\ (2 * k) % 2 = 0
         /\ ((2 * k + 1) + 1) \div 2 = k + 1 /\ ((2 * k + 2) + 1) \div 2 = k + 1
<1>1. (2 * k + 1) % 2 = 1 /\ (2 * k + 2) % 2 = 0 /\ (2 * k) % 2 = 0
  OBVIOUS
<1>2. (2 * k + 2) \div 2 = k + 1 /\ (2 * k + 3) \div 2 = k + 1
  OBVIOUS
<1> QED
  BY <1>1, <1>2

LEMMA StageOfNode ==
  ASSUME NEW s \in 1..Stages
  PROVE  \E k \in 0..(NNodes - 1) : s = 2 * k + 1 \/ s = 2 * k + 2
<1>1. s = 2 * ((s - 1) \div 2) + 1 \/ s = 2 * ((s - 1) \div 2) + 2
  BY ThreadBounds
<1>2. (s - 1) \div 2 \in 0..(NNodes - 1)
  BY <1>1, ThreadBounds DEF Stages
<1> QED
  BY <1>1, <1>2

LEMMA ChunksEnough ==
  ASSUME NEW n \in Nat
  PROVE  Chunks(n) \in Nat /\ n <= Chunks(n)
BY GraphAssumption DEF Chunks

LEMMA WorkOfNode ==
  ASSUME NEW k \in 0..(NNodes - 1), NEW n \in Nat
  PROVE  /\ Pieces(2 * k + 1, n) = IF Nodes[k + 1] = "mul_mat" THEN 0..(n - 1) ELSE {}
         /\ Nodes[k + 1] = "none" => Pieces(2 * k + 2, n) = {}
         /\ Nodes[k + 1] = "rows" => Pieces(2 * k + 2, n) = 0..(n - 1)
         /\ Nodes[k + 1] = "mul_mat" => Pieces(2 * k + 2, n) = 0..(Chunks(n) - 1)
         /\ ~ChunkStage(2 * k + 1)
         /\ ChunkStage(2 * k + 2) <=> Nodes[k + 1] = "mul_mat"
<1>1. k \in Nat /\ 2 * k + 2 \in 1..Stages
  BY ThreadBounds DEF Stages
<1>2. (2 * k + 1) % 2 = 1 /\ (2 * k + 2) % 2 = 0 /\ ((2 * k + 1) + 1) \div 2 = k + 1 /\ ((2 * k + 2) + 1) \div 2 = k + 1
  BY <1>1, NodeOfStage
<1>3. Pieces(2 * k + 1, n) = IF Nodes[k + 1] = "mul_mat" THEN 0..(n - 1) ELSE {}
  BY <1>2 DEF Pieces
<1>4. /\ Nodes[k + 1] = "none" => Pieces(2 * k + 2, n) = {}
      /\ Nodes[k + 1] = "rows" => Pieces(2 * k + 2, n) = 0..(n - 1)
      /\ Nodes[k + 1] = "mul_mat" => Pieces(2 * k + 2, n) = 0..(Chunks(n) - 1)
  <2>1. (2 * k + 2) % 2 # 1 /\ ((2 * k + 2) + 1) \div 2 = k + 1
    BY <1>2
  <2>2. Nodes[k + 1] = "none" => Pieces(2 * k + 2, n) = {}
    BY <2>1 DEF Pieces
  <2>3. Nodes[k + 1] = "rows" => Pieces(2 * k + 2, n) = 0..(n - 1)
    BY <2>1 DEF Pieces
  <2>4. Nodes[k + 1] = "mul_mat" => Pieces(2 * k + 2, n) = 0..(Chunks(n) - 1)
    BY <2>1 DEF Pieces
  <2> QED
    BY <2>2, <2>3, <2>4
<1>5. ~ChunkStage(2 * k + 1) /\ (ChunkStage(2 * k + 2) <=> Nodes[k + 1] = "mul_mat")
  BY <1>1, <1>2 DEF ChunkStage
<1> QED
  BY <1>3, <1>4, <1>5

LEMMA InWork ==
  ASSUME NEW s, NEW n
  PROVE  /\ \A i : <<s, i>> \in Work(s, n) <=> i \in Pieces(s, n)
         /\ Work(s, n) = {} <=> Pieces(s, n) = {}
         /\ \A p \in Work(s, n) : \E j \in Pieces(s, n) : p = <<s, j>>
<1>1. ASSUME NEW i PROVE <<s, i>> \in Work(s, n) <=> i \in Pieces(s, n)
  BY DEF Work
<1>2. Work(s, n) = {} <=> Pieces(s, n) = {}
  BY DEF Work
<1>3. \A p \in Work(s, n) : \E j \in Pieces(s, n) : p = <<s, j>>
  BY DEF Work
<1> QED
  BY <1>1, <1>2, <1>3

\* A stage with anything to do has a piece for every thread of the team; only a product has more.
LEMMA OwnPieceExists ==
  ASSUME NEW n \in Nat \ {0}, NEW r \in 1..Stages, Work(r, n) # {}
  PROVE  /\ \A i \in 0..(n - 1) : <<r, i>> \in Work(r, n)
         /\ ChunkStage(r) => Pieces(r, n) = 0..(Chunks(n) - 1)
         /\ ~ChunkStage(r) => Pieces(r, n) = 0..(n - 1)
<1>1. PICK k \in 0..(NNodes - 1) : r = 2 * k + 1 \/ r = 2 * k + 2
  BY StageOfNode
<1>2. Nodes[k + 1] \in {"none", "rows", "mul_mat"}
  BY NodeKinds
<1>3. Chunks(n) \in Nat /\ n <= Chunks(n)
  BY ChunksEnough
<1>4. Pieces(r, n) # {} /\ \A i : <<r, i>> \in Work(r, n) <=> i \in Pieces(r, n)
  BY InWork
<1>5. CASE r = 2 * k + 1
  BY <1>2, <1>4, <1>5, WorkOfNode
<1>6. CASE r = 2 * k + 2
  <2>1. CASE Nodes[k + 1] = "none"
    BY <1>4, <1>6, <2>1, WorkOfNode
  <2>2. CASE Nodes[k + 1] = "rows"
    <3>1. Pieces(r, n) = 0..(n - 1) /\ ~ChunkStage(r)
      BY <1>6, <2>2, WorkOfNode
    <3> QED
      BY <1>4, <3>1
  <2>3. CASE Nodes[k + 1] = "mul_mat"
    <3>1. Pieces(r, n) = 0..(Chunks(n) - 1) /\ ChunkStage(r)
      BY <1>6, <2>3, WorkOfNode
    <3>2. \A i \in 0..(n - 1) : i \in 0..(Chunks(n) - 1)
      BY <1>3
    <3> QED
      BY <1>4, <3>1, <3>2
  <2> QED
    BY <1>2, <2>1, <2>2, <2>3
<1> QED
  BY <1>1, <1>5, <1>6

LEMMA ChunkStageIsWork ==
  ASSUME NEW n \in Nat \ {0}, NEW r, ChunkStage(r)
  PROVE  r \in 1..Stages /\ Work(r, n) # {} /\ Pieces(r, n) = 0..(Chunks(n) - 1) /\ r % 2 = 0
<1>1. r \in 1..Stages /\ r % 2 = 0
  BY DEF ChunkStage
<1>2. PICK k \in 0..(NNodes - 1) : r = 2 * k + 1 \/ r = 2 * k + 2
  BY <1>1, StageOfNode
<1>3. r = 2 * k + 2 /\ Nodes[k + 1] = "mul_mat"
  BY <1>2, WorkOfNode
<1>4. Pieces(r, n) = 0..(Chunks(n) - 1)
  BY <1>3, WorkOfNode
<1>5. 0 \in Pieces(r, n)
  BY <1>4, ChunksEnough
<1> QED
  BY <1>1, <1>4, <1>5, InWork

\* From a node without computation the head of the next one leads to the same stage; from any other its own first stage.
LEMMA LeadsOn ==
  ASSUME NEW n \in Nat \ {0}, NEW k \in 0..(NNodes - 1), NEW r \in 0..Stages, StageIsWork(r, n), Leads(k, r, n)
  PROVE  /\ Nodes[k + 1] = "none" => Leads(k + 1, r, n)
         /\ Nodes[k + 1] = "rows" => r = 2 * k + 2
         /\ Nodes[k + 1] = "mul_mat" => r = 2 * k + 1
<1>1. k \in Nat /\ 2 * k + 2 \in 1..Stages /\ 2 * k + 1 \in 1..Stages /\ r \in Nat /\ Stages \in Nat
  BY ThreadBounds DEF Stages
<1>2. 2 * k < r
  BY <1>1 DEF Leads
<1>3. r >= 2 * k + 2 => Work(2 * k + 1, n) = {}
  BY <1>1 DEF Leads
<1>4. r >= 2 * k + 3 => Work(2 * k + 2, n) = {}
  BY <1>1 DEF Leads
<1>5. r = 2 * k + 2 \/ r = 2 * k + 1 \/ r >= 2 * k + 3
  BY <1>1, <1>2
<1>6. CASE Nodes[k + 1] = "none"
  <2>1. Work(2 * k + 1, n) = {} /\ Work(2 * k + 2, n) = {}
    BY <1>6, WorkOfNode, InWork
  <2>2. r # 2 * k + 1 /\ (r = 2 * k + 2 => r = Stages)
    BY <1>1, <2>1 DEF StageIsWork
  <2>3. \A s \in (2 * (k + 1) + 1)..(r - 1) : Work(s, n) = {}
    BY <1>1 DEF Leads
  <2> QED
    BY <1>1, <1>2, <1>6, <2>2, <2>3 DEF Leads
<1>7. CASE Nodes[k + 1] = "rows"
  <2>1. Pieces(2 * k + 1, n) = {}
    BY <1>7, WorkOfNode
  <2>2. Pieces(2 * k + 2, n) = 0..(n - 1)
    BY <1>7, WorkOfNode
  <2>3. 0 \in 0..(n - 1)
    OBVIOUS
  <2>4. Work(2 * k + 1, n) = {}
    BY <2>1, InWork
  <2>5. Work(2 * k + 2, n) # {}
    BY <2>2, <2>3, InWork
  <2>6. r # 2 * k + 1
    BY <1>1, <2>4 DEF StageIsWork
  <2> QED
    BY <1>4, <1>5, <1>7, <2>5, <2>6
<1>8. CASE Nodes[k + 1] = "mul_mat"
  <2>1. Pieces(2 * k + 1, n) = 0..(n - 1) /\ 0 \in 0..(n - 1)
    BY <1>8, WorkOfNode
  <2>2. Work(2 * k + 1, n) # {}
    BY <2>1, InWork
  <2>3. r = 2 * k + 1
    BY <1>1, <1>2, <1>3, <2>2
  <2> QED
    BY <1>8, <2>3
<1> QED
  BY <1>6, <1>7, <1>8, NodeKinds

LEMMA LeadsNotToChunks ==
  ASSUME NEW n \in Nat \ {0}, NEW k \in 0..NNodes, NEW r \in 0..Stages, Leads(k, r, n), 2 * k < r
  PROVE  ~ChunkStage(r)
<1> SUFFICES ASSUME ChunkStage(r) PROVE FALSE
  OBVIOUS
<1>1. PICK j \in 0..(NNodes - 1) : r = 2 * j + 1 \/ r = 2 * j + 2
  BY ChunkStageIsWork, StageOfNode
<1>2. r = 2 * j + 2 /\ Nodes[j + 1] = "mul_mat"
  BY <1>1, WorkOfNode
<1>3. Pieces(2 * j + 1, n) = 0..(n - 1) /\ 0 \in 0..(n - 1)
  BY <1>2, WorkOfNode
<1>4. 2 * j + 1 \in (2 * k + 1)..(r - 1)
  BY <1>2, ThreadBounds
<1> QED
  BY <1>3, <1>4, InWork DEF Leads

\* A non-empty set of numbers has a least one.
LEMMA LeastNumber ==
  ASSUME NEW S, S \subseteq Nat, S # {}
  PROVE  \E x \in S : \A y \in S : x <= y
<1>1. PICK x \in S : \A y \in S : ~(<<y, x>> \in OpToRel(<, Nat))
  BY NatLessThanWellFounded, WFMin
<1>2. \A y \in Nat : y < x => <<y, x>> \in OpToRel(<, Nat)
  BY Zenon DEF OpToRel
<1>3. \A y \in S : ~(y < x)
  BY <1>1, <1>2, Zenon
<1>4. \A y \in S : x <= y
  BY <1>3
<1> QED
  BY <1>4

LEMMA LeadsSomewhere ==
  ASSUME NEW n \in Nat \ {0}, NEW k \in 0..NNodes
  PROVE  \E r \in 0..Stages : StageIsWork(r, n) /\ Leads(k, r, n)
<1> DEFINE S == {s \in (2 * k + 1)..Stages : Work(s, n) # {} \/ s = Stages}
<1>1. 2 * k \in Nat /\ 2 * k <= Stages /\ Stages \in Nat
  BY ThreadBounds DEF Stages
<1>2. CASE S = {}
  <2>1. 2 * k = Stages
    BY <1>1, <1>2
  <2> QED
    BY <1>1, <2>1 DEF StageIsWork, Leads
<1>3. CASE S # {}
  <2>1. S \subseteq Nat
    BY <1>1
  <2>2. PICK r \in S : \A y \in S : r <= y
    BY <1>3, <2>1, LeastNumber
  <2>3. \A s \in (2 * k + 1)..(r - 1) : Work(s, n) = {}
    BY <1>1, <2>2
  <2> QED
    BY <1>1, <2>2, <2>3 DEF StageIsWork, Leads
<1> QED
  BY <1>2, <1>3

------------------------------------------------------------------------------
(* Where the threads are.                                                                                                 *)

LEMMA TeamIsThreads ==
  ASSUME BarrierInv
  PROVE  Team \subseteq Threads /\ n_threads \in Nat /\ (n_threads # 0 => Main \in Team) /\ \A t \in Team : t \in 0..(n_threads - 1)
BY ThreadBounds DEF BarrierInv, BarrierTypeOK, Team, Threads, Main

LEMMA AtIs ==
  ASSUME PoolTyping, NEW t \in Threads
  PROVE  /\ at[t] = IF t \in Released THEN after[t] ELSE pc[t]
         /\ pc[t] # "barrier" => at[t] = pc[t] /\ t \notin Released /\ bpc[t] = "out"
         /\ t \in Released => pc[t] = "barrier"
         /\ at[t] = "barrier" => pc[t] = "barrier"
BY DEF at, Released, PoolTyping

LEMMA AtTyped ==
  ASSUME PoolTyping, NEW t \in Threads
  PROVE  /\ at[t] \in Outer \cup AtRest \cup {"signal"} \cup Spread
         /\ at[t] \in Outer => t # Main
         /\ at[t] \in AtRest \cup {"signal"} => t = Main
<1>1. pc[t] \in Outer \cup AtRest \cup {"signal"} \cup Spread /\ after[t] \in {"node", "chunk", "idle", "top"}
  BY DEF PoolTyping
<1>2. CASE t \in Released
  BY <1>1, <1>2, AtIs DEF PoolTyping, Outer, AtRest, Spread
<1>3. CASE t \notin Released
  BY <1>1, <1>3, AtIs DEF PoolTyping
<1> QED
  BY <1>2, <1>3

\* A step outside the barrier moves its thread alone.
LEMMA MoveOne ==
  ASSUME PoolTyping, NEW t \in Threads, NEW x, pc[t] # "barrier", UNCHANGED barrierVars,
         pc' = [pc EXCEPT ![t] = x], \A u \in Threads \ {t} : after'[u] = after[u]
  PROVE  at[t] = pc[t] /\ at'[t] = x /\ \A u \in Threads \ {t} : at'[u] = at[u]
<1>1. Released' = Released
  BY DEF barrierVars, Released
<1>2. pc'[t] = x /\ \A u \in Threads \ {t} : pc'[u] = pc[u]
  BY DEF PoolTyping
<1> QED
  BY <1>1, <1>2, AtIs DEF at

\* Who is in the graph is in the team, and the graph is being worked on.
LEMMA BusyInTeam ==
  ASSUME BarrierInv, PoolTyping, Phase, NEW t \in Threads, at[t] \in Spread \cup {"signal"}
  PROVE  /\ t \in Team
         /\ Aborting \/ \E r \in 0..Stages : Working(r)
         /\ at[t] \notin {"node", "barrier"} => ~Aborting
<1>1. at[t] \notin Outer /\ at[t] \notin AtRest
  BY DEF Outer, AtRest, Spread
<1>2. ~Resting
  BY <1>1 DEF Resting, Workers
<1> QED
  BY <1>1, <1>2 DEF Phase, Aborting, Working, OthersOut

\* What a step of t leaves alone.
OthersStay(t) ==
  /\ n_threads' = n_threads /\ graph' = graph
  /\ \A u \in Threads \ {t} :
       /\ at'[u] = at[u] \/ (at[u] \in Outer /\ at'[u] \in Outer)
       /\ node_n'[u] = node_n[u] /\ chunk'[u] = chunk[u] /\ last_graph'[u] = last_graph[u] /\ after'[u] = after[u]

LEMMA PlaceStays ==
  ASSUME NEW r, NEW t, OthersStay(t), NEW u \in Threads \ {t}, Place(u, r)
  PROVE  Place(u, r)'
<1> USE DEF OthersStay, Place
<1>1. Seen(u)' <=> Seen(u)
  BY DEF Seen
<1>2. Leads(0, r, n_threads)' <=> Leads(0, r, n_threads)
  BY DEF Leads
<1>3. Leads(node_n[u], r, n_threads)' <=> Leads(node_n[u], r, n_threads)
  BY DEF Leads
<1>4. (Final(u)' <=> Final(u)) /\ Kind(u)' = Kind(u) /\ First(u)' = First(u) /\ Second(u)' = Second(u)
  BY DEF Final, Kind, First, Second
<1>5. CASE at'[u] = at[u]
  BY <1>1, <1>2, <1>3, <1>4, <1>5
<1>6. CASE at[u] \in Outer /\ at'[u] \in Outer
  BY <1>1, <1>2, <1>6 DEF Outer
<1> QED
  BY <1>5, <1>6

LEMMA PlacesStay ==
  ASSUME BarrierInv, NEW r, NEW t \in Threads, OthersStay(t), AllPlaced(r), OthersOut,
         t \in Team => Place(t, r)',
         t \notin Team => at'[t] \in Outer
  PROVE  AllPlaced(r)' /\ OthersOut' /\ Team' = Team
<1>1. Team' = Team /\ Team \subseteq Threads
  BY TeamIsThreads DEF OthersStay, Team
<1>2. \A u \in Team : Place(u, r)'
  BY <1>1, PlaceStays DEF AllPlaced
<1>3. OthersOut'
  BY <1>1 DEF OthersStay, OthersOut, Outer
<1> QED
  BY <1>1, <1>2, <1>3 DEF AllPlaced

LEMMA PastStays ==
  ASSUME NEW r, NEW t, OthersStay(t), NEW u \in Threads \ {t}
  PROVE  /\ Past(u, r)' <=> Past(u, r)
         /\ OwnDone(u, r)' <=> OwnDone(u, r)
         /\ (at[u] = "multiply")' <=> at[u] = "multiply"
         /\ (at[u] = "barrier")' <=> at[u] = "barrier"
<1>1. at'[u] = at[u] \/ (at[u] \in Outer /\ at'[u] \in Outer)
  BY DEF OthersStay
<1> QED
  BY <1>1 DEF OthersStay, Past, OwnDone, Outer

\* A step that neither takes nor finishes a piece.
LEMMA QuietMove ==
  ASSUME BarrierInv, NEW r \in 0..Stages, Working(r), NEW t \in Threads, OthersStay(t),
         finished' = finished, current_chunk' = current_chunk,
         t \in Team => Place(t, r)',
         t \notin Team => at'[t] \in Outer,
         AbortMark(r)',
         at[t] \notin {"multiply", "claim"} /\ at'[t] \notin {"multiply", "claim"},
         r > 0 /\ Work(r, n_threads) # {} => (Past(t, r)' <=> Past(t, r)),
         at'[Main] = "barrier" /\ r % 2 = 1 => current_chunk = n_threads
  PROVE  Working(r)'
<1> USE DEF Working
<1>1. AllPlaced(r)' /\ OthersOut' /\ Team' = Team /\ n_threads' = n_threads
  BY PlacesStay DEF OthersStay
<1>2. n_threads \in Nat \ {0} /\ Team \subseteq Threads
  BY TeamIsThreads
<1>3. StageIsWork(r, n_threads)' /\ DoneBefore(r)'
  BY <1>1 DEF StageIsWork, DoneBefore, WorkUpTo
<1>4. ASSUME r > 0, Work(r, n_threads) # {}, NEW u \in Team
      PROVE  (Past(u, r)' <=> Past(u, r)) /\ (OwnDone(u, r)' <=> OwnDone(u, r))
  <2>1. CASE u = t
    BY <1>4, <2>1 DEF OwnDone
  <2>2. CASE u # t
    BY <1>2, <2>2, PastStays
  <2> QED
    BY <2>1, <2>2
<1>5. OwnPieces(r)'
  <2>1. SUFFICES ASSUME r > 0, NEW u \in Team, <<r, u>> \in Work(r, n_threads)
                 PROVE  <<r, u>> \in finished <=> OwnDone(u, r)'
    BY <1>1 DEF OwnPieces
  <2> QED
    BY <1>4, <2>1 DEF OwnPieces
<1>6. CounterSet(r)'
  BY <1>1 DEF CounterSet
<1>7. ASSUME ChunkStage(r) PROVE current_chunk >= n_threads /\ ClaimsFit' /\ ClaimedDone(r)' /\ AllClaimed(r)'
  <2>1. r \in 1..Stages /\ Work(r, n_threads) # {}
    BY <1>2, <1>7, ChunkStageIsWork
  <2>2. \A u \in Team : ((at[u] = "multiply")' <=> at[u] = "multiply") /\ (at[u] = "multiply" => chunk'[u] = chunk[u])
    BY <1>2, PastStays DEF OthersStay
  <2>3. \A c : Multiplying(c)' <=> Multiplying(c)
    BY <1>1, <2>2 DEF Multiplying
  <2>4. ClaimsFit'
    BY <1>1, <1>7, <2>2 DEF ChunksInv, ClaimsFit
  <2>5. ClaimedDone(r)'
    BY <1>1, <1>7, <2>3 DEF ChunksInv, ClaimedDone
  <2>6. AllClaimed(r)'
    BY <1>1, <1>4, <1>7, <2>1 DEF ChunksInv, AllClaimed
  <2> QED
    BY <1>7, <2>4, <2>5, <2>6 DEF ChunksInv
<1> QED
  BY <1>1, <1>3, <1>5, <1>6, <1>7 DEF ChunksInv, ChunkStage

LEMMA AbortStays ==
  ASSUME NEW r, NEW t \in Threads, OthersStay(t), abort' = abort, AbortMark(r), Past(t, r) => Past(t, r)'
  PROVE  AbortMark(r)'
<1>1. CASE t = Main
  BY <1>1 DEF AbortMark
<1>2. CASE t # Main
  <2>1. Past(Main, r)' <=> Past(Main, r)
    BY <1>2, ThreadBounds, PastStays
  <2> QED
    BY <2>1 DEF AbortMark
<1> QED
  BY <1>1, <1>2

\* Sleeping, polling, pausing and what happens inside a barrier do not touch the graph.
LEMMA OuterMove ==
  ASSUME BarrierInv, PoolTyping, Phase,
         UNCHANGED <<n_threads, graph, abort, current_chunk, last_graph, node_n, chunk, after, finished>>,
         \A u \in Threads : \/ at'[u] = at[u]
                            \/ at[u] \in Outer /\ at'[u] \in Outer
                            \/ at[u] \in AtRest /\ at'[u] \in AtRest
  PROVE  Phase'
<1>1. Team' = Team /\ Team \subseteq Threads /\ n_threads \in Nat /\ (n_threads # 0 => Main \in Team) /\ Main \in Threads
  BY TeamIsThreads, ThreadBounds DEF Team
<1>2. Outer \cap AtRest = {} /\ Outer \cap Spread = {} /\ AtRest \cap Spread = {}
  BY DEF Outer, AtRest, Spread
<1>3. ASSUME Resting PROVE Resting'
  <2>1. at'[Main] \in AtRest /\ \A t \in Workers : at'[t] \in Outer
    BY <1>1, <1>2, <1>3, AtTyped DEF Resting, Workers
  <2>2. \A t \in Team : Seen(t)' <=> Seen(t)
    BY DEF Seen
  <2> QED
    BY <1>1, <1>3, <2>1, <2>2 DEF Resting, WorkUpTo
<1>4. ASSUME Aborting PROVE Aborting'
  <2>1. \A t \in Team : at'[t] = at[t]
    BY <1>1, <1>2, <1>4 DEF Aborting, Outer, AtRest
  <2>2. \A t \in Threads \ Team : at'[t] \in Outer
    BY <1>2, <1>4 DEF Aborting, OthersOut
  <2>3. \A t \in Team : (Seen(t)' <=> Seen(t)) /\ (Final(t)' <=> Final(t))
    BY DEF Seen, Final
  <2> QED
    BY <1>1, <1>4, <2>1, <2>2, <2>3 DEF Aborting, OthersOut, WorkUpTo
<1>5. ASSUME NEW r \in 0..Stages, Working(r) PROVE Working(r)'
  <2>1. Place(Main, r) /\ Main \in Team
    BY <1>1, <1>5 DEF Working, AllPlaced
  <2>2. at[Main] \notin Outer
    BY <1>1, AtTyped
  <2>3. \A u \in Team : Place(u, r)
    BY <1>5 DEF Working, AllPlaced
  <2>4. \A u \in Threads : at'[u] = at[u] \/ (at[u] \in Outer /\ at'[u] \in Outer)
    <3>1. \A u \in Team : at[u] \notin AtRest
      BY <2>3 DEF Place, Outer, AtRest
    <3>2. \A u \in Threads \ Team : at[u] \notin AtRest
      BY <1>2, <1>5 DEF Working, OthersOut
    <3> QED
      BY <3>1, <3>2
  <2>5. at'[Main] = at[Main]
    BY <1>1, <2>2, <2>4
  <2>6. \A u \in Threads : (Past(u, r)' <=> Past(u, r)) /\ (OwnDone(u, r)' <=> OwnDone(u, r)) /\ ((at[u] = "multiply")' <=> at[u] = "multiply")
    BY <2>4 DEF Past, OwnDone, Outer
  <2>7. OthersStay(Main)
    BY <2>4 DEF OthersStay
  <2>8. Place(Main, r)'
    BY <2>1, <2>5 DEF Place, Seen, Leads, Final, Kind, First, Second
  <2>9. AllPlaced(r)' /\ OthersOut'
    BY <1>1, <1>5, <2>7, <2>8, PlacesStay DEF Working
  <2>10. AbortMark(r)'
    BY <1>1, <1>5, <2>6, <2>7, AbortStays DEF Working
  <2>11. StageIsWork(r, n_threads)' /\ DoneBefore(r)' /\ CounterSet(r)'
    BY <1>5, <2>5 DEF Working, StageIsWork, DoneBefore, WorkUpTo, CounterSet
  <2>12. OwnPieces(r)'
    BY <1>1, <1>5, <2>6 DEF Working, OwnPieces
  <2>13. \A c : Multiplying(c)' <=> Multiplying(c)
    BY <1>1, <2>6 DEF Multiplying
  <2>14. ClaimsFit' <=> ClaimsFit
    BY <1>1, <2>6 DEF ClaimsFit
  <2>15. (ClaimedDone(r)' <=> ClaimedDone(r)) /\ (AllClaimed(r)' <=> AllClaimed(r))
    BY <1>1, <2>6, <2>13 DEF ClaimedDone, AllClaimed
  <2>16. ChunksInv(r)'
    BY <1>5, <2>14, <2>15 DEF Working, ChunksInv, ChunkStage
  <2> QED
    BY <1>5, <2>9, <2>10, <2>11, <2>12, <2>16 DEF Working
<1> QED
  BY <1>3, <1>4, <1>5 DEF Phase

------------------------------------------------------------------------------
(* The steps of a thread at work.                                                                                         *)

\* The head of the loop over the nodes: from here the thread has not begun the stage it is led to.
LEMMA AtNodeIs ==
  ASSUME BarrierInv, PoolTyping, Phase, NEW t \in Threads, AtNode(t)
  PROVE  /\ at[t] = "node" /\ t \in Team /\ node_n[t] \in 0..(NNodes - 1)
         /\ \E r \in 0..Stages : Working(r) /\ Leads(node_n[t], r, n_threads) /\ (t # Main => Seen(t)) /\ ~Past(t, r) /\ r > 0
<1>1. at[t] = "node" /\ node_n[t] \in 0..(NNodes - 1) /\ abort # node_n[t]
  BY ThreadBounds, AtIs DEF AtNode, PoolTyping
<1>2. t \in Team /\ (Aborting \/ \E r \in 0..Stages : Working(r))
  BY <1>1, BusyInTeam DEF Spread
<1>3. ~Aborting
  BY <1>1, <1>2 DEF Aborting
<1>4. PICK r \in 0..Stages : Working(r)
  BY <1>2, <1>3
<1>5. Leads(node_n[t], r, n_threads) /\ (t # Main => Seen(t))
  BY <1>1, <1>2, <1>4 DEF Working, AllPlaced, Place, Outer
<1>6. 2 * node_n[t] < r
  BY <1>1, <1>5, ThreadBounds DEF Leads, Stages
<1> QED
  BY <1>1, <1>2, <1>4, <1>5, <1>6 DEF Past

LEMMA SkipNodeKeeps ==
  ASSUME BarrierInv, PoolTyping, Phase, NEW t \in Threads, SkipNode(t)
  PROVE  Phase'
<1>1. at[t] = "node" /\ t \in Team /\ node_n[t] \in 0..(NNodes - 1) /\ n_threads \in Nat
  BY AtNodeIs, TeamIsThreads DEF SkipNode
<1>2. PICK r \in 0..Stages : Working(r) /\ Leads(node_n[t], r, n_threads) /\ (t # Main => Seen(t)) /\ ~Past(t, r) /\ r > 0
  BY AtNodeIs DEF SkipNode
<1>3. at'[t] = "node" /\ \A u \in Threads \ {t} : at'[u] = at[u]
  BY MoveOne DEF SkipNode, AtNode, PoolTyping
<1>4. OthersStay(t)
  BY <1>3 DEF OthersStay, SkipNode, barrierVars, sharedVars, PoolTyping
<1>5. node_n'[t] = node_n[t] + 1
  BY DEF SkipNode, PoolTyping
<1>6. Leads(node_n[t] + 1, r, n_threads)
  BY <1>1, <1>2, LeadsOn DEF SkipNode, Kind, Working
<1>7. Place(t, r)'
  BY <1>2, <1>3, <1>5, <1>6 DEF Place, Seen, Leads, SkipNode, sharedVars, barrierVars
<1>8. AbortMark(r)'
  BY <1>2, <1>4, AbortStays DEF Working, SkipNode, sharedVars
<1>9. Work(2 * node_n[t] + 2, n_threads) = {}
  BY <1>1, WorkOfNode, InWork DEF SkipNode, Kind
<1>10. Work(r, n_threads) # {} => ~Past(t, r)'
  BY <1>1, <1>3, <1>5, <1>9 DEF Past
<1>11. at'[Main] = "barrier" /\ r % 2 = 1 => current_chunk = n_threads
  BY <1>2, <1>3, ThreadBounds DEF Working, CounterSet
<1>12. Working(r)'
  BY <1>1, <1>2, <1>3, <1>4, <1>7, <1>8, <1>10, <1>11, QuietMove DEF SkipNode, sharedVars
<1> QED
  BY <1>12 DEF Phase

LEMMA BeginKeeps ==
  ASSUME BarrierInv, PoolTyping, Phase, NEW t \in Threads, BeginRows(t) \/ BeginMulMat(t)
  PROVE  Phase'
<1> DEFINE x == IF Kind(t) = "rows" THEN "rows" ELSE "convert"
<1>1. AtNode(t) /\ Kind(t) \in {"rows", "mul_mat"} /\ pc' = [pc EXCEPT ![t] = x]
      /\ UNCHANGED <<barrierVars, sharedVars, last_graph, node_n, chunk, after, finished>>
  BY DEF BeginRows, BeginMulMat, Goto
<1>2. at[t] = "node" /\ t \in Team /\ node_n[t] \in 0..(NNodes - 1) /\ n_threads \in Nat
  BY <1>1, AtNodeIs, TeamIsThreads
<1>3. PICK r \in 0..Stages : Working(r) /\ Leads(node_n[t], r, n_threads) /\ (t # Main => Seen(t)) /\ ~Past(t, r) /\ r > 0
  BY <1>1, AtNodeIs
<1>4. at'[t] = x /\ \A u \in Threads \ {t} : at'[u] = at[u]
  BY <1>1, MoveOne DEF AtNode
<1>5. OthersStay(t)
  BY <1>1, <1>4 DEF OthersStay, barrierVars, sharedVars
<1>6. (Kind(t) = "rows" => r = Second(t)) /\ (Kind(t) = "mul_mat" => r = First(t))
  BY <1>2, <1>3, LeadsOn DEF Kind, Working, First, Second
<1>7. Place(t, r)'
  <2>1. (Seen(t)' <=> Seen(t)) /\ Kind(t)' = Kind(t) /\ First(t)' = First(t) /\ Second(t)' = Second(t) /\ node_n'[t] < NNodes
    BY <1>1, <1>2, ThreadBounds DEF Seen, Kind, First, Second, sharedVars, barrierVars
  <2>2. CASE Kind(t) = "rows"
    BY <1>3, <1>4, <1>6, <2>1, <2>2 DEF Place
  <2>3. CASE Kind(t) = "mul_mat"
    BY <1>3, <1>4, <1>6, <2>1, <2>3 DEF Place
  <2> QED
    BY <1>1, <2>2, <2>3
<1>8. AbortMark(r)' /\ ~Past(t, r)'
  BY <1>1, <1>3, <1>4, <1>5, AbortStays DEF Working, sharedVars, Past
<1>9. at'[Main] = "barrier" /\ r % 2 = 1 => current_chunk = n_threads
  BY <1>3, <1>4, ThreadBounds DEF Working, CounterSet
<1>10. Working(r)'
  BY <1>1, <1>2, <1>3, <1>4, <1>5, <1>7, <1>8, <1>9, QuietMove DEF sharedVars
<1> QED
  BY <1>10 DEF Phase

\* The loop ends where the nodes do, or where the caller has aborted it.
LEMMA LoopEndsKeeps ==
  ASSUME BarrierInv, PoolTyping, Phase, NEW t \in Threads, LoopEnds(t)
  PROVE  Phase'
<1>1. at[t] = "node" /\ at'[t] = "barrier" /\ (\A u \in Threads \ {t} : at'[u] = at[u])
  BY MoveOne DEF LoopEnds, Goto, PoolTyping
<1>2. t \in Team /\ (Aborting \/ \E r \in 0..Stages : Working(r)) /\ Team \subseteq Threads
  BY <1>1, BusyInTeam, TeamIsThreads DEF Spread
<1>3. OthersStay(t) /\ Final(t)' /\ (Seen(t)' <=> Seen(t)) /\ Team' = Team
  BY <1>1 DEF OthersStay, Final, LoopEnds, barrierVars, sharedVars, PoolTyping, Seen, Team
<1>4. CASE Aborting
  <2>1. \A u \in Threads \ {t} : (Seen(u)' <=> Seen(u)) /\ (Final(u)' <=> Final(u))
    BY <1>3 DEF OthersStay, Seen, Final
  <2>2. Aborting'
    BY <1>1, <1>2, <1>3, <1>4, <2>1 DEF Aborting, OthersOut, LoopEnds, barrierVars, sharedVars, WorkUpTo
  <2> QED
    BY <2>2 DEF Phase
<1>5. ASSUME NEW r \in 0..Stages, Working(r) PROVE Phase'
  <2>1. Leads(node_n[t], r, n_threads) /\ (t # Main => Seen(t)) /\ AbortMark(r)
    BY <1>1, <1>2, <1>5 DEF Working, AllPlaced, Place, Outer
  <2>2. node_n[t] = NNodes /\ r = Stages
    BY <2>1, ThreadBounds DEF Leads, Stages, LoopEnds, AbortMark, PoolTyping
  <2>3. Place(t, r)'
    BY <1>1, <1>3, <2>1, <2>2 DEF Place
  <2>4. Past(t, r) /\ Past(t, r)'
    BY <1>1, <2>2 DEF Past, Stages
  <2>5. AbortMark(r)'
    BY <1>3, <2>1, <2>4, AbortStays DEF LoopEnds, sharedVars
  <2>6. r % 2 # 1
    BY <2>2, ThreadBounds, NodeOfStage DEF Stages
  <2>7. Working(r)'
    BY <1>1, <1>2, <1>3, <1>5, <2>3, <2>4, <2>5, <2>6, QuietMove DEF LoopEnds, sharedVars
  <2> QED
    BY <2>7 DEF Phase
<1> QED
  BY <1>2, <1>4, <1>5

LEMMA InStage ==
  ASSUME BarrierInv, PoolTyping, Phase, NEW t \in Threads,
         pc[t] \in {"rows", "convert", "chunk", "multiply", "claim", "computed"}
  PROVE  /\ at[t] = pc[t] /\ t \in Team /\ node_n[t] \in 0..(NNodes - 1) /\ n_threads \in Nat \ {0}
         /\ \E r \in 1..Stages :
              /\ Working(r) /\ (t # Main => Seen(t))
              /\ pc[t] = "rows" => Kind(t) = "rows" /\ r = Second(t) /\ ~ChunkStage(r)
              /\ pc[t] = "convert" => Kind(t) = "mul_mat" /\ r = First(t) /\ ~ChunkStage(r)
              /\ pc[t] \in {"chunk", "multiply", "claim"} => Kind(t) = "mul_mat" /\ r = Second(t) /\ ChunkStage(r)
              /\ pc[t] = "computed" => r = Second(t)
<1>1. at[t] = pc[t]
  BY AtIs
<1>2. t \in Team /\ \E r \in 0..Stages : Working(r)
  BY <1>1, BusyInTeam DEF Spread
<1>3. PICK r \in 0..Stages : Working(r)
  BY <1>2
<1>4. n_threads \in Nat \ {0}
  BY <1>3, TeamIsThreads DEF Working
<1>5. Place(t, r)
  BY <1>2, <1>3 DEF Working, AllPlaced
<1>6. /\ t # Main => Seen(t)
      /\ node_n[t] < NNodes
      /\ pc[t] = "rows" => Kind(t) = "rows" /\ r = Second(t)
      /\ pc[t] = "convert" => Kind(t) = "mul_mat" /\ r = First(t)
      /\ pc[t] \in {"chunk", "multiply", "claim"} => Kind(t) = "mul_mat" /\ r = Second(t)
      /\ pc[t] = "computed" => r = Second(t)
  BY <1>1, <1>5 DEF Place, Outer
<1>7. node_n[t] \in 0..(NNodes - 1)
  BY <1>6, ThreadBounds DEF PoolTyping
<1>8. ~ChunkStage(First(t)) /\ (ChunkStage(Second(t)) <=> Kind(t) = "mul_mat")
  BY <1>4, <1>7, WorkOfNode DEF First, Second, Kind
<1>9. r \in 1..Stages
  BY <1>6, <1>7, ThreadBounds DEF First, Second, Stages
<1> QED
  BY <1>1, <1>2, <1>3, <1>4, <1>6, <1>7, <1>8, <1>9

\* A slice is finished.
LEMMA FinishOwn ==
  ASSUME BarrierInv, NEW r \in 1..Stages, Working(r), ~ChunkStage(r), NEW t \in Team, OthersStay(t),
         <<r, t>> \in Work(r, n_threads),
         finished' = finished \cup {<<r, t>>},
         Place(t, r)', AbortMark(r)', Past(t, r)', CounterSet(r)'
  PROVE  Working(r)'
<1> USE DEF Working
<1>1. Team \subseteq Threads
  BY TeamIsThreads
<1>2. AllPlaced(r)' /\ OthersOut' /\ Team' = Team /\ n_threads' = n_threads
  BY <1>1, PlacesStay DEF OthersStay
<1>3. StageIsWork(r, n_threads)' /\ ChunksInv(r)'
  BY <1>2 DEF StageIsWork, ChunksInv, ChunkStage
<1>4. DoneBefore(r)'
  BY <1>2 DEF DoneBefore, WorkUpTo
<1>5. OwnPieces(r)'
  <2>1. SUFFICES ASSUME NEW u \in Team, <<r, u>> \in Work(r, n_threads)
                 PROVE  <<r, u>> \in finished' <=> OwnDone(u, r)'
    BY <1>2 DEF OwnPieces
  <2>2. CASE u = t
    BY <2>2 DEF OwnDone
  <2>3. CASE u # t
    <3>1. OwnDone(u, r)' <=> OwnDone(u, r)
      BY <1>1, <2>3, PastStays
    <3>2. <<r, u>> # <<r, t>>
      BY <2>3
    <3> QED
      BY <2>1, <3>1, <3>2 DEF OwnPieces
  <2> QED
    BY <2>2, <2>3
<1> QED
  BY <1>2, <1>3, <1>4, <1>5

LEMMA FinishRowsKeeps ==
  ASSUME BarrierInv, PoolTyping, Phase, NEW t \in Threads, FinishRows(t)
  PROVE  Phase'
<1>1. t \in Team /\ node_n[t] \in 0..(NNodes - 1) /\ n_threads \in Nat \ {0} /\ t \in 0..(n_threads - 1)
  BY InStage, TeamIsThreads DEF FinishRows, Step
<1>2. PICK r \in 1..Stages : /\ Working(r) /\ (t # Main => Seen(t))
                             /\ Kind(t) = "rows" /\ r = Second(t) /\ ~ChunkStage(r)
  BY InStage DEF FinishRows, Step
<1>3. at'[t] = "computed" /\ \A u \in Threads \ {t} : at'[u] = at[u]
  BY MoveOne DEF FinishRows, Step, Goto
<1>4. OthersStay(t)
  BY <1>3 DEF OthersStay, FinishRows, barrierVars, sharedVars
<1>5. <<r, t>> \in Work(r, n_threads)
  <2>1. Pieces(r, n_threads) = 0..(n_threads - 1)
    BY <1>1, <1>2, WorkOfNode DEF Second, Kind
  <2> QED
    BY <1>1, <2>1, InWork
<1>6. Place(t, r)'
  <2>1. (Seen(t)' <=> Seen(t)) /\ Kind(t)' = Kind(t) /\ Second(t)' = Second(t) /\ node_n'[t] < NNodes
    BY <1>1, ThreadBounds DEF FinishRows, Seen, Kind, Second, sharedVars, barrierVars
  <2> QED
    BY <1>2, <1>3, <2>1 DEF Place
<1>7. Past(t, r)'
  BY <1>3 DEF Past
<1>8. AbortMark(r)'
  BY <1>2, <1>4, <1>7, AbortStays DEF Working, FinishRows, sharedVars
<1>9. CounterSet(r)'
  BY <1>1, <1>2, NodeOfStage DEF CounterSet, Second
<1>10. Working(r)'
  BY <1>1, <1>2, <1>4, <1>5, <1>6, <1>7, <1>8, <1>9, FinishOwn DEF FinishRows, FinishPiece
<1> QED
  BY <1>10 DEF Phase

LEMMA FinishConvertKeeps ==
  ASSUME BarrierInv, PoolTyping, Phase, NEW t \in Threads, FinishConvert(t)
  PROVE  Phase'
<1>1. t \in Team /\ node_n[t] \in 0..(NNodes - 1) /\ n_threads \in Nat \ {0} /\ t \in 0..(n_threads - 1)
  BY InStage, TeamIsThreads DEF FinishConvert, Step
<1>2. PICK r \in 1..Stages : /\ Working(r) /\ (t # Main => Seen(t))
                             /\ Kind(t) = "mul_mat" /\ r = First(t) /\ ~ChunkStage(r)
  BY InStage DEF FinishConvert, Step
<1>3. at'[t] = "barrier" /\ (\A u \in Threads \ {t} : at'[u] = at[u]) /\ after'[t] = "chunk"
  BY MoveOne DEF FinishConvert, Step, Goto, PoolTyping
<1>4. OthersStay(t)
  BY <1>3 DEF OthersStay, FinishConvert, barrierVars, PoolTyping
<1>5. <<r, t>> \in Work(r, n_threads)
  <2>1. Pieces(r, n_threads) = 0..(n_threads - 1)
    BY <1>1, <1>2, WorkOfNode DEF First, Kind
  <2> QED
    BY <1>1, <2>1, InWork
<1>6. Place(t, r)'
  <2>1. (Seen(t)' <=> Seen(t)) /\ Kind(t)' = Kind(t) /\ First(t)' = First(t) /\ node_n'[t] < NNodes
    BY <1>1, ThreadBounds DEF FinishConvert, Seen, Kind, First, barrierVars
  <2> QED
    BY <1>2, <1>3, <2>1 DEF Place
<1>7. Past(t, r)'
  BY <1>3 DEF Past
<1>8. AbortMark(r)'
  BY <1>2, <1>4, <1>7, AbortStays DEF Working, FinishConvert
<1>9. CounterSet(r)'
  <2>1. CASE t = Main
    BY <2>1 DEF CounterSet, FinishConvert, barrierVars
  <2>2. CASE t # Main
    BY <1>2, <1>3, <2>2, ThreadBounds DEF Working, CounterSet, FinishConvert, barrierVars
  <2> QED
    BY <2>1, <2>2
<1>10. Working(r)'
  BY <1>1, <1>2, <1>4, <1>5, <1>6, <1>7, <1>8, <1>9, FinishOwn DEF FinishConvert, FinishPiece
<1> QED
  BY <1>10 DEF Phase

LEMMA NodeDoneKeeps ==
  ASSUME BarrierInv, PoolTyping, Phase, NEW t \in Threads, NEW aborting \in BOOLEAN, NodeDone(t, aborting)
  PROVE  Phase'
<1>1. t \in Team /\ node_n[t] \in 0..(NNodes - 1) /\ at[t] = "computed" /\ n_threads \in Nat \ {0}
  BY InStage DEF NodeDone, Step
<1>2. PICK r \in 1..Stages : Working(r) /\ (t # Main => Seen(t)) /\ r = Second(t)
  BY InStage DEF NodeDone, Step
<1>3. at'[t] = (IF node_n[t] + 1 < NNodes THEN "barrier" ELSE "node") /\ (\A u \in Threads \ {t} : at'[u] = at[u])
      /\ after'[t] = "node" /\ node_n'[t] = node_n[t] + 1
  <2>1. /\ after'[t] = "node" /\ node_n'[t] = node_n[t] + 1
        /\ \A u \in Threads \ {t} : after'[u] = after[u]
    BY DEF NodeDone, PoolTyping
  <2>2. /\ pc[t] = "computed" /\ UNCHANGED barrierVars
        /\ pc' = [pc EXCEPT ![t] = IF node_n[t] + 1 < NNodes THEN "barrier" ELSE "node"]
    BY DEF NodeDone, Step, Goto
  <2> QED
    BY <2>1, <2>2, MoveOne
<1>4. OthersStay(t)
  BY <1>3 DEF OthersStay, NodeDone, barrierVars, PoolTyping
<1>5. r = 2 * node_n'[t] /\ node_n'[t] \in 1..NNodes /\ (node_n'[t] = NNodes => r = Stages) /\ r % 2 = 0
  <2>1. node_n[t] \in Nat /\ node_n[t] < NNodes /\ NNodes \in Nat
    BY <1>1, ThreadBounds
  <2>2. r = 2 * node_n[t] + 2 /\ node_n'[t] = node_n[t] + 1
    BY <1>2, <1>3 DEF Second
  <2>3. r % 2 = 0
    BY <2>1, <2>2, NodeOfStage
  <2>4. ASSUME NEW n \in Nat, NEW m \in Nat, n < m
        PROVE  2 * n + 2 = 2 * (n + 1) /\ n + 1 \in 1..m /\ (n + 1 = m => 2 * n + 2 = 2 * m)
    BY <2>4
  <2>5. /\ r = 2 * (node_n[t] + 1) /\ node_n[t] + 1 \in 1..NNodes
        /\ (node_n[t] + 1 = NNodes => r = 2 * NNodes)
    BY <2>1, <2>2, <2>4
  <2> QED
    BY <2>2, <2>3, <2>5 DEF Stages
<1>6. Past(t, r) /\ Past(t, r)'
  BY <1>1, <1>3, <1>5, ThreadBounds DEF Past
<1>7. Place(t, r)'
  <2>1. Seen(t)' <=> Seen(t)
    BY DEF NodeDone, Seen, barrierVars
  <2>2. CASE node_n'[t] < NNodes
    BY <1>1, <1>2, <1>3, <1>5, <2>1, <2>2 DEF Place
  <2>3. CASE node_n'[t] = NNodes
    <3>1. Leads(node_n'[t], r, n_threads)
      BY <1>5, <2>3, ThreadBounds DEF Leads
    <3>2. Leads(node_n[t], r, n_threads)'
      BY <3>1 DEF Leads, NodeDone, barrierVars
    <3> QED
      BY <1>1, <1>2, <1>3, <2>1, <2>3, <3>2, ThreadBounds DEF Place
  <2> QED
    BY <1>5, <2>2, <2>3, ThreadBounds
<1>8. AbortMark(r)'
  <2>1. CASE aborting
    BY <1>1, <1>3, <1>5, <1>6, <2>1 DEF AbortMark, NodeDone
  <2>2. CASE ~aborting
    BY <1>2, <1>4, <1>6, <2>2, AbortStays DEF Working, NodeDone
  <2> QED
    BY <2>1, <2>2
<1>9. Working(r)'
  BY <1>1, <1>2, <1>3, <1>4, <1>5, <1>6, <1>7, <1>8, QuietMove DEF NodeDone
<1> QED
  BY <1>9 DEF Phase

\* A step in the chunk loop: what is left to see is which pieces are done.
LEMMA ChunkMove ==
  ASSUME BarrierInv, PoolTyping, NEW r \in 1..Stages, Working(r), ChunkStage(r), NEW t \in Team, OthersStay(t), t # Main => Seen(t),
         at[t] \in {"chunk", "multiply", "claim"}, at'[t] \in {"multiply", "claim", "computed"},
         Kind(t) = "mul_mat", r = Second(t), node_n[t] < NNodes,
         UNCHANGED <<node_n, last_graph, abort>>,
         DoneBefore(r)', OwnPieces(r)', ChunksInv(r)'
  PROVE  Working(r)'
<1>1. Team \subseteq Threads /\ n_threads' = n_threads /\ graph' = graph
  BY TeamIsThreads DEF OthersStay
<1>2. Place(t, r)'
  BY <1>1 DEF Place, Seen, Kind, Second
<1>3. AllPlaced(r)' /\ OthersOut'
  BY <1>1, <1>2, PlacesStay DEF Working
<1>4. AbortMark(r)'
  BY <1>1, AbortStays DEF Working, Past
<1>5. CounterSet(r)'
  BY DEF CounterSet, ChunkStage
<1> QED
  BY <1>1, <1>3, <1>4, <1>5 DEF Working, StageIsWork

LEMMA InChunks ==
  ASSUME BarrierInv, PoolTyping, Phase, NEW t \in Threads, pc[t] \in {"chunk", "multiply", "claim"}
  PROVE  /\ t \in Team /\ at[t] = pc[t] /\ node_n[t] < NNodes /\ n_threads \in Nat \ {0} /\ t \in 0..(n_threads - 1)
         /\ Chunks(n_threads) \in Nat /\ n_threads <= Chunks(n_threads)
         /\ \E r \in 1..Stages :
              /\ Working(r) /\ (t # Main => Seen(t)) /\ Kind(t) = "mul_mat" /\ r = Second(t) /\ ChunkStage(r)
              /\ \A c : <<r, c>> \in Work(r, n_threads) <=> c \in 0..(Chunks(n_threads) - 1)
              /\ current_chunk >= n_threads /\ ClaimsFit /\ ClaimedDone(r) /\ AllClaimed(r)
<1>1. t \in Team /\ at[t] = pc[t] /\ node_n[t] < NNodes /\ n_threads \in Nat \ {0} /\ t \in 0..(n_threads - 1)
  BY InStage, TeamIsThreads, ThreadBounds
<1>2. PICK r \in 1..Stages : /\ Working(r) /\ (t # Main => Seen(t))
                             /\ Kind(t) = "mul_mat" /\ r = Second(t) /\ ChunkStage(r)
  BY InStage
<1>3. \A c : <<r, c>> \in Work(r, n_threads) <=> c \in 0..(Chunks(n_threads) - 1)
  BY <1>1, <1>2, ChunkStageIsWork, InWork
<1> QED
  BY <1>1, <1>2, <1>3, ChunksEnough DEF Working, ChunksInv

LEMMA FirstChunkKeeps ==
  ASSUME BarrierInv, PoolTyping, Phase, NEW t \in Threads, FirstChunk(t)
  PROVE  Phase'
<1>1. /\ t \in Team /\ at[t] = "chunk" /\ node_n[t] < NNodes /\ n_threads \in Nat \ {0} /\ t \in 0..(n_threads - 1)
      /\ Chunks(n_threads) \in Nat /\ n_threads <= Chunks(n_threads)
  BY InChunks DEF FirstChunk
<1>2. PICK r \in 1..Stages :
        /\ Working(r) /\ (t # Main => Seen(t)) /\ Kind(t) = "mul_mat" /\ r = Second(t) /\ ChunkStage(r)
        /\ \A c : <<r, c>> \in Work(r, n_threads) <=> c \in 0..(Chunks(n_threads) - 1)
        /\ current_chunk >= n_threads /\ ClaimsFit /\ ClaimedDone(r) /\ AllClaimed(r)
  BY InChunks DEF FirstChunk
<1>3. at'[t] = "multiply" /\ (\A u \in Threads \ {t} : at'[u] = at[u]) /\ chunk'[t] = t
  <2>1. t < Chunks(n_threads)
    BY <1>1
  <2> QED
    BY <2>1, MoveOne DEF FirstChunk, TakeChunk, Goto, PoolTyping
<1>4. OthersStay(t) /\ n_threads' = n_threads /\ Team' = Team /\ Team \subseteq Threads
  BY <1>3, TeamIsThreads DEF OthersStay, FirstChunk, TakeChunk, barrierVars, sharedVars, PoolTyping, Team
<1>5. finished' = finished /\ current_chunk' = current_chunk /\ current_chunk \in Nat /\ UNCHANGED <<node_n, last_graph, abort>>
  BY DEF FirstChunk, sharedVars, PoolTyping
<1>6. DoneBefore(r)'
  BY <1>2, <1>4, <1>5 DEF Working, DoneBefore, WorkUpTo
<1>7. \A u \in Team : OwnDone(u, r)' <=> OwnDone(u, r)
  <2>1. OwnDone(t, r)' <=> OwnDone(t, r)
    BY <1>1, <1>3 DEF OwnDone, Past
  <2> QED
    BY <2>1, <1>4, PastStays
<1>8. OwnPieces(r)'
  BY <1>2, <1>4, <1>5, <1>7 DEF Working, OwnPieces
<1>9. \A u \in Team \ {t} : ((at[u] = "multiply")' <=> at[u] = "multiply") /\ chunk'[u] = chunk[u]
  BY <1>4, PastStays DEF OthersStay
<1>10. ClaimsFit'
  <2>1. \A u \in Team : u \in 0..(n_threads - 1)
    BY TeamIsThreads
  <2> QED
    BY <1>1, <1>2, <1>3, <1>4, <1>5, <1>9, <2>1 DEF ClaimsFit
<1>11. ClaimedDone(r)'
  <2>1. \A c \in n_threads..(Chunks(n_threads) - 1) : Multiplying(c)' <=> Multiplying(c)
    BY <1>1, <1>3, <1>4, <1>9 DEF Multiplying
  <2> QED
    BY <1>2, <1>4, <1>5, <2>1 DEF ClaimedDone
<1>12. AllClaimed(r)'
  <2>1. ~Past(t, r)'
    BY <1>3 DEF Past
  <2>2. \A u \in Team \ {t} : Past(u, r)' <=> Past(u, r)
    BY <1>4, PastStays
  <2> QED
    BY <1>2, <1>4, <1>5, <2>1, <2>2 DEF AllClaimed
<1>13. Working(r)'
  BY <1>1, <1>2, <1>3, <1>4, <1>5, <1>6, <1>8, <1>10, <1>11, <1>12, ChunkMove DEF ChunksInv
<1> QED
  BY <1>13 DEF Phase

LEMMA ClaimChunkKeeps ==
  ASSUME BarrierInv, PoolTyping, Phase, NEW t \in Threads, ClaimChunk(t)
  PROVE  Phase'
<1> DEFINE n == n_threads
<1>1. /\ t \in Team /\ at[t] = "claim" /\ node_n[t] < NNodes /\ n \in Nat \ {0} /\ t \in 0..(n - 1)
      /\ Chunks(n) \in Nat /\ n <= Chunks(n)
  BY InChunks DEF ClaimChunk
<1>2. PICK r \in 1..Stages :
        /\ Working(r) /\ (t # Main => Seen(t)) /\ Kind(t) = "mul_mat" /\ r = Second(t) /\ ChunkStage(r)
        /\ \A c : <<r, c>> \in Work(r, n) <=> c \in 0..(Chunks(n) - 1)
        /\ current_chunk >= n /\ ClaimsFit /\ ClaimedDone(r) /\ AllClaimed(r)
  BY InChunks DEF ClaimChunk
<1>3. /\ at'[t] = IF current_chunk < Chunks(n) THEN "multiply" ELSE "computed"
      /\ \A u \in Threads \ {t} : at'[u] = at[u]
      /\ chunk'[t] = current_chunk
  BY MoveOne DEF ClaimChunk, TakeChunk, Goto, PoolTyping
<1>4. OthersStay(t) /\ n' = n /\ Team' = Team /\ Team \subseteq Threads
  BY <1>3, TeamIsThreads DEF OthersStay, ClaimChunk, TakeChunk, barrierVars, PoolTyping, Team
<1>5. finished' = finished /\ current_chunk' = current_chunk + 1 /\ current_chunk \in Nat /\ UNCHANGED <<node_n, last_graph, abort>>
  BY DEF ClaimChunk, PoolTyping
<1>6. DoneBefore(r)'
  BY <1>2, <1>4, <1>5 DEF Working, DoneBefore, WorkUpTo
<1>7. \A u \in Team : OwnDone(u, r)' <=> OwnDone(u, r)
  <2>1. current_chunk # t
    BY <1>1, <1>2, <1>5
  <2>2. OwnDone(t, r)' <=> OwnDone(t, r)
    BY <1>1, <1>3, <2>1 DEF OwnDone, Past
  <2> QED
    BY <2>2, <1>4, PastStays
<1>8. OwnPieces(r)'
  BY <1>2, <1>4, <1>5, <1>7 DEF Working, OwnPieces
<1>9. \A u \in Team \ {t} : ((at[u] = "multiply")' <=> at[u] = "multiply") /\ chunk'[u] = chunk[u]
  BY <1>4, PastStays DEF OthersStay
<1>10. ClaimsFit'
  <2>1. \A u \in Team : u \in 0..(n - 1) /\ chunk[u] \in Nat
    BY TeamIsThreads DEF PoolTyping
  <2>2. \A u \in Team \ {t} : at[u] = "multiply" => chunk[u] < Chunks(n) /\ (chunk[u] = u \/ chunk[u] \in n..(current_chunk - 1))
    BY <1>2 DEF ClaimsFit
  <2>3. \A u \in Team \ {t} : at[u] = "multiply" => chunk[u] # current_chunk
    BY <1>1, <1>2, <1>5, <2>1, <2>2
  <2>4. \A u \in Team \ {t} : (at[u] = "multiply")' =>
          chunk'[u] < Chunks(n) /\ (chunk'[u] = u \/ chunk'[u] \in n..(current_chunk' - 1)) /\ chunk'[u] # current_chunk
    BY <1>5, <1>9, <2>1, <2>2, <2>3
  <2>5. (at[t] = "multiply")' => chunk'[t] < Chunks(n) /\ chunk'[t] \in n..(current_chunk' - 1)
    BY <1>1, <1>2, <1>3, <1>5
  <2>6. \A u \in Team : (at[u] = "multiply")' =>
          chunk'[u] < Chunks(n) /\ (chunk'[u] = u \/ chunk'[u] \in n..(current_chunk' - 1))
    BY <2>4, <2>5
  <2>7. \A u, v \in Team : (at[u] = "multiply")' /\ (at[v] = "multiply")' /\ chunk'[u] = chunk'[v] => u = v
    BY <1>2, <1>3, <1>9, <2>4 DEF ClaimsFit
  <2> QED
    BY <1>4, <2>6, <2>7 DEF ClaimsFit
<1>11. ClaimedDone(r)'
  <2>1. \A c \in n..(Chunks(n) - 1) : c # current_chunk => (Multiplying(c)' <=> Multiplying(c))
    BY <1>1, <1>3, <1>4, <1>9 DEF Multiplying
  <2>2. \A c : c = current_chunk /\ c < Chunks(n) => Multiplying(c)'
    BY <1>1, <1>3, <1>4 DEF Multiplying
  <2>3. SUFFICES ASSUME NEW c \in n..(Chunks(n) - 1)
                 PROVE  <<r, c>> \in finished <=> c < current_chunk + 1 /\ ~Multiplying(c)'
    BY <1>4, <1>5 DEF ClaimedDone
  <2>4. <<r, c>> \in finished <=> c < current_chunk /\ ~Multiplying(c)
    BY <1>2 DEF ClaimedDone
  <2> QED
    BY <1>1, <1>5, <2>1, <2>2, <2>4
<1>12. AllClaimed(r)'
  <2>1. Past(t, r)' => Chunks(n) <= current_chunk'
    BY <1>1, <1>3, <1>5 DEF Past
  <2>2. \A u \in Team \ {t} : Past(u, r)' <=> Past(u, r)
    BY <1>4, PastStays
  <2> QED
    BY <1>1, <1>2, <1>4, <1>5, <2>1, <2>2 DEF AllClaimed
<1>13. Working(r)'
  BY <1>1, <1>2, <1>3, <1>4, <1>5, <1>6, <1>8, <1>10, <1>11, <1>12, ChunkMove DEF ChunksInv
<1> QED
  BY <1>13 DEF Phase

LEMMA FinishChunkKeeps ==
  ASSUME BarrierInv, PoolTyping, Phase, NEW t \in Threads, FinishChunk(t)
  PROVE  Phase'
<1> DEFINE n == n_threads
<1>1. /\ t \in Team /\ at[t] = "multiply" /\ node_n[t] < NNodes /\ n \in Nat \ {0} /\ t \in 0..(n - 1)
      /\ Chunks(n) \in Nat /\ n <= Chunks(n)
  BY InChunks DEF FinishChunk, Step
<1>2. PICK r \in 1..Stages :
        /\ Working(r) /\ (t # Main => Seen(t)) /\ Kind(t) = "mul_mat" /\ r = Second(t) /\ ChunkStage(r)
        /\ \A c : <<r, c>> \in Work(r, n) <=> c \in 0..(Chunks(n) - 1)
        /\ current_chunk >= n /\ ClaimsFit /\ ClaimedDone(r) /\ AllClaimed(r)
  BY InChunks DEF FinishChunk, Step
<1>3. at'[t] = (IF n >= Chunks(n) THEN "computed" ELSE "claim") /\ \A u \in Threads \ {t} : at'[u] = at[u]
  BY MoveOne DEF FinishChunk, Step, Goto
<1>4. OthersStay(t) /\ n' = n /\ Team' = Team /\ Team \subseteq Threads
  BY <1>3, TeamIsThreads DEF OthersStay, FinishChunk, barrierVars, sharedVars, Team
<1>5. finished' = finished \cup {<<r, chunk[t]>>} /\ current_chunk' = current_chunk /\ chunk' = chunk /\ UNCHANGED <<node_n, last_graph, abort>>
  BY <1>2 DEF FinishChunk, FinishPiece, sharedVars
<1>6. chunk[t] \in Nat /\ chunk[t] < Chunks(n) /\ (chunk[t] = t \/ chunk[t] \in n..(current_chunk - 1)) /\ current_chunk \in Nat
  BY <1>1, <1>2 DEF ClaimsFit, PoolTyping
<1>7. DoneBefore(r)'
  <2>1. <<r, chunk[t]>> \in Work(r, n)
    BY <1>1, <1>2, <1>6
  <2> QED
    BY <1>2, <1>4, <1>5, <2>1 DEF Working, DoneBefore, WorkUpTo
<1>8. OwnPieces(r)'
  <2>1. SUFFICES ASSUME NEW u \in Team, <<r, u>> \in Work(r, n)
                 PROVE  <<r, u>> \in finished' <=> OwnDone(u, r)'
    BY <1>4 DEF OwnPieces
  <2>2. <<r, u>> \in finished <=> OwnDone(u, r)
    BY <1>2, <2>1 DEF Working, OwnPieces
  <2>3. CASE u = t
    <3>1. OwnDone(t, r)'
      BY <1>3 DEF OwnDone, Past
    <3>2. chunk[t] # t => OwnDone(t, r)
      BY <1>1 DEF OwnDone
    <3> QED
      BY <1>5, <2>2, <2>3, <3>1, <3>2
  <2>4. CASE u # t
    <3>1. OwnDone(u, r)' <=> OwnDone(u, r)
      BY <1>4, <2>4, PastStays
    <3>2. u \in 0..(n - 1)
      BY TeamIsThreads
    <3>3. u # chunk[t]
      BY <1>1, <1>6, <2>4, <3>2
    <3> QED
      BY <1>5, <2>2, <3>1, <3>3
  <2> QED
    BY <2>3, <2>4
<1>9. \A u \in Team \ {t} : ((at[u] = "multiply")' <=> at[u] = "multiply")
  BY <1>4, PastStays
<1>10. ClaimsFit'
  BY <1>2, <1>3, <1>4, <1>5, <1>9 DEF ClaimsFit
<1>11. ClaimedDone(r)'
  <2>1. SUFFICES ASSUME NEW c \in n..(Chunks(n) - 1)
                 PROVE  <<r, c>> \in finished' <=> c < current_chunk /\ ~Multiplying(c)'
    BY <1>4, <1>5 DEF ClaimedDone
  <2>2. <<r, c>> \in finished <=> c < current_chunk /\ ~Multiplying(c)
    BY <1>2 DEF ClaimedDone
  <2>3. CASE c = chunk[t]
    <3>1. ~Multiplying(c)'
      BY <1>1, <1>2, <1>3, <1>4, <1>5, <1>9, <2>3 DEF Multiplying, ClaimsFit
    <3>2. c < current_chunk
      BY <1>1, <1>6, <2>3
    <3> QED
      BY <1>5, <2>3, <3>1, <3>2
  <2>4. CASE c # chunk[t]
    <3>1. Multiplying(c)' <=> Multiplying(c)
      BY <1>1, <1>3, <1>4, <1>5, <1>9, <2>4 DEF Multiplying
    <3> QED
      BY <1>5, <2>2, <2>4, <3>1
  <2> QED
    BY <2>3, <2>4
<1>12. AllClaimed(r)'
  <2>1. Past(t, r)' => Chunks(n) <= n
    BY <1>1, <1>3 DEF Past
  <2>2. \A u \in Team \ {t} : Past(u, r)' <=> Past(u, r)
    BY <1>4, PastStays
  <2> QED
    BY <1>2, <1>4, <1>5, <2>1, <2>2 DEF AllClaimed
<1>13. Working(r)'
  BY <1>1, <1>2, <1>3, <1>4, <1>5, <1>7, <1>8, <1>10, <1>11, <1>12, ChunkMove DEF ChunksInv
<1> QED
  BY <1>13 DEF Phase

------------------------------------------------------------------------------
(* The steps that begin a graph.                                                                                          *)

LEMMA SeesGraphKeeps ==
  ASSUME BarrierInv, PoolTyping, Phase, NEW t \in Workers, NEW otherwise \in Outer, pc[t] \in Outer, SeesGraph(t, otherwise),
         UNCHANGED <<barrierVars, sharedVars, chunk, after, finished>>
  PROVE  Phase'
<1>1. t \in Threads /\ t # Main /\ at[t] \in Outer /\ pc[t] # "barrier"
  BY AtIs DEF Workers, Outer
<1>2. at'[t] = (IF t < n_threads THEN "node" ELSE otherwise) /\ \A u \in Threads \ {t} : at'[u] = at[u]
  BY <1>1, MoveOne DEF SeesGraph, Goto
<1>3. /\ OthersStay(t) /\ ~Seen(t) /\ Seen(t)' /\ node_n'[t] = 0
      /\ Team' = Team /\ (t < n_threads <=> t \in Team) /\ Team \subseteq Threads
  <2>1. Team' = Team /\ (t < n_threads <=> t \in Team) /\ Team \subseteq Threads
    BY <1>1, TeamIsThreads DEF barrierVars, Team, Threads, BarrierInv, BarrierTypeOK
  <2>2. ~Seen(t) /\ Seen(t)' /\ node_n'[t] = 0
    BY <1>1 DEF SeesGraph, Seen, barrierVars, sharedVars, PoolTyping
  <2>3. OthersStay(t)
    BY <1>1, <1>2 DEF OthersStay, SeesGraph, barrierVars, sharedVars, PoolTyping
  <2> QED
    BY <2>1, <2>2, <2>3
<1>4. \A u \in Threads \ {t} : Seen(u)' <=> Seen(u)
  BY <1>3 DEF OthersStay, Seen
<1>5. CASE Resting
  <2>1. t \notin Team
    BY <1>1, <1>3, <1>5 DEF Resting
  <2>2. at'[t] \in Outer
    BY <1>2, <1>3, <2>1
  <2>3. at'[Main] = at[Main] /\ \A u \in Workers : at'[u] \in Outer
    BY <1>1, <1>2, <1>5, <2>2, ThreadBounds DEF Resting, Workers
  <2>4. Resting'
    BY <1>3, <1>4, <1>5, <2>1, <2>3 DEF Resting, WorkUpTo, barrierVars, sharedVars
  <2> QED
    BY <2>4 DEF Phase
<1>6. CASE Aborting
  <2>1. t \notin Team
    BY <1>1, <1>6 DEF Aborting, Outer
  <2>2. at'[t] \in Outer
    BY <1>2, <1>3, <2>1
  <2>3. \A u \in Team : (Final(u)' <=> Final(u)) /\ at'[u] = at[u] /\ node_n'[u] = node_n[u]
    BY <1>2, <1>3, <2>1 DEF Final, OthersStay
  <2>4. \A u \in Threads \ Team : at'[u] \in Outer
    BY <1>2, <1>6, <2>2 DEF Aborting, OthersOut
  <2>5. Aborting'
    BY <1>3, <1>4, <1>6, <2>1, <2>3, <2>4 DEF Aborting, OthersOut, WorkUpTo, barrierVars, sharedVars
  <2> QED
    BY <2>5 DEF Phase
<1>7. ASSUME NEW r \in 0..Stages, Working(r) PROVE Phase'
  <2>1. t \in Team => Place(t, r)'
    <3> SUFFICES ASSUME t \in Team PROVE Place(t, r)'
      OBVIOUS
    <3>1. Leads(0, r, n_threads)
      BY <1>1, <1>7 DEF Working, AllPlaced, Place, Outer
    <3>2. Leads(node_n[t], r, n_threads)'
      BY <1>3, <3>1 DEF Leads, barrierVars
    <3> QED
      BY <1>2, <1>3, <3>2 DEF Place
  <2>2. t \notin Team => at'[t] \in Outer
    BY <1>2, <1>3
  <2>3. ~Past(t, r)
    BY <1>1 DEF Past, Outer
  <2>4. AbortMark(r)'
    BY <1>1, <1>3, <1>7, <2>3, AbortStays DEF Working, sharedVars
  <2>5. r > 0 => ~Past(t, r)'
    BY <1>2, <1>3 DEF Past, Outer
  <2>6. at'[Main] = "barrier" /\ r % 2 = 1 => current_chunk = n_threads
    BY <1>1, <1>2, <1>7, ThreadBounds DEF Working, CounterSet
  <2>7. at[t] \notin {"multiply", "claim"} /\ at'[t] \notin {"multiply", "claim"}
    BY <1>1, <1>2 DEF Outer
  <2>8. Working(r)'
    BY <1>1, <1>3, <1>7, <2>1, <2>2, <2>3, <2>4, <2>5, <2>6, <2>7, QuietMove DEF sharedVars
  <2> QED
    BY <2>8 DEF Phase
<1> QED
  BY <1>5, <1>6, <1>7 DEF Phase

LEMMA WokenAt ==
  ASSUME PoolTyping, NEW x, UNCHANGED <<barrierVars, after>>, pc[Main] # "barrier",
         pc' = [Woken(pc) EXCEPT ![Main] = x]
  PROVE  at'[Main] = x /\ \A u \in Threads \ {Main} : at'[u] = at[u] \/ (at[u] \in Outer /\ at'[u] \in Outer)
<1>1. Released' = Released /\ Main \in Threads
  BY ThreadBounds DEF barrierVars, Released
<1>2. pc'[Main] = x /\ \A u \in Threads \ {Main} : pc'[u] = Woken(pc)[u]
  BY <1>1 DEF Woken
<1>3. \A u \in Threads : Woken(pc)[u] = pc[u] \/ (pc[u] \in Outer /\ Woken(pc)[u] \in Outer)
  BY DEF Woken, Outer
<1> QED
  BY <1>1, <1>2, <1>3, AtIs DEF at

LEMMA SignalKeeps ==
  ASSUME BarrierInv, PoolTyping, Phase, Signal
  PROVE  Phase'
<1>1. at[Main] = "signal" /\ Main \in Threads
  BY AtIs, ThreadBounds DEF Signal
<1>2. Main \in Team /\ \E r \in 0..Stages : Working(r)
  BY <1>1, BusyInTeam
<1>3. PICK r \in 0..Stages : Working(r)
  BY <1>2
<1>4. at'[Main] = "node" /\ \A u \in Threads \ {Main} : at'[u] = at[u] \/ (at[u] \in Outer /\ at'[u] \in Outer)
  BY WokenAt DEF Signal
<1>5. OthersStay(Main) /\ node_n'[Main] = 0
  BY <1>1, <1>4 DEF OthersStay, Signal, barrierVars, PoolTyping
<1>6. Leads(0, r, n_threads)
  BY <1>1, <1>2, <1>3 DEF Working, AllPlaced, Place, Outer
<1>7. Leads(node_n[Main], r, n_threads)'
  BY <1>5, <1>6 DEF Leads, Signal, barrierVars
<1>8. Place(Main, r)'
  BY <1>4, <1>7 DEF Place
<1>9. ~Past(Main, r) /\ (r > 0 => ~Past(Main, r)')
  BY <1>1, <1>4, <1>5 DEF Past
<1>10. AbortMark(r)'
  BY <1>1, <1>3, <1>5, <1>9, AbortStays DEF Working, Signal
<1>11. Working(r)'
  BY <1>1, <1>2, <1>3, <1>4, <1>5, <1>8, <1>9, <1>10, QuietMove DEF Signal
<1> QED
  BY <1>11 DEF Phase

\* Between two graphs nobody but the caller has anything to do with them.
LEMMA CallerAtRest ==
  ASSUME BarrierInv, PoolTyping, Phase, at[Main] \in AtRest
  PROVE  Resting
<1>1. n_threads # 0 => Main \in Team
  BY TeamIsThreads
<1>2. ~Aborting
  BY <1>1 DEF Aborting, AtRest
<1>3. \A r : ~Working(r)
  BY <1>1 DEF Working, AllPlaced, Place, AtRest, Outer
<1> QED
  BY <1>2, <1>3 DEF Phase

LEMMA StartGraphKeeps ==
  ASSUME BarrierInv, PoolTyping, Phase, NEW n \in 1..MaxThreads, StartGraph(n)
  PROVE  Phase'
<1>1. at[Main] = "idle" /\ Resting /\ Main \in Threads
  BY AtIs, CallerAtRest, ThreadBounds DEF StartGraph, Step, AtRest
<1>2. n \in Nat \ {0} /\ n_threads' = n /\ 0 \in 0..NNodes
  BY ThreadBounds DEF StartGraph
<1>3. PICK r \in 0..Stages : StageIsWork(r, n) /\ Leads(0, r, n)
  BY <1>2, LeadsSomewhere
<1>4. at'[Main] = "signal" /\ \A u \in Workers : at'[u] \in Outer
  <2>1. Released' = Released
    BY DEF StartGraph, Released
  <2>2. pc'[Main] = "signal" /\ (\A u \in Workers : pc'[u] = pc[u]) /\ after' = after
    BY <1>1 DEF StartGraph, Step, Goto, PoolTyping, Workers
  <2>3. Main \notin Released
    BY AtIs, <1>1 DEF StartGraph, Step
  <2> QED
    BY <1>1, <2>1, <2>2, <2>3 DEF at, Resting, Workers
<1>5. Team' \subseteq Threads /\ Main \in Team'
  BY <1>2, ThreadBounds DEF Team, Threads, Main
<1>6. \A u \in Threads : ~Seen(u)'
  <2> SUFFICES ASSUME NEW u \in Threads PROVE ~Seen(u)'
    OBVIOUS
  <2>1. last_graph[u][1] \in 0..graph /\ last_graph'[u] = last_graph[u] /\ graph' = graph + 1 /\ graph \in Nat
    BY DEF StartGraph, PoolTyping
  <2>2. last_graph'[u] # <<graph', n_threads'>>
    BY <2>1
  <2> QED
    BY <2>2 DEF Seen
<1>7. \A u \in Threads : Place(u, r)'
  <2>1. Leads(0, r, n_threads)'
    BY <1>2, <1>3 DEF Leads
  <2> QED
    BY <1>4, <1>6, <2>1 DEF Place, Workers
<1>8. \A u \in Threads : r > 0 => ~Past(u, r)' /\ ~OwnDone(u, r)'
  BY <1>4 DEF Past, OwnDone, Outer, Workers
<1>9. ~ChunkStage(r)
  BY <1>2, <1>3, LeadsNotToChunks DEF ChunkStage
<1>10. finished' = {} /\ abort' = -1
  BY DEF StartGraph
<1>11. DoneBefore(r)'
  <2>1. \A s \in 1..(r - 1) : Work(s, n) = {}
    BY <1>3 DEF Leads
  <2> QED
    BY <1>2, <1>10, <2>1 DEF DoneBefore
<1>12. OwnPieces(r)' /\ ChunksInv(r)' /\ CounterSet(r)' /\ AbortMark(r)'
  <2>1. OwnPieces(r)'
    BY <1>5, <1>8, <1>10 DEF OwnPieces
  <2>2. ChunksInv(r)'
    BY <1>9 DEF ChunksInv, ChunkStage
  <2> QED
    BY <1>4, <1>10, <2>1, <2>2 DEF CounterSet, AbortMark
<1>13. OthersOut'
  BY <1>4, <1>5 DEF OthersOut, Workers
<1>14. StageIsWork(r, n_threads)'
  BY <1>2, <1>3 DEF StageIsWork
<1>15. Working(r)'
  BY <1>2, <1>5, <1>7, <1>11, <1>12, <1>13, <1>14 DEF Working, AllPlaced
<1> QED
  BY <1>15 DEF Phase

------------------------------------------------------------------------------
(* The team goes through a barrier.                                                                                       *)

TeamLeaves ==
  /\ UNCHANGED <<n_threads, graph, abort, current_chunk, last_graph, node_n, chunk, after, finished>>
  /\ \A u \in Team : at[u] = "barrier" /\ at'[u] = after[u]
  /\ \A u \in Threads \ Team : at'[u] = at[u]

\* When the whole team is in the barrier behind a stage, the stage is done.
LEMMA StageDone ==
  ASSUME BarrierInv, PoolTyping, NEW r \in 0..Stages, Working(r), \A u \in Team : at[u] = "barrier"
  PROVE  finished = WorkUpTo(r, n_threads) /\ (r > 0 => Work(r, n_threads) \subseteq finished)
<1> DEFINE n == n_threads
<1>1. n \in Nat \ {0} /\ Team = 0..(n - 1) /\ Main \in Team
  BY TeamIsThreads DEF Working, Team
<1>2. r > 0 => Work(r, n) \subseteq finished
  <2>1. SUFFICES ASSUME r > 0, NEW c \in Pieces(r, n) PROVE <<r, c>> \in finished
    BY InWork
  <2>2. r \in 1..Stages /\ Work(r, n) # {} /\ <<r, c>> \in Work(r, n)
    BY <2>1, InWork
  <2>3. \A u \in Team : <<r, u>> \in finished
    <3> SUFFICES ASSUME NEW u \in Team PROVE <<r, u>> \in finished
      OBVIOUS
    <3>1. <<r, u>> \in Work(r, n)
      BY <1>1, <2>2, OwnPieceExists
    <3>2. OwnDone(u, r)
      BY DEF OwnDone, Past
    <3> QED
      BY <2>1, <3>1, <3>2 DEF Working, OwnPieces
  <2>4. CASE ~ChunkStage(r)
    <3>1. c \in 0..(n - 1)
      BY <1>1, <2>1, <2>2, <2>4, OwnPieceExists
    <3> QED
      BY <1>1, <2>3, <3>1
  <2>5. CASE ChunkStage(r)
    <3>1. c \in 0..(Chunks(n) - 1) /\ Chunks(n) \in Nat
      BY <1>1, <2>1, <2>2, <2>5, OwnPieceExists, ChunksEnough
    <3>2. CASE c < n
      BY <1>1, <2>3, <3>1, <3>2
    <3>3. CASE c >= n
      <4>1. c \in n..(Chunks(n) - 1)
        BY <1>1, <3>1, <3>3
      <4>2. Past(Main, r)
        BY <1>1 DEF Past
      <4>3. Chunks(n) <= n \/ Chunks(n) <= current_chunk
        BY <1>1, <2>5, <4>2 DEF Working, ChunksInv, AllClaimed
      <4>4. c < current_chunk
        BY <1>1, <3>1, <4>1, <4>3 DEF PoolTyping
      <4>5. ~Multiplying(c)
        BY DEF Multiplying
      <4> QED
        BY <2>5, <4>1, <4>4, <4>5 DEF Working, ChunksInv, ClaimedDone
    <3> QED
      BY <1>1, <3>1, <3>2, <3>3
  <2> QED
    BY <2>4, <2>5
<1>3. DoneBefore(r) /\ r \in Nat
  BY ThreadBounds DEF Working
<1>4. \A s \in 1..r : Work(s, n) \subseteq finished
  BY <1>2, <1>3 DEF DoneBefore
<1> QED
  BY <1>2, <1>3, <1>4 DEF DoneBefore, WorkUpTo

\* Pieces of a later stage are not done yet.
LEMMA LaterNotDone ==
  ASSUME NEW r \in Nat, NEW n, NEW s \in Nat, s > r, NEW c
  PROVE  <<s, c>> \notin WorkUpTo(r, n)
<1> SUFFICES ASSUME NEW q \in 1..r, <<s, c>> \in Work(q, n) PROVE FALSE
  BY DEF WorkUpTo
<1>1. PICK j : <<s, c>> = <<q, j>>
  BY InWork
<1> QED
  BY <1>1

LEMMA TeamLeavesKeeps ==
  ASSUME BarrierInv, PoolTyping, Phase, n_threads # 0, TeamLeaves
  PROVE  Phase'
<1> DEFINE n == n_threads
<1>1. n \in Nat \ {0} /\ Main \in Team /\ Team \subseteq Threads /\ Team' = Team /\ n' = n
  BY TeamIsThreads DEF TeamLeaves, Team
<1>2. at[Main] = "barrier"
  BY <1>1 DEF TeamLeaves
<1>3. Aborting \/ \E r \in 0..Stages : Working(r)
  BY <1>1, <1>2, BusyInTeam DEF Spread
<1>4. OthersOut /\ \A u \in Threads \ Team : at'[u] \in Outer
  BY <1>3 DEF Aborting, Working, OthersOut, TeamLeaves
<1>5. \A u \in Team : Seen(u)' <=> Seen(u)
  BY DEF TeamLeaves, Seen
\* The last barrier of the graph.
<1>6. ASSUME \A u \in Team : Final(u) /\ (u # Main => Seen(u)),
             finished = WorkUpTo(IF abort = -1 THEN Stages ELSE 2 * abort, n)
      PROVE  Phase'
  <2>1. at'[Main] = "idle" /\ \A u \in Team \ {Main} : at'[u] = "top"
    BY <1>1, <1>6 DEF TeamLeaves, Final
  <2>2. \A u \in Workers : at'[u] \in Outer
    BY <1>4, <2>1 DEF Workers, Outer
  <2>3. Resting'
    BY <1>1, <1>5, <1>6, <2>1, <2>2 DEF Resting, AtRest, TeamLeaves, WorkUpTo
  <2> QED
    BY <2>3 DEF Phase
<1>7. CASE Aborting
  <2>1. \A u \in Team : Final(u) /\ (u # Main => Seen(u))
    BY <1>7 DEF Aborting, TeamLeaves
  <2>2. abort # -1 /\ finished = WorkUpTo(2 * abort, n)
    BY <1>7 DEF Aborting
  <2> QED
    BY <1>6, <2>1, <2>2
<1>8. ASSUME NEW r \in 0..Stages, Working(r) PROVE Phase'
  <2>1. finished = WorkUpTo(r, n) /\ (r > 0 => Work(r, n) \subseteq finished) /\ r \in Nat
    BY <1>8, StageDone, ThreadBounds DEF TeamLeaves
  <2>2. \A s \in 1..r : Work(s, n) \subseteq finished
    BY <1>8, <2>1 DEF Working, DoneBefore
  <2>3. \A u \in Team : /\ u # Main => Seen(u)
                        /\ \/ /\ node_n[u] < NNodes
                              /\ \/ after[u] = "chunk" /\ Kind(u) = "mul_mat" /\ r = First(u)
                                 \/ after[u] = "node" /\ r = 2 * node_n[u] /\ 0 < node_n[u]
                           \/ Final(u) /\ r = Stages
    BY <1>8 DEF Working, AllPlaced, Place, TeamLeaves, Outer
  <2>4. \A u \in Team : node_n[u] \in 0..NNodes
    BY <1>1 DEF PoolTyping
  \* The barrier inside a product.
  <2>5. CASE after[Main] = "chunk"
    <3>1. r = First(Main) /\ Kind(Main) = "mul_mat" /\ node_n[Main] \in 0..(NNodes - 1)
      BY <1>1, <2>3, <2>4, <2>5, ThreadBounds DEF Final
    <3>2. r % 2 = 1 /\ r + 1 \in 1..Stages /\ (r + 1) % 2 = 0 /\ r # Stages
      BY <3>1, NodeOfStage, ThreadBounds DEF First, Stages
    <3>3. \A u \in Team : after[u] = "chunk" /\ node_n[u] = node_n[Main] /\ r = First(u)
      <4> SUFFICES ASSUME NEW u \in Team PROVE after[u] = "chunk" /\ node_n[u] = node_n[Main] /\ r = First(u)
        OBVIOUS
      <4>1. r # 2 * node_n[u]
        BY <2>4, <3>2, NodeOfStage
      <4>2. after[u] = "chunk" /\ r = First(u)
        BY <2>3, <3>2, <4>1
      <4> QED
        BY <2>4, <3>1, <4>2 DEF First
    <3>4. \A u \in Team : at'[u] = "chunk"
      BY <3>3 DEF TeamLeaves
    <3>5. ChunkStage(r + 1) /\ Work(r + 1, n) # {}
      <4>1. r + 1 = 2 * node_n[Main] + 2
        BY <3>1, ThreadBounds DEF First
      <4>2. ChunkStage(r + 1)
        BY <1>1, <3>1, <4>1, WorkOfNode DEF Kind
      <4> QED
        BY <1>1, <4>2, ChunkStageIsWork
    <3>6. \A u \in Team : Place(u, r + 1)'
      <4> SUFFICES ASSUME NEW u \in Team PROVE Place(u, r + 1)'
        OBVIOUS
      <4>1. node_n'[u] < NNodes /\ Kind(u)' = "mul_mat" /\ r + 1 = Second(u)'
        BY <2>4, <3>1, <3>3, ThreadBounds DEF TeamLeaves, Kind, First, Second
      <4>2. u # Main => Seen(u)'
        BY <1>5, <2>3
      <4> QED
        BY <3>4, <4>1, <4>2 DEF Place
    <3>7. abort = -1
      <4>1. abort # -1 => r = 2 * abort /\ abort \in Nat
        BY <1>8, ThreadBounds DEF Working, AbortMark, PoolTyping
      <4> QED
        BY <3>2, <4>1, NodeOfStage
    <3>8. current_chunk = n
      BY <1>2, <1>8, <3>2 DEF Working, CounterSet
    <3>9. \A c : <<r + 1, c>> \notin finished
      BY <2>1, LaterNotDone
    <3>10. \A u \in Team : ~Past(u, r + 1)' /\ ~OwnDone(u, r + 1)'
      BY <3>4 DEF Past, OwnDone
    <3>11. DoneBefore(r + 1)'
      <4>1. \A s \in 1..((r + 1) - 1) : Work(s, n) \subseteq finished
        BY <2>1, <2>2
      <4>2. finished \subseteq WorkUpTo(r + 1, n)
        BY <2>1 DEF WorkUpTo
      <4> QED
        BY <1>1, <4>1, <4>2 DEF DoneBefore, TeamLeaves, WorkUpTo
    <3>12. OwnPieces(r + 1)'
      BY <1>1, <3>9, <3>10 DEF OwnPieces, TeamLeaves
    <3>13. ChunksInv(r + 1)'
      <4>1. ClaimsFit'
        BY <1>1, <3>4 DEF ClaimsFit
      <4>2. ClaimedDone(r + 1)'
        BY <1>1, <3>8, <3>9 DEF ClaimedDone, TeamLeaves
      <4>3. AllClaimed(r + 1)'
        BY <1>1, <3>10 DEF AllClaimed
      <4> QED
        BY <1>1, <3>8, <4>1, <4>2, <4>3 DEF ChunksInv, TeamLeaves
    <3>14. AbortMark(r + 1)' /\ CounterSet(r + 1)' /\ StageIsWork(r + 1, n_threads)' /\ OthersOut'
      BY <1>1, <1>4, <3>2, <3>5, <3>7 DEF AbortMark, CounterSet, StageIsWork, OthersOut, TeamLeaves
    <3>15. Working(r + 1)'
      BY <1>1, <3>6, <3>11, <3>12, <3>13, <3>14 DEF Working, AllPlaced, TeamLeaves
    <3> QED
      BY <3>2, <3>15, ThreadBounds DEF Phase
  \* The barrier behind a node that is not the last.
  <2>6. CASE after[Main] = "node"
    <3> DEFINE k == node_n[Main]
    <3>1. r = 2 * k /\ k \in 1..(NNodes - 1) /\ k \in 0..NNodes /\ r # Stages /\ r % 2 # 1
      BY <1>1, <2>3, <2>4, <2>6, ThreadBounds, NodeOfStage DEF Final, Stages
    <3>2. \A u \in Team : after[u] = "node" /\ node_n[u] = k
      <4> SUFFICES ASSUME NEW u \in Team PROVE after[u] = "node" /\ node_n[u] = k
        OBVIOUS
      <4>1. r # First(u)
        BY <2>4, <3>1, NodeOfStage DEF First
      <4>2. after[u] = "node" /\ r = 2 * node_n[u]
        BY <2>3, <3>1, <4>1
      <4> QED
        BY <2>4, <3>1, <4>2
    <3>3. \A u \in Team : at'[u] = "node" /\ node_n'[u] = k
      BY <3>2 DEF TeamLeaves
    <3>4. CASE abort # -1
      <4>1. abort = k
        BY <1>8, <3>1, <3>4 DEF Working, AbortMark, PoolTyping
      <4>2. Aborting'
        BY <1>1, <1>4, <1>5, <2>1, <2>3, <3>1, <3>3, <4>1 DEF Aborting, OthersOut, TeamLeaves, WorkUpTo
      <4> QED
        BY <4>2 DEF Phase
    <3>5. CASE abort = -1
      <4>1. PICK q \in 0..Stages : StageIsWork(q, n) /\ Leads(k, q, n)
        BY <1>1, <3>1, LeadsSomewhere
      <4>2. r < q /\ q \in Nat
        BY <3>1, <4>1, ThreadBounds DEF Leads, Stages
      <4>3. ~ChunkStage(q)
        BY <1>1, <3>1, <4>1, <4>2, LeadsNotToChunks
      <4>4. \A u \in Team : Place(u, q)'
        <5> SUFFICES ASSUME NEW u \in Team PROVE Place(u, q)'
          OBVIOUS
        <5>1. Leads(node_n[u], q, n_threads)'
          BY <1>1, <3>3, <4>1 DEF Leads
        <5> QED
          BY <1>5, <2>3, <3>3, <5>1 DEF Place
      <4>5. \A c : <<q, c>> \notin finished
        BY <2>1, <4>2, LaterNotDone
      <4>6. \A u \in Team : ~Past(u, q)' /\ ~OwnDone(u, q)'
        BY <3>1, <3>3, <4>2 DEF Past, OwnDone
      <4>7. DoneBefore(q)'
        <5>1. \A s \in 1..(q - 1) : Work(s, n) \subseteq finished
          <6> SUFFICES ASSUME NEW s \in 1..(q - 1) PROVE Work(s, n) \subseteq finished
            OBVIOUS
          <6>1. CASE s <= r
            BY <2>1, <2>2, <4>2, <6>1
          <6>2. CASE s > r
            <7>1. s \in (2 * k + 1)..(q - 1)
              BY <3>1, <4>2, <6>2
            <7> QED
              BY <4>1, <7>1 DEF Leads
          <6> QED
            BY <2>1, <4>2, <6>1, <6>2
        <5>2. finished \subseteq WorkUpTo(q, n)
          BY <2>1, <4>2 DEF WorkUpTo
        <5> QED
          BY <1>1, <5>1, <5>2 DEF DoneBefore, TeamLeaves, WorkUpTo
      <4>8. OwnPieces(q)'
        BY <1>1, <4>5, <4>6 DEF OwnPieces, TeamLeaves
      <4>9. ChunksInv(q)' /\ AbortMark(q)' /\ CounterSet(q)' /\ StageIsWork(q, n_threads)' /\ OthersOut'
        BY <1>1, <1>4, <3>3, <3>5, <4>1, <4>3
        DEF ChunksInv, ChunkStage, AbortMark, CounterSet, StageIsWork, OthersOut, TeamLeaves
      <4>10. Working(q)'
        BY <1>1, <4>4, <4>7, <4>8, <4>9 DEF Working, AllPlaced, TeamLeaves
      <4> QED
        BY <4>10 DEF Phase
    <3> QED
      BY <3>4, <3>5
  <2>7. CASE after[Main] = "idle"
    <3>1. r = Stages /\ r % 2 = 0
      BY <1>1, <2>3, <2>7, ThreadBounds, NodeOfStage DEF Stages
    <3>2. \A u \in Team : Final(u) /\ (u # Main => Seen(u))
      <4> SUFFICES ASSUME NEW u \in Team PROVE Final(u) /\ (u # Main => Seen(u))
        OBVIOUS
      <4>1. r # First(u)
        BY <2>4, <3>1, NodeOfStage DEF First
      <4>2. node_n[u] < NNodes => r # 2 * node_n[u]
        BY <2>4, <3>1, ThreadBounds DEF Stages
      <4> QED
        BY <2>3, <4>1, <4>2
    <3>3. abort # -1 => Stages = 2 * abort
      BY <1>8, <3>1 DEF Working, AbortMark
    <3> QED
      BY <1>6, <2>1, <3>1, <3>2, <3>3
  <2> QED
    BY <1>1, <2>3, <2>5, <2>6, <2>7 DEF Final
<1> QED
  BY <1>3, <1>7, <1>8

------------------------------------------------------------------------------
(* The barrier as the pool uses it.                                                                                       *)

LEMMA InBarrierKeeps ==
  ASSUME BarrierInv, PoolTyping, Phase, NEW t \in Threads, InBarrier(t)
  PROVE  Phase'
<1>1. EnterBarrier(t) \/ Arrive(t) \/ ResetCount(t)
  BY DEF InBarrier
<1>2. Released' = Released
  BY <1>1, QuietStepsKeep, ArriveKeeps
<1>3. n_threads' = n_threads
  BY <1>1 DEF EnterBarrier, Arrive, ResetCount
<1>4. at' = at
  BY <1>2 DEF at, InBarrier, poolVars
<1> QED
  BY <1>3, <1>4, OuterMove DEF InBarrier, poolVars

LEMMA LeaveBarrierKeeps ==
  ASSUME BarrierInv, PoolTyping, Phase, NEW t \in Threads, LeaveBarrier(t)
  PROVE  Phase'
<1>1. /\ after' = after /\ UNCHANGED <<graph, abort, current_chunk, last_graph, node_n, chunk, finished>>
      /\ pc'[t] = after[t] /\ \A u \in Threads \ {t} : pc'[u] = pc[u]
  BY DEF LeaveBarrier, sharedVars, workVars, Goto, PoolTyping
<1>2. CASE StopSpinning(t)
  <2>1. t \in Released /\ Released' = Released \ {t} /\ n_threads' = n_threads
    BY <1>2, StopSpinningKeeps DEF StopSpinning
  <2>2. at' = at
    BY <1>1, <2>1 DEF at
  <2> QED
    BY <1>1, <2>1, <2>2, OuterMove
<1>3. CASE Open(t)
  <2>1. t \in Waiting /\ Waiting = Team /\ Released' = Released \cup (Team \ {t}) /\ n_threads' = n_threads
    BY <1>3, OpenKeeps DEF Open
  <2>2. \A u \in Team : u \in Threads /\ u \notin Released /\ pc[u] = "barrier"
    BY <2>1 DEF Waiting, Released, PoolTyping
  <2>3. \A u \in Team : at[u] = "barrier" /\ at'[u] = after[u]
    BY <1>1, <2>1, <2>2 DEF at
  <2>4. \A u \in Threads \ Team : at'[u] = at[u]
    BY <1>1, <2>1 DEF at
  <2>5. n_threads # 0
    BY <2>1 DEF Team
  <2> QED
    BY <1>1, <2>1, <2>3, <2>4, <2>5, TeamLeavesKeeps DEF TeamLeaves
<1> QED
  BY <1>2, <1>3 DEF LeaveBarrier

LEMMA BarrierAloneKeeps ==
  ASSUME BarrierInv, PoolTyping, Phase, NEW t \in Threads, BarrierAlone(t)
  PROVE  Phase'
<1>1. t \notin Released /\ Released' = Released /\ after' = after
  BY DEF BarrierAlone, Released, barrierVars, workVars
<1>2. pc'[t] = after[t] /\ \A u \in Threads \ {t} : pc'[u] = pc[u]
  BY DEF BarrierAlone, Goto, PoolTyping
<1>3. at[t] = "barrier" /\ at'[t] = after[t] /\ \A u \in Threads \ {t} : at'[u] = at[u]
  BY <1>1, <1>2 DEF at, BarrierAlone
<1>4. t \in Team /\ Team = {t}
  BY <1>3, BusyInTeam DEF Spread, BarrierAlone, Team
<1> QED
  BY <1>3, <1>4, TeamLeavesKeeps DEF TeamLeaves, BarrierAlone, barrierVars, sharedVars, workVars

\* The pool announces a graph when nobody is in the barrier or about to be.
LEMMA UsesBarrier ==
  ASSUME BarrierInv, PoolTyping, Phase, [PoolNext]_vars
  PROVE  [BarrierNext]_barrierVars
<1>1. ASSUME NEW n \in 1..MaxThreads, StartGraph(n) PROVE NewTeam(n)
  <2>1. Resting
    BY <1>1, AtIs, CallerAtRest, ThreadBounds DEF StartGraph, Step, AtRest
  <2>2. \A t \in Threads : at[t] # "barrier"
    BY <2>1 DEF Resting, AtRest, Outer, Workers
  <2>3. \A t \in Threads : bpc[t] # "out" => t \in Released
    BY <2>2, AtIs DEF PoolTyping
  <2>4. Waiting = {} /\ \A t \in Threads : bpc[t] # "arrive"
    BY <2>3 DEF Waiting, Released
  <2> QED
    BY <1>1, <2>4 DEF NewTeam, StartGraph
<1>2. ASSUME NEW t \in Threads, InBarrier(t) \/ LeaveBarrier(t) PROVE BarrierNext
  BY <1>2 DEF InBarrier, LeaveBarrier, BarrierNext
<1>3. ASSUME NEW t \in Threads, ComputeStep(t), ~InBarrier(t), ~LeaveBarrier(t) PROVE UNCHANGED barrierVars
  BY <1>3 DEF ComputeStep, SkipNode, BeginRows, FinishRows, BeginMulMat, FinishConvert, FirstChunk, FinishChunk, ClaimChunk,
     NodeDone, LoopEnds, BarrierAlone
<1>4. ASSUME NEW t \in Workers, WorkerStep(t) \/ SpuriousWakeup(t) PROVE UNCHANGED barrierVars
  BY <1>4 DEF WorkerStep, SpuriousWakeup, CheckPause, PauseLocked, CheckStop, PollFlags, PollGraph, PollAgain, CheckLocked, FallAsleep
<1>5. CASE CallerStep \/ Free \/ \E value \in BOOLEAN : SetPause(value)
  BY <1>5 DEF CallerStep, Signal, Join, Free, SetPause
<1>6. CASE UNCHANGED vars
  BY <1>6 DEF vars
<1> QED
  BY <1>1, <1>2, <1>3, <1>4, <1>5, <1>6 DEF PoolNext, Request, BarrierNext

------------------------------------------------------------------------------
(* Types, and the invariant.                                                                                              *)

LEMMA ComputeTyping ==
  ASSUME BarrierInv, PoolTyping, Phase, NEW t \in Threads, ComputeStep(t)
  PROVE  PoolTyping'
<1> USE DEF PoolTyping, Spread, Outer, AtRest, Goto, Step, barrierVars, sharedVars, workVars
<1>1. n_threads \in Nat
  BY DEF BarrierInv, BarrierTypeOK
<1>2. CASE SkipNode(t)
  BY <1>2, ThreadBounds DEF SkipNode, AtNode
<1>3. CASE BeginRows(t)
  BY <1>3 DEF BeginRows, AtNode
<1>4. CASE FinishRows(t)
  BY <1>4 DEF FinishRows
<1>5. CASE BeginMulMat(t)
  BY <1>5 DEF BeginMulMat, AtNode
<1>6. CASE FinishConvert(t)
  BY <1>1, <1>6 DEF FinishConvert
<1>7. CASE FirstChunk(t)
  BY <1>7 DEF FirstChunk, TakeChunk, Threads
<1>8. CASE FinishChunk(t)
  BY <1>8 DEF FinishChunk
<1>9. CASE ClaimChunk(t)
  BY <1>9 DEF ClaimChunk, TakeChunk
<1>10. ASSUME NEW aborting \in BOOLEAN, NodeDone(t, aborting) PROVE PoolTyping'
  <2>1. node_n[t] \in 0..(NNodes - 1)
    BY <1>10, InStage DEF NodeDone
  <2> QED
    BY <1>10, <2>1, ThreadBounds DEF NodeDone
<1>11. CASE LoopEnds(t)
  BY <1>11 DEF LoopEnds
<1>12. CASE BarrierAlone(t)
  BY <1>12 DEF BarrierAlone, Outer, AtRest
<1>13. CASE InBarrier(t)
  BY <1>13 DEF InBarrier, EnterBarrier, Arrive, ResetCount, poolVars, BarrierInv, BarrierTypeOK
<1>14. CASE LeaveBarrier(t)
  BY <1>14 DEF LeaveBarrier, Open, StopSpinning, BarrierInv, BarrierTypeOK, Outer, AtRest
<1> QED
  BY <1>2, <1>3, <1>4, <1>5, <1>6, <1>7, <1>8, <1>9, <1>10, <1>11, <1>12, <1>13, <1>14 DEF ComputeStep

LEMMA WorkerTyping ==
  ASSUME BarrierInv, PoolTyping, NEW t \in Workers, WorkerStep(t) \/ SpuriousWakeup(t)
  PROVE  PoolTyping'
<1> USE DEF PoolTyping, Spread, Outer, AtRest, Goto, Step, barrierVars, sharedVars, workVars, Workers
<1>1. n_threads \in 0..MaxThreads
  BY DEF BarrierInv, BarrierTypeOK
<1>2. CASE CheckPause(t)
  BY <1>2 DEF CheckPause
<1>3. CASE PauseLocked(t)
  BY <1>3 DEF PauseLocked
<1>4. CASE CheckStop(t)
  BY <1>4 DEF CheckStop
<1>5. CASE PollFlags(t)
  BY <1>5 DEF PollFlags
<1>6. CASE PollGraph(t)
  BY <1>1, <1>6, ThreadBounds DEF PollGraph, SeesGraph
<1>7. CASE PollAgain(t)
  BY <1>7 DEF PollAgain
<1>8. CASE CheckLocked(t)
  <2>1. CASE Goto(t, "top") /\ UNCHANGED <<last_graph, node_n>>
    BY <1>8, <2>1 DEF CheckLocked
  <2>2. CASE SeesGraph(t, "top")
    <3>1. /\ last_graph' \in [Threads -> (0..graph) \X (0..MaxThreads)]
          /\ node_n' \in [Threads -> 0..NNodes]
          /\ pc' \in [Threads -> Outer \cup AtRest \cup {"signal"} \cup Spread]
      BY <1>1, <2>2, ThreadBounds DEF SeesGraph
    <3> QED
      BY <1>8, <2>2, <3>1 DEF CheckLocked, SeesGraph
  <2> QED
    BY <1>8, <2>1, <2>2 DEF CheckLocked
<1>9. CASE FallAsleep(t)
  BY <1>9 DEF FallAsleep
<1>10. CASE SpuriousWakeup(t)
  BY <1>10 DEF SpuriousWakeup, Woken
<1> QED
  BY <1>2, <1>3, <1>4, <1>5, <1>6, <1>7, <1>8, <1>9, <1>10 DEF WorkerStep

LEMMA WokenTyped ==
  ASSUME PoolTyping, NEW x \in AtRest \cup {"node"}, UNCHANGED barrierVars, pc[Main] # "barrier", pc' = [Woken(pc) EXCEPT ![Main] = x]
  PROVE  /\ pc' \in [Threads -> Outer \cup AtRest \cup {"signal"} \cup Spread]
         /\ \A t \in Threads : pc'[t] \in Outer => t # Main
         /\ \A t \in Threads : pc'[t] \in AtRest \cup {"signal"} => t = Main
         /\ \A t \in Threads : bpc'[t] # "out" => pc'[t] = "barrier"
<1>1. \A t \in Threads : \/ Woken(pc)[t] = pc[t]
                         \/ pc[t] \in {"paused", "asleep"} /\ Woken(pc)[t] \in {"top", "checkLocked"}
  BY DEF Woken
<1>2. pc' \in [Threads -> Outer \cup AtRest \cup {"signal"} \cup Spread]
  BY <1>1 DEF PoolTyping, Woken, Outer, AtRest, Spread
<1>3. pc'[Main] = x /\ \A t \in Threads \ {Main} : pc'[t] = Woken(pc)[t]
  BY ThreadBounds DEF Woken
<1>4. bpc' = bpc
  BY DEF barrierVars
<1> QED
  BY <1>1, <1>2, <1>3, <1>4, ThreadBounds DEF PoolTyping, Outer, AtRest, Spread

LEMMA CallerTyping ==
  ASSUME BarrierInv, PoolTyping, CallerStep \/ Request
  PROVE  PoolTyping'
<1> USE DEF Goto, Step, barrierVars, sharedVars, workVars
<1>1. CASE Signal
  <2>1. pc[Main] # "barrier" /\ pc' = [Woken(pc) EXCEPT ![Main] = "node"] /\ UNCHANGED barrierVars
    BY <1>1 DEF Signal
  <2>2. node_n' \in [Threads -> 0..NNodes] /\ pause' \in BOOLEAN
    <3>1. node_n' = [node_n EXCEPT ![Main] = 0] /\ pause' = FALSE
      BY <1>1 DEF Signal
    <3>2. node_n \in [Threads -> 0..NNodes] /\ 0 \in 0..NNodes
      BY ThreadBounds DEF PoolTyping
    <3> QED
      BY <3>1, <3>2
  <2>3. UNCHANGED <<graph, stop, abort, ec, current_chunk, last_graph, chunk, after>>
    BY <1>1 DEF Signal
  <2>4. /\ pc' \in [Threads -> Outer \cup AtRest \cup {"signal"} \cup Spread]
        /\ \A t \in Threads : pc'[t] \in Outer => t # Main
        /\ \A t \in Threads : pc'[t] \in AtRest \cup {"signal"} => t = Main
        /\ \A t \in Threads : bpc'[t] # "out" => pc'[t] = "barrier"
    BY <2>1, WokenTyped
  <2> QED
    BY <2>2, <2>3, <2>4 DEF PoolTyping
<1>2. CASE Join
  BY <1>2, ThreadBounds DEF Join, PoolTyping, AtRest, Outer, Spread
<1>3. ASSUME NEW n \in 1..MaxThreads, StartGraph(n) PROVE PoolTyping'
  BY <1>3, ThreadBounds DEF StartGraph, PoolTyping, AtRest, Outer, Spread
<1>4. ASSUME NEW value \in BOOLEAN, SetPause(value) PROVE PoolTyping'
  <2>1. pc' = [Woken(pc) EXCEPT ![Main] = "idle"]
    BY <1>4, ThreadBounds DEF SetPause, Woken
  <2> QED
    BY <1>4, <2>1, WokenTyped DEF SetPause, PoolTyping, AtRest
<1>5. CASE Free
  BY <1>5, WokenTyped DEF Free, PoolTyping, AtRest
<1> QED
  BY <1>1, <1>2, <1>3, <1>4, <1>5 DEF CallerStep, Request

LEMMA WorkerKeeps ==
  ASSUME BarrierInv, PoolTyping, Phase, NEW t \in Workers, WorkerStep(t) \/ SpuriousWakeup(t)
  PROVE  Phase'
<1>1. CASE PollGraph(t)
  BY <1>1, SeesGraphKeeps DEF PollGraph, Outer
<1>2. CASE CheckLocked(t) /\ SeesGraph(t, "top")
  BY <1>2, SeesGraphKeeps DEF CheckLocked, Outer
<1>3. ASSUME NEW x \in Outer, pc[t] \in Outer, pc' = [pc EXCEPT ![t] = x],
             UNCHANGED <<barrierVars, sharedVars, last_graph, workVars>>
      PROVE  Phase'
  <2>1. at[t] \in Outer /\ at'[t] \in Outer /\ \A u \in Threads \ {t} : at'[u] = at[u]
    BY <1>3, MoveOne DEF Outer, workVars, Workers
  <2> QED
    BY <1>3, <2>1, OuterMove DEF sharedVars, workVars, barrierVars
<1>4. ASSUME CheckPause(t) \/ PauseLocked(t) \/ CheckStop(t) \/ PollFlags(t) \/ PollAgain(t) \/ FallAsleep(t)
      PROVE  Phase'
  BY <1>3, <1>4 DEF CheckPause, PauseLocked, CheckStop, PollFlags, PollAgain, FallAsleep, Step, Goto, Outer
<1>5. CASE CheckLocked(t) /\ ~SeesGraph(t, "top")
  BY <1>3, <1>5 DEF CheckLocked, Goto, Outer, workVars
<1>6. CASE SpuriousWakeup(t)
  <2>1. Woken(pc)[t] \in {"top", "checkLocked"}
    BY <1>6 DEF SpuriousWakeup, Woken, Workers
  <2> QED
    BY <1>3, <1>6, <2>1 DEF SpuriousWakeup, Outer
<1> QED
  BY <1>1, <1>2, <1>4, <1>5, <1>6 DEF WorkerStep

LEMMA CallerKeeps ==
  ASSUME BarrierInv, PoolTyping, Phase, CallerStep \/ Request
  PROVE  Phase'
<1>1. CASE Signal
  BY <1>1, SignalKeeps
<1>2. ASSUME NEW n \in 1..MaxThreads, StartGraph(n) PROVE Phase'
  BY <1>2, StartGraphKeeps
<1>3. ASSUME NEW x \in AtRest, pc[Main] \in AtRest,
             \/ pc' = [pc EXCEPT ![Main] = x]
             \/ pc' = [Woken(pc) EXCEPT ![Main] = x],
             UNCHANGED <<barrierVars, graph, abort, current_chunk, last_graph, workVars>>
      PROVE  Phase'
  <2>1. at[Main] \in AtRest /\ Main \in Threads
    BY <1>3, AtIs, ThreadBounds DEF AtRest
  <2>2. at'[Main] = x /\ \A u \in Threads \ {Main} : at'[u] = at[u] \/ (at[u] \in Outer /\ at'[u] \in Outer)
    BY <1>3, <2>1, MoveOne, WokenAt DEF workVars, AtRest
  <2> QED
    BY <1>3, <2>1, <2>2, OuterMove DEF workVars, barrierVars
<1>4. CASE Join
  BY <1>3, <1>4 DEF Join, Step, Goto, AtRest, sharedVars
<1>5. ASSUME NEW value \in BOOLEAN, SetPause(value) PROVE Phase'
  <2>1. pc' = [Woken(pc) EXCEPT ![Main] = "idle"]
    BY <1>5, ThreadBounds DEF SetPause, Woken
  <2> QED
    BY <1>3, <1>5, <2>1 DEF SetPause, AtRest
<1>6. CASE Free
  BY <1>3, <1>6 DEF Free, AtRest
<1> QED
  BY <1>1, <1>2, <1>4, <1>5, <1>6 DEF CallerStep, Request

LEMMA PoolStarts == PoolInit => PoolInv
<1> SUFFICES ASSUME PoolInit PROVE PoolInv
  OBVIOUS
<1>1. BarrierInv
  BY BarrierStarts DEF PoolInit
<1>2. PoolTyping
  <2>1. pc \in [Threads -> Outer \cup AtRest \cup {"signal"} \cup Spread]
    BY DEF PoolInit, Outer, AtRest
  <2>2. /\ \A t \in Threads : pc[t] \in Outer => t # Main
        /\ \A t \in Threads : pc[t] \in AtRest \cup {"signal"} => t = Main
        /\ \A t \in Threads : bpc[t] # "out" => pc[t] = "barrier"
    BY DEF PoolInit, BarrierInit, Outer, AtRest
  <2>3. graph \in Nat /\ stop \in BOOLEAN /\ pause \in BOOLEAN /\ abort \in {-1} \cup 1..NNodes
        /\ ec \in {"success", "aborted"} /\ current_chunk \in Nat
    BY DEF PoolInit
  <2>4. last_graph \in [Threads -> (0..graph) \X (0..MaxThreads)]
    <3>1. 0 \in 0..graph /\ 0 \in 0..MaxThreads
      BY ThreadBounds DEF PoolInit
    <3>2. last_graph = [t \in Threads |-> <<0, 0>>]
      BY DEF PoolInit
    <3> QED
      BY <3>1, <3>2
  <2>5. node_n \in [Threads -> 0..NNodes] /\ chunk \in [Threads -> Nat]
    BY ThreadBounds DEF PoolInit
  <2>6. after \in [Threads -> {"node", "chunk", "idle", "top"}]
        /\ \A t \in Threads : (after[t] = "idle" => t = Main) /\ (after[t] = "top" => t # Main)
    BY DEF PoolInit
  <2> QED
    BY <2>1, <2>2, <2>3, <2>4, <2>5, <2>6 DEF PoolTyping
<1>3. \A t \in Threads : at[t] = pc[t]
  BY DEF PoolInit, BarrierInit, at, Released
<1>4. Team = {} /\ n_threads = 0
  BY DEF PoolInit, BarrierInit, Team
<1>5. Resting
  BY <1>3, <1>4, ThreadBounds DEF PoolInit, Resting, AtRest, Outer, Workers
<1> QED
  BY <1>1, <1>2, <1>5 DEF PoolInv, Phase

LEMMA PoolStep ==
  ASSUME PoolInv, [PoolNext]_vars
  PROVE  PoolInv'
<1> USE DEF PoolInv
<1>1. BarrierInv'
  BY UsesBarrier, BarrierStep
<1>2. ASSUME NEW t \in Threads, ComputeStep(t) PROVE PoolTyping' /\ Phase'
  BY <1>2, ComputeTyping, SkipNodeKeeps, BeginKeeps, FinishRowsKeeps, FinishConvertKeeps, FirstChunkKeeps, FinishChunkKeeps,
     ClaimChunkKeeps, NodeDoneKeeps, LoopEndsKeeps, BarrierAloneKeeps, InBarrierKeeps, LeaveBarrierKeeps DEF ComputeStep
<1>3. ASSUME NEW t \in Workers, WorkerStep(t) \/ SpuriousWakeup(t) PROVE PoolTyping' /\ Phase'
  BY <1>3, WorkerTyping, WorkerKeeps
<1>4. ASSUME CallerStep \/ Request PROVE PoolTyping' /\ Phase'
  BY <1>4, CallerTyping, CallerKeeps
<1>5. ASSUME UNCHANGED vars PROVE PoolTyping' /\ Phase'
  <2>1. at' = at /\ n_threads' = n_threads
    BY <1>5 DEF at, Released, vars, barrierVars, poolVars
  <2> QED
    BY <1>5, <2>1, OuterMove DEF vars, barrierVars, poolVars, PoolTyping
<1> QED
  BY <1>1, <1>2, <1>3, <1>4, <1>5 DEF PoolNext

\* The inductive invariant: the team of a graph is behind one barrier and before the same next one.
\* Code: ggml_graph_compute_thread, ggml_graph_compute_secondary_thread, ggml_graph_compute.
THEOREM PoolInvariant == PoolSpec => []PoolInv
<1>1. PoolInv /\ [PoolNext]_vars => PoolInv'
  BY PoolStep
<1> QED
  BY PoolStarts, <1>1, PTL DEF PoolSpec

\* When the caller resets the graph, the plan and the abort mark without a lock, or frees them, no worker reads them and none
\* is about to. Code: ggml_graph_compute, ggml_threadpool_free.
THEOREM WorkersAreQuiet == PoolSpec => []WorkersQuiet
<1>1. PoolInv => WorkersQuiet
  <2> SUFFICES ASSUME PoolInv, pc[Main] \in AtRest, NEW t \in Workers
               PROVE  pc[t] \notin Computing /\ (pc[t] = "barrier" => after[t] = "top")
    BY DEF WorkersQuiet, AtRest
  <2>1. Resting
    BY AtIs, CallerAtRest, ThreadBounds DEF PoolInv, AtRest
  <2>2. at[t] \in Outer /\ t \in Threads
    BY <2>1 DEF Resting, Workers
  <2>3. pc[t] # "barrier" => pc[t] \in Outer
    BY <2>2, AtIs DEF PoolInv
  <2>4. pc[t] = "barrier" => at[t] = after[t]
    BY <2>2, AtIs DEF PoolInv, Outer
  <2> QED
    BY <2>2, <2>3, <2>4 DEF PoolInv, PoolTyping, Outer, Computing
<1> QED
  BY <1>1, PoolInvariant, PTL

\* The pool uses ggml_barrier as it must be used: it announces a graph only when nobody is in the barrier or on the way in.
\* Code: ggml_graph_compute_kickoff against the final ggml_barrier of ggml_graph_compute_thread.
THEOREM PoolUsesBarrier == PoolSpec => BarrierSpec
<1>1. PoolInit => BarrierInit
  BY DEF PoolInit
<1>2. PoolInv /\ [PoolNext]_vars => [BarrierNext]_barrierVars
  BY UsesBarrier DEF PoolInv
<1> QED
  BY <1>1, <1>2, PoolInvariant, PTL DEF PoolSpec, BarrierSpec

\* So in the pool, too, nobody gets out of a barrier before the whole team is in. Code: ggml_barrier in ggml_graph_compute_thread.
THEOREM PoolBarrierHolds == PoolSpec => BarrierHolds
BY PoolUsesBarrier, BarrierKeepsPromise, PTL

------------------------------------------------------------------------------
(* The pool computes the graph as GraphCompute promises.                                                                  *)

AtPiece == {"convert", "rows", "multiply"}

\* A piece somebody is at is one of the stage that everything before is done for, is not done yet, and nobody else is at it.
PieceIsFree ==
  \A t \in Threads : pc[t] \in AtPiece =>
    /\ t \in Team /\ Running = n_threads
    /\ \E s \in 1..Stages :
         /\ WorkUpTo(s - 1, n_threads) \subseteq finished
         /\ Doing[t] \in Work(s, n_threads) \ finished
    /\ \A u \in Threads \ {t} : Doing[u] # Doing[t]

\* When the caller is back, nobody is at a piece, and whole nodes are done: all, or those before an abort.
RestIsWhole ==
  pc[Main] \in AtRest =>
    /\ \A t \in Threads : pc[t] \notin AtPiece
    /\ n_threads # 0 => \E s \in {2 * k : k \in 1..NNodes} \cup {0, Stages} : finished = WorkUpTo(s, n_threads)

\* Before the first team nobody is in the barrier.
NobodyIn == n_threads = 0 => \A t \in Threads : bpc[t] = "out"

LEMMA DoingIs ==
  ASSUME NEW t \in Threads
  PROVE  /\ pc[t] = "convert" => Doing[t] = <<First(t), t>>
         /\ pc[t] = "rows" => Doing[t] = <<Second(t), t>>
         /\ pc[t] = "multiply" => Doing[t] = <<Second(t), chunk[t]>>
         /\ pc[t] \notin AtPiece => Doing[t] = <<0, 0>>
BY DEF Doing, AtPiece

LEMMA PieceOf ==
  ASSUME BarrierInv, PoolTyping, Phase, NEW r \in 1..Stages, Working(r), NEW t \in Threads, pc[t] \in AtPiece
  PROVE  /\ t \in Team /\ at[t] = pc[t] /\ Doing[t] = <<r, IF pc[t] = "multiply" THEN chunk[t] ELSE t>>
         /\ ChunkStage(r) <=> pc[t] = "multiply"
         /\ pc[t] # "multiply" => <<r, t>> \in Work(r, n_threads)
<1>1. at[t] = pc[t] /\ t \in Team
  BY AtIs, BusyInTeam DEF AtPiece, Spread
<1>2. n_threads \in Nat \ {0} /\ t \in 0..(n_threads - 1)
  BY <1>1, TeamIsThreads DEF Working
<1>3. Place(t, r)
  BY <1>1 DEF Working, AllPlaced
<1>4. /\ node_n[t] < NNodes
      /\ pc[t] = "rows" => Kind(t) = "rows" /\ r = Second(t)
      /\ pc[t] = "convert" => Kind(t) = "mul_mat" /\ r = First(t)
      /\ pc[t] = "multiply" => Kind(t) = "mul_mat" /\ r = Second(t)
  BY <1>1, <1>3 DEF Place, AtPiece, Outer
<1>5. node_n[t] \in 0..(NNodes - 1)
  BY <1>4, ThreadBounds DEF PoolTyping
<1>6. ~ChunkStage(First(t)) /\ (ChunkStage(Second(t)) <=> Kind(t) = "mul_mat")
  BY <1>2, <1>5, WorkOfNode DEF First, Second, Kind
<1>7. ChunkStage(r) <=> pc[t] = "multiply"
  BY <1>4, <1>6 DEF AtPiece
<1>8. Doing[t] = <<r, IF pc[t] = "multiply" THEN chunk[t] ELSE t>>
  BY <1>4, DoingIs DEF AtPiece
<1>9. pc[t] # "multiply" => Pieces(r, n_threads) = 0..(n_threads - 1)
  <2>1. Kind(t) = "mul_mat" => Pieces(First(t), n_threads) = 0..(n_threads - 1)
    BY <1>2, <1>5, WorkOfNode DEF First, Kind
  <2>2. Kind(t) = "rows" => Pieces(Second(t), n_threads) = 0..(n_threads - 1)
    BY <1>2, <1>5, WorkOfNode DEF Second, Kind
  <2> QED
    BY <1>4, <2>1, <2>2 DEF AtPiece
<1>10. pc[t] # "multiply" => <<r, t>> \in Work(r, n_threads)
  BY <1>2, <1>9, InWork
<1> QED
  BY <1>1, <1>7, <1>8, <1>10

LEMMA PiecesAreFree == PoolInv => PieceIsFree
<1> SUFFICES ASSUME BarrierInv, PoolTyping, Phase, NEW t \in Threads, pc[t] \in AtPiece
             PROVE  /\ t \in Team /\ Running = n_threads
                    /\ \E s \in 1..Stages :
                         /\ WorkUpTo(s - 1, n_threads) \subseteq finished
                         /\ Doing[t] \in Work(s, n_threads) \ finished
                    /\ \A u \in Threads \ {t} : Doing[u] # Doing[t]
  BY DEF PoolInv, PieceIsFree
<1>1. PICK r \in 1..Stages : Working(r)
  BY InStage DEF AtPiece
<1>2. t \in Team /\ at[t] = pc[t] /\ n_threads \in Nat \ {0}
  BY <1>1, PieceOf, TeamIsThreads DEF Working
<1>3. Running = n_threads
  <2>1. pc[Main] \notin AtRest
    <3> SUFFICES ASSUME pc[Main] \in AtRest PROVE FALSE
      OBVIOUS
    <3>1. at[Main] \in AtRest
      BY AtIs, ThreadBounds DEF AtRest
    <3>2. Resting
      BY <3>1, CallerAtRest
    <3>3. t = Main \/ at[t] \in Outer
      BY <3>2 DEF Resting, Workers
    <3> QED
      BY <1>2, <3>1, <3>3 DEF AtPiece, AtRest, Outer
  <2> QED
    BY <2>1 DEF Running, AtRest
<1>4. WorkUpTo(r - 1, n_threads) \subseteq finished
  BY <1>1 DEF Working, DoneBefore, WorkUpTo
<1>5. CASE pc[t] # "multiply"
  <2>1. Doing[t] = <<r, t>> /\ ~ChunkStage(r) /\ <<r, t>> \in Work(r, n_threads)
    BY <1>1, <1>5, PieceOf
  <2>2. ~OwnDone(t, r)
    BY <1>2, <1>5 DEF OwnDone, Past, AtPiece
  <2>3. <<r, t>> \notin finished
    BY <1>1, <1>2, <2>1, <2>2, ThreadBounds DEF Working, OwnPieces
  <2>4. ASSUME NEW u \in Threads \ {t} PROVE Doing[u] # Doing[t]
    <3>1. CASE pc[u] \in AtPiece
      <4>1. Doing[u] = <<r, u>>
        BY <1>1, <2>1, <3>1, PieceOf
      <4> QED
        BY <2>1, <4>1
    <3>2. CASE pc[u] \notin AtPiece
      BY <2>1, <3>2, DoingIs, ThreadBounds
    <3> QED
      BY <3>1, <3>2
  <2> QED
    BY <1>2, <1>3, <1>4, <2>1, <2>3, <2>4
<1>6. CASE pc[t] = "multiply"
  <2>1. Doing[t] = <<r, chunk[t]>> /\ ChunkStage(r) /\ at[t] = "multiply" /\ chunk[t] \in Nat
    BY <1>1, <1>2, <1>6, PieceOf DEF PoolTyping
  <2>2. Pieces(r, n_threads) = 0..(Chunks(n_threads) - 1) /\ Chunks(n_threads) \in Nat
    BY <1>2, <2>1, ChunkStageIsWork, ChunksEnough
  <2>3. ClaimsFit /\ ClaimedDone(r) /\ OwnPieces(r) /\ current_chunk \in Nat
    BY <1>1, <2>1 DEF Working, ChunksInv, PoolTyping
  <2>4. chunk[t] < Chunks(n_threads) /\ (chunk[t] = t \/ chunk[t] \in n_threads..(current_chunk - 1))
    BY <1>2, <2>1, <2>3 DEF ClaimsFit
  <2>5. Doing[t] \in Work(r, n_threads)
    <3>1. chunk[t] \in Pieces(r, n_threads)
      BY <2>1, <2>2, <2>4
    <3> QED
      BY <2>1, <3>1, InWork
  <2>6. Doing[t] \notin finished
    <3>1. CASE chunk[t] = t
      <4>1. ~OwnDone(t, r)
        BY <2>1, <3>1 DEF OwnDone, Past
      <4> QED
        BY <1>2, <2>1, <2>3, <2>5, <3>1, <4>1, ThreadBounds DEF OwnPieces
    <3>2. CASE chunk[t] \in n_threads..(current_chunk - 1)
      <4>1. Multiplying(chunk[t])
        BY <1>2, <2>1 DEF Multiplying
      <4>2. chunk[t] \in n_threads..(Chunks(n_threads) - 1)
        BY <1>2, <2>1, <2>2, <2>3, <2>4, <3>2
      <4> QED
        BY <2>1, <2>3, <4>1, <4>2 DEF ClaimedDone
    <3> QED
      BY <2>4, <3>1, <3>2
  <2>7. ASSUME NEW u \in Threads \ {t} PROVE Doing[u] # Doing[t]
    <3>1. CASE pc[u] \in AtPiece
      <4>1. u \in Team /\ at[u] = "multiply" /\ Doing[u] = <<r, chunk[u]>>
        BY <1>1, <2>1, <3>1, PieceOf
      <4>2. chunk[u] # chunk[t]
        BY <1>2, <2>1, <2>3, <4>1 DEF ClaimsFit
      <4> QED
        BY <2>1, <4>1, <4>2
    <3>2. CASE pc[u] \notin AtPiece
      BY <2>1, <3>2, DoingIs, ThreadBounds
    <3> QED
      BY <3>1, <3>2
  <2> QED
    BY <1>2, <1>3, <1>4, <2>5, <2>6, <2>7
<1> QED
  BY <1>5, <1>6

LEMMA RestsAreWhole == PoolInv => RestIsWhole
<1> SUFFICES ASSUME BarrierInv, PoolTyping, Phase, pc[Main] \in AtRest
             PROVE  /\ \A t \in Threads : pc[t] \notin AtPiece
                    /\ n_threads # 0 => \E s \in {2 * k : k \in 1..NNodes} \cup {0, Stages} : finished = WorkUpTo(s, n_threads)
  BY DEF PoolInv, RestIsWhole
<1>1. at[Main] \in AtRest
  BY AtIs, ThreadBounds DEF AtRest
<1>2. Resting
  BY <1>1, CallerAtRest
<1>3. ASSUME NEW t \in Threads PROVE pc[t] \notin AtPiece
  <2>1. pc[t] # "barrier" => at[t] = pc[t]
    BY AtIs
  <2>2. at[t] \in Outer \cup AtRest
    BY <1>1, <1>2 DEF Resting, Workers
  <2> QED
    BY <2>1, <2>2 DEF AtPiece, Outer, AtRest
<1>4. (IF abort = -1 THEN Stages ELSE 2 * abort) \in {2 * k : k \in 1..NNodes} \cup {0, Stages}
  BY DEF PoolTyping
<1> QED
  BY <1>2, <1>3, <1>4 DEF Resting

LEMMA NobodyInKeeps ==
  ASSUME NobodyIn, BarrierInv, [BarrierNext]_barrierVars
  PROVE  NobodyIn'
<1>1. ASSUME NEW n \in 1..MaxThreads, NewTeam(n) PROVE NobodyIn'
  BY <1>1 DEF NewTeam, NobodyIn
<1>2. ASSUME NEW t \in Threads, EnterBarrier(t) \/ Arrive(t) \/ ResetCount(t) \/ Open(t) \/ StopSpinning(t) PROVE NobodyIn'
  <2>1. n_threads' = n_threads /\ (n_threads = 0 => bpc[t] = "out")
    BY <1>2 DEF NobodyIn, EnterBarrier, Arrive, ResetCount, Open, StopSpinning
  <2>2. n_threads # 0
    BY <1>2, <2>1 DEF EnterBarrier, Arrive, ResetCount, Open, StopSpinning, Team, Threads
  <2> QED
    BY <2>1, <2>2 DEF NobodyIn
<1>3. CASE UNCHANGED barrierVars
  BY <1>3 DEF barrierVars, NobodyIn
<1> QED
  BY <1>1, <1>2, <1>3 DEF BarrierNext

\* What a thread is at changes only with its own pc, node_n and chunk.
LEMMA DoingStays ==
  ASSUME NEW t \in Threads,
         \/ pc'[t] = pc[t] /\ node_n'[t] = node_n[t] /\ chunk'[t] = chunk[t]
         \/ pc[t] \notin AtPiece /\ pc'[t] \notin AtPiece
  PROVE  Doing'[t] = Doing[t]
BY DEF Doing, AtPiece, First, Second

LEMMA RunningStays ==
  ASSUME n_threads' = n_threads, pc'[Main] \in AtRest <=> pc[Main] \in AtRest
  PROVE  Running' = Running
BY DEF Running, AtRest

LEMMA DoingSame ==
  ASSUME \A t \in Threads : Doing'[t] = Doing[t]
  PROVE  Doing' = Doing
<1>1. Doing = [t \in Threads |-> Doing[t]] /\ Doing' = [t \in Threads |-> Doing'[t]]
  BY DEF Doing
<1> QED
  BY <1>1

\* A step that neither begins nor ends a piece nor brings the caller back is a stutter.
LEMMA Stutters ==
  ASSUME UNCHANGED <<n_threads, finished>>, pc'[Main] \in AtRest <=> pc[Main] \in AtRest,
         \A t \in Threads : \/ pc'[t] = pc[t] /\ node_n'[t] = node_n[t] /\ chunk'[t] = chunk[t]
                            \/ pc[t] \notin AtPiece /\ pc'[t] \notin AtPiece
  PROVE  UNCHANGED Graph!vars
<1>1. Running' = Running
  BY RunningStays
<1>2. Doing' = Doing
  BY DoingStays, DoingSame
<1> QED
  BY <1>1, <1>2 DEF Graph!vars

LEMMA Begins ==
  ASSUME BarrierInv, PoolTyping, PieceIsFree', NEW t \in Threads, pc[t] \notin AtPiece, pc'[t] \in AtPiece, pc[Main] \notin AtRest,
         \A u \in Threads \ {t} : pc'[u] = pc[u] /\ node_n'[u] = node_n[u] /\ chunk'[u] = chunk[u],
         UNCHANGED <<n_threads, finished>>
  PROVE  Graph!Begin(t)
<1>1. PICK s \in 1..Stages : /\ WorkUpTo(s - 1, n_threads)' \subseteq finished'
                             /\ Doing'[t] \in Work(s, n_threads)' \ finished'
  BY DEF PieceIsFree
<1>2. WorkUpTo(s - 1, n_threads) \subseteq finished /\ Doing'[t] \in Work(s, n_threads) \ finished
  <2>1. WorkUpTo(s - 1, n_threads)' = WorkUpTo(s - 1, n_threads) /\ Work(s, n_threads)' = Work(s, n_threads)
    BY DEF WorkUpTo, Work
  <2> QED
    BY <1>1, <2>1
<1>3. Running' = n_threads' /\ t \in Team' /\ \A u \in Threads \ {t} : Doing'[u] # Doing'[t]
  BY DEF PieceIsFree
<1>4. Running = n_threads
  BY DEF Running, AtRest
<1>5. \A u \in Threads \ {t} : Doing'[u] = Doing[u]
  BY DoingStays
<1>6. Doing[t] = <<0, 0>>
  BY DoingIs
<1>7. Doing'[t] # <<0, 0>>
  BY <1>2 DEF Work
<1>8. Doing' = [Doing EXCEPT ![t] = Doing'[t]]
  <2>1. Doing = [u \in Threads |-> Doing[u]] /\ Doing' = [u \in Threads |-> Doing'[u]]
    BY DEF Doing
  <2> QED
    BY <1>5, <2>1
<1>9. \A u \in Threads : Doing[u] # Doing'[t]
  BY <1>3, <1>5, <1>6, <1>7
<1>10. t < n_threads
  BY <1>3 DEF Team, BarrierInv, BarrierTypeOK
<1> QED
  BY <1>2, <1>3, <1>4, <1>6, <1>8, <1>9, <1>10
  DEF Graph!Begin, Graph!NoPiece, Graph!Threads, Threads, Graph!WorkUpTo, Graph!Work, WorkUpTo, Work, Stages

LEMMA Finishes ==
  ASSUME PoolTyping, NEW t \in Threads, pc[t] \in AtPiece, pc'[t] \notin AtPiece \cup AtRest,
         \A u \in Threads \ {t} : pc'[u] = pc[u] /\ node_n'[u] = node_n[u] /\ chunk'[u] = chunk[u],
         n_threads' = n_threads, finished' = finished \cup {Doing[t]}
  PROVE  Graph!Finish(t)
<1>1. Doing[t] # <<0, 0>>
  <2>1. node_n[t] \in Nat
    BY ThreadBounds DEF PoolTyping
  <2>2. First(t) # 0 /\ Second(t) # 0
    BY <2>1 DEF First, Second
  <2> QED
    BY <2>2, DoingIs DEF AtPiece
<1>2. \A u \in Threads \ {t} : Doing'[u] = Doing[u]
  BY DoingStays
<1>3. Doing'[t] = <<0, 0>>
  BY DEF Doing, AtPiece
<1>4. Doing' = [Doing EXCEPT ![t] = <<0, 0>>]
  <2>1. Doing = [u \in Threads |-> Doing[u]] /\ Doing' = [u \in Threads |-> Doing'[u]]
    BY DEF Doing
  <2> QED
    BY <1>2, <1>3, <2>1
<1>5. Running' = Running
  BY RunningStays, ThreadBounds DEF AtPiece, AtRest
<1> QED
  BY <1>1, <1>4, <1>5 DEF Graph!Finish, Graph!NoPiece

\* The steps of a thread at the graph.
LEMMA ComputeImplements ==
  ASSUME PoolInv, NobodyIn, PieceIsFree', RestIsWhole', NEW t \in Threads, ComputeStep(t)
  PROVE  [Graph!Next]_(Graph!vars)
<1> USE DEF PoolInv, Goto, Step, barrierVars, sharedVars, workVars
<1> DEFINE OthersSame == \A u \in Threads \ {t} : pc'[u] = pc[u] /\ node_n'[u] = node_n[u] /\ chunk'[u] = chunk[u]
<1>1. pc \in [Threads -> Outer \cup AtRest \cup {"signal"} \cup Spread] /\ node_n \in [Threads -> 0..NNodes]
      /\ chunk \in [Threads -> Nat] /\ Main \in Threads
  BY ThreadBounds DEF PoolTyping
<1>2. ASSUME Graph!Begin(t) \/ Graph!Finish(t) PROVE Graph!Next
  BY <1>2 DEF Graph!Next, Graph!Threads, Threads
<1>3. ASSUME UNCHANGED <<n_threads, finished>>, OthersSame, pc[t] \notin AtPiece \cup AtRest, pc'[t] \notin AtPiece \cup AtRest
      PROVE  UNCHANGED Graph!vars
  BY <1>1, <1>3, Stutters
<1>4. ASSUME UNCHANGED <<n_threads, finished>>, OthersSame, pc[t] \notin AtPiece, t = Main => pc[t] \notin AtRest, pc'[t] \in AtPiece
      PROVE  Graph!Begin(t)
  <2>1. pc[Main] \notin AtRest
    <3> SUFFICES ASSUME pc[Main] \in AtRest PROVE FALSE
      OBVIOUS
    <3>1. t # Main /\ pc'[Main] \in AtRest
      BY <1>1, <1>4
    <3> QED
      BY <3>1, <1>4 DEF RestIsWhole
  <2> QED
    BY <1>4, <2>1, Begins
<1>5. ASSUME n_threads' = n_threads, finished' = finished \cup {Doing[t]}, OthersSame,
             pc[t] \in AtPiece, pc'[t] \notin AtPiece \cup AtRest
      PROVE  Graph!Finish(t)
  BY <1>5, Finishes
<1>6. CASE SkipNode(t)
  BY <1>1, <1>3, <1>6 DEF SkipNode, AtNode, AtPiece, AtRest
<1>7. CASE BeginRows(t)
  BY <1>1, <1>2, <1>4, <1>7 DEF BeginRows, AtNode, AtPiece, AtRest
<1>8. CASE BeginMulMat(t)
  BY <1>1, <1>2, <1>4, <1>8 DEF BeginMulMat, AtNode, AtPiece, AtRest
<1>9. CASE FinishRows(t)
  BY <1>1, <1>2, <1>5, <1>9, DoingIs DEF FinishRows, FinishPiece, AtPiece, AtRest
<1>10. CASE FinishConvert(t)
  BY <1>1, <1>2, <1>5, <1>10, DoingIs DEF FinishConvert, FinishPiece, AtPiece, AtRest
<1>11. CASE FinishChunk(t)
  BY <1>1, <1>2, <1>5, <1>11, DoingIs DEF FinishChunk, FinishPiece, AtPiece, AtRest
<1>12. ASSUME NEW c, pc[t] \in {"chunk", "claim"}, TakeChunk(t, c), UNCHANGED <<n_threads, node_n, finished>>
       PROVE  [Graph!Next]_(Graph!vars)
  <2>1. OthersSame /\ pc'[t] \in {"multiply", "computed"}
    BY <1>1, <1>12 DEF TakeChunk
  <2>2. CASE pc'[t] = "multiply"
    BY <1>2, <1>4, <1>12, <2>1, <2>2 DEF AtPiece, AtRest
  <2>3. CASE pc'[t] = "computed"
    BY <1>3, <1>12, <2>1, <2>3 DEF AtPiece, AtRest
  <2> QED
    BY <2>1, <2>2, <2>3
<1>13. CASE FirstChunk(t)
  BY <1>12, <1>13 DEF FirstChunk
<1>14. CASE ClaimChunk(t)
  BY <1>12, <1>14 DEF ClaimChunk
<1>15. ASSUME NEW aborting \in BOOLEAN, NodeDone(t, aborting) PROVE UNCHANGED Graph!vars
  BY <1>1, <1>3, <1>15 DEF NodeDone, AtPiece, AtRest
<1>16. CASE LoopEnds(t)
  BY <1>1, <1>3, <1>16 DEF LoopEnds, AtPiece, AtRest
<1>17. CASE InBarrier(t)
  <2>1. n_threads' = n_threads
    BY <1>17 DEF InBarrier, EnterBarrier, Arrive, ResetCount
  <2> QED
    BY <1>1, <1>17, <2>1, Stutters DEF InBarrier, poolVars
<1>18. CASE BarrierAlone(t) \/ LeaveBarrier(t)
  <2>1. pc[t] = "barrier" /\ pc'[t] = after[t] /\ OthersSame /\ UNCHANGED <<n_threads, finished>>
    BY <1>1, <1>18 DEF BarrierAlone, LeaveBarrier, Open, StopSpinning
  <2>2. after[t] \in {"node", "chunk", "top", "idle"} /\ (after[t] = "idle" => t = Main)
    BY DEF PoolTyping
  <2>3. CASE after[t] # "idle"
    BY <1>3, <2>1, <2>2, <2>3 DEF AtPiece, AtRest
  <2>4. CASE after[t] = "idle"
    <3>1. pc[Main] = "barrier" /\ pc'[Main] = "idle"
      BY <2>1, <2>2, <2>4
    <3>2. n_threads \in Nat /\ n_threads # 0
      BY <1>18 DEF BarrierAlone, LeaveBarrier, Open, StopSpinning, NobodyIn, BarrierInv, BarrierTypeOK
    <3>3. /\ \A u \in Threads : pc'[u] \notin AtPiece
          /\ \E s \in {2 * k : k \in 1..NNodes} \cup {0, Stages} : finished' = WorkUpTo(s, n_threads)'
      BY <2>1, <3>1, <3>2 DEF RestIsWhole, AtRest
    <3>4. Running = n_threads /\ Running' = 0
      BY <3>1 DEF Running
    <3>5. \A u \in Threads : pc[u] \notin AtPiece
      BY <2>1, <3>3 DEF AtPiece
    <3>6. \A u \in Threads : Doing[u] = <<0, 0>>
      BY <3>5, DoingIs
    <3>7. Doing' = Doing
      BY <3>3, <3>5, DoingStays, DoingSame
    <3>8. \E s \in {2 * k : k \in 1..NNodes} \cup {0, Stages} : finished = WorkUpTo(s, n_threads)
      BY <2>1, <3>3 DEF WorkUpTo, Work
    <3>9. Graph!Return
      BY <2>1, <3>2, <3>4, <3>6, <3>7, <3>8
      DEF Graph!Return, Graph!Threads, Threads, Graph!NoPiece, Graph!WorkUpTo, Graph!Work, WorkUpTo, Work, Stages
    <3> QED
      BY <3>9 DEF Graph!Next
  <2> QED
    BY <2>3, <2>4
<1> QED
  BY <1>6, <1>7, <1>8, <1>9, <1>10, <1>11, <1>13, <1>14, <1>15, <1>16, <1>17, <1>18 DEF ComputeStep

\* The steps of a worker outside the graph, and of the caller.
LEMMA OthersImplement ==
  ASSUME PoolInv, RestIsWhole,
         \/ \E t \in Workers : WorkerStep(t) \/ SpuriousWakeup(t)
         \/ CallerStep \/ Request
  PROVE  [Graph!Next]_(Graph!vars)
<1> USE DEF PoolInv, Goto, Step, barrierVars, sharedVars, workVars
<1>1. pc \in [Threads -> Outer \cup AtRest \cup {"signal"} \cup Spread] /\ node_n \in [Threads -> 0..NNodes] /\ Main \in Threads
  BY ThreadBounds DEF PoolTyping
<1>2. ASSUME NEW t \in Workers, WorkerStep(t) \/ SpuriousWakeup(t) PROVE UNCHANGED Graph!vars
  <2>1. t \in Threads /\ t # Main
    BY DEF Workers
  <2>2. UNCHANGED <<n_threads, finished, chunk>> /\ \A u \in Threads \ {t} : pc'[u] = pc[u] /\ node_n'[u] = node_n[u]
    BY <1>1, <1>2 DEF WorkerStep, CheckPause, PauseLocked, CheckStop, PollFlags, PollGraph, PollAgain, CheckLocked, FallAsleep,
       SpuriousWakeup, SeesGraph
  <2>3. pc[t] \in Outer
    BY <1>2 DEF WorkerStep, CheckPause, PauseLocked, CheckStop, PollFlags, PollGraph, PollAgain, CheckLocked, FallAsleep,
       SpuriousWakeup, Outer
  <2>4. pc'[t] \notin AtPiece
    BY <1>1, <1>2, <2>1 DEF WorkerStep, CheckPause, PauseLocked, CheckStop, PollFlags, PollGraph, PollAgain, CheckLocked, FallAsleep,
       SpuriousWakeup, SeesGraph, Woken, AtPiece
  <2> QED
    BY <1>1, <2>1, <2>2, <2>3, <2>4, Stutters DEF Outer, AtPiece
<1>3. \A t \in Threads : \/ Woken(pc)[t] = pc[t]
                         \/ pc[t] \in {"paused", "asleep"} /\ Woken(pc)[t] \in {"top", "checkLocked"}
  BY DEF Woken
<1>4. ASSUME NEW x \in AtRest \cup {"signal", "node"}, pc' = [pc EXCEPT ![Main] = x] \/ pc' = [Woken(pc) EXCEPT ![Main] = x]
      PROVE  pc'[Main] = x /\ \A t \in Threads \ {Main} : pc'[t] = pc[t] \/ (pc[t] \notin AtPiece /\ pc'[t] \notin AtPiece)
  BY <1>1, <1>3, <1>4 DEF Woken, AtPiece
<1>5. ASSUME NEW x \in AtRest \cup {"signal", "node"}, pc' = [pc EXCEPT ![Main] = x] \/ pc' = [Woken(pc) EXCEPT ![Main] = x],
             pc[Main] \in AtRest \cup {"signal"}, pc[Main] \in AtRest <=> x \in AtRest,
             UNCHANGED <<n_threads, finished, chunk>>, \A t \in Threads \ {Main} : node_n'[t] = node_n[t]
      PROVE  UNCHANGED Graph!vars
  <2>1. pc'[Main] = x /\ \A t \in Threads \ {Main} : pc'[t] = pc[t] \/ (pc[t] \notin AtPiece /\ pc'[t] \notin AtPiece)
    BY <1>4, <1>5
  <2>2. pc[Main] \notin AtPiece /\ pc'[Main] \notin AtPiece
    BY <1>5, <2>1 DEF AtPiece, AtRest
  <2> QED
    BY <1>5, <2>1, <2>2, Stutters
<1>6. CASE Signal
  BY <1>1, <1>5, <1>6 DEF Signal, AtRest
<1>7. CASE Join
  BY <1>5, <1>7 DEF Join, AtRest
<1>8. ASSUME NEW value \in BOOLEAN, SetPause(value) PROVE UNCHANGED Graph!vars
  <2>1. pc' = [Woken(pc) EXCEPT ![Main] = "idle"]
    BY <1>8, ThreadBounds DEF SetPause, Woken
  <2> QED
    BY <1>5, <1>8, <2>1 DEF SetPause, AtRest
<1>9. CASE Free
  BY <1>5, <1>9 DEF Free, AtRest
<1>10. ASSUME NEW n \in 1..MaxThreads, StartGraph(n) PROVE Graph!Compute(n)
  <2>1. pc[Main] = "idle" /\ pc'[Main] = "signal" /\ \A t \in Threads \ {Main} : pc'[t] = pc[t]
    BY <1>1, <1>10 DEF StartGraph
  <2>2. Running = 0 /\ Running' = n
    BY <1>10, <2>1 DEF StartGraph, Running
  <2>3. Doing' = Doing
    BY <1>10, <2>1, DoingStays, DoingSame DEF StartGraph, AtPiece
  <2> QED
    BY <1>10, <2>2, <2>3 DEF StartGraph, Graph!Compute
<1> QED
  BY <1>2, <1>6, <1>7, <1>8, <1>9, <1>10 DEF CallerStep, Request, Graph!Next

LEMMA PoolStartsIdle == PoolInit => Graph!Init /\ NobodyIn
<1> SUFFICES ASSUME PoolInit PROVE Graph!Init /\ NobodyIn
  OBVIOUS
<1>1. \A t \in Threads : pc[t] \notin AtPiece
  BY DEF PoolInit, AtPiece
<1>2. Doing = [t \in Threads |-> <<0, 0>>]
  BY <1>1 DEF Doing, AtPiece
<1>3. Running = 0
  BY ThreadBounds DEF PoolInit, Running
<1> QED
  BY <1>2, <1>3 DEF Graph!Init, Graph!NoPiece, Graph!Threads, Threads, PoolInit, BarrierInit, NobodyIn

\* For every graph, number of threads and sequence of calls: each piece of each node is computed exactly once, after all that
\* the node's inputs need, whichever threads take it, and a call comes back when all of them are done, or all those of the
\* nodes before an abort. Code: ggml_graph_compute, ggml_graph_compute_thread, ggml_compute_forward_mul_mat.
THEOREM PoolComputesGraph == PoolSpec => ComputesGraph
<1>1. NobodyIn /\ PoolInv /\ [PoolNext]_vars => NobodyIn'
  BY UsesBarrier, NobodyInKeeps DEF PoolInv
<1>2. NobodyIn /\ PoolInv /\ PieceIsFree' /\ RestIsWhole /\ RestIsWhole' /\ [PoolNext]_vars => [Graph!Next]_(Graph!vars)
  <2> SUFFICES ASSUME NobodyIn, PoolInv, PieceIsFree', RestIsWhole, RestIsWhole', [PoolNext]_vars
               PROVE  [Graph!Next]_(Graph!vars)
    OBVIOUS
  <2>1. CASE UNCHANGED vars
    BY <2>1, Stutters DEF vars, barrierVars, poolVars
  <2>2. CASE PoolNext
    BY <2>2, ComputeImplements, OthersImplement DEF PoolNext
  <2> QED
    BY <2>1, <2>2
<1> QED
  BY <1>1, <1>2, PoolStartsIdle, PoolInvariant, PiecesAreFree, RestsAreWhole, PTL DEF PoolSpec, ComputesGraph, Graph!Spec
=============================================================================
