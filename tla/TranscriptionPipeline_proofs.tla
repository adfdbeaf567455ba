-------------------- MODULE TranscriptionPipeline_proofs --------------------
(* Proofs about the pipeline for every number of recordings and for any client, the app included: its flag follows the    *)
(* recordings, no recording hears what was said before it, nothing said stays in memory, and without device changes the    *)
(* two flags agree. They rest on the order in which the actor takes its jobs. What the app shows rests on the order in     *)
(* which the main thread takes its own.                                                                                    *)
EXTENDS AppDelegate, SequenceTheorems, TLAPS

\* What waits for the main thread, and what a client's callbacks may add to it.
MainThreadJobs == MainJobs \cup AppJobs
Tasks == Seq(AppJobs)
AppNames == {"ShowRecording", "ShowHandsFree", "ShowError", "ShowIdle"}

Start(u) == Job("startRecording", u)
Stop(u) == Job("stopAndTranscribe", u)

\* The jobs that start and stop recordings, in the order in which sessions cause them.
Edge(j) == j.job \in {"startRecording", "stopAndTranscribe"}
Key(j) == IF j.job = "startRecording" THEN 2 * j.of ELSE 2 * j.of + 1

Has(q, j) == \E i \in 1..Len(q) : q[i] = j

Sorted(q) == \A i, j \in 1..Len(q) : i < j /\ Edge(q[i]) /\ Edge(q[j]) => Key(q[i]) < Key(q[j])

LEMMA JobFacts ==
  /\ \A name, u : Job(name, u).job = name /\ Job(name, u).of = u
  /\ \A u : Edge(Start(u)) /\ Key(Start(u)) = 2 * u
  /\ \A u : Edge(Stop(u)) /\ Key(Stop(u)) = 2 * u + 1
  /\ \A u, v : Start(u) # Stop(v)
  /\ \A name, other, u, v : Job(name, u) = Job(other, v) => name = other /\ u = v
  BY DEF Job, Edge, Key, Start, Stop

LEMMA JobTypes ==
  /\ \A u \in Recordings : Start(u) \in ActorJobs /\ Stop(u) \in ActorJobs
  /\ \A u \in Recordings : Job("startReturns", u) \in ActorJobs /\ Job("stopCapture", u) \in ActorJobs
  /\ \A j \in ActorJobs : j.of \in Recordings /\ (Edge(j) => j = Start(j.of) \/ j = Stop(j.of))
  BY DEF Job, Jobs, ActorJobs, Edge, Start, Stop

LEMMA Appended ==
  ASSUME NEW S, NEW q \in Seq(S), NEW x \in S
  PROVE /\ Append(q, x) \in Seq(S)
        /\ \A y : Has(Append(q, x), y) <=> Has(q, y) \/ y = x
        /\ Sorted(q) /\ (Edge(x) => \A y \in S : Has(q, y) /\ Edge(y) => Key(y) < Key(x)) => Sorted(Append(q, x))
<1> DEFINE r == Append(q, x)
<1>1. r \in Seq(S) /\ Len(r) = Len(q) + 1 /\ Len(q) \in Nat /\ r[Len(q) + 1] = x /\ \A i \in 1..Len(q) : r[i] = q[i]
  BY AppendProperties
<1> HIDE DEF r
<1>2. ASSUME NEW y PROVE Has(r, y) <=> Has(q, y) \/ y = x
  BY <1>1 DEF Has
<1>3. ASSUME Sorted(q), Edge(x) => \A y \in S : Has(q, y) /\ Edge(y) => Key(y) < Key(x) PROVE Sorted(r)
  <2> SUFFICES ASSUME NEW i \in 1..Len(r), NEW j \in 1..Len(r), i < j, Edge(r[i]), Edge(r[j])
               PROVE Key(r[i]) < Key(r[j])
    BY DEF Sorted
  <2>1. i \in 1..Len(q) /\ r[i] = q[i] /\ Has(q, r[i]) /\ r[i] \in S
    BY <1>1 DEF Has
  <2>2. CASE j = Len(q) + 1
    BY <1>1, <1>3, <2>1, <2>2
  <2>3. CASE j \in 1..Len(q)
    BY <1>1, <1>3, <2>1, <2>3 DEF Sorted
  <2>4. QED
    BY <1>1, <2>2, <2>3
<1>4. QED
  BY <1>1, <1>2, <1>3 DEF r

LEMMA Taken ==
  ASSUME NEW S, NEW q \in Seq(S), q # << >>
  PROVE /\ Tail(q) \in Seq(S) /\ Head(q) \in S
        /\ \A y : Has(q, y) <=> y = Head(q) \/ Has(Tail(q), y)
        /\ Sorted(q) => Sorted(Tail(q))
        /\ Sorted(q) => \A y : Has(Tail(q), y) /\ Edge(y) /\ Edge(Head(q)) => Key(Head(q)) < Key(y)
<1> DEFINE r == Tail(q)
<1>1. /\ r \in Seq(S) /\ Head(q) \in S /\ Head(q) = q[1] /\ Len(q) \in Nat \ {0} /\ Len(r) = Len(q) - 1
      /\ \A i \in 1..Len(r) : i + 1 \in 1..Len(q) /\ r[i] = q[i + 1]
  BY HeadTailProperties, EmptySeq
<1> HIDE DEF r
<1>2. ASSUME NEW y PROVE Has(q, y) <=> y = Head(q) \/ Has(r, y)
  <2>1. ASSUME NEW i \in 1..Len(q), q[i] = y PROVE y = Head(q) \/ Has(r, y)
    <3>1. CASE i = 1
      BY <1>1, <2>1, <3>1
    <3>2. CASE i # 1
      <4>1. i - 1 \in 1..Len(r) /\ (i - 1) + 1 = i
        BY <1>1, <3>2
      <4>2. r[i - 1] = y
        BY <1>1, <2>1, <4>1
      <4>3. QED
        BY <4>1, <4>2 DEF Has
    <3>3. QED
      BY <3>1, <3>2
  <2>2. y = Head(q) => Has(q, y)
    BY <1>1 DEF Has
  <2>3. Has(r, y) => Has(q, y)
    BY <1>1 DEF Has
  <2>4. QED
    BY <2>1, <2>2, <2>3 DEF Has
<1>3. Sorted(q) => Sorted(r)
  BY <1>1 DEF Sorted
<1>4. ASSUME Sorted(q), NEW y, Has(r, y), Edge(y), Edge(Head(q)) PROVE Key(Head(q)) < Key(y)
  <2>1. PICK i \in 1..Len(r) : r[i] = y
    BY <1>4 DEF Has
  <2>2. i + 1 \in 1..Len(q) /\ q[i + 1] = y /\ 1 \in 1..Len(q) /\ 1 < i + 1
    BY <1>1, <2>1
  <2>3. QED
    BY <1>1, <1>4, <2>2 DEF Sorted
<1>5. QED
  BY <1>1, <1>2, <1>3, <1>4 DEF r
\* A job that a client's callbacks do not put there.
LEMMA TasksApart == \A j \in MainJobs, t \in Tasks : ~Has(t, j)
<1> SUFFICES ASSUME NEW j \in MainJobs, NEW t \in Tasks, NEW i \in 1..Len(t), t[i] = j PROVE FALSE
  BY DEF Has
<1>1. t[i] \in AppJobs
  BY DEF Tasks
<1>2. QED
  BY <1>1 DEF MainJobs, AppJobs, Jobs

LEMMA Concatenated ==
  ASSUME NEW S, NEW q \in Seq(S), NEW t \in Seq(S)
  PROVE /\ q \o t \in Seq(S)
        /\ \A y : Has(q \o t, y) <=> Has(q, y) \/ Has(t, y)
<1> DEFINE r == q \o t
<1>1. /\ r \in Seq(S) /\ Len(r) = Len(q) + Len(t) /\ Len(q) \in Nat /\ Len(t) \in Nat
      /\ \A i \in 1..Len(r) : r[i] = IF i <= Len(q) THEN q[i] ELSE t[i - Len(q)]
  BY ConcatProperties
<1> HIDE DEF r
<1>2. ASSUME NEW y, Has(r, y) PROVE Has(q, y) \/ Has(t, y)
  <2>1. PICK i \in 1..Len(r) : r[i] = y
    BY <1>2 DEF Has
  <2>2. CASE i <= Len(q)
    BY <1>1, <2>1, <2>2 DEF Has
  <2>3. CASE ~(i <= Len(q))
    <3>1. i - Len(q) \in 1..Len(t) /\ t[i - Len(q)] = y
      BY <1>1, <2>1, <2>3
    <3>2. QED
      BY <3>1 DEF Has
  <2>4. QED
    BY <2>2, <2>3
<1>3. ASSUME NEW y, Has(q, y) PROVE Has(r, y)
  BY <1>1, <1>3 DEF Has
<1>4. ASSUME NEW y, Has(t, y) PROVE Has(r, y)
  <2>1. PICK i \in 1..Len(t) : t[i] = y
    BY <1>4 DEF Has
  <2>2. i + Len(q) \in 1..Len(r) /\ ~(i + Len(q) <= Len(q)) /\ i + Len(q) - Len(q) = i
    BY <1>1
  <2>3. r[i + Len(q)] = y
    BY <1>1, <2>1, <2>2
  <2>4. QED
    BY <2>2, <2>3 DEF Has
<1>5. QED
  BY <1>1, <1>2, <1>3, <1>4 DEF r
------------------------------------------------------------------------------
Types ==
  /\ session \in {"off", "ptt", "handsFree"}
  /\ current \in 0..MaxRecordings
  /\ session # "off" => current \in Recordings
  /\ isRecording \in BOOLEAN
  /\ mailbox \in Seq(ActorJobs)
  /\ mainQueue \in Seq(MainThreadJobs)
  /\ phase \in [Recordings -> Phases]

\* The starts and stops that wait for the actor are in order, and none is ahead of the sessions.
Latest == IF session = "off" THEN 2 * current + 1 ELSE 2 * current
OrderInv == Sorted(mailbox) /\ \A j \in ActorJobs : Has(mailbox, j) /\ Edge(j) => Key(j) <= Latest

\* What is started or recorded is the session's, or its stop waits for the actor.
Owed(u) == (u = current /\ session # "off") \/ Has(mailbox, Stop(u))

\* A recording is starting for as long as its start waits or opens the microphone, and every job that waits then is younger.
PhaseInv(u) ==
  /\ u > current => phase[u] = "none"
  /\ phase[u] = "starting" <=> Has(mailbox, Start(u)) \/ actor = Job("opening", u)
  /\ phase[u] \in {"starting", "recording"} => Owed(u)
  /\ phase[u] = "recording" \/ actor = Job("opening", u) =>
       \A j \in ActorJobs : Has(mailbox, j) /\ Edge(j) => 2 * u < Key(j)

\* The steps that end a recording come after its stop.
Early == {"none", "starting", "recording"}
LateInv(u) ==
  \/ Has(mailbox, Job("stopCapture", u)) \/ actor = Job("draining", u)
  \/ Has(mainQueue, Job("axSnapshot", u)) \/ Has(mainQueue, Job("onReady", u))
  => phase[u] \notin Early

RecordingInv ==
  /\ isRecording <=> \E u \in Recordings : phase[u] = "recording"
  /\ \A u, v \in Recordings : phase[u] = "recording" /\ phase[v] = "recording" => u = v
  /\ \A u \in Recordings : actor = Job("opening", u) => ~isRecording

FlagInv ==
  /\ Types
  /\ OrderInv
  /\ \A u \in Recordings : PhaseInv(u) /\ LateInv(u)
  /\ RecordingInv

LEMMA InitInv == PipelineInit => FlagInv
<1> SUFFICES ASSUME PipelineInit PROVE FlagInv
  OBVIOUS
<1>1. mailbox = << >> /\ mainQueue = << >> /\ Len(mailbox) = 0 /\ Len(mainQueue) = 0
  BY DEF PipelineInit
<1>2. \A j : ~Has(mailbox, j) /\ ~Has(mainQueue, j)
  BY <1>1 DEF Has
<1>3. Types
  <2>1. mailbox \in Seq(ActorJobs) /\ mainQueue \in Seq(MainThreadJobs)
    BY <1>1, EmptySeq
  <2>2. phase \in [Recordings -> Phases]
    BY DEF PipelineInit, Phases
  <2>3. current \in 0..MaxRecordings
    BY AudioAssumption DEF PipelineInit
  <2>4. QED
    BY <2>1, <2>2, <2>3 DEF PipelineInit, Types
<1>4. OrderInv
  BY <1>1, <1>2 DEF OrderInv, Sorted
<1>5. \A name, u : name # "free" => actor # Job(name, u)
  BY JobFacts DEF PipelineInit, Free, Job
<1>6. ASSUME NEW u \in Recordings PROVE PhaseInv(u) /\ LateInv(u)
  BY <1>2, <1>5 DEF PipelineInit, PhaseInv, LateInv, Owed
<1>7. RecordingInv
  BY DEF PipelineInit, RecordingInv
<1>8. QED
  BY <1>3, <1>4, <1>6, <1>7 DEF FlagInv
------------------------------------------------------------------------------
(* Steps that neither start nor stop a recording.                                                                          *)

LEMMA MainTypes ==
  \A name \in {"onMicOpen", "onError", "startFailed", "axSnapshot", "onReady"}, u \in Recordings : Job(name, u) \in MainJobs
  BY DEF Job, Jobs, MainJobs

LEMMA Quiet ==
  ASSUME FlagInv, Types', Sorted(mailbox'),
         \A j \in ActorJobs : Edge(j) => (Has(mailbox', j) <=> Has(mailbox, j)),
         UNCHANGED <<session, current, isRecording>>,
         \A u \in Recordings : actor' = Job("opening", u) <=> actor = Job("opening", u),
         \A u \in Recordings : phase'[u] = phase[u] \/ (phase[u] \notin Early /\ phase'[u] \notin Early),
         \A u \in Recordings : LateInv(u)'
  PROVE FlagInv'
<1>1. OrderInv'
  BY DEF FlagInv, OrderInv, Latest
<1>2. ASSUME NEW u \in Recordings PROVE PhaseInv(u)'
  <2>1. Has(mailbox', Start(u)) <=> Has(mailbox, Start(u))
    BY JobTypes, JobFacts
  <2>2. Has(mailbox', Stop(u)) <=> Has(mailbox, Stop(u))
    BY JobTypes, JobFacts
  <2>3. PhaseInv(u) /\ Owed(u)' = Owed(u)
    BY <2>2 DEF FlagInv, Owed
  <2>4. phase'[u] = phase[u] \/ (phase[u] \notin Early /\ phase'[u] \notin Early)
    OBVIOUS
  <2>5. actor' = Job("opening", u) <=> actor = Job("opening", u)
    OBVIOUS
  <2> HIDE DEF Owed
  <2>6. QED
    BY <2>1, <2>3, <2>4, <2>5 DEF PhaseInv, Early
<1>3. RecordingInv'
  <2>1. \A u \in Recordings : phase'[u] = "recording" <=> phase[u] = "recording"
    BY DEF Early
  <2>2. QED
    BY <2>1 DEF FlagInv, RecordingInv
<1>4. QED
  BY <1>1, <1>2, <1>3 DEF FlagInv

LEMMA LateKept ==
  ASSUME NEW u \in Recordings, LateInv(u), phase[u] \notin Early => phase'[u] \notin Early,
         Has(mailbox', Job("stopCapture", u)) \/ actor' = Job("draining", u)
           => Has(mailbox, Job("stopCapture", u)) \/ actor = Job("draining", u) \/ Has(mainQueue, Job("axSnapshot", u)),
         \A name \in {"axSnapshot", "onReady"} : Has(mainQueue', Job(name, u)) => Has(mainQueue, Job(name, u))
  PROVE LateInv(u)'
  BY DEF LateInv

\* What the actor takes when it is free.
LEMMA ActorTakes ==
  ASSUME FlagInv, NEW name, NEW u \in Recordings, ActorRuns(name, u)
  PROVE /\ mailbox' \in Seq(ActorJobs) /\ Sorted(mailbox')
        /\ \A j : Has(mailbox, j) <=> j = Job(name, u) \/ Has(mailbox', j)
        /\ Has(mailbox, Job(name, u)) /\ Job(name, u) \in ActorJobs
        /\ Edge(Job(name, u)) => \A j : Has(mailbox', j) /\ Edge(j) => Key(Job(name, u)) < Key(j)
<1>1. mailbox \in Seq(ActorJobs) /\ mailbox # << >> /\ Sorted(mailbox)
  BY DEF FlagInv, Types, OrderInv, ActorRuns
<1>2. Head(mailbox) = Job(name, u) /\ mailbox' = Tail(mailbox)
  BY DEF ActorRuns
<1>3. QED
  BY <1>1, <1>2, Taken

\* A job that is no start and no stop.
LEMMA ActorTakesOther ==
  ASSUME FlagInv, NEW name, NEW u \in Recordings, ActorRuns(name, u), name \notin {"startRecording", "stopAndTranscribe"}
  PROVE \A j \in ActorJobs : Edge(j) => (Has(mailbox', j) <=> Has(mailbox, j))
  BY ActorTakes, JobFacts DEF Edge

\* What the main thread takes, and what the job's tasks leave behind it.
LEMMA MainTakes ==
  ASSUME FlagInv, NEW name, NEW u \in Recordings, NEW tasks \in Tasks, MainRuns(name, u, tasks)
  PROVE /\ mainQueue' \in Seq(MainThreadJobs)
        /\ Has(mainQueue, Job(name, u))
        /\ \A j \in MainJobs : Has(mainQueue, j) <=> j = Job(name, u) \/ Has(mainQueue', j)
<1>1. mainQueue \in Seq(MainThreadJobs) /\ mainQueue # << >>
  BY DEF FlagInv, Types, MainRuns
<1>2. Tail(mainQueue) \in Seq(MainThreadJobs) /\ tasks \in Seq(MainThreadJobs)
  <2>1. AppJobs \subseteq MainThreadJobs
    BY DEF MainThreadJobs
  <2>2. tasks \in Seq(MainThreadJobs)
    BY <2>1 DEF Tasks
  <2>3. QED
    BY <1>1, <2>2, Taken
<1>3. mainQueue' = Tail(mainQueue) \o tasks /\ Head(mainQueue) = Job(name, u)
  BY DEF MainRuns
<1>4. mainQueue' \in Seq(MainThreadJobs) /\ \A j : Has(mainQueue', j) <=> Has(Tail(mainQueue), j) \/ Has(tasks, j)
  BY <1>2, <1>3, Concatenated
<1>5. \A j : Has(mainQueue, j) <=> j = Job(name, u) \/ Has(Tail(mainQueue), j)
  BY <1>1, <1>3, Taken
<1>6. QED
  BY <1>4, <1>5, TasksApart

LEMMA MainCalled ==
  ASSUME FlagInv, NEW name \in {"onMicOpen", "onError", "startFailed", "axSnapshot", "onReady"}, NEW u \in Recordings,
         CallMain(name, u)
  PROVE mainQueue' \in Seq(MainThreadJobs) /\ \A j : Has(mainQueue', j) <=> Has(mainQueue, j) \/ j = Job(name, u)
<1>1. mainQueue \in Seq(MainThreadJobs) /\ Job(name, u) \in MainThreadJobs
  BY MainTypes DEF FlagInv, Types, MainThreadJobs
<1>2. QED
  BY <1>1, Appended DEF CallMain

LEMMA PhaseMoved ==
  ASSUME FlagInv, NEW u \in Recordings, NEW p \in Phases, MoveTo(u, p)
  PROVE phase' \in [Recordings -> Phases] /\ phase'[u] = p /\ \A v \in Recordings \ {u} : phase'[v] = phase[v]
  BY DEF MoveTo, FlagInv, Types

\* The client's tasks wait behind everything else.
LEMMA StartReturnsMain ==
  ASSUME FlagInv, NEW u \in Recordings, NEW tasks \in Tasks, StartReturns(u, tasks)
  PROVE mainQueue' \in Seq(MainThreadJobs) /\ \A j \in MainJobs : Has(mainQueue', j) <=> Has(mainQueue, j)
<1>1. mainQueue \in Seq(MainThreadJobs) /\ tasks \in Seq(MainThreadJobs)
  <2>1. AppJobs \subseteq MainThreadJobs
    BY DEF MainThreadJobs
  <2>2. QED
    BY <2>1 DEF FlagInv, Types, Tasks
<1>2. mainQueue' = mainQueue \o tasks
  BY DEF StartReturns
<1>3. QED
  BY <1>1, <1>2, Concatenated, TasksApart

LEMMA StartReturnsInv ==
  ASSUME FlagInv, NEW u \in Recordings, NEW tasks \in Tasks, StartReturns(u, tasks)
  PROVE FlagInv'
<1>1. ActorRuns("startReturns", u) /\ UNCHANGED <<session, current, isRecording, actor, phase>>
  BY DEF StartReturns, gesture
<1>2. mainQueue' \in Seq(MainThreadJobs) /\ \A j \in MainJobs : Has(mainQueue', j) <=> Has(mainQueue, j)
  BY StartReturnsMain
<1>3. \A j \in ActorJobs : Edge(j) => (Has(mailbox', j) <=> Has(mailbox, j))
  BY <1>1, ActorTakesOther
<1>4. Types' /\ Sorted(mailbox')
  BY <1>1, <1>2, ActorTakes DEF FlagInv, Types
<1>5. ASSUME NEW v \in Recordings PROVE LateInv(v)'
  BY <1>1, <1>2, ActorTakes, MainTypes, LateKept DEF FlagInv
<1>6. QED
  BY <1>1, <1>3, <1>4, <1>5, Quiet

LEMMA StopCaptureInv ==
  ASSUME FlagInv, NEW u \in Recordings, StopCapture(u)
  PROVE FlagInv'
<1>1. ActorRuns("stopCapture", u) /\ UNCHANGED <<session, current, isRecording, mainQueue>> /\ actor = Free
  BY DEF StopCapture, gesture, ActorRuns
<1>2. \A j \in ActorJobs : Edge(j) => (Has(mailbox', j) <=> Has(mailbox, j))
  BY <1>1, ActorTakesOther
<1>3. phase[u] \notin Early
  BY <1>1, ActorTakes DEF FlagInv, LateInv
<1>4. PICK p \in {"draining", "unheard"} : MoveTo(u, p)
  BY DEF StopCapture
<1>5. p \in Phases /\ p \notin Early
  BY <1>4 DEF Phases, Ends, Early
<1>6. phase' \in [Recordings -> Phases] /\ phase'[u] = p /\ \A v \in Recordings \ {u} : phase'[v] = phase[v]
  BY <1>4, <1>5, PhaseMoved
<1>7. Types' /\ Sorted(mailbox')
  BY <1>1, <1>6, ActorTakes DEF FlagInv, Types
<1>8. actor' = Job("draining", u) \/ actor' = Free
  BY <1>1 DEF StopCapture
<1>9. \A v : Free # Job("opening", v) /\ Free # Job("draining", v)
  BY JobFacts DEF Free, Job
<1>10. ASSUME NEW v \in Recordings PROVE LateInv(v)'
  <2>1. CASE v = u
    BY <1>5, <1>6, <2>1 DEF LateInv
  <2>2. CASE v # u
    BY <1>1, <1>6, <1>8, <1>9, <2>2, ActorTakes, JobFacts, LateKept DEF FlagInv
  <2>3. QED
    BY <2>1, <2>2
<1>11. \A v \in Recordings : actor' = Job("opening", v) <=> actor = Job("opening", v)
  BY <1>1, <1>8, <1>9, JobFacts
<1>12. \A v \in Recordings : phase'[v] = phase[v] \/ (phase[v] \notin Early /\ phase'[v] \notin Early)
  BY <1>3, <1>5, <1>6
<1>13. QED
  BY <1>1, <1>2, <1>7, <1>10, <1>11, <1>12, Quiet

LEMMA CaptureStoppedInv ==
  ASSUME FlagInv, NEW u \in Recordings, CaptureStopped(u)
  PROVE FlagInv'
<1>1. UNCHANGED <<session, current, isRecording, mailbox, mainQueue>> /\ actor = Job("draining", u) /\ actor' = Free
  BY DEF CaptureStopped, gesture
<1>2. phase[u] \notin Early
  BY <1>1 DEF FlagInv, LateInv
<1>3. PICK p \in {"unheard", "silence", "whisper"} : MoveTo(u, p)
  BY DEF CaptureStopped
<1>4. p \in Phases /\ p \notin Early
  BY <1>3 DEF Phases, Ends, Stages, Early
<1>5. phase' \in [Recordings -> Phases] /\ phase'[u] = p /\ \A v \in Recordings \ {u} : phase'[v] = phase[v]
  BY <1>3, <1>4, PhaseMoved
<1>6. Types' /\ Sorted(mailbox')
  BY <1>1, <1>5 DEF FlagInv, Types, OrderInv
<1>7. \A v : Free # Job("opening", v) /\ Free # Job("draining", v)
  BY JobFacts DEF Free, Job
<1>8. \A v \in Recordings : phase'[v] = phase[v] \/ (phase[v] \notin Early /\ phase'[v] \notin Early)
  BY <1>2, <1>4, <1>5
<1>9. ASSUME NEW v \in Recordings PROVE LateInv(v)'
  BY <1>1, <1>7, <1>8, LateKept DEF FlagInv
<1>10. \A v \in Recordings : actor' = Job("opening", v) <=> actor = Job("opening", v)
  BY <1>1, <1>7, JobFacts
<1>11. QED
  BY <1>1, <1>6, <1>8, <1>9, <1>10, Quiet

LEMMA StageInv ==
  ASSUME FlagInv, NEW u \in Recordings, StageReturns(u)
  PROVE FlagInv'
<1>1. UNCHANGED <<session, current, isRecording, mailbox, actor>> /\ phase[u] \in Stages
  BY DEF StageReturns, Transcribed, CleanedUp, Dispatched, Persisted, Leaves, gesture, Stages
<1>2. PICK p \in {"failed", "noise", "cleanup", "output", "persist", "ready"} : MoveTo(u, p)
  BY DEF StageReturns, Transcribed, CleanedUp, Dispatched, Persisted
<1>3. p \in Phases /\ p \notin Early /\ phase[u] \notin Early
  BY <1>1, <1>2 DEF Phases, Ends, Stages, Early
<1>4. phase' \in [Recordings -> Phases] /\ phase'[u] = p /\ \A v \in Recordings \ {u} : phase'[v] = phase[v]
  BY <1>2, <1>3, PhaseMoved
<1>5. mainQueue' = mainQueue \/ CallMain("onError", u) \/ CallMain("onReady", u)
  BY DEF StageReturns, Transcribed, CleanedUp, Dispatched, Persisted
<1>6. mainQueue' \in Seq(MainThreadJobs) /\ \A j : Has(mainQueue', j) => Has(mainQueue, j) \/ j.of = u
  BY <1>5, MainCalled, JobFacts DEF FlagInv, Types
<1>7. Types' /\ Sorted(mailbox')
  BY <1>1, <1>4, <1>6 DEF FlagInv, Types, OrderInv
<1>8. \A v \in Recordings : phase'[v] = phase[v] \/ (phase[v] \notin Early /\ phase'[v] \notin Early)
  BY <1>3, <1>4
<1>9. ASSUME NEW v \in Recordings PROVE LateInv(v)'
  <2>1. CASE v = u
    BY <1>3, <1>4, <2>1 DEF LateInv
  <2>2. CASE v # u
    BY <1>1, <1>6, <1>8, <2>2, JobFacts, LateKept DEF FlagInv
  <2>3. QED
    BY <2>1, <2>2
<1>10. QED
  BY <1>1, <1>7, <1>8, <1>9, Quiet

\* A hop to the main thread that resumes its caller.
LEMMA ResumesInv ==
  ASSUME FlagInv, NEW name \in {"onMicOpen", "startFailed", "axSnapshot"}, NEW u \in Recordings,
         NEW continuation \in {"startReturns", "stopCapture"}, NEW tasks \in Tasks, MainResumes(name, u, tasks, continuation),
         continuation = "stopCapture" => name = "axSnapshot"
  PROVE FlagInv'
<1>1. /\ UNCHANGED <<session, current, isRecording, actor, phase>>
      /\ MainRuns(name, u, tasks) /\ mailbox' = Append(mailbox, Job(continuation, u))
  BY DEF MainResumes, MainRuns, CallActor, gesture
<1>2. mainQueue' \in Seq(MainThreadJobs) /\ \A j \in MainJobs : Has(mainQueue, j) <=> j = Job(name, u) \/ Has(mainQueue', j)
  BY <1>1, MainTakes
<1>3. mailbox \in Seq(ActorJobs) /\ Sorted(mailbox) /\ Job(continuation, u) \in ActorJobs /\ ~Edge(Job(continuation, u))
  BY JobTypes, JobFacts DEF FlagInv, Types, OrderInv, Edge
<1>4. /\ mailbox' \in Seq(ActorJobs) /\ Sorted(mailbox')
      /\ \A j : Has(mailbox', j) <=> Has(mailbox, j) \/ j = Job(continuation, u)
  BY <1>1, <1>3, Appended
<1>5. Types'
  BY <1>1, <1>2, <1>4 DEF FlagInv, Types
<1>6. ASSUME NEW v \in Recordings PROVE LateInv(v)'
  <2>1. Has(mailbox', Job("stopCapture", v)) => Has(mailbox, Job("stopCapture", v)) \/ Has(mainQueue, Job("axSnapshot", v))
    BY <1>1, <1>2, <1>4, MainTakes, JobFacts
  <2>2. QED
    BY <1>1, <1>2, <2>1, MainTypes, LateKept DEF FlagInv
<1>7. QED
  BY <1>1, <1>3, <1>4, <1>5, <1>6, Quiet

\* A job that resumes nobody: onError, or one of the client's.
LEMMA JobDoneInv ==
  ASSUME FlagInv, NEW name, NEW u \in Recordings, NEW tasks \in Tasks, MainRuns(name, u, tasks), UNCHANGED <<mailbox, phase>>
  PROVE FlagInv'
<1>1. UNCHANGED <<session, current, isRecording, mailbox, actor, phase>>
  BY DEF MainRuns, gesture
<1>2. mainQueue' \in Seq(MainThreadJobs) /\ \A j \in MainJobs : Has(mainQueue', j) => Has(mainQueue, j)
  BY <1>1, MainTakes
<1>3. Types' /\ Sorted(mailbox')
  BY <1>1, <1>2 DEF FlagInv, Types, OrderInv
<1>4. \A v \in Recordings : LateInv(v)'
  BY <1>1, <1>2, MainTypes, LateKept DEF FlagInv
<1>5. QED
  BY <1>1, <1>3, <1>4, Quiet

LEMMA OnReadyInv ==
  ASSUME FlagInv, NEW u \in Recordings, NEW tasks \in Tasks, OnReady(u, tasks)
  PROVE FlagInv'
<1>1. /\ UNCHANGED <<session, current, isRecording, mailbox, actor>>
      /\ MainRuns("onReady", u, tasks) /\ MoveTo(u, "delivered")
  BY DEF OnReady, MainRuns, gesture
<1>2. mainQueue' \in Seq(MainThreadJobs) /\ \A j \in MainJobs : Has(mainQueue, j) <=> j = Job("onReady", u) \/ Has(mainQueue', j)
  BY <1>1, MainTakes
<1>3. phase[u] \notin Early /\ "delivered" \notin Early /\ "delivered" \in Phases
  BY <1>2, MainTypes DEF FlagInv, LateInv, Early, Phases, Ends
<1>4. phase' \in [Recordings -> Phases] /\ phase'[u] = "delivered" /\ \A v \in Recordings \ {u} : phase'[v] = phase[v]
  BY <1>1, <1>3, PhaseMoved
<1>5. Types' /\ Sorted(mailbox')
  BY <1>1, <1>2, <1>4 DEF FlagInv, Types, OrderInv
<1>6. \A v \in Recordings : phase'[v] = phase[v] \/ (phase[v] \notin Early /\ phase'[v] \notin Early)
  BY <1>3, <1>4
<1>7. \A v \in Recordings : LateInv(v)'
  BY <1>1, <1>2, <1>6, MainTypes, LateKept DEF FlagInv
<1>8. QED
  BY <1>1, <1>5, <1>6, <1>7, Quiet

LEMMA UnchangedInv ==
  ASSUME FlagInv, UNCHANGED <<session, current, isRecording, mailbox, mainQueue, actor, phase>>
  PROVE FlagInv'
<1>1. Types' /\ Sorted(mailbox')
  BY DEF FlagInv, Types, OrderInv
<1>2. \A v \in Recordings : LateInv(v)'
  BY LateKept DEF FlagInv
<1>3. QED
  BY <1>1, <1>2, Quiet
------------------------------------------------------------------------------
(* Steps that do.                                                                                                          *)

\* A session opens: its start is younger than everything that waits.
LEMMA OpensInv ==
  ASSUME FlagInv, NEW u \in Recordings, SessionOpens(u)
  PROVE FlagInv'
<1>1. /\ u = current + 1 /\ current' = u /\ session = "off" /\ session' \in {"ptt", "handsFree"}
      /\ mailbox' = Append(mailbox, Start(u)) /\ MoveTo(u, "starting")
      /\ UNCHANGED <<isRecording, mainQueue, actor>>
  BY DEF SessionOpens, Gestures!OpenPtt, Gestures!OpenHandsFree, CallActor, Start
<1>2. /\ current \in Nat /\ u \in 0..MaxRecordings /\ mailbox \in Seq(ActorJobs) /\ Start(u) \in ActorJobs
      /\ Sorted(mailbox) /\ \A j \in ActorJobs : Has(mailbox, j) /\ Edge(j) => Key(j) <= 2 * current + 1
  BY <1>1, JobTypes, AudioAssumption DEF FlagInv, Types, OrderInv, Latest, Recordings
<1>3. \A j \in ActorJobs : Key(j) \in Nat /\ j.of \in Nat
  BY JobTypes DEF Key, Recordings
<1>4. Key(Start(u)) = 2 * current + 2 /\ Edge(Start(u))
  BY <1>1, <1>2, JobFacts
<1>5. /\ mailbox' \in Seq(ActorJobs) /\ Sorted(mailbox')
      /\ \A j : Has(mailbox', j) <=> Has(mailbox, j) \/ j = Start(u)
  <2>1. \A j \in ActorJobs : Has(mailbox, j) /\ Edge(j) => Key(j) < Key(Start(u))
    BY <1>2, <1>3, <1>4
  <2>2. QED
    BY <1>1, <1>2, <2>1, Appended
<1>6. phase' \in [Recordings -> Phases] /\ phase'[u] = "starting" /\ \A v \in Recordings \ {u} : phase'[v] = phase[v]
  BY <1>1, PhaseMoved DEF Phases
<1>7. Types'
  BY <1>1, <1>2, <1>5, <1>6 DEF FlagInv, Types
<1>8. OrderInv'
  BY <1>1, <1>2, <1>3, <1>4, <1>5 DEF OrderInv, Latest
<1>9. phase[u] = "none"
  BY <1>1, <1>2 DEF FlagInv, PhaseInv
<1>10. \A v : (Has(mailbox', Stop(v)) <=> Has(mailbox, Stop(v))) /\ (v # u => (Has(mailbox', Start(v)) <=> Has(mailbox, Start(v))))
  BY <1>5, JobFacts DEF Start
<1>11. ASSUME NEW v \in Recordings PROVE PhaseInv(v)' /\ LateInv(v)'
  <2>1. CASE v = u
    <3>1. actor # Job("opening", u)
      BY <1>9 DEF FlagInv, PhaseInv
    <3>2. PhaseInv(u)'
      BY <1>1, <1>2, <1>5, <1>6, <3>1 DEF PhaseInv, Owed
    <3>3. LateInv(u)'
      <4>1. \A j : j.job \notin {"startRecording"} => (Has(mailbox', j) <=> Has(mailbox, j))
        BY <1>5, JobFacts DEF Start
      <4>2. QED
        BY <1>1, <1>6, <1>9, <4>1, JobFacts DEF FlagInv, LateInv, Early
    <3>4. QED
      BY <2>1, <3>2, <3>3
  <2>2. CASE v # u
    <3>1. PhaseInv(v) /\ v \in Nat
      BY DEF FlagInv, Recordings
    <3>2. phase[v] \in {"starting", "recording"} => v <= current
      BY <1>1, <1>2, <3>1 DEF PhaseInv
    <3>3. Owed(v)' <=> Owed(v)
      BY <1>1, <1>10, <2>2 DEF Owed
    <3>4. actor = Job("opening", v) => phase[v] = "starting"
      BY <3>1 DEF PhaseInv
    <3>5. phase[v] = "recording" \/ actor = Job("opening", v) => 2 * v < Key(Start(u))
      BY <1>2, <1>4, <3>1, <3>2, <3>4
    <3>6. PhaseInv(v)'
      <4> HIDE DEF Owed
      <4>1. QED
        BY <1>1, <1>2, <1>5, <1>6, <1>10, <2>2, <3>1, <3>3, <3>5 DEF PhaseInv
    <3>7. LateInv(v)'
      <4>1. Has(mailbox', Job("stopCapture", v)) => Has(mailbox, Job("stopCapture", v))
        BY <1>5, JobFacts DEF Start
      <4>2. QED
        BY <1>1, <1>6, <2>2, <4>1, LateKept DEF FlagInv
    <3>8. QED
      BY <3>6, <3>7
  <2>3. QED
    BY <2>1, <2>2
<1>12. RecordingInv'
  BY <1>1, <1>6, <1>9 DEF FlagInv, RecordingInv
<1>13. QED
  BY <1>7, <1>8, <1>11, <1>12 DEF FlagInv

\* A session closes: its stop is younger than everything that waits, and is owed from now on.
LEMMA ClosesInv ==
  ASSUME FlagInv, SessionCloses
  PROVE FlagInv'
<1> DEFINE u == current
<1>1. /\ session # "off" /\ session' = "off" /\ current' = current
      /\ mailbox' = Append(mailbox, Stop(u))
      /\ UNCHANGED <<isRecording, mainQueue, actor, phase>>
  BY DEF SessionCloses, Gestures!ClosePtt, Gestures!CloseHandsFree, CallActor, Stop
<1>2. /\ u \in Recordings /\ u \in Nat /\ mailbox \in Seq(ActorJobs) /\ Stop(u) \in ActorJobs
      /\ Sorted(mailbox) /\ \A j \in ActorJobs : Has(mailbox, j) /\ Edge(j) => Key(j) <= 2 * u
  BY <1>1, JobTypes DEF FlagInv, Types, OrderInv, Latest, Recordings
<1>3. \A j \in ActorJobs : Key(j) \in Nat
  BY JobTypes DEF Key, Recordings
<1>4. Key(Stop(u)) = 2 * u + 1 /\ Edge(Stop(u))
  BY JobFacts
<1> HIDE DEF u
<1>5. /\ mailbox' \in Seq(ActorJobs) /\ Sorted(mailbox')
      /\ \A j : Has(mailbox', j) <=> Has(mailbox, j) \/ j = Stop(u)
  <2>1. \A j \in ActorJobs : Has(mailbox, j) /\ Edge(j) => Key(j) < Key(Stop(u))
    BY <1>2, <1>3, <1>4
  <2>2. QED
    BY <1>1, <1>2, <2>1, Appended
<1>6. Types'
  BY <1>1, <1>5 DEF FlagInv, Types
<1>7. OrderInv'
  BY <1>1, <1>2, <1>3, <1>4, <1>5 DEF OrderInv, Latest, u
<1>8. \A v : Has(mailbox', Start(v)) <=> Has(mailbox, Start(v))
  BY <1>5, JobFacts
<1>9. ASSUME NEW v \in Recordings PROVE PhaseInv(v)' /\ LateInv(v)'
  <2>1. PhaseInv(v) /\ v \in Nat
    BY DEF FlagInv, Recordings
  <2>2. Owed(v) => Owed(v)'
    BY <1>1, <1>5 DEF Owed, u
  <2>3. phase[v] = "recording" \/ actor = Job("opening", v) => 2 * v < Key(Stop(u))
    <3>1. phase[v] = "recording" \/ actor = Job("opening", v) => v <= u
      BY <1>2, <2>1 DEF PhaseInv, u
    <3>2. QED
      BY <1>2, <1>4, <2>1, <3>1
  <2>4. PhaseInv(v)'
    <3> HIDE DEF Owed
    <3>1. QED
      BY <1>1, <1>5, <1>8, <2>1, <2>2, <2>3 DEF PhaseInv
  <2>5. LateInv(v)'
    <3>1. Has(mailbox', Job("stopCapture", v)) => Has(mailbox, Job("stopCapture", v))
      BY <1>5, JobFacts DEF Stop
    <3>2. QED
      BY <1>1, <3>1, LateKept DEF FlagInv
  <2>6. QED
    BY <2>4, <2>5
<1>10. RecordingInv'
  BY <1>1 DEF FlagInv, RecordingInv
<1>11. QED
  BY <1>6, <1>7, <1>9, <1>10 DEF FlagInv

\* The actor takes a start: everything that still waits is younger.
LEMMA StartInv ==
  ASSUME FlagInv, NEW u \in Recordings, StartRecording(u)
  PROVE FlagInv'
<1>1. ActorRuns("startRecording", u) /\ UNCHANGED <<session, current, isRecording>> /\ actor = Free
  BY DEF StartRecording, gesture, ActorRuns
<1>2. /\ mailbox' \in Seq(ActorJobs) /\ Sorted(mailbox')
      /\ \A j : Has(mailbox, j) <=> j = Start(u) \/ Has(mailbox', j)
      /\ \A j : Has(mailbox', j) /\ Edge(j) => 2 * u < Key(j)
  BY <1>1, ActorTakes, JobFacts DEF Start
<1>3. ~Has(mailbox', Start(u)) /\ Has(mailbox, Start(u)) /\ phase[u] = "starting"
  <2>1. phase[u] = "starting"
    BY <1>2 DEF FlagInv, PhaseInv
  <2>2. ~(2 * u < 2 * u)
    BY DEF Recordings
  <2>3. QED
    BY <1>2, <2>1, <2>2, JobFacts
<1>4. \A v : Free # Job("opening", v) /\ Free # Job("draining", v)
  BY JobFacts DEF Free, Job
<1>5. \A v : Has(mailbox', Stop(v)) <=> Has(mailbox, Stop(v))
  BY <1>2, JobFacts
<1>6. \A v : v # u => (Has(mailbox', Start(v)) <=> Has(mailbox, Start(v)))
  BY <1>2, JobFacts DEF Start
<1>7. OrderInv'
  BY <1>1, <1>2 DEF FlagInv, OrderInv, Latest
\* All that remains is what becomes of u.
<1>8. ASSUME phase' \in [Recordings -> Phases], \A v \in Recordings \ {u} : phase'[v] = phase[v],
             mainQueue' \in Seq(MainThreadJobs),
             \A j : Has(mainQueue', j) /\ j.job \in {"axSnapshot", "onReady"} => Has(mainQueue, j),
             \/ phase'[u] = "starting" /\ actor' = Job("opening", u) /\ ~isRecording
             \/ phase'[u] \in {"startIgnored", "startFailed"} /\ actor' = Free
      PROVE FlagInv'
  <2>1. Types'
    BY <1>1, <1>2, <1>8 DEF FlagInv, Types
  <2>2. ASSUME NEW v \in Recordings PROVE PhaseInv(v)' /\ LateInv(v)'
    <3>1. PhaseInv(v) /\ LateInv(v)
      BY DEF FlagInv
    <3>2. Owed(v)' <=> Owed(v)
      BY <1>1, <1>5 DEF Owed
    <3>3. LateInv(v)'
      <4>1. Has(mailbox', Job("stopCapture", v)) => Has(mailbox, Job("stopCapture", v))
        BY <1>2
      <4>2. \A name \in {"axSnapshot", "onReady"} : Has(mainQueue', Job(name, v)) => Has(mainQueue, Job(name, v))
        BY <1>8, JobFacts
      <4>3. phase[v] \notin Early => phase'[v] \notin Early
        BY <1>3, <1>8 DEF Early
      <4>4. actor' # Job("draining", v)
        BY <1>4, <1>8, JobFacts
      <4>5. QED
        BY <3>1, <4>1, <4>2, <4>3, <4>4, LateKept
    <3>4. CASE v = u
      <4> HIDE DEF Owed
      <4>1. QED
        BY <1>1, <1>2, <1>3, <1>4, <1>8, <3>1, <3>2, <3>3, <3>4 DEF PhaseInv
    <3>5. CASE v # u
      <4>1. actor # Job("opening", v) /\ actor' # Job("opening", v)
        BY <1>1, <1>4, <1>8, <3>5, JobFacts
      <4>2. PhaseInv(v)'
        <5> HIDE DEF Owed
        <5>1. QED
          BY <1>1, <1>2, <1>6, <1>8, <3>1, <3>2, <3>5, <4>1 DEF PhaseInv
      <4>3. QED
        BY <3>3, <4>2
    <3>6. QED
      BY <3>4, <3>5
  <2>3. RecordingInv'
    BY <1>1, <1>3, <1>4, <1>8, JobFacts DEF FlagInv, RecordingInv
  <2>4. QED
    BY <1>7, <2>1, <2>2, <2>3 DEF FlagInv
<1>9. CASE isRecording /\ MoveTo(u, "startIgnored") /\ UNCHANGED <<mainQueue, actor>>
  <2>1. phase' \in [Recordings -> Phases] /\ phase'[u] = "startIgnored" /\ \A v \in Recordings \ {u} : phase'[v] = phase[v]
    BY <1>9, PhaseMoved DEF Phases, Ends
  <2>2. QED
    BY <1>1, <1>8, <1>9, <2>1 DEF FlagInv, Types
<1>10. CASE ~isRecording /\ actor' = Job("opening", u) /\ UNCHANGED <<mainQueue, phase>>
  BY <1>1, <1>3, <1>8, <1>10 DEF FlagInv, Types
<1>11. CASE MoveTo(u, "startFailed") /\ CallMain("startFailed", u) /\ UNCHANGED actor
  <2>1. phase' \in [Recordings -> Phases] /\ phase'[u] = "startFailed" /\ \A v \in Recordings \ {u} : phase'[v] = phase[v]
    BY <1>11, PhaseMoved DEF Phases, Ends
  <2>2. mainQueue' \in Seq(MainThreadJobs) /\ \A j : Has(mainQueue', j) <=> Has(mainQueue, j) \/ j = Job("startFailed", u)
    BY <1>11, MainCalled
  <2>3. QED
    BY <1>1, <1>8, <1>11, <2>1, <2>2, JobFacts
<1>12. QED
  BY <1>9, <1>10, <1>11 DEF StartRecording

\* The microphone is open, or failed to open. Nothing was recorded while the actor waited for it.
LEMMA EngineInv ==
  ASSUME FlagInv, NEW u \in Recordings, EngineReturns(u)
  PROVE FlagInv'
<1>1. actor = Job("opening", u) /\ actor' = Free /\ UNCHANGED <<session, current, mailbox>>
  BY DEF EngineReturns, gesture
<1>2. phase[u] = "starting" /\ ~isRecording /\ ~Has(mailbox, Start(u))
  <2>1. PhaseInv(u) /\ RecordingInv
    BY DEF FlagInv
  <2>2. ~(2 * u < 2 * u)
    BY DEF Recordings
  <2>3. QED
    BY <1>1, <2>1, <2>2, JobTypes, JobFacts DEF PhaseInv, RecordingInv
<1>3. \A v : Free # Job("opening", v) /\ Free # Job("draining", v)
  BY JobFacts DEF Free, Job
<1>4. PICK p \in {"recording", "startFailed"} :
        /\ MoveTo(u, p)
        /\ isRecording' = (p = "recording")
        /\ CallMain("onMicOpen", u) \/ CallMain("startFailed", u)
  BY <1>2 DEF EngineReturns, FlagInv, Types
<1>5. phase' \in [Recordings -> Phases] /\ phase'[u] = p /\ \A v \in Recordings \ {u} : phase'[v] = phase[v]
  BY <1>4, PhaseMoved DEF Phases, Ends
<1>6. mainQueue' \in Seq(MainThreadJobs)
      /\ \A j : Has(mainQueue', j) /\ j.job \in {"axSnapshot", "onReady"} => Has(mainQueue, j)
  BY <1>4, MainCalled, JobFacts
<1>7. Types' /\ OrderInv'
  BY <1>1, <1>4, <1>5, <1>6 DEF FlagInv, Types, OrderInv, Latest
<1>8. ASSUME NEW v \in Recordings PROVE PhaseInv(v)' /\ LateInv(v)'
  <2>1. PhaseInv(v) /\ LateInv(v) /\ Owed(v)' = Owed(v)
    BY <1>1 DEF FlagInv, Owed
  <2>2. LateInv(v)'
    <3>1. \A name \in {"axSnapshot", "onReady"} : Has(mainQueue', Job(name, v)) => Has(mainQueue, Job(name, v))
      BY <1>6, JobFacts
    <3>2. phase[v] \notin Early => phase'[v] \notin Early
      BY <1>2, <1>5 DEF Early
    <3>3. QED
      BY <1>1, <1>3, <2>1, <3>1, <3>2, LateKept
  <2>3. PhaseInv(v)'
    <3> HIDE DEF Owed
    <3>1. actor' # Job("opening", v) /\ (v # u => actor # Job("opening", v))
      BY <1>1, <1>3, JobFacts
    <3>2. CASE v = u
      BY <1>1, <1>2, <1>5, <2>1, <3>1, <3>2 DEF PhaseInv
    <3>3. CASE v # u
      BY <1>1, <1>5, <2>1, <3>1, <3>3 DEF PhaseInv
    <3>4. QED
      BY <3>2, <3>3
  <2>4. QED
    BY <2>2, <2>3
<1>9. RecordingInv'
  BY <1>1, <1>2, <1>3, <1>4, <1>5 DEF FlagInv, RecordingInv
<1>10. QED
  BY <1>7, <1>8, <1>9 DEF FlagInv

\* The actor takes a stop. If something is being recorded it is what the stop is meant for: the stop of an earlier recording
\* would have been taken before that one's start, and a later one waits behind the recording's own.
LEMMA StopInv ==
  ASSUME FlagInv, NEW u \in Recordings, StopAndTranscribe(u)
  PROVE FlagInv'
<1>1. /\ ActorRuns("stopAndTranscribe", u) /\ isRecording' = FALSE
      /\ UNCHANGED <<session, current, actor>> /\ actor = Free
  BY DEF StopAndTranscribe, gesture, ActorRuns
<1>2. /\ mailbox' \in Seq(ActorJobs) /\ Sorted(mailbox') /\ Stop(u) \in ActorJobs
      /\ \A j : Has(mailbox, j) <=> j = Stop(u) \/ Has(mailbox', j)
      /\ \A j : Has(mailbox', j) /\ Edge(j) => 2 * u + 1 < Key(j)
  BY <1>1, ActorTakes, JobFacts DEF Stop
<1>3. \A v : Free # Job("opening", v) /\ Free # Job("draining", v)
  BY JobFacts DEF Free, Job
<1>4. \A v : Has(mailbox', Start(v)) <=> Has(mailbox, Start(v))
  BY <1>2, JobFacts
<1>5. \A v : v # u => (Has(mailbox', Stop(v)) <=> Has(mailbox, Stop(v)))
  BY <1>2, JobFacts DEF Stop
<1>6. \A v \in Recordings : v \in Nat
  BY DEF Recordings
<1>7. u <= current /\ (u = current => session = "off")
  <2>1. 2 * u + 1 <= Latest /\ current \in Nat
    BY <1>2, JobFacts DEF FlagInv, OrderInv, Types
  <2>2. QED
    BY <1>6, <2>1 DEF Latest
<1>8. ASSUME NEW w \in Recordings, phase[w] = "recording" PROVE w = u
  <2>1. 2 * w < 2 * u + 1
    BY <1>2, <1>8, JobFacts DEF FlagInv, PhaseInv
  <2>2. CASE w = current /\ session # "off"
    BY <1>6, <1>7, <2>1, <2>2
  <2>3. CASE Has(mailbox, Stop(w)) /\ w # u
    <3>1. 2 * u + 1 < 2 * w + 1
      BY <1>2, <1>5, <2>3, JobFacts
    <3>2. QED
      BY <1>6, <2>1, <3>1
  <2>4. QED
    BY <1>8, <2>2, <2>3 DEF FlagInv, PhaseInv, Owed
<1>9. phase[u] # "starting"
  <2>1. ~Has(mailbox', Start(u))
    <3>1. ~(2 * u + 1 < 2 * u)
      BY <1>6
    <3>2. QED
      BY <1>2, <3>1, JobFacts
  <2>2. QED
    BY <1>1, <1>3, <1>4, <2>1 DEF FlagInv, PhaseInv
<1>10. OrderInv'
  BY <1>1, <1>2 DEF FlagInv, OrderInv, Latest
\* What becomes of u, which may be recorded.
<1>11. ASSUME phase' \in [Recordings -> Phases], \A v \in Recordings \ {u} : phase'[v] = phase[v],
              mainQueue' \in Seq(MainThreadJobs),
              \A j : Has(mainQueue', j) /\ j.job \in {"axSnapshot", "onReady"} /\ j.of # u => Has(mainQueue, j),
              \/ phase'[u] = "stopping" /\ phase[u] = "recording"
              \/ phase'[u] = phase[u] /\ phase[u] # "recording" /\ mainQueue' = mainQueue
       PROVE FlagInv'
  <2>1. Types'
    BY <1>1, <1>2, <1>11 DEF FlagInv, Types
  <2>2. ASSUME NEW v \in Recordings PROVE PhaseInv(v)' /\ LateInv(v)'
    <3>1. PhaseInv(v) /\ LateInv(v)
      BY DEF FlagInv
    <3>2. v # u => (Owed(v)' <=> Owed(v))
      BY <1>1, <1>5 DEF Owed
    <3>3. LateInv(v)'
      <4>1. Has(mailbox', Job("stopCapture", v)) => Has(mailbox, Job("stopCapture", v))
        BY <1>2
      <4>2. CASE v = u /\ phase'[u] = "stopping"
        BY <4>2 DEF LateInv, Early
      <4>3. CASE v # u \/ mainQueue' = mainQueue
        <5>1. \A name \in {"axSnapshot", "onReady"} : Has(mainQueue', Job(name, v)) => Has(mainQueue, Job(name, v))
          BY <1>11, <4>3, JobFacts
        <5>2. phase[v] \notin Early => phase'[v] \notin Early
          BY <1>11 DEF Early
        <5>3. QED
          BY <1>1, <3>1, <4>1, <5>1, <5>2, LateKept
      <4>4. QED
        BY <1>11, <4>2, <4>3
    <3>4. CASE v = u
      <4> HIDE DEF Owed
      <4>1. QED
        BY <1>1, <1>3, <1>4, <1>9, <1>11, <3>1, <3>3, <3>4 DEF PhaseInv
    <3>5. CASE v # u
      <4> HIDE DEF Owed
      <4>1. QED
        BY <1>1, <1>2, <1>3, <1>4, <1>11, <3>1, <3>2, <3>3, <3>5 DEF PhaseInv
    <3>6. QED
      BY <3>4, <3>5
  <2>3. \A v \in Recordings : phase'[v] # "recording"
    BY <1>8, <1>11
  <2>4. RecordingInv'
    BY <1>1, <2>3 DEF RecordingInv
  <2>5. QED
    BY <1>10, <2>1, <2>2, <2>4 DEF FlagInv
<1>12. CASE isRecording
  <2>1. MoveTo(u, "stopping") /\ CallMain("axSnapshot", u)
    BY <1>12 DEF StopAndTranscribe
  <2>2. phase[u] = "recording"
    BY <1>8, <1>12 DEF FlagInv, RecordingInv
  <2>3. phase' \in [Recordings -> Phases] /\ phase'[u] = "stopping" /\ \A v \in Recordings \ {u} : phase'[v] = phase[v]
    BY <2>1, PhaseMoved DEF Phases
  <2>4. mainQueue' \in Seq(MainThreadJobs) /\ \A j : Has(mainQueue', j) <=> Has(mainQueue, j) \/ j = Job("axSnapshot", u)
    BY <2>1, MainCalled
  <2>5. QED
    BY <1>11, <2>2, <2>3, <2>4, JobFacts
<1>13. CASE ~isRecording
  <2>1. UNCHANGED <<mainQueue, phase>>
    BY <1>13 DEF StopAndTranscribe
  <2>2. phase[u] # "recording"
    BY <1>13 DEF FlagInv, RecordingInv
  <2>3. QED
    BY <1>11, <2>1, <2>2 DEF FlagInv, Types
<1>14. QED
  BY <1>12, <1>13 DEF FlagInv, Types
------------------------------------------------------------------------------
(* The pipeline with any client: its callbacks put tasks on the main thread, and these run there.                          *)

ClientJob(name, u) == MainRuns(name, u, << >>) /\ UNCHANGED <<mailbox, phase>>

ClientNext ==
  \/ \E u \in Recordings :
       \/ SessionOpens(u)
       \/ \E started \in Tasks : ActorStep(u, started)
       \/ \E micOpen, error, ready \in Tasks : MainStep(u, micOpen, error, ready)
       \/ \E name \in AppNames : ClientJob(name, u)
  \/ SessionCloses
  \/ MicrophoneStep

ClientSpec == PipelineInit /\ [][ClientNext]_pipelineVars

LEMMA TaskTypes == << >> \in Tasks /\ \A name \in AppNames, u \in Recordings : Task(name, u) \in Tasks
<1>1. \A name \in AppNames, u \in Recordings : Job(name, u) \in AppJobs
  BY DEF AppNames, AppJobs, Jobs, Job
<1>2. QED
  BY <1>1 DEF Tasks, Task

\* The client without callbacks is one of them, and so is the app.
LEMMA NoClient == PipelineSpec => ClientSpec
<1>1. [PipelineNext]_pipelineVars => [ClientNext]_pipelineVars
  BY TaskTypes DEF PipelineNext, ClientNext
<1>2. QED
  BY <1>1, PTL DEF PipelineSpec, ClientSpec

LEMMA AppIsClient == Spec => ClientSpec
<1>1. Init => PipelineInit
  BY DEF Init
<1>2. [Next]_vars => [ClientNext]_pipelineVars
  <2> SUFFICES ASSUME [Next]_vars PROVE [ClientNext]_pipelineVars
    OBVIOUS
  <2>1. ASSUME NEW u \in Recordings, StartCallback(u) PROVE ClientNext
    BY <2>1 DEF StartCallback, ClientNext
  <2>2. ASSUME NEW u \in Recordings, AppMainStep(u) PROVE ClientNext
    <3>1. ASSUME NEW name \in AppNames, AppRuns(name, u) PROVE ClientNext
      BY <3>1 DEF AppRuns, ClientJob, ClientNext
    <3>2. CASE MainStep(u, Task("ShowRecording", u), Task("ShowError", u), Task("ShowIdle", u))
      <4>1. Task("ShowRecording", u) \in Tasks /\ Task("ShowError", u) \in Tasks /\ Task("ShowIdle", u) \in Tasks
        BY TaskTypes DEF AppNames
      <4>2. QED
        BY <3>2, <4>1 DEF ClientNext
    <3>3. QED
      BY <2>2, <3>1, <3>2 DEF AppMainStep, ShowRecording, ShowHandsFree, ShowError, ShowIdle, AppNames
  <2>3. ASSUME NEW u \in Recordings, AppActorStep(u) PROVE ClientNext
    <3>1. StartedTask(u) \in Tasks
      BY TaskTypes DEF StartedTask, AppNames
    <3>2. QED
      BY <2>3, <3>1 DEF AppActorStep, ClientNext
  <2>4. CASE StopCallback \/ MicrophoneStep
    BY <2>4 DEF StopCallback, ClientNext
  <2>5. CASE IdleTimerFires \/ UNCHANGED vars
    BY <2>5 DEF IdleTimerFires, vars
  <2>6. QED
    BY <2>1, <2>2, <2>3, <2>4, <2>5 DEF Next
<1>3. QED
  BY <1>1, <1>2, PTL DEF Spec, ClientSpec

LEMMA ActorInv ==
  ASSUME FlagInv, NEW u \in Recordings, NEW started \in Tasks, ActorStep(u, started)
  PROVE FlagInv'
  BY StartInv, EngineInv, StartReturnsInv, StopInv, StopCaptureInv, CaptureStoppedInv, StageInv DEF ActorStep

LEMMA MainInv ==
  ASSUME FlagInv, NEW u \in Recordings, NEW micOpen \in Tasks, NEW error \in Tasks, NEW ready \in Tasks,
         MainStep(u, micOpen, error, ready)
  PROVE FlagInv'
<1>1. CASE OnMicOpen(u, micOpen)
  BY <1>1, ResumesInv DEF OnMicOpen
<1>2. CASE OnStartFailed(u, error)
  BY <1>2, ResumesInv DEF OnStartFailed
<1>3. CASE AxSnapshot(u)
  BY <1>3, ResumesInv, TaskTypes DEF AxSnapshot
<1>4. CASE OnError(u, error)
  BY <1>4, JobDoneInv DEF OnError
<1>5. QED
  BY <1>1, <1>2, <1>3, <1>4, OnReadyInv DEF MainStep

LEMMA ClientInvariant == ClientSpec => []FlagInv
<1>1. FlagInv /\ [ClientNext]_pipelineVars => FlagInv'
  <2> SUFFICES ASSUME FlagInv, [ClientNext]_pipelineVars PROVE FlagInv'
    OBVIOUS
  <2>1. CASE MicrophoneStep \/ UNCHANGED pipelineVars
    BY <2>1, UnchangedInv DEF MicrophoneStep, pipelineVars, gesture, pipeline
  <2>2. ASSUME NEW u \in Recordings, NEW name \in AppNames, ClientJob(name, u) PROVE FlagInv'
    BY <2>2, JobDoneInv, TaskTypes DEF ClientJob
  <2>3. QED
    BY <2>1, <2>2, OpensInv, ClosesInv, ActorInv, MainInv DEF ClientNext
<1>2. QED
  BY <1>1, InitInv, PTL DEF ClientSpec

\* The starts and stops that wait are in the order of the sessions, and each recording is owed its stop, whatever the client
\* puts on the main thread. Code: startRecording, stopAndTranscribe.
THEOREM PipelineInvariant == PipelineSpec => []FlagInv
  BY ClientInvariant, NoClient, PTL

LEMMA FlagFollowing == FlagInv => FlagFollowsRecording
<1> SUFFICES ASSUME FlagInv PROVE FlagFollowsRecording
  OBVIOUS
<1>1. mailbox \in Seq(ActorJobs)
  BY DEF FlagInv, Types
<1>2. \A u : Has(mailbox, Stop(u)) <=> \E i \in DOMAIN mailbox : mailbox[i] = Job("stopAndTranscribe", u)
  BY <1>1 DEF Has, Stop
<1>3. QED
  BY <1>2 DEF FlagInv, PhaseInv, Owed, RecordingInv, FlagFollowsRecording

\* However many recordings overlap, and whatever the engine and the devices do: the flag is set exactly while one recording
\* has started and its stop is still to come. Code: startRecording, stopAndTranscribe.
THEOREM FlagFollows == PipelineSpec => []FlagFollowsRecording
  BY FlagFollowing, PipelineInvariant, PTL
------------------------------------------------------------------------------
(* What a recording hears.                                                                                                 *)

Once(q, j) == \A i, k \in 1..Len(q) : q[i] = j /\ q[k] = j => i = k

LEMMA OnceAppended ==
  ASSUME NEW S, NEW q \in Seq(S), NEW x \in S, NEW y, Once(q, y), y = x => ~Has(q, y)
  PROVE Once(Append(q, x), y)
<1> DEFINE r == Append(q, x)
<1>1. Len(r) = Len(q) + 1 /\ Len(q) \in Nat /\ r[Len(q) + 1] = x /\ \A i \in 1..Len(q) : r[i] = q[i]
  BY AppendProperties
<1> HIDE DEF r
<1>2. QED
  BY <1>1 DEF Once, Has, r

LEMMA OnceTaken ==
  ASSUME NEW S, NEW q \in Seq(S), q # << >>, NEW y, Once(q, y)
  PROVE Once(Tail(q), y) /\ (y = Head(q) => ~Has(Tail(q), y))
<1> DEFINE r == Tail(q)
<1>1. /\ Head(q) = q[1] /\ Len(q) \in Nat \ {0} /\ Len(r) = Len(q) - 1
      /\ \A i \in 1..Len(r) : i + 1 \in 1..Len(q) /\ r[i] = q[i + 1]
  BY HeadTailProperties, EmptySeq
<1> HIDE DEF r
<1>2. Once(r, y)
  <2> SUFFICES ASSUME NEW i \in 1..Len(r), NEW k \in 1..Len(r), r[i] = y, r[k] = y PROVE i = k
    BY DEF Once
  <2>1. i + 1 = k + 1
    BY <1>1 DEF Once
  <2>2. QED
    BY <1>1, <2>1
<1>3. ASSUME y = Head(q), NEW i \in 1..Len(r), r[i] = y PROVE FALSE
  <2>1. q[1] = y /\ q[i + 1] = y /\ 1 \in 1..Len(q) /\ i + 1 \in 1..Len(q)
    BY <1>1, <1>3
  <2>2. 1 = i + 1
    BY <2>1 DEF Once
  <2>3. QED
    BY <1>1, <2>2
<1>4. QED
  BY <1>2, <1>3 DEF Has, r

LEMMA OnceConcatenated ==
  ASSUME NEW S, NEW q \in Seq(S), NEW t \in Seq(S), NEW y, Once(q, y), ~Has(t, y)
  PROVE Once(q \o t, y)
<1> DEFINE r == q \o t
<1>1. /\ Len(r) = Len(q) + Len(t) /\ Len(q) \in Nat /\ Len(t) \in Nat
      /\ \A i \in 1..Len(r) : r[i] = IF i <= Len(q) THEN q[i] ELSE t[i - Len(q)]
  BY ConcatProperties
<1> HIDE DEF r
<1>2. \A i \in 1..Len(r) : r[i] = y => i \in 1..Len(q) /\ q[i] = y
  BY <1>1 DEF Has
<1>3. QED
  BY <1>2 DEF Once, r

\* A stop is one thread of steps: it is in the main thread's queue, or in the actor's, or drains, and not in two of them.
After == Stages \cup {"ready"} \cup Ends
Snapshot(u) == Has(mainQueue, Job("axSnapshot", u))
Capture(u) == Has(mailbox, Job("stopCapture", u))

StopThread(u) ==
  /\ Snapshot(u) \/ Capture(u) => phase[u] = "stopping"
  /\ ~(Snapshot(u) /\ Capture(u))
  /\ Once(mainQueue, Job("axSnapshot", u)) /\ Once(mailbox, Job("stopCapture", u))
  /\ actor = Job("draining", u) => phase[u] = "draining"
  /\ Has(mainQueue, Job("onReady", u)) => phase[u] \in After

\* What waits in memory for the next stop, callbacks under way included, but for those that a clearing overtook.
Held == (pcmBuffer \cup inFlight) \ {Stray}

LEMMA ClearedHeld == ClearBuffer => Held' = {}
  BY DEF ClearBuffer, Held

\* From the moment the buffer was cleared for a recording until its stop takes it, nothing older gets into it.
Listening(u) == actor = Job("opening", u) \/ phase[u] \in {"recording", "stopping", "draining"}

HeardInv ==
  /\ \A u \in Recordings : StopThread(u)
  /\ \A u \in Recordings : Listening(u) => Held \subseteq u..MaxRecordings
  /\ DOMAIN heard = Recordings
  /\ NoStaleAudio

LEMMA HeardInit == PipelineInit => HeardInv
<1> SUFFICES ASSUME PipelineInit PROVE HeardInv
  OBVIOUS
<1>1. mailbox = << >> /\ mainQueue = << >> /\ Len(mailbox) = 0 /\ Len(mainQueue) = 0
  BY DEF PipelineInit
<1>2. \A j : ~Has(mailbox, j) /\ ~Has(mainQueue, j) /\ Once(mailbox, j) /\ Once(mainQueue, j)
  BY <1>1 DEF Has, Once
<1>3. \A name, u : name # "free" => actor # Job(name, u)
  BY JobFacts DEF PipelineInit, Free, Job
<1>4. ASSUME NEW u \in Recordings PROVE StopThread(u) /\ ~Listening(u)
  BY <1>2, <1>3 DEF PipelineInit, StopThread, Snapshot, Capture, Listening
<1>5. DOMAIN heard = Recordings /\ NoStaleAudio
  BY DEF PipelineInit, NoStaleAudio
<1>6. QED
  BY <1>4, <1>5 DEF HeardInv

\* A stop that is left alone, or that ends.
LEMMA ThreadKept ==
  ASSUME NEW u, StopThread(u), Capture(u)' => Capture(u), Snapshot(u)' => Snapshot(u),
         Once(mainQueue', Job("axSnapshot", u)), Once(mailbox', Job("stopCapture", u)),
         Has(mainQueue', Job("onReady", u)) => Has(mainQueue, Job("onReady", u)) \/ phase'[u] \in After,
         actor' = Job("draining", u) => actor = Job("draining", u),
         \/ phase'[u] = phase[u] \/ phase[u] \in {"none", "starting"}
         \/ phase'[u] \in After /\ ~Capture(u)' /\ ~Snapshot(u)' /\ actor' # Job("draining", u)
  PROVE StopThread(u)'
<1>1. "none" \notin After /\ "starting" \notin After
  BY DEF After, Stages, Ends
<1>2. QED
  BY <1>1 DEF StopThread, Snapshot, Capture

\* The queues after the actor, or the main thread, has taken a job or been given one.
LEMMA BoxTaken ==
  ASSUME FlagInv, NEW name, NEW u \in Recordings, ActorRuns(name, u), NEW v
  PROVE /\ Capture(v)' => Capture(v)
        /\ Once(mailbox, Job("stopCapture", v)) => Once(mailbox', Job("stopCapture", v))
        /\ Once(mailbox, Job("stopCapture", v)) /\ name = "stopCapture" /\ u = v => ~Capture(v)'
<1>1. mailbox \in Seq(ActorJobs) /\ mailbox # << >>
  BY DEF FlagInv, Types, ActorRuns
<1>2. Head(mailbox) = Job(name, u) /\ mailbox' = Tail(mailbox)
  BY DEF ActorRuns
<1>3. QED
  BY <1>1, <1>2, Taken, OnceTaken DEF Capture

LEMMA BoxGiven ==
  ASSUME FlagInv, NEW j \in ActorJobs, mailbox' = Append(mailbox, j), NEW v
  PROVE /\ Capture(v)' <=> Capture(v) \/ j = Job("stopCapture", v)
        /\ Once(mailbox, Job("stopCapture", v)) /\ (j = Job("stopCapture", v) => ~Capture(v))
             => Once(mailbox', Job("stopCapture", v))
<1>1. mailbox \in Seq(ActorJobs)
  BY DEF FlagInv, Types
<1>2. QED
  BY <1>1, Appended, OnceAppended DEF Capture

LEMMA MainTaken ==
  ASSUME FlagInv, NEW name, NEW u \in Recordings, NEW tasks \in Tasks, MainRuns(name, u, tasks), NEW v \in Recordings
  PROVE /\ Snapshot(v)' => Snapshot(v)
        /\ Has(mainQueue', Job("onReady", v)) => Has(mainQueue, Job("onReady", v))
        /\ Once(mainQueue, Job("axSnapshot", v)) => Once(mainQueue', Job("axSnapshot", v))
        /\ Once(mainQueue, Job("axSnapshot", v)) /\ name = "axSnapshot" /\ u = v => ~Snapshot(v)' /\ Snapshot(v)
<1> DEFINE j == Job("axSnapshot", v)
<1>1. mainQueue \in Seq(MainThreadJobs) /\ mainQueue # << >>
  BY DEF FlagInv, Types, MainRuns
<1>2. Tail(mainQueue) \in Seq(MainThreadJobs) /\ tasks \in Seq(MainThreadJobs)
  <2>1. AppJobs \subseteq MainThreadJobs
    BY DEF MainThreadJobs
  <2>2. tasks \in Seq(MainThreadJobs)
    BY <2>1 DEF Tasks
  <2>3. QED
    BY <1>1, <2>2, Taken
<1>3. mainQueue' = Tail(mainQueue) \o tasks /\ Head(mainQueue) = Job(name, u)
  BY DEF MainRuns
<1>4. j \in MainJobs /\ Job("onReady", v) \in MainJobs
  BY MainTypes
<1>5. Once(mainQueue, j) => Once(Tail(mainQueue), j) /\ (j = Head(mainQueue) => ~Has(Tail(mainQueue), j))
  BY <1>1, OnceTaken
<1>6. ~Has(tasks, j)
  BY <1>4, TasksApart
<1>7. Once(mainQueue, j) => Once(mainQueue', j)
  BY <1>2, <1>3, <1>5, <1>6, OnceConcatenated
<1>8. Has(mainQueue', j) <=> Has(Tail(mainQueue), j)
  BY <1>2, <1>3, <1>6, Concatenated
<1>9. Once(mainQueue, j) /\ name = "axSnapshot" /\ u = v => ~Has(mainQueue', j) /\ Has(mainQueue, j)
  BY <1>1, <1>3, <1>5, <1>8, Taken
<1>10. \A i \in MainJobs : Has(mainQueue', i) => Has(mainQueue, i)
  BY MainTakes
<1>11. QED
  BY <1>4, <1>7, <1>9, <1>10 DEF Snapshot

LEMMA MainGiven ==
  ASSUME FlagInv, NEW name \in {"onMicOpen", "onError", "startFailed", "axSnapshot", "onReady"}, NEW u \in Recordings,
         CallMain(name, u), NEW v \in Recordings
  PROVE /\ Snapshot(v)' <=> Snapshot(v) \/ (name = "axSnapshot" /\ u = v)
        /\ Has(mainQueue', Job("onReady", v)) <=> Has(mainQueue, Job("onReady", v)) \/ (name = "onReady" /\ u = v)
        /\ Once(mainQueue, Job("axSnapshot", v)) /\ (name = "axSnapshot" /\ u = v => ~Snapshot(v))
             => Once(mainQueue', Job("axSnapshot", v))
<1>1. mainQueue \in Seq(MainThreadJobs) /\ Job(name, u) \in MainThreadJobs /\ mainQueue' = Append(mainQueue, Job(name, u))
  BY MainTypes DEF FlagInv, Types, CallMain, MainThreadJobs
<1>2. Once(mainQueue, Job("axSnapshot", v)) /\ (name = "axSnapshot" /\ u = v => ~Snapshot(v))
        => Once(mainQueue', Job("axSnapshot", v))
  BY <1>1, JobFacts, OnceAppended DEF Snapshot
<1>3. QED
  BY <1>1, <1>2, JobFacts, Appended DEF Snapshot

\* The buffer holds no more than before, for no more recordings, and nothing is heard.
LEMMA HeardKept ==
  ASSUME HeardInv, \A u \in Recordings : StopThread(u)',
         heard' = heard, Held' \subseteq Held,
         \A u \in Recordings : Listening(u)' => Listening(u) \/ Held' = {}
  PROVE HeardInv'
  BY DEF HeardInv, NoStaleAudio

\* A session's jobs are no part of a stop's thread.
LEMMA OpensHeard ==
  ASSUME FlagInv, HeardInv, NEW u \in Recordings, SessionOpens(u)
  PROVE HeardInv'
<1>1. /\ u = current + 1 /\ mailbox' = Append(mailbox, Start(u)) /\ MoveTo(u, "starting")
      /\ UNCHANGED <<mainQueue, actor, heard, Held>>
  BY DEF SessionOpens, CallActor, Start, audio, Held
<1>2. phase[u] = "none" /\ phase'[u] = "starting" /\ \A v \in Recordings \ {u} : phase'[v] = phase[v]
  <2>1. phase[u] = "none"
    BY <1>1 DEF FlagInv, Types, PhaseInv
  <2>2. QED
    BY <1>1, <2>1, PhaseMoved DEF Phases
<1>3. Start(u) \in ActorJobs /\ \A v : Start(u) # Job("stopCapture", v)
  BY JobTypes, JobFacts DEF Start
<1>4. ASSUME NEW v \in Recordings PROVE StopThread(v)'
  <2>1. StopThread(v)
    BY DEF HeardInv
  <2>2. (Capture(v)' <=> Capture(v)) /\ Once(mailbox', Job("stopCapture", v))
    BY <1>1, <1>3, <2>1, BoxGiven DEF StopThread
  <2>3. QED
    BY <1>1, <1>2, <2>1, <2>2, ThreadKept DEF StopThread, Snapshot
<1>5. \A v \in Recordings : Listening(v)' => Listening(v)
  BY <1>1, <1>2 DEF Listening
<1>6. QED
  BY <1>1, <1>4, <1>5, HeardKept

LEMMA ClosesHeard ==
  ASSUME FlagInv, HeardInv, SessionCloses
  PROVE HeardInv'
<1>1. session # "off" /\ mailbox' = Append(mailbox, Stop(current)) /\ UNCHANGED <<mainQueue, actor, phase, heard, Held>>
  BY DEF SessionCloses, CallActor, Stop, audio, Gestures!ClosePtt, Gestures!CloseHandsFree, Held
<1>2. Stop(current) \in ActorJobs /\ \A v : Stop(current) # Job("stopCapture", v)
  BY <1>1, JobTypes, JobFacts DEF Stop, FlagInv, Types
<1>3. ASSUME NEW v \in Recordings PROVE StopThread(v)'
  <2>1. StopThread(v)
    BY DEF HeardInv
  <2>2. (Capture(v)' <=> Capture(v)) /\ Once(mailbox', Job("stopCapture", v))
    BY <1>1, <1>2, <2>1, BoxGiven DEF StopThread
  <2>3. QED
    BY <1>1, <2>1, <2>2, ThreadKept DEF StopThread, Snapshot
<1>4. \A v \in Recordings : Listening(v)' => Listening(v)
  BY <1>1 DEF Listening
<1>5. QED
  BY <1>1, <1>3, <1>4, HeardKept

\* A start begins to listen with an empty buffer.
LEMMA StartHeard ==
  ASSUME FlagInv, HeardInv, NEW u \in Recordings, StartRecording(u)
  PROVE HeardInv'
<1>1. /\ ActorRuns("startRecording", u) /\ UNCHANGED heard /\ actor = Free /\ Held' \in {Held, {}}
      /\ actor' = actor \/ (actor' = Job("opening", u) /\ Held' = {})
      /\ phase' = phase \/ MoveTo(u, "startIgnored") \/ MoveTo(u, "startFailed")
      /\ mainQueue' = mainQueue \/ CallMain("startFailed", u)
  BY ClearedHeld DEF StartRecording, ActorRuns, installTap, reset, audio, Held
<1>2. phase[u] = "starting"
  BY <1>1, ActorTakes, JobFacts DEF Start, FlagInv, PhaseInv
<1>3. phase' = phase \/ (phase'[u] \in {"startIgnored", "startFailed"} /\ \A v \in Recordings \ {u} : phase'[v] = phase[v])
  BY <1>1, PhaseMoved DEF Phases, Ends
<1>4. ASSUME NEW v \in Recordings PROVE StopThread(v)'
  <2>1. StopThread(v)
    BY DEF HeardInv
  <2>2. (Capture(v)' => Capture(v)) /\ Once(mailbox', Job("stopCapture", v))
    BY <1>1, <2>1, BoxTaken DEF StopThread
  <2>3. /\ Snapshot(v)' => Snapshot(v)
        /\ Has(mainQueue', Job("onReady", v)) => Has(mainQueue, Job("onReady", v))
        /\ Once(mainQueue', Job("axSnapshot", v))
    BY <1>1, <2>1, MainGiven DEF StopThread, Snapshot
  <2>4. actor' = Job("draining", v) => actor = Job("draining", v)
    BY <1>1, JobFacts
  <2>5. QED
    BY <1>2, <1>3, <2>1, <2>2, <2>3, <2>4, ThreadKept
<1>5. \A v \in Recordings : Listening(v)' => Listening(v) \/ Held' = {}
  BY <1>1, <1>3 DEF Listening
<1>6. QED
  BY <1>1, <1>4, <1>5, HeardKept

LEMMA EngineHeard ==
  ASSUME FlagInv, HeardInv, NEW u \in Recordings, EngineReturns(u)
  PROVE HeardInv'
<1>1. /\ actor = Job("opening", u) /\ actor' = Free /\ UNCHANGED <<mailbox, heard>> /\ Held' \in {Held, {}}
      /\ MoveTo(u, "recording") \/ MoveTo(u, "startFailed")
      /\ CallMain("onMicOpen", u) \/ CallMain("startFailed", u)
  BY ClearedHeld DEF EngineReturns, engineStarted, reset, Held
<1>2. phase[u] = "starting" /\ \A v : Free # Job("opening", v) /\ Free # Job("draining", v)
  BY <1>1, JobFacts DEF FlagInv, PhaseInv, Free, Job
<1>3. phase'[u] \in {"recording", "startFailed"} /\ \A v \in Recordings \ {u} : phase'[v] = phase[v]
  BY <1>1, PhaseMoved DEF Phases, Ends
<1>4. ASSUME NEW v \in Recordings PROVE StopThread(v)'
  <2>1. StopThread(v)
    BY DEF HeardInv
  <2>2. /\ Snapshot(v)' => Snapshot(v)
        /\ Has(mainQueue', Job("onReady", v)) => Has(mainQueue, Job("onReady", v))
        /\ Once(mainQueue', Job("axSnapshot", v))
    BY <1>1, <2>1, MainGiven DEF StopThread
  <2>3. QED
    BY <1>1, <1>2, <1>3, <2>1, <2>2, ThreadKept DEF StopThread, Capture
<1>5. \A v \in Recordings : Listening(v)' => Listening(v)
  BY <1>1, <1>2, <1>3 DEF Listening
<1>6. QED
  BY <1>1, <1>4, <1>5, HeardKept

LEMMA StartReturnsHeard ==
  ASSUME FlagInv, HeardInv, NEW u \in Recordings, NEW tasks \in Tasks, StartReturns(u, tasks)
  PROVE HeardInv'
<1>1. ActorRuns("startReturns", u) /\ UNCHANGED <<actor, phase, heard, Held>> /\ mainQueue' = mainQueue \o tasks
  BY DEF StartReturns, audio, Held
<1>2. ASSUME NEW v \in Recordings PROVE StopThread(v)'
  <2>1. StopThread(v)
    BY DEF HeardInv
  <2>2. (Capture(v)' => Capture(v)) /\ Once(mailbox', Job("stopCapture", v))
    BY <1>1, <2>1, BoxTaken DEF StopThread
  <2>3. Job("axSnapshot", v) \in MainJobs /\ Job("onReady", v) \in MainJobs
    BY MainTypes
  <2>4. /\ Snapshot(v)' => Snapshot(v)
        /\ Has(mainQueue', Job("onReady", v)) => Has(mainQueue, Job("onReady", v))
    BY <2>3, StartReturnsMain DEF Snapshot
  <2>5. Once(mainQueue', Job("axSnapshot", v))
    <3>1. AppJobs \subseteq MainThreadJobs /\ mainQueue \in Seq(MainThreadJobs)
      BY DEF MainThreadJobs, FlagInv, Types
    <3>2. tasks \in Seq(MainThreadJobs)
      BY <3>1 DEF Tasks
    <3>3. QED
      BY <1>1, <2>1, <2>3, <3>1, <3>2, TasksApart, OnceConcatenated DEF StopThread
  <2>6. QED
    BY <1>1, <2>1, <2>2, <2>4, <2>5, ThreadKept
<1>3. \A v \in Recordings : Listening(v)' => Listening(v)
  BY <1>1 DEF Listening
<1>4. QED
  BY <1>1, <1>2, <1>3, HeardKept

\* The thread of a stop begins: the recording it stops has none.
LEMMA StopHeard ==
  ASSUME FlagInv, FlagInv', HeardInv, NEW u \in Recordings, StopAndTranscribe(u)
  PROVE HeardInv'
<1>1. ActorRuns("stopAndTranscribe", u) /\ UNCHANGED <<actor, heard, Held>> /\ actor = Free /\ isRecording' = FALSE
  BY DEF StopAndTranscribe, ActorRuns, audio, Held
<1>2. CASE ~isRecording
  <2>1. UNCHANGED <<mainQueue, phase>>
    BY <1>2 DEF StopAndTranscribe
  <2>2. ASSUME NEW v \in Recordings PROVE StopThread(v)'
    <3>1. StopThread(v)
      BY DEF HeardInv
    <3>2. (Capture(v)' => Capture(v)) /\ Once(mailbox', Job("stopCapture", v))
      BY <1>1, <3>1, BoxTaken DEF StopThread
    <3>3. QED
      BY <1>1, <2>1, <3>1, <3>2, ThreadKept DEF StopThread, Snapshot
  <2>3. \A v \in Recordings : Listening(v)' => Listening(v)
    BY <1>1, <2>1 DEF Listening
  <2>4. QED
    BY <1>1, <2>2, <2>3, HeardKept
<1>3. CASE isRecording
  <2>1. MoveTo(u, "stopping") /\ CallMain("axSnapshot", u)
    BY <1>3 DEF StopAndTranscribe
  <2>2. phase'[u] = "stopping" /\ \A v \in Recordings \ {u} : phase'[v] = phase[v]
    BY <2>1, PhaseMoved DEF Phases
  <2>3. phase[u] = "recording"
    <3>1. PICK w \in Recordings : phase[w] = "recording"
      BY <1>3 DEF FlagInv, RecordingInv
    <3>2. phase'[w] # "recording"
      BY <1>1 DEF FlagInv, RecordingInv
    <3>3. QED
      BY <2>2, <3>1, <3>2
  <2>4. ASSUME NEW v \in Recordings PROVE StopThread(v)'
    <3>1. StopThread(v)
      BY DEF HeardInv
    <3>2. (Capture(v)' => Capture(v)) /\ Once(mailbox', Job("stopCapture", v))
      BY <1>1, <3>1, BoxTaken DEF StopThread
    <3>3. CASE v = u
      <4>1. ~Snapshot(u) /\ ~Capture(u) /\ actor # Job("draining", u) /\ ~Has(mainQueue, Job("onReady", u))
        BY <2>3, <3>1, <3>3 DEF StopThread, After, Stages, Ends
      <4>2. Once(mainQueue', Job("axSnapshot", u)) /\ ~Has(mainQueue', Job("onReady", u))
        BY <2>1, <3>1, <3>3, <4>1, MainGiven DEF StopThread
      <4>3. QED
        BY <1>1, <2>2, <3>2, <3>3, <4>1, <4>2 DEF StopThread
    <3>4. CASE v # u
      <4>1. /\ Snapshot(v)' <=> Snapshot(v)
            /\ Has(mainQueue', Job("onReady", v)) <=> Has(mainQueue, Job("onReady", v))
            /\ Once(mainQueue', Job("axSnapshot", v))
        BY <2>1, <3>1, <3>4, MainGiven DEF StopThread
      <4>2. QED
        BY <1>1, <2>2, <3>1, <3>2, <3>4, <4>1, ThreadKept
    <3>5. QED
      BY <3>3, <3>4
  <2>5. \A v \in Recordings : Listening(v)' => Listening(v)
    BY <1>1, <2>2, <2>3 DEF Listening
  <2>6. QED
    BY <1>1, <2>4, <2>5, HeardKept
<1>4. QED
  BY <1>2, <1>3 DEF FlagInv, Types

\* The thread of a stop leaves the actor's queue: for the drain, or for good.
LEMMA StopCaptureHeard ==
  ASSUME FlagInv, HeardInv, NEW u \in Recordings, StopCapture(u)
  PROVE HeardInv'
<1>1. /\ ActorRuns("stopCapture", u) /\ UNCHANGED <<mainQueue, heard>> /\ actor = Free /\ Held' \in {Held, {}}
      /\ \/ actor' = Job("draining", u) /\ MoveTo(u, "draining")
         \/ actor' = Free /\ MoveTo(u, "unheard")
  BY ClearedHeld DEF StopCapture, ActorRuns, reset, audio, Held
<1>2. StopThread(u) /\ Capture(u) /\ phase[u] = "stopping"
  BY <1>1, ActorTakes DEF HeardInv, StopThread, Capture
<1>3. /\ \A v \in Recordings \ {u} : phase'[v] = phase[v]
      /\ \/ actor' = Job("draining", u) /\ phase'[u] = "draining"
         \/ actor' = Free /\ phase'[u] = "unheard"
  BY <1>1, PhaseMoved DEF Phases, Ends
<1>4. \A v : Free # Job("draining", v) /\ Free # Job("opening", v)
  BY JobFacts DEF Free, Job
<1>5. ASSUME NEW v \in Recordings PROVE StopThread(v)'
  <2>1. StopThread(v)
    BY DEF HeardInv
  <2>2. (Capture(v)' => Capture(v)) /\ Once(mailbox', Job("stopCapture", v)) /\ (u = v => ~Capture(v)')
    BY <1>1, <2>1, BoxTaken DEF StopThread
  <2>3. CASE v = u
    <3>1. ~Snapshot(u) /\ ~Has(mainQueue, Job("onReady", u))
      BY <1>2 DEF StopThread, After, Stages, Ends
    <3>2. QED
      BY <1>1, <1>3, <1>4, <2>1, <2>2, <2>3, <3>1 DEF StopThread, Snapshot
  <2>4. CASE v # u
    <3>1. actor' # Job("draining", v)
      BY <1>3, <1>4, <2>4, JobFacts
    <3>2. QED
      BY <1>1, <1>3, <2>1, <2>2, <2>4, <3>1, ThreadKept DEF StopThread, Snapshot
  <2>5. QED
    BY <2>3, <2>4
<1>6. \A v \in Recordings : Listening(v)' => Listening(v)
  BY <1>2, <1>3, <1>4, JobFacts DEF Listening
<1>7. QED
  BY <1>1, <1>5, <1>6, HeardKept

\* The drain hands over what was heard since the recording began to listen.
LEMMA CaptureStoppedHeard ==
  ASSUME FlagInv, HeardInv, NEW u \in Recordings, CaptureStopped(u)
  PROVE HeardInv'
<1>1. /\ actor = Job("draining", u) /\ actor' = Free /\ UNCHANGED <<mailbox, mainQueue>> /\ Held' = {}
      /\ heard' = [heard EXCEPT ![u] = pcmBuffer]
      /\ MoveTo(u, "unheard") \/ MoveTo(u, "silence") \/ MoveTo(u, "whisper")
  BY ClearedHeld DEF CaptureStopped, reset, Held
<1>2. StopThread(u) /\ phase[u] = "draining" /\ ~Capture(u) /\ ~Snapshot(u)
  BY <1>1 DEF HeardInv, StopThread
<1>3. phase'[u] \in {"unheard", "silence", "whisper"} /\ \A v \in Recordings \ {u} : phase'[v] = phase[v]
  BY <1>1, PhaseMoved DEF Phases, Ends, Stages
<1>4. \A v : Free # Job("draining", v) /\ Free # Job("opening", v)
  BY JobFacts DEF Free, Job
<1>5. ASSUME NEW v \in Recordings PROVE StopThread(v)'
  <2>1. StopThread(v) /\ (v = u => phase'[v] \in After)
    BY <1>3 DEF HeardInv, After, Stages, Ends
  <2>2. /\ Capture(v)' = Capture(v) /\ Snapshot(v)' = Snapshot(v) /\ actor' # Job("draining", v)
        /\ Once(mainQueue', Job("axSnapshot", v)) /\ Once(mailbox', Job("stopCapture", v))
        /\ Has(mainQueue', Job("onReady", v)) = Has(mainQueue, Job("onReady", v))
    BY <1>1, <1>4, <2>1 DEF StopThread, Capture, Snapshot
  <2>3. QED
    BY <1>2, <1>3, <2>1, <2>2, ThreadKept
<1>6. DOMAIN heard' = Recordings /\ NoStaleAudio'
  <2>1. pcmBuffer \subseteq (u..MaxRecordings) \cup {Stray}
    BY <1>2 DEF HeardInv, Listening, Held
  <2>2. QED
    BY <1>1, <2>1 DEF HeardInv, NoStaleAudio, Recordings
<1>7. QED
  BY <1>1, <1>5, <1>6 DEF HeardInv

LEMMA StageHeard ==
  ASSUME FlagInv, HeardInv, NEW u \in Recordings, StageReturns(u)
  PROVE HeardInv'
<1>1. UNCHANGED <<mailbox, actor, heard, Held>> /\ phase[u] \in Stages
  BY DEF StageReturns, Transcribed, CleanedUp, Dispatched, Persisted, Leaves, audio, Stages, Held
<1>2. /\ \E p \in {"failed", "noise", "cleanup", "output", "persist", "ready"} : MoveTo(u, p)
      /\ mainQueue' = mainQueue \/ CallMain("onError", u) \/ CallMain("onReady", u)
  BY DEF StageReturns, Transcribed, CleanedUp, Dispatched, Persisted
<1>3. /\ phase'[u] \in {"failed", "noise", "cleanup", "output", "persist", "ready"}
      /\ \A v \in Recordings \ {u} : phase'[v] = phase[v]
  BY <1>2, PhaseMoved DEF Phases, Ends, Stages
<1>4. /\ phase'[u] \in After /\ phase[u] \in After
      /\ phase[u] \notin {"stopping", "draining"} /\ phase'[u] \notin {"recording", "stopping", "draining"}
  BY <1>1, <1>3 DEF After, Stages, Ends
<1>5. ASSUME NEW v \in Recordings PROVE StopThread(v)'
  <2>1. StopThread(v)
    BY DEF HeardInv
  <2>2. /\ Snapshot(v)' => Snapshot(v)
        /\ Has(mainQueue', Job("onReady", v)) => Has(mainQueue, Job("onReady", v)) \/ v = u
        /\ Once(mainQueue', Job("axSnapshot", v))
    BY <1>2, <2>1, MainGiven DEF StopThread, Snapshot
  <2>3. v = u => ~Capture(v) /\ ~Snapshot(v) /\ actor # Job("draining", v)
    BY <1>4, <2>1 DEF StopThread
  <2>4. Capture(v)' = Capture(v) /\ Once(mailbox', Job("stopCapture", v))
    BY <1>1, <2>1 DEF Capture, StopThread
  <2>5. QED
    BY <1>1, <1>3, <1>4, <2>1, <2>2, <2>3, <2>4, ThreadKept
<1>6. \A v \in Recordings : Listening(v)' => Listening(v)
  BY <1>1, <1>3, <1>4 DEF Listening
<1>7. QED
  BY <1>1, <1>5, <1>6, HeardKept

LEMMA ResumesHeard ==
  ASSUME FlagInv, HeardInv, NEW name \in {"onMicOpen", "startFailed"}, NEW u \in Recordings,
         NEW tasks \in Tasks, MainResumes(name, u, tasks, "startReturns")
  PROVE HeardInv'
<1>1. /\ MainRuns(name, u, tasks) /\ mailbox' = Append(mailbox, Job("startReturns", u))
      /\ UNCHANGED <<actor, phase, heard, Held>>
  BY DEF MainResumes, MainRuns, CallActor, audio, Held
<1>2. Job("startReturns", u) \in ActorJobs /\ \A v : Job("startReturns", u) # Job("stopCapture", v)
  BY JobTypes, JobFacts
<1>3. ASSUME NEW v \in Recordings PROVE StopThread(v)'
  <2>1. StopThread(v)
    BY DEF HeardInv
  <2>2. (Capture(v)' <=> Capture(v)) /\ Once(mailbox', Job("stopCapture", v))
    BY <1>1, <1>2, <2>1, BoxGiven DEF StopThread
  <2>3. /\ Snapshot(v)' => Snapshot(v)
        /\ Has(mainQueue', Job("onReady", v)) => Has(mainQueue, Job("onReady", v))
        /\ Once(mainQueue', Job("axSnapshot", v))
    BY <1>1, <2>1, MainTaken DEF StopThread
  <2>4. QED
    BY <1>1, <2>1, <2>2, <2>3, ThreadKept
<1>4. \A v \in Recordings : Listening(v)' => Listening(v)
  BY <1>1 DEF Listening
<1>5. QED
  BY <1>1, <1>3, <1>4, HeardKept

\* The thread of a stop goes from the main thread's queue to the actor's.
LEMMA SnapshotHeard ==
  ASSUME FlagInv, HeardInv, NEW u \in Recordings, AxSnapshot(u)
  PROVE HeardInv'
<1>1. /\ MainRuns("axSnapshot", u, << >>) /\ mailbox' = Append(mailbox, Job("stopCapture", u))
      /\ UNCHANGED <<actor, phase, heard, Held>>
  BY DEF AxSnapshot, MainResumes, MainRuns, CallActor, audio, Held
<1>2. Job("stopCapture", u) \in ActorJobs /\ \A v : v # u => Job("stopCapture", u) # Job("stopCapture", v)
  BY JobTypes, JobFacts
<1>3. ASSUME NEW v \in Recordings PROVE StopThread(v)'
  <2>1. StopThread(v)
    BY DEF HeardInv
  <2>2. /\ Snapshot(v)' => Snapshot(v)
        /\ Has(mainQueue', Job("onReady", v)) => Has(mainQueue, Job("onReady", v))
        /\ Once(mainQueue', Job("axSnapshot", v))
        /\ u = v => ~Snapshot(v)' /\ Snapshot(v)
    BY <1>1, <2>1, MainTaken, TaskTypes DEF StopThread
  <2>3. u = v => ~Capture(v)
    BY <2>1, <2>2 DEF StopThread
  <2>4. (Capture(v)' <=> Capture(v) \/ u = v) /\ Once(mailbox', Job("stopCapture", v))
    BY <1>1, <1>2, <2>1, <2>3, BoxGiven DEF StopThread
  <2>5. QED
    BY <1>1, <2>1, <2>2, <2>3, <2>4 DEF StopThread
<1>4. \A v \in Recordings : Listening(v)' => Listening(v)
  BY <1>1 DEF Listening
<1>5. QED
  BY <1>1, <1>3, <1>4, HeardKept

LEMMA JobDoneHeard ==
  ASSUME FlagInv, HeardInv, NEW name, NEW u \in Recordings, NEW tasks \in Tasks, MainRuns(name, u, tasks),
         UNCHANGED <<mailbox, phase>>
  PROVE HeardInv'
<1>1. UNCHANGED <<mailbox, actor, phase, heard, Held>>
  BY DEF MainRuns, audio, Held
<1>2. ASSUME NEW v \in Recordings PROVE StopThread(v)'
  <2>1. StopThread(v)
    BY DEF HeardInv
  <2>2. /\ Snapshot(v)' => Snapshot(v)
        /\ Has(mainQueue', Job("onReady", v)) => Has(mainQueue, Job("onReady", v))
        /\ Once(mainQueue', Job("axSnapshot", v))
    BY <1>1, <2>1, MainTaken DEF StopThread
  <2>3. QED
    BY <1>1, <2>1, <2>2, ThreadKept DEF StopThread, Capture
<1>3. \A v \in Recordings : Listening(v)' => Listening(v)
  BY <1>1 DEF Listening
<1>4. QED
  BY <1>1, <1>2, <1>3, HeardKept

LEMMA OnReadyHeard ==
  ASSUME FlagInv, HeardInv, NEW u \in Recordings, NEW tasks \in Tasks, OnReady(u, tasks)
  PROVE HeardInv'
<1>1. /\ MainRuns("onReady", u, tasks) /\ MoveTo(u, "delivered") /\ UNCHANGED <<mailbox, actor, heard, Held>>
  BY DEF OnReady, MainRuns, audio, Held
<1>2. Has(mainQueue, Job("onReady", u))
  BY <1>1, MainTakes
<1>3. phase'[u] = "delivered" /\ \A v \in Recordings \ {u} : phase'[v] = phase[v]
  BY <1>1, PhaseMoved DEF Phases, Ends
<1>4. "delivered" \in After /\ phase[u] \in After /\ \A p \in After : p \notin {"recording", "stopping", "draining"}
  BY <1>2 DEF HeardInv, StopThread, After, Stages, Ends
<1>5. ASSUME NEW v \in Recordings PROVE StopThread(v)'
  <2>1. StopThread(v)
    BY DEF HeardInv
  <2>2. /\ Snapshot(v)' => Snapshot(v)
        /\ Has(mainQueue', Job("onReady", v)) => Has(mainQueue, Job("onReady", v))
        /\ Once(mainQueue', Job("axSnapshot", v))
    BY <1>1, <2>1, MainTaken DEF StopThread
  <2>3. v = u => ~Capture(v) /\ ~Snapshot(v) /\ actor # Job("draining", v)
    BY <1>4, <2>1 DEF StopThread
  <2>4. Capture(v)' = Capture(v) /\ Once(mailbox', Job("stopCapture", v))
    BY <1>1, <2>1 DEF Capture, StopThread
  <2>5. QED
    BY <1>1, <1>3, <1>4, <2>1, <2>2, <2>3, <2>4, ThreadKept
<1>6. \A v \in Recordings : Listening(v)' => Listening(v)
  BY <1>1, <1>3, <1>4 DEF Listening
<1>7. QED
  BY <1>1, <1>5, <1>6, HeardKept

\* The microphone adds what is said, and a callback only moves it.
LEMMA MicrophoneHeld == AudioStep(Speaker) => Held' \subseteq Held \cup {Speaker}
<1>1. TapDelivers(Speaker) => Held' \subseteq Held \cup {Speaker}
  BY DEF TapDelivers, Held
<1>2. handleAudioBuffer => Held' \subseteq Held
  BY DEF handleAudioBuffer, Held
<1>3. ASSUME AudioStep(Speaker), ~TapDelivers(Speaker), ~handleAudioBuffer PROVE UNCHANGED <<pcmBuffer, inFlight>>
  BY <1>3 DEF AudioStep, DeviceChanged, DeviceReady, Notified, handleEngineConfigurationChange, RetryRestart, restartCapture,
     RestartStep, restartInstallsTap, engineRestarted, audio
<1>4. QED
  BY <1>1, <1>2, <1>3 DEF Held

\* Who speaks while a recording listens belongs to the last session, and that is this recording's or a later one.
LEMMA MicrophoneHeard ==
  ASSUME FlagInv, HeardInv, MicrophoneStep
  PROVE HeardInv'
<1>1. UNCHANGED <<mailbox, mainQueue, actor, phase, heard>> /\ AudioStep(Speaker)
  BY DEF MicrophoneStep, pipeline
<1>2. \A v \in Recordings : StopThread(v)' /\ (Listening(v)' <=> Listening(v))
  BY <1>1 DEF HeardInv, StopThread, Capture, Snapshot, Listening
<1>3. Held' \subseteq Held \cup {Speaker}
  BY <1>1, MicrophoneHeld
<1>4. ASSUME NEW v \in Recordings, Listening(v) PROVE Speaker \in v..MaxRecordings
  <2>1. phase[v] \in {"starting", "recording", "stopping", "draining"}
    BY <1>4 DEF Listening, FlagInv, PhaseInv
  <2>2. Speaker = current
    BY <2>1 DEF Speaker
  <2>3. v <= current /\ current \in 0..MaxRecordings /\ v \in Nat
    BY <2>1 DEF FlagInv, PhaseInv, Types, Recordings
  <2>4. QED
    BY <2>2, <2>3, AudioAssumption
<1>5. QED
  BY <1>1, <1>2, <1>3, <1>4 DEF HeardInv, NoStaleAudio

LEMMA HeardInvariant == ClientSpec => []HeardInv
<1>1. HeardInv /\ FlagInv /\ FlagInv' /\ [ClientNext]_pipelineVars => HeardInv'
  <2> SUFFICES ASSUME HeardInv, FlagInv, FlagInv', [ClientNext]_pipelineVars PROVE HeardInv'
    OBVIOUS
  <2>1. ASSUME NEW u \in Recordings, NEW started \in Tasks, ActorStep(u, started) PROVE HeardInv'
    BY <2>1, StartHeard, EngineHeard, StartReturnsHeard, StopHeard, StopCaptureHeard, CaptureStoppedHeard, StageHeard
       DEF ActorStep
  <2>2. ASSUME NEW u \in Recordings, NEW micOpen \in Tasks, NEW error \in Tasks, NEW ready \in Tasks,
               MainStep(u, micOpen, error, ready)
        PROVE HeardInv'
    <3>1. CASE OnMicOpen(u, micOpen)
      BY <3>1, ResumesHeard DEF OnMicOpen
    <3>2. CASE OnStartFailed(u, error)
      BY <3>2, ResumesHeard DEF OnStartFailed
    <3>3. CASE OnError(u, error)
      BY <3>3, JobDoneHeard DEF OnError
    <3>4. QED
      BY <2>2, <3>1, <3>2, <3>3, OnReadyHeard, SnapshotHeard DEF MainStep
  <2>3. ASSUME NEW u \in Recordings, NEW name \in AppNames, ClientJob(name, u) PROVE HeardInv'
    BY <2>3, JobDoneHeard, TaskTypes DEF ClientJob
  <2>4. CASE UNCHANGED pipelineVars
    BY <2>4 DEF pipelineVars, audio, pipeline, HeardInv, StopThread, Capture, Snapshot, Listening, NoStaleAudio, Held
  <2>5. QED
    BY <2>1, <2>2, <2>3, <2>4, OpensHeard, ClosesHeard, MicrophoneHeard DEF ClientNext
<1>2. QED
  BY <1>1, HeardInit, ClientInvariant, PTL DEF ClientSpec

LEMMA HeardSound == HeardInv => NoStaleAudio
  BY DEF HeardInv

\* However many recordings overlap, whatever restarts and failed starts come between, and however many callbacks of the tap
\* are late: what Whisper gets of a recording was said after that recording began, or comes from a callback that was under
\* way when the buffer was cleared. Code: startCapture's guard and clearing, reset, stopCapture, handleAudioBuffer.
THEOREM NothingStaleHeard == PipelineSpec => []NoStaleAudio
  BY HeardSound, HeardInvariant, NoClient, PTL
------------------------------------------------------------------------------
(* What stays in memory.                                                                                                   *)

\* Phases of a recording that has the buffer cleared when it leaves them.
Clears == {"starting", "recording", "stopping", "draining"}

\* What somebody said in a recording is in the buffer only while a recording is on its way to clear it.
BufferInv == Held \subseteq {Nobody} \/ \E u \in Recordings : phase[u] \in Clears

\* No recording leaves those phases.
LEMMA BufferKept ==
  ASSUME BufferInv, Held' \subseteq Held, \A v \in Recordings : phase[v] \in Clears => phase'[v] \in Clears
  PROVE BufferInv'
  BY DEF BufferInv

LEMMA ActorBuffer ==
  ASSUME FlagInv, BufferInv, NEW u \in Recordings, NEW started \in Tasks, ActorStep(u, started)
  PROVE BufferInv'
\* Only the recording at hand moves.
<1> DEFINE Goes(p) == phase'[u] = p /\ \A v \in Recordings \ {u} : phase'[v] = phase[v]
<1>1. \A p \in Phases : MoveTo(u, p) => Goes(p)
  BY PhaseMoved
<1>2. CASE StartRecording(u)
  <2>1. CASE Held' = {}
    BY <2>1 DEF BufferInv
  <2>2. CASE isRecording /\ MoveTo(u, "startIgnored")
    <3>1. PICK w \in Recordings : phase[w] = "recording"
      BY <2>2 DEF FlagInv, RecordingInv
    <3>2. phase[u] = "starting"
      BY <1>2, ActorTakes DEF StartRecording, Start, FlagInv, PhaseInv
    <3>3. phase'[w] = "recording"
      BY <1>1, <2>2, <3>1, <3>2 DEF Phases, Ends
    <3>4. QED
      BY <3>3 DEF BufferInv, Clears
  <2>3. QED
    BY ClearedHeld, <1>2, <2>1, <2>2 DEF StartRecording, installTap, reset, Held
<1>3. CASE EngineReturns(u)
  <2>1. CASE Held' = {}
    BY <2>1 DEF BufferInv
  <2>2. CASE MoveTo(u, "recording")
    <3>1. phase'[u] = "recording"
      BY <1>1, <2>2 DEF Phases
    <3>2. QED
      BY <3>1 DEF BufferInv, Clears
  <2>3. QED
    BY ClearedHeld, <1>3, <2>1, <2>2 DEF EngineReturns, reset, Held
<1>4. CASE StartReturns(u, started)
  BY <1>4, BufferKept DEF StartReturns, audio, Held
<1>5. CASE StopAndTranscribe(u)
  <2>1. phase' = phase \/ MoveTo(u, "stopping")
    BY <1>5 DEF StopAndTranscribe
  <2>2. \A v \in Recordings : phase[v] \in Clears => phase'[v] \in Clears
    BY <1>1, <2>1 DEF Clears, Phases
  <2>3. QED
    BY <1>5, <2>2, BufferKept DEF StopAndTranscribe, audio, Held
<1>6. CASE StopCapture(u)
  <2>1. CASE Held' = {}
    BY <2>1 DEF BufferInv
  <2>2. CASE MoveTo(u, "draining")
    <3>1. phase'[u] = "draining"
      BY <1>1, <2>2 DEF Phases
    <3>2. QED
      BY <3>1 DEF BufferInv, Clears
  <2>3. QED
    BY ClearedHeld, <1>6, <2>1, <2>2 DEF StopCapture, reset, Held
<1>7. CASE CaptureStopped(u)
  BY ClearedHeld, <1>7 DEF CaptureStopped, reset, BufferInv, Held
<1>8. CASE StageReturns(u)
  <2>1. UNCHANGED Held /\ phase[u] \in Stages
    BY <1>8 DEF StageReturns, Transcribed, CleanedUp, Dispatched, Persisted, Leaves, audio, Stages, Held
  <2>2. \E p \in {"failed", "noise", "cleanup", "output", "persist", "ready"} : MoveTo(u, p)
    BY <1>8 DEF StageReturns, Transcribed, CleanedUp, Dispatched, Persisted
  <2>3. \A v \in Recordings \ {u} : phase'[v] = phase[v]
    BY <1>1, <2>2 DEF Phases, Ends, Stages
  <2>4. QED
    BY <2>1, <2>3, BufferKept DEF Clears, Stages
<1>9. QED
  BY <1>2, <1>3, <1>4, <1>5, <1>6, <1>7, <1>8 DEF ActorStep

LEMMA MainBuffer ==
  ASSUME FlagInv, HeardInv, BufferInv, NEW u \in Recordings, NEW micOpen \in Tasks, NEW error \in Tasks, NEW ready \in Tasks,
         MainStep(u, micOpen, error, ready)
  PROVE BufferInv'
<1>1. CASE OnReady(u, ready)
  <2>1. MainRuns("onReady", u, ready) /\ MoveTo(u, "delivered") /\ UNCHANGED Held
    BY <1>1 DEF OnReady, MainRuns, audio, Held
  <2>2. \A v \in Recordings \ {u} : phase'[v] = phase[v]
    BY <2>1, PhaseMoved DEF Phases, Ends
  <2>3. phase[u] \notin Clears
    BY <2>1, MainTakes, MainTypes DEF HeardInv, StopThread, After, Stages, Ends, Clears
  <2>4. QED
    BY <2>1, <2>2, <2>3, BufferKept
<1>2. CASE UNCHANGED <<Held, phase>>
  BY <1>2, BufferKept
<1>3. QED
  BY <1>1, <1>2 DEF MainStep, OnMicOpen, OnStartFailed, OnError, AxSnapshot, MainResumes, MainRuns, audio, Held

LEMMA MicrophoneBuffer ==
  ASSUME BufferInv, MicrophoneStep
  PROVE BufferInv'
<1>1. UNCHANGED phase /\ Held' \subseteq Held \cup {Speaker}
  BY MicrophoneHeld DEF MicrophoneStep, pipeline
<1>2. Speaker = Nobody \/ \E u \in Recordings : phase[u] \in Clears
  BY DEF Speaker, Clears
<1>3. QED
  BY <1>1, <1>2 DEF BufferInv

LEMMA BufferInvariant == ClientSpec => []BufferInv
<1>1. PipelineInit => BufferInv
  BY DEF PipelineInit, AudioInit, BufferInv, Held
<1>2. BufferInv /\ FlagInv /\ HeardInv /\ [ClientNext]_pipelineVars => BufferInv'
  <2> SUFFICES ASSUME BufferInv, FlagInv, HeardInv, [ClientNext]_pipelineVars PROVE BufferInv'
    OBVIOUS
  <2>1. ASSUME NEW u \in Recordings, SessionOpens(u) PROVE BufferInv'
    <3>1. phase'[u] = "starting"
      BY <2>1, PhaseMoved DEF SessionOpens, Phases
    <3>2. QED
      BY <3>1 DEF BufferInv, Clears
  <2>2. CASE SessionCloses \/ UNCHANGED pipelineVars \/ \E u \in Recordings, name \in AppNames : ClientJob(name, u)
    BY <2>2, BufferKept DEF SessionCloses, ClientJob, MainRuns, pipelineVars, pipeline, audio, Held
  <2>3. QED
    BY <2>1, <2>2, ActorBuffer, MainBuffer, MicrophoneBuffer DEF ClientNext
<1>3. QED
  BY <1>1, <1>2, ClientInvariant, HeardInvariant, PTL DEF ClientSpec

LEMMA Cleared == FlagInv /\ BufferInv => NothingLeftBehind
<1> SUFFICES ASSUME FlagInv, BufferInv, AtRest, NEW u \in Recordings, phase[u] \in Clears PROVE FALSE
  BY DEF NothingLeftBehind, BufferInv, Held
<1>1. phase[u] = "starting"
  BY DEF AtRest, Clears, Ends
<1>2. Len(mailbox) = 0 /\ \A j : ~Has(mailbox, j)
  BY DEF AtRest, Has
<1>3. actor # Job("opening", u)
  BY JobFacts DEF AtRest, Free, Job
<1>4. QED
  BY <1>1, <1>2, <1>3 DEF FlagInv, PhaseInv

\* When every call is through, no recording is on its way any more: what is still to start has a job in the queue. So nothing
\* said in a recording is in the buffer or under way to it, but for callbacks that the last clearing overtook. Code:
\* stopCapture, and the reset on every early return.
THEOREM MemoryIsCleared == PipelineSpec => []NothingLeftBehind
  BY Cleared, ClientInvariant, BufferInvariant, NoClient, PTL
------------------------------------------------------------------------------
(* While the devices stay as they are.                                                                                     *)

\* A recording whose stop is still to close the microphone.
Opens == {"recording", "stopping", "draining"}
OpenInv == isCapturing \in BOOLEAN /\ (isCapturing = TRUE => \E u \in Recordings : phase[u] \in Opens)
DeviceInv == ~restartWorkItem /\ retries = 0 /\ restart = "no" /\ notices = 0 /\ deviceEvents = 0

LEMMA OpenKept ==
  ASSUME OpenInv, isCapturing' \in {isCapturing, FALSE}, \A v \in Recordings : phase[v] \in Opens => phase'[v] \in Opens
  PROVE OpenInv'
  BY DEF OpenInv

LEMMA ActorOpen ==
  ASSUME FlagInv, OpenInv, NEW u \in Recordings, NEW started \in Tasks, ActorStep(u, started)
  PROVE OpenInv'
<1> DEFINE Goes(p) == phase'[u] = p /\ \A v \in Recordings \ {u} : phase'[v] = phase[v]
<1>1. \A p \in Phases : MoveTo(u, p) => Goes(p)
  BY PhaseMoved
<1>2. CASE StartRecording(u)
  <2>1. isCapturing' \in {isCapturing, FALSE} /\ (phase' = phase \/ MoveTo(u, "startIgnored") \/ MoveTo(u, "startFailed"))
    BY <1>2 DEF StartRecording, audio, installTap, reset
  <2>2. phase[u] = "starting"
    BY <1>2, ActorTakes DEF StartRecording, Start, FlagInv, PhaseInv
  <2>3. \A v \in Recordings \ {u} : phase'[v] = phase[v]
    BY <1>1, <2>1 DEF Phases, Ends
  <2>4. QED
    BY <2>1, <2>2, <2>3, OpenKept DEF Opens
<1>3. CASE EngineReturns(u)
  <2>1. CASE isCapturing' = FALSE
    BY <2>1 DEF OpenInv
  <2>2. CASE MoveTo(u, "recording") /\ isCapturing' = TRUE
    <3>1. phase'[u] = "recording"
      BY <1>1, <2>2 DEF Phases
    <3>2. QED
      BY <2>2, <3>1 DEF OpenInv, Opens
  <2>3. QED
    BY <1>3, <2>1, <2>2 DEF EngineReturns, engineStarted, reset
<1>4. CASE StartReturns(u, started)
  BY <1>4, OpenKept DEF StartReturns, audio
<1>5. CASE StopAndTranscribe(u)
  <2>1. phase' = phase \/ MoveTo(u, "stopping")
    BY <1>5 DEF StopAndTranscribe
  <2>2. \A v \in Recordings : phase[v] \in Opens => phase'[v] \in Opens
    BY <1>1, <2>1 DEF Opens, Phases
  <2>3. QED
    BY <1>5, <2>2, OpenKept DEF StopAndTranscribe, audio
<1>6. CASE StopCapture(u)
  <2>1. CASE isCapturing' = FALSE
    BY <2>1 DEF OpenInv
  <2>2. CASE MoveTo(u, "draining") /\ UNCHANGED isCapturing
    <3>1. phase'[u] = "draining"
      BY <1>1, <2>2 DEF Phases
    <3>2. QED
      BY <2>2, <3>1 DEF OpenInv, Opens
  <2>3. QED
    BY <1>6, <2>1, <2>2 DEF StopCapture, audio, reset
<1>7. CASE CaptureStopped(u)
  BY <1>7 DEF CaptureStopped, reset, OpenInv
<1>8. CASE StageReturns(u)
  <2>1. UNCHANGED isCapturing /\ phase[u] \in Stages
    BY <1>8 DEF StageReturns, Transcribed, CleanedUp, Dispatched, Persisted, Leaves, audio, Stages
  <2>2. \E p \in {"failed", "noise", "cleanup", "output", "persist", "ready"} : MoveTo(u, p)
    BY <1>8 DEF StageReturns, Transcribed, CleanedUp, Dispatched, Persisted
  <2>3. \A v \in Recordings \ {u} : phase'[v] = phase[v]
    BY <1>1, <2>2 DEF Phases, Ends, Stages
  <2>4. QED
    BY <2>1, <2>3, OpenKept DEF Opens, Stages
<1>9. QED
  BY <1>2, <1>3, <1>4, <1>5, <1>6, <1>7, <1>8 DEF ActorStep

LEMMA MainOpen ==
  ASSUME FlagInv, HeardInv, OpenInv, NEW u \in Recordings, NEW micOpen \in Tasks, NEW error \in Tasks, NEW ready \in Tasks,
         MainStep(u, micOpen, error, ready)
  PROVE OpenInv'
<1>1. CASE OnReady(u, ready)
  <2>1. MainRuns("onReady", u, ready) /\ MoveTo(u, "delivered") /\ UNCHANGED isCapturing
    BY <1>1 DEF OnReady, MainRuns, audio
  <2>2. \A v \in Recordings \ {u} : phase'[v] = phase[v]
    BY <2>1, PhaseMoved DEF Phases, Ends
  <2>3. phase[u] \notin Opens
    BY <2>1, MainTakes, MainTypes DEF HeardInv, StopThread, After, Stages, Ends, Opens
  <2>4. QED
    BY <2>1, <2>2, <2>3, OpenKept
<1>2. CASE UNCHANGED <<isCapturing, phase>>
  BY <1>2, OpenKept
<1>3. QED
  BY <1>1, <1>2 DEF MainStep, OnMicOpen, OnStartFailed, OnError, AxSnapshot, MainResumes, MainRuns, audio

\* No device changes, so nothing is ever restarted.
LEMMA DeviceStep ==
  ASSUME MaxDeviceEvents = 0, DeviceInv, ClientNext
  PROVE DeviceInv' /\ (MicrophoneStep => UNCHANGED <<isCapturing, phase>>)
<1>1. CASE MicrophoneStep
  BY <1>1 DEF MicrophoneStep, AudioStep, TapDelivers, handleAudioBuffer, DeviceChanged, DeviceReady, Notified, RetryRestart,
     restartCapture, RestartStep, restartInstallsTap, engineRestarted, device, audio, pipeline, DeviceInv
<1>2. ASSUME ~MicrophoneStep PROVE UNCHANGED device
  <2>1. ASSUME NEW u \in Recordings, NEW started \in Tasks, ActorStep(u, started) PROVE UNCHANGED device
    BY <2>1 DEF ActorStep, StartRecording, EngineReturns, StartReturns, StopAndTranscribe, StopCapture, CaptureStopped,
       StageReturns, Transcribed, CleanedUp, Dispatched, Persisted, Leaves, device
  <2>2. ASSUME NEW u \in Recordings, NEW micOpen \in Tasks, NEW error \in Tasks, NEW ready \in Tasks,
               MainStep(u, micOpen, error, ready)
        PROVE UNCHANGED device
    BY <2>2 DEF MainStep, OnMicOpen, OnStartFailed, OnError, OnReady, AxSnapshot, MainResumes, MainRuns, device
  <2>3. ASSUME NEW u \in Recordings, NEW name \in AppNames, ClientJob(name, u) PROVE UNCHANGED device
    BY <2>3 DEF ClientJob, MainRuns, device
  <2>4. QED
    BY <1>2, <2>1, <2>2, <2>3 DEF ClientNext, SessionOpens, SessionCloses, device
<1>3. QED
  BY <1>1, <1>2 DEF DeviceInv, device

LEMMA OpenInvariant == MaxDeviceEvents = 0 /\ ClientSpec => []OpenInv
<1> SUFFICES ASSUME MaxDeviceEvents = 0 PROVE ClientSpec => []OpenInv
  OBVIOUS
<1>1. PipelineInit => OpenInv /\ DeviceInv
  BY DEF PipelineInit, AudioInit, OpenInv, DeviceInv
<1>2. OpenInv /\ DeviceInv /\ FlagInv /\ HeardInv /\ [ClientNext]_pipelineVars => OpenInv' /\ DeviceInv'
  <2> SUFFICES ASSUME OpenInv, DeviceInv, FlagInv, HeardInv, [ClientNext]_pipelineVars
               PROVE OpenInv' /\ DeviceInv'
    OBVIOUS
  <2>1. CASE UNCHANGED pipelineVars
    BY <2>1 DEF pipelineVars, pipeline, audio, device, OpenInv, DeviceInv
  <2>2. CASE ClientNext
    <3>1. DeviceInv' /\ (MicrophoneStep => OpenInv')
      BY <2>2, DeviceStep, OpenKept
    <3>2. ASSUME NEW u \in Recordings, SessionOpens(u) PROVE OpenInv'
      <4>1. phase[u] = "none" /\ UNCHANGED isCapturing
        BY <3>2 DEF SessionOpens, FlagInv, Types, PhaseInv, audio
      <4>2. \A v \in Recordings \ {u} : phase'[v] = phase[v]
        BY <3>2, PhaseMoved DEF SessionOpens, Phases
      <4>3. QED
        BY <4>1, <4>2, OpenKept DEF Opens
    <3>3. ASSUME SessionCloses \/ \E u \in Recordings, name \in AppNames : ClientJob(name, u) PROVE OpenInv'
      BY <3>3, OpenKept DEF SessionCloses, ClientJob, MainRuns, audio
    <3>4. ASSUME NEW u \in Recordings, NEW started \in Tasks, ActorStep(u, started) PROVE OpenInv'
      BY <3>4, ActorOpen
    <3>5. ASSUME NEW u \in Recordings, NEW micOpen \in Tasks, NEW error \in Tasks, NEW ready \in Tasks,
                 MainStep(u, micOpen, error, ready)
          PROVE OpenInv'
      BY <3>5, MainOpen
    <3>6. QED
      BY <2>2, <3>1, <3>2, <3>3, <3>4, <3>5 DEF ClientNext
  <2>3. QED
    BY <2>1, <2>2
<1>3. QED
  BY <1>1, <1>2, ClientInvariant, HeardInvariant, PTL DEF ClientSpec

LEMMA Agree == OpenInv /\ FlagInv => FlagsAgreeAtRest
<1> SUFFICES ASSUME OpenInv, FlagInv, AtRest PROVE isCapturing = isRecording
  BY DEF FlagsAgreeAtRest
<1>1. \A u \in Recordings : phase[u] \notin Opens
  BY DEF AtRest, Opens, Ends
<1>2. isCapturing = FALSE
  BY <1>1 DEF OpenInv
<1>3. isRecording = FALSE
  BY <1>1 DEF FlagInv, Types, RecordingInv, Opens
<1>4. QED
  BY <1>2, <1>3

\* Whatever starts and stops overlap and fail: if no device changes, the microphone is closed when the calls are through and
\* the two flags agree. Code: "isCapturing and TranscriptionPipeline.isRecording always move together" (AudioCaptureService).
THEOREM FlagsAgree == MaxDeviceEvents = 0 /\ PipelineSpec => []FlagsAgreeAtRest
<1>1. CASE MaxDeviceEvents = 0
  BY <1>1, Agree, OpenInvariant, ClientInvariant, NoClient, PTL
<1>2. QED
  BY <1>1

\* The same for the whole app: the tasks that its handlers put on the main thread come between the pipeline's own jobs and
\* the callbacks, and neither the flag, nor what is heard, nor what stays in memory (overtaken callbacks excepted, in both)
\* depends on when they run. Code: main.swift's
\* onMicOpen, onError, onTranscriptionReady and the rest of onHandsFreeTranscription.
THEOREM AppKeepsPipeline == Spec => [](FlagFollowsRecording /\ NoStaleAudio /\ NothingLeftBehind)
  BY FlagFollowing, Cleared, HeardInvariant, HeardSound, ClientInvariant, BufferInvariant, AppIsClient, PTL

\* And so do the two flags: with the app's handlers in between, the microphone is closed when the calls are through. Code:
\* stopCapture and isRecording, with main.swift's callbacks.
THEOREM AppFlagsAgree == MaxDeviceEvents = 0 /\ Spec => []FlagsAgreeAtRest
<1>1. CASE MaxDeviceEvents = 0
  BY <1>1, Agree, OpenInvariant, ClientInvariant, AppIsClient, PTL
<1>2. QED
  BY <1>1
------------------------------------------------------------------------------
(* What the app shows when nothing is under way. The main thread and the actor serve their jobs in order, so that whatever *)
(* a start still has to do there is done before the stop that closes the session gets its samples.                         *)

None(q, S) == \A j \in S : ~Has(q, j)
Ahead(q, S, j) == \A i, k \in 1..Len(q) : q[i] \in S /\ q[k] = j => i < k

LEMMA AheadAppended ==
  ASSUME NEW T, NEW q \in Seq(T), NEW x \in T, NEW S, NEW j, j \notin S, Ahead(q, S, j), x \in S => ~Has(q, j)
  PROVE Ahead(Append(q, x), S, j)
<1> DEFINE r == Append(q, x)
<1>1. Len(r) = Len(q) + 1 /\ Len(q) \in Nat /\ r[Len(q) + 1] = x /\ \A i \in 1..Len(q) : r[i] = q[i]
  BY AppendProperties
<1> HIDE DEF r
<1>2. SUFFICES ASSUME NEW i \in 1..Len(r), NEW k \in 1..Len(r), r[i] \in S, r[k] = j PROVE i < k
  BY DEF Ahead, r
<1>3. CASE i = Len(q) + 1
  <2>1. k \in 1..Len(q) /\ q[k] = j
    BY <1>1, <1>2, <1>3
  <2>2. QED
    BY <1>1, <1>2, <1>3, <2>1 DEF Has
<1>4. CASE i \in 1..Len(q)
  BY <1>1, <1>2, <1>4 DEF Ahead
<1>5. QED
  BY <1>1, <1>3, <1>4

LEMMA AheadTaken ==
  ASSUME NEW T, NEW q \in Seq(T), q # << >>, NEW S, NEW j, Ahead(q, S, j)
  PROVE Ahead(Tail(q), S, j) /\ (j = Head(q) => None(Tail(q), S))
<1> DEFINE r == Tail(q)
<1>1. /\ Head(q) = q[1] /\ Len(q) \in Nat \ {0} /\ Len(r) = Len(q) - 1
      /\ \A i \in 1..Len(r) : i + 1 \in 1..Len(q) /\ r[i] = q[i + 1]
  BY HeadTailProperties, EmptySeq
<1> HIDE DEF r
<1>2. Ahead(r, S, j)
  <2> SUFFICES ASSUME NEW i \in 1..Len(r), NEW k \in 1..Len(r), r[i] \in S, r[k] = j PROVE i < k
    BY DEF Ahead
  <2>1. i + 1 < k + 1
    BY <1>1 DEF Ahead
  <2>2. QED
    BY <1>1, <2>1
<1>3. ASSUME j = Head(q), NEW i \in 1..Len(r), r[i] \in S PROVE FALSE
  <2>1. q[1] = j /\ q[i + 1] \in S /\ 1 \in 1..Len(q) /\ i + 1 \in 1..Len(q)
    BY <1>1, <1>3
  <2>2. i + 1 < 1
    BY <2>1 DEF Ahead
  <2>3. QED
    BY <1>1, <2>2
<1>4. QED
  BY <1>2, <1>3 DEF None, Has, r

LEMMA AheadConcatenated ==
  ASSUME NEW T, NEW q \in Seq(T), NEW t \in Seq(T), NEW S, NEW j, Ahead(q, S, j), None(t, S)
  PROVE Ahead(q \o t, S, j)
<1> DEFINE r == q \o t
<1>1. /\ Len(r) = Len(q) + Len(t) /\ Len(q) \in Nat /\ Len(t) \in Nat
      /\ \A i \in 1..Len(r) : r[i] = IF i <= Len(q) THEN q[i] ELSE t[i - Len(q)]
  BY ConcatProperties
<1> HIDE DEF r
<1>2. SUFFICES ASSUME NEW i \in 1..Len(r), NEW k \in 1..Len(r), r[i] \in S, r[k] = j PROVE i < k
  BY DEF Ahead, r
<1>3. i <= Len(q)
  <2>1. SUFFICES ASSUME ~(i <= Len(q)) PROVE FALSE
    OBVIOUS
  <2>2. i - Len(q) \in 1..Len(t) /\ t[i - Len(q)] = r[i]
    BY <1>1, <2>1
  <2>3. QED
    BY <1>2, <2>2 DEF None, Has
<1>4. CASE k <= Len(q)
  BY <1>1, <1>2, <1>3, <1>4 DEF Ahead
<1>5. QED
  BY <1>1, <1>3, <1>4

\* What a start still has to do on the main thread, and then on the actor.
OpenWork == Jobs({"onMicOpen", "startFailed"})
Returns == Jobs({"startReturns"})

\* While a session is open its recording is not being stopped.
OpenSession == session # "off" => phase[current] \in {"starting", "recording", "startIgnored", "startFailed"}

\* One onReady for each recording that has its text.
ReadyOnce(u) ==
  /\ Has(mainQueue, Job("onReady", u)) => phase[u] = "ready"
  /\ Once(mainQueue, Job("onReady", u))

\* The stop of the last session leaves the work of every start behind: its hop to the main thread waits behind the microphones
\* that opened, and its way back to the actor behind the starts that return.
Closed == session = "off" /\ current \in Recordings
Past == {"draining", "ready", "delivered"} \cup Stages
StopOrder ==
  Closed =>
    /\ phase[current] \in {"stopping"} \cup Past => \A v \in Recordings : phase[v] # "starting"
    /\ phase[current] = "stopping" =>
         /\ Ahead(mainQueue, OpenWork, Job("axSnapshot", current))
         /\ Has(mailbox, Job("stopCapture", current)) => None(mainQueue, OpenWork)
         /\ Ahead(mailbox, Returns, Job("stopCapture", current))
    /\ phase[current] \in Past => None(mainQueue, OpenWork) /\ None(mailbox, Returns)

Orderly == OpenSession /\ (\A u \in Recordings : ReadyOnce(u)) /\ StopOrder

LEMMA WorkFacts ==
  /\ OpenWork \subseteq MainJobs
  /\ \A u \in Recordings : Job("onMicOpen", u) \in OpenWork /\ Job("startFailed", u) \in OpenWork /\ Job("startReturns", u) \in Returns
  /\ \A name, u : name \notin {"onMicOpen", "startFailed"} => Job(name, u) \notin OpenWork
  /\ \A name, u : name # "startReturns" => Job(name, u) \notin Returns
  BY DEF OpenWork, Returns, MainJobs, Jobs, Job

\* The queues, for what Orderly says of them.
LEMMA BoxOrder ==
  ASSUME FlagInv, NEW name, NEW u \in Recordings, ActorRuns(name, u), NEW v
  PROVE /\ Ahead(mailbox, Returns, Job("stopCapture", v)) => Ahead(mailbox', Returns, Job("stopCapture", v))
        /\ Ahead(mailbox, Returns, Job("stopCapture", v)) /\ name = "stopCapture" /\ u = v => None(mailbox', Returns)
        /\ None(mailbox, Returns) => None(mailbox', Returns)
<1>1. mailbox \in Seq(ActorJobs) /\ mailbox # << >>
  BY DEF FlagInv, Types, ActorRuns
<1>2. Head(mailbox) = Job(name, u) /\ mailbox' = Tail(mailbox)
  BY DEF ActorRuns
<1>3. \A j : Has(mailbox', j) => Has(mailbox, j)
  BY ActorTakes
<1>4. QED
  BY <1>1, <1>2, <1>3, AheadTaken DEF None

LEMMA MainOrder ==
  ASSUME FlagInv, NEW name, NEW u \in Recordings, NEW tasks \in Tasks, MainRuns(name, u, tasks), NEW v \in Recordings
  PROVE /\ Ahead(mainQueue, OpenWork, Job("axSnapshot", v)) => Ahead(mainQueue', OpenWork, Job("axSnapshot", v))
        /\ Ahead(mainQueue, OpenWork, Job("axSnapshot", v)) /\ name = "axSnapshot" /\ u = v => None(mainQueue', OpenWork)
        /\ None(mainQueue, OpenWork) => None(mainQueue', OpenWork)
        /\ Once(mainQueue, Job("onReady", v)) => Once(mainQueue', Job("onReady", v))
        /\ Once(mainQueue, Job("onReady", v)) /\ name = "onReady" /\ u = v => ~Has(mainQueue', Job("onReady", v))
<1> DEFINE ax == Job("axSnapshot", v)
           ready == Job("onReady", v)
<1>1. mainQueue \in Seq(MainThreadJobs) /\ mainQueue # << >>
  BY DEF FlagInv, Types, MainRuns
<1>2. Tail(mainQueue) \in Seq(MainThreadJobs) /\ tasks \in Seq(MainThreadJobs)
  <2>1. AppJobs \subseteq MainThreadJobs
    BY DEF MainThreadJobs
  <2>2. tasks \in Seq(MainThreadJobs)
    BY <2>1 DEF Tasks
  <2>3. QED
    BY <1>1, <2>2, Taken
<1>3. mainQueue' = Tail(mainQueue) \o tasks /\ Head(mainQueue) = Job(name, u)
  BY DEF MainRuns
<1>4. None(tasks, OpenWork) /\ ~Has(tasks, ready)
  BY WorkFacts, MainTypes, TasksApart DEF None
<1>5. \A j : Has(mainQueue', j) <=> Has(Tail(mainQueue), j) \/ Has(tasks, j)
  BY <1>2, <1>3, Concatenated
<1>6. Ahead(mainQueue, OpenWork, ax) => Ahead(Tail(mainQueue), OpenWork, ax) /\ (ax = Job(name, u) => None(Tail(mainQueue), OpenWork))
  BY <1>1, <1>3, AheadTaken
<1>7. Ahead(Tail(mainQueue), OpenWork, ax) => Ahead(mainQueue', OpenWork, ax)
  BY <1>2, <1>3, <1>4, AheadConcatenated
<1>8. Once(mainQueue, ready) => Once(Tail(mainQueue), ready) /\ (ready = Job(name, u) => ~Has(Tail(mainQueue), ready))
  BY <1>1, <1>3, OnceTaken
<1>9. Once(Tail(mainQueue), ready) => Once(mainQueue', ready)
  BY <1>2, <1>3, <1>4, OnceConcatenated
<1>10. None(mainQueue, OpenWork) => None(mainQueue', OpenWork)
  BY MainTakes, WorkFacts DEF None
<1>11. None(Tail(mainQueue), OpenWork) => None(mainQueue', OpenWork)
  BY <1>4, <1>5 DEF None
<1>12. QED
  BY <1>4, <1>5, <1>6, <1>7, <1>8, <1>9, <1>10, <1>11

LEMMA MainCalledOrder ==
  ASSUME FlagInv, NEW name \in {"onMicOpen", "onError", "startFailed", "axSnapshot", "onReady"}, NEW u \in Recordings,
         CallMain(name, u), NEW v \in Recordings
  PROVE /\ name \notin {"onMicOpen", "startFailed"} =>
             /\ Ahead(mainQueue, OpenWork, Job("axSnapshot", v)) => Ahead(mainQueue', OpenWork, Job("axSnapshot", v))
             /\ None(mainQueue, OpenWork) => None(mainQueue', OpenWork)
        /\ name # "onReady" \/ u # v =>
             /\ Once(mainQueue, Job("onReady", v)) => Once(mainQueue', Job("onReady", v))
             /\ Has(mainQueue', Job("onReady", v)) => Has(mainQueue, Job("onReady", v))
        /\ ~Has(mainQueue, Job("onReady", v)) => Once(mainQueue', Job("onReady", v))
<1> DEFINE j == Job(name, u)
           ready == Job("onReady", v)
<1>1. mainQueue \in Seq(MainThreadJobs) /\ j \in MainThreadJobs /\ mainQueue' = Append(mainQueue, j)
  BY MainTypes DEF FlagInv, Types, CallMain, MainThreadJobs
<1>2. \A i : Has(mainQueue', i) <=> Has(mainQueue, i) \/ i = j
  BY MainCalled
<1>3. ASSUME name \notin {"onMicOpen", "startFailed"}
      PROVE /\ Ahead(mainQueue, OpenWork, Job("axSnapshot", v)) => Ahead(mainQueue', OpenWork, Job("axSnapshot", v))
            /\ None(mainQueue, OpenWork) => None(mainQueue', OpenWork)
  <2>1. j \notin OpenWork /\ Job("axSnapshot", v) \notin OpenWork
    BY <1>3, WorkFacts
  <2>2. Ahead(mainQueue, OpenWork, Job("axSnapshot", v)) => Ahead(mainQueue', OpenWork, Job("axSnapshot", v))
    BY <1>1, <2>1, AheadAppended
  <2>3. QED
    BY <1>2, <2>1, <2>2 DEF None
<1>4. Once(mainQueue, ready) /\ (ready = j => ~Has(mainQueue, ready)) => Once(mainQueue', ready)
  BY <1>1, OnceAppended
<1>5. name # "onReady" \/ u # v => ready # j
  BY JobFacts
<1>6. ~Has(mainQueue, ready) => Once(mainQueue, ready)
  BY DEF Has, Once
<1>7. QED
  BY <1>2, <1>3, <1>4, <1>5, <1>6

\* Steps after which less is under way.
LEMMA OrderKept ==
  ASSUME FlagInv, StopOrder, UNCHANGED <<session, current>>,
         \A v \in Recordings : phase'[v] = "starting" => phase[v] = "starting",
         Closed => /\ phase'[current] = "stopping" => phase[current] = "stopping"
                   /\ phase'[current] \in Past => phase[current] \in Past
                   /\ Ahead(mainQueue, OpenWork, Job("axSnapshot", current)) => Ahead(mainQueue', OpenWork, Job("axSnapshot", current))
                   /\ Ahead(mailbox, Returns, Job("stopCapture", current)) => Ahead(mailbox', Returns, Job("stopCapture", current))
                   /\ Has(mailbox', Job("stopCapture", current)) => Has(mailbox, Job("stopCapture", current)),
         None(mainQueue, OpenWork) => None(mainQueue', OpenWork),
         None(mailbox, Returns) => None(mailbox', Returns)
  PROVE StopOrder'
<1> SUFFICES ASSUME Closed' PROVE StopOrder'
  BY DEF StopOrder
<1>1. Closed
  BY DEF Closed
<1>2. QED
  BY <1>1 DEF StopOrder

LEMMA OpensOrderly ==
  ASSUME FlagInv, Orderly, NEW u \in Recordings, SessionOpens(u)
  PROVE Orderly'
<1>1. /\ u = current + 1 /\ current' = u /\ session' \in {"ptt", "handsFree"} /\ MoveTo(u, "starting") /\ UNCHANGED mainQueue
  BY DEF SessionOpens, Gestures!OpenPtt, Gestures!OpenHandsFree
<1>2. phase[u] = "none"
  BY <1>1 DEF FlagInv, Types, PhaseInv
<1>3. phase'[u] = "starting" /\ \A v \in Recordings \ {u} : phase'[v] = phase[v]
  BY <1>1, PhaseMoved DEF Phases
<1>4. \A v \in Recordings : ReadyOnce(v)'
  BY <1>1, <1>2, <1>3 DEF Orderly, ReadyOnce
<1>5. QED
  BY <1>1, <1>3, <1>4 DEF Orderly, OpenSession, StopOrder, Closed

LEMMA ClosesOrderly ==
  ASSUME FlagInv, Orderly, SessionCloses
  PROVE Orderly'
<1>1. session # "off" /\ session' = "off" /\ UNCHANGED <<current, mainQueue, phase>>
  BY DEF SessionCloses, Gestures!ClosePtt, Gestures!CloseHandsFree
<1>2. phase[current] \notin {"stopping"} \cup Past
  BY <1>1 DEF Orderly, OpenSession, Past, Stages
<1>3. \A v \in Recordings : ReadyOnce(v)'
  BY <1>1 DEF Orderly, ReadyOnce
<1>4. QED
  BY <1>1, <1>2, <1>3 DEF Orderly, OpenSession, StopOrder, Past

\* A start is served, or its engine answers: then no stop of the last session is under way.
LEMMA StartOrderly ==
  ASSUME FlagInv, Orderly, NEW u \in Recordings, StartRecording(u) \/ EngineReturns(u)
  PROVE Orderly'
<1>1. /\ UNCHANGED <<session, current>>
      /\ \/ phase' = phase
         \/ MoveTo(u, "startIgnored") \/ MoveTo(u, "startFailed") \/ MoveTo(u, "recording")
      /\ mainQueue' = mainQueue \/ CallMain("startFailed", u) \/ CallMain("onMicOpen", u)
  BY DEF StartRecording, EngineReturns, gesture
<1>2. phase[u] = "starting"
  <2>1. StartRecording(u) => Has(mailbox, Start(u))
    BY ActorTakes DEF StartRecording, Start
  <2>2. EngineReturns(u) => actor = Job("opening", u)
    BY DEF EngineReturns
  <2>3. QED
    BY <2>1, <2>2 DEF FlagInv, PhaseInv
<1>3. /\ phase'[u] \in {"starting", "startIgnored", "startFailed", "recording"}
      /\ \A v \in Recordings \ {u} : phase'[v] = phase[v]
  BY <1>1, <1>2, PhaseMoved DEF Phases, Ends
<1>4. OpenSession'
  BY <1>1, <1>3 DEF Orderly, OpenSession, FlagInv, Types
<1>5. ASSUME NEW v \in Recordings PROVE ReadyOnce(v)'
  <2>1. ReadyOnce(v)
    BY DEF Orderly
  <2>2. Once(mainQueue', Job("onReady", v)) /\ (Has(mainQueue', Job("onReady", v)) => Has(mainQueue, Job("onReady", v)))
    BY <1>1, <2>1, MainCalledOrder DEF ReadyOnce
  <2>3. QED
    BY <1>2, <1>3, <2>1, <2>2 DEF ReadyOnce
<1>6. StopOrder'
  <2>1. SUFFICES ASSUME Closed' PROVE phase'[current] \notin {"stopping"} \cup Past
    BY <1>1 DEF StopOrder
  <2>2. Closed /\ current \in Recordings
    BY <1>1, <2>1 DEF Closed
  <2>3. phase[current] \notin {"stopping"} \cup Past
    BY <1>2, <2>2 DEF Orderly, StopOrder
  <2>4. QED
    BY <1>3, <2>2, <2>3 DEF Past, Stages
<1>7. QED
  BY <1>4, <1>5, <1>6 DEF Orderly

LEMMA StartReturnsOrderly ==
  ASSUME FlagInv, Orderly, NEW u \in Recordings, NEW tasks \in Tasks, StartReturns(u, tasks)
  PROVE Orderly'
<1>1. ActorRuns("startReturns", u) /\ UNCHANGED <<session, current, phase>> /\ mainQueue' = mainQueue \o tasks
  BY DEF StartReturns, gesture
<1>2. mainQueue \in Seq(MainThreadJobs) /\ tasks \in Seq(MainThreadJobs)
  <2>1. AppJobs \subseteq MainThreadJobs
    BY DEF MainThreadJobs
  <2>2. QED
    BY <2>1 DEF FlagInv, Types, Tasks
<1>3. None(tasks, OpenWork) /\ \A v \in Recordings : ~Has(tasks, Job("onReady", v))
  BY WorkFacts, MainTypes, TasksApart DEF None
<1>4. \A j \in MainJobs : Has(mainQueue', j) <=> Has(mainQueue, j)
  BY StartReturnsMain
<1>5. ASSUME NEW v \in Recordings PROVE ReadyOnce(v)'
  <2>1. ReadyOnce(v)
    BY DEF Orderly
  <2>2. Once(mainQueue', Job("onReady", v))
    BY <1>1, <1>2, <1>3, <2>1, OnceConcatenated DEF ReadyOnce
  <2>3. QED
    BY <1>1, <1>4, <2>1, <2>2, MainTypes DEF ReadyOnce
<1>6. \A v : Ahead(mainQueue, OpenWork, Job("axSnapshot", v)) => Ahead(mainQueue', OpenWork, Job("axSnapshot", v))
  BY <1>1, <1>2, <1>3, AheadConcatenated
<1>7. None(mainQueue, OpenWork) => None(mainQueue', OpenWork)
  BY <1>4, WorkFacts DEF None
<1>8. \A v : Has(mailbox', Job("stopCapture", v)) => Has(mailbox, Job("stopCapture", v))
  BY <1>1, ActorTakes
<1>9. StopOrder'
  BY <1>1, <1>6, <1>7, <1>8, BoxOrder, OrderKept DEF Orderly
<1>10. QED
  BY <1>1, <1>5, <1>9 DEF Orderly, OpenSession

\* A stop that finds a recording: it is its own, and no start waits any more.
LEMMA StopOrderly ==
  ASSUME FlagInv, FlagInv', HeardInv, Orderly, NEW u \in Recordings, StopAndTranscribe(u)
  PROVE Orderly'
<1>1. ActorRuns("stopAndTranscribe", u) /\ UNCHANGED <<session, current, actor>> /\ actor = Free /\ isRecording' = FALSE
  BY DEF StopAndTranscribe, ActorRuns, gesture
<1>2. \A v : Has(mailbox', Job("stopCapture", v)) => Has(mailbox, Job("stopCapture", v))
  BY <1>1, ActorTakes
<1>3. CASE ~isRecording
  <2>1. UNCHANGED <<mainQueue, phase>>
    BY <1>3 DEF StopAndTranscribe
  <2>2. StopOrder'
    BY <1>1, <1>2, <2>1, BoxOrder, OrderKept DEF Orderly
  <2>3. QED
    BY <1>1, <2>1, <2>2 DEF Orderly, OpenSession, ReadyOnce
<1>4. CASE isRecording
  <2>1. MoveTo(u, "stopping") /\ CallMain("axSnapshot", u)
    BY <1>4 DEF StopAndTranscribe
  <2>2. phase'[u] = "stopping" /\ \A v \in Recordings \ {u} : phase'[v] = phase[v]
    BY <2>1, PhaseMoved DEF Phases
  <2>3. phase[u] = "recording"
    <3>1. PICK w \in Recordings : phase[w] = "recording"
      BY <1>4 DEF FlagInv, RecordingInv
    <3>2. phase'[w] # "recording"
      BY <1>1 DEF FlagInv, RecordingInv
    <3>3. QED
      BY <2>2, <3>1, <3>2
  <2>4. Has(mailbox, Stop(u)) /\ Stop(u) \in ActorJobs /\ \A j : Has(mailbox', j) /\ Edge(j) => 2 * u + 1 < Key(j)
    BY <1>1, ActorTakes, JobFacts DEF Stop
  <2>5. u \in Nat /\ current \in Nat /\ 2 * u + 1 <= Latest
    BY <2>4, JobFacts DEF FlagInv, Types, OrderInv, Recordings
  <2>6. OpenSession'
    <3>1. session # "off" => u # current
      BY <2>5 DEF Latest
    <3>2. QED
      BY <1>1, <2>2, <3>1 DEF Orderly, OpenSession, FlagInv, Types
  <2>7. ASSUME NEW v \in Recordings PROVE ReadyOnce(v)'
    <3>1. ReadyOnce(v)
      BY DEF Orderly
    <3>2. Once(mainQueue', Job("onReady", v)) /\ (Has(mainQueue', Job("onReady", v)) => Has(mainQueue, Job("onReady", v)))
      BY <2>1, <3>1, MainCalledOrder DEF ReadyOnce
    <3>3. QED
      BY <2>2, <2>3, <3>1, <3>2 DEF ReadyOnce
  <2>8. CASE u = current /\ session = "off"
    <3>1. ASSUME NEW v \in Recordings PROVE phase'[v] # "starting"
      <4>1. ~Has(mailbox', Start(v))
        <5>1. Has(mailbox', Start(v)) => 2 * u + 1 < 2 * v /\ 2 * v <= Latest'
          BY <2>4, JobFacts, JobTypes DEF FlagInv, OrderInv
        <5>2. Latest' = 2 * u + 1
          BY <1>1, <2>8 DEF Latest
        <5>3. v \in Nat
          BY DEF Recordings
        <5>4. QED
          BY <2>5, <5>1, <5>2, <5>3
      <4>2. actor' # Job("opening", v)
        BY <1>1, JobFacts DEF Free, Job
      <4>3. QED
        BY <4>1, <4>2 DEF FlagInv, PhaseInv
    <3>2. ~Snapshot(u) /\ ~Capture(u)
      BY <2>3 DEF HeardInv, StopThread
    <3>3. Ahead(mainQueue', OpenWork, Job("axSnapshot", u))
      <4>1. Ahead(mainQueue, OpenWork, Job("axSnapshot", u))
        BY <3>2 DEF Ahead, Snapshot, Has
      <4>2. QED
        BY <2>1, <4>1, MainCalledOrder
    <3>4. ~Has(mailbox', Job("stopCapture", u))
      BY <1>2, <3>2 DEF Capture
    <3>5. Ahead(mailbox', Returns, Job("stopCapture", u))
      BY <3>4 DEF Ahead, Has
    <3>6. "stopping" \notin Past
      BY DEF Past, Stages
    <3>7. StopOrder'
      BY <1>1, <2>2, <2>8, <3>1, <3>3, <3>4, <3>5, <3>6 DEF StopOrder, Closed
    <3>8. QED
      BY <2>6, <2>7, <3>7 DEF Orderly
  <2>9. CASE ~(u = current /\ session = "off")
    <3>1. Closed => u # current
      BY <2>9 DEF Closed
    <3>2. StopOrder'
      BY <1>1, <1>2, <2>1, <2>2, <3>1, BoxOrder, MainCalledOrder, OrderKept DEF Orderly, Closed
    <3>3. QED
      BY <2>6, <2>7, <3>2 DEF Orderly
  <2>10. QED
    BY <2>8, <2>9
<1>5. QED
  BY <1>3, <1>4 DEF FlagInv, Types

LEMMA StopCaptureOrderly ==
  ASSUME FlagInv, HeardInv, Orderly, NEW u \in Recordings, StopCapture(u)
  PROVE Orderly'
<1>1. /\ ActorRuns("stopCapture", u) /\ UNCHANGED <<session, current, mainQueue>>
      /\ MoveTo(u, "draining") \/ MoveTo(u, "unheard")
  BY DEF StopCapture, gesture
<1>2. Has(mailbox, Job("stopCapture", u)) /\ phase[u] = "stopping"
  BY <1>1, ActorTakes DEF HeardInv, StopThread, Capture
<1>3. phase'[u] \in {"draining", "unheard"} /\ \A v \in Recordings \ {u} : phase'[v] = phase[v]
  BY <1>1, PhaseMoved DEF Phases, Ends
<1>4. \A v : Has(mailbox', Job("stopCapture", v)) => Has(mailbox, Job("stopCapture", v))
  BY <1>1, ActorTakes
<1>5. OpenSession'
  <2>1. session # "off" => u # current
    BY <1>2 DEF Orderly, OpenSession
  <2>2. QED
    BY <1>1, <1>3, <2>1 DEF Orderly, OpenSession, FlagInv, Types
<1>6. \A v \in Recordings : ReadyOnce(v)'
  BY <1>1, <1>2, <1>3 DEF Orderly, ReadyOnce
<1>7. CASE Closed /\ u = current
  <2>1. (\A v \in Recordings : phase[v] # "starting") /\ None(mainQueue, OpenWork)
    BY <1>2, <1>7 DEF Orderly, StopOrder
  <2>2. None(mailbox', Returns)
    BY <1>1, <1>2, <1>7, BoxOrder DEF Orderly, StopOrder
  <2>3. (\A v \in Recordings : phase'[v] # "starting") /\ phase'[current] # "stopping"
    BY <1>3, <1>7, <2>1
  <2>4. StopOrder'
    BY <1>1, <2>1, <2>2, <2>3 DEF StopOrder
  <2>5. QED
    BY <1>5, <1>6, <2>4 DEF Orderly
<1>8. CASE ~(Closed /\ u = current)
  <2>1. StopOrder'
    BY <1>1, <1>2, <1>3, <1>4, <1>8, BoxOrder, OrderKept DEF Orderly, Closed
  <2>2. QED
    BY <1>5, <1>6, <2>1 DEF Orderly
<1>9. QED
  BY <1>7, <1>8

LEMMA StageOrderly ==
  ASSUME FlagInv, HeardInv, Orderly, NEW u \in Recordings, CaptureStopped(u) \/ StageReturns(u)
  PROVE Orderly'
<1>1. /\ UNCHANGED <<session, current, mailbox>> /\ phase[u] \in {"draining"} \cup Stages
      /\ \/ mainQueue' = mainQueue
         \/ CallMain("onError", u)
         \/ CallMain("onReady", u) /\ MoveTo(u, "ready")
      /\ \E p \in {"unheard", "silence", "whisper", "failed", "noise", "cleanup", "output", "persist", "ready"} : MoveTo(u, p)
  <2>1. CASE CaptureStopped(u)
    BY <2>1 DEF CaptureStopped, gesture, HeardInv, StopThread
  <2>2. CASE StageReturns(u)
    BY <2>2 DEF StageReturns, Transcribed, CleanedUp, Dispatched, Persisted, Leaves, gesture, Stages
  <2>3. QED
    BY <2>1, <2>2
<1>2. /\ phase'[u] \in {"unheard", "silence", "whisper", "failed", "noise", "cleanup", "output", "persist", "ready"}
      /\ \A v \in Recordings \ {u} : phase'[v] = phase[v]
      /\ MoveTo(u, "ready") => phase'[u] = "ready"
  BY <1>1, PhaseMoved DEF Phases, Ends, Stages
<1>3. phase[u] \in Past /\ phase[u] \notin {"ready", "starting", "recording", "startIgnored", "startFailed"}
  BY <1>1 DEF Past, Stages
<1>4. OpenSession'
  <2>1. session # "off" => u # current
    BY <1>3 DEF Orderly, OpenSession
  <2>2. QED
    BY <1>1, <1>2, <2>1 DEF Orderly, OpenSession, FlagInv, Types
<1>5. ASSUME NEW v \in Recordings PROVE ReadyOnce(v)'
  <2>1. ReadyOnce(v)
    BY DEF Orderly
  <2>2. v = u => ~Has(mainQueue, Job("onReady", v))
    BY <1>3, <2>1 DEF ReadyOnce
  <2>3. Once(mainQueue', Job("onReady", v))
    BY <1>1, <2>1, <2>2, MainCalledOrder DEF ReadyOnce
  <2>4. Has(mainQueue', Job("onReady", v)) => Has(mainQueue, Job("onReady", v)) \/ (v = u /\ phase'[u] = "ready")
    BY <1>1, <1>2, MainCalledOrder
  <2>5. QED
    BY <1>2, <2>1, <2>2, <2>3, <2>4 DEF ReadyOnce
<1>6. StopOrder'
  BY <1>1, <1>2, <1>3, MainCalledOrder, OrderKept DEF Orderly, Closed
<1>7. QED
  BY <1>4, <1>5, <1>6 DEF Orderly

\* The main thread opens a microphone's way back: its stop is still to come, or waits behind it.
LEMMA ResumesOrderly ==
  ASSUME FlagInv, Orderly, NEW name \in {"onMicOpen", "startFailed"}, NEW u \in Recordings,
         NEW tasks \in Tasks, MainResumes(name, u, tasks, "startReturns")
  PROVE Orderly'
<1>1. /\ MainRuns(name, u, tasks) /\ mailbox' = Append(mailbox, Job("startReturns", u))
      /\ UNCHANGED <<session, current, phase>>
  BY DEF MainResumes, MainRuns, CallActor, gesture
<1>2. Job(name, u) \in OpenWork /\ Has(mainQueue, Job(name, u)) /\ ~None(mainQueue, OpenWork)
  BY <1>1, MainTakes, WorkFacts DEF None
<1>3. mailbox \in Seq(ActorJobs) /\ Job("startReturns", u) \in ActorJobs
  BY JobTypes DEF FlagInv, Types
<1>4. \A v : Has(mailbox', Job("stopCapture", v)) <=> Has(mailbox, Job("stopCapture", v))
  BY <1>1, <1>3, Appended, JobFacts
<1>5. ASSUME NEW v \in Recordings PROVE ReadyOnce(v)'
  <2>1. ReadyOnce(v)
    BY DEF Orderly
  <2>2. Once(mainQueue', Job("onReady", v)) /\ (Has(mainQueue', Job("onReady", v)) => Has(mainQueue, Job("onReady", v)))
    BY <1>1, <2>1, MainOrder, MainTakes, MainTypes DEF ReadyOnce
  <2>3. QED
    BY <1>1, <2>1, <2>2 DEF ReadyOnce
<1>6. StopOrder'
  <2>1. SUFFICES ASSUME Closed PROVE
          /\ phase[current] \in {"stopping"} \cup Past => \A v \in Recordings : phase[v] # "starting"
          /\ phase[current] = "stopping" =>
               /\ Ahead(mainQueue', OpenWork, Job("axSnapshot", current))
               /\ ~Has(mailbox', Job("stopCapture", current))
               /\ Ahead(mailbox', Returns, Job("stopCapture", current))
          /\ phase[current] \notin Past
    BY <1>1 DEF StopOrder, Closed
  <2>2. (phase[current] \in {"stopping"} \cup Past => \A v \in Recordings : phase[v] # "starting") /\ phase[current] \notin Past
    BY <1>2, <2>1 DEF Orderly, StopOrder
  <2>3. ASSUME phase[current] = "stopping"
        PROVE /\ Ahead(mainQueue', OpenWork, Job("axSnapshot", current))
              /\ ~Has(mailbox', Job("stopCapture", current))
              /\ Ahead(mailbox', Returns, Job("stopCapture", current))
    <3>1. /\ Ahead(mainQueue, OpenWork, Job("axSnapshot", current)) /\ ~Has(mailbox, Job("stopCapture", current))
          /\ Ahead(mailbox, Returns, Job("stopCapture", current)) /\ current \in Recordings
      BY <1>2, <2>1, <2>3 DEF Orderly, StopOrder, Closed
    <3>2. Job("stopCapture", current) \notin Returns
      BY WorkFacts
    <3>3. Ahead(mailbox', Returns, Job("stopCapture", current))
      BY <1>1, <1>3, <3>1, <3>2, AheadAppended
    <3>4. QED
      BY <1>1, <1>4, <3>1, <3>3, MainOrder
  <2>4. QED
    BY <2>2, <2>3
<1>7. QED
  BY <1>1, <1>5, <1>6 DEF Orderly, OpenSession

LEMMA SnapshotOrderly ==
  ASSUME FlagInv, Orderly, NEW u \in Recordings, AxSnapshot(u)
  PROVE Orderly'
<1>1. /\ MainRuns("axSnapshot", u, << >>) /\ mailbox' = Append(mailbox, Job("stopCapture", u))
      /\ UNCHANGED <<session, current, phase>>
  BY DEF AxSnapshot, MainResumes, MainRuns, CallActor, gesture
<1>2. mailbox \in Seq(ActorJobs) /\ Job("stopCapture", u) \in ActorJobs
  BY JobTypes DEF FlagInv, Types
<1>3. \A j : Has(mailbox', j) <=> Has(mailbox, j) \/ j = Job("stopCapture", u)
  BY <1>1, <1>2, Appended
<1>4. ASSUME NEW v \in Recordings PROVE ReadyOnce(v)'
  <2>1. ReadyOnce(v)
    BY DEF Orderly
  <2>2. Once(mainQueue', Job("onReady", v)) /\ (Has(mainQueue', Job("onReady", v)) => Has(mainQueue, Job("onReady", v)))
    BY <1>1, <2>1, MainOrder, MainTakes, MainTypes, TaskTypes DEF ReadyOnce
  <2>3. QED
    BY <1>1, <2>1, <2>2 DEF ReadyOnce
<1>5. StopOrder'
  <2>1. SUFFICES ASSUME Closed PROVE
          /\ phase[current] \in {"stopping"} \cup Past => \A v \in Recordings : phase[v] # "starting"
          /\ phase[current] = "stopping" =>
               /\ Ahead(mainQueue', OpenWork, Job("axSnapshot", current))
               /\ Has(mailbox', Job("stopCapture", current)) => None(mainQueue', OpenWork)
               /\ Ahead(mailbox', Returns, Job("stopCapture", current))
          /\ phase[current] \in Past => None(mainQueue', OpenWork) /\ None(mailbox', Returns)
    BY <1>1 DEF StopOrder, Closed
  <2>2. phase[current] \in {"stopping"} \cup Past => \A v \in Recordings : phase[v] # "starting"
    BY <2>1 DEF Orderly, StopOrder
  <2>3. ASSUME phase[current] \in Past PROVE None(mainQueue', OpenWork) /\ None(mailbox', Returns)
    <3>1. None(mainQueue, OpenWork) /\ None(mailbox, Returns)
      BY <2>1, <2>3 DEF Orderly, StopOrder
    <3>2. Job("stopCapture", u) \notin Returns
      BY WorkFacts
    <3>3. None(mailbox', Returns)
      BY <1>3, <3>1, <3>2 DEF None
    <3>4. QED
      BY <1>1, <3>1, <3>3, MainOrder, TaskTypes
  <2>4. ASSUME phase[current] = "stopping"
        PROVE /\ Ahead(mainQueue', OpenWork, Job("axSnapshot", current))
              /\ Has(mailbox', Job("stopCapture", current)) => None(mainQueue', OpenWork)
              /\ Ahead(mailbox', Returns, Job("stopCapture", current))
    <3>1. /\ Ahead(mainQueue, OpenWork, Job("axSnapshot", current))
          /\ Has(mailbox, Job("stopCapture", current)) => None(mainQueue, OpenWork)
          /\ Ahead(mailbox, Returns, Job("stopCapture", current)) /\ current \in Recordings
      BY <2>1, <2>4 DEF Orderly, StopOrder, Closed
    <3>2. Job("stopCapture", current) \notin Returns /\ Job("stopCapture", u) \notin Returns
      BY WorkFacts
    <3>3. Ahead(mailbox', Returns, Job("stopCapture", current))
      BY <1>1, <1>2, <3>1, <3>2, AheadAppended
    <3>4. Has(mailbox', Job("stopCapture", current)) => Has(mailbox, Job("stopCapture", current)) \/ u = current
      BY <1>3, JobFacts
    <3>5. u = current => None(mainQueue', OpenWork)
      BY <1>1, <3>1, MainOrder, TaskTypes
    <3>6. QED
      BY <1>1, <3>1, <3>3, <3>4, <3>5, MainOrder, TaskTypes
  <2>5. QED
    BY <2>2, <2>3, <2>4
<1>6. QED
  BY <1>1, <1>4, <1>5 DEF Orderly, OpenSession

LEMMA JobDoneOrderly ==
  ASSUME FlagInv, Orderly, NEW name, NEW u \in Recordings, NEW tasks \in Tasks, MainRuns(name, u, tasks),
         UNCHANGED <<mailbox, phase>>
  PROVE Orderly'
<1>1. UNCHANGED <<session, current>>
  BY DEF MainRuns, gesture
<1>2. ASSUME NEW v \in Recordings PROVE ReadyOnce(v)'
  BY MainOrder, MainTakes, MainTypes DEF Orderly, ReadyOnce
<1>3. StopOrder'
  BY <1>1, MainOrder, OrderKept DEF Orderly, Closed
<1>4. QED
  BY <1>1, <1>2, <1>3 DEF Orderly, OpenSession

LEMMA OnReadyOrderly ==
  ASSUME FlagInv, Orderly, NEW u \in Recordings, NEW tasks \in Tasks, OnReady(u, tasks)
  PROVE Orderly'
<1>1. MainRuns("onReady", u, tasks) /\ MoveTo(u, "delivered") /\ UNCHANGED <<session, current, mailbox>>
  BY DEF OnReady, MainRuns, gesture
<1>2. Has(mainQueue, Job("onReady", u)) /\ phase[u] = "ready"
  BY <1>1, MainTakes DEF Orderly, ReadyOnce
<1>3. phase'[u] = "delivered" /\ \A v \in Recordings \ {u} : phase'[v] = phase[v]
  BY <1>1, PhaseMoved DEF Phases, Ends
<1>4. OpenSession'
  <2>1. session # "off" => u # current
    BY <1>2 DEF Orderly, OpenSession
  <2>2. QED
    BY <1>1, <1>3, <2>1 DEF Orderly, OpenSession, FlagInv, Types
<1>5. ASSUME NEW v \in Recordings PROVE ReadyOnce(v)'
  <2>1. ReadyOnce(v)
    BY DEF Orderly
  <2>2. /\ Once(mainQueue', Job("onReady", v)) /\ (u = v => ~Has(mainQueue', Job("onReady", v)))
        /\ Has(mainQueue', Job("onReady", v)) => Has(mainQueue, Job("onReady", v))
    BY <1>1, <2>1, MainOrder, MainTakes, MainTypes DEF ReadyOnce
  <2>3. QED
    BY <1>3, <2>1, <2>2 DEF ReadyOnce
<1>6. StopOrder'
  <2>1. phase[u] \in Past
    BY <1>2 DEF Past
  <2>2. QED
    BY <1>1, <1>3, <2>1, MainOrder, OrderKept DEF Orderly, Closed
<1>7. QED
  BY <1>4, <1>5, <1>6 DEF Orderly

LEMMA OrderlyInit == PipelineInit => Orderly
<1> SUFFICES ASSUME PipelineInit PROVE Orderly
  OBVIOUS
<1>1. Len(mainQueue) = 0 /\ session = "off" /\ current = 0 /\ current \notin Recordings
  BY DEF PipelineInit, Recordings
<1>2. QED
  BY <1>1 DEF Orderly, OpenSession, ReadyOnce, StopOrder, Closed, Has, Once

LEMMA OrderlyInvariant == ClientSpec => []Orderly
<1>1. Orderly /\ HeardInv /\ FlagInv /\ FlagInv' /\ [ClientNext]_pipelineVars => Orderly'
  <2> SUFFICES ASSUME Orderly, HeardInv, FlagInv, FlagInv', [ClientNext]_pipelineVars PROVE Orderly'
    OBVIOUS
  <2>1. ASSUME NEW u \in Recordings, NEW started \in Tasks, ActorStep(u, started) PROVE Orderly'
    BY <2>1, StartOrderly, StartReturnsOrderly, StopOrderly, StopCaptureOrderly, StageOrderly DEF ActorStep
  <2>2. ASSUME NEW u \in Recordings, NEW micOpen \in Tasks, NEW error \in Tasks, NEW ready \in Tasks,
               MainStep(u, micOpen, error, ready)
        PROVE Orderly'
    <3>1. CASE OnMicOpen(u, micOpen)
      BY <3>1, ResumesOrderly DEF OnMicOpen
    <3>2. CASE OnStartFailed(u, error)
      BY <3>2, ResumesOrderly DEF OnStartFailed
    <3>3. CASE OnError(u, error)
      BY <3>3, JobDoneOrderly DEF OnError
    <3>4. QED
      BY <2>2, <3>1, <3>2, <3>3, OnReadyOrderly, SnapshotOrderly DEF MainStep
  <2>3. ASSUME NEW u \in Recordings, NEW name \in AppNames, ClientJob(name, u) PROVE Orderly'
    BY <2>3, JobDoneOrderly, TaskTypes DEF ClientJob
  <2>4. CASE MicrophoneStep \/ UNCHANGED pipelineVars
    BY <2>4 DEF MicrophoneStep, pipelineVars, pipeline, gesture, Orderly, OpenSession, ReadyOnce, StopOrder, Closed
  <2>5. QED
    BY <2>1, <2>2, <2>3, <2>4, OpensOrderly, ClosesOrderly DEF ClientNext
<1>2. QED
  BY <1>1, OrderlyInit, ClientInvariant, HeardInvariant, PTL DEF ClientSpec
------------------------------------------------------------------------------
(* What the app shows.                                                                                                     *)

ShowJobs == Jobs({"ShowRecording", "ShowHandsFree"})
Idle(u) == Job("ShowIdle", u)

\* Nothing shows a recording any more, or the task that clears it waits behind all that do.
Settled ==
  \/ recordingState \in {"idle", "error"} /\ None(mainQueue, ShowJobs)
  \/ Has(mainQueue, Idle(current)) /\ Ahead(mainQueue, ShowJobs, Idle(current))

\* An error is shown for as long as its timer runs.
TimerInv == idleTimers \in Nat /\ (recordingState = "error" => idleTimers > 0)

\* An open microphone is shown, or is about to be.
HudInv ==
  session # "off" /\ phase[current] = "recording" =>
    hud \/ Has(mainQueue, Job("onMicOpen", current)) \/ Has(mainQueue, Job("ShowRecording", current))

\* The task that clears the display comes with the text, and when the last recording has its text the display is cleared.
IdleInv ==
  /\ \A u \in Recordings : Has(mainQueue, Idle(u)) => phase[u] = "delivered"
  /\ Closed /\ phase[current] = "delivered" => Settled

ShowInv == TimerInv /\ HudInv /\ IdleInv

LEMMA ShowFacts ==
  /\ \A u \in Recordings : Job("ShowRecording", u) \in ShowJobs /\ Job("ShowHandsFree", u) \in ShowJobs
  /\ \A name, u : name \notin {"ShowRecording", "ShowHandsFree"} => Job(name, u) \notin ShowJobs
  BY DEF ShowJobs, Jobs, Job

LEMMA TaskFacts ==
  /\ \A j : ~Has(<< >>, j)
  /\ \A name, u, j : Has(Task(name, u), j) <=> j = Job(name, u)
<1>1. \A j : ~Has(<< >>, j)
  BY DEF Has
<1>2. ASSUME NEW name, NEW u, NEW j PROVE Has(Task(name, u), j) <=> j = Job(name, u)
  <2>1. Len(Task(name, u)) = 1 /\ Task(name, u)[1] = Job(name, u)
    BY DEF Task
  <2>2. QED
    BY <2>1 DEF Has
<1>3. QED
  BY <1>1, <1>2

\* A job on the main thread leaves the order of the others, and adds its own tasks.
LEMMA MainShows ==
  ASSUME FlagInv, NEW name, NEW u \in Recordings, NEW tasks \in Tasks, MainRuns(name, u, tasks), NEW v
  PROVE /\ None(mainQueue, ShowJobs) /\ None(tasks, ShowJobs) => None(mainQueue', ShowJobs)
        /\ Ahead(mainQueue, ShowJobs, Idle(v)) /\ None(tasks, ShowJobs) => Ahead(mainQueue', ShowJobs, Idle(v))
        /\ Ahead(mainQueue, ShowJobs, Idle(v)) /\ None(tasks, ShowJobs) /\ Job(name, u) = Idle(v) => None(mainQueue', ShowJobs)
        /\ \A j : Has(tasks, j) => Has(mainQueue', j)
        /\ \A j : Has(mainQueue, j) => j = Job(name, u) \/ Has(mainQueue', j)
        /\ \A j : Has(mainQueue', j) => Has(mainQueue, j) \/ Has(tasks, j)
        /\ Has(mainQueue, Job(name, u))
<1>1. mainQueue \in Seq(MainThreadJobs) /\ mainQueue # << >>
  BY DEF FlagInv, Types, MainRuns
<1>2. Tail(mainQueue) \in Seq(MainThreadJobs) /\ tasks \in Seq(MainThreadJobs)
  <2>1. AppJobs \subseteq MainThreadJobs
    BY DEF MainThreadJobs
  <2>2. tasks \in Seq(MainThreadJobs)
    BY <2>1 DEF Tasks
  <2>3. QED
    BY <1>1, <2>2, Taken
<1>3. mainQueue' = Tail(mainQueue) \o tasks /\ Head(mainQueue) = Job(name, u)
  BY DEF MainRuns
<1>4. \A j : Has(mainQueue', j) <=> Has(Tail(mainQueue), j) \/ Has(tasks, j)
  BY <1>2, <1>3, Concatenated
<1>5. \A j : Has(mainQueue, j) <=> j = Job(name, u) \/ Has(Tail(mainQueue), j)
  BY <1>1, <1>3, Taken
<1>6. Ahead(mainQueue, ShowJobs, Idle(v)) =>
        Ahead(Tail(mainQueue), ShowJobs, Idle(v)) /\ (Job(name, u) = Idle(v) => None(Tail(mainQueue), ShowJobs))
  BY <1>1, <1>3, AheadTaken
<1>7. Ahead(Tail(mainQueue), ShowJobs, Idle(v)) /\ None(tasks, ShowJobs) => Ahead(mainQueue', ShowJobs, Idle(v))
  BY <1>2, <1>3, AheadConcatenated
<1>8. None(Tail(mainQueue), ShowJobs) /\ None(tasks, ShowJobs) => None(mainQueue', ShowJobs)
  BY <1>4 DEF None
<1>9. None(mainQueue, ShowJobs) => None(Tail(mainQueue), ShowJobs)
  BY <1>5 DEF None
<1>10. QED
  BY <1>4, <1>5, <1>6, <1>7, <1>8, <1>9

LEMMA CalledShows ==
  ASSUME FlagInv, NEW name \in {"onMicOpen", "onError", "startFailed", "axSnapshot", "onReady"}, NEW u \in Recordings,
         CallMain(name, u), NEW v
  PROVE /\ None(mainQueue, ShowJobs) => None(mainQueue', ShowJobs)
        /\ Ahead(mainQueue, ShowJobs, Idle(v)) => Ahead(mainQueue', ShowJobs, Idle(v))
        /\ \A j : Has(mainQueue', j) <=> Has(mainQueue, j) \/ j = Job(name, u)
<1> DEFINE x == Job(name, u)
<1>1. mainQueue \in Seq(MainThreadJobs) /\ x \in MainThreadJobs /\ mainQueue' = Append(mainQueue, x)
  BY MainTypes DEF FlagInv, Types, CallMain, MainThreadJobs
<1>2. x \notin ShowJobs /\ Idle(v) \notin ShowJobs
  BY ShowFacts DEF Idle
<1>3. \A j : Has(mainQueue', j) <=> Has(mainQueue, j) \/ j = x
  BY MainCalled
<1>4. Ahead(mainQueue, ShowJobs, Idle(v)) => Ahead(mainQueue', ShowJobs, Idle(v))
  BY <1>1, <1>2, AheadAppended
<1>5. QED
  BY <1>2, <1>3, <1>4 DEF None

\* Steps that show nothing, take no task away and deliver nothing.
LEMMA ShowKept ==
  ASSUME ShowInv, FlagInv, UNCHANGED <<session, current, app>>,
         \A v \in Recordings : phase'[v] = "delivered" <=> phase[v] = "delivered",
         \A v \in Recordings : phase'[v] = "recording" => phase[v] = "recording" \/ Has(mainQueue', Job("onMicOpen", v)),
         \A name \in {"onMicOpen", "ShowRecording", "ShowIdle"}, v \in Recordings :
           Has(mainQueue, Job(name, v)) => Has(mainQueue', Job(name, v)),
         \A v \in Recordings : Has(mainQueue', Idle(v)) => Has(mainQueue, Idle(v)),
         Closed /\ phase[current] = "delivered" =>
           /\ None(mainQueue, ShowJobs) => None(mainQueue', ShowJobs)
           /\ Ahead(mainQueue, ShowJobs, Idle(current)) => Ahead(mainQueue', ShowJobs, Idle(current))
  PROVE ShowInv'
<1>1. TimerInv'
  BY DEF ShowInv, TimerInv, app
<1>2. HudInv'
  <2>1. SUFFICES ASSUME session # "off", phase'[current] = "recording"
                 PROVE hud \/ Has(mainQueue', Job("onMicOpen", current)) \/ Has(mainQueue', Job("ShowRecording", current))
    BY DEF HudInv, app
  <2>2. current \in Recordings
    BY <2>1 DEF FlagInv, Types
  <2>3. QED
    BY <2>1, <2>2 DEF ShowInv, HudInv
<1>3. IdleInv'
  BY DEF ShowInv, IdleInv, Idle, Closed, Settled, app
<1>4. QED
  BY <1>1, <1>2, <1>3 DEF ShowInv

LEMMA OpensShow ==
  ASSUME FlagInv, ShowInv, NEW u \in Recordings, StartCallback(u)
  PROVE ShowInv'
<1>1. /\ current' = u /\ u = current + 1 /\ session' \in {"ptt", "handsFree"} /\ MoveTo(u, "starting")
      /\ UNCHANGED <<mainQueue, recordingState, hud, idleTimers>>
  BY DEF StartCallback, SessionOpens, Gestures!OpenPtt, Gestures!OpenHandsFree
<1>2. phase'[u] = "starting" /\ phase[u] = "none" /\ \A v \in Recordings \ {u} : phase'[v] = phase[v]
  BY <1>1, PhaseMoved DEF Phases, FlagInv, Types, PhaseInv
<1>3. QED
  BY <1>1, <1>2 DEF ShowInv, TimerInv, HudInv, IdleInv, Closed

LEMMA ClosesShow ==
  ASSUME FlagInv, Orderly, ShowInv, StopCallback
  PROVE ShowInv'
<1>1. /\ session # "off" /\ session' = "off" /\ UNCHANGED <<current, mainQueue, phase, idleTimers>>
      /\ recordingState' = "processing"
  BY DEF StopCallback, Show, SessionCloses, Gestures!ClosePtt, Gestures!CloseHandsFree
<1>2. phase[current] # "delivered"
  BY <1>1 DEF Orderly, OpenSession
<1>3. QED
  BY <1>1, <1>2 DEF ShowInv, TimerInv, HudInv, IdleInv, Closed

\* What the actor does, the return of a start apart, leaves the app's tasks alone.
LEMMA ActorShows ==
  ASSUME FlagInv, HeardInv, Orderly, ShowInv, NEW u \in Recordings, NEW started \in Tasks, ActorStep(u, started),
         ~StartReturns(u, started), UNCHANGED app
  PROVE ShowInv'
<1>1. UNCHANGED <<session, current>>
  BY DEF ActorStep, StartRecording, EngineReturns, StopAndTranscribe, StopCapture, CaptureStopped, StageReturns, Transcribed,
     CleanedUp, Dispatched, Persisted, Leaves, gesture
<1>2. mainQueue' = mainQueue \/ \E name \in {"onMicOpen", "onError", "startFailed", "axSnapshot", "onReady"} : CallMain(name, u)
  BY DEF ActorStep, StartRecording, EngineReturns, StopAndTranscribe, StopCapture, CaptureStopped, StageReturns, Transcribed,
     CleanedUp, Dispatched, Persisted, Leaves
<1>3. \/ phase' = phase
      \/ MoveTo(u, "recording") /\ CallMain("onMicOpen", u)
      \/ \E p \in Phases \ {"recording", "delivered"} : MoveTo(u, p)
  BY DEF ActorStep, StartRecording, EngineReturns, StopAndTranscribe, StopCapture, CaptureStopped, StageReturns, Transcribed,
     CleanedUp, Dispatched, Persisted, Leaves, Phases, Stages, Ends
<1>4. phase[u] # "delivered" \/ phase' = phase
  <2>1. StartRecording(u) \/ EngineReturns(u) => phase[u] = "starting"
    BY ActorTakes DEF StartRecording, EngineReturns, Start, FlagInv, PhaseInv
  <2>2. StopCapture(u) \/ CaptureStopped(u) => phase[u] \in {"stopping", "draining"}
    BY ActorTakes DEF StopCapture, CaptureStopped, HeardInv, StopThread, Capture
  <2>3. StageReturns(u) => phase[u] \in Stages
    BY DEF StageReturns, Transcribed, CleanedUp, Dispatched, Persisted, Leaves, Stages
  <2>4. ASSUME StopAndTranscribe(u), MoveTo(u, "stopping"), isRecording PROVE phase[u] = "recording"
    <3>1. PICK w \in Recordings : phase[w] = "recording"
      BY <2>4 DEF FlagInv, RecordingInv
    <3>2. FlagInv'
      BY <2>4, StopInv
    <3>3. phase'[w] # "recording"
      BY <2>4, <3>2 DEF FlagInv, RecordingInv, StopAndTranscribe
    <3>4. \A v \in Recordings \ {u} : phase'[v] = phase[v]
      BY <2>4, PhaseMoved DEF Phases
    <3>5. QED
      BY <3>1, <3>3, <3>4
  <2>5. StopAndTranscribe(u) => phase[u] = "recording" \/ phase' = phase
    BY <2>4 DEF StopAndTranscribe
  <2>6. QED
    BY <2>1, <2>2, <2>3, <2>5 DEF ActorStep, Stages
<1>5. \A v \in Recordings : phase'[v] = "delivered" <=> phase[v] = "delivered"
  <2>1. "recording" \in Phases
    BY DEF Phases
  <2>2. QED
    BY <1>3, <1>4, <2>1, PhaseMoved
<1>6. \A j : Has(mainQueue, j) => Has(mainQueue', j)
  BY <1>2, CalledShows
<1>7. \A v \in Recordings : phase'[v] = "recording" => phase[v] = "recording" \/ Has(mainQueue', Job("onMicOpen", v))
  <2>1. ASSUME MoveTo(u, "recording"), CallMain("onMicOpen", u), NEW v \in Recordings, phase'[v] = "recording"
        PROVE phase[v] = "recording" \/ Has(mainQueue', Job("onMicOpen", v))
    BY <2>1, PhaseMoved, CalledShows DEF Phases
  <2>2. ASSUME NEW p \in Phases \ {"recording", "delivered"}, MoveTo(u, p), NEW v \in Recordings, phase'[v] = "recording"
        PROVE phase[v] = "recording"
    BY <2>2, PhaseMoved
  <2>3. QED
    BY <1>3, <2>1, <2>2
<1>8. \A v \in Recordings : Has(mainQueue', Idle(v)) => Has(mainQueue, Idle(v))
  BY <1>2, CalledShows, JobFacts DEF Idle
<1>9. /\ None(mainQueue, ShowJobs) => None(mainQueue', ShowJobs)
      /\ Ahead(mainQueue, ShowJobs, Idle(current)) => Ahead(mainQueue', ShowJobs, Idle(current))
  BY <1>2, CalledShows
<1>10. QED
  BY <1>1, <1>5, <1>6, <1>7, <1>8, <1>9, ShowKept

\* A start returns before the last recording has its text.
LEMMA ReturnShows ==
  ASSUME FlagInv, Orderly, ShowInv, NEW u \in Recordings, StartReturns(u, StartedTask(u)), UNCHANGED app
  PROVE ShowInv'
<1> DEFINE tasks == StartedTask(u)
<1>1. tasks \in Tasks /\ \A v : ~Has(tasks, Idle(v))
  BY TaskTypes, TaskFacts, JobFacts DEF StartedTask, AppNames, Idle
<1> HIDE DEF tasks
<1>2. ActorRuns("startReturns", u) /\ UNCHANGED <<session, current, phase>> /\ mainQueue' = mainQueue \o tasks
  BY DEF StartReturns, gesture, tasks
<1>3. mainQueue \in Seq(MainThreadJobs) /\ tasks \in Seq(MainThreadJobs)
  <2>1. AppJobs \subseteq MainThreadJobs
    BY DEF MainThreadJobs
  <2>2. QED
    BY <1>1, <2>1 DEF FlagInv, Types, Tasks
<1>4. \A j : Has(mainQueue', j) <=> Has(mainQueue, j) \/ Has(tasks, j)
  BY <1>2, <1>3, Concatenated
<1>5. ~(Closed /\ phase[current] = "delivered")
  BY <1>2, ActorTakes, WorkFacts DEF Orderly, StopOrder, None, Past
<1>6. QED
  BY <1>1, <1>2, <1>4, <1>5, ShowKept

\* A task of the app: those that show a recording come before the one that clears the display.
LEMMA TaskShows ==
  ASSUME FlagInv, ShowInv, NEW u \in Recordings, ShowRecording(u) \/ ShowHandsFree(u) \/ ShowError(u) \/ ShowIdle(u)
  PROVE ShowInv'
<1>1. PICK name \in AppNames :
        /\ AppRuns(name, u)
        /\ name = "ShowRecording" => Show("recording", TRUE)
        /\ name = "ShowHandsFree" => Show("handsFreeRecording", TRUE)
        /\ name = "ShowError" => transitionToError
        /\ name = "ShowIdle" => transitionToIdle
  <2>1. CASE ShowRecording(u)
    BY <2>1 DEF ShowRecording, AppNames
  <2>2. CASE ShowHandsFree(u)
    BY <2>2 DEF ShowHandsFree, AppNames
  <2>3. CASE ShowError(u)
    BY <2>3 DEF ShowError, AppNames
  <2>4. CASE ShowIdle(u)
    BY <2>4 DEF ShowIdle, AppNames
  <2>5. QED
    BY <2>1, <2>2, <2>3, <2>4
<1>2. MainRuns(name, u, << >>) /\ UNCHANGED <<session, current, phase>>
  BY <1>1 DEF AppRuns, MainRuns, gesture
<1>3. << >> \in Tasks /\ None(<< >>, ShowJobs) /\ \A j : ~Has(<< >>, j)
  BY TaskTypes, TaskFacts DEF None
<1>4. /\ \A j : Has(mainQueue, j) => j = Job(name, u) \/ Has(mainQueue', j)
      /\ \A j : Has(mainQueue', j) => Has(mainQueue, j)
      /\ Has(mainQueue, Job(name, u))
      /\ None(mainQueue, ShowJobs) => None(mainQueue', ShowJobs)
      /\ Ahead(mainQueue, ShowJobs, Idle(current)) => Ahead(mainQueue', ShowJobs, Idle(current))
      /\ Ahead(mainQueue, ShowJobs, Idle(current)) /\ Job(name, u) = Idle(current) => None(mainQueue', ShowJobs)
  BY <1>2, <1>3, MainShows
<1>5. /\ idleTimers' = IF name = "ShowError" THEN idleTimers + 1 ELSE idleTimers
      /\ recordingState' = CASE name = "ShowRecording" -> "recording" [] name = "ShowHandsFree" -> "handsFreeRecording"
                             [] name = "ShowError" -> "error" [] name = "ShowIdle" -> "idle"
      /\ hud' = IF name \in {"ShowRecording", "ShowHandsFree"} THEN TRUE ELSE hud
  BY <1>1 DEF Show, transitionToError, transitionToIdle, AppNames
<1>6. TimerInv'
  BY <1>5 DEF ShowInv, TimerInv, AppNames
<1>7. HudInv'
  <2>1. SUFFICES ASSUME session # "off", phase[current] = "recording"
                 PROVE hud' \/ Has(mainQueue', Job("onMicOpen", current)) \/ Has(mainQueue', Job("ShowRecording", current))
    BY <1>2 DEF HudInv
  <2>2. Job("onMicOpen", current) # Job(name, u)
    BY JobFacts DEF AppNames
  <2>3. Job("ShowRecording", current) = Job(name, u) => hud' = TRUE
    BY <1>5, JobFacts
  <2>4. hud = TRUE => hud' = TRUE
    BY <1>5
  <2>5. CASE hud = TRUE
    BY <2>4, <2>5
  <2>6. CASE hud # TRUE
    <3>1. Has(mainQueue, Job("onMicOpen", current)) \/ Has(mainQueue, Job("ShowRecording", current)) \/ hud
      BY <2>1 DEF ShowInv, HudInv
    <3>2. QED
      BY <1>4, <2>2, <2>3, <2>6, <3>1
  <2>7. QED
    BY <2>5, <2>6
<1>8. IdleInv'
  <2>1. SUFFICES ASSUME Closed, phase[current] = "delivered" PROVE Settled'
    BY <1>2, <1>4 DEF ShowInv, IdleInv, Closed, Idle
  <2>2. Settled
    BY <2>1 DEF ShowInv, IdleInv
  <2>3. CASE None(mainQueue, ShowJobs)
    <3>1. name \in {"ShowError", "ShowIdle"}
      BY <1>4, <2>3, ShowFacts DEF None, AppNames
    <3>2. QED
      BY <1>4, <1>5, <2>3, <3>1 DEF Settled
  <2>4. CASE Has(mainQueue, Idle(current)) /\ Ahead(mainQueue, ShowJobs, Idle(current))
    <3>1. CASE Job(name, u) = Idle(current)
      <4>1. name = "ShowIdle"
        BY <3>1, JobFacts DEF Idle
      <4>2. QED
        BY <1>4, <1>5, <2>4, <3>1, <4>1 DEF Settled
    <3>2. CASE Job(name, u) # Idle(current)
      BY <1>2, <1>4, <2>4, <3>2 DEF Settled, Idle
    <3>3. QED
      BY <3>1, <3>2
  <2>5. QED
    BY <2>2, <2>3, <2>4 DEF Settled
<1>9. QED
  BY <1>6, <1>7, <1>8 DEF ShowInv

\* The pipeline's jobs on the main thread that deliver nothing.
LEMMA CallbackShows ==
  ASSUME FlagInv, Orderly, ShowInv, NEW u \in Recordings, UNCHANGED app,
         \/ OnMicOpen(u, Task("ShowRecording", u)) \/ OnStartFailed(u, Task("ShowError", u))
         \/ OnError(u, Task("ShowError", u)) \/ AxSnapshot(u)
  PROVE ShowInv'
<1>1. PICK name \in {"onMicOpen", "startFailed", "onError", "axSnapshot"} : \E tasks \in Tasks :
        /\ MainRuns(name, u, tasks)
        /\ name = "onMicOpen" => tasks = Task("ShowRecording", u)
        /\ name # "onMicOpen" => tasks \in {<< >>, Task("ShowError", u)}
  <2>1. << >> \in Tasks /\ Task("ShowRecording", u) \in Tasks /\ Task("ShowError", u) \in Tasks
    BY TaskTypes DEF AppNames
  <2>2. QED
    BY <2>1 DEF OnMicOpen, OnStartFailed, OnError, AxSnapshot, MainResumes
<1>2. PICK tasks \in Tasks :
        /\ MainRuns(name, u, tasks)
        /\ name = "onMicOpen" => tasks = Task("ShowRecording", u)
        /\ name # "onMicOpen" => tasks \in {<< >>, Task("ShowError", u)}
  BY <1>1
<1>3. UNCHANGED <<session, current>> /\ phase' = phase
  BY DEF OnMicOpen, OnStartFailed, OnError, AxSnapshot, MainResumes, MainRuns, gesture
<1>4. /\ None(mainQueue, ShowJobs) /\ None(tasks, ShowJobs) => None(mainQueue', ShowJobs)
      /\ Ahead(mainQueue, ShowJobs, Idle(current)) /\ None(tasks, ShowJobs) => Ahead(mainQueue', ShowJobs, Idle(current))
      /\ \A j : Has(tasks, j) => Has(mainQueue', j)
      /\ \A j : Has(mainQueue, j) => j = Job(name, u) \/ Has(mainQueue', j)
      /\ \A j : Has(mainQueue', j) => Has(mainQueue, j) \/ Has(tasks, j)
      /\ Has(mainQueue, Job(name, u))
  BY <1>2, MainShows
<1>5. \A v : ~Has(tasks, Idle(v))
  BY <1>2, TaskFacts, JobFacts DEF Idle
<1>6. name # "onMicOpen" => None(tasks, ShowJobs)
  BY <1>2, TaskFacts, ShowFacts DEF None
<1>7. TimerInv'
  BY DEF ShowInv, TimerInv, app
<1>8. HudInv'
  <2>1. SUFFICES ASSUME session # "off", phase[current] = "recording", ~hud
                 PROVE Has(mainQueue', Job("onMicOpen", current)) \/ Has(mainQueue', Job("ShowRecording", current))
    BY <1>3 DEF HudInv, app
  <2>2. Has(mainQueue, Job("onMicOpen", current)) \/ Has(mainQueue, Job("ShowRecording", current))
    BY <2>1 DEF ShowInv, HudInv
  <2>3. Job("ShowRecording", current) # Job(name, u)
    BY JobFacts
  <2>4. Job("onMicOpen", current) = Job(name, u) => Has(mainQueue', Job("ShowRecording", current))
    BY <1>2, <1>4, TaskFacts, JobFacts
  <2>5. QED
    BY <1>4, <2>2, <2>3, <2>4
<1>9. IdleInv'
  <2>1. \A v \in Recordings : Has(mainQueue', Idle(v)) => phase'[v] = "delivered"
    BY <1>3, <1>4, <1>5 DEF ShowInv, IdleInv
  <2>2. ASSUME Closed, phase[current] = "delivered" PROVE Settled'
    <3>1. None(mainQueue, OpenWork)
      BY <2>2 DEF Orderly, StopOrder, Past
    <3>2. name # "onMicOpen"
      BY <1>4, <3>1, WorkFacts DEF None
    <3>3. Idle(current) # Job(name, u)
      BY JobFacts DEF Idle
    <3>4. Settled
      BY <2>2 DEF ShowInv, IdleInv
    <3>5. QED
      BY <1>3, <1>4, <1>6, <3>2, <3>3, <3>4 DEF Settled, app, Idle
  <2>3. QED
    BY <1>3, <2>1, <2>2 DEF IdleInv, Closed, Idle
<1>10. QED
  BY <1>7, <1>8, <1>9 DEF ShowInv

\* The text has come: the task that clears the display goes behind all that wait.
LEMMA ReadyShows ==
  ASSUME FlagInv, Orderly, ShowInv, NEW u \in Recordings, UNCHANGED app, OnReady(u, Task("ShowIdle", u))
  PROVE ShowInv'
<1> DEFINE tasks == Task("ShowIdle", u)
<1>1. tasks \in Tasks /\ (\A j : Has(tasks, j) <=> j = Idle(u)) /\ None(tasks, ShowJobs)
  BY TaskTypes, TaskFacts, ShowFacts DEF AppNames, Idle, None
<1> HIDE DEF tasks
<1>2. MainRuns("onReady", u, tasks) /\ MoveTo(u, "delivered") /\ UNCHANGED <<session, current>>
  BY DEF OnReady, MainRuns, gesture, tasks
<1>3. phase'[u] = "delivered" /\ \A v \in Recordings \ {u} : phase'[v] = phase[v]
  BY <1>2, PhaseMoved DEF Phases, Ends
<1>4. /\ None(mainQueue, ShowJobs) => None(mainQueue', ShowJobs)
      /\ Ahead(mainQueue, ShowJobs, Idle(current)) => Ahead(mainQueue', ShowJobs, Idle(current))
      /\ Has(mainQueue', Idle(u))
      /\ \A j : Has(mainQueue, j) => j = Job("onReady", u) \/ Has(mainQueue', j)
      /\ \A j : Has(mainQueue', j) => Has(mainQueue, j) \/ j = Idle(u)
      /\ Has(mainQueue, Job("onReady", u))
  BY <1>1, <1>2, MainShows
<1>5. phase[u] = "ready"
  BY <1>4 DEF Orderly, ReadyOnce
<1>6. TimerInv'
  BY DEF ShowInv, TimerInv, app
<1>7. HudInv'
  <2>1. SUFFICES ASSUME session # "off", phase'[current] = "recording", ~hud
                 PROVE Has(mainQueue', Job("onMicOpen", current)) \/ Has(mainQueue', Job("ShowRecording", current))
    BY <1>2 DEF HudInv, app
  <2>2. current \in Recordings /\ phase[current] = "recording"
    BY <1>3, <2>1 DEF FlagInv, Types
  <2>3. QED
    BY <1>4, <2>1, <2>2, JobFacts DEF ShowInv, HudInv
<1>8. IdleInv'
  <2>1. ASSUME NEW v \in Recordings, Has(mainQueue', Idle(v)) PROVE phase'[v] = "delivered"
    <3>1. Has(mainQueue, Idle(v)) \/ v = u
      BY <1>4, <2>1, JobFacts DEF Idle
    <3>2. QED
      BY <1>3, <3>1 DEF ShowInv, IdleInv
  <2>2. ASSUME Closed, phase'[current] = "delivered" PROVE Settled'
    <3>1. CASE u = current
      <4>1. ~Has(mainQueue, Idle(current))
        BY <1>5, <3>1 DEF ShowInv, IdleInv
      <4>2. Ahead(mainQueue, ShowJobs, Idle(current))
        BY <4>1 DEF Ahead, Has
      <4>3. QED
        BY <1>2, <1>4, <3>1, <4>2 DEF Settled, Idle
    <3>2. CASE u # current
      <4>1. phase[current] = "delivered"
        BY <1>3, <2>2, <3>2 DEF Closed
      <4>2. Settled
        BY <2>2, <4>1 DEF ShowInv, IdleInv
      <4>3. Idle(current) # Job("onReady", u)
        BY JobFacts DEF Idle
      <4>4. QED
        BY <1>2, <1>4, <4>2, <4>3 DEF Settled, app, Idle
    <3>3. QED
      BY <3>1, <3>2
  <2>3. QED
    BY <1>2, <2>1, <2>2 DEF IdleInv, Closed, Idle
<1>9. QED
  BY <1>6, <1>7, <1>8 DEF ShowInv
------------------------------------------------------------------------------
LEMMA ShowInit == Init => ShowInv
<1> SUFFICES ASSUME Init PROVE ShowInv
  OBVIOUS
<1>1. Len(mainQueue) = 0 /\ session = "off" /\ current = 0 /\ current \notin Recordings /\ idleTimers = 0 /\ recordingState = "idle"
  BY DEF Init, PipelineInit, Recordings
<1>2. QED
  BY <1>1 DEF ShowInv, TimerInv, HudInv, IdleInv, Closed, Has

\* Whatever overlaps, fails and times out, the display follows the recordings in order. Code: main.swift's callbacks,
\* transitionToError and transitionToIdle, served by the main thread in the order in which they were put there.
THEOREM ShowInvariant == Spec => []ShowInv
<1>1. ShowInv /\ FlagInv /\ HeardInv /\ Orderly /\ [Next]_vars => ShowInv'
  <2> SUFFICES ASSUME ShowInv, FlagInv, HeardInv, Orderly, [Next]_vars PROVE ShowInv'
    OBVIOUS
  <2>1. ASSUME NEW u \in Recordings, AppMainStep(u) PROVE ShowInv'
    BY <2>1, TaskShows, CallbackShows, ReadyShows DEF AppMainStep, MainStep
  <2>2. ASSUME NEW u \in Recordings, AppActorStep(u) PROVE ShowInv'
    <3>1. StartedTask(u) \in Tasks
      BY TaskTypes DEF StartedTask, AppNames
    <3>2. QED
      BY <2>2, <3>1, ActorShows, ReturnShows DEF AppActorStep
  <2>3. CASE IdleTimerFires
    BY <2>3 DEF IdleTimerFires, pipelineVars, pipeline, gesture, ShowInv, TimerInv, HudInv, IdleInv, Closed, Settled
  <2>4. CASE (MicrophoneStep /\ UNCHANGED app) \/ UNCHANGED vars
    BY <2>4 DEF MicrophoneStep, vars, pipelineVars, pipeline, gesture, app, ShowInv, TimerInv, HudInv, IdleInv, Closed, Settled
  <2>5. QED
    BY <2>1, <2>2, <2>3, <2>4, OpensShow, ClosesShow DEF Next
<1>2. QED
  BY <1>1, ShowInit, AppIsClient, ClientInvariant, HeardInvariant, OrderlyInvariant, PTL DEF Spec

\* When nothing waits for the main thread, an open microphone is shown on the HUD; and when the last recording has its text
\* and no error's timer runs, the app is idle. Code: onMicOpen, onTranscriptionReady, transitionToError (main.swift).
DisplayAtRest ==
  mainQueue = << >> =>
    /\ session # "off" /\ phase[current] = "recording" => hud
    /\ Closed /\ phase[current] = "delivered" /\ idleTimers = 0 => recordingState = "idle"

\* The safety half of FeedbackFollowsMic and of DeliveredThenIdle, for any number of recordings that overlap: once the main
\* thread has run what waits for it the display is right, so that only that it comes to run it is left to fairness.
THEOREM DisplayComesToRest == Spec => []DisplayAtRest
<1>1. ShowInv => DisplayAtRest
  <2> SUFFICES ASSUME ShowInv, mainQueue = << >>
               PROVE /\ session # "off" /\ phase[current] = "recording" => hud
                     /\ Closed /\ phase[current] = "delivered" /\ idleTimers = 0 => recordingState = "idle"
    BY DEF DisplayAtRest
  <2>1. \A j : ~Has(mainQueue, j)
    BY TaskFacts
  <2>2. QED
    BY <2>1 DEF ShowInv, TimerInv, HudInv, IdleInv, Settled
<1>2. QED
  BY <1>1, ShowInvariant, PTL
=============================================================================
