--------------------------- MODULE SchedulerProofs --------------------------
(***************************************************************************)
(* Theorems about Scheduler, for any processes, workers and bursts: the    *)
(* threads exclude each other, no process is lost, duplicated or run       *)
(* beyond its last burst, and the scheduler implements the life of its     *)
(* processes.                                                              *)
(***************************************************************************)
EXTENDS Scheduler, DataProofs

Entry == Process \union {NULL}

-----------------------------------------------------------------------------
(***************************************************************************)
(* The operators on one level.                                             *)
(***************************************************************************)

\* Removing the node the walk stops at gives a list (ready_queue_remove).
LEMMA RemoveLastType ==
    ASSUME NEW S, NEW s \in Seq(S), NEW x, NEW rest \in RemoveLast(s, x)
    PROVE  rest \in Seq(S)
<1>1. PICK k \in 1 .. Len(s) : rest = RemoveAt(s, k)
    BY DEF RemoveLast
<1>2. SubSeq(s, 1, k - 1) \in Seq(S)
    BY SubSeqProperties
<1>3. SubSeq(s, k + 1, Len(s)) \in Seq(S)
    BY SubSeqProperties
<1>4. QED
    BY <1>1, <1>2, <1>3, ConcatProperties DEF RemoveAt

\* A push leaves every level a list of entries, of the level it names.
LEMMA PushType ==
    ASSUME NEW l \in Levels, NEW x \in Entry,
           queue \in [Levels -> Seq(Entry)],
           Push(queue, x, l)
    PROVE  queue' \in [Levels -> Seq(Entry)]
<1>1. CASE x = NULL \/ l = MaxLevel
  <2>1. PushTail(queue[l], x) \in Seq(Entry)
      BY DEF PushTail
  <2>2. QED
      BY <1>1, <2>1 DEF Push
<1>2. CASE ~(x = NULL \/ l = MaxLevel)
  <2>1. PICK k \in 1 .. Len(queue[l]) + 1 :
           queue' = [queue EXCEPT ![l] = InsertAt(@, k, x)]
      BY <1>2 DEF Push
  <2>2. InsertAt(queue[l], k, x) \in Seq(Entry)
      BY InsertAtType
  <2>3. QED
      BY <2>1, <2>2
<1>3. QED
    BY <1>1, <1>2

\* A signal changes nothing but the place of at most one sleeping worker.
LEMMA SignalWakes ==
    ASSUME wpc \in [Worker -> WorkerPc], NEW pc \in Signal
    PROVE  /\ pc \in [Worker -> WorkerPc]
           /\ \A v \in Worker : pc[v] = wpc[v] \/ (wpc[v] = "asleep" /\ pc[v] = "pop")
<1>1. CASE Asleep = {}
    BY <1>1 DEF Signal
<1>2. CASE Asleep # {}
  <2>1. PICK w \in Asleep : pc = [wpc EXCEPT ![w] = "pop"]
      BY <1>2 DEF Signal
  <2>2. w \in Worker /\ wpc[w] = "asleep"
      BY DEF Asleep
  <2>3. QED
      BY <2>1, <2>2 DEF WorkerPc
<1>3. QED
    BY <1>1, <1>2

-----------------------------------------------------------------------------
(***************************************************************************)
(* Type correctness.                                                       *)
(***************************************************************************)
LEMMA InitType == Init => TypeOK
<1>1. << >> \in Seq(Entry)
    OBVIOUS
<1>2. QED
    BY <1>1, BurstAssumption, NullAssumption
    DEF Init, TypeOK, Entry, Levels, NumLevels, MaxLevel, MinLevel, WorkerPc,
        UsesProcess, OsPc

\* A worker that goes to another place has a process there if one is used.
LEMMA WorkerMoves ==
    ASSUME wpc \in [Worker -> WorkerPc],
           \A v \in Worker : wpc[v] \in UsesProcess => wproc[v] # NULL,
           NEW w \in Worker, NEW to \in WorkerPc,
           wpc' = [wpc EXCEPT ![w] = to],
           to \in UsesProcess => wproc'[w] # NULL,
           \A v \in Worker : v # w => wproc'[v] = wproc[v]
    PROVE  /\ wpc' \in [Worker -> WorkerPc]
           /\ \A v \in Worker : wpc'[v] \in UsesProcess => wproc'[v] # NULL
OBVIOUS

LEMMA WorkerStepType ==
    ASSUME TypeOK, NEW w \in Worker, WorkerStep(w) \/ SpuriousWakeup(w)
    PROVE  TypeOK'
<1> USE DEF pcbVars, infoVars, monitorVars, osVars, workerVars, queueVars,
            WorkerPc, UsesProcess, Lock, Unlock
<1> DEFINE p == wproc[w]
<1>0. /\ queue \in [Levels -> Seq(Entry)]
      /\ readMax \in Worker \union {NULL}
      /\ wscan \in [Worker -> 0 .. NumLevels]
      /\ wproc \in [Worker -> Entry]
      /\ wpc \in [Worker -> WorkerPc]
      /\ wquantum \in [Worker -> Levels]
      /\ level \in [Process -> Levels]
      /\ status \in [Process -> {"none", "preempted", "blocked", "done"}]
      /\ owner \in [Process -> Worker \union {Monitor, NULL}]
      /\ waitingBoost \in [Process -> BOOLEAN]
      /\ sleeping \in [Process -> Nat]
      /\ cpuIndex \in [Process -> Nat]
      /\ remaining \in [Process -> Nat]
      /\ doneCount \in Nat
      /\ counter \in Int
      /\ foundBurst \in [Process -> BOOLEAN]
      /\ isWaiting \in [Process -> BOOLEAN]
      /\ ioIndex \in [Process -> Nat]
      /\ \A v \in Worker : wpc[v] \in UsesProcess => wproc[v] # NULL
    BY DEF Entry, TypeOK
<1>1. CASE PopLevel(w)
  <2>1. wscan[w] \in Levels
      BY <1>1 DEF PopLevel
  <2>2. CASE queue[wscan[w]] = << >>
    <3>1. wscan' = [wscan EXCEPT ![w] = @ + 1]
        BY <1>1, <2>2 DEF PopLevel
    <3>2. wscan' \in [Worker -> 0 .. NumLevels]
        BY <1>0, <2>1, <3>1 DEF Levels, NumLevels
    <3>3. QED
        BY <1>1, <2>2, <3>2 DEF PopLevel, TypeOK
  <2>3. CASE queue[wscan[w]] # << >>
    <3>1. queue[wscan[w]] \in Seq(Entry)
        BY <1>0, <2>1
    <3>2. Head(queue[wscan[w]]) \in Entry /\ Tail(queue[wscan[w]]) \in Seq(Entry)
        BY <2>3, <3>1, HeadTailProperties
    <3>3. queue' \in [Levels -> Seq(Entry)]
        BY <1>0, <1>1, <2>1, <2>3, <3>2 DEF PopLevel
    <3>4. wproc' \in [Worker -> Entry]
        BY <1>0, <1>1, <2>3, <3>2 DEF PopLevel
    <3>5. wscan' \in [Worker -> 0 .. NumLevels]
      <4>1. wscan' = [wscan EXCEPT ![w] = 0]
          BY <1>1, <2>3 DEF PopLevel
      <4>2. QED
          BY <1>0, <4>1 DEF NumLevels
    <3>6. /\ wpc' \in [Worker -> WorkerPc]
          /\ \A v \in Worker : wpc'[v] \in UsesProcess => wproc'[v] # NULL
      <4>1. /\ wpc' = [wpc EXCEPT ![w] = "popped"]
            /\ \A v \in Worker : v # w => wproc'[v] = wproc[v]
          BY <1>0, <1>1, <2>3 DEF PopLevel
      <4>2. "popped" \in WorkerPc /\ "popped" \notin UsesProcess
          OBVIOUS
      <4> HIDE DEF WorkerPc, UsesProcess
      <4>3. QED
          BY <1>0, <4>1, <4>2, WorkerMoves
    <3>7. QED
        BY <1>1, <2>3, <3>3, <3>4, <3>5, <3>6 DEF PopLevel, Entry, TypeOK
  <2>4. QED
      BY <2>2, <2>3
<1>2. CASE PopWait(w)
    BY <1>2 DEF PopWait, NumLevels, TypeOK
<1>3. CASE SpuriousWakeup(w)
    BY <1>3 DEF SpuriousWakeup, TypeOK
<1>4. CASE AfterPop(w)
  <2>1. readMax' \in Worker \union {NULL}
      BY <1>0, <1>4 DEF AfterPop
  <2>2. CASE wproc[w] = NULL
      BY <1>4, <2>1, <2>2 DEF AfterPop, TypeOK
  <2>3. CASE wproc[w] # NULL
    <3>1. p \in Process
        BY <1>0, <2>3 DEF Entry
    <3>2. wquantum' \in [Worker -> Levels]
        BY <1>0, <1>4, <2>3, <3>1 DEF AfterPop
    <3>3. /\ wpc' \in [Worker -> WorkerPc]
          /\ \A v \in Worker : wpc'[v] \in UsesProcess => wproc[v] # NULL
        BY <1>0, <1>4, <2>3 DEF AfterPop
    <3>4. QED
        BY <1>4, <2>1, <2>3, <3>2, <3>3 DEF AfterPop, TypeOK
  <2>4. QED
      BY <2>2, <2>3
<1>5. CASE LockProcess(w)
    BY <1>5 DEF LockProcess, TypeOK
<1>6. CASE RunSlice(w)
  <2>1. p \in Process
      BY <1>0, <1>6 DEF RunSlice, Entry
  <2>2. PICK slice \in Slices(wquantum[w], p) :
           remaining' = [remaining EXCEPT ![p] =
                            IF slice < remaining[p] THEN @ - slice ELSE BurstTime[p]]
      BY <1>6 DEF RunSlice
  <2>3. slice \in Nat
      BY <2>1, BurstAssumption DEF Slices
  <2>4. remaining' \in [Process -> Nat]
    <3>1. remaining[p] \in Nat /\ BurstTime[p] \in Nat
        BY <1>0, <2>1, BurstAssumption
    <3>2. (IF slice < remaining[p] THEN remaining[p] - slice ELSE BurstTime[p]) \in Nat
        BY <2>3, <3>1
    <3>3. QED
        BY <1>0, <2>1, <2>2, <3>2
  <2>5. cpuIndex' \in [Process -> Nat] /\ doneCount' \in Nat
      BY <1>0, <1>6, <2>1 DEF RunSlice
  <2>6. status' \in [Process -> {"none", "preempted", "blocked", "done"}]
      BY <1>0, <1>6, <2>1 DEF RunSlice
  <2>7. /\ owner' \in [Process -> Worker \union {Monitor, NULL}]
        /\ wpc' \in [Worker -> WorkerPc]
        /\ \A v \in Worker : wpc'[v] \in UsesProcess => wproc[v] # NULL
    <3>1. \/ owner' = owner \/ owner' = [owner EXCEPT ![p] = NULL]
        BY <1>6 DEF RunSlice
    <3>2. \/ wpc' = [wpc EXCEPT ![w] = "update"] \/ wpc' = [wpc EXCEPT ![w] = "check"]
        BY <1>6 DEF RunSlice
    <3>3. wpc[w] = "run"
        BY <1>6 DEF RunSlice
    <3>4. QED
        BY <1>0, <2>1, <3>1, <3>2, <3>3
  <2>8. QED
      BY <1>6, <2>4, <2>5, <2>6, <2>7 DEF RunSlice, TypeOK
<1>7. CASE CheckPreempt(w)
    BY <1>7 DEF CheckPreempt, StopRunning, TypeOK
<1>8. CASE UpdatePriority(w)
  <2>1. p \in Process
      BY <1>0, <1>8 DEF UpdatePriority, Entry
  <2>2. level' \in [Process -> Levels]
    <3>1. level[p] \in Levels
        BY <1>0, <2>1
    <3>2. LevelAfterRun(p) \in Levels
        BY <3>1 DEF LevelAfterRun, Demoted, Levels, NumLevels, MaxLevel, MinLevel
    <3>3. QED
        BY <1>0, <1>8, <3>2 DEF UpdatePriority
  <2>3. waitingBoost' \in [Process -> BOOLEAN]
      BY <1>0, <1>8 DEF UpdatePriority
  <2>4. sleeping' \in [Process -> Nat]
    <3>1. \/ sleeping' = sleeping
          \/ sleeping' = [sleeping EXCEPT ![p] = @ + 1]
      <4>1. CASE waitingBoost[p] \/ status[p] # "preempted"
          BY <1>0, <1>8, <2>1, <4>1 DEF UpdatePriority, StartMonitor
      <4>2. CASE ~(waitingBoost[p] \/ status[p] # "preempted")
          BY <1>8, <4>2 DEF UpdatePriority, StartMonitor
      <4>3. QED
          BY <4>1, <4>2
    <3>2. sleeping[p] + 1 \in Nat
        BY <1>0, <2>1
    <3>3. QED
        BY <1>0, <3>1, <3>2
  <2>5. QED
      BY <1>8, <2>1, <2>2, <2>3, <2>4 DEF UpdatePriority, TypeOK
<1>9. CASE PushPreempted(w)
  <2>1. wproc[w] \in Process /\ level[wproc[w]] \in Levels
      BY <1>0, <1>9 DEF PushPreempted, Entry
  <2>2. queue' \in [Levels -> Seq(Entry)]
      BY <1>0, <1>9, <2>1, PushType DEF PushPreempted, Entry
  <2>3. QED
      BY <1>9, <2>1, <2>2 DEF PushPreempted, Entry, TypeOK
<1>10. CASE SignalPreempted(w)
  <2>1. PICK pc \in Signal : wpc' = [pc EXCEPT ![w] = "pop"]
      BY <1>10 DEF SignalPreempted
  <2>2. /\ pc \in [Worker -> WorkerPc]
        /\ \A v \in Worker : pc[v] = wpc[v] \/ (wpc[v] = "asleep" /\ pc[v] = "pop")
      BY <1>0, SignalWakes
  <2>3. QED
      BY <1>10, <2>1, <2>2 DEF SignalPreempted, TypeOK
<1>11. CASE AddToAverage(w) \/ RemoveFromAverage(w)
  <2>1. counter' \in Int
    <3>1. Included(wproc[w]) \in Int /\ Excluded(wproc[w]) \in Int
        BY <1>0 DEF Included, Excluded
    <3>2. CASE AddToAverage(w)
        BY <3>1, <3>2 DEF AddToAverage
    <3>3. CASE RemoveFromAverage(w)
        BY <3>1, <3>3 DEF RemoveFromAverage
    <3>4. QED
        BY <1>11, <3>2, <3>3
  <2>2. owner' \in [Process -> Worker \union {Monitor, NULL}]
    <3>1. owner' = [owner EXCEPT ![wproc[w]] = w]
        BY <1>11 DEF AddToAverage, RemoveFromAverage, Lock
    <3>2. QED
        BY <1>0, <3>1
  <2>3. /\ wpc' \in [Worker -> WorkerPc]
        /\ \A v \in Worker : wpc'[v] \in UsesProcess => wproc[v] # NULL
    <3>1. /\ wpc[w] = "requeue"
          /\ \E pc \in {"average", "leave"} : wpc' = [wpc EXCEPT ![w] = pc]
        BY <1>11 DEF AddToAverage, RemoveFromAverage
    <3>2. wproc' = wproc /\ wproc[w] # NULL
        BY <1>0, <1>11, <3>1 DEF AddToAverage, RemoveFromAverage
    <3>3. "average" \in WorkerPc /\ "leave" \in WorkerPc
        OBVIOUS
    <3> HIDE DEF WorkerPc, UsesProcess
    <3>4. QED
        BY <1>0, <3>1, <3>2, <3>3, WorkerMoves
  <2>4. UNCHANGED << queue, readMax, level, status, foundBurst, waitingBoost,
                     infoVars, wproc, wscan, wquantum, monitorVars, osVars >>
      BY <1>11 DEF AddToAverage, RemoveFromAverage
  <2> HIDE DEF WorkerPc, UsesProcess, Lock, Unlock
  <2>5. QED
      BY <2>1, <2>2, <2>3, <2>4 DEF TypeOK
<1>12. CASE MarkFound(w)
    BY <1>12 DEF MarkFound, TypeOK
<1>13. CASE StartIo(w)
  <2>1. isWaiting' \in [Process -> BOOLEAN]
      BY <1>0, <1>13 DEF StartIo
  <2>2. ioIndex' \in [Process -> Nat]
    <3>1. wproc[w] \in Process
        BY <1>0, <1>13 DEF StartIo, Entry
    <3>2. ioIndex' = [ioIndex EXCEPT ![wproc[w]] = ioIndex[wproc[w]] + 1]
        BY <1>13 DEF StartIo
    <3>3. QED
        BY <1>0, <3>1, <3>2
  <2>3. /\ wpc' \in [Worker -> WorkerPc]
        /\ \A v \in Worker : wpc'[v] \in UsesProcess => wproc'[v] # NULL
    <3>1. wpc[w] = "found" /\ wpc' = [wpc EXCEPT ![w] = "io"] /\ wproc' = wproc
        BY <1>13 DEF StartIo
    <3>2. wproc[w] # NULL /\ "io" \in WorkerPc
        BY <1>0, <3>1
    <3> HIDE DEF WorkerPc, UsesProcess
    <3>3. QED
        BY <1>0, <3>1, <3>2, WorkerMoves
  <2>4. UNCHANGED << queueVars, pcbVars, cpuIndex, remaining, isNew, doneCount,
                     wproc, wscan, wquantum, monitorVars, osVars >>
      BY <1>13 DEF StartIo
  <2> HIDE DEF WorkerPc, UsesProcess, Lock, Unlock
  <2>5. QED
      BY <2>1, <2>2, <2>3, <2>4 DEF TypeOK
<1>14. CASE FinishIo(w)
    BY <1>14 DEF FinishIo, TypeOK
<1>15. CASE Finish(w)
    BY <1>15 DEF Finish, TypeOK
<1>16. QED
    BY <1>1, <1>2, <1>3, <1>4, <1>5, <1>6, <1>7, <1>8, <1>9, <1>10, <1>11,
       <1>12, <1>13, <1>14, <1>15 DEF WorkerStep

LEMMA MonitorStepType ==
    ASSUME TypeOK, NEW p \in Process, MonitorStep(p)
    PROVE  TypeOK'
<1> USE DEF pcbVars, infoVars, monitorVars, osVars, workerVars, queueVars, Lock,
            Unlock, BoostOver
<1>0. /\ queue \in [Levels -> Seq(Entry)]
      /\ wpc \in [Worker -> WorkerPc]
      /\ level \in [Process -> Levels]
      /\ owner \in [Process -> Worker \union {Monitor, NULL}]
      /\ waitingBoost \in [Process -> BOOLEAN]
      /\ boosting \in [Process -> BOOLEAN]
      /\ sleeping \in [Process -> Nat]
      /\ \A v \in Worker : wpc[v] \in UsesProcess => wproc[v] # NULL
    BY DEF Entry, TypeOK
<1>1. CASE MonitorWake(p)
  <2>1. sleeping' \in [Process -> Nat]
    <3>1. sleeping[p] - 1 \in Nat
        BY <1>0, <1>1 DEF MonitorWake
    <3>2. QED
        BY <1>0, <1>1, <3>1 DEF MonitorWake
  <2>2. level' \in [Process -> Levels]
    <3>1. NewLevel(p) \in Levels
        BY DEF NewLevel, Levels, NumLevels, MaxLevel
    <3>2. level' = level \/ level' = [level EXCEPT ![p] = NewLevel(p)]
        BY <1>1 DEF MonitorWake
    <3>3. QED
        BY <1>0, <3>1, <3>2
  <2>3. /\ owner' \in [Process -> Worker \union {Monitor, NULL}]
        /\ boosting' \in [Process -> BOOLEAN]
        /\ waitingBoost' \in [Process -> BOOLEAN]
      BY <1>0, <1>1 DEF MonitorWake
  <2>4. QED
      BY <1>1, <2>1, <2>2, <2>3 DEF MonitorWake, TypeOK
<1>2. CASE MonitorRequeue(p)
  <2> DEFINE l == level[p]
             without == RemoveLast(queue[l], p)
  <2>1. l \in Levels /\ queue[l] \in Seq(Entry)
      BY <1>0
  <2>2. queue' \in [Levels -> Seq(Entry)]
    <3>1. CASE without = {}
        BY <1>0, <1>2, <3>1 DEF MonitorRequeue
    <3>2. CASE without # {}
      <4>1. PICK rest \in without : \E k \in 1 .. Len(rest) + 1 :
               queue' = [queue EXCEPT ![l] = InsertAt(rest, k, p)]
          BY <1>2, <3>2 DEF MonitorRequeue
      <4>2. PICK k \in 1 .. Len(rest) + 1 :
               queue' = [queue EXCEPT ![l] = InsertAt(rest, k, p)]
          BY <4>1
      <4>3. rest \in Seq(Entry)
          BY <2>1, RemoveLastType
      <4>4. InsertAt(rest, k, p) \in Seq(Entry)
          BY <4>3, InsertAtType DEF Entry
      <4>5. QED
          BY <1>0, <2>1, <4>2, <4>4
    <3>3. QED
        BY <3>1, <3>2
  <2>3. /\ wpc' \in [Worker -> WorkerPc]
        /\ \A v \in Worker : wpc'[v] \in UsesProcess => wproc[v] # NULL
    <3>1. wpc' = wpc \/ wpc' \in Signal
        BY <1>2 DEF MonitorRequeue
    <3>2. QED
        BY <1>0, <3>1, SignalWakes DEF UsesProcess
  <2>4. QED
      BY <1>2, <2>2, <2>3 DEF MonitorRequeue, Entry, TypeOK
<1>3. QED
    BY <1>1, <1>2 DEF MonitorStep

LEMMA OsStepType ==
    ASSUME TypeOK, OsStep
    PROVE  TypeOK'
<1> USE DEF pcbVars, infoVars, monitorVars, osVars, workerVars, queueVars, OsPc
<1>0. /\ queue \in [Levels -> Seq(Entry)]
      /\ wpc \in [Worker -> WorkerPc]
      /\ level \in [Process -> Levels]
      /\ osproc \in Entry
      /\ ospc = "push" => osproc # NULL
      /\ \A v \in Worker : wpc[v] \in UsesProcess => wproc[v] # NULL
    BY DEF Entry, TypeOK
<1>1. ASSUME NEW p \in Process, OsMove(p)
      PROVE  TypeOK'
    BY <1>1, NullAssumption DEF OsMove, TypeOK
<1>2. CASE OsPush
  <2>1. osproc \in Process /\ level[osproc] \in Levels
      BY <1>0, <1>2 DEF OsPush, Entry
  <2>2. queue' \in [Levels -> Seq(Entry)]
      BY <1>0, <1>2, <2>1, PushType DEF OsPush
  <2>3. QED
      BY <1>2, <2>2 DEF OsPush, Entry, TypeOK
<1>3. CASE OsSignal
  <2>1. /\ wpc' \in [Worker -> WorkerPc]
        /\ \A v \in Worker : wpc'[v] \in UsesProcess => wproc[v] # NULL
      BY <1>0, <1>3, SignalWakes DEF OsSignal, UsesProcess
  <2>2. QED
      BY <1>3, <2>1 DEF OsSignal, TypeOK
<1>4. CASE OsDone
    BY <1>4 DEF OsDone, TypeOK
<1>5. CASE OsPushPill
  <2>1. PillLevel \in Levels /\ NULL \in Entry
      BY DEF PillLevel, MaxLevel, Levels, NumLevels, Entry
  <2>2. queue' \in [Levels -> Seq(Entry)]
      BY <1>0, <1>5, <2>1, PushType DEF OsPushPill
  <2>3. QED
      BY <1>5, <2>2 DEF OsPushPill, Entry, TypeOK
<1>6. CASE OsEnd
    BY <1>6 DEF OsEnd, TypeOK
<1>7. QED
    BY <1>1, <1>2, <1>3, <1>4, <1>5, <1>6 DEF OsStep

\* A step in which nothing changes.
LEMMA StutterType == ASSUME TypeOK, UNCHANGED vars PROVE TypeOK'
BY DEF TypeOK, vars, pcbVars, infoVars, monitorVars, osVars, workerVars, queueVars

LEMMA NextType == TypeOK /\ [Next]_vars => TypeOK'
<1> SUFFICES ASSUME TypeOK, [Next]_vars PROVE TypeOK'
    OBVIOUS
<1>1. ASSUME NEW w \in Worker, WorkerStep(w) \/ SpuriousWakeup(w) PROVE TypeOK'
    BY <1>1, WorkerStepType
<1>2. ASSUME NEW p \in Process, MonitorStep(p) PROVE TypeOK'
    BY <1>2, MonitorStepType
<1>3. CASE OsStep
    BY <1>3, OsStepType
<1>4. CASE UNCHANGED vars
    BY <1>4, StutterType
<1>5. QED
    BY <1>1, <1>2, <1>3, <1>4 DEF Next, Terminated

\* Every variable keeps its type, and a worker or the main thread that is
\* about to use its process has one: worker_run never passes NULL to
\* os_run_process or dereferences a pill.
THEOREM TypeCorrect == Spec => []TypeOK
BY InitType, NextType, PTL DEF Spec

\* The facts of TypeOK that most steps need.
Queues == [Levels -> Seq(Entry)]

LEMMA TypeFacts ==
    ASSUME TypeOK
    PROVE  /\ queue \in Queues
           /\ wproc \in [Worker -> Entry]
           /\ wpc \in [Worker -> WorkerPc]
           /\ level \in [Process -> Levels]
           /\ status \in [Process -> {"none", "preempted", "blocked", "done"}]
           /\ cpuIndex \in [Process -> Nat] /\ ioIndex \in [Process -> Nat]
           /\ isNew \in [Process -> BOOLEAN] /\ isWaiting \in [Process -> BOOLEAN]
           /\ osproc \in Entry
           /\ \A w \in Worker : wpc[w] \in UsesProcess => wproc[w] \in Process
BY DEF TypeOK, Queues, Entry

-----------------------------------------------------------------------------
(***************************************************************************)
(* The monitor threads.                                                    *)
(***************************************************************************)
LEMMA InitBoost == Init => OneMonitorPerBoost
BY DEF Init, OneMonitorPerBoost

LEMMA NextBoost == TypeOK /\ OneMonitorPerBoost /\ [Next]_vars => OneMonitorPerBoost'
<1> SUFFICES ASSUME TypeOK, OneMonitorPerBoost, [Next]_vars
             PROVE  OneMonitorPerBoost'
    OBVIOUS
<1> USE DEF pcbVars, infoVars, monitorVars, osVars, workerVars, queueVars, Lock,
            Unlock, BoostOver
<1>0. /\ waitingBoost \in [Process -> BOOLEAN]
      /\ boosting \in [Process -> BOOLEAN]
      /\ sleeping \in [Process -> Nat]
      /\ wproc \in [Worker -> Process \union {NULL}]
    BY DEF TypeOK
<1>1. ASSUME UNCHANGED << waitingBoost, boosting, sleeping >>
      PROVE  OneMonitorPerBoost'
    BY <1>1 DEF OneMonitorPerBoost
<1>2. ASSUME NEW w \in Worker, UpdatePriority(w)
      PROVE  OneMonitorPerBoost'
  <2>1. boosting' = boosting
      BY <1>2 DEF UpdatePriority
  <2>2. CASE status[wproc[w]] = "preempted"
    <3>1. wproc[w] \in Process
        BY <1>0, <1>2 DEF UpdatePriority, TypeOK, UsesProcess
    <3>2. /\ waitingBoost' = [waitingBoost EXCEPT ![wproc[w]] = TRUE]
          /\ sleeping' = [sleeping EXCEPT ![wproc[w]] =
                             IF waitingBoost[wproc[w]] THEN @ ELSE @ + 1]
        BY <1>2, <2>2 DEF UpdatePriority, StartMonitor
    <3>3. QED
        BY <1>0, <2>1, <3>1, <3>2 DEF OneMonitorPerBoost
  <2>3. CASE status[wproc[w]] # "preempted"
      BY <1>1, <1>2, <2>1, <2>3 DEF UpdatePriority
  <2>4. QED
      BY <2>2, <2>3
<1>3. ASSUME NEW p \in Process, MonitorWake(p)
      PROVE  OneMonitorPerBoost'
  <2>1. sleeping' = [sleeping EXCEPT ![p] = @ - 1] /\ sleeping[p] > 0
      BY <1>3 DEF MonitorWake
  <2>2. ~boosting[p] /\ waitingBoost[p] /\ sleeping[p] = 1
      BY <1>0, <2>1 DEF OneMonitorPerBoost
  <2>3. \/ /\ boosting' = [boosting EXCEPT ![p] = TRUE]
           /\ waitingBoost' = waitingBoost
        \/ /\ waitingBoost' = [waitingBoost EXCEPT ![p] = FALSE]
           /\ boosting' = boosting
      BY <1>3 DEF MonitorWake
  <2>4. QED
      BY <1>0, <2>1, <2>2, <2>3 DEF OneMonitorPerBoost
<1>4. ASSUME NEW p \in Process, MonitorRequeue(p)
      PROVE  OneMonitorPerBoost'
  <2>1. /\ sleeping' = sleeping
        /\ boosting' = [boosting EXCEPT ![p] = FALSE]
        /\ waitingBoost' = [waitingBoost EXCEPT ![p] = FALSE]
        /\ boosting[p]
      BY <1>4 DEF MonitorRequeue
  <2>2. QED
      BY <1>0, <2>1 DEF OneMonitorPerBoost
<1>5. ASSUME NEW w \in Worker, WorkerStep(w) \/ SpuriousWakeup(w), ~UpdatePriority(w)
      PROVE  OneMonitorPerBoost'
    BY <1>1, <1>5
    DEF WorkerStep, SpuriousWakeup, PopLevel, PopWait, AfterPop, LockProcess,
        RunSlice, CheckPreempt, PushPreempted, SignalPreempted, AddToAverage,
        MarkFound, StartIo, FinishIo, RemoveFromAverage, Finish
<1>6. ASSUME OsStep \/ UNCHANGED vars
      PROVE  OneMonitorPerBoost'
    BY <1>1, <1>6
    DEF OsStep, OsMove, OsPush, OsSignal, OsDone, OsPushPill, OsEnd, vars
<1>7. QED
    BY <1>2, <1>3, <1>4, <1>5, <1>6 DEF Next, MonitorStep, Terminated

\* waiting_boost is set exactly while one monitor thread of the process is
\* alive, and a second is never created (update_priority_level,
\* priority_monitor_thread).
THEOREM OneMonitor == Spec => []OneMonitorPerBoost
BY InitType, NextType, InitBoost, NextBoost, PTL DEF Spec

-----------------------------------------------------------------------------
(***************************************************************************)
(* The owner of process->mutex.                                            *)
(***************************************************************************)

\* Ownership depends on nothing but the hands of the workers, the owner and
\* the monitors in their section.
LEMMA OwnerFrame ==
    ASSUME RunnerOwnsProcess, owner' = owner, boosting' = boosting,
           \A v \in Worker :
              (wpc'[v] \in Owning \/ wpc[v] \in Owning)
                 => wpc'[v] \in Owning /\ wpc[v] \in Owning /\ wproc'[v] = wproc[v]
    PROVE  RunnerOwnsProcess'
BY DEF RunnerOwnsProcess, Owning

\* A worker locks the free mutex of p.
LEMMA OwnerLock ==
    ASSUME TypeOK, RunnerOwnsProcess, NEW w \in Worker, NEW p \in Process,
           wproc[w] = p, wpc[w] \notin Owning, owner[p] = NULL,
           wpc'[w] \in Owning, wproc' = wproc,
           \A v \in Worker \ {w} : wpc'[v] = wpc[v],
           owner' = [owner EXCEPT ![p] = w], boosting' = boosting
    PROVE  RunnerOwnsProcess'
<1>1. owner \in [Process -> Worker \union {Monitor, NULL}]
    BY DEF TypeOK
<1>2. ~boosting[p] /\ \A v \in Worker : wproc[v] = p => wpc[v] \notin Owning
    BY NullAssumption DEF RunnerOwnsProcess, Owning
<1>3. owner'[p] = w /\ \A q \in Process \ {p} : owner'[q] = owner[q]
    BY <1>1
<1>4. ~boosting'[p] <=> owner'[p] # Monitor
    BY <1>2, <1>3, NullAssumption
<1>5. \A v \in Worker : wproc'[v] = p /\ wpc'[v] \in Owning <=> owner'[p] = v
    BY <1>2, <1>3
<1>6. \A q \in Process \ {p} :
          /\ boosting'[q] <=> owner'[q] = Monitor
          /\ \A v \in Worker : wproc'[v] = q /\ wpc'[v] \in Owning <=> owner'[q] = v
    BY <1>3 DEF RunnerOwnsProcess, Owning
<1>7. QED
    BY <1>4, <1>5, <1>6 DEF RunnerOwnsProcess, Owning

\* A worker unlocks the mutex it owns.
LEMMA OwnerUnlock ==
    ASSUME TypeOK, RunnerOwnsProcess, NEW w \in Worker, NEW p \in Process,
           wproc[w] = p, wpc[w] \in Owning,
           wpc'[w] \notin Owning,
           \A v \in Worker \ {w} :
              /\ wproc'[v] = wproc[v]
              /\ wpc'[v] = wpc[v] \/ (wpc[v] = "asleep" /\ wpc'[v] = "pop"),
           owner' = [owner EXCEPT ![p] = NULL], boosting' = boosting
    PROVE  RunnerOwnsProcess'
<1>1. owner[p] = w
    BY DEF RunnerOwnsProcess, Owning
<1>2. owner \in [Process -> Worker \union {Monitor, NULL}]
    BY DEF TypeOK
<1>3. ~boosting[p] /\ \A v \in Worker \ {w} : ~(wproc[v] = p /\ wpc[v] \in Owning)
    BY <1>1, NullAssumption DEF RunnerOwnsProcess, Owning
<1>4. owner'[p] = NULL /\ \A q \in Process \ {p} : owner'[q] = owner[q]
    BY <1>2
<1>5. \A v \in Worker \ {w} : wpc'[v] \in Owning <=> wpc[v] \in Owning
    BY DEF Owning
<1>6. ~boosting'[p] /\ owner'[p] \notin Worker \union {Monitor}
    BY <1>3, <1>4, NullAssumption
<1>7. \A v \in Worker : ~(wproc'[v] = p /\ wpc'[v] \in Owning)
    BY <1>3, <1>5
<1>8. \A q \in Process \ {p} :
          /\ boosting'[q] <=> owner'[q] = Monitor
          /\ \A v \in Worker : wproc'[v] = q /\ wpc'[v] \in Owning <=> owner'[q] = v
  <2> SUFFICES ASSUME NEW q \in Process \ {p}
               PROVE  /\ boosting'[q] <=> owner'[q] = Monitor
                      /\ \A v \in Worker : wproc'[v] = q /\ wpc'[v] \in Owning
                                             <=> owner'[q] = v
      OBVIOUS
  <2>1. \A v \in Worker : wproc[v] = q /\ wpc[v] \in Owning <=> owner[q] = v
      BY DEF RunnerOwnsProcess, Owning
  <2>2. owner[q] # w
      BY <2>1
  <2>3. QED
      BY <1>4, <1>5, <2>1, <2>2 DEF RunnerOwnsProcess
<1>9. QED
    BY <1>6, <1>7, <1>8 DEF RunnerOwnsProcess, Owning

LEMMA InitOwner == Init => RunnerOwnsProcess
BY NullAssumption DEF Init, RunnerOwnsProcess

LEMMA WorkerStepOwner ==
    ASSUME TypeOK, RunnerOwnsProcess, NEW w \in Worker,
           WorkerStep(w) \/ SpuriousWakeup(w)
    PROVE  RunnerOwnsProcess'
<1> DEFINE p == wproc[w]
<1> USE DEF pcbVars, infoVars, monitorVars, osVars, workerVars, queueVars, Lock,
            Unlock, BoostOver
<1>0. /\ wproc \in [Worker -> Process \union {NULL}]
      /\ wpc \in [Worker -> WorkerPc]
      /\ \A v \in Worker : wpc[v] \in UsesProcess => wproc[v] \in Process
    BY DEF TypeOK
<1>1. CASE PopLevel(w)
    BY <1>0, <1>1, OwnerFrame DEF PopLevel, Owning
<1>2. CASE PopWait(w)
    BY <1>0, <1>2, OwnerFrame DEF PopWait, Owning
<1>3. CASE SpuriousWakeup(w)
    BY <1>0, <1>3, OwnerFrame DEF SpuriousWakeup, Owning
<1>4. CASE AfterPop(w)
    BY <1>0, <1>4, OwnerFrame DEF AfterPop, Owning
<1>5. CASE LockProcess(w)
    BY <1>0, <1>5, OwnerLock DEF LockProcess, Owning, UsesProcess
<1>6. CASE RunSlice(w)
  <2>1. CASE level[p] = MaxLevel
      BY <1>0, <1>6, <2>1, OwnerUnlock DEF RunSlice, Owning, UsesProcess
  <2>2. CASE level[p] # MaxLevel
      BY <1>0, <1>6, <2>2, OwnerFrame DEF RunSlice, Owning
  <2>3. QED
      BY <2>1, <2>2
<1>7. CASE CheckPreempt(w)
  <2>1. CASE StopRunning(w)
      BY <1>0, <1>7, <2>1, OwnerUnlock DEF CheckPreempt, StopRunning, Owning, UsesProcess
  <2>2. CASE ~StopRunning(w)
      BY <1>0, <1>7, <2>2, OwnerFrame DEF CheckPreempt, Owning
  <2>3. QED
      BY <2>1, <2>2
<1>8. CASE UpdatePriority(w)
    BY <1>0, <1>8, OwnerFrame DEF UpdatePriority, Owning
<1>9. CASE PushPreempted(w)
    BY <1>0, <1>9, OwnerLock DEF PushPreempted, Owning, UsesProcess
<1>10. CASE SignalPreempted(w)
  <2>1. PICK pc \in Signal : wpc' = [pc EXCEPT ![w] = "pop"]
      BY <1>10 DEF SignalPreempted
  <2>2. /\ pc \in [Worker -> WorkerPc]
        /\ \A v \in Worker : pc[v] = wpc[v] \/ (wpc[v] = "asleep" /\ pc[v] = "pop")
      BY <1>0, SignalWakes
  <2>3. QED
      BY <1>0, <1>10, <2>1, <2>2, OwnerUnlock DEF SignalPreempted, Owning, UsesProcess
<1>11. CASE AddToAverage(w) \/ RemoveFromAverage(w)
    BY <1>0, <1>11, OwnerLock DEF AddToAverage, RemoveFromAverage, Owning, UsesProcess
<1>12. CASE MarkFound(w) \/ StartIo(w)
    BY <1>0, <1>12, OwnerFrame DEF MarkFound, StartIo, Owning
<1>13. CASE FinishIo(w) \/ Finish(w)
    BY <1>0, <1>13, OwnerUnlock DEF FinishIo, Finish, Owning, UsesProcess
<1>14. QED
    BY <1>1, <1>2, <1>3, <1>4, <1>5, <1>6, <1>7, <1>8, <1>9, <1>10, <1>11,
       <1>12, <1>13 DEF WorkerStep

LEMMA MonitorStepOwner ==
    ASSUME TypeOK, RunnerOwnsProcess, NEW p \in Process, MonitorStep(p)
    PROVE  RunnerOwnsProcess'
<1> USE DEF pcbVars, infoVars, monitorVars, osVars, workerVars, queueVars, Lock,
            Unlock, BoostOver
<1>0. /\ owner \in [Process -> Worker \union {Monitor, NULL}]
      /\ boosting \in [Process -> BOOLEAN]
      /\ wpc \in [Worker -> WorkerPc]
    BY DEF TypeOK
<1>1. CASE MonitorWake(p)
  <2>1. owner[p] = NULL /\ wpc' = wpc /\ wproc' = wproc
      BY <1>1 DEF MonitorWake
  <2>2. \/ /\ owner' = [owner EXCEPT ![p] = Monitor]
           /\ boosting' = [boosting EXCEPT ![p] = TRUE]
        \/ owner' = owner /\ boosting' = boosting
      BY <1>1 DEF MonitorWake
  <2>3. QED
      BY <1>0, <2>1, <2>2, NullAssumption DEF RunnerOwnsProcess, Owning
<1>2. CASE MonitorRequeue(p)
  <2>1. /\ boosting[p]
        /\ owner' = [owner EXCEPT ![p] = NULL]
        /\ boosting' = [boosting EXCEPT ![p] = FALSE]
        /\ wproc' = wproc
        /\ wpc' = wpc \/ wpc' \in Signal
      BY <1>2 DEF MonitorRequeue
  <2>2. \A v \in Worker : wpc'[v] = wpc[v] \/ (wpc[v] = "asleep" /\ wpc'[v] = "pop")
      BY <1>0, <2>1, SignalWakes
  <2>3. owner[p] = Monitor
      BY <2>1 DEF RunnerOwnsProcess
  <2>4. QED
      BY <1>0, <2>1, <2>2, <2>3, NullAssumption DEF RunnerOwnsProcess, Owning
<1>3. QED
    BY <1>1, <1>2 DEF MonitorStep

LEMMA OsStepOwner ==
    ASSUME TypeOK, RunnerOwnsProcess, OsStep
    PROVE  RunnerOwnsProcess'
<1> USE DEF pcbVars, infoVars, monitorVars, osVars, workerVars, queueVars, Lock,
            Unlock, BoostOver
<1>1. owner' = owner /\ boosting' = boosting /\ wproc' = wproc
    BY DEF OsStep, OsMove, OsPush, OsSignal, OsDone, OsPushPill, OsEnd
<1>2. wpc' = wpc \/ wpc' \in Signal
    BY DEF OsStep, OsMove, OsPush, OsSignal, OsDone, OsPushPill, OsEnd
<1>3. \A v \in Worker : wpc'[v] = wpc[v] \/ (wpc[v] = "asleep" /\ wpc'[v] = "pop")
    BY <1>2, SignalWakes DEF TypeOK
<1>4. QED
    BY <1>1, <1>3, OwnerFrame DEF Owning

LEMMA NextOwner == TypeOK /\ RunnerOwnsProcess /\ [Next]_vars => RunnerOwnsProcess'
<1> SUFFICES ASSUME TypeOK, RunnerOwnsProcess, [Next]_vars
             PROVE  RunnerOwnsProcess'
    OBVIOUS
<1>1. ASSUME NEW w \in Worker, WorkerStep(w) \/ SpuriousWakeup(w)
      PROVE  RunnerOwnsProcess'
    BY <1>1, WorkerStepOwner
<1>2. ASSUME NEW p \in Process, MonitorStep(p)
      PROVE  RunnerOwnsProcess'
    BY <1>2, MonitorStepOwner
<1>3. CASE OsStep
    BY <1>3, OsStepOwner
<1>4. CASE UNCHANGED vars
    BY <1>4, OwnerFrame DEF vars, pcbVars, monitorVars, workerVars
<1>5. QED
    BY <1>1, <1>2, <1>3, <1>4 DEF Next, Terminated

\* A worker runs, pushes back or starts the I/O of a process only as the owner
\* of its mutex, and a monitor changes its level only as the owner: no two
\* workers run one process (worker_run, priority_monitor_thread).
THEOREM MutualExclusion == Spec => []RunnerOwnsProcess
BY InitType, NextType, InitOwner, NextOwner, PTL DEF Spec

-----------------------------------------------------------------------------
(***************************************************************************)
(* The number of bursts in the quantum average.                            *)
(***************************************************************************)
AveragedSet == {p \in Process : Averaged(p)}

\* A worker between the write of found_burst and the end of the I/O: the mutex
\* it owns keeps the flag set.
FlagIsSet == \A w \in Worker : wpc[w] \in {"found", "io"} => foundBurst[wproc[w]]

CounterInv == CounterCountsFoundBursts /\ FlagIsSet

LEMMA InitCounter == Init => CounterInv
<1> SUFFICES ASSUME Init PROVE CounterInv
    OBVIOUS
<1>1. {p \in Process : Averaged(p)} = {}
    BY DEF Init, Averaged
<1>2. QED
    BY <1>1, FS_EmptySet DEF Init, CounterInv, CounterCountsFoundBursts, FlagIsSet

\* The two places between the counter and the flag.
Window == {"average", "leave"}

\* A step that touches neither the average nor a worker in the window.
LEMMA CounterFrame ==
    ASSUME CounterInv, counter' = counter, foundBurst' = foundBurst,
           \A v \in Worker :
              /\ wpc'[v] \in Window \/ wpc[v] \in Window
                    => wpc'[v] = wpc[v] /\ wproc'[v] = wproc[v]
              /\ wpc'[v] \in {"found", "io"}
                    => wpc[v] \in {"found", "io"} /\ wproc'[v] = wproc[v]
    PROVE  CounterInv'
<1>1. \A p \in Process : Averaged(p)' <=> Averaged(p)
    BY DEF Averaged, Window
<1>2. AveragedSet' = AveragedSet
    BY <1>1 DEF AveragedSet
<1>3. CounterCountsFoundBursts'
    BY <1>2 DEF CounterInv, CounterCountsFoundBursts, AveragedSet
<1>4. FlagIsSet'
    BY DEF CounterInv, FlagIsSet
<1>5. QED
    BY <1>3, <1>4 DEF CounterInv

\* A section of quantum_mutex moves the counter with the one process it is about.
LEMMA CounterAdd ==
    ASSUME CounterCountsFoundBursts, NEW p \in Process, Averaged(p)',
           \A q \in Process : q # p => (Averaged(q)' <=> Averaged(q)),
           counter' = IF Averaged(p) THEN counter ELSE counter + 1
    PROVE  CounterCountsFoundBursts'
<1>1. AveragedSet' = AveragedSet \union {p} /\ (p \in AveragedSet <=> Averaged(p))
    BY DEF AveragedSet
<1>2. IsFiniteSet(AveragedSet)
    BY FiniteAssumption, FS_Subset DEF AveragedSet
<1>3. Cardinality(AveragedSet') = IF Averaged(p) THEN Cardinality(AveragedSet)
                                  ELSE Cardinality(AveragedSet) + 1
    BY <1>1, <1>2, FS_AddElement
<1>4. QED
    BY <1>3 DEF CounterCountsFoundBursts, AveragedSet

LEMMA CounterRemove ==
    ASSUME CounterCountsFoundBursts, NEW p \in Process, ~Averaged(p)',
           \A q \in Process : q # p => (Averaged(q)' <=> Averaged(q)),
           counter' = IF Averaged(p) THEN counter - 1 ELSE counter
    PROVE  CounterCountsFoundBursts'
<1>1. AveragedSet' = AveragedSet \ {p} /\ (p \in AveragedSet <=> Averaged(p))
    BY DEF AveragedSet
<1>2. IsFiniteSet(AveragedSet)
    BY FiniteAssumption, FS_Subset DEF AveragedSet
<1>3. Cardinality(AveragedSet') = IF Averaged(p) THEN Cardinality(AveragedSet) - 1
                                  ELSE Cardinality(AveragedSet)
    BY <1>1, <1>2, FS_RemoveElement
<1>4. QED
    BY <1>3 DEF CounterCountsFoundBursts, AveragedSet

\* The write of found_burst after the section changes nothing.
LEMMA CounterKept ==
    ASSUME CounterCountsFoundBursts, counter' = counter,
           \A q \in Process : Averaged(q)' <=> Averaged(q)
    PROVE  CounterCountsFoundBursts'
<1>1. AveragedSet' = AveragedSet
    BY DEF AveragedSet
<1>2. QED
    BY <1>1 DEF CounterCountsFoundBursts, AveragedSet

\* A worker that owns the mutex of its process is alone with the counter and
\* the flag of the process.
LEMMA AloneInWindow ==
    ASSUME TypeOK, RunnerOwnsProcess, NEW w \in Worker, wpc[w] \in Owning
    PROVE  \A v \in Worker : v # w /\ wpc[v] \in Owning => wproc[v] # wproc[w]
<1>1. wproc[w] \in Process
    BY TypeFacts DEF Owning, UsesProcess
<1>2. owner[wproc[w]] = w
    BY <1>1 DEF RunnerOwnsProcess
<1>3. QED
    BY <1>1, <1>2 DEF RunnerOwnsProcess

\* add_to_quantum_average and remove_from_quantum_average, whether they return
\* early or not, up to the unlock of quantum_mutex.
LEMMA SectionCounter ==
    ASSUME TypeOK, RunnerOwnsProcess, CounterInv, NEW w \in Worker,
           AddToAverage(w) \/ RemoveFromAverage(w)
    PROVE  CounterInv'
<1>0. wproc \in [Worker -> Entry] /\ wpc \in [Worker -> WorkerPc]
    BY TypeFacts
<1>p. PICK p \in Process : p = wproc[w]
    BY TypeFacts DEF AddToAverage, RemoveFromAverage, UsesProcess
<1>1. p = wproc[w] /\ wpc[w] = "requeue" /\ owner[p] = NULL
    BY <1>p DEF AddToAverage, RemoveFromAverage, Lock
<1>2. \A v \in Worker : wproc[v] = p => wpc[v] \notin Owning
    BY <1>1, NullAssumption DEF RunnerOwnsProcess
<1>3. Averaged(p) <=> foundBurst[p]
    BY <1>1, <1>2 DEF Averaged, Owning
<1>4. /\ foundBurst' = foundBurst /\ wproc' = wproc
      /\ \A v \in Worker : v # w => wpc'[v] = wpc[v]
    BY <1>0 DEF AddToAverage, RemoveFromAverage, workerVars
<1>5. \A q \in Process : q # p => (Averaged(q)' <=> Averaged(q))
    BY <1>1, <1>4 DEF Averaged
<1>6. CASE AddToAverage(w)
  <2>1. wpc'[w] = "average" /\ counter' = IF foundBurst[p] THEN counter ELSE counter + 1
      BY <1>0, <1>1, <1>6 DEF AddToAverage, Included
  <2>2. Averaged(p)'
      BY <1>1, <1>4, <2>1 DEF Averaged
  <2>3. CounterCountsFoundBursts'
      BY <1>1, <1>3, <1>5, <2>1, <2>2, CounterAdd DEF CounterInv
  <2>4. FlagIsSet'
      BY <1>4, <2>1 DEF CounterInv, FlagIsSet
  <2>5. QED
      BY <2>3, <2>4 DEF CounterInv
<1>7. CASE RemoveFromAverage(w)
  <2>1. wpc'[w] = "leave" /\ counter' = IF foundBurst[p] THEN counter - 1 ELSE counter
      BY <1>0, <1>1, <1>7 DEF RemoveFromAverage, Excluded
  <2>2. ~Averaged(p)'
      BY <1>1, <1>2, <1>4, <2>1 DEF Averaged, Owning
  <2>3. CounterCountsFoundBursts'
      BY <1>1, <1>3, <1>5, <2>1, <2>2, CounterRemove DEF CounterInv
  <2>4. FlagIsSet'
      BY <1>4, <2>1 DEF CounterInv, FlagIsSet
  <2>5. QED
      BY <2>3, <2>4 DEF CounterInv
<1>8. QED
    BY <1>6, <1>7

\* The flag follows the counter, and is seen set until the I/O is started.
LEMMA FlagCounter ==
    ASSUME TypeOK, RunnerOwnsProcess, CounterInv, NEW w \in Worker,
           MarkFound(w) \/ StartIo(w) \/ FinishIo(w) \/ Finish(w)
    PROVE  CounterInv'
<1> USE DEF queueVars, pcbVars
<1>0. /\ wproc \in [Worker -> Entry] /\ wpc \in [Worker -> WorkerPc]
      /\ foundBurst \in [Process -> BOOLEAN]
      /\ \A v \in Worker : wpc[v] \in UsesProcess => wproc[v] \in Process
    BY TypeFacts DEF TypeOK
<1>1. wpc[w] \in {"average", "found", "io", "leave"}
    BY DEF MarkFound, StartIo, FinishIo, Finish
<1>2. PICK p \in Process : p = wproc[w]
    BY <1>0, <1>1 DEF UsesProcess
<1>3. \A v \in Worker : v # w /\ wpc[v] \in Owning => wproc[v] # p
    BY <1>1, <1>2, AloneInWindow DEF Owning
<1>4. /\ counter' = counter
      /\ \A v \in Worker : v # w => wpc'[v] = wpc[v] /\ wproc'[v] = wproc[v]
      /\ wproc'[w] \in {p, NULL} /\ wpc'[w] \notin Window
    BY <1>0, <1>2 DEF MarkFound, StartIo, FinishIo, Finish, Window
<1>5. \A q \in Process : q # p => foundBurst'[q] = foundBurst[q]
    BY <1>0, <1>2 DEF MarkFound, StartIo, FinishIo, Finish
<1>6. \A q \in Process : q # p => (Averaged(q)' <=> Averaged(q))
    BY <1>2, <1>4, <1>5, NullAssumption DEF Averaged, Window
<1>7. foundBurst'[p] <=> Averaged(p)
  <2>1. CASE MarkFound(w)
      BY <1>0, <1>2, <2>1 DEF MarkFound, Averaged
  <2>2. CASE StartIo(w) \/ FinishIo(w)
    <3>1. foundBurst[p] /\ wpc[w] \in {"found", "io"}
        BY <1>2, <2>2 DEF StartIo, FinishIo, CounterInv, FlagIsSet
    <3>2. foundBurst'[p]
        BY <1>0, <1>2, <2>2, <3>1 DEF StartIo, FinishIo
    <3>3. QED
        BY <1>2, <1>3, <3>1, <3>2 DEF Averaged, Owning
  <2>3. CASE Finish(w)
    <3>1. wpc[w] = "leave" /\ ~foundBurst'[p]
        BY <1>0, <1>2, <2>3 DEF Finish
    <3>2. QED
        BY <1>2, <1>3, <3>1 DEF Averaged, Owning
  <2>4. QED
      BY <2>1, <2>2, <2>3
<1>8. Averaged(p)' <=> foundBurst'[p]
    BY <1>2, <1>3, <1>4 DEF Averaged, Owning, Window
<1>9. CounterCountsFoundBursts'
    BY <1>4, <1>6, <1>7, <1>8, CounterKept DEF CounterInv
<1>10. FlagIsSet'
  <2>1. ASSUME NEW v \in Worker, v # w, wpc'[v] \in {"found", "io"}
        PROVE  foundBurst'[wproc'[v]]
      BY <1>0, <1>3, <1>4, <1>5, <2>1
      DEF CounterInv, FlagIsSet, Owning, UsesProcess
  <2>2. ASSUME wpc'[w] \in {"found", "io"}
        PROVE  foundBurst'[wproc'[w]]
    <3>1. MarkFound(w) \/ StartIo(w)
        BY <1>0, <2>2 DEF FinishIo, Finish
    <3>2. wproc' = wproc
        BY <3>1 DEF MarkFound, StartIo
    <3>3. foundBurst'[p]
        BY <1>0, <1>2, <3>1 DEF MarkFound, StartIo, CounterInv, FlagIsSet
    <3>4. QED
        BY <1>2, <3>2, <3>3
  <2>3. QED
      BY <2>1, <2>2 DEF FlagIsSet
<1>11. QED
    BY <1>9, <1>10 DEF CounterInv

LEMMA WorkerStepCounter ==
    ASSUME TypeOK, RunnerOwnsProcess, CounterInv, NEW w \in Worker,
           WorkerStep(w) \/ SpuriousWakeup(w)
    PROVE  CounterInv'
<1> USE DEF pcbVars, infoVars, monitorVars, osVars, workerVars, queueVars
<1>0. wproc \in [Worker -> Entry] /\ wpc \in [Worker -> WorkerPc]
    BY TypeFacts
<1>1. CASE PopLevel(w) \/ PopWait(w) \/ SpuriousWakeup(w)
    BY <1>0, <1>1, CounterFrame DEF PopLevel, PopWait, SpuriousWakeup, Window
<1>2. CASE AfterPop(w) \/ LockProcess(w)
    BY <1>0, <1>2, CounterFrame DEF AfterPop, LockProcess, Window
<1>3. CASE RunSlice(w)
    BY <1>0, <1>3, CounterFrame DEF RunSlice, Window
<1>4. CASE CheckPreempt(w)
    BY <1>0, <1>4, CounterFrame DEF CheckPreempt, StopRunning, Window
<1>5. CASE UpdatePriority(w) \/ PushPreempted(w)
    BY <1>0, <1>5, CounterFrame DEF UpdatePriority, PushPreempted, Window
<1>6. CASE SignalPreempted(w)
  <2>1. PICK pc \in Signal : wpc' = [pc EXCEPT ![w] = "pop"]
      BY <1>6 DEF SignalPreempted
  <2>2. /\ pc \in [Worker -> WorkerPc]
        /\ \A v \in Worker : pc[v] = wpc[v] \/ (wpc[v] = "asleep" /\ pc[v] = "pop")
      BY <1>0, SignalWakes
  <2>3. QED
      BY <1>0, <1>6, <2>1, <2>2, CounterFrame DEF SignalPreempted, Window
<1>7. CASE AddToAverage(w) \/ RemoveFromAverage(w)
    BY <1>7, SectionCounter
<1>8. CASE MarkFound(w) \/ StartIo(w) \/ FinishIo(w) \/ Finish(w)
    BY <1>8, FlagCounter
<1>9. QED
    BY <1>1, <1>2, <1>3, <1>4, <1>5, <1>6, <1>7, <1>8 DEF WorkerStep

LEMMA NextCounter ==
    TypeOK /\ RunnerOwnsProcess /\ CounterInv /\ [Next]_vars => CounterInv'
<1> SUFFICES ASSUME TypeOK, RunnerOwnsProcess, CounterInv, [Next]_vars
             PROVE  CounterInv'
    OBVIOUS
<1> USE DEF pcbVars, infoVars, monitorVars, osVars, workerVars, queueVars, Lock,
            Unlock, BoostOver
<1>1. ASSUME NEW w \in Worker, WorkerStep(w) \/ SpuriousWakeup(w)
      PROVE  CounterInv'
    BY <1>1, WorkerStepCounter
<1>2. ASSUME \/ \E p \in Process : MonitorStep(p)
             \/ OsStep
             \/ UNCHANGED vars
      PROVE  CounterInv'
  <2>1. counter' = counter /\ foundBurst' = foundBurst /\ wproc' = wproc
      BY <1>2 DEF MonitorStep, MonitorWake, MonitorRequeue, OsStep, OsMove,
                  OsPush, OsSignal, OsDone, OsPushPill, OsEnd, vars
  <2>2. wpc' = wpc \/ wpc' \in Signal
      BY <1>2 DEF MonitorStep, MonitorWake, MonitorRequeue, OsStep, OsMove,
                  OsPush, OsSignal, OsDone, OsPushPill, OsEnd, vars
  <2>3. \A v \in Worker : wpc'[v] = wpc[v] \/ (wpc[v] = "asleep" /\ wpc'[v] = "pop")
      BY <2>2, SignalWakes DEF TypeOK
  <2>4. QED
      BY <2>1, <2>3, CounterFrame DEF Window
<1>3. QED
    BY <1>1, <1>2 DEF Next, Terminated

\* quantum_counter is the number of processes whose burst is in the average,
\* at every moment and with any number of workers between the section of
\* quantum_mutex and the write of found_burst that follows it: it is never
\* negative, and 1 only when the last one leaves.
THEOREM CounterIsExact == Spec => []CounterCountsFoundBursts
BY InitType, NextType, InitOwner, NextOwner, InitCounter, NextCounter, PTL
DEF Spec, CounterInv

-----------------------------------------------------------------------------
(***************************************************************************)
(* The nodes of the ready queue that hold a process.                       *)
(***************************************************************************)
In(q, l, p) == \E i \in 1 .. Len(q[l]) : q[l][i] = p

Once(q, p) ==
    \A l, m \in Levels : \A i \in 1 .. Len(q[l]), j \in 1 .. Len(q[m]) :
        q[l][i] = p /\ q[m][j] = p => l = m /\ i = j

\* What a change of the queue leaves alone about a process.
Unmoved(q, r, p) ==
    /\ \A l \in Levels : In(r, l, p) <=> In(q, l, p)
    /\ Once(q, p) => Once(r, p)

\* A list with one more element: x is in it, the rest has moved.
LEMMA OneMore ==
    ASSUME NEW q \in Queues, NEW r \in Queues, NEW l \in Levels, NEW x \in Entry,
           \A m \in Levels : m # l => r[m] = q[m],
           Len(r[l]) = Len(q[l]) + 1,
           NEW k \in 1 .. Len(q[l]) + 1,
           \A i \in 1 .. Len(q[l]) + 1 :
              r[l][i] = IF i < k THEN q[l][i] ELSE IF i = k THEN x ELSE q[l][i - 1]
    PROVE  /\ \A p \in Process : p # x => Unmoved(q, r, p)
           /\ (\A m \in Levels : ~In(q, m, x))
                => Once(r, x) /\ \A m \in Levels : In(r, m, x) <=> m = l
<1>0. \A m \in Levels : Len(q[m]) \in Nat /\ Len(r[m]) \in Nat
    BY DEF Queues
<1> DEFINE old == [i \in 1 .. Len(r[l]) |-> IF i < k THEN i ELSE i - 1]
           new == [i \in 1 .. Len(q[l]) |-> IF i < k THEN i ELSE i + 1]
<1>1. ASSUME NEW i \in 1 .. Len(r[l]), i # k
      PROVE  old[i] \in 1 .. Len(q[l]) /\ r[l][i] = q[l][old[i]]
  <2>1. Len(q[l]) \in Nat /\ i \in 1 .. Len(q[l]) + 1
      BY <1>0
  <2>2. CASE i < k
      BY <2>1, <2>2
  <2>3. CASE i > k
      BY <2>1, <2>3
  <2>4. QED
      BY <1>1, <2>1, <2>2, <2>3
<1>2. ASSUME NEW i \in 1 .. Len(q[l])
      PROVE  new[i] \in 1 .. Len(r[l]) /\ r[l][new[i]] = q[l][i]
  <2>1. Len(q[l]) \in Nat
      BY <1>0
  <2>2. CASE i < k
      BY <2>1, <2>2
  <2>3. CASE i >= k
      BY <2>1, <2>3
  <2>4. QED
      BY <2>1, <2>2, <2>3
<1>3. \A i, j \in 1 .. Len(r[l]) : i # k /\ j # k /\ old[i] = old[j] => i = j
    BY <1>0
<1>4. k \in 1 .. Len(r[l]) /\ r[l][k] = x
    BY <1>0
<1> HIDE DEF old, new
<1>5. ASSUME NEW p \in Process, p # x
      PROVE  Unmoved(q, r, p)
  <2>1. ASSUME NEW i \in 1 .. Len(r[l]), r[l][i] = p
        PROVE  i # k /\ old[i] \in 1 .. Len(q[l]) /\ q[l][old[i]] = p
      BY <1>1, <1>4, <1>5, <2>1
  <2>2. ASSUME NEW m \in Levels
        PROVE  In(r, m, p) <=> In(q, m, p)
    <3>1. CASE m # l
        BY <3>1 DEF In
    <3>2. In(r, l, p) => In(q, l, p)
        BY <2>1 DEF In
    <3>3. In(q, l, p) => In(r, l, p)
        BY <1>2 DEF In
    <3>4. QED
        BY <3>1, <3>2, <3>3
  <2>3. ASSUME Once(q, p)
        PROVE  Once(r, p)
    <3> SUFFICES ASSUME NEW m \in Levels, NEW n \in Levels,
                        NEW i \in 1 .. Len(r[m]), NEW j \in 1 .. Len(r[n]),
                        r[m][i] = p, r[n][j] = p
                 PROVE  m = n /\ i = j
        BY DEF Once
    <3>1. CASE m = l /\ n = l
      <4>1. old[i] = old[j]
          BY <2>1, <2>3, <3>1 DEF Once
      <4>2. i # k /\ j # k
          BY <2>1, <3>1
      <4>3. QED
          BY <1>3, <3>1, <4>1, <4>2
    <3>2. CASE m = l /\ n # l
      <4>1. old[i] \in 1 .. Len(q[l]) /\ q[l][old[i]] = p
          BY <2>1, <3>2
      <4>2. j \in 1 .. Len(q[n]) /\ q[n][j] = p
          BY <3>2
      <4>3. QED
          BY <2>3, <3>2, <4>1, <4>2 DEF Once
    <3>3. CASE m # l /\ n = l
      <4>1. old[j] \in 1 .. Len(q[l]) /\ q[l][old[j]] = p
          BY <2>1, <3>3
      <4>2. i \in 1 .. Len(q[m]) /\ q[m][i] = p
          BY <3>3
      <4>3. QED
          BY <2>3, <3>3, <4>1, <4>2 DEF Once
    <3>4. CASE m # l /\ n # l
        BY <2>3, <3>4 DEF Once
    <3>5. QED
        BY <3>1, <3>2, <3>3, <3>4
  <2>4. QED
      BY <2>2, <2>3 DEF Unmoved
<1>6. ASSUME \A m \in Levels : ~In(q, m, x)
      PROVE  Once(r, x) /\ \A m \in Levels : In(r, m, x) <=> m = l
  <2>1. ASSUME NEW m \in Levels, NEW i \in 1 .. Len(r[m]), r[m][i] = x
        PROVE  m = l /\ i = k
    <3>1. CASE m # l
        BY <1>6, <2>1, <3>1 DEF In
    <3>2. CASE m = l /\ i # k
        BY <1>1, <1>6, <2>1, <3>2 DEF In
    <3>3. QED
        BY <3>1, <3>2
  <2>2. QED
      BY <1>4, <2>1 DEF Once, In
<1>7. QED
    BY <1>5, <1>6

\* A push adds the entry to its level, when it is in none, and moves no other
\* process (ready_queue_push, at the tail and in order).
LEMMA PushEffect ==
    ASSUME NEW l \in Levels, NEW x \in Entry, queue \in Queues, Push(queue, x, l)
    PROVE  /\ queue' \in Queues
           /\ \A p \in Process : p # x => Unmoved(queue, queue', p)
           /\ (\A m \in Levels : ~In(queue, m, x))
                => Once(queue', x) /\ \A m \in Levels : In(queue', m, x) <=> m = l
<1>1. queue' \in Queues
    BY PushType DEF Queues
<1>2. queue[l] \in Seq(Entry)
    BY DEF Queues
<1>3. \A m \in Levels : m # l => queue'[m] = queue[m]
    BY DEF Push, Queues
<1>4. CASE x = NULL \/ l = MaxLevel
  <2>1. queue'[l] = PushTail(queue[l], x)
      BY <1>4 DEF Push, Queues
  <2>2. /\ Len(queue'[l]) = Len(queue[l]) + 1
        /\ \A i \in 1 .. Len(queue[l]) + 1 :
              queue'[l][i] = IF i = Len(queue[l]) + 1 THEN x ELSE queue[l][i]
      BY <1>2, <2>1, AppendElements DEF PushTail
  <2> DEFINE k == Len(queue[l]) + 1
  <2>3. k \in 1 .. Len(queue[l]) + 1
        /\ \A i \in 1 .. Len(queue[l]) + 1 :
              queue'[l][i] = IF i < k THEN queue[l][i]
                             ELSE IF i = k THEN x ELSE queue[l][i - 1]
      BY <1>2, <2>2
  <2> HIDE DEF k
  <2>4. QED
      BY <1>1, <1>3, <2>2, <2>3, OneMore
<1>5. CASE ~(x = NULL \/ l = MaxLevel)
  <2>1. PICK k \in 1 .. Len(queue[l]) + 1 :
           queue' = [queue EXCEPT ![l] = InsertAt(@, k, x)]
      BY <1>5 DEF Push
  <2>2. queue'[l] = InsertAt(queue[l], k, x)
      BY <2>1 DEF Queues
  <2>3. /\ Len(queue'[l]) = Len(queue[l]) + 1
        /\ \A i \in 1 .. Len(queue[l]) + 1 :
              queue'[l][i] = IF i < k THEN queue[l][i]
                             ELSE IF i = k THEN x ELSE queue[l][i - 1]
      BY <1>2, <2>2, InsertAtElements
  <2>4. QED
      BY <1>1, <1>3, <2>3, OneMore
<1>6. QED
    BY <1>4, <1>5

\* A list with one element less: x, which was in it once, is in no list.
LEMMA OneLess ==
    ASSUME NEW q \in Queues, NEW r \in Queues, NEW l \in Levels,
           \A m \in Levels : m # l => r[m] = q[m],
           Len(r[l]) = Len(q[l]) - 1,
           NEW k \in 1 .. Len(q[l]),
           \A i \in 1 .. Len(q[l]) - 1 :
              r[l][i] = IF i < k THEN q[l][i] ELSE q[l][i + 1]
    PROVE  /\ \A p \in Process : p # q[l][k] => Unmoved(q, r, p)
           /\ Once(q, q[l][k]) => \A m \in Levels : ~In(r, m, q[l][k])
<1>0. \A m \in Levels : Len(q[m]) \in Nat /\ Len(r[m]) \in Nat
    BY DEF Queues
<1> DEFINE old == [i \in 1 .. Len(r[l]) |-> IF i < k THEN i ELSE i + 1]
           new == [i \in 1 .. Len(q[l]) |-> IF i < k THEN i ELSE i - 1]
<1>1. ASSUME NEW i \in 1 .. Len(r[l])
      PROVE  /\ old[i] \in 1 .. Len(q[l]) /\ old[i] # k
             /\ r[l][i] = q[l][old[i]]
  <2>1. Len(q[l]) \in Nat /\ i \in 1 .. Len(q[l]) - 1
      BY <1>0
  <2>2. CASE i < k
      BY <2>1, <2>2
  <2>3. CASE i >= k
      BY <2>1, <2>3
  <2>4. QED
      BY <2>1, <2>2, <2>3
<1>2. ASSUME NEW i \in 1 .. Len(q[l]), i # k
      PROVE  new[i] \in 1 .. Len(r[l]) /\ r[l][new[i]] = q[l][i]
  <2>1. Len(q[l]) \in Nat /\ Len(r[l]) = Len(q[l]) - 1
      BY <1>0
  <2>2. CASE i < k
    <3>1. new[i] = i /\ i \in 1 .. Len(q[l]) - 1
        BY <2>1, <2>2
    <3>2. QED
        BY <2>1, <2>2, <3>1
  <2>3. CASE i > k
    <3>1. new[i] = i - 1 /\ i - 1 \in 1 .. Len(q[l]) - 1
        BY <2>1, <2>3
    <3>2. r[l][i - 1] = q[l][(i - 1) + 1]
        BY <2>3, <3>1
    <3>3. QED
        BY <2>1, <3>1, <3>2
  <2>4. QED
      BY <1>2, <2>1, <2>2, <2>3
<1>3. \A i, j \in 1 .. Len(r[l]) : old[i] = old[j] => i = j
    BY <1>0
<1> HIDE DEF old, new
<1>4. ASSUME NEW p \in Process, p # q[l][k]
      PROVE  Unmoved(q, r, p)
  <2>1. ASSUME NEW m \in Levels
        PROVE  In(r, m, p) <=> In(q, m, p)
    <3>1. CASE m # l
        BY <3>1 DEF In
    <3>2. In(r, l, p) => In(q, l, p)
        BY <1>1 DEF In
    <3>3. In(q, l, p) => In(r, l, p)
        BY <1>2, <1>4 DEF In
    <3>4. QED
        BY <3>1, <3>2, <3>3
  <2>2. ASSUME Once(q, p)
        PROVE  Once(r, p)
    <3> SUFFICES ASSUME NEW m \in Levels, NEW n \in Levels,
                        NEW i \in 1 .. Len(r[m]), NEW j \in 1 .. Len(r[n]),
                        r[m][i] = p, r[n][j] = p
                 PROVE  m = n /\ i = j
        BY DEF Once
    <3>1. CASE m = l /\ n = l
      <4>1. /\ old[i] \in 1 .. Len(q[l]) /\ q[l][old[i]] = p
            /\ old[j] \in 1 .. Len(q[l]) /\ q[l][old[j]] = p
          BY <1>1, <3>1
      <4>2. old[i] = old[j]
          BY <2>2, <4>1 DEF Once
      <4>3. QED
          BY <1>3, <3>1, <4>2
    <3>2. CASE m = l /\ n # l
      <4>1. old[i] \in 1 .. Len(q[l]) /\ q[l][old[i]] = p
          BY <1>1, <3>2
      <4>2. j \in 1 .. Len(q[n]) /\ q[n][j] = p
          BY <3>2
      <4>3. QED
          BY <2>2, <3>2, <4>1, <4>2 DEF Once
    <3>3. CASE m # l /\ n = l
      <4>1. old[j] \in 1 .. Len(q[l]) /\ q[l][old[j]] = p
          BY <1>1, <3>3
      <4>2. i \in 1 .. Len(q[m]) /\ q[m][i] = p
          BY <3>3
      <4>3. QED
          BY <2>2, <3>3, <4>1, <4>2 DEF Once
    <3>4. CASE m # l /\ n # l
        BY <2>2, <3>4 DEF Once
    <3>5. QED
        BY <3>1, <3>2, <3>3, <3>4
  <2>3. QED
      BY <2>1, <2>2 DEF Unmoved
<1>5. ASSUME Once(q, q[l][k]), NEW m \in Levels, NEW i \in 1 .. Len(r[m]),
             r[m][i] = q[l][k]
      PROVE  FALSE
  <2>1. CASE m = l
      BY <1>1, <1>5, <2>1 DEF Once
  <2>2. CASE m # l
      BY <1>5, <2>2 DEF Once
  <2>3. QED
      BY <2>1, <2>2
<1>6. QED
    BY <1>4, <1>5 DEF In

\* A pop takes the head of a list: no list holds the process any more.
LEMMA PopEffect ==
    ASSUME NEW l \in Levels, queue \in Queues, queue[l] # << >>,
           queue' = [queue EXCEPT ![l] = Tail(@)]
    PROVE  /\ Head(queue[l]) \in Entry /\ queue' \in Queues
           /\ In(queue, l, Head(queue[l]))
           /\ \A p \in Process : p # Head(queue[l]) => Unmoved(queue, queue', p)
           /\ Once(queue, Head(queue[l]))
                => \A m \in Levels : ~In(queue', m, Head(queue[l]))
<1>1. queue[l] \in Seq(Entry)
    BY DEF Queues
<1> DEFINE tail == Tail(queue[l])
<1>2. /\ Head(queue[l]) \in Entry /\ tail \in Seq(Entry)
      /\ Len(queue[l]) \in Nat \ {0} /\ queue[l][1] = Head(queue[l])
      /\ Len(tail) = Len(queue[l]) - 1
      /\ \A i \in 1 .. Len(queue[l]) - 1 : tail[i] = queue[l][i + 1]
    BY <1>1
<1> HIDE DEF tail
<1>3. queue' \in Queues /\ queue'[l] = tail
      /\ \A m \in Levels : m # l => queue'[m] = queue[m]
    BY <1>2 DEF Queues, tail
<1> DEFINE k == 1
<1>4. k \in 1 .. Len(queue[l]) /\ \A i \in 1 .. Len(queue[l]) - 1 :
         queue'[l][i] = IF i < k THEN queue[l][i] ELSE queue[l][i + 1]
  <2>1. \A i \in 1 .. Len(queue[l]) - 1 : queue'[l][i] = queue[l][i + 1] /\ ~(i < k)
      BY <1>2, <1>3
  <2>2. QED
      BY <1>2, <2>1
<1>5. queue[l][k] = Head(queue[l])
    BY <1>2
<1> HIDE DEF k
<1>6. Len(queue'[l]) = Len(queue[l]) - 1
    BY <1>2, <1>3
<1>7. /\ \A p \in Process : p # queue[l][k] => Unmoved(queue, queue', p)
      /\ Once(queue, queue[l][k]) => \A m \in Levels : ~In(queue', m, queue[l][k])
    BY <1>3, <1>4, <1>6, OneLess
<1>8. In(queue, l, Head(queue[l]))
    BY <1>4, <1>5 DEF In
<1>9. QED
    BY <1>2, <1>3, <1>5, <1>7, <1>8

\* A monitor takes a process out of a list and puts it back: every process is
\* where it was (ready_queue_remove, then ready_queue_push).
LEMMA RequeueEffect ==
    ASSUME NEW l \in Levels, NEW x \in Process, queue \in Queues, Once(queue, x),
           NEW rest \in RemoveLast(queue[l], x), NEW k \in 1 .. Len(rest) + 1,
           queue' = [queue EXCEPT ![l] = InsertAt(rest, k, x)]
    PROVE  \A p \in Process : Unmoved(queue, queue', p)
<1>1. queue[l] \in Seq(Entry) /\ rest \in Seq(Entry) /\ x \in Entry
    BY RemoveLastType DEF Queues, Entry
<1>2. PICK n \in 1 .. Len(queue[l]) : queue[l][n] = x /\ rest = RemoveAt(queue[l], n)
    BY DEF RemoveLast
<1> DEFINE without == [queue EXCEPT ![l] = rest]
<1>3. without \in Queues /\ without[l] = rest
      /\ \A m \in Levels : m # l => without[m] = queue[m]
    BY <1>1 DEF Queues
<1>4. /\ Len(without[l]) = Len(queue[l]) - 1
      /\ \A i \in 1 .. Len(queue[l]) - 1 :
            without[l][i] = IF i < n THEN queue[l][i] ELSE queue[l][i + 1]
    BY <1>1, <1>2, <1>3, RemoveAtElements
<1> HIDE DEF without
<1>5. /\ \A p \in Process : p # x => Unmoved(queue, without, p)
      /\ \A m \in Levels : ~In(without, m, x)
    BY <1>2, <1>3, <1>4, OneLess
<1>6. /\ InsertAt(rest, k, x) \in Seq(Entry)
      /\ Len(InsertAt(rest, k, x)) = Len(rest) + 1
      /\ \A i \in 1 .. Len(rest) + 1 :
            InsertAt(rest, k, x)[i] = IF i < k THEN rest[i]
                                      ELSE IF i = k THEN x ELSE rest[i - 1]
  <2>1. InsertAt(rest, k, x) \in Seq(Entry)
      BY <1>1, InsertAtType
  <2>2. /\ Len(InsertAt(rest, k, x)) = Len(rest) + 1
        /\ \A i \in 1 .. Len(rest) + 1 :
              InsertAt(rest, k, x)[i] = IF i < k THEN rest[i]
                                        ELSE IF i = k THEN x ELSE rest[i - 1]
      BY <1>1, InsertAtElements
  <2>3. QED
      BY <2>1, <2>2
<1>7. /\ queue' \in Queues /\ queue'[l] = InsertAt(rest, k, x)
      /\ \A m \in Levels : m # l => queue'[m] = without[m]
    BY <1>3, <1>6 DEF Queues
<1>8. /\ \A p \in Process : p # x => Unmoved(without, queue', p)
      /\ Once(queue', x) /\ \A m \in Levels : In(queue', m, x) <=> m = l
  <2>1. /\ k \in 1 .. Len(without[l]) + 1 /\ Len(queue'[l]) = Len(without[l]) + 1
        /\ \A i \in 1 .. Len(without[l]) + 1 :
              queue'[l][i] = IF i < k THEN without[l][i]
                             ELSE IF i = k THEN x ELSE without[l][i - 1]
      BY <1>3, <1>6, <1>7
  <2>2. without \in Queues /\ queue' \in Queues /\ x \in Entry
        /\ \A m \in Levels : m # l => queue'[m] = without[m]
      BY <1>1, <1>3, <1>7
  <2>3. /\ \A p \in Process : p # x => Unmoved(without, queue', p)
        /\ (\A m \in Levels : ~In(without, m, x))
              => Once(queue', x) /\ \A m \in Levels : In(queue', m, x) <=> m = l
    <3> DEFINE r == queue'
    <3>1. /\ r \in Queues /\ Len(r[l]) = Len(without[l]) + 1
          /\ \A m \in Levels : m # l => r[m] = without[m]
          /\ \A i \in 1 .. Len(without[l]) + 1 :
                r[l][i] = IF i < k THEN without[l][i]
                          ELSE IF i = k THEN x ELSE without[l][i - 1]
        BY <2>1, <2>2
    <3> HIDE DEF r
    <3>2. /\ \A p \in Process : p # x => Unmoved(without, r, p)
          /\ (\A m \in Levels : ~In(without, m, x))
                => Once(r, x) /\ \A m \in Levels : In(r, m, x) <=> m = l
        BY ONLY <2>1, <2>2, <3>1, OneMore, l \in Levels
    <3>3. QED
        BY <3>2 DEF r
  <2>4. QED
      BY <1>5, <2>3
<1>9. \A m \in Levels : In(queue, m, x) <=> m = l
    BY <1>2 DEF Once, In
<1>10. QED
    BY <1>5, <1>8, <1>9 DEF Unmoved

-----------------------------------------------------------------------------
(***************************************************************************)
(* The inductive invariant.                                                *)
(***************************************************************************)
Queued(p) == \E l \in Levels : In(queue, l, p)
Held(p) == \E w \in Worker : Holds(w, p)

\* The process has run and its worker has not handed it on yet.
Late == {"check", "update", "requeue", "average", "found", "leave"}
HeldLate(p) == \E w \in Worker : Holds(w, p) /\ wpc[w] \in Late

\* A process is in exactly one place.
PlaceInv(p) ==
    /\ Once(queue, p)
    /\ \A v, w \in Worker : Holds(v, p) /\ Holds(w, p) => v = w
    /\ Queued(p) => ~Held(p) /\ ~isWaiting[p] /\ osproc # p /\ status[p] # "done"
    /\ Held(p) => ~isWaiting[p] /\ osproc # p
    /\ isWaiting[p] => osproc # p /\ status[p] # "done"
    /\ osproc = p => status[p] # "done"
    /\ Queued(p) \/ Held(p) \/ isWaiting[p] \/ osproc = p \/ status[p] = "done"

\* A process that has not been preempted is at level 0 outside of a worker, so
\* that no monitor moves it; a queued process is never below its node's level.
LevelInv(p) ==
    /\ isWaiting[p] \/ osproc = p
          => status[p] \in {"none", "blocked"} /\ level[p] = MaxLevel
    /\ Queued(p) /\ status[p] \in {"none", "blocked"} => level[p] = MaxLevel
    /\ \A w \in Worker :
          Holds(w, p) /\ wpc[w] \in {"requeue", "average", "found"} /\ status[p] = "blocked"
             => level[p] = MaxLevel
    /\ \A l \in Levels : In(queue, l, p)
          => level[p] <= l /\ (level[p] = MaxLevel => l = MaxLevel)

\* How far a process is: it starts the I/O of a burst after the burst, and
\* before the next one, and no status changes while its worker hands it over.
BurstInv(p) ==
    /\ status[p] = "done" =>
          /\ cpuIndex[p] = BurstCount[p] /\ ioIndex[p] + 1 = BurstCount[p]
          /\ \A w \in Worker : Holds(w, p) => wpc[w] \in Late
    /\ status[p] # "done" =>
          /\ cpuIndex[p] < BurstCount[p]
          /\ ioIndex[p] + (IF status[p] = "blocked" /\ HeldLate(p) THEN 1 ELSE 0)
                = cpuIndex[p]
    /\ isNew[p] => isWaiting[p] /\ cpuIndex[p] = 0
    /\ \A w \in Worker : Holds(w, p) =>
          /\ wpc[w] \in {"average", "found"} => status[p] = "blocked"
          /\ wpc[w] = "leave" => status[p] = "done"

ProcInv(p) == PlaceInv(p) /\ LevelInv(p) /\ BurstInv(p)

\* The main thread.
Ended == {p \in Process : cpuIndex[p] = BurstCount[p]}
OsInv ==
    /\ ospc # "push" => osproc = NULL
    /\ doneCount = Cardinality(Ended)
    /\ ospc \in {"pill", "pillsignal", "end"} \/ pills > 0 => Ended = Process

LifeInv == (\A p \in Process : ProcInv(p)) /\ OsInv

\* A step that does not concern a process.
Same(p) ==
    /\ Unmoved(queue, queue', p)
    /\ \A w \in Worker : /\ Holds(w, p)' <=> Holds(w, p)
                         /\ Holds(w, p) => wpc'[w] = wpc[w]
    /\ isWaiting'[p] = isWaiting[p] /\ isNew'[p] = isNew[p]
    /\ status'[p] = status[p] /\ level'[p] = level[p]
    /\ cpuIndex'[p] = cpuIndex[p] /\ ioIndex'[p] = ioIndex[p]
    /\ osproc' = p <=> osproc = p

LEMMA SameKeeps ==
    ASSUME NEW p \in Process, ProcInv(p), Same(p)
    PROVE  ProcInv(p)'
<1>1. (Queued(p)' <=> Queued(p)) /\ (Held(p)' <=> Held(p))
      /\ (HeldLate(p)' <=> HeldLate(p))
    BY DEF Same, Unmoved, Queued, Held, HeldLate
<1>2. PlaceInv(p)'
    BY <1>1 DEF Same, Unmoved, ProcInv, PlaceInv
<1>3. LevelInv(p)'
    BY <1>1 DEF Same, Unmoved, ProcInv, LevelInv
<1>4. BurstInv(p)'
    BY <1>1 DEF Same, ProcInv, BurstInv
<1>5. QED
    BY <1>2, <1>3, <1>4 DEF ProcInv

LEMMA InitLife == Init => LifeInv
<1> SUFFICES ASSUME Init PROVE LifeInv
    OBVIOUS
<1>1. ASSUME NEW p \in Process
      PROVE  ProcInv(p)
  <2>1. ~Queued(p) /\ ~Held(p) /\ ~HeldLate(p) /\ \A w \in Worker : ~Holds(w, p)
      BY DEF Init, Queued, Held, HeldLate, In, Holds, InHand
  <2>2. \A l \in Levels : ~In(queue, l, p)
      BY <2>1 DEF Queued
  <2>3. Once(queue, p)
      BY <2>2 DEF Once, In
  <2>4. /\ isWaiting[p] /\ osproc # p /\ status[p] = "none" /\ level[p] = MaxLevel
        /\ cpuIndex[p] = 0 /\ ioIndex[p] = 0 /\ cpuIndex[p] < BurstCount[p]
      BY NullAssumption, BurstAssumption DEF Init
  <2>5. QED
      BY <2>1, <2>2, <2>3, <2>4 DEF ProcInv, PlaceInv, LevelInv, BurstInv
<1>2. OsInv
  <2>1. \A p \in Process : cpuIndex[p] = 0 /\ BurstCount[p] \in Nat \ {0}
      BY BurstAssumption DEF Init
  <2>2. Ended = {}
      BY <2>1 DEF Ended
  <2>3. QED
      BY <2>2, FS_EmptySet DEF Init, OsInv
<1>3. QED
    BY <1>1, <1>2 DEF LifeInv

-----------------------------------------------------------------------------
(***************************************************************************)
(* The steps of the workers.                                               *)
(***************************************************************************)

\* The queue does not change.
LEMMA Still == ASSUME NEW p, queue' = queue PROVE Unmoved(queue, queue', p)
BY DEF Unmoved

\* The worker takes a process, or the next level.
LEMMA PopLevelLife ==
    ASSUME TypeOK, LifeInv, NEW w \in Worker, PopLevel(w)
    PROVE  \A p \in Process : ProcInv(p)'
<1> USE DEF queueVars, pcbVars, infoVars, monitorVars, osVars
<1>0. queue \in Queues /\ wproc \in [Worker -> Entry] /\ wpc \in [Worker -> WorkerPc]
    BY TypeFacts
<1> DEFINE l == wscan[w]
           x == Head(queue[l])
<1>1. /\ wpc[w] = "pop" /\ l \in Levels
      /\ isWaiting' = isWaiting /\ isNew' = isNew /\ status' = status /\ level' = level
      /\ cpuIndex' = cpuIndex /\ ioIndex' = ioIndex /\ osproc' = osproc
    BY DEF PopLevel
<1>2. CASE queue[l] = << >>
  <2>1. queue' = queue /\ wpc' = wpc /\ wproc' = wproc
      BY <1>2 DEF PopLevel
  <2>2. \A p \in Process : Same(p)
      BY <1>1, <2>1, Still DEF Same, Holds
  <2>3. QED
      BY <2>2, SameKeeps DEF LifeInv
<1>3. CASE queue[l] # << >>
  <2>1. /\ wproc' = [wproc EXCEPT ![w] = x]
        /\ queue' = [queue EXCEPT ![l] = Tail(@)]
        /\ wpc' = [wpc EXCEPT ![w] = "popped"]
      BY <1>3 DEF PopLevel
  <2>2. /\ x \in Entry /\ queue' \in Queues
        /\ In(queue, l, x)
        /\ \A p \in Process : p # x => Unmoved(queue, queue', p)
        /\ Once(queue, x) => \A m \in Levels : ~In(queue', m, x)
      BY <1>0, <1>1, <1>3, <2>1, PopEffect
  <2> HIDE DEF x, l
  <2>3. wproc'[w] = x /\ wpc'[w] = "popped"
        /\ \A v \in Worker : v # w => wproc'[v] = wproc[v] /\ wpc'[v] = wpc[v]
      BY <1>0, <2>1, <2>2 DEF WorkerPc
  <2>4. \A p \in Process : ~Holds(w, p)
      BY <1>1 DEF Holds, InHand
  <2>5. ASSUME NEW p \in Process, p # x
        PROVE  ProcInv(p)'
    <3>1. Same(p)
        BY <1>1, <2>2, <2>3, <2>4, <2>5 DEF Same, Holds
    <3>2. QED
        BY <3>1, SameKeeps DEF LifeInv
  <2>6. ASSUME NEW p \in Process, p = x
        PROVE  ProcInv(p)'
    <3>1. ProcInv(p) /\ Queued(p)
        BY <1>1, <2>2, <2>6 DEF LifeInv, Queued
    <3>2. /\ Once(queue, p) /\ ~Held(p) /\ ~isWaiting[p] /\ osproc # p
          /\ status[p] # "done"
        BY <3>1 DEF ProcInv, PlaceInv
    <3>3. \A m \in Levels : ~In(queue', m, p)
        BY <2>2, <2>6, <3>2
    <3>4. ~Queued(p)' /\ Once(queue', p)
        BY <3>3 DEF Queued, Once, In
    <3>5. Holds(w, p)' /\ \A v \in Worker : Holds(v, p)' => v = w
        BY <2>3, <2>6, <3>2 DEF Holds, Held, InHand
    <3>6. Held(p)' /\ ~HeldLate(p)' /\ ~HeldLate(p)
        BY <2>3, <3>2, <3>5 DEF Held, HeldLate, Late
    <3>7. PlaceInv(p)'
        BY <1>1, <3>2, <3>4, <3>5, <3>6 DEF PlaceInv
    <3>8. LevelInv(p)'
        BY <1>1, <2>3, <3>2, <3>3, <3>4, <3>5 DEF LevelInv
    <3>9. BurstInv(p)'
        BY <1>1, <2>3, <3>1, <3>2, <3>5, <3>6 DEF ProcInv, BurstInv
    <3>10. QED
        BY <3>7, <3>8, <3>9 DEF ProcInv
  <2>7. QED
      BY <2>5, <2>6
<1>4. QED
    BY <1>2, <1>3

\* A step of worker w with the process p concerns no other process.
OnlyWorker(w) ==
    \A v \in Worker : v # w =>
        /\ wproc'[v] = wproc[v]
        /\ wpc'[v] = wpc[v] \/ (wpc[v] = "asleep" /\ wpc'[v] = "pop")

OnlyProcess(p) ==
    \A q \in Process : q # p =>
        /\ Unmoved(queue, queue', q)
        /\ isWaiting'[q] = isWaiting[q] /\ isNew'[q] = isNew[q]
        /\ status'[q] = status[q] /\ level'[q] = level[q]
        /\ cpuIndex'[q] = cpuIndex[q] /\ ioIndex'[q] = ioIndex[q]
        /\ osproc' = q <=> osproc = q

LEMMA OthersKeep ==
    ASSUME LifeInv, NEW w \in Worker, NEW p, wproc[w] = p, wproc'[w] \in {p, NULL},
           OnlyWorker(w), OnlyProcess(p),
           NEW q \in Process, q # p
    PROVE  ProcInv(q)'
<1>1. ASSUME NEW v \in Worker
      PROVE  (Holds(v, q)' <=> Holds(v, q)) /\ (Holds(v, q) => wpc'[v] = wpc[v])
  <2>1. CASE v = w
      BY <2>1, NullAssumption DEF Holds
  <2>2. CASE v # w
      BY <2>2 DEF OnlyWorker, Holds, InHand
  <2>3. QED
      BY <2>1, <2>2
<1>2. Same(q)
    BY <1>1 DEF OnlyProcess, Same
<1>3. QED
    BY <1>2, SameKeeps DEF LifeInv

\* No process is in a hand before or after the step.
LEMMA EmptyHandKeeps ==
    ASSUME LifeInv, NEW w \in Worker, OnlyWorker(w),
           wproc[w] \notin Process \/ wpc[w] \notin InHand,
           wproc'[w] \notin Process \/ wpc'[w] \notin InHand,
           queue' = queue, isWaiting' = isWaiting, isNew' = isNew, status' = status,
           level' = level, cpuIndex' = cpuIndex, ioIndex' = ioIndex, osproc' = osproc
    PROVE  \A p \in Process : ProcInv(p)'
<1> SUFFICES ASSUME NEW p \in Process PROVE ProcInv(p)'
    OBVIOUS
<1>1. ASSUME NEW v \in Worker
      PROVE  (Holds(v, p)' <=> Holds(v, p)) /\ (Holds(v, p) => wpc'[v] = wpc[v])
  <2>1. CASE v = w
      BY <2>1 DEF Holds
  <2>2. CASE v # w
      BY <2>2 DEF OnlyWorker, Holds, InHand
  <2>3. QED
      BY <2>1, <2>2
<1>2. Same(p)
    BY <1>1, Still DEF Same
<1>3. QED
    BY <1>2, SameKeeps DEF LifeInv

\* What is known of a process in the hand of a worker.
LEMMA InHandFacts ==
    ASSUME LifeInv, NEW w \in Worker, NEW p \in Process, Holds(w, p)
    PROVE  /\ ProcInv(p) /\ Once(queue, p)
           /\ \A v \in Worker : Holds(v, p) => v = w
           /\ Held(p) /\ ~Queued(p) /\ ~isWaiting[p] /\ ~isNew[p] /\ osproc # p
           /\ \A l \in Levels : ~In(queue, l, p)
           /\ HeldLate(p) <=> wpc[w] \in Late
<1>1. ProcInv(p) /\ Held(p)
    BY DEF LifeInv, Held
<1>2. /\ Once(queue, p) /\ ~Queued(p) /\ ~isWaiting[p] /\ ~isNew[p] /\ osproc # p
      /\ \A v \in Worker : Holds(v, p) => v = w
    BY <1>1 DEF ProcInv, PlaceInv, BurstInv
<1>3. QED
    BY <1>1, <1>2 DEF Queued, HeldLate

\* A worker that keeps its process in hand, whatever else it does to it.
LEMMA HandKept ==
    ASSUME LifeInv, NEW w \in Worker, NEW p \in Process, Holds(w, p),
           OnlyWorker(w), wproc'[w] = p, wpc'[w] \in InHand,
           queue' = queue, isWaiting' = isWaiting, isNew' = isNew, osproc' = osproc
    PROVE  /\ Holds(w, p)' /\ \A v \in Worker : Holds(v, p)' => v = w
           /\ HeldLate(p)' <=> wpc'[w] \in Late
           /\ PlaceInv(p)'
           /\ ~isNew'[p] /\ ~isWaiting'[p] /\ osproc' # p
           /\ \A l \in Levels : ~In(queue', l, p)
           /\ ~Queued(p)'
<1>1. /\ Once(queue, p) /\ \A v \in Worker : Holds(v, p) => v = w
      /\ ~Queued(p) /\ ~isWaiting[p] /\ ~isNew[p] /\ osproc # p
      /\ \A l \in Levels : ~In(queue, l, p)
    BY InHandFacts
<1>2. Holds(w, p)' /\ \A v \in Worker : Holds(v, p)' => v = w
    BY <1>1 DEF Holds, OnlyWorker, InHand
<1>3. HeldLate(p)' <=> wpc'[w] \in Late
    BY <1>2 DEF HeldLate
<1>4. ~Queued(p)' /\ Held(p)'
    BY <1>1, <1>2 DEF Queued, Held
<1>5. PlaceInv(p)'
    BY <1>1, <1>2, <1>4 DEF PlaceInv
<1>6. QED
    BY <1>1, <1>2, <1>3, <1>4, <1>5

\* Where a worker is with its process before the switch of worker_run.
Before == {"popped", "lock", "run", "check", "update"}

\* A worker that only goes on to its next step with the process.
LEMMA AdvanceKeeps ==
    ASSUME TypeOK, LifeInv, NEW w \in Worker, NEW p \in Process, Holds(w, p),
           OnlyWorker(w), wproc'[w] = p, wpc'[w] \in Before,
           \/ wpc'[w] \in Late <=> wpc[w] \in Late
           \/ status[p] = "preempted",
           queue' = queue, isWaiting' = isWaiting, isNew' = isNew, status' = status,
           level' = level, cpuIndex' = cpuIndex, ioIndex' = ioIndex, osproc' = osproc
    PROVE  \A q \in Process : ProcInv(q)'
<1>1. /\ \A v \in Worker : Holds(v, p)' => v = w
      /\ HeldLate(p)' <=> wpc'[w] \in Late
      /\ PlaceInv(p)'
      /\ ~isNew'[p] /\ ~isWaiting'[p] /\ osproc' # p
      /\ ~Queued(p)' /\ \A l \in Levels : ~In(queue', l, p)
    BY HandKept DEF InHand, Before
<1>2. ProcInv(p) /\ (HeldLate(p) <=> wpc[w] \in Late)
    BY InHandFacts
<1>3. LevelInv(p)'
    BY <1>1 DEF LevelInv, Before
<1>4. BurstInv(p)'
  <2>1. status[p] = "done" => wpc[w] \in Late
      BY <1>2 DEF ProcInv, BurstInv
  <2>2. CASE status[p] = "done"
      BY <1>1, <1>2, <2>1, <2>2 DEF ProcInv, BurstInv, Before
  <2>3. CASE status[p] # "done"
      BY <1>1, <1>2, <2>3 DEF ProcInv, BurstInv, Before
  <2>4. QED
      BY <2>2, <2>3
<1>5. ProcInv(p)'
    BY <1>1, <1>3, <1>4 DEF ProcInv
<1>6. OnlyProcess(p)
    BY Still DEF OnlyProcess
<1>7. ASSUME NEW q \in Process, q # p
      PROVE  ProcInv(q)'
    BY <1>6, <1>7, OthersKeep DEF Holds
<1>8. QED
    BY <1>5, <1>7

\* A worker that goes on in the switch, with the status it found there.
LEMMA SwitchKeeps ==
    ASSUME TypeOK, LifeInv, NEW w \in Worker, NEW p \in Process, Holds(w, p),
           OnlyWorker(w), wproc'[w] = p, wpc[w] \in {"requeue", "average"},
           \/ wpc'[w] \in {"average", "found"} /\ status[p] = "blocked"
           \/ wpc'[w] = "leave" /\ status[p] = "done",
           queue' = queue, isWaiting' = isWaiting, isNew' = isNew, status' = status,
           level' = level, cpuIndex' = cpuIndex, ioIndex' = ioIndex, osproc' = osproc
    PROVE  \A q \in Process : ProcInv(q)'
<1>1. /\ \A v \in Worker : Holds(v, p)' => v = w
      /\ HeldLate(p)'
      /\ PlaceInv(p)'
      /\ ~isNew'[p] /\ ~isWaiting'[p] /\ osproc' # p
      /\ ~Queued(p)' /\ \A l \in Levels : ~In(queue', l, p)
    BY HandKept DEF InHand, Late
<1>2. ProcInv(p) /\ HeldLate(p)
    BY InHandFacts DEF Late
<1>3. LevelInv(p)'
    BY <1>1, <1>2 DEF ProcInv, LevelInv
<1>4. BurstInv(p)'
    BY <1>1, <1>2 DEF ProcInv, BurstInv, Late
<1>5. ProcInv(p)'
    BY <1>1, <1>3, <1>4 DEF ProcInv
<1>6. OnlyProcess(p)
    BY Still DEF OnlyProcess
<1>7. ASSUME NEW q \in Process, q # p
      PROVE  ProcInv(q)'
    BY <1>6, <1>7, OthersKeep DEF Holds
<1>8. QED
    BY <1>5, <1>7

LEMMA RunSliceLife ==
    ASSUME TypeOK, LifeInv, NEW w \in Worker, RunSlice(w)
    PROVE  \A q \in Process : ProcInv(q)'
<1> USE DEF queueVars, pcbVars, infoVars, monitorVars, osVars
<1>0. /\ wproc \in [Worker -> Entry] /\ wpc \in [Worker -> WorkerPc]
      /\ status \in [Process -> {"none", "preempted", "blocked", "done"}]
      /\ cpuIndex \in [Process -> Nat] /\ ioIndex \in [Process -> Nat]
    BY TypeFacts
<1>1. PICK p \in Process : p = wproc[w]
    BY TypeFacts DEF RunSlice, UsesProcess
<1>2. Holds(w, p) /\ wpc[w] = "run"
    BY <1>1 DEF RunSlice, Holds, InHand
<1>3. ProcInv(p) /\ ~HeldLate(p)
    BY <1>2, InHandFacts DEF Late
<1>4. /\ status[p] # "done" /\ cpuIndex[p] < BurstCount[p] /\ ioIndex[p] = cpuIndex[p]
    BY <1>0, <1>2, <1>3 DEF ProcInv, BurstInv, Late
<1>5. /\ queue' = queue /\ isWaiting' = isWaiting /\ isNew' = isNew /\ level' = level
      /\ ioIndex' = ioIndex /\ osproc' = osproc /\ wproc' = wproc
    BY DEF RunSlice
<1>6. wpc' = [wpc EXCEPT ![w] = "update"] \/ wpc' = [wpc EXCEPT ![w] = "check"]
    BY <1>1 DEF RunSlice
<1>7. wpc'[w] \in {"update", "check"} /\ OnlyWorker(w)
    BY <1>0, <1>5, <1>6 DEF OnlyWorker
<1>8. /\ \A q \in Process : q # p => status'[q] = status[q] /\ cpuIndex'[q] = cpuIndex[q]
      /\ \/ status'[p] = "preempted" /\ cpuIndex'[p] = cpuIndex[p]
         \/ status'[p] = "done" /\ cpuIndex'[p] = cpuIndex[p] + 1 /\ OnLastBurst(p)
         \/ status'[p] = "blocked" /\ cpuIndex'[p] = cpuIndex[p] + 1 /\ ~OnLastBurst(p)
  <2>1. PICK slice \in Slices(wquantum[w], p) :
          LET preempted == slice < remaining[p]
              done == ~preempted /\ OnLastBurst(p)
          IN /\ cpuIndex' = IF preempted THEN cpuIndex ELSE [cpuIndex EXCEPT ![p] = @ + 1]
             /\ status' = [status EXCEPT ![p] =
                              IF preempted THEN "preempted"
                              ELSE IF done THEN "done" ELSE "blocked"]
      BY <1>1 DEF RunSlice
  <2>2. CASE slice < remaining[p]
      BY <1>0, <2>1, <2>2
  <2>3. CASE ~(slice < remaining[p])
      BY <1>0, <2>1, <2>3
  <2>4. QED
      BY <2>2, <2>3
<1>9. /\ Holds(w, p)' /\ \A v \in Worker : Holds(v, p)' => v = w
      /\ HeldLate(p)'
      /\ PlaceInv(p)'
      /\ ~isNew'[p] /\ ~isWaiting'[p] /\ osproc' # p
      /\ ~Queued(p)' /\ \A l \in Levels : ~In(queue', l, p)
    BY <1>1, <1>2, <1>5, <1>7, HandKept DEF InHand, Late
<1>10. LevelInv(p)'
    BY <1>7, <1>9 DEF LevelInv
<1>11. BurstInv(p)'
  <2>1. BurstCount[p] \in Nat /\ cpuIndex[p] \in Nat
      BY <1>0, BurstAssumption
  <2>2. OnLastBurst(p) <=> cpuIndex[p] + 1 = BurstCount[p]
      BY <1>4, <2>1 DEF OnLastBurst
  <2>3. \A v \in Worker : Holds(v, p)' => wpc'[v] \in {"update", "check"}
      BY <1>7, <1>9
  <2>4. CASE status'[p] = "done"
      BY <1>4, <1>5, <1>8, <1>9, <2>1, <2>2, <2>3, <2>4 DEF BurstInv, Late
  <2>5. CASE status'[p] = "blocked"
    <3>1. cpuIndex'[p] = cpuIndex[p] + 1 /\ ~OnLastBurst(p) /\ ioIndex'[p] = ioIndex[p]
        BY <1>5, <1>8, <2>5
    <3>2. cpuIndex'[p] < BurstCount[p] /\ ioIndex'[p] + 1 = cpuIndex'[p]
        BY <1>4, <2>1, <2>2, <3>1
    <3>3. QED
        BY <1>9, <2>3, <2>5, <3>2 DEF BurstInv
  <2>6. CASE status'[p] = "preempted"
    <3>1. cpuIndex'[p] = cpuIndex[p] /\ ioIndex'[p] = ioIndex[p]
        BY <1>5, <1>8, <2>6
    <3>2. ioIndex'[p] + 0 = cpuIndex'[p] /\ cpuIndex'[p] < BurstCount[p]
        BY <1>4, <2>1, <3>1
    <3>3. QED
        BY <1>9, <2>3, <2>6, <3>2 DEF BurstInv
  <2>7. QED
      BY <1>8, <2>4, <2>5, <2>6
<1>12. ProcInv(p)'
    BY <1>9, <1>10, <1>11 DEF ProcInv
<1>13. OnlyProcess(p)
    BY <1>5, <1>8, Still DEF OnlyProcess
<1>14. ASSUME NEW q \in Process, q # p
       PROVE  ProcInv(q)'
    BY <1>1, <1>5, <1>7, <1>13, <1>14, OthersKeep
<1>15. QED
    BY <1>12, <1>14

LEMMA UpdatePriorityLife ==
    ASSUME TypeOK, LifeInv, NEW w \in Worker, UpdatePriority(w)
    PROVE  \A q \in Process : ProcInv(q)'
<1> USE DEF queueVars, pcbVars, infoVars, monitorVars, osVars
<1>0. wproc \in [Worker -> Entry] /\ wpc \in [Worker -> WorkerPc]
      /\ level \in [Process -> Levels]
    BY TypeFacts
<1>1. PICK p \in Process : p = wproc[w]
    BY TypeFacts DEF UpdatePriority, UsesProcess
<1>2. Holds(w, p) /\ wpc[w] = "update"
    BY <1>1 DEF UpdatePriority, Holds, InHand
<1>3. ProcInv(p) /\ HeldLate(p)
    BY <1>2, InHandFacts DEF Late
<1>4. /\ queue' = queue /\ isWaiting' = isWaiting /\ isNew' = isNew /\ status' = status
      /\ cpuIndex' = cpuIndex /\ ioIndex' = ioIndex /\ osproc' = osproc /\ wproc' = wproc
      /\ wpc' = [wpc EXCEPT ![w] = "requeue"]
      /\ level' = [level EXCEPT ![p] = LevelAfterRun(p)]
    BY <1>1 DEF UpdatePriority
<1>5. wpc'[w] = "requeue" /\ OnlyWorker(w)
    BY <1>0, <1>4 DEF OnlyWorker
<1>6. /\ \A q \in Process : q # p => level'[q] = level[q]
      /\ status[p] # "preempted" => level'[p] = MaxLevel
    BY <1>0, <1>4 DEF LevelAfterRun
<1>7. /\ Holds(w, p)' /\ \A v \in Worker : Holds(v, p)' => v = w
      /\ HeldLate(p)'
      /\ PlaceInv(p)'
      /\ ~isNew'[p] /\ ~isWaiting'[p] /\ osproc' # p
      /\ ~Queued(p)' /\ \A l \in Levels : ~In(queue', l, p)
    BY <1>1, <1>2, <1>4, <1>5, HandKept DEF InHand, Late
<1>8. LevelInv(p)'
    BY <1>4, <1>6, <1>7 DEF LevelInv
<1>9. BurstInv(p)'
    BY <1>3, <1>4, <1>5, <1>7 DEF ProcInv, BurstInv, Late
<1>10. ProcInv(p)'
    BY <1>7, <1>8, <1>9 DEF ProcInv
<1>11. OnlyProcess(p)
    BY <1>4, <1>6, Still DEF OnlyProcess
<1>12. ASSUME NEW q \in Process, q # p
       PROVE  ProcInv(q)'
    BY <1>1, <1>4, <1>5, <1>11, <1>12, OthersKeep
<1>13. QED
    BY <1>10, <1>12

LEMMA PushPreemptedLife ==
    ASSUME TypeOK, LifeInv, NEW w \in Worker, PushPreempted(w)
    PROVE  \A q \in Process : ProcInv(q)'
<1> USE DEF queueVars, pcbVars, infoVars, monitorVars, osVars
<1>0. wproc \in [Worker -> Entry] /\ wpc \in [Worker -> WorkerPc] /\ queue \in Queues
      /\ level \in [Process -> Levels]
    BY TypeFacts
<1>1. PICK p \in Process : p = wproc[w]
    BY TypeFacts DEF PushPreempted, UsesProcess
<1>2. Holds(w, p) /\ wpc[w] = "requeue" /\ status[p] = "preempted"
    BY <1>1 DEF PushPreempted, Holds, InHand
<1>3. /\ ProcInv(p) /\ \A v \in Worker : Holds(v, p) => v = w
      /\ ~isWaiting[p] /\ ~isNew[p] /\ osproc # p
      /\ \A m \in Levels : ~In(queue, m, p)
    BY <1>2, InHandFacts
<1>4. /\ isWaiting' = isWaiting /\ isNew' = isNew /\ status' = status /\ level' = level
      /\ cpuIndex' = cpuIndex /\ ioIndex' = ioIndex /\ osproc' = osproc /\ wproc' = wproc
      /\ wpc' = [wpc EXCEPT ![w] = "signal"]
      /\ Push(queue, p, level[p])
    BY <1>1 DEF PushPreempted
<1>5. wpc'[w] = "signal" /\ OnlyWorker(w)
    BY <1>0, <1>4 DEF OnlyWorker
<1>6. /\ \A q \in Process : q # p => Unmoved(queue, queue', q)
      /\ Once(queue', p) /\ \A m \in Levels : In(queue', m, p) <=> m = level[p]
  <2>1. level[p] \in Levels /\ p \in Entry
      BY <1>0 DEF Entry
  <2>2. QED
      BY <1>0, <1>3, <1>4, <2>1, PushEffect
<1>7. \A v \in Worker : ~Holds(v, p)'
    BY <1>3, <1>4, <1>5 DEF Holds, OnlyWorker, InHand
<1>8. ~Held(p)' /\ ~HeldLate(p)' /\ Queued(p)'
  <2>1. level[p] \in Levels
      BY <1>0
  <2>2. QED
      BY <1>6, <1>7, <2>1 DEF Held, HeldLate, Queued
<1>9. PlaceInv(p)'
    BY <1>2, <1>3, <1>4, <1>6, <1>7, <1>8 DEF PlaceInv
<1>10. LevelInv(p)'
  <2>1. level[p] \in Levels /\ level[p] <= level[p]
      BY <1>0 DEF Levels, NumLevels
  <2>2. QED
      BY <1>2, <1>3, <1>4, <1>6, <1>7, <2>1 DEF LevelInv
<1>11. BurstInv(p)'
    BY <1>2, <1>3, <1>4, <1>7, <1>8 DEF ProcInv, BurstInv
<1>12. ProcInv(p)'
    BY <1>9, <1>10, <1>11 DEF ProcInv
<1>13. OnlyProcess(p)
    BY <1>4, <1>6 DEF OnlyProcess
<1>14. ASSUME NEW q \in Process, q # p
       PROVE  ProcInv(q)'
    BY <1>1, <1>4, <1>5, <1>13, <1>14, OthersKeep
<1>15. QED
    BY <1>12, <1>14

LEMMA StartIoLife ==
    ASSUME TypeOK, LifeInv, NEW w \in Worker, StartIo(w)
    PROVE  \A q \in Process : ProcInv(q)'
<1> USE DEF queueVars, pcbVars, infoVars, monitorVars, osVars
<1>0. wproc \in [Worker -> Entry] /\ wpc \in [Worker -> WorkerPc]
      /\ isWaiting \in [Process -> BOOLEAN] /\ ioIndex \in [Process -> Nat]
      /\ cpuIndex \in [Process -> Nat]
    BY TypeFacts
<1>1. PICK p \in Process : p = wproc[w]
    BY TypeFacts DEF StartIo, UsesProcess
<1>2. Holds(w, p) /\ wpc[w] = "found" /\ status[p] = "blocked"
  <2>1. Holds(w, p) /\ wpc[w] = "found"
      BY <1>1 DEF StartIo, Holds, InHand
  <2>2. QED
      BY <2>1 DEF LifeInv, ProcInv, BurstInv
<1>3. /\ ProcInv(p) /\ \A v \in Worker : Holds(v, p) => v = w
      /\ Once(queue, p) /\ ~Queued(p) /\ ~isNew[p] /\ osproc # p /\ HeldLate(p)
      /\ \A m \in Levels : ~In(queue, m, p)
    BY <1>2, InHandFacts DEF Late
<1>4. /\ queue' = queue /\ isNew' = isNew /\ status' = status /\ level' = level
      /\ cpuIndex' = cpuIndex /\ osproc' = osproc /\ wproc' = wproc
      /\ wpc' = [wpc EXCEPT ![w] = "io"]
      /\ isWaiting' = [isWaiting EXCEPT ![p] = TRUE]
      /\ ioIndex' = [ioIndex EXCEPT ![p] = @ + 1]
    BY <1>1 DEF StartIo
<1>5. wpc'[w] = "io" /\ OnlyWorker(w)
    BY <1>0, <1>4 DEF OnlyWorker
<1>6. /\ isWaiting'[p] /\ ioIndex'[p] = ioIndex[p] + 1
      /\ \A q \in Process : q # p => isWaiting'[q] = isWaiting[q] /\ ioIndex'[q] = ioIndex[q]
    BY <1>0, <1>4
<1>7. \A v \in Worker : ~Holds(v, p)'
    BY <1>3, <1>4, <1>5 DEF Holds, OnlyWorker, InHand
<1>8. ~Held(p)' /\ ~HeldLate(p)' /\ ~Queued(p)' /\ \A m \in Levels : ~In(queue', m, p)
    BY <1>3, <1>4, <1>7 DEF Held, HeldLate, Queued
<1>9. PlaceInv(p)'
    BY <1>2, <1>3, <1>4, <1>6, <1>7, <1>8 DEF PlaceInv
<1>10. LevelInv(p)'
    BY <1>2, <1>3, <1>4, <1>7, <1>8 DEF ProcInv, LevelInv
<1>11. BurstInv(p)'
  <2>1. cpuIndex[p] < BurstCount[p] /\ ioIndex[p] + 1 = cpuIndex[p]
      BY <1>2, <1>3 DEF ProcInv, BurstInv
  <2>2. cpuIndex'[p] < BurstCount[p] /\ ioIndex'[p] + 0 = cpuIndex'[p]
      BY <1>0, <1>4, <1>6, <2>1
  <2>3. QED
      BY <1>2, <1>3, <1>4, <1>7, <1>8, <2>2 DEF BurstInv
<1>12. ProcInv(p)'
    BY <1>9, <1>10, <1>11 DEF ProcInv
<1>13. OnlyProcess(p)
    BY <1>4, <1>6, Still DEF OnlyProcess
<1>14. ASSUME NEW q \in Process, q # p
       PROVE  ProcInv(q)'
    BY <1>1, <1>4, <1>5, <1>13, <1>14, OthersKeep
<1>15. QED
    BY <1>12, <1>14

LEMMA FinishLife ==
    ASSUME TypeOK, LifeInv, NEW w \in Worker, Finish(w)
    PROVE  \A q \in Process : ProcInv(q)'
<1> USE DEF queueVars, pcbVars, infoVars, monitorVars, osVars
<1>0. wproc \in [Worker -> Entry] /\ wpc \in [Worker -> WorkerPc]
    BY TypeFacts
<1>1. PICK p \in Process : p = wproc[w]
    BY TypeFacts DEF Finish, UsesProcess
<1>2. Holds(w, p) /\ wpc[w] = "leave" /\ status[p] = "done"
  <2>1. Holds(w, p) /\ wpc[w] = "leave"
      BY <1>1 DEF Finish, Holds, InHand
  <2>2. QED
      BY <2>1 DEF LifeInv, ProcInv, BurstInv
<1>3. /\ ProcInv(p) /\ \A v \in Worker : Holds(v, p) => v = w
      /\ Once(queue, p) /\ ~Queued(p) /\ ~isWaiting[p] /\ ~isNew[p] /\ osproc # p
      /\ \A m \in Levels : ~In(queue, m, p)
    BY <1>2, InHandFacts
<1>4. /\ queue' = queue /\ isWaiting' = isWaiting /\ isNew' = isNew /\ status' = status
      /\ level' = level /\ cpuIndex' = cpuIndex /\ ioIndex' = ioIndex /\ osproc' = osproc
      /\ wproc' = [wproc EXCEPT ![w] = NULL]
      /\ wpc' = [wpc EXCEPT ![w] = "pop"]
    BY DEF Finish
<1>5. wpc'[w] = "pop" /\ wproc'[w] = NULL /\ OnlyWorker(w)
    BY <1>0, <1>4 DEF OnlyWorker
<1>6. \A v \in Worker : ~Holds(v, p)'
    BY <1>3, <1>4, <1>5 DEF Holds, OnlyWorker, InHand
<1>7. ~Held(p)' /\ ~Queued(p)' /\ \A m \in Levels : ~In(queue', m, p)
    BY <1>3, <1>4, <1>6 DEF Held, Queued
<1>8. PlaceInv(p)' /\ LevelInv(p)'
    BY <1>2, <1>3, <1>4, <1>6, <1>7 DEF PlaceInv, LevelInv
<1>9. BurstInv(p)'
    BY <1>2, <1>3, <1>4, <1>6 DEF ProcInv, BurstInv
<1>10. ProcInv(p)'
    BY <1>8, <1>9 DEF ProcInv
<1>11. OnlyProcess(p)
    BY <1>4, Still DEF OnlyProcess
<1>12. ASSUME NEW q \in Process, q # p
       PROVE  ProcInv(q)'
    BY <1>1, <1>5, <1>11, <1>12, OthersKeep
<1>13. QED
    BY <1>10, <1>12

\* The steps of a worker, of which the ones above move its process.
LEMMA WorkerStepLife ==
    ASSUME TypeOK, LifeInv, NEW w \in Worker, WorkerStep(w) \/ SpuriousWakeup(w)
    PROVE  \A q \in Process : ProcInv(q)'
<1> USE DEF queueVars, pcbVars, infoVars, monitorVars, osVars
<1>0. wproc \in [Worker -> Entry] /\ wpc \in [Worker -> WorkerPc]
      /\ \A v \in Worker : wpc[v] \in UsesProcess => wproc[v] \in Process
    BY TypeFacts
<1>1. CASE PopLevel(w)
    BY <1>1, PopLevelLife
<1>2. CASE PopWait(w)
  <2>1. OnlyWorker(w) /\ wpc[w] = "pop" /\ wpc'[w] = "asleep"
      BY <1>0, <1>2 DEF PopWait, OnlyWorker
  <2>2. QED
      BY <1>2, <2>1, EmptyHandKeeps DEF PopWait, InHand
<1>3. CASE SpuriousWakeup(w)
  <2>1. OnlyWorker(w) /\ wpc[w] = "asleep" /\ wpc'[w] = "pop"
      BY <1>0, <1>3 DEF SpuriousWakeup, OnlyWorker
  <2>2. QED
      BY <1>3, <2>1, EmptyHandKeeps DEF SpuriousWakeup, InHand
<1>4. CASE AfterPop(w)
  <2>1. CASE wproc[w] = NULL
    <3>1. OnlyWorker(w) /\ wproc' = wproc /\ wproc[w] \notin Process
        BY <1>0, <1>4, <2>1, NullAssumption DEF AfterPop, OnlyWorker
    <3>2. QED
        BY <1>4, <3>1, EmptyHandKeeps DEF AfterPop
  <2>2. CASE wproc[w] # NULL
    <3>1. PICK p \in Process : p = wproc[w]
        BY <1>0, <2>2 DEF Entry
    <3>2. wpc[w] = "popped" /\ wpc'[w] = "lock" /\ wproc' = wproc /\ OnlyWorker(w)
        BY <1>0, <1>4, <2>2 DEF AfterPop, OnlyWorker
    <3>3. Holds(w, p) /\ wproc'[w] = p /\ wpc'[w] \in Before
          /\ (wpc'[w] \in Late <=> wpc[w] \in Late)
        BY <3>1, <3>2 DEF Holds, InHand, Before, Late
    <3>4. QED
        BY <1>4, <3>2, <3>3, AdvanceKeeps DEF AfterPop
  <2>3. QED
      BY <2>1, <2>2
<1>5. CASE LockProcess(w)
  <2>1. PICK p \in Process : p = wproc[w]
      BY <1>0, <1>5 DEF LockProcess, UsesProcess
  <2>2. wpc[w] = "lock" /\ wpc'[w] = "run" /\ wproc' = wproc /\ OnlyWorker(w)
      BY <1>0, <1>5 DEF LockProcess, OnlyWorker
  <2>3. Holds(w, p) /\ wproc'[w] = p /\ wpc'[w] \in Before
        /\ (wpc'[w] \in Late <=> wpc[w] \in Late)
      BY <2>1, <2>2 DEF Holds, InHand, Before, Late
  <2>4. QED
      BY <1>5, <2>2, <2>3, AdvanceKeeps DEF LockProcess
<1>6. CASE RunSlice(w)
    BY <1>6, RunSliceLife
<1>7. CASE CheckPreempt(w)
  <2>1. PICK p \in Process : p = wproc[w]
      BY <1>0, <1>7 DEF CheckPreempt, UsesProcess
  <2>2. /\ wpc[w] = "check" /\ wproc' = wproc
        /\ \/ wpc' = [wpc EXCEPT ![w] = "update"]
           \/ wpc' = [wpc EXCEPT ![w] = "run"] /\ status[p] = "preempted"
      BY <1>7, <2>1 DEF CheckPreempt, StopRunning
  <2>3. /\ OnlyWorker(w)
        /\ wpc'[w] = "update" \/ (wpc'[w] = "run" /\ status[p] = "preempted")
      BY <1>0, <2>2 DEF OnlyWorker
  <2>4. Holds(w, p) /\ wproc'[w] = p /\ wpc'[w] \in Before
        /\ ((wpc'[w] \in Late <=> wpc[w] \in Late) \/ status[p] = "preempted")
      BY <2>1, <2>2, <2>3 DEF Holds, InHand, Before, Late
  <2>5. QED
      BY <1>7, <2>3, <2>4, AdvanceKeeps DEF CheckPreempt
<1>8. CASE UpdatePriority(w)
    BY <1>8, UpdatePriorityLife
<1>9. CASE PushPreempted(w)
    BY <1>9, PushPreemptedLife
<1>10. CASE SignalPreempted(w)
  <2>1. PICK pc \in Signal : wpc' = [pc EXCEPT ![w] = "pop"]
      BY <1>10 DEF SignalPreempted
  <2>2. /\ pc \in [Worker -> WorkerPc]
        /\ \A v \in Worker : pc[v] = wpc[v] \/ (wpc[v] = "asleep" /\ pc[v] = "pop")
      BY <1>0, SignalWakes
  <2>3. OnlyWorker(w) /\ wpc[w] = "signal" /\ wpc'[w] = "pop"
      BY <1>0, <1>10, <2>1, <2>2 DEF SignalPreempted, OnlyWorker
  <2>4. QED
      BY <1>10, <2>3, EmptyHandKeeps DEF SignalPreempted, InHand
<1>11. CASE AddToAverage(w) \/ MarkFound(w) \/ RemoveFromAverage(w)
  <2>1. PICK p \in Process : p = wproc[w]
      BY <1>0, <1>11 DEF AddToAverage, MarkFound, RemoveFromAverage, UsesProcess
  <2>2. /\ OnlyWorker(w) /\ wproc' = wproc /\ wpc[w] \in {"requeue", "average"}
        /\ \/ wpc[w] = "requeue" /\ wpc'[w] = "average" /\ status[p] = "blocked"
           \/ wpc[w] = "average" /\ wpc'[w] = "found"
           \/ wpc[w] = "requeue" /\ wpc'[w] = "leave" /\ status[p] = "done"
      BY <1>0, <1>11, <2>1 DEF AddToAverage, MarkFound, RemoveFromAverage, OnlyWorker
  <2>3. Holds(w, p) /\ wproc'[w] = p
      BY <2>1, <2>2 DEF Holds, InHand
  <2>4. wpc[w] = "average" => status[p] = "blocked"
      BY <2>3 DEF LifeInv, ProcInv, BurstInv
  <2>5. /\ queue' = queue /\ isWaiting' = isWaiting /\ isNew' = isNew
        /\ status' = status /\ level' = level /\ cpuIndex' = cpuIndex
        /\ ioIndex' = ioIndex /\ osproc' = osproc
      BY <1>11 DEF AddToAverage, MarkFound, RemoveFromAverage
  <2>6. QED
      BY <2>2, <2>3, <2>4, <2>5, SwitchKeeps
<1>12. CASE StartIo(w)
    BY <1>12, StartIoLife
<1>13. CASE FinishIo(w)
  <2>1. OnlyWorker(w) /\ wpc[w] = "io" /\ wpc'[w] = "pop"
      BY <1>0, <1>13 DEF FinishIo, OnlyWorker
  <2>2. QED
      BY <1>13, <2>1, EmptyHandKeeps DEF FinishIo, InHand
<1>14. CASE Finish(w)
    BY <1>14, FinishLife
<1>15. QED
    BY <1>1, <1>2, <1>3, <1>4, <1>5, <1>6, <1>7, <1>8, <1>9, <1>10, <1>11,
       <1>12, <1>13, <1>14 DEF WorkerStep

-----------------------------------------------------------------------------
(***************************************************************************)
(* The steps of the monitors.                                              *)
(***************************************************************************)

\* A signal wakes a worker with empty hands, whose local `process` stays.
LEMMA SignalKeepsHands ==
    ASSUME TypeOK, wpc' \in Signal, wproc' = wproc, NEW q \in Process, NEW v \in Worker
    PROVE  (Holds(v, q)' <=> Holds(v, q)) /\ (Holds(v, q) => wpc'[v] = wpc[v])
<1>1. wpc'[v] = wpc[v] \/ (wpc[v] = "asleep" /\ wpc'[v] = "pop")
  <2> DEFINE pc == wpc'
  <2>1. pc \in Signal /\ wpc \in [Worker -> WorkerPc]
      BY TypeFacts
  <2> HIDE DEF pc
  <2>2. pc[v] = wpc[v] \/ (wpc[v] = "asleep" /\ pc[v] = "pop")
      BY <2>1, SignalWakes
  <2>3. QED
      BY <2>2 DEF pc
<1>2. QED
    BY <1>1 DEF Holds, InHand

\* A boost raises a process that was preempted, and a process waiting for its
\* I/O or for the push of os_loop cannot be raised.
LEMMA MonitorWakeLife ==
    ASSUME TypeOK, LifeInv, NEW p \in Process, MonitorWake(p)
    PROVE  \A q \in Process : ProcInv(q)'
<1> USE DEF queueVars, pcbVars, infoVars, monitorVars, osVars, workerVars
<1>0. level \in [Process -> Levels]
      /\ status \in [Process -> {"none", "preempted", "blocked", "done"}]
    BY TypeFacts
<1>1. /\ queue' = queue /\ isWaiting' = isWaiting /\ isNew' = isNew /\ status' = status
      /\ cpuIndex' = cpuIndex /\ ioIndex' = ioIndex /\ osproc' = osproc
      /\ wproc' = wproc /\ wpc' = wpc
      /\ \/ level' = level
         \/ level[p] > NewLevel(p) /\ level' = [level EXCEPT ![p] = NewLevel(p)]
    BY DEF MonitorWake
<1>2. \A q \in Process, v \in Worker : Holds(v, q)' <=> Holds(v, q)
    BY <1>1 DEF Holds
<1>3. ASSUME NEW q \in Process, level'[q] = level[q]
      PROVE  ProcInv(q)'
  <2>1. Same(q)
      BY <1>1, <1>2, <1>3, Still DEF Same
  <2>2. QED
      BY <2>1, SameKeeps DEF LifeInv
<1>4. ASSUME level[p] > NewLevel(p), level' = [level EXCEPT ![p] = NewLevel(p)]
      PROVE  ProcInv(p)'
  <2>1. ProcInv(p)
      BY DEF LifeInv
  <2>2. /\ level'[p] = NewLevel(p) /\ level[p] \in 0 .. 3 /\ level[p] > NewLevel(p)
        /\ status[p] = "blocked" => NewLevel(p) = 0
        /\ status[p] # "blocked" => NewLevel(p) = 1
      BY <1>0, <1>4 DEF NewLevel, MaxLevel, Levels, NumLevels
  <2>3. (Queued(p)' <=> Queued(p)) /\ (Held(p)' <=> Held(p))
        /\ (HeldLate(p)' <=> HeldLate(p))
      BY <1>1, <1>2 DEF Queued, Held, HeldLate
  <2>4. PlaceInv(p)' /\ BurstInv(p)'
      BY <1>1, <1>2, <2>1, <2>3 DEF ProcInv, PlaceInv, BurstInv
  <2>5. ~isWaiting[p] /\ osproc # p
      BY <2>1, <2>2 DEF ProcInv, LevelInv, MaxLevel
  <2>6. Queued(p) => status[p] \notin {"none", "blocked"}
      BY <2>1, <2>2 DEF ProcInv, LevelInv, MaxLevel
  <2>7. \A l \in Levels : In(queue, l, p) =>
           level'[p] <= l /\ (level'[p] = MaxLevel => l = MaxLevel)
    <3> SUFFICES ASSUME NEW l \in Levels, In(queue, l, p)
                 PROVE  level'[p] <= l /\ level'[p] # MaxLevel
        OBVIOUS
    <3>1. level[p] <= l /\ status[p] # "blocked"
        BY <2>1, <2>6 DEF ProcInv, LevelInv, Queued
    <3>2. level'[p] = 1 /\ level[p] \in 0 .. 3 /\ level[p] > 1 /\ l \in Int
        BY <2>2, <3>1 DEF Levels, NumLevels
    <3>3. QED
        BY <3>1, <3>2 DEF MaxLevel
  <2>8. ASSUME NEW w \in Worker, Holds(w, p), status[p] = "blocked",
               wpc[w] \in {"requeue", "average", "found"}
        PROVE  FALSE
      BY <2>1, <2>2, <2>8 DEF ProcInv, LevelInv, MaxLevel
  <2>9. LevelInv(p)'
      BY <1>1, <1>2, <2>3, <2>5, <2>6, <2>7, <2>8 DEF LevelInv
  <2>10. QED
      BY <2>4, <2>9 DEF ProcInv
<1>5. QED
    BY <1>0, <1>1, <1>3, <1>4

LEMMA MonitorRequeueLife ==
    ASSUME TypeOK, LifeInv, NEW p \in Process, MonitorRequeue(p)
    PROVE  \A q \in Process : ProcInv(q)'
<1> USE DEF queueVars, pcbVars, infoVars, monitorVars, osVars, workerVars
<1>0. queue \in Queues /\ level[p] \in Levels
    BY TypeFacts
<1>1. /\ isWaiting' = isWaiting /\ isNew' = isNew /\ status' = status /\ level' = level
      /\ cpuIndex' = cpuIndex /\ ioIndex' = ioIndex /\ osproc' = osproc /\ wproc' = wproc
    BY DEF MonitorRequeue
<1>2. Once(queue, p)
    BY DEF LifeInv, ProcInv, PlaceInv
<1>3. CASE RemoveLast(queue[level[p]], p) = {}
  <2>1. queue' = queue /\ wpc' = wpc
      BY <1>3 DEF MonitorRequeue
  <2>2. \A q \in Process : Same(q)
      BY <1>1, <2>1, Still DEF Same, Holds
  <2>3. QED
      BY <2>2, SameKeeps DEF LifeInv
<1>4. CASE RemoveLast(queue[level[p]], p) # {}
  <2>1. wpc' \in Signal
      BY <1>4 DEF MonitorRequeue
  <2>2. PICK rest \in RemoveLast(queue[level[p]], p) : \E k \in 1 .. Len(rest) + 1 :
           queue' = [queue EXCEPT ![level[p]] = InsertAt(rest, k, p)]
      BY <1>4 DEF MonitorRequeue
  <2>3. \A q \in Process : Unmoved(queue, queue', q)
    <3>1. PICK k \in 1 .. Len(rest) + 1 :
             queue' = [queue EXCEPT ![level[p]] = InsertAt(rest, k, p)]
        BY <2>2
    <3>2. QED
        BY <1>0, <1>2, <3>1, RequeueEffect
  <2>4. ASSUME NEW q \in Process
        PROVE  Same(q)
    <3>1. \A v \in Worker : (Holds(v, q)' <=> Holds(v, q))
                            /\ (Holds(v, q) => wpc'[v] = wpc[v])
        BY <1>1, <2>1, SignalKeepsHands
    <3>2. QED
        BY <1>1, <2>3, <3>1 DEF Same
  <2>5. QED
      BY <2>4, SameKeeps DEF LifeInv
<1>5. QED
    BY <1>3, <1>4

-----------------------------------------------------------------------------
(***************************************************************************)
(* The steps of the main thread.                                           *)
(***************************************************************************)

\* A process that waits and whose time has come goes to the hand of os_loop,
\* which is empty.
LEMMA OsMoveLife ==
    ASSUME TypeOK, LifeInv, NEW p \in Process, OsMove(p)
    PROVE  \A q \in Process : ProcInv(q)'
<1> USE DEF queueVars, pcbVars, infoVars, monitorVars, osVars, workerVars
<1>0. isNew \in [Process -> BOOLEAN] /\ isWaiting \in [Process -> BOOLEAN]
    BY TypeFacts
<1>1. /\ queue' = queue /\ status' = status /\ level' = level
      /\ cpuIndex' = cpuIndex /\ ioIndex' = ioIndex
      /\ wproc' = wproc /\ wpc' = wpc /\ osproc' = p
      /\ isWaiting' = [isWaiting EXCEPT ![p] = FALSE]
      /\ isNew' = [isNew EXCEPT ![p] = FALSE]
    BY DEF OsMove
<1>2. osproc = NULL
    BY DEF OsMove, LifeInv, OsInv
<1>3. /\ \A q \in Process, v \in Worker : Holds(v, q)' <=> Holds(v, q)
      /\ \A q \in Process : osproc # q
    BY <1>1, <1>2, NullAssumption DEF Holds
<1>4. ASSUME NEW q \in Process, q # p
      PROVE  ProcInv(q)'
  <2>1. isWaiting'[q] = isWaiting[q] /\ isNew'[q] = isNew[q]
      BY <1>0, <1>1, <1>4
  <2>2. Same(q)
      BY <1>1, <1>3, <1>4, <2>1, Still DEF Same
  <2>3. QED
      BY <2>2, SameKeeps DEF LifeInv
<1>5. ProcInv(p)'
  <2>1. ProcInv(p) /\ isWaiting[p]
      BY DEF LifeInv, ProcInv, BurstInv, OsMove
  <2>2. ~isWaiting'[p] /\ ~isNew'[p]
      BY <1>0, <1>1
  <2>3. (Queued(p)' <=> Queued(p)) /\ (Held(p)' <=> Held(p))
        /\ (HeldLate(p)' <=> HeldLate(p))
      BY <1>1, <1>3 DEF Queued, Held, HeldLate
  <2>4. PlaceInv(p)'
      BY <1>1, <1>3, <2>1, <2>2, <2>3 DEF ProcInv, PlaceInv
  <2>5. LevelInv(p)'
      BY <1>1, <1>3, <2>1, <2>2, <2>3 DEF ProcInv, LevelInv
  <2>6. BurstInv(p)'
      BY <1>1, <1>3, <2>1, <2>2, <2>3 DEF ProcInv, BurstInv
  <2>7. QED
      BY <2>4, <2>5, <2>6 DEF ProcInv
<1>6. QED
    BY <1>4, <1>5

LEMMA OsPushLife ==
    ASSUME TypeOK, LifeInv, OsPush
    PROVE  \A q \in Process : ProcInv(q)'
<1> USE DEF queueVars, pcbVars, infoVars, monitorVars, osVars, workerVars
<1>0. queue \in Queues /\ level \in [Process -> Levels]
    BY TypeFacts
<1>1. PICK p \in Process : p = osproc
    BY DEF OsPush, TypeOK
<1>2. /\ isWaiting' = isWaiting /\ isNew' = isNew /\ status' = status /\ level' = level
      /\ cpuIndex' = cpuIndex /\ ioIndex' = ioIndex /\ wproc' = wproc /\ wpc' = wpc
      /\ osproc' = NULL
      /\ Push(queue, p, level[p])
    BY <1>1 DEF OsPush
<1>3. /\ ProcInv(p) /\ ~Held(p) /\ ~Queued(p) /\ ~isWaiting[p] /\ ~isNew[p]
      /\ status[p] \in {"none", "blocked"} /\ level[p] = MaxLevel
      /\ \A m \in Levels : ~In(queue, m, p)
  <2>1. ProcInv(p) /\ ~Held(p) /\ ~Queued(p) /\ ~isWaiting[p]
      BY <1>1 DEF LifeInv, ProcInv, PlaceInv
  <2>2. QED
      BY <1>1, <2>1 DEF ProcInv, LevelInv, BurstInv, Queued
<1>4. /\ \A q \in Process : q # p => Unmoved(queue, queue', q)
      /\ Once(queue', p) /\ \A m \in Levels : In(queue', m, p) <=> m = level[p]
  <2>1. level[p] \in Levels /\ p \in Entry
      BY <1>0 DEF Entry
  <2>2. QED
      BY <1>0, <1>2, <1>3, <2>1, PushEffect
<1>5. \A q \in Process : osproc' # q
    BY <1>2, NullAssumption
<1>6. \A q \in Process, v \in Worker : Holds(v, q)' <=> Holds(v, q)
    BY <1>2 DEF Holds
<1>7. ASSUME NEW q \in Process, q # p
      PROVE  ProcInv(q)'
  <2>1. Same(q)
      BY <1>1, <1>2, <1>4, <1>5, <1>6, <1>7 DEF Same
  <2>2. QED
      BY <2>1, SameKeeps DEF LifeInv
<1>8. ProcInv(p)'
  <2>1. Queued(p)' /\ ~Held(p)' /\ ~HeldLate(p)' /\ ~HeldLate(p)
        /\ \A v \in Worker : ~Holds(v, p)' /\ ~Holds(v, p)
      BY <1>0, <1>3, <1>4, <1>6 DEF Queued, Held, HeldLate
  <2>2. PlaceInv(p)'
      BY <1>2, <1>3, <1>4, <1>5, <2>1 DEF PlaceInv
  <2>3. LevelInv(p)'
      BY <1>2, <1>3, <1>4, <1>5, <2>1 DEF LevelInv, Levels, MaxLevel, NumLevels
  <2>4. BurstInv(p)'
      BY <1>2, <1>3, <2>1 DEF ProcInv, BurstInv
  <2>5. QED
      BY <2>2, <2>3, <2>4 DEF ProcInv
<1>9. QED
    BY <1>7, <1>8

LEMMA OsStepLife ==
    ASSUME TypeOK, LifeInv, OsStep
    PROVE  \A q \in Process : ProcInv(q)'
<1> USE DEF queueVars, pcbVars, infoVars, monitorVars, osVars, workerVars
<1>1. CASE \E p \in Process : OsMove(p)
    BY <1>1, OsMoveLife
<1>2. CASE OsPush
    BY <1>2, OsPushLife
<1>3. CASE OsSignal
  <2>1. ASSUME NEW q \in Process
        PROVE  Same(q)
    <3>1. \A v \in Worker : (Holds(v, q)' <=> Holds(v, q))
                            /\ (Holds(v, q) => wpc'[v] = wpc[v])
        BY <1>3, SignalKeepsHands DEF OsSignal
    <3>2. QED
        BY <1>3, <3>1, Still DEF OsSignal, Same
  <2>2. QED
      BY <2>1, SameKeeps DEF LifeInv
<1>4. CASE OsPushPill
  <2>1. queue \in Queues /\ NULL \in Entry /\ PillLevel \in Levels
      BY TypeFacts DEF Entry, PillLevel, Levels, MaxLevel, NumLevels
  <2>2. \A q \in Process : Unmoved(queue, queue', q)
      BY <1>4, <2>1, PushEffect, NullAssumption DEF OsPushPill
  <2>3. \A q \in Process : Same(q)
      BY <1>4, <2>2 DEF OsPushPill, Same, Holds
  <2>4. QED
      BY <2>3, SameKeeps DEF LifeInv
<1>5. CASE OsDone \/ OsEnd
  <2>1. \A q \in Process : Same(q)
      BY <1>5, Still DEF OsDone, OsEnd, Same, Holds
  <2>2. QED
      BY <2>1, SameKeeps DEF LifeInv
<1>6. QED
    BY <1>1, <1>2, <1>3, <1>4, <1>5 DEF OsStep

-----------------------------------------------------------------------------
(***************************************************************************)
(* The count of the finished processes, and the theorems.                  *)
(***************************************************************************)

\* A slice ends the last burst, and counts the process, or it does not.
LEMMA RunSliceCounts ==
    ASSUME TypeOK, LifeInv, NEW w \in Worker, NEW p \in Process, p = wproc[w], RunSlice(w)
    PROVE  /\ Holds(w, p) /\ p \notin Ended
           /\ \A q \in Process : q # p => cpuIndex'[q] = cpuIndex[q]
           /\ \/ cpuIndex'[p] < BurstCount[p] /\ doneCount' = doneCount
              \/ /\ cpuIndex'[p] = BurstCount[p] /\ doneCount' = doneCount + 1
                 /\ status'[p] = "done" /\ ioIndex[p] + 1 = BurstCount[p]
<1>0. /\ status \in [Process -> {"none", "preempted", "blocked", "done"}]
      /\ cpuIndex \in [Process -> Nat] /\ ioIndex \in [Process -> Nat]
      /\ BurstCount[p] \in Nat
    BY TypeFacts, BurstAssumption
<1>1. Holds(w, p) /\ wpc[w] = "run"
    BY DEF RunSlice, Holds, InHand
<1>2. ProcInv(p) /\ ~HeldLate(p)
    BY <1>1, InHandFacts DEF Late
<1>3. status[p] # "done" /\ cpuIndex[p] < BurstCount[p] /\ ioIndex[p] = cpuIndex[p]
    BY <1>0, <1>1, <1>2 DEF ProcInv, BurstInv, Late
<1>4. PICK slice \in Slices(wquantum[w], p) :
         LET preempted == slice < remaining[p]
             done == ~preempted /\ OnLastBurst(p)
         IN /\ cpuIndex' = IF preempted THEN cpuIndex ELSE [cpuIndex EXCEPT ![p] = @ + 1]
            /\ doneCount' = IF done THEN doneCount + 1 ELSE doneCount
            /\ status' = [status EXCEPT ![p] =
                             IF preempted THEN "preempted"
                             ELSE IF done THEN "done" ELSE "blocked"]
    BY DEF RunSlice
<1>5. p \notin Ended
    BY <1>0, <1>3 DEF Ended
<1>6. CASE slice < remaining[p]
    BY <1>0, <1>1, <1>3, <1>4, <1>5, <1>6
<1>7. CASE ~(slice < remaining[p]) /\ OnLastBurst(p)
  <2>1. cpuIndex'[p] = cpuIndex[p] + 1 /\ doneCount' = doneCount + 1 /\ status'[p] = "done"
        /\ \A q \in Process : q # p => cpuIndex'[q] = cpuIndex[q]
      BY <1>0, <1>4, <1>7
  <2>2. cpuIndex[p] + 1 = BurstCount[p]
      BY <1>0, <1>3, <1>7 DEF OnLastBurst
  <2>3. QED
      BY <1>1, <1>3, <1>5, <2>1, <2>2
<1>8. CASE ~(slice < remaining[p]) /\ ~OnLastBurst(p)
  <2>1. cpuIndex'[p] = cpuIndex[p] + 1 /\ doneCount' = doneCount
        /\ \A q \in Process : q # p => cpuIndex'[q] = cpuIndex[q]
      BY <1>0, <1>4, <1>8
  <2>2. cpuIndex[p] + 1 < BurstCount[p]
      BY <1>0, <1>8 DEF OnLastBurst
  <2>3. QED
      BY <1>1, <1>5, <2>1, <2>2
<1>9. QED
    BY <1>6, <1>7, <1>8

LEMMA EndedFinite == IsFiniteSet(Ended) /\ Cardinality(Ended) \in Nat
BY FS_Subset, FS_CardinalityType, FiniteAssumption DEF Ended

LEMMA WorkerStepOs ==
    ASSUME TypeOK, LifeInv, NEW w \in Worker, WorkerStep(w) \/ SpuriousWakeup(w)
    PROVE  OsInv'
<1> USE DEF queueVars, pcbVars, infoVars, monitorVars, osVars
<1>1. ospc' = ospc /\ osproc' = osproc /\ pills' = pills
    BY DEF WorkerStep, SpuriousWakeup, PopLevel, PopWait, AfterPop, LockProcess,
           RunSlice, CheckPreempt, UpdatePriority, PushPreempted, SignalPreempted,
           AddToAverage, MarkFound, StartIo, FinishIo, RemoveFromAverage, Finish
<1>2. CASE RunSlice(w)
  <2>1. PICK p \in Process : p = wproc[w]
      BY <1>2, TypeFacts DEF RunSlice, UsesProcess
  <2>2. /\ p \notin Ended
        /\ \A q \in Process : q # p => cpuIndex'[q] = cpuIndex[q]
        /\ \/ cpuIndex'[p] < BurstCount[p] /\ doneCount' = doneCount
           \/ cpuIndex'[p] = BurstCount[p] /\ doneCount' = doneCount + 1
      BY <1>2, <2>1, RunSliceCounts
  <2>3. ~(ospc \in {"pill", "pillsignal", "end"} \/ pills > 0)
        /\ (ospc # "push" => osproc = NULL) /\ doneCount = Cardinality(Ended)
      BY <2>2 DEF LifeInv, OsInv
  <2>4. CASE cpuIndex'[p] < BurstCount[p] /\ doneCount' = doneCount
    <3>1. cpuIndex'[p] # BurstCount[p]
      <4>1. BurstCount[p] \in Nat
          BY BurstAssumption
      <4>2. cpuIndex'[p] = BurstCount[p] => ~(BurstCount[p] < BurstCount[p])
          BY <4>1
      <4>3. QED
          BY <2>4, <4>2
    <3>2. Ended' = Ended
        BY <2>2, <3>1 DEF Ended
    <3>3. QED
        BY <1>1, <2>3, <2>4, <3>2 DEF OsInv
  <2>5. CASE cpuIndex'[p] = BurstCount[p] /\ doneCount' = doneCount + 1
    <3>1. Ended' = Ended \union {p}
        BY <2>2, <2>5 DEF Ended
    <3>2. Cardinality(Ended') = Cardinality(Ended) + 1
        BY <2>2, <3>1, EndedFinite, FS_AddElement
    <3>3. QED
        BY <1>1, <2>3, <2>5, <3>2 DEF OsInv
  <2>6. QED
      BY <2>2, <2>4, <2>5
<1>3. CASE ~RunSlice(w)
  <2>1. cpuIndex' = cpuIndex /\ doneCount' = doneCount
      BY <1>3 DEF WorkerStep, SpuriousWakeup, PopLevel, PopWait, AfterPop,
             LockProcess, CheckPreempt, UpdatePriority, PushPreempted,
             SignalPreempted, AddToAverage, MarkFound, StartIo, FinishIo,
             RemoveFromAverage, Finish
  <2>2. QED
      BY <1>1, <2>1 DEF LifeInv, OsInv, Ended
<1>4. QED
    BY <1>2, <1>3

LEMMA OsStepOs ==
    ASSUME TypeOK, LifeInv, OsStep
    PROVE  OsInv'
<1> USE DEF queueVars, pcbVars, infoVars, monitorVars, osVars, workerVars
<1>0. OsInv /\ pills \in Nat
    BY DEF LifeInv, TypeOK
<1>1. cpuIndex' = cpuIndex /\ doneCount' = doneCount
    BY DEF OsStep, OsMove, OsPush, OsSignal, OsDone, OsPushPill, OsEnd
<1>2. Ended' = Ended
    BY <1>1 DEF Ended
<1>3. CASE \E p \in Process : OsMove(p)
    BY <1>0, <1>1, <1>2, <1>3 DEF OsMove, OsInv
<1>4. CASE OsPush
    BY <1>0, <1>1, <1>2, <1>4 DEF OsPush, OsInv
<1>5. CASE OsSignal
    BY <1>0, <1>1, <1>2, <1>5 DEF OsSignal, OsInv
<1>6. CASE OsDone
  <2>1. Ended \in SUBSET Process /\ Cardinality(Ended) >= Cardinality(Process)
      BY <1>0, <1>6 DEF Ended, OsDone, AllDone, OsInv
  <2>2. Cardinality(Ended) <= Cardinality(Process)
        /\ (Cardinality(Process) = Cardinality(Ended) => Process = Ended)
      BY <2>1, FS_Subset, FiniteAssumption
  <2>3. Cardinality(Ended) \in Nat /\ Cardinality(Process) \in Nat
      BY EndedFinite, FS_CardinalityType, FiniteAssumption
  <2>4. Ended = Process
      BY <2>1, <2>2, <2>3
  <2>5. QED
      BY <1>0, <1>1, <1>2, <1>6, <2>4 DEF OsDone, OsInv
<1>7. CASE OsPushPill
    BY <1>0, <1>1, <1>2, <1>7 DEF OsPushPill, OsInv
<1>8. CASE OsEnd
    BY <1>0, <1>1, <1>2, <1>8 DEF OsEnd, OsInv
<1>9. QED
    BY <1>3, <1>4, <1>5, <1>6, <1>7, <1>8 DEF OsStep

LEMMA NextLife == TypeOK /\ LifeInv /\ [Next]_vars => LifeInv'
<1> SUFFICES ASSUME TypeOK, LifeInv, [Next]_vars
             PROVE  LifeInv'
    OBVIOUS
<1> USE DEF queueVars, pcbVars, infoVars, monitorVars, osVars, workerVars
<1>1. ASSUME NEW w \in Worker, WorkerStep(w) \/ SpuriousWakeup(w)
      PROVE  LifeInv'
    BY <1>1, WorkerStepLife, WorkerStepOs DEF LifeInv
<1>2. ASSUME NEW p \in Process, MonitorStep(p)
      PROVE  LifeInv'
  <2>1. \A q \in Process : ProcInv(q)'
      BY <1>2, MonitorWakeLife, MonitorRequeueLife DEF MonitorStep
  <2>2. OsInv'
      BY <1>2 DEF MonitorStep, MonitorWake, MonitorRequeue, LifeInv, OsInv, Ended
  <2>3. QED
      BY <2>1, <2>2 DEF LifeInv
<1>3. CASE OsStep
    BY <1>3, OsStepLife, OsStepOs DEF LifeInv
<1>4. CASE UNCHANGED vars
  <2>1. \A q \in Process : Same(q)
      BY <1>4, Still DEF vars, Same, Holds
  <2>2. \A q \in Process : ProcInv(q)'
      BY <2>1, SameKeeps DEF LifeInv
  <2>3. OsInv'
      BY <1>4 DEF vars, LifeInv, OsInv, Ended
  <2>4. QED
      BY <2>2, <2>3 DEF LifeInv
<1>5. QED
    BY <1>1, <1>2, <1>3, <1>4 DEF Next, Terminated

\* LifeInv is inductive together with the types.
THEOREM LifeInvariant == Spec => [](TypeOK /\ LifeInv)
BY InitType, NextType, InitLife, NextLife, PTL DEF Spec

LEMMA SlotsOfProcess ==
    ASSUME NEW p, TypeOK, Once(queue, p)
    PROVE  /\ ~Queued(p) => Slots(p) = {}
           /\ Queued(p) => Cardinality(Slots(p)) = 1
           /\ \A s \in Slots(p) : s[1] \in Levels /\ In(queue, s[1], p)
<1>1. ASSUME NEW s \in Slots(p)
      PROVE  /\ s[1] \in Levels /\ s[2] \in 1 .. Len(queue[s[1]]) /\ queue[s[1]][s[2]] = p
             /\ s = << s[1], s[2] >>
    BY DEF Slots, Nodes
<1>2. ASSUME Queued(p)
      PROVE  Cardinality(Slots(p)) = 1
  <2>1. PICK l \in Levels : \E i \in 1 .. Len(queue[l]) : queue[l][i] = p
      BY <1>2 DEF Queued, In
  <2>2. PICK i \in 1 .. Len(queue[l]) : queue[l][i] = p
      BY <2>1
  <2>3. << l, i >> \in Slots(p)
      BY <2>2 DEF Slots, Nodes
  <2>4. \A s \in Slots(p) : s[1] = l /\ s[2] = i
      BY <1>1, <2>2 DEF Once
  <2>5. Slots(p) = {<< l, i >>}
    <3>1. \A s \in Slots(p) : s = << l, i >>
        BY <1>1, <2>4
    <3>2. QED
        BY <2>3, <3>1
  <2>6. QED
      BY <2>5, FS_Singleton
<1>3. QED
    BY <1>1, <1>2 DEF Queued, In

LEMMA HandsOnProcess ==
    ASSUME NEW p \in Process, PlaceInv(p)
    PROVE  Cardinality({w \in Worker : Holds(w, p)}) = IF Held(p) THEN 1 ELSE 0
<1>1. CASE Held(p)
  <2>1. PICK w \in Worker : Holds(w, p)
      BY <1>1 DEF Held
  <2>2. {v \in Worker : Holds(v, p)} = {w}
      BY <2>1 DEF PlaceInv
  <2>3. QED
      BY <1>1, <2>2, FS_Singleton
<1>2. CASE ~Held(p)
  <2>1. {v \in Worker : Holds(v, p)} = {}
      BY <1>2 DEF Held
  <2>2. QED
      BY <1>2, <2>1, FS_EmptySet
<1>3. QED
    BY <1>1, <1>2

\* No process is lost or duplicated, by any threads in any order: each is in
\* exactly one place (worker_run, os_loop, push and pop).
THEOREM NoProcessIsLost == Spec => []ExactlyOnePlace
<1>1. TypeOK /\ LifeInv => ExactlyOnePlace
  <2> SUFFICES ASSUME TypeOK, LifeInv, NEW p \in Process
               PROVE  Cardinality(Slots(p))
                      + Cardinality({w \in Worker : Holds(w, p)})
                      + (IF isWaiting[p] THEN 1 ELSE 0)
                      + (IF osproc = p THEN 1 ELSE 0)
                      + (IF status[p] = "done" /\ ~\E w \in Worker : Holds(w, p)
                         THEN 1 ELSE 0) = 1
      BY DEF ExactlyOnePlace
  <2>1. PlaceInv(p)
      BY DEF LifeInv, ProcInv
  <2>2. Cardinality(Slots(p)) = IF Queued(p) THEN 1 ELSE 0
      BY <2>1, SlotsOfProcess, FS_EmptySet DEF PlaceInv
  <2>3. Cardinality({w \in Worker : Holds(w, p)}) = IF Held(p) THEN 1 ELSE 0
      BY <2>1, HandsOnProcess
  <2>4. (IF status[p] = "done" /\ ~\E w \in Worker : Holds(w, p) THEN 1 ELSE 0)
        = IF status[p] = "done" /\ ~Held(p) THEN 1 ELSE 0
      BY DEF Held
  <2>5. (IF Queued(p) THEN 1 ELSE 0) + (IF Held(p) THEN 1 ELSE 0)
        + (IF isWaiting[p] THEN 1 ELSE 0) + (IF osproc = p THEN 1 ELSE 0)
        + (IF status[p] = "done" /\ ~Held(p) THEN 1 ELSE 0) = 1
      BY <2>1 DEF PlaceInv
  <2>6. QED
      BY <2>2, <2>3, <2>4, <2>5
<1>2. QED
    BY <1>1, LifeInvariant, PTL

\* A queued process is at the level of its list or above it, and the unlocked
\* read of the level in os_loop is of level 0 (MonitorWake, OsPush).
THEOREM QueuedNotBelowItsLevel == Spec => []QueuedAtOrBelowLevel
<1>1. TypeOK /\ LifeInv => QueuedAtOrBelowLevel
  <2> SUFFICES ASSUME TypeOK, LifeInv
               PROVE  QueuedAtOrBelowLevel
      OBVIOUS
  <2>1. ASSUME NEW p \in Process, NEW s \in Slots(p)
        PROVE  level[p] <= s[1] /\ (level[p] = MaxLevel => s[1] = MaxLevel)
    <3>1. ProcInv(p)
        BY DEF LifeInv
    <3>2. s[1] \in Levels /\ In(queue, s[1], p)
        BY <3>1, SlotsOfProcess DEF ProcInv, PlaceInv
    <3>3. QED
        BY <3>1, <3>2 DEF ProcInv, LevelInv
  <2>2. osproc # NULL => level[osproc] = MaxLevel
      BY DEF TypeOK, LifeInv, ProcInv, LevelInv
  <2>3. QED
      BY <2>1, <2>2 DEF QueuedAtOrBelowLevel
<1>2. QED
    BY <1>1, LifeInvariant, PTL

\* When a poison pill is in a list no process is or will be: the ordered push
\* never reads the burst length of a pill (os_start, ready_queue_push).
THEOREM NoPillAmongProcesses == Spec => []PillsOnlyAfterWork
<1>1. TypeOK /\ LifeInv => PillsOnlyAfterWork
  <2> SUFFICES ASSUME TypeOK, LifeInv, pills > 0, NEW p \in Process
               PROVE  Slots(p) = {} /\ status[p] = "done" /\ ~isWaiting[p]
      BY DEF PillsOnlyAfterWork
  <2>1. ProcInv(p) /\ p \in Ended
      BY DEF LifeInv, OsInv
  <2>2. cpuIndex[p] = BurstCount[p] /\ BurstCount[p] \in Nat
      BY <2>1, BurstAssumption DEF Ended
  <2>3. status[p] = "done"
      BY <2>1, <2>2 DEF ProcInv, BurstInv
  <2>4. ~Queued(p) /\ ~isWaiting[p] /\ Once(queue, p)
      BY <2>1, <2>3 DEF ProcInv, PlaceInv
  <2>5. QED
      BY <2>3, <2>4, SlotsOfProcess
<1>2. QED
    BY <1>1, LifeInvariant, PTL

\* The assertions of os.c hold: a burst is left when a process runs, a burst
\* has just ended when its I/O starts, a new process is at its first burst.
THEOREM AssertionsHold == Spec => []OsAssertions
<1>1. TypeOK /\ LifeInv => OsAssertions
  <2> SUFFICES ASSUME TypeOK, LifeInv
               PROVE  OsAssertions
      OBVIOUS
  <2>1. ASSUME NEW w \in Worker, wpc[w] = "run"
        PROVE  cpuIndex[wproc[w]] < BurstCount[wproc[w]]
    <3>1. PICK p \in Process : p = wproc[w]
        BY <2>1, TypeFacts DEF UsesProcess
    <3>2. Holds(w, p)
        BY <2>1, <3>1 DEF Holds, InHand
    <3>3. ProcInv(p)
        BY DEF LifeInv
    <3>4. status[p] # "done"
        BY <2>1, <3>2, <3>3 DEF ProcInv, BurstInv, Late
    <3>5. QED
        BY <3>1, <3>3, <3>4 DEF ProcInv, BurstInv
  <2>2. ASSUME NEW w \in Worker, wpc[w] = "found"
        PROVE  ioIndex[wproc[w]] + 1 = cpuIndex[wproc[w]]
    <3>1. PICK p \in Process : p = wproc[w]
        BY <2>2, TypeFacts DEF UsesProcess
    <3>2. Holds(w, p)
        BY <2>2, <3>1 DEF Holds, InHand
    <3>3. ProcInv(p) /\ HeldLate(p)
        BY <2>2, <3>2, InHandFacts DEF Late
    <3>4. status[p] = "blocked"
        BY <2>2, <3>2, <3>3 DEF ProcInv, BurstInv
    <3>5. QED
        BY <3>1, <3>3, <3>4 DEF ProcInv, BurstInv
  <2>3. ASSUME NEW p \in Process, isNew[p]
        PROVE  cpuIndex[p] = 0
      BY <2>3 DEF LifeInv, ProcInv, BurstInv
  <2>4. QED
      BY <2>1, <2>2, <2>3 DEF OsAssertions
<1>2. QED
    BY <1>1, LifeInvariant, PTL

\* process_done_count is the number of processes that ran all their bursts,
\* and os_loop ends only when these are all and every I/O was started.
THEOREM CountOfTheDone == Spec => []DoneCountIsExact
<1>1. TypeOK /\ LifeInv => DoneCountIsExact
  <2> SUFFICES ASSUME TypeOK, LifeInv
               PROVE  DoneCountIsExact
      OBVIOUS
  <2>1. doneCount = Cardinality(Ended)
      BY DEF LifeInv, OsInv
  <2>2. ASSUME ospc \in {"pill", "pillsignal", "end"}, NEW p \in Process
        PROVE  ioIndex[p] + 1 = BurstCount[p]
    <3>1. ProcInv(p) /\ p \in Ended
        BY <2>2 DEF LifeInv, OsInv
    <3>2. cpuIndex[p] = BurstCount[p] /\ BurstCount[p] \in Nat
        BY <3>1, BurstAssumption DEF Ended
    <3>3. status[p] = "done"
        BY <3>1, <3>2 DEF ProcInv, BurstInv
    <3>4. QED
        BY <3>1, <3>3 DEF ProcInv, BurstInv
  <2>3. QED
      BY <2>1, <2>2 DEF DoneCountIsExact, Ended
<1>2. QED
    BY <1>1, LifeInvariant, PTL

-----------------------------------------------------------------------------
(***************************************************************************)
(* Each step of the scheduler is a step of the life of one process, or     *)
(* does not show there.                                                    *)
(***************************************************************************)
\* The refinement mapping of Scheduler, for one process.
Bursts(p) == IF IsDone(p) THEN BurstCount[p] ELSE ioIndex[p]

LifeSame(p) == LifeState(p)' = LifeState(p) /\ Bursts(p)' = Bursts(p)
OthersSame(p) == \A q \in Process : q # p => LifeSame(q)

LEMMA LifeStutter ==
    ASSUME \A p \in Process : LifeSame(p)
    PROVE  UNCHANGED Life!vars
BY DEF LifeSame, Bursts, Life!vars

\* A step of one process changes the maps at this process.
LEMMA LifeMoves ==
    ASSUME NEW p \in Process, OthersSame(p)
    PROVE  /\ [q \in Process |-> LifeState(q)'] =
                 [[q \in Process |-> LifeState(q)] EXCEPT ![p] = LifeState(p)']
           /\ [q \in Process |-> Bursts(q)'] =
                 [[q \in Process |-> Bursts(q)] EXCEPT ![p] = Bursts(p)']
BY DEF OthersSame, LifeSame

LEMMA BurstsKept ==
    ASSUME NEW p \in Process, OthersSame(p), Bursts(p)' = Bursts(p)
    PROVE  [q \in Process |-> Bursts(q)'] = [q \in Process |-> Bursts(q)]
BY DEF OthersSame, LifeSame

LEMMA ReadyIsLife ==
    ASSUME NEW p \in Process, OthersSame(p), LifeState(p) \in {"new", "io"},
           LifeState(p)' = "ready", Bursts(p)' = Bursts(p)
    PROVE  Life!Next
<1>1. Life!MakeReady(p)
    BY LifeMoves, BurstsKept DEF Life!MakeReady, Bursts
<1>2. QED
    BY <1>1 DEF Life!Next

LEMMA PreemptIsLife ==
    ASSUME NEW p \in Process, OthersSame(p), LifeState(p) = "running",
           LifeState(p)' = "ready", Bursts(p)' = Bursts(p)
    PROVE  Life!Next
<1>1. Life!Preempt(p)
    BY LifeMoves, BurstsKept DEF Life!Preempt, Bursts
<1>2. QED
    BY <1>1 DEF Life!Next

LEMMA BlockIsLife ==
    ASSUME NEW p \in Process, OthersSame(p), LifeState(p) = "running",
           LifeState(p)' = "io", Bursts(p) + 1 < BurstCount[p],
           Bursts(p)' = Bursts(p) + 1
    PROVE  Life!Next
<1>1. Life!Block(p)
    BY LifeMoves DEF Life!Block, Bursts
<1>2. QED
    BY <1>1 DEF Life!Next

LEMMA CompleteIsLife ==
    ASSUME NEW p \in Process, OthersSame(p), LifeState(p) = "running",
           LifeState(p)' = "done", Bursts(p) + 1 = BurstCount[p],
           Bursts(p)' = Bursts(p) + 1
    PROVE  Life!Next
<1>1. Life!Complete(p)
    BY LifeMoves DEF Life!Complete, Bursts
<1>2. QED
    BY <1>1 DEF Life!Next

LEMMA LifeCardinality == \A S : Life!Cardinality(S) = Cardinality(S)
BY DEF Life!Cardinality, Cardinality, Life!IsFiniteSet, IsFiniteSet

LEMMA DispatchIsLife ==
    ASSUME NEW p \in Process, OthersSame(p), LifeState(p) = "ready",
           Cardinality({q \in Process : LifeState(q) = "running"}) < Cardinality(Worker),
           LifeState(p)' = "running", Bursts(p)' = Bursts(p)
    PROVE  Life!Next
<1>1. Life!Running = {q \in Process : LifeState(q) = "running"}
    BY DEF Life!Running
<1>2. Life!Dispatch(p)
    BY <1>1, LifeCardinality, LifeMoves, BurstsKept DEF Life!Dispatch, Bursts
<1>3. QED
    BY <1>2 DEF Life!Next

-----------------------------------------------------------------------------
(***************************************************************************)
(* What shows of a step.                                                   *)
(***************************************************************************)

\* The life of a process depends on nothing else.
LEMMA LifeKept ==
    ASSUME NEW p \in Process, Held(p)' <=> Held(p),
           isNew'[p] = isNew[p], isWaiting'[p] = isWaiting[p],
           cpuIndex'[p] = cpuIndex[p], ioIndex'[p] = ioIndex[p]
    PROVE  LifeSame(p)
<1>1. IsDone(p)' <=> IsDone(p)
    BY DEF IsDone
<1>2. LifeState(p) = IF isNew[p] THEN "new"
                     ELSE IF IsDone(p) THEN "done"
                     ELSE IF isWaiting[p] THEN "io"
                     ELSE IF Held(p) THEN "running"
                     ELSE "ready"
    BY DEF LifeState, Held
<1>3. LifeState(p)' = IF isNew'[p] THEN "new"
                      ELSE IF IsDone(p)' THEN "done"
                      ELSE IF isWaiting'[p] THEN "io"
                      ELSE IF Held(p)' THEN "running"
                      ELSE "ready"
    BY DEF LifeState, Held
<1>4. LifeState(p)' = LifeState(p)
    BY <1>1, <1>2, <1>3
<1>5. Bursts(p)' = Bursts(p)
    BY <1>1 DEF Bursts
<1>6. QED
    BY <1>4, <1>5 DEF LifeSame

\* The hands of the others do not change with a step of one worker.
LEMMA OneWorkerSteps ==
    ASSUME TypeOK, NEW w \in Worker, WorkerStep(w) \/ SpuriousWakeup(w)
    PROVE  OnlyWorker(w)
<1> USE DEF queueVars, pcbVars, infoVars, monitorVars, osVars, workerVars
<1>0. wproc \in [Worker -> Entry] /\ wpc \in [Worker -> WorkerPc]
    BY TypeFacts
<1>1. CASE SignalPreempted(w)
  <2>1. PICK pc \in Signal : wpc' = [pc EXCEPT ![w] = "pop"]
      BY <1>1 DEF SignalPreempted
  <2>2. /\ pc \in [Worker -> WorkerPc]
        /\ \A v \in Worker : pc[v] = wpc[v] \/ (wpc[v] = "asleep" /\ pc[v] = "pop")
      BY <1>0, SignalWakes
  <2>3. QED
      BY <1>0, <1>1, <2>1, <2>2 DEF SignalPreempted, OnlyWorker
<1>2. CASE RunSlice(w)
    BY <1>0, <1>2 DEF RunSlice, OnlyWorker
<1>3. CASE CheckPreempt(w)
    BY <1>0, <1>3 DEF CheckPreempt, StopRunning, OnlyWorker
<1>4. CASE PopLevel(w) \/ PopWait(w) \/ SpuriousWakeup(w)
    BY <1>0, <1>4 DEF PopLevel, PopWait, SpuriousWakeup, OnlyWorker
<1>5. CASE AfterPop(w) \/ LockProcess(w) \/ UpdatePriority(w) \/ PushPreempted(w)
    BY <1>0, <1>5 DEF AfterPop, LockProcess, UpdatePriority, PushPreempted, OnlyWorker
<1>6. CASE AddToAverage(w) \/ MarkFound(w) \/ StartIo(w) \/ FinishIo(w)
           \/ RemoveFromAverage(w) \/ Finish(w)
    BY <1>0, <1>6 DEF AddToAverage, MarkFound, StartIo, FinishIo,
                      RemoveFromAverage, Finish, OnlyWorker
<1>7. QED
    BY <1>1, <1>2, <1>3, <1>4, <1>5, <1>6 DEF WorkerStep

LEMMA HeldBySelf ==
    ASSUME NEW w \in Worker, OnlyWorker(w), NEW p \in Process,
           Holds(w, p)' <=> Holds(w, p)
    PROVE  Held(p)' <=> Held(p)
<1>1. \A v \in Worker : v # w => (Holds(v, p)' <=> Holds(v, p))
    BY DEF OnlyWorker, Holds, InHand
<1>2. QED
    BY <1>1 DEF Held

\* A worker that runs its process has it in hand, and it is running.
LEMMA RunningInHand ==
    ASSUME LifeInv, NEW w \in Worker, NEW p \in Process, Holds(w, p)
    PROVE  /\ Held(p) /\ ~isNew[p] /\ ~isWaiting[p]
           /\ IsDone(p) \/ LifeState(p) = "running"
BY InHandFacts DEF LifeState, Held

\* No process changes its life when the worker keeps or lacks it as before.
LEMMA WorkerStutter ==
    ASSUME TypeOK, LifeInv, NEW w \in Worker, WorkerStep(w) \/ SpuriousWakeup(w),
           \A p \in Process : Holds(w, p)' <=> Holds(w, p),
           isNew' = isNew, isWaiting' = isWaiting, cpuIndex' = cpuIndex,
           ioIndex' = ioIndex
    PROVE  UNCHANGED Life!vars
<1>1. ASSUME NEW p \in Process
      PROVE  LifeSame(p)
    BY OneWorkerSteps, HeldBySelf, LifeKept
<1>2. QED
    BY <1>1, LifeStutter

\* There is a core for every process a worker takes: the running processes are
\* in the hands of different workers, and this one has none.
LEMMA CoreIsFree ==
    ASSUME LifeInv, NEW w \in Worker, \A p \in Process : ~Holds(w, p)
    PROVE  Cardinality({p \in Process : LifeState(p) = "running"}) < Cardinality(Worker)
<1> DEFINE R == {p \in Process : LifeState(p) = "running"}
           hand == [p \in R |-> CHOOSE v \in Worker : Holds(v, p)]
<1>1. \A p \in R : \E v \in Worker : Holds(v, p)
    BY DEF LifeState
<1>2. \A p \in R : hand[p] \in Worker /\ Holds(hand[p], p)
    BY <1>1
<1>3. hand \in Injection(R, Worker \ {w})
  <2>1. \A p \in R : hand[p] \in Worker \ {w}
      BY <1>2
  <2>2. \A p, q \in R : hand[p] = hand[q] => p = q
      BY <1>2 DEF Holds
  <2>3. QED
      BY <2>1, <2>2 DEF Injection, IsInjective
<1>4. IsFiniteSet(Worker \ {w}) /\ Cardinality(Worker \ {w}) = Cardinality(Worker) - 1
    BY FiniteAssumption, FS_RemoveElement
<1> HIDE DEF hand, R
<1>5. IsFiniteSet(R) /\ Cardinality(R) <= Cardinality(Worker \ {w})
    BY <1>3, <1>4, FS_Injection
<1>6. Cardinality(R) \in Nat /\ Cardinality(Worker) \in Nat
    BY <1>5, FiniteAssumption, FS_CardinalityType
<1>7. QED
    BY <1>4, <1>5, <1>6 DEF R

-----------------------------------------------------------------------------
(***************************************************************************)
(* The steps that show.                                                    *)
(***************************************************************************)

\* A pop that returns a process dispatches it.
LEMMA PopLevelRefines ==
    ASSUME TypeOK, LifeInv, LifeInv', NEW w \in Worker, PopLevel(w)
    PROVE  Life!Next \/ UNCHANGED Life!vars
<1> USE DEF queueVars, pcbVars, infoVars, monitorVars, osVars
<1>0. queue \in Queues /\ wproc \in [Worker -> Entry] /\ wpc \in [Worker -> WorkerPc]
    BY TypeFacts
<1> DEFINE l == wscan[w]
           x == Head(queue[l])
<1>1. /\ wpc[w] = "pop" /\ l \in Levels
      /\ isWaiting' = isWaiting /\ isNew' = isNew
      /\ cpuIndex' = cpuIndex /\ ioIndex' = ioIndex
    BY DEF PopLevel
<1>2. \A p \in Process : ~Holds(w, p)
    BY <1>1 DEF Holds, InHand
<1>3. CASE queue[l] = << >>
  <2>1. wpc' = wpc /\ wproc' = wproc
      BY <1>3 DEF PopLevel
  <2>2. \A p \in Process : Holds(w, p)' <=> Holds(w, p)
      BY <2>1 DEF Holds
  <2>3. QED
      BY <1>1, <2>2, WorkerStutter DEF WorkerStep
<1>4. CASE queue[l] # << >>
  <2>1. /\ wproc' = [wproc EXCEPT ![w] = x] /\ wpc' = [wpc EXCEPT ![w] = "popped"]
        /\ queue' = [queue EXCEPT ![l] = Tail(@)]
      BY <1>4 DEF PopLevel
  <2>2. x \in Entry /\ In(queue, l, x)
      BY <1>0, <1>1, <1>4, <2>1, PopEffect
  <2> HIDE DEF x, l
  <2>3. wproc'[w] = x /\ wpc'[w] = "popped"
      BY <1>0, <2>1, <2>2
  <2>4. \A p \in Process : Holds(w, p)' <=> p = x
      BY <2>3 DEF Holds, InHand
  <2>5. OnlyWorker(w)
      BY OneWorkerSteps DEF WorkerStep
  <2>6. ASSUME NEW p \in Process, p # x
        PROVE  LifeSame(p)
      BY <1>1, <1>2, <2>4, <2>5, <2>6, HeldBySelf, LifeKept
  <2>7. CASE x = NULL
    <3>1. \A p \in Process : LifeSame(p)
        BY <2>6, <2>7, NullAssumption
    <3>2. QED
        BY <3>1, LifeStutter
  <2>8. CASE x # NULL
    <3>1. PICK p \in Process : p = x
        BY <2>2, <2>8 DEF Entry
    <3>2. ProcInv(p) /\ Queued(p)
        BY <1>1, <2>2, <3>1 DEF LifeInv, Queued
    <3>3. ~Held(p) /\ ~isWaiting[p] /\ ~isNew[p] /\ cpuIndex[p] < BurstCount[p]
        BY <3>2 DEF ProcInv, PlaceInv, BurstInv
    <3>4. ~IsDone(p)
        BY <3>3, BurstAssumption DEF IsDone
    <3>5. LifeState(p) = "ready"
        BY <3>3, <3>4 DEF LifeState, Held
    <3>6. Held(p)' /\ ~IsDone(p)' /\ ~isNew'[p] /\ ~isWaiting'[p]
        BY <1>1, <2>4, <3>1, <3>3, <3>4 DEF Held, IsDone
    <3>7. LifeState(p)' = "running"
        BY <3>6 DEF LifeState, Held
    <3>8. Bursts(p)' = Bursts(p)
        BY <1>1 DEF Bursts, IsDone
    <3>9. OthersSame(p)
        BY <2>6, <3>1 DEF OthersSame
    <3>10. QED
        BY <1>2, <3>5, <3>7, <3>8, <3>9, CoreIsFree, DispatchIsLife
  <2>9. QED
      BY <2>7, <2>8
<1>5. QED
    BY <1>3, <1>4

\* A slice completes the life of its process or does not show.
LEMMA RunSliceRefines ==
    ASSUME TypeOK, LifeInv, NEW w \in Worker, RunSlice(w)
    PROVE  Life!Next \/ UNCHANGED Life!vars
<1> USE DEF queueVars, pcbVars, infoVars, monitorVars, osVars
<1>0. wpc \in [Worker -> WorkerPc] /\ ioIndex \in [Process -> Nat]
    BY TypeFacts
<1>1. PICK p \in Process : p = wproc[w]
    BY TypeFacts DEF RunSlice, UsesProcess
<1>2. /\ Holds(w, p) /\ p \notin Ended
      /\ \A q \in Process : q # p => cpuIndex'[q] = cpuIndex[q]
      /\ \/ cpuIndex'[p] < BurstCount[p]
         \/ cpuIndex'[p] = BurstCount[p] /\ ioIndex[p] + 1 = BurstCount[p]
    BY <1>1, RunSliceCounts
<1>3. /\ isWaiting' = isWaiting /\ isNew' = isNew /\ ioIndex' = ioIndex /\ wproc' = wproc
      /\ wpc'[w] \in {"update", "check"} /\ wpc[w] = "run"
    BY <1>0, <1>1 DEF RunSlice
<1>4. \A q \in Process : Holds(w, q)' <=> Holds(w, q)
    BY <1>3 DEF Holds, InHand
<1>5. OnlyWorker(w)
    BY OneWorkerSteps DEF WorkerStep
<1>6. \A q \in Process : Held(q)' <=> Held(q)
    BY <1>4, <1>5, HeldBySelf
<1>7. OthersSame(p)
    BY <1>2, <1>3, <1>6, LifeKept DEF OthersSame
<1>8. ~IsDone(p) /\ LifeState(p) = "running" /\ ~isNew[p] /\ ~isWaiting[p] /\ Held(p)
    BY <1>2, RunningInHand DEF Ended, IsDone
<1>9. CASE cpuIndex'[p] < BurstCount[p]
  <2>1. BurstCount[p] \in Nat
      BY BurstAssumption
  <2>2. ~IsDone(p)'
      BY <1>9, <2>1 DEF IsDone
  <2>3. LifeState(p)' = "running"
      BY <1>3, <1>6, <1>8, <2>2 DEF LifeState, Held
  <2>4. Bursts(p)' = Bursts(p)
      BY <1>3, <1>8, <2>2 DEF Bursts
  <2>5. LifeSame(p)
      BY <1>8, <2>3, <2>4 DEF LifeSame
  <2>6. \A q \in Process : LifeSame(q)
      BY <1>7, <2>5 DEF OthersSame
  <2>7. QED
      BY <2>6, LifeStutter
<1>10. CASE cpuIndex'[p] = BurstCount[p] /\ ioIndex[p] + 1 = BurstCount[p]
  <2>1. IsDone(p)' /\ ~isNew'[p]
      BY <1>3, <1>8, <1>10 DEF IsDone
  <2>2. LifeState(p)' = "done"
      BY <2>1 DEF LifeState
  <2>3. Bursts(p) = ioIndex[p] /\ Bursts(p)' = BurstCount[p]
      BY <1>8, <2>1 DEF Bursts
  <2>4. QED
      BY <1>7, <1>8, <1>10, <2>2, <2>3, CompleteIsLife
<1>11. QED
    BY <1>2, <1>9, <1>10

\* A preempted process is pushed back.
LEMMA PushPreemptedRefines ==
    ASSUME TypeOK, LifeInv, NEW w \in Worker, PushPreempted(w)
    PROVE  Life!Next
<1> USE DEF queueVars, pcbVars, infoVars, monitorVars, osVars
<1>0. wpc \in [Worker -> WorkerPc]
    BY TypeFacts
<1>1. PICK p \in Process : p = wproc[w]
    BY TypeFacts DEF PushPreempted, UsesProcess
<1>2. Holds(w, p) /\ status[p] = "preempted"
    BY <1>1 DEF PushPreempted, Holds, InHand
<1>3. /\ isWaiting' = isWaiting /\ isNew' = isNew /\ ioIndex' = ioIndex
      /\ cpuIndex' = cpuIndex /\ wproc' = wproc /\ wpc'[w] = "signal"
    BY <1>0 DEF PushPreempted
<1>4. OnlyWorker(w)
    BY OneWorkerSteps DEF WorkerStep
<1>5. OthersSame(p)
  <2>1. ASSUME NEW q \in Process, q # p
        PROVE  LifeSame(q)
    <3>1. ~Holds(w, q) /\ ~Holds(w, q)'
        BY <1>1, <1>3, <2>1 DEF Holds
    <3>2. QED
        BY <1>3, <1>4, <3>1, HeldBySelf, LifeKept
  <2>2. QED
      BY <2>1 DEF OthersSame
<1>6. /\ ProcInv(p) /\ \A v \in Worker : Holds(v, p) => v = w
      /\ ~isNew[p] /\ ~isWaiting[p]
    BY <1>2, InHandFacts
<1>7. cpuIndex[p] < BurstCount[p] /\ BurstCount[p] \in Nat
    BY <1>2, <1>6, BurstAssumption DEF ProcInv, BurstInv
<1>8. ~IsDone(p) /\ ~IsDone(p)'
    BY <1>3, <1>7 DEF IsDone
<1>9. \A v \in Worker : ~Holds(v, p)'
    BY <1>3, <1>4, <1>6 DEF Holds, OnlyWorker, InHand
<1>10. LifeState(p) = "running"
    BY <1>2, <1>8, RunningInHand
<1>11. LifeState(p)' = "ready"
    BY <1>3, <1>6, <1>8, <1>9 DEF LifeState
<1>12. Bursts(p)' = Bursts(p)
    BY <1>3, <1>8 DEF Bursts
<1>13. QED
    BY <1>5, <1>10, <1>11, <1>12, PreemptIsLife

\* A burst that is not the last one is followed by its I/O.
LEMMA StartIoRefines ==
    ASSUME TypeOK, LifeInv, NEW w \in Worker, StartIo(w)
    PROVE  Life!Next
<1> USE DEF queueVars, pcbVars, infoVars, monitorVars, osVars
<1>0. /\ wpc \in [Worker -> WorkerPc] /\ isWaiting \in [Process -> BOOLEAN]
      /\ ioIndex \in [Process -> Nat] /\ cpuIndex \in [Process -> Nat]
    BY TypeFacts
<1>1. PICK p \in Process : p = wproc[w]
    BY TypeFacts DEF StartIo, UsesProcess
<1>2. Holds(w, p) /\ status[p] = "blocked" /\ wpc[w] = "found"
  <2>1. Holds(w, p) /\ wpc[w] = "found"
      BY <1>1 DEF StartIo, Holds, InHand
  <2>2. QED
      BY <2>1 DEF LifeInv, ProcInv, BurstInv
<1>3. /\ isNew' = isNew /\ cpuIndex' = cpuIndex /\ wproc' = wproc /\ wpc'[w] = "io"
      /\ isWaiting' = [isWaiting EXCEPT ![p] = TRUE]
      /\ ioIndex' = [ioIndex EXCEPT ![p] = @ + 1]
    BY <1>0, <1>1 DEF StartIo
<1>4. OnlyWorker(w)
    BY OneWorkerSteps DEF WorkerStep
<1>5. OthersSame(p)
  <2>1. ASSUME NEW q \in Process, q # p
        PROVE  LifeSame(q)
    <3>1. ~Holds(w, q) /\ ~Holds(w, q)'
        BY <1>1, <1>3, <2>1 DEF Holds
    <3>2. isWaiting'[q] = isWaiting[q] /\ ioIndex'[q] = ioIndex[q]
        BY <1>0, <1>3, <2>1
    <3>3. QED
        BY <1>3, <1>4, <3>1, <3>2, HeldBySelf, LifeKept
  <2>2. QED
      BY <2>1 DEF OthersSame
<1>6. ProcInv(p) /\ ~isNew[p] /\ HeldLate(p)
    BY <1>2, InHandFacts DEF Late
<1>7. cpuIndex[p] < BurstCount[p] /\ ioIndex[p] + 1 = cpuIndex[p]
      /\ BurstCount[p] \in Nat /\ cpuIndex[p] \in Nat
    BY <1>0, <1>2, <1>6, BurstAssumption DEF ProcInv, BurstInv
<1>8. ~IsDone(p) /\ ~IsDone(p)'
    BY <1>3, <1>7 DEF IsDone
<1>9. isWaiting'[p] /\ ioIndex'[p] = ioIndex[p] + 1 /\ ~isNew'[p]
    BY <1>0, <1>3, <1>6
<1>10. LifeState(p) = "running" /\ LifeState(p)' = "io"
    BY <1>2, <1>8, <1>9, RunningInHand DEF LifeState
<1>11. Bursts(p) = ioIndex[p] /\ Bursts(p)' = ioIndex[p] + 1
    BY <1>8, <1>9 DEF Bursts
<1>12. QED
    BY <1>5, <1>7, <1>10, <1>11, BlockIsLife

\* The worker lets go of a process whose life is over.
LEMMA FinishRefines ==
    ASSUME TypeOK, LifeInv, NEW w \in Worker, Finish(w)
    PROVE  UNCHANGED Life!vars
<1> USE DEF queueVars, pcbVars, infoVars, monitorVars, osVars
<1>0. wpc \in [Worker -> WorkerPc] /\ wproc \in [Worker -> Entry]
    BY TypeFacts
<1>1. PICK p \in Process : p = wproc[w]
    BY TypeFacts DEF Finish, UsesProcess
<1>2. Holds(w, p) /\ status[p] = "done"
  <2>1. Holds(w, p) /\ wpc[w] = "leave"
      BY <1>1 DEF Finish, Holds, InHand
  <2>2. QED
      BY <2>1 DEF LifeInv, ProcInv, BurstInv
<1>3. /\ isWaiting' = isWaiting /\ isNew' = isNew /\ ioIndex' = ioIndex
      /\ cpuIndex' = cpuIndex /\ wproc'[w] = NULL
    BY <1>0 DEF Finish
<1>4. OnlyWorker(w)
    BY OneWorkerSteps DEF WorkerStep
<1>5. ASSUME NEW q \in Process, q # p
      PROVE  LifeSame(q)
  <2>1. ~Holds(w, q) /\ ~Holds(w, q)'
      BY <1>1, <1>3, <1>5, NullAssumption DEF Holds
  <2>2. QED
      BY <1>3, <1>4, <2>1, HeldBySelf, LifeKept
<1>6. IsDone(p) /\ ~isNew[p]
    BY <1>2, InHandFacts DEF ProcInv, BurstInv, IsDone
<1>7. IsDone(p)' /\ ~isNew'[p]
    BY <1>3, <1>6 DEF IsDone
<1>8. LifeState(p) = "done" /\ LifeState(p)' = "done"
    BY <1>6, <1>7 DEF LifeState
<1>9. LifeSame(p)
    BY <1>6, <1>7, <1>8 DEF LifeSame, Bursts
<1>10. QED
    BY <1>5, <1>9, LifeStutter

\* A process whose time has come arrives or is ready again.
LEMMA OsMoveRefines ==
    ASSUME TypeOK, LifeInv, NEW p \in Process, OsMove(p)
    PROVE  Life!Next
<1> USE DEF queueVars, pcbVars, infoVars, monitorVars, osVars, workerVars
<1>0. isNew \in [Process -> BOOLEAN] /\ isWaiting \in [Process -> BOOLEAN]
    BY TypeFacts
<1>1. /\ cpuIndex' = cpuIndex /\ ioIndex' = ioIndex /\ wproc' = wproc /\ wpc' = wpc
      /\ isWaiting' = [isWaiting EXCEPT ![p] = FALSE]
      /\ isNew' = [isNew EXCEPT ![p] = FALSE]
    BY DEF OsMove
<1>2. \A q \in Process, v \in Worker : Holds(v, q)' <=> Holds(v, q)
    BY <1>1 DEF Holds
<1>3. OthersSame(p)
  <2>1. ASSUME NEW q \in Process, q # p
        PROVE  LifeSame(q)
    <3>1. isWaiting'[q] = isWaiting[q] /\ isNew'[q] = isNew[q]
        BY <1>0, <1>1, <2>1
    <3>2. Held(q)' <=> Held(q)
        BY <1>2 DEF Held
    <3>3. QED
        BY <1>1, <3>1, <3>2, LifeKept
  <2>2. QED
      BY <2>1 DEF OthersSame
<1>4. ProcInv(p) /\ isWaiting[p]
    BY DEF LifeInv, ProcInv, BurstInv, OsMove
<1>5. ~Held(p) /\ cpuIndex[p] < BurstCount[p] /\ BurstCount[p] \in Nat
    BY <1>4, BurstAssumption DEF ProcInv, PlaceInv, BurstInv
<1>6. ~IsDone(p) /\ ~IsDone(p)' /\ ~isNew'[p] /\ ~isWaiting'[p]
    BY <1>0, <1>1, <1>5 DEF IsDone
<1>7. \A v \in Worker : ~Holds(v, p)'
    BY <1>2, <1>5 DEF Held
<1>8. LifeState(p) \in {"new", "io"}
    BY <1>4, <1>6 DEF LifeState
<1>9. LifeState(p)' = "ready"
    BY <1>6, <1>7 DEF LifeState
<1>10. Bursts(p)' = Bursts(p)
    BY <1>1, <1>6 DEF Bursts
<1>11. QED
    BY <1>3, <1>8, <1>9, <1>10, ReadyIsLife

\* A step that touches no hand, no index and no wait does not show.
LEMMA HandsStutter ==
    ASSUME \A p \in Process, v \in Worker : Holds(v, p)' <=> Holds(v, p),
           isNew' = isNew, isWaiting' = isWaiting, cpuIndex' = cpuIndex,
           ioIndex' = ioIndex
    PROVE  UNCHANGED Life!vars
<1>1. \A p \in Process : LifeSame(p)
    BY LifeKept DEF Held
<1>2. QED
    BY <1>1, LifeStutter

LEMMA WorkerStepRefines ==
    ASSUME TypeOK, LifeInv, LifeInv', NEW w \in Worker, WorkerStep(w) \/ SpuriousWakeup(w)
    PROVE  Life!Next \/ UNCHANGED Life!vars
<1> USE DEF queueVars, pcbVars, infoVars, monitorVars, osVars
<1>0. wproc \in [Worker -> Entry] /\ wpc \in [Worker -> WorkerPc]
    BY TypeFacts
<1>1. CASE PopLevel(w)
    BY <1>1, PopLevelRefines
<1>2. CASE PopWait(w)
  <2>1. \A p \in Process : ~Holds(w, p) /\ ~Holds(w, p)'
      BY <1>0, <1>2 DEF PopWait, Holds, InHand
  <2>2. QED
      BY <1>2, <2>1, WorkerStutter DEF PopWait
<1>3. CASE SpuriousWakeup(w)
  <2>1. \A p \in Process : ~Holds(w, p) /\ ~Holds(w, p)'
      BY <1>0, <1>3 DEF SpuriousWakeup, Holds, InHand
  <2>2. QED
      BY <1>3, <2>1, WorkerStutter DEF SpuriousWakeup
<1>4. CASE AfterPop(w)
  <2>1. wproc' = wproc /\ wpc[w] = "popped"
        /\ (wpc'[w] = "lock" \/ (wpc'[w] = "exit" /\ wproc[w] = NULL))
      BY <1>0, <1>4 DEF AfterPop
  <2>2. \A p \in Process : Holds(w, p)' <=> Holds(w, p)
      BY <2>1, NullAssumption DEF Holds, InHand
  <2>3. QED
      BY <1>4, <2>2, WorkerStutter DEF AfterPop
<1>5. CASE LockProcess(w)
  <2>1. wproc' = wproc /\ wpc[w] = "lock" /\ wpc'[w] = "run"
      BY <1>0, <1>5 DEF LockProcess
  <2>2. \A p \in Process : Holds(w, p)' <=> Holds(w, p)
      BY <2>1 DEF Holds, InHand
  <2>3. QED
      BY <1>5, <2>2, WorkerStutter DEF LockProcess
<1>6. CASE RunSlice(w)
    BY <1>6, RunSliceRefines
<1>7. CASE CheckPreempt(w)
  <2>1. wproc' = wproc /\ wpc[w] = "check" /\ wpc'[w] \in {"update", "run"}
      BY <1>0, <1>7 DEF CheckPreempt, StopRunning
  <2>2. \A p \in Process : Holds(w, p)' <=> Holds(w, p)
      BY <2>1 DEF Holds, InHand
  <2>3. QED
      BY <1>7, <2>2, WorkerStutter DEF CheckPreempt
<1>8. CASE UpdatePriority(w)
  <2>1. wproc' = wproc /\ wpc[w] = "update" /\ wpc'[w] = "requeue"
      BY <1>0, <1>8 DEF UpdatePriority
  <2>2. \A p \in Process : Holds(w, p)' <=> Holds(w, p)
      BY <2>1 DEF Holds, InHand
  <2>3. QED
      BY <1>8, <2>2, WorkerStutter DEF UpdatePriority
<1>9. CASE PushPreempted(w)
    BY <1>9, PushPreemptedRefines
<1>10. CASE SignalPreempted(w)
  <2>1. wproc'[w] = NULL /\ wpc[w] = "signal"
      BY <1>0, <1>10 DEF SignalPreempted
  <2>2. \A p \in Process : ~Holds(w, p) /\ ~Holds(w, p)'
      BY <2>1, NullAssumption DEF Holds, InHand
  <2>3. QED
      BY <1>10, <2>2, WorkerStutter DEF SignalPreempted
<1>11. CASE AddToAverage(w) \/ MarkFound(w) \/ RemoveFromAverage(w)
  <2>1. wproc' = wproc /\ wpc[w] \in InHand /\ wpc'[w] \in InHand
      BY <1>0, <1>11 DEF AddToAverage, MarkFound, RemoveFromAverage, InHand
  <2>2. \A p \in Process : Holds(w, p)' <=> Holds(w, p)
      BY <2>1 DEF Holds
  <2>3. QED
      BY <1>11, <2>2, WorkerStutter DEF AddToAverage, MarkFound, RemoveFromAverage
<1>12. CASE StartIo(w)
    BY <1>12, StartIoRefines
<1>13. CASE FinishIo(w)
  <2>1. wproc'[w] = NULL /\ wpc[w] = "io"
      BY <1>0, <1>13 DEF FinishIo
  <2>2. \A p \in Process : ~Holds(w, p) /\ ~Holds(w, p)'
      BY <2>1, NullAssumption DEF Holds, InHand
  <2>3. QED
      BY <1>13, <2>2, WorkerStutter DEF FinishIo
<1>14. CASE Finish(w)
    BY <1>14, FinishRefines
<1>15. QED
    BY <1>1, <1>2, <1>3, <1>4, <1>5, <1>6, <1>7, <1>8, <1>9, <1>10, <1>11,
       <1>12, <1>13, <1>14 DEF WorkerStep

LEMMA StepRefines ==
    TypeOK /\ LifeInv /\ LifeInv' /\ [Next]_vars => [Life!Next]_(Life!vars)
<1> SUFFICES ASSUME TypeOK, LifeInv, LifeInv', [Next]_vars
             PROVE  Life!Next \/ UNCHANGED Life!vars
    OBVIOUS
<1> USE DEF queueVars, pcbVars, infoVars, monitorVars, osVars, workerVars
<1>1. ASSUME NEW w \in Worker, WorkerStep(w) \/ SpuriousWakeup(w)
      PROVE  Life!Next \/ UNCHANGED Life!vars
    BY <1>1, WorkerStepRefines
<1>2. ASSUME NEW p \in Process, MonitorWake(p)
      PROVE  UNCHANGED Life!vars
  <2>1. wproc' = wproc /\ wpc' = wpc
      BY <1>2 DEF MonitorWake
  <2>2. QED
      BY <1>2, <2>1, HandsStutter DEF MonitorWake, Holds
<1>3. ASSUME NEW p \in Process, MonitorRequeue(p)
      PROVE  UNCHANGED Life!vars
  <2>1. wpc' = wpc \/ wpc' \in Signal
      BY <1>3 DEF MonitorRequeue
  <2>2. \A q \in Process, v \in Worker : Holds(v, q)' <=> Holds(v, q)
    <3>1. CASE wpc' = wpc
        BY <1>3, <3>1 DEF MonitorRequeue, Holds
    <3>2. CASE wpc' \in Signal
        BY <1>3, <3>2, SignalKeepsHands DEF MonitorRequeue
    <3>3. QED
        BY <2>1, <3>1, <3>2
  <2>3. QED
      BY <1>3, <2>2, HandsStutter DEF MonitorRequeue
<1>4. ASSUME NEW p \in Process, OsMove(p)
      PROVE  Life!Next
    BY <1>4, OsMoveRefines
<1>5. CASE OsSignal
  <2>1. \A q \in Process, v \in Worker : Holds(v, q)' <=> Holds(v, q)
      BY <1>5, SignalKeepsHands DEF OsSignal
  <2>2. QED
      BY <1>5, <2>1, HandsStutter DEF OsSignal
<1>6. CASE OsPush \/ OsDone \/ OsPushPill \/ OsEnd \/ UNCHANGED vars
  <2>1. /\ wproc' = wproc /\ wpc' = wpc
        /\ isNew' = isNew /\ isWaiting' = isWaiting /\ cpuIndex' = cpuIndex
        /\ ioIndex' = ioIndex
      BY <1>6 DEF OsPush, OsDone, OsPushPill, OsEnd, vars
  <2>2. \A q \in Process, v \in Worker : Holds(v, q)' <=> Holds(v, q)
      BY <2>1 DEF Holds
  <2>3. QED
      BY <2>1, <2>2, HandsStutter
<1>7. QED
    BY <1>1, <1>2, <1>3, <1>4, <1>5, <1>6 DEF Next, MonitorStep, OsStep, Terminated

LEMMA InitRefines == Init => Life!Init
<1> SUFFICES ASSUME Init PROVE Life!Init
    OBVIOUS
<1>1. \A p \in Process : isNew[p] /\ cpuIndex[p] = 0 /\ ioIndex[p] = 0
    BY DEF Init
<1>2. \A p \in Process : BurstCount[p] # 0
    BY BurstAssumption
<1>3. \A p \in Process : LifeState(p) = "new" /\ ~IsDone(p)
    BY <1>1, <1>2 DEF LifeState, IsDone
<1>4. QED
    BY <1>1, <1>3 DEF Life!Init

\* Whatever the threads do, and in any order, a process only arrives, is
\* dispatched to a free core, preempted, blocked after a burst that is not the
\* last, made ready and finished (os.h; worker_run, os_loop).
THEOREM Refinement == Spec => ImplementsProcessLife
<1>1. Spec => [](TypeOK /\ LifeInv)
    BY LifeInvariant
<1>2. QED
    BY <1>1, InitRefines, StepRefines, PTL DEF Spec, ImplementsProcessLife, Life!Spec
=============================================================================
