----------------------------- MODULE Scheduler ------------------------------
(***************************************************************************)
(* The multilevel feedback scheduler of tp2: the worker threads            *)
(* (worker.c), the ready queue with its condition variable                 *)
(* (ready_queue.c), the detached priority monitors (worker.c) and the main *)
(* thread that runs the simulated system (os.c).                           *)
(*                                                                         *)
(* A step is what a thread does between two points where another thread    *)
(* can see it: a critical section, or an access made without a lock.  The  *)
(* sections of queue_mutex, quantum_mutex and of the mutex of os.c hold no *)
(* other visible access, so each is one step; process->mutex is held over  *)
(* several steps and has an owner.  Time is abstract: an I/O or the sleep  *)
(* of a monitor may end at any moment, and a burst lasts BurstTime units,  *)
(* of which a slice consumes some.                                         *)
(***************************************************************************)
EXTENDS Integers, Sequences, FiniteSets, ReadyQueue

CONSTANTS
    Process,     \* the processes of the input file
    Worker,      \* the worker threads, one per core
    Monitor,     \* stands for a monitor thread that owns a process mutex
    NULL,        \* no process, no owner, and the poison pill
    BurstCount,  \* burst_count of each process
    BurstTime    \* burst_time of each process, in units of the shortest slice

ASSUME NullAssumption ==
    /\ NULL \notin Process \union Worker
    /\ Monitor \notin Worker \union {NULL}
ASSUME FiniteAssumption == IsFiniteSet(Process) /\ IsFiniteSet(Worker)
ASSUME BurstAssumption ==
    /\ BurstCount \in [Process -> Nat \ {0}]
    /\ BurstTime  \in [Process -> Nat \ {0}]

VARIABLES
    queue,         \* ready_queue.head/tail/size, one list per level
    readMax,       \* owner of read_max_queue_mutex
    counter,       \* ready_queue.quantum_counter
    level,         \* process->priority_level
    status,        \* process->status
    foundBurst,    \* process->found_burst
    waitingBoost,  \* process->waiting_boost
    owner,         \* owner of process->mutex
    cpuIndex,      \* info->burst_cpu_index
    ioIndex,       \* info->burst_io_index
    remaining,     \* what is left of burst cpuIndex
    isNew,         \* info->is_new
    isWaiting,     \* info->is_waiting
    doneCount,     \* process_done_count
    wpc,           \* where each worker is
    wproc,         \* its local `process`
    wscan,         \* the level ready_queue_pop looks at next
    wquantum,      \* the level its local `quantum` was computed for
    sleeping,      \* how many monitor threads of a process still sleep
    boosting,      \* whether a monitor is between the boost and its unlock
    ospc,          \* where the main thread is
    osproc,        \* the process os_loop is moving to the ready queue
    pills          \* poison pills pushed so far

queueVars   == << queue, readMax, counter >>
pcbVars     == << level, status, foundBurst, waitingBoost, owner >>
infoVars    == << cpuIndex, ioIndex, remaining, isNew, isWaiting, doneCount >>
workerVars  == << wpc, wproc, wscan, wquantum >>
monitorVars == << sleeping, boosting >>
osVars      == << ospc, osproc, pills >>
vars == << queueVars, pcbVars, infoVars, workerVars, monitorVars, osVars >>

\* Where a worker and the main thread can be, and where a worker has a process.
WorkerPc == {"pop", "asleep", "popped", "lock", "run", "check", "update",
             "requeue", "signal", "average", "found", "io", "leave", "exit"}
UsesProcess == {"lock", "run", "check", "update", "requeue", "signal",
                "average", "found", "io", "leave"}
OsPc == {"loop", "push", "signal", "pill", "pillsignal", "end"}

Init ==
    /\ queue = [l \in Levels |-> << >>]
    /\ readMax = NULL
    /\ counter = 0
    /\ level = [p \in Process |-> MaxLevel]
    /\ status = [p \in Process |-> "none"]
    /\ foundBurst = [p \in Process |-> FALSE]
    /\ waitingBoost = [p \in Process |-> FALSE]
    /\ owner = [p \in Process |-> NULL]
    /\ cpuIndex = [p \in Process |-> 0]
    /\ ioIndex = [p \in Process |-> 0]
    /\ remaining = BurstTime
    /\ isNew = [p \in Process |-> TRUE]
    /\ isWaiting = [p \in Process |-> TRUE]
    /\ doneCount = 0
    /\ wpc = [w \in Worker |-> "pop"]
    /\ wproc = [w \in Worker |-> NULL]
    /\ wscan = [w \in Worker |-> 0]
    /\ wquantum = [w \in Worker |-> MaxLevel]
    /\ sleeping = [p \in Process |-> 0]
    /\ boosting = [p \in Process |-> FALSE]
    /\ ospc = "loop"
    /\ osproc = NULL
    /\ pills = 0

-----------------------------------------------------------------------------
(***************************************************************************)
(* ready_queue_push, the section of queue_mutex: level 0 and the pills go  *)
(* to the tail; in the other levels the place depends on measured times,   *)
(* so it is any place.  The signal that follows the unlock is a step of    *)
(* its own.                                                                *)
(***************************************************************************)
Push(q, x, l) ==
    IF x = NULL \/ l = MaxLevel
    THEN q' = [q EXCEPT ![l] = PushTail(@, x)]
    ELSE \E k \in 1 .. Len(q[l]) + 1 : q' = [q EXCEPT ![l] = InsertAt(@, k, x)]

\* pthread_cond_signal wakes one of the waiting workers, if there is one.
Asleep == {w \in Worker : wpc[w] = "asleep"}

Signal == IF Asleep = {} THEN {wpc}
          ELSE {[wpc EXCEPT ![w] = "pop"] : w \in Asleep}

\* Fault: the mutex is taken without waiting for it.
LockTaken(p, who) == owner' = [owner EXCEPT ![p] = who]

\* pthread_mutex_lock and pthread_mutex_unlock on process->mutex.
Lock(p, who) == owner[p] = NULL /\ owner' = [owner EXCEPT ![p] = who]
Unlock(p) == owner' = [owner EXCEPT ![p] = NULL]

-----------------------------------------------------------------------------
(***************************************************************************)
(* Worker threads: ready_queue_pop.                                        *)
(***************************************************************************)

\* One iteration of the scan: the unlocked test of size[i], and, when it
\* finds something, the locked test that decides.  The levels are not looked
\* at in one step.
PopLevel(w) ==
    /\ wpc[w] = "pop"
    /\ wscan[w] \in Levels
    /\ IF queue[wscan[w]] = << >>
       THEN /\ wscan' = [wscan EXCEPT ![w] = @ + 1]
            /\ UNCHANGED << queue, wpc, wproc >>
       ELSE /\ wproc' = [wproc EXCEPT ![w] = Head(queue[wscan[w]])]
            /\ queue' = [queue EXCEPT ![wscan[w]] = Tail(@)]
            /\ wpc' = [wpc EXCEPT ![w] = "popped"]
            /\ wscan' = [wscan EXCEPT ![w] = 0]
    /\ UNCHANGED << readMax, counter, pcbVars, infoVars, wquantum,
                    monitorVars, osVars >>

\* The scan found every level empty: pthread_cond_wait, which tests nothing
\* again after it took useless_mutex.
PopWait(w) ==
    /\ wpc[w] = "pop"
    /\ wscan[w] = NumLevels
    /\ wpc' = [wpc EXCEPT ![w] = "asleep"]
    /\ wscan' = [wscan EXCEPT ![w] = 0]
    /\ UNCHANGED << queueVars, pcbVars, infoVars, wproc, wquantum,
                    monitorVars, osVars >>

\* POSIX allows pthread_cond_wait to return without a signal.
SpuriousWakeup(w) ==
    /\ wpc[w] = "asleep"
    /\ wpc' = [wpc EXCEPT ![w] = "pop"]
    /\ UNCHANGED << queueVars, pcbVars, infoVars, wproc, wscan, wquantum,
                    monitorVars, osVars >>

(***************************************************************************)
(* Worker threads: worker_run.                                             *)
(***************************************************************************)

\* After the pop: read_max_queue_mutex is given back, a pill ends the
\* thread, and get_quantum reads the level without process->mutex.
AfterPop(w) ==
    /\ wpc[w] = "popped"
    /\ readMax' = IF readMax = w THEN NULL ELSE readMax
    /\ IF wproc[w] = NULL
       THEN /\ wpc' = [wpc EXCEPT ![w] = "exit"]
            /\ UNCHANGED wquantum
       ELSE /\ wpc' = [wpc EXCEPT ![w] = "lock"]
            /\ wquantum' = [wquantum EXCEPT ![w] = level[wproc[w]]]
    /\ UNCHANGED << queue, counter, pcbVars, infoVars, wproc, wscan,
                    monitorVars, osVars >>

LockProcess(w) ==
    /\ wpc[w] = "lock"
    /\ Lock(wproc[w], w)
    /\ wpc' = [wpc EXCEPT ![w] = "run"]
    /\ UNCHANGED << queueVars, level, status, foundBurst, waitingBoost,
                    infoVars, wproc, wscan, wquantum, monitorVars, osVars >>

\* The slice os_run_process gets: a quantum of 1 at level 0, else a micro
\* quantum that may be anything from 1 up.
Slices(l, p) == IF l = MaxLevel THEN {1} ELSE 1 .. BurstTime[p]

\* Fault: one burst too many.
BeyondLastBurst(p) == cpuIndex[p] + 1 > BurstCount[p]

\* The burst that ends is the last one (os_run_user_mode).
OnLastBurst(p) == cpuIndex[p] + 1 >= BurstCount[p]

(***************************************************************************)
(* os_run_process: the burst runs for a slice, and its outcome becomes the *)
(* status.  At level 0 the mutex is then released; in the other levels the *)
(* preemption test comes first.                                            *)
(***************************************************************************)
RunSlice(w) ==
    /\ wpc[w] = "run"
    /\ LET p == wproc[w] IN
       \E slice \in Slices(wquantum[w], p) :
          LET preempted == slice < remaining[p]
              done == ~preempted /\ OnLastBurst(p)
          IN
          /\ remaining' = [remaining EXCEPT ![p] =
                              IF preempted THEN @ - slice ELSE BurstTime[p]]
          /\ cpuIndex' = IF preempted THEN cpuIndex
                         ELSE [cpuIndex EXCEPT ![p] = @ + 1]
          /\ doneCount' = IF done THEN doneCount + 1 ELSE doneCount
          /\ status' = [status EXCEPT ![p] =
                           IF preempted THEN "preempted"
                           ELSE IF done THEN "done" ELSE "blocked"]
          /\ IF level[p] = MaxLevel
             THEN /\ Unlock(p)
                  /\ wpc' = [wpc EXCEPT ![w] = "update"]
             ELSE /\ wpc' = [wpc EXCEPT ![w] = "check"]
                  /\ UNCHANGED owner
    /\ UNCHANGED << queueVars, level, foundBurst, waitingBoost, ioIndex,
                    isNew, isWaiting, wproc, wscan, wquantum, monitorVars,
                    osVars >>

(***************************************************************************)
(* Between two micro quanta.  A worker that gets read_max_queue_mutex and  *)
(* sees exactly one process at level 0 stops running its own and keeps the *)
(* mutex; if it sees more it stops and gives the mutex back; else it goes  *)
(* on unless the burst ended or the quantum is used up.                    *)
(***************************************************************************)
\* Fault: the loop is left without a way to the unlock.
StopRunningLocked(w) == /\ wpc' = [wpc EXCEPT ![w] = "update"]
                        /\ UNCHANGED owner

StopRunning(w) == /\ Unlock(wproc[w])
                  /\ wpc' = [wpc EXCEPT ![w] = "update"]

CheckPreempt(w) ==
    LET p == wproc[w]
        preempting == readMax = NULL /\ queue[MaxLevel] # << >>
    IN
    /\ wpc[w] = "check"
    /\ \/ /\ preempting
          /\ readMax' = IF Len(queue[MaxLevel]) = 1 THEN w ELSE readMax
          /\ StopRunning(w)
       \/ /\ ~preempting
          /\ StopRunning(w)
          /\ UNCHANGED readMax
       \/ /\ ~preempting
          /\ status[p] = "preempted"
          /\ wpc' = [wpc EXCEPT ![w] = "run"]
          /\ UNCHANGED << readMax, owner >>
    /\ UNCHANGED << queue, counter, level, status, foundBurst, waitingBoost,
                    infoVars, wproc, wscan, wquantum, monitorVars, osVars >>

(***************************************************************************)
(* update_priority_level: demotion by one level with the first monitor     *)
(* thread, or back to the top level.                                       *)
(***************************************************************************)
\* Fault: no lowest level.
DemotedFurther(l) == l + 1

Demoted(l) == IF l < MinLevel THEN l + 1 ELSE MinLevel

\* Fault: a process that blocks keeps its level.
LevelKeptByBlocked(p) ==
    IF status[p] = "preempted" THEN Demoted(level[p]) ELSE level[p]

LevelAfterRun(p) == IF status[p] = "preempted" THEN Demoted(level[p]) ELSE MaxLevel

\* Fault: a monitor for every demotion.
StartMonitorAlways(p) == sleeping[p] + 1

\* pthread_create, unless a monitor of the process is still to come.
StartMonitor(p) == IF waitingBoost[p] THEN sleeping[p] ELSE sleeping[p] + 1

UpdatePriority(w) ==
    LET p == wproc[w] IN
    /\ wpc[w] = "update"
    /\ owner[p] = NULL
    /\ level' = [level EXCEPT ![p] = LevelAfterRun(p)]
    /\ IF status[p] = "preempted"
       THEN /\ waitingBoost' = [waitingBoost EXCEPT ![p] = TRUE]
            /\ sleeping' = [sleeping EXCEPT ![p] = StartMonitor(p)]
       ELSE UNCHANGED << waitingBoost, sleeping >>
    /\ wpc' = [wpc EXCEPT ![w] = "requeue"]
    /\ UNCHANGED << queueVars, status, foundBurst, owner, infoVars, wproc,
                    wscan, wquantum, boosting, osVars >>

\* The switch of worker_run, under process->mutex: a preempted process is
\* pushed back, and the mutex released only after the signal.
PushPreempted(w) ==
    LET p == wproc[w] IN
    /\ wpc[w] = "requeue"
    /\ status[p] = "preempted"
    /\ Push(queue, p, level[p])
    /\ Lock(p, w)
    /\ wpc' = [wpc EXCEPT ![w] = "signal"]
    /\ UNCHANGED << readMax, counter, level, status, foundBurst, waitingBoost,
                    infoVars, wproc, wscan, wquantum, monitorVars, osVars >>

SignalPreempted(w) ==
    /\ wpc[w] = "signal"
    /\ \E pc \in Signal : wpc' = [pc EXCEPT ![w] = "pop"]
    /\ Unlock(wproc[w])
    /\ wproc' = [wproc EXCEPT ![w] = NULL]
    /\ UNCHANGED << queueVars, level, status, foundBurst, waitingBoost,
                    infoVars, wscan, wquantum, monitorVars, osVars >>

\* Fault: every I/O adds the burst again.
IncludedAgain(p) == counter + 1

\* quantum_counter after add_to_quantum_average, remove_from_quantum_average.
Included(p) == IF foundBurst[p] THEN counter ELSE counter + 1
Excluded(p) == IF foundBurst[p] THEN counter - 1 ELSE counter

\* A blocked process enters the quantum average, once.  The section of
\* quantum_mutex ends before found_burst is written.
AddToAverage(w) ==
    LET p == wproc[w] IN
    /\ wpc[w] = "requeue"
    /\ status[p] = "blocked"
    /\ Lock(p, w)
    /\ counter' = Included(p)
    /\ wpc' = [wpc EXCEPT ![w] = "average"]
    /\ UNCHANGED << queue, readMax, level, status, foundBurst, waitingBoost,
                    infoVars, wproc, wscan, wquantum, monitorVars, osVars >>

MarkFound(w) ==
    /\ wpc[w] = "average"
    /\ foundBurst' = [foundBurst EXCEPT ![wproc[w]] = TRUE]
    /\ wpc' = [wpc EXCEPT ![w] = "found"]
    /\ UNCHANGED << queueVars, level, status, waitingBoost, owner, infoVars,
                    wproc, wscan, wquantum, monitorVars, osVars >>

\* os_start_io: from here on os_loop may push the process, before the worker
\* is done with it.
StartIo(w) ==
    LET p == wproc[w] IN
    /\ wpc[w] = "found"
    /\ isWaiting' = [isWaiting EXCEPT ![p] = TRUE]
    /\ ioIndex' = [ioIndex EXCEPT ![p] = @ + 1]
    /\ wpc' = [wpc EXCEPT ![w] = "io"]
    /\ UNCHANGED << queueVars, pcbVars, cpuIndex, remaining, isNew, doneCount,
                    wproc, wscan, wquantum, monitorVars, osVars >>

\* io_length is set and the mutex released.
FinishIo(w) ==
    /\ wpc[w] = "io"
    /\ foundBurst' = [foundBurst EXCEPT ![wproc[w]] = TRUE]
    /\ Unlock(wproc[w])
    /\ wpc' = [wpc EXCEPT ![w] = "pop"]
    /\ wproc' = [wproc EXCEPT ![w] = NULL]
    /\ UNCHANGED << queueVars, level, status, waitingBoost, infoVars, wscan,
                    wquantum, monitorVars, osVars >>

\* A finished process leaves the quantum average: again the counter first,
\* then, after quantum_mutex, found_burst.
RemoveFromAverage(w) ==
    LET p == wproc[w] IN
    /\ wpc[w] = "requeue"
    /\ status[p] = "done"
    /\ Lock(p, w)
    /\ counter' = Excluded(p)
    /\ wpc' = [wpc EXCEPT ![w] = "leave"]
    /\ UNCHANGED << queue, readMax, level, status, foundBurst, waitingBoost,
                    infoVars, wproc, wscan, wquantum, monitorVars, osVars >>

Finish(w) ==
    /\ wpc[w] = "leave"
    /\ foundBurst' = [foundBurst EXCEPT ![wproc[w]] = FALSE]
    /\ Unlock(wproc[w])
    /\ wpc' = [wpc EXCEPT ![w] = "pop"]
    /\ wproc' = [wproc EXCEPT ![w] = NULL]
    /\ UNCHANGED << queueVars, level, status, waitingBoost, infoVars, wscan,
                    wquantum, monitorVars, osVars >>

WorkerStep(w) ==
    \/ PopLevel(w) \/ PopWait(w) \/ AfterPop(w) \/ LockProcess(w)
    \/ RunSlice(w) \/ CheckPreempt(w) \/ UpdatePriority(w)
    \/ PushPreempted(w) \/ SignalPreempted(w)
    \/ AddToAverage(w) \/ MarkFound(w) \/ StartIo(w) \/ FinishIo(w)
    \/ RemoveFromAverage(w) \/ Finish(w)

-----------------------------------------------------------------------------
(***************************************************************************)
(* priority_monitor_thread, one per boost, after its sleep.                *)
(***************************************************************************)
NewLevel(p) == IF status[p] = "blocked" THEN MaxLevel ELSE MaxLevel + 1

\* Fault: the monitor ends and waiting_boost stays set.
BoostForgotten(p) == UNCHANGED waitingBoost

\* The next demotion may start a monitor again.
BoostOver(p) == waitingBoost' = [waitingBoost EXCEPT ![p] = FALSE]

\* The monitor locks process->mutex; it writes the new level first.
MonitorWake(p) ==
    /\ sleeping[p] > 0
    /\ sleeping' = [sleeping EXCEPT ![p] = @ - 1]
    /\ IF status[p] # "done" /\ level[p] > NewLevel(p)
       THEN /\ Lock(p, Monitor)
            /\ level' = [level EXCEPT ![p] = NewLevel(p)]
            /\ boosting' = [boosting EXCEPT ![p] = TRUE]
            /\ UNCHANGED waitingBoost
       ELSE /\ owner[p] = NULL
            /\ BoostOver(p)
            /\ UNCHANGED << level, owner, boosting >>
    /\ UNCHANGED << queueVars, status, foundBurst, infoVars, workerVars, osVars >>

\* ready_queue_remove on the list of the level just written; the process is
\* pushed again only if it was there.
MonitorRequeue(p) ==
    LET l == level[p]
        without == RemoveLast(queue[l], p)
    IN
    /\ boosting[p]
    /\ IF without = {} THEN UNCHANGED << queue, wpc >>
       ELSE /\ \E rest \in without : \E k \in 1 .. Len(rest) + 1 :
                  queue' = [queue EXCEPT ![l] = InsertAt(rest, k, p)]
            /\ wpc' \in Signal
    /\ BoostOver(p)
    /\ Unlock(p)
    /\ boosting' = [boosting EXCEPT ![p] = FALSE]
    /\ UNCHANGED << readMax, counter, level, status, foundBurst, infoVars,
                    wproc, wscan, wquantum, sleeping, osVars >>

MonitorStep(p) == MonitorWake(p) \/ MonitorRequeue(p)

-----------------------------------------------------------------------------
(***************************************************************************)
(* The main thread: os_loop, then the end of os_start.                     *)
(***************************************************************************)

\* Fault: is_waiting is not cleared, and the next scan takes the process again.
OsMoveStillWaiting(p) ==
    /\ ospc = "loop"
    /\ isWaiting[p] \/ isNew[p]
    /\ isNew' = [isNew EXCEPT ![p] = FALSE]
    /\ osproc' = p
    /\ ospc' = "push"
    /\ UNCHANGED << queueVars, pcbVars, cpuIndex, ioIndex, remaining, isWaiting,
                    doneCount, workerVars, monitorVars, pills >>

\* The section of os_loop that takes a process whose time has come.  A new
\* process is then created with the field values of Init.
OsMove(p) ==
    /\ ospc = "loop"
    /\ isWaiting[p] \/ isNew[p]
    /\ isWaiting' = [isWaiting EXCEPT ![p] = FALSE]
    /\ isNew' = [isNew EXCEPT ![p] = FALSE]
    /\ osproc' = p
    /\ ospc' = "push"
    /\ UNCHANGED << queueVars, pcbVars, cpuIndex, ioIndex, remaining,
                    doneCount, workerVars, monitorVars, pills >>

\* The push reads priority_level without process->mutex.
OsPush ==
    /\ ospc = "push"
    /\ Push(queue, osproc, level[osproc])
    /\ osproc' = NULL
    /\ ospc' = "signal"
    /\ UNCHANGED << readMax, counter, pcbVars, infoVars, workerVars,
                    monitorVars, pills >>

OsSignal ==
    /\ ospc \in {"signal", "pillsignal"}
    /\ wpc' \in Signal
    /\ ospc' = IF ospc = "signal" THEN "loop" ELSE "pill"
    /\ UNCHANGED << queueVars, pcbVars, infoVars, wproc, wscan, wquantum,
                    monitorVars, osproc, pills >>

\* Fault: the loop ends one process early.
AllButOneDone == doneCount + 1 >= Cardinality(Process)

AllDone == doneCount >= Cardinality(Process)

OsDone ==
    /\ ospc = "loop"
    /\ AllDone
    /\ ospc' = "pill"
    /\ UNCHANGED << queueVars, pcbVars, infoVars, workerVars, monitorVars,
                    osproc, pills >>

OsPushPill ==
    /\ ospc = "pill"
    /\ pills < Cardinality(Worker)
    /\ Push(queue, NULL, PillLevel)
    /\ pills' = pills + 1
    /\ ospc' = "pillsignal"
    /\ UNCHANGED << readMax, counter, pcbVars, infoVars, workerVars,
                    monitorVars, osproc >>

\* worker_join on every worker, then the clean-up that frees the processes.
OsEnd ==
    /\ ospc = "pill"
    /\ pills = Cardinality(Worker)
    /\ \A w \in Worker : wpc[w] = "exit"
    /\ ospc' = "end"
    /\ UNCHANGED << queueVars, pcbVars, infoVars, workerVars, monitorVars,
                    osproc, pills >>

OsStep == (\E p \in Process : OsMove(p)) \/ OsPush \/ OsSignal \/ OsDone
          \/ OsPushPill \/ OsEnd

\* os_start has returned.
Terminated == ospc = "end" /\ UNCHANGED vars

-----------------------------------------------------------------------------
Next == \/ \E w \in Worker : WorkerStep(w) \/ SpuriousWakeup(w)
        \/ \E p \in Process : MonitorStep(p)
        \/ OsStep
        \/ Terminated

Spec == Init /\ [][Next]_vars

\* Every thread that can run keeps running, and sleeps and I/Os end.  Nobody
\* may count on a spurious wake-up.
Fairness == /\ \A w \in Worker : WF_vars(WorkerStep(w))
            /\ \A p \in Process : WF_vars(MonitorStep(p))
            /\ WF_vars(OsStep)

FairSpec == Spec /\ Fairness

-----------------------------------------------------------------------------
(***************************************************************************)
(* Properties.                                                             *)
(***************************************************************************)

\* Every variable keeps its type, and a thread that is about to use its
\* process has one.
TypeOK ==
    /\ queue \in [Levels -> Seq(Process \union {NULL})]
    /\ readMax \in Worker \union {NULL}
    /\ counter \in Int
    /\ level \in [Process -> Levels]
    /\ status \in [Process -> {"none", "preempted", "blocked", "done"}]
    /\ foundBurst \in [Process -> BOOLEAN]
    /\ waitingBoost \in [Process -> BOOLEAN]
    /\ owner \in [Process -> Worker \union {Monitor, NULL}]
    /\ cpuIndex \in [Process -> Nat]
    /\ ioIndex \in [Process -> Nat]
    /\ remaining \in [Process -> Nat]
    /\ isNew \in [Process -> BOOLEAN]
    /\ isWaiting \in [Process -> BOOLEAN]
    /\ doneCount \in Nat
    /\ wpc \in [Worker -> WorkerPc]
    /\ wproc \in [Worker -> Process \union {NULL}]
    /\ wscan \in [Worker -> 0 .. NumLevels]
    /\ wquantum \in [Worker -> Levels]
    /\ sleeping \in [Process -> Nat]
    /\ boosting \in [Process -> BOOLEAN]
    /\ ospc \in OsPc
    /\ osproc \in Process \union {NULL}
    /\ pills \in Nat
    /\ \A w \in Worker : wpc[w] \in UsesProcess => wproc[w] # NULL
    /\ ospc = "push" => osproc # NULL

\* A worker has a process in hand from the pop that returned it to the step
\* that hands it on: back to the queue, to the I/O, or out of the system.
InHand == {"popped", "lock", "run", "check", "update", "requeue", "average",
           "found", "leave"}
Holds(w, p) == wproc[w] = p /\ wpc[w] \in InHand

Nodes == UNION {{l} \X (1 .. Len(queue[l])) : l \in Levels}
Slots(p) == {s \in Nodes : queue[s[1]][s[2]] = p}

\* No process is lost or duplicated: each is at any time in exactly one of
\* the I/O (or not yet arrived), the hand of os_loop, one node of one level,
\* the hand of one worker, or finished (worker_run, os_loop, push and pop).
ExactlyOnePlace ==
    \A p \in Process :
        LET finished == status[p] = "done" /\ ~\E w \in Worker : Holds(w, p)
        IN Cardinality(Slots(p))
           + Cardinality({w \in Worker : Holds(w, p)})
           + (IF isWaiting[p] THEN 1 ELSE 0)
           + (IF osproc = p THEN 1 ELSE 0)
           + (IF finished THEN 1 ELSE 0) = 1

\* waiting_boost tells whether a monitor thread of the process is alive, and
\* there is never a second one: update_priority_level tests the flag and
\* priority_monitor_thread clears it, both under process->mutex.
OneMonitorPerBoost ==
    \A p \in Process :
        sleeping[p] + (IF boosting[p] THEN 1 ELSE 0)
            = (IF waitingBoost[p] THEN 1 ELSE 0)

\* A process queued at a level has this level or, after a boost, a higher one
\* (a smaller number); at level 0 they always agree, because os_loop, which
\* reads the level without the mutex, only moves processes of level 0.
QueuedAtOrBelowLevel ==
    /\ \A p \in Process : \A s \in Slots(p) :
          level[p] <= s[1] /\ (level[p] = MaxLevel => s[1] = MaxLevel)
    /\ osproc # NULL => level[osproc] = MaxLevel

\* The ordered push reads the burst length of every node it walks over, so a
\* pill (no process) may never be in the list: pills are pushed only when no
\* process is queued and none will be again.
PillsOnlyAfterWork ==
    pills > 0 => \A p \in Process :
                    /\ Slots(p) = {}
                    /\ status[p] = "done"
                    /\ ~isWaiting[p]

\* The burst of a process is in the average when found_burst says so, except
\* while a worker is between the section that changes the counter and the
\* write of the flag: there it is as the worker will leave the flag.
Averaged(p) ==
    \/ \E w \in Worker : wproc[w] = p /\ wpc[w] = "average"
    \/ /\ foundBurst[p]
       /\ ~\E w \in Worker : wproc[w] = p /\ wpc[w] = "leave"

\* quantum_counter is the number of processes whose burst is in the average,
\* so that it is never negative, and 1 only when the last one leaves.  The
\* counter changes under quantum_mutex and found_burst after it: only the
\* mutex of the process, held over both, keeps them together
\* (add_to_quantum_average, remove_from_quantum_average, worker_run).
CounterCountsFoundBursts ==
    counter = Cardinality({p \in Process : Averaged(p)})

\* The assertions of os.c: a process that runs has a burst left (line 91), a
\* process that starts an I/O has just ended the burst before it (line 156),
\* a new process is at its first burst (line 250).
OsAssertions ==
    /\ \A w \in Worker :
          /\ wpc[w] = "run" => cpuIndex[wproc[w]] < BurstCount[wproc[w]]
          /\ wpc[w] = "found" => ioIndex[wproc[w]] + 1 = cpuIndex[wproc[w]]
    /\ \A p \in Process : isNew[p] => cpuIndex[p] = 0

\* Where a worker owns the mutex of its process.
Owning == {"run", "check", "signal", "average", "found", "io", "leave"}

\* What runs a process, or hands it on, owns its mutex, and its owner is one of
\* the two kinds of threads that lock it: no worker runs a process of another worker and no
\* monitor changes a running process.
RunnerOwnsProcess ==
    \A p \in Process :
        /\ \A w \in Worker : wproc[w] = p /\ wpc[w] \in Owning <=> owner[p] = w
        /\ boosting[p] <=> owner[p] = Monitor

\* os_loop ends, and the report is printed, exactly when every process has
\* run all its bursts and started all the I/Os between them.
DoneCountIsExact ==
    /\ doneCount = Cardinality({p \in Process : cpuIndex[p] = BurstCount[p]})
    /\ ospc \in {"pill", "pillsignal", "end"} =>
          \A p \in Process : ioIndex[p] + 1 = BurstCount[p]

\* A worker that takes a process gives it back.
WorkerGivesBack ==
    \A w \in Worker : (wpc[w] = "popped") ~> (wpc[w] \in {"pop", "exit"})

\* Every boost ends: the monitor gets the mutex of a process that workers
\* take again and again.
BoostEnds ==
    \A p \in Process : waitingBoost[p] ~> ~waitingBoost[p]

-----------------------------------------------------------------------------
(***************************************************************************)
(* The life of the processes, as ProcessLife specifies it.                 *)
(***************************************************************************)
IsDone(p) == cpuIndex[p] = BurstCount[p]

LifeState(p) ==
    IF isNew[p] THEN "new"
    ELSE IF IsDone(p) THEN "done"
    ELSE IF isWaiting[p] THEN "io"
    ELSE IF \E w \in Worker : Holds(w, p) THEN "running"
    ELSE "ready"

Life == INSTANCE ProcessLife WITH
            Cores <- Cardinality(Worker),
            state <- [p \in Process |-> LifeState(p)],
            ended <- [p \in Process |-> IF IsDone(p) THEN BurstCount[p] ELSE ioIndex[p]]

\* The scheduler implements the life of its processes: whatever the threads
\* do, a process only arrives, is dispatched, preempted, blocked, made ready
\* and finished in the order os.h documents.
ImplementsProcessLife == Life!Spec

-----------------------------------------------------------------------------
(***************************************************************************)
(* What the documentation says and the code does not do.                   *)
(***************************************************************************)

\* worker.c, above the removal: a boosted process that is queued is pushed
\* back "to give it the right queue".
BoostedIsRequeued ==
    [][\A p \in Process : boosting[p] /\ ~boosting'[p] =>
          \A l \in Levels : (\E i \in 1 .. Len(queue'[l]) : queue'[l][i] = p)
                                => l = level'[p]]_vars

\* README: every process is executed.
EveryProcessIsExecuted == <>(doneCount = Cardinality(Process))
=============================================================================
