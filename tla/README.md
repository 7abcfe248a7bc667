# Verification of the ift2245 course programs

The repository holds the five programs of an operating systems course. They
are independent C programs: each has its own directory, build and tests.

| directory | program | threads | modelled by |
|-----------|---------|---------|-------------|
| `src/tp0` | Turing machine that runs a description read from a file | one | `Description`, `TuringSpec`, `TuringMachine`, `TuringProofs` |
| `src/tp1` | shell with `;`, `&&`, `\|\|` and `\|` | one, plus a child process per command | `Tokenizer`, `Parser`, `Shell`, `ShellProofs` |
| `src/tp2` | multilevel feedback scheduler on a simulated system | one per core, one per boost, and the main thread | `ReadyQueue`, `Scheduler`, `ProcessLife`, `ListSpec`, `LinkedQueue`, `QuantumAverage`; `SchedulerProofs`, `LinkedQueueProofs`, `QuantumProofs` |
| `src/tp3` | virtual memory manager: TLB, page table, frames, backing store | one | `Tlb`, `PageTable`, `PhysicalMemory`, `Vmm`, `VmmProofs` |
| `src/tp4` | reader of a FAT32 image | one | `PathSpec`, `FileTree`, `FatPath`, `FatImage`, `FatReader`, `FatProofs` |

`DataProofs` has the lemmas on lists and loops that the proofs of several
programs use.

## 1. Inventory

### tp2: scheduler

The only multi-threaded program, and the first one modelled.

* **Ready queue** (`ready_queue.c`). State: for each of four levels a doubly
  linked list with `head`, `tail` and `size` under `queue_mutex[i]`; one
  condition variable with `useless_mutex`; `read_max_queue_mutex`; the running
  average `quantum`, `quantum_counter` under `quantum_mutex`. Operations: push
  (tail at level 0 and for pills, ordered by `burst_length + io_length`
  elsewhere), pop (first non-empty level, or wait), remove, add to and remove
  from the average. Correct when no process is lost or duplicated, the links
  agree, the order is kept, and a waiting worker is woken when there is work.
* **Workers** (`worker.c`, `worker_run`). One thread per core: pop, compute the
  quantum, lock `process->mutex`, run micro quanta with a preemption test in
  between, change the level, lock again, push back / start the I/O / finish.
  Correct when a process is run by one worker at a time, each exit of the inner
  loop releases the mutex, and every process that is taken is handed on.
* **Priority monitors** (`worker.c`, `priority_monitor_thread`). A detached
  thread per first demotion sleeps, then raises the level of the process under
  `process->mutex`. Correct when there is one per boost, it always ends, and
  the process ends up in the list of its new level.
* **Simulated system** (`os.c`). The main thread (`os_loop`) moves new and
  unblocked processes to the ready queue until `process_done_count` is reached,
  then pushes one poison pill per worker, joins the workers and frees all.
  `os_run_process` and `os_start_io` are called by the workers. Correct when
  its assertions hold and when the pills come after the last process.

Hard behaviours: unlocked tests of sizes, the window between a scan and the
wait, the two windows in `worker_run` where a process is not locked, a process
that is published by `os_start_io` while its worker still holds it, monitors
that compete with workers, unsigned arithmetic of the average.

### tp3: virtual memory manager

`vmm_read` and `vmm_write` translate through the TLB (`tlb.c`: entries with an
age counter), the page table (`pt.c`: valid, readonly, frame, age counter) and
on a fault load a page into a free frame or into that of the least recently
used page (`pm.c`), saving it when it is dirty. State: TLB, page table, bitmap
of frames, memory, backing store. The three caches are changed by the same
call and must stay consistent: distinct pages in the TLB, a TLB entry only for a
valid page and with its frame, a frame in use only for valid pages, ages that
agree with the accesses, a page that was written saved before it is unloaded.
Hard behaviours: eviction when the victim is not in the TLB, entries that are
invalid but keep a frame, two caches that age the same page separately, the
distance between a write and the eviction that saves it.

### tp1: shell

`tok_next_line` takes a line of tokens from the input, `cmd_parse` makes a list
of commands of it, each with the operator behind it, `sh_run` calls
`execute_command` for each. State: the input still to be read (the tokenizer
reads characters ahead and puts them back); for a line `previous_op`,
`previous_result`, `is_skipping`, `previous_pipe_output`; the open descriptors of
the shell. It interacts with its children through `pipe`, `fork`, `waitpid`.
Correct when a line has the tokens of its text, the commands run are those the
operators ask for, a pipe joins neighbours, and a line ends.
Hard behaviours: operators of one and two characters, literals with escapes that
are cut off, skipping of whole pipelines, failures of `pipe` and `fork`, a full
pipe, a write end left open, lines that end in the middle.

### tp0: Turing machine

`execute` reads a description (`no_of_lines`, `readline`, then `parse_line` for
each transition) and puts the word in the middle of an array; `step` is the
machine; `resize_tape` doubles the array. Correct when the machine that runs is
the one the file describes, any other file is refused, the array behaves as an
infinite tape and the head stays on it. Hard behaviours: fields of changing
length with one test of the end of the line, a last line without its newline,
resizes at both ends.

### tp4: FAT32 reader

Boot block, addresses of clusters, cluster chains, path simplification
(`break_up_path`), directory search (`find_file_descriptor`) and reading
(`read_file`) over an archive that is only read. Sequential; the archive is data
from outside, with pointers that may lead anywhere. Correct when a path names
what it should, a search finds what the tree of directories has there (of
directories with contiguous clusters), a read returns the start of the file, and every call returns.
Hard behaviours: `..` above the root and before names, clusters out of order,
reserved bits of links, chains in a circle, archives cut off, directories without
an end, requests of zero length and across a cluster.

## 2. Modules and how they correspond to the code

Constants carry named assumptions in the module that declares them. Operators
commented as a *fault* are wrong versions of the definition that follows them:
each is used to see that a property notices the error, and none is part of a
specification.

### `Scheduler`

A step is what a thread does between two points where another thread can
observe it. Sections of `queue_mutex[i]`, `quantum_mutex` and the mutex of
`os.c` contain one visible access each and are one step; what comes behind such a
section, as the write of `found_burst`, is another. `process->mutex` is
held over several steps and is the variable `owner`.

| action | code |
|--------|------|
| `PopLevel`, `PopWait`, `SpuriousWakeup` | `ready_queue_pop`: one level per step, then the wait |
| `AfterPop` | release of `read_max_queue_mutex`, pill test, `get_quantum` (which reads the level unlocked) |
| `LockProcess`, `RunSlice`, `CheckPreempt` | the micro quantum loop with `os_run_process` |
| `UpdatePriority` | `update_priority_level`, the start of a monitor included |
| `PushPreempted`, `SignalPreempted`; `AddToAverage`, `MarkFound`, `StartIo`, `FinishIo`; `RemoveFromAverage`, `Finish` | the three cases of the switch |
| `MonitorWake`, `MonitorRequeue` | `priority_monitor_thread` after its sleep |
| `OsMove`, `OsPush`, `OsSignal`, `OsDone`, `OsPushPill`, `OsEnd` | `os_loop`, then the end of `os_start` |

Reductions, each because no thread can tell the difference:

* The unlocked test of `size[i]` and the locked test that repeats it are one
  step: if the first succeeds and the second fails the scan goes on to the next
  level exactly as if the first had failed later.
* `worker.c:74` and `:79` load `size[0]` twice; the model reads it once. Two
  values that differ give an outcome that one of the branches already has.
* `read_max_queue_mutex` taken by `trylock` and given back in the same test is
  not seen as held.
* `os_run_user_mode` has two sections and `worker_run` assigns `status` after
  them; they are one `RunSlice`, because the process is locked by the worker
  and only `done` processes are counted elsewhere.
* The sleep of a monitor, an I/O and an arrival may end at any time, so the
  clock is not modelled; a burst is `BurstTime` units and a slice above level 0
  consumes any number of them.
* In levels 1 to 3 the place of a push depends on measured times and is any
  place; `LinkedQueue` has the exact place.
* `create_process` sets the values of `Init`. `os_loop` visits the processes in
  index order; the model takes any of those whose time has come.

Not reachable and therefore absent: the branch of the push for a process that
`already_executed` as level-0 FIFO is the same as `PushTail`; `found_io` is
never set; `ready_queue_remove_par` is called by nobody. The branch of
`MonitorRequeue` that finds the process is kept, although it takes a list that
already is the one of the new level.

### `ProcessLife`

What a process experiences: new, ready, running, blocked, done, with the bursts
counted and no more processes running than there are cores. `Scheduler` has the
refinement mapping (`LifeState`): a process is *running* from the pop that
returned it to the step that hands it on.

### `ReadyQueue`, `ListSpec`, `LinkedQueue`

`ReadyQueue` has the operations of a level on sequences, used by `Scheduler`
and by `ListSpec`, which is a level as a list. `LinkedQueue` is a level as the
code stores it (nodes, `head`, `tail`, `next`, `prev`, `size`) and implements
`ListSpec` by following `prev` from `head`: the walk is the longest path of links
that starts there (`NodesFromHead`). `fifo` chooses between level 0 and an
ordered level.

### `QuantumAverage`

The average with unsigned arithmetic modulo `Modulus` and truncating division,
`get_quantum` with the conversion through an `int`, and the micro quantum. A
change of the average and the write of `found_burst` are one step here; the window
between them is in `Scheduler`.

### `Tlb`, `PageTable`, `PhysicalMemory`, `Vmm`

One module of operators per file; `Vmm` owns the state. `Read` and `Write` are
one command each with the whole of `get_frame` and `pt_update_counters`. The
cases of `get_frame` are `OnTlbHit`, `OnPtHit`, `OnFreeFrame`, `OnVictim`. The
memory keeps characters because the page copies do; the characters printed, the
counts and the log are left out. Counters are natural numbers: 2^32 accesses
are out of the model. Two variables are histories the code does not have: `used`
is the command that used a page last, against which the counters of both caches
are compared, and `modified` the pages whose next eviction must save them.

### `Tokenizer`

`TokNext` and `TokNextLine` are `tok_next` and `tok_next_line` as functions from
the text still to be read to a token, or a line, and the text behind it. A
character that is read ahead and put back is one that is not taken. The alphabet
has a member for each class of characters the code tells apart; `"e"` stands for
the letters of `exit`, `"NUL"` for the byte 0. The reference is `LineOf`: each
character gets a *mode* from the one before it (blank, in a symbol, in a literal,
escaping...), and a token is complete where the modes say so. It reads nothing
ahead and puts nothing back; `ReadsTheText` compares the two at every line.

### `Parser`, `Shell`

`Shell` has the input as the variable `input` and takes a line from it with
`TokNextLine`. The parser sees tokens as their categories; `"exit"` is any word
that reads exit. `Reject`, `SkipToken`, `TakeCommand`, `NoOperator` are the turns
of the loop of `cmd_parse`. `SkipCommand`, `ExitCommand`, `PipeFails`,
`ForkFails`, `Fork` and `Wait` are the ways through `execute_command`. A child is
any program: it may read its pipe to the end or not at all, write up to
`MaxOutput` units, and succeed or fail (a program that is not found fails at
once). `open` counts the descriptors of the shell. Lines without a newline are
those at the end of the input and those cut by a bad string literal. Input that
ends makes `main` ask for lines for ever; the model then stays in `read`.

### `Description`, `TuringSpec`, `TuringMachine`

`TuringSpec` is a machine whose tape has a cell for every integer, run on what a
file describes; a file that describes no machine is refused. `Description` has
the functions that read the file, on texts of characters. `TuringMachine` is
`execute`: `Open` reads the names of the states and makes the tape, a
`LoadTransition` is one turn of `get_transitions`, `Start` calls `step`, and
`Step`, `NoTransition` and `Halt` are the machine on the array. `origin`, the
place of cell 0 on the array, and `machine`, what the file was printed from, are
the variables the code does not have; the refinement mapping uses them, so that
`ImplementsTuringSpec` says both that the file is read as it was meant and that
the array behaves as the infinite tape. `MinTape` is 256 in the code, and a
`malloc` of more than `MaxTape` cells fails.

### `PathSpec`, `FileTree`, `FatPath`, `FatImage`, `FatReader`

`PathSpec` says what a path means without a loop over it: the parts between
slashes, whether a prefix leads above the root, and the names no later `..`
takes away. `FileTree` is the promise of tp4: a tree of names, a request, a
search and a read. `FatPath` is `get_simplified_path` and `break_up_path`: a
`Turn` is one turn of the loop over the characters, one slash at a time.
`FatImage` is the archive and the functions that compute with it (`cluster_to_lba`,
`get_cluster_chain_value`, `file_has_name`). `FatReader` is the sequence of calls
of the tests, a step per turn of a loop: `ReadBootBlock`; `StartFind`,
`FindFails`, `NullName`, `Found`, `Descend`, `NotADirectory`, `Differs` for
`find_file_descriptor`; `StartRead`, `ReturnFull`, `ReadFails`, `ReadCluster` for
`read_file`. It implements `FileTree` on archives that are not damaged and whose
directories have contiguous clusters, for the paths that do not go through a file
and back (`LeavesNoDirectory`). `FileTree` itself refuses such a path
(`UsesDirectories`), as `src/tp4/README.md` asks; an archive has a tree only in the
requests for which the reader promises its answer.

An archive is an array of *units*, each as much as the reader takes at one
address: a link, an entry or a piece of a text. So an entry and a link have the
size of one address, and sizes in bytes become `FatEntrySize = DirEntrySize = 1`;
addresses keep their width (`% Word`), which matters for the clusters 0 and 1.
The reader takes what it finds for what it looks for, so that every unit has the
fields of a link and of an entry, whatever it was written as (`IsUnit`); the
reserved bits are taken from a link but not from the first cluster of an entry.
`find_file_descriptor` counts the levels of a path in an int that
`break_up_path` takes in eight bits (`Level`, `LevelRange`).

## 3. Runs

Bounds are constants of the cfg; no run uses a state constraint.

| run | instance | shows |
|-----|----------|-------|
| `scheduler` | 2 workers, processes of 3 bursts of 5 slices and 2 bursts of 2; 1.6 million states | nine invariants over every interleaving |
| `scheduler_live` | 2 workers, a process of 1 burst of 3 slices and one of 2 bursts of 2; 194 000 states | the refinement of `ProcessLife`, `WorkerGivesBack`, `BoostEnds` |
| `scheduler_lost_wakeup` | 1 worker, 1 process | finding: lost wake-up |
| `scheduler_boost` | 1 worker, 1 process of 3 slices | finding: boosted process stays in its old list |
| `linked_queue` | 3 processes (two with equal keys), 4 nodes | links, order, refinement of `ListSpec` |
| `quantum_average` | 3 processes, bursts up to 4, modulus 256 | counter and initial value, positive quanta, truncation only loses |
| `vmm` | 5 pages of 2 characters, 3 frames, 2 TLB entries, 6 accesses, 2 characters (symmetric); 1.1 million states | consistency of TLB, page table and frames; ages; what an eviction saves |
| `vmm_shared` | as `vmm`, pages of 5 characters, 1 character | finding: two valid pages share a frame |
| `turing` | files of machines with two states of one and five characters, up to two transitions, words up to 3 symbols, symbols that are also punctuation, five kinds of files that hold no machine; tapes of 4, 6, 8, 12 and 16; 134 000 states | what is read is the machine of the file, and the array implements the infinite tape |
| `shell` | all texts of up to 4 characters, all literals of up to 2, all lines of up to 3 tokens, any two tokens between two words, all joins of four commands; 7 descriptors, pipes of 1 unit, outputs of up to 2; 55 000 states | reading, parsing, skipping, pipes, termination |
| `fat` | 6 arrangements of a volume of 7 clusters, each with a short and a long name of a file, 8 known paths, lengths 0 to 5; all paths of up to 6 characters of `a`, `B`, `.`, `/` on one volume; 8 kinds of archives without a tree, 12 paths each, among them a directory in itself and one that is not contiguous; 4 levels; 38 000 states | paths, the refinement of `FileTree`, every call returns |
| `fat_geometry` | the same volumes with 2 sectors per cluster; the whole of the file of two clusters | finding: links are looked for behind their place |

Why the bounds suffice. Five slices take a process through all four levels and
to one more demotion at the lowest; in `scheduler_live`, three slices are the
least for a micro-quantum loop that goes on and for level 2; three bursts give a
second I/O, when the burst is already in the average; two workers and two
processes are the least for a worker that preempts for another's process and for
a stolen one. Symmetry of the workers is used in `scheduler` only, which checks
no temporal property. A list of four nodes has two inner ones. Three frames with
five pages and two TLB entries give evictions whose page is in the TLB, only in
the page table, and no longer loaded. With pages of two characters the writes,
which go to the cell of the page number, fall into every frame (in the program,
with 256 pages of 256, only into the first). `Modulus` is larger than every
value that does not wrap. Tapes of 4 to 16 cells give two resizes from a word in
the middle. A fourth command is needed to skip a pipeline and resume behind it.
Four characters hold two operators of two characters, an operator between
symbols, and a literal with an escape; six characters of a path hold two names
with `..` and a third part, or `..` above the root behind a name. The volume has
two directories of two clusters and a file of two clusters that are apart and in
either order; lengths from 0 to one more than the file end a read in each
cluster, at its end and behind it. The paths of the runs have at most three
names, fewer than the four levels (`LevelRange`).

Deadlock is checked in every run: the end of each program is an action
(`Terminated`, `Stopped`), so any other stop would be reported. `Stopped`
includes the shell that waits for a writer on a full pipe, which is why
`LineEnds` names that state (`PipeFull`). `TuringMachine` without
fairness may loop: a machine need not halt.

### Fairness

`FairSpec` of `Scheduler` has weak fairness for each worker, for the monitors
of each process and for the main thread: threads are scheduled by the operating
system and sleeps and I/Os end. A spurious wake-up is possible but never
assumed. No strong fairness of a mutex is assumed, and none is needed:
`BoostEnds` holds because a process that workers keep taking finishes in the
end. `Shell` has weak fairness for the shell and for its child, but none for
the user. `FatReader` has weak fairness of its steps as a whole: it is a
sequential program, and a read of the archive returns.

### What the passing runs say

* `ExactlyOnePlace`: a process is in one list, one hand, or one I/O at any
  time, although sizes are tested without locks.
* `QueuedAtOrBelowLevel`: the only disagreement between a list and a level is
  that of a boost (see below); it never concerns level 0.
* `PillsOnlyAfterWork`: the ordered push never meets a pill, which has no
  burst length to read.
* `CounterCountsFoundBursts`: the counter and the flags disagree only in the two
  windows behind the sections of `quantum_mutex`, and then by exactly the workers
  that are in them, whatever the other workers do to the average meanwhile.
* `OsAssertions`, `RunnerOwnsProcess`, `OneMonitorPerBoost`, `DoneCountIsExact`:
  relations between fields that are changed under different mutexes.
* `TlbWithinPt`, `UsedFramesAreMapped`: what survives of the consistency of the
  caches even though `FramesNotShared` does not hold.
* `CountersAreAges`: the counters of the TLB and of the page table, which are
  reset and increased in different places, both are the number of commands since
  the page was used. So a victim is unique, and it is the least recently used.
* `SavesModifiedPages`: a page written through the TLB, or when it was loaded,
  is saved when it is unloaded, although the entry of the TLB that saw the write
  may be long gone. It does not cover the two ways a write is lost (see below): a
  write that hits only the page table, and a frame taken from a page that stays
  valid.
* `ReadsTheText`: reading ahead and putting back neither loses nor doubles a
  character, for texts that end anywhere, and a line stops where the modes say.
* `RunsWhatOperatorsAsk`: pipelines are run or skipped as units according to
  the last command executed, for all results of the commands before.
* `LineEnds`: the only way for a line not to end is a full pipe. A shell that
  stops because `pipe` or `fork` failed counts as an end.
* `ImplementsTuringSpec`: what is read from a file is the machine printed there,
  with or without a last newline; the five kinds of broken files are refused.
* `SplitsThePath`: the loop over a path and the definition by depths agree at
  every level, and a path is refused exactly when a prefix leaves the root.
* `ImplementsFileTree`: a search finds what the tree has, and a read returns its
  start, wherever the blocks lie and whatever clusters a file has; the clusters of
  a directory are contiguous.
* `CallsReturn`: the length bounds a read through a circular chain, the end of
  the archive a search through a directory without an end, and the path one
  through a directory that is in itself, as long as its level does not wrap.
* `CrashesOnRootOnly`: only a path that names the root reaches `file_has_name`
  with a null name.

### Known deviations

Reported as findings, each with a run:

* lost wake-up (`ready_queue.c:170`); a boosted process stays in its old list
  (`worker.c:188`); two pages share a frame (`pt.c:72`); links are looked for in
  the wrong place when a cluster has several sectors (tp4 `main.c:55`).

Seen in the models, without a run of their own:

* `worker.c:74`: the worker that reserved the top level may find it empty and
  sleep with `read_max_queue_mutex`; nobody preempts for level 0 meanwhile.
* `worker.c:47`: the quantum is computed before the process is locked, so that
  a boost in between gives a process of level 0 the quantum of its old level.
* `worker.c:226`: a detached monitor may outlive `os_start`, which frees the
  processes.
* `ready_queue.c:61`: the truncated average may be less than the mean, and the
  subtraction of a burst that is greater than the rest wraps.
* `ready_queue.h:90`: the return values of `ready_queue_remove` are documented
  the other way round.
* `vmm.c:130`: a write to a page that is in the page table and not in the TLB
  does not make it dirty, and is lost at the next eviction. `vmm.c:108`: when the
  fallback finds another page than the owner of the frame, the owner stays valid,
  is not saved, and its writes are lost when the frame is loaded.
* `vmm.c:54` and `:72`: the access uses the page number, not the physical
  address computed just before.
* `parser.c:142`: a line without a newline whose last token is a word reads
  the category of a null token; `find_op` returns 1 for an unknown category,
  which is `OP_SEPARATOR`, so that `a & b` is run as `a ; b`; `a && ; b` is run
  as `a && b`.
* `shell.c:79`: a command that writes more than a pipe holds is waited for
  before its reader is started. `shell.c:83`: the read end of every pipe stays
  open. `shell.c:53`: after a failed `fork` the next command of the pipeline
  reads an older pipe.
* `tokenizer.c:84`: the escapes `\\`, `\'` and `\"` are refused, because the
  test compares the character with what it stands for. A bad literal, and a byte
  0 outside a literal, cut the line, and what is behind them is the next line.
  The header says NULL is the end of the input. At the end of the input
  `shell.c:131` loops for ever.
* tp0: `readline` writes one byte behind its buffer for a name of six
  characters (`main.c:118`); `parse_line` accepts any punctuation between the
  fields and a line without its last `)`; the error paths free names that were
  not read, and leave the file open.
* tp4: `file_has_name` puts the base of the name over that of the entry and
  keeps the rest, so that `A.TXT` finds `ABCDE.TXT`, and removes spaces, so that
  `FOO.TXT` finds the entry `FOOTXT`. The clusters of a directory are read one
  behind the other on the disk, not along their chain (`main.c:337`), so that a
  directory whose clusters are apart, which FAT32 allows, is not searched whole
  (the archive `scattered` of the run). `DIR_FileSize` is ignored,
  and an empty file (cluster 0) is read from before the data. An error of
  `get_cluster_chain_value` is ignored, and the same cluster is read again.
  The level of a name wraps at 256 (`main.c:227`): behind the 256th name of a
  path the search goes on with the first, and need not end where directories run
  in a circle. `CallsReturn` and the bound of `depth` have the premise that the path
  has fewer names than levels. `..` and `.` are taken away before a name is looked
  up, so that `a/../B` is found although `a` is a file, or nothing:
  `src/tp4/README.md:171` says « un chemin qui utilise un fichier comme un dossier
  ne devrait pas fonctionner ».
  `src/tp4/README.md` keeps `.` and `..` among the pieces of a path; the code and
  its test take them away.
* `tp0/README.md:108` describes a tape that is infinite to the right; the code
  extends it to both sides.

## 4. Proofs

TLAPS checks the theorems for every value of the constants that satisfies the
named assumptions of the modules; nothing else is assumed, and TLC evaluates
each assumption in the runs that extend its module. The assumptions say that the
sets of processes and workers are finite, that a null value is not a process or
a node, that counts and sizes are positive, and how widths and limits compare
(`Modulus > 2 * IntLimit`, as an unsigned int holds every int). For tp4 they say
that an archive is made of units with their fields and that its sector size is not
0, because the reader divides by it; links, clusters and sizes are any words.

Every safety invariant of the passing runs is a theorem, but for the two named
at the end of this chapter. Each inductive invariant was an
invariant of the run of its module before it was proved.

### `DataProofs`

An insertion, a removal or an append keeps what a list holds (`InsertAtElements`,
`RemoveAtElements`, `AppendElements`), with which `SchedulerProofs` and
`LinkedQueueProofs` follow the levels of the ready queue. A recursive function
whose calls are in tail position is a loop, and an induction theorem is not needed
to reason about it: if a set of states is not left by a turn, and a measure in the
naturals falls with each, then the function exists (`LoopExists`) and its result is
that of a state of the set where it stops (`LoopResult`). The proofs take a state
of least measure among the counterexamples. `ShellProofs` and `FatProofs` use
them.

### tp2: `SchedulerProofs`

* `TypeCorrect`: `TypeOK`. It is inductive as it stands, because it also says
  that a thread at a point where it uses its process has one.
* `OneMonitor`: `OneMonitorPerBoost`. Inductive with `TypeOK`.
* `MutualExclusion`: `RunnerOwnsProcess`. Inductive with `TypeOK`: a worker's
  place changes in the step that changes the owner. The three lemmas
  `OwnerFrame`, `OwnerLock`, `OwnerUnlock` cover the three shapes of a step.
* `CounterIsExact`: `CounterCountsFoundBursts`. A process is counted (`Averaged`)
  when its flag says so, except in the windows between the section of
  `quantum_mutex` and the write of the flag. Not inductive alone: an early return
  leaves the counter as it is, `FinishIo` writes `found_burst` again, and both are
  harmless only because of what the flag is there. The strengthening `CounterInv`
  adds `FlagIsSet`: the flag of a process whose worker is at `found` or `io` is set.
  The mutex of the process (`MutualExclusion`) keeps every other worker out of
  the window of a process (`AloneInWindow`).

The second part of the module has one inductive invariant, `LifeInv`. It carries five
invariants and the refinement.
None of them is inductive alone, because each step that hands a process on
relies on where the process was, at which level, and how far it is:

* `PlaceInv`: a process is in one node of one level, or in the hand of one
  worker, or waiting, or in the hand of `os_loop`, or done.
* `LevelInv`: outside of a worker a process that has not been preempted is at
  level 0, so that no monitor moves it; a queued process is never below its list.
* `BurstInv`: the I/O index is that of the CPU, or one behind between the end of a
  burst and the start of its I/O; a new process has not run.
* `OsInv`: `process_done_count` is the number of processes that ran all their
  bursts, and there are pills only when these are all.

From it follow `NoProcessIsLost` (`ExactlyOnePlace`), `QueuedNotBelowItsLevel`,
`NoPillAmongProcesses`, `AssertionsHold` and `CountOfTheDone`. The proofs of the
steps share two lemmas: a step changes nothing of a process it does not concern
(`SameKeeps`, `OthersKeep`), and what a push, a pop and a removal do to the nodes of a process,
from the lemmas on lists of `DataProofs`.

`Refinement`: `ImplementsProcessLife`. Each action maps to the step of one
process or to a stutter. That no more processes run than there are workers
comes from `PlaceInv`: two workers never hold one process, so that the running
processes are at most as many as the workers.

### tp2: `LinkedQueueProofs`, `QuantumProofs`

`IsChain(s, ...)` says that `s` is the walk from `head` to `tail`: its nodes are
distinct and exactly the allocated ones, `next` and `prev` of each are its
neighbours, `size` is its length. If there is such an `s` it is the longest path
from `head`, so that `NodesFromHead` is it; each critical section makes one walk
of another (an insertion or a removal at a place). `TypeCorrect`,
`LinksAreMirrored` and `ShortestFirst` follow, the last with the lemma that the
search for the place of an insertion stops where the order stays. `Refinement`
maps each critical section to one operation of `ListSpec`.

`EmptyAverage` is inductive only with `TypeOK`, and `TypeOK` only with it: the
divisor of a removal is positive because the counter counts the processes in the
average. `EveryQuantumIsPositive` needs, at every level, that the conversion of
the product to an int and the lower bound agree, for every modulus.
`TruncationOnlyLoses` is the action property `AverageNeverAboveMean`. The sum of
the bursts in the average is the number of their units of time (`Units`), so that a
process that enters or leaves changes it by its own units, a set disjoint from the
others; a reduction modulo a word and a truncating division only lose. What is
left to raise the average is a subtraction that wraps, which the property excludes
by name and the code does not.

### tp3: `VmmProofs`

The inductive invariant is the conjunction of the five invariants of the run and
`ModifiedAreDirty`: a page whose next eviction must save it is not readonly in the
page table. The invariants need each other: the victim of the TLB is the one of
greatest age only if the counters are the ages, the frame of an entry is right
only if entries are of distinct valid pages, a frame is free only if no valid
page has it. Each of the four cases of `get_frame` has a lemma on the tables it
leaves, in which the page is the youngest and the counters have not moved yet;
`GetFrameResult` puts them together. `MarkedPagesAreSavedWhenUnloaded` is the action
property `SavesModifiedPages`: the only step that unloads a page is `OnVictim`, which
saves a dirty one, and `ModifiedAreDirty` says that a modified page is dirty.

### tp1: `ShellProofs`

`ResultInv` is what makes `RunsWhatOperatorsAsk` hold: `previous_result` is that
of the last command executed, and `is_skipping` is true exactly when the command
before was not executed. The operator before a command together with these two
is all `execute_command` sees; `TurnIsWanted` shows that it is enough, although the
property speaks of the first command of a pipeline and the last command before
it, any number of commands away. `PipeInv` says whose pipe
`previous_pipe_output` is. `ParseInv` says that only the last command has the
terminator as its operator, which rests on the tokenizer: a newline is the last
token of a line.

The tokenizer is a recursive function over the input, a loop of `DataProofs`. The
lemmas about it say that it returns tokens, that the text that is left is a text,
and that a newline ends a line.

### tp0: `TuringProofs`

* `HeadStaysOnTape`: `HeadOnTape`, for every file and word; `TypeCorrect`:
  `TypeOK`. The strengthening `Inv` says that the head is on the tape, and not
  on its first cell, from the allocation on, although no step reads the tape
  before all transitions are loaded. The type of a transition rests on lemmas
  about the reading: a readline stops at the first newline (`LineEndIsFirst`),
  and the places of the fields are in order, so that the test of the last one
  covers all (`PlacesInLine`).

### tp4: `FatProofs`

* `PathsAreSplit`: `SplitsThePath`. The loop of `get_simplified_path` has the
  invariant `Progress`: at character i the first j parts of the path are done,
  none of their prefixes leads above the root, and the stack has the names kept of
  them (`Kept`), each at the place that is its depth (`Stacked`). A part on which
  `..` takes the last name, or a name is pushed, keeps it because the kept names
  of j + 1 parts are those of j that are not deeper than the new depth (`KeptStep`,
  `StackUp`, `StackName`). When the loop stops behind the path all parts are
  done; when it stops at `..` with an empty stack a prefix has depth -1. The order
  of the names is that of `PathSpec` because a set of numbers has one increasing
  list (`ListExists`, `ListIsUnique`).
* `TypeCorrect` and `OnlyTheRootCrashes`: the inductive invariant `IInv` says that
  during a search what is kept of `break_up_path` is what it says of the current
  level, that the path does not leave the root, and that there is no name only if
  there was none at the first level: a later level without a name ends the search.
  `TypeOK` needs in addition that the cluster is 0 until a file is read, and that
  `archive` is an archive.

### What stays with TLC

* Liveness: `WorkerGivesBack`, `BoostEnds`, `LineEnds`, `CallsReturn`. The proof
  system has no rule for fairness that could be used here (`ENABLED`).
* `ImplementsTuringSpec`: that the text printed from a machine is read as that
  machine is an induction over the text and the list of transitions.
* `ReadsTheText`, `ParsesTheLine`: both sides are defined by recursion over the
  text or by sorting a set of places.
* `ImplementsFileTree`: it holds on the archives that `MCFatReader` makes of a
  tree, and what makes an archive one of a tree is said by that construction only.

## 5. Not modelled

* The grammar and the options of tp3 (`parse.y`, `tokens.l`): two commands, from
  which `Vmm` takes the addresses and characters.
* `os_parse_file` and the report of tp2; counters and log of tp3.
* `ready_queue_destroy` (after all threads are joined), `ready_queue_size`.
* Failing `malloc`, except for the tape of tp0, and the growth of the buffers of
  the tokenizer; failing stdio on the backing store.
* The byte 255, which tokenizer and `readline` take for the end of the file
  where `char` is signed.
* In tp4: archives with directories that are not contiguous or files that are
  empty (see the deviations) except as damage; names whose base is longer than
  eight characters, and entries that `file_has_name` confuses, are not on the
  volumes. Contents are whole clusters, because the size of a file is ignored.
  The error branch of `NextCluster` is in the model and not reached by the damages.
* The test programs and graders.

## 6. Plan

Done, in this order: `Scheduler` with `ReadyQueue`, `ProcessLife`,
`SchedulerProofs`; `LinkedQueue` with `ListSpec`; `QuantumAverage`; `Vmm` with
its three parts; `TuringMachine` with `TuringSpec` and `TuringProofs`; `Shell`
with `Parser`; `FatReader` with its four parts, the histories of `Vmm`,
`Tokenizer` under `Shell`, and `Description` under `TuringMachine`; then the
proofs of tp3, tp2, tp1 and tp4.

Next, proofs:

1. `TuringProofs`: every step of the array maps to a step of the infinite tape.
2. `ParsesTheLine`: each turn of the loop of `cmd_parse` extends the list of
   commands of the line by one.
