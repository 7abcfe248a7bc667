--------------------------- MODULE QuantumAverage ---------------------------
(***************************************************************************)
(* The running average that sizes the quanta of tp2: the field `quantum`   *)
(* of the ready queue, updated by add_to_quantum_average and               *)
(* remove_from_quantum_average (ready_queue.c) under quantum_mutex, and    *)
(* read by get_quantum (worker.c).  The arithmetic is the unsigned one of  *)
(* the code, modulo Modulus (2^64 there), with truncating division.        *)
(* The section of quantum_mutex and the write of found_burst outside it    *)
(* are one step here: found_burst is read and written only by the worker   *)
(* that has the process.  The window between the two is in Scheduler.      *)
(***************************************************************************)
EXTENDS Integers, FiniteSets

CONSTANTS
    Process,          \* the processes of the input file
    InitialQuantum,   \* INITIAL_QUANTUM
    Modulus,          \* 2^64
    IntLimit,         \* 2^31
    MicroMax,         \* MICRO_QUANTUM_MAX
    MaxBurst          \* bound on a measured burst

ASSUME AverageAssumption ==
    /\ IsFiniteSet(Process)
    /\ InitialQuantum \in Nat \ {0}
    /\ MaxBurst \in Nat \ {0}
    /\ MicroMax \in Nat \ {0}
    /\ IntLimit \in Nat /\ IntLimit > InitialQuantum /\ IntLimit > MicroMax
    /\ Modulus \in Nat /\ Modulus > 2 * IntLimit /\ Modulus > MaxBurst

VARIABLES
    quantum,       \* queue->quantum
    counter,       \* queue->quantum_counter
    burstLength,   \* process->burst_length
    foundBurst,    \* process->found_burst
    finished       \* the processes whose last burst has ended

vars == << quantum, counter, burstLength, foundBurst, finished >>

Init == /\ quantum = InitialQuantum
        /\ counter = 0
        /\ burstLength = [p \in Process |-> 0]
        /\ foundBurst = [p \in Process |-> FALSE]
        /\ finished = {}

\* Fault: the burst is added to one time the average too many.
AddedToMore(q, c, b) == << ((q * (c + 1) + b) % Modulus) \div (c + 1), c + 1 >>

\* add_to_quantum_average past its early return.
Added(q, c, b) == << ((q * c + b) % Modulus) \div (c + 1), c + 1 >>

\* Fault: signed arithmetic.
RemovedSigned(q, c, b) ==
    IF c = 1 THEN << InitialQuantum, 0 >> ELSE << (q * c - b) \div (c - 1), c - 1 >>

\* Fault: the last removal keeps the average.
RemovedKeeps(q, c, b) ==
    IF c = 1 THEN << q, 0 >>
    ELSE << ((q * c - b) % Modulus) \div (c - 1), c - 1 >>

\* remove_from_quantum_average past its early return.
Removed(q, c, b) ==
    IF c = 1 THEN << InitialQuantum, 0 >>
    ELSE << ((q * c - b) % Modulus) \div (c - 1), c - 1 >>

\* A slice runs: the time is added to burst_length until the first burst ends.
Measure(p) ==
    /\ p \notin finished
    /\ \E time \in 1 .. MaxBurst :
          /\ ~foundBurst[p]
          /\ burstLength[p] + time <= MaxBurst
          /\ burstLength' = [burstLength EXCEPT ![p] = @ + time]
    /\ UNCHANGED << quantum, counter, foundBurst, finished >>

\* The case OS_RUN_BLOCKED of worker_run, after a first slice.
Block(p) ==
    /\ p \notin finished
    /\ burstLength[p] > 0
    /\ IF foundBurst[p]
       THEN UNCHANGED << quantum, counter >>
       ELSE /\ quantum' = Added(quantum, counter, burstLength[p])[1]
            /\ counter' = Added(quantum, counter, burstLength[p])[2]
    /\ foundBurst' = [foundBurst EXCEPT ![p] = TRUE]
    /\ UNCHANGED << burstLength, finished >>

\* The case OS_RUN_DONE of worker_run.
Done(p) ==
    /\ p \notin finished
    /\ burstLength[p] > 0
    /\ IF foundBurst[p]
       THEN /\ quantum' = Removed(quantum, counter, burstLength[p])[1]
            /\ counter' = Removed(quantum, counter, burstLength[p])[2]
       ELSE UNCHANGED << quantum, counter >>
    /\ foundBurst' = [foundBurst EXCEPT ![p] = FALSE]
    /\ burstLength' = [burstLength EXCEPT ![p] = 0]
    /\ finished' = finished \union {p}

Terminated == finished = Process /\ UNCHANGED vars

Next == (\E p \in Process : Measure(p) \/ Block(p) \/ Done(p)) \/ Terminated

Spec == Init /\ [][Next]_vars

(***************************************************************************)
(* get_quantum of a level: 1 at the top level, else the average times the  *)
(* factor of the level (tenths: 0.3, 0.5, 0.8), truncated, and             *)
(* INITIAL_QUANTUM when that is zero.  The product goes through an int: a  *)
(* product outside its range converts to INT_MIN on x86-64, which the      *)
(* return type turns into Modulus - IntLimit.  The micro quantum of        *)
(* worker_run is the minimum of two ints.                                  *)
(***************************************************************************)
Tenths == << 3, 5, 8 >>

\* Fault: a product that truncates to zero is the quantum.
GetQuantumUntested(l) == IF l = 0 THEN 1 ELSE (quantum * Tenths[l]) \div 10

GetQuantum(l) ==
    LET product == (quantum * Tenths[l]) \div 10 IN
    CASE l = 0                -> 1
      [] l # 0 /\ product = 0 -> InitialQuantum
      [] l # 0 /\ product > 0 -> IF product < IntLimit THEN product
                                 ELSE Modulus - IntLimit

MicroQuantum(l) ==
    IF GetQuantum(l) \in MicroMax .. IntLimit - 1 THEN MicroMax ELSE GetQuantum(l)

-----------------------------------------------------------------------------
Found == {p \in Process : foundBurst[p]}

\* The units of time of the bursts in the average, each with its process.
Units(found, length) ==
    {unit \in Process \X (1 .. MaxBurst) : found[unit[1]] /\ unit[2] <= length[unit[1]]}
TotalFound == Cardinality(Units(foundBurst, burstLength))

TypeOK ==
    /\ quantum \in 0 .. Modulus - 1
    /\ counter \in Nat
    /\ burstLength \in [Process -> 0 .. MaxBurst]
    /\ foundBurst \in [Process -> BOOLEAN]
    /\ finished \subseteq Process

\* The counter is the number of processes in the average, so that the
\* division by counter - 1 is never a division by zero, and the average of no
\* process is the initial quantum again, whatever it drifted to before.
EmptyAverageIsInitial ==
    /\ counter = Cardinality(Found)
    /\ counter = 0 => quantum = InitialQuantum

\* Neither a quantum nor a micro quantum is ever zero, not even after the
\* average wrapped: the loop of worker_run that advances by the micro quantum
\* would not end, and a slice of zero means no preemption at all.
QuantumIsPositive == \A l \in 0 .. 3 : GetQuantum(l) > 0 /\ MicroQuantum(l) > 0

\* Truncation only loses: as long as the subtraction of a removal does not
\* wrap, the stored average times the counter stays at or below the sum of
\* the measured bursts.
NoWrap ==
    \A p \in Process : foundBurst[p] /\ ~foundBurst'[p] /\ counter > 1 =>
        quantum * counter >= burstLength[p]

AverageNeverAboveMean ==
    [][quantum * counter <= TotalFound /\ NoWrap
         => quantum' * counter' <= TotalFound']_vars
=============================================================================
