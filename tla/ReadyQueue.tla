----------------------------- MODULE ReadyQueue -----------------------------
(***************************************************************************)
(* One priority level of the ready queue of tp2 (src/tp2/src/ready_queue.c)*)
(* as a sequence: the element at index 1 is the node `head` points to (the *)
(* next one popped), the last element is the node `tail` points to.        *)
(*                                                                         *)
(* These are the operators of the critical sections that hold              *)
(* queue_mutex[i]; the scheduler applies them to its levels, and the       *)
(* doubly linked list of LinkedQueue is shown to implement them.           *)
(***************************************************************************)
EXTENDS Naturals, Sequences, SequencesExt

\* NUM_PRIORITY_LEVELS, MAX_PRIORITY_LEVEL and MIN_PRIORITY_LEVEL (process.h).
NumLevels == 4
Levels    == 0 .. NumLevels - 1
MaxLevel  == 0
MinLevel  == NumLevels - 1

\* The level a poison pill is pushed to: DEFAULT_PRIORITY_LEVEL + 1.
PillLevel == MaxLevel + 1

(***************************************************************************)
(* Push at the tail: the branch of the poison pills and of level 0.        *)
(***************************************************************************)
PushTail(list, x) == Append(list, x)

(***************************************************************************)
(* The branch of the other levels.  The walk starts at the tail and stops  *)
(* at the first node whose key (burst_length + io_length) is smaller than  *)
(* that of the new process, which is linked just behind it: the new        *)
(* process overtakes the processes with an equal key.  OrderedIndex is the *)
(* index of the node the walk stops at, 0 when it reaches the head's end.  *)
(***************************************************************************)
OrderedIndex(list, key, x) ==
    CHOOSE i \in 0 .. Len(list) :
        /\ i > 0 => key[list[i]] < key[x]
        /\ \A j \in i + 1 .. Len(list) : key[list[j]] >= key[x]

PushOrdered(list, key, x) == InsertAt(list, OrderedIndex(list, key, x) + 1, x)

\* ready_queue_remove: the walk from the tail unlinks the first node it meets
\* that holds x.  The set of the lists this can give: empty when x is not in
\* the list, and never more than one.
RemoveLast(list, x) ==
    {RemoveAt(list, i) : i \in {k \in 1 .. Len(list) :
                                   /\ list[k] = x
                                   /\ \A j \in k + 1 .. Len(list) : list[j] # x}}
=============================================================================
