------------------------------ MODULE ListSpec ------------------------------
(***************************************************************************)
(* What one level of the ready queue promises: a list, changed only by the *)
(* critical sections of push, pop and remove.                              *)
(***************************************************************************)
EXTENDS ReadyQueue

CONSTANTS
    Process,   \* the processes that may be queued
    NULL,      \* the poison pill
    Key        \* burst_length + io_length of each process

VARIABLES
    list,      \* the processes, the next one to pop first
    fifo       \* whether the level is level 0, which never changes

vars == << list, fifo >>

Init == list = << >> /\ fifo \in BOOLEAN

\* A process is not pushed to an ordered level that holds a pill, whose key
\* does not exist.
Push(p) ==
    \/ fifo /\ list' = PushTail(list, p)
    \/ ~fifo /\ NULL \notin ToSet(list) /\ list' = PushOrdered(list, Key, p)

PushPill == ~fifo /\ list' = PushTail(list, NULL)

Pop == list # << >> /\ list' = Tail(list)

RemoveProcess(p) == list' \in RemoveLast(list, p)

Next == /\ PushPill \/ Pop \/ \E p \in Process : Push(p) \/ RemoveProcess(p)
        /\ UNCHANGED fifo

Spec == Init /\ [][Next]_vars
=============================================================================
