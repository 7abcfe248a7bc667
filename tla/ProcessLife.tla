---------------------------- MODULE ProcessLife -----------------------------
(***************************************************************************)
(* What the scheduler of tp2 promises to a process, as os.h documents      *)
(* os_run_process and os_start_io: a process arrives, waits in the ready   *)
(* queue, runs on one core, and leaves the core preempted (back to the     *)
(* ready queue), blocked (for the I/O that follows the burst, after which  *)
(* it is ready again) or done (after its last burst).  No more processes   *)
(* run than there are cores.                                               *)
(***************************************************************************)
EXTENDS Naturals, FiniteSets

CONSTANTS Process, BurstCount, Cores

VARIABLES
    state,   \* where each process is
    ended    \* how many of its bursts have ended and been handed on

vars == << state, ended >>

Init == /\ state = [p \in Process |-> "new"]
        /\ ended = [p \in Process |-> 0]

Running == {p \in Process : state[p] = "running"}

MakeReady(p) == /\ state[p] \in {"new", "io"}
                /\ state' = [state EXCEPT ![p] = "ready"]
                /\ UNCHANGED ended

Dispatch(p) == /\ state[p] = "ready"
               /\ Cardinality(Running) < Cores
               /\ state' = [state EXCEPT ![p] = "running"]
               /\ UNCHANGED ended

Preempt(p) == /\ state[p] = "running"
              /\ state' = [state EXCEPT ![p] = "ready"]
              /\ UNCHANGED ended

\* The burst ended and is not the last one: its I/O starts.
Block(p) == /\ state[p] = "running"
            /\ ended[p] + 1 < BurstCount[p]
            /\ state' = [state EXCEPT ![p] = "io"]
            /\ ended' = [ended EXCEPT ![p] = @ + 1]

\* The last burst ended.
Complete(p) == /\ state[p] = "running"
               /\ ended[p] + 1 = BurstCount[p]
               /\ state' = [state EXCEPT ![p] = "done"]
               /\ ended' = [ended EXCEPT ![p] = @ + 1]

Next == \E p \in Process :
            MakeReady(p) \/ Dispatch(p) \/ Preempt(p) \/ Block(p) \/ Complete(p)

Spec == Init /\ [][Next]_vars
=============================================================================
