---------------------------- MODULE MCScheduler -----------------------------
(***************************************************************************)
(* Small instances of Scheduler for TLC.                                   *)
(***************************************************************************)
EXTENDS Scheduler

CONSTANTS p1, p2, w1, w2, Bursts, Time, OtherBursts, OtherTime

MCBurstCount == [p \in Process |-> IF p = p1 THEN Bursts ELSE OtherBursts]
MCBurstTime  == [p \in Process |-> IF p = p1 THEN Time ELSE OtherTime]

\* The workers are interchangeable; TLC uses it in the runs of invariants only.
Symmetry == Permutations(Worker)
=============================================================================
