----------------------------- MODULE TuringSpec -----------------------------
(***************************************************************************)
(* What a run of the machine of tp0 promises: a Turing machine whose tape  *)
(* has a cell for every integer.  Cell 0 is where the head starts; only    *)
(* the cells that are not blank are kept, as a function of a finite set.   *)
(***************************************************************************)
EXTENDS Integers, Sequences

CONSTANTS
    Symbol,     \* the characters of the tape, the blank included
    Blank,      \* ' '
    NoMachine   \* what a file describes that is no description

VARIABLES
    machine,    \* [initial, accept, reject, transitions], what the file describes
    word,       \* the input
    state, head, cells, result

vars == << machine, word, state, head, cells, result >>

\* The cells that are not blank when w is written from cell 0 on.
Written(w) == [c \in {i \in 0 .. Len(w) - 1 : w[i + 1] # Blank} |-> w[c + 1]]

Init ==
    /\ word \in Seq(Symbol)
    /\ state = << >>
    /\ head = 0
    /\ cells = << >>
    /\ result = "loading"

\* A description is read, and any other file is refused.
Load ==
    /\ result = "loading"
    /\ machine # NoMachine
    /\ state' = machine.initial
    /\ cells' = Written(word)
    /\ result' = "running"
    /\ UNCHANGED << machine, word, head >>

Refuse ==
    /\ result = "loading"
    /\ machine = NoMachine
    /\ result' = "error"
    /\ UNCHANGED << machine, word, state, head, cells >>

\* What the head reads on cell c.
SymbolAt(c) == IF c \in DOMAIN cells THEN cells[c] ELSE Blank

\* The tape once s is written under the head.
Rewritten(s) ==
    LET others == DOMAIN cells \ {head}
    IN [c \in others \cup (IF s = Blank THEN {} ELSE {head}) |->
            IF c = head THEN s ELSE cells[c]]

Running == result = "running" /\ state \notin {machine.accept, machine.reject}

\* Transition i is for the state and the symbol under the head.
Applies(i) ==
    /\ machine.transitions[i].current_state = state
    /\ machine.transitions[i].read = SymbolAt(head)

Step ==
    /\ Running
    /\ \E i \in DOMAIN machine.transitions :
          /\ Applies(i) /\ \A j \in 1 .. i - 1 : ~Applies(j)
          /\ state' = machine.transitions[i].next_state
          /\ cells' = Rewritten(machine.transitions[i].write)
          /\ head' = head + machine.transitions[i].movement
    /\ result' \in {"running", "error"}      \* no memory for a longer tape
    /\ UNCHANGED << machine, word >>

Fail ==
    /\ Running
    /\ \A i \in DOMAIN machine.transitions : ~Applies(i)
    /\ result' = "error"
    /\ UNCHANGED << machine, word, state, head, cells >>

Halt ==
    /\ result = "running"
    /\ state \in {machine.accept, machine.reject}
    /\ result' = IF state = machine.accept THEN "accept" ELSE "reject"
    /\ UNCHANGED << machine, word, state, head, cells >>

Next == Load \/ Refuse \/ Step \/ Fail \/ Halt

Spec == Init /\ [][Next]_vars
=============================================================================
