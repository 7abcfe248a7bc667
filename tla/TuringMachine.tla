--------------------------- MODULE TuringMachine ----------------------------
(***************************************************************************)
(* The Turing machine of tp0 (src/tp0/src/main.c): execute with the        *)
(* get_transitions that reads the description, step and resize_tape.  The  *)
(* tape is an array that is doubled, with the old one in its middle, when  *)
(* the head reaches one of its ends.                                       *)
(***************************************************************************)
EXTENDS Description

CONSTANTS
    Blank,      \* ' '
    Requests,   \* the calls of execute: the text of the file, the machine that
                \* is written there, or NoMachine, and the input
    NoMachine,
    MinTape,    \* 256: the least length of a tape
    MaxTape     \* a malloc of more cells fails; bounds the tape

ASSUME TuringAssumption ==
    /\ Blank \in Symbol
    /\ MinTape \in Nat /\ MinTape >= 2
    /\ MaxTape \in Nat /\ MinTape <= MaxTape
    /\ \A r \in Requests :
          r.text \in Text /\ r.word \in Seq(Symbol) /\ 2 * Len(r.word) <= MaxTape

VARIABLES
    machine, word,      \* of the request; the code does not know the first
    file,               \* what is left to read
    initial_state, accept_state, reject_state,
    num_transitions,
    transitions,        \* what get_transitions read so far
    state,              \* current_state
    tape, tape_length,
    position,           \* of the head on the tape
    origin,             \* where the first cell of the word is now (not in the code)
    result              \* "opening", "loading", "running", then what execute returns

request == << machine, word >>
states == << initial_state, accept_state, reject_state >>
array == << tape, tape_length, position, origin >>
vars == << request, file, states, num_transitions, transitions, state, array, result >>

Init ==
    /\ \E r \in Requests : machine = r.machine /\ word = r.word /\ file = r.text
    /\ initial_state = << >> /\ accept_state = << >> /\ reject_state = << >>
    /\ num_transitions = 0 /\ transitions = << >>
    /\ state = << >>
    /\ tape = << >> /\ tape_length = 0
    /\ position = 0 /\ origin = 0
    /\ result = "opening"

-----------------------------------------------------------------------------
\* A tape of n cells, with the cells of t from the offset on.
Copied(t, n, offset) ==
    [c \in 0 .. n - 1 |-> IF c - offset \in DOMAIN t THEN t[c - offset] ELSE Blank]

\* execute reads the three names, allocates a tape of blanks with the word in its
\* middle, and calls get_transitions, whose malloc of a negative length fails.
Open ==
    /\ result = "opening"
    /\ LET second == Behind(file, StateLength)
           third  == Behind(second, StateLength)
       IN /\ initial_state' = Line(file, StateLength)
          /\ accept_state' = Line(second, StateLength)
          /\ reject_state' = Line(third, StateLength)
          /\ file' = Behind(third, StateLength)
    /\ num_transitions' = no_of_lines(file) - 3
    /\ LET double == 2 * Len(word)
           length == IF double < MinTape THEN MinTape ELSE double
           start  == length \div 2 - Len(word) \div 2
       IN /\ tape_length' = length
          /\ position' = start
          /\ origin' = start
          /\ tape' = Copied(word, length, start - 1)
    /\ result' = IF num_transitions' < 0 THEN "error" ELSE "loading"
    /\ UNCHANGED << request, transitions, state >>

\* One turn of the loop of get_transitions.
LoadTransition ==
    /\ result = "loading"
    /\ Len(transitions) < num_transitions
    /\ LET line == Line(file, LineLength)
       IN \/ /\ IsTransition(line)
             /\ transitions' = Append(transitions, parse_line(line))
             /\ UNCHANGED result
          \/ /\ ~IsTransition(line)
             /\ result' = "error"
             /\ UNCHANGED transitions
    /\ file' = Behind(file, LineLength)
    /\ UNCHANGED << request, states, num_transitions, state, array >>

\* All are read, and execute calls step.
Start ==
    /\ result = "loading"
    /\ Len(transitions) = num_transitions
    /\ state' = initial_state
    /\ result' = "running"
    /\ UNCHANGED << request, file, states, num_transitions, transitions, array >>

\* A plausible fault: the old tape is copied to the start of the new one.
ResizedAtStart(t, n, p) ==
    [tape |-> Copied(t, 2 * n, 0), position |-> n \div 2 + p, offset |-> n \div 2]

\* A plausible fault: room is made for half a tape more only.
ResizedShort(t, n, p) ==
    [tape |-> Copied(t, n + n \div 2, n \div 2),
     position |-> n \div 2 + p, offset |-> n \div 2]

\* What resize_tape makes of a tape of n cells with the head at p.
Resized(t, n, p) ==
    [tape |-> Copied(t, 2 * n, n \div 2),
     position |-> n \div 2 + p, offset |-> n \div 2]

\* A plausible fault: the head may pass the last cell by one.
AtEndLate(p) == p <= 0 \/ p > tape_length

AtEnd(p) == p <= 0 \/ p >= tape_length

\* The first transition for the state and the symbol under the head.
Matching ==
    LET found == {i \in DOMAIN transitions :
                    /\ transitions[i].current_state = state
                    /\ transitions[i].read = tape[position]}
    IN {i \in found : \A j \in found : i <= j}

\* One turn of the loop of step, the resize it may need included.
Step ==
    /\ result = "running"
    /\ state \notin {accept_state, reject_state}
    /\ \E i \in Matching :
          LET written == [tape EXCEPT ![position] = transitions[i].write]
              moved   == position + transitions[i].movement
              bigger  == Resized(written, tape_length, moved)
          IN /\ state' = transitions[i].next_state
             /\ \/ /\ ~AtEnd(moved)
                   /\ tape' = written
                   /\ position' = moved
                   /\ UNCHANGED << tape_length, origin, result >>
                \/ /\ AtEnd(moved)
                   /\ 2 * tape_length <= MaxTape
                   /\ tape' = bigger.tape
                   /\ tape_length' = 2 * tape_length
                   /\ position' = bigger.position
                   /\ origin' = origin + bigger.offset
                   /\ UNCHANGED result
                \/ /\ AtEnd(moved)              \* malloc fails
                   /\ tape' = written
                   /\ position' = moved
                   /\ result' = "error"
                   /\ UNCHANGED << tape_length, origin >>
    /\ UNCHANGED << request, file, states, num_transitions, transitions >>

NoTransition ==
    /\ result = "running"
    /\ state \notin {accept_state, reject_state}
    /\ Matching = {}
    /\ result' = "error"
    /\ UNCHANGED << request, file, states, num_transitions, transitions, state, array >>

Halt ==
    /\ result = "running"
    /\ state \in {accept_state, reject_state}
    /\ result' = IF state = accept_state THEN "accept" ELSE "reject"
    /\ UNCHANGED << request, file, states, num_transitions, transitions, state, array >>

Terminated == result \in {"accept", "reject", "error"} /\ UNCHANGED vars

Next == Open \/ LoadTransition \/ Start \/ Step \/ NoTransition \/ Halt \/ Terminated

Spec == Init /\ [][Next]_vars

-----------------------------------------------------------------------------
Transition ==
    [current_state : Seq(Symbol), read : Symbol, next_state : Seq(Symbol),
     write : Symbol, movement : {-1, 0, 1}]

TypeOK ==
    /\ file \in Text
    /\ word \in Seq(Symbol)
    /\ \A i \in 1 .. 3 : states[i] \in Seq(Symbol)
    /\ num_transitions \in Int
    /\ transitions \in Seq(Transition)
    /\ state \in Seq(Symbol)
    /\ tape_length \in 0 .. MaxTape
    /\ tape \in [0 .. tape_length - 1 -> Symbol]
    /\ position \in Int
    /\ origin \in Int
    /\ result \in {"opening", "loading", "running", "accept", "reject", "error"}

(***************************************************************************)
(* Between two turns of the loop the head is on a cell of the array, and   *)
(* never on its first one, so that the next read, write and move to the    *)
(* left stay inside the allocation.                                        *)
(***************************************************************************)
HeadOnTape == result = "running" => position \in 1 .. tape_length - 1

\* The same cells as seen from the first one of the word.
Content ==
    LET used == {c \in DOMAIN tape : tape[c] # Blank}
    IN [c \in {u - origin : u \in used} |-> tape[c + origin]]

(***************************************************************************)
(* The description in the file is the machine that runs, and a file that   *)
(* holds none is refused; the array that grows behaves as a tape without   *)
(* ends: no symbol is lost or moved by a resize, and the machine accepts,  *)
(* rejects and fails as the one with the infinite tape does.               *)
(***************************************************************************)
Infinite == INSTANCE TuringSpec WITH
    head   <- position - origin,
    cells  <- IF result \in {"opening", "loading"} \/ machine = NoMachine
              THEN << >> ELSE Content,
    result <- IF result = "opening" THEN "loading" ELSE result

ImplementsTuringSpec == Infinite!Spec
=============================================================================
