---------------------------- MODULE TuringProofs ----------------------------
(***************************************************************************)
(* The head of the Turing machine never leaves its tape, for every file,   *)
(* word and limit of memory.                                               *)
(***************************************************************************)
EXTENDS TuringMachine, DataProofs

-----------------------------------------------------------------------------
(* What is read from the file consists of symbols.                          *)

LEMMA LeastIs ==
    ASSUME NEW S \in SUBSET Nat, S # {}
    PROVE  /\ Least(S) \in S
           /\ \A m \in S : Least(S) <= m
BY LeastExists DEF Least

\* readline stops in the text, and at the first newline at the latest.
LEMMA LineEndIsFirst ==
    ASSUME NEW text \in Text, NEW max_len \in Nat
    PROVE  /\ LineEnd(text, max_len) \in 0 .. Len(text)
           /\ \A i \in 1 .. LineEnd(text, max_len) : text[i] \in Symbol
<1> DEFINE stops == {n \in 0 .. Len(text) :
                      n = Len(text) \/ n = max_len + 1 \/ text[n + 1] = Newline}
           last == LineEnd(text, max_len)
<1>1. Len(text) \in Nat /\ \A i \in 1 .. Len(text) : text[i] \in Symbol \cup {Newline}
  BY DEF Text
<1>2. stops \in SUBSET Nat /\ stops # {}
  <2>1. Len(text) \in stops
    BY <1>1
  <2> QED  BY <2>1, <1>1
<1>3. last \in stops /\ \A m \in stops : last <= m
  BY <1>2, LeastIs DEF LineEnd
<1>4. ASSUME NEW i \in 1 .. last PROVE text[i] # Newline
  <2>1. i - 1 \in 0 .. Len(text) /\ i - 1 < last
    BY <1>1, <1>3
  <2>2. i - 1 \notin stops
    BY <2>1, <1>3, <1>2
  <2> QED  BY <2>1, <2>2
<1> HIDE DEF last
<1>5. last \in 0 .. Len(text)
  BY <1>3
<1>6. \A i \in 1 .. last : text[i] \in Symbol
  BY <1>1, <1>4, <1>5
<1> QED  BY <1>5, <1>6 DEF last

LEMMA LineType ==
    ASSUME NEW text \in Text, NEW max_len \in Nat
    PROVE  /\ Line(text, max_len) \in Seq(Symbol)
           /\ Behind(text, max_len) \in Text
<1> DEFINE last == LineEnd(text, max_len)
<1>1. last \in 0 .. Len(text) /\ \A i \in 1 .. last : text[i] \in Symbol
  BY LineEndIsFirst
<1>2. Len(text) \in Nat /\ \A i \in 1 .. Len(text) : text[i] \in Symbol \cup {Newline}
  BY DEF Text
<1> HIDE DEF last
<1>3. SubSeq(text, 1, last) \in Seq(Symbol)
  BY <1>1, <1>2, SubSeqProperties
<1>4. SubSeq(text, last + 2, Len(text)) \in Seq(Symbol \cup {Newline})
  <2>1. last + 2 \in Int /\ Len(text) \in Int
        /\ \A i \in last + 2 .. Len(text) : text[i] \in Symbol \cup {Newline}
    BY <1>1, <1>2
  <2> QED  BY <2>1, SubSeqProperties
<1> QED  BY <1>3, <1>4 DEF Line, Behind, Text, last

LEMMA NameEndType ==
    ASSUME NEW line, NEW p \in Int
    PROVE  NameEnd(line, p) \in 0 .. StateLength
<1> DEFINE ends == {n \in 0 .. StateLength :
                     n = StateLength \/ (p + n \in DOMAIN line /\ line[p + n] = ",")}
<1>1. StateLength \in Nat
  BY DescriptionAssumption
<1>2. ends \in SUBSET Nat /\ ends # {}
  <2>1. StateLength \in ends
    BY <1>1
  <2>2. ends \subseteq 0 .. StateLength
    OBVIOUS
  <2> HIDE DEF ends
  <2> QED  BY <2>1, <2>2, <1>1
<1>3. Least(ends) \in ends
  BY <1>2, LeastIs
<1> QED  BY <1>3 DEF NameEnd

\* The places of parse_line are in order, so that those before the movement are in
\* the line if it is.
LEMMA PlacesInLine ==
    ASSUME NEW line \in Seq(Symbol), IsTransition(line)
    PROVE  parse_line(line) \in Transition
<1> DEFINE first == NameEnd(line, 2)
           place == NextPlace(line)
           next  == NameEnd(line, place)
<1>1. first \in Nat
  BY NameEndType, DescriptionAssumption
<1>2. place = first + 8
  BY <1>1 DEF NextPlace
<1>3. next \in Nat
  BY <1>1, <1>2, NameEndType, DescriptionAssumption
<1>4. /\ WritePlace(line) = place + next + 1
      /\ MovePlace(line) = place + next + 3
  BY <1>1, <1>2, <1>3 DEF WritePlace, MovePlace
<1> HIDE DEF first, place, next
<1>5. /\ place + next + 3 \in 1 .. Len(line)
      /\ line[place + next + 3] \in DOMAIN Movements
  BY <1>4 DEF IsTransition
<1>6. /\ Len(line) \in Nat
      /\ \A i \in 1 .. Len(line) : line[i] \in Symbol
  OBVIOUS
<1>7. SubSeq(line, 2, 2 + first - 1) \in Seq(Symbol)
  <2>1. /\ 2 \in Int /\ 2 + first - 1 \in Int
        /\ \A i \in 2 .. 2 + first - 1 : line[i] \in Symbol
    BY <1>1, <1>2, <1>3, <1>5, <1>6
  <2> QED  BY <2>1, SubSeqProperties
<1>8. SubSeq(line, place, place + next - 1) \in Seq(Symbol)
  <2>1. /\ place \in Int /\ place + next - 1 \in Int
        /\ \A i \in place .. place + next - 1 : line[i] \in Symbol
    BY <1>1, <1>2, <1>3, <1>5, <1>6
  <2> QED  BY <2>1, SubSeqProperties
<1>9. line[2 + first + 1] \in Symbol /\ line[place + next + 1] \in Symbol
  BY <1>1, <1>2, <1>3, <1>5, <1>6
<1>10. Movements[line[place + next + 3]] \in {-1, 0, 1}
  BY <1>5 DEF Movements
<1> QED  BY <1>4, <1>7, <1>8, <1>9, <1>10 DEF parse_line, Transition, first, place, next

-----------------------------------------------------------------------------

\* What an array of n symbols becomes when it is copied into a longer one.
LEMMA CopiedType ==
    ASSUME NEW n \in Nat, NEW offset \in Int, NEW t,
           \A i \in DOMAIN t : t[i] \in Symbol
    PROVE  Copied(t, n, offset) \in [0 .. n - 1 -> Symbol]
BY TuringAssumption DEF Copied

\* The place where a word starts on a new tape.
LEMMA StartOnTape ==
    ASSUME NEW len \in Nat, NEW length \in Nat,
           length = IF 2 * len < MinTape THEN MinTape ELSE 2 * len
    PROVE  length \div 2 - len \div 2 \in 1 .. length - 1
BY TuringAssumption

\* Where the head is once a tape that was too short is doubled.
LEMMA ResizedPosition ==
    ASSUME NEW n \in Nat, n >= 2, NEW p \in 0 .. n
    PROVE  n \div 2 + p \in 1 .. 2 * n - 1
OBVIOUS

(***************************************************************************)
(* The head is on the tape, and not on its first cell, as soon as there is *)
(* one: a tape of two cells at least, since half of a shorter one would be *)
(* no room at all.                                                         *)
(***************************************************************************)
Inv ==
    /\ TypeOK
    /\ 2 * Len(word) <= MaxTape
    /\ result \in {"loading", "running"} => position \in 1 .. tape_length - 1

LEMMA InitInv == Init => Inv
<1> SUFFICES ASSUME Init PROVE Inv
  OBVIOUS
<1>1. PICK q \in Requests : machine = q.machine /\ word = q.word /\ file = q.text
  BY DEF Init
<1>2. file \in Text /\ word \in Seq(Symbol) /\ 2 * Len(word) <= MaxTape
  BY <1>1, TuringAssumption
<1>3. << >> \in Seq(Symbol) /\ << >> \in Seq(Transition) /\ 0 \in 0 .. MaxTape
  BY TuringAssumption
<1>4. tape \in [0 .. tape_length - 1 -> Symbol]
  BY DEF Init
<1> QED  BY <1>2, <1>3, <1>4 DEF Init, Inv, TypeOK, states

LEMMA OpenInv == ASSUME Inv, Open PROVE Inv'
<1> DEFINE second == Behind(file, StateLength)
           third  == Behind(second, StateLength)
           length == IF 2 * Len(word) < MinTape THEN MinTape ELSE 2 * Len(word)
           start  == length \div 2 - Len(word) \div 2
<1>1. StateLength \in Nat /\ file \in Text
  BY DescriptionAssumption DEF Inv, TypeOK
<1>2. second \in Text
  BY <1>1, LineType
<1>3. third \in Text
  BY <1>1, <1>2, LineType
<1>4. /\ initial_state' \in Seq(Symbol) /\ accept_state' \in Seq(Symbol)
      /\ reject_state' \in Seq(Symbol) /\ file' \in Text
  BY <1>1, <1>2, <1>3, LineType DEF Open
<1>5. no_of_lines(file) \in Int
  <2>1. IsFiniteSet({i \in DOMAIN file : file[i] = Newline})
    <3>1. IsFiniteSet(DOMAIN file)
      BY <1>1, FS_Interval DEF Text
    <3> QED  BY <3>1, FS_Subset
  <2> QED  BY <2>1, FS_CardinalityType DEF no_of_lines
<1>6. /\ word \in Seq(Symbol)
      /\ Len(word) \in Nat /\ 2 * Len(word) <= MaxTape
      /\ \A i \in DOMAIN word : word[i] \in Symbol
  BY DEF Inv, TypeOK
<1>7. length \in Nat /\ length >= 2
  BY <1>6, TuringAssumption
<1>8. start \in 1 .. length - 1
  BY <1>6, <1>7, StartOnTape
<1>9. Copied(word, length, start - 1) \in [0 .. length - 1 -> Symbol]
  <2>1. start - 1 \in Int
    BY <1>7, <1>8
  <2> QED  BY <1>6, <1>7, <2>1, CopiedType
<1>10. /\ tape_length' = length /\ position' = start /\ origin' = start
       /\ tape' = Copied(word, length, start - 1)
       /\ num_transitions' \in Int /\ result' \in {"error", "loading"}
       /\ UNCHANGED << machine, word, transitions, state >>
  BY <1>5 DEF Open, request
<1>11. length <= MaxTape
  BY TuringAssumption DEF Inv
<1> HIDE DEF length, start
<1>12. tape' \in [0 .. tape_length' - 1 -> Symbol]
  BY <1>9, <1>10
<1>13. position' \in 1 .. tape_length' - 1 /\ tape_length' \in 0 .. MaxTape
       /\ position' \in Int /\ origin' \in Int
  BY <1>7, <1>8, <1>10, <1>11, TuringAssumption
<1>14. /\ word' \in Seq(Symbol) /\ 2 * Len(word') <= MaxTape
       /\ transitions' \in Seq(Transition) /\ state' \in Seq(Symbol)
  BY <1>6, <1>10 DEF Inv, TypeOK
<1>15. \A k \in 1 .. 3 : states'[k] \in Seq(Symbol)
  BY <1>4 DEF states
<1>16. TypeOK'
  BY <1>4, <1>10, <1>12, <1>13, <1>14, <1>15 DEF TypeOK
<1> QED  BY <1>13, <1>14, <1>16 DEF Inv

LEMMA LoadTransitionInv == ASSUME Inv, LoadTransition PROVE Inv'
<1> DEFINE line == Line(file, LineLength)
<1>1. line \in Seq(Symbol) /\ file' \in Text
  BY LineType, DescriptionAssumption DEF LoadTransition, Inv, TypeOK
<1>2. transitions' \in Seq(Transition)
  <2>1. CASE IsTransition(line)
    <3>1. parse_line(line) \in Transition
      BY <1>1, <2>1, PlacesInLine
    <3>2. transitions' = Append(transitions, parse_line(line))
      BY <2>1 DEF LoadTransition
    <3> QED  BY <3>1, <3>2 DEF Inv, TypeOK
  <2>2. CASE ~IsTransition(line)
    BY <2>2 DEF LoadTransition, Inv, TypeOK
  <2> QED  BY <2>1, <2>2
<1>3. /\ result' \in {"loading", "error"} /\ result = "loading"
      /\ UNCHANGED << word, initial_state, accept_state, reject_state, num_transitions,
                      state, tape, tape_length, position, origin >>
  BY DEF LoadTransition, request, states, array
<1> QED  BY <1>1, <1>2, <1>3 DEF Inv, TypeOK, states

LEMMA StartInv == ASSUME Inv, Start PROVE Inv'
BY DEF Start, Inv, TypeOK, request, states, array

LEMMA StepInv == ASSUME Inv, Step PROVE Inv'
<1>1. PICK i \in Matching :
        LET written == [tape EXCEPT ![position] = transitions[i].write]
            moved   == position + transitions[i].movement
            bigger  == Resized(written, tape_length, moved)
        IN /\ state' = transitions[i].next_state
           /\ \/ /\ ~AtEnd(moved)
                 /\ tape' = written
                 /\ position' = moved
                 /\ UNCHANGED << tape_length, origin, result >>
              \/ /\ AtEnd(moved)
                 /\ 2 * tape_length <= MaxTape
                 /\ tape' = bigger.tape
                 /\ tape_length' = 2 * tape_length
                 /\ position' = bigger.position
                 /\ origin' = origin + bigger.offset
                 /\ UNCHANGED result
              \/ /\ AtEnd(moved)
                 /\ tape' = written
                 /\ position' = moved
                 /\ result' = "error"
                 /\ UNCHANGED << tape_length, origin >>
  BY DEF Step
<1> DEFINE written == [tape EXCEPT ![position] = transitions[i].write]
           moved   == position + transitions[i].movement
           bigger  == Resized(written, tape_length, moved)
<1>2. /\ result = "running"
      /\ UNCHANGED << word, file, initial_state, accept_state, reject_state,
                      num_transitions, transitions >>
      /\ i \in DOMAIN transitions
  BY <1>1 DEF Step, Matching, request, states
<1>3. /\ tape_length \in Nat /\ tape_length >= 2 /\ tape_length <= MaxTape
      /\ position \in 1 .. tape_length - 1
      /\ origin \in Int
      /\ tape \in [0 .. tape_length - 1 -> Symbol]
  BY <1>2, TuringAssumption DEF Inv, TypeOK
<1>4. /\ transitions[i] \in Transition
      /\ transitions[i].write \in Symbol
      /\ transitions[i].movement \in {-1, 0, 1}
  <2>1. transitions[i] \in Transition
    BY <1>2 DEF Inv, TypeOK
  <2> QED  BY <2>1 DEF Transition
<1>5. moved \in 0 .. tape_length
  BY <1>3, <1>4
<1>6. written \in [0 .. tape_length - 1 -> Symbol]
  BY <1>3, <1>4
<1>7. bigger.tape \in [0 .. 2 * tape_length - 1 -> Symbol]
  <2>1. /\ 2 * tape_length \in Nat /\ tape_length \div 2 \in Int
        /\ \A c \in DOMAIN written : written[c] \in Symbol
    BY <1>3, <1>6
  <2>2. Copied(written, 2 * tape_length, tape_length \div 2)
            \in [0 .. 2 * tape_length - 1 -> Symbol]
    BY <2>1, CopiedType
  <2> QED  BY <2>2 DEF Resized
<1>8. /\ bigger.position \in 1 .. 2 * tape_length - 1
      /\ bigger.offset \in Int
  BY <1>3, <1>5, ResizedPosition DEF Resized
<1>9. /\ file' \in Text /\ word' \in Seq(Symbol) /\ 2 * Len(word') <= MaxTape
      /\ \A k \in 1 .. 3 : states[k]' \in Seq(Symbol)
      /\ num_transitions' \in Int /\ transitions' \in Seq(Transition)
      /\ state' \in Seq(Symbol)
  BY <1>1, <1>2, <1>4 DEF Inv, TypeOK, Transition, states
<1> HIDE DEF written, moved, bigger
<1>a. CASE ~AtEnd(moved) /\ tape' = written /\ position' = moved
             /\ UNCHANGED << tape_length, origin, result >>
  <2>1. position' \in 1 .. tape_length' - 1
    BY <1>a, <1>3, <1>5 DEF AtEnd
  <2> QED  BY <1>a, <1>2, <1>3, <1>6, <1>9, <2>1 DEF Inv, TypeOK
<1>b. CASE /\ 2 * tape_length <= MaxTape /\ tape' = bigger.tape
           /\ tape_length' = 2 * tape_length /\ position' = bigger.position
           /\ origin' = origin + bigger.offset /\ UNCHANGED result
  <2>1. /\ tape_length' \in 0 .. MaxTape
        /\ tape' \in [0 .. tape_length' - 1 -> Symbol]
        /\ position' \in 1 .. tape_length' - 1
    BY <1>b, <1>3, <1>7, <1>8, TuringAssumption
  <2>2. origin' \in Int /\ result' = "running"
    BY <1>b, <1>2, <1>3, <1>8
  <2>3. TypeOK'
    <3>1. position' \in Int
      BY <2>1
    <3> QED  BY <1>9, <2>1, <2>2, <3>1 DEF TypeOK
  <2> QED  BY <1>9, <2>1, <2>3 DEF Inv
<1>c. CASE /\ tape' = written /\ position' = moved /\ result' = "error"
           /\ UNCHANGED << tape_length, origin >>
  BY <1>c, <1>2, <1>3, <1>5, <1>6, <1>9 DEF Inv, TypeOK
<1> QED  BY <1>1, <1>a, <1>b, <1>c DEF written, moved, bigger

LEMMA NextInv == Inv /\ [Next]_vars => Inv'
<1> SUFFICES ASSUME Inv, [Next]_vars PROVE Inv'
  OBVIOUS
<1>1. CASE Open
  BY <1>1, OpenInv
<1>2. CASE LoadTransition
  BY <1>2, LoadTransitionInv
<1>3. CASE Start
  BY <1>3, StartInv
<1>4. CASE Step
  BY <1>4, StepInv
<1>5. CASE NoTransition
  BY <1>5 DEF NoTransition, Inv, TypeOK, request, states, array
<1>6. CASE Halt
  BY <1>6 DEF Halt, Inv, TypeOK, request, states, array
<1>7. CASE Terminated \/ UNCHANGED vars
  BY <1>7 DEF Terminated, vars, Inv, TypeOK, request, states, array
<1> QED  BY <1>1, <1>2, <1>3, <1>4, <1>5, <1>6, <1>7 DEF Next

LEMMA Invariance == Spec => []Inv
BY InitInv, NextInv, PTL DEF Spec

\* The tape holds symbols on as many cells as were allocated, what is read from
\* the file are symbols, and every transition found in it is one.
THEOREM TypeCorrect == Spec => []TypeOK
<1>1. Inv => TypeOK
  BY DEF Inv
<1> QED  BY <1>1, Invariance, PTL

\* The head is always on the tape that step reads and writes, however often it
\* was resized.
THEOREM HeadStaysOnTape == Spec => []HeadOnTape
<1>1. Inv => HeadOnTape
  BY DEF Inv, HeadOnTape
<1> QED  BY <1>1, Invariance, PTL
=============================================================================
