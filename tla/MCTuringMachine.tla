-------------------------- MODULE MCTuringMachine ---------------------------
(***************************************************************************)
(* The files of machines of one or two transitions from two states, with   *)
(* words of up to three symbols, and files that hold no machine.           *)
(***************************************************************************)
EXTENDS TuringMachine

MCSymbol == {"1", " ", ",", "(", ")", "-", ">", "G", "R", "D", "q", "r", "s", "y", "n"}

\* A name of the greatest length, one that begins it, and the states that halt.
q == << "q" >>
r == << "q", "r", "r", "s", "s" >>
acc == << "y" >>
rej == << "n", "n" >>

Transitions(symbols) ==
    [current_state : {q, r}, read : symbols, next_state : {q, r, acc, rej},
     write : symbols, movement : {-1, 0, 1}]

Letter(movement) == CASE movement = -1 -> "G" [] movement = 0 -> "R" [] movement = 1 -> "D"

\* The line of a transition up to its movement, and the whole.
Opening(t) ==
    << "(" >> \o t.current_state \o << ",", t.read, ")", "-", ">", "(" >>
        \o t.next_state \o << ",", t.write, "," >>
Printed(t) == Opening(t) \o << Letter(t.movement), ")" >>

Names == q \o << Newline >> \o acc \o << Newline >> \o rej

\* The file of a machine; the last line may lack its newline.
File(lines, final) ==
    LET rest[i \in 0 .. Len(lines)] ==
            IF i = 0 THEN Names ELSE rest[i - 1] \o << Newline >> \o lines[i]
    IN rest[Len(lines)] \o (IF final THEN << Newline >> ELSE << >>)

MachineOf(ts) == [initial |-> q, accept |-> acc, reject |-> rej, transitions |-> ts]

MCWords == UNION {[1 .. n -> {"1"}] : n \in 0 .. 3}

Request(ts, final, w) ==
    [text |-> File([i \in DOMAIN ts |-> Printed(ts[i])], final),
     machine |-> MachineOf(ts), word |-> w]

\* What execute refuses.
Broken(t) ==
    {<< >>, q \o << Newline >> \o acc,                       \* less than three lines
     File(<< Printed(t), << >> >>, TRUE),                    \* an empty last line
     File(<< Printed(t), Opening(t) >>, TRUE),               \* a line that is too short
     File(<< Opening(t), Printed(t) >>, TRUE),
     File(<< Printed(t), Opening(t) \o << "y", ")" >> >>, FALSE)}   \* no movement

MCRequests ==
    LET One == Transitions({"1", " "})
        Two == {ts \in [1 .. 2 -> One] : ts[1].current_state = q}
    IN {Request(ts, TRUE, w) : ts \in Two, w \in MCWords}
        \cup {Request(ts, FALSE, w) : ts \in UNION {[1 .. n -> One] : n \in 0 .. 1},
                                      w \in MCWords}
        \cup {Request(ts, FALSE, << ",", "(" >>) :
                ts \in [1 .. 1 -> Transitions({",", "("})]}
        \cup {[text |-> b, machine |-> NoMachine, word |-> << "1" >>] :
                b \in UNION {Broken(t) : t \in One}}
=============================================================================
