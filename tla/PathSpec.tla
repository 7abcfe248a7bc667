------------------------------ MODULE PathSpec ------------------------------
(***************************************************************************)
(* What a path of tp4 means, without a loop over its characters: the names *)
(* that remain when "." and ".." are taken away.  A path is a sequence of  *)
(* characters, "." and "/" among them.                                     *)
(***************************************************************************)
EXTENDS Integers, Sequences, FiniteSets, SequencesExt

CONSTANT UpperOf   \* the upper case of each character

ASSUME UpperAssumption ==
    /\ {".", "/"} \subseteq DOMAIN UpperOf
    /\ \A c \in DOMAIN UpperOf :
          /\ UpperOf[c] \in DOMAIN UpperOf
          /\ UpperOf[UpperOf[c]] = UpperOf[c]
          /\ c \in {".", "/"} => UpperOf[c] = c

Chars == DOMAIN UpperOf

Shortest(m, n) == IF m <= n THEN m ELSE n

Uppercase(s) == [i \in DOMAIN s |-> UpperOf[s[i]]]

Here == << "." >>
Up == << ".", "." >>

\* The numbers of a set in their order.
InOrder(S) ==
    CHOOSE s \in [1 .. Cardinality(S) -> S] : \A i, j \in DOMAIN s : i < j => s[i] < s[j]

\* The parts of a path are its longest runs without a slash.
StartsOf(path) ==
    {i \in DOMAIN path : path[i] # "/" /\ (i = 1 \/ path[i - 1] = "/")}

PartAt(path, i) ==
    SubSeq(path, i,
        CHOOSE j \in i .. Len(path) :
            /\ \A k \in i .. j : path[k] # "/"
            /\ j = Len(path) \/ path[j + 1] = "/")

Parts(path) ==
    LET starts == InOrder(StartsOf(path))
    IN [k \in DOMAIN starts |-> PartAt(path, starts[k])]

\* How deep in the tree the first j parts lead.
Depth(parts, j) ==
    Cardinality({k \in 1 .. j : parts[k] \notin {Here, Up}})
        - Cardinality({k \in 1 .. j : parts[k] = Up})

\* Some prefix of the path leads above the root.
Escapes(path) == \E j \in DOMAIN Parts(path) : Depth(Parts(path), j) < 0

\* The names that no later ".." leaves.
Resolved(path) ==
    LET parts == Parts(path)
        kept == {k \in DOMAIN parts :
                    /\ parts[k] \notin {Here, Up}
                    /\ \A j \in k .. Len(parts) : Depth(parts, j) >= Depth(parts, k)}
        order == InOrder(kept)
    IN [k \in DOMAIN order |-> Uppercase(parts[order[k]])]

\* A name has a base and, behind its first dot, an extension.
NameOf(part) ==
    LET dot == SelectInSeq(part, LAMBDA c : c = ".")
    IN IF dot = 0 THEN [base |-> Uppercase(part), ext |-> << >>]
       ELSE [base |-> Uppercase(SubSeq(part, 1, dot - 1)),
             ext  |-> Uppercase(SubSeq(part, dot + 1, Len(part)))]

\* The place in a tree of names that a path names.
PlaceOf(path) ==
    LET resolved == Resolved(path)
    IN [k \in DOMAIN resolved |-> NameOf(resolved[k])]

\* What a path goes on behind is a directory of the tree, also where a later
\* ".." leaves it again.
UsesDirectories(tree, path) ==
    \A i \in DOMAIN path :
        path[i] = "/" /\ (\E j \in i .. Len(path) : path[j] # "/") =>
            LET place == PlaceOf(SubSeq(path, 1, i - 1))
            IN place \in DOMAIN tree /\ tree[place].dir
=============================================================================
