------------------------------ MODULE FileTree ------------------------------
(***************************************************************************)
(* What the functions of tp4 promise: a volume is a tree of names, a path  *)
(* is looked up in it, and a file that was found is read up to a length.   *)
(***************************************************************************)
EXTENDS PathSpec

VARIABLES
    tree,                  \* from lists of names to [dir, content]
    path, max_len,         \* the request
    status,                \* "asked", "found", "done" or "error"
    content                \* what was read

vars == << tree, path, max_len, status, content >>

\* What is not the root is in a directory.
IsTree(t) ==
    \A place \in DOMAIN t \ {<< >>} :
        LET parent == SubSeq(place, 1, Len(place) - 1)
        IN parent \in DOMAIN t /\ t[parent].dir

Init ==
    /\ IsTree(tree)
    /\ path \in Seq(Chars)
    /\ max_len \in Nat
    /\ status = "asked"
    /\ content = << >>

\* The place of the path in the tree.
Place == PlaceOf(path)

\* A path that uses a file as a directory does not work (tp4/README.md:171).
Exists ==
    /\ ~Escapes(path)
    /\ Place \in DOMAIN tree
    /\ UsesDirectories(tree, path)

Find ==
    /\ status = "asked" /\ status' = "found"
    /\ Exists
    /\ UNCHANGED << tree, path, max_len, content >>

Fail ==
    /\ status = "asked" /\ status' = "error"
    /\ ~Exists
    /\ UNCHANGED << tree, path, max_len, content >>

\* The start of the file.
Wanted ==
    SubSeq(tree[Place].content, 1, Shortest(max_len, Len(tree[Place].content)))

Read ==
    /\ status = "found"
    /\ ~tree[Place].dir
    /\ content' = Wanted
    /\ status' = "done"
    /\ UNCHANGED << tree, path, max_len >>

Next == Find \/ Fail \/ Read

Spec == Init /\ [][Next]_vars
=============================================================================
