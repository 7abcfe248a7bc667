--------------------------- MODULE MCLinkedQueue ----------------------------
(***************************************************************************)
(* Small instances of LinkedQueue: three processes, two of them with equal *)
(* keys, and four nodes, which bounds the list.                            *)
(***************************************************************************)
EXTENDS LinkedQueue

CONSTANTS p1, p2, p3

MCKey == p1 :> 1 @@ p2 :> 2 @@ p3 :> 2
=============================================================================
