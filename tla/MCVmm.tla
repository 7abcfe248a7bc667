------------------------------- MODULE MCVmm --------------------------------
(***************************************************************************)
(* Small instances of Vmm for TLC.                                         *)
(***************************************************************************)
EXTENDS Vmm
LOCAL INSTANCE TLC

CONSTANTS a, b

\* No character is treated in a way of its own.
Symmetry == Permutations(Char)
=============================================================================
