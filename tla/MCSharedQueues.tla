--------------------------- MODULE MCSharedQueues ---------------------------
(***************************************************************************)
(* A small instance of SharedQueues: more commands than the ring takes.    *)
(***************************************************************************)
EXTENDS SharedQueues, TLC

CONSTANTS p1, p2, c1, c2, c3

MCPrograms == {p1, p2}
MCCommands == {c1, c2, c3}
Symmetry == Permutations(MCPrograms) \cup Permutations(MCCommands)
=============================================================================
