--------------------------- MODULE MCMainProgram ---------------------------
(***************************************************************************)
(* A small instance of MainProgram: the two creations and one other admin  *)
(* command, one command left in each queue by the programs before, one     *)
(* vector table, one error number.                                         *)
(***************************************************************************)
EXTENDS MainProgram

MCMsixValues == {63}
MCErrors == {1}
MCNAdmin == 3
MCMaxLeft == 1
=============================================================================
