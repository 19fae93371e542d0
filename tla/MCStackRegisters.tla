-------------------------- MODULE MCStackRegisters --------------------------
(***************************************************************************)
(* A stack that has grown down to the addresses 0170000 to 0170007 of its  *)
(* user: not Hosted, and the theorems of GuestProofs do not hold of it.    *)
(***************************************************************************)
EXTENDS GuestRoutines

Width == 8

DeepCells == {Pseudo - 2, Pseudo, Pseudo + 2, Pseudo + 4}
DeepRoutines == {Save(Pseudo + 6)}
DeepInputs == {0, 1, 255}
=============================================================================
