----------------------------- MODULE MCIteration -----------------------------
(* Integers of four bits, literals of the low half, and with them every expression *)
(* that can be built of them, whatever its length.                                 *)
EXTENDS Iteration

MCLiterals == {0, 1, 2, 3, 5, 7}
=============================================================================
