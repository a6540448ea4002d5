------------------------------ MODULE MCMemory ------------------------------
(* Blocks of eight bytes and nodes that leave every rest; more files than ids. *)
EXTENDS Memory
=============================================================================
