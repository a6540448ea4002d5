--------------------------- MODULE MCScopeTable ---------------------------
(***************************************************************************)
(* Model checking of ScopeTable. Lookup treats names alike and nodes alike,*)
(* so both sets are symmetric.                                             *)
(***************************************************************************)
EXTENDS ScopeTable, TLC

Symmetry == Permutations(Name) \cup Permutations(Node)
=============================================================================
