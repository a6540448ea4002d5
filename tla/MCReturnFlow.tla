--------------------------- MODULE MCReturnFlow ---------------------------
(***************************************************************************)
(* Model checking of ReturnFlow. No names, nodes or imports are needed:    *)
(* the visitors of this module only use the levels and their flags.        *)
(***************************************************************************)
EXTENDS ReturnFlow
=============================================================================
