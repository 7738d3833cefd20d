--------------------------- MODULE MCConfChange ---------------------------
(***************************************************************************)
(* An instance of ConfChange for TLC: only the process itself is special.  *)
(***************************************************************************)
EXTENDS ConfChange

Symmetry == Permutations(Id \ {Self})
=============================================================================
