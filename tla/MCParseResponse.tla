--------------------------- MODULE MCParseResponse ---------------------------
(***************************************************************************)
(* ParseResponse for TLC: two passes over every answer within the bounds.  *)
(***************************************************************************)
EXTENDS ParseResponse, TLC

Symmetry == Permutations(Pass) \cup Permutations(Id) \cup Permutations(HeaderSection)
=============================================================================
