--------------------------- MODULE MCWarehouseSync ---------------------------
(***************************************************************************)
(* WarehouseSync for TLC: company A invoices company B, so that the        *)
(* sales of A and the purchases of B are the same invoices and each        *)
(* company is a party in what is synchronised for the other.               *)
(***************************************************************************)
EXTENDS WarehouseSync, TLC

CONSTANTS A, B

TwoCompanies == <<A, B>>
AllFromA == [i \in Invoice |-> A]
AllToB   == [i \in Invoice |-> B]

Symmetry == Permutations(Syncer) \cup Permutations(Invoice)
=============================================================================
