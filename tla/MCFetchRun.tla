----------------------------- MODULE MCFetchRun -----------------------------
(***************************************************************************)
(* FetchRun for TLC: workers, tenants and runs are interchangeable model   *)
(* values.                                                                 *)
(***************************************************************************)
EXTENDS FetchRun, TLC

Symmetry == Permutations(Worker) \cup Permutations(Tenant) \cup Permutations(RunId)
=============================================================================
