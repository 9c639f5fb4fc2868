------------------------- MODULE MCEnrichmentLedger -------------------------
(* Instances of EnrichmentLedger for TLC. *)
EXTENDS EnrichmentLedger, TLC

CONSTANTS w1, w2, f1, f2, u1, j1

OneLead == {1}
TwoLeads == {1, 2}
OneList == {{1}}
BothLeads == {{1, 2}}
TwoLists == {{1, 2}, {2}}

TwoWorkers == {w1, w2}
OneWorker == {w1}

(* Finders and the addresses they earn are interchangeable. *)
Symmetry == Permutations({w1, w2}) \cup Permutations({f1, f2})
=============================================================================
