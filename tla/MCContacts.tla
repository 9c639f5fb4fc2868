----------------------------- MODULE MCContacts -----------------------------
(* Instances of Contacts for TLC. *)
EXTENDS Contacts, TLC

CONSTANTS l1, l2, r1, r2

TwoLeads == {l1, l2}
TwoRequests == {r1, r2}

(* Leads are interchangeable, and so are requests. *)
Symmetry == Permutations(TwoLeads) \cup Permutations(TwoRequests)
=============================================================================
