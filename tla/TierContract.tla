---------------------------- MODULE TierContract ----------------------------
(***************************************************************************)
(* What the ledger promises whoever pays for the searches, without rows,   *)
(* emails or transactions: of each lead at each tier, how many attempts    *)
(* are in force, how many of them settle it, and how many items are out.   *)
(*                                                                         *)
(* An item is handed out only where nothing is settled and the retries are *)
(* not used up; every attempt in force was an item; and nothing but a      *)
(* withdrawal at that tier, or the lead's deletion, takes an attempt out   *)
(* of force. EnrichmentLedger implements it.                               *)
(***************************************************************************)
EXTENDS Naturals

CONSTANTS Leads, Tiers, MAX_FAILED_RETRIES

VARIABLES
  spent,    \* attempts in force
  settled,  \* verdicts in force
  out       \* items handed out and not come back

cvars == <<spent, settled, out>>

None == [l \in Leads |-> [t \in Tiers |-> 0]]

Init == spent = None /\ settled = None /\ out = None

(* An item is handed out. *)
Hand(l, t) ==
  /\ settled[l][t] = 0
  /\ spent[l][t] < MAX_FAILED_RETRIES
  /\ out' = [out EXCEPT ![l][t] = @ + 1]
  /\ UNCHANGED <<spent, settled>>

(* An item is lost, or comes back for a lead that is gone. *)
Lose(l, t) ==
  /\ out[l][t] > 0
  /\ out' = [out EXCEPT ![l][t] = @ - 1]
  /\ UNCHANGED <<spent, settled>>

(* An item comes back with a failure or with a verdict, and is on record. *)
Return(l, t) ==
  /\ out[l][t] > 0
  /\ out' = [out EXCEPT ![l][t] = @ - 1]
  /\ spent' = [spent EXCEPT ![l][t] = @ + 1]
  /\ \/ settled' = settled
     \/ settled' = [settled EXCEPT ![l][t] = @ + 1]

(* Attempts of some leads at one tier are withdrawn. *)
Withdraw(ids, t) ==
  /\ \A l \in Leads, u \in Tiers :
       IF l \in ids /\ u = t
       THEN spent'[l][u] <= spent[l][u] /\ settled'[l][u] <= settled[l][u]
       ELSE spent'[l][u] = spent[l][u] /\ settled'[l][u] = settled[l][u]
  /\ UNCHANGED out

(* A lead is deleted with its attempts. Items that are out for it stay out. *)
Forget(l) ==
  /\ spent' = [spent EXCEPT ![l] = [t \in Tiers |-> 0]]
  /\ settled' = [settled EXCEPT ![l] = [t \in Tiers |-> 0]]
  /\ UNCHANGED out

Next ==
  \/ \E l \in Leads, t \in Tiers : Hand(l, t) \/ Lose(l, t) \/ Return(l, t)
  \/ \E ids \in SUBSET Leads, t \in Tiers : Withdraw(ids, t)
  \/ \E l \in Leads : Forget(l)

Spec == Init /\ [][Next]_cvars
=============================================================================
