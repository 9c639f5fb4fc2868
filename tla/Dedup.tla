-------------------------------- MODULE Dedup --------------------------------
(***************************************************************************)
(* Which lead an uploaded row is, and what it adds to it: the tiers of     *)
(* exact matches, the normalized name+company key, and fill-if-null.       *)
(* Source: app/services/dedup.py, app/services/identity.py.                *)
(*                                                                         *)
(* A row or a lead is a function whose domain is the fields it has: a      *)
(* field outside the domain is NULL. first_name stands for first and last  *)
(* name. Fields that play no part in matching merge like any other and are *)
(* left out.                                                               *)
(***************************************************************************)
EXTENDS Naturals, Sequences, FiniteSets, PartialFunctions

CONSTANTS
  Values,   \* field values of uploaded rows
  Canon,    \* what lower-casing and stripping make of a value
  Blank     \* values without a letter a to z or a digit: nothing is left of them in a key

ASSUME CanonAssumption == Canon \in [Values -> Values]

(* The tiers, strongest first. *)
MatchOrder == <<"email", "social_linkedin", "youtube_channel_id", "youtube_handle",
                "youtube_channel_name", "identity_key", "clutch_profile_url",
                "podcast_id", "google_place_id">>

IdFields == {MatchOrder[i] : i \in DOMAIN MatchOrder}
Names == {"first_name", "company_name"}
Fields == IdFields \cup Names \cup {"email_source"}

Key(row) == <<Canon[row["first_name"]], Canon[row["company_name"]]>>

(* Mutated form: a name alone is a key. *)
CanonicalOfName(row) ==
  IF "first_name" \in DOMAIN row THEN Put(row, "identity_key", <<Canon[row["first_name"]]>>) ELSE row

(* The row with its identity_key: none unless both a name and a company are left when
   they are normalized.                                                            *)
Canonical(row) ==
  IF Names \subseteq DOMAIN row /\ \A f \in Names : row[f] \notin Blank
  THEN Put(row, "identity_key", Key(row)) ELSE row

(* Two tiers compare normalized values; the key was normalized when it was written. *)
Normalized(f, v) == IF f \in {"social_linkedin", "youtube_channel_name"} THEN Canon[v] ELSE v

Agree(f, row, lead) ==
  /\ f \in DOMAIN row /\ f \in DOMAIN lead
  /\ Normalized(f, row[f]) = Normalized(f, lead[f])

(* Mutated form: the email is not looked up. *)
FindWithoutEmail(row, table) ==
  {l \in DOMAIN table : \E i \in 2 .. Len(MatchOrder) : Agree(MatchOrder[i], row, table[l])}

(* The leads that agree with a row at the strongest tier at which any lead does: SELECT
   gives them in no order, and the first is taken.                                  *)
FindMatchingLead(row, table) ==
  {l \in DOMAIN table : \E i \in DOMAIN MatchOrder :
     /\ Agree(MatchOrder[i], row, table[l])
     /\ \A j \in 1 .. i - 1 : \A k \in DOMAIN table : ~Agree(MatchOrder[j], row, table[k])}

(* What a row adds to the lead it was matched to: the fields the lead does not have. *)
Fills(row, lead) == [f \in DOMAIN row \ DOMAIN lead |-> row[f]]
=============================================================================
