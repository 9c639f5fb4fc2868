------------------------------ MODULE MCListing ------------------------------
(* Three leads on two lists that share one, the youngest of them not there at the start. *)
EXTENDS Listing, TLC

MCInLists == 1 :> {"b"} @@ 2 :> {"a", "b"} @@ 3 :> {"b"}

MCAnswers == {[industry |-> "agency", score |-> 60], [industry |-> "shop", score |-> 59]}

Fact(name, email, tried, email_source) ==
  [names |-> {name, "all"}, sources |-> {"youtube"}, email |-> email, tried |-> tried,
   email_source |-> email_source, lead_tag |-> "agency_lead"]

(* The finder earned one email, a list supplied another, the third was never found. *)
MCFacts == 1 :> Fact("ann", TRUE, TRUE, "email_finder")
        @@ 2 :> Fact("ben", TRUE, FALSE, NULL)
        @@ 3 :> Fact("cat", FALSE, TRUE, NULL)

(* The leads without an email of the finder, scored or not, and those of the rejected segment. *)
MCFilters ==
  { [NoFilter EXCEPT !.lead_tag = "agency_lead", !.source = "youtube", !.email_from_finder = FALSE],
    [NoFilter EXCEPT !.search = "all", !.icp_accepted = FALSE] }
=============================================================================
