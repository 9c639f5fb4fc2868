----------------------------- MODULE LeadFilters -----------------------------
(***************************************************************************)
(* Which leads a filter matches, twice: in the table the user looks at and *)
(* in the export of "everything matching the current filter".              *)
(* Source: app/controllers/leads.py (list_leads), app/controllers/exports.py *)
(* (_selection_query), app/services/lead_filters.py, app/schemas/export.py. *)
(*                                                                         *)
(* A filter is a record with NULL for each parameter that is not given. A  *)
(* row is what the filters can tell of a lead; its names are the searches  *)
(* that would find it.                                                     *)
(***************************************************************************)
EXTENDS Naturals

CONSTANTS
  ICP_ACCEPT_THRESHOLD,
  NULL

ASSUME ThresholdAssumption == ICP_ACCEPT_THRESHOLD \in Nat

NoFilter == [search |-> NULL, source |-> NULL, has_email |-> NULL, finder_tried |-> NULL,
             email_from_finder |-> NULL, lead_tag |-> NULL, classified_industry |-> NULL,
             icp_accepted |-> NULL]

(* A parameter that is not given matches every lead. *)
Given(param, matches) == param = NULL \/ matches

(* In SQL neither score >= 60 nor its negation is true of a NULL score. *)
IcpSegment(accepted, row) ==
  /\ row.score # NULL
  /\ accepted <=> row.score >= ICP_ACCEPT_THRESHOLD

(* email_source is coalesced, so that False takes the leads without one. *)
EmailFromFinder(from, row) == from <=> row.email_source = "email_finder"

(* GET /leads *)
Listed(f, row) ==
  /\ Given(f.search, f.search \in row.names)
  /\ Given(f.source, f.source \in row.sources)
  /\ Given(f.has_email, f.has_email <=> row.email)
  /\ Given(f.finder_tried, f.finder_tried <=> row.tried)
  /\ Given(f.email_from_finder, EmailFromFinder(f.email_from_finder, row))
  /\ Given(f.lead_tag, row.lead_tag = f.lead_tag)
  /\ Given(f.classified_industry, row.industry = f.classified_industry)
  /\ Given(f.icp_accepted, IcpSegment(f.icp_accepted, row))

(* Mutated form: a lead that was never scored counts as rejected. *)
SelectedUnscored(f, row) ==
  /\ Given(f.search, f.search \in row.names)
  /\ Given(f.source, f.source \in row.sources)
  /\ Given(f.has_email, f.has_email <=> row.email)
  /\ Given(f.email_from_finder, EmailFromFinder(f.email_from_finder, row))
  /\ Given(f.lead_tag, row.lead_tag = f.lead_tag)
  /\ Given(f.classified_industry, row.industry = f.classified_industry)
  /\ Given(f.icp_accepted, (row.score = NULL /\ ~f.icp_accepted) \/ IcpSegment(f.icp_accepted, row))

(* POST /exports, of everything that matches: ExportSelection has no finder_tried, and
   the parameter that the table was filtered by is dropped.                          *)
Selected(f, row) ==
  /\ Given(f.search, f.search \in row.names)
  /\ Given(f.source, f.source \in row.sources)
  /\ Given(f.has_email, f.has_email <=> row.email)
  /\ Given(f.email_from_finder, EmailFromFinder(f.email_from_finder, row))
  /\ Given(f.lead_tag, row.lead_tag = f.lead_tag)
  /\ Given(f.classified_industry, row.industry = f.classified_industry)
  /\ Given(f.icp_accepted, IcpSegment(f.icp_accepted, row))
=============================================================================
