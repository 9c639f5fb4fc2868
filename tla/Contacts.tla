------------------------------ MODULE Contacts ------------------------------
(***************************************************************************)
(* Who was contacted: an exports row and its export_leads members, written *)
(* by two doors, the export of a CSV and the upload of a list that was     *)
(* already sent.                                                           *)
(* Source: app/controllers/exports.py, app/services/contact_record.py,     *)
(* app/controllers/batches.py, app/controllers/leads.py (delete_lead).     *)
(*                                                                         *)
(* Each action ends at an await whose answer the handler uses later, or at *)
(* a commit. The CSV is written from the rows the handler has selected.    *)
(***************************************************************************)
EXTENDS Naturals, Sequences, FiniteSets

CONSTANTS
  Leads,       \* lead ids
  Requests,    \* exports and uploads that can be in flight at once
  MaxEvents,   \* bound: contact events
  MaxUploads,  \* bound: uploads
  MaxDeletes   \* bound: events and leads deleted

ASSUME LeadsFinite == IsFiniteSet(Leads)
ASSUME RequestsFinite == IsFiniteSet(Requests)
ASSUME ContactBounds == {MaxEvents, MaxUploads, MaxDeletes} \subseteq Nat

VARIABLES
  lead,     \* each lead: not in the table, in it without an email, or with one
  events,   \* exports with their members, in the order of their commits
  request,  \* the exports and uploads in flight
  csv,      \* the files users have been sent: <<event, leads in the file>>
  batches,  \* uploads committed: their leads, and what the user said of them
  deletes   \* events and leads deleted so far

vars == <<lead, events, request, csv, batches, deletes>>

(* How an event was asked for: an export that leaves out the leads exported before,
   one that includes them, or an upload.                                          *)
Doors == {"fresh", "again", "upload"}

Idle == [pc |-> "idle", door |-> "fresh", chosen |-> {}, id |-> 0]

Event(r) == [live |-> TRUE, door |-> request[r].door, count |-> Cardinality(request[r].chosen),
             members |-> request[r].chosen]

Exists(l) == lead[l] \in {"bare", "mailable"}
Mailable(l) == lead[l] = "mailable"

Init ==
  /\ lead = [l \in Leads |-> "absent"]
  /\ events = <<>>
  /\ request = [r \in Requests |-> Idle]
  /\ csv = {}
  /\ batches = <<>>
  /\ deletes = 0

-----------------------------------------------------------------------------
(* POST /exports *)

(* The query of the selection; the leads without an email are left out. *)
Select(r, selection, door) ==
  /\ request[r].pc = "idle"
  /\ door \in {"fresh", "again"}
  /\ \E l \in selection : Mailable(l)
  /\ request' = [request EXCEPT ![r] = [Idle EXCEPT !.pc = IF door = "again" THEN "record" ELSE "check",
                                                    !.door = door,
                                                    !.chosen = {l \in selection : Mailable(l)}]]
  /\ UNCHANGED <<lead, events, csv, batches, deletes>>

(* Mutated form: only the first chunk of ids is looked up. *)
ExportedFirstChunk(ids) ==
  {l \in ids : /\ ids = {l}
               /\ \E e \in DOMAIN events : l \in events[e].members}

(* The leads of a selection with a membership row in any event. *)
AlreadyExported(ids) == {l \in ids : \E e \in DOMAIN events : l \in events[e].members}

(* _already_exported_ids; 422 when nothing is left. *)
Check(r) ==
  /\ request[r].pc = "check"
  /\ LET left == request[r].chosen \ AlreadyExported(request[r].chosen) IN
     request' = [request EXCEPT ![r] = IF left = {} THEN Idle
                                       ELSE [@ EXCEPT !.pc = "record", !.chosen = left]]
  /\ UNCHANGED <<lead, events, csv, batches, deletes>>

(* Mutated form: the file goes out before the commit. *)
RecordAndSend(r) ==
  /\ request[r].pc = "record"
  /\ Len(events) < MaxEvents
  /\ csv' = csv \cup {<<Len(events) + 1, request[r].chosen>>}
  /\ events' = IF \A l \in request[r].chosen : Exists(l) THEN Append(events, Event(r))
               ELSE Append(events, [Event(r) EXCEPT !.members = {}])
  /\ request' = [request EXCEPT ![r] = Idle]
  /\ UNCHANGED <<lead, batches, deletes>>

(* record_contact_event and the commit. A lead deleted since it was selected breaks a
   foreign key, and the request fails with nothing recorded.                        *)
Record(r) ==
  /\ request[r].pc = "record"
  /\ Len(events) < MaxEvents
  /\ \/ /\ \A l \in request[r].chosen : Exists(l)
        /\ events' = Append(events, Event(r))
        /\ request' = [request EXCEPT ![r] = IF request[r].door = "upload" THEN Idle
                                             ELSE [@ EXCEPT !.pc = "stream", !.id = Len(events) + 1]]
     \/ /\ \E l \in request[r].chosen : ~Exists(l)
        /\ request' = [request EXCEPT ![r] = Idle]
        /\ UNCHANGED events
  /\ UNCHANGED <<lead, csv, batches, deletes>>

Stream(r) ==
  /\ request[r].pc = "stream"
  /\ csv' = csv \cup {<<request[r].id, request[r].chosen>>}
  /\ request' = [request EXCEPT ![r] = Idle]
  /\ UNCHANGED <<lead, events, batches, deletes>>

-----------------------------------------------------------------------------
(* POST /batches/upload with already_contacted: two transactions *)

(* The ingestion commits: new leads, merges that may bring an email, provenance. *)
Ingest(r, ids, said) ==
  /\ request[r].pc = "idle"
  /\ Len(batches) < MaxUploads
  /\ \A l \in ids : lead[l] # "deleted"
  /\ \E mailed \in SUBSET ids :
       lead' = [l \in Leads |-> IF l \notin ids THEN lead[l]
                                ELSE IF l \in mailed \/ Mailable(l) THEN "mailable" ELSE "bare"]
  /\ batches' = Append(batches, [leads |-> ids, said |-> said])
  /\ request' = [request EXCEPT ![r] = IF said THEN [Idle EXCEPT !.pc = "contacted", !.door = "upload",
                                                                 !.id = Len(batches) + 1] ELSE Idle]
  /\ UNCHANGED <<events, csv, deletes>>

(* The batch's leads that have an email by now. *)
ReadBatch(r) ==
  /\ request[r].pc = "contacted"
  /\ LET mailable == {l \in batches[request[r].id].leads : Mailable(l)} IN
     request' = [request EXCEPT ![r] = IF mailable = {} THEN Idle
                                       ELSE [@ EXCEPT !.pc = "record", !.chosen = mailable]]
  /\ UNCHANGED <<lead, events, csv, batches, deletes>>

-----------------------------------------------------------------------------
(* The server stops, or a handler fails, at any await. *)
Fail(r) ==
  /\ request[r].pc # "idle"
  /\ request' = [request EXCEPT ![r] = Idle]
  /\ UNCHANGED <<lead, events, csv, batches, deletes>>

(* Mutated form: the members of the event stay. *)
DeleteExportOnly(e) ==
  /\ deletes < MaxDeletes
  /\ events[e].live
  /\ events' = [events EXCEPT ![e].live = FALSE]
  /\ deletes' = deletes + 1
  /\ UNCHANGED <<lead, request, csv, batches>>

(* DELETE /exports/{id}: the members go with the event. *)
DeleteExport(e) ==
  /\ deletes < MaxDeletes
  /\ events[e].live
  /\ events' = [events EXCEPT ![e].live = FALSE, ![e].members = {}]
  /\ deletes' = deletes + 1
  /\ UNCHANGED <<lead, request, csv, batches>>

(* Mutated form: the event's count follows the deletion. *)
DeleteLeadRecounts(l) ==
  /\ deletes < MaxDeletes
  /\ Exists(l)
  /\ lead' = [lead EXCEPT ![l] = "deleted"]
  /\ events' = [e \in DOMAIN events |->
                  IF l \in events[e].members
                  THEN [events[e] EXCEPT !.members = @ \ {l}, !.count = @ - 1] ELSE events[e]]
  /\ batches' = [b \in DOMAIN batches |-> [batches[b] EXCEPT !.leads = @ \ {l}]]
  /\ deletes' = deletes + 1
  /\ UNCHANGED <<request, csv>>

(* DELETE /leads/{id}: its provenance and its memberships go first; counts stay. *)
DeleteLead(l) ==
  /\ deletes < MaxDeletes
  /\ Exists(l)
  /\ lead' = [lead EXCEPT ![l] = "deleted"]
  /\ events' = [e \in DOMAIN events |-> [events[e] EXCEPT !.members = @ \ {l}]]
  /\ batches' = [b \in DOMAIN batches |-> [batches[b] EXCEPT !.leads = @ \ {l}]]
  /\ deletes' = deletes + 1
  /\ UNCHANGED <<request, csv>>

(* The email finder fills an email; a requeue clears one (EnrichmentLedger). *)
EmailFound(l) ==
  /\ lead[l] = "bare"
  /\ lead' = [lead EXCEPT ![l] = "mailable"]
  /\ UNCHANGED <<events, request, csv, batches, deletes>>

EmailCleared(l) ==
  /\ Mailable(l)
  /\ lead' = [lead EXCEPT ![l] = "bare"]
  /\ UNCHANGED <<events, request, csv, batches, deletes>>

-----------------------------------------------------------------------------
Next ==
  \/ \E r \in Requests :
       \/ \E ids \in SUBSET Leads : \/ \E door \in Doors : Select(r, ids, door)
                                    \/ \E said \in BOOLEAN : Ingest(r, ids, said)
       \/ Check(r) \/ Record(r) \/ Stream(r) \/ ReadBatch(r) \/ Fail(r)
  \/ \E e \in DOMAIN events : DeleteExport(e)
  \/ \E l \in Leads : DeleteLead(l) \/ EmailFound(l) \/ EmailCleared(l)

Spec == Init /\ [][Next]_vars

-----------------------------------------------------------------------------
(* Properties *)

(* Types; members are leads of the table, and a deleted event has none. *)
TypeOK ==
  /\ lead \in [Leads -> {"absent", "bare", "mailable", "deleted"}]
  /\ \A e \in DOMAIN events :
       /\ events[e].door \in Doors
       /\ events[e].members \subseteq {l \in Leads : events[e].live /\ Exists(l)}
       /\ events[e].count \in Nat
  /\ \A r \in Requests :
       /\ request[r].pc \in {"idle", "check", "record", "stream", "contacted"}
       /\ request[r].chosen \subseteq Leads
  /\ csv \subseteq (1 .. MaxEvents) \X SUBSET Leads
  /\ \A b \in DOMAIN batches : batches[b].leads \subseteq {l \in Leads : Exists(l)}
  /\ deletes \in 0 .. MaxDeletes

(* "The contact record must be durable before the user has the CSV": whatever fails or
   is deleted meanwhile, the leads of a file are, as long as they and the event exist,
   exactly the event's members, and its count is the length of the file.            *)
FileIsOnRecord ==
  \A c \in csv :
    /\ c[1] \in DOMAIN events
    /\ events[c[1]].count = Cardinality(c[2])
    /\ events[c[1]].live => events[c[1]].members = {l \in c[2] : Exists(l)}

(* The record is history: as long as an event stands its count stays, and it loses only
   members that are deleted from the table.                                         *)
RecordIsHistory ==
  [][\A e \in DOMAIN events :
       /\ e \in DOMAIN events'
       /\ events'[e].count = events[e].count
       /\ events'[e].live => events'[e].members = {l \in events[e].members : Exists(l)'}]_vars

(* Exports that leave out the leads exported before choose a lead again only when they
   overlap: what stands of them and what is about to be recorded is never more than
   the requests that can run at once. One at a time never contacts a lead twice.    *)
RepeatsBounded ==
  \A l \in Leads :
    Cardinality({e \in DOMAIN events : events[e].door = "fresh" /\ l \in events[e].members})
      + Cardinality({r \in Requests : /\ request[r].pc = "record"
                                      /\ request[r].door = "fresh"
                                      /\ l \in request[r].chosen})
      <= Cardinality(Requests)
=============================================================================
