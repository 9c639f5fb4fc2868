--------------------------- MODULE ContactsProofs ---------------------------
(* Theorems about Contacts, for every value of its constants. *)
EXTENDS Contacts, TLAPS, FiniteSetTheorems

-----------------------------------------------------------------------------
(* Types, sharp enough to be inductive *)

LeadStates == {"absent", "bare", "mailable", "deleted"}
EventRow == [live : BOOLEAN, door : Doors, count : Nat, members : SUBSET Leads]
RequestRow == [pc : {"idle", "check", "record", "stream", "contacted"}, door : Doors,
               chosen : SUBSET Leads, id : Nat]
BatchRow == [leads : SUBSET Leads, said : BOOLEAN]

Shape ==
  /\ lead \in [Leads -> LeadStates]
  /\ events \in Seq(EventRow) /\ Len(events) <= MaxEvents
  /\ request \in [Requests -> RequestRow]
  /\ batches \in Seq(BatchRow)
  /\ csv \subseteq (1 .. MaxEvents) \X SUBSET Leads
  /\ deletes \in 0 .. MaxDeletes

(* A lead that is deleted does not come back: so whatever refers to a lead has to refer to
   one that was in the table, or a file would grow when it came in.                      *)
Known ==
  /\ \A e \in DOMAIN events : events[e].members \subseteq {l \in Leads : events[e].live /\ Exists(l)}
  /\ \A b \in DOMAIN batches : batches[b].leads \subseteq {l \in Leads : Exists(l)}
  /\ \A r \in Requests : \A l \in request[r].chosen : lead[l] # "absent"
  /\ \A c \in csv : \A l \in c[2] : lead[l] # "absent"
  /\ \A r \in Requests :
       /\ request[r].pc = "contacted" => request[r].id \in DOMAIN batches /\ request[r].door = "upload"
       /\ request[r].pc = "stream" => request[r].id \in DOMAIN events

TypeInv == Shape /\ Known

Deleting == \E l \in Leads : DeleteLead(l)

LEMMA ChosenFinite ==
  ASSUME Shape, NEW r \in Requests
  PROVE  Cardinality(request[r].chosen) \in Nat
<1>1. request[r].chosen \subseteq Leads
  BY DEF Shape, RequestRow
<1> QED BY <1>1, LeadsFinite, FS_Subset, FS_CardinalityType

LEMMA ShapeNext == Shape /\ Known /\ [Next]_vars => Shape'
<1> SUFFICES ASSUME Shape, Known, [Next]_vars PROVE Shape'
  OBVIOUS
<1> USE DEF Shape, LeadStates, RequestRow
<1>1. Idle \in RequestRow
  BY DEF Idle, Doors
<1>2. ASSUME NEW r \in Requests, NEW ids \in SUBSET Leads, NEW door \in Doors, Select(r, ids, door)
      PROVE  Shape'
  <2>1. [Idle EXCEPT !.pc = IF door = "again" THEN "record" ELSE "check", !.door = door,
                     !.chosen = {l \in ids : Mailable(l)}] \in RequestRow
    BY DEF Idle
  <2> QED BY <1>2, <2>1 DEF Select
<1>3. ASSUME NEW r \in Requests, NEW ids \in SUBSET Leads, NEW said \in BOOLEAN, Ingest(r, ids, said)
      PROVE  Shape'
  <2>1. lead' \in [Leads -> LeadStates]
    BY <1>3 DEF Ingest, Mailable
  <2>2. batches' \in Seq(BatchRow)
    <3>1. [leads |-> ids, said |-> said] \in BatchRow
      BY DEF BatchRow
    <3> QED BY <1>3, <3>1 DEF Ingest
  <2>3. request' \in [Requests -> RequestRow]
    <3>1. Len(batches) + 1 \in Nat
      OBVIOUS
    <3>2. [Idle EXCEPT !.pc = "contacted", !.door = "upload", !.id = Len(batches) + 1] \in RequestRow
      BY <3>1 DEF Idle, Doors
    <3> QED BY <1>1, <1>3, <3>2 DEF Ingest
  <2> QED BY <1>3, <2>1, <2>2, <2>3 DEF Ingest
<1>4. ASSUME NEW r \in Requests, Check(r) PROVE Shape'
  BY <1>1, <1>4 DEF Check
<1>5. ASSUME NEW r \in Requests, Record(r) PROVE Shape'
  <2>1. Event(r) \in EventRow
    BY ChosenFinite DEF Event, EventRow
  <2>2. events' \in Seq(EventRow) /\ Len(events') <= MaxEvents
    <3>1. events' = events \/ events' = Append(events, Event(r))
      BY <1>5 DEF Record
    <3>2. Len(events) < MaxEvents /\ MaxEvents \in Nat
      BY <1>5, ContactBounds DEF Record
    <3>3. Append(events, Event(r)) \in Seq(EventRow) /\ Len(Append(events, Event(r))) = Len(events) + 1
      BY <2>1
    <3>4. Len(events) \in Nat
      OBVIOUS
    <3>5. CASE events' = events
      BY <3>2, <3>5
    <3>6. CASE events' = Append(events, Event(r))
      <4>1. Len(events') = Len(events) + 1 /\ events' \in Seq(EventRow)
        BY <3>3, <3>6
      <4>2. Len(events) + 1 <= MaxEvents
        BY <3>2, <3>4
      <4> QED BY <4>1, <4>2
    <3> QED BY <3>1, <3>5, <3>6
  <2>3. request' \in [Requests -> RequestRow]
    <3>1. Len(events) + 1 \in Nat
      OBVIOUS
    <3>2. [request[r] EXCEPT !.pc = "stream", !.id = Len(events) + 1] \in RequestRow
      BY <3>1
    <3>3. \/ request' = [request EXCEPT ![r] = Idle]
          \/ request' = [request EXCEPT ![r] = [request[r] EXCEPT !.pc = "stream", !.id = Len(events) + 1]]
      BY <1>5 DEF Record
    <3> HIDE DEF RequestRow
    <3> QED BY <1>1, <3>2, <3>3
  <2> QED BY <1>5, <2>2, <2>3 DEF Record
<1>6. ASSUME NEW r \in Requests, Stream(r) PROVE Shape'
  <2>1. request[r].id \in DOMAIN events /\ DOMAIN events = 1 .. Len(events)
    BY <1>6 DEF Stream, Known
  <2>2. request[r].id \in 1 .. MaxEvents
    BY <2>1, ContactBounds
  <2>3. csv' \subseteq (1 .. MaxEvents) \X SUBSET Leads
    BY <1>6, <2>2 DEF Stream
  <2> QED BY <1>1, <1>6, <2>3 DEF Stream
<1>7. ASSUME NEW r \in Requests, ReadBatch(r) PROVE Shape'
  <2>1. {l \in batches[request[r].id].leads : Mailable(l)} \subseteq Leads
    BY <1>7 DEF ReadBatch, Known
  <2> QED BY <1>1, <1>7, <2>1 DEF ReadBatch
<1>8. ASSUME NEW r \in Requests, Fail(r) PROVE Shape'
  BY <1>1, <1>8 DEF Fail
<1>9. ASSUME NEW e \in DOMAIN events, DeleteExport(e) PROVE Shape'
  <2>1. [events[e] EXCEPT !.live = FALSE, !.members = {}] \in EventRow
    <3>1. events[e] \in EventRow
      OBVIOUS
    <3> QED BY <3>1 DEF EventRow
  <2>2. events' \in Seq(EventRow) /\ Len(events') = Len(events)
    <3>1. events' = [events EXCEPT ![e] = [events[e] EXCEPT !.live = FALSE, !.members = {}]]
      BY <1>9 DEF DeleteExport
    <3>2. events \in [1 .. Len(events) -> EventRow] /\ Len(events) \in Nat
      OBVIOUS
    <3>3. events' \in [1 .. Len(events) -> EventRow]
      BY <2>1, <3>1, <3>2
    <3> QED BY <3>2, <3>3
  <2> QED BY <1>9, <2>2, ContactBounds DEF DeleteExport
<1>10. ASSUME NEW l \in Leads, DeleteLead(l) PROVE Shape'
  <2>1. events' \in Seq(EventRow) /\ Len(events') = Len(events)
    <3>1. ASSUME NEW e \in DOMAIN events
          PROVE  [events[e] EXCEPT !.members = @ \ {l}] \in EventRow
      <4>1. events[e] \in EventRow
        OBVIOUS
      <4> QED BY <4>1 DEF EventRow
    <3>2. events' = [e \in 1 .. Len(events) |-> [events[e] EXCEPT !.members = @ \ {l}]]
      BY <1>10 DEF DeleteLead
    <3>3. \A e \in 1 .. Len(events) : events'[e] \in EventRow
      BY <3>1, <3>2
    <3> QED BY <3>2, <3>3
  <2>2. batches' \in Seq(BatchRow)
    <3>1. ASSUME NEW b \in DOMAIN batches
          PROVE  [batches[b] EXCEPT !.leads = @ \ {l}] \in BatchRow
      <4>1. batches[b] \in BatchRow
        OBVIOUS
      <4> QED BY <4>1 DEF BatchRow
    <3>2. batches' = [b \in 1 .. Len(batches) |-> [batches[b] EXCEPT !.leads = @ \ {l}]]
      BY <1>10 DEF DeleteLead
    <3>3. \A b \in 1 .. Len(batches) : batches'[b] \in BatchRow
      BY <3>1, <3>2
    <3>4. batches' = [b \in 1 .. Len(batches) |-> batches'[b]] /\ Len(batches) \in Nat
      BY <3>2
    <3> QED BY <3>3, <3>4
  <2> QED BY <1>10, <2>1, <2>2, ContactBounds DEF DeleteLead
<1>11. ASSUME NEW l \in Leads, EmailFound(l) \/ EmailCleared(l) PROVE Shape'
  BY <1>11 DEF EmailFound, EmailCleared
<1>12. CASE UNCHANGED vars
  BY <1>12 DEF vars
<1> QED BY <1>2, <1>3, <1>4, <1>5, <1>6, <1>7, <1>8, <1>9, <1>10, <1>11, <1>12 DEF Next

(* What a step can do to a lead: it is never absent again, it goes by its deletion only,
   and does not come back.                                                             *)
LEMMA LeadSteps ==
  ASSUME TypeInv, [Next]_vars, NEW l \in Leads
  PROVE  /\ lead[l] # "absent" => lead'[l] # "absent"
         /\ Exists(l) => Exists(l)' \/ DeleteLead(l)
         /\ lead[l] = "deleted" => lead'[l] = "deleted"
<1> USE DEF TypeInv, Shape, LeadStates, Exists, Mailable
<1>1. ASSUME NEW r \in Requests, NEW ids \in SUBSET Leads, NEW said \in BOOLEAN, Ingest(r, ids, said)
      PROVE  /\ lead[l] # "absent" => lead'[l] # "absent"
             /\ Exists(l) => Exists(l)'
             /\ lead[l] = "deleted" => lead'[l] = "deleted"
  BY <1>1 DEF Ingest
<1>2. ASSUME NEW k \in Leads, DeleteLead(k) \/ EmailFound(k) \/ EmailCleared(k)
      PROVE  /\ lead[l] # "absent" => lead'[l] # "absent"
             /\ Exists(l) => Exists(l)' \/ DeleteLead(l)
             /\ lead[l] = "deleted" => lead'[l] = "deleted"
  BY <1>2 DEF DeleteLead, EmailFound, EmailCleared
<1>3. CASE UNCHANGED lead
  BY <1>3
<1> QED BY <1>1, <1>2, <1>3
  DEF Next, vars, Select, Check, Record, Stream, ReadBatch, Fail, DeleteExport

(* What a step can do to the events. *)
LEMMA EventSteps ==
  ASSUME [Next]_vars
  PROVE  \/ UNCHANGED events /\ ~Deleting
         \/ \E r \in Requests :
              /\ Record(r)
              /\ events' = Append(events, Event(r))
              /\ \A l \in request[r].chosen : Exists(l)
              /\ UNCHANGED lead
         \/ \E e \in DOMAIN events : DeleteExport(e)
         \/ Deleting
BY DEF Deleting, Next, vars, Select, Ingest, Check, Record, Stream, ReadBatch, Fail,
       EmailFound, EmailCleared

(* A request changes by a step of its own. *)
LEMMA RequestSteps ==
  ASSUME TypeInv, [Next]_vars, NEW r \in Requests
  PROVE  \/ request'[r] = request[r]
         \/ \E ids \in SUBSET Leads : \/ \E door \in Doors : Select(r, ids, door)
                                      \/ \E said \in BOOLEAN : Ingest(r, ids, said)
         \/ Check(r) \/ Record(r) \/ Stream(r) \/ ReadBatch(r) \/ Fail(r)
<1> DEFINE Step(s) ==
      \/ \E ids \in SUBSET Leads : \/ \E door \in Doors : Select(s, ids, door)
                                   \/ \E said \in BOOLEAN : Ingest(s, ids, said)
      \/ Check(s) \/ Record(s) \/ Stream(s) \/ ReadBatch(s) \/ Fail(s)
<1>1. UNCHANGED request \/ \E s \in Requests : Step(s)
  BY DEF Next, vars, DeleteExport, DeleteLead, EmailFound, EmailCleared
<1>2. ASSUME NEW s \in Requests, Step(s), s # r PROVE request'[r] = request[r]
  <2>1. ASSUME NEW ids, NEW door, Select(s, ids, door) PROVE request'[r] = request[r]
    BY <1>2, <2>1 DEF Select, TypeInv, Shape
  <2>2. ASSUME NEW ids, NEW said, Ingest(s, ids, said) PROVE request'[r] = request[r]
    BY <1>2, <2>2 DEF Ingest, TypeInv, Shape
  <2>3. ASSUME Check(s) PROVE request'[r] = request[r]
    BY <1>2, <2>3 DEF Check, TypeInv, Shape
  <2>4. ASSUME Record(s) PROVE request'[r] = request[r]
    <3>1. \E x : request' = [request EXCEPT ![s] = x]
      BY <2>4 DEF Record
    <3> QED BY <1>2, <3>1 DEF TypeInv, Shape
  <2>5. ASSUME Stream(s) \/ Fail(s) PROVE request'[r] = request[r]
    BY <1>2, <2>5 DEF Stream, Fail, TypeInv, Shape
  <2>6. ASSUME ReadBatch(s) PROVE request'[r] = request[r]
    BY <1>2, <2>6 DEF ReadBatch, TypeInv, Shape
  <2> QED BY <1>2, <2>1, <2>2, <2>3, <2>4, <2>5, <2>6
<1> QED BY <1>1, <1>2

(* Where a request can be after its step, and with what. *)
LEMMA RequestMoves ==
  ASSUME TypeInv, [Next]_vars, NEW r \in Requests, request'[r] # request[r]
  PROVE  /\ \A l \in request'[r].chosen : l \in request[r].chosen \/ (Mailable(l) /\ UNCHANGED lead)
         /\ request'[r].pc = "contacted" =>
              /\ request'[r].id = Len(batches) + 1 /\ request'[r].door = "upload"
              /\ \E x : batches' = Append(batches, x)
         /\ request'[r].pc = "stream" =>
              /\ Record(r)
              /\ request'[r].id = Len(events) + 1
              /\ request'[r].chosen = request[r].chosen
              /\ events' = Append(events, Event(r))
              /\ \A l \in request[r].chosen : Exists(l)
<1> USE DEF TypeInv, Shape, RequestRow, Idle
<1>1. ASSUME NEW ids \in SUBSET Leads, NEW door \in Doors, Select(r, ids, door)
      PROVE  /\ \A l \in request'[r].chosen : Mailable(l) /\ UNCHANGED lead
             /\ request'[r].pc \in {"record", "check"}
  BY <1>1 DEF Select
<1>2. ASSUME NEW ids \in SUBSET Leads, NEW said \in BOOLEAN, Ingest(r, ids, said)
      PROVE  /\ request'[r].chosen = {}
             /\ request'[r].pc # "stream"
             /\ request'[r].pc = "contacted" =>
                  /\ request'[r].id = Len(batches) + 1 /\ request'[r].door = "upload"
                  /\ \E x : batches' = Append(batches, x)
  BY <1>2 DEF Ingest
<1>3. ASSUME Check(r)
      PROVE  /\ request'[r].chosen \subseteq request[r].chosen
             /\ request'[r].pc \in {"idle", "record"}
  BY <1>3 DEF Check
<1>4. ASSUME Record(r)
      PROVE  \/ request'[r] = Idle
             \/ /\ request'[r].pc = "stream" /\ request'[r].id = Len(events) + 1
                /\ request'[r].chosen = request[r].chosen
                /\ events' = Append(events, Event(r))
                /\ \A l \in request[r].chosen : Exists(l)
  <2>1. \/ request' = [request EXCEPT ![r] = Idle]
        \/ /\ request' = [request EXCEPT ![r] = [request[r] EXCEPT !.pc = "stream", !.id = Len(events) + 1]]
           /\ events' = Append(events, Event(r))
           /\ \A l \in request[r].chosen : Exists(l)
    BY <1>4 DEF Record
  <2> QED BY <2>1
<1>5. ASSUME Stream(r) \/ Fail(r) PROVE request'[r] = Idle
  BY <1>5 DEF Stream, Fail
<1>6. ASSUME ReadBatch(r)
      PROVE  /\ \A l \in request'[r].chosen : Mailable(l) /\ UNCHANGED lead
             /\ request'[r].pc \in {"idle", "record"}
  BY <1>6 DEF ReadBatch
<1>7. CASE Record(r)
  BY <1>4, <1>7
<1>8. CASE Check(r)
  BY <1>3, <1>8
<1>9. CASE ReadBatch(r)
  BY <1>6, <1>9
<1>10. CASE Stream(r) \/ Fail(r)
  BY <1>5, <1>10
<1> QED BY <1>1, <1>2, <1>7, <1>8, <1>9, <1>10, RequestSteps

LEMMA KnownNext == TypeInv /\ [Next]_vars => Known'
<1> SUFFICES ASSUME TypeInv, [Next]_vars PROVE Known'
  OBVIOUS
<1>1. \A e \in DOMAIN events' : events'[e].members \subseteq {l \in Leads : events'[e].live /\ Exists(l)'}
  <2>1. CASE UNCHANGED events /\ ~Deleting
    BY <2>1, LeadSteps DEF TypeInv, Known, Deleting
  <2>2. ASSUME NEW r \in Requests, events' = Append(events, Event(r)), UNCHANGED lead,
               \A l \in request[r].chosen : Exists(l), NEW e \in DOMAIN events'
        PROVE  events'[e].members \subseteq {l \in Leads : events'[e].live /\ Exists(l)'}
    <3>1. request[r].chosen \subseteq Leads
      BY DEF TypeInv, Shape, RequestRow
    <3>2. CASE e \in DOMAIN events
      <4>1. events'[e] = events[e]
        BY <2>2, <3>2 DEF TypeInv, Shape
      <4> QED BY <2>2, <3>2, <4>1 DEF TypeInv, Known, Exists
    <3>3. CASE e \notin DOMAIN events
      <4>1. events'[e] = Event(r)
        BY <2>2, <3>3 DEF TypeInv, Shape
      <4> QED BY <2>2, <3>1, <4>1 DEF Event, Exists
    <3> QED BY <3>2, <3>3
  <2>3. ASSUME NEW e \in DOMAIN events, DeleteExport(e)
        PROVE  \A f \in DOMAIN events' : events'[f].members \subseteq {l \in Leads : events'[f].live /\ Exists(l)'}
    <3>1. DOMAIN events' = DOMAIN events /\ UNCHANGED lead
      BY <2>3 DEF DeleteExport
    <3>2. events' = [events EXCEPT ![e] = [events[e] EXCEPT !.live = FALSE, !.members = {}]]
      BY <2>3 DEF DeleteExport
    <3>4. events'[e].members = {}
      <4>1. events[e] \in EventRow
        BY DEF TypeInv, Shape
      <4>2. events'[e] = [events[e] EXCEPT !.live = FALSE, !.members = {}]
        BY <3>2 DEF TypeInv, Shape
      <4> QED BY <4>1, <4>2 DEF EventRow
    <3>3. \A f \in DOMAIN events \ {e} : events'[f] = events[f]
      BY <2>3 DEF DeleteExport
    <3> QED BY <3>1, <3>3, <3>4 DEF TypeInv, Known, Exists
  <2>4. ASSUME NEW l \in Leads, DeleteLead(l), NEW e \in DOMAIN events'
        PROVE  events'[e].members \subseteq {k \in Leads : events'[e].live /\ Exists(k)'}
    <3>1. e \in DOMAIN events /\ events'[e] = [events[e] EXCEPT !.members = @ \ {l}]
      BY <2>4 DEF DeleteLead
    <3>2. events[e] \in EventRow
      BY <3>1 DEF TypeInv, Shape
    <3>3. events'[e].members = events[e].members \ {l} /\ events'[e].live = events[e].live
      BY <3>1, <3>2 DEF EventRow
    <3>4. \A k \in Leads \ {l} : lead'[k] = lead[k]
      BY <2>4 DEF DeleteLead, TypeInv, Shape
    <3> QED BY <3>1, <3>3, <3>4 DEF TypeInv, Known, Exists
  <2> QED BY <2>1, <2>2, <2>3, <2>4, EventSteps DEF Deleting
<1>2. \A b \in DOMAIN batches' : batches'[b].leads \subseteq {l \in Leads : Exists(l)'}
  <2>1. CASE UNCHANGED batches /\ ~Deleting
    BY <2>1, LeadSteps DEF TypeInv, Known, Deleting
  <2>2. ASSUME NEW r \in Requests, NEW ids \in SUBSET Leads, NEW said \in BOOLEAN,
               Ingest(r, ids, said), NEW b \in DOMAIN batches'
        PROVE  batches'[b].leads \subseteq {l \in Leads : Exists(l)'}
    <3>1. \A l \in ids : Exists(l)'
      BY <2>2 DEF Ingest, Exists
    <3>2. \A l \in Leads : Exists(l) => Exists(l)'
      BY <2>2 DEF Ingest, Exists, Mailable
    <3>3. CASE b \in DOMAIN batches
      <4>1. batches'[b] = batches[b]
        BY <2>2, <3>3 DEF Ingest, TypeInv, Shape
      <4> QED BY <3>2, <3>3, <4>1 DEF TypeInv, Known
    <3>4. CASE b \notin DOMAIN batches
      <4>1. batches'[b].leads = ids
        BY <2>2, <3>4 DEF Ingest, TypeInv, Shape
      <4> QED BY <3>1, <4>1
    <3> QED BY <3>3, <3>4
  <2>3. ASSUME NEW l \in Leads, DeleteLead(l), NEW b \in DOMAIN batches'
        PROVE  batches'[b].leads \subseteq {k \in Leads : Exists(k)'}
    <3>1. b \in DOMAIN batches /\ batches'[b] = [batches[b] EXCEPT !.leads = @ \ {l}]
      BY <2>3 DEF DeleteLead
    <3>2. batches[b] \in BatchRow
      BY <3>1 DEF TypeInv, Shape
    <3>3. batches'[b].leads = batches[b].leads \ {l}
      BY <3>1, <3>2 DEF BatchRow
    <3>4. \A k \in Leads \ {l} : lead'[k] = lead[k]
      BY <2>3 DEF DeleteLead, TypeInv, Shape
    <3> QED BY <3>1, <3>3, <3>4 DEF TypeInv, Known, Exists
  <2>4. \/ UNCHANGED batches
        \/ \E r \in Requests, ids \in SUBSET Leads, said \in BOOLEAN : Ingest(r, ids, said)
        \/ Deleting
    BY DEF Deleting, Next, vars, Select, Check, Record, Stream, ReadBatch, Fail, DeleteExport,
           EmailFound, EmailCleared
  <2> QED BY <2>1, <2>2, <2>3, <2>4 DEF Deleting
<1>3. ASSUME NEW r \in Requests, NEW l \in request'[r].chosen PROVE lead'[l] # "absent"
  <2>1. CASE l \in request[r].chosen
    <3>1. l \in Leads /\ lead[l] # "absent"
      BY <2>1 DEF TypeInv, Shape, RequestRow, Known
    <3> QED BY <3>1, LeadSteps
  <2>2. CASE l \notin request[r].chosen
    <3>1. UNCHANGED lead /\ Mailable(l)
      BY <2>2, RequestMoves
    <3> QED BY <3>1 DEF Mailable
  <2> QED BY <2>1, <2>2
<1>4. ASSUME NEW c \in csv', NEW l \in c[2] PROVE lead'[l] # "absent"
  <2>1. CASE c \in csv
    <3>1. l \in Leads /\ lead[l] # "absent"
      BY <2>1, <1>4 DEF TypeInv, Shape, Known
    <3> QED BY <3>1, LeadSteps
  <2>2. CASE c \notin csv
    <3>1. PICK r \in Requests : Stream(r)
      BY <2>2 DEF Next, vars, Select, Ingest, Check, Record, ReadBatch, Fail, DeleteExport,
                  DeleteLead, EmailFound, EmailCleared
    <3>2. c = <<request[r].id, request[r].chosen>> /\ UNCHANGED lead
      BY <2>2, <3>1 DEF Stream
    <3> QED BY <1>4, <3>2 DEF TypeInv, Known
  <2> QED BY <2>1, <2>2
<1>5. DOMAIN batches \subseteq DOMAIN batches' /\ DOMAIN events \subseteq DOMAIN events'
  <2>1. DOMAIN events = DOMAIN events' \/ \E x : events' = Append(events, x)
    BY EventSteps DEF Deleting, DeleteExport, DeleteLead
  <2>2. DOMAIN batches = DOMAIN batches' \/ \E x : batches' = Append(batches, x)
    BY DEF Next, vars, Select, Ingest, Check, Record, Stream, ReadBatch, Fail, DeleteExport,
           DeleteLead, EmailFound, EmailCleared
  <2> QED BY <2>1, <2>2 DEF TypeInv, Shape
<1>6. ASSUME NEW r \in Requests
      PROVE  /\ request'[r].pc = "contacted" =>
                  request'[r].id \in DOMAIN batches' /\ request'[r].door = "upload"
             /\ request'[r].pc = "stream" => request'[r].id \in DOMAIN events'
  <2>1. CASE request'[r] = request[r]
    BY <1>5, <2>1 DEF TypeInv, Known
  <2>2. CASE request'[r] # request[r]
    <3>1. ASSUME NEW x, batches' = Append(batches, x) PROVE Len(batches) + 1 \in DOMAIN batches'
      BY <3>1 DEF TypeInv, Shape
    <3>2. ASSUME NEW x, events' = Append(events, x) PROVE Len(events) + 1 \in DOMAIN events'
      BY <3>2 DEF TypeInv, Shape
    <3> QED BY <2>2, <3>1, <3>2, RequestMoves
  <2> QED BY <2>1, <2>2
<1> QED BY <1>1, <1>2, <1>3, <1>4, <1>6 DEF Known, Exists

LEMMA TypeInit == Init => TypeInv
<1> SUFFICES ASSUME Init PROVE TypeInv
  OBVIOUS
<1>1. Idle \in RequestRow
  BY DEF Idle, RequestRow, Doors
<1>2. DOMAIN events = {} /\ DOMAIN batches = {}
  BY DEF Init
<1> QED BY <1>1, <1>2, ContactBounds DEF Init, TypeInv, Shape, Known, LeadStates, Idle

LEMMA TypeNext == TypeInv /\ [Next]_vars => TypeInv'
BY ShapeNext, KnownNext DEF TypeInv

(* The record keeps its types; members are leads of the table, and a deleted event has
   none.                                                                            *)
THEOREM TypesHold == Spec => []TypeOK
<1>1. TypeInv => TypeOK
  <2> SUFFICES ASSUME TypeInv PROVE TypeOK
    OBVIOUS
  <2>1. ASSUME NEW e \in DOMAIN events
        PROVE  /\ events[e].door \in Doors /\ events[e].count \in Nat
               /\ events[e].members \subseteq {l \in Leads : events[e].live /\ Exists(l)}
    <3>1. events[e] \in EventRow
      BY DEF TypeInv, Shape
    <3> QED BY <3>1 DEF EventRow, TypeInv, Known
  <2>2. ASSUME NEW r \in Requests
        PROVE  /\ request[r].pc \in {"idle", "check", "record", "stream", "contacted"}
               /\ request[r].chosen \subseteq Leads
    BY DEF TypeInv, Shape, RequestRow
  <2> QED BY <2>1, <2>2 DEF TypeOK, TypeInv, Shape, Known, LeadStates
<1> QED BY TypeInit, TypeNext, <1>1, PTL DEF Spec

-----------------------------------------------------------------------------
(* Files and the record *)

(* The event id records a file of these leads. *)
OnRecord(id, ids) ==
  /\ id \in DOMAIN events
  /\ events[id].count = Cardinality(ids)
  /\ events[id].live => events[id].members = {l \in ids : Exists(l)}

(* A request that is about to send its file has it on record already. *)
RecordInv ==
  /\ \A c \in csv : OnRecord(c[1], c[2])
  /\ \A r \in Requests : request[r].pc = "stream" => OnRecord(request[r].id, request[r].chosen)

(* What a step leaves of an event. *)
LEMMA EventsStand ==
  ASSUME TypeInv, [Next]_vars, NEW e \in DOMAIN events
  PROVE  /\ e \in DOMAIN events'
         /\ events'[e].count = events[e].count
         /\ events'[e].live =>
              events[e].live /\ events'[e].members = {l \in events[e].members : Exists(l)'}
<1>1. events[e] \in EventRow /\ \A l \in events[e].members : l \in Leads /\ Exists(l)
  BY DEF TypeInv, Shape, Known
<1>2. ASSUME events'[e] = events[e], \A l \in Leads : Exists(l) => Exists(l)'
      PROVE  events'[e].members = {l \in events[e].members : Exists(l)'}
  BY <1>1, <1>2
<1>3. CASE UNCHANGED events /\ ~Deleting
  <2>1. \A l \in Leads : Exists(l) => Exists(l)'
    BY <1>3, LeadSteps DEF Deleting
  <2> QED BY <1>2, <1>3, <2>1
<1>4. ASSUME NEW x, events' = Append(events, x), UNCHANGED lead
      PROVE  /\ e \in DOMAIN events' /\ events'[e] = events[e]
             /\ events'[e].members = {l \in events[e].members : Exists(l)'}
  <2>1. e \in DOMAIN events' /\ events'[e] = events[e]
    BY <1>4 DEF TypeInv, Shape
  <2> QED BY <1>2, <1>4, <2>1 DEF Exists
<1>5. ASSUME NEW f \in DOMAIN events, DeleteExport(f)
      PROVE  /\ e \in DOMAIN events' /\ events'[e].count = events[e].count
             /\ events'[e].live =>
                  events[e].live /\ events'[e].members = {l \in events[e].members : Exists(l)'}
  <2>1. events' = [events EXCEPT ![f] = [events[f] EXCEPT !.live = FALSE, !.members = {}]]
    BY <1>5 DEF DeleteExport
  <2>2. CASE e = f
    BY <1>1, <2>1, <2>2 DEF EventRow
  <2>3. CASE e # f
    <3>1. e \in DOMAIN events' /\ events'[e] = events[e] /\ UNCHANGED lead
      BY <1>5, <2>1, <2>3 DEF DeleteExport
    <3> QED BY <1>2, <3>1 DEF Exists
  <2> QED BY <2>2, <2>3
<1>6. ASSUME NEW l \in Leads, DeleteLead(l)
      PROVE  /\ e \in DOMAIN events' /\ events'[e].count = events[e].count
             /\ events'[e].live = events[e].live
             /\ events'[e].members = {k \in events[e].members : Exists(k)'}
  <2>1. e \in DOMAIN events' /\ events'[e] = [events[e] EXCEPT !.members = @ \ {l}]
    BY <1>6 DEF DeleteLead
  <2>2. \A k \in Leads : Exists(k)' <=> Exists(k) /\ k # l
    BY <1>6 DEF DeleteLead, Exists, TypeInv, Shape
  <2>3. {k \in events[e].members : Exists(k)'} = events[e].members \ {l}
    BY <1>1, <2>2
  <2> QED BY <1>1, <2>1, <2>3 DEF EventRow
<1> QED BY <1>3, <1>4, <1>5, <1>6, EventSteps DEF Deleting

(* What is on record stays so, whatever is recorded, found, cleared or deleted: no lead of
   the file comes back.                                                                  *)
LEMMA OnRecordStays ==
  ASSUME TypeInv, [Next]_vars, NEW id, NEW ids \in SUBSET Leads, OnRecord(id, ids),
         \A l \in ids : lead[l] # "absent"
  PROVE  OnRecord(id, ids)'
<1>1. ASSUME NEW l \in ids PROVE Exists(l)' => Exists(l)
  <2>1. ~Exists(l) => lead[l] = "deleted"
    BY DEF TypeInv, Shape, LeadStates, Exists
  <2> QED BY <2>1, LeadSteps DEF Exists
<1>2. id \in DOMAIN events
  BY DEF OnRecord
<1> QED BY <1>1, <1>2, EventsStand DEF OnRecord

LEMMA RecordStep == TypeInv /\ RecordInv /\ [Next]_vars => RecordInv'
<1> SUFFICES ASSUME TypeInv, RecordInv, [Next]_vars PROVE RecordInv'
  OBVIOUS
<1>1. ASSUME NEW r \in Requests, request[r].pc = "stream",
             NEW id, NEW ids, id = request[r].id, ids = request[r].chosen
      PROVE  OnRecord(id, ids)'
  <2>1. ids \in SUBSET Leads /\ \A l \in ids : lead[l] # "absent"
    BY <1>1 DEF TypeInv, Shape, RequestRow, Known
  <2> QED BY <1>1, <2>1, OnRecordStays DEF RecordInv
<1>2. ASSUME NEW c \in csv' PROVE OnRecord(c[1], c[2])'
  <2>1. CASE c \in csv
    <3>1. c[2] \in SUBSET Leads /\ \A l \in c[2] : lead[l] # "absent"
      BY <2>1 DEF TypeInv, Shape, Known
    <3> QED BY <2>1, <3>1, OnRecordStays DEF RecordInv
  <2>2. CASE c \notin csv
    <3>1. PICK r \in Requests : Stream(r)
      BY <2>2 DEF Next, vars, Select, Ingest, Check, Record, ReadBatch, Fail, DeleteExport,
                  DeleteLead, EmailFound, EmailCleared
    <3>2. request[r].pc = "stream" /\ c[1] = request[r].id /\ c[2] = request[r].chosen
      BY <2>2, <3>1 DEF Stream
    <3> QED BY <1>1, <3>2
  <2> QED BY <2>1, <2>2
<1>3. ASSUME NEW r \in Requests, request'[r].pc = "stream",
             NEW id, NEW ids, id = request'[r].id, ids = request'[r].chosen
      PROVE  OnRecord(id, ids)'
  <2>1. CASE request'[r] = request[r]
    BY <1>1, <1>3, <2>1
  <2>2. CASE request'[r] # request[r]
    <3>1. /\ Record(r) /\ id = Len(events) + 1 /\ ids = request[r].chosen
          /\ events' = Append(events, Event(r))
          /\ \A l \in ids : Exists(l)
      BY <1>3, <2>2, RequestMoves
    <3>2. UNCHANGED lead
      BY <3>1 DEF Record
    <3>3. id \in DOMAIN events' /\ events'[id] = Event(r)
      BY <3>1 DEF TypeInv, Shape
    <3>4. ids = {l \in ids : Exists(l)'}
      BY <3>1, <3>2 DEF Exists
    <3> QED BY <3>1, <3>3, <3>4 DEF OnRecord, Event
  <2> QED BY <2>1, <2>2
<1>4. ASSUME NEW r \in Requests, request'[r].pc = "stream"
      PROVE  OnRecord(request[r].id, request[r].chosen)'
  BY <1>3, <1>4 DEF OnRecord
<1> QED BY <1>2, <1>4 DEF RecordInv

LEMMA RecordInit == Init => RecordInv
BY DEF Init, RecordInv, Idle

(* Whatever fails, is deleted or found meanwhile: a file that was sent is on record, with
   its length and with those of its leads that there still are.                         *)
THEOREM FilesAreOnRecord == Spec => []FileIsOnRecord
<1>1. RecordInv => FileIsOnRecord
  BY DEF RecordInv, OnRecord, FileIsOnRecord
<1> QED BY TypeInit, TypeNext, RecordInit, RecordStep, <1>1, PTL DEF Spec

(* The record is history: an event keeps its count, and loses only members that are
   deleted from the table.                                                          *)
THEOREM HistoryStands == Spec => RecordIsHistory
<1> DEFINE Stands == \A e \in DOMAIN events :
             /\ e \in DOMAIN events'
             /\ events'[e].count = events[e].count
             /\ events'[e].live => events'[e].members = {l \in events[e].members : Exists(l)'}
<1>1. TypeInv /\ [Next]_vars => [Stands]_vars
  BY EventsStand
<1> QED BY TypeInit, TypeNext, <1>1, PTL DEF Spec, RecordIsHistory

-----------------------------------------------------------------------------
(* Repeats *)

(* The exports that leave out what was exported before, and have or will have the lead. *)
Sent(l) == {e \in DOMAIN events : events[e].door = "fresh" /\ l \in events[e].members}
Sending(l) == {r \in Requests : /\ request[r].pc = "record"
                                /\ request[r].door = "fresh"
                                /\ l \in request[r].chosen}

LEMMA SentFinite ==
  ASSUME TypeInv, NEW l \in Leads
  PROVE  IsFiniteSet(Sent(l)) /\ Cardinality(Sent(l)) \in Nat
<1>1. DOMAIN events = 1 .. Len(events) /\ Len(events) \in Nat
  BY DEF TypeInv, Shape
<1>2. Sent(l) \subseteq 1 .. Len(events)
  BY <1>1 DEF Sent
<1>3. IsFiniteSet(1 .. Len(events))
  BY <1>1, FS_Interval
<1> QED BY <1>2, <1>3, FS_Subset, FS_CardinalityType

LEMMA SendingFinite ==
  ASSUME NEW l
  PROVE  /\ IsFiniteSet(Sending(l)) /\ Cardinality(Sending(l)) \in Nat
         /\ Cardinality(Sending(l)) <= Cardinality(Requests)
         /\ IsFiniteSet(Sending(l)') /\ Cardinality(Sending(l)') \in Nat
         /\ Cardinality(Sending(l)') <= Cardinality(Requests)
<1>1. Sending(l) \subseteq Requests /\ Sending(l)' \subseteq Requests
  BY DEF Sending
<1> QED BY <1>1, RequestsFinite, FS_Subset, FS_CardinalityType

LEMMA RecordEnds ==
  ASSUME TypeInv, NEW r \in Requests, Record(r)
  PROVE  request'[r].pc # "record"
<1>1. request \in [Requests -> RequestRow] /\ request[r] \in RequestRow
  BY DEF TypeInv, Shape
<1>2. CASE request' = [request EXCEPT ![r] = Idle]
  BY <1>1, <1>2 DEF Idle
<1>3. CASE request' = [request EXCEPT ![r] = [request[r] EXCEPT !.pc = "stream", !.id = Len(events) + 1]]
  <2>1. request'[r] = [request[r] EXCEPT !.pc = "stream", !.id = Len(events) + 1]
    BY <1>1, <1>3
  <2> QED BY <1>1, <2>1 DEF RequestRow
<1> QED BY <1>2, <1>3 DEF Record

(* A request that begins to send a lead has seen no event with it. *)
LEMMA SendingSteps ==
  ASSUME TypeInv, [Next]_vars, NEW l \in Leads, Sent(l) # {}
  PROVE  Sending(l)' \subseteq Sending(l)
<1> SUFFICES ASSUME NEW r \in Requests, request'[r].pc = "record", request'[r].door = "fresh",
                    l \in request'[r].chosen, request'[r] # request[r]
             PROVE  FALSE
  BY DEF Sending
<1> USE DEF TypeInv, Shape, RequestRow, Idle
<1>1. ASSUME NEW ids \in SUBSET Leads, NEW door \in Doors, Select(r, ids, door) PROVE FALSE
  BY <1>1 DEF Select
<1>2. ASSUME NEW ids \in SUBSET Leads, NEW said \in BOOLEAN, Ingest(r, ids, said) PROVE FALSE
  BY <1>2 DEF Ingest
<1>3. ASSUME Check(r) PROVE FALSE
  <2>1. l \in request[r].chosen \ AlreadyExported(request[r].chosen)
    BY <1>3 DEF Check
  <2> QED BY <2>1 DEF AlreadyExported, Sent
<1>4. ASSUME Record(r) PROVE FALSE
  BY <1>4, RecordEnds
<1>5. ASSUME Stream(r) \/ Fail(r) PROVE FALSE
  BY <1>5 DEF Stream, Fail
<1>6. ASSUME ReadBatch(r) PROVE FALSE
  BY <1>6 DEF ReadBatch, Known
<1> QED BY <1>1, <1>2, <1>3, <1>4, <1>5, <1>6, RequestSteps

LEMMA RepeatsStep == TypeInv /\ RepeatsBounded /\ [Next]_vars => RepeatsBounded'
<1> SUFFICES ASSUME TypeInv, RepeatsBounded, [Next]_vars, NEW l \in Leads
             PROVE  Cardinality(Sent(l)') + Cardinality(Sending(l)') <= Cardinality(Requests)
  BY DEF RepeatsBounded, Sent, Sending
<1>1. /\ Cardinality(Sent(l)) \in Nat /\ Cardinality(Sending(l)) \in Nat
      /\ Cardinality(Sending(l)') \in Nat /\ Cardinality(Requests) \in Nat
  BY SentFinite, SendingFinite, RequestsFinite, FS_CardinalityType
<1>2. Cardinality(Sent(l)) + Cardinality(Sending(l)) <= Cardinality(Requests)
  BY DEF RepeatsBounded, Sent, Sending
<1>3. Sent(l) = {} => Cardinality(Sent(l)) = 0
  BY FS_EmptySet
<1>4. CASE Sent(l)' \subseteq Sent(l)
  <2>1. /\ Cardinality(Sent(l)') \in Nat /\ Cardinality(Sent(l)') <= Cardinality(Sent(l))
        /\ Sent(l) = {} => Cardinality(Sent(l)') = 0
    <3>1. IsFiniteSet(Sent(l)') /\ Cardinality(Sent(l)') <= Cardinality(Sent(l))
      BY <1>4, SentFinite, FS_Subset
    <3> QED BY <1>1, <1>3, <3>1, FS_CardinalityType
  <2>2. CASE Sent(l) = {}
    BY <1>1, <2>1, <2>2, SendingFinite
  <2>3. CASE Sent(l) # {}
    <3>1. Cardinality(Sending(l)') <= Cardinality(Sending(l))
      BY <2>3, SendingSteps, SendingFinite, FS_Subset
    <3> QED BY <1>1, <1>2, <2>1, <3>1
  <2> QED BY <2>2, <2>3
<1>5. ASSUME NEW r \in Requests, Record(r), events' = Append(events, Event(r)),
             request[r].door = "fresh", l \in request[r].chosen
      PROVE  Cardinality(Sent(l)') + Cardinality(Sending(l)') <= Cardinality(Requests)
  <2>1. Sent(l)' = Sent(l) \cup {Len(events) + 1} /\ Len(events) + 1 \notin Sent(l)
    <3>1. /\ DOMAIN events' = DOMAIN events \cup {Len(events) + 1}
          /\ Len(events) + 1 \notin DOMAIN events
          /\ \A e \in DOMAIN events : events'[e] = events[e]
          /\ events'[Len(events) + 1] = Event(r)
      BY <1>5 DEF TypeInv, Shape
    <3> QED BY <1>5, <3>1 DEF Sent, Event
  <2>2. Cardinality(Sent(l)') = Cardinality(Sent(l)) + 1
    BY <2>1, SentFinite, FS_AddElement
  <2>3. r \in Sending(l)
    BY <1>5 DEF Record, Sending
  <2>4. Sending(l)' \subseteq Sending(l) \ {r}
    <3>1. request'[r].pc # "record"
      BY <1>5, RecordEnds
    <3>2. ASSUME NEW s \in Requests, s # r PROVE request'[s] = request[s]
      <4>1. \E x : request' = [request EXCEPT ![r] = x]
        BY <1>5 DEF Record
      <4> QED BY <3>2, <4>1 DEF TypeInv, Shape
    <3> QED BY <3>1, <3>2 DEF Sending
  <2>5. /\ Cardinality(Sending(l) \ {r}) = Cardinality(Sending(l)) - 1
        /\ IsFiniteSet(Sending(l) \ {r})
    BY <2>3, SendingFinite, FS_RemoveElement
  <2>6. Cardinality(Sending(l)') <= Cardinality(Sending(l)) - 1
    BY <2>4, <2>5, FS_Subset
  <2> QED BY <1>1, <1>2, <2>2, <2>6
<1>6. \/ Sent(l)' \subseteq Sent(l)
      \/ \E r \in Requests : /\ Record(r) /\ events' = Append(events, Event(r))
                             /\ request[r].door = "fresh" /\ l \in request[r].chosen
  <2>1. CASE UNCHANGED events
    BY <2>1 DEF Sent
  <2>2. ASSUME NEW r \in Requests, events' = Append(events, Event(r)),
               request[r].door # "fresh" \/ l \notin request[r].chosen
        PROVE  Sent(l)' \subseteq Sent(l)
    <3>1. ASSUME NEW e \in DOMAIN events', e \notin DOMAIN events PROVE events'[e] = Event(r)
      BY <2>2, <3>1 DEF TypeInv, Shape
    <3>2. \A e \in DOMAIN events : events'[e] = events[e]
      BY <2>2 DEF TypeInv, Shape
    <3> QED BY <2>2, <3>1, <3>2 DEF Sent, Event
  <2>3. ASSUME DOMAIN events' = DOMAIN events,
               \A e \in DOMAIN events : /\ events'[e].door = events[e].door
                                        /\ events'[e].members \subseteq events[e].members
        PROVE  Sent(l)' \subseteq Sent(l)
    BY <2>3 DEF Sent
  <2>4. ASSUME NEW f \in DOMAIN events, DeleteExport(f), NEW e \in DOMAIN events
        PROVE  /\ DOMAIN events' = DOMAIN events /\ events'[e].door = events[e].door
               /\ events'[e].members \subseteq events[e].members
    <3>1. events[e] \in EventRow
      BY DEF TypeInv, Shape
    <3>2. events' = [events EXCEPT ![f] = [events[f] EXCEPT !.live = FALSE, !.members = {}]]
      BY <2>4 DEF DeleteExport
    <3> QED BY <3>1, <3>2 DEF EventRow
  <2>5. ASSUME NEW k \in Leads, DeleteLead(k), NEW e \in DOMAIN events
        PROVE  /\ DOMAIN events' = DOMAIN events /\ events'[e].door = events[e].door
               /\ events'[e].members \subseteq events[e].members
    <3>1. events[e] \in EventRow
      BY DEF TypeInv, Shape
    <3>2. DOMAIN events' = DOMAIN events /\ events'[e] = [events[e] EXCEPT !.members = @ \ {k}]
      BY <2>5 DEF DeleteLead
    <3> QED BY <3>1, <3>2 DEF EventRow
  <2>6. CASE Deleting
    <3>1. PICK k \in Leads : DeleteLead(k)
      BY <2>6 DEF Deleting
    <3>2. DOMAIN events' = DOMAIN events
      BY <3>1 DEF DeleteLead
    <3> QED BY <2>3, <2>5, <3>1, <3>2
  <2>7. ASSUME NEW f \in DOMAIN events, DeleteExport(f) PROVE Sent(l)' \subseteq Sent(l)
    BY <2>3, <2>4, <2>7
  <2> QED BY <2>1, <2>2, <2>6, <2>7, EventSteps
<1> QED BY <1>4, <1>5, <1>6

LEMMA RepeatsInit == Init => RepeatsBounded
<1> SUFFICES ASSUME Init, NEW l \in Leads
             PROVE  Cardinality(Sent(l)) + Cardinality(Sending(l)) <= Cardinality(Requests)
  BY DEF RepeatsBounded, Sent, Sending
<1>1. Sent(l) = {} /\ Sending(l) = {}
  BY DEF Init, Sent, Sending, Idle
<1>2. Cardinality(Requests) \in Nat
  BY RequestsFinite, FS_CardinalityType
<1> QED BY <1>1, <1>2, FS_EmptySet

(* However many exports overlap, they choose a lead no more often than can run at once:
   once an event has it, none that leaves out the exported takes it up.                *)
THEOREM RepeatsAreBounded == Spec => []RepeatsBounded
BY TypeInit, TypeNext, RepeatsInit, RepeatsStep, PTL DEF Spec
=============================================================================
