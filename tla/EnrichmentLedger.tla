-------------------------- MODULE EnrichmentLedger --------------------------
(***************************************************************************)
(* The enrichment ledger: leads without an email are handed to an external *)
(* email finder, one attempt per answer is appended to enrichment_attempts,*)
(* and the work queue of a cost tier is derived from those rows.           *)
(* Source: app/controllers/enrichment.py, with the handlers of other       *)
(* controllers that write the same rows (uploads, hold/release, delete).   *)
(*                                                                         *)
(* The database runs READ COMMITTED and a handler awaits between its       *)
(* statements, so a handler that reads a row and writes it later is two    *)
(* actions: one that takes what it read, one that flushes and commits.     *)
(* Its flush and its commit are one action: what was flushed is visible to *)
(* no one before the commit, and the row locks it takes make every other   *)
(* writer of the row wait until after the commit.                          *)
(***************************************************************************)
EXTENDS Integers, Sequences, FiniteSets

CONSTANTS
  Leads,              \* lead ids, numbered in the order of created_at
  Workers,            \* queue items that finders can have outstanding at once
  Finds,              \* addresses a finder can earn
  Junk,               \* addresses is_junk_email recognises
  Uploads,            \* addresses that arrive in uploaded rows
  Labels,             \* email_source values that arrive in uploaded rows
  Lists,              \* the sets of leads that are one source
  MAX_FAILED_RETRIES, \* failed attempts after which a tier gives up
  PolledTiers,        \* the tiers at which finders are run
  QueueLimit,         \* the limit parameter of GET /queue
  MaxOps,             \* bound: human requests on existing leads, and crashes
  MaxItems,           \* bound: attempts recorded and items outstanding
  NULL                \* SQL NULL

ASSUME LeadsAssumption == Leads \subseteq Nat /\ IsFiniteSet(Leads)
ASSUME NullAssumption ==
  /\ NULL \notin Leads
  /\ NULL \notin {"low", "high", "email_finder", "found", "not_found", "failed"}
ASSUME WorkersAssumption == IsFiniteSet(Workers)
ASSUME RetriesAssumption == MAX_FAILED_RETRIES \in Nat \ {0}
ASSUME BoundsAssumption == MaxOps \in Nat /\ MaxItems \in Nat
ASSUME PolledTiersAssumption == PolledTiers \subseteq {"low", "high"}
ASSUME ListsAssumption == Lists \subseteq SUBSET Leads
ASSUME LabelsAssumption == "email_finder" \notin Labels
ASSUME EmailsAssumption ==
  /\ NULL \notin Finds \cup Junk \cup Uploads
  /\ Finds \cap Junk = {}
  /\ Finds \cap Uploads = {}
  /\ Junk \cap Uploads = {}

Tiers == {"low", "high"}
Sources == {"email_finder", NULL} \cup Labels
Verdicts == {"found", "not_found"}
Outcomes == Verdicts \cup {"failed"}

VARIABLES
  lead,     \* master_leads: [Leads -> row], row \in {"absent", "live", "deleted"}
  ledger,   \* enrichment_attempts of each lead and tier, in insertion order
  job,      \* what each outstanding queue item has come to
  requeue,  \* the transaction of a POST /requeue in flight
  upload,   \* the transaction of a batch upload in flight, at one merged row
  ops       \* human requests on existing leads, and crashes, so far

vars == <<lead, ledger, job, requeue, upload, ops>>

-----------------------------------------------------------------------------
(* Rows and messages *)

LeadRow == [row : {"absent", "live", "deleted"},
            email : Finds \cup Uploads \cup {NULL},
            source : Sources,
            hold : BOOLEAN]

NoLead == [row |-> "absent", email |-> NULL, source |-> NULL, hold |-> FALSE]

Attempt == [status : Outcomes, value : Finds \cup {NULL}, superseded : BOOLEAN]

Job == [pc : {"idle", "working", "posting"}, lead : Leads \cup {NULL},
        tier : Tiers \cup {NULL}, status : Outcomes \cup {NULL},
        value : Finds \cup {NULL}, sawNoEmail : BOOLEAN]

Idle == [pc |-> "idle", lead |-> NULL, tier |-> NULL, status |-> NULL,
         value |-> NULL, sawNoEmail |-> FALSE]

(* What a finder can answer: a found address, or none. The schema lets "found" come
   without one.                                                                   *)
Answers == [status : {"found"}, value : Finds \cup Junk \cup {NULL}]
             \cup [status : {"not_found", "failed"}, value : {NULL}]

(* Mutated form: the junk screen is missing. *)
RecordedKeepsJunk(a) == a

(* A junk find is recorded as not_found. *)
Recorded(a) == IF a.status = "found" /\ a.value \in Junk
               THEN [status |-> "not_found", value |-> NULL]
               ELSE a

NoRequeue == [on |-> FALSE, ids |-> {}, tier |-> NULL, marked |-> [l \in Leads |-> 0]]

NoUpload == [on |-> FALSE, lead |-> NULL, email |-> NULL, source |-> NULL,
             sawNoEmail |-> FALSE, sawNoSource |-> FALSE]

-----------------------------------------------------------------------------
(* The derived work queue *)

Present(l) == lead[l].row = "live"

Live(l, t) == {i \in DOMAIN ledger[l][t] : ~ledger[l][t][i].superseded}
LiveVerdicts(l, t) == {i \in Live(l, t) : ledger[l][t][i].status \in Verdicts}
LiveFailures(l, t) == {i \in Live(l, t) : ledger[l][t][i].status = "failed"}

(* A tier is closed to a lead by a verdict, or by too many failures. *)
Closed(l, t) == \/ LiveVerdicts(l, t) # {}
                \/ Cardinality(LiveFailures(l, t)) >= MAX_FAILED_RETRIES

(* Mutated form: a verdict does not close the tier. *)
EligibleDespiteVerdict(l, t) ==
  /\ Present(l)
  /\ lead[l].email = NULL
  /\ ~lead[l].hold
  /\ Cardinality(LiveFailures(l, t)) < MAX_FAILED_RETRIES

(* Mutated form: failures never retire a lead. *)
EligibleForever(l, t) ==
  /\ Present(l)
  /\ lead[l].email = NULL
  /\ ~lead[l].hold
  /\ LiveVerdicts(l, t) = {}

Eligible(l, t) ==
  /\ Present(l)
  /\ lead[l].email = NULL
  /\ ~lead[l].hold
  /\ ~Closed(l, t)

(* The oldest QueueLimit eligible leads. *)
QueuePage(t) ==
  {l \in Leads : /\ Eligible(l, t)
                 /\ Cardinality({k \in Leads : k < l /\ Eligible(k, t)}) < QueueLimit}

Attempted(l) == \E t \in Tiers : ledger[l][t] # <<>>

(* The finders' outstanding items for a lead at a tier. *)
Outstanding(l, t) == {w \in Workers : job[w].lead = l /\ job[w].tier = t}

-----------------------------------------------------------------------------
(* The finder: take an item, post its answer (read, then flush and commit) *)

Init ==
  /\ lead = [l \in Leads |-> NoLead]
  /\ ledger = [l \in Leads |-> [t \in Tiers |-> <<>>]]
  /\ job = [w \in Workers |-> Idle]
  /\ requeue = NoRequeue
  /\ upload = NoUpload
  /\ ops = 0

(* Bound: there is room for one more item. *)
RoomForAnItem ==
  LET rows == {r \in Leads \X Tiers \X (1 .. MaxItems) : r[3] \in DOMAIN ledger[r[1]][r[2]]}
      busy == {w \in Workers : job[w].pc # "idle"}
  IN Cardinality(rows) + Cardinality(busy) < MaxItems

(* GET /queue reserves nothing: an item stays in the queue while it is worked on. *)
Serve(w, t) ==
  /\ RoomForAnItem
  /\ job[w].pc = "idle"
  /\ \E l \in QueuePage(t) :
       job' = [job EXCEPT ![w] = [Idle EXCEPT !.pc = "working", !.lead = l, !.tier = t]]
  /\ UNCHANGED <<lead, ledger, requeue, upload, ops>>

(* POST /results, up to its first await: the lead is read, or 404. *)
ReadLead(w) ==
  /\ job[w].pc = "working"
  /\ \/ /\ ~Present(job[w].lead)
        /\ job' = [job EXCEPT ![w] = Idle]
     \/ /\ Present(job[w].lead)
        /\ \E a \in Answers :
             job' = [job EXCEPT ![w] =
                       [@ EXCEPT !.pc = "posting",
                                 !.status = Recorded(a).status,
                                 !.value = Recorded(a).value,
                                 !.sawNoEmail = (lead[job[w].lead].email = NULL)]]
  /\ UNCHANGED <<lead, ledger, requeue, upload, ops>>

Row(w) == [status |-> job[w].status, value |-> job[w].value, superseded |-> FALSE]

(* Mutated form: a transient failure leaves no row behind. *)
AppendedUnlessFailed(w) ==
  IF job[w].status = "failed" THEN ledger
  ELSE [ledger EXCEPT ![job[w].lead][job[w].tier] = Append(@, Row(w))]

(* The attempt is recorded whatever the outcome. *)
Appended(w) == [ledger EXCEPT ![job[w].lead][job[w].tier] = Append(@, Row(w))]

(* Fill the email if it was null when the lead was read. *)
Filled(w) ==
  IF job[w].status = "found" /\ job[w].value # NULL /\ job[w].sawNoEmail
  THEN [lead EXCEPT ![job[w].lead] = [@ EXCEPT !.email = job[w].value,
                                               !.source = "email_finder"]]
  ELSE lead

(* Mutated form: nothing ties the row to a lead that exists. *)
CommitResultUnchecked(w) ==
  /\ job[w].pc = "posting"
  /\ ledger' = Appended(w)
  /\ lead' = IF Present(job[w].lead) THEN Filled(w) ELSE lead
  /\ job' = [job EXCEPT ![w] = Idle]
  /\ UNCHANGED <<requeue, upload, ops>>

(* Flush and commit; a lead deleted meanwhile fails the whole transaction. *)
CommitResult(w) ==
  /\ job[w].pc = "posting"
  /\ \/ /\ Present(job[w].lead)
        /\ ledger' = Appended(w)
        /\ lead' = Filled(w)
     \/ /\ ~Present(job[w].lead)
        /\ UNCHANGED <<ledger, lead>>
  /\ job' = [job EXCEPT ![w] = Idle]
  /\ UNCHANGED <<requeue, upload, ops>>

(* The finder or the server stops: the item and what was paid for it are lost. *)
Crash(w) ==
  /\ ops < MaxOps
  /\ job[w].pc # "idle"
  /\ job' = [job EXCEPT ![w] = Idle]
  /\ ops' = ops + 1
  /\ UNCHANGED <<lead, ledger, requeue, upload>>

-----------------------------------------------------------------------------
(* POST /requeue: two UPDATEs in one transaction *)

(* The first UPDATE chooses the rows: those of the tier committed by now. The ids come
   from a page of leads; an id that names no lead would match no row.              *)
RequeueMark(ids, t) ==
  /\ ops < MaxOps
  /\ ~requeue.on
  /\ \A l \in ids : Present(l)
  /\ requeue' = [on |-> TRUE, ids |-> ids, tier |-> t,
                 marked |-> [l \in Leads |-> Len(ledger[l][t])]]
  /\ ops' = ops + 1
  /\ UNCHANGED <<lead, ledger, job, upload>>

(* Mutated form: the rows of the lead are deleted. *)
SupersededByDelete(l, t) ==
  IF l \in requeue.ids /\ t = requeue.tier THEN <<>> ELSE ledger[l][t]

(* Mutated form: the first UPDATE forgets the cost_mode condition. *)
SupersededAtEveryTier(l, t) ==
  [i \in DOMAIN ledger[l][t] |->
     IF l \in requeue.ids
     THEN [ledger[l][t][i] EXCEPT !.superseded = TRUE]
     ELSE ledger[l][t][i]]

(* Mutated form: only the verdict is withdrawn, not the failures before it. *)
SupersededVerdicts(l, t) ==
  [i \in DOMAIN ledger[l][t] |->
     IF /\ l \in requeue.ids /\ t = requeue.tier /\ i <= requeue.marked[l]
        /\ ledger[l][t][i].status \in Verdicts
     THEN [ledger[l][t][i] EXCEPT !.superseded = TRUE]
     ELSE ledger[l][t][i]]

(* The attempts of lead l at tier t after the first UPDATE. *)
Superseded(l, t) ==
  [i \in DOMAIN ledger[l][t] |->
     IF l \in requeue.ids /\ t = requeue.tier /\ i <= requeue.marked[l]
     THEN [ledger[l][t][i] EXCEPT !.superseded = TRUE]
     ELSE ledger[l][t][i]]

(* Mutated form: the second UPDATE is missing. *)
KeptEmail(l) == lead[l]

(* The lead after the second UPDATE: an email the finder earned is cleared. *)
Cleared(l) ==
  IF l \in requeue.ids /\ lead[l].source = "email_finder"
  THEN [lead[l] EXCEPT !.email = NULL, !.source = NULL]
  ELSE lead[l]

RequeueCommit ==
  /\ requeue.on
  /\ ledger' = [l \in Leads |-> [t \in Tiers |-> Superseded(l, t)]]
  /\ lead' = [l \in Leads |-> Cleared(l)]
  /\ requeue' = NoRequeue
  /\ UNCHANGED <<job, upload, ops>>

-----------------------------------------------------------------------------
(* Uploads: a row that makes a lead, and a row merged into one *)

(* Email and email_source of a row; which lead a row matches is another module's. *)
RowEmails == Uploads \cup {NULL}
RowSources == Labels \cup {NULL}

(* A row that matches no lead. created_at is the time the row was read, so of two
   uploads that overlap the one with the older leads may commit last.            *)
UploadNew(l, e, s, h) ==
  /\ lead[l].row = "absent"
  /\ lead' = [lead EXCEPT ![l] = [row |-> "live", email |-> e, source |-> s, hold |-> h]]
  /\ UNCHANGED <<ledger, job, requeue, upload, ops>>

(* find_matching_lead: the row's lead is read. *)
UploadRead(l, e, s) ==
  /\ ops < MaxOps
  /\ ~upload.on
  /\ Present(l)
  /\ upload' = [on |-> TRUE, lead |-> l, email |-> e, source |-> s,
                sawNoEmail |-> lead[l].email = NULL,
                sawNoSource |-> lead[l].source = NULL]
  /\ ops' = ops + 1
  /\ UNCHANGED <<lead, ledger, job, requeue>>

(* Fill what was null when read, field by field. *)
Merged(row) ==
  [row EXCEPT !.email = IF upload.sawNoEmail /\ upload.email # NULL THEN upload.email ELSE @,
              !.source = IF upload.sawNoSource /\ upload.source # NULL THEN upload.source ELSE @]

(* The batch commits; a lead deleted meanwhile fails the whole batch. *)
UploadCommit ==
  /\ upload.on
  /\ lead' = IF Present(upload.lead)
             THEN [lead EXCEPT ![upload.lead] = Merged(@)] ELSE lead
  /\ upload' = NoUpload
  /\ UNCHANGED <<ledger, job, requeue, ops>>

-----------------------------------------------------------------------------
(* Holds of a source's leads, and deletion *)

(* POST /{source}/release-enrichment without a limit. *)
ReleaseAll(list) ==
  /\ ops < MaxOps
  /\ lead' = [l \in Leads |-> IF l \in list /\ Present(l)
                              THEN [lead[l] EXCEPT !.hold = FALSE] ELSE lead[l]]
  /\ ops' = ops + 1
  /\ UNCHANGED <<ledger, job, requeue, upload>>

Untouched(list) == {l \in list : /\ Present(l)
                                 /\ lead[l].email = NULL
                                 /\ lead[l].hold
                                 /\ ~Attempted(l)}

(* With a limit: the n oldest held leads never attempted. *)
Tranche(list, n) ==
  {l \in Untouched(list) : Cardinality({k \in Untouched(list) : k < l}) < n}

ReleaseTranche(list, n) ==
  /\ ops < MaxOps
  /\ lead' = [l \in Leads |-> IF l \in Tranche(list, n)
                              THEN [lead[l] EXCEPT !.hold = FALSE] ELSE lead[l]]
  /\ ops' = ops + 1
  /\ UNCHANGED <<ledger, job, requeue, upload>>

(* POST /{source}/hold-enrichment: only leads still without an email. *)
HoldList(list) ==
  /\ ops < MaxOps
  /\ lead' = [l \in Leads |-> IF l \in list /\ Present(l) /\ lead[l].email = NULL
                              THEN [lead[l] EXCEPT !.hold = TRUE] ELSE lead[l]]
  /\ ops' = ops + 1
  /\ UNCHANGED <<ledger, job, requeue, upload>>

(* DELETE /leads/{id}: the attempts go with the lead. A row inserted between the
   two DELETEs fails the second one and with it the transaction: nothing changes. *)
DeleteLead(l) ==
  /\ ops < MaxOps
  /\ Present(l)
  /\ lead' = [lead EXCEPT ![l] = [NoLead EXCEPT !.row = "deleted"]]
  /\ ledger' = [ledger EXCEPT ![l] = [t \in Tiers |-> <<>>]]
  /\ ops' = ops + 1
  /\ UNCHANGED <<job, requeue, upload>>

-----------------------------------------------------------------------------
Next ==
  \/ \E w \in Workers, t \in PolledTiers : Serve(w, t)
  \/ \E w \in Workers : ReadLead(w) \/ CommitResult(w) \/ Crash(w)
  \/ \E ids \in SUBSET Leads \ {{}}, t \in Tiers : RequeueMark(ids, t)
  \/ RequeueCommit
  \/ \E l \in Leads, e \in RowEmails, s \in RowSources :
       \/ \E h \in BOOLEAN : UploadNew(l, e, s, h)
       \/ UploadRead(l, e, s)
  \/ UploadCommit
  \/ \E list \in Lists : \/ ReleaseAll(list)
                         \/ ReleaseTranche(list, 1)
                         \/ HoldList(list)
  \/ \E l \in Leads : DeleteLead(l)

Spec == Init /\ [][Next]_vars

(* The server finishes the handlers it has begun, the finder answers the items it
   took, and it keeps polling the low tier, the default of GET /queue/wait. A run
   of the high tier is a deliberate decision: nothing makes it happen.           *)
Fairness ==
  /\ \A w \in Workers : WF_vars(ReadLead(w)) /\ WF_vars(CommitResult(w))
  /\ WF_vars(RequeueCommit)
  /\ WF_vars(UploadCommit)
  /\ WF_vars(\E w \in Workers : Serve(w, "low"))

FairSpec == Spec /\ Fairness

-----------------------------------------------------------------------------
(* Properties *)

TypeOK ==
  /\ lead \in [Leads -> LeadRow]
  /\ ledger \in [Leads -> [Tiers -> Seq(Attempt)]]
  /\ job \in [Workers -> Job]
  /\ requeue \in [on : BOOLEAN, ids : SUBSET Leads, tier : Tiers \cup {NULL},
                  marked : [Leads -> Nat]]
  /\ upload \in [on : BOOLEAN, lead : Leads \cup {NULL}, email : RowEmails,
                 source : RowSources, sawNoEmail : BOOLEAN, sawNoSource : BOOLEAN]
  /\ ops \in 0 .. MaxOps

(* What the handlers in flight hold; with TypeOK, the first part of every proof. *)
HandlersOK ==
  /\ \A w \in Workers :
       IF job[w].pc = "idle" THEN job[w] = Idle
       ELSE /\ job[w].lead \in Leads
            /\ job[w].tier \in Tiers
            /\ job[w].pc = "posting" => job[w].status \in Outcomes
  /\ upload.on => upload.lead \in Leads

(* A lead whose email is labelled email_finder has an attempt still in force that
   found it, and found that very address unless an upload racing with the finder
   replaced it: no interleaving of results, requeues, uploads and deletions leaves
   a finder email the ledger does not account for (post_enrichment_result writes
   both in one transaction; requeue_leads withdraws both).                      *)
FinderEmailIsEarned ==
  \A l \in Leads : lead[l].source = "email_finder" =>
    \E t \in Tiers : \E i \in Live(l, t) :
      /\ ledger[l][t][i].status = "found"
      /\ lead[l].email \in Uploads \cup {ledger[l][t][i].value}

(* GET /queue takes no lease, so a tier can be paid more than once for a lead; the
   verdicts in force and the items still out never exceed the number of items that
   finders hold at once. One finder that works one item at a time never pays twice. *)
VerdictsBounded ==
  \A l \in Leads, t \in Tiers :
    Cardinality(LiveVerdicts(l, t)) + Cardinality(Outstanding(l, t)) <= Cardinality(Workers)

(* The budget of a tier, across failures, verdicts and items still out: the cap of
   MAX_FAILED_RETRIES is exceeded by at most the number of concurrent items less one. *)
SpendBounded ==
  \A l \in Leads, t \in Tiers :
    Cardinality(Live(l, t)) + Cardinality(Outstanding(l, t))
      <= MAX_FAILED_RETRIES - 1 + Cardinality(Workers)

(* Requeues withdraw whole prefixes: an attempt in force is never followed by a
   withdrawn one, even when results are committed while a requeue is in flight. *)
WithdrawnFirst ==
  \A l \in Leads, t \in Tiers : \A i, j \in DOMAIN ledger[l][t] :
    i < j /\ ledger[l][t][j].superseded => ledger[l][t][i].superseded

(* No attempt belongs to a lead that is not in the table (results and uploads of a
   lead deleted while they are in flight leave nothing behind).                  *)
NoOrphanAttempts == \A l \in Leads : ~Present(l) => ~Attempted(l) /\ lead[l].email = NULL

(* A tier closed to a lead reopens only when a requeue of that lead at that tier
   commits: results, uploads, holds and crashes never make the queue serve it again. *)
ReopenedOnlyByRequeue ==
  [][\A l \in Leads, t \in Tiers :
       Closed(l, t) /\ ~Closed(l, t)' =>
         \/ requeue.on /\ ~requeue'.on /\ l \in requeue.ids /\ t = requeue.tier
         \/ ~Present(l)']_vars

(* The ledger is append-only: while the lead exists its attempts keep their place,
   outcome and address, and a withdrawn attempt stays withdrawn.                *)
LedgerAppendOnly ==
  [][\A l \in Leads, t \in Tiers : Present(l)' =>
       \A i \in DOMAIN ledger[l][t] :
         /\ i \in DOMAIN ledger'[l][t]
         /\ ledger'[l][t][i].status = ledger[l][t][i].status
         /\ ledger'[l][t][i].value = ledger[l][t][i].value
         /\ ledger[l][t][i].superseded => ledger'[l][t][i].superseded]_vars

(* What the ledger amounts to for whoever pays for the searches. *)
Spent == [l \in Leads |-> [t \in Tiers |-> Cardinality(Live(l, t))]]
Settled == [l \in Leads |-> [t \in Tiers |-> Cardinality(LiveVerdicts(l, t))]]
Out == [l \in Leads |-> [t \in Tiers |-> Cardinality(Outstanding(l, t))]]

Contract == INSTANCE TierContract WITH spent <- Spent, settled <- Settled, out <- Out

(* Rows, transactions and crashes amount to the contract of the tiers: each step hands an
   item out where the tier is open, takes one back, withdraws at one tier, forgets a lead,
   or is none of the contract's business.                                               *)
KeepsContract == Contract!Spec

(* Every lead that waits in the low queue leaves it, by a verdict, by an email, or
   when its failures run out: a lead that always fails does not starve the ones
   behind it in created_at order.                                               *)
LowQueueDrains == \A l \in Leads : Eligible(l, "low") ~> ~Eligible(l, "low")

(* "in the same transaction, so the ledger and the lead can't disagree": a lead with
   an address found and not withdrawn has an email.                               *)
LedgerAndLeadAgree ==
  \A l \in Leads, t \in Tiers : \A i \in Live(l, t) :
    ledger[l][t][i].value # NULL => lead[l].email # NULL

(* "fill only if still null, never overwrite": an uploaded email stays. *)
UploadedEmailKept ==
  [][\A l \in Leads : lead[l].email \in Uploads /\ Present(l)'
                        => lead'[l].email = lead[l].email]_vars
=============================================================================
