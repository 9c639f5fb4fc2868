------------------------------ MODULE Ingestion ------------------------------
(***************************************************************************)
(* Batch uploads: each is one transaction that matches its rows one after  *)
(* the other, inserts a lead or fills one in, and records the provenance.  *)
(* Source: app/services/ingestion.py, app/services/dedup.py,               *)
(* app/controllers/batches.py, app/controllers/leads.py (delete_lead),     *)
(* app/controllers/enrichment.py (the two other writers of a lead's email: *)
(* results and requeues; what they do to the ledger is EnrichmentLedger).  *)
(*                                                                         *)
(* A statement sees the rows committed by the others and all that its own  *)
(* transaction has flushed. A flushed UPDATE holds the row's lock until    *)
(* its transaction ends; PostgreSQL aborts one of two transactions that    *)
(* wait for each other.                                                    *)
(***************************************************************************)
EXTENDS Dedup

CONSTANTS
  Ids,         \* bound: leads ever created, numbered in that order
  Batches,     \* bound: uploads
  Files,       \* the files that arrive: sequences of rows
  MaxOpen,     \* uploads in flight at once
  MaxDeletes,  \* bound: deletions of leads
  Finder,      \* the email_source of an email that the finder earned
  Found,       \* the emails a finder may find
  MaxFinds,    \* bound: results that find an email
  MaxRequeues  \* bound: leads requeued

ASSUME IdsAssumption == Ids \subseteq Nat
ASSUME BatchesAssumption == Batches \subseteq Nat /\ IsFiniteSet(Batches)
ASSUME FilesAssumption == \A file \in Files :
  /\ file \in Seq({file[i] : i \in DOMAIN file})
  /\ \A i \in DOMAIN file : /\ DOMAIN file[i] \subseteq Fields \ {"identity_key"}
                            /\ \A f \in DOMAIN file[i] : file[i][f] \in Values
ASSUME FinderAssumption == Finder \notin Values /\ Found \subseteq Values
ASSUME BoundsAssumption == {MaxOpen, MaxDeletes, MaxFinds, MaxRequeues} \subseteq Nat

VARIABLES
  table,     \* master_leads: the fields of each lead there is
  links,     \* lead_sources: <<lead, batch, row index>>
  batch,     \* the transaction of each upload
  deletes,   \* deletions so far
  finding,   \* results in flight that read a lead without an email: <<lead, email>>
  earned,    \* history: <<lead, email>> that a result wrote
  finds,     \* results that found an email so far
  requeues   \* leads requeued so far

finderVars == <<finding, earned, finds, requeues>>
vars == <<table, links, batch, deletes, finderVars>>

(* A row with nothing in it, and writes to no lead. *)
Nothing == <<>>

(* mine: the leads inserted; wrote: the fields flushed for a lead; held: the leads of the
   session, with the attributes they had when it loaded them; target: the lead the current
   row was matched to, and fill what it will write there. alone is history: no other upload
   was in flight at any moment of this one.                                            *)
NoBatch == [pc |-> "new", file |-> <<>>, done |-> 0, mine |-> {}, wrote |-> Nothing,
            held |-> Nothing, links |-> {}, target |-> 0, fill |-> Nothing, alone |-> TRUE,
            quarantined |-> 0, created |-> 0, merged |-> 0]

Init ==
  /\ table = Nothing
  /\ links = {}
  /\ batch = [b \in Batches |-> NoBatch]
  /\ deletes = 0
  /\ finding = {} /\ earned = {}
  /\ finds = 0 /\ requeues = 0

-----------------------------------------------------------------------------
(* What an upload sees *)

Open(b) == batch[b].pc \in {"reading", "merging"}
Wrote(b) == DOMAIN batch[b].wrote
Written(b, l) == IF l \in Wrote(b) THEN batch[b].wrote[l] ELSE Nothing
Stored(l) == IF l \in DOMAIN table THEN table[l] ELSE Nothing
Seen(b) == [l \in DOMAIN table \cup batch[b].mine |-> Over(Written(b, l), Stored(l))]

(* What the session has of a lead that SELECT returns: its identity map keeps the
   attributes of a lead it has loaded, for as long as something still refers to it. *)
Loaded(b, l) == {Seen(b)[l]} \cup (IF l \in DOMAIN batch[b].held THEN {batch[b].held[l]} ELSE {})

Row(b) == Canonical(batch[b].file[batch[b].done + 1])

(* Another upload, or any, has flushed an UPDATE of the lead. *)
LockedFor(b, l) == \E c \in Batches \ {b} : Open(c) /\ l \in Wrote(c)
Locked(l) == \E c \in Batches : Open(c) /\ l \in Wrote(c)

(* The ids given out: inserts that were rolled back do not come back. *)
Used == DOMAIN table \cup UNION {batch[b].mine : b \in Batches}

-----------------------------------------------------------------------------
(* An upload, row by row *)

Upload(b, file) ==
  /\ batch[b].pc = "new"
  /\ \A c \in Batches : c < b => batch[c].pc # "new"
  /\ Cardinality({c \in Batches : Open(c)}) < MaxOpen
  /\ LET others == {c \in Batches : Open(c)} IN
     batch' = [c \in Batches |->
                 IF c = b THEN [NoBatch EXCEPT !.pc = "reading", !.file = file, !.alone = others = {}]
                 ELSE [batch[c] EXCEPT !.alone = @ /\ c \notin others]]
  /\ UNCHANGED <<table, links, deletes, finderVars>>

HasRow(b) == batch[b].pc = "reading" /\ batch[b].done < Len(batch[b].file)

(* An empty row is quarantined: no lead, no provenance. *)
Quarantine(b) ==
  /\ HasRow(b)
  /\ batch[b].file[batch[b].done + 1] = Nothing
  /\ batch' = [batch EXCEPT ![b] = [batch[b] EXCEPT !.done = @ + 1, !.quarantined = @ + 1]]
  /\ UNCHANGED <<table, links, deletes, finderVars>>

(* No lead matches: insert and flush. *)
InsertLead(b) ==
  /\ HasRow(b)
  /\ batch[b].file[batch[b].done + 1] # Nothing
  /\ FindMatchingLead(Row(b), Seen(b)) = {}
  /\ \E l \in Ids \ Used :
       /\ \A k \in Ids \ Used : l <= k
       /\ batch' = [batch EXCEPT ![b] =
                      [batch[b] EXCEPT !.done = @ + 1, !.created = @ + 1,
                                       !.mine = @ \cup {l}, !.wrote = Put(@, l, Row(b)),
                                       !.held = Put(@, l, Row(b)),
                                       !.links = @ \cup {<<l, b, batch[b].done + 1>>}]]
  /\ UNCHANGED <<table, links, deletes, finderVars>>

(* A lead matches, and what is null in it is what the row will fill. *)
MatchLead(b) ==
  /\ HasRow(b)
  /\ batch[b].file[batch[b].done + 1] # Nothing
  /\ \E l \in FindMatchingLead(Row(b), Seen(b)) : \E lead \in Loaded(b, l) :
       batch' = [batch EXCEPT ![b] = [batch[b] EXCEPT !.pc = "merging", !.target = l,
                                                      !.fill = Fills(Row(b), lead),
                                                      !.held = Put(@, l, Over(lead, Row(b)))]]
  /\ UNCHANGED <<table, links, deletes, finderVars>>

(* The writes of the upload with the fill of the current row; no UPDATE without one. *)
Filled(b) ==
  LET lead == batch[b].target IN
  IF batch[b].fill = Nothing THEN batch[b].wrote
  ELSE Put(batch[b].wrote, lead, Over(batch[b].fill, Written(b, lead)))

Deleted(b) == batch[b].target \notin DOMAIN table \cup batch[b].mine

(* Mutated form: the row is counted as a new lead as well. *)
FlushCountsCreated(b) ==
  /\ batch[b].pc = "merging"
  /\ ~Deleted(b)
  /\ batch[b].fill = Nothing \/ ~LockedFor(b, batch[b].target)
  /\ batch' = [batch EXCEPT ![b] =
                 [batch[b] EXCEPT !.pc = "reading", !.done = @ + 1, !.merged = @ + 1, !.created = @ + 1,
                                  !.wrote = Filled(b),
                                  !.links = @ \cup {<<batch[b].target, b, batch[b].done + 1>>}]]
  /\ UNCHANGED <<table, links, deletes, finderVars>>

(* The fields are flushed, once no other upload holds the row; the provenance is
   added to the session.                                                         *)
FlushMerge(b) ==
  /\ batch[b].pc = "merging"
  /\ ~Deleted(b)
  /\ batch[b].fill = Nothing \/ ~LockedFor(b, batch[b].target)
  /\ batch' = [batch EXCEPT ![b] =
                 [batch[b] EXCEPT !.pc = "reading", !.done = @ + 1, !.merged = @ + 1,
                                  !.wrote = Filled(b),
                                  !.links = @ \cup {<<batch[b].target, b, batch[b].done + 1>>}]]
  /\ UNCHANGED <<table, links, deletes, finderVars>>

(* Of a transaction that has ended, what it inserted and recorded is left. *)
Ended(b, pc) == [batch[b] EXCEPT !.pc = pc, !.wrote = Nothing, !.held = Nothing,
                                 !.target = 0, !.fill = Nothing]

(* Mutated form: only rows that made a lead leave provenance. *)
CommitInserted(b) ==
  /\ batch[b].pc = "reading"
  /\ batch[b].done = Len(batch[b].file)
  /\ table' = Seen(b)
  /\ links' = links \cup {x \in batch[b].links : x[1] \in batch[b].mine}
  /\ batch' = [batch EXCEPT ![b] = Ended(b, "completed")]
  /\ UNCHANGED <<deletes, finderVars>>

CommitBatch(b) ==
  /\ batch[b].pc = "reading"
  /\ batch[b].done = Len(batch[b].file)
  /\ table' = Seen(b)
  /\ links' = links \cup batch[b].links
  /\ batch' = [batch EXCEPT ![b] = Ended(b, "completed")]
  /\ UNCHANGED <<deletes, finderVars>>

(* The request fails or the server stops: the transaction is rolled back. A lead
   deleted between its match and its flush fails the request.                    *)
Rollback(b) ==
  /\ Open(b)
  /\ batch' = [batch EXCEPT ![b] = [Ended(b, "failed") EXCEPT !.links = {}]]
  /\ UNCHANGED <<table, links, deletes, finderVars>>

(* An upload waits for a lead that another one has written. *)
WaitsFor(b, c) == /\ batch[b].pc = "merging"
                  /\ Open(c)
                  /\ batch[b].fill # Nothing
                  /\ batch[b].target \in Wrote(c)

(* Two uploads wait for each other: the database aborts one. *)
BreakDeadlock(b) ==
  /\ \E c \in Batches \ {b} : WaitsFor(b, c) /\ WaitsFor(c, b)
  /\ Rollback(b)

(* Mutated form: the failed flush is tried again. *)
RetryDeleted(b) == batch[b].pc = "merging" /\ Deleted(b) /\ UNCHANGED vars

(* The lead was deleted under the upload: the flush finds no row, and fails. *)
FailDeleted(b) == batch[b].pc = "merging" /\ Deleted(b) /\ Rollback(b)

(* DELETE /leads/{id}: the provenance goes first. Uploads that wrote the lead or refer
   to it hold locks the deletion waits for. A deletion in the moment before the
   reference is flushed fails the upload, as if it had been rolled back first.  *)
DeleteLead(l) ==
  /\ deletes < MaxDeletes
  /\ l \in DOMAIN table
  /\ \A b \in Batches : Open(b) => /\ l \notin Wrote(b)
                                   /\ \A x \in batch[b].links : x[1] # l
  /\ table' = [k \in DOMAIN table \ {l} |-> table[k]]
  /\ links' = {x \in links : x[1] # l}
  /\ deletes' = deletes + 1
  /\ UNCHANGED <<batch, finderVars>>

-----------------------------------------------------------------------------
(* The finder. A person's name that comes with an email plays no part in matching. *)

(* POST /enrichment/results: the lead is read. One that has an email keeps it. *)
ReadResult(l, email) ==
  /\ finds < MaxFinds
  /\ l \in DOMAIN table
  /\ "email" \notin DOMAIN table[l]
  /\ finding' = finding \cup {<<l, email>>}
  /\ finds' = finds + 1
  /\ UNCHANGED <<table, links, batch, deletes, earned, requeues>>

(* Its commit writes the email, whoever else holds it and whatever was filled in since.
   One that fails, or whose lead was deleted, never gets here.                       *)
WriteResult(l, email) ==
  /\ <<l, email>> \in finding
  /\ l \in DOMAIN table
  /\ ~Locked(l)
  /\ table' = Put(table, l, Put(Put(table[l], "email", email), "email_source", Finder))
  /\ finding' = finding \ {<<l, email>>}
  /\ earned' = earned \cup {<<l, email>>}
  /\ UNCHANGED <<links, batch, deletes, finds, requeues>>

FromFinder(lead) == "email_source" \in DOMAIN lead /\ lead["email_source"] = Finder

Cleared(lead) == [f \in DOMAIN lead \ {"email", "email_source"} |-> lead[f]]

(* Mutated form: the requeue clears the email whoever gave it. *)
RequeueAny(l) ==
  /\ requeues < MaxRequeues
  /\ l \in DOMAIN table
  /\ ~Locked(l)
  /\ table' = Put(table, l, Cleared(table[l]))
  /\ requeues' = requeues + 1
  /\ UNCHANGED <<links, batch, deletes, finding, earned, finds>>

(* POST /enrichment/requeue, for a lead whose email the finder earned. *)
Requeue(l) ==
  /\ requeues < MaxRequeues
  /\ l \in DOMAIN table
  /\ FromFinder(table[l])
  /\ ~Locked(l)
  /\ table' = Put(table, l, Cleared(table[l]))
  /\ requeues' = requeues + 1
  /\ UNCHANGED <<links, batch, deletes, finding, earned, finds>>

-----------------------------------------------------------------------------
Step(b) == Quarantine(b) \/ InsertLead(b) \/ MatchLead(b) \/ FlushMerge(b) \/ CommitBatch(b)

Next ==
  \/ \E b \in Batches : \/ \E file \in Files : Upload(b, file)
                        \/ Step(b) \/ Rollback(b) \/ BreakDeadlock(b) \/ FailDeleted(b)
  \/ \E l \in Ids : DeleteLead(l) \/ Requeue(l)
  \/ \E l \in Ids, email \in Found : ReadResult(l, email) \/ WriteResult(l, email)

Spec == Init /\ [][Next]_vars

(* The server goes on with some request that it has accepted, and the database breaks
   deadlocks: whichever requests it prefers, those there are have finitely many rows. *)
Fairness == WF_vars(\E b \in Batches : Step(b) \/ BreakDeadlock(b) \/ FailDeleted(b))

FairSpec == Spec /\ Fairness

-----------------------------------------------------------------------------
(* Properties *)

LeadOK(row) ==
  /\ DOMAIN row \subseteq Fields
  /\ \A f \in DOMAIN row : \/ f # "identity_key" /\ row[f] \in Values
                           \/ f = "identity_key" /\ row[f] \in Values \X Values
                           \/ f = "email_source" /\ row[f] = Finder

TypeOK ==
  /\ DOMAIN table \subseteq Ids
  /\ \A l \in DOMAIN table : LeadOK(table[l])
  /\ links \subseteq Ids \X Batches \X Nat
  /\ \A b \in Batches :
       /\ batch[b].pc \in {"new", "reading", "merging", "completed", "failed"}
       /\ batch[b].done \in 0 .. Len(batch[b].file)
       /\ batch[b].mine \cup Wrote(b) \cup DOMAIN batch[b].held \subseteq Ids
       /\ \A l \in Wrote(b) : LeadOK(batch[b].wrote[l])
       /\ \A l \in DOMAIN batch[b].held : LeadOK(batch[b].held[l])
       /\ batch[b].pc = "merging" => batch[b].target \in Ids
  /\ finding \cup earned \subseteq Ids \X Found
  /\ deletes \in 0 .. MaxDeletes /\ finds \in 0 .. MaxFinds /\ requeues \in 0 .. MaxRequeues

(* No two uploads were ever in flight together. *)
OneByOne == \A b \in Batches : batch[b].alone

(* The finder has written an email of the lead, which a requeue may have cleared since. *)
Earned(l) == \E p \in earned : p[1] = l

(* A row is recognised for as long as its lead exists: uploading its file again finds that
   the row is known. Merges fill fields and never take away what a row matched on, as long
   as uploads do not overlap: a merge writes what was null when it read. Not promised is
   this of a row with an email when the finder has written the email of its lead: a result
   writes over an email that was uploaded since it read, and a requeue clears what it wrote. *)
RowsStayRecognised ==
  OneByOne => \A x \in links :
    LET row == Canonical(batch[x[2]].file[x[3]]) IN
    /\ DOMAIN row \cap IdFields # {}
    /\ "email" \in DOMAIN row => ~Earned(x[1])
    => FindMatchingLead(row, table) # {}

(* The email is "highest confidence, universal across every future source": no two leads
   hold one email, whatever weaker identities their rows carried, unless a result wrote it
   into one of them, with no lookup. Uploads in flight together break it as well: nothing
   else keeps emails unique.                                                           *)
EmailIdentifies ==
  OneByOne => \A k, l \in DOMAIN table :
    "email" \in DOMAIN table[k] \cap DOMAIN table[l] /\ table[k]["email"] = table[l]["email"]
    => \/ k = l
       \/ {<<k, table[k]["email"]>>, <<l, table[l]["email"]>>} \cap earned # {}

(* Provenance is complete and exact: every lead comes from a row of a completed upload,
   and a completed upload accounts for each of its rows, as quarantined, as linked to
   one lead, or by a deletion.                                                       *)
ProvenanceComplete ==
  /\ \A l \in DOMAIN table : \E x \in links : x[1] = l
  /\ \A b \in Batches : batch[b].pc = "completed" =>
       LET mine == {x \in links : x[2] = b} IN
       /\ \A x, y \in mine : x[3] = y[3] => x = y
       /\ Cardinality(mine) <= batch[b].created + batch[b].merged
       /\ deletes = 0 => Cardinality(mine) = Len(batch[b].file) - batch[b].quarantined

(* The counts of the uploads add up to the leads there ever were, also when uploads
   fail half-way and leads are deleted ("fixed facts about what happened").      *)
CreatedAddsUp ==
  LET completed == {b \in Batches : batch[b].pc = "completed"} IN
  Cardinality(DOMAIN table) + deletes
    = Cardinality(UNION {{b} \X (1 .. batch[b].created) : b \in completed})

(* Every upload ends: two of them that merge the same leads in opposite orders wait for
   each other until one is aborted. Uploads are finitely many, so that each ends when
   again and again none is in flight.                                               *)
UploadsEnd == []<>(\A b \in Batches : ~Open(b))
=============================================================================
