---------------------------- MODULE Classification ----------------------------
(***************************************************************************)
(* ICP classification: lists are requested or stopped, a worker asks which *)
(* lists to classify, takes pages of leads without a verdict and posts     *)
(* verdicts.                                                               *)
(* Source: app/controllers/classification.py, app/schemas/classification.py, *)
(* app/services/worker_pause.py; the handlers of other controllers that    *)
(* bring, complete and delete leads.                                       *)
(*                                                                         *)
(* The worker is outside the repository. It works through the lists it was *)
(* handed, a page of each, and asks again. A page it posts is read lead by *)
(* lead and committed once: the columns that changed, of the leads there   *)
(* still are.                                                              *)
(***************************************************************************)
EXTENDS LeadFilters, FiniteSets

CONSTANTS
  Leads,      \* lead ids, numbered in the order of created_at
  Early,      \* the leads in the table at the start
  Lists,      \* batches
  InLists,    \* the lists each lead is in, once it is there
  Workers,    \* pages that workers can have outstanding at once
  Answers,    \* the verdicts a worker can give
  Omitted,    \* leads a worker finds no verdict for
  Limit,      \* the limit parameter of GET /pending
  MaxOps      \* bound: human requests, uploads and crashes

ASSUME LeadsAreNumbered == Leads \subseteq Nat /\ IsFiniteSet(Leads) /\ Early \subseteq Leads
ASSUME WorkersAssumption == IsFiniteSet(Workers)
ASSUME ListsAssumption == InLists \in [Leads -> SUBSET Lists]
ASSUME AnswersAssumption ==
  \A a \in Answers : a.industry # NULL /\ a.score \in Nat
ASSUME PageAssumption == Limit \in Nat \ {0} /\ MaxOps \in Nat
(* A page is never filled by leads that get no verdict: /pending would hand out the
   same ones for ever, and none of those behind them.                              *)
ASSUME OmittedAssumption == Omitted \subseteq Leads /\ Cardinality(Omitted) < Limit

VARIABLES
  lead,       \* master_leads: what classification reads and writes of each
  requested,  \* classify_requested of each list
  paused,     \* the global pause, a key in Redis
  worker,     \* where each worker is, with the handler it waits for
  status,     \* GET /classification/status in flight: the leads counted so far
  ops,        \* human requests, uploads and crashes so far
  paid,       \* history: how often a worker was handed each lead, to pay for its verdict
  wasted      \* history: how often what was paid for it was lost

cost == <<paid, wasted>>
cvars == <<lead, requested, paused, worker, status, ops, cost>>

NoVerdict == [industry |-> NULL, score |-> NULL]

(* Posts that cross may leave the industry of one answer with the score of another. *)
Verdicts == [industry : {a.industry : a \in Answers}, score : {a.score : a \in Answers}]

Row == [row : {"absent", "live", "deleted"}, website : BOOLEAN, verdict : Verdicts \cup {NoVerdict}]

Idle == [pc |-> "idle", todo |-> {}, page |-> {}, given |-> [l \in {} |-> NoVerdict]]

NoStatus == [pc |-> "idle", list |-> NULL, classified |-> {}, pending |-> {}]

Init ==
  /\ lead = [l \in Leads |-> [row |-> IF l \in Early THEN "live" ELSE "absent",
                              website |-> l \in Early, verdict |-> NoVerdict]]
  /\ requested = [b \in Lists |-> TRUE]
  /\ paused = FALSE
  /\ worker = [w \in Workers |-> Idle]
  /\ status = NoStatus
  /\ ops = 0
  /\ paid = [l \in Leads |-> 0] /\ wasted = [l \in Leads |-> 0]

-----------------------------------------------------------------------------
(* What the queries select *)

Present(l) == lead[l].row = "live"

InBatch(b) == {l \in Leads : Present(l) /\ b \in InLists[l]}

Classified(b) == {l \in InBatch(b) : lead[l].verdict # NoVerdict}

(* Mutated form: a lead that has its verdict is classified again. *)
PendingAgain(b) == {l \in InBatch(b) : lead[l].website}

Pending(b) == {l \in InBatch(b) : lead[l].website /\ lead[l].verdict = NoVerdict}

(* Mutated form: the limit is not applied. *)
PageUnlimited(b) == Pending(b)

(* The oldest Limit pending leads. *)
Page(b) == {l \in Pending(b) : Cardinality({k \in Pending(b) : k < l}) < Limit}

-----------------------------------------------------------------------------
(* The worker *)

(* GET /requested starts with the pause; what it queries comes back later. *)
Ask(w) ==
  /\ worker[w].pc = "idle"
  /\ ~paused
  /\ worker' = [worker EXCEPT ![w].pc = "asked"]
  /\ UNCHANGED <<lead, requested, paused, status, ops, cost>>

(* Mutated form: a list with a single lead left is not worth a visit. *)
RequestedIfMany(w) ==
  /\ worker[w].pc = "asked"
  /\ LET lists == {b \in Lists : requested[b] /\ Cardinality(Pending(b)) > 1} IN
     worker' = [worker EXCEPT ![w] = IF lists = {} THEN Idle
                                     ELSE [Idle EXCEPT !.pc = "lists", !.todo = lists]]
  /\ UNCHANGED <<lead, requested, paused, status, ops, cost>>

(* The lists that are requested and have pending leads. *)
Requested(w) ==
  /\ worker[w].pc = "asked"
  /\ LET lists == {b \in Lists : requested[b] /\ Pending(b) # {}} IN
     worker' = [worker EXCEPT ![w] = IF lists = {} THEN Idle
                                     ELSE [Idle EXCEPT !.pc = "lists", !.todo = lists]]
  /\ UNCHANGED <<lead, requested, paused, status, ops, cost>>

Once(leads, l) == IF l \in leads THEN 1 ELSE 0

(* The leads of a page are paid for, those without a verdict for nothing: they are handed
   out for ever, and not counted.                                                      *)
Pay(leads) == paid' = [l \in Leads |-> paid[l] + Once(leads \ Omitted, l)]

Waste(leads) == wasted' = [l \in Leads |-> wasted[l] + Once(leads \ Omitted, l)]

(* GET /pending of the next list, whether it is still requested or not, paused or not. *)
TakePage(w) ==
  /\ worker[w].pc = "lists"
  /\ \E b \in worker[w].todo :
       /\ worker' = [worker EXCEPT ![w] =
                       [worker[w] EXCEPT !.todo = @ \ {b}, !.page = Page(b),
                                 !.pc = IF Page(b) # {} THEN "page"
                                        ELSE IF worker[w].todo = {b} THEN "idle" ELSE "lists"]]
       /\ Pay(Page(b))
  /\ UNCHANGED <<lead, requested, paused, status, ops, wasted>>

(* POST /results reads each lead of the page and skips those it does not find. *)
ReadResults(w) ==
  /\ worker[w].pc = "page"
  /\ LET found == {l \in worker[w].page \ Omitted : Present(l)} IN
     /\ \E answer \in [found -> Answers] :
          LET given == [l \in found |-> [verdict |-> answer[l], was |-> lead[l].verdict]] IN
          worker' = [worker EXCEPT ![w].pc = "post", ![w].page = {}, ![w].given = given]
     /\ Waste(worker[w].page \ found)
  /\ UNCHANGED <<lead, requested, paused, status, ops, paid>>

Done(w) == [Idle EXCEPT !.todo = worker[w].todo,
                        !.pc = IF worker[w].todo = {} THEN "idle" ELSE "lists"]

(* A column that was read with the posted value in it is not written. *)
Column(posted, was, now) == IF posted = was THEN now ELSE posted

Written(now, given) ==
  [industry |-> Column(given.verdict.industry, given.was.industry, now.industry),
   score |-> Column(given.verdict.score, given.was.score, now.score)]

(* One commit for the page. Leads that write the same columns go to the database in one
   call, which passes over those deleted since they were read. A lead that is gone and is
   sent alone fails the commit, and the worker gets no more than an error. The columns
   are also those left out here, so of several leads any may be sent alone.           *)
CommitResults(w) ==
  /\ worker[w].pc = "post"
  /\ LET given == worker[w].given
         there == {l \in DOMAIN given : Present(l)}
         gone == DOMAIN given \ there IN
     \/ /\ \A l \in gone : DOMAIN given # {l}
        /\ lead' = [l \in Leads |-> IF l \in there
                                    THEN [lead[l] EXCEPT !.verdict = Written(lead[l].verdict, given[l])]
                                    ELSE lead[l]]
        /\ Waste(gone)
     \/ /\ gone # {}
        /\ Waste(DOMAIN given)
        /\ UNCHANGED lead
  /\ worker' = [worker EXCEPT ![w] = Done(w)]
  /\ UNCHANGED <<requested, paused, status, ops, paid>>

(* The worker or the server stops: the page, and what was paid for it, is lost. *)
Crash(w) ==
  /\ ops < MaxOps
  /\ worker[w].pc # "idle"
  /\ worker' = [worker EXCEPT ![w] = Idle]
  /\ ops' = ops + 1
  /\ Waste(worker[w].page \cup DOMAIN worker[w].given)
  /\ UNCHANGED <<lead, requested, paused, status, paid>>

-----------------------------------------------------------------------------
(* GET /status: one statement after the other *)

(* Mutated form: the pending leads are counted before the classified ones. *)
CountClassifiedLast(b) ==
  \/ /\ status.pc = "idle"
     /\ status' = [NoStatus EXCEPT !.pc = "classified", !.list = b, !.pending = Pending(b)]
     /\ UNCHANGED <<lead, requested, paused, worker, ops, cost>>
  \/ /\ status.pc = "classified"
     /\ status.list = b
     /\ status' = [status EXCEPT !.pc = "done", !.classified = Classified(b)]
     /\ UNCHANGED <<lead, requested, paused, worker, ops, cost>>

CountClassified(b) ==
  /\ status.pc = "idle"
  /\ status' = [NoStatus EXCEPT !.pc = "classified", !.list = b, !.classified = Classified(b)]
  /\ UNCHANGED <<lead, requested, paused, worker, ops, cost>>

CountPending ==
  /\ status.pc = "classified"
  /\ status' = [status EXCEPT !.pc = "done", !.pending = Pending(status.list)]
  /\ UNCHANGED <<lead, requested, paused, worker, ops, cost>>

StatusAnswered ==
  /\ status.pc = "done"
  /\ status' = NoStatus
  /\ UNCHANGED <<lead, requested, paused, worker, ops, cost>>

-----------------------------------------------------------------------------
(* People and uploads *)

(* POST /request and POST /stop. *)
SetRequested(b, wanted) ==
  /\ ops < MaxOps
  /\ requested' = [requested EXCEPT ![b] = wanted]
  /\ ops' = ops + 1
  /\ UNCHANGED <<lead, paused, worker, status, cost>>

SetPaused(on) ==
  /\ ops < MaxOps
  /\ paused' = on
  /\ ops' = ops + 1
  /\ UNCHANGED <<lead, requested, worker, status, cost>>

(* An upload commits a new lead, or a merge that brings a website. An upload that began
   earlier may commit later: the lead need not be the youngest.                       *)
Upload(l, website) ==
  /\ ops < MaxOps
  /\ \/ lead[l].row = "absent"
     \/ Present(l) /\ ~lead[l].website /\ website
  /\ lead' = [lead EXCEPT ![l].row = "live", ![l].website = website]
  /\ ops' = ops + 1
  /\ UNCHANGED <<requested, paused, worker, status, cost>>

DeleteLead(l) ==
  /\ ops < MaxOps
  /\ Present(l)
  /\ lead' = [lead EXCEPT ![l] = [row |-> "deleted", website |-> FALSE, verdict |-> NoVerdict]]
  /\ ops' = ops + 1
  /\ UNCHANGED <<requested, paused, worker, status, cost>>

-----------------------------------------------------------------------------
WorkerStep(w) == Requested(w) \/ TakePage(w) \/ ReadResults(w) \/ CommitResults(w)

ClassificationNext ==
  \/ \E w \in Workers : Ask(w) \/ WorkerStep(w) \/ Crash(w)
  \/ \E b \in Lists : CountClassified(b) \/ \E wanted \in BOOLEAN : SetRequested(b, wanted)
  \/ CountPending \/ StatusAnswered
  \/ \E on \in BOOLEAN : SetPaused(on)
  \/ \E l \in Leads : DeleteLead(l) \/ \E website \in BOOLEAN : Upload(l, website)
=============================================================================
