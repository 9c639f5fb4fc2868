---------------------------- MODULE ListingProofs ----------------------------
(* Proofs about Classification and Listing, for every value of their constants. *)
EXTENDS Listing, TLAPS, FiniteSetTheorems, FunctionTheorems

(* What each part of the state may hold. *)
LeadsOK ==
  /\ lead \in [Leads -> Row]
  /\ \A l \in Leads : lead[l].row # "live" => lead[l].verdict = NoVerdict

Posted == [verdict : Answers, was : Verdicts \cup {NoVerdict}]

WorkerStates ==
  [pc : {"idle", "asked", "lists", "page", "post"}, todo : SUBSET Lists, page : SUBSET Leads,
   given : UNION {[S -> Posted] : S \in SUBSET (Leads \ Omitted)}]

(* A worker holds a page before it posts it, and what it posts after that. *)
WorkerOK(s) ==
  /\ IsFiniteSet(s.page) /\ Cardinality(s.page) <= Limit
  /\ s.pc # "page" => s.page = {}
  /\ s.pc # "post" => DOMAIN s.given = {}

WorkersOK ==
  /\ worker \in [Workers -> WorkerStates]
  /\ \A w \in Workers : WorkerOK(worker[w])

StatusStates ==
  [pc : {"idle", "classified", "done"}, list : Lists \cup {NULL}, classified : SUBSET Leads,
   pending : SUBSET Leads]

RestOK ==
  /\ requested \in [Lists -> BOOLEAN] /\ paused \in BOOLEAN
  /\ status \in StatusStates
  /\ status.pc = "classified" => status.list \in Lists
  /\ ops \in 0 .. MaxOps
  /\ paid \in [Leads -> Nat] /\ wasted \in [Leads -> Nat]

ViewStates ==
  [pc : {"closed", "count", "rows", "select", "done"}, filter : Filters \cup {NoFilter},
   page : Nat, total : Nat, seen : SUBSET Leads, selected : SUBSET Leads]

(* A verdict that a worker read is still there, or its lead is not. *)
Answered(l) == \/ lead[l].row = "deleted"
               \/ lead[l].row = "live" /\ lead[l].verdict # NoVerdict

ReadOK ==
  \A w \in Workers : \A l \in DOMAIN worker[w].given :
    worker[w].given[l].was # NoVerdict => Answered(l)

ViewOK == view \in ViewStates /\ moved \subseteq Leads /\ moves \in Nat

TypeInv == LeadsOK /\ WorkersOK /\ RestOK /\ ReadOK /\ ViewOK

-----------------------------------------------------------------------------
(* Pages *)

LEMMA PendingLeads ==
  ASSUME NEW b
  PROVE  Pending(b) \subseteq Leads /\ Page(b) \subseteq Leads /\ IsFiniteSet(Pending(b))
<1>1. Pending(b) \subseteq Leads /\ Page(b) \subseteq Leads
  BY DEF Page, Pending, InBatch
<1> QED BY <1>1, LeadsAreNumbered, FS_Subset

(* A page is no longer than its limit: the number of older pending leads tells the leads
   of a page apart, and is below the limit.                                            *)
LEMMA PageLimit ==
  ASSUME NEW b
  PROVE  IsFiniteSet(Page(b)) /\ Cardinality(Page(b)) <= Limit
<1> DEFINE older(l) == {k \in Pending(b) : k < l}
           rank == [l \in Page(b) |-> Cardinality(older(l))]
<1>1. \A l : older(l) \subseteq Pending(b) /\ IsFiniteSet(older(l)) /\ Cardinality(older(l)) \in Nat
  BY PendingLeads, FS_Subset, FS_CardinalityType
<1>2. rank \in [Page(b) -> 0 .. Limit - 1]
  <2>1. ASSUME NEW l \in Page(b) PROVE Cardinality(older(l)) \in 0 .. Limit - 1
    <3>1. Cardinality(older(l)) < Limit
      BY DEF Page
    <3> QED BY <1>1, <3>1, PageAssumption
  <2> QED BY <2>1
<1>3. ASSUME NEW k \in Page(b), NEW l \in Page(b), k < l
      PROVE  rank[k] # rank[l]
  <2>1. k \in Nat /\ l \in Nat /\ k \in Pending(b)
    BY LeadsAreNumbered, PendingLeads DEF Page
  <2>2. older(k) \subseteq older(l) /\ k \in older(l) /\ k \notin older(k)
    <3>1. ASSUME NEW j \in older(k) PROVE j \in older(l)
      <4>1. j \in Nat /\ j \in Pending(b) /\ j < k
        BY LeadsAreNumbered, PendingLeads
      <4> QED BY <1>3, <2>1, <4>1
    <3>2. ~(k < k)
      BY <2>1
    <3> QED BY <1>3, <2>1, <3>1, <3>2
  <2>3. older(k) # older(l) /\ older(k) \in SUBSET older(l)
    BY <2>2
  <2>4. Cardinality(older(k)) # Cardinality(older(l))
    BY <1>1, <2>3, FS_Subset
  <2> QED BY <2>4
<1>4. \A k, l \in Page(b) : rank[k] = rank[l] => k = l
  <2>1. \A k \in Page(b) : k \in Nat
    BY LeadsAreNumbered, PendingLeads
  <2> QED BY <1>3, <2>1
<1>5. rank \in Injection(Page(b), 0 .. Limit - 1)
  BY <1>2, <1>4 DEF Injection, IsInjective
<1>6. IsFiniteSet(0 .. Limit - 1) /\ Cardinality(0 .. Limit - 1) = Limit
  <2>1. Limit - 1 \in Int /\ 0 \in Int /\ Limit \in Nat /\ ~(0 > Limit - 1)
    BY PageAssumption
  <2> QED BY <2>1, FS_Interval
<1> HIDE DEF rank
<1> QED BY <1>5, <1>6, FS_Injection

-----------------------------------------------------------------------------
(* The state keeps its shape *)

LEMMA NoVerdictIsNone == NoVerdict \notin Verdicts
<1>1. ASSUME NEW v \in Verdicts PROVE v.industry # NULL
  BY AnswersAssumption DEF Verdicts
<1> QED BY <1>1 DEF NoVerdict

(* What is written is a verdict: a lead read without one gets all of it. *)
LEMMA WrittenIsVerdict ==
  ASSUME NEW given \in Posted, NEW now \in Verdicts \cup {NoVerdict},
         now = NoVerdict => given.was = NoVerdict
  PROVE  Written(now, given) \in Verdicts
<1>1. given.verdict \in Answers
  BY DEF Posted
<1>2. CASE now \in Verdicts
  <2>1. /\ Column(given.verdict.industry, given.was.industry, now.industry) \in {a.industry : a \in Answers}
        /\ Column(given.verdict.score, given.was.score, now.score) \in {a.score : a \in Answers}
    BY <1>1, <1>2 DEF Column, Verdicts
  <2> QED BY <2>1 DEF Written, Verdicts
<1>3. CASE now = NoVerdict /\ given.was = NoVerdict
  <2>1. /\ Column(given.verdict.industry, given.was.industry, now.industry) = given.verdict.industry
        /\ Column(given.verdict.score, given.was.score, now.score) = given.verdict.score
    BY <1>3 DEF Column, NoVerdict
  <2> QED BY <1>1, <2>1 DEF Written, Verdicts
<1> QED BY <1>2, <1>3

LEMMA IdleType == Idle \in WorkerStates /\ WorkerOK(Idle) /\ Idle.page = {} /\ DOMAIN Idle.given = {}
<1>1. [l \in {} |-> NoVerdict] \in [{} -> Posted]
  OBVIOUS
<1>2. [l \in {} |-> NoVerdict] \in UNION {[S -> Posted] : S \in SUBSET (Leads \ Omitted)}
  BY <1>1
<1>3. IsFiniteSet({}) /\ Cardinality({}) <= Limit
  BY FS_EmptySet, PageAssumption
<1> QED BY <1>2, <1>3 DEF Idle, WorkerStates, WorkerOK

(* What a worker is handed, posts or drops is well-typed. *)
LEMMA WorkerMoves ==
  ASSUME WorkersOK, NEW w \in Workers, NEW s \in WorkerStates, WorkerOK(s),
         worker' = [worker EXCEPT ![w] = s]
  PROVE  WorkersOK'
BY DEF WorkersOK

(* Counting a payment or a loss. *)
LEMMA Counted ==
  ASSUME NEW n \in [Leads -> Nat], NEW leads
  PROVE  [l \in Leads |-> n[l] + Once(leads, l)] \in [Leads -> Nat]
BY DEF Once

LEMMA LeadsKept == ASSUME LeadsOK, UNCHANGED lead PROVE LeadsOK'
BY DEF LeadsOK

LEMMA WorkersKept == ASSUME WorkersOK, UNCHANGED worker PROVE WorkersOK'
BY DEF WorkersOK

LEMMA RestKept ==
  ASSUME RestOK, UNCHANGED <<requested, paused, status, ops, cost>>
  PROVE  RestOK'
BY DEF RestOK, cost

LEMMA AskType ==
  ASSUME TypeInv, NEW w \in Workers, Ask(w) \/ Requested(w)
  PROVE  LeadsOK' /\ WorkersOK' /\ RestOK'
<1> USE DEF TypeInv
<1>1. LeadsOK' /\ RestOK'
  BY LeadsKept, RestKept DEF Ask, Requested
<1>2. worker[w] \in WorkerStates /\ WorkerOK(worker[w])
  BY DEF WorkersOK
<1>3. CASE Ask(w)
  <2> DEFINE s == [worker[w] EXCEPT !.pc = "asked"]
  <2>1. s \in WorkerStates /\ WorkerOK(s)
    BY <1>2, <1>3 DEF Ask, WorkerStates, WorkerOK
  <2>2. worker' = [worker EXCEPT ![w] = s]
    BY <1>3 DEF Ask
  <2> HIDE DEF s, TypeInv
  <2> QED BY <1>1, <2>1, <2>2, WorkerMoves DEF TypeInv
<1>4. CASE Requested(w)
  <2> DEFINE lists == {b \in Lists : requested[b] /\ Pending(b) # {}}
             s == IF lists = {} THEN Idle ELSE [Idle EXCEPT !.pc = "lists", !.todo = lists]
  <2>1. lists \in SUBSET Lists
    OBVIOUS
  <2>2. s \in WorkerStates /\ WorkerOK(s)
    <3> HIDE DEF lists
    <3> QED BY <2>1, IdleType DEF WorkerStates, WorkerOK
  <2>3. worker' = [worker EXCEPT ![w] = s]
    BY <1>4 DEF Requested
  <2> HIDE DEF s
  <2> QED BY <1>1, <2>2, <2>3, WorkerMoves
<1> QED BY <1>3, <1>4

LEMMA TakePageType ==
  ASSUME TypeInv, NEW w \in Workers, TakePage(w)
  PROVE  LeadsOK' /\ WorkersOK' /\ RestOK'
<1> USE DEF TypeInv
<1>1. PICK b \in worker[w].todo :
        /\ worker' = [worker EXCEPT ![w] =
                        [worker[w] EXCEPT !.todo = worker[w].todo \ {b}, !.page = Page(b),
                                  !.pc = IF Page(b) # {} THEN "page"
                                         ELSE IF worker[w].todo = {b} THEN "idle" ELSE "lists"]]
        /\ Pay(Page(b))
  BY DEF TakePage
<1>2. LeadsOK' /\ RestOK'
  <2>1. paid' \in [Leads -> Nat]
    BY <1>1, Counted DEF Pay, RestOK
  <2> QED BY <2>1, LeadsKept DEF TakePage, RestOK
<1> DEFINE pc == IF Page(b) # {} THEN "page" ELSE IF worker[w].todo = {b} THEN "idle" ELSE "lists"
           s == [worker[w] EXCEPT !.todo = worker[w].todo \ {b}, !.page = Page(b), !.pc = pc]
<1>3. pc \in {"idle", "lists", "page"} /\ (pc # "page" => Page(b) = {})
  OBVIOUS
<1>4. worker[w] \in WorkerStates /\ DOMAIN worker[w].given = {}
  BY DEF WorkersOK, WorkerOK, TakePage
<1>5. s \in WorkerStates /\ s.page = Page(b) /\ s.pc = pc /\ s.given = worker[w].given
  <2> HIDE DEF pc
  <2> QED BY <1>3, <1>4, PendingLeads DEF WorkerStates
<1>6. WorkerOK(s)
  <2> HIDE DEF pc, s
  <2> QED BY <1>3, <1>4, <1>5, PageLimit DEF WorkerOK
<1>7. worker' = [worker EXCEPT ![w] = s]
  BY <1>1
<1> HIDE DEF s
<1> QED BY <1>2, <1>5, <1>6, <1>7, WorkerMoves

LEMMA ReadResultsType ==
  ASSUME TypeInv, NEW w \in Workers, ReadResults(w)
  PROVE  LeadsOK' /\ WorkersOK' /\ RestOK'
<1> USE DEF TypeInv
<1> DEFINE found == {l \in worker[w].page \ Omitted : Present(l)}
<1>1. PICK answer \in [found -> Answers] :
        worker' = [worker EXCEPT ![w].pc = "post", ![w].page = {},
                     ![w].given = [l \in found |-> [verdict |-> answer[l], was |-> lead[l].verdict]]]
  BY DEF ReadResults
<1>2. LeadsOK' /\ RestOK'
  <2>1. wasted' \in [Leads -> Nat]
    BY Counted DEF ReadResults, Waste, RestOK
  <2> QED BY <2>1, LeadsKept DEF ReadResults, RestOK
<1> DEFINE given == [l \in found |-> [verdict |-> answer[l], was |-> lead[l].verdict]]
           s == [worker[w] EXCEPT !.pc = "post", !.page = {}, !.given = given]
<1>3. worker[w] \in WorkerStates /\ worker[w].page \subseteq Leads
  BY DEF WorkersOK, WorkerStates
<1>4. given \in UNION {[S -> Posted] : S \in SUBSET (Leads \ Omitted)}
  <2>1. found \in SUBSET (Leads \ Omitted)
    BY <1>3
  <2>2. \A l \in found : lead[l].verdict \in Verdicts \cup {NoVerdict}
    BY <2>1 DEF LeadsOK, Row
  <2>3. given \in [found -> Posted]
    <3> HIDE DEF found
    <3> QED BY <2>2 DEF Posted
  <2> QED BY <2>1, <2>3
<1>5. s \in WorkerStates /\ s.page = {} /\ s.pc = "post"
  <2> HIDE DEF given
  <2> QED BY <1>3, <1>4 DEF WorkerStates
<1>6. WorkerOK(s)
  <2> HIDE DEF s
  <2> QED BY <1>5, FS_EmptySet, PageAssumption DEF WorkerOK
<1>7. worker' = [worker EXCEPT ![w] = s]
  BY <1>1, <1>3 DEF WorkersOK
<1> HIDE DEF s
<1> QED BY <1>2, <1>5, <1>6, <1>7, WorkerMoves

LEMMA DoneType ==
  ASSUME WorkersOK, NEW w \in Workers
  PROVE  /\ Done(w) \in WorkerStates /\ WorkerOK(Done(w))
         /\ Done(w).page = {} /\ DOMAIN Done(w).given = {}
<1>1. worker[w] \in WorkerStates
  BY DEF WorkersOK
<1> QED BY <1>1, IdleType DEF Done, WorkerStates, WorkerOK

(* What the commit of a page does to each lead. *)
LEMMA CommitWrites ==
  ASSUME TypeInv, NEW w \in Workers, CommitResults(w), NEW l \in Leads
  PROVE  \/ lead'[l] = lead[l]
         \/ /\ lead[l].row = "live" /\ l \in DOMAIN worker[w].given
            /\ \E v \in Verdicts : lead'[l] = [lead[l] EXCEPT !.verdict = v]
<1> USE DEF TypeInv
<1> DEFINE given == worker[w].given
           there == {k \in DOMAIN given : Present(k)}
<1>1. CASE UNCHANGED lead
  BY <1>1
<1>2. CASE lead' = [k \in Leads |-> IF k \in there
                                    THEN [lead[k] EXCEPT !.verdict = Written(lead[k].verdict, given[k])]
                                    ELSE lead[k]]
  <2>1. CASE l \notin there
    BY <1>2, <2>1
  <2>2. CASE l \in there
    <3>1. given[l] \in Posted
      <4>1. PICK S \in SUBSET (Leads \ Omitted) : given \in [S -> Posted]
        BY DEF WorkersOK, WorkerStates
      <4> QED BY <2>2, <4>1
    <3>2. lead[l].verdict \in Verdicts \cup {NoVerdict} /\ lead[l].row = "live"
      BY <2>2 DEF LeadsOK, Row, Present
    <3>3. lead[l].verdict = NoVerdict => given[l].was = NoVerdict
      BY <2>2, <3>2 DEF ReadOK, Answered
    <3>4. Written(lead[l].verdict, given[l]) \in Verdicts
      BY <3>1, <3>2, <3>3, WrittenIsVerdict
    <3>5. lead'[l] = [lead[l] EXCEPT !.verdict = Written(lead[l].verdict, given[l])]
      BY <1>2, <2>2
    <3> QED BY <2>2, <3>2, <3>4, <3>5
  <2> QED BY <2>1, <2>2
<1>3. \/ UNCHANGED lead
      \/ lead' = [k \in Leads |-> IF k \in there
                                  THEN [lead[k] EXCEPT !.verdict = Written(lead[k].verdict, given[k])]
                                  ELSE lead[k]]
  BY DEF CommitResults
<1> QED BY <1>1, <1>2, <1>3

LEMMA CommitResultsType ==
  ASSUME TypeInv, NEW w \in Workers, CommitResults(w)
  PROVE  LeadsOK' /\ WorkersOK' /\ RestOK'
<1> USE DEF TypeInv
<1>1. WorkersOK'
  BY DoneType, WorkerMoves DEF CommitResults
<1>2. LeadsOK'
  <2>1. lead' = [l \in Leads |-> lead'[l]]
    BY DEF CommitResults, LeadsOK
  <2>2. ASSUME NEW l \in Leads
        PROVE  lead'[l] \in Row /\ (lead'[l].row # "live" => lead'[l].verdict = NoVerdict)
    <3>1. lead[l] \in Row /\ (lead[l].row # "live" => lead[l].verdict = NoVerdict)
      BY DEF LeadsOK
    <3>2. ASSUME NEW v \in Verdicts, lead[l].row = "live", lead'[l] = [lead[l] EXCEPT !.verdict = v]
          PROVE  lead'[l] \in Row /\ lead'[l].row = "live"
      BY <3>1, <3>2 DEF Row
    <3> QED BY <3>1, <3>2, CommitWrites
  <2> QED BY <2>1, <2>2 DEF LeadsOK
<1>3. RestOK'
  <2>1. \E leads : Waste(leads)
    BY DEF CommitResults
  <2>2. wasted' \in [Leads -> Nat]
    BY <2>1, Counted DEF Waste, RestOK
  <2> QED BY <2>2 DEF CommitResults, RestOK
<1> QED BY <1>1, <1>2, <1>3

LEMMA CrashType ==
  ASSUME TypeInv, NEW w \in Workers, Crash(w)
  PROVE  LeadsOK' /\ WorkersOK' /\ RestOK'
<1> USE DEF TypeInv
<1>1. LeadsOK'
  BY LeadsKept DEF Crash
<1>2. RestOK'
  <2>1. wasted' \in [Leads -> Nat]
    BY Counted DEF Crash, Waste, RestOK
  <2>2. ops' \in 0 .. MaxOps
    BY PageAssumption DEF Crash, RestOK
  <2> QED BY <2>1, <2>2 DEF Crash, RestOK
<1> QED BY <1>1, <1>2, IdleType, WorkerMoves DEF Crash

LEMMA StatusType ==
  ASSUME TypeInv, (\E b \in Lists : CountClassified(b)) \/ CountPending \/ StatusAnswered
  PROVE  LeadsOK' /\ WorkersOK' /\ RestOK'
<1> USE DEF TypeInv
<1>1. LeadsOK' /\ WorkersOK'
  BY LeadsKept, WorkersKept DEF CountClassified, CountPending, StatusAnswered
<1>2. UNCHANGED <<requested, paused, ops, paid, wasted>>
  BY DEF cost, CountClassified, CountPending, StatusAnswered
<1>3. status' \in StatusStates /\ (status'.pc = "classified" => status'.list \in Lists)
  <2>1. CASE \E b \in Lists : CountClassified(b)
    <3>1. PICK b \in Lists : CountClassified(b)
      BY <2>1
    <3>2. Classified(b) \subseteq Leads
      BY DEF Classified, InBatch
    <3>3. status' = [pc |-> "classified", list |-> b, classified |-> Classified(b), pending |-> {}]
      BY <3>1 DEF CountClassified, NoStatus
    <3> QED BY <3>2, <3>3 DEF StatusStates
  <2>2. CASE CountPending
    <3>1. status' = [status EXCEPT !.pc = "done", !.pending = Pending(status.list)]
      BY <2>2 DEF CountPending
    <3>2. Pending(status.list) \subseteq Leads
      BY PendingLeads
    <3> QED BY <3>1, <3>2 DEF RestOK, StatusStates
  <2>3. CASE StatusAnswered
    BY <2>3 DEF StatusAnswered, NoStatus, StatusStates
  <2> QED BY <2>1, <2>2, <2>3
<1> QED BY <1>1, <1>2, <1>3 DEF RestOK

LEMMA RequestType ==
  ASSUME TypeInv,
         \/ \E b \in Lists, wanted \in BOOLEAN : SetRequested(b, wanted)
         \/ \E on \in BOOLEAN : SetPaused(on)
  PROVE  LeadsOK' /\ WorkersOK' /\ RestOK'
<1> USE DEF TypeInv
<1>1. LeadsOK' /\ WorkersOK'
  BY LeadsKept, WorkersKept DEF SetRequested, SetPaused
<1>2. RestOK'
  BY PageAssumption DEF SetRequested, SetPaused, RestOK, cost
<1> QED BY <1>1, <1>2

LEMMA LeadChangeType ==
  ASSUME TypeInv, NEW l \in Leads, NEW website \in BOOLEAN, Upload(l, website) \/ DeleteLead(l)
  PROVE  LeadsOK' /\ WorkersOK' /\ RestOK'
<1> USE DEF TypeInv
<1>1. WorkersOK'
  BY WorkersKept DEF Upload, DeleteLead
<1>2. RestOK'
  BY PageAssumption DEF Upload, DeleteLead, RestOK, cost
<1>3. CASE Upload(l, website)
  <2>1. lead' = [lead EXCEPT ![l] = [lead[l] EXCEPT !.row = "live", !.website = website]]
    BY <1>3 DEF Upload, LeadsOK
  <2>2. [lead[l] EXCEPT !.row = "live", !.website = website] \in Row
    BY DEF LeadsOK, Row
  <2>3. [lead[l] EXCEPT !.row = "live", !.website = website].row = "live"
    BY DEF LeadsOK, Row
  <2> QED BY <1>1, <1>2, <2>1, <2>2, <2>3 DEF LeadsOK
<1>4. CASE DeleteLead(l)
  BY <1>1, <1>2, <1>4 DEF DeleteLead, LeadsOK, Row
<1> QED BY <1>3, <1>4

LEMMA ClassificationType ==
  ASSUME TypeInv, ClassificationNext
  PROVE  LeadsOK' /\ WorkersOK' /\ RestOK'
BY AskType, TakePageType, ReadResultsType, CommitResultsType, CrashType, StatusType,
   RequestType, LeadChangeType DEF ClassificationNext, WorkerStep

-----------------------------------------------------------------------------
(* A verdict once written stays, as long as its lead *)

(* The steps of the table, of which classification knows nothing. *)
Reading == (\E f \in Filters : OpenView(f)) \/ CountMatching \/ FetchRows \/ Select \/ CloseView

LEMMA StepCases ==
  ASSUME [Next]_vars
  PROVE  Underneath(ClassificationNext) \/ Reading \/ UNCHANGED vars
BY DEF Next, Reading

(* How a step changes one lead. *)
LEMMA LeadSteps ==
  ASSUME TypeInv, [Next]_vars, NEW l \in Leads
  PROVE  \/ lead'[l] = lead[l]
         \/ lead[l].row = "live" /\ \E v \in Verdicts : lead'[l] = [lead[l] EXCEPT !.verdict = v]
         \/ /\ lead[l].row \in {"absent", "live"}
            /\ \E website \in BOOLEAN : lead'[l] = [lead[l] EXCEPT !.row = "live", !.website = website]
         \/ lead'[l].row = "deleted"
<1> USE DEF TypeInv
<1>1. CASE UNCHANGED lead
  BY <1>1
<1>2. ASSUME NEW w \in Workers, CommitResults(w)
      PROVE  \/ lead'[l] = lead[l]
             \/ lead[l].row = "live" /\ \E v \in Verdicts : lead'[l] = [lead[l] EXCEPT !.verdict = v]
  BY <1>2, CommitWrites
<1>3. ASSUME NEW k \in Leads, NEW website \in BOOLEAN, Upload(k, website)
      PROVE  \/ lead'[l] = lead[l]
             \/ /\ lead[l].row \in {"absent", "live"}
                /\ lead'[l] = [lead[l] EXCEPT !.row = "live", !.website = website]
  <2>1. /\ lead' = [lead EXCEPT ![k] = [lead[k] EXCEPT !.row = "live", !.website = website]]
        /\ lead[k].row \in {"absent", "live"}
    BY <1>3 DEF Upload, LeadsOK, Present
  <2> QED BY <2>1 DEF LeadsOK
<1>4. ASSUME NEW k \in Leads, DeleteLead(k)
      PROVE  lead'[l] = lead[l] \/ lead'[l].row = "deleted"
  BY <1>4 DEF DeleteLead, LeadsOK
<1>5. CASE Underneath(ClassificationNext)
  <2>1. CASE \/ \E w \in Workers : Ask(w) \/ Requested(w) \/ TakePage(w) \/ ReadResults(w) \/ Crash(w)
             \/ \E b \in Lists : CountClassified(b) \/ \E wanted \in BOOLEAN : SetRequested(b, wanted)
             \/ CountPending \/ StatusAnswered
             \/ \E on \in BOOLEAN : SetPaused(on)
    <3>1. UNCHANGED lead
      BY <2>1 DEF Ask, Requested, TakePage, ReadResults, Crash, CountClassified, SetRequested,
                  CountPending, StatusAnswered, SetPaused
    <3> QED BY <1>1, <3>1
  <2>2. CASE \E w \in Workers : CommitResults(w)
    BY <1>1, <1>2, <2>2
  <2>3. CASE \E k \in Leads : DeleteLead(k) \/ \E website \in BOOLEAN : Upload(k, website)
    BY <1>3, <1>4, <2>3
  <2> QED BY <1>5, <2>1, <2>2, <2>3 DEF Underneath, ClassificationNext, WorkerStep
<1>6. CASE Reading \/ UNCHANGED vars
  <2>1. UNCHANGED lead
    BY <1>6 DEF Reading, OpenView, CountMatching, FetchRows, Select, CloseView, vars, cvars
  <2> QED BY <1>1, <2>1
<1> QED BY <1>5, <1>6, StepCases

LEMMA AnsweredStays ==
  ASSUME TypeInv, [Next]_vars, NEW l \in Leads, Answered(l)
  PROVE  Answered(l)'
<1>1. lead[l] \in Row
  BY DEF TypeInv, LeadsOK
<1>2. ASSUME NEW v \in Verdicts, lead[l].row = "live", lead'[l] = [lead[l] EXCEPT !.verdict = v]
      PROVE  lead'[l].row = "live" /\ lead'[l].verdict # NoVerdict
  BY <1>1, <1>2, NoVerdictIsNone DEF Row
<1>3. ASSUME NEW website \in BOOLEAN, lead[l].row \in {"absent", "live"},
             lead'[l] = [lead[l] EXCEPT !.row = "live", !.website = website]
      PROVE  lead'[l].row = "live" /\ lead'[l].verdict = lead[l].verdict
  BY <1>1, <1>3 DEF Row
<1> QED BY <1>2, <1>3, LeadSteps DEF Answered

(* What a worker is about to post it held before, or read just now. *)
LEMMA GivenStep ==
  ASSUME TypeInv, [Next]_vars, NEW w \in Workers, NEW l \in DOMAIN worker'[w].given
  PROVE  \/ l \in DOMAIN worker[w].given /\ worker'[w].given[l] = worker[w].given[l]
         \/ Present(l) /\ worker'[w].given[l].was = lead[l].verdict /\ UNCHANGED lead
<1> DEFINE Kept == l \in DOMAIN worker[w].given /\ worker'[w].given[l] = worker[w].given[l]
<1>w. WorkersOK /\ worker[w] \in WorkerStates
  BY DEF TypeInv, WorkersOK
<1>1. CASE worker'[w] = worker[w]
  BY <1>1
<1>2. CASE Ask(w)
  BY <1>2, <1>w DEF Ask, WorkersOK, WorkerStates
<1>3. CASE Requested(w) \/ Crash(w)
  <2>1. PICK lists : worker'[w] = Idle \/ worker'[w] = [Idle EXCEPT !.pc = "lists", !.todo = lists]
    <3> DEFINE lists == {b \in Lists : requested[b] /\ Pending(b) # {}}
    <3>1. /\ Requested(w) => worker' = [worker EXCEPT ![w] = IF lists = {} THEN Idle
                                          ELSE [Idle EXCEPT !.pc = "lists", !.todo = lists]]
          /\ Crash(w) => worker' = [worker EXCEPT ![w] = Idle]
      BY DEF Requested, Crash
    <3> HIDE DEF lists
    <3> QED BY <1>3, <3>1, <1>w DEF WorkersOK
  <2>2. worker'[w].given = Idle.given
    BY <2>1 DEF Idle
  <2> QED BY <2>2, IdleType
<1>4. CASE TakePage(w)
  <2>1. PICK b :
          worker' = [worker EXCEPT ![w] =
                       [worker[w] EXCEPT !.todo = worker[w].todo \ {b}, !.page = Page(b),
                                 !.pc = IF Page(b) # {} THEN "page"
                                        ELSE IF worker[w].todo = {b} THEN "idle" ELSE "lists"]]
    BY <1>4 DEF TakePage
  <2> DEFINE pc == IF Page(b) # {} THEN "page" ELSE IF worker[w].todo = {b} THEN "idle" ELSE "lists"
             s == [worker[w] EXCEPT !.todo = worker[w].todo \ {b}, !.page = Page(b), !.pc = pc]
  <2>2. worker'[w] = s
    BY <2>1, <1>w DEF WorkersOK
  <2>3. s.given = worker[w].given
    <3> HIDE DEF pc
    <3> QED BY <1>w DEF WorkerStates
  <2> HIDE DEF s
  <2> QED BY <2>2, <2>3
<1>5. CASE ReadResults(w)
  <2> DEFINE found == {k \in worker[w].page \ Omitted : Present(k)}
  <2>1. PICK answer \in [found -> Answers] :
          worker' = [worker EXCEPT ![w].pc = "post", ![w].page = {},
                       ![w].given = [k \in found |-> [verdict |-> answer[k], was |-> lead[k].verdict]]]
    BY <1>5 DEF ReadResults
  <2>2. worker'[w].given = [k \in found |-> [verdict |-> answer[k], was |-> lead[k].verdict]]
    BY <2>1, <1>w DEF WorkersOK, WorkerStates
  <2>3. Present(l) /\ worker'[w].given[l].was = lead[l].verdict
    BY <2>2
  <2> QED BY <1>5, <2>3 DEF ReadResults
<1>6. CASE CommitResults(w)
  <2>1. worker'[w] = Done(w)
    BY <1>6, <1>w DEF CommitResults, WorkersOK
  <2> QED BY <2>1, <1>w, DoneType
<1>7. CASE \E v \in Workers \ {w} : Ask(v) \/ WorkerStep(v) \/ Crash(v)
  <2>1. worker'[w] = worker[w]
    BY <1>7, <1>w DEF WorkersOK, Ask, WorkerStep, Requested, TakePage, ReadResults, CommitResults, Crash
  <2> QED BY <1>1, <2>1
<1>8. CASE \/ \E b \in Lists : CountClassified(b) \/ \E wanted \in BOOLEAN : SetRequested(b, wanted)
           \/ CountPending \/ StatusAnswered
           \/ \E on \in BOOLEAN : SetPaused(on)
           \/ \E k \in Leads : DeleteLead(k) \/ \E website \in BOOLEAN : Upload(k, website)
  <2>1. UNCHANGED worker
    BY <1>8 DEF CountClassified, SetRequested, CountPending, StatusAnswered, SetPaused, DeleteLead, Upload
  <2> QED BY <1>1, <2>1
<1>9. CASE Underneath(ClassificationNext)
  BY <1>2, <1>3, <1>4, <1>5, <1>6, <1>7, <1>8, <1>9 DEF Underneath, ClassificationNext, WorkerStep
<1>10. CASE Reading \/ UNCHANGED vars
  <2>1. UNCHANGED worker
    BY <1>10 DEF Reading, OpenView, CountMatching, FetchRows, Select, CloseView, vars, cvars
  <2> QED BY <1>1, <2>1
<1> QED BY <1>9, <1>10, StepCases

(* So what a worker read with a verdict still has one, or is gone. *)
LEMMA ReadStays == ASSUME TypeInv, [Next]_vars PROVE ReadOK'
<1> SUFFICES ASSUME NEW w \in Workers, NEW l \in DOMAIN worker'[w].given,
                    worker'[w].given[l].was # NoVerdict
             PROVE  Answered(l)'
  BY DEF ReadOK
<1>1. CASE l \in DOMAIN worker[w].given /\ worker'[w].given[l] = worker[w].given[l]
  <2>1. Answered(l)
    BY <1>1 DEF TypeInv, ReadOK
  <2>2. l \in Leads
    <3>1. worker[w] \in WorkerStates
      BY DEF TypeInv, WorkersOK
    <3>2. PICK S \in SUBSET (Leads \ Omitted) : worker[w].given \in [S -> Posted]
      BY <3>1 DEF WorkerStates
    <3> QED BY <1>1, <3>2
  <2> QED BY <2>1, <2>2, AnsweredStays
<1>2. CASE Present(l) /\ worker'[w].given[l].was = lead[l].verdict /\ UNCHANGED lead
  BY <1>2 DEF Answered, Present
<1> QED BY <1>1, <1>2, GivenStep

-----------------------------------------------------------------------------
(* The view *)

LEMMA MatchingLeads == Matching \subseteq Leads /\ IsFiniteSet(Matching) /\ Cardinality(Matching) \in Nat
<1>1. Matching \subseteq Leads
  BY DEF Matching
<1> QED BY <1>1, LeadsAreNumbered, FS_Subset, FS_CardinalityType

LEMMA ReadingType == ASSUME TypeInv, Reading, ReadOK' PROVE TypeInv'
<1> USE DEF TypeInv
<1>1. UNCHANGED cvars
  BY DEF Reading, OpenView, CountMatching, FetchRows, Select, CloseView
<1>2. LeadsOK' /\ WorkersOK' /\ RestOK'
  BY <1>1, LeadsKept, WorkersKept, RestKept DEF cvars
<1>3. view \in ViewStates /\ moved \subseteq Leads /\ moves \in Nat
  BY DEF ViewOK
<1>4. CASE \E f \in Filters : OpenView(f)
  <2>1. PICK f \in Filters : OpenView(f)
    BY <1>4
  <2>2. view' = [pc |-> "count", filter |-> f, page |-> 1, total |-> 0, seen |-> {}, selected |-> {}]
    BY <2>1 DEF OpenView, Closed
  <2>3. view' \in ViewStates
    BY <2>2 DEF ViewStates
  <2> QED BY <1>2, <1>3, <2>1, <2>3 DEF OpenView, history, ViewOK
<1>5. CASE CountMatching
  BY <1>2, <1>3, <1>5, MatchingLeads DEF CountMatching, history, ViewOK, ViewStates
<1>6. CASE FetchRows
  <2>1. Rows(view.page) \subseteq Leads
    BY DEF Rows, Matching
  <2>2. view.page + 1 \in Nat /\ view.seen \cup Rows(view.page) \subseteq Leads
    BY <1>3, <2>1 DEF ViewStates
  <2>3. \/ view' = [view EXCEPT !.pc = "count", !.page = view.page + 1,
                                !.seen = view.seen \cup Rows(view.page)]
        \/ view' = [view EXCEPT !.pc = "select", !.seen = view.seen \cup Rows(view.page)]
    BY <1>6 DEF FetchRows
  <2>4. view' \in ViewStates
    BY <1>3, <2>2, <2>3 DEF ViewStates
  <2> QED BY <1>2, <1>3, <1>6, <2>4 DEF FetchRows, history, ViewOK
<1>7. CASE Select
  BY <1>2, <1>3, <1>7 DEF Select, history, ViewOK, ViewStates
<1>8. CASE CloseView
  BY <1>2, <1>8 DEF CloseView, Closed, ViewOK, ViewStates
<1> QED BY <1>4, <1>5, <1>6, <1>7, <1>8 DEF Reading

LEMMA UnderneathType == ASSUME TypeInv, Underneath(ClassificationNext), ReadOK' PROVE TypeInv'
<1>1. ClassificationNext
  BY DEF Underneath
<1>2. LeadsOK' /\ WorkersOK' /\ RestOK'
  BY <1>1, ClassificationType
<1>3. Moving \subseteq Leads /\ Cardinality(Moving) \in Nat
  BY LeadsAreNumbered, FS_Subset, FS_CardinalityType DEF Moving
<1>4. view' = view /\ moved' \subseteq Leads /\ moves' \in Nat
  BY <1>3 DEF Underneath, history, TypeInv, ViewOK
<1> QED BY <1>2, <1>4 DEF TypeInv, ViewOK

LEMMA TypeNext == TypeInv /\ [Next]_vars => TypeInv'
<1> SUFFICES ASSUME TypeInv, [Next]_vars PROVE TypeInv'
  OBVIOUS
<1>1. CASE UNCHANGED vars
  BY <1>1, LeadsKept, WorkersKept, RestKept, ReadStays DEF vars, cvars, history, TypeInv, ViewOK
<1> QED BY <1>1, StepCases, ReadStays, UnderneathType, ReadingType

LEMMA TypeInit == ListingInit => TypeInv
<1> SUFFICES ASSUME ListingInit PROVE TypeInv
  OBVIOUS
<1>1. LeadsOK
  BY DEF ListingInit, Init, LeadsOK, Row
<1>2. WorkersOK
  BY IdleType, FS_EmptySet, PageAssumption DEF ListingInit, Init, WorkersOK
<1>3. RestOK
  <2>1. status \in StatusStates /\ status.pc = "idle"
    BY DEF ListingInit, Init, NoStatus, StatusStates
  <2>2. requested \in [Lists -> BOOLEAN] /\ paused \in BOOLEAN
       /\ paid \in [Leads -> Nat] /\ wasted \in [Leads -> Nat]
    BY DEF ListingInit, Init
  <2>3. ops \in 0 .. MaxOps
    BY PageAssumption DEF ListingInit, Init
  <2> QED BY <2>1, <2>2, <2>3 DEF RestOK
<1>4. ReadOK
  BY IdleType DEF ListingInit, Init, ReadOK
<1>5. ViewOK
  BY DEF ListingInit, Closed, ViewOK, ViewStates
<1> QED BY <1>1, <1>2, <1>3, <1>4, <1>5 DEF TypeInv

(* The tables, the workers and what users are looking at keep their types: the invariant
   that every other theorem here starts from.                                         *)
THEOREM TypeCorrect == Spec => []TypeInv
BY TypeInit, TypeNext, PTL DEF Spec

(* The shape of the state, with no page longer than the limit of its request. *)
THEOREM TypesHold == Spec => []TypeOK
<1>1. TypeInv => TypeOK
  <2> SUFFICES ASSUME TypeInv PROVE TypeOK
    OBVIOUS
  <2>1. ASSUME NEW w \in Workers
        PROVE  /\ worker[w].pc \in {"idle", "asked", "lists", "page", "post"}
               /\ worker[w].todo \subseteq Lists
               /\ Cardinality(worker[w].page) <= Limit
               /\ DOMAIN worker[w].given \subseteq Leads \ Omitted
    <3>1. worker[w] \in WorkerStates /\ WorkerOK(worker[w])
      BY DEF TypeInv, WorkersOK
    <3>2. PICK S \in SUBSET (Leads \ Omitted) : worker[w].given \in [S -> Posted]
      BY <3>1 DEF WorkerStates
    <3> QED BY <3>1, <3>2 DEF WorkerStates, WorkerOK
  <2> QED BY <2>1 DEF TypeOK, TypeInv, LeadsOK, RestOK, StatusStates, ViewOK, ViewStates
<1> QED BY <1>1, TypeCorrect, PTL

-----------------------------------------------------------------------------
(* What has its verdict is not pending *)

LEMMA AnsweredNotPending ==
  ASSUME NEW l, NEW b, Answered(l)
  PROVE  l \notin Pending(b) /\ l \notin Page(b)
BY DEF Answered, Page, Pending, InBatch, Present

LEMMA ClassifiedAnswered ==
  ASSUME NEW b, NEW l \in Classified(b)
  PROVE  Answered(l)
BY DEF Answered, Classified, InBatch, Present

-----------------------------------------------------------------------------
(* How often a lead is paid for *)

Holds(s, l) == l \in s.page \cup DOMAIN s.given

Holders(l) == {w \in Workers : Holds(worker[w], l)}

LEMMA HoldersFinite ==
  ASSUME NEW l
  PROVE  /\ IsFiniteSet(Holders(l)) /\ Cardinality(Holders(l)) <= Cardinality(Workers)
         /\ IsFiniteSet(Holders(l)') /\ Cardinality(Holders(l)') <= Cardinality(Workers)
         /\ Cardinality(Holders(l)) \in Nat /\ Cardinality(Holders(l)') \in Nat
         /\ Cardinality(Workers) \in Nat
<1>1. Holders(l) \in SUBSET Workers /\ Holders(l)' \in SUBSET Workers
  BY DEF Holders
<1> QED BY <1>1, WorkersAssumption, FS_Subset, FS_CardinalityType

(* The holders of a lead, when one worker's state changes to s. *)
LEMMA HoldersMove ==
  ASSUME WorkersOK, NEW l, NEW w \in Workers, NEW s, worker' = [worker EXCEPT ![w] = s]
  PROVE  /\ Holds(s, l) => Holders(l)' = Holders(l) \cup {w}
         /\ ~Holds(s, l) => Holders(l)' = Holders(l) \ {w}
         /\ w \in Holders(l) <=> Holds(worker[w], l)
BY DEF WorkersOK, Holders

(* A step that pays nothing for a lead: a worker lets go of it only by wasting what was
   paid, or by writing its verdict.                                                   *)
PaysNothing(l) ==
  /\ paid'[l] = paid[l] /\ wasted'[l] \in Nat /\ wasted'[l] >= wasted[l]
  /\ \/ Answered(l)'
     \/ \E w \in Workers : /\ Holders(l)' = Holders(l) \ {w}
                           /\ wasted'[l] = wasted[l] + Once(Holders(l), w)
     \/ Holders(l)' = Holders(l)

(* A step that pays for a lead hands it to a worker that does not hold it. *)
PaysFor(l) ==
  /\ ~Answered(l) /\ UNCHANGED lead
  /\ paid'[l] = paid[l] + 1 /\ wasted'[l] = wasted[l]
  /\ \E w \in Workers \ Holders(l) : Holders(l)' = Holders(l) \cup {w}

(* A worker that comes to hold no lead it did not hold, and wastes those it lets go. *)
LEMMA LettingGo ==
  ASSUME TypeInv, NEW w \in Workers, NEW l \in Leads \ Omitted, NEW s,
         worker' = [worker EXCEPT ![w] = s], UNCHANGED paid,
         NEW leads, wasted' = [k \in Leads |-> wasted[k] + Once(leads \ Omitted, k)],
         Holds(s, l) => Holds(worker[w], l) /\ l \notin leads,
         ~Holds(s, l) => (Holds(worker[w], l) <=> l \in leads)
  PROVE  PaysNothing(l)
<1>1. WorkersOK /\ wasted[l] \in Nat
  BY DEF TypeInv, RestOK
<1>2. wasted'[l] = wasted[l] + Once(leads, l) /\ Once(leads, l) \in 0 .. 1
  BY DEF Once
<1>3. CASE Holds(s, l)
  <2>1. w \in Holders(l) /\ Holders(l)' = Holders(l) \cup {w}
    BY <1>1, <1>3, HoldersMove
  <2>2. Holders(l)' = Holders(l)
    BY <2>1
  <2>3. wasted'[l] = wasted[l]
    BY <1>1, <1>2, <1>3 DEF Once
  <2> QED BY <1>1, <2>2, <2>3 DEF PaysNothing
<1>4. CASE ~Holds(s, l)
  <2>1. Holders(l)' = Holders(l) \ {w} /\ (w \in Holders(l) <=> Holds(worker[w], l))
    BY <1>1, <1>4, HoldersMove
  <2>2. Once(Holders(l), w) = Once(leads, l)
    BY <1>4, <2>1 DEF Once
  <2>3. wasted'[l] \in Nat /\ wasted'[l] >= wasted[l]
    BY <1>1, <1>2
  <2> QED BY <1>2, <2>1, <2>2, <2>3 DEF PaysNothing
<1> QED BY <1>3, <1>4

LEMMA NothingWasted ==
  ASSUME TypeInv, UNCHANGED wasted
  PROVE  wasted' = [k \in Leads |-> wasted[k] + Once({} \ Omitted, k)]
BY DEF TypeInv, RestOK, Once

LEMMA AskPays ==
  ASSUME TypeInv, NEW w \in Workers, NEW l \in Leads \ Omitted, Ask(w) \/ Requested(w)
  PROVE  PaysNothing(l)
<1>1. worker[w] \in WorkerStates /\ worker[w].page = {} /\ DOMAIN worker[w].given = {}
  BY DEF TypeInv, WorkersOK, WorkerOK, Ask, Requested
<1>2. PICK s : worker' = [worker EXCEPT ![w] = s] /\ ~Holds(s, l)
  <2>1. CASE Ask(w)
    <3> DEFINE s == [worker[w] EXCEPT !.pc = "asked"]
    <3>1. worker' = [worker EXCEPT ![w] = s]
      BY <2>1 DEF Ask
    <3>2. s.page = worker[w].page /\ s.given = worker[w].given
      BY <1>1 DEF WorkerStates
    <3> HIDE DEF s
    <3> QED BY <1>1, <3>1, <3>2 DEF Holds
  <2>2. CASE Requested(w)
    <3> DEFINE lists == {b \in Lists : requested[b] /\ Pending(b) # {}}
               s == IF lists = {} THEN Idle ELSE [Idle EXCEPT !.pc = "lists", !.todo = lists]
    <3>1. worker' = [worker EXCEPT ![w] = s]
      BY <2>2 DEF Requested
    <3>2. ~Holds(s, l)
      <4> HIDE DEF lists
      <4> QED BY DEF Holds, Idle
    <3> QED BY <3>1, <3>2
  <2> QED BY <2>1, <2>2
<1>3. ~Holds(worker[w], l)
  BY <1>1 DEF Holds
<1>4. UNCHANGED <<paid, wasted>>
  BY DEF Ask, Requested, cost
<1> QED BY <1>2, <1>3, <1>4, NothingWasted, LettingGo

LEMMA TakePagePays ==
  ASSUME TypeInv, NEW w \in Workers, NEW l \in Leads \ Omitted, TakePage(w)
  PROVE  PaysNothing(l) \/ PaysFor(l)
<1>1. /\ WorkersOK /\ worker[w] \in WorkerStates /\ ~Holds(worker[w], l)
      /\ paid \in [Leads -> Nat] /\ wasted \in [Leads -> Nat]
  BY DEF TypeInv, RestOK, WorkersOK, WorkerOK, TakePage, Holds
<1>2. PICK b \in worker[w].todo :
        /\ worker' = [worker EXCEPT ![w] =
                        [worker[w] EXCEPT !.todo = worker[w].todo \ {b}, !.page = Page(b),
                                  !.pc = IF Page(b) # {} THEN "page"
                                         ELSE IF worker[w].todo = {b} THEN "idle" ELSE "lists"]]
        /\ Pay(Page(b))
  BY DEF TakePage
<1> DEFINE pc == IF Page(b) # {} THEN "page" ELSE IF worker[w].todo = {b} THEN "idle" ELSE "lists"
           s == [worker[w] EXCEPT !.todo = worker[w].todo \ {b}, !.page = Page(b), !.pc = pc]
<1>7. s.page = Page(b) /\ s.given = worker[w].given
  <2> HIDE DEF pc
  <2> QED BY <1>1 DEF WorkerStates
<1>8. worker' = [worker EXCEPT ![w] = s]
  BY <1>2
<1> HIDE DEF s
<1>3. worker' = [worker EXCEPT ![w] = s] /\ (Holds(s, l) <=> l \in Page(b))
  BY <1>1, <1>7, <1>8 DEF Holds
<1>4. UNCHANGED <<lead, wasted>> /\ paid'[l] = paid[l] + Once(Page(b), l)
  BY <1>2 DEF TakePage, Pay, Once
<1>5. CASE l \in Page(b)
  <2>1. w \in Workers \ Holders(l) /\ Holders(l)' = Holders(l) \cup {w}
    BY <1>1, <1>3, <1>5, HoldersMove
  <2>2. ~Answered(l)
    BY <1>5, AnsweredNotPending
  <2> QED BY <1>4, <1>5, <2>1, <2>2 DEF PaysFor, Once
<1>6. CASE l \notin Page(b)
  <2>1. paid' = [k \in Leads |-> paid'[k]] /\ paid'[l] = paid[l]
    BY <1>1, <1>2, <1>4, <1>6 DEF Pay, Once
  <2>2. Holders(l)' = Holders(l) \ {w} /\ w \notin Holders(l)
    BY <1>1, <1>3, <1>6, HoldersMove
  <2> QED BY <1>1, <1>4, <2>1, <2>2 DEF PaysNothing
<1> QED BY <1>5, <1>6

LEMMA ReadResultsPays ==
  ASSUME TypeInv, NEW w \in Workers, NEW l \in Leads \ Omitted, ReadResults(w)
  PROVE  PaysNothing(l)
<1> DEFINE found == {k \in worker[w].page \ Omitted : Present(k)}
<1>1. WorkersOK /\ worker[w] \in WorkerStates /\ DOMAIN worker[w].given = {}
  BY DEF TypeInv, WorkersOK, WorkerOK, ReadResults
<1>2. PICK answer \in [found -> Answers] :
        worker' = [worker EXCEPT ![w].pc = "post", ![w].page = {},
                     ![w].given = [k \in found |-> [verdict |-> answer[k], was |-> lead[k].verdict]]]
  BY DEF ReadResults
<1> DEFINE given == [k \in found |-> [verdict |-> answer[k], was |-> lead[k].verdict]]
           s == [worker[w] EXCEPT !.pc = "post", !.page = {}, !.given = given]
<1>3. worker' = [worker EXCEPT ![w] = s]
  BY <1>1, <1>2 DEF WorkersOK
<1>4. s.page = {} /\ DOMAIN s.given = found
  <2>1. s.page = {} /\ s.given = given
    <3> HIDE DEF given
    <3> QED BY <1>1 DEF WorkerStates
  <2> QED BY <2>1
<1> HIDE DEF s
<1>5. /\ Holds(s, l) <=> l \in found
      /\ Holds(worker[w], l) <=> l \in worker[w].page
  BY <1>1, <1>4 DEF Holds
<1>6. UNCHANGED paid /\ wasted' = [k \in Leads |-> wasted[k] + Once((worker[w].page \ found) \ Omitted, k)]
  BY DEF ReadResults, Waste
<1>7. /\ Holds(s, l) => Holds(worker[w], l) /\ l \notin worker[w].page \ found
      /\ ~Holds(s, l) => (Holds(worker[w], l) <=> l \in worker[w].page \ found)
  BY <1>5
<1> HIDE DEF found
<1> QED BY <1>3, <1>6, <1>7, LettingGo

LEMMA CommitPays ==
  ASSUME TypeInv, NEW w \in Workers, NEW l \in Leads \ Omitted, CommitResults(w)
  PROVE  PaysNothing(l)
<1> DEFINE given == worker[w].given
           there == {k \in DOMAIN given : Present(k)}
           gone == DOMAIN given \ there
<1>1. /\ WorkersOK /\ worker[w] \in WorkerStates /\ worker[w].page = {}
      /\ worker' = [worker EXCEPT ![w] = Done(w)] /\ UNCHANGED paid
  BY DEF TypeInv, WorkersOK, WorkerOK, CommitResults
<1>2. ~Holds(Done(w), l) /\ (Holds(worker[w], l) <=> l \in DOMAIN given)
  BY <1>1, DoneType DEF Holds
<1>3. CASE Waste(DOMAIN given)
  BY <1>1, <1>2, <1>3, LettingGo DEF Waste
<1>4. CASE /\ lead' = [k \in Leads |-> IF k \in there
                                       THEN [lead[k] EXCEPT !.verdict = Written(lead[k].verdict, given[k])]
                                       ELSE lead[k]]
           /\ Waste(gone)
  <2>1. CASE l \in there
    <3>1. given[l] \in Posted
      <4>1. PICK S \in SUBSET (Leads \ Omitted) : given \in [S -> Posted]
        BY <1>1 DEF WorkerStates
      <4> QED BY <2>1, <4>1
    <3>2. lead[l] \in Row /\ lead[l].row = "live" /\ (lead[l].verdict = NoVerdict => given[l].was = NoVerdict)
      BY <2>1 DEF TypeInv, LeadsOK, ReadOK, Answered, Present
    <3>3. Written(lead[l].verdict, given[l]) \in Verdicts
      BY <3>1, <3>2, WrittenIsVerdict DEF Row
    <3>4. lead'[l] = [lead[l] EXCEPT !.verdict = Written(lead[l].verdict, given[l])]
      BY <1>4, <2>1
    <3>5. lead'[l].row = "live" /\ lead'[l].verdict \in Verdicts
      BY <3>2, <3>3, <3>4 DEF Row
    <3>6. Answered(l)'
      BY <3>5, NoVerdictIsNone DEF Answered
    <3>7. wasted'[l] \in Nat /\ wasted'[l] >= wasted[l]
      BY <1>4 DEF Waste, TypeInv, RestOK, Once
    <3> QED BY <1>1, <3>6, <3>7 DEF PaysNothing
  <2>2. CASE l \notin there
    <3>1. Holds(worker[w], l) <=> l \in gone
      BY <1>2, <2>2
    <3> HIDE DEF gone
    <3> QED BY <1>1, <1>2, <1>4, <3>1, LettingGo DEF Waste
  <2> QED BY <2>1, <2>2
<1> QED BY <1>3, <1>4 DEF CommitResults

LEMMA CrashPays ==
  ASSUME TypeInv, NEW w \in Workers, NEW l \in Leads \ Omitted, Crash(w)
  PROVE  PaysNothing(l)
<1>1. ~Holds(Idle, l)
  BY IdleType DEF Holds
<1>2. Holds(worker[w], l) <=> l \in worker[w].page \cup DOMAIN worker[w].given
  BY DEF Holds
<1> QED BY <1>1, <1>2, LettingGo DEF Crash, Waste

LEMMA StepPays ==
  ASSUME TypeInv, [Next]_vars, NEW l \in Leads \ Omitted
  PROVE  PaysNothing(l) \/ PaysFor(l)
<1>1. CASE UNCHANGED <<worker, paid, wasted>>
  <2>1. Holders(l)' = Holders(l) /\ wasted[l] \in Nat
    BY <1>1 DEF Holders, TypeInv, RestOK
  <2> QED BY <1>1, <2>1 DEF PaysNothing
<1>2. CASE Underneath(ClassificationNext)
  <2>1. CASE \/ \E b \in Lists : CountClassified(b) \/ \E wanted \in BOOLEAN : SetRequested(b, wanted)
             \/ CountPending \/ StatusAnswered
             \/ \E on \in BOOLEAN : SetPaused(on)
             \/ \E k \in Leads : DeleteLead(k) \/ \E website \in BOOLEAN : Upload(k, website)
    <3>1. UNCHANGED <<worker, paid, wasted>>
      BY <2>1 DEF CountClassified, SetRequested, CountPending, StatusAnswered, SetPaused,
                  DeleteLead, Upload, cost
    <3> QED BY <1>1, <3>1
  <2> QED BY <1>2, <2>1, AskPays, TakePagePays, ReadResultsPays, CommitPays, CrashPays
          DEF Underneath, ClassificationNext, WorkerStep
<1>3. CASE Reading \/ UNCHANGED vars
  <2>1. UNCHANGED <<worker, paid, wasted>>
    BY <1>3 DEF Reading, OpenView, CountMatching, FetchRows, Select, CloseView, vars, cvars, cost
  <2> QED BY <1>1, <2>1
<1> QED BY <1>2, <1>3, StepCases

(* As long as a lead has no verdict, what was paid for it was wasted or is held. *)
Owed == \A l \in Leads \ Omitted : ~Answered(l) => paid[l] <= wasted[l] + Cardinality(Holders(l))

LEMMA AnswersStep ==
  ASSUME TypeInv, Owed, AnswersBounded, [Next]_vars
  PROVE  Owed' /\ AnswersBounded'
<1> SUFFICES ASSUME NEW l \in Leads \ Omitted
             PROVE  /\ ~Answered(l)' => paid'[l] <= wasted'[l] + Cardinality(Holders(l)')
                    /\ paid'[l] <= wasted'[l] + Cardinality(Workers)
  BY DEF Owed, AnswersBounded
<1>1. paid[l] \in Nat /\ wasted[l] \in Nat /\ paid[l] <= wasted[l] + Cardinality(Workers)
  BY DEF TypeInv, RestOK, AnswersBounded
<1>2. ~Answered(l) => paid[l] <= wasted[l] + Cardinality(Holders(l))
  BY DEF Owed
<1>3. ~Answered(l)' => ~Answered(l)
  BY AnsweredStays
<1>4. CASE PaysNothing(l)
  <2>1. paid'[l] <= wasted'[l] + Cardinality(Workers)
    BY <1>1, <1>4, HoldersFinite DEF PaysNothing
  <2>2. CASE Answered(l)' \/ Holders(l)' = Holders(l)
    BY <1>1, <1>2, <1>3, <1>4, <2>1, <2>2, HoldersFinite DEF PaysNothing
  <2>3. ASSUME NEW w \in Workers, Holders(l)' = Holders(l) \ {w},
               wasted'[l] = wasted[l] + Once(Holders(l), w)
        PROVE  ~Answered(l)' => paid'[l] <= wasted'[l] + Cardinality(Holders(l)')
    <3>1. CASE w \in Holders(l)
      <4>1. Cardinality(Holders(l)') = Cardinality(Holders(l)) - 1
        BY <2>3, <3>1, HoldersFinite, FS_RemoveElement
      <4>2. wasted'[l] = wasted[l] + 1
        BY <2>3, <3>1 DEF Once
      <4> QED BY <1>1, <1>2, <1>3, <1>4, <4>1, <4>2, HoldersFinite DEF PaysNothing
    <3>2. CASE w \notin Holders(l)
      <4>1. Holders(l)' = Holders(l) /\ wasted'[l] = wasted[l]
        BY <1>1, <2>3, <3>2 DEF Once
      <4> QED BY <1>1, <1>2, <1>3, <1>4, <4>1, HoldersFinite DEF PaysNothing
    <3> QED BY <3>1, <3>2
  <2> QED BY <1>4, <2>1, <2>2, <2>3 DEF PaysNothing
<1>5. CASE PaysFor(l)
  <2>1. PICK w \in Workers \ Holders(l) : Holders(l)' = Holders(l) \cup {w}
    BY <1>5 DEF PaysFor
  <2>2. Cardinality(Holders(l)') = Cardinality(Holders(l)) + 1
    BY <2>1, HoldersFinite, FS_AddElement
  <2>3. paid'[l] <= wasted'[l] + Cardinality(Holders(l)')
    BY <1>1, <1>2, <1>5, <2>2, HoldersFinite DEF PaysFor
  <2>4. wasted'[l] \in Nat /\ paid'[l] \in Nat
    BY <1>1, <1>5 DEF PaysFor
  <2> QED BY <2>3, <2>4, HoldersFinite
<1> QED BY <1>4, <1>5, StepPays

LEMMA AnswersInit == ListingInit => Owed /\ AnswersBounded
<1> SUFFICES ASSUME ListingInit, NEW l \in Leads
             PROVE  /\ paid[l] <= wasted[l] + Cardinality(Holders(l))
                    /\ paid[l] <= wasted[l] + Cardinality(Workers)
  BY DEF Owed, AnswersBounded
<1>1. paid[l] = 0 /\ wasted[l] = 0
  BY DEF ListingInit, Init
<1> QED BY <1>1, HoldersFinite

(* However many lists share a lead, no lead is handed out to be paid for more often than
   there are workers, and once more for each time that what was paid for it was lost to a
   crash, a failed commit or a deletion.                                                 *)
THEOREM AnswersAreBounded == Spec => []AnswersBounded
<1>1. ListingInit => Owed /\ AnswersBounded
  BY AnswersInit
<1>2. TypeInv /\ (Owed /\ AnswersBounded) /\ [Next]_vars => (Owed /\ AnswersBounded)'
  BY AnswersStep
<1> QED BY <1>1, <1>2, TypeCorrect, PTL DEF Spec

-----------------------------------------------------------------------------
(* The counts of a status answer *)

StatusInv ==
  /\ status.pc = "classified" => \A l \in status.classified : Answered(l)
  /\ StatusCountsOnce

LEMMA StatusStep == TypeInv /\ StatusInv /\ [Next]_vars => StatusInv'
<1> SUFFICES ASSUME TypeInv, StatusInv, [Next]_vars PROVE StatusInv'
  OBVIOUS
<1>1. status \in StatusStates
  BY DEF TypeInv, RestOK
<1>2. CASE \E b \in Lists : CountClassified(b)
  <2>1. PICK b \in Lists : CountClassified(b)
    BY <1>2
  <2>2. status'.pc = "classified" /\ status'.classified = Classified(b) /\ UNCHANGED lead
    BY <2>1 DEF CountClassified, NoStatus
  <2> QED BY <2>2, ClassifiedAnswered DEF StatusInv, StatusCountsOnce, Answered
<1>3. CASE CountPending
  <2>1. /\ status'.pc = "done" /\ status'.classified = status.classified
        /\ status'.pending = Pending(status.list)
    BY <1>1, <1>3 DEF CountPending, StatusStates
  <2>2. \A l \in status.classified : l \notin Pending(status.list)
    BY <1>3, AnsweredNotPending DEF CountPending, StatusInv
  <2> QED BY <2>1, <2>2 DEF StatusInv, StatusCountsOnce
<1>4. CASE StatusAnswered
  BY <1>4 DEF StatusAnswered, NoStatus, StatusInv, StatusCountsOnce
<1>5. CASE UNCHANGED status
  <2>1. \A l \in status.classified : l \in Leads
    BY <1>1 DEF StatusStates
  <2> QED BY <1>5, <2>1, AnsweredStays DEF StatusInv, StatusCountsOnce
<1>6. CASE Underneath(ClassificationNext)
  <2>1. CASE \/ \E w \in Workers : Ask(w) \/ WorkerStep(w) \/ Crash(w)
             \/ \E b \in Lists, wanted \in BOOLEAN : SetRequested(b, wanted)
             \/ \E on \in BOOLEAN : SetPaused(on)
             \/ \E l \in Leads : DeleteLead(l) \/ \E website \in BOOLEAN : Upload(l, website)
    <3>1. UNCHANGED status
      BY <2>1 DEF Ask, WorkerStep, Requested, TakePage, ReadResults, CommitResults, Crash,
                  SetRequested, SetPaused, DeleteLead, Upload
    <3> QED BY <1>5, <3>1
  <2> QED BY <1>2, <1>3, <1>4, <1>6, <2>1 DEF Underneath, ClassificationNext
<1>7. CASE Reading \/ UNCHANGED vars
  <2>1. UNCHANGED status
    BY <1>7 DEF Reading, OpenView, CountMatching, FetchRows, Select, CloseView, vars, cvars
  <2> QED BY <1>5, <2>1
<1> QED BY <1>6, <1>7, StepCases

(* The counts of a status answer are read one after the other, and whatever lands between
   them no lead is in both: because the classified ones are counted first.              *)
THEOREM StatusIsCountedOnce == Spec => []StatusCountsOnce
<1>1. ListingInit => StatusInv
  BY DEF ListingInit, Init, NoStatus, StatusInv, StatusCountsOnce
<1>2. StatusInv => StatusCountsOnce
  BY DEF StatusInv
<1> QED BY <1>1, <1>2, StatusStep, TypeCorrect, PTL DEF Spec

-----------------------------------------------------------------------------
(* What is seen and what is exported *)

(* Without finder_tried the table and the export select by the same filter. *)
LEMMA SameFilter ==
  ASSUME NEW f, NEW row, f.finder_tried = NULL
  PROVE  Listed(f, row) <=> Selected(f, row)
BY DEF Listed, Selected, Given

(* While the view goes on, what was shown matches or has moved; and as long as nothing
   moves, the pages turned so far are what comes first.                              *)
ShownInv ==
  Viewing =>
    /\ view.seen \subseteq Matching \cup moved
    /\ moved = {} =>
         /\ view.pc \in {"count", "rows"} =>
              view.seen = {l \in Matching : Newer(l) < (view.page - 1) * PageSize}
         /\ view.pc = "rows" => view.total = Cardinality(Matching)
         /\ view.pc = "select" => view.seen = Matching

LEMMA NewerCounts ==
  ASSUME NEW l \in Matching
  PROVE  Newer(l) \in Nat /\ Newer(l) < Cardinality(Matching)
<1> DEFINE newer == {k \in Matching : k > l}
<1>1. l \in Nat
  BY MatchingLeads, LeadsAreNumbered
<1>2. l \notin newer
  BY <1>1
<1>3. newer \in SUBSET Matching /\ newer # Matching
  BY <1>2
<1>4. /\ IsFiniteSet(newer) /\ Cardinality(newer) \in Nat
      /\ Cardinality(newer) <= Cardinality(Matching)
      /\ Cardinality(Matching) # Cardinality(newer)
  BY <1>3, MatchingLeads, FS_Subset, FS_CardinalityType
<1>5. Newer(l) = Cardinality(newer)
  BY DEF Newer
<1> QED BY <1>4, <1>5, MatchingLeads

(* The pages before one, and that one, are the pages before the next. *)
LEMMA PagesAdd ==
  ASSUME NEW n \in Nat, NEW p \in Nat
  PROVE  /\ n < (p - 1) * PageSize => n < p * PageSize
         /\ (p + 1 - 1) * PageSize = p * PageSize
         /\ p * PageSize \in Nat
<1>1. p + 1 - 1 = p
  OBVIOUS
<1>2. (p - 1) * PageSize = p * PageSize - PageSize
  BY PageSizeAssumption
<1>3. p * PageSize \in Nat
  BY PageSizeAssumption
<1> QED BY <1>1, <1>2, <1>3, PageSizeAssumption

LEMMA FetchShows ==
  ASSUME TypeInv, ShownInv, FetchRows
  PROVE  ShownInv'
<1>1. /\ view \in ViewStates /\ view.pc = "rows" /\ UNCHANGED <<lead, moved>>
      /\ \A l \in Matching : Newer(l) \in Nat /\ Newer(l) < Cardinality(Matching)
      /\ view.page \in Nat /\ Cardinality(Matching) \in Nat
  BY NewerCounts, MatchingLeads DEF FetchRows, TypeInv, ViewOK, ViewStates, cvars, history
<1>2. view.seen \subseteq Matching \cup moved /\ Rows(view.page) \subseteq Matching
  BY <1>1 DEF ShownInv, Viewing, Rows
<1>3. /\ view'.filter = view.filter /\ view'.seen = view.seen \cup Rows(view.page)
      /\ IF view.page * PageSize < view.total
         THEN view'.pc = "count" /\ view'.page = view.page + 1
         ELSE view'.pc = "select"
  BY <1>1 DEF FetchRows, ViewStates
<1>4. Matching' = Matching /\ \A l : Newer(l)' = Newer(l)
  BY <1>1, <1>3 DEF Newer, Matching, Matches, Present, RowOf
<1>5. CASE moved # {}
  BY <1>1, <1>2, <1>3, <1>4, <1>5 DEF ShownInv
<1>6. CASE moved = {}
  <2>1. /\ view.seen = {l \in Matching : Newer(l) < (view.page - 1) * PageSize}
        /\ view.total = Cardinality(Matching)
    BY <1>1, <1>6 DEF ShownInv, Viewing
  <2>2. view'.seen = {l \in Matching : Newer(l) < view.page * PageSize}
    <3>1. ASSUME NEW l \in Matching
          PROVE  l \in view'.seen <=> Newer(l) < view.page * PageSize
      <4>1. /\ l \in view.seen <=> Newer(l) < (view.page - 1) * PageSize
            /\ l \in Rows(view.page) <=> /\ (view.page - 1) * PageSize <= Newer(l)
                                        /\ Newer(l) < view.page * PageSize
        BY <2>1 DEF Rows
      <4>2. (view.page - 1) * PageSize \in Int
        BY <1>1, PageSizeAssumption
      <4> QED BY <1>1, <1>3, <4>1, <4>2, PagesAdd
    <3> QED BY <1>2, <1>3, <1>6, <3>1
  <2>3. CASE view.page * PageSize < view.total
    <3>1. (view'.page - 1) * PageSize = view.page * PageSize
      BY <1>1, <1>3, <2>3, PagesAdd
    <3>2. view'.pc = "count"
      BY <1>3, <2>3
    <3> QED BY <1>1, <1>2, <1>3, <1>4, <1>6, <2>2, <3>1, <3>2 DEF ShownInv
  <2>4. CASE ~(view.page * PageSize < view.total)
    <3>1. \A l \in Matching : Newer(l) < view.page * PageSize
      BY <1>1, <2>1, <2>4, PagesAdd
    <3>2. view'.pc = "select" /\ view'.seen = Matching
      BY <1>3, <2>2, <2>4, <3>1
    <3> QED BY <1>1, <1>4, <1>6, <3>2 DEF ShownInv
  <2> QED BY <2>3, <2>4
<1> QED BY <1>5, <1>6

LEMMA OpenShows ==
  ASSUME NEW f \in Filters, OpenView(f)
  PROVE  ShownInv' /\ SeenIsExported'
<1>1. view' = [pc |-> "count", filter |-> f, page |-> 1, total |-> 0, seen |-> {}, selected |-> {}]
  BY DEF OpenView, Closed
<1>2. (view'.page - 1) * PageSize = 0
  BY <1>1, PageSizeAssumption
<1>3. \A l \in Matching' : Newer(l)' \in Nat
  <2>1. {k \in Leads : Matches(k)'} \subseteq Leads
    OBVIOUS
  <2>2. ASSUME NEW l \in Matching'
        PROVE  {k \in Matching' : k > l} \in SUBSET Leads
    BY DEF Matching
  <2> QED BY <2>2, LeadsAreNumbered, FS_Subset, FS_CardinalityType DEF Newer
<1>4. {l \in Matching' : Newer(l)' < (view'.page - 1) * PageSize} = {}
  BY <1>2, <1>3
<1> QED BY <1>1, <1>4 DEF ShownInv, SeenIsExported

LEMMA CountShows ==
  ASSUME TypeInv, ShownInv, CountMatching
  PROVE  ShownInv' /\ SeenIsExported'
<1>1. /\ view.pc = "count" /\ UNCHANGED <<lead, moved>>
      /\ view' = [view EXCEPT !.pc = "rows", !.total = Cardinality(Matching)]
      /\ view \in ViewStates
  BY DEF CountMatching, TypeInv, ViewOK, cvars, history
<1>2. /\ view'.pc = "rows" /\ view'.total = Cardinality(Matching) /\ view'.filter = view.filter
      /\ view'.seen = view.seen /\ view'.page = view.page
  BY <1>1 DEF ViewStates
<1>3. Matching' = Matching /\ \A l : Newer(l)' = Newer(l)
  BY <1>1, <1>2 DEF Newer, Matching, Matches, Present, RowOf
<1> QED BY <1>1, <1>2, <1>3 DEF ShownInv, SeenIsExported, Viewing

LEMMA SelectShows ==
  ASSUME TypeInv, ShownInv, Select
  PROVE  ShownInv' /\ SeenIsExported'
<1>1. /\ view.pc = "select" /\ UNCHANGED <<lead, moved>> /\ view \in ViewStates
      /\ view' = [view EXCEPT !.pc = "done",
                   !.selected = {l \in Leads : Present(l) /\ Selected(view.filter, RowOf(l))}]
  BY DEF Select, TypeInv, ViewOK, cvars, history
<1>2. /\ view'.pc = "done" /\ view'.filter = view.filter /\ view'.seen = view.seen
      /\ view'.selected = {l \in Leads : Present(l) /\ Selected(view.filter, RowOf(l))}
  BY <1>1 DEF ViewStates
<1>3. /\ view.seen \subseteq Matching \cup moved
      /\ moved = {} => view.seen = Matching
  BY <1>1 DEF ShownInv, Viewing
<1>4. ASSUME view.filter.finder_tried = NULL PROVE view'.selected = Matching
  BY <1>2, <1>4, SameFilter DEF Matching, Matches
<1>5. SeenIsExported'
  BY <1>1, <1>2, <1>3, <1>4 DEF SeenIsExported
<1> QED BY <1>2, <1>5 DEF ShownInv, Viewing

(* Moving are the leads that begin or cease to match: the others are not written. *)
LEMMA MovingMoves ==
  ASSUME UNCHANGED view
  PROVE  Moving = {l \in Leads : Matches(l) # Matches(l)'}
<1>1. ASSUME NEW l \in Leads, lead[l] = lead'[l] PROVE Matches(l) = Matches(l)'
  BY <1>1 DEF Matches, Present, RowOf
<1> QED BY <1>1 DEF Moving

LEMMA UnderneathShows ==
  ASSUME TypeInv, ShownInv, SeenIsExported, Underneath(ClassificationNext)
  PROVE  ShownInv' /\ SeenIsExported'
<1>1. UNCHANGED view /\ (Viewing' <=> Viewing)
  BY DEF Underneath, Viewing
<1>2. CASE ~Viewing
  BY <1>1, <1>2 DEF Underneath, history, ShownInv, SeenIsExported
<1>3. CASE Viewing
  <2>1. /\ moved \subseteq moved'
        /\ \A l \in Leads : l \notin moved' => Matches(l) = Matches(l)'
    BY <1>3, MovingMoves DEF Underneath
  <2>2. view.seen \subseteq Matching \cup moved
    BY <1>3 DEF ShownInv
  <2>3. view'.seen \subseteq Matching' \cup moved'
    <3>1. ASSUME NEW l \in Matching, l \notin moved' PROVE l \in Matching'
      <4>1. l \in Leads /\ Matches(l)
        BY DEF Matching
      <4>2. Matches(l)'
        BY <2>1, <3>1, <4>1
      <4> QED BY <4>1, <4>2 DEF Matching
    <3> QED BY <1>1, <2>1, <2>2, <3>1
  <2>4. ASSUME moved' = {} PROVE moved = {} /\ Matching' = Matching /\ \A l : Newer(l)' = Newer(l)
    <3>1. moved = {} /\ \A l \in Leads : Matches(l) = Matches(l)'
      BY <2>1, <2>4
    <3>2. Matching' = Matching
      BY <3>1 DEF Matching
    <3> QED BY <3>1, <3>2 DEF Newer
  <2>5. SeenIsExported'
    BY <1>1, <1>3 DEF SeenIsExported, Viewing
  <2>6. ShownInv'
    BY <1>1, <1>3, <2>3, <2>4 DEF ShownInv
  <2> QED BY <2>5, <2>6
<1> QED BY <1>2, <1>3

LEMMA ShownStep ==
  ASSUME TypeInv, ShownInv, SeenIsExported, [Next]_vars
  PROVE  ShownInv' /\ SeenIsExported'
<1>1. CASE Reading
  <2>1. CASE FetchRows
    <3>1. view'.pc \in {"count", "select"}
      BY <2>1 DEF FetchRows, TypeInv, ViewOK, ViewStates
    <3> QED BY <2>1, <3>1, FetchShows DEF SeenIsExported
  <2>2. CASE CloseView
    BY <2>2 DEF CloseView, Closed, ShownInv, SeenIsExported, Viewing
  <2> QED BY <1>1, <2>1, <2>2, OpenShows, CountShows, SelectShows DEF Reading
<1>2. CASE UNCHANGED vars
  <2>1. UNCHANGED <<lead, view, moved>>
    BY <1>2 DEF vars, cvars, history
  <2>2. Matching' = Matching /\ \A l : Newer(l)' = Newer(l)
    BY <2>1 DEF Newer, Matching, Matches, Present, RowOf
  <2> QED BY <2>1, <2>2 DEF ShownInv, SeenIsExported, Viewing
<1> QED BY <1>1, <1>2, StepCases, UnderneathShows

(* For every filter, page size and history of the table: what was shown and is not
   exported has moved, and if nothing moved the pages showed exactly what is exported. *)
THEOREM ShownIsExported == Spec => []SeenIsExported
<1>1. ListingInit => ShownInv /\ SeenIsExported
  BY DEF ListingInit, Closed, ShownInv, SeenIsExported, Viewing
<1>2. TypeInv /\ (ShownInv /\ SeenIsExported) /\ [Next]_vars => (ShownInv /\ SeenIsExported)'
  BY ShownStep
<1> QED BY <1>1, <1>2, TypeCorrect, PTL DEF Spec

-----------------------------------------------------------------------------
(* How many leads the pages miss *)

(* The leads that match all along and that no page will show, if nothing moves any more:
   they come before the next page, or behind the count that ends the last one.          *)
Missed ==
  {l \in Matching \ (moved \cup view.seen) :
     \/ view.pc \in {"count", "rows"} /\ Newer(l) < (view.page - 1) * PageSize
     \/ view.pc = "rows" /\ Newer(l) >= view.total
     \/ view.pc = "select"}

MissedInv == Viewing => Cardinality(Missed) <= moves

LEMMA MissedFinite ==
  Missed \subseteq Leads /\ IsFiniteSet(Missed) /\ Cardinality(Missed) \in Nat
<1>1. Missed \subseteq Leads
  BY MatchingLeads DEF Missed
<1> QED BY <1>1, LeadsAreNumbered, FS_Subset, FS_CardinalityType

(* Places in the table tell the matching leads apart. *)
LEMMA NewerApart ==
  ASSUME NEW k \in Matching, NEW l \in Matching, Newer(k) = Newer(l)
  PROVE  k = l
<1> DEFINE newer(j) == {i \in Matching : i > j}
<1>1. ASSUME NEW i \in Matching, NEW j \in Matching, i > j PROVE Newer(i) # Newer(j)
  <2>1. \A n \in Matching : n \in Nat
    BY MatchingLeads, LeadsAreNumbered
  <2>2. newer(i) \subseteq newer(j) /\ i \in newer(j) /\ i \notin newer(i)
    BY <1>1, <2>1
  <2>3. newer(i) \in SUBSET newer(j) /\ newer(i) # newer(j)
    BY <2>2
  <2>4. IsFiniteSet(newer(j))
    BY MatchingLeads, FS_Subset
  <2>5. Cardinality(newer(j)) # Cardinality(newer(i))
    BY <2>3, <2>4, FS_Subset
  <2> QED BY <2>5 DEF Newer
<1>2. k \in Nat /\ l \in Nat
  BY MatchingLeads, LeadsAreNumbered
<1> QED BY <1>1, <1>2

(* So no more leads are at n places of the table than n. *)
LEMMA PlacesHold ==
  ASSUME NEW a \in Int, NEW n \in Nat
  PROVE  LET there == {l \in Matching : a <= Newer(l) /\ Newer(l) < a + n} IN
         IsFiniteSet(there) /\ Cardinality(there) \in Nat /\ Cardinality(there) <= n
<1> DEFINE there == {l \in Matching : a <= Newer(l) /\ Newer(l) < a + n}
           place == [l \in there |-> Newer(l)]
           places == a .. (a + n - 1)
<1>1. place \in [there -> places]
  <2>1. ASSUME NEW l \in there PROVE Newer(l) \in places
    <3>1. l \in Matching /\ a <= Newer(l) /\ Newer(l) < a + n
      OBVIOUS
    <3>2. Newer(l) \in Nat
      BY <3>1, NewerCounts
    <3> QED BY <3>1, <3>2
  <2> QED BY <2>1
<1>2. \A k, l \in there : place[k] = place[l] => k = l
  <2>1. ASSUME NEW k \in there, NEW l \in there, place[k] = place[l] PROVE k = l
    <3>1. k \in Matching /\ l \in Matching /\ Newer(k) = Newer(l)
      BY <2>1
    <3> QED BY <3>1, NewerApart
  <2> QED BY <2>1
<1>3. place \in Injection(there, places)
  BY <1>1, <1>2 DEF Injection, IsInjective
<1>4. IsFiniteSet(places) /\ Cardinality(places) = n
  <2>1. /\ a + n - 1 \in Int
        /\ (IF a > a + n - 1 THEN 0 ELSE a + n - 1 - a + 1) = n
    OBVIOUS
  <2> QED BY <2>1, FS_Interval
<1> HIDE DEF place, there, places
<1>5. IsFiniteSet(there) /\ Cardinality(there) <= n
  BY <1>3, <1>4, FS_Injection
<1>6. Cardinality(there) \in Nat
  BY <1>5, FS_CardinalityType
<1> QED BY <1>5, <1>6 DEF there

(* A lead comes forward by no more places than leads leave the table. *)
LEMMA FewerLeft ==
  ASSUME NEW M \in SUBSET Leads, NEW N \in SUBSET Leads, NEW l
  PROVE  /\ Cardinality({k \in M : k > l}) \in Nat
         /\ Cardinality({k \in N : k > l}) \in Nat
         /\ Cardinality(M \ N) \in Nat
         /\ Cardinality({k \in M : k > l}) <= Cardinality({k \in N : k > l}) + Cardinality(M \ N)
<1> DEFINE A == {k \in M : k > l}
           B == {k \in N : k > l}
           D == M \ N
<1>1. /\ A \in SUBSET Leads /\ B \in SUBSET Leads /\ D \in SUBSET Leads
      /\ A \in SUBSET (B \cup D)
  OBVIOUS
<1> HIDE DEF A, B, D
<1>2. /\ IsFiniteSet(A) /\ IsFiniteSet(B) /\ IsFiniteSet(D)
      /\ Cardinality(A) \in Nat /\ Cardinality(B) \in Nat /\ Cardinality(D) \in Nat
  BY <1>1, LeadsAreNumbered, FS_Subset, FS_CardinalityType
<1>3. /\ IsFiniteSet(B \cup D) /\ Cardinality(B \cap D) \in Nat
      /\ Cardinality(B \cup D) = Cardinality(B) + Cardinality(D) - Cardinality(B \cap D)
  BY <1>2, FS_Union, FS_Intersection, FS_CardinalityType
<1>4. Cardinality(A) <= Cardinality(B \cup D)
  BY <1>1, <1>3, FS_Subset
<1>5. Cardinality(A) <= Cardinality(B) + Cardinality(D)
  <2>1. Cardinality(B \cup D) \in Nat
    BY <1>3, FS_CardinalityType
  <2> QED BY <1>2, <1>3, <1>4, <2>1
<1> QED BY <1>2, <1>5 DEF A, B, D

(* A step under the view: a lead that was to be shown and no longer is was within as many
   places of the next page as leads left the table, or within as many places of the count
   as leads came into it.                                                                 *)
LEMMA UnderneathMisses ==
  ASSUME TypeInv, MissedInv, Underneath(ClassificationNext), Viewing
  PROVE  MissedInv'
<1> DEFINE gone == Matching \ Matching'
           come == Matching' \ Matching
           first == (view.page - 1) * PageSize
           skipped == {l \in Matching : /\ first <= Newer(l)
                                        /\ Newer(l) < first + Cardinality(gone)}
           late == {l \in Matching : /\ view.total - Cardinality(come) <= Newer(l)
                                     /\ Newer(l) < view.total - Cardinality(come) + Cardinality(come)}
<1>1. /\ UNCHANGED view /\ view \in ViewStates /\ moves \in Nat
      /\ moved' = moved \cup Moving /\ moves' = moves + Cardinality(Moving)
  BY DEF Underneath, TypeInv, ViewOK
<1>2. Moving = gone \cup come /\ gone \cap come = {}
  <2>1. Moving = {l \in Leads : Matches(l) # Matches(l)'}
    BY <1>1, MovingMoves
  <2>2. ASSUME NEW l \in Leads
        PROVE  Matches(l) # Matches(l)' <=> l \in gone \cup come
    <3>1. Matches(l) \in BOOLEAN /\ Matches(l)' \in BOOLEAN
      BY DEF Matches
    <3>2. (l \in Matching <=> Matches(l)) /\ (l \in Matching' <=> Matches(l)')
      BY DEF Matching
    <3>3. CASE Matches(l)
      BY <3>1, <3>2, <3>3
    <3>4. CASE ~Matches(l)
      BY <3>1, <3>2, <3>4
    <3> QED BY <3>3, <3>4
  <2>3. gone \subseteq Leads /\ come \subseteq Leads
    BY DEF Matching
  <2> HIDE DEF gone, come
  <2>4. Moving = gone \cup come
    BY <2>1, <2>2, <2>3
  <2> QED BY <2>4 DEF gone, come
<1>3. /\ Matching \in SUBSET Leads /\ Matching' \in SUBSET Leads
      /\ gone \in SUBSET Leads /\ come \in SUBSET Leads
  BY DEF Matching
<1>4. /\ IsFiniteSet(gone) /\ Cardinality(gone) \in Nat
      /\ IsFiniteSet(come) /\ Cardinality(come) \in Nat
  BY <1>3, LeadsAreNumbered, FS_Subset, FS_CardinalityType
<1>5. Cardinality(Moving) = Cardinality(gone) + Cardinality(come)
  <2> HIDE DEF gone, come
  <2>1. Cardinality(gone \cup come) = Cardinality(gone) + Cardinality(come) - Cardinality({})
    BY <1>2, <1>4, FS_Union
  <2> QED BY <1>2, <1>4, <2>1, FS_EmptySet
<1>6. first \in Int /\ view.total \in Nat
  BY <1>1, PageSizeAssumption DEF ViewStates
<1>7. /\ IsFiniteSet(skipped) /\ Cardinality(skipped) \in Nat
      /\ Cardinality(skipped) <= Cardinality(gone)
  <2> HIDE DEF first, gone
  <2> QED BY <1>4, <1>6, PlacesHold
<1>8. /\ IsFiniteSet(late) /\ Cardinality(late) \in Nat
      /\ Cardinality(late) <= Cardinality(come)
  <2>1. view.total - Cardinality(come) \in Int
    BY <1>4, <1>6
  <2> HIDE DEF come
  <2> QED BY <1>4, <2>1, PlacesHold
<1>9. Missed' \in SUBSET (Missed \cup (skipped \cup late))
  <2> SUFFICES ASSUME NEW l \in Missed', l \notin Missed PROVE l \in skipped \cup late
    OBVIOUS
  <2>1. /\ l \in Matching' /\ l \notin moved' /\ l \notin view'.seen
        /\ \/ view'.pc \in {"count", "rows"} /\ Newer(l)' < (view'.page - 1) * PageSize
           \/ view'.pc = "rows" /\ Newer(l)' >= view'.total
           \/ view'.pc = "select"
    BY DEF Missed
  <2>2. l \in Matching /\ l \notin moved /\ l \notin view.seen
    BY <1>1, <1>2, <2>1
  <2>3. /\ Newer(l) \in Nat /\ Newer(l)' \in Nat
        /\ Newer(l) <= Newer(l)' + Cardinality(gone)
        /\ Newer(l)' <= Newer(l) + Cardinality(come)
    <3> HIDE DEF gone, come
    <3>1. /\ Newer(l) = Cardinality({k \in Matching : k > l})
          /\ Newer(l)' = Cardinality({k \in Matching' : k > l})
      BY DEF Newer
    <3>2. /\ Cardinality({k \in Matching : k > l}) \in Nat
          /\ Cardinality({k \in Matching' : k > l}) \in Nat
          /\ Cardinality({k \in Matching : k > l})
               <= Cardinality({k \in Matching' : k > l}) + Cardinality(gone)
          /\ Cardinality({k \in Matching' : k > l})
               <= Cardinality({k \in Matching : k > l}) + Cardinality(come)
      BY <1>3, FewerLeft DEF gone, come
    <3> QED BY <3>1, <3>2
  <2>4. CASE view.pc \in {"count", "rows"} /\ Newer(l)' < first
    <3>1. ~(Newer(l) < first)
      BY <2>2, <2>4 DEF Missed
    <3> HIDE DEF first, gone, come
    <3>2. first <= Newer(l) /\ Newer(l) < first + Cardinality(gone)
      BY <1>4, <1>6, <2>3, <2>4, <3>1
    <3> QED BY <2>2, <3>2
  <2>5. CASE view.pc = "rows" /\ Newer(l)' >= view.total
    <3>1. ~(Newer(l) >= view.total)
      BY <2>2, <2>5 DEF Missed
    <3> HIDE DEF first, gone, come
    <3>2. /\ view.total - Cardinality(come) <= Newer(l)
          /\ Newer(l) < view.total - Cardinality(come) + Cardinality(come)
      BY <1>4, <1>6, <2>3, <2>5, <3>1
    <3> QED BY <2>2, <3>2
  <2>6. view.pc # "select"
    BY <2>2 DEF Missed
  <2> QED BY <1>1, <2>1, <2>4, <2>5, <2>6
<1>10. Cardinality(Missed') <= moves'
  <2> HIDE DEF skipped, late, gone, come
  <2>1. IsFiniteSet(Missed) /\ Cardinality(Missed) \in Nat /\ Cardinality(Missed) <= moves
    BY MissedFinite DEF MissedInv
  <2>2. /\ IsFiniteSet(skipped \cup late) /\ Cardinality(skipped \cup late) \in Nat
        /\ Cardinality(skipped \cup late) <= Cardinality(skipped) + Cardinality(late)
    <3>1. /\ IsFiniteSet(skipped \cup late) /\ Cardinality(skipped \cap late) \in Nat
          /\ Cardinality(skipped \cup late)
               = Cardinality(skipped) + Cardinality(late) - Cardinality(skipped \cap late)
      BY <1>7, <1>8, FS_Union, FS_Intersection, FS_CardinalityType
    <3>2. Cardinality(skipped \cup late) \in Nat
      BY <3>1, FS_CardinalityType
    <3> QED BY <1>7, <1>8, <3>1, <3>2
  <2> DEFINE more == skipped \cup late
  <2>3. /\ IsFiniteSet(Missed \cup more) /\ Cardinality(Missed \cup more) \in Nat
        /\ Cardinality(Missed \cup more) <= Cardinality(Missed) + Cardinality(more)
    <3> HIDE DEF more
    <3>1. IsFiniteSet(more) /\ Cardinality(more) \in Nat
      BY <2>2 DEF more
    <3>2. /\ IsFiniteSet(Missed \cup more) /\ Cardinality(Missed \cap more) \in Nat
          /\ Cardinality(Missed \cup more)
               = Cardinality(Missed) + Cardinality(more) - Cardinality(Missed \cap more)
      BY <2>1, <3>1, FS_Union, FS_Intersection, FS_CardinalityType
    <3>3. Cardinality(Missed \cup more) \in Nat
      BY <3>2, FS_CardinalityType
    <3> QED BY <2>1, <3>1, <3>2, <3>3
  <2>4. Cardinality(Missed') \in Nat /\ Cardinality(Missed') <= Cardinality(Missed \cup more)
    BY <1>9, <2>3, FS_Subset, FS_CardinalityType
  <2>5. /\ Cardinality(more) \in Nat
        /\ Cardinality(more) <= Cardinality(skipped) + Cardinality(late)
    BY <2>2
  <2> HIDE DEF more
  <2> QED BY <1>1, <1>4, <1>5, <1>7, <1>8, <2>1, <2>3, <2>4, <2>5
<1> QED BY <1>10 DEF MissedInv

LEMMA FetchMisses ==
  ASSUME TypeInv, MissedInv, FetchRows
  PROVE  MissedInv'
<1>1. /\ view \in ViewStates /\ view.pc = "rows" /\ UNCHANGED <<lead, moved, moves>>
      /\ view.page \in Nat /\ view.total \in Nat
  BY DEF FetchRows, TypeInv, ViewOK, ViewStates, cvars, history
<1>2. /\ view'.filter = view.filter /\ view'.seen = view.seen \cup Rows(view.page)
      /\ IF view.page * PageSize < view.total
         THEN view'.pc = "count" /\ view'.page = view.page + 1
         ELSE view'.pc = "select"
  BY <1>1 DEF FetchRows, ViewStates
<1>3. Matching' = Matching /\ \A l : Newer(l)' = Newer(l)
  BY <1>1, <1>2 DEF Newer, Matching, Matches, Present, RowOf
<1>4. PICK first, next \in Int :
        /\ first = (view.page - 1) * PageSize /\ next = view.page * PageSize
  BY <1>1, PagesAdd, PageSizeAssumption
<1>5. ASSUME NEW l \in Missed' PROVE l \in Missed
  <2>1. /\ l \in Matching /\ l \notin moved /\ l \notin view.seen /\ l \notin Rows(view.page)
        /\ \/ view'.pc \in {"count", "rows"} /\ Newer(l) < (view'.page - 1) * PageSize
           \/ view'.pc = "rows" /\ Newer(l) >= view'.total
           \/ view'.pc = "select"
    BY <1>1, <1>2, <1>3 DEF Missed
  <2>2. Newer(l) \in Nat /\ ~(first <= Newer(l) /\ Newer(l) < next)
    BY <1>4, <2>1, NewerCounts DEF Rows
  <2>3. CASE next < view.total
    <3>1. Newer(l) < next
      <4>1. view'.pc = "count" /\ view'.page = view.page + 1
        BY <1>2, <1>4, <2>3
      <4>2. view'.page - 1 = view.page
        BY <1>1, <4>1
      <4>3. (view'.page - 1) * PageSize = next
        BY <1>4, <4>2
      <4> QED BY <2>1, <4>1, <4>3
    <3>2. Newer(l) < first
      BY <2>2, <3>1
    <3> QED BY <1>1, <1>4, <2>1, <3>2 DEF Missed
  <2>4. CASE ~(next < view.total)
    <3>1. Newer(l) < first \/ Newer(l) >= view.total
      BY <1>1, <2>2, <2>4
    <3> QED BY <1>1, <1>4, <2>1, <3>1 DEF Missed
  <2> QED BY <2>3, <2>4
<1>6. Cardinality(Missed') <= Cardinality(Missed) /\ Cardinality(Missed') \in Nat
  BY <1>5, MissedFinite, FS_Subset, FS_CardinalityType
<1>7. Cardinality(Missed) <= moves /\ moves \in Nat
  BY <1>1 DEF MissedInv, Viewing, TypeInv, ViewOK
<1> QED BY <1>1, <1>6, <1>7, MissedFinite DEF MissedInv

LEMMA MissedStep ==
  ASSUME TypeInv, MissedInv, MissesBounded, [Next]_vars
  PROVE  MissedInv' /\ MissesBounded'
<1>1. view \in ViewStates /\ moves \in Nat
  BY DEF TypeInv, ViewOK
<1>2. CASE Underneath(ClassificationNext)
  <2>1. CASE Viewing
    <3>1. MissesBounded'
      BY <1>2, <2>1 DEF Underneath, MissesBounded, Viewing
    <3> QED BY <1>2, <2>1, <3>1, UnderneathMisses
  <2>2. CASE ~Viewing
    BY <1>2, <2>2 DEF Underneath, history, MissedInv, MissesBounded, Viewing
  <2> QED BY <2>1, <2>2
<1>3. CASE \E f \in Filters : OpenView(f)
  <2>1. PICK f \in Filters : OpenView(f)
    BY <1>3
  <2>2. /\ view' = [pc |-> "count", filter |-> f, page |-> 1, total |-> 0, seen |-> {}, selected |-> {}]
        /\ moves' = moves
    BY <2>1 DEF OpenView, Closed, history
  <2>3. (view'.page - 1) * PageSize = 0
    BY <2>2, PageSizeAssumption
  <2>4. ASSUME NEW l \in Matching' PROVE Newer(l)' \in Nat
    <3>1. {k \in Matching' : k > l} \in SUBSET Leads
      BY DEF Matching
    <3> QED BY <3>1, LeadsAreNumbered, FS_Subset, FS_CardinalityType DEF Newer
  <2>5. Missed' = {}
    BY <2>2, <2>3, <2>4 DEF Missed
  <2> QED BY <1>1, <2>2, <2>5, FS_EmptySet DEF MissedInv, MissesBounded
<1>4. CASE CountMatching
  <2>1. /\ view.pc = "count" /\ UNCHANGED <<lead, moved, moves>>
        /\ view'.pc = "rows" /\ view'.total = Cardinality(Matching) /\ view'.filter = view.filter
        /\ view'.seen = view.seen /\ view'.page = view.page
    BY <1>1, <1>4 DEF CountMatching, ViewStates, cvars, history
  <2>2. Matching' = Matching /\ \A l : Newer(l)' = Newer(l)
    BY <2>1 DEF Newer, Matching, Matches, Present, RowOf
  <2>3. ASSUME NEW l \in Missed' PROVE l \in Missed
    <3>1. l \in Matching /\ Newer(l) \in Nat /\ ~(Newer(l) >= view'.total)
      <4>1. l \in Matching
        BY <2>2 DEF Missed
      <4> QED BY <2>1, <4>1, NewerCounts, MatchingLeads
    <3> QED BY <2>1, <2>2, <3>1 DEF Missed
  <2>4. Cardinality(Missed') <= Cardinality(Missed) /\ Cardinality(Missed') \in Nat
    BY <2>3, MissedFinite, FS_Subset, FS_CardinalityType
  <2>5. Cardinality(Missed) <= moves
    BY <2>1 DEF MissedInv, Viewing
  <2> QED BY <1>1, <2>1, <2>4, <2>5, MissedFinite DEF MissedInv, MissesBounded
<1>5. CASE FetchRows
  <2>1. view'.pc \in {"count", "select"}
    BY <1>1, <1>5 DEF FetchRows, ViewStates
  <2> QED BY <1>5, <2>1, FetchMisses DEF MissesBounded
<1>6. CASE Select
  <2>1. /\ view.pc = "select" /\ UNCHANGED <<lead, moved, moves>>
        /\ view'.pc = "done" /\ view'.filter = view.filter /\ view'.seen = view.seen
        /\ view'.selected = {l \in Leads : Present(l) /\ Selected(view.filter, RowOf(l))}
    BY <1>1, <1>6 DEF Select, ViewStates, cvars, history
  <2>2. ASSUME view.filter.finder_tried = NULL
        PROVE  (view'.selected \ view'.seen) \ moved' = Missed
    <3>1. view'.selected = Matching
      BY <2>1, <2>2, SameFilter DEF Matching, Matches
    <3> QED BY <2>1, <3>1 DEF Missed
  <2>3. Cardinality(Missed) <= moves
    BY <2>1 DEF MissedInv, Viewing
  <2> QED BY <2>1, <2>2, <2>3 DEF MissedInv, MissesBounded, Viewing
<1>7. CASE CloseView
  BY <1>7 DEF CloseView, Closed, MissedInv, MissesBounded, Viewing
<1>8. CASE UNCHANGED vars
  <2>1. UNCHANGED <<lead, view, moved, moves>>
    BY <1>8 DEF vars, cvars, history
  <2>2. Matching' = Matching /\ \A l : Newer(l)' = Newer(l)
    BY <2>1 DEF Newer, Matching, Matches, Present, RowOf
  <2> QED BY <2>1, <2>2 DEF Missed, MissedInv, MissesBounded, Viewing
<1> QED BY <1>2, <1>3, <1>4, <1>5, <1>6, <1>7, <1>8, StepCases DEF Reading

(* Of the leads that match from the first page to the export, the pages miss no more than
   leads began or ceased to match on the way, counting each time: for every filter, page
   size and number of leads and workers.                                                *)
THEOREM MissesAreBounded == Spec => []MissesBounded
<1>1. ListingInit => MissedInv /\ MissesBounded
  BY DEF ListingInit, Closed, MissedInv, MissesBounded, Viewing
<1>2. TypeInv /\ (MissedInv /\ MissesBounded) /\ [Next]_vars => (MissedInv /\ MissesBounded)'
  BY MissedStep
<1> QED BY <1>1, <1>2, TypeCorrect, PTL DEF Spec
=============================================================================
