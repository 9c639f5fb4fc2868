----------------------- MODULE EnrichmentLedgerProofs -----------------------
(* Proofs about EnrichmentLedger, for every value of its constants. *)
EXTENDS EnrichmentLedger, TLAPS, FiniteSetTheorems, SequenceTheorems

(* The type invariant, and what the handlers in flight hold. *)
TypeInv == TypeOK /\ HandlersOK

-----------------------------------------------------------------------------
(* Rows and messages *)

(* A recorded answer is one of the three outcomes and never carries junk. *)
LEMMA RecordedType ==
  ASSUME NEW a \in Answers
  PROVE  /\ Recorded(a).status \in Outcomes
         /\ Recorded(a).value \in Finds \cup {NULL}
BY DEF Answers, Recorded, Outcomes, Verdicts

(* Changing the email fields of a row, or its hold, leaves a row. *)
LEMMA RowType ==
  ASSUME NEW r \in LeadRow, NEW e \in Finds \cup Uploads \cup {NULL},
         NEW s \in Sources, NEW h \in BOOLEAN
  PROVE  /\ [r EXCEPT !.email = e, !.source = s] \in LeadRow
         /\ [r EXCEPT !.hold = h] \in LeadRow
BY DEF LeadRow

LEMMA PostingType ==
  ASSUME NEW j \in Job, NEW a \in Answers, NEW b \in BOOLEAN
  PROVE  [j EXCEPT !.pc = "posting", !.status = Recorded(a).status,
                   !.value = Recorded(a).value, !.sawNoEmail = b] \in Job
BY RecordedType DEF Job

LEMMA IdleType == Idle \in Job
BY DEF Idle, Job

(* A function on the indices of a sequence is a sequence. *)
LEMMA MappedSeq ==
  ASSUME NEW S, NEW T, NEW s \in Seq(S), NEW f \in [DOMAIN s -> T]
  PROVE  f \in Seq(T)
<1>1. DOMAIN s = 1 .. Len(s) /\ Len(s) \in Nat
  OBVIOUS
<1> QED BY <1>1

LEMMA EmptyDomain ==
  ASSUME NEW S, NEW s \in Seq(S), DOMAIN s = {}
  PROVE  s = <<>>
<1>1. DOMAIN s = 1 .. Len(s) /\ Len(s) \in Nat
  OBVIOUS
<1>2. ~(1 <= Len(s))
  <2>1. ASSUME 1 <= Len(s) PROVE 1 \in DOMAIN s
    BY <1>1, <2>1
  <2> QED BY <2>1
<1> QED BY <1>1, <1>2, EmptySeq

(* Withdrawing attempts keeps their number. *)
LEMMA SupersededType ==
  ASSUME TypeInv, NEW l \in Leads, NEW t \in Tiers
  PROVE  Superseded(l, t) \in Seq(Attempt)
<1>1. ledger[l][t] \in Seq(Attempt)
  BY DEF TypeInv, TypeOK
<1>2. ASSUME NEW i \in DOMAIN ledger[l][t]
      PROVE  /\ ledger[l][t][i] \in Attempt
             /\ [ledger[l][t][i] EXCEPT !.superseded = TRUE] \in Attempt
  <2>1. ledger[l][t][i] \in Attempt
    BY <1>1
  <2> QED BY <2>1 DEF Attempt
<1>3. Superseded(l, t) \in [DOMAIN ledger[l][t] -> Attempt]
  BY <1>2 DEF Superseded
<1> QED BY <1>1, <1>3, MappedSeq

-----------------------------------------------------------------------------
(* Type correctness *)

LEMMA TypeInit == Init => TypeInv
<1> SUFFICES ASSUME Init PROVE TypeInv
  OBVIOUS
<1>1. lead \in [Leads -> LeadRow]
  BY DEF Init, NoLead, LeadRow, Sources
<1>2. ledger \in [Leads -> [Tiers -> Seq(Attempt)]]
  BY DEF Init
<1>3. job \in [Workers -> Job]
  BY IdleType DEF Init
<1>4. TypeOK
  BY <1>1, <1>2, <1>3, BoundsAssumption
     DEF Init, TypeOK, NoRequeue, NoUpload, RowEmails, RowSources
<1>5. HandlersOK
  BY DEF HandlersOK, Init, NoUpload, Idle
<1> QED BY <1>4, <1>5 DEF TypeInv

LEMMA TypeNext == TypeInv /\ [Next]_vars => TypeInv'
<1> SUFFICES ASSUME TypeInv, [Next]_vars PROVE TypeInv'
  OBVIOUS
<1>0. TypeOK /\ HandlersOK
  BY DEF TypeInv
<1>1. ASSUME NEW w \in Workers, NEW t \in PolledTiers, Serve(w, t) PROVE TypeInv'
  <2>0. t \in Tiers
    BY PolledTiersAssumption DEF Tiers
  <2>1. PICK l \in Leads :
          job' = [job EXCEPT ![w] = [Idle EXCEPT !.pc = "working", !.lead = l, !.tier = t]]
    BY <1>1 DEF Serve, QueuePage
  <2>2. [Idle EXCEPT !.pc = "working", !.lead = l, !.tier = t] \in Job
    BY <2>0 DEF Idle, Job
  <2>3. TypeOK'
    BY <1>0, <1>1, <2>1, <2>2 DEF Serve, TypeOK
  <2>4. HandlersOK'
    BY <1>0, <1>1, <2>0, <2>1 DEF Serve, TypeOK, HandlersOK, Idle
  <2> QED BY <2>3, <2>4 DEF TypeInv
<1>2. ASSUME NEW w \in Workers, ReadLead(w) PROVE TypeInv'
  <2>1. CASE job' = [job EXCEPT ![w] = Idle]
    <3>1. TypeOK'
      BY <1>0, <1>2, <2>1, IdleType DEF ReadLead, TypeOK
    <3>2. HandlersOK'
      BY <1>0, <1>2, <2>1 DEF ReadLead, TypeOK, HandlersOK, Idle
    <3> QED BY <3>1, <3>2 DEF TypeInv
  <2>2. ASSUME NEW a \in Answers,
               job' = [job EXCEPT ![w] =
                         [@ EXCEPT !.pc = "posting",
                                   !.status = Recorded(a).status,
                                   !.value = Recorded(a).value,
                                   !.sawNoEmail = (lead[job[w].lead].email = NULL)]]
        PROVE TypeInv'
    <3>1. job[w] \in Job /\ job[w].lead \in Leads /\ job[w].tier \in Tiers
      BY <1>0, <1>2 DEF TypeOK, HandlersOK, ReadLead
    <3>2. PICK b \in BOOLEAN : b = (lead[job[w].lead].email = NULL)
      OBVIOUS
    <3>3. job' = [job EXCEPT ![w] = [@ EXCEPT !.pc = "posting",
                                              !.status = Recorded(a).status,
                                              !.value = Recorded(a).value,
                                              !.sawNoEmail = b]]
      BY <2>2, <3>2
    <3>4. TypeOK'
      BY <1>0, <1>2, <3>1, <3>3, PostingType DEF ReadLead, TypeOK
    <3>5. /\ job'[w].pc = "posting"
          /\ job'[w].lead \in Leads
          /\ job'[w].tier \in Tiers
          /\ job'[w].status \in Outcomes
      BY <1>0, <3>1, <3>3, RecordedType DEF TypeOK, Job
    <3>6. \A v \in Workers \ {w} : job'[v] = job[v]
      BY <1>0, <3>3 DEF TypeOK
    <3>7. HandlersOK'
      BY <1>0, <1>2, <3>5, <3>6 DEF ReadLead, HandlersOK
    <3> QED BY <3>4, <3>7 DEF TypeInv
  <2> QED BY <1>2, <2>1, <2>2 DEF ReadLead
<1>3. ASSUME NEW w \in Workers, CommitResult(w) PROVE TypeInv'
  <2>1. /\ job[w].lead \in Leads
        /\ job[w].tier \in Tiers
        /\ job[w].status \in Outcomes
        /\ job[w].value \in Finds \cup {NULL}
    BY <1>0, <1>3 DEF CommitResult, TypeOK, HandlersOK, Job
  <2>2. Row(w) \in Attempt
    BY <2>1 DEF Row, Attempt
  <2>3. Appended(w) \in [Leads -> [Tiers -> Seq(Attempt)]]
    BY <1>0, <2>1, <2>2 DEF Appended, TypeOK
  <2>4. Filled(w) \in [Leads -> LeadRow]
    <3>1. lead[job[w].lead] \in LeadRow
      BY <1>0, <2>1 DEF TypeOK
    <3>2. [lead[job[w].lead] EXCEPT !.email = job[w].value, !.source = "email_finder"] \in LeadRow
      BY <2>1, <3>1, RowType DEF Sources
    <3> QED BY <1>0, <3>2 DEF Filled, TypeOK
  <2>5. TypeOK'
    BY <1>0, <1>3, <2>3, <2>4, IdleType DEF CommitResult, TypeOK
  <2>6. HandlersOK'
    BY <1>0, <1>3 DEF CommitResult, TypeOK, HandlersOK, Idle
  <2> QED BY <2>5, <2>6 DEF TypeInv
<1>4. ASSUME NEW w \in Workers, Crash(w) PROVE TypeInv'
  <2>1. TypeOK'
    BY <1>0, <1>4, IdleType, BoundsAssumption DEF Crash, TypeOK
  <2>2. HandlersOK'
    BY <1>0, <1>4 DEF Crash, TypeOK, HandlersOK, Idle
  <2> QED BY <2>1, <2>2 DEF TypeInv
<1>5. ASSUME NEW ids \in SUBSET Leads, NEW t \in Tiers, RequeueMark(ids, t) PROVE TypeInv'
  <2>1. TypeOK'
    BY <1>0, <1>5, BoundsAssumption DEF RequeueMark, TypeOK
  <2>2. HandlersOK'
    BY <1>0, <1>5 DEF RequeueMark, HandlersOK
  <2> QED BY <2>1, <2>2 DEF TypeInv
<1>6. ASSUME RequeueCommit PROVE TypeInv'
  <2>1. ASSUME NEW l \in Leads PROVE Cleared(l) \in LeadRow
    <3>1. lead[l] \in LeadRow
      BY <1>0 DEF TypeOK
    <3> QED BY <3>1, RowType DEF Cleared, Sources
  <2>2. TypeOK'
    BY <1>0, <1>6, <2>1, SupersededType DEF RequeueCommit, NoRequeue, TypeOK
  <2>3. HandlersOK'
    BY <1>0, <1>6 DEF RequeueCommit, HandlersOK
  <2> QED BY <2>2, <2>3 DEF TypeInv
<1>7. ASSUME NEW l \in Leads, NEW e \in RowEmails, NEW s \in RowSources, NEW h \in BOOLEAN,
             UploadNew(l, e, s, h)
      PROVE TypeInv'
  <2>1. TypeOK'
    BY <1>0, <1>7 DEF UploadNew, TypeOK, LeadRow, RowEmails, RowSources, Sources
  <2>2. HandlersOK'
    BY <1>0, <1>7 DEF UploadNew, HandlersOK
  <2> QED BY <2>1, <2>2 DEF TypeInv
<1>8. ASSUME NEW l \in Leads, NEW e \in RowEmails, NEW s \in RowSources, UploadRead(l, e, s)
      PROVE TypeInv'
  <2>1. TypeOK'
    BY <1>0, <1>8, BoundsAssumption DEF UploadRead, TypeOK
  <2>2. HandlersOK'
    BY <1>0, <1>8 DEF UploadRead, HandlersOK
  <2> QED BY <2>1, <2>2 DEF TypeInv
<1>9. ASSUME UploadCommit PROVE TypeInv'
  <2>1. ASSUME NEW row \in LeadRow PROVE Merged(row) \in LeadRow
    BY <1>0, <2>1 DEF Merged, TypeOK, LeadRow, RowEmails, RowSources, Sources
  <2>2. TypeOK'
    BY <1>0, <1>9, <2>1
       DEF UploadCommit, NoUpload, RowEmails, RowSources, TypeOK, HandlersOK
  <2>3. HandlersOK'
    BY <1>0, <1>9 DEF UploadCommit, NoUpload, HandlersOK
  <2> QED BY <2>2, <2>3 DEF TypeInv
<1>10. ASSUME NEW list \in Lists, ReleaseAll(list) \/ ReleaseTranche(list, 1) \/ HoldList(list)
       PROVE TypeInv'
  <2>1. ASSUME NEW l \in Leads
        PROVE  /\ lead[l] \in LeadRow
               /\ [lead[l] EXCEPT !.hold = TRUE] \in LeadRow
               /\ [lead[l] EXCEPT !.hold = FALSE] \in LeadRow
    BY <1>0, RowType DEF TypeOK, LeadRow
  <2>2. lead' \in [Leads -> LeadRow]
    <3>1. CASE ReleaseAll(list)
      BY <2>1, <3>1 DEF ReleaseAll
    <3>2. CASE ReleaseTranche(list, 1)
      BY <2>1, <3>2 DEF ReleaseTranche
    <3>3. CASE HoldList(list)
      BY <2>1, <3>3 DEF HoldList
    <3> QED BY <1>10, <3>1, <3>2, <3>3
  <2>3. ops' \in 0 .. MaxOps /\ UNCHANGED <<ledger, job, requeue, upload>>
    BY <1>0, <1>10, BoundsAssumption DEF ReleaseAll, ReleaseTranche, HoldList, TypeOK
  <2>4. TypeOK'
    BY <1>0, <2>2, <2>3 DEF TypeOK
  <2>5. HandlersOK'
    BY <1>0, <2>3 DEF HandlersOK
  <2> QED BY <2>4, <2>5 DEF TypeInv
<1>11. ASSUME NEW l \in Leads, DeleteLead(l) PROVE TypeInv'
  <2>1. [NoLead EXCEPT !.row = "deleted"] \in LeadRow
    BY DEF NoLead, LeadRow, Sources
  <2>2. TypeOK'
    BY <1>0, <1>11, <2>1, BoundsAssumption DEF DeleteLead, TypeOK
  <2>3. HandlersOK'
    BY <1>0, <1>11 DEF DeleteLead, HandlersOK
  <2> QED BY <2>2, <2>3 DEF TypeInv
<1>12. CASE UNCHANGED vars
  BY <1>0, <1>12 DEF vars, TypeInv, TypeOK, HandlersOK
<1> QED
  BY <1>1, <1>2, <1>3, <1>4, <1>5, <1>6, <1>7, <1>8, <1>9, <1>10, <1>11, <1>12 DEF Next

(* The variables keep their types, and the handlers in flight refer to leads. *)
THEOREM TypeCorrect == Spec => []TypeInv
<1>1. Init => TypeInv
  BY TypeInit
<1>2. TypeInv /\ [Next]_vars => TypeInv'
  BY TypeNext
<1> QED BY <1>1, <1>2, PTL DEF Spec

(* The type invariant the runs check. *)
THEOREM TypesHold == Spec => []TypeOK
<1>1. TypeInv => TypeOK
  BY DEF TypeInv
<1> QED BY <1>1, TypeCorrect, PTL

-----------------------------------------------------------------------------
(* What a step does to the attempts of one lead at one tier *)

(* The four cases: nothing, one attempt appended by the finder's own item, a
   requeue, or the deletion of the lead.                                     *)
LEMMA LedgerStep ==
  ASSUME TypeInv, [Next]_vars, NEW l \in Leads, NEW t \in Tiers
  PROVE  \/ ledger'[l][t] = ledger[l][t]
         \/ \E w \in Workers : /\ CommitResult(w)
                               /\ job[w].lead = l /\ job[w].tier = t
                               /\ ledger'[l][t] = Append(ledger[l][t], Row(w))
         \/ RequeueCommit /\ ledger'[l][t] = Superseded(l, t)
         \/ DeleteLead(l) /\ ledger'[l][t] = <<>>
<1>0. ledger \in [Leads -> [Tiers -> Seq(Attempt)]]
  BY DEF TypeInv, TypeOK
<1>1. ASSUME NEW w \in Workers, CommitResult(w)
      PROVE  \/ ledger'[l][t] = ledger[l][t]
             \/ /\ job[w].lead = l /\ job[w].tier = t
                /\ ledger'[l][t] = Append(ledger[l][t], Row(w))
  <2>1. CASE ledger' = Appended(w)
    BY <1>0, <2>1 DEF Appended
  <2>2. CASE ledger' = ledger
    BY <2>2
  <2> QED BY <1>1, <2>1, <2>2 DEF CommitResult
<1>2. CASE RequeueCommit
  BY <1>2 DEF RequeueCommit
<1>3. ASSUME NEW k \in Leads, DeleteLead(k)
      PROVE  \/ ledger'[l][t] = ledger[l][t]
             \/ DeleteLead(l) /\ ledger'[l][t] = <<>>
  <2>1. ledger' = [ledger EXCEPT ![k] = [u \in Tiers |-> <<>>]]
    BY <1>3 DEF DeleteLead
  <2>2. CASE k = l
    <3>1. DeleteLead(l)
      BY <1>3, <2>2 DEF DeleteLead, Present
    <3>2. ledger'[l][t] = <<>>
      BY <1>0, <2>1, <2>2
    <3> QED BY <3>1, <3>2
  <2>3. CASE k # l
    BY <1>0, <2>1, <2>3
  <2> QED BY <2>2, <2>3
<1>4. CASE ledger' = ledger
  BY <1>4
<1>5. \/ \E w \in Workers : CommitResult(w)
      \/ RequeueCommit
      \/ \E k \in Leads : DeleteLead(k)
      \/ ledger' = ledger
  <2>1. CASE UNCHANGED vars
    BY <2>1 DEF vars
  <2>2. CASE \E w \in Workers : ReadLead(w) \/ CommitResult(w) \/ Crash(w)
    BY <2>2 DEF ReadLead, Crash
  <2>3. CASE \E list \in Lists : ReleaseAll(list) \/ ReleaseTranche(list, 1) \/ HoldList(list)
    BY <2>3 DEF ReleaseAll, ReleaseTranche, HoldList
  <2>4. CASE \E w \in Workers, k \in PolledTiers : Serve(w, k)
    BY <2>4 DEF Serve
  <2>5. CASE \E ids \in SUBSET Leads \ {{}}, k \in Tiers : RequeueMark(ids, k)
    BY <2>5 DEF RequeueMark
  <2>6. CASE \E k \in Leads, e \in RowEmails, s \in RowSources :
               \/ \E h \in BOOLEAN : UploadNew(k, e, s, h)
               \/ UploadRead(k, e, s)
    BY <2>6 DEF UploadNew, UploadRead
  <2>7. CASE UploadCommit
    BY <2>7 DEF UploadCommit
  <2> QED BY <2>1, <2>2, <2>3, <2>4, <2>5, <2>6, <2>7 DEF Next
<1> QED BY <1>1, <1>2, <1>3, <1>4, <1>5

(* A sequence and its indices. *)
LEMMA LedgerIndices ==
  ASSUME TypeInv, NEW l \in Leads, NEW t \in Tiers
  PROVE  /\ ledger[l][t] \in Seq(Attempt)
         /\ Len(ledger[l][t]) \in Nat
         /\ DOMAIN ledger[l][t] = 1 .. Len(ledger[l][t])
         /\ IsFiniteSet(DOMAIN ledger[l][t])
<1>1. ledger[l][t] \in Seq(Attempt)
  BY DEF TypeInv, TypeOK
<1>2. Len(ledger[l][t]) \in Nat /\ DOMAIN ledger[l][t] = 1 .. Len(ledger[l][t])
  BY <1>1
<1> QED BY <1>1, <1>2, FS_Interval

(* An append keeps every index and adds one. *)
LEMMA AppendStep ==
  ASSUME TypeInv, NEW l \in Leads, NEW t \in Tiers, NEW r,
         ledger'[l][t] = Append(ledger[l][t], r)
  PROVE  LET n == Len(ledger[l][t]) + 1 IN
         /\ n \notin DOMAIN ledger[l][t]
         /\ DOMAIN ledger'[l][t] = DOMAIN ledger[l][t] \cup {n}
         /\ \A i \in DOMAIN ledger[l][t] : ledger'[l][t][i] = ledger[l][t][i]
         /\ ledger'[l][t][n] = r
<1>1. /\ ledger[l][t] \in Seq(Attempt)
      /\ Len(ledger[l][t]) \in Nat
      /\ DOMAIN ledger[l][t] = 1 .. Len(ledger[l][t])
  BY LedgerIndices
<1>2. DOMAIN ledger'[l][t] = 1 .. Len(ledger[l][t]) + 1
  BY <1>1
<1> QED BY <1>1, <1>2

(* The attempts in force after each kind of step. *)
LEMMA LiveSuperseded ==
  ASSUME TypeInv, NEW l \in Leads, NEW t \in Tiers,
         ledger'[l][t] = Superseded(l, t)
  PROVE  /\ Live(l, t)' \subseteq Live(l, t)
         /\ DOMAIN ledger'[l][t] = DOMAIN ledger[l][t]
         /\ \A i \in DOMAIN ledger[l][t] :
              /\ ledger'[l][t][i].status = ledger[l][t][i].status
              /\ ledger'[l][t][i].value = ledger[l][t][i].value
              /\ ledger[l][t][i].superseded => ledger'[l][t][i].superseded
<1>1. DOMAIN ledger'[l][t] = DOMAIN ledger[l][t]
  BY DEF Superseded
<1>2. ASSUME NEW i \in DOMAIN ledger[l][t]
      PROVE  /\ ledger'[l][t][i].status = ledger[l][t][i].status
             /\ ledger'[l][t][i].value = ledger[l][t][i].value
             /\ ledger[l][t][i].superseded => ledger'[l][t][i].superseded
  <2>1. ledger[l][t][i] \in Attempt
    BY LedgerIndices
  <2> QED BY <2>1 DEF Superseded, Attempt
<1> QED BY <1>1, <1>2 DEF Live

LEMMA LiveAppended ==
  ASSUME TypeInv, NEW l \in Leads, NEW t \in Tiers, NEW w \in Workers,
         ledger'[l][t] = Append(ledger[l][t], Row(w))
  PROVE  LET n == Len(ledger[l][t]) + 1 IN
         /\ Live(l, t)' = Live(l, t) \cup {n}
         /\ LiveVerdicts(l, t) \subseteq LiveVerdicts(l, t)'
         /\ LiveVerdicts(l, t)' \subseteq LiveVerdicts(l, t) \cup {n}
         /\ LiveFailures(l, t) \subseteq LiveFailures(l, t)'
         /\ n \notin Live(l, t)
         /\ ledger'[l][t][n] = Row(w)
<1> DEFINE n == Len(ledger[l][t]) + 1
<1>1. /\ n \notin DOMAIN ledger[l][t]
      /\ DOMAIN ledger'[l][t] = DOMAIN ledger[l][t] \cup {n}
      /\ \A i \in DOMAIN ledger[l][t] : ledger'[l][t][i] = ledger[l][t][i]
      /\ ledger'[l][t][n] = Row(w)
  BY AppendStep
<1>2. ~ledger'[l][t][n].superseded
  BY <1>1 DEF Row
<1> HIDE DEF n
<1>3. Live(l, t)' = Live(l, t) \cup {n}
  BY <1>1, <1>2 DEF Live
<1>4. /\ LiveVerdicts(l, t) \subseteq LiveVerdicts(l, t)'
      /\ LiveVerdicts(l, t)' \subseteq LiveVerdicts(l, t) \cup {n}
      /\ LiveFailures(l, t) \subseteq LiveFailures(l, t)'
  BY <1>1, <1>3 DEF LiveVerdicts, LiveFailures, Live
<1>5. n \notin Live(l, t)
  BY <1>1 DEF Live
<1> QED BY <1>1, <1>3, <1>4, <1>5 DEF n

LEMMA LiveFinite ==
  ASSUME TypeInv, NEW l \in Leads, NEW t \in Tiers
  PROVE  /\ IsFiniteSet(Live(l, t))
         /\ IsFiniteSet(LiveVerdicts(l, t))
         /\ IsFiniteSet(LiveFailures(l, t))
<1>1. /\ Live(l, t) \in SUBSET DOMAIN ledger[l][t]
      /\ LiveVerdicts(l, t) \in SUBSET DOMAIN ledger[l][t]
      /\ LiveFailures(l, t) \in SUBSET DOMAIN ledger[l][t]
  BY DEF Live, LiveVerdicts, LiveFailures
<1> QED BY <1>1, LedgerIndices, FS_Subset

-----------------------------------------------------------------------------
(* Action properties *)

LEMMA AppendOnlyStep ==
  ASSUME TypeInv, [Next]_vars, NEW l \in Leads, NEW t \in Tiers, Present(l)',
         NEW i \in DOMAIN ledger[l][t]
  PROVE  /\ i \in DOMAIN ledger'[l][t]
         /\ ledger'[l][t][i].status = ledger[l][t][i].status
         /\ ledger'[l][t][i].value = ledger[l][t][i].value
         /\ ledger[l][t][i].superseded => ledger'[l][t][i].superseded
<1>1. CASE ledger'[l][t] = ledger[l][t]
  BY <1>1
<1>2. ASSUME NEW w \in Workers, ledger'[l][t] = Append(ledger[l][t], Row(w))
      PROVE  i \in DOMAIN ledger'[l][t] /\ ledger'[l][t][i] = ledger[l][t][i]
  BY <1>2, AppendStep
<1>3. CASE ledger'[l][t] = Superseded(l, t)
  BY <1>3, LiveSuperseded
<1>4. ASSUME DeleteLead(l) PROVE FALSE
  BY <1>4 DEF DeleteLead, Present, NoLead, TypeInv, TypeOK
<1> QED BY <1>1, <1>2, <1>3, <1>4, LedgerStep

(* The ledger is append-only for every lead that exists: no result, requeue, upload,
   hold or crash removes, moves or rewrites an attempt, or puts one back in force.  *)
THEOREM AppendOnly == Spec => LedgerAppendOnly
<1>1. ASSUME TypeInv, [Next]_vars
      PROVE  \A l \in Leads, t \in Tiers : Present(l)' =>
               \A i \in DOMAIN ledger[l][t] :
                 /\ i \in DOMAIN ledger'[l][t]
                 /\ ledger'[l][t][i].status = ledger[l][t][i].status
                 /\ ledger'[l][t][i].value = ledger[l][t][i].value
                 /\ ledger[l][t][i].superseded => ledger'[l][t][i].superseded
  BY <1>1, AppendOnlyStep
<1> QED BY <1>1, TypeCorrect, PTL DEF Spec, LedgerAppendOnly

LEMMA ReopenStep ==
  ASSUME TypeInv, [Next]_vars, NEW l \in Leads, NEW t \in Tiers,
         Closed(l, t), ~Closed(l, t)'
  PROVE  \/ requeue.on /\ ~requeue'.on /\ l \in requeue.ids /\ t = requeue.tier
         \/ ~Present(l)'
<1>1. CASE ledger'[l][t] = ledger[l][t]
  BY <1>1 DEF Closed, LiveVerdicts, LiveFailures, Live
<1>2. ASSUME NEW w \in Workers, ledger'[l][t] = Append(ledger[l][t], Row(w)) PROVE FALSE
  <2>1. /\ LiveVerdicts(l, t) \subseteq LiveVerdicts(l, t)'
        /\ LiveFailures(l, t) \subseteq LiveFailures(l, t)'
    BY <1>2, LiveAppended
  <2>2. IsFiniteSet(Live(l, t)')
    BY <1>2, LiveAppended, LiveFinite, FS_AddElement, SMTT(20)
  <2>3. IsFiniteSet(LiveFailures(l, t)')
    <3>1. LiveFailures(l, t)' \in SUBSET Live(l, t)'
      BY DEF LiveFailures, Live
    <3> QED BY <2>2, <3>1, FS_Subset
  <2>4. Cardinality(LiveFailures(l, t)) <= Cardinality(LiveFailures(l, t)')
    BY <2>1, <2>3, FS_Subset
  <2>5. /\ Cardinality(LiveFailures(l, t)) \in Nat
        /\ Cardinality(LiveFailures(l, t)') \in Nat
    BY <2>3, LiveFinite, FS_CardinalityType
  <2> QED BY <2>1, <2>4, <2>5, RetriesAssumption DEF Closed
<1>3. ASSUME RequeueCommit, ledger'[l][t] = Superseded(l, t)
      PROVE  requeue.on /\ ~requeue'.on /\ l \in requeue.ids /\ t = requeue.tier
  <2>1. requeue.on /\ ~requeue'.on
    BY <1>3 DEF RequeueCommit, NoRequeue
  <2>2. SUFFICES ASSUME ~(l \in requeue.ids /\ t = requeue.tier) PROVE FALSE
    BY <2>1
  <2>3. ledger[l][t] = [i \in DOMAIN ledger[l][t] |-> ledger[l][t][i]]
    BY LedgerIndices
  <2>4. ledger'[l][t] = ledger[l][t]
    BY <1>3, <2>2, <2>3 DEF Superseded
  <2> QED BY <1>1, <2>4 DEF Closed, LiveVerdicts, LiveFailures, Live
<1>4. ASSUME DeleteLead(l) PROVE ~Present(l)'
  BY <1>4 DEF DeleteLead, Present, NoLead, TypeInv, TypeOK
<1> QED BY <1>1, <1>2, <1>3, <1>4, LedgerStep

(* A closed tier stays closed until a requeue of that very lead and tier commits. *)
THEOREM Reopened == Spec => ReopenedOnlyByRequeue
<1>1. ASSUME TypeInv, [Next]_vars
      PROVE  \A l \in Leads, t \in Tiers : Closed(l, t) /\ ~Closed(l, t)' =>
               \/ requeue.on /\ ~requeue'.on /\ l \in requeue.ids /\ t = requeue.tier
               \/ ~Present(l)'
  BY <1>1, ReopenStep
<1> QED BY <1>1, TypeCorrect, PTL DEF Spec, ReopenedOnlyByRequeue

-----------------------------------------------------------------------------
(* The bounds on what a tier is paid for *)

(* Items answered or lost leave Outstanding; only Serve adds one. *)
LEMMA OutstandingStep ==
  ASSUME TypeInv, [Next]_vars, NEW l \in Leads, NEW t \in Tiers
  PROVE  \/ Outstanding(l, t)' \subseteq Outstanding(l, t)
         \/ ~Closed(l, t) /\ ledger' = ledger
<1>0. job \in [Workers -> Job]
  BY DEF TypeInv, TypeOK
<1>1. ASSUME NEW w \in Workers, NEW u \in PolledTiers, Serve(w, u)
      PROVE  \/ Outstanding(l, t)' \subseteq Outstanding(l, t)
             \/ ~Closed(l, t) /\ ledger' = ledger
  <2>1. PICK k \in QueuePage(u) :
          job' = [job EXCEPT ![w] = [Idle EXCEPT !.pc = "working", !.lead = k, !.tier = u]]
    BY <1>1 DEF Serve
  <2>2. job'[w].lead = k /\ job'[w].tier = u
    BY <1>0, <2>1 DEF Idle
  <2>3. \A v \in Workers \ {w} : job'[v] = job[v]
    BY <1>0, <2>1
  <2>4. CASE k = l /\ u = t
    <3>1. ~Closed(l, t)
      BY <2>4 DEF QueuePage, Eligible
    <3> QED BY <1>1, <3>1 DEF Serve
  <2>5. CASE ~(k = l /\ u = t)
    BY <2>2, <2>3, <2>5 DEF Outstanding
  <2> QED BY <2>4, <2>5
<1>2. ASSUME NEW w \in Workers, ReadLead(w) \/ CommitResult(w) \/ Crash(w)
      PROVE  Outstanding(l, t)' \subseteq Outstanding(l, t)
  <2>1. CASE job' = [job EXCEPT ![w] = Idle]
    <3>1. Idle.lead # l
      BY NullAssumption DEF Idle
    <3>2. \A v \in Workers : job'[v] = IF v = w THEN Idle ELSE job[v]
      BY <1>0, <2>1
    <3> QED BY <3>1, <3>2 DEF Outstanding
  <2>2. CASE \E a \in Answers :
               job' = [job EXCEPT ![w] =
                         [@ EXCEPT !.pc = "posting",
                                   !.status = Recorded(a).status,
                                   !.value = Recorded(a).value,
                                   !.sawNoEmail = (lead[job[w].lead].email = NULL)]]
    <3>1. \A v \in Workers : job'[v].lead = job[v].lead /\ job'[v].tier = job[v].tier
      BY <1>0, <2>2 DEF Job
    <3> QED BY <3>1 DEF Outstanding
  <2> QED BY <1>2, <2>1, <2>2 DEF ReadLead, CommitResult, Crash
<1>3. CASE job' = job
  BY <1>3 DEF Outstanding
<1>4. \/ \E w \in Workers, u \in PolledTiers : Serve(w, u)
      \/ \E w \in Workers : ReadLead(w) \/ CommitResult(w) \/ Crash(w)
      \/ job' = job
  <2>1. CASE UNCHANGED vars
    BY <2>1 DEF vars
  <2>2. CASE \E list \in Lists : ReleaseAll(list) \/ ReleaseTranche(list, 1) \/ HoldList(list)
    BY <2>2 DEF ReleaseAll, ReleaseTranche, HoldList
  <2>3. CASE \E ids \in SUBSET Leads \ {{}}, k \in Tiers : RequeueMark(ids, k)
    BY <2>3 DEF RequeueMark
  <2>4. CASE \E k \in Leads, e \in RowEmails, s \in RowSources :
               \/ \E h \in BOOLEAN : UploadNew(k, e, s, h)
               \/ UploadRead(k, e, s)
    BY <2>4 DEF UploadNew, UploadRead
  <2>5. CASE UploadCommit \/ RequeueCommit
    BY <2>5 DEF UploadCommit, RequeueCommit
  <2>6. CASE \E k \in Leads : DeleteLead(k)
    BY <2>6 DEF DeleteLead
  <2> QED BY <2>1, <2>2, <2>3, <2>4, <2>5, <2>6 DEF Next
<1> QED BY <1>1, <1>2, <1>3, <1>4

(* How a step changes the attempts in force and the items out, together. *)
LEMMA SpendStep ==
  ASSUME TypeInv, [Next]_vars, NEW l \in Leads, NEW t \in Tiers
  PROVE  \/ /\ Live(l, t)' \subseteq Live(l, t)
            /\ LiveVerdicts(l, t)' \subseteq LiveVerdicts(l, t)
            /\ Outstanding(l, t)' \subseteq Outstanding(l, t)
         \/ \E w \in Outstanding(l, t), n \in Nat :
              /\ Live(l, t)' \subseteq Live(l, t) \cup {n}
              /\ LiveVerdicts(l, t)' \subseteq LiveVerdicts(l, t) \cup {n}
              /\ Outstanding(l, t)' \subseteq Outstanding(l, t) \ {w}
         \/ /\ ~Closed(l, t)
            /\ Live(l, t)' = Live(l, t)
            /\ LiveVerdicts(l, t)' = LiveVerdicts(l, t)
<1>1. ASSUME NEW w \in Workers, CommitResult(w), job[w].lead = l, job[w].tier = t,
             ledger'[l][t] = Append(ledger[l][t], Row(w))
      PROVE  \E v \in Outstanding(l, t), n \in Nat :
               /\ Live(l, t)' \subseteq Live(l, t) \cup {n}
               /\ LiveVerdicts(l, t)' \subseteq LiveVerdicts(l, t) \cup {n}
               /\ Outstanding(l, t)' \subseteq Outstanding(l, t) \ {v}
  <2>1. w \in Outstanding(l, t)
    BY <1>1 DEF Outstanding
  <2>2. Len(ledger[l][t]) + 1 \in Nat
    BY LedgerIndices
  <2>3. job \in [Workers -> Job] /\ job' = [job EXCEPT ![w] = Idle] /\ Idle.lead # l
    BY <1>1, NullAssumption DEF CommitResult, TypeInv, TypeOK, Idle
  <2>4. Outstanding(l, t)' \subseteq Outstanding(l, t) \ {w}
    BY <2>3 DEF Outstanding
  <2> QED BY <1>1, <2>1, <2>2, <2>4, LiveAppended
<1>2. ASSUME \/ ledger'[l][t] = ledger[l][t]
             \/ ledger'[l][t] = Superseded(l, t)
             \/ ledger'[l][t] = <<>>
      PROVE  /\ Live(l, t)' \subseteq Live(l, t)
             /\ LiveVerdicts(l, t)' \subseteq LiveVerdicts(l, t)
  <2>1. CASE ledger'[l][t] = ledger[l][t]
    BY <2>1 DEF LiveVerdicts, Live
  <2>2. CASE ledger'[l][t] = Superseded(l, t)
    <3>1. /\ Live(l, t)' \subseteq Live(l, t)
          /\ \A i \in DOMAIN ledger[l][t] : ledger'[l][t][i].status = ledger[l][t][i].status
      BY <2>2, LiveSuperseded
    <3> QED BY <3>1 DEF LiveVerdicts, Live
  <2>3. CASE ledger'[l][t] = <<>>
    <3>1. DOMAIN ledger'[l][t] = {}
      BY <2>3
    <3> QED BY <3>1 DEF LiveVerdicts, Live
  <2> QED BY <1>2, <2>1, <2>2, <2>3
<1>3. CASE ledger' = ledger /\ ~Closed(l, t)
  BY <1>3 DEF LiveVerdicts, Live
<1> QED BY <1>1, <1>2, <1>3, LedgerStep, OutstandingStep

(* Counting: a set that gains n and loses w grows by nothing. *)
LEMMA CountStep ==
  ASSUME NEW A, NEW B, NEW C, NEW D, NEW n, NEW w \in B,
         IsFiniteSet(A), IsFiniteSet(B), C \subseteq A \cup {n}, D \subseteq B \ {w}
  PROVE  Cardinality(C) + Cardinality(D) <= Cardinality(A) + Cardinality(B)
<1>1. /\ IsFiniteSet(A \cup {n}) /\ Cardinality(A \cup {n}) <= Cardinality(A) + 1
      /\ IsFiniteSet(B \ {w}) /\ Cardinality(B \ {w}) = Cardinality(B) - 1
      /\ Cardinality(A) \in Nat /\ Cardinality(B) \in Nat
  BY FS_AddElement, FS_RemoveElement, FS_CardinalityType
<1>2. /\ IsFiniteSet(C) /\ Cardinality(C) <= Cardinality(A \cup {n})
      /\ IsFiniteSet(D) /\ Cardinality(D) <= Cardinality(B \ {w})
  BY <1>1, FS_Subset
<1>3. /\ Cardinality(C) \in Nat /\ Cardinality(D) \in Nat
      /\ Cardinality(A \cup {n}) \in Nat /\ Cardinality(B \ {w}) \in Nat
  BY <1>1, <1>2, FS_CardinalityType
<1> QED BY <1>1, <1>2, <1>3

LEMMA CountSubset ==
  ASSUME NEW A, NEW B, NEW C, NEW D,
         IsFiniteSet(A), IsFiniteSet(B), C \subseteq A, D \subseteq B
  PROVE  Cardinality(C) + Cardinality(D) <= Cardinality(A) + Cardinality(B)
<1>1. /\ IsFiniteSet(C) /\ Cardinality(C) <= Cardinality(A)
      /\ IsFiniteSet(D) /\ Cardinality(D) <= Cardinality(B)
  BY FS_Subset
<1> QED BY <1>1, FS_CardinalityType

LEMMA OutstandingFinite ==
  ASSUME NEW l, NEW t
  PROVE  /\ IsFiniteSet(Outstanding(l, t))
         /\ Cardinality(Outstanding(l, t)) <= Cardinality(Workers)
         /\ IsFiniteSet(Outstanding(l, t)')
         /\ Cardinality(Outstanding(l, t)') <= Cardinality(Workers)
         /\ Cardinality(Workers) \in Nat
<1>1. Outstanding(l, t) \in SUBSET Workers /\ Outstanding(l, t)' \in SUBSET Workers
  BY DEF Outstanding
<1> QED BY <1>1, WorkersAssumption, FS_Subset, FS_CardinalityType

(* While a tier is open, the attempts in force are failures below the cap. *)
LEMMA OpenTier ==
  ASSUME TypeInv, NEW l \in Leads, NEW t \in Tiers, ~Closed(l, t)
  PROVE  /\ LiveVerdicts(l, t) = {}
         /\ Cardinality(Live(l, t)) <= MAX_FAILED_RETRIES - 1
<1>1. LiveVerdicts(l, t) = {} /\ ~(Cardinality(LiveFailures(l, t)) >= MAX_FAILED_RETRIES)
  BY DEF Closed
<1>2. ASSUME NEW i \in Live(l, t) PROVE i \in LiveFailures(l, t)
  <2>1. ledger[l][t][i] \in Attempt
    BY LedgerIndices DEF Live
  <2> QED BY <1>1, <1>2, <2>1 DEF LiveVerdicts, LiveFailures, Attempt, Outcomes
<1>3. Live(l, t) = LiveFailures(l, t)
  BY <1>2 DEF LiveFailures
<1>4. Cardinality(LiveFailures(l, t)) \in Nat
  BY LiveFinite, FS_CardinalityType
<1> QED BY <1>1, <1>3, <1>4, RetriesAssumption

LEMMA BoundsStep ==
  ASSUME TypeInv, VerdictsBounded, SpendBounded, [Next]_vars
  PROVE  VerdictsBounded' /\ SpendBounded'
<1> SUFFICES ASSUME NEW l \in Leads, NEW t \in Tiers
             PROVE  /\ Cardinality(LiveVerdicts(l, t)') + Cardinality(Outstanding(l, t)')
                         <= Cardinality(Workers)
                    /\ Cardinality(Live(l, t)') + Cardinality(Outstanding(l, t)')
                         <= MAX_FAILED_RETRIES - 1 + Cardinality(Workers)
  BY DEF VerdictsBounded, SpendBounded
<1>1. /\ IsFiniteSet(Live(l, t)) /\ IsFiniteSet(LiveVerdicts(l, t))
      /\ IsFiniteSet(Outstanding(l, t))
  BY LiveFinite, OutstandingFinite
<1>2. /\ Cardinality(LiveVerdicts(l, t)) + Cardinality(Outstanding(l, t)) <= Cardinality(Workers)
      /\ Cardinality(Live(l, t)) + Cardinality(Outstanding(l, t))
           <= MAX_FAILED_RETRIES - 1 + Cardinality(Workers)
  BY DEF VerdictsBounded, SpendBounded
<1>3. /\ Cardinality(Live(l, t)) \in Nat /\ Cardinality(LiveVerdicts(l, t)) \in Nat
      /\ Cardinality(Outstanding(l, t)) \in Nat /\ Cardinality(Workers) \in Nat
  BY <1>1, OutstandingFinite, FS_CardinalityType
<1>4. ASSUME IsFiniteSet(Live(l, t)'), IsFiniteSet(LiveVerdicts(l, t)'),
             /\ Cardinality(LiveVerdicts(l, t)') + Cardinality(Outstanding(l, t)')
                  <= Cardinality(LiveVerdicts(l, t)) + Cardinality(Outstanding(l, t))
             /\ Cardinality(Live(l, t)') + Cardinality(Outstanding(l, t)')
                  <= Cardinality(Live(l, t)) + Cardinality(Outstanding(l, t))
      PROVE  /\ Cardinality(LiveVerdicts(l, t)') + Cardinality(Outstanding(l, t)')
                  <= Cardinality(Workers)
             /\ Cardinality(Live(l, t)') + Cardinality(Outstanding(l, t)')
                  <= MAX_FAILED_RETRIES - 1 + Cardinality(Workers)
  <2>1. /\ Cardinality(Live(l, t)') \in Nat /\ Cardinality(LiveVerdicts(l, t)') \in Nat
        /\ Cardinality(Outstanding(l, t)') \in Nat
    BY <1>4, OutstandingFinite, FS_CardinalityType
  <2> QED BY <1>2, <1>3, <1>4, <2>1, RetriesAssumption
<1>5. CASE /\ Live(l, t)' \subseteq Live(l, t)
           /\ LiveVerdicts(l, t)' \subseteq LiveVerdicts(l, t)
           /\ Outstanding(l, t)' \subseteq Outstanding(l, t)
  BY <1>1, <1>4, <1>5, CountSubset, FS_Subset
<1>6. CASE \E w \in Outstanding(l, t), n \in Nat :
             /\ Live(l, t)' \subseteq Live(l, t) \cup {n}
             /\ LiveVerdicts(l, t)' \subseteq LiveVerdicts(l, t) \cup {n}
             /\ Outstanding(l, t)' \subseteq Outstanding(l, t) \ {w}
  <2>1. PICK w \in Outstanding(l, t), n \in Nat :
             /\ Live(l, t)' \subseteq Live(l, t) \cup {n}
             /\ LiveVerdicts(l, t)' \subseteq LiveVerdicts(l, t) \cup {n}
             /\ Outstanding(l, t)' \subseteq Outstanding(l, t) \ {w}
    BY <1>6
  <2>2. IsFiniteSet(Live(l, t)') /\ IsFiniteSet(LiveVerdicts(l, t)')
    BY <1>1, <2>1, FS_AddElement, FS_Subset
  <2> QED BY <1>1, <1>4, <2>1, <2>2, CountStep
<1>7. CASE /\ ~Closed(l, t)
           /\ Live(l, t)' = Live(l, t)
           /\ LiveVerdicts(l, t)' = LiveVerdicts(l, t)
  <2>1. LiveVerdicts(l, t)' = {} /\ Cardinality(Live(l, t)') <= MAX_FAILED_RETRIES - 1
    BY <1>7, OpenTier
  <2>2. Cardinality(Outstanding(l, t)') \in Nat
        /\ Cardinality(Outstanding(l, t)') <= Cardinality(Workers)
    BY OutstandingFinite, FS_CardinalityType
  <2>3. Cardinality(Live(l, t)') \in Nat
    BY <1>3, <1>7
  <2> QED BY <1>3, <2>1, <2>2, <2>3, FS_EmptySet, RetriesAssumption
<1> QED BY <1>5, <1>6, <1>7, SpendStep

LEMMA BoundsInit == Init => VerdictsBounded /\ SpendBounded
<1> SUFFICES ASSUME Init, NEW l \in Leads, NEW t \in Tiers
             PROVE  /\ Cardinality(LiveVerdicts(l, t)) + Cardinality(Outstanding(l, t))
                         <= Cardinality(Workers)
                    /\ Cardinality(Live(l, t)) + Cardinality(Outstanding(l, t))
                         <= MAX_FAILED_RETRIES - 1 + Cardinality(Workers)
  BY DEF VerdictsBounded, SpendBounded
<1>1. Live(l, t) = {} /\ LiveVerdicts(l, t) = {}
  <2>1. ledger[l][t] = <<>>
    BY DEF Init
  <2>2. DOMAIN ledger[l][t] = {}
    BY <2>1
  <2> QED BY <2>2 DEF Live, LiveVerdicts
<1>2. Cardinality(Outstanding(l, t)) \in Nat
  BY OutstandingFinite, FS_CardinalityType
<1> QED BY <1>1, <1>2, OutstandingFinite, FS_EmptySet, RetriesAssumption

(* However polls, results, crashes and requeues interleave, what a tier is paid for a
   lead exceeds one verdict, or the cap on attempts, by no more than the items that
   finders hold at once: with one item at a time neither is ever exceeded.           *)
THEOREM SpendIsBounded == Spec => [](VerdictsBounded /\ SpendBounded)
<1>1. Init => VerdictsBounded /\ SpendBounded
  BY BoundsInit
<1>2. TypeInv /\ (VerdictsBounded /\ SpendBounded) /\ [Next]_vars
        => (VerdictsBounded /\ SpendBounded)'
  BY BoundsStep
<1> QED BY <1>1, <1>2, TypeCorrect, PTL DEF Spec

-----------------------------------------------------------------------------
(* The lead row and its ledger *)

(* The ways a step changes the row of one lead. *)
FilledByResult(l) ==
  \E w \in Workers :
    /\ CommitResult(w)
    /\ job[w].lead = l /\ job[w].status = "found" /\ Present(l)
    /\ ledger' = Appended(w)
    /\ lead'[l] = [lead[l] EXCEPT !.email = job[w].value, !.source = "email_finder"]

MadeByUpload(l) ==
  /\ ledger' = ledger
  /\ lead[l].row = "absent"
  /\ \E e \in RowEmails, s \in RowSources, h \in BOOLEAN :
       lead'[l] = [row |-> "live", email |-> e, source |-> s, hold |-> h]

MergedByUpload(l) ==
  ledger' = ledger /\ upload.on /\ Present(l) /\ lead'[l] = Merged(lead[l])

HoldChanged(l) ==
  ledger' = ledger /\ Present(l) /\ \E h \in BOOLEAN : lead'[l] = [lead[l] EXCEPT !.hold = h]

LEMMA LeadStep ==
  ASSUME TypeInv, [Next]_vars, NEW l \in Leads
  PROVE  \/ lead'[l] = lead[l]
         \/ FilledByResult(l)
         \/ RequeueCommit /\ lead'[l] = Cleared(l)
         \/ MadeByUpload(l)
         \/ MergedByUpload(l)
         \/ HoldChanged(l)
         \/ DeleteLead(l)
<1>0. lead \in [Leads -> LeadRow]
  BY DEF TypeInv, TypeOK
<1> SUFFICES ASSUME lead'[l] # lead[l]
             PROVE  \/ FilledByResult(l)
                    \/ RequeueCommit /\ lead'[l] = Cleared(l)
                    \/ MadeByUpload(l)
                    \/ MergedByUpload(l)
                    \/ HoldChanged(l)
                    \/ DeleteLead(l)
  OBVIOUS
<1>1. ASSUME NEW w \in Workers, CommitResult(w) PROVE FilledByResult(l)
  <2>1. /\ job[w].lead = l /\ job[w].status = "found" /\ Present(l)
        /\ ledger' = Appended(w)
        /\ lead'[l] = [lead[l] EXCEPT !.email = job[w].value, !.source = "email_finder"]
    BY <1>0, <1>1 DEF CommitResult, Filled
  <2> QED BY <1>1, <2>1 DEF FilledByResult
<1>2. ASSUME RequeueCommit PROVE lead'[l] = Cleared(l)
  BY <1>2 DEF RequeueCommit
<1>3. ASSUME NEW k \in Leads, NEW e \in RowEmails, NEW s \in RowSources, NEW h \in BOOLEAN,
             UploadNew(k, e, s, h)
      PROVE  MadeByUpload(l)
  BY <1>0, <1>3 DEF UploadNew, MadeByUpload
<1>4. ASSUME UploadCommit PROVE MergedByUpload(l)
  BY <1>0, <1>4 DEF UploadCommit, MergedByUpload
<1>5. ASSUME NEW list \in Lists, ReleaseAll(list) \/ ReleaseTranche(list, 1) \/ HoldList(list)
      PROVE  HoldChanged(l)
  <2>1. Tranche(list, 1) \subseteq {k \in Leads : Present(k)}
    BY ListsAssumption DEF Tranche, Untouched
  <2>2. /\ ledger' = ledger
        /\ Present(l)
        /\ \/ lead'[l] = [lead[l] EXCEPT !.hold = TRUE]
           \/ lead'[l] = [lead[l] EXCEPT !.hold = FALSE]
    BY <1>5, <2>1 DEF ReleaseAll, ReleaseTranche, HoldList
  <2> QED BY <2>2 DEF HoldChanged
<1>6. ASSUME NEW k \in Leads, DeleteLead(k) PROVE DeleteLead(l)
  BY <1>0, <1>6 DEF DeleteLead, Present
<1>7. \/ \E w \in Workers : CommitResult(w)
      \/ RequeueCommit
      \/ \E k \in Leads, e \in RowEmails, s \in RowSources, h \in BOOLEAN : UploadNew(k, e, s, h)
      \/ UploadCommit
      \/ \E list \in Lists : ReleaseAll(list) \/ ReleaseTranche(list, 1) \/ HoldList(list)
      \/ \E k \in Leads : DeleteLead(k)
      \/ lead' = lead
  <2>1. CASE UNCHANGED vars
    BY <2>1 DEF vars
  <2>2. CASE \E w \in Workers : ReadLead(w) \/ CommitResult(w) \/ Crash(w)
    BY <2>2 DEF ReadLead, Crash
  <2>3. CASE \E w \in Workers, k \in PolledTiers : Serve(w, k)
    BY <2>3 DEF Serve
  <2>4. CASE \E ids \in SUBSET Leads \ {{}}, k \in Tiers : RequeueMark(ids, k)
    BY <2>4 DEF RequeueMark
  <2>5. CASE \E k \in Leads, e \in RowEmails, s \in RowSources :
               \/ \E h \in BOOLEAN : UploadNew(k, e, s, h)
               \/ UploadRead(k, e, s)
    BY <2>5 DEF UploadRead
  <2> QED BY <2>1, <2>2, <2>3, <2>4, <2>5 DEF Next
<1> QED BY <1>1, <1>2, <1>3, <1>4, <1>5, <1>6, <1>7

(* Requeues withdraw prefixes: a committed requeue marks the rows below its mark and
   leaves the order of the others.                                                *)
LEMMA WithdrawnStep ==
  ASSUME TypeInv, WithdrawnFirst, [Next]_vars, NEW l \in Leads, NEW t \in Tiers,
         NEW i \in DOMAIN ledger'[l][t], NEW j \in DOMAIN ledger'[l][t],
         i < j, ledger'[l][t][j].superseded
  PROVE  ledger'[l][t][i].superseded
<1>0. \A a, b \in DOMAIN ledger[l][t] :
        a < b /\ ledger[l][t][b].superseded => ledger[l][t][a].superseded
  BY DEF WithdrawnFirst
<1>1. CASE ledger'[l][t] = ledger[l][t]
  BY <1>0, <1>1
<1>2. ASSUME NEW w \in Workers, ledger'[l][t] = Append(ledger[l][t], Row(w))
      PROVE  ledger'[l][t][i].superseded
  <2> DEFINE n == Len(ledger[l][t]) + 1
  <2>1. /\ DOMAIN ledger'[l][t] = DOMAIN ledger[l][t] \cup {n}
        /\ \A k \in DOMAIN ledger[l][t] : ledger'[l][t][k] = ledger[l][t][k]
        /\ ledger'[l][t][n] = Row(w)
    BY <1>2, AppendStep, SMTT(20)
  <2>2. j # n
    BY <2>1 DEF Row
  <2>3. i # n
    BY <2>1, <2>2, LedgerIndices
  <2> QED BY <1>0, <2>1, <2>2, <2>3
<1>3. CASE ledger'[l][t] = Superseded(l, t)
  <2>1. /\ DOMAIN ledger'[l][t] = DOMAIN ledger[l][t]
        /\ ledger[l][t][i].superseded => ledger'[l][t][i].superseded
    BY <1>3, LiveSuperseded
  <2>2. ledger[l][t][i] \in Attempt
    BY <2>1, LedgerIndices
  <2>3. CASE l \in requeue.ids /\ t = requeue.tier /\ j <= requeue.marked[l]
    <3>1. requeue.marked[l] \in Nat /\ i \in Nat /\ j \in Nat
      BY <2>1, LedgerIndices DEF TypeInv, TypeOK
    <3>2. i <= requeue.marked[l]
      BY <2>3, <3>1
    <3> QED BY <1>3, <2>1, <2>2, <2>3, <3>2 DEF Superseded, Attempt
  <2>4. CASE ~(l \in requeue.ids /\ t = requeue.tier /\ j <= requeue.marked[l])
    <3>1. ledger'[l][t][j] = ledger[l][t][j]
      BY <1>3, <2>1, <2>4 DEF Superseded
    <3> QED BY <1>0, <2>1, <3>1
  <2> QED BY <2>3, <2>4
<1>4. CASE ledger'[l][t] = <<>>
  <2>1. DOMAIN ledger'[l][t] = {}
    BY <1>4
  <2> QED BY <2>1
<1> QED BY <1>1, <1>2, <1>3, <1>4, LedgerStep

(* Requeues withdraw whole prefixes of the ledger, whatever commits in between. *)
THEOREM PrefixWithdrawn == Spec => []WithdrawnFirst
<1>1. Init => WithdrawnFirst
  <2>1. ASSUME Init, NEW l \in Leads, NEW t \in Tiers PROVE DOMAIN ledger[l][t] = {}
    <3>1. ledger[l][t] = <<>>
      BY <2>1 DEF Init
    <3> QED BY <3>1
  <2> QED BY <2>1 DEF WithdrawnFirst
<1>2. TypeInv /\ WithdrawnFirst /\ [Next]_vars => WithdrawnFirst'
  BY WithdrawnStep DEF WithdrawnFirst
<1> QED BY <1>1, <1>2, TypeCorrect, PTL DEF Spec

(* A lead that is not in the table stays without attempts and without an email. *)
LEMMA OrphanStep ==
  ASSUME TypeInv, NoOrphanAttempts, [Next]_vars, NEW l \in Leads, ~Present(l)'
  PROVE  (\A t \in Tiers : ledger'[l][t] = <<>>) /\ lead'[l].email = NULL
<1>0. lead[l] \in LeadRow
  BY DEF TypeInv, TypeOK
<1>1. CASE DeleteLead(l)
  <2>1. lead' = [lead EXCEPT ![l] = [NoLead EXCEPT !.row = "deleted"]]
    BY <1>1 DEF DeleteLead
  <2>2. lead'[l].email = NULL
    BY <2>1 DEF NoLead, TypeInv, TypeOK
  <2>3. ledger'[l] = [t \in Tiers |-> <<>>]
    BY <1>1 DEF DeleteLead, TypeInv, TypeOK
  <2> QED BY <2>2, <2>3
<1>2. CASE ~DeleteLead(l)
  <2>1. \/ lead'[l] = lead[l]
        \/ RequeueCommit /\ lead'[l] = Cleared(l)
    <3>1. ASSUME FilledByResult(l) PROVE FALSE
      BY <1>0, <3>1 DEF FilledByResult, Present, LeadRow
    <3>2. ASSUME MadeByUpload(l) PROVE FALSE
      BY <3>2 DEF MadeByUpload, Present
    <3>3. ASSUME MergedByUpload(l) PROVE FALSE
      BY <1>0, <3>3 DEF MergedByUpload, Merged, Present, LeadRow
    <3>4. ASSUME HoldChanged(l) PROVE FALSE
      BY <1>0, <3>4 DEF HoldChanged, Present, LeadRow
    <3> QED BY <1>2, <3>1, <3>2, <3>3, <3>4, LeadStep
  <2>2. ~Present(l)
    BY <1>0, <2>1 DEF Cleared, Present, LeadRow
  <2>3. lead[l].email = NULL /\ \A t \in Tiers : ledger[l][t] = <<>>
    BY <2>2 DEF NoOrphanAttempts, Attempted
  <2>4. lead'[l].email = NULL
    BY <1>0, <2>1, <2>3 DEF Cleared, LeadRow
  <2>5. ASSUME NEW t \in Tiers PROVE ledger'[l][t] = <<>>
    <3>1. ASSUME NEW w \in Workers, CommitResult(w), job[w].lead = l,
                 ledger'[l][t] = Append(ledger[l][t], Row(w))
          PROVE  ledger'[l][t] = <<>>
      <4>1. ledger' = ledger
        BY <2>2, <3>1 DEF CommitResult
      <4> QED BY <2>3, <4>1
    <3>2. ASSUME ledger'[l][t] = Superseded(l, t) PROVE ledger'[l][t] = <<>>
      <4>1. ledger'[l][t] \in Seq(Attempt)
        BY <3>2, SupersededType
      <4>2. DOMAIN ledger'[l][t] = {}
        BY <2>3, <3>2 DEF Superseded
      <4> QED BY <4>1, <4>2, EmptyDomain
    <3> QED BY <1>2, <2>3, <3>1, <3>2, LedgerStep
  <2> QED BY <2>4, <2>5
<1> QED BY <1>1, <1>2

(* Nothing is left behind for a lead that is gone, whatever was in flight for it. *)
THEOREM NoOrphans == Spec => []NoOrphanAttempts
<1>1. Init => NoOrphanAttempts
  BY DEF Init, NoOrphanAttempts, Attempted, NoLead
<1>2. TypeInv /\ NoOrphanAttempts /\ [Next]_vars => NoOrphanAttempts'
  BY OrphanStep DEF NoOrphanAttempts, Attempted
<1> QED BY <1>1, <1>2, TypeCorrect, PTL DEF Spec

(* The attempt that earned the email of lead l. *)
Earns(l, t, i) == /\ i \in Live(l, t)
                  /\ ledger[l][t][i].status = "found"
                  /\ lead[l].email \in Uploads \cup {ledger[l][t][i].value}

LEMMA EarnedStep ==
  ASSUME TypeInv, FinderEmailIsEarned, [Next]_vars, NEW l \in Leads,
         lead'[l].source = "email_finder"
  PROVE  \E t \in Tiers : \E i \in Live(l, t)' : Earns(l, t, i)'
<1>0. lead[l] \in LeadRow
  BY DEF TypeInv, TypeOK
<1>1. CASE FilledByResult(l)
  <2>1. PICK w \in Workers :
          /\ CommitResult(w) /\ job[w].lead = l /\ job[w].status = "found"
          /\ ledger' = Appended(w)
          /\ lead'[l] = [lead[l] EXCEPT !.email = job[w].value, !.source = "email_finder"]
    BY <1>1 DEF FilledByResult
  <2>2. job[w].tier \in Tiers
    BY <2>1 DEF CommitResult, TypeInv, HandlersOK
  <2> PICK t \in Tiers : t = job[w].tier
    BY <2>2
  <2>3. ledger'[l][t] = Append(ledger[l][t], Row(w))
    BY <2>1, <2>2 DEF Appended, TypeInv, TypeOK
  <2>4. PICK n \in Live(l, t)' : ledger'[l][t][n] = Row(w)
    BY <2>2, <2>3, LiveAppended, ZenonT(40)
  <2>5. lead'[l].email = job[w].value
    BY <1>0, <2>1 DEF LeadRow
  <2>6. Earns(l, t, n)'
    BY <2>1, <2>4, <2>5 DEF Earns, Row
  <2> QED BY <2>2, <2>4, <2>6
<1>2. ASSUME /\ lead[l].source = "email_finder"
             /\ lead'[l].email \in Uploads \cup {lead[l].email},
             \A t \in Tiers : \A i \in Live(l, t) :
               i \in Live(l, t)' /\ ledger'[l][t][i] = ledger[l][t][i]
      PROVE  \E t \in Tiers : \E i \in Live(l, t)' : Earns(l, t, i)'
  <2>1. PICK t \in Tiers : \E i \in Live(l, t) : Earns(l, t, i)
    BY <1>2 DEF FinderEmailIsEarned, Earns
  <2>2. PICK i \in Live(l, t) : Earns(l, t, i)
    BY <2>1
  <2>3. Earns(l, t, i)'
    BY <1>2, <2>2 DEF Earns
  <2> QED BY <1>2, <2>1, <2>2, <2>3
<1>3. ASSUME ~RequeueCommit, ~DeleteLead(l), NEW t \in Tiers, NEW i \in Live(l, t)
      PROVE  i \in Live(l, t)' /\ ledger'[l][t][i] = ledger[l][t][i]
  <2>1. CASE ledger'[l][t] = ledger[l][t]
    BY <1>3, <2>1 DEF Live
  <2>2. ASSUME NEW w \in Workers, ledger'[l][t] = Append(ledger[l][t], Row(w))
        PROVE  i \in Live(l, t)' /\ ledger'[l][t][i] = ledger[l][t][i]
    BY <1>3, <2>2, LiveAppended, AppendStep DEF Live
  <2> QED BY <1>3, <2>1, <2>2, LedgerStep
<1>4. CASE RequeueCommit
  <2>1. lead'[l] = Cleared(l) /\ \A t \in Tiers : ledger'[l][t] = Superseded(l, t)
    BY <1>4 DEF RequeueCommit
  <2>2. l \notin requeue.ids /\ lead'[l] = lead[l]
    BY <1>0, <2>1, NullAssumption DEF Cleared, LeadRow
  <2>3. ASSUME NEW t \in Tiers, NEW i \in Live(l, t)
        PROVE  i \in Live(l, t)' /\ ledger'[l][t][i] = ledger[l][t][i]
    BY <2>1, <2>2, <2>3 DEF Superseded, Live
  <2> QED BY <1>2, <2>2, <2>3
<1>5. CASE DeleteLead(l)
  <2>1. lead' = [lead EXCEPT ![l] = [NoLead EXCEPT !.row = "deleted"]]
    BY <1>5 DEF DeleteLead
  <2>2. lead'[l].source = NULL
    BY <2>1 DEF NoLead, TypeInv, TypeOK
  <2> QED BY <2>2, NullAssumption
<1>6. CASE lead'[l] = lead[l]
  BY <1>2, <1>3, <1>4, <1>5, <1>6
<1>7. CASE MadeByUpload(l)
  BY <1>7, NullAssumption, LabelsAssumption DEF MadeByUpload, RowSources
<1>8. CASE MergedByUpload(l)
  <2>1. upload.email \in RowEmails /\ upload.source \in RowSources
    BY DEF TypeInv, TypeOK
  <2>2. /\ lead[l].source = "email_finder"
        /\ lead'[l].email \in Uploads \cup {lead[l].email}
    BY <1>0, <1>8, <2>1, NullAssumption, LabelsAssumption
       DEF MergedByUpload, Merged, LeadRow, RowEmails, RowSources
  <2> QED BY <1>2, <1>3, <1>4, <1>5, <2>2
<1>9. CASE HoldChanged(l)
  <2>1. lead'[l].source = lead[l].source /\ lead'[l].email = lead[l].email
    BY <1>0, <1>9 DEF HoldChanged, LeadRow
  <2> QED BY <1>2, <1>3, <1>4, <1>5, <2>1
<1> QED BY <1>1, <1>4, <1>5, <1>6, <1>7, <1>8, <1>9, LeadStep

(* A finder's email is always accounted for by an attempt in force that found it. *)
THEOREM EmailsAreEarned == Spec => []FinderEmailIsEarned
<1>1. Init => FinderEmailIsEarned
  BY NullAssumption DEF Init, NoLead, FinderEmailIsEarned
<1>2. TypeInv /\ FinderEmailIsEarned /\ [Next]_vars => FinderEmailIsEarned'
  BY EarnedStep DEF FinderEmailIsEarned, Earns
<1> QED BY <1>1, <1>2, TypeCorrect, PTL DEF Spec
=============================================================================
