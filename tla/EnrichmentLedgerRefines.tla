---------------------- MODULE EnrichmentLedgerRefines -----------------------
(* The ledger implements TierContract, for every value of its constants. *)
EXTENDS EnrichmentLedgerProofs

-----------------------------------------------------------------------------
(* Counters of leads and tiers *)

Counters == [Leads -> [Tiers -> Nat]]
Changed(f, l, t, n) == [f EXCEPT ![l][t] = n]

(* Two counters with the same values are equal. *)
LEMMA SameCounters ==
  ASSUME NEW f \in Counters, NEW g \in Counters,
         \A k \in Leads, u \in Tiers : g[k][u] = f[k][u]
  PROVE  g = f
<1>1. ASSUME NEW k \in Leads PROVE g[k] = f[k]
  BY DEF Counters
<1> QED BY <1>1 DEF Counters

(* A counter whose value changed at one lead and tier. *)
LEMMA OneCounter ==
  ASSUME NEW f \in Counters, NEW g \in Counters, NEW l \in Leads, NEW t \in Tiers,
         NEW n, g[l][t] = n,
         \A k \in Leads, u \in Tiers : (k = l /\ u = t) \/ g[k][u] = f[k][u]
  PROVE  g = Changed(f, l, t, n)
<1> DEFINE h == [f EXCEPT ![l] = [f[l] EXCEPT ![t] = n]]
<1>1. n \in Nat
  BY DEF Counters
<1>2. h \in Counters
  BY <1>1 DEF Counters
<1>3. ASSUME NEW k \in Leads, NEW u \in Tiers PROVE h[k][u] = g[k][u]
  BY DEF Counters
<1>4. h = g
  <2> HIDE DEF h
  <2> QED BY <1>2, <1>3, SameCounters
<1> QED BY <1>4 DEF Changed

LEMMA CountersType ==
  ASSUME TypeInv
  PROVE  Spent \in Counters /\ Settled \in Counters /\ Out \in Counters
<1>1. ASSUME NEW l \in Leads, NEW t \in Tiers
      PROVE  /\ Cardinality(Live(l, t)) \in Nat
             /\ Cardinality(LiveVerdicts(l, t)) \in Nat
             /\ Cardinality(Outstanding(l, t)) \in Nat
  BY LiveFinite, OutstandingFinite, FS_CardinalityType
<1> QED BY <1>1 DEF Spent, Settled, Out, Counters

LEMMA CountersNext ==
  ASSUME TypeInv, [Next]_vars
  PROVE  Spent' \in Counters /\ Settled' \in Counters /\ Out' \in Counters
<1>1. ledger' \in [Leads -> [Tiers -> Seq(Attempt)]]
  BY TypeNext DEF TypeInv, TypeOK
<1>2. ASSUME NEW l \in Leads, NEW t \in Tiers
      PROVE  /\ Cardinality(Live(l, t)') \in Nat
             /\ Cardinality(LiveVerdicts(l, t)') \in Nat
             /\ Cardinality(Outstanding(l, t)') \in Nat
  <2>1. Len(ledger'[l][t]) \in Nat /\ DOMAIN ledger'[l][t] = 1 .. Len(ledger'[l][t])
    BY <1>1
  <2>2. IsFiniteSet(DOMAIN ledger'[l][t])
    BY <2>1, FS_Interval
  <2>3. /\ Live(l, t)' \in SUBSET DOMAIN ledger'[l][t]
        /\ LiveVerdicts(l, t)' \in SUBSET DOMAIN ledger'[l][t]
    BY DEF Live, LiveVerdicts
  <2>4. IsFiniteSet(Live(l, t)') /\ IsFiniteSet(LiveVerdicts(l, t)')
    BY <2>2, <2>3, FS_Subset
  <2> QED BY <2>4, OutstandingFinite, FS_CardinalityType
<1> QED BY <1>2 DEF Spent, Settled, Out, Counters

-----------------------------------------------------------------------------
(* The items out *)

LEMMA OutServed ==
  ASSUME TypeInv, [Next]_vars, NEW w \in Workers, NEW l \in Leads, NEW t \in Tiers,
         job[w].pc = "idle",
         job' = [job EXCEPT ![w] = [Idle EXCEPT !.pc = "working", !.lead = l, !.tier = t]]
  PROVE  Out' = Changed(Out, l, t, Out[l][t] + 1)
<1>1. job \in [Workers -> Job] /\ job[w] = Idle
  BY DEF TypeInv, TypeOK, HandlersOK
<1>2. job'[w].lead = l /\ job'[w].tier = t /\ \A v \in Workers \ {w} : job'[v] = job[v]
  BY <1>1 DEF Idle
<1>3. job[w].lead \notin Leads
  BY <1>1, NullAssumption DEF Idle
<1>4. Outstanding(l, t)' = Outstanding(l, t) \cup {w} /\ w \notin Outstanding(l, t)
  BY <1>2, <1>3 DEF Outstanding
<1>5. Cardinality(Outstanding(l, t)') = Cardinality(Outstanding(l, t)) + 1
  BY <1>4, OutstandingFinite, FS_AddElement
<1>6. ASSUME NEW k \in Leads, NEW u \in Tiers, ~(k = l /\ u = t)
      PROVE  Outstanding(k, u)' = Outstanding(k, u)
  BY <1>2, <1>3, <1>6 DEF Outstanding
<1>7. /\ Out'[l][t] = Out[l][t] + 1
      /\ \A k \in Leads, u \in Tiers : (k = l /\ u = t) \/ Out'[k][u] = Out[k][u]
  BY <1>5, <1>6 DEF Out
<1> QED BY <1>7, CountersType, CountersNext, OneCounter

LEMMA OutIdled ==
  ASSUME TypeInv, [Next]_vars, NEW w \in Workers, NEW l \in Leads, NEW t \in Tiers,
         job[w].lead = l, job[w].tier = t, job' = [job EXCEPT ![w] = Idle]
  PROVE  /\ Out[l][t] > 0
         /\ Out' = Changed(Out, l, t, Out[l][t] - 1)
<1>1. job \in [Workers -> Job]
  BY DEF TypeInv, TypeOK
<1>2. job'[w].lead \notin Leads /\ \A v \in Workers \ {w} : job'[v] = job[v]
  BY <1>1, NullAssumption DEF Idle
<1>3. Outstanding(l, t)' = Outstanding(l, t) \ {w} /\ w \in Outstanding(l, t)
  BY <1>2 DEF Outstanding
<1>4. /\ Cardinality(Outstanding(l, t)') = Cardinality(Outstanding(l, t)) - 1
      /\ Cardinality(Outstanding(l, t)') \in Nat /\ Cardinality(Outstanding(l, t)) \in Nat
  BY <1>3, OutstandingFinite, FS_RemoveElement, FS_CardinalityType
<1>5. ASSUME NEW k \in Leads, NEW u \in Tiers, ~(k = l /\ u = t)
      PROVE  Outstanding(k, u)' = Outstanding(k, u)
  BY <1>2, <1>5 DEF Outstanding
<1>6. /\ Out'[l][t] = Out[l][t] - 1
      /\ Out[l][t] > 0
      /\ \A k \in Leads, u \in Tiers : (k = l /\ u = t) \/ Out'[k][u] = Out[k][u]
  BY <1>4, <1>5 DEF Out
<1> QED BY <1>6, CountersType, CountersNext, OneCounter

LEMMA OutKept ==
  ASSUME \A v \in Workers : job'[v].lead = job[v].lead /\ job'[v].tier = job[v].tier
  PROVE  Out' = Out
<1>1. \A k, u : Outstanding(k, u)' = Outstanding(k, u)
  BY DEF Outstanding
<1> QED BY <1>1 DEF Out

(* The attempts in force are those of the ledger. *)
LEMMA SpendKept ==
  ASSUME ledger' = ledger
  PROVE  Spent' = Spent /\ Settled' = Settled
<1>1. \A k, u : Live(k, u)' = Live(k, u) /\ LiveVerdicts(k, u)' = LiveVerdicts(k, u)
  BY DEF Live, LiveVerdicts
<1> QED BY <1>1 DEF Spent, Settled

-----------------------------------------------------------------------------
(* Each action is a step of the contract *)

LEMMA ServeHands ==
  ASSUME TypeInv, [Next]_vars, NEW w \in Workers, NEW t \in PolledTiers, Serve(w, t)
  PROVE  Contract!Next
<1>0. t \in Tiers
  BY PolledTiersAssumption DEF Tiers
<1>1. PICK l \in Leads :
        /\ Eligible(l, t)
        /\ job' = [job EXCEPT ![w] = [Idle EXCEPT !.pc = "working", !.lead = l, !.tier = t]]
  BY DEF Serve, QueuePage
<1>2. Out' = Changed(Out, l, t, Out[l][t] + 1)
  <2>1. job[w].pc = "idle"
    BY DEF Serve
  <2> QED BY <1>0, <1>1, <2>1, OutServed
<1>3. Spent' = Spent /\ Settled' = Settled
  BY SpendKept DEF Serve
<1>4. Settled[l][t] = 0 /\ Spent[l][t] < MAX_FAILED_RETRIES
  <2>1. LiveVerdicts(l, t) = {} /\ Cardinality(Live(l, t)) <= MAX_FAILED_RETRIES - 1
    BY <1>0, <1>1, OpenTier DEF Eligible
  <2>2. Cardinality(Live(l, t)) \in Nat
    BY <1>0, LiveFinite, FS_CardinalityType
  <2>3. Cardinality(LiveVerdicts(l, t)) = 0
    BY <2>1, FS_EmptySet
  <2> QED BY <1>0, <2>1, <2>2, <2>3, RetriesAssumption DEF Spent, Settled
<1>5. Contract!Hand(l, t)
  BY <1>2, <1>3, <1>4 DEF Contract!Hand, Changed
<1> QED BY <1>0, <1>5 DEF Contract!Next

(* An item that comes to nothing: the lead is gone, or the finder stopped. *)
LEMMA IdleLoses ==
  ASSUME TypeInv, [Next]_vars, NEW w \in Workers, job[w].pc # "idle",
         job' = [job EXCEPT ![w] = Idle], ledger' = ledger
  PROVE  Contract!Next
<1>1. job[w].lead \in Leads /\ job[w].tier \in Tiers
  BY DEF TypeInv, HandlersOK
<1>2. PICK l \in Leads, t \in Tiers : job[w].lead = l /\ job[w].tier = t
  BY <1>1
<1>3. Out[l][t] > 0 /\ Out' = Changed(Out, l, t, Out[l][t] - 1)
  BY <1>2, OutIdled
<1>4. Contract!Lose(l, t)
  BY <1>3, SpendKept DEF Contract!Lose, Changed
<1> QED BY <1>4 DEF Contract!Next

(* Answering an item that is out changes no count. *)
LEMMA ReadStutters ==
  ASSUME TypeInv, [Next]_vars, NEW w \in Workers, ReadLead(w)
  PROVE  Contract!Next \/ UNCHANGED <<Spent, Settled, Out>>
<1>1. CASE job' = [job EXCEPT ![w] = Idle]
  BY <1>1, IdleLoses DEF ReadLead
<1>2. CASE \E a \in Answers :
             job' = [job EXCEPT ![w] =
                       [@ EXCEPT !.pc = "posting",
                                 !.status = Recorded(a).status,
                                 !.value = Recorded(a).value,
                                 !.sawNoEmail = (lead[job[w].lead].email = NULL)]]
  <2>1. \A v \in Workers : job'[v].lead = job[v].lead /\ job'[v].tier = job[v].tier
    BY <1>2 DEF Job, TypeInv, TypeOK
  <2> QED BY <2>1, OutKept, SpendKept DEF ReadLead
<1> QED BY <1>1, <1>2 DEF ReadLead

LEMMA ResultReturns ==
  ASSUME TypeInv, [Next]_vars, NEW w \in Workers, CommitResult(w), ledger' = Appended(w)
  PROVE  Contract!Next
<1>0. /\ job[w].lead \in Leads /\ job[w].tier \in Tiers
      /\ job' = [job EXCEPT ![w] = Idle]
      /\ ledger \in [Leads -> [Tiers -> Seq(Attempt)]]
  BY DEF CommitResult, TypeInv, TypeOK, HandlersOK
<1>1. PICK l \in Leads, t \in Tiers : job[w].lead = l /\ job[w].tier = t
  BY <1>0
<1>2. Out[l][t] > 0 /\ Out' = Changed(Out, l, t, Out[l][t] - 1)
  BY <1>0, <1>1, OutIdled
<1>3. /\ ledger'[l][t] = Append(ledger[l][t], Row(w))
      /\ \A k \in Leads, u \in Tiers : (k = l /\ u = t) \/ ledger'[k][u] = ledger[k][u]
  BY <1>0, <1>1 DEF Appended
<1>4. ASSUME NEW k \in Leads, NEW u \in Tiers, ~(k = l /\ u = t)
      PROVE  Spent'[k][u] = Spent[k][u] /\ Settled'[k][u] = Settled[k][u]
  <2>1. ledger'[k][u] = ledger[k][u]
    BY <1>3, <1>4
  <2>2. Live(k, u)' = Live(k, u) /\ LiveVerdicts(k, u)' = LiveVerdicts(k, u)
    BY <2>1 DEF Live, LiveVerdicts
  <2> QED BY <2>2 DEF Spent, Settled
<1> DEFINE n == Len(ledger[l][t]) + 1
<1>5. /\ Live(l, t)' = Live(l, t) \cup {n} /\ n \notin Live(l, t)
      /\ LiveVerdicts(l, t) \subseteq LiveVerdicts(l, t)'
      /\ LiveVerdicts(l, t)' \subseteq LiveVerdicts(l, t) \cup {n}
  BY <1>3, LiveAppended
<1> HIDE DEF n
<1>6. /\ IsFiniteSet(Live(l, t)) /\ IsFiniteSet(LiveVerdicts(l, t))
      /\ LiveVerdicts(l, t) \subseteq Live(l, t)
  BY LiveFinite DEF LiveVerdicts
<1>7. Spent' = Changed(Spent, l, t, Spent[l][t] + 1)
  <2>1. Cardinality(Live(l, t)') = Cardinality(Live(l, t)) + 1
    <3>1. Cardinality(Live(l, t) \cup {n}) = Cardinality(Live(l, t)) + 1
      BY <1>5, <1>6, FS_AddElement
    <3> QED BY <1>5, <3>1, Zenon
  <2>2. Spent'[l][t] = Spent[l][t] + 1
    BY <2>1 DEF Spent
  <2> QED BY <1>4, <2>2, CountersType, CountersNext, OneCounter
<1>8. Settled' = Settled \/ Settled' = Changed(Settled, l, t, Settled[l][t] + 1)
  <2>1. \/ LiveVerdicts(l, t)' = LiveVerdicts(l, t)
        \/ /\ LiveVerdicts(l, t)' = LiveVerdicts(l, t) \cup {n}
           /\ n \notin LiveVerdicts(l, t)
    BY <1>5, <1>6
  <2>2. CASE LiveVerdicts(l, t)' = LiveVerdicts(l, t)
    <3>1. Settled'[l][t] = Settled[l][t]
      BY <2>2 DEF Settled
    <3> QED BY <1>4, <3>1, CountersType, CountersNext, SameCounters
  <2>3. CASE /\ LiveVerdicts(l, t)' = LiveVerdicts(l, t) \cup {n}
             /\ n \notin LiveVerdicts(l, t)
    <3>1. Cardinality(LiveVerdicts(l, t)') = Cardinality(LiveVerdicts(l, t)) + 1
      BY <1>6, <2>3, FS_AddElement
    <3>2. Settled'[l][t] = Settled[l][t] + 1
      BY <3>1 DEF Settled
    <3> QED BY <1>4, <3>2, CountersType, CountersNext, OneCounter
  <2> QED BY <2>1, <2>2, <2>3
<1>9. Contract!Return(l, t)
  BY <1>2, <1>7, <1>8 DEF Contract!Return, Changed
<1> QED BY <1>9 DEF Contract!Next

LEMMA RequeueWithdraws ==
  ASSUME TypeInv, [Next]_vars, RequeueCommit
  PROVE  Contract!Next \/ UNCHANGED <<Spent, Settled, Out>>
<1>0. /\ ledger \in [Leads -> [Tiers -> Seq(Attempt)]]
      /\ requeue.ids \in SUBSET Leads
  BY DEF TypeInv, TypeOK
<1>1. Out' = Out
  BY OutKept DEF RequeueCommit
<1>2. ASSUME NEW l \in Leads, NEW u \in Tiers
      PROVE  /\ ledger'[l][u] = Superseded(l, u)
             /\ ~(l \in requeue.ids /\ u = requeue.tier) => ledger'[l][u] = ledger[l][u]
  <2>1. ledger'[l][u] = Superseded(l, u)
    BY DEF RequeueCommit
  <2>2. ledger[l][u] = [i \in DOMAIN ledger[l][u] |-> ledger[l][u][i]]
    BY LedgerIndices
  <2> QED BY <2>1, <2>2 DEF Superseded
<1>3. ASSUME NEW l \in Leads, NEW u \in Tiers, ~(l \in requeue.ids /\ u = requeue.tier)
      PROVE  Spent'[l][u] = Spent[l][u] /\ Settled'[l][u] = Settled[l][u]
  <2>1. ledger'[l][u] = ledger[l][u]
    BY <1>2, <1>3
  <2>2. Live(l, u)' = Live(l, u) /\ LiveVerdicts(l, u)' = LiveVerdicts(l, u)
    BY <2>1 DEF Live, LiveVerdicts
  <2> QED BY <2>2 DEF Spent, Settled
<1>4. ASSUME NEW l \in Leads, NEW u \in Tiers
      PROVE  Spent'[l][u] <= Spent[l][u] /\ Settled'[l][u] <= Settled[l][u]
  <2>1. /\ Live(l, u)' \subseteq Live(l, u)
        /\ LiveVerdicts(l, u)' \subseteq LiveVerdicts(l, u)
    <3>1. /\ Live(l, u)' \subseteq Live(l, u)
          /\ \A i \in DOMAIN ledger[l][u] : ledger'[l][u][i].status = ledger[l][u][i].status
      BY <1>2, LiveSuperseded
    <3> QED BY <3>1 DEF LiveVerdicts, Live
  <2>2. /\ Cardinality(Live(l, u)') <= Cardinality(Live(l, u))
        /\ Cardinality(LiveVerdicts(l, u)') <= Cardinality(LiveVerdicts(l, u))
    BY <2>1, LiveFinite, FS_Subset
  <2> QED BY <2>2 DEF Spent, Settled
<1>5. CASE requeue.tier \in Tiers
  <2>1. PICK t \in Tiers : t = requeue.tier
    BY <1>5
  <2>2. Contract!Withdraw(requeue.ids, t)
    BY <1>1, <1>3, <1>4, <2>1 DEF Contract!Withdraw
  <2> QED BY <1>0, <2>2 DEF Contract!Next
<1>6. CASE requeue.tier \notin Tiers
  <2>1. \A l \in Leads, u \in Tiers :
          Spent'[l][u] = Spent[l][u] /\ Settled'[l][u] = Settled[l][u]
    BY <1>3, <1>6
  <2>2. Spent' = Spent /\ Settled' = Settled
    BY <2>1, CountersType, CountersNext, SameCounters
  <2> QED BY <1>1, <2>2
<1> QED BY <1>5, <1>6

LEMMA DeleteForgets ==
  ASSUME TypeInv, [Next]_vars, NEW l \in Leads, DeleteLead(l)
  PROVE  Contract!Next
<1>0. ledger \in [Leads -> [Tiers -> Seq(Attempt)]]
  BY DEF TypeInv, TypeOK
<1>1. Out' = Out
  BY OutKept DEF DeleteLead
<1>2. ASSUME NEW k \in Leads, NEW u \in Tiers
      PROVE  ledger'[k][u] = IF k = l THEN <<>> ELSE ledger[k][u]
  BY <1>0 DEF DeleteLead
<1>3. ASSUME NEW u \in Tiers
      PROVE  Spent'[l][u] = 0 /\ Settled'[l][u] = 0
  <2>1. DOMAIN ledger'[l][u] = {}
    BY <1>2
  <2>2. Live(l, u)' = {} /\ LiveVerdicts(l, u)' = {}
    BY <2>1 DEF Live, LiveVerdicts
  <2> QED BY <2>2, FS_EmptySet DEF Spent, Settled
<1>4. ASSUME NEW k \in Leads \ {l}
      PROVE  Spent'[k] = Spent[k] /\ Settled'[k] = Settled[k]
  <2>1. ASSUME NEW u \in Tiers
        PROVE  Live(k, u)' = Live(k, u) /\ LiveVerdicts(k, u)' = LiveVerdicts(k, u)
    <3>1. ledger'[k][u] = ledger[k][u]
      BY <1>2
    <3> QED BY <3>1 DEF Live, LiveVerdicts
  <2> QED BY <2>1 DEF Spent, Settled
<1>5. /\ Spent' = [Spent EXCEPT ![l] = [t \in Tiers |-> 0]]
      /\ Settled' = [Settled EXCEPT ![l] = [t \in Tiers |-> 0]]
  <2>1. /\ Spent'[l] = [t \in Tiers |-> 0]
        /\ Settled'[l] = [t \in Tiers |-> 0]
    BY <1>3, CountersNext DEF Counters
  <2> QED BY <1>4, <2>1, CountersType, CountersNext DEF Counters
<1>6. Contract!Forget(l)
  BY <1>1, <1>5 DEF Contract!Forget
<1> QED BY <1>6 DEF Contract!Next

LEMMA ContractInit == Init => Contract!Init
<1> SUFFICES ASSUME Init PROVE Contract!Init
  OBVIOUS
<1>1. ASSUME NEW l \in Leads, NEW t \in Tiers
      PROVE  Live(l, t) = {} /\ LiveVerdicts(l, t) = {} /\ Outstanding(l, t) = {}
  <2>1. ledger[l][t] = <<>>
    BY DEF Init
  <2>2. DOMAIN ledger[l][t] = {}
    BY <2>1
  <2>3. \A w \in Workers : job[w].lead \notin Leads
    BY NullAssumption DEF Init, Idle
  <2> QED BY <2>2, <2>3 DEF Live, LiveVerdicts, Outstanding
<1> QED BY <1>1, FS_EmptySet DEF Contract!Init, Contract!None, Spent, Settled, Out

LEMMA ContractNext ==
  ASSUME TypeInv, [Next]_vars
  PROVE  Contract!Next \/ UNCHANGED <<Spent, Settled, Out>>
<1>1. ASSUME ledger' = ledger, job' = job
      PROVE  UNCHANGED <<Spent, Settled, Out>>
  BY <1>1, OutKept, SpendKept
<1>2. CASE UNCHANGED vars
  BY <1>1, <1>2 DEF vars
<1>3. CASE \E w \in Workers, t \in PolledTiers : Serve(w, t)
  BY <1>3, ServeHands
<1>4. ASSUME NEW w \in Workers, CommitResult(w) PROVE Contract!Next
  BY <1>4, ResultReturns, IdleLoses DEF CommitResult
<1>5. CASE \E w \in Workers : ReadLead(w) \/ CommitResult(w) \/ Crash(w)
  BY <1>4, <1>5, ReadStutters, IdleLoses DEF Crash
<1>6. CASE \E ids \in SUBSET Leads \ {{}}, t \in Tiers : RequeueMark(ids, t)
  BY <1>1, <1>6 DEF RequeueMark
<1>7. CASE RequeueCommit
  BY <1>7, RequeueWithdraws
<1>8. CASE \E l \in Leads, e \in RowEmails, s \in RowSources :
             \/ \E h \in BOOLEAN : UploadNew(l, e, s, h)
             \/ UploadRead(l, e, s)
  BY <1>1, <1>8 DEF UploadNew, UploadRead
<1>9. CASE UploadCommit
  BY <1>1, <1>9 DEF UploadCommit
<1>10. CASE \E list \in Lists : ReleaseAll(list) \/ ReleaseTranche(list, 1) \/ HoldList(list)
  BY <1>1, <1>10 DEF ReleaseAll, ReleaseTranche, HoldList
<1>11. CASE \E l \in Leads : DeleteLead(l)
  BY <1>11, DeleteForgets
<1> QED BY <1>2, <1>3, <1>5, <1>6, <1>7, <1>8, <1>9, <1>10, <1>11 DEF Next

(* With any number of leads, finders and retries, rows, transactions, requeues, uploads,
   deletions and crashes amount to the contract of the tiers: an item is handed out only
   where nothing is settled and retries are left, every attempt in force was an item that
   was out, and only a requeue at that tier or a deletion takes one out of force.        *)
THEOREM Implements == Spec => KeepsContract
<1>1. Init => Contract!Init
  BY ContractInit
<1>2. TypeInv /\ [Next]_vars => [Contract!Next]_(Contract!cvars)
  BY ContractNext DEF Contract!cvars
<1> QED BY <1>1, <1>2, TypeCorrect, PTL DEF Spec, KeepsContract, Contract!Spec

(* One lead at one tier is never worth more verdicts than there are items out at once. *)
THEOREM VerdictsAreBounded == Spec => []VerdictsBounded
BY SpendIsBounded, PTL

(* Nor more attempts than the retries and the items out at once allow. *)
THEOREM AttemptsAreBounded == Spec => []SpendBounded
BY SpendIsBounded, PTL
=============================================================================
