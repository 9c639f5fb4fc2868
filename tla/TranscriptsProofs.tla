-------------------------- MODULE TranscriptsProofs --------------------------
(***************************************************************************)
(* What is proved of Transcripts for every set of leads, lists, episodes,  *)
(* fetches and generations: types, and the three safety invariants of the  *)
(* bulk fetch.                                                             *)
(*                                                                         *)
(* A step of a fetch is reasoned about once, as a relation between the     *)
(* fetch before and after it (Follows): the invariants need what it keeps  *)
(* of its plan, what it may still give away, and what it was given since.  *)
(***************************************************************************)
EXTENDS Transcripts, FiniteSetTheorems, TLAPS

-----------------------------------------------------------------------------
(* The inductive invariants *)

Line == [by : {"nobody", "podcast_name_opener", "transcript_opener"},
         about : Episodes \cup {NULL}, quotes : Episodes \cup {NULL}]

Needs == UNION {[D -> SUBSET Leads] : D \in SUBSET Episodes}
Lines == UNION {[D -> Line] : D \in SUBSET Leads}

Fetch == [pc : {"idle", "next", "call", "store", "done", "failed"}, script : BOOLEAN,
          needs : Needs, left : SUBSET Episodes, episode : Episodes \cup {NULL},
          tries : Nat, got : SUBSET Episodes]

(* The sets the variables range over, which TypeOK leaves out. *)
Types ==
  /\ TypeOK
  /\ transcript \in [Leads -> Episodes \cup {NULL}]
  /\ opener \in [Leads -> Line]
  /\ fetch \in [Fetches -> Fetch]
  /\ write \in [Writers -> [on : BOOLEAN, lines : Lines]]
  /\ writes \in [Leads -> [Episodes -> Nat]]

(* Before a fetch stores an episode, nothing it was given is missing from a lead. *)
StoredBefore == \A r \in Fetches : fetch[r].pc \in {"idle", "call"} => Unstored(r) = {}

(* A fetch plans an episode only for leads that have a row of it. *)
PlansAppearances ==
  \A r \in Fetches : \A e \in DOMAIN fetch[r].needs : \A l \in fetch[r].needs[e] :
    \E list \in Lists : <<list, l, e>> \in Appearances

(* The episodes a fetch may still give to the leads that wait for them. *)
Ahead(f) == IF f.pc \notin {"next", "call", "store"} THEN {}
            ELSE f.left \cup (IF f.pc = "next" THEN {} ELSE {f.episode})

Hopeful(l, e) == {r \in Fetches : e \in Ahead(fetch[r]) /\ l \in fetch[r].needs[e]}

(* A lead without a transcript was never given one: a fetch that plans the lead now starts
   from none, and one that does not is not added to those that still may.                 *)
NeverGiven == \A l \in table : transcript[l] = NULL => \A e \in Episodes : writes[l][e] = 0

(* What was given and what may still be given are different fetches. *)
WritesAndHopes ==
  \A l \in Leads, e \in Episodes : writes[l][e] + Cardinality(Hopeful(l, e)) <= Cardinality(Fetches)

-----------------------------------------------------------------------------
(* Functions over some of the episodes, or of the leads *)

LEMMA NeedsIntro ==
  ASSUME NEW D \in SUBSET Episodes, NEW n \in [D -> SUBSET Leads]
  PROVE  n \in Needs
BY DEF Needs

LEMMA NeedsElim ==
  ASSUME NEW n \in Needs
  PROVE  /\ DOMAIN n \in SUBSET Episodes
         /\ \A e \in DOMAIN n : n[e] \subseteq Leads
         /\ \A D \in SUBSET DOMAIN n : [e \in D |-> n[e]] \in Needs
<1>1. PICK D \in SUBSET Episodes : n \in [D -> SUBSET Leads]
  BY DEF Needs
<1>2. DOMAIN n = D /\ \A e \in DOMAIN n : n[e] \subseteq Leads
  BY <1>1
<1>3. ASSUME NEW C \in SUBSET DOMAIN n PROVE [e \in C |-> n[e]] \in Needs
  <2>1. [e \in C |-> n[e]] \in [C -> SUBSET Leads]
    BY <1>2
  <2> QED BY <1>2, <2>1, NeedsIntro
<1> QED BY <1>2, <1>3

LEMMA LinesIntro ==
  ASSUME NEW D \in SUBSET Leads, NEW f \in [D -> Line]
  PROVE  f \in Lines
BY DEF Lines

LEMMA LinesElim ==
  ASSUME NEW f \in Lines
  PROVE  DOMAIN f \subseteq Leads /\ \A l \in DOMAIN f : f[l] \in Line
BY DEF Lines

LEMMA NoFetchIsAFetch == NoFetch \in Fetch
<1>1. [e \in {} |-> {}] \in Needs
  <2>1. [e \in {} |-> {}] \in [{} -> SUBSET Leads] /\ {} \in SUBSET Episodes
    OBVIOUS
  <2> QED BY <2>1, NeedsIntro
<1> QED BY <1>1 DEF NoFetch, Fetch

LEMMA NoLineIsALine == NoLine \in Line
BY DEF NoLine, Line

-----------------------------------------------------------------------------
(* One fetch *)

(* What TypeOK says of a fetch. *)
WellPlanned(f) ==
  /\ f.got \cup f.left \subseteq DOMAIN f.needs
  /\ f.tries \in 0 .. Tries - 1
  /\ f.pc \in {"call", "store"} => f.episode \in DOMAIN f.needs \ f.left

(* What every step of a fetch f that is under way makes of it. *)
Follows(f, g) ==
  /\ g \in Fetch
  /\ WellPlanned(g)
  /\ DOMAIN g.needs \subseteq DOMAIN f.needs
  /\ \A e \in DOMAIN g.needs : g.needs[e] = f.needs[e]
  /\ Ahead(g) \subseteq Ahead(f)
  /\ g.pc # "idle"
  /\ IF f.pc = "call" /\ g.pc = "store"
     THEN g.got = f.got \cup {f.episode} /\ g.episode = f.episode
     ELSE g.got = f.got
  /\ f.pc = "store" => g.pc \in {"next", "failed"} /\ f.episode \notin Ahead(g)
  /\ g.pc = "store" => f.pc = "call"
  /\ f.pc = "store" /\ g.pc = "failed" /\ f.episode \in f.got => g.episode = f.episode

LEMMA EndedFollows ==
  ASSUME NEW f \in Fetch, WellPlanned(f), f.pc \in {"next", "call", "store"},
         NEW why \in {"done", "failed"}, f.pc = "store" => why = "failed"
  PROVE  Follows(f, Ended(f, why)) /\ Ended(f, why).pc = why
<1> DEFINE g == Ended(f, why)
<1>1. f.needs \in Needs /\ f.got \subseteq DOMAIN f.needs
  BY DEF Fetch, WellPlanned
<1>2. [e \in f.got |-> f.needs[e]] \in Needs
  BY <1>1, NeedsElim
<1>3. (IF f.episode \in f.got THEN f.episode ELSE NULL) \in Episodes \cup {NULL}
  BY DEF Fetch
<1>4. /\ g.pc = why
      /\ g.needs = [e \in f.got |-> f.needs[e]]
      /\ g.left = {}
      /\ g.tries = 0
      /\ g.episode = IF f.episode \in f.got THEN f.episode ELSE NULL
      /\ g.got = f.got
  BY DEF Ended, Fetch
<1>5. g \in Fetch
  BY <1>2, <1>3 DEF Ended, Fetch
<1>6. WellPlanned(g)
  BY <1>4, JobBounds DEF WellPlanned
<1>7. Ahead(g) = {}
  BY <1>4 DEF Ahead
<1> QED BY <1>1, <1>4, <1>5, <1>6, <1>7 DEF Follows

LEMMA AskFollows ==
  ASSUME NEW f \in Fetch, WellPlanned(f), f.pc = "next", NEW e \in f.left
  PROVE  Follows(f, [f EXCEPT !.pc = "call", !.episode = e, !.left = @ \ {e}, !.tries = 0])
<1> DEFINE g == [f EXCEPT !.pc = "call", !.episode = e, !.left = @ \ {e}, !.tries = 0]
<1>1. /\ g.pc = "call" /\ g.needs = f.needs /\ g.left = f.left \ {e} /\ g.tries = 0
      /\ g.episode = e /\ g.got = f.got
  BY DEF Fetch
<1>2. g \in Fetch
  BY DEF Fetch
<1>3. WellPlanned(g)
  BY <1>1, JobBounds DEF WellPlanned
<1>4. Ahead(g) \subseteq Ahead(f)
  BY <1>1 DEF Ahead
<1> QED BY <1>1, <1>2, <1>3, <1>4 DEF Follows

LEMMA GotFollows ==
  ASSUME NEW f \in Fetch, WellPlanned(f), f.pc = "call"
  PROVE  Follows(f, [f EXCEPT !.pc = "store", !.tries = 0, !.got = @ \cup {f.episode}])
<1> DEFINE g == [f EXCEPT !.pc = "store", !.tries = 0, !.got = @ \cup {f.episode}]
<1>1. /\ g.pc = "store" /\ g.needs = f.needs /\ g.left = f.left /\ g.tries = 0
      /\ g.episode = f.episode /\ g.got = f.got \cup {f.episode}
  BY DEF Fetch
<1>2. f.episode \in Episodes
  <2>1. f.needs \in Needs /\ f.episode \in DOMAIN f.needs
    BY DEF Fetch, WellPlanned
  <2> QED BY <2>1, NeedsElim
<1>3. g \in Fetch
  BY <1>2 DEF Fetch
<1>4. WellPlanned(g)
  BY <1>1, JobBounds DEF WellPlanned
<1>5. Ahead(g) \subseteq Ahead(f)
  BY <1>1 DEF Ahead
<1> QED BY <1>1, <1>3, <1>4, <1>5 DEF Follows

LEMMA MovesOnFollows ==
  ASSUME NEW f \in Fetch, WellPlanned(f), f.pc \in {"call", "store"}
  PROVE  /\ f.pc = "call" => Follows(f, [f EXCEPT !.pc = "next", !.tries = 0])
         /\ Follows(f, [f EXCEPT !.pc = "next"])
         /\ f.pc = "call" /\ f.tries + 1 < Tries => Follows(f, [f EXCEPT !.tries = @ + 1])
<1>1. ASSUME f.pc = "call" PROVE Follows(f, [f EXCEPT !.pc = "next", !.tries = 0])
  <2> DEFINE g == [f EXCEPT !.pc = "next", !.tries = 0]
  <2>1. /\ g.pc = "next" /\ g.needs = f.needs /\ g.left = f.left /\ g.tries = 0
        /\ g.episode = f.episode /\ g.got = f.got /\ g \in Fetch
    BY DEF Fetch
  <2>2. WellPlanned(g) /\ Ahead(g) \subseteq Ahead(f)
    BY <1>1, <2>1, JobBounds DEF WellPlanned, Ahead
  <2> QED BY <1>1, <2>1, <2>2 DEF Follows
<1>2. Follows(f, [f EXCEPT !.pc = "next"])
  <2> DEFINE g == [f EXCEPT !.pc = "next"]
  <2>1. /\ g.pc = "next" /\ g.needs = f.needs /\ g.left = f.left /\ g.tries = f.tries
        /\ g.episode = f.episode /\ g.got = f.got /\ g \in Fetch
    BY DEF Fetch
  <2>2. WellPlanned(g) /\ Ahead(g) \subseteq Ahead(f) /\ f.episode \notin Ahead(g)
    BY <2>1, JobBounds DEF WellPlanned, Ahead
  <2> QED BY <2>1, <2>2 DEF Follows
<1>3. ASSUME f.pc = "call", f.tries + 1 < Tries PROVE Follows(f, [f EXCEPT !.tries = @ + 1])
  <2> DEFINE g == [f EXCEPT !.tries = @ + 1]
  <2>1. /\ g.pc = "call" /\ g.needs = f.needs /\ g.left = f.left /\ g.tries = f.tries + 1
        /\ g.episode = f.episode /\ g.got = f.got /\ g \in Fetch
    BY <1>3 DEF Fetch
  <2>2. WellPlanned(g) /\ Ahead(g) \subseteq Ahead(f)
    BY <1>3, <2>1, JobBounds DEF WellPlanned, Ahead, Fetch
  <2> QED BY <1>3, <2>1, <2>2 DEF Follows
<1> QED BY <1>1, <1>2, <1>3

-----------------------------------------------------------------------------
(* What the steps do to the fetches *)

(* A plan for the fetch r: to the leads of prov, or of the tranche, that have a row of the
   episode and no transcript.                                                            *)
Planned(r) ==
  \E plan \in SUBSET Episodes, needs \in Needs, script \in BOOLEAN :
    /\ DOMAIN needs = plan
    /\ \A e \in plan : \A l \in needs[e] :
         l \in table /\ transcript[l] = NULL /\ \E list \in Lists : <<list, l, e>> \in Appearances
    /\ fetch' = [fetch EXCEPT ![r] =
                   [NoFetch EXCEPT !.pc = "next", !.script = script, !.left = plan, !.needs = needs]]
    /\ UNCHANGED <<table, transcript, opener, write, writes>>

LEMMA FetchOfARequest ==
  ASSUME NEW plan, NEW needs
  PROVE  [NoFetch EXCEPT !.pc = "next", !.script = FALSE, !.left = plan, !.needs = needs]
           = [NoFetch EXCEPT !.pc = "next", !.left = plan, !.needs = needs]
<1>1. NoFetch.script = FALSE
  BY DEF NoFetch
<1>2. NoFetch \in Fetch
  BY NoFetchIsAFetch
<1> QED BY <1>1, <1>2 DEF Fetch

LEMMA PlanIsPlanned ==
  ASSUME Types, NEW r \in Fetches, NEW list \in Lists, NEW only \in Scopes,
         Plan(r, list, only) \/ PlanTranche(r, list, only)
  PROVE  Planned(r) /\ ~Active(r) /\ begun < MaxJobs /\ begun' = begun + 1
<1>t. table \subseteq Leads
  BY DEF Types, TypeOK
<1>1. CASE Plan(r, list, only)
  <2>1. PICK prov \in ProvenanceForBatch(list), plan \in SUBSET Episodes :
          fetch' = [fetch EXCEPT ![r] =
                      [NoFetch EXCEPT !.pc = "next", !.left = plan,
                                      !.needs = [e \in plan |-> WaitingFor(prov, only, e)]]]
    BY <1>1 DEF Plan
  <2> DEFINE needs == [e \in plan |-> WaitingFor(prov, only, e)]
  <2>2. /\ DOMAIN prov \subseteq table
        /\ \A l \in DOMAIN prov : <<list, l, prov[l]>> \in Appearances
    BY DEF ProvenanceForBatch, LeadsForList
  <2>3. \A e \in plan : \A l \in needs[e] :
          /\ l \in table /\ transcript[l] = NULL
          /\ \E of \in Lists : <<of, l, e>> \in Appearances
    BY <2>2 DEF WaitingFor
  <2>4. needs \in [plan -> SUBSET Leads]
    BY <2>2, <1>t DEF WaitingFor
  <2>5. needs \in Needs /\ DOMAIN needs = plan
    BY <2>4, NeedsIntro
  <2>6. fetch' = [fetch EXCEPT ![r] =
                    [NoFetch EXCEPT !.pc = "next", !.script = FALSE, !.left = plan, !.needs = needs]]
    BY <2>1, FetchOfARequest
  <2> HIDE DEF needs
  <2>7. Planned(r)
    BY <1>1, <2>3, <2>5, <2>6 DEF Planned, Plan
  <2> QED BY <1>1, <2>7 DEF Plan
<1>2. CASE PlanTranche(r, list, only)
  <2>1. PICK plan \in SUBSET Episodes :
          fetch' = [fetch EXCEPT ![r] =
                      [NoFetch EXCEPT !.pc = "next", !.script = TRUE, !.left = plan,
                                      !.needs = [e \in plan |-> Tranche(list, only, e)]]]
    BY <1>2 DEF PlanTranche
  <2> DEFINE needs == [e \in plan |-> Tranche(list, only, e)]
  <2>2. \A e \in plan : \A l \in needs[e] :
          /\ l \in table /\ transcript[l] = NULL
          /\ \E of \in Lists : <<of, l, e>> \in Appearances
    BY DEF Tranche
  <2>3. needs \in [plan -> SUBSET Leads]
    BY <1>t DEF Tranche
  <2>4. needs \in Needs /\ DOMAIN needs = plan
    BY <2>3, NeedsIntro
  <2>5. fetch' = [fetch EXCEPT ![r] =
                    [NoFetch EXCEPT !.pc = "next", !.script = TRUE, !.left = plan, !.needs = needs]]
    BY <2>1
  <2> HIDE DEF needs
  <2>6. Planned(r)
    BY <1>2, <2>2, <2>4, <2>5 DEF Planned, PlanTranche
  <2> QED BY <1>2, <2>6 DEF PlanTranche
<1> QED BY <1>1, <1>2

(* The fetch that a plan begins. *)
LEMMA PlannedBegins ==
  ASSUME NEW r, Planned(r)
  PROVE  /\ \E f \in Fetch :
              /\ fetch' = [fetch EXCEPT ![r] = f]
              /\ WellPlanned(f) /\ f.pc = "next" /\ f.got = {}
              /\ \A e \in DOMAIN f.needs : \A l \in f.needs[e] :
                   l \in table /\ transcript[l] = NULL
                   /\ \E list \in Lists : <<list, l, e>> \in Appearances
         /\ UNCHANGED <<table, transcript, opener, write, writes>>
<1>1. PICK plan \in SUBSET Episodes, needs \in Needs, script \in BOOLEAN :
    /\ DOMAIN needs = plan
    /\ \A e \in plan : \A l \in needs[e] :
         l \in table /\ transcript[l] = NULL /\ \E list \in Lists : <<list, l, e>> \in Appearances
    /\ fetch' = [fetch EXCEPT ![r] =
                   [NoFetch EXCEPT !.pc = "next", !.script = script, !.left = plan, !.needs = needs]]
  BY DEF Planned
<1>2. PICK f :
        f = [NoFetch EXCEPT !.pc = "next", !.script = script, !.left = plan, !.needs = needs]
  OBVIOUS
<1>3. DOMAIN needs = plan /\ fetch' = [fetch EXCEPT ![r] = f]
  BY <1>1, <1>2
<1>5. /\ f \in Fetch /\ WellPlanned(f)
      /\ f.pc = "next" /\ f.needs = needs /\ f.got = {}
  <2>1. /\ f.pc = "next" /\ f.needs = needs /\ f.got = {} /\ f.left = plan /\ f.tries = 0
        /\ f \in Fetch
    BY <1>2, NoFetchIsAFetch DEF NoFetch, Fetch
  <2>2. WellPlanned(f)
    BY <1>3, <2>1, JobBounds DEF WellPlanned
  <2> QED BY <2>1, <2>2
<1>4. UNCHANGED <<table, transcript, opener, write, writes>>
  BY DEF Planned
<1> QED BY <1>1, <1>3, <1>4, <1>5

(* Where a step of a fetch leads; only a store that succeeds touches the leads. *)
LEMMA FetchStepFollows ==
  ASSUME Types, NEW r \in Fetches, FetchStep(r) \/ FetchFails(r)
  PROVE  /\ \E g : fetch' = [fetch EXCEPT ![r] = g] /\ Follows(fetch[r], g)
         /\ Active(r)
         /\ UNCHANGED <<table, opener, write, begun>>
         /\ \/ /\ UNCHANGED <<transcript, writes>>
               /\ ~(fetch[r].pc = "store" /\ fetch'[r].pc = "next")
            \/ /\ fetch[r].pc = "store" /\ fetch'[r].pc = "next"
               /\ Give(fetch[r].needs[fetch[r].episode] \cap table, fetch[r].episode)
<1>f. fetch[r] \in Fetch /\ WellPlanned(fetch[r]) /\ fetch \in [Fetches -> Fetch]
  BY DEF Types, TypeOK, WellPlanned
<1> DEFINE To(g) == fetch' = [fetch EXCEPT ![r] = g] /\ Follows(fetch[r], g)
           Untouched == /\ UNCHANGED <<transcript, writes>>
                        /\ ~(fetch[r].pc = "store" /\ fetch'[r].pc = "next")
<1>1. CASE NextEpisode(r)
  <2>1. CASE fetch[r].left = {} /\ fetch' = [fetch EXCEPT ![r] = Ended(fetch[r], "done")]
    BY <1>1, <1>f, <2>1, EndedFollows DEF NextEpisode, Active
  <2>2. ASSUME NEW e \in fetch[r].left,
               fetch' = [fetch EXCEPT ![r] = [fetch[r] EXCEPT !.pc = "call", !.episode = e,
                                                              !.left = @ \ {e}, !.tries = 0]]
        PROVE  \E g : To(g)
    <3> DEFINE g == [fetch[r] EXCEPT !.pc = "call", !.episode = e, !.left = @ \ {e}, !.tries = 0]
    <3>1. Follows(fetch[r], g)
      BY <1>1, <1>f, AskFollows DEF NextEpisode
    <3> QED BY <2>2, <3>1
  <2>3. \E g : To(g)
    BY <1>1, <1>f, <2>1, <2>2, EndedFollows DEF NextEpisode
  <2> QED BY <1>1, <2>3 DEF NextEpisode, Active
<1>2. CASE Got(r)
  BY <1>2, <1>f, GotFollows DEF Got, Active
<1>3. CASE HasNone(r)
  BY <1>3, <1>f, MovesOnFollows DEF HasNone, Active
<1>4. CASE Refused(r)
  BY <1>4, <1>f, EndedFollows DEF Refused, Active
<1>5. CASE TryAgain(r)
  BY <1>5, <1>f, MovesOnFollows DEF TryAgain, Active
<1>6. CASE Store(r)
  <2>1. CASE /\ Give(fetch[r].needs[fetch[r].episode] \cap table, fetch[r].episode)
             /\ fetch' = [fetch EXCEPT ![r].pc = "next"]
    <3>1. fetch' = [fetch EXCEPT ![r] = [fetch[r] EXCEPT !.pc = "next"]]
      BY <2>1, <1>f
    <3>2. Follows(fetch[r], [fetch[r] EXCEPT !.pc = "next"])
      BY <1>6, <1>f, MovesOnFollows DEF Store
    <3>3. fetch'[r].pc = "next"
      BY <3>1, <1>f DEF Fetch
    <3> QED BY <1>6, <2>1, <3>1, <3>2, <3>3 DEF Store, Active
  <2>2. CASE /\ fetch' = [fetch EXCEPT ![r] = Ended(fetch[r], "failed")]
             /\ UNCHANGED <<transcript, writes>>
    <3>1. Follows(fetch[r], Ended(fetch[r], "failed")) /\ Ended(fetch[r], "failed").pc = "failed"
      BY <1>6, <1>f, EndedFollows DEF Store
    <3>2. fetch'[r].pc = "failed"
      BY <2>2, <3>1, <1>f
    <3> QED BY <1>6, <2>2, <3>1, <3>2 DEF Store, Active
  <2> QED BY <1>6, <2>1, <2>2 DEF Store
<1>7. CASE FetchFails(r)
  <2>1. Follows(fetch[r], Ended(fetch[r], "failed")) /\ Ended(fetch[r], "failed").pc = "failed"
    BY <1>7, <1>f, EndedFollows DEF FetchFails, Active
  <2>2. fetch' = [fetch EXCEPT ![r] = Ended(fetch[r], "failed")] /\ fetch'[r].pc = "failed"
    BY <1>7, <2>1, <1>f DEF FetchFails
  <2> QED BY <1>7, <2>1, <2>2 DEF FetchFails, Active
<1> QED BY <1>1, <1>2, <1>3, <1>4, <1>5, <1>6, <1>7 DEF FetchStep

-----------------------------------------------------------------------------
(* Types *)

(* The conjuncts of Types that are about each part of the state. *)
LeadsOK ==
  /\ table \subseteq Leads
  /\ transcript \in [Leads -> Episodes \cup {NULL}]
  /\ opener \in [Leads -> Line]
  /\ \A l \in Leads \ table : transcript[l] = NULL /\ opener[l] = NoLine
  /\ writes \in [Leads -> [Episodes -> Nat]]

FetchesOK == fetch \in [Fetches -> Fetch] /\ \A r \in Fetches : WellPlanned(fetch[r])

WritesOK == write \in [Writers -> [on : BOOLEAN, lines : Lines]]

LEMMA TypesByPart == Types <=> LeadsOK /\ FetchesOK /\ WritesOK /\ begun \in 0 .. MaxJobs
<1>1. ASSUME Types PROVE LeadsOK /\ FetchesOK /\ WritesOK /\ begun \in 0 .. MaxJobs
  BY <1>1 DEF Types, TypeOK, LeadsOK, FetchesOK, WritesOK, WellPlanned
<1>2. ASSUME LeadsOK, FetchesOK, WritesOK, begun \in 0 .. MaxJobs PROVE Types
  <2>1. \A l \in Leads : /\ transcript[l] \in IF l \in table THEN Episodes \cup {NULL} ELSE {NULL}
                         /\ opener[l].by \in {"nobody", "podcast_name_opener", "transcript_opener"}
                         /\ l \notin table => opener[l] = NoLine
    BY <1>2 DEF LeadsOK, Line
  <2>2. \A r \in Fetches : fetch[r].pc \in {"idle", "next", "call", "store", "done", "failed"}
    BY <1>2 DEF FetchesOK, Fetch
  <2> QED BY <1>2, <2>1, <2>2 DEF Types, TypeOK, LeadsOK, FetchesOK, WritesOK, WellPlanned
<1> QED BY <1>1, <1>2

LEMMA TypesInit == Init => Types
<1> SUFFICES ASSUME Init PROVE LeadsOK /\ FetchesOK /\ WritesOK /\ begun \in 0 .. MaxJobs
  BY TypesByPart
<1>1. LeadsOK
  BY NoLineIsALine DEF Init, LeadsOK
<1>2. WellPlanned(NoFetch)
  BY JobBounds DEF WellPlanned, NoFetch
<1>3. NoWrite \in [on : BOOLEAN, lines : Lines]
  <2>1. [l \in {} |-> NoLine] \in [{} -> Line]
    OBVIOUS
  <2>2. [l \in {} |-> NoLine] \in Lines
    BY <2>1, LinesIntro
  <2> QED BY <2>2 DEF NoWrite
<1> QED BY <1>1, <1>2, <1>3, NoFetchIsAFetch, JobBounds DEF Init, FetchesOK, WritesOK

(* Giving a transcript to leads that are there. *)
LEMMA GiveIsTyped ==
  ASSUME LeadsOK, NEW leads \in SUBSET table, NEW e \in Episodes, Give(leads, e),
         UNCHANGED <<table, opener>>
  PROVE  /\ LeadsOK'
         /\ \A l \in Leads : transcript'[l] = IF l \in leads THEN e ELSE transcript[l]
         /\ \A l \in Leads, d \in Episodes :
              writes'[l][d] = IF l \in leads /\ d = e THEN writes[l][d] + 1 ELSE writes[l][d]
<1>1. \A l \in Leads : transcript'[l] = IF l \in leads THEN e ELSE transcript[l]
  BY DEF Give
<1>2. \A l \in Leads, d \in Episodes :
        writes'[l][d] = IF l \in leads /\ d = e THEN writes[l][d] + 1 ELSE writes[l][d]
  BY DEF Give, LeadsOK
<1>3. writes' \in [Leads -> [Episodes -> Nat]]
  BY DEF Give, LeadsOK
<1>4. transcript' \in [Leads -> Episodes \cup {NULL}]
  BY DEF Give, LeadsOK
<1> QED BY <1>1, <1>2, <1>3, <1>4 DEF LeadsOK

(* The openers a generation may have made are lines of leads. *)
LEMMA LinesOfAGeneration ==
  ASSUME Types, NEW list \in Lists
  PROVE  /\ \A prov \in ProvenanceForBatch(list) : TranscriptLines(prov) \in Lines
         /\ NameLines(LeadsForList(list)) \in Lines
<1>t. table \subseteq Leads /\ transcript \in [Leads -> Episodes \cup {NULL}]
  BY DEF Types, TypeOK
<1>1. ASSUME NEW prov \in ProvenanceForBatch(list)
      PROVE  TranscriptLines(prov) \in Lines
  <2> DEFINE D == {k \in DOMAIN prov : prov[k] # NULL}
  <2>1. prov \in [LeadsForList(list) -> Episodes \cup {NULL}]
    BY DEF ProvenanceForBatch
  <2>2. D \in SUBSET Leads
    BY <2>1, <1>t DEF LeadsForList
  <2>3. \A l \in D : prov[l] \in Episodes \cup {NULL} /\ Quoted(l, prov[l]) \in Episodes \cup {NULL}
    BY <2>1, <2>2, <1>t DEF Quoted
  <2>4. TranscriptLines(prov) \in [D -> Line]
    BY <2>3 DEF TranscriptLines, Line
  <2> QED BY <2>2, <2>4, LinesIntro
<1>2. NameLines(LeadsForList(list)) \in Lines
  <2>1. LeadsForList(list) \in SUBSET Leads
    BY <1>t DEF LeadsForList
  <2>2. NameLines(LeadsForList(list)) \in [LeadsForList(list) -> Line]
    BY DEF NameLines, Line
  <2> QED BY <2>1, <2>2, LinesIntro
<1> QED BY <1>1, <1>2

LEMMA TypesNext == Types /\ [Next]_vars => Types'
<1> SUFFICES ASSUME Types, [Next]_vars
             PROVE  LeadsOK' /\ FetchesOK' /\ WritesOK' /\ begun' \in 0 .. MaxJobs
  BY TypesByPart DEF Types, TypeOK, LeadsOK, FetchesOK, WritesOK, WellPlanned, Line, Fetch
<1>t. LeadsOK /\ FetchesOK /\ WritesOK /\ begun \in 0 .. MaxJobs
  BY TypesByPart
<1>1. ASSUME NEW list \in Lists, NEW r \in Fetches, NEW only \in Scopes,
             Plan(r, list, only) \/ PlanTranche(r, list, only)
      PROVE  LeadsOK' /\ FetchesOK' /\ WritesOK' /\ begun' \in 0 .. MaxJobs
  <2>1. Planned(r) /\ begun < MaxJobs /\ begun' = begun + 1
    BY <1>1, PlanIsPlanned
  <2>2. PICK f \in Fetch : fetch' = [fetch EXCEPT ![r] = f] /\ WellPlanned(f)
    BY <2>1, PlannedBegins
  <2>3. FetchesOK'
    BY <2>2, <1>t DEF FetchesOK
  <2> QED BY <2>1, <2>3, <1>t, PlannedBegins, JobBounds DEF LeadsOK, WritesOK
<1>2. ASSUME NEW list \in Lists, NEW w \in Writers, Generate(w, list)
      PROVE  LeadsOK' /\ FetchesOK' /\ WritesOK' /\ begun' \in 0 .. MaxJobs
  <2>1. PICK lines \in Lines : write' = [write EXCEPT ![w] = [on |-> TRUE, lines |-> lines]]
    BY <1>2, LinesOfAGeneration DEF Generate
  <2>2. WritesOK'
    BY <2>1, <1>t DEF WritesOK
  <2> QED BY <1>2, <2>2, <1>t, JobBounds DEF Generate, LeadsOK, FetchesOK
<1>3. ASSUME NEW r \in Fetches, FetchStep(r) \/ FetchFails(r)
      PROVE  LeadsOK' /\ FetchesOK' /\ WritesOK' /\ begun' \in 0 .. MaxJobs
  <2>1. PICK g : fetch' = [fetch EXCEPT ![r] = g] /\ Follows(fetch[r], g)
    BY <1>3, FetchStepFollows
  <2>2. FetchesOK'
    BY <2>1, <1>t DEF FetchesOK, Follows
  <2>3. UNCHANGED <<table, opener, write, begun>>
    BY <1>3, FetchStepFollows
  <2>4. CASE UNCHANGED <<transcript, writes>>
    BY <2>2, <2>3, <2>4, <1>t DEF LeadsOK, WritesOK
  <2>5. CASE /\ fetch[r].pc = "store"
             /\ Give(fetch[r].needs[fetch[r].episode] \cap table, fetch[r].episode)
    <3>1. fetch[r].episode \in Episodes
      <4>1. fetch[r].needs \in Needs /\ fetch[r].episode \in DOMAIN fetch[r].needs
        BY <2>5, <1>t DEF FetchesOK, Fetch, WellPlanned
      <4> QED BY <4>1, NeedsElim
    <3>2. LeadsOK'
      BY <2>3, <2>5, <3>1, <1>t, GiveIsTyped
    <3> QED BY <2>2, <2>3, <3>2, <1>t DEF WritesOK
  <2> QED BY <1>3, <2>4, <2>5, FetchStepFollows
<1>4. ASSUME NEW w \in Writers, WriteLines(w)
      PROVE  LeadsOK' /\ FetchesOK' /\ WritesOK' /\ begun' \in 0 .. MaxJobs
  <2>1. PICK made \in SUBSET DOMAIN write[w].lines :
          opener' = [l \in Leads |-> IF l \in made \cap table THEN write[w].lines[l] ELSE opener[l]]
    BY <1>4 DEF WriteLines
  <2>2. \A l \in made : write[w].lines[l] \in Line
    <3>1. write[w].lines \in Lines
      BY <1>t DEF WritesOK
    <3> QED BY <3>1, LinesElim
  <2>3. LeadsOK'
    BY <1>4, <2>1, <2>2, <1>t DEF WriteLines, LeadsOK
  <2>4. NoWrite \in [on : BOOLEAN, lines : Lines]
    <3>1. [l \in {} |-> NoLine] \in [{} -> Line] /\ {} \in SUBSET Leads
      OBVIOUS
    <3>2. [l \in {} |-> NoLine] \in Lines
      BY <3>1, LinesIntro
    <3> QED BY <3>2 DEF NoWrite
  <2>5. WritesOK'
    BY <1>4, <2>4, <1>t DEF WriteLines, WritesOK
  <2> QED BY <1>4, <2>3, <2>5, <1>t DEF WriteLines, FetchesOK
<1>5. ASSUME NEW l \in Leads, DeleteLead(l)
      PROVE  LeadsOK' /\ FetchesOK' /\ WritesOK' /\ begun' \in 0 .. MaxJobs
  <2>1. LeadsOK'
    BY <1>5, <1>t, NoLineIsALine DEF DeleteLead, LeadsOK
  <2> QED BY <1>5, <2>1, <1>t DEF DeleteLead, FetchesOK, WritesOK
<1>6. CASE UNCHANGED vars
  BY <1>6, <1>t DEF vars, LeadsOK, FetchesOK, WritesOK
<1> QED BY <1>1, <1>2, <1>3, <1>4, <1>5, <1>6 DEF Next

(* Every reachable state is well typed: a lead that is deleted keeps neither transcript nor
   opener, and a fetch asks for, stores and was given only what it planned.               *)
THEOREM TypesHold == Spec => []TypeOK
<1>1. Types => TypeOK
  BY DEF Types
<1> QED BY <1>1, TypesInit, TypesNext, PTL DEF Spec

-----------------------------------------------------------------------------
(* Progress survives *)

(* What the invariant and StoredBefore say of one fetch. *)
KeepsUp(r) ==
  /\ Unstored(r) \subseteq {fetch[r].episode}
  /\ fetch[r].pc \in {"idle", "next", "call", "done"} => Unstored(r) = {}

ProgressInv == Types /\ ProgressSurvives /\ StoredBefore

LEMMA ProgressInvByFetch == ProgressInv <=> Types /\ \A r \in Fetches : KeepsUp(r)
BY DEF ProgressInv, ProgressSurvives, StoredBefore, KeepsUp

(* A fetch that does not move is not left with more by a step that takes no transcript
   from a lead that is there.                                                          *)
LEMMA OthersKeepUp ==
  ASSUME NEW r \in Fetches, KeepsUp(r), fetch'[r] = fetch[r], table' \subseteq table,
         \A l \in table' : transcript'[l] = NULL => transcript[l] = NULL
  PROVE  KeepsUp(r)'
<1>1. Unstored(r)' \subseteq Unstored(r)
  BY DEF Unstored
<1> QED BY <1>1 DEF KeepsUp

LEMMA ProgressInit == Init => ProgressInv
<1> SUFFICES ASSUME Init PROVE ProgressInv
  OBVIOUS
<1>1. \A r \in Fetches : fetch[r].got = {} /\ fetch[r].pc = "idle"
  BY DEF Init, NoFetch
<1>2. \A r \in Fetches : KeepsUp(r)
  BY <1>1 DEF KeepsUp, Unstored
<1> QED BY <1>2, TypesInit, ProgressInvByFetch

LEMMA ProgressFetchStep ==
  ASSUME Types, NEW r \in Fetches, \A q \in Fetches : KeepsUp(q), FetchStep(r) \/ FetchFails(r)
  PROVE  \A q \in Fetches : KeepsUp(q)'
<1>t. LeadsOK /\ FetchesOK
  BY TypesByPart
<1>1. PICK g : fetch' = [fetch EXCEPT ![r] = g] /\ Follows(fetch[r], g)
  BY FetchStepFollows
<1>2. fetch'[r] = g /\ \A q \in Fetches \ {r} : fetch'[q] = fetch[q]
  BY <1>1, <1>t DEF FetchesOK
<1>3. UNCHANGED table /\ Active(r)
  BY FetchStepFollows
<1>w. fetch[r] \in Fetch /\ WellPlanned(fetch[r]) /\ g \in Fetch /\ WellPlanned(g)
  BY <1>1, <1>t DEF FetchesOK, Follows
<1>4. CASE /\ UNCHANGED <<transcript, writes>>
           /\ ~(fetch[r].pc = "store" /\ fetch'[r].pc = "next")
  <2>1. \A q \in Fetches \ {r} : KeepsUp(q)'
    BY <1>2, <1>3, <1>4, OthersKeepUp
  <2>2. Unstored(r)' \subseteq Unstored(r) \cup (IF fetch[r].pc = "call" /\ g.pc = "store"
                                                THEN {fetch[r].episode} ELSE {})
    BY <1>1, <1>2, <1>3, <1>4, <1>w DEF Unstored, Follows, WellPlanned
  <2>3. CASE fetch[r].pc \in {"next", "call"}
    <3>1. Unstored(r) = {}
      BY <2>3 DEF KeepsUp
    <3> QED BY <1>1, <1>2, <2>1, <2>2, <3>1 DEF KeepsUp, Follows
  <2>4. CASE fetch[r].pc = "store"
    <3>1. g.pc = "failed" /\ (fetch[r].episode \in fetch[r].got => g.episode = fetch[r].episode)
      BY <1>1, <1>2, <1>4, <2>4 DEF Follows
    <3>2. Unstored(r)' \subseteq Unstored(r) /\ Unstored(r) \subseteq fetch[r].got
      BY <2>2, <2>4 DEF Unstored
    <3>3. Unstored(r) \subseteq {fetch[r].episode}
      BY DEF KeepsUp
    <3>4. Unstored(r)' \subseteq {g.episode}
      BY <3>1, <3>2, <3>3
    <3> QED BY <1>2, <2>1, <3>1, <3>4 DEF KeepsUp
  <2> QED BY <1>3, <2>3, <2>4 DEF Active
<1>5. CASE /\ fetch[r].pc = "store" /\ fetch'[r].pc = "next"
           /\ Give(fetch[r].needs[fetch[r].episode] \cap table, fetch[r].episode)
  <2> DEFINE e == fetch[r].episode
  <2>1. e \in Episodes
    <3>1. fetch[r].needs \in Needs /\ e \in DOMAIN fetch[r].needs
      BY <1>5, <1>w DEF Fetch, WellPlanned
    <3> QED BY <3>1, NeedsElim
  <2>2. \A l \in Leads : transcript'[l] = IF l \in fetch[r].needs[e] \cap table THEN e ELSE transcript[l]
    BY <1>5 DEF Give
  <2>3. \A l \in table' : transcript'[l] = NULL => transcript[l] = NULL
    BY <2>1, <2>2, <1>3, <1>t, NullAssumption DEF LeadsOK
  <2>4. \A q \in Fetches \ {r} : KeepsUp(q)'
    BY <1>2, <1>3, <2>3, OthersKeepUp
  <2>5. Unstored(r)' \subseteq Unstored(r)
    BY <1>1, <1>2, <1>3, <1>5, <1>w, <2>3 DEF Unstored, Follows, WellPlanned
  <2>6. e \notin Unstored(r)'
    <3>1. \A l \in fetch[r].needs[e] \cap table : transcript'[l] # NULL
      BY <2>1, <2>2, <1>t, NullAssumption DEF LeadsOK
    <3>2. e \in g.got => g.needs[e] = fetch[r].needs[e]
      BY <1>1, <1>w DEF Follows, WellPlanned
    <3> QED BY <1>2, <1>3, <3>1, <3>2 DEF Unstored
  <2>7. Unstored(r)' = {}
    BY <2>5, <2>6 DEF KeepsUp
  <2> QED BY <2>4, <2>7 DEF KeepsUp
<1> QED BY <1>4, <1>5, FetchStepFollows

LEMMA ProgressNext == ProgressInv /\ [Next]_vars => ProgressInv'
<1> SUFFICES ASSUME ProgressInv, [Next]_vars PROVE ProgressInv'
  OBVIOUS
<1>t. Types /\ Types' /\ LeadsOK /\ FetchesOK /\ \A r \in Fetches : KeepsUp(r)
  BY TypesNext, TypesByPart, ProgressInvByFetch
<1> SUFFICES \A r \in Fetches : KeepsUp(r)'
  BY <1>t DEF ProgressInv, ProgressSurvives, StoredBefore, KeepsUp
<1>1. ASSUME NEW list \in Lists, NEW r \in Fetches, NEW only \in Scopes,
             Plan(r, list, only) \/ PlanTranche(r, list, only)
      PROVE  \A q \in Fetches : KeepsUp(q)'
  <2>1. Planned(r)
    BY <1>1, <1>t, PlanIsPlanned
  <2>2. PICK f : fetch' = [fetch EXCEPT ![r] = f] /\ f.got = {}
    BY <2>1, PlannedBegins
  <2>3. fetch'[r].got = {} /\ \A q \in Fetches \ {r} : fetch'[q] = fetch[q]
    BY <2>2, <1>t DEF FetchesOK
  <2>4. KeepsUp(r)'
    BY <2>3 DEF KeepsUp, Unstored
  <2>5. UNCHANGED <<table, transcript>>
    BY <2>1, PlannedBegins
  <2> QED BY <2>3, <2>4, <2>5, <1>t, OthersKeepUp
<1>2. ASSUME NEW r \in Fetches, FetchStep(r) \/ FetchFails(r)
      PROVE  \A q \in Fetches : KeepsUp(q)'
  BY <1>2, <1>t, ProgressFetchStep
<1>3. ASSUME NEW l \in Leads, DeleteLead(l)
      PROVE  \A q \in Fetches : KeepsUp(q)'
  BY <1>3, <1>t, OthersKeepUp DEF DeleteLead, LeadsOK
<1>4. CASE \/ \E list \in Lists, w \in Writers : Generate(w, list)
           \/ \E w \in Writers : WriteLines(w)
           \/ UNCHANGED vars
  <2>1. UNCHANGED <<table, transcript, fetch>>
    BY <1>4 DEF Generate, WriteLines, vars
  <2> QED BY <2>1, <1>t, OthersKeepUp
<1> QED BY <1>1, <1>2, <1>3, <1>4 DEF Next

(* "Commit per episode so progress survives an interruption mid-run": wherever a fetch or
   the script is stopped, whatever other fetches and deletions go on beside it, every
   transcript it was given is on every lead that waits for it, but at most the last.      *)
THEOREM ProgressIsKept == Spec => []ProgressSurvives
<1>1. ProgressInv => ProgressSurvives
  BY DEF ProgressInv
<1> QED BY <1>1, ProgressInit, ProgressNext, PTL DEF Spec

-----------------------------------------------------------------------------
(* A transcript is of an appearance of its lead *)

AppearanceInv == Types /\ TranscriptIsOfAnAppearance /\ PlansAppearances

LEMMA AppearanceInit == Init => AppearanceInv
<1> SUFFICES ASSUME Init PROVE AppearanceInv
  OBVIOUS
<1>1. Types /\ TranscriptIsOfAnAppearance
  BY TypesInit DEF Init, TranscriptIsOfAnAppearance
<1>2. \A r \in Fetches : DOMAIN fetch[r].needs = {}
  BY DEF Init, NoFetch
<1> QED BY <1>1, <1>2 DEF AppearanceInv, PlansAppearances

LEMMA AppearanceNext == AppearanceInv /\ [Next]_vars => AppearanceInv'
<1> SUFFICES ASSUME AppearanceInv, [Next]_vars PROVE AppearanceInv'
  OBVIOUS
<1>t. Types /\ Types' /\ LeadsOK /\ FetchesOK /\ TranscriptIsOfAnAppearance /\ PlansAppearances
  BY TypesNext, TypesByPart DEF AppearanceInv
<1> SUFFICES TranscriptIsOfAnAppearance' /\ PlansAppearances'
  BY <1>t DEF AppearanceInv
<1>1. ASSUME NEW list \in Lists, NEW r \in Fetches, NEW only \in Scopes,
             Plan(r, list, only) \/ PlanTranche(r, list, only)
      PROVE  TranscriptIsOfAnAppearance' /\ PlansAppearances'
  <2>1. Planned(r)
    BY <1>1, <1>t, PlanIsPlanned
  <2>2. UNCHANGED <<table, transcript>>
    BY <2>1, PlannedBegins
  <2>3. PICK f : /\ fetch' = [fetch EXCEPT ![r] = f]
                 /\ \A e \in DOMAIN f.needs : \A l \in f.needs[e] :
                      \E of \in Lists : <<of, l, e>> \in Appearances
    BY <2>1, PlannedBegins
  <2>4. \A q \in Fetches : fetch'[q] = IF q = r THEN f ELSE fetch[q]
    BY <2>3, <1>t DEF FetchesOK
  <2>5. PlansAppearances'
    BY <2>3, <2>4, <1>t DEF PlansAppearances
  <2> QED BY <2>2, <2>5, <1>t DEF TranscriptIsOfAnAppearance
<1>2. ASSUME NEW r \in Fetches, FetchStep(r) \/ FetchFails(r)
      PROVE  TranscriptIsOfAnAppearance' /\ PlansAppearances'
  <2>1. PICK g : fetch' = [fetch EXCEPT ![r] = g] /\ Follows(fetch[r], g)
    BY <1>2, <1>t, FetchStepFollows
  <2>2. \A q \in Fetches : fetch'[q] = IF q = r THEN g ELSE fetch[q]
    BY <2>1, <1>t DEF FetchesOK
  <2>3. PlansAppearances'
    <3>1. ASSUME NEW q \in Fetches, NEW e \in DOMAIN fetch'[q].needs, NEW l \in fetch'[q].needs[e]
          PROVE  \E list \in Lists : <<list, l, e>> \in Appearances
      BY <2>1, <2>2, <3>1, <1>t DEF PlansAppearances, Follows
    <3> QED BY <3>1 DEF PlansAppearances
  <2>4. UNCHANGED table
    BY <1>2, <1>t, FetchStepFollows
  <2>5. CASE UNCHANGED <<transcript, writes>>
    BY <2>3, <2>4, <2>5, <1>t DEF TranscriptIsOfAnAppearance
  <2>6. CASE /\ fetch[r].pc = "store"
             /\ Give(fetch[r].needs[fetch[r].episode] \cap table, fetch[r].episode)
    <3> DEFINE e == fetch[r].episode
    <3>1. e \in DOMAIN fetch[r].needs
      BY <2>6, <1>t DEF FetchesOK, WellPlanned
    <3>2. \A l \in Leads : transcript'[l] = IF l \in fetch[r].needs[e] \cap table THEN e ELSE transcript[l]
      BY <2>6 DEF Give
    <3>3. \A l \in fetch[r].needs[e] : \E list \in Lists : <<list, l, e>> \in Appearances
      BY <3>1, <1>t DEF PlansAppearances
    <3>4. TranscriptIsOfAnAppearance'
      BY <3>2, <3>3, <2>4, <1>t DEF TranscriptIsOfAnAppearance, LeadsOK
    <3> QED BY <2>3, <3>4
  <2> QED BY <1>2, <1>t, <2>5, <2>6, FetchStepFollows
<1>3. ASSUME NEW l \in Leads, DeleteLead(l)
      PROVE  TranscriptIsOfAnAppearance' /\ PlansAppearances'
  BY <1>3, <1>t DEF DeleteLead, LeadsOK, TranscriptIsOfAnAppearance, PlansAppearances
<1>4. CASE \/ \E list \in Lists, w \in Writers : Generate(w, list)
           \/ \E w \in Writers : WriteLines(w)
           \/ UNCHANGED vars
  <2>1. UNCHANGED <<table, transcript, fetch>>
    BY <1>4 DEF Generate, WriteLines, vars
  <2> QED BY <2>1, <1>t DEF TranscriptIsOfAnAppearance, PlansAppearances
<1> QED BY <1>1, <1>2, <1>3, <1>4 DEF Next

(* The transcript of a lead is that of an episode some list has a row of the lead for:
   neither the fan-out over the leads of an episode, nor the several rows of a guest, nor
   two fetches over lists that share leads puts it on another (fetch_transcripts_for_list,
   the script's main).                                                                   *)
THEOREM TranscriptIsItsOwn == Spec => []TranscriptIsOfAnAppearance
<1>1. AppearanceInv => TranscriptIsOfAnAppearance
  BY DEF AppearanceInv
<1> QED BY <1>1, AppearanceInit, AppearanceNext, PTL DEF Spec

-----------------------------------------------------------------------------
(* Writes are bounded *)

BoundedInv == Types /\ NeverGiven /\ WritesAndHopes

LEMMA HopefulIsFinite ==
  \A l, e : IsFiniteSet(Hopeful(l, e)) /\ Cardinality(Hopeful(l, e)) \in Nat
            /\ Cardinality(Hopeful(l, e)) <= Cardinality(Fetches)
BY FetchesFinite, FS_Subset, FS_CardinalityType DEF Hopeful

LEMMA HopefulIsFiniteNext ==
  \A l, e : IsFiniteSet(Hopeful(l, e)') /\ Cardinality(Hopeful(l, e)') \in Nat
            /\ Cardinality(Hopeful(l, e)') <= Cardinality(Fetches)
BY FetchesFinite, FS_Subset, FS_CardinalityType DEF Hopeful

(* A step that gives nothing adds to the hopeful only fetches that begin, and those only
   for a lead that was never given the episode.                                         *)
LEMMA NothingGiven ==
  ASSUME Types, NeverGiven, WritesAndHopes, UNCHANGED writes,
         NEW l \in Leads, NEW e \in Episodes,
         Hopeful(l, e)' \subseteq Hopeful(l, e) \/ (l \in table /\ transcript[l] = NULL)
  PROVE  writes'[l][e] + Cardinality(Hopeful(l, e)') <= Cardinality(Fetches)
<1>1. writes[l][e] \in Nat /\ Cardinality(Fetches) \in Nat
  BY FetchesFinite, FS_CardinalityType DEF Types
<1>2. CASE Hopeful(l, e)' \subseteq Hopeful(l, e)
  <2>1. Cardinality(Hopeful(l, e)') <= Cardinality(Hopeful(l, e))
    BY <1>2, HopefulIsFinite, FS_Subset
  <2>2. writes[l][e] + Cardinality(Hopeful(l, e)) <= Cardinality(Fetches)
    BY DEF WritesAndHopes
  <2> QED BY <1>1, <2>1, <2>2, HopefulIsFinite, HopefulIsFiniteNext
<1>3. CASE l \in table /\ transcript[l] = NULL
  <2>1. writes'[l][e] = 0
    BY <1>3 DEF NeverGiven
  <2> QED BY <2>1, <1>1, HopefulIsFiniteNext
<1> QED BY <1>2, <1>3

LEMMA BoundedInit == Init => BoundedInv
<1> SUFFICES ASSUME Init PROVE BoundedInv
  OBVIOUS
<1>1. Types
  BY TypesInit
<1>2. \A l \in Leads, e \in Episodes : writes[l][e] = 0
  BY DEF Init
<1>3. NeverGiven
  BY <1>1, <1>2 DEF NeverGiven, Types, TypeOK
<1>4. WritesAndHopes
  <2>1. Cardinality(Fetches) \in Nat
    BY FetchesFinite, FS_CardinalityType
  <2> QED BY <1>2, <2>1, HopefulIsFinite DEF WritesAndHopes
<1> QED BY <1>1, <1>3, <1>4 DEF BoundedInv

LEMMA BoundedFetchStep ==
  ASSUME Types, NeverGiven, WritesAndHopes, NEW r \in Fetches, FetchStep(r) \/ FetchFails(r)
  PROVE  NeverGiven' /\ WritesAndHopes'
<1>t. LeadsOK /\ FetchesOK
  BY TypesByPart
<1>1. PICK g : fetch' = [fetch EXCEPT ![r] = g] /\ Follows(fetch[r], g)
  BY FetchStepFollows
<1>2. fetch'[r] = g /\ \A q \in Fetches \ {r} : fetch'[q] = fetch[q]
  BY <1>1, <1>t DEF FetchesOK
<1>3. UNCHANGED <<table, opener>>
  BY FetchStepFollows
<1>4. \A l, e : Hopeful(l, e)' \subseteq Hopeful(l, e)
  <2> SUFFICES ASSUME NEW l, NEW e, NEW q \in Hopeful(l, e)' PROVE q \in Hopeful(l, e)
    OBVIOUS
  <2>1. q \in Fetches /\ e \in Ahead(fetch'[q]) /\ l \in fetch'[q].needs[e]
    BY DEF Hopeful
  <2>2. CASE q # r
    BY <1>2, <2>1, <2>2 DEF Hopeful
  <2>3. CASE q = r
    <3>1. e \in Ahead(g) /\ e \in DOMAIN g.needs
      BY <1>1, <1>2, <2>1, <2>3 DEF Follows, WellPlanned, Ahead
    <3> QED BY <1>1, <1>2, <2>1, <2>3, <3>1 DEF Follows, Hopeful
  <2> QED BY <2>2, <2>3
<1>5. CASE UNCHANGED <<transcript, writes>>
  <2>1. NeverGiven'
    BY <1>3, <1>5 DEF NeverGiven
  <2>2. WritesAndHopes'
    BY <1>4, <1>5, NothingGiven DEF WritesAndHopes
  <2> QED BY <2>1, <2>2
<1>6. CASE /\ fetch[r].pc = "store" /\ fetch'[r].pc = "next"
           /\ Give(fetch[r].needs[fetch[r].episode] \cap table, fetch[r].episode)
  <2> DEFINE d == fetch[r].episode
             leads == fetch[r].needs[d] \cap table
  <2>1. d \in Episodes /\ d \in DOMAIN fetch[r].needs /\ d \notin fetch[r].left
    <3>1. fetch[r].needs \in Needs /\ d \in DOMAIN fetch[r].needs /\ d \notin fetch[r].left
      BY <1>6, <1>t DEF FetchesOK, Fetch, WellPlanned
    <3> QED BY <3>1, NeedsElim
  <2>2. /\ \A l \in Leads : transcript'[l] = IF l \in leads THEN d ELSE transcript[l]
        /\ \A l \in Leads, e \in Episodes :
             writes'[l][e] = IF l \in leads /\ e = d THEN writes[l][e] + 1 ELSE writes[l][e]
    <3>1. \A l \in Leads : transcript'[l] = IF l \in leads THEN d ELSE transcript[l]
      BY <1>6 DEF Give
    <3>2. \A l \in Leads : writes'[l] = IF l \in leads THEN [writes[l] EXCEPT ![d] = @ + 1]
                                                       ELSE writes[l]
      BY <1>6 DEF Give
    <3>3. \A l \in Leads : writes[l] \in [Episodes -> Nat]
      BY <1>t DEF LeadsOK
    <3> HIDE DEF leads, d
    <3> QED BY <3>1, <3>2, <3>3
  <2>3. NeverGiven'
    BY <1>3, <1>t, <2>1, <2>2, NullAssumption DEF NeverGiven, LeadsOK
  <2>4. ASSUME NEW l \in Leads, NEW e \in Episodes
        PROVE  writes'[l][e] + Cardinality(Hopeful(l, e)') <= Cardinality(Fetches)
    <3>1. writes[l][e] \in Nat /\ Cardinality(Fetches) \in Nat
      BY FetchesFinite, FS_CardinalityType, <1>t DEF LeadsOK
    <3>2. writes[l][e] + Cardinality(Hopeful(l, e)) <= Cardinality(Fetches)
      BY DEF WritesAndHopes
    <3>3. CASE ~(l \in leads /\ e = d)
      <4>1. Cardinality(Hopeful(l, e)') <= Cardinality(Hopeful(l, e))
        BY <1>4, HopefulIsFinite, FS_Subset
      <4> QED BY <2>2, <3>1, <3>2, <3>3, <4>1, HopefulIsFinite, HopefulIsFiniteNext
    <3>4. CASE l \in leads /\ e = d
      <4>1. r \in Hopeful(l, e)
        BY <1>6, <3>4 DEF Hopeful, Ahead
      <4>2. r \notin Hopeful(l, e)'
        <5>1. Ahead(g) = g.left /\ g.left \subseteq Ahead(g)
          BY <1>2, <1>6 DEF Ahead
        <5>2. d \notin g.left
          BY <1>1, <1>6, <5>1 DEF Follows
        <5> QED BY <1>2, <3>4, <5>1, <5>2 DEF Hopeful
      <4>3. Hopeful(l, e)' \subseteq Hopeful(l, e) \ {r}
        BY <1>4, <4>2
      <4>4. Cardinality(Hopeful(l, e)') <= Cardinality(Hopeful(l, e) \ {r})
        BY <4>3, HopefulIsFinite, FS_Subset, FS_RemoveElement
      <4>5. Cardinality(Hopeful(l, e) \ {r}) = Cardinality(Hopeful(l, e)) - 1
        BY <4>1, HopefulIsFinite, FS_RemoveElement
      <4>6. writes'[l][e] = writes[l][e] + 1
        BY <2>2, <3>4
      <4> QED BY <3>1, <3>2, <4>4, <4>5, <4>6, HopefulIsFinite, HopefulIsFiniteNext
    <3> QED BY <3>3, <3>4
  <2>5. WritesAndHopes'
    BY <2>4 DEF WritesAndHopes
  <2> QED BY <2>3, <2>5
<1> QED BY <1>5, <1>6, FetchStepFollows

LEMMA BoundedNext == BoundedInv /\ [Next]_vars => BoundedInv'
<1> SUFFICES ASSUME BoundedInv, [Next]_vars PROVE BoundedInv'
  OBVIOUS
<1>t. Types /\ Types' /\ LeadsOK /\ FetchesOK /\ NeverGiven /\ WritesAndHopes
  BY TypesNext, TypesByPart DEF BoundedInv
<1> SUFFICES NeverGiven' /\ WritesAndHopes'
  BY <1>t DEF BoundedInv
<1>1. ASSUME NEW list \in Lists, NEW r \in Fetches, NEW only \in Scopes,
             Plan(r, list, only) \/ PlanTranche(r, list, only)
      PROVE  NeverGiven' /\ WritesAndHopes'
  <2>1. Planned(r) /\ ~Active(r)
    BY <1>1, <1>t, PlanIsPlanned
  <2>2. UNCHANGED <<table, transcript, writes>>
    BY <2>1, PlannedBegins
  <2>3. PICK f : /\ fetch' = [fetch EXCEPT ![r] = f]
                 /\ WellPlanned(f) /\ f.pc = "next"
                 /\ \A e \in DOMAIN f.needs : \A l \in f.needs[e] : l \in table /\ transcript[l] = NULL
    BY <2>1, PlannedBegins
  <2>4. \A q \in Fetches : fetch'[q] = IF q = r THEN f ELSE fetch[q]
    BY <2>3, <1>t DEF FetchesOK
  <2>5. ASSUME NEW l \in Leads, NEW e \in Episodes
        PROVE  writes'[l][e] + Cardinality(Hopeful(l, e)') <= Cardinality(Fetches)
    <3>1. ASSUME ~(l \in table /\ transcript[l] = NULL) PROVE r \notin Hopeful(l, e)'
      BY <2>3, <2>4, <3>1 DEF Hopeful, Ahead, WellPlanned
    <3>2. Hopeful(l, e)' \subseteq Hopeful(l, e) \cup {r}
      BY <2>4 DEF Hopeful
    <3> QED BY <2>2, <3>1, <3>2, <1>t, NothingGiven
  <2>6. WritesAndHopes'
    BY <2>5 DEF WritesAndHopes
  <2> QED BY <2>2, <2>6, <1>t DEF NeverGiven
<1>2. ASSUME NEW r \in Fetches, FetchStep(r) \/ FetchFails(r)
      PROVE  NeverGiven' /\ WritesAndHopes'
  BY <1>2, <1>t, BoundedFetchStep
<1>3. CASE \/ \E l \in Leads : DeleteLead(l)
           \/ \E list \in Lists, w \in Writers : Generate(w, list)
           \/ \E w \in Writers : WriteLines(w)
           \/ UNCHANGED vars
  <2>1. UNCHANGED <<fetch, writes>>
    BY <1>3 DEF DeleteLead, Generate, WriteLines, vars
  <2>2. table' \subseteq table /\ \A l \in table' : transcript'[l] = transcript[l]
    BY <1>3, <1>t DEF DeleteLead, Generate, WriteLines, vars, LeadsOK
  <2>3. \A l, e : Hopeful(l, e)' = Hopeful(l, e)
    BY <2>1 DEF Hopeful
  <2>4. WritesAndHopes'
    BY <2>1, <2>3, <1>t, NothingGiven DEF WritesAndHopes
  <2> QED BY <2>1, <2>2, <2>4, <1>t DEF NeverGiven
<1> QED BY <1>1, <1>2, <1>3 DEF Next

(* "Leads already carrying a transcript are skipped (idempotent re-runs)": however many
   fetches and runs of the script there are, one after the other or together, a lead is
   given the transcript of an episode at most as often as fetches can be in flight at once:
   a fetch that plans the lead again finds it without any, so it was never given one.      *)
THEOREM WritesStayBounded == Spec => []WritesBounded
<1>1. BoundedInv => WritesBounded
  <2> SUFFICES ASSUME BoundedInv, NEW l \in Leads, NEW e \in Episodes
               PROVE  writes[l][e] <= Cardinality(Fetches)
    BY DEF WritesBounded
  <2>1. writes[l][e] + Cardinality(Hopeful(l, e)) <= Cardinality(Fetches)
    BY DEF BoundedInv, WritesAndHopes
  <2>2. writes[l][e] \in Nat /\ Cardinality(Fetches) \in Nat
    BY FetchesFinite, FS_CardinalityType DEF BoundedInv, Types
  <2> QED BY <2>1, <2>2, HopefulIsFinite
<1> QED BY <1>1, BoundedInit, BoundedNext, PTL DEF Spec
=============================================================================
