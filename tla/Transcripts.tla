----------------------------- MODULE Transcripts -----------------------------
(***************************************************************************)
(* The two jobs on a list that call outside services: the bulk fetch of    *)
(* episode transcripts, by a request or by the daily script, and the       *)
(* generation of opening lines.                                            *)
(* Source: app/services/messages/ (transcript_store.py, podscan.py,        *)
(* transcript_opener.py, methods.py), app/controllers/messages.py,         *)
(* scripts/fetch_transcript_tranche.py.                                    *)
(*                                                                         *)
(* A transcript is named by its episode. Sessions do not expire what they  *)
(* read, so a job works on the leads as they were when it began. Of the    *)
(* leads it writes, those that are gone are passed over: several UPDATEs   *)
(* of one column go to asyncpg in one call, whose row count nobody checks. *)
(* A single UPDATE is checked, and fails the commit (StaleDataError) when  *)
(* its lead is gone. The script writes with one UPDATE by ids.             *)
(***************************************************************************)
EXTENDS Naturals, FiniteSets

CONSTANTS
  Leads, Lists, Episodes,
  NULL,
  Appearances,   \* the rows of the lists: <<list, lead, episode or NULL>>
  Scopes,        \* the leads an export restricts a job to, or all
  Fetches,       \* bulk fetches that can be in flight together
  Writers,       \* generations that can be in flight together
  Tries,         \* calls made for one episode (8 in the code)
  MaxJobs,       \* bound: jobs begun, a generation counting for two
  MaxDeletes     \* bound: deletions of leads

ASSUME FetchesFinite == IsFiniteSet(Fetches)
ASSUME NullAssumption == NULL \notin Episodes
ASSUME AppearancesAssumption == Appearances \subseteq Lists \X Leads \X (Episodes \cup {NULL})
ASSUME ScopesAssumption == Scopes \subseteq (SUBSET Leads) \ {{}}
ASSUME JobBounds == Tries \in Nat \ {0} /\ MaxJobs \in Nat /\ MaxDeletes \in Nat

VARIABLES
  table,        \* the leads there are
  transcript,   \* episode_transcript: the episode it is the transcript of
  opener,       \* email_to_send: the method, the episode it is about, the one it quotes
  fetch,        \* the bulk fetches and runs of the script
  write,        \* the generations
  begun,        \* jobs so far
  writes        \* history: how often a lead was given the transcript of an episode

vars == <<table, transcript, opener, fetch, write, begun, writes>>

NoLine == [by |-> "nobody", about |-> NULL, quotes |-> NULL]

(* needs: the leads that wait for each planned episode; left: episodes not asked for yet;
   got: the transcripts this fetch was given.                                           *)
NoFetch == [pc |-> "idle", script |-> FALSE, needs |-> [e \in {} |-> {}], left |-> {}, episode |-> NULL,
            tries |-> 0, got |-> {}]
NoWrite == [on |-> FALSE, lines |-> [l \in {} |-> NoLine]]

Init ==
  /\ table = Leads
  /\ transcript = [l \in Leads |-> NULL]
  /\ opener = [l \in Leads |-> NoLine]
  /\ fetch = [r \in Fetches |-> NoFetch]
  /\ write = [w \in Writers |-> NoWrite]
  /\ begun = 0
  /\ writes = [l \in Leads |-> [e \in Episodes |-> 0]]

-----------------------------------------------------------------------------
(* Reading a list *)

LeadsForList(list) == {l \in table : \E e \in Episodes \cup {NULL} : <<list, l, e>> \in Appearances}

(* One row for each lead: of a guest with several rows, whichever the query returns last. *)
ProvenanceForBatch(list) ==
  {prov \in [LeadsForList(list) -> Episodes \cup {NULL}] :
     \A l \in DOMAIN prov : <<list, l, prov[l]>> \in Appearances}

-----------------------------------------------------------------------------
(* POST /messages/transcripts *)

Active(r) == fetch[r].pc \in {"next", "call", "store"}

(* What remains of a fetch: why it ended, and what it had been given. *)
Ended(f, why) ==
  [f EXCEPT !.pc = why, !.needs = [e \in f.got |-> f.needs[e]], !.left = {}, !.tries = 0,
            !.episode = IF f.episode \in f.got THEN f.episode ELSE NULL, !.script = FALSE]

(* Mutated form: cached leads are not skipped. *)
WaitingForAll(prov, only, e) == {l \in DOMAIN prov \cap only : prov[l] = e}

(* The leads an episode is fetched for: those without a transcript. *)
WaitingFor(prov, only, e) == {l \in DOMAIN prov \cap only : prov[l] = e /\ transcript[l] = NULL}

(* Leads, membership of an export, provenance; max_episodes keeps any of the episodes. *)
Plan(r, list, only) ==
  /\ ~Active(r)
  /\ begun < MaxJobs
  /\ \E prov \in ProvenanceForBatch(list) :
       LET byEpisode == {e \in Episodes : WaitingFor(prov, only, e) # {}} IN
       \E plan \in SUBSET byEpisode :
         /\ byEpisode # {} => plan # {}
         /\ fetch' = [fetch EXCEPT ![r] =
                        [NoFetch EXCEPT !.pc = "next", !.left = plan,
                                        !.needs = [e \in plan |-> WaitingFor(prov, only, e)]]]
  /\ begun' = begun + 1
  /\ UNCHANGED <<table, transcript, opener, write, writes>>

(* The script takes every row of a lead, so it waits for each of its episodes. *)
Tranche(list, only, e) ==
  {l \in table \cap only : <<list, l, e>> \in Appearances /\ transcript[l] = NULL}

(* main of the script: the list, or those of it in an export; MAX_PER_RUN keeps any. *)
PlanTranche(r, list, only) ==
  /\ ~Active(r)
  /\ begun < MaxJobs
  /\ LET byEpisode == {e \in Episodes : Tranche(list, only, e) # {}} IN
     \E plan \in SUBSET byEpisode :
       /\ plan # {}
       /\ fetch' = [fetch EXCEPT ![r] =
                      [NoFetch EXCEPT !.pc = "next", !.script = TRUE, !.left = plan,
                                      !.needs = [e \in plan |-> Tranche(list, only, e)]]]
  /\ begun' = begun + 1
  /\ UNCHANGED <<table, transcript, opener, write, writes>>

(* The next episode is asked for; without one the fetch has ended. *)
NextEpisode(r) ==
  /\ fetch[r].pc = "next"
  /\ \/ \E e \in fetch[r].left :
          fetch' = [fetch EXCEPT ![r] = [fetch[r] EXCEPT !.pc = "call", !.episode = e,
                                                         !.left = @ \ {e}, !.tries = 0]]
     \/ /\ fetch[r].left = {}
        /\ fetch' = [fetch EXCEPT ![r] = Ended(fetch[r], "done")]
  /\ UNCHANGED <<table, transcript, opener, write, begun, writes>>

Got(r) ==
  /\ fetch[r].pc = "call"
  /\ fetch' = [fetch EXCEPT ![r] = [fetch[r] EXCEPT !.pc = "store", !.tries = 0,
                                                    !.got = @ \cup {fetch[r].episode}]]
  /\ UNCHANGED <<table, transcript, opener, write, begun, writes>>

(* The episode has no transcript. *)
HasNone(r) ==
  /\ fetch[r].pc = "call"
  /\ fetch' = [fetch EXCEPT ![r] = [fetch[r] EXCEPT !.pc = "next", !.tries = 0]]
  /\ UNCHANGED <<table, transcript, opener, write, begun, writes>>

(* The key is out of capacity, or a limit that will not clear soon: the fetch halts. *)
Refused(r) ==
  /\ fetch[r].pc = "call"
  /\ fetch' = [fetch EXCEPT ![r] = Ended(fetch[r], "done")]
  /\ UNCHANGED <<table, transcript, opener, write, begun, writes>>

(* Mutated form: waits are not counted. *)
TryAgainUncounted(r) ==
  /\ fetch[r].pc = "call"
  /\ fetch' = [fetch EXCEPT ![r].tries = (@ + 1) % Tries]
  /\ UNCHANGED <<table, transcript, opener, write, begun, writes>>

(* Mutated form: one call too many. *)
TryAgainOnceMore(r) ==
  /\ fetch[r].pc = "call"
  /\ fetch' = [fetch EXCEPT ![r] =
                 IF fetch[r].tries < Tries
                 THEN [fetch[r] EXCEPT !.tries = @ + 1]
                 ELSE [fetch[r] EXCEPT !.pc = "next", !.tries = 0]]
  /\ UNCHANGED <<table, transcript, opener, write, begun, writes>>

(* An error, or a limit that clears soon: sleep and call again. The last try gives up. *)
TryAgain(r) ==
  /\ fetch[r].pc = "call"
  /\ fetch' = [fetch EXCEPT ![r] =
                 IF fetch[r].tries + 1 < Tries
                 THEN [fetch[r] EXCEPT !.tries = @ + 1]
                 ELSE [fetch[r] EXCEPT !.pc = "next", !.tries = 0]]
  /\ UNCHANGED <<table, transcript, opener, write, begun, writes>>

(* Mutated form: one commit, after the last episode. *)
StoreAtTheEnd(r) ==
  /\ fetch[r].pc = "store"
  /\ fetch' = [fetch EXCEPT ![r].pc = "next"]
  /\ LET f == fetch[r]
         all == UNION {f.needs[e] : e \in f.got} IN
     IF f.left = {}
     THEN /\ transcript' = [l \in Leads |-> IF l \notin all \cap table THEN transcript[l]
                                            ELSE CHOOSE e \in f.got : l \in f.needs[e]]
          /\ writes' = writes
     ELSE UNCHANGED <<transcript, writes>>
  /\ UNCHANGED <<table, opener, write, begun>>

(* Mutated form: the transcript is fanned out to every lead that waits. *)
StoreForAll(r) ==
  /\ fetch[r].pc = "store"
  /\ LET all == UNION {fetch[r].needs[e] : e \in DOMAIN fetch[r].needs} IN
     transcript' = [l \in Leads |-> IF l \in all \cap table THEN fetch[r].episode ELSE transcript[l]]
  /\ fetch' = [fetch EXCEPT ![r].pc = "next"]
  /\ UNCHANGED <<table, opener, write, begun, writes>>

Give(leads, e) ==
  /\ transcript' = [l \in Leads |-> IF l \in leads THEN e ELSE transcript[l]]
  /\ writes' = [l \in Leads |-> IF l \in leads THEN [writes[l] EXCEPT ![e] = @ + 1] ELSE writes[l]]

(* A commit that writes these leads fails: it has a single one of them, which is gone. *)
Stale(leads) == \E l \in Leads \ table : leads = {l}

(* The transcript goes to every lead there is that waits for it, in one commit; a request
   whose commit fails has failed, the script goes on.                                 *)
Store(r) ==
  /\ fetch[r].pc = "store"
  /\ LET leads == fetch[r].needs[fetch[r].episode] IN
     \/ /\ fetch[r].script \/ ~Stale(leads)
        /\ Give(leads \cap table, fetch[r].episode)
        /\ fetch' = [fetch EXCEPT ![r].pc = "next"]
     \/ /\ ~fetch[r].script /\ Stale(leads)
        /\ fetch' = [fetch EXCEPT ![r] = Ended(fetch[r], "failed")]
        /\ UNCHANGED <<transcript, writes>>
  /\ UNCHANGED <<table, opener, write, begun>>

(* The server stops, or the database fails. *)
FetchFails(r) ==
  /\ Active(r)
  /\ fetch' = [fetch EXCEPT ![r] = Ended(fetch[r], "failed")]
  /\ UNCHANGED <<table, transcript, opener, write, begun, writes>>

-----------------------------------------------------------------------------
(* POST /messages/generate *)

(* What transcript_opener quotes: the transcript cached on the lead, if there is one,
   else the one of the episode.                                                      *)
Quoted(l, e) == IF transcript[l] # NULL THEN transcript[l] ELSE e

TranscriptLines(prov) ==
  [l \in {k \in DOMAIN prov : prov[k] # NULL} |->
     [by |-> "transcript_opener", about |-> prov[l], quotes |-> Quoted(l, prov[l])]]

NameLines(leads) == [l \in leads |-> [by |-> "podcast_name_opener", about |-> NULL, quotes |-> NULL]]

(* The leads of the list, and for the opener their provenance. Bound: a generation counts
   for two jobs, so that one fetch can go on beside it.                                *)
Generate(w, list) ==
  /\ ~write[w].on
  /\ begun + 1 < MaxJobs
  /\ \/ \E prov \in ProvenanceForBatch(list) :
          write' = [write EXCEPT ![w] = [on |-> TRUE, lines |-> TranscriptLines(prov)]]
     \/ write' = [write EXCEPT ![w] = [on |-> TRUE, lines |-> NameLines(LeadsForList(list))]]
  /\ begun' = begun + 2
  /\ UNCHANGED <<table, transcript, opener, fetch, writes>>

(* Leads beyond a limit, for which a call fails or a field is missing, are skipped, and a
   line that is the one there was is not written. Of the others, those there are get
   their line in one commit; a single one that is gone fails it, and there is no other. *)
WriteLines(w) ==
  /\ write[w].on
  /\ \E made \in SUBSET DOMAIN write[w].lines :
       opener' = [l \in Leads |-> IF l \in made \cap table THEN write[w].lines[l] ELSE opener[l]]
  /\ write' = [write EXCEPT ![w] = NoWrite]
  /\ UNCHANGED <<table, transcript, fetch, begun, writes>>

-----------------------------------------------------------------------------
(* DELETE /leads/{id} *)
DeleteLead(l) ==
  /\ Cardinality(Leads \ table) < MaxDeletes
  /\ l \in table
  /\ table' = table \ {l}
  /\ transcript' = [transcript EXCEPT ![l] = NULL]
  /\ opener' = [opener EXCEPT ![l] = NoLine]
  /\ UNCHANGED <<fetch, write, begun, writes>>

FetchStep(r) == NextEpisode(r) \/ Got(r) \/ HasNone(r) \/ Refused(r) \/ TryAgain(r) \/ Store(r)

Next ==
  \/ \E list \in Lists : \/ \E r \in Fetches : \E only \in Scopes :
                              Plan(r, list, only) \/ PlanTranche(r, list, only)
                         \/ \E w \in Writers : Generate(w, list)
  \/ \E r \in Fetches : FetchStep(r) \/ FetchFails(r)
  \/ \E w \in Writers : WriteLines(w)
  \/ \E l \in Leads : DeleteLead(l)

Spec == Init /\ [][Next]_vars

(* The server goes on with a fetch it has begun: a call ends, by an answer or by its
   timeout, and a sleep ends. No answer is assumed to be a good one.                *)
Fairness == \A r \in Fetches : WF_vars(FetchStep(r))

FairSpec == Spec /\ Fairness

-----------------------------------------------------------------------------
(* Properties *)

(* Types; a lead that is gone keeps nothing, and a fetch asks only for what it planned. *)
TypeOK ==
  /\ table \subseteq Leads
  /\ \A l \in Leads : /\ transcript[l] \in IF l \in table THEN Episodes \cup {NULL} ELSE {NULL}
                      /\ opener[l].by \in {"nobody", "podcast_name_opener", "transcript_opener"}
                      /\ l \notin table => opener[l] = NoLine
  /\ \A r \in Fetches :
       /\ fetch[r].pc \in {"idle", "next", "call", "store", "done", "failed"}
       /\ fetch[r].got \cup fetch[r].left \subseteq DOMAIN fetch[r].needs
       /\ fetch[r].tries \in 0 .. Tries - 1
       /\ fetch[r].pc \in {"call", "store"} => fetch[r].episode \in DOMAIN fetch[r].needs \ fetch[r].left
  /\ begun \in 0 .. MaxJobs

(* The transcripts a fetch was given that some lead still waits for. *)
Unstored(r) == {e \in fetch[r].got : \E l \in fetch[r].needs[e] \cap table : transcript[l] = NULL}

(* "Commit per episode so progress survives an interruption mid-run": whatever stops a
   fetch, of the transcripts it was given at most the last is not on every lead that
   waits for it, and one that ends leaves none behind.                               *)
ProgressSurvives ==
  \A r \in Fetches :
    /\ fetch[r].pc \in {"next", "done"} => Unstored(r) = {}
    /\ Unstored(r) \subseteq {fetch[r].episode}

(* A transcript is never put on a lead that did not come from its episode, whichever
   lists and fetches share the lead.                                                *)
TranscriptIsOfAnAppearance ==
  \A l \in table : transcript[l] # NULL =>
    \E list \in Lists : <<list, l, transcript[l]>> \in Appearances

(* "Leads already carrying a transcript are skipped (idempotent re-runs)": a transcript is
   given again to a lead only by fetches that were in flight together, however many are run.
   (transcript_store.py:46, fetch_transcript_tranche.py:11-13)                             *)
WritesBounded == \A l \in Leads, e \in Episodes : writes[l][e] <= Cardinality(Fetches)

(* Every fetch ends, also when the service never gives it an answer it can use. *)
FetchesEnd == \A r \in Fetches : Active(r) ~> ~Active(r)

(* "personalized ... from the actual podcast episode the guest appeared on": an opener
   about an episode quotes that episode.                                              *)
OpenerQuotesItsEpisode == \A l \in Leads : opener[l].quotes = opener[l].about
=============================================================================
