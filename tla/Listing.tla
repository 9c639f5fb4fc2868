------------------------------- MODULE Listing -------------------------------
(***************************************************************************)
(* A user pages through the filtered table and then exports everything the *)
(* filter matches, while the table's leads are classified, uploaded and    *)
(* deleted.                                                                *)
(* Source: app/controllers/leads.py (list_leads), app/controllers/exports.py *)
(* (_selection_query), composed with app/controllers/classification.py.    *)
(*                                                                         *)
(* Each page is two statements, the count and the rows, each of what is    *)
(* committed when it runs. The user turns pages until the count is reached. *)
(***************************************************************************)
EXTENDS Classification

CONSTANTS
  Filters,    \* the filters a user tries
  Facts,      \* of each lead, what the filters can tell and classification leaves alone
  PageSize    \* page_size

ASSUME FiltersAssumption == \A f \in Filters : DOMAIN f = DOMAIN NoFilter
ASSUME PageSizeAssumption == PageSize \in Nat \ {0}

VARIABLES
  view,       \* the user's way through the table
  moved,      \* history: leads that began or ceased to match since the view began
  moves       \* history: how often one of them did

history == <<moved, moves>>
vars == <<cvars, view, history>>

Closed == [pc |-> "closed", filter |-> NoFilter, page |-> 0, total |-> 0, seen |-> {},
           selected |-> {}]

ListingInit == Init /\ view = Closed /\ moved = {} /\ moves = 0

-----------------------------------------------------------------------------
RowOf(l) ==
  [names |-> Facts[l].names, sources |-> Facts[l].sources, email |-> Facts[l].email,
   tried |-> Facts[l].tried, email_source |-> Facts[l].email_source,
   lead_tag |-> Facts[l].lead_tag, industry |-> lead[l].verdict.industry,
   score |-> lead[l].verdict.score]

Matches(l) == Present(l) /\ Listed(view.filter, RowOf(l))

Matching == {l \in Leads : Matches(l)}

(* The matching leads that come before l, newest first. *)
Newer(l) == Cardinality({k \in Matching : k > l})

(* Mutated form: pages counted from zero. *)
RowsFromZero(page) ==
  {l \in Matching : page * PageSize <= Newer(l) /\ Newer(l) < (page + 1) * PageSize}

(* ORDER BY created_at DESC, OFFSET and LIMIT. *)
Rows(page) ==
  {l \in Matching : (page - 1) * PageSize <= Newer(l) /\ Newer(l) < page * PageSize}

-----------------------------------------------------------------------------
OpenView(f) ==
  /\ view.pc = "closed"
  /\ view' = [Closed EXCEPT !.pc = "count", !.filter = f, !.page = 1]
  /\ UNCHANGED <<cvars, history>>

CountMatching ==
  /\ view.pc = "count"
  /\ view' = [view EXCEPT !.pc = "rows", !.total = Cardinality(Matching)]
  /\ UNCHANGED <<cvars, history>>

FetchRows ==
  /\ view.pc = "rows"
  /\ view' = IF view.page * PageSize < view.total
             THEN [view EXCEPT !.pc = "count", !.page = @ + 1, !.seen = @ \cup Rows(view.page)]
             ELSE [view EXCEPT !.pc = "select", !.seen = @ \cup Rows(view.page)]
  /\ UNCHANGED <<cvars, history>>

(* The export of everything that matches the filter. *)
Select ==
  /\ view.pc = "select"
  /\ view' = [view EXCEPT !.pc = "done",
                          !.selected = {l \in Leads : Present(l) /\ Selected(view.filter, RowOf(l))}]
  /\ UNCHANGED <<cvars, history>>

CloseView ==
  /\ view.pc = "done"
  /\ view' = Closed
  /\ moved' = {} /\ moves' = 0
  /\ UNCHANGED cvars

-----------------------------------------------------------------------------
Viewing == view.pc \notin {"closed", "done"}

(* The leads that a step makes match or stop matching. *)
Moving == {l \in Leads : lead[l] # lead'[l] /\ Matches(l) # Matches(l)'}

(* What classification does goes on under the view. *)
Underneath(step) ==
  /\ step
  /\ UNCHANGED view
  /\ IF Viewing
     THEN moved' = moved \cup Moving /\ moves' = moves + Cardinality(Moving)
     ELSE UNCHANGED history

(* Bound: the list's status and the table are not read at the same time. *)
OneReader == Viewing => status.pc = "idle"

Next ==
  /\ \/ Underneath(ClassificationNext)
     \/ \E f \in Filters : OpenView(f)
     \/ CountMatching
     \/ FetchRows
     \/ Select
     \/ CloseView
  /\ OneReader'

(* Some worker's loop goes on, and the handlers it calls end. No particular worker has to,
   and nobody has to crash, turn a page or press a button.                           *)
Fairness == WF_cvars(\E w \in Workers : Ask(w) \/ WorkerStep(w))

Spec == ListingInit /\ [][Next]_vars /\ Fairness

-----------------------------------------------------------------------------
(* The shape of the state: a lead that is not there has no verdict, a verdict once written
   has an industry and a score, and no page is longer than its limit. (classification.py:67-113) *)
TypeOK ==
  /\ lead \in [Leads -> Row]
  /\ \A l \in Leads : lead[l].row # "live" => lead[l].verdict = NoVerdict
  /\ requested \in [Lists -> BOOLEAN] /\ paused \in BOOLEAN
  /\ \A w \in Workers :
       /\ worker[w].pc \in {"idle", "asked", "lists", "page", "post"}
       /\ worker[w].todo \subseteq Lists
       /\ Cardinality(worker[w].page) <= Limit
       /\ DOMAIN worker[w].given \subseteq Leads \ Omitted
  /\ status.pc \in {"idle", "classified", "done"}
  /\ view.pc \in {"closed", "count", "rows", "select", "done"}
  /\ view.seen \subseteq Leads /\ view.selected \subseteq Leads /\ moved \subseteq Leads
  /\ moves \in Nat
  /\ ops \in 0..MaxOps

(* Two lists share leads and nothing claims a page, so a lead may be paid for twice. But it
   is handed out no more often than there are workers, and once more for each time that
   what was paid for it was lost, by a crash, a failed commit or a deletion: a verdict that
   was recorded is not paid for again. (classification.py:67-88, 104-113)                *)
AnswersBounded == \A l \in Leads \ Omitted : paid[l] <= wasted[l] + Cardinality(Workers)

(* The counts of a status answer come from separate statements and a verdict may land in
   between: no lead is counted both as classified and as pending. (classification.py:127-130) *)
StatusCountsOnce == status.pc = "done" => status.classified \cap status.pending = {}

(* "What you see filtered is exactly what exports", for every filter but finder_tried,
   which the export does not take: what was shown and is not exported, has ceased to match
   meanwhile; with nothing moving, the pages showed exactly what is exported. (exports.py:46-48) *)
SeenIsExported ==
  view.pc = "done" /\ view.filter.finder_tried = NULL =>
    /\ view.seen \ view.selected \subseteq moved
    /\ moved = {} => view.seen = view.selected

(* OFFSET paging over a table that changes skips leads that matched all along, and the
   count that says when to stop may be older than the page it is compared with: each time
   a lead begins or ceases to match, one of the others may be missed, but no more than one
   of them. (leads.py:144-168, exports.py:46-48)                                        *)
MissesBounded ==
  view.pc = "done" /\ view.filter.finder_tried = NULL =>
    Cardinality((view.selected \ view.seen) \ moved) <= moves

(* "Resumability is free": the lists that are requested are worked through to their last
   leads, through crashes and half-done pages and whatever leads they share, unless somebody
   stops them or pauses the workers: again and again, as uploads bring leads. Uploads are
   bounded: faster ones than the workers could keep a list from ever being through.
   (classification.py:4-6)                                                            *)
ListDrains ==
  []<>(\A b \in Lists : Pending(b) \subseteq Omitted \/ ~requested[b] \/ paused)
=============================================================================
