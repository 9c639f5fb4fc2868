# Verification of the lead management system

TLA+ models of the backend in `src/`, the TLC runs that check them on small
instances, and TLAPS proofs about the core. Line numbers refer to the files
under `src/`.

## The system

One FastAPI process over PostgreSQL, with a Redis flag. A request has a session
of its own (`app/db/session.py`): READ COMMITTED, no autoflush, no expiry on
commit, one commit at the end of the handler (or where the handler commits) and
a rollback on any exception. Outside the process are the email finder and the
ICP classifier, workers that poll and post, and the people who upload, hold,
release, requeue, export and delete.

| Component | State it keeps | Operations | Talks to |
|---|---|---|---|
| Enrichment ledger and queue (`controllers/enrichment.py`, `models/enrichment_attempt.py`) | `enrichment_attempts`, the email of a lead | `GET /queue`, `POST /results`, `POST /requeue` | the finder; uploads, holds, deletions write the same lead rows |
| Holds and source counts (`controllers/sources.py`) | `enrichment_hold` | release (all, a tranche), hold, detail | the queue's predicate; `notify_work` |
| Held poll, signals, gates (`controllers/enrichment.py`, `services/enrichment_signals.py`, `services/worker_pause.py`, `controllers/system.py`) | `enrichment_worker_state`, a Redis key, two `asyncio.Event`s | `GET /queue/wait`, heartbeat, pause, resume, global pause and resume | every handler that makes work signals |
| Upload and ingestion (`controllers/batches.py`, `services/ingestion.py`) | `batches`, `raw_rows`, `lead_sources` | `POST /batches/upload` | dedup; contact record; signals |
| Dedup and identity (`services/dedup.py`, `services/identity.py`) | identity columns of `master_leads` | match by nine tiers, insert or fill if null | ingestion |
| Exports and contact record (`controllers/exports.py`, `services/contact_record.py`) | `exports`, `export_leads` | preview, create, delete, backfill at upload | leads' emails |
| Leads (`controllers/leads.py`, `services/lead_filters.py`) | `master_leads` | list by filter and page, statistics, delete | every table that refers to a lead; the export by the same filter |
| Classification (`controllers/classification.py`) | `classify_requested`, classification columns | request, stop, requested, pending, results, status | the classifier; the global pause |
| Messages and transcripts (`controllers/messages.py`, `services/messages/`, `scripts/fetch_transcript_tranche.py`) | `email_to_send`, `episode_transcript` | generate, fetch, the daily script | Podscan, an LLM |
| Mapping (`services/mapping/`, `scripts/seed_mapping_functions.py`) | `mapping_functions` | seed, read a header, apply to a row, choose an email, junk screen | ingestion, results |

What makes it hard: handlers await between reading a row and writing it, so any
two of them interleave on one lead; the queue hands out work without a lease;
a requeue is two UPDATEs; the signals carry no information and are consumed by
whichever poll runs first; the first worker reports race to insert a row that
is meant to be single; an upload is one long transaction beside others; a list
that was already sent is recorded in a second one; jobs on a list work for minutes on
leads as they were when the job began; a table is read page by page, and a status count
by count, while classification writes it; what a user sees and what is exported are two
queries; scripts run beside the server; workers and server crash after money was
spent. `PROJECT.json` lists these hazards at their lines, with
the properties that would catch each.

What makes each part correct:

- *ledger*: append-only; a closed tier reopens by a requeue only; a finder's
  email is accounted for; spending per lead and tier is bounded; nothing
  outlives its lead; the queue drains;
- *held poll*: no lost wake-up, a resume wakes at once, a missed signal costs
  latency and never work, a paused gate stays shut;
- *ingestion*: rows stay recognised and an email identifies, as far as the
  finder's emails allow; provenance is complete, counts add up through failures
  and deletions, uploads end;
- *contacts*: no file without its durable record, the record is history, a lead
  is not contacted twice by accident;
- *transcripts*: what was paid for is kept, each transcript is on the leads it
  belongs to, a fetch ends, an opener quotes the episode it is about;
- *classification*: a requested list is worked to its end, a lead is paid for again
  only while pages overlap or where what was paid was lost, no status counts it twice;
- *listing*: what was seen is what is exported, but for leads that moved meanwhile,
  and a paged view misses no more leads than moved, each counted as often as it moved;
- *mapping*: a seeded header is recognised, an approved mapping never changes, and
  the email of a podcast is the one that matches its brand best.

## Modules

| Module | Models | Composition |
|---|---|---|
| `EnrichmentLedger` | the ledger, the derived queue, results, requeue, and the uploads, holds and deletions that write the same rows | |
| `TierContract` | what the ledger promises whoever pays: counters of each lead and tier, and a budget that only a withdrawal restores | implemented by `EnrichmentLedger` |
| `EnrichmentLedgerProofs` | theorems about the ledger | extends `EnrichmentLedger` |
| `EnrichmentLedgerRefines` | the proof that it implements the contract | extends `EnrichmentLedgerProofs` |
| `WorkerGate` | the held poll, both gates, signals, faults | its `work` is the set of tiers at which `EnrichmentLedger`'s `Eligible` holds of some lead |
| `WorkerGateProofs` | theorems about them | extends `WorkerGate` |
| `PartialFunctions` | a function with a value put in, or laid over another: rows, and the table of mappings | |
| `Dedup` | matching, key, fill-if-null, as pure operators | extends `PartialFunctions` |
| `Ingestion` | the upload transaction over rows, deletions, and the finder's results and requeues as far as they write a lead's email | extends `Dedup`; what results and requeues do to the ledger is `EnrichmentLedger` |
| `IngestionProofs` | theorems about it, and about what `Dedup` finds | extends `Ingestion` |
| `Contacts` | exports, the contact event of an upload, deletions | its `Ingest` is a whole committed upload of `Ingestion` |
| `ContactsProofs` | theorems about them | extends `Contacts` |
| `Transcripts` | the bulk fetch of transcripts, by request or by the daily script, the generation of openers, deletions | its lists are the `links` of `Ingestion`, fixed |
| `TranscriptsProofs` | theorems about the fetch | extends `Transcripts` |
| `LeadFilters` | the filter of the table and the filter of the export, as pure operators | |
| `Classification` | requests, stops, the worker's pages, results, status, with the uploads, deletions and pauses around them | extends `LeadFilters` for its `NULL` and threshold |
| `Listing` | a user's way through the filtered table to its export | extends `Classification` and composes with it: each of its steps goes on under the view |
| `ListingProofs` | theorems about the composition | extends `Listing` |
| `BrandMatch` | the podcast qualifier and the junk screen, letter by letter, as pure operators | |
| `Mapping` | the seed script, the reading of a header, the executor field by field | extends `BrandMatch`: its executor calls the qualifier; and `PartialFunctions` |
| `MappingProofs` | theorems about it, and about the table of the qualifier | extends `Mapping` |
| `MC*` | model values and symmetry for TLC | |

**Grain.** An action ends where the handler awaits something whose answer it
uses later, or commits. Statements of one transaction that nobody else can see
before its commit, and whose locks make other writers wait, are one action with
the commit. So `POST /results` is `ReadLead` (the row is read, or 404) and
`CommitResult` (attempt and email, flushed and committed together, or nothing if
the lead is gone); `POST /requeue` is `RequeueMark` (the first UPDATE fixes the
attempts that are superseded) and `RequeueCommit`; an upload in `Ingestion` is
one action per row, two if the row merges, as its flush may wait for a lock.
In `WorkerGate` the process is one event loop, so what lies between two awaits
is atomic; `pause` signals *before* its commit, `resume` after.

**Correspondence.** `lead`, `ledger`, `requeue`, `upload` are the rows and the
transactions; `job` is what a finder holds and what a results handler read.
`rows`, `flag`, `event` are the state table, the Redis key and the two events;
`poll` and `call` are the program counters of held polls and handlers.
`table`, `links` are `master_leads` and `lead_sources`, `batch` the uncommitted work of
each upload, with `held`, the leads its session has loaded: its identity map keeps the
attributes they had then, so a match may go by what is no longer in the table. `finding`
are the results that have read a lead without an email, `earned` remembers the emails that
results wrote. An UPDATE of one row that is gone fails the commit (`StaleDataError`);
several that write the same columns go to asyncpg as one call whose row count is not
checked, and pass over it. `Store`, `WriteLines` and `CommitResults` follow this.
`events`, `csv` are the contact record and the files sent. `transcript` and `opener` are
two columns of a lead; a transcript is named by its episode, and a line by the episode it
is about and the one it quotes. `fetch` is the local state of `fetch_and_store`; its
actions are the answers `fetch_transcript` can give. A run of the daily script is a
`fetch` with its `script` field set; its leads are rows, so a guest of two episodes is in
the plan of both. What a job read when it began stays as it was (no expiry on commit).
In `Classification` a `worker` is one page outstanding, whoever runs it: `asked` is
between the pause and the query of `/requested`, `lists` what it was handed, `page` what
`/pending` answered, `given` the leads that `/results` found, each with the verdict posted
and the one that was there: the ORM writes only the columns that this changes, so posts
that cross can leave the industry of one beside the score of another. `paid` and `wasted`
count what was handed out for each lead and what was lost of it. `status` is one `GET
/status` between its counts. `view` is one user: `count` and `rows` are the two statements
of a page, `select` the query of the export. `moved` remembers the leads whose match
changed since the view began, `moves` how often any did. `registry` is `mapping_functions`
by fingerprint, a bag of names; `script` what each run of the seed script has added to its
session, which its own looks do not find (no autoflush); `upload` the row, field by field,
and the qualifier's loop over its emails.
A field that is NULL is outside the domain of a row in `Dedup` and `Ingestion`,
and `NULL` in `EnrichmentLedger`. Emails, labels, names are model values;
normalization is a function `Canon` on them. Every abstraction that matters is
said where the definition is.

## Runs

| Run | Question | Bounds |
|---|---|---|
| `ledger_safety` | do results, requeues, uploads, holds, crashes and a deletion keep the ledger right? | one lead, two finders, both tiers, cap 2, two human operations, four attempts or items: every pair of handlers in flight, and both tiers in use |
| `ledger_liveness` | does the low queue drain? | two leads behind a page of one, one finder, one human operation |
| `ledger_disagrees`, `ledger_overwrites` | two statements of the code about itself | as `ledger_safety` |
| `gate_polls` | is a wake-up lost, and is work behind an open gate handed out all the same? | a finder at each tier, two other requests in flight, three in all, two state rows, failures of handlers and of Redis, a restart |
| `gate_reopens` | does only a resume open the gate? | one poller, two requests, no faults |
| `ingest_uploads` | is dedup right for one upload at a time, and do concurrent uploads end and add up? | three uploads, two in flight, of four files whose rows meet at the email, profile and name tiers in opposite orders, one name in other letters, which makes no key; a deletion, a result that finds an email of the files, and a requeue, at any time |
| `contacts` | are files and record consistent? | two leads, two requests in flight, three events, an upload, a deletion |
| `transcripts_fetch` | does a fetch keep what it paid for, put it on the right leads, and end? | two leads, two lists, two episodes; a lead with a row for each episode; all leads or an export of one; two fetches by request or script and a generation in flight, jobs worth three, a generation counting two; two tries for eight; a deletion |
| `transcripts_quote` | does an opener quote its episode? | the same |
| `catalog` | is a list classified to its end, are counts and pages right under it? | three leads, one not there at the start, on two lists that share one; two workers with pages of two, one lead without a verdict; a view with pages of one under two filters; one request, upload, deletion, pause or crash |
| `mapping` | do seeded headers stay readable and unchanged, and does the best email win? | two runs of the script, from old and from new code, the old with a header that is in a CSV as well as in the code; files of every separator, hint and kind of cell; podcasts with up to two of nine emails over four letters, least length 2 |

A cap of 2 instead of 3 failures loses nothing: what matters is a failure below
the cap, one at it, and one beyond it from a second finder. Two finders are the
least that pay twice. Two rows of worker state are what two first reports make.
Two pollers are the least of which one can consume the other's wake-up, and a third
request lets a pause, a resume and an upload follow on one another.
Three leads on pages of one are the least where a lead that leaves an earlier page hides
one that never moved; one operation is enough, as the workers move leads themselves.
An operation can take a lead from a page, bring one, or stop a worker between read and
commit. The lists share a lead that both hand out, and the list of two leads is a part of
the other, so that one worker can finish what another began.
Of the two filters, one selects by tag, source and whose the email is, the other by search
and by the accepted segment. While the view is open only the accepted segment can change
of a lead, and leads come and go; the other parameters are constant for a lead, so no
interleaving tells them apart. `SeenIsExported` excludes filters with `finder_tried`, and
no filter of the run has it. That both copies agree on every other parameter, for every
filter, is the theorem `ShownIsExported`.
Least length 2 for 4 and four letters for an alphabet lose nothing: the table of
suffixes, the ties and the match one letter too short depend on equality only.
Deadlock is checked in the `gate` runs, in `catalog` and in `mapping`. It is not in the
others: the bounds on operations and items stop those systems.
`OneReader` keeps a status request and a view from being open together: neither writes
anything, so together they show nothing that each alone does not.

**Fairness.** `LowQueueDrains` assumes that the server finishes the handlers it
began, that a finder answers what it took, and that it keeps polling the low
tier, the default of `GET /queue/wait`. High-tier runs are a human decision, so
none is assumed, and nothing is assumed of uploads, requeues or crashes.
`WorkIsServed` assumes that finders poll again, that the event loop runs what is
ready and that deadlines pass (`asyncio.wait_for`); the handlers that signal are
not assumed to get there. `UploadsEnd` assumes that the server goes on with some
upload it has, whichever it prefers, and that the database aborts one of two that wait for
each other: one condition of weak fairness for all uploads together.
`FetchesEnd` assumes that the server goes on with a fetch: every call ends by an
answer or its timeout of 60 seconds, every sleep ends. The answers are never
assumed to be good ones. `ListDrains` assumes of the workers' loops that some worker goes on,
as it has nothing else to do, and of the server that it finishes the handlers it calls; nobody
has to press a button, and a single worker is enough. It says that again and again every
list is through, stopped or paused. It also needs `OmittedAssumption`: `/pending` hands out
the oldest leads without a verdict, so as many that never get one as fill a page hide all
others for ever. That a worker can omit a lead is in the contract of `/results`; that
it omits fewer than a page is not, and is a hazard of the design.

**What the violations show**: the four findings in `PROJECT.json`.

1. A requeue clears the finder's email whichever tier earned it, but withdraws
   the attempts of one tier: the lead is left with a `found` and no email, and
   is not served at that tier again (`enrichment.py:245`).
2. A result overwrites an email that an upload committed after the result's
   handler had read the lead (`enrichment.py:350`).
3. Two first reports insert two rows of worker state, and a pause may be passed
   over (`enrichment.py:196`).
4. An opener uses the transcript cached on the lead, although a guest of two
   episodes has one cache and two rows: the line about one episode quotes the
   other (`transcript_opener.py:91`).

Gaps seen while modelling that have no run of their own:

- `sources.py:208`: a lead both tried and held is subtracted twice from
  `enrichment_pending`.
- `batches.py:107`: the contact event of a list already sent is a second transaction, as
  the comment there says, and is lost when the server stops between the two.
- `transcript_store.py:44`: `max_episodes` "bounds the number of API calls", but each
  episode may be called eight times. The daily script also pays for every episode of a
  guest who needs one transcript, as it plans by rows (`fetch_transcript_tranche.py:72`).
- `enrichment.py:129`, `classification.py:69`: `GET /queue` consults neither pause gate,
  and `GET /classification/pending` not the global one: a worker that does not wait on
  `/queue/wait` or `/requested` goes on through a pause. `TakePage` models this.
- `enrichment.py:198`: a pause that finds the row it read paused does not write `paused`, so a
  resume that commits in between wins over the later pause.
- `schemas/export.py:16`: the export "matching the current filter" has no
  `finder_tried`, which the table has. `SeenIsExported` therefore leaves it out.
- `enrichment.py:350`: a result writes the email it found without looking whether another
  lead has it, so that two leads can hold one email although uploads never overlap.
- `enrichment.py:245`: a requeue clears an email of the finder on which an uploaded row may
  have matched since; uploading that row again makes a new lead of it.
- `dedup.py:189`: a merge fills the email of a lead as it was read, and can put an uploaded
  address in the place of one that a result wrote meanwhile, under the finder's label.
- `seed_mapping_functions.py:248`: all that a run registers is lost when one header is
  registered twice, by another run meanwhile or by the run itself, which does not find what
  it has added but not flushed.
- `classification.py:106`: of three pages that overlap, the posts can leave a lead with the
  industry of one answer and the score of another.
- `qualifiers.py:72`: the path that identifies a show begins with the host, so a bare
  URL of a hosting platform names the platform as the brand.
- `ops.py:61`, `ops.py:118`: `to_int` of `inf` and a URL with an unclosed bracket raise
  errors the operations do not catch, and the whole upload fails, although `ops.py:6`
  says that an operation gives null for what it cannot read. `Mapping` has both.
- `scripts/backfill_identity_key.py:46` recomputes keys that exist, although line 6
  speaks of leads that have none.
- `batches.py:65`: the hint `sep=` followed by a tab is trimmed away with the line's
  blanks, and a tab is never guessed.

`EmailIdentifies` and `RowsStayRecognised` say `OneByOne => ...`: `alone` records
whether another upload was in flight. With two in flight neither would hold: uncommitted
leads are invisible to the other upload and no constraint makes emails unique. Both also
except what the finder wrote, by the history `earned`: two leads may hold an email that a
result wrote into one of them, and a row with an email need not be recognised when a result
has ever written the email of its lead, since a requeue may have cleared it. A row without an email
is recognised whatever the finder does, and an email that only uploads wrote is on one lead.

Every property has a mutated form of a definition that breaks it, kept next to
that definition ("Mutated form: ..."): a dropped guard, a missing reset, a
commit in the wrong place. The runs fail on each.

## Proofs

`EnrichmentLedgerProofs` proves for all leads, finders, addresses, page sizes,
retry caps and bounds, what `ledger_safety` checks on one lead:

- `TypesHold`: `Spec => []TypeOK`, from `TypeInv == TypeOK /\ HandlersOK`. What
  is in flight must be typed more sharply than its record set says: an item that
  is not idle names a lead and a tier, and one being posted has an outcome.
- `AppendOnly`, `Reopened`: action properties. `LedgerStep` says what any step
  can do to one lead's attempts at one tier: nothing, append one row, supersede
  a marked prefix, or empty it with the deletion of the lead. Each property is
  then a case split on that lemma.
- `SpendIsBounded`: attempts in force plus items outstanding stay within
  `MAX_FAILED_RETRIES - 1` plus the number of items finders can hold, and
  verdicts within the latter. Serving needs an open tier and an idle item, an
  answer turns an item into an attempt, and nothing else adds; `SpendStep` and
  `CountStep` carry the cardinalities.
- `PrefixWithdrawn`: withdrawn attempts are a prefix. The strengthening says
  that what an open requeue has marked is not beyond what exists.
- `NoOrphans`, `EmailsAreEarned`: about a lead and its ledger together, by
  `LeadStep`, the counterpart of `LedgerStep` for lead rows. For an earned email
  the requeue's mark matters: an attempt beyond it survives, and then the email
  is cleared all the same.

They use the assumptions of `EnrichmentLedger` (finiteness of leads and items, a
positive cap, disjoint sets of addresses) which TLC evaluates in its runs.

`EnrichmentLedgerRefines` proves `Implements`: `Spec => KeepsContract`, the contract under
the mapping of `spent` to the number of attempts in force, `settled` to the verdicts
among them, and `out` to the items outstanding. Every step of the ledger is a step of the
contract or a stutter: serving is `Hand`, a committed result is `Return`, a lost item or
one for a deleted lead is `Lose`, the commit of a requeue is `Withdraw`, a deletion is
`Forget`. The counters are cardinalities, so each case is a lemma on adding one element
to a finite set or taking some away. `AttemptsAreBounded` and `VerdictsAreBounded` then
follow from the counters: an item is handed out only within the budget, and what is out
is bounded by the number of items.

`ListingProofs` proves, for all leads, lists, workers, filters and page sizes:

- `TypesHold`, from `TypeInv`. That a page is no longer than its limit is a lemma of its
  own: the rank of a pending lead among those before it maps the page one to one into
  `0 .. Limit - 1`.
- `AnswersAreBounded`. The strengthening `Owed` says that as long as a lead has no verdict,
  what was paid for it was wasted or is held by a worker; a lead that has its verdict is
  gone or keeps it (`AnsweredStays`), so no page taken later holds it. A step hands the lead
  out, lets it go as wasted or writes its verdict (`HoldersMove`), one lemma for each action.
- `StatusIsCountedOnce`: the classified leads are counted first and `AnsweredStays`, so a
  lead counted as classified cannot be pending later. Deletion takes it from both.
- `ShownIsExported`: pages one to `n` show exactly the first `n * PageSize` matching
  leads as long as nothing moved (`PagesAdd`), and the count that ends the paging is
  then the number of them; where something moved, a lead that was shown and does not
  match any more is in `moved`.

`ContactsProofs` proves, for all leads, requests and bounds:

- `TypesHold`, from `TypeInv == Shape /\ Known`. `Known` says that whatever refers to a
  lead refers to one that was in the table: a lead that goes does not come back, and
  without this a file would grow when an absent lead came in.
- `HistoryStands`: `EventsStand`, what any step leaves of an event.
- `FilesAreOnRecord`: the strengthening `RecordInv` says that a request about to send its
  file has it on record already. `OnRecordStays` then follows from `EventsStand`.
- `RepeatsAreBounded`: once an event has a lead no request takes it up
  (`SendingSteps`), and a commit turns a request that would send it into an event.

- `MissesAreBounded`: a view that reads all its pages misses no more leads than moved,
  each counted as often as it moved. `MissedInv` counts them before they are missed: the
  leads that match all along and, if nothing moved any more, no page would show, because
  they already stand before the next page or behind the count that ends the last one.
  Reading a page or a count adds none, since `NewerApart` says that two matching leads
  never stand at one place; one lead that moves shifts every other by one place at most,
  so it adds one (`MovingMoves`). The number of *leads* that moved is no bound: one that
  comes, goes and comes back shifts the pages each time.

`WorkerGateProofs` proves, for all polls, requests and rows:

- `TypesHold`: `Spec => []TypeOK`, which is inductive.
- `WorkIsNotMissed` and `ResumeIsNotMissed`. Both properties speak of parked polls, and a
  poll parks when it finds its event down, so neither is inductive. `WorkIsHeard` and
  `ResumeIsHeard` say the same of the poll that has read what the event is about and has
  not looked at the event yet; for a resume that begins with the row of the gate, before
  the flag is read. A poll that clears an event checks everything again; the polls it
  deprives of their signal, like those whose handler failed before signalling and those
  that only an expired pause let go, are in `deaf`, the history variable that both
  properties except. What a handler that signals is about to do must also be known:
  `FoundIsThere` says that the row it found had a value.

`TranscriptsProofs` proves, for all leads, lists, episodes and fetches, under the relation
`Follows` between a fetch before and after a step of its own:

- `TypesHold`; `TranscriptIsItsOwn`, strengthened by `PlansAppearances`: a plan holds only
  leads with a row of the episode, however long ago it was made.
- `ProgressIsKept`, strengthened by `StoredBefore`: an episode is asked for only when what
  was given before it is stored. Another fetch or a deletion can only take leads off the
  list of those that wait.
- `WritesStayBounded`, strengthened by `NeverGiven`, a lead without a transcript was never
  given one, and `WritesAndHopes`: what was given and the fetches that may still give are
  together no more than there can be fetches. A new plan adds a hope only where nothing
  was given; a store turns one into a write.

`IngestionProofs` proves, for all files, uploads, leads and ids:

- `TypesHold`, from `Types`, which keeps the shape of what a batch holds.
- `ProvenanceIsComplete`: `Accounts` says of a batch that is under way, row by row, what
  `ProvenanceComplete` says of all that completed.
- `CreatedCountsAddUp`: the sum over uploads is stated in `Ingestion` as the size of a
  union of pairs, an upload and a number, since a sum over a set is a fold, which the
  provers cannot unfold. `IdsAreUsedOnce` makes the size of the union a sum.
- `EmailsIdentify`, `RowsAreRecognised`: as long as uploads come one by one, whatever results
  and requeues do beside them. `Identities` says of the open upload that it writes only what
  was null, or one of the two fields the finder writes too; that what its session holds of a
  lead lacks nothing the lead has, but for these; and that what it sees are leads that show
  each of its rows and hold an email once, with the exceptions of the two properties
  (`SeesWell`). `Sources` says that an email with the finder's label was earned, so that a
  requeue clears only what is excepted. Each action has its lemma on what the upload sees
  after it, `FinderSees` those of the finder.
  `MatchIsRight` says what the tiers return: with an email that some lead has, a lead with
  that email. `AloneIsAlone` makes `OneByOne` mean that the table is as the upload saw it.

`MappingProofs` proves, for all specs, runs of the script, files, alphabets and tables:

- `SeedsAreComplete`: a run that goes on has found or added what it looked at (`ScriptOK`),
  once or twice, and no header leaves the registry. `SpecsStay`: a commit adds only what nobody has.
- `RegisteredFilesAreRead`: `HeaderIsNames` says when the delimiter found is the file's.
- `BestIsChosen`: the qualifier's email is the best by the definition of `BestEmailWins`,
  which knows no table. `LongestIsShared` says what `LongestCommonSubstring` computes: the
  number of letters of the longest part that two words share. Its table is a recursive
  function, and what it holds at a place is the length of the longest common ending there
  (`TableIsBack`). The same is done for the words that are put together from others
  (`FlattenedIsSeq`), so that every name of a brand is a word (`CandidatesAreWords`). Then
  `BestSoFar` is the invariant of the loop over the emails. `PodcastsAssumption` and
  `AsciiAssumption` are the only assumptions: words have characters that the table of
  letters knows, and splitting an address leaves at least one label.
- `TypesHold`: the `TypeOK` of `Mapping` ties the email chosen to the length it matched
  with, so it takes the invariant of the loop.

No theorem of the library that takes an operator can be used here, so the induction over
the table is one on finite sets: the intervals `1 .. n` are finite and strict inclusion is
well founded on them, hence every nonempty set of numbers has a least element
(`LeastNumber`), and a table that differed from the longest common endings would do so in
a first row. The table is a function of pairs, as functions of two arguments are not
supported; for the same reason rows and the registry are built with the operators of
`PartialFunctions` in place of `@@`.

Every invariant and every action property that a passing run checks is proved, and so is
the refinement. TLC alone checks the five liveness properties `LowQueueDrains`,
`WorkIsServed`, `UploadsEnd`, `FetchesEnd` and `ListDrains`: they need fairness and
`ENABLED`, which is beyond the prover. The proofs are about the model: that its actions
are those of the code is a matter of reading both, as the comments and the line numbers
in `PROJECT.json` allow.

## Not modelled

`GET /leads/stats`, the raw rows of a lead, the listing and detail of batches, the
counts of sources and of the enrichment status, and the previews: they read and change
nothing, and no promise ties their numbers to one another. The decoding of CSV files and
the layout of those exported; the text of messages; `backfill_identity_key.py` and the
migrations, which are run by hand and alone; auth, configuration, health and the
mapping of errors to answers, which keep no state. The person names a find stamps on a
company lead and the confidence of an email follow the email and are left out. In the
ledger and in `Ingestion` a set of addresses stands for the junk screen, which
`BrandMatch` has in full, over short tables in place of the long ones.

## Plan

Done: the ledger, its contract and their proofs; the gate; dedup and ingestion; contacts;
transcripts, openers and the daily script; classification composed with the listing;
mapping, the seed script and the qualifier; all of them with their safety proved. What is
left, most important first:

1. *Ingestion and contacts together*: what an upload's second transaction sees.
2. The backfill of identity keys beside uploads, with `RowsStayRecognised`.
3. Contracts for other parts, as `TierContract` is one for the ledger: the held poll as a
   channel that delivers what is offered while the gate is open, and the listing as the
   query of one moment, each with the steps that the code does not keep to.
