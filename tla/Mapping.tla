------------------------------- MODULE Mapping -------------------------------
(***************************************************************************)
(* How a file becomes rows of master fields: the seed script registers a   *)
(* mapping for each known header, an upload is read with the delimiter it  *)
(* is found to have and dispatched on its header, and the executor maps a  *)
(* row field by field and lets a qualifier choose among the row's emails.  *)
(* Source: scripts/seed_mapping_functions.py, app/controllers/batches.py   *)
(* (upload_batch), app/services/mapping/.                                  *)
(*                                                                         *)
(* A file has one row: rows are mapped one by one, each on its own.        *)
(***************************************************************************)
EXTENDS BrandMatch, FiniteSets, PartialFunctions

CONSTANTS
  Specs,     \* mapping specs: fields, with canonical, source and op; qualifier
  Scripts,   \* runs of the seed script
  Shapes,    \* what each run knows, in order: the header, the spec, and whether the header
             \* is read from a CSV that may be gone
  Files      \* the files that arrive

ASSUME ShapesAssumption == \A s \in Scripts :
  /\ Shapes[s] \in Seq({Shapes[s][i] : i \in DOMAIN Shapes[s]})
  /\ \A i \in DOMAIN Shapes[s] : Shapes[s][i].spec \in DOMAIN Specs
ASSUME FilesAssumption == \A f \in Files :
  /\ f.hint \in {NULL, ",", ";", "tab"} /\ f.written \in {",", ";", "tab"}
  /\ f.columns \in Seq({f.columns[i] : i \in DOMAIN f.columns})
  /\ f.columns # <<>>
ASSUME PodcastsAssumption == \A f \in Files :
  LET podcast == f.podcast IN
  /\ podcast.name \in Seq(Seq(Characters))
  /\ podcast.website # NULL => /\ podcast.website.host \in Labels
                              /\ podcast.website.path \in Seq(Seq(Characters))
  /\ podcast.emails \in Seq({podcast.emails[i] : i \in DOMAIN podcast.emails})
  /\ \A i \in DOMAIN podcast.emails : /\ podcast.emails[i].local \in Seq(Characters)
                                     /\ podcast.emails[i].domain \in Labels
ASSUME NullAssumption == NULL \notin {",", ";", "tab"} \cup Nat

VARIABLES
  registry,  \* mapping_functions: the spec of each fingerprint
  script,    \* where each run of the seed script is, what it has added and whether twice
  upload     \* the upload, its row and the qualifier's loop

vars == <<registry, script, upload>>

NoScript == [pc |-> "new", at |-> 1, mine |-> <<>>, twice |-> FALSE]

NoUpload == [pc |-> "idle", file |-> NULL, header |-> <<>>, spec |-> NULL, canonical |-> <<>>,
             next |-> 1, best |-> NULL, length |-> 0]

Init ==
  /\ registry = <<>>
  /\ script = [s \in Scripts |-> NoScript]
  /\ upload = NoUpload

(* How often each name is in a header: the names are sorted before they are hashed. *)
Fingerprint(header) == [n \in {header[i] : i \in DOMAIN header} |->
                          Cardinality({i \in DOMAIN header : header[i] = n})]

-----------------------------------------------------------------------------
(* The seed script: one transaction *)

Added(s, fp, spec) ==
  [pc |-> "new", at |-> script[s].at + 1, mine |-> Put(script[s].mine, fp, spec),
   twice |-> script[s].twice \/ fp \in DOMAIN script[s].mine]

(* Mutated form: the first header that is registered ends the run. *)
SeedLookReturn(s) ==
  /\ script[s].pc = "new"
  /\ script[s].at <= Len(Shapes[s])
  /\ LET shape == Shapes[s][script[s].at]
         fp == Fingerprint(shape.header)
     IN \/ /\ shape.csv
           /\ script' = [script EXCEPT ![s].at = @ + 1]
        \/ /\ fp \in DOMAIN registry
           /\ script' = [script EXCEPT ![s].at = Len(Shapes[s]) + 1]
        \/ /\ fp \notin DOMAIN registry
           /\ script' = [script EXCEPT ![s] = Added(s, fp, shape.spec)]
  /\ UNCHANGED <<registry, upload>>

(* The next header: its CSV is gone, it is registered already, or it is added. What the
   run itself has added is not flushed before the commit: the look does not find it.   *)
SeedLook(s) ==
  /\ script[s].pc = "new"
  /\ script[s].at <= Len(Shapes[s])
  /\ LET shape == Shapes[s][script[s].at]
         fp == Fingerprint(shape.header)
     IN \/ /\ shape.csv \/ fp \in DOMAIN registry
           /\ script' = [script EXCEPT ![s].at = @ + 1]
        \/ /\ fp \notin DOMAIN registry
           /\ script' = [script EXCEPT ![s] = Added(s, fp, shape.spec)]
  /\ UNCHANGED <<registry, upload>>

(* Mutated form: what is registered meanwhile is replaced. *)
SeedCommitOver(s) ==
  /\ script[s].pc = "new"
  /\ script[s].at > Len(Shapes[s])
  /\ registry' = Over(script[s].mine, registry)
  /\ script' = [script EXCEPT ![s].pc = "done"]
  /\ UNCHANGED upload

(* The fingerprint is unique: one that another run registered meanwhile, or that this run
   added twice, fails all.                                                               *)
SeedCommit(s) ==
  /\ script[s].pc = "new"
  /\ script[s].at > Len(Shapes[s])
  /\ LET unique == DOMAIN script[s].mine \cap DOMAIN registry = {} /\ ~script[s].twice
     IN \/ /\ unique
           /\ registry' = Over(script[s].mine, registry)
           /\ script' = [script EXCEPT ![s].pc = "done"]
        \/ /\ ~unique
           /\ script' = [script EXCEPT ![s].pc = "failed"]
           /\ UNCHANGED registry
  /\ UNCHANGED upload

-----------------------------------------------------------------------------
(* An upload is read *)

(* The names a file shows when it is split at a delimiter other than its own. *)
Garbled == <<"garbled">>

Names(file) == [i \in DOMAIN file.columns |-> file.columns[i].name]

Split(file, delimiter) ==
  IF delimiter = file.written \/ (Len(file.columns) = 1 /\ delimiter \notin file.columns[1].quoted)
  THEN Names(file) ELSE Garbled

(* How often a separator is in the header line, between columns and in quoted names. *)
Occurs(separator, file) ==
  Cardinality({i \in DOMAIN file.columns : separator \in file.columns[i].quoted})
    + (IF separator = file.written THEN Len(file.columns) - 1 ELSE 0)

(* Mutated form: the hint is heeded but its line is left for the header. *)
HeaderWithHint(file) ==
  IF file.hint # NULL THEN Garbled
  ELSE Split(file, IF Occurs(";", file) > Occurs(",", file) THEN ";" ELSE ",")

(* A line "sep=;" before the header names the delimiter. That line is trimmed, and a
   trimmed "sep=<tab>" names none and passes for the header.                        *)
Header(file) ==
  CASE file.hint = "tab" -> Garbled
    [] file.hint \in {",", ";"} -> Split(file, file.hint)
    [] file.hint = NULL -> Split(file, IF Occurs(";", file) > Occurs(",", file) THEN ";" ELSE ",")

Receive(file) ==
  /\ upload.pc = "idle"
  /\ upload' = [NoUpload EXCEPT !.pc = "read", !.file = file, !.header = Header(file)]
  /\ UNCHANGED <<registry, script>>

(* Mutated form: an unknown header goes on without a mapping. *)
DispatchUnknown ==
  /\ upload.pc = "read"
  /\ LET fp == Fingerprint(upload.header) IN
     upload' = IF fp \in DOMAIN registry
               THEN [upload EXCEPT !.pc = "known", !.spec = registry[fp]]
               ELSE [upload EXCEPT !.pc = "known"]
  /\ UNCHANGED <<registry, script>>

(* An unknown header is refused. *)
Dispatch ==
  /\ upload.pc = "read"
  /\ LET fp == Fingerprint(upload.header) IN
     upload' = IF fp \in DOMAIN registry
               THEN [upload EXCEPT !.pc = "known", !.spec = registry[fp]]
               ELSE [upload EXCEPT !.pc = "refused"]
  /\ UNCHANGED <<registry, script>>

-----------------------------------------------------------------------------
(* The executor *)

Empty == {"missing", "blank"}
Kinds == Empty \cup {"sentinel", "word", "number", "overflow", "day", "moment", "link", "path",
                     "cdn", "brackets", "address", "junk"}

(* The cells of which an op makes a value; of the others it makes None. A link without a
   scheme is any text with something before its first slash.                          *)
OPS ==
  [ text |-> Kinds \ (Empty \cup {"sentinel"}),
    const |-> Kinds,
    to_int |-> {"number"},
    to_float |-> {"number", "overflow"},
    date_parse |-> {"day"},
    datetime_parse |-> {"moment"},
    email_or_null |-> {"address"},
    url_or_null |-> Kinds \ (Empty \cup {"sentinel", "path", "brackets"}),
    website_or_null |-> Kinds \ (Empty \cup {"sentinel", "path", "brackets", "cdn"}),
    youtube_url_from_handle |-> Kinds \ Empty ]

(* int(inf) and a bracket that is not an IPv6 address raise what no op catches. *)
Raises(op, kind) == \/ op = "to_int" /\ kind = "overflow"
                    \/ op \in {"url_or_null", "website_or_null"} /\ kind = "brackets"

Cell(source) == IF source \in DOMAIN upload.file.cells THEN upload.file.cells[source] ELSE "missing"

(* apply_mapping: the fields that get a value, and where it comes from. *)
MapFields ==
  /\ upload.pc = "known"
  /\ LET fields == Specs[upload.spec].fields
         value(field) == IF Cell(field.source) \in OPS[field.op] THEN field.source ELSE NULL
     IN upload' = IF \E field \in fields : Raises(field.op, Cell(field.source))
                  THEN [upload EXCEPT !.pc = "failed"]
                  ELSE [upload EXCEPT
                          !.pc = IF Specs[upload.spec].qualifier THEN "qualifying" ELSE "mapped",
                          !.canonical = [c \in {field.canonical : field \in fields} |->
                                           value(CHOOSE field \in fields : field.canonical = c)]]
  /\ UNCHANGED <<registry, script>>

Podcast == upload.file.podcast
Candidates == BrandCandidates(Podcast.name, Podcast.website)

(* Mutated form: of emails that match alike the last is taken. *)
BeatsOrTies(length) == length >= MIN_LCS_LENGTH /\ length >= upload.length

Beats(length) == length >= MIN_LCS_LENGTH /\ length > upload.length

(* podscan_host_qualify: the next email of the cell. *)
TryEmail ==
  /\ upload.pc = "qualifying"
  /\ upload.next <= Len(Podcast.emails)
  /\ LET email == Podcast.emails[upload.next]
         length == MatchLength(email, Candidates)
     IN upload' = IF ~IsJunk(email) /\ Beats(length)
                  THEN [upload EXCEPT !.next = @ + 1, !.best = upload.next, !.length = length]
                  ELSE [upload EXCEPT !.next = @ + 1]
  /\ UNCHANGED <<registry, script>>

(* email and email_source are set, to None when no email matched. *)
Qualify ==
  /\ upload.pc = "qualifying"
  /\ upload.next > Len(Podcast.emails)
  /\ upload' = [upload EXCEPT !.pc = "mapped",
                  !.canonical = Over([email |-> upload.best,
                                      email_source |-> IF upload.best = NULL THEN NULL ELSE "provided"], @)]
  /\ UNCHANGED <<registry, script>>

Answer ==
  /\ upload.pc \in {"mapped", "refused", "failed"}
  /\ upload' = NoUpload
  /\ UNCHANGED <<registry, script>>

-----------------------------------------------------------------------------
Next ==
  \/ \E s \in Scripts : SeedLook(s) \/ SeedCommit(s)
  \/ \E file \in Files : Receive(file)
  \/ Dispatch \/ MapFields \/ TryEmail \/ Qualify \/ Answer

Spec == Init /\ [][Next]_vars

-----------------------------------------------------------------------------
TypeOK ==
  /\ \A fp \in DOMAIN registry : registry[fp] \in DOMAIN Specs
  /\ \A s \in Scripts : /\ script[s].pc \in {"new", "done", "failed"}
                        /\ script[s].at \in 1 .. Len(Shapes[s]) + 1
                        /\ script[s].twice \in BOOLEAN
  /\ upload.pc \in {"idle", "read", "refused", "known", "failed", "qualifying", "mapped"}
  /\ upload.pc \notin {"idle", "read", "refused"} => upload.spec \in DOMAIN Specs
  /\ upload.next \in Nat \ {0} /\ upload.length \in Nat
  /\ upload.best = NULL <=> upload.length = 0

(* What a run of the script that ends well knows is registered, whatever was registered
   before, by a run of other code that went on meanwhile, or is missing on the disk.
   (seed_mapping_functions.py:47-247)                                                  *)
SeedsComplete ==
  \A s \in Scripts : script[s].pc = "done" =>
    \A i \in DOMAIN Shapes[s] :
      ~Shapes[s][i].csv => Fingerprint(Shapes[s][i].header) \in DOMAIN registry

(* An approved mapping stays what it is: an upload of today is mapped as one of last month,
   also when the code has a newer spec. (mapping_function.py:12-16)                        *)
SpecsAreKept ==
  [][\A fp \in DOMAIN registry : fp \in DOMAIN registry' /\ registry'[fp] = registry[fp]]_vars

(* "So both shapes parse without a manual pre-clean": a file whose header is registered is
   refused only if it is separated by tabs, hinted wrongly, or has separators quoted in its
   names. (batches.py:60-65)                                                              *)
RegisteredIsRead ==
  [][upload.pc = "read" /\ upload'.pc = "refused" =>
       \/ Fingerprint(Names(upload.file)) \notin DOMAIN registry
       \/ upload.file.written = "tab"
       \/ upload.file.hint \notin {NULL, upload.file.written}
       \/ \E i \in DOMAIN upload.file.columns : upload.file.columns[i].quoted # {}]_vars

(* The reference: the letters of some part of the one stand together in the other. *)
Shares(a, b, n) == \E i \in 0 .. Len(a) - n : IsWithin(SubSeq(a, i + 1, i + n), b)

Matches(email, n) ==
  \E c \in Candidates, t \in {Normalize(email.local), Normalize(email.domain[1])} : Shares(c, t, n)

(* "The best-matching non-junk email wins", the first of equals; and no email is invented
   where none shares enough with the podcast's names. (qualifiers.py:15-20)              *)
BestEmailWins ==
  upload.pc = "mapped" /\ Specs[upload.spec].qualifier =>
    LET emails == Podcast.emails
        eligible(i) == ~IsJunk(emails[i]) /\ Matches(emails[i], MIN_LCS_LENGTH)
        chosen == upload.canonical.email
    IN /\ chosen = NULL <=> ~\E i \in DOMAIN emails : eligible(i)
       /\ chosen # NULL =>
            /\ eligible(chosen)
            /\ \A i \in DOMAIN emails : eligible(i) => Matches(emails[chosen], upload.length)
            /\ \A i \in DOMAIN emails : eligible(i) => ~Matches(emails[i], upload.length + 1)
            /\ \A i \in 1 .. chosen - 1 : eligible(i) => ~Matches(emails[i], upload.length)
=============================================================================
