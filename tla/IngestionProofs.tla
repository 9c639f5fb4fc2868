--------------------------- MODULE IngestionProofs ---------------------------
(***************************************************************************)
(* What is proved of Ingestion for every set of files, uploads and leads:  *)
(* types, the provenance, the counts of created leads, and what uploads    *)
(* that do not overlap preserve of the identities of leads.                *)
(*                                                                         *)
(* The last of these rests on what the tiers of Dedup return               *)
(* (FindMatchingLead) and on a merge that writes only what was null: an    *)
(* upload that is alone finds a lead, when it flushes, as it was when it   *)
(* matched it, but for the email that the finder wrote or a requeue        *)
(* cleared. Those emails are kept apart by the history of what was earned. *)
(***************************************************************************)
EXTENDS Ingestion, FiniteSetTheorems, TLAPS

-----------------------------------------------------------------------------
(* The inductive invariants *)

(* The record that NoBatch is. *)
Shaped(r) == r = [pc |-> r.pc, file |-> r.file, done |-> r.done, mine |-> r.mine, wrote |-> r.wrote,
                  held |-> r.held, links |-> r.links, target |-> r.target, fill |-> r.fill,
                  alone |-> r.alone,
                  quarantined |-> r.quarantined, created |-> r.created, merged |-> r.merged]

(* What an upload writes does not come from the finder. *)
RowOK(row) == LeadOK(row) /\ ~FromFinder(row)

(* An upload, as TypeOK has it, and what TypeOK leaves out. *)
BatchOK(b) ==
  /\ Shaped(batch[b])
  /\ batch[b].pc \in {"new", "reading", "merging", "completed", "failed"}
  /\ batch[b].file \in Files \/ (batch[b].file = <<>> /\ batch[b].pc = "new")
  /\ batch[b].done \in 0 .. Len(batch[b].file)
  /\ batch[b].mine \cup Wrote(b) \cup DOMAIN batch[b].held \subseteq Ids
  /\ \A l \in Wrote(b) : RowOK(batch[b].wrote[l])
  /\ \A l \in DOMAIN batch[b].held : LeadOK(batch[b].held[l])
  /\ batch[b].links \subseteq Ids \X Batches \X Nat
  /\ batch[b].alone \in BOOLEAN
  /\ {batch[b].quarantined, batch[b].created, batch[b].merged} \subseteq Nat
  /\ batch[b].pc = "merging" => /\ batch[b].done < Len(batch[b].file)
                                /\ batch[b].target \in Ids
                                /\ RowOK(batch[b].fill)
  /\ batch[b].pc = "completed" => batch[b].done = Len(batch[b].file)

Types ==
  /\ DOMAIN table \subseteq Ids
  /\ \A l \in DOMAIN table : LeadOK(table[l])
  /\ links \subseteq Ids \X Batches \X Nat
  /\ batch = [b \in Batches |-> batch[b]]
  /\ \A b \in Batches : BatchOK(b)
  /\ finding \cup earned \subseteq Ids \X Found
  /\ deletes \in 0 .. MaxDeletes /\ finds \in 0 .. MaxFinds /\ requeues \in 0 .. MaxRequeues

(* An upload that has not failed accounts for its rows so far, one by one, and for the
   leads it inserted.                                                                 *)
Accounts(b) ==
  /\ \A x \in batch[b].links : x[2] = b /\ x[3] \in 1 .. batch[b].done
  /\ \A x, y \in batch[b].links : x[3] = y[3] => x = y
  /\ IsFiniteSet(batch[b].links)
  /\ batch[b].created + batch[b].merged + batch[b].quarantined = batch[b].done
  /\ batch[b].pc # "failed" =>
       /\ Cardinality(batch[b].links) = batch[b].created + batch[b].merged
       /\ \A l \in batch[b].mine : \E x \in batch[b].links : x[1] = l

(* What is committed is what completed uploads recorded, less what deletions took. *)
Provenance ==
  /\ \A b \in Batches : Accounts(b)
  /\ \A x \in links : batch[x[2]].pc = "completed" /\ x \in batch[x[2]].links
  /\ deletes = 0 => \A b \in Batches : batch[b].pc = "completed" => batch[b].links \subseteq links
  /\ \A l \in DOMAIN table : \E x \in links : x[1] = l

(* An id is given out once, and the leads of an upload are as many as it counts. *)
IdsAreUsedOnce ==
  /\ IsFiniteSet(DOMAIN table)
  /\ \A b \in Batches :
       /\ IsFiniteSet(batch[b].mine)
       /\ Cardinality(batch[b].mine) = batch[b].created
       /\ batch[b].pc # "completed" => batch[b].mine \cap DOMAIN table = {}
       /\ \A c \in Batches : b # c => batch[b].mine \cap batch[c].mine = {}

(* An upload that was alone is the only one in flight, and the alone of one that has not
   begun is the initial one.                                                            *)
AloneIsAlone ==
  \A b \in Batches :
    /\ batch[b].pc = "new" => batch[b].alone
    /\ Open(b) /\ batch[b].alone => \A c \in Batches \ {b} : ~Open(c)

(* Of a set of earned emails: one of them was of this lead. *)
Won(won, l) == \E p \in won : p[1] = l

(* One email, one lead, unless the finder wrote it into one of two. *)
UniqueEmails(leads, won) ==
  \A k, l \in DOMAIN leads :
    "email" \in DOMAIN leads[k] \cap DOMAIN leads[l] /\ leads[k]["email"] = leads[l]["email"]
    => \/ k = l
       \/ {<<k, leads[k]["email"]>>, <<l, leads[l]["email"]>>} \cap won # {}

(* A lead shows a row when they agree at some tier. It is known to do so when the row has a
   tier, and, if the row has an email, the finder has written none into the lead.         *)
Shows(lead, row) == \E f \in IdFields : Agree(f, row, lead)
Promised(won, l, row) == DOMAIN row \cap IdFields # {} /\ ("email" \in DOMAIN row => ~Won(won, l))
Known(leads, won, l, row) == l \in DOMAIN leads /\ (Promised(won, l, row) => Shows(leads[l], row))

(* An upload that is alone writes only what was null when it read the lead, and holds what
   it saw of it, but for the fields that the finder writes too.                          *)
EmailFields == {"email", "email_source"}
TheFinders(l) == IF Won(earned, l) THEN EmailFields ELSE {}

WritesWhatWasNull(b) ==
  \A l \in Wrote(b) \cap DOMAIN table : DOMAIN batch[b].wrote[l] \cap DOMAIN table[l] \subseteq TheFinders(l)

HoldsWhatItSaw(b) ==
  \A l \in DOMAIN batch[b].held \cap DOMAIN Seen(b) :
    DOMAIN Seen(b)[l] \ DOMAIN batch[b].held[l] \subseteq TheFinders(l)

(* What is about to be merged is null in its lead, or an email beside the finder's. *)
MergesWhatIsNull(b, t) ==
  /\ \A f \in DOMAIN batch[b].fill : /\ f \in DOMAIN Row(b) /\ batch[b].fill[f] = Row(b)[f]
                                     /\ f \in DOMAIN Seen(b)[t] => f \in TheFinders(t)
  /\ t \in DOMAIN batch[b].held /\ DOMAIN batch[b].fill \subseteq DOMAIN batch[b].held[t]
  /\ Known(Seen(b), earned, t, Row(b))
  /\ "email" \in DOMAIN batch[b].fill =>
       \A l \in DOMAIN Seen(b) \ {t} :
         Agree("email", Row(b), Seen(b)[l])
         => {<<l, Row(b)["email"]>>, <<t, Row(b)["email"]>>} \cap earned # {}

(* What an upload that is alone sees is as good as what is committed. *)
SeesWell(b) ==
  /\ WritesWhatWasNull(b)
  /\ HoldsWhatItSaw(b)
  /\ batch[b].pc = "merging" /\ ~Deleted(b) => MergesWhatIsNull(b, batch[b].target)
  /\ UniqueEmails(Seen(b), earned)
  /\ \A x \in batch[b].links : Known(Seen(b), earned, x[1], Canonical(batch[b].file[x[3]]))

(* A lead with an email of the finder's is one that it has written. *)
Sources == \A l \in DOMAIN table : FromFinder(table[l]) => Won(earned, l)

Identities ==
  OneByOne =>
    /\ UniqueEmails(table, earned)
    /\ \A x \in links : Known(table, earned, x[1], Canonical(batch[x[2]].file[x[3]]))
    /\ \A b \in Batches : Open(b) => SeesWell(b)

-----------------------------------------------------------------------------
(* Rows and leads *)

LEMMA NothingIsEmpty == DOMAIN Nothing = {}
BY DEF Nothing

LEMMA PutAt ==
  ASSUME NEW f, NEW x, NEW v
  PROVE  /\ DOMAIN Put(f, x, v) = DOMAIN f \cup {x}
         /\ Put(f, x, v)[x] = v
         /\ \A y \in DOMAIN f \ {x} : Put(f, x, v)[y] = f[y]
BY DEF Put

LEMMA OverAt ==
  ASSUME NEW f, NEW g
  PROVE  /\ DOMAIN Over(f, g) = DOMAIN f \cup DOMAIN g
         /\ \A x \in DOMAIN f : Over(f, g)[x] = f[x]
         /\ \A x \in DOMAIN g \ DOMAIN f : Over(f, g)[x] = g[x]
BY DEF Over

LEMMA OverIsOK ==
  ASSUME NEW f, NEW g, LeadOK(f), LeadOK(g)
  PROVE  LeadOK(Over(f, g))
BY DEF LeadOK, Over

LEMMA NothingIsOK == LeadOK(Nothing)
BY NothingIsEmpty DEF LeadOK

LEMMA MatchOrderIs ==
  /\ DOMAIN MatchOrder = 1 .. 9
  /\ Len(MatchOrder) = 9
  /\ MatchOrder[1] = "email"
  /\ "email" \in IdFields /\ "identity_key" \in IdFields
  /\ {"first_name", "company_name", "email_source"} \cap IdFields = {}
<1>1. /\ DOMAIN MatchOrder = 1 .. 9
      /\ Len(MatchOrder) = 9
      /\ MatchOrder[1] = "email" /\ MatchOrder[6] = "identity_key"
  BY DEF MatchOrder
<1>2. \A i \in 1 .. 9 : MatchOrder[i] \notin {"first_name", "company_name", "email_source"}
  BY DEF MatchOrder
<1>3. "email" \in IdFields /\ "identity_key" \in IdFields
  BY <1>1 DEF IdFields
<1> QED BY <1>1, <1>2, <1>3 DEF IdFields

LEMMA OverIsRow ==
  ASSUME NEW f, NEW g, RowOK(f), RowOK(g)
  PROVE  RowOK(Over(f, g))
<1>1. LeadOK(Over(f, g))
  BY OverIsOK DEF RowOK
<1> DEFINE h == Over(f, g)
<1>2. /\ DOMAIN h = DOMAIN f \cup DOMAIN g
      /\ \A x \in DOMAIN f : h[x] = f[x]
      /\ \A x \in DOMAIN g \ DOMAIN f : h[x] = g[x]
  BY OverAt
<1> HIDE DEF h
<1>3. ~FromFinder(h)
  BY <1>2 DEF RowOK, FromFinder
<1> QED BY <1>1, <1>3 DEF h, RowOK

LEMMA NothingIsRow == RowOK(Nothing)
BY NothingIsOK, NothingIsEmpty DEF RowOK, FromFinder

(* How LeadOK is shown: a source that is the finder's is apart from the other values. *)
LEMMA IsLead ==
  ASSUME NEW row, DOMAIN row \subseteq Fields,
         \A f \in DOMAIN row : f = "identity_key" => row[f] \in Values \X Values,
         \A f \in DOMAIN row : f # "identity_key" /\ ~(f = "email_source" /\ row[f] = Finder)
                                => row[f] \in Values
  PROVE  LeadOK(row)
BY DEF LeadOK

(* A row of a file, with the key computed, has fields and values of a lead, and none of the
   finder's.                                                                             *)
LEMMA CanonicalIsOK ==
  ASSUME NEW row, DOMAIN row \subseteq Fields \ {"identity_key"}, \A f \in DOMAIN row : row[f] \in Values
  PROVE  RowOK(Canonical(row))
<1> DEFINE made == Put(row, "identity_key", Key(row))
<1>1. CASE Canonical(row) = row
  <2>1. LeadOK(row)
    <3>1. DOMAIN row \subseteq Fields /\ "identity_key" \notin DOMAIN row
      OBVIOUS
    <3> QED BY <3>1, IsLead
  <2>2. ~FromFinder(row)
    BY FinderAssumption DEF FromFinder
  <2> QED BY <1>1, <2>1, <2>2 DEF RowOK
<1>2. CASE Canonical(row) = made /\ Names \subseteq DOMAIN row
  <2>1. Key(row) \in Values \X Values
    BY <1>2, CanonAssumption DEF Key, Names
  <2>2. "identity_key" \in Fields
    BY MatchOrderIs DEF Fields
  <2>3. /\ DOMAIN made = DOMAIN row \cup {"identity_key"}
        /\ made["identity_key"] = Key(row)
        /\ \A f \in DOMAIN row \ {"identity_key"} : made[f] = row[f]
    BY DEF Put
  <2> HIDE DEF made
  <2>4. LeadOK(made)
    <3>1. DOMAIN made \subseteq Fields
      BY <2>2, <2>3
    <3>2. \A f \in DOMAIN made : f # "identity_key" => made[f] \in Values
      BY <2>3
    <3>3. made["identity_key"] \in Values \X Values
      BY <2>1, <2>3
    <3> QED BY <3>1, <3>2, <3>3, IsLead
  <2>5. ~FromFinder(made)
    <3>1. "email_source" \in DOMAIN made
            => made["email_source"] = row["email_source"] /\ row["email_source"] \in Values
      BY <2>3
    <3> QED BY <3>1, FinderAssumption DEF FromFinder
  <2> QED BY <1>2, <2>4, <2>5 DEF RowOK
<1> QED BY <1>1, <1>2 DEF Canonical

(* Of the tiers at which some lead agrees there is a strongest one. *)
LEMMA StrongestTier ==
  ASSUME NEW S \in SUBSET (1 .. 9), S # {}
  PROVE  \E i \in S : \A j \in 1 .. i - 1 : j \notin S
<1>1. CASE 1 \in S
  BY <1>1
<1>2. CASE 1 \notin S /\ 2 \in S
  BY <1>2
<1>3. CASE 1 \notin S /\ 2 \notin S /\ 3 \in S
  BY <1>3
<1>4. CASE 1 \notin S /\ 2 \notin S /\ 3 \notin S /\ 4 \in S
  BY <1>4
<1>5. CASE 1 \notin S /\ 2 \notin S /\ 3 \notin S /\ 4 \notin S /\ 5 \in S
  BY <1>5
<1>6. CASE /\ 1 \notin S /\ 2 \notin S /\ 3 \notin S /\ 4 \notin S /\ 5 \notin S
           /\ 6 \in S \/ 7 \in S
  BY <1>6
<1>7. CASE /\ 1 \notin S /\ 2 \notin S /\ 3 \notin S /\ 4 \notin S /\ 5 \notin S
           /\ 6 \notin S /\ 7 \notin S /\ (8 \in S \/ 9 \in S)
  BY <1>7
<1>8. \/ 1 \in S \/ 2 \in S \/ 3 \in S \/ 4 \in S \/ 5 \in S
      \/ 6 \in S \/ 7 \in S \/ 8 \in S \/ 9 \in S
  <2>1. PICK i \in S : TRUE
    OBVIOUS
  <2>2. \/ i = 1 \/ i = 2 \/ i = 3 \/ i = 4 \/ i = 5 \/ i = 6 \/ i = 7 \/ i = 8 \/ i = 9
    OBVIOUS
  <2> QED BY <2>2
<1> QED BY <1>1, <1>2, <1>3, <1>4, <1>5, <1>6, <1>7, <1>8

(* find_matching_lead returns a lead that shows the row, at its email when any lead has
   it, and returns none only when no lead agrees at any tier.                          *)
LEMMA MatchIsRight ==
  ASSUME NEW row, NEW leads
  PROVE  /\ \A l \in FindMatchingLead(row, leads) :
              /\ l \in DOMAIN leads /\ Shows(leads[l], row)
              /\ \/ Agree("email", row, leads[l])
                 \/ \A k \in DOMAIN leads : ~Agree("email", row, leads[k])
         /\ (\E l \in DOMAIN leads : Shows(leads[l], row)) => FindMatchingLead(row, leads) # {}
<1>1. ASSUME NEW l \in FindMatchingLead(row, leads)
      PROVE  /\ l \in DOMAIN leads /\ Shows(leads[l], row)
             /\ \/ Agree("email", row, leads[l])
                \/ \A k \in DOMAIN leads : ~Agree("email", row, leads[k])
  <2>1. PICK i \in DOMAIN MatchOrder :
          /\ Agree(MatchOrder[i], row, leads[l])
          /\ \A j \in 1 .. i - 1 : \A k \in DOMAIN leads : ~Agree(MatchOrder[j], row, leads[k])
    BY DEF FindMatchingLead
  <2>2. l \in DOMAIN leads /\ MatchOrder[i] \in IdFields
    BY DEF FindMatchingLead, IdFields
  <2>3. i = 1 \/ 1 \in 1 .. i - 1
    BY MatchOrderIs
  <2> QED BY <2>1, <2>2, <2>3, MatchOrderIs DEF Shows
<1>2. ASSUME NEW l \in DOMAIN leads, Shows(leads[l], row)
      PROVE  FindMatchingLead(row, leads) # {}
  <2> DEFINE S == {i \in 1 .. 9 : \E k \in DOMAIN leads : Agree(MatchOrder[i], row, leads[k])}
  <2>1. S # {}
    BY <1>2, MatchOrderIs DEF Shows, IdFields
  <2>2. PICK i \in S : \A j \in 1 .. i - 1 : j \notin S
    BY <2>1, StrongestTier
  <2>3. PICK k \in DOMAIN leads : Agree(MatchOrder[i], row, leads[k])
    OBVIOUS
  <2>4. \A j \in 1 .. i - 1 : j \in 1 .. 9
    OBVIOUS
  <2>5. \A j \in 1 .. i - 1 : \A m \in DOMAIN leads : ~Agree(MatchOrder[j], row, leads[m])
    BY <2>2, <2>4
  <2>6. k \in FindMatchingLead(row, leads)
    BY <2>3, <2>5, MatchOrderIs DEF FindMatchingLead
  <2> QED BY <2>6
<1> QED BY <1>1, <1>2

-----------------------------------------------------------------------------
(* What the steps do to the uploads *)

Others(b) ==
  /\ batch' = [c \in Batches |-> batch'[c]]
  /\ \A c \in Batches \ {b} : batch'[c] = batch[c]

(* An upload keeps its file, and that no other was in flight. *)
SameFile(b) ==
  /\ Shaped(batch'[b])
  /\ batch'[b].file = batch[b].file
  /\ batch'[b].alone = batch[b].alone

SameCounts(b) ==
  /\ batch'[b].done = batch[b].done
  /\ batch'[b].quarantined = batch[b].quarantined
  /\ batch'[b].created = batch[b].created
  /\ batch'[b].merged = batch[b].merged

LEMMA BatchUpdate ==
  ASSUME Types, NEW b \in Batches, NEW new, batch' = [batch EXCEPT ![b] = new]
  PROVE  Others(b) /\ batch'[b] = new
BY DEF Types, Others

LEMMA UploadMoves ==
  ASSUME Types, NEW b \in Batches, NEW file \in Files, Upload(b, file)
  PROVE  /\ batch' = [c \in Batches |-> batch'[c]]
         /\ batch[b].pc = "new" /\ batch'[b].pc = "reading"
         /\ Shaped(batch'[b]) /\ batch'[b].file = file
         /\ batch'[b].mine = {} /\ batch'[b].wrote = Nothing /\ batch'[b].held = Nothing
         /\ batch'[b].links = {} /\ batch'[b].done = 0 /\ batch'[b].quarantined = 0
         /\ batch'[b].created = 0 /\ batch'[b].merged = 0
         /\ batch'[b].alone \in BOOLEAN
         /\ batch'[b].alone => \A c \in Batches : ~Open(c)
         /\ \A c \in Batches \ {b} :
              /\ Shaped(batch'[c])
              /\ batch'[c].pc = batch[c].pc /\ batch'[c].file = batch[c].file
              /\ batch'[c].mine = batch[c].mine /\ batch'[c].wrote = batch[c].wrote
              /\ batch'[c].links = batch[c].links /\ batch'[c].done = batch[c].done
              /\ batch'[c].held = batch[c].held /\ batch'[c].target = batch[c].target
              /\ batch'[c].fill = batch[c].fill
              /\ batch'[c].quarantined = batch[c].quarantined
              /\ batch'[c].created = batch[c].created /\ batch'[c].merged = batch[c].merged
              /\ batch'[c].alone \in BOOLEAN
              /\ batch'[c].alone => batch[c].alone /\ ~Open(c)
         /\ UNCHANGED <<table, links, deletes, finderVars>>
<1> DEFINE others == {c \in Batches : Open(c)}
<1>1. /\ batch' = [c \in Batches |->
                     IF c = b THEN [NoBatch EXCEPT !.pc = "reading", !.file = file, !.alone = others = {}]
                     ELSE [batch[c] EXCEPT !.alone = @ /\ c \notin others]]
      /\ batch[b].pc = "new"
      /\ UNCHANGED <<table, links, deletes, finderVars>>
  BY DEF Upload
<1> HIDE DEF others
<1>2. PICK none \in BOOLEAN : none = (others = {})
  OBVIOUS
<1>3. batch'[b] = [NoBatch EXCEPT !.pc = "reading", !.file = file, !.alone = none]
  BY <1>1, <1>2
<1>4. /\ batch'[b].pc = "reading" /\ Shaped(batch'[b]) /\ batch'[b].file = file
      /\ batch'[b].mine = {} /\ batch'[b].wrote = Nothing /\ batch'[b].held = Nothing
      /\ batch'[b].links = {} /\ batch'[b].done = 0 /\ batch'[b].quarantined = 0
      /\ batch'[b].created = 0 /\ batch'[b].merged = 0
      /\ batch'[b].alone = none
  BY <1>3 DEF NoBatch, Shaped
<1>5. none => \A c \in Batches : ~Open(c)
  BY <1>2 DEF others
<1>6. ASSUME NEW c \in Batches \ {b}
      PROVE  /\ Shaped(batch'[c])
             /\ batch'[c].pc = batch[c].pc /\ batch'[c].file = batch[c].file
             /\ batch'[c].mine = batch[c].mine /\ batch'[c].wrote = batch[c].wrote
             /\ batch'[c].links = batch[c].links /\ batch'[c].done = batch[c].done
             /\ batch'[c].held = batch[c].held /\ batch'[c].target = batch[c].target
             /\ batch'[c].fill = batch[c].fill
             /\ batch'[c].quarantined = batch[c].quarantined
             /\ batch'[c].created = batch[c].created /\ batch'[c].merged = batch[c].merged
             /\ batch'[c].alone \in BOOLEAN
             /\ batch'[c].alone => batch[c].alone /\ ~Open(c)
  <2>1. PICK a \in BOOLEAN : a = (batch[c].alone /\ c \notin others)
    OBVIOUS
  <2>2. batch'[c] = [batch[c] EXCEPT !.alone = a]
    BY <1>1, <2>1
  <2>3. Shaped(batch[c])
    BY DEF Types, BatchOK
  <2>4. /\ Shaped(batch'[c])
        /\ batch'[c].pc = batch[c].pc /\ batch'[c].file = batch[c].file
        /\ batch'[c].mine = batch[c].mine /\ batch'[c].wrote = batch[c].wrote
        /\ batch'[c].links = batch[c].links /\ batch'[c].done = batch[c].done
        /\ batch'[c].held = batch[c].held /\ batch'[c].target = batch[c].target
        /\ batch'[c].fill = batch[c].fill
        /\ batch'[c].quarantined = batch[c].quarantined
        /\ batch'[c].created = batch[c].created /\ batch'[c].merged = batch[c].merged
        /\ batch'[c].alone = a
    BY <2>2, <2>3 DEF Shaped
  <2>5. a => batch[c].alone /\ ~Open(c)
    BY <2>1 DEF others
  <2> QED BY <2>4, <2>5
<1>7. batch' = [c \in Batches |-> batch'[c]]
  BY <1>1
<1> QED BY <1>1, <1>4, <1>5, <1>6, <1>7

LEMMA QuarantineMoves ==
  ASSUME Types, NEW b \in Batches, Quarantine(b)
  PROVE  /\ Others(b) /\ SameFile(b)
         /\ batch[b].pc = "reading" /\ batch'[b].pc = "reading"
         /\ batch[b].done < Len(batch[b].file) /\ batch'[b].done = batch[b].done + 1
         /\ batch'[b].quarantined = batch[b].quarantined + 1
         /\ batch'[b].created = batch[b].created /\ batch'[b].merged = batch[b].merged
         /\ batch'[b].mine = batch[b].mine /\ batch'[b].wrote = batch[b].wrote /\ batch'[b].held = batch[b].held
         /\ batch'[b].links = batch[b].links
         /\ UNCHANGED <<table, links, deletes, finderVars>>
<1>1. batch' = [batch EXCEPT ![b] = [batch[b] EXCEPT !.done = @ + 1, !.quarantined = @ + 1]]
  BY DEF Quarantine
<1>2. Others(b) /\ batch'[b] = [batch[b] EXCEPT !.done = @ + 1, !.quarantined = @ + 1]
  BY <1>1, BatchUpdate
<1>3. Shaped(batch[b])
  BY DEF Types, BatchOK
<1>4. /\ SameFile(b) /\ batch'[b].pc = batch[b].pc
      /\ batch'[b].done = batch[b].done + 1
      /\ batch'[b].quarantined = batch[b].quarantined + 1
      /\ batch'[b].created = batch[b].created /\ batch'[b].merged = batch[b].merged
      /\ batch'[b].mine = batch[b].mine /\ batch'[b].wrote = batch[b].wrote /\ batch'[b].held = batch[b].held
      /\ batch'[b].links = batch[b].links
  BY <1>2, <1>3 DEF Shaped, SameFile
<1> QED BY <1>2, <1>4 DEF Quarantine, HasRow

LEMMA InsertMoves ==
  ASSUME Types, NEW b \in Batches, InsertLead(b)
  PROVE  /\ Others(b) /\ SameFile(b)
         /\ batch[b].pc = "reading" /\ batch'[b].pc = "reading"
         /\ batch[b].done < Len(batch[b].file) /\ batch'[b].done = batch[b].done + 1
         /\ batch'[b].quarantined = batch[b].quarantined
         /\ batch'[b].created = batch[b].created + 1 /\ batch'[b].merged = batch[b].merged
         /\ FindMatchingLead(Row(b), Seen(b)) = {}
         /\ \E l \in Ids \ Used :
              /\ batch'[b].mine = batch[b].mine \cup {l}
              /\ batch'[b].wrote = Put(batch[b].wrote, l, Row(b))
              /\ batch'[b].held = Put(batch[b].held, l, Row(b))
              /\ batch'[b].links = batch[b].links \cup {<<l, b, batch[b].done + 1>>}
         /\ UNCHANGED <<table, links, deletes, finderVars>>
<1>1. PICK l \in Ids \ Used :
        batch' = [batch EXCEPT ![b] =
                    [batch[b] EXCEPT !.done = @ + 1, !.created = @ + 1,
                                     !.mine = @ \cup {l}, !.wrote = Put(@, l, Row(b)),
                                     !.held = Put(@, l, Row(b)),
                                     !.links = @ \cup {<<l, b, batch[b].done + 1>>}]]
  BY DEF InsertLead
<1>2. /\ Others(b)
      /\ batch'[b] = [batch[b] EXCEPT !.done = @ + 1, !.created = @ + 1,
                                      !.mine = @ \cup {l}, !.wrote = Put(@, l, Row(b)),
                                      !.held = Put(@, l, Row(b)),
                                      !.links = @ \cup {<<l, b, batch[b].done + 1>>}]
  BY <1>1, BatchUpdate
<1>3. Shaped(batch[b])
  BY DEF Types, BatchOK
<1>4. /\ SameFile(b) /\ batch'[b].pc = batch[b].pc
      /\ batch'[b].done = batch[b].done + 1
      /\ batch'[b].quarantined = batch[b].quarantined
      /\ batch'[b].created = batch[b].created + 1 /\ batch'[b].merged = batch[b].merged
      /\ batch'[b].mine = batch[b].mine \cup {l}
      /\ batch'[b].wrote = Put(batch[b].wrote, l, Row(b))
      /\ batch'[b].held = Put(batch[b].held, l, Row(b))
      /\ batch'[b].links = batch[b].links \cup {<<l, b, batch[b].done + 1>>}
  BY <1>2, <1>3 DEF Shaped, SameFile
<1> QED BY <1>2, <1>4 DEF InsertLead, HasRow

LEMMA MatchMoves ==
  ASSUME Types, NEW b \in Batches, MatchLead(b)
  PROVE  /\ Others(b) /\ SameFile(b) /\ SameCounts(b)
         /\ batch[b].pc = "reading" /\ batch'[b].pc = "merging"
         /\ batch[b].done < Len(batch[b].file)
         /\ batch'[b].mine = batch[b].mine /\ batch'[b].wrote = batch[b].wrote
         /\ batch'[b].links = batch[b].links
         /\ batch'[b].target \in FindMatchingLead(Row(b), Seen(b))
         /\ \E lead \in Loaded(b, batch'[b].target) :
              /\ batch'[b].fill = Fills(Row(b), lead)
              /\ batch'[b].held = Put(batch[b].held, batch'[b].target, Over(lead, Row(b)))
         /\ UNCHANGED <<table, links, deletes, finderVars>>
<1>1. PICK l \in FindMatchingLead(Row(b), Seen(b)) : \E lead \in Loaded(b, l) :
        batch' = [batch EXCEPT ![b] = [batch[b] EXCEPT !.pc = "merging", !.target = l,
                                                       !.fill = Fills(Row(b), lead),
                                                       !.held = Put(@, l, Over(lead, Row(b)))]]
  BY DEF MatchLead
<1>2. PICK lead \in Loaded(b, l) :
        batch' = [batch EXCEPT ![b] = [batch[b] EXCEPT !.pc = "merging", !.target = l,
                                                       !.fill = Fills(Row(b), lead),
                                                       !.held = Put(@, l, Over(lead, Row(b)))]]
  BY <1>1
<1> DEFINE fill == Fills(Row(b), lead)
           held == Put(batch[b].held, l, Over(lead, Row(b)))
<1>3. /\ Others(b)
      /\ batch'[b] = [batch[b] EXCEPT !.pc = "merging", !.target = l, !.fill = fill, !.held = held]
  BY <1>2, BatchUpdate
<1>4. Shaped(batch[b])
  BY DEF Types, BatchOK
<1> HIDE DEF fill, held
<1>5. /\ SameFile(b) /\ SameCounts(b) /\ batch'[b].pc = "merging"
      /\ batch'[b].mine = batch[b].mine /\ batch'[b].wrote = batch[b].wrote
      /\ batch'[b].links = batch[b].links
      /\ batch'[b].target = l /\ batch'[b].fill = fill /\ batch'[b].held = held
  BY <1>3, <1>4 DEF Shaped, SameFile, SameCounts
<1> QED BY <1>3, <1>5 DEF MatchLead, HasRow, fill, held

LEMMA FlushMoves ==
  ASSUME Types, NEW b \in Batches, FlushMerge(b)
  PROVE  /\ Others(b) /\ SameFile(b)
         /\ batch[b].pc = "merging" /\ batch'[b].pc = "reading" /\ ~Deleted(b)
         /\ batch'[b].done = batch[b].done + 1
         /\ batch'[b].quarantined = batch[b].quarantined
         /\ batch'[b].created = batch[b].created /\ batch'[b].merged = batch[b].merged + 1
         /\ batch'[b].mine = batch[b].mine /\ batch'[b].wrote = Filled(b) /\ batch'[b].held = batch[b].held
         /\ batch'[b].links = batch[b].links \cup {<<batch[b].target, b, batch[b].done + 1>>}
         /\ UNCHANGED <<table, links, deletes, finderVars>>
<1>1. /\ Others(b)
      /\ batch'[b] = [batch[b] EXCEPT !.pc = "reading", !.done = @ + 1, !.merged = @ + 1,
                                      !.wrote = Filled(b),
                                      !.links = @ \cup {<<batch[b].target, b, batch[b].done + 1>>}]
  BY BatchUpdate DEF FlushMerge
<1>2. Shaped(batch[b])
  BY DEF Types, BatchOK
<1>3. /\ SameFile(b) /\ batch'[b].pc = "reading"
      /\ batch'[b].done = batch[b].done + 1
      /\ batch'[b].quarantined = batch[b].quarantined
      /\ batch'[b].created = batch[b].created /\ batch'[b].merged = batch[b].merged + 1
      /\ batch'[b].mine = batch[b].mine /\ batch'[b].wrote = Filled(b) /\ batch'[b].held = batch[b].held
      /\ batch'[b].links = batch[b].links \cup {<<batch[b].target, b, batch[b].done + 1>>}
  BY <1>1, <1>2 DEF Shaped, SameFile
<1> QED BY <1>1, <1>3 DEF FlushMerge

LEMMA CommitMoves ==
  ASSUME Types, NEW b \in Batches, CommitBatch(b)
  PROVE  /\ Others(b) /\ SameFile(b) /\ SameCounts(b)
         /\ batch[b].pc = "reading" /\ batch'[b].pc = "completed"
         /\ batch[b].done = Len(batch[b].file)
         /\ batch'[b].mine = batch[b].mine /\ batch'[b].wrote = Nothing /\ batch'[b].held = Nothing
         /\ batch'[b].links = batch[b].links
         /\ table' = Seen(b) /\ links' = links \cup batch[b].links
         /\ UNCHANGED <<deletes, finderVars>>
<1>1. Others(b) /\ batch'[b] = Ended(b, "completed")
  BY BatchUpdate DEF CommitBatch
<1>2. Shaped(batch[b])
  BY DEF Types, BatchOK
<1>3. /\ SameFile(b) /\ SameCounts(b) /\ batch'[b].pc = "completed"
      /\ batch'[b].mine = batch[b].mine /\ batch'[b].wrote = Nothing /\ batch'[b].held = Nothing
      /\ batch'[b].links = batch[b].links
  BY <1>1, <1>2 DEF Ended, Shaped, SameFile, SameCounts
<1> QED BY <1>1, <1>3 DEF CommitBatch

LEMMA RollbackMoves ==
  ASSUME Types, NEW b \in Batches, Rollback(b)
  PROVE  /\ Others(b) /\ SameFile(b) /\ SameCounts(b)
         /\ Open(b) /\ batch'[b].pc = "failed"
         /\ batch'[b].mine = batch[b].mine /\ batch'[b].wrote = Nothing /\ batch'[b].held = Nothing
         /\ batch'[b].links = {}
         /\ UNCHANGED <<table, links, deletes, finderVars>>
<1>1. Others(b) /\ batch'[b] = [Ended(b, "failed") EXCEPT !.links = {}]
  BY BatchUpdate DEF Rollback
<1>2. Shaped(batch[b])
  BY DEF Types, BatchOK
<1>3. /\ SameFile(b) /\ SameCounts(b) /\ batch'[b].pc = "failed"
      /\ batch'[b].mine = batch[b].mine /\ batch'[b].wrote = Nothing /\ batch'[b].held = Nothing
      /\ batch'[b].links = {}
  BY <1>1, <1>2 DEF Ended, Shaped, SameFile, SameCounts
<1> QED BY <1>1, <1>3 DEF Rollback

(* Every step of an upload that has begun is one of these. *)
BatchStep(b) == Quarantine(b) \/ InsertLead(b) \/ MatchLead(b) \/ FlushMerge(b)
                  \/ CommitBatch(b) \/ Rollback(b)

FinderStep == \/ \E l \in Ids, email \in Found : ReadResult(l, email) \/ WriteResult(l, email)
              \/ \E l \in Ids : Requeue(l)

LEMMA NextIs ==
  ASSUME [Next]_vars
  PROVE  \/ \E b \in Batches, file \in Files : Upload(b, file)
         \/ \E b \in Batches : BatchStep(b)
         \/ \E l \in Ids : DeleteLead(l)
         \/ FinderStep
         \/ UNCHANGED vars
BY DEF Next, Step, BatchStep, BreakDeadlock, FailDeleted, FinderStep

-----------------------------------------------------------------------------
(* Types *)

LEMMA RowOf ==
  ASSUME Types, NEW b \in Batches, batch[b].done < Len(batch[b].file)
  PROVE  /\ RowOK(Row(b))
         /\ batch[b].file \in Files
         /\ batch[b].done \in Nat /\ Len(batch[b].file) \in Nat
<1>1. /\ batch[b].file \in Files \/ batch[b].file = <<>>
      /\ batch[b].done \in 0 .. Len(batch[b].file)
  BY DEF Types, BatchOK
<1>2. batch[b].file \in Files
  BY <1>1
<1> DEFINE file == batch[b].file
           row == file[batch[b].done + 1]
<1>3. file \in Seq({file[i] : i \in DOMAIN file})
  BY <1>2, FilesAssumption
<1>4. DOMAIN file = 1 .. Len(file) /\ Len(file) \in Nat
  BY <1>3
<1>5. batch[b].done + 1 \in DOMAIN file
  BY <1>1, <1>4
<1>6. DOMAIN row \subseteq Fields \ {"identity_key"} /\ \A f \in DOMAIN row : row[f] \in Values
  BY <1>2, <1>5, FilesAssumption
<1>7. RowOK(Canonical(row))
  BY <1>6, CanonicalIsOK
<1> QED BY <1>1, <1>2, <1>4, <1>7 DEF Row

LEMMA WrittenIsOK ==
  ASSUME Types, NEW b \in Batches, NEW l
  PROVE  RowOK(Written(b, l))
<1>1. l \in Wrote(b) => RowOK(batch[b].wrote[l])
  BY DEF Types, BatchOK
<1> QED BY <1>1, NothingIsRow DEF Written

LEMMA SeenIsOK ==
  ASSUME Types, NEW b \in Batches
  PROVE  /\ DOMAIN Seen(b) = DOMAIN table \cup batch[b].mine
         /\ DOMAIN Seen(b) \subseteq Ids
         /\ \A l \in DOMAIN Seen(b) : LeadOK(Seen(b)[l])
<1>1. DOMAIN Seen(b) = DOMAIN table \cup batch[b].mine
  BY DEF Seen
<1>2. DOMAIN table \cup batch[b].mine \subseteq Ids
  BY DEF Types, BatchOK
<1>3. ASSUME NEW l \in DOMAIN Seen(b)
      PROVE  LeadOK(Seen(b)[l])
  <2>1. Seen(b)[l] = Over(Written(b, l), Stored(l))
    BY <1>1 DEF Seen
  <2>2. LeadOK(Stored(l))
    BY NothingIsOK DEF Stored, Types
  <2>3. LeadOK(Written(b, l))
    BY WrittenIsOK DEF RowOK
  <2> QED BY <2>1, <2>2, <2>3, OverIsOK
<1> QED BY <1>1, <1>2, <1>3

LEMMA LoadedIsOK ==
  ASSUME Types, NEW b \in Batches, NEW l \in DOMAIN Seen(b), NEW lead \in Loaded(b, l)
  PROVE  LeadOK(lead)
<1>1. l \in DOMAIN batch[b].held => LeadOK(batch[b].held[l])
  BY DEF Types, BatchOK
<1> QED BY <1>1, SeenIsOK DEF Loaded

LEMMA FillsIsOK ==
  ASSUME NEW row, NEW lead, RowOK(row)
  PROVE  RowOK(Fills(row, lead))
BY DEF RowOK, LeadOK, FromFinder, Fills

(* What another upload does leaves this one as it was. *)
LEMMA OthersOK ==
  ASSUME Types, NEW b \in Batches, Others(b)
  PROVE  \A c \in Batches \ {b} : BatchOK(c)'
BY DEF Types, Others, BatchOK, Wrote

LEMMA PutIsOK ==
  ASSUME NEW f, NEW x \in Ids, NEW v, DOMAIN f \subseteq Ids
  PROVE  /\ DOMAIN Put(f, x, v) \subseteq Ids
         /\ LeadOK(v) /\ (\A y \in DOMAIN f : LeadOK(f[y]))
              => \A y \in DOMAIN Put(f, x, v) : LeadOK(Put(f, x, v)[y])
         /\ RowOK(v) /\ (\A y \in DOMAIN f : RowOK(f[y]))
              => \A y \in DOMAIN Put(f, x, v) : RowOK(Put(f, x, v)[y])
BY DEF Put

LEMMA TypesInit == Init => Types
<1> SUFFICES ASSUME Init PROVE Types
  OBVIOUS
<1>1. \A b \in Batches : batch[b] = NoBatch
  BY DEF Init
<1>2. ASSUME NEW b \in Batches PROVE BatchOK(b)
  <2>1. /\ batch[b].pc = "new" /\ batch[b].file = <<>> /\ batch[b].done = 0
        /\ batch[b].mine = {} /\ batch[b].wrote = Nothing /\ batch[b].held = Nothing
        /\ batch[b].links = {} /\ batch[b].alone = TRUE /\ batch[b].quarantined = 0 /\ batch[b].created = 0
        /\ batch[b].merged = 0 /\ Shaped(batch[b])
    BY <1>1 DEF NoBatch, Shaped
  <2>2. Wrote(b) = {} /\ DOMAIN batch[b].held = {}
    BY <2>1, NothingIsEmpty DEF Wrote
  <2>3. batch[b].done \in 0 .. Len(batch[b].file)
    BY <2>1
  <2>4. batch[b].alone \in BOOLEAN
    BY <2>1
  <2>5. {batch[b].quarantined, batch[b].created, batch[b].merged} \subseteq Nat
    BY <2>1
  <2>6. /\ batch[b].mine \cup Wrote(b) \cup DOMAIN batch[b].held \subseteq Ids
        /\ batch[b].links \subseteq Ids \X Batches \X Nat
    BY <2>1, <2>2
  <2>7. batch[b].pc = "new" /\ batch[b].file = <<>> /\ Shaped(batch[b])
    BY <2>1
  <2> QED BY <2>7, <2>2, <2>3, <2>4, <2>5, <2>6 DEF BatchOK
<1>3. /\ table = Nothing /\ links = {} /\ deletes = 0
      /\ batch = [b \in Batches |-> batch[b]]
  BY DEF Init
<1>4. DOMAIN table = {}
  BY <1>3, NothingIsEmpty
<1>5. /\ deletes \in 0 .. MaxDeletes /\ finds \in 0 .. MaxFinds /\ requeues \in 0 .. MaxRequeues
      /\ finding = {} /\ earned = {}
  BY BoundsAssumption DEF Init
<1> QED BY <1>2, <1>3, <1>4, <1>5 DEF Types

LEMMA BatchStepOK ==
  ASSUME Types, NEW b \in Batches, BatchStep(b)
  PROVE  BatchOK(b)' /\ Others(b)
<1>0. BatchOK(b)
  BY DEF Types
<1>1. CASE Quarantine(b)
  <2>1. /\ Others(b) /\ SameFile(b)
        /\ batch[b].pc = "reading" /\ batch'[b].pc = "reading"
        /\ batch[b].done < Len(batch[b].file) /\ batch'[b].done = batch[b].done + 1
        /\ batch'[b].quarantined = batch[b].quarantined + 1
        /\ batch'[b].created = batch[b].created /\ batch'[b].merged = batch[b].merged
        /\ batch'[b].mine = batch[b].mine /\ batch'[b].wrote = batch[b].wrote /\ batch'[b].held = batch[b].held
        /\ batch'[b].links = batch[b].links
    BY <1>1, QuarantineMoves
  <2>2. batch'[b].done \in 0 .. Len(batch'[b].file)
    BY <2>1, RowOf DEF SameFile
  <2> QED BY <1>0, <2>1, <2>2 DEF BatchOK, SameFile, Wrote
<1>2. CASE InsertLead(b)
  <2>1. /\ Others(b) /\ SameFile(b)
        /\ batch[b].pc = "reading" /\ batch'[b].pc = "reading"
        /\ batch[b].done < Len(batch[b].file) /\ batch'[b].done = batch[b].done + 1
        /\ batch'[b].quarantined = batch[b].quarantined
        /\ batch'[b].created = batch[b].created + 1 /\ batch'[b].merged = batch[b].merged
    BY <1>2, InsertMoves
  <2>2. PICK l \in Ids \ Used :
          /\ batch'[b].mine = batch[b].mine \cup {l}
          /\ batch'[b].wrote = Put(batch[b].wrote, l, Row(b))
          /\ batch'[b].held = Put(batch[b].held, l, Row(b))
          /\ batch'[b].links = batch[b].links \cup {<<l, b, batch[b].done + 1>>}
    BY <1>2, InsertMoves
  <2>3. batch'[b].done \in 0 .. Len(batch'[b].file) /\ batch[b].done + 1 \in Nat /\ RowOK(Row(b))
    BY <2>1, RowOf DEF SameFile
  <2>4. Wrote(b)' \subseteq Ids /\ \A k \in Wrote(b)' : RowOK(batch'[b].wrote[k])
    BY <1>0, <2>2, <2>3, PutIsOK DEF BatchOK, Wrote
  <2>6. /\ DOMAIN batch'[b].held \subseteq Ids
        /\ \A k \in DOMAIN batch'[b].held : LeadOK(batch'[b].held[k])
    BY <1>0, <2>2, <2>3, PutIsOK DEF BatchOK, RowOK
  <2>5. batch'[b].links \subseteq Ids \X Batches \X Nat
    BY <1>0, <2>2, <2>3 DEF BatchOK
  <2> QED BY <1>0, <2>1, <2>2, <2>3, <2>4, <2>5, <2>6 DEF BatchOK, SameFile
<1>3. CASE MatchLead(b)
  <2>1. /\ Others(b) /\ SameFile(b) /\ SameCounts(b)
        /\ batch[b].pc = "reading" /\ batch'[b].pc = "merging"
        /\ batch[b].done < Len(batch[b].file)
        /\ batch'[b].mine = batch[b].mine /\ batch'[b].wrote = batch[b].wrote
        /\ batch'[b].links = batch[b].links
        /\ batch'[b].target \in FindMatchingLead(Row(b), Seen(b))
    BY <1>3, MatchMoves
  <2>2. batch'[b].target \in Ids /\ batch'[b].target \in DOMAIN Seen(b)
    BY <2>1, SeenIsOK DEF FindMatchingLead
  <2>3. PICK lead \in Loaded(b, batch'[b].target) :
          /\ batch'[b].fill = Fills(Row(b), lead)
          /\ batch'[b].held = Put(batch[b].held, batch'[b].target, Over(lead, Row(b)))
    BY <1>3, MatchMoves
  <2>4. RowOK(Row(b)) /\ LeadOK(lead)
    BY <2>1, <2>2, RowOf, LoadedIsOK
  <2>5. RowOK(batch'[b].fill)
    BY <2>3, <2>4, FillsIsOK
  <2>6. /\ DOMAIN batch'[b].held \subseteq Ids
        /\ \A k \in DOMAIN batch'[b].held : LeadOK(batch'[b].held[k])
    <3>1. LeadOK(Over(lead, Row(b)))
      BY <2>4, OverIsOK DEF RowOK
    <3> QED BY <1>0, <2>2, <2>3, <3>1, PutIsOK DEF BatchOK
  <2> QED BY <1>0, <2>1, <2>2, <2>5, <2>6 DEF BatchOK, SameFile, SameCounts, Wrote
<1>4. CASE FlushMerge(b)
  <2>1. /\ Others(b) /\ SameFile(b)
        /\ batch[b].pc = "merging" /\ batch'[b].pc = "reading"
        /\ batch'[b].done = batch[b].done + 1
        /\ batch'[b].quarantined = batch[b].quarantined
        /\ batch'[b].created = batch[b].created /\ batch'[b].merged = batch[b].merged + 1
        /\ batch'[b].mine = batch[b].mine /\ batch'[b].wrote = Filled(b)
        /\ batch'[b].held = batch[b].held
        /\ batch'[b].links = batch[b].links \cup {<<batch[b].target, b, batch[b].done + 1>>}
    BY <1>4, FlushMoves
  <2>2. /\ batch[b].done < Len(batch[b].file) /\ batch[b].target \in Ids /\ RowOK(batch[b].fill)
    BY <1>0, <2>1 DEF BatchOK
  <2>3. batch'[b].done \in 0 .. Len(batch'[b].file) /\ batch[b].done + 1 \in Nat
    BY <2>1, <2>2, RowOf DEF SameFile
  <2>4. RowOK(Over(batch[b].fill, Written(b, batch[b].target)))
    BY <2>2, WrittenIsOK, OverIsRow
  <2>5. Wrote(b) \subseteq Ids /\ \A k \in Wrote(b) : RowOK(batch[b].wrote[k])
    BY <1>0 DEF BatchOK
  <2>6. Wrote(b)' \subseteq Ids /\ \A k \in Wrote(b)' : RowOK(batch'[b].wrote[k])
    <3>1. CASE batch[b].fill = Nothing
      BY <2>1, <2>5, <3>1 DEF Filled, Wrote
    <3>2. CASE batch[b].fill # Nothing
      <4>1. batch'[b].wrote = Put(batch[b].wrote, batch[b].target,
                                  Over(batch[b].fill, Written(b, batch[b].target)))
        BY <2>1, <3>2 DEF Filled
      <4> QED BY <2>2, <2>4, <2>5, <4>1, PutIsOK DEF Wrote
    <3> QED BY <3>1, <3>2
  <2>7. batch'[b].links \subseteq Ids \X Batches \X Nat
    BY <1>0, <2>1, <2>2, <2>3 DEF BatchOK
  <2> QED BY <1>0, <2>1, <2>3, <2>6, <2>7 DEF BatchOK, SameFile
<1>5. CASE CommitBatch(b)
  <2>1. /\ Others(b) /\ SameFile(b) /\ SameCounts(b)
        /\ batch'[b].pc = "completed"
        /\ batch[b].done = Len(batch[b].file)
        /\ batch'[b].mine = batch[b].mine /\ batch'[b].wrote = Nothing /\ batch'[b].held = Nothing
        /\ batch'[b].links = batch[b].links
        /\ batch[b].pc = "reading"
    BY <1>5, CommitMoves
  <2>2. Wrote(b)' = {} /\ DOMAIN batch'[b].held = {}
    BY <2>1, NothingIsEmpty DEF Wrote
  <2> QED BY <1>0, <2>1, <2>2 DEF BatchOK, SameFile, SameCounts
<1>6. CASE Rollback(b)
  <2>1. /\ Others(b) /\ SameFile(b) /\ SameCounts(b)
        /\ batch[b].pc \in {"reading", "merging"} /\ batch'[b].pc = "failed"
        /\ batch'[b].mine = batch[b].mine /\ batch'[b].wrote = Nothing /\ batch'[b].held = Nothing
        /\ batch'[b].links = {}
    BY <1>6, RollbackMoves DEF Open
  <2>2. Wrote(b)' = {} /\ DOMAIN batch'[b].held = {}
    BY <2>1, NothingIsEmpty DEF Wrote
  <2> QED BY <1>0, <2>1, <2>2 DEF BatchOK, SameFile, SameCounts
<1> QED BY <1>1, <1>2, <1>3, <1>4, <1>5, <1>6 DEF BatchStep

LEMMA UploadOK ==
  ASSUME Types, NEW b \in Batches, NEW file \in Files, Upload(b, file)
  PROVE  Types'
<1>1. /\ batch' = [c \in Batches |-> batch'[c]]
      /\ batch'[b].pc = "reading"
      /\ Shaped(batch'[b]) /\ batch'[b].file = file
      /\ batch'[b].mine = {} /\ batch'[b].wrote = Nothing /\ batch'[b].held = Nothing
      /\ batch'[b].links = {} /\ batch'[b].done = 0 /\ batch'[b].quarantined = 0
      /\ batch'[b].created = 0 /\ batch'[b].merged = 0
      /\ batch'[b].alone \in BOOLEAN
      /\ UNCHANGED <<table, links, deletes, finderVars>>
  BY UploadMoves
<1>2. Wrote(b)' = {} /\ DOMAIN batch'[b].held = {}
  BY <1>1, NothingIsEmpty DEF Wrote
<1>3. Len(file) \in Nat
  BY FilesAssumption
<1>4. BatchOK(b)'
  BY <1>1, <1>2, <1>3 DEF BatchOK
<1>5. ASSUME NEW c \in Batches \ {b} PROVE BatchOK(c)'
  <2>1. /\ Shaped(batch'[c])
        /\ batch'[c].pc = batch[c].pc /\ batch'[c].file = batch[c].file
        /\ batch'[c].mine = batch[c].mine /\ batch'[c].wrote = batch[c].wrote
        /\ batch'[c].links = batch[c].links /\ batch'[c].done = batch[c].done
        /\ batch'[c].held = batch[c].held /\ batch'[c].target = batch[c].target
        /\ batch'[c].fill = batch[c].fill
        /\ batch'[c].quarantined = batch[c].quarantined
        /\ batch'[c].created = batch[c].created /\ batch'[c].merged = batch[c].merged
        /\ batch'[c].alone \in BOOLEAN
    BY UploadMoves
  <2>2. BatchOK(c)
    BY DEF Types
  <2> QED BY <2>1, <2>2 DEF BatchOK, Wrote
<1> QED BY <1>1, <1>4, <1>5 DEF Types, finderVars

(* What a step of the finder may do to a lead: write the email it has earned, or take away
   one of its own, when no upload has written the lead.                                  *)
FinderTouches(l) ==
  /\ table'[l] # table[l] => ~Locked(l) /\ (Earned(l)' \/ FromFinder(table[l]))
  /\ FromFinder(table'[l]) => FromFinder(table[l]) \/ Earned(l)'
  /\ DOMAIN table[l] \subseteq DOMAIN table'[l] \cup EmailFields
  /\ \A f \in DOMAIN table[l] \ EmailFields : table'[l][f] = table[l][f]
  /\ DOMAIN table'[l] \subseteq DOMAIN table[l] \cup EmailFields
  /\ "email" \in DOMAIN table'[l] =>
       \/ "email" \in DOMAIN table[l] /\ table'[l]["email"] = table[l]["email"]
       \/ <<l, table'[l]["email"]>> \in earned'

LEMMA WriteMoves ==
  ASSUME Types, NEW l \in Ids, NEW email \in Found, WriteResult(l, email)
  PROVE  /\ DOMAIN table' = DOMAIN table
         /\ \A k \in DOMAIN table : FinderTouches(k) /\ LeadOK(table'[k])
<1> DEFINE half == Put(table[l], "email", email)
           new == Put(half, "email_source", Finder)
<1>1. /\ table' = Put(table, l, new) /\ l \in DOMAIN table
      /\ ~Locked(l) /\ earned' = earned \cup {<<l, email>>}
  BY DEF WriteResult
<1>2. /\ DOMAIN half = DOMAIN table[l] \cup {"email"} /\ half["email"] = email
      /\ \A f \in DOMAIN table[l] \ {"email"} : half[f] = table[l][f]
  BY DEF Put
<1>3. /\ DOMAIN new = DOMAIN half \cup {"email_source"} /\ new["email_source"] = Finder
      /\ \A f \in DOMAIN half \ {"email_source"} : new[f] = half[f]
  BY DEF Put
<1> HIDE DEF half, new
<1>4. /\ DOMAIN new = DOMAIN table[l] \cup EmailFields /\ new["email"] = email
      /\ \A f \in DOMAIN table[l] \ EmailFields : new[f] = table[l][f]
  BY <1>2, <1>3 DEF EmailFields
<1>5. DOMAIN table' = DOMAIN table /\ table'[l] = new /\ \A k \in DOMAIN table \ {l} : table'[k] = table[k]
  <2>1. DOMAIN table' = DOMAIN table \cup {l} /\ table'[l] = new
        /\ \A k \in DOMAIN table \ {l} : table'[k] = table[k]
    BY <1>1 DEF Put
  <2> QED BY <1>1, <2>1
<1>6. LeadOK(new)
  <2>1. EmailFields \subseteq Fields /\ email \in Values
    BY MatchOrderIs, FinderAssumption DEF EmailFields, Fields
  <2>2. LeadOK(table[l])
    BY <1>1 DEF Types
  <2>3. DOMAIN new \subseteq Fields
    BY <1>4, <2>1, <2>2 DEF LeadOK
  <2>4. new["email"] \in Values /\ new["email_source"] = Finder
    BY <1>3, <1>4, <2>1
  <2>5. \A f \in DOMAIN new \ EmailFields :
          /\ f = "identity_key" => new[f] \in Values \X Values
          /\ f # "identity_key" => new[f] \in Values
    BY <1>4, <2>2 DEF LeadOK, EmailFields
  <2>6. \A f \in EmailFields : f # "identity_key" /\ (f = "email" \/ f = "email_source")
    BY DEF EmailFields
  <2> QED BY <2>3, <2>4, <2>5, <2>6, IsLead
<1>7. <<l, email>> \in earned' /\ Earned(l)'
  <2>1. <<l, email>> \in earned' /\ <<l, email>>[1] = l
    BY <1>1
  <2> QED BY <2>1 DEF Earned
<1>8. FinderTouches(l)
  BY <1>1, <1>4, <1>5, <1>7 DEF FinderTouches
<1>9. \A k \in DOMAIN table \ {l} : FinderTouches(k) /\ LeadOK(table'[k])
  BY <1>5 DEF FinderTouches, Types
<1> QED BY <1>5, <1>6, <1>8, <1>9

LEMMA RequeueMoves ==
  ASSUME Types, NEW l \in Ids, Requeue(l)
  PROVE  /\ DOMAIN table' = DOMAIN table
         /\ \A k \in DOMAIN table : FinderTouches(k) /\ LeadOK(table'[k])
<1> DEFINE new == Cleared(table[l])
<1>1. /\ table' = Put(table, l, new) /\ l \in DOMAIN table
      /\ ~Locked(l) /\ FromFinder(table[l])
  BY DEF Requeue
<1>2. DOMAIN new = DOMAIN table[l] \ EmailFields /\ \A f \in DOMAIN new : new[f] = table[l][f]
  BY DEF Cleared, EmailFields
<1> HIDE DEF new
<1>3. DOMAIN table' = DOMAIN table /\ table'[l] = new /\ \A k \in DOMAIN table \ {l} : table'[k] = table[k]
  <2>1. DOMAIN table' = DOMAIN table \cup {l} /\ table'[l] = new
        /\ \A k \in DOMAIN table \ {l} : table'[k] = table[k]
    BY <1>1 DEF Put
  <2> QED BY <1>1, <2>1
<1>4. LeadOK(new)
  BY <1>1, <1>2 DEF LeadOK, Types
<1>5. FinderTouches(l)
  BY <1>1, <1>2, <1>3 DEF FinderTouches, EmailFields
<1>6. \A k \in DOMAIN table \ {l} : FinderTouches(k) /\ LeadOK(table'[k])
  BY <1>3 DEF FinderTouches, Types
<1> QED BY <1>3, <1>4, <1>5, <1>6

LEMMA FinderMoves ==
  ASSUME Types, FinderStep
  PROVE  /\ UNCHANGED <<links, batch, deletes>>
         /\ DOMAIN table' = DOMAIN table /\ earned \subseteq earned'
         /\ \A l \in DOMAIN table : FinderTouches(l)
         /\ Types'
<1> DEFINE Claim == /\ UNCHANGED <<links, batch, deletes>>
                    /\ DOMAIN table' = DOMAIN table /\ earned \subseteq earned'
                    /\ \A l \in DOMAIN table : FinderTouches(l)
                    /\ Types'
<1>0. UNCHANGED batch => \A b \in Batches : BatchOK(b)'
  BY DEF Types, BatchOK, Wrote
<1>1. ASSUME NEW l \in Ids, NEW email \in Found, ReadResult(l, email) PROVE Claim
  <2>1. /\ UNCHANGED <<table, links, batch, deletes, earned, requeues>>
        /\ finding' = finding \cup {<<l, email>>} /\ finds < MaxFinds /\ finds' = finds + 1
    BY <1>1 DEF ReadResult
  <2>2. finds' \in 0 .. MaxFinds
    BY <2>1, BoundsAssumption DEF Types
  <2>3. Types'
    BY <1>0, <2>1, <2>2 DEF Types
  <2>4. \A k \in DOMAIN table : FinderTouches(k)
    BY <2>1 DEF FinderTouches
  <2> QED BY <2>1, <2>3, <2>4
<1>2. ASSUME NEW l \in Ids, NEW email \in Found, WriteResult(l, email) PROVE Claim
  <2>1. /\ UNCHANGED <<links, batch, deletes, finds, requeues>>
        /\ finding' \subseteq finding /\ earned' = earned \cup {<<l, email>>}
    BY <1>2 DEF WriteResult
  <2>2. /\ DOMAIN table' = DOMAIN table
        /\ \A k \in DOMAIN table : FinderTouches(k) /\ LeadOK(table'[k])
    BY <1>2, WriteMoves
  <2>3. Types'
    BY <1>0, <2>1, <2>2 DEF Types
  <2> QED BY <2>1, <2>2, <2>3
<1>3. ASSUME NEW l \in Ids, Requeue(l) PROVE Claim
  <2>1. /\ UNCHANGED <<links, batch, deletes, finding, earned, finds>>
        /\ requeues < MaxRequeues /\ requeues' = requeues + 1
    BY <1>3 DEF Requeue
  <2>2. /\ DOMAIN table' = DOMAIN table
        /\ \A k \in DOMAIN table : FinderTouches(k) /\ LeadOK(table'[k])
    BY <1>3, RequeueMoves
  <2>3. requeues' \in 0 .. MaxRequeues
    BY <2>1, BoundsAssumption DEF Types
  <2>4. Types'
    BY <1>0, <2>1, <2>2, <2>3 DEF Types
  <2> QED BY <2>1, <2>2, <2>4
<1> HIDE DEF Claim
<1>4. Claim
  BY <1>1, <1>2, <1>3 DEF FinderStep
<1> QED BY <1>4 DEF Claim

LEMMA TypesStep == Types /\ [Next]_vars => Types'
<1> SUFFICES ASSUME Types, [Next]_vars PROVE Types'
  OBVIOUS
<1>1. ASSUME NEW b \in Batches, NEW file \in Files, Upload(b, file) PROVE Types'
  BY <1>1, UploadOK
<1>2. ASSUME NEW b \in Batches, BatchStep(b) PROVE Types'
  <2>1. BatchOK(b)' /\ Others(b)
    BY <1>2, BatchStepOK
  <2>2. \A c \in Batches : BatchOK(c)'
    BY <2>1, OthersOK
  <2>3. CASE CommitBatch(b)
    <3>1. /\ table' = Seen(b) /\ links' = links \cup batch[b].links
          /\ UNCHANGED <<deletes, finderVars>>
      BY <2>3, CommitMoves
    <3>2. batch[b].links \subseteq Ids \X Batches \X Nat
      BY DEF Types, BatchOK
    <3> QED BY <2>1, <2>2, <3>1, <3>2, SeenIsOK DEF Types, Others, finderVars
  <2>4. CASE ~CommitBatch(b)
    <3>1. UNCHANGED <<table, links, deletes, finderVars>>
      BY <1>2, <2>4, QuarantineMoves, InsertMoves, MatchMoves, FlushMoves, RollbackMoves
         DEF BatchStep
    <3> QED BY <2>1, <2>2, <3>1 DEF Types, Others, finderVars
  <2> QED BY <2>3, <2>4
<1>3. ASSUME NEW l \in Ids, DeleteLead(l) PROVE Types'
  <2>1. /\ deletes < MaxDeletes /\ deletes' = deletes + 1
        /\ table' = [k \in DOMAIN table \ {l} |-> table[k]]
        /\ links' \subseteq links /\ UNCHANGED <<batch, finderVars>>
    BY <1>3 DEF DeleteLead
  <2>2. deletes' \in 0 .. MaxDeletes
    BY <2>1, BoundsAssumption DEF Types
  <2>3. \A b \in Batches : BatchOK(b)'
    BY <2>1 DEF Types, BatchOK, Wrote
  <2> QED BY <2>1, <2>2, <2>3 DEF Types, finderVars
<1>4. CASE FinderStep
  BY <1>4, FinderMoves
<1>5. CASE UNCHANGED vars
  BY <1>5 DEF vars, finderVars, Types, BatchOK, Wrote
<1> QED BY <1>1, <1>2, <1>3, <1>4, <1>5, NextIs

LEMMA TypesAlways == Spec => []Types
BY TypesInit, TypesStep, PTL DEF Spec

(* An upload is never further than its file, and what it holds for a lead are fields and
   values of a lead, whatever the files, the ids and the number of uploads.           *)
THEOREM TypesHold == Spec => []TypeOK
<1>1. Types => TypeOK
  BY DEF Types, TypeOK, BatchOK, RowOK
<1> QED BY <1>1, TypesAlways, PTL

-----------------------------------------------------------------------------
(* Provenance *)

LEMMA SameAccounts ==
  ASSUME NEW b \in Batches, Accounts(b),
         batch'[b].links = batch[b].links, batch'[b].done = batch[b].done,
         batch'[b].created = batch[b].created, batch'[b].merged = batch[b].merged,
         batch'[b].quarantined = batch[b].quarantined, batch'[b].mine = batch[b].mine,
         batch'[b].pc = "failed" <=> batch[b].pc = "failed"
  PROVE  Accounts(b)'
BY DEF Accounts

(* The next row's link: of this upload, of a row that has none yet. *)
LEMMA AddLink ==
  ASSUME Types, NEW b \in Batches, Accounts(b), NEW l \in Ids,
         batch[b].pc # "failed",
         batch'[b].done = batch[b].done + 1,
         batch'[b].links = batch[b].links \cup {<<l, b, batch[b].done + 1>>}
  PROVE  /\ \A x \in batch'[b].links : x[2] = b /\ x[3] \in 1 .. batch'[b].done
         /\ \A x, y \in batch'[b].links : x[3] = y[3] => x = y
         /\ IsFiniteSet(batch'[b].links)
         /\ Cardinality(batch'[b].links) = batch[b].created + batch[b].merged + 1
<1> DEFINE new == <<l, b, batch[b].done + 1>>
<1>1. batch[b].done \in Nat /\ batch[b].created \in Nat /\ batch[b].merged \in Nat
  <2>1. batch[b].done \in 0 .. Len(batch[b].file) /\ {batch[b].created, batch[b].merged} \subseteq Nat
    BY DEF Types, BatchOK
  <2>2. 0 .. Len(batch[b].file) \subseteq Nat
    BY FilesAssumption DEF Types, BatchOK
  <2> QED BY <2>1, <2>2
<1>2. /\ new[2] = b /\ new[3] = batch[b].done + 1
      /\ \A x \in batch[b].links : x[2] = b /\ x[3] \in 1 .. batch[b].done
  BY DEF Accounts
<1>3. new \notin batch[b].links
  BY <1>1, <1>2
<1>4. /\ IsFiniteSet(batch'[b].links)
      /\ Cardinality(batch'[b].links) = Cardinality(batch[b].links) + 1
  <2> DEFINE S == batch[b].links
  <2>1. IsFiniteSet(S) /\ new \notin S /\ batch'[b].links = S \cup {new}
    BY <1>3 DEF Accounts
  <2> HIDE DEF S, new
  <2>2. IsFiniteSet(S \cup {new}) /\ Cardinality(S \cup {new}) = Cardinality(S) + 1
    BY <2>1, FS_AddElement
  <2> QED BY <2>1, <2>2 DEF S
<1>5. \A x \in batch'[b].links : x[2] = b /\ x[3] \in 1 .. batch'[b].done
  BY <1>1, <1>2
<1>6. \A x, y \in batch'[b].links : x[3] = y[3] => x = y
  BY <1>1, <1>2 DEF Accounts
<1> QED BY <1>1, <1>4, <1>5, <1>6 DEF Accounts

LEMMA OneMore ==
  ASSUME NEW c \in Nat, NEW m \in Nat, NEW q \in Nat, NEW d, c + m + q = d
  PROVE  /\ (c + 1) + m + q = d + 1 /\ c + (m + 1) + q = d + 1 /\ c + m + (q + 1) = d + 1
         /\ c + m + 1 = (c + 1) + m /\ c + m + 1 = c + (m + 1)
OBVIOUS

LEMMA AccountsStep ==
  ASSUME Types, NEW b \in Batches, Accounts(b), BatchStep(b)
  PROVE  Accounts(b)'
<1>0. /\ batch[b].quarantined \in Nat /\ batch[b].created \in Nat /\ batch[b].merged \in Nat
      /\ batch[b].done \in 0 .. Len(batch[b].file)
      /\ batch[b].created + batch[b].merged + batch[b].quarantined = batch[b].done
  BY DEF Types, BatchOK, Accounts
<1>sums. /\ (batch[b].created + 1) + batch[b].merged + batch[b].quarantined = batch[b].done + 1
      /\ batch[b].created + (batch[b].merged + 1) + batch[b].quarantined = batch[b].done + 1
      /\ batch[b].created + batch[b].merged + (batch[b].quarantined + 1) = batch[b].done + 1
      /\ batch[b].created + batch[b].merged + 1 = (batch[b].created + 1) + batch[b].merged
      /\ batch[b].created + batch[b].merged + 1 = batch[b].created + (batch[b].merged + 1)
  <2>1. /\ batch[b].quarantined \in Nat /\ batch[b].created \in Nat /\ batch[b].merged \in Nat
        /\ batch[b].created + batch[b].merged + batch[b].quarantined = batch[b].done
    BY <1>0
  <2> QED BY ONLY <2>1, OneMore
<1>1. CASE Quarantine(b)
  <2>1. /\ batch[b].pc = "reading" /\ batch'[b].pc = "reading"
        /\ batch[b].done < Len(batch[b].file) /\ batch'[b].done = batch[b].done + 1
        /\ batch'[b].quarantined = batch[b].quarantined + 1
        /\ batch'[b].created = batch[b].created /\ batch'[b].merged = batch[b].merged
        /\ batch'[b].mine = batch[b].mine /\ batch'[b].links = batch[b].links
    BY <1>1, QuarantineMoves
  <2>2. batch[b].done \in Nat
    BY <2>1, RowOf
  <2>3. batch'[b].created + batch'[b].merged + batch'[b].quarantined = batch'[b].done
    BY <1>sums, <2>1
  <2>4. \A x \in batch'[b].links : x[2] = b /\ x[3] \in 1 .. batch'[b].done
    BY <2>1, <2>2 DEF Accounts
  <2> QED BY <2>1, <2>3, <2>4 DEF Accounts
<1>2. CASE InsertLead(b)
  <2>1. /\ batch[b].pc = "reading" /\ batch'[b].pc = "reading"
        /\ batch[b].done < Len(batch[b].file) /\ batch'[b].done = batch[b].done + 1
        /\ batch'[b].quarantined = batch[b].quarantined
        /\ batch'[b].created = batch[b].created + 1 /\ batch'[b].merged = batch[b].merged
    BY <1>2, InsertMoves
  <2>2. PICK l \in Ids : /\ batch'[b].mine = batch[b].mine \cup {l}
                         /\ batch'[b].links = batch[b].links \cup {<<l, b, batch[b].done + 1>>}
    BY <1>2, InsertMoves
  <2>3. batch[b].done \in Nat
    BY <2>1, RowOf
  <2>4. batch'[b].created + batch'[b].merged + batch'[b].quarantined = batch'[b].done
    BY <1>sums, <2>1
  <2>5. /\ \A x \in batch'[b].links : x[2] = b /\ x[3] \in 1 .. batch'[b].done
        /\ \A x, y \in batch'[b].links : x[3] = y[3] => x = y
        /\ IsFiniteSet(batch'[b].links)
        /\ Cardinality(batch'[b].links) = batch[b].created + batch[b].merged + 1
    BY <2>1, <2>2, AddLink
  <2>6. Cardinality(batch'[b].links) = batch'[b].created + batch'[b].merged
    BY <1>sums, <2>1, <2>5
  <2>7. \A k \in batch'[b].mine : \E x \in batch'[b].links : x[1] = k
    <3>1. \A k \in batch[b].mine : \E x \in batch[b].links : x[1] = k
      BY <2>1 DEF Accounts
    <3>2. <<l, b, batch[b].done + 1>>[1] = l
      OBVIOUS
    <3> QED BY <2>2, <3>1, <3>2
  <2> QED BY <2>4, <2>5, <2>6, <2>7 DEF Accounts
<1>3. CASE MatchLead(b)
  BY <1>3, MatchMoves, SameAccounts DEF SameCounts
<1>4. CASE FlushMerge(b)
  <2>1. /\ batch[b].pc = "merging" /\ batch'[b].pc = "reading"
        /\ batch'[b].done = batch[b].done + 1
        /\ batch'[b].quarantined = batch[b].quarantined
        /\ batch'[b].created = batch[b].created /\ batch'[b].merged = batch[b].merged + 1
        /\ batch'[b].mine = batch[b].mine
        /\ batch'[b].links = batch[b].links \cup {<<batch[b].target, b, batch[b].done + 1>>}
    BY <1>4, FlushMoves
  <2>2. batch[b].target \in Ids /\ batch[b].done < Len(batch[b].file)
    BY <2>1 DEF Types, BatchOK
  <2>3. batch[b].done \in Nat
    BY <2>2, RowOf
  <2>4. batch'[b].created + batch'[b].merged + batch'[b].quarantined = batch'[b].done
    BY <1>sums, <2>1
  <2>5. /\ \A x \in batch'[b].links : x[2] = b /\ x[3] \in 1 .. batch'[b].done
        /\ \A x, y \in batch'[b].links : x[3] = y[3] => x = y
        /\ IsFiniteSet(batch'[b].links)
        /\ Cardinality(batch'[b].links) = batch[b].created + batch[b].merged + 1
    BY <2>1, <2>2, AddLink
  <2>6. Cardinality(batch'[b].links) = batch'[b].created + batch'[b].merged
    BY <1>sums, <2>1, <2>5
  <2>7. \A k \in batch'[b].mine : \E x \in batch'[b].links : x[1] = k
    BY <2>1 DEF Accounts
  <2> QED BY <2>4, <2>5, <2>6, <2>7 DEF Accounts
<1>5. CASE CommitBatch(b)
  BY <1>5, CommitMoves, SameAccounts DEF SameCounts
<1>6. CASE Rollback(b)
  <2>1. batch'[b].links = {} /\ batch'[b].pc = "failed" /\ SameCounts(b)
    BY <1>6, RollbackMoves
  <2>2. IsFiniteSet(batch'[b].links)
    BY <2>1, FS_EmptySet
  <2> QED BY <1>0, <2>1, <2>2 DEF Accounts, SameCounts
<1> QED BY <1>1, <1>2, <1>3, <1>4, <1>5, <1>6 DEF BatchStep

LEMMA OthersAccount ==
  ASSUME NEW b \in Batches, Others(b), NEW c \in Batches \ {b}, Accounts(c)
  PROVE  Accounts(c)'
BY DEF Others, Accounts

LEMMA ProvenanceInit == Init => Provenance
<1> SUFFICES ASSUME Init PROVE Provenance
  OBVIOUS
<1>1. \A b \in Batches : batch[b] = NoBatch
  BY DEF Init
<1>2. ASSUME NEW b \in Batches PROVE Accounts(b)
  <2>1. /\ batch[b].links = {} /\ batch[b].mine = {} /\ batch[b].done = 0
        /\ batch[b].quarantined = 0 /\ batch[b].created = 0 /\ batch[b].merged = 0
    BY <1>1 DEF NoBatch
  <2> QED BY <2>1, FS_EmptySet DEF Accounts
<1>3. \A b \in Batches : batch[b].pc = "new"
  BY <1>1 DEF NoBatch
<1>4. links = {} /\ DOMAIN table = {}
  BY NothingIsEmpty DEF Init
<1> QED BY <1>2, <1>3, <1>4 DEF Provenance

LEMMA ProvenanceStep == Types /\ Provenance /\ [Next]_vars => Provenance'
<1> SUFFICES ASSUME Types, Provenance, [Next]_vars PROVE Provenance'
  OBVIOUS
<1>0. /\ \A x \in links : x[2] \in Batches
      /\ \A c \in Batches : Accounts(c)
  BY DEF Types, Provenance
<1>1. ASSUME NEW b \in Batches, NEW file \in Files, Upload(b, file) PROVE Provenance'
  <2>1. /\ batch[b].pc = "new" /\ batch'[b].pc = "reading"
        /\ batch'[b].mine = {} /\ batch'[b].links = {}
        /\ batch'[b].done = 0 /\ batch'[b].quarantined = 0
        /\ batch'[b].created = 0 /\ batch'[b].merged = 0
        /\ UNCHANGED <<table, links, deletes, finderVars>>
    BY <1>1, UploadMoves
  <2>2. Accounts(b)'
    BY <2>1, FS_EmptySet DEF Accounts
  <2>3. \A c \in Batches \ {b} : batch'[c].pc = batch[c].pc /\ batch'[c].links = batch[c].links
    BY <1>1, UploadMoves
  <2>4. ASSUME NEW c \in Batches \ {b} PROVE Accounts(c)'
    BY <1>0, <1>1, UploadMoves, SameAccounts
  <2>5. \A c \in Batches : Accounts(c)'
    BY <2>2, <2>4
  <2>6. \A x \in links : batch'[x[2]].pc = "completed" /\ x \in batch'[x[2]].links
    BY <1>0, <2>1, <2>3 DEF Provenance
  <2>7. deletes = 0 => \A c \in Batches : batch'[c].pc = "completed" => batch'[c].links \subseteq links
    BY <2>1, <2>3 DEF Provenance
  <2> QED BY <2>1, <2>5, <2>6, <2>7 DEF Provenance
<1>2. ASSUME NEW b \in Batches, BatchStep(b), ~CommitBatch(b) PROVE Provenance'
  <2>1. Others(b) /\ Accounts(b)'
    BY <1>0, <1>2, BatchStepOK, AccountsStep
  <2>2. \A c \in Batches : Accounts(c)'
    BY <1>0, <2>1, OthersAccount
  <2>3. /\ UNCHANGED <<table, links, deletes, finderVars>>
        /\ batch[b].pc # "completed" /\ batch'[b].pc # "completed"
    BY <1>2, QuarantineMoves, InsertMoves, MatchMoves, FlushMoves, RollbackMoves DEF BatchStep, Open
  <2> QED BY <1>0, <2>1, <2>2, <2>3 DEF Provenance, Others
<1>3. ASSUME NEW b \in Batches, CommitBatch(b) PROVE Provenance'
  <2>1. BatchStep(b)
    BY <1>3 DEF BatchStep
  <2>2. Others(b) /\ Accounts(b)'
    BY <1>0, <2>1, BatchStepOK, AccountsStep
  <2>3. \A c \in Batches : Accounts(c)'
    BY <1>0, <2>2, OthersAccount
  <2>4. /\ batch[b].pc = "reading" /\ batch'[b].pc = "completed"
        /\ batch'[b].links = batch[b].links
        /\ table' = Seen(b) /\ links' = links \cup batch[b].links /\ UNCHANGED deletes
    BY <1>3, CommitMoves
  <2>5. \A x \in links' : batch'[x[2]].pc = "completed" /\ x \in batch'[x[2]].links
    BY <1>0, <2>2, <2>4 DEF Provenance, Others, Accounts
  <2>6. deletes = 0 => \A c \in Batches : batch'[c].pc = "completed" => batch'[c].links \subseteq links'
    BY <2>2, <2>4 DEF Provenance, Others
  <2>7. \A l \in batch[b].mine : \E x \in batch[b].links : x[1] = l
    BY <1>0, <2>4 DEF Accounts
  <2>8. \A l \in DOMAIN table' : \E x \in links' : x[1] = l
    BY <2>4, <2>7, SeenIsOK DEF Provenance
  <2> QED BY <2>3, <2>4, <2>5, <2>6, <2>8 DEF Provenance
<1>4. ASSUME NEW l \in Ids, DeleteLead(l) PROVE Provenance'
  <2>1. /\ deletes' = deletes + 1 /\ DOMAIN table' = DOMAIN table \ {l}
        /\ links' = {x \in links : x[1] # l} /\ UNCHANGED batch
    BY <1>4 DEF DeleteLead
  <2>2. deletes' # 0
    BY <2>1, BoundsAssumption DEF Types
  <2>3. \A c \in Batches : Accounts(c)'
    BY <1>0, <2>1 DEF Accounts
  <2> QED BY <2>1, <2>2, <2>3 DEF Provenance
<1>5. CASE UNCHANGED vars \/ FinderStep
  <2>1. UNCHANGED <<links, batch, deletes>> /\ DOMAIN table' = DOMAIN table
    BY <1>5, FinderMoves DEF vars
  <2> QED BY <2>1 DEF Provenance, Accounts
<1> QED BY <1>1, <1>2, <1>3, <1>4, <1>5, NextIs

LEMMA ProvenanceAlways == Spec => [](Types /\ Provenance)
BY TypesInit, TypesStep, ProvenanceInit, ProvenanceStep, PTL DEF Spec

(* Provenance is complete and exact: no lead without a row of a completed upload, no row
   counted twice, and a completed upload accounts for every row of its file.         *)
THEOREM ProvenanceIsComplete == Spec => []ProvenanceComplete
<1>1. ASSUME Types, Provenance PROVE ProvenanceComplete
  <2>1. ASSUME NEW b \in Batches, batch[b].pc = "completed"
        PROVE  LET mine == {x \in links : x[2] = b} IN
               /\ \A x, y \in mine : x[3] = y[3] => x = y
               /\ Cardinality(mine) <= batch[b].created + batch[b].merged
               /\ deletes = 0 => Cardinality(mine) = Len(batch[b].file) - batch[b].quarantined
    <3> DEFINE mine == {x \in links : x[2] = b}
    <3>1. mine \subseteq batch[b].links
      BY <1>1 DEF Provenance
    <3>2. /\ \A x, y \in batch[b].links : x[3] = y[3] => x = y
          /\ IsFiniteSet(batch[b].links)
          /\ Cardinality(batch[b].links) = batch[b].created + batch[b].merged
          /\ batch[b].created + batch[b].merged + batch[b].quarantined = batch[b].done
      BY <1>1, <2>1 DEF Provenance, Accounts
    <3>3. Cardinality(mine) <= batch[b].created + batch[b].merged
      BY <3>1, <3>2, FS_Subset
    <3>4. /\ batch[b].quarantined \in Nat /\ batch[b].created \in Nat /\ batch[b].merged \in Nat
          /\ batch[b].done = Len(batch[b].file) /\ batch[b].done \in Nat
      BY <1>1, <2>1 DEF Types, BatchOK
    <3>5. ASSUME deletes = 0 PROVE Cardinality(mine) = Len(batch[b].file) - batch[b].quarantined
      <4>1. batch[b].links \subseteq mine
        BY <1>1, <2>1, <3>5 DEF Provenance, Accounts
      <4>2. mine = batch[b].links
        BY <3>1, <4>1
      <4>3. \A q, c, m, d \in Nat : c + m + q = d => c + m = d - q
        OBVIOUS
      <4>4. Cardinality(mine) = batch[b].created + batch[b].merged
        BY <3>2, <4>2
      <4> QED BY <3>2, <3>4, <4>3, <4>4
    <3> QED BY <3>1, <3>2, <3>3, <3>5
  <2> QED BY <1>1, <2>1 DEF ProvenanceComplete, Provenance
<1> QED BY <1>1, ProvenanceAlways, PTL

-----------------------------------------------------------------------------
(* The counts *)

Completed == {b \in Batches : batch[b].pc = "completed"}
Made == UNION {{b} \X (1 .. batch[b].created) : b \in Completed}

(* Made is finite as well: uploads complete one at a time. *)
Counted == IsFiniteSet(Made) /\ Cardinality(DOMAIN table) + deletes = Cardinality(Made)

(* Uploads that keep what they inserted keep the ids apart. *)
LEMMA IdsStay ==
  ASSUME IdsAreUsedOnce, DOMAIN table' \subseteq DOMAIN table,
         \A b \in Batches : /\ batch'[b].mine = batch[b].mine
                            /\ batch'[b].created = batch[b].created
                            /\ batch[b].pc = "completed" => batch'[b].pc = "completed"
  PROVE  IdsAreUsedOnce'
<1>1. IsFiniteSet(DOMAIN table')
  BY FS_Subset DEF IdsAreUsedOnce
<1> QED BY <1>1 DEF IdsAreUsedOnce

LEMMA IdsInit == Init => IdsAreUsedOnce /\ Counted
<1> SUFFICES ASSUME Init PROVE IdsAreUsedOnce /\ Counted
  OBVIOUS
<1>1. \A b \in Batches : batch[b].mine = {} /\ batch[b].created = 0 /\ batch[b].pc = "new"
  BY DEF Init, NoBatch
<1>2. DOMAIN table = {} /\ deletes = 0
  BY NothingIsEmpty DEF Init
<1>3. Made = {}
  BY <1>1 DEF Made, Completed
<1>4. IdsAreUsedOnce
  BY <1>1, <1>2, FS_EmptySet DEF IdsAreUsedOnce
<1>5. Counted
  BY <1>2, <1>3, FS_EmptySet DEF Counted
<1> QED BY <1>4, <1>5

(* A step that completes no upload. *)
LEMMA MadeStays ==
  ASSUME \A b \in Batches : /\ batch'[b].pc = "completed" <=> batch[b].pc = "completed"
                            /\ batch[b].pc = "completed" => batch'[b].created = batch[b].created
  PROVE  Made' = Made
<1>1. Completed' = Completed
  BY DEF Completed
<1>2. \A b \in Completed : batch'[b].created = batch[b].created
  BY DEF Completed
<1> QED BY <1>1, <1>2 DEF Made

LEMMA IdsStep ==
  Types /\ IdsAreUsedOnce /\ Counted /\ [Next]_vars => IdsAreUsedOnce' /\ Counted'
<1> SUFFICES ASSUME Types, IdsAreUsedOnce, Counted, [Next]_vars
             PROVE  IdsAreUsedOnce' /\ Counted'
  OBVIOUS
<1>0. \A b \in Batches : batch[b].created \in Nat
  BY DEF Types, BatchOK
<1>1. ASSUME NEW b \in Batches, NEW file \in Files, Upload(b, file)
      PROVE  IdsAreUsedOnce' /\ Counted'
  <2>1. /\ batch[b].pc = "new" /\ batch'[b].pc = "reading"
        /\ batch'[b].mine = {} /\ batch'[b].created = 0
        /\ UNCHANGED <<table, links, deletes, finderVars>>
    BY <1>1, UploadMoves
  <2>2. \A c \in Batches \ {b} : /\ batch'[c].pc = batch[c].pc
                                 /\ batch'[c].mine = batch[c].mine
                                 /\ batch'[c].created = batch[c].created
    BY <1>1, UploadMoves
  <2>3. Made' = Made
    BY <2>1, <2>2, MadeStays
  <2>4. IdsAreUsedOnce'
    BY <2>1, <2>2, FS_EmptySet DEF IdsAreUsedOnce
  <2> QED BY <2>1, <2>3, <2>4 DEF Counted
<1>2. ASSUME NEW b \in Batches, InsertLead(b)
      PROVE  IdsAreUsedOnce' /\ Counted'
  <2>1. /\ Others(b) /\ batch[b].pc = "reading" /\ batch'[b].pc = "reading"
        /\ batch'[b].created = batch[b].created + 1
        /\ UNCHANGED <<table, links, deletes, finderVars>>
    BY <1>2, InsertMoves
  <2>2. PICK l \in Ids \ Used : batch'[b].mine = batch[b].mine \cup {l}
    BY <1>2, InsertMoves
  <2>3. l \notin DOMAIN table /\ \A c \in Batches : l \notin batch[c].mine
    BY DEF Used
  <2>4. IsFiniteSet(batch'[b].mine) /\ Cardinality(batch'[b].mine) = batch'[b].created
    <3> DEFINE S == batch[b].mine
    <3>1. IsFiniteSet(S) /\ l \notin S /\ Cardinality(S) = batch[b].created
      BY <2>3 DEF IdsAreUsedOnce
    <3> HIDE DEF S
    <3>2. IsFiniteSet(S \cup {l}) /\ Cardinality(S \cup {l}) = Cardinality(S) + 1
      BY <3>1, FS_AddElement
    <3> QED BY <2>1, <2>2, <3>1, <3>2 DEF S
  <2>5. IdsAreUsedOnce'
    <3>1. \A c \in Batches \ {b} : batch'[c] = batch[c]
      BY <2>1 DEF Others
    <3>2. \A c \in Batches : batch'[c].pc # "completed" => batch'[c].mine \cap DOMAIN table' = {}
      BY <2>1, <2>2, <2>3, <3>1 DEF IdsAreUsedOnce
    <3>3. \A c, d \in Batches : c # d => batch'[c].mine \cap batch'[d].mine = {}
      BY <2>2, <2>3, <3>1 DEF IdsAreUsedOnce
    <3>4. \A c \in Batches : /\ IsFiniteSet(batch'[c].mine)
                             /\ Cardinality(batch'[c].mine) = batch'[c].created
      BY <2>4, <3>1 DEF IdsAreUsedOnce
    <3> QED BY <2>1, <3>2, <3>3, <3>4 DEF IdsAreUsedOnce
  <2>6. Made' = Made
    BY <2>1, MadeStays DEF Others
  <2> QED BY <2>1, <2>5, <2>6 DEF Counted
<1>3. ASSUME NEW b \in Batches, BatchStep(b), ~InsertLead(b), ~CommitBatch(b)
      PROVE  IdsAreUsedOnce' /\ Counted'
  <2>1. /\ Others(b) /\ batch[b].pc # "completed" /\ batch'[b].pc # "completed"
        /\ batch'[b].mine = batch[b].mine /\ batch'[b].created = batch[b].created
        /\ UNCHANGED <<table, links, deletes, finderVars>>
    BY <1>3, QuarantineMoves, MatchMoves, FlushMoves, RollbackMoves DEF BatchStep, Open, SameCounts
  <2>2. IdsAreUsedOnce'
    BY <2>1, IdsStay DEF Others
  <2>3. Made' = Made
    BY <2>1, MadeStays DEF Others
  <2> QED BY <2>1, <2>2, <2>3 DEF Counted
<1>4. ASSUME NEW b \in Batches, CommitBatch(b)
      PROVE  IdsAreUsedOnce' /\ Counted'
  <2>1. /\ Others(b) /\ batch[b].pc = "reading" /\ batch'[b].pc = "completed"
        /\ batch'[b].mine = batch[b].mine /\ batch'[b].created = batch[b].created
        /\ table' = Seen(b) /\ UNCHANGED deletes
    BY <1>4, CommitMoves DEF SameCounts
  <2> DEFINE T == DOMAIN table
             M == batch[b].mine
             P == {b} \X (1 .. batch[b].created)
  <2>2. DOMAIN table' = T \cup M
    BY <2>1, SeenIsOK
  <2>3. IsFiniteSet(T) /\ IsFiniteSet(M) /\ T \cap M = {} /\ Cardinality(M) = batch[b].created
    BY <2>1 DEF IdsAreUsedOnce
  <2>4. IsFiniteSet(T \cup M) /\ Cardinality(T \cup M) = Cardinality(T) + batch[b].created
    <3> HIDE DEF T, M
    <3>1. /\ IsFiniteSet(T \cup M)
          /\ Cardinality(T \cup M) = Cardinality(T) + Cardinality(M) - Cardinality(T \cap M)
      BY <2>3, FS_Union
    <3>2. Cardinality(T) \in Nat /\ Cardinality(M) \in Nat /\ Cardinality(T \cap M) = 0
      BY <2>3, FS_CardinalityType, FS_EmptySet
    <3> QED BY <2>3, <3>1, <3>2
  <2>5. IdsAreUsedOnce'
    BY <2>1, <2>2, <2>4 DEF IdsAreUsedOnce, Others
  <2>6. IsFiniteSet(P) /\ Cardinality(P) = batch[b].created
    <3>1. IsFiniteSet(1 .. batch[b].created) /\ Cardinality(1 .. batch[b].created) = batch[b].created
      <4>1. \A n \in Nat : IsFiniteSet(1 .. n) /\ Cardinality(1 .. n) = n
        BY FS_Interval
      <4> QED BY <1>0, <4>1
    <3>2. IsFiniteSet({b}) /\ Cardinality({b}) = 1
      BY FS_Singleton
    <3>3. IsFiniteSet(P) /\ Cardinality(P) = Cardinality({b}) * Cardinality(1 .. batch[b].created)
      BY <3>1, <3>2, FS_Product
    <3> QED BY <1>0, <3>1, <3>2, <3>3
  <2>7. Made' = Made \cup P
    <3>1. Completed' = Completed \cup {b} /\ b \notin Completed
      BY <2>1 DEF Completed, Others
    <3>2. \A c \in Completed : batch'[c].created = batch[c].created
      BY <2>1 DEF Completed, Others
    <3> QED BY <2>1, <3>1, <3>2 DEF Made
  <2>8. Made \cap P = {}
    BY <2>1 DEF Made, Completed
  <2>9. IsFiniteSet(Made') /\ Cardinality(Made') = Cardinality(Made) + batch[b].created
    <3> HIDE DEF P
    <3>1. IsFiniteSet(Made)
      BY DEF Counted
    <3>2. /\ IsFiniteSet(Made \cup P)
          /\ Cardinality(Made \cup P) = Cardinality(Made) + Cardinality(P) - Cardinality(Made \cap P)
      BY <2>6, <3>1, FS_Union
    <3>3. Cardinality(Made) \in Nat /\ Cardinality(Made \cap P) = 0
      BY <2>8, <3>1, FS_CardinalityType, FS_EmptySet
    <3> QED BY <1>0, <2>6, <2>7, <3>2, <3>3
  <2>10. Cardinality(DOMAIN table') + deletes' = Cardinality(Made')
    <3>1. \A t, m, d \in Nat : \A n : t + d = n => (t + m) + d = n + m
      OBVIOUS
    <3>2. Cardinality(T) \in Nat /\ deletes \in Nat
      BY <2>3, FS_CardinalityType, BoundsAssumption DEF Types
    <3> QED BY <1>0, <2>1, <2>2, <2>4, <2>9, <3>1, <3>2 DEF Counted
  <2> QED BY <2>5, <2>9, <2>10 DEF Counted
<1>5. ASSUME NEW l \in Ids, DeleteLead(l) PROVE IdsAreUsedOnce' /\ Counted'
  <2>1. /\ l \in DOMAIN table /\ DOMAIN table' = DOMAIN table \ {l}
        /\ deletes' = deletes + 1 /\ UNCHANGED batch
    BY <1>5 DEF DeleteLead
  <2>2. IdsAreUsedOnce'
    BY <2>1, IdsStay
  <2>3. Made' = Made
    BY <2>1, MadeStays
  <2>4. Cardinality(DOMAIN table') = Cardinality(DOMAIN table) - 1
    BY <2>1, FS_RemoveElement DEF IdsAreUsedOnce
  <2>5. Cardinality(DOMAIN table) \in Nat /\ deletes \in Nat
    BY FS_CardinalityType, BoundsAssumption DEF Types, IdsAreUsedOnce
  <2> QED BY <2>1, <2>2, <2>3, <2>4, <2>5 DEF Counted
<1>6. CASE UNCHANGED vars \/ FinderStep
  <2>1. UNCHANGED <<batch, deletes>> /\ DOMAIN table' = DOMAIN table
    BY <1>6, FinderMoves DEF vars
  <2> QED BY <2>1 DEF IdsAreUsedOnce, Counted, Made, Completed
<1> QED BY <1>1, <1>2, <1>3, <1>4, <1>5, <1>6, NextIs

(* The counts of created leads that completed uploads report are the leads there ever
   were: an upload that fails gives none, and an id is given out once.             *)
THEOREM CreatedCountsAddUp == Spec => []CreatedAddsUp
<1>1. Counted => CreatedAddsUp
  BY DEF Counted, Made, Completed, CreatedAddsUp
<1> QED BY <1>1, TypesInit, TypesStep, IdsInit, IdsStep, PTL DEF Spec

-----------------------------------------------------------------------------
(* Uploads that are alone *)

LEMMA AloneInit == Init => AloneIsAlone
BY DEF Init, NoBatch, AloneIsAlone, Open

LEMMA AloneStep == Types /\ AloneIsAlone /\ [Next]_vars => AloneIsAlone' /\ (OneByOne' => OneByOne)
<1> SUFFICES ASSUME Types, AloneIsAlone, [Next]_vars
             PROVE  AloneIsAlone' /\ (OneByOne' => OneByOne)
  OBVIOUS
<1>1. ASSUME NEW b \in Batches, NEW file \in Files, Upload(b, file)
      PROVE  AloneIsAlone' /\ (OneByOne' => OneByOne)
  <2>1. /\ batch[b].pc = "new" /\ batch'[b].pc = "reading"
        /\ batch'[b].alone => \A c \in Batches : ~Open(c)
    BY <1>1, UploadMoves
  <2>2. \A c \in Batches \ {b} : /\ batch'[c].pc = batch[c].pc
                                 /\ batch'[c].alone => batch[c].alone /\ ~Open(c)
    BY <1>1, UploadMoves
  <2>3. ASSUME NEW c \in Batches \ {b}, batch'[c].pc = "new" PROVE batch'[c].alone
    <3> DEFINE others == {d \in Batches : Open(d)}
    <3>1. batch'[c] = [batch[c] EXCEPT !.alone = @ /\ c \notin others]
      BY <1>1 DEF Upload
    <3>2. c \notin others /\ batch[c].alone
      BY <2>2, <2>3 DEF AloneIsAlone, Open
    <3>3. batch'[c] = [batch[c] EXCEPT !.alone = TRUE]
      BY <3>1, <3>2
    <3>4. Shaped(batch[c])
      BY DEF Types, BatchOK
    <3> QED BY <3>3, <3>4 DEF Shaped
  <2>4. AloneIsAlone'
    BY <2>1, <2>2, <2>3 DEF AloneIsAlone, Open
  <2> QED BY <2>1, <2>2, <2>4 DEF OneByOne, AloneIsAlone
<1>2. ASSUME NEW b \in Batches, BatchStep(b)
      PROVE  AloneIsAlone' /\ (OneByOne' => OneByOne)
  <2>1. /\ Others(b) /\ batch'[b].alone = batch[b].alone /\ Open(b)
        /\ batch'[b].pc # "new"
    BY <1>2, QuarantineMoves, InsertMoves, MatchMoves, FlushMoves, CommitMoves, RollbackMoves
       DEF BatchStep, Open, SameFile
  <2> QED BY <2>1 DEF AloneIsAlone, OneByOne, Others, Open
<1>3. ASSUME UNCHANGED batch PROVE AloneIsAlone' /\ (OneByOne' => OneByOne)
  BY <1>3 DEF AloneIsAlone, OneByOne, Open
<1> QED BY <1>1, <1>2, <1>3, NextIs, FinderMoves DEF DeleteLead, vars

(* An upload that is alone sees the same until it or a deletion does something. *)
LEMMA SeenAt ==
  ASSUME NEW b \in Batches, NEW l \in DOMAIN Seen(b)
  PROVE  /\ DOMAIN Seen(b)[l] = DOMAIN Written(b, l) \cup DOMAIN Stored(l)
         /\ \A f \in DOMAIN Written(b, l) : Seen(b)[l][f] = Written(b, l)[f]
         /\ \A f \in DOMAIN Stored(l) \ DOMAIN Written(b, l) : Seen(b)[l][f] = Stored(l)[f]
<1>1. Seen(b)[l] = Over(Written(b, l), Stored(l))
  BY DEF Seen
<1> QED BY <1>1 DEF Over

LEMMA SameSeen ==
  ASSUME NEW b \in Batches, UNCHANGED table,
         batch'[b].mine = batch[b].mine, batch'[b].wrote = batch[b].wrote
  PROVE  Seen(b)' = Seen(b)
BY DEF Seen, Written, Stored, Wrote

(* A lead that showed a row goes on doing so as long as it keeps its fields, and its email
   when the finder has written none into it.                                             *)
LEMMA KnownStays ==
  ASSUME NEW leads, NEW more, NEW won, NEW now, NEW l, NEW row,
         Known(leads, won, l, row), l \in DOMAIN more, won \subseteq now,
         \A f \in DOMAIN leads[l] \ EmailFields : f \in DOMAIN more[l] /\ more[l][f] = leads[l][f],
         ~Won(now, l) /\ "email" \in DOMAIN leads[l]
           => "email" \in DOMAIN more[l] /\ more[l]["email"] = leads[l]["email"]
  PROVE  Known(more, now, l, row)
<1> SUFFICES ASSUME Promised(now, l, row) PROVE Shows(more[l], row)
  BY DEF Known
<1>1. Promised(won, l, row)
  BY DEF Promised, Won
<1>2. PICK f \in IdFields : Agree(f, row, leads[l])
  BY <1>1 DEF Known, Shows
<1>3. f # "email_source"
  BY MatchOrderIs
<1>4. f \in DOMAIN row /\ f \in DOMAIN leads[l] /\ Normalized(f, row[f]) = Normalized(f, leads[l][f])
  BY <1>2 DEF Agree
<1>5. f \in DOMAIN more[l] /\ more[l][f] = leads[l][f]
  <2>1. CASE f = "email"
    BY <1>4, <2>1 DEF Promised
  <2>2. CASE f # "email"
    BY <1>3, <1>4, <2>2 DEF EmailFields
  <2> QED BY <2>1, <2>2
<1> QED BY <1>4, <1>5 DEF Shows, Agree

LEMMA EmailsAgree ==
  ASSUME NEW row, NEW lead
  PROVE  Agree("email", row, lead)
           <=> "email" \in DOMAIN row \cap DOMAIN lead /\ row["email"] = lead["email"]
BY DEF Agree, Normalized

(* Emails that are as they were, or the finder's, are as unique as they were. *)
LEMMA EmailsStayUnique ==
  ASSUME NEW leads, NEW more, NEW won, NEW now, UniqueEmails(leads, won),
         won \subseteq now, DOMAIN more = DOMAIN leads,
         \A l \in DOMAIN leads :
           "email" \in DOMAIN more[l] =>
             \/ "email" \in DOMAIN leads[l] /\ more[l]["email"] = leads[l]["email"]
             \/ <<l, more[l]["email"]>> \in now
  PROVE  UniqueEmails(more, now)
<1>1. ASSUME NEW k \in DOMAIN leads, NEW l \in DOMAIN leads, NEW e, k # l,
             "email" \in DOMAIN more[k], more[k]["email"] = e,
             "email" \in DOMAIN more[l], more[l]["email"] = e
      PROVE  {<<k, e>>, <<l, e>>} \cap now # {}
  <2>1. CASE <<k, e>> \in now \/ <<l, e>> \in now
    BY <2>1
  <2>2. CASE /\ "email" \in DOMAIN leads[k] /\ leads[k]["email"] = e
             /\ "email" \in DOMAIN leads[l] /\ leads[l]["email"] = e
    <3>1. {<<k, e>>, <<l, e>>} \cap won # {}
      BY <1>1, <2>2 DEF UniqueEmails
    <3> QED BY <3>1
  <2> QED BY <1>1, <2>1, <2>2
<1> QED BY <1>1 DEF UniqueEmails

LEMMA QuarantineSees ==
  ASSUME Types, NEW b \in Batches, SeesWell(b), Quarantine(b)
  PROVE  SeesWell(b)'
<1>1. /\ SameFile(b) /\ batch'[b].pc = "reading"
      /\ batch'[b].mine = batch[b].mine /\ batch'[b].wrote = batch[b].wrote
      /\ batch'[b].held = batch[b].held /\ batch'[b].links = batch[b].links
      /\ UNCHANGED <<table, earned>>
  BY QuarantineMoves DEF finderVars
<1>2. Seen(b)' = Seen(b)
  BY <1>1, SameSeen
<1>3. \A l : TheFinders(l)' = TheFinders(l)
  BY <1>1 DEF TheFinders
<1> QED BY <1>1, <1>2, <1>3 DEF SeesWell, WritesWhatWasNull, HoldsWhatItSaw, SameFile, Wrote

LEMMA MatchSees ==
  ASSUME Types, NEW b \in Batches, SeesWell(b), MatchLead(b)
  PROVE  SeesWell(b)'
<1>1. /\ SameFile(b) /\ SameCounts(b)
      /\ batch'[b].mine = batch[b].mine /\ batch'[b].wrote = batch[b].wrote
      /\ batch'[b].links = batch[b].links /\ UNCHANGED <<table, earned>>
  BY MatchMoves DEF finderVars
<1>2. PICK t \in FindMatchingLead(Row(b), Seen(b)) : t = batch'[b].target
  BY MatchMoves
<1>3. PICK lead \in Loaded(b, t) : /\ batch'[b].fill = Fills(Row(b), lead)
                                   /\ batch'[b].held = Put(batch[b].held, t, Over(lead, Row(b)))
  BY <1>2, MatchMoves
<1>4. Seen(b)' = Seen(b) /\ Row(b)' = Row(b) /\ \A l : TheFinders(l)' = TheFinders(l)
  BY <1>1, SameSeen DEF SameFile, SameCounts, Row, TheFinders
<1>5. /\ t \in DOMAIN Seen(b) /\ Shows(Seen(b)[t], Row(b))
      /\ \/ Agree("email", Row(b), Seen(b)[t])
         \/ \A k \in DOMAIN Seen(b) : ~Agree("email", Row(b), Seen(b)[k])
  BY MatchIsRight
<1>6. DOMAIN Seen(b)[t] \ DOMAIN lead \subseteq TheFinders(t)
  BY <1>5 DEF Loaded, SeesWell, HoldsWhatItSaw
<1>7. /\ DOMAIN batch'[b].fill = DOMAIN Row(b) \ DOMAIN lead
      /\ \A f \in DOMAIN batch'[b].fill : batch'[b].fill[f] = Row(b)[f]
  BY <1>3 DEF Fills
<1>8. /\ DOMAIN batch'[b].held = DOMAIN batch[b].held \cup {t}
      /\ DOMAIN batch'[b].held[t] = DOMAIN lead \cup DOMAIN Row(b)
      /\ \A l \in DOMAIN batch[b].held \ {t} : batch'[b].held[l] = batch[b].held[l]
  BY <1>3 DEF Put, Over
<1>9. WritesWhatWasNull(b)'
  BY <1>1, <1>4 DEF SeesWell, WritesWhatWasNull, Wrote
<1>10. HoldsWhatItSaw(b)'
  <2>1. ASSUME NEW l \in DOMAIN batch'[b].held \cap DOMAIN Seen(b)
        PROVE  DOMAIN Seen(b)[l] \ DOMAIN batch'[b].held[l] \subseteq TheFinders(l)
    <3>1. CASE l = t
      BY <1>6, <1>8, <3>1
    <3>2. CASE l # t
      BY <1>8, <3>2 DEF SeesWell, HoldsWhatItSaw
    <3> QED BY <3>1, <3>2
  <2> QED BY <1>4, <2>1 DEF HoldsWhatItSaw
<1>11. MergesWhatIsNull(b, t)'
  <2>1. \A f \in DOMAIN batch'[b].fill : /\ f \in DOMAIN Row(b) /\ batch'[b].fill[f] = Row(b)[f]
                                         /\ f \in DOMAIN Seen(b)[t] => f \in TheFinders(t)
    BY <1>6, <1>7
  <2>2. Known(Seen(b), earned, t, Row(b))
    BY <1>5 DEF Known
  <2>3. ASSUME NEW l \in DOMAIN Seen(b) \ {t}, Agree("email", Row(b), Seen(b)[l])
        PROVE  {<<l, Row(b)["email"]>>, <<t, Row(b)["email"]>>} \cap earned # {}
    <3>1. Agree("email", Row(b), Seen(b)[t])
      BY <1>5, <2>3
    <3>2. /\ "email" \in DOMAIN Seen(b)[l] \cap DOMAIN Seen(b)[t]
          /\ Seen(b)[l]["email"] = Row(b)["email"] /\ Seen(b)[t]["email"] = Row(b)["email"]
      BY <2>3, <3>1, EmailsAgree
    <3> QED BY <1>5, <3>2 DEF SeesWell, UniqueEmails
  <2>4. t \in DOMAIN batch'[b].held /\ DOMAIN batch'[b].fill \subseteq DOMAIN batch'[b].held[t]
    BY <1>7, <1>8
  <2> QED BY <1>1, <1>4, <2>1, <2>2, <2>3, <2>4 DEF MergesWhatIsNull
<1>12. MergesWhatIsNull(b, batch[b].target)'
  BY <1>2, <1>11 DEF MergesWhatIsNull
<1> QED BY <1>1, <1>4, <1>9, <1>10, <1>12 DEF SeesWell, SameFile

(* What an insert adds to what the upload sees: the lead of its row. *)
LEMMA InsertedLead ==
  ASSUME Types, NEW b \in Batches, InsertLead(b)
  PROVE  \E l \in Ids \ Used :
           /\ batch'[b].links = batch[b].links \cup {<<l, b, batch[b].done + 1>>}
           /\ batch'[b].held = Put(batch[b].held, l, Row(b))
           /\ DOMAIN Seen(b)' = DOMAIN Seen(b) \cup {l}
           /\ l \notin DOMAIN Seen(b)
           /\ \A k \in DOMAIN Seen(b) : Seen(b)'[k] = Seen(b)[k]
           /\ DOMAIN Seen(b)'[l] = DOMAIN Row(b)
           /\ \A f \in DOMAIN Row(b) : Seen(b)'[l][f] = Row(b)[f]
           /\ Wrote(b)' = Wrote(b) \cup {l}
           /\ \A k \in Wrote(b) \ {l} : batch'[b].wrote[k] = batch[b].wrote[k]
<1>1. UNCHANGED table
  BY InsertMoves
<1>2. PICK l \in Ids \ Used : /\ batch'[b].mine = batch[b].mine \cup {l}
                              /\ batch'[b].wrote = Put(batch[b].wrote, l, Row(b))
                              /\ batch'[b].held = Put(batch[b].held, l, Row(b))
                              /\ batch'[b].links = batch[b].links \cup {<<l, b, batch[b].done + 1>>}
  BY InsertMoves
<1>3. l \notin DOMAIN table /\ l \notin batch[b].mine
  BY DEF Used
<1>4. /\ Wrote(b)' = Wrote(b) \cup {l}
      /\ batch'[b].wrote[l] = Row(b)
      /\ \A k \in Wrote(b) \ {l} : batch'[b].wrote[k] = batch[b].wrote[k]
  BY <1>2 DEF Put, Wrote
<1>5. DOMAIN Seen(b)' = DOMAIN Seen(b) \cup {l} /\ l \notin DOMAIN Seen(b)
  BY <1>1, <1>2, <1>3 DEF Seen
<1>6. \A k \in DOMAIN Seen(b) : Written(b, k)' = Written(b, k) /\ Stored(k)' = Stored(k)
  BY <1>1, <1>4, <1>5 DEF Written, Stored
<1>7. \A k \in DOMAIN Seen(b) : Seen(b)'[k] = Seen(b)[k]
  BY <1>1, <1>2, <1>6 DEF Seen
<1>8. Seen(b)'[l] = Over(Row(b), Nothing)
  <2>1. Written(b, l)' = Row(b) /\ Stored(l)' = Nothing
    BY <1>1, <1>3, <1>4 DEF Written, Stored
  <2>2. l \in DOMAIN table' \cup batch'[b].mine
    BY <1>2
  <2>3. Seen(b)'[l] = Over(Written(b, l)', Stored(l)')
    BY <2>2 DEF Seen
  <2> QED BY <2>1, <2>3
<1>9. DOMAIN Seen(b)'[l] = DOMAIN Row(b) /\ \A f \in DOMAIN Row(b) : Seen(b)'[l][f] = Row(b)[f]
  BY <1>8, NothingIsEmpty DEF Over
<1> QED BY <1>2, <1>4, <1>5, <1>7, <1>9

LEMMA InsertSees ==
  ASSUME Types, NEW b \in Batches, SeesWell(b), InsertLead(b)
  PROVE  SeesWell(b)'
<1>1. /\ SameFile(b) /\ batch'[b].pc = "reading" /\ UNCHANGED <<table, earned>>
      /\ FindMatchingLead(Row(b), Seen(b)) = {}
  BY InsertMoves DEF finderVars
<1>2. PICK l \in Ids \ Used :
        /\ batch'[b].links = batch[b].links \cup {<<l, b, batch[b].done + 1>>}
        /\ batch'[b].held = Put(batch[b].held, l, Row(b))
        /\ DOMAIN Seen(b)' = DOMAIN Seen(b) \cup {l}
        /\ l \notin DOMAIN Seen(b)
        /\ \A k \in DOMAIN Seen(b) : Seen(b)'[k] = Seen(b)[k]
        /\ DOMAIN Seen(b)'[l] = DOMAIN Row(b)
        /\ \A f \in DOMAIN Row(b) : Seen(b)'[l][f] = Row(b)[f]
        /\ Wrote(b)' = Wrote(b) \cup {l}
        /\ \A k \in Wrote(b) \ {l} : batch'[b].wrote[k] = batch[b].wrote[k]
  BY InsertedLead
<1>3. \A k \in DOMAIN Seen(b) : ~Shows(Seen(b)[k], Row(b))
  BY <1>1, MatchIsRight
<1>4. \A k \in DOMAIN Seen(b) : ~Agree("email", Row(b), Seen(b)[k])
  BY <1>3, MatchOrderIs DEF Shows
<1>5. \A k \in DOMAIN Seen(b) :
        "email" \in DOMAIN Row(b) \cap DOMAIN Seen(b)[k] => Row(b)["email"] # Seen(b)[k]["email"]
  BY <1>4, EmailsAgree
<1>6. UniqueEmails(Seen(b), earned)'
  <2>1. UniqueEmails(Seen(b)', earned)
    BY <1>2, <1>5 DEF SeesWell, UniqueEmails
  <2> QED BY <1>1, <2>1
<1>7. WritesWhatWasNull(b)'
  <2>1. \A k : TheFinders(k)' = TheFinders(k)
    BY <1>1 DEF TheFinders
  <2> QED BY <1>1, <1>2, <2>1 DEF SeesWell, WritesWhatWasNull, Used
<1>8. HoldsWhatItSaw(b)'
  <2>1. \A k : TheFinders(k)' = TheFinders(k)
    BY <1>1 DEF TheFinders
  <2>2. /\ DOMAIN batch'[b].held = DOMAIN batch[b].held \cup {l} /\ batch'[b].held[l] = Row(b)
        /\ \A k \in DOMAIN batch[b].held \ {l} : batch'[b].held[k] = batch[b].held[k]
    BY <1>2 DEF Put
  <2>3. ASSUME NEW k \in DOMAIN batch'[b].held \cap DOMAIN Seen(b)'
        PROVE  DOMAIN Seen(b)'[k] \ DOMAIN batch'[b].held[k] \subseteq TheFinders(k)
    <3>1. CASE k = l
      BY <1>2, <2>2, <3>1
    <3>2. CASE k # l
      BY <1>2, <2>2, <2>3, <3>2 DEF SeesWell, HoldsWhatItSaw
    <3> QED BY <3>1, <3>2
  <2> QED BY <2>1, <2>3 DEF HoldsWhatItSaw
<1>9. \A x \in batch[b].links : Known(Seen(b)', earned, x[1], Canonical(batch[b].file[x[3]]))
  BY <1>2 DEF SeesWell, Known
<1>10. Known(Seen(b)', earned, l, Row(b))
  BY <1>2 DEF Known, Promised, Shows, Agree
<1>11. \A x \in batch'[b].links : Known(Seen(b)', earned, x[1], Canonical(batch[b].file[x[3]]))
  BY <1>2, <1>9, <1>10 DEF Row
<1> QED BY <1>1, <1>6, <1>7, <1>8, <1>11 DEF SeesWell, SameFile

(* What a flush changes in what the upload sees: the fields it fills in its lead. *)
LEMMA FlushedLead ==
  ASSUME Types, NEW b \in Batches, FlushMerge(b), NEW t, t = batch[b].target
  PROVE  /\ t \in DOMAIN Seen(b)
         /\ DOMAIN Seen(b)' = DOMAIN Seen(b)
         /\ \A k \in DOMAIN Seen(b) \ {t} : Seen(b)'[k] = Seen(b)[k]
         /\ DOMAIN Written(b, t)' = DOMAIN batch[b].fill \cup DOMAIN Written(b, t)
         /\ \A f \in DOMAIN batch[b].fill : Written(b, t)'[f] = batch[b].fill[f]
         /\ \A f \in DOMAIN Written(b, t) \ DOMAIN batch[b].fill :
              Written(b, t)'[f] = Written(b, t)[f]
         /\ \A k \in Wrote(b)' \ {t} :
              k \in Wrote(b) /\ batch'[b].wrote[k] = batch[b].wrote[k]
         /\ UNCHANGED table
<1>1. /\ ~Deleted(b) /\ batch'[b].mine = batch[b].mine /\ batch'[b].wrote = Filled(b)
      /\ UNCHANGED table
  BY FlushMoves
<1>2. t \in DOMAIN Seen(b) /\ DOMAIN Seen(b)' = DOMAIN Seen(b)
  BY <1>1 DEF Deleted, Seen
<1>3. CASE batch[b].fill = Nothing
  <2>1. batch'[b].wrote = batch[b].wrote
    BY <1>1, <1>3 DEF Filled
  <2>2. Seen(b)' = Seen(b)
    BY <1>1, <2>1, SameSeen
  <2>3. \A k : Written(b, k)' = Written(b, k)
    BY <2>1 DEF Written, Wrote
  <2>4. DOMAIN batch[b].fill = {}
    BY <1>3, NothingIsEmpty
  <2> QED BY <1>1, <1>2, <2>1, <2>2, <2>3, <2>4 DEF Wrote
<1>4. CASE batch[b].fill # Nothing
  <2> DEFINE new == Over(batch[b].fill, Written(b, t))
  <2>1. batch'[b].wrote = Put(batch[b].wrote, t, new)
    BY <1>1, <1>4 DEF Filled
  <2> HIDE DEF new
  <2>2. /\ Wrote(b)' = Wrote(b) \cup {t} /\ batch'[b].wrote[t] = new
        /\ \A k \in Wrote(b) \ {t} : batch'[b].wrote[k] = batch[b].wrote[k]
    BY <2>1 DEF Put, Wrote
  <2>3. \A k \in DOMAIN Seen(b) \ {t} : Written(b, k)' = Written(b, k) /\ Stored(k)' = Stored(k)
    BY <1>1, <2>2 DEF Written, Stored
  <2>4. \A k \in DOMAIN Seen(b) \ {t} : Seen(b)'[k] = Seen(b)[k]
    BY <1>1, <1>2, <2>3 DEF Seen
  <2>5. Written(b, t)' = new
    BY <2>2 DEF Written
  <2>6. /\ DOMAIN new = DOMAIN batch[b].fill \cup DOMAIN Written(b, t)
        /\ \A f \in DOMAIN batch[b].fill : new[f] = batch[b].fill[f]
        /\ \A f \in DOMAIN Written(b, t) \ DOMAIN batch[b].fill : new[f] = Written(b, t)[f]
    BY DEF new, Over
  <2> QED BY <1>1, <1>2, <2>2, <2>4, <2>5, <2>6
<1> QED BY <1>3, <1>4

LEMMA FlushSees ==
  ASSUME Types, NEW b \in Batches, SeesWell(b), FlushMerge(b)
  PROVE  SeesWell(b)'
<1> DEFINE row == Row(b)
<1>1. /\ SameFile(b) /\ batch[b].pc = "merging" /\ batch'[b].pc = "reading" /\ ~Deleted(b)
      /\ batch'[b].links = batch[b].links \cup {<<batch[b].target, b, batch[b].done + 1>>}
      /\ batch'[b].held = batch[b].held /\ UNCHANGED <<table, earned>>
  BY FlushMoves DEF finderVars
<1>2. PICK t : t = batch[b].target
  OBVIOUS
<1>3. /\ \A f \in DOMAIN batch[b].fill : /\ f \in DOMAIN row /\ batch[b].fill[f] = row[f]
                                         /\ f \in DOMAIN Seen(b)[t] => f \in TheFinders(t)
      /\ t \in DOMAIN batch[b].held /\ DOMAIN batch[b].fill \subseteq DOMAIN batch[b].held[t]
      /\ Known(Seen(b), earned, t, row)
      /\ "email" \in DOMAIN batch[b].fill =>
           \A l \in DOMAIN Seen(b) \ {t} :
             Agree("email", row, Seen(b)[l])
             => {<<l, row["email"]>>, <<t, row["email"]>>} \cap earned # {}
  BY <1>1, <1>2 DEF SeesWell, MergesWhatIsNull
<1>4. /\ t \in DOMAIN Seen(b)
      /\ DOMAIN Seen(b)' = DOMAIN Seen(b)
      /\ \A k \in DOMAIN Seen(b) \ {t} : Seen(b)'[k] = Seen(b)[k]
      /\ DOMAIN Written(b, t)' = DOMAIN batch[b].fill \cup DOMAIN Written(b, t)
      /\ \A f \in DOMAIN batch[b].fill : Written(b, t)'[f] = batch[b].fill[f]
      /\ \A f \in DOMAIN Written(b, t) \ DOMAIN batch[b].fill : Written(b, t)'[f] = Written(b, t)[f]
      /\ \A k \in Wrote(b)' \ {t} : k \in Wrote(b) /\ batch'[b].wrote[k] = batch[b].wrote[k]
  BY <1>2, FlushedLead
<1>5. /\ DOMAIN Seen(b)[t] = DOMAIN Written(b, t) \cup DOMAIN Stored(t)
      /\ \A f \in DOMAIN Written(b, t) : Seen(b)[t][f] = Written(b, t)[f]
      /\ \A f \in DOMAIN Stored(t) \ DOMAIN Written(b, t) : Seen(b)[t][f] = Stored(t)[f]
  BY <1>4, SeenAt
<1>6. Seen(b)'[t] = Over(Written(b, t)', Stored(t))
  <2>1. t \in DOMAIN table' \cup batch'[b].mine
    BY <1>4 DEF Seen
  <2>2. Seen(b)'[t] = Over(Written(b, t)', Stored(t)')
    BY <2>1 DEF Seen
  <2> QED BY <1>1, <2>2 DEF Stored
<1>7. /\ DOMAIN Seen(b)'[t] = DOMAIN batch[b].fill \cup DOMAIN Seen(b)[t]
      /\ \A f \in DOMAIN Seen(b)[t] \ DOMAIN batch[b].fill : Seen(b)'[t][f] = Seen(b)[t][f]
      /\ \A f \in DOMAIN batch[b].fill : Seen(b)'[t][f] = row[f]
  <2> DEFINE S == Stored(t)
             W == Written(b, t)
             V == Written(b, t)'
             F == batch[b].fill
             old == Seen(b)[t]
             new == Seen(b)'[t]
  <2>1. /\ DOMAIN V = DOMAIN F \cup DOMAIN W
        /\ \A f \in DOMAIN F : V[f] = row[f]
        /\ \A f \in DOMAIN W \ DOMAIN F : V[f] = W[f]
    BY <1>3, <1>4
  <2>2. /\ DOMAIN old = DOMAIN W \cup DOMAIN S
        /\ \A f \in DOMAIN W : old[f] = W[f]
        /\ \A f \in DOMAIN S \ DOMAIN W : old[f] = S[f]
    BY <1>5
  <2>3. /\ DOMAIN new = DOMAIN V \cup DOMAIN S
        /\ \A f \in DOMAIN V : new[f] = V[f]
        /\ \A f \in DOMAIN S \ DOMAIN V : new[f] = S[f]
    BY <1>6 DEF Over
  <2> HIDE DEF S, W, V, F, old, new
  <2>4. DOMAIN new = DOMAIN F \cup DOMAIN old
    BY <2>1, <2>2, <2>3
  <2>5. \A f \in DOMAIN old \ DOMAIN F : new[f] = old[f]
    BY <2>1, <2>2, <2>3
  <2>6. \A f \in DOMAIN F : new[f] = row[f]
    BY <2>1, <2>3
  <2> QED BY <2>4, <2>5, <2>6 DEF F, old, new
<1>8. UniqueEmails(Seen(b)', earned)
  <2>1. ASSUME NEW k \in DOMAIN Seen(b) \ {t},
               "email" \in DOMAIN Seen(b)'[k] \cap DOMAIN Seen(b)'[t],
               Seen(b)'[k]["email"] = Seen(b)'[t]["email"]
        PROVE  {<<k, Seen(b)'[k]["email"]>>, <<t, Seen(b)'[t]["email"]>>} \cap earned # {}
    <3>1. Seen(b)'[k] = Seen(b)[k]
      BY <1>4
    <3>2. CASE "email" \in DOMAIN batch[b].fill
      <4>1. "email" \in DOMAIN row /\ Seen(b)'[t]["email"] = row["email"]
        BY <1>3, <1>7, <3>2
      <4>2. Agree("email", row, Seen(b)[k])
        BY <2>1, <3>1, <4>1, EmailsAgree
      <4> QED BY <1>3, <2>1, <3>2, <4>1, <4>2
    <3>3. CASE "email" \notin DOMAIN batch[b].fill
      BY <1>4, <1>7, <2>1, <3>1, <3>3 DEF SeesWell, UniqueEmails
    <3> QED BY <3>2, <3>3
  <2>2. \A k, l \in DOMAIN Seen(b) \ {t} :
          "email" \in DOMAIN Seen(b)'[k] \cap DOMAIN Seen(b)'[l]
            /\ Seen(b)'[k]["email"] = Seen(b)'[l]["email"]
          => k = l \/ {<<k, Seen(b)'[k]["email"]>>, <<l, Seen(b)'[l]["email"]>>} \cap earned # {}
    BY <1>4 DEF SeesWell, UniqueEmails
  <2> QED BY <1>4, <2>1, <2>2 DEF UniqueEmails
<1>9. WritesWhatWasNull(b)'
  <2>1. ASSUME NEW l \in Wrote(b)' \cap DOMAIN table'
        PROVE  DOMAIN batch'[b].wrote[l] \cap DOMAIN table'[l] \subseteq TheFinders(l)
    <3>1. CASE l # t
      BY <1>1, <1>4, <2>1, <3>1 DEF SeesWell, WritesWhatWasNull
    <3>2. CASE l = t
      <4>1. batch'[b].wrote[l] = Written(b, t)' /\ table'[l] = Stored(t)
        BY <1>1, <2>1, <3>2 DEF Written, Stored
      <4>2. DOMAIN Written(b, t) \cap DOMAIN Stored(t) \subseteq TheFinders(t)
        BY <1>1, <2>1, <3>2, NothingIsEmpty DEF SeesWell, WritesWhatWasNull, Written, Stored
      <4> QED BY <1>3, <1>4, <1>5, <3>2, <4>1, <4>2
    <3> QED BY <3>1, <3>2
  <2>2. \A l : TheFinders(l)' = TheFinders(l)
    BY <1>1 DEF TheFinders
  <2> QED BY <2>1, <2>2 DEF WritesWhatWasNull
<1>10. HoldsWhatItSaw(b)'
  <2>1. ASSUME NEW l \in DOMAIN batch[b].held \cap DOMAIN Seen(b)
        PROVE  DOMAIN Seen(b)'[l] \ DOMAIN batch[b].held[l] \subseteq TheFinders(l)
    <3>1. DOMAIN Seen(b)'[l] \ DOMAIN batch[b].held[l] \subseteq DOMAIN Seen(b)[l] \ DOMAIN batch[b].held[l]
      BY <1>3, <1>4, <1>7
    <3> QED BY <3>1 DEF SeesWell, HoldsWhatItSaw
  <2>2. \A l : TheFinders(l)' = TheFinders(l)
    BY <1>1 DEF TheFinders
  <2> QED BY <1>1, <1>4, <2>1, <2>2 DEF HoldsWhatItSaw
<1>11. ASSUME NEW l \in DOMAIN Seen(b), NEW r, Known(Seen(b), earned, l, r)
       PROVE  Known(Seen(b)', earned, l, r)
  <2>1. \A f \in DOMAIN Seen(b)[l] \ TheFinders(l) : f \in DOMAIN Seen(b)'[l] /\ Seen(b)'[l][f] = Seen(b)[l][f]
    BY <1>3, <1>4, <1>7
  <2>2. /\ \A f \in DOMAIN Seen(b)[l] \ EmailFields : f \notin TheFinders(l)
        /\ ~Won(earned, l) => "email" \notin TheFinders(l)
    BY DEF TheFinders
  <2> QED BY <1>4, <1>11, <2>1, <2>2, KnownStays
<1>12. \A x \in batch[b].links : Known(Seen(b)', earned, x[1], Canonical(batch[b].file[x[3]]))
  BY <1>11 DEF SeesWell, Known
<1>13. Known(Seen(b)', earned, t, row)
  BY <1>3, <1>4, <1>11
<1>14. \A x \in batch'[b].links : Known(Seen(b)', earned, x[1], Canonical(batch[b].file[x[3]]))
  BY <1>1, <1>2, <1>12, <1>13 DEF Row
<1>15. UniqueEmails(Seen(b), earned)'
  BY <1>1, <1>8
<1> QED BY <1>1, <1>9, <1>10, <1>14, <1>15 DEF SeesWell, SameFile

(* A deletion takes a lead that the upload neither wrote nor refers to. *)
LEMMA DeleteSees ==
  ASSUME Types, IdsAreUsedOnce, NEW b \in Batches, Open(b), SeesWell(b), NEW d \in Ids, DeleteLead(d)
  PROVE  SeesWell(b)'
<1>1. /\ d \in DOMAIN table /\ DOMAIN table' = DOMAIN table \ {d}
      /\ \A k \in DOMAIN table' : table'[k] = table[k]
      /\ d \notin Wrote(b) /\ \A x \in batch[b].links : x[1] # d
      /\ UNCHANGED <<batch, earned>>
  BY DEF DeleteLead, finderVars
<1>2. d \notin batch[b].mine
  BY <1>1 DEF IdsAreUsedOnce, Open
<1>3. DOMAIN Seen(b)' = DOMAIN Seen(b) \ {d}
  BY <1>1, <1>2 DEF Seen
<1>4. ASSUME NEW k \in DOMAIN Seen(b)' PROVE Seen(b)'[k] = Seen(b)[k]
  <2>1. k # d
    BY <1>3
  <2>2. Stored(k)' = Stored(k) /\ Written(b, k)' = Written(b, k)
    BY <1>1, <2>1 DEF Stored, Written, Wrote
  <2>3. k \in DOMAIN table' \cup batch'[b].mine /\ k \in DOMAIN table \cup batch[b].mine
    BY <1>3 DEF Seen
  <2> QED BY <2>2, <2>3 DEF Seen
<1>5. Row(b)' = Row(b) /\ Wrote(b)' = Wrote(b) /\ \A k : TheFinders(k)' = TheFinders(k)
  BY <1>1 DEF Row, Wrote, TheFinders
<1>6. ~Deleted(b)' => ~Deleted(b) /\ batch[b].target \in DOMAIN Seen(b)'
  BY <1>1 DEF Deleted, Seen
<1>7. WritesWhatWasNull(b)' /\ HoldsWhatItSaw(b)'
  BY <1>1, <1>3, <1>4, <1>5 DEF SeesWell, WritesWhatWasNull, HoldsWhatItSaw
<1>8. ASSUME batch[b].pc = "merging", ~Deleted(b)'
      PROVE  MergesWhatIsNull(b, batch[b].target)'
  <2>1. PICK t : t = batch[b].target
    OBVIOUS
  <2>2. MergesWhatIsNull(b, t) /\ t \in DOMAIN Seen(b)'
    BY <1>6, <1>8, <2>1 DEF SeesWell
  <2>3. Known(Seen(b)', earned, t, Row(b))
    BY <1>4, <2>2 DEF MergesWhatIsNull, Known
  <2> QED BY <1>1, <1>3, <1>4, <1>5, <2>1, <2>2, <2>3 DEF MergesWhatIsNull
<1>9. UniqueEmails(Seen(b), earned)'
  <2>1. UniqueEmails(Seen(b)', earned)
    BY <1>3, <1>4 DEF SeesWell, UniqueEmails
  <2> QED BY <1>1, <2>1
<1>10. \A x \in batch[b].links : Known(Seen(b)', earned, x[1], Canonical(batch[b].file[x[3]]))
  BY <1>1, <1>3, <1>4 DEF SeesWell, Known
<1> QED BY <1>1, <1>7, <1>8, <1>9, <1>10 DEF SeesWell

(* The finder touches leads that the upload has not written: their emails. *)
LEMMA FinderSees ==
  ASSUME Types, Sources, NEW b \in Batches, Open(b), SeesWell(b), FinderStep
  PROVE  SeesWell(b)'
<1>1. /\ UNCHANGED batch /\ DOMAIN table' = DOMAIN table /\ earned \subseteq earned'
      /\ \A l \in DOMAIN table : FinderTouches(l)
  BY FinderMoves
<1>2. \A l : Written(b, l)' = Written(b, l)
  BY <1>1 DEF Written, Wrote
<1>3. DOMAIN Seen(b)' = DOMAIN Seen(b) /\ Row(b)' = Row(b) /\ Wrote(b)' = Wrote(b) /\ Deleted(b)' = Deleted(b)
  BY <1>1 DEF Seen, Row, Wrote, Deleted
<1>4. \A l : TheFinders(l) \subseteq TheFinders(l)' /\ (Won(earned, l) => Won(earned', l))
  BY <1>1 DEF TheFinders, Won
<1>5. ASSUME NEW l \in DOMAIN table, table'[l] # table[l]
      PROVE  l \notin Wrote(b) /\ Won(earned', l)
  BY <1>1, <1>4, <1>5 DEF FinderTouches, Locked, Earned, Won, Sources
<1>6. ASSUME NEW l \in DOMAIN Seen(b)
      PROVE  /\ \A f \in DOMAIN Seen(b)[l] \ EmailFields :
                  f \in DOMAIN Seen(b)'[l] /\ Seen(b)'[l][f] = Seen(b)[l][f]
             /\ DOMAIN Seen(b)'[l] \subseteq DOMAIN Seen(b)[l] \cup TheFinders(l)'
             /\ ~Won(earned', l) => Seen(b)'[l] = Seen(b)[l]
             /\ "email" \in DOMAIN Seen(b)'[l] =>
                  \/ "email" \in DOMAIN Seen(b)[l] /\ Seen(b)'[l]["email"] = Seen(b)[l]["email"]
                  \/ <<l, Seen(b)'[l]["email"]>> \in earned'
  <2>1. Seen(b)[l] = Over(Written(b, l), Stored(l)) /\ Seen(b)'[l] = Over(Written(b, l), Stored(l)')
    BY <1>2, <1>3 DEF Seen
  <2>2. CASE Stored(l)' = Stored(l)
    BY <2>1, <2>2
  <2>3. CASE Stored(l)' # Stored(l)
    <3>1. /\ l \in DOMAIN table /\ table'[l] # table[l]
          /\ Stored(l) = table[l] /\ Stored(l)' = table'[l]
      BY <1>1, <2>3 DEF Stored
    <3>2. Written(b, l) = Nothing /\ Won(earned', l)
      BY <1>5, <3>1 DEF Written
    <3>3. /\ DOMAIN Seen(b)[l] = DOMAIN table[l] /\ \A f \in DOMAIN table[l] : Seen(b)[l][f] = table[l][f]
          /\ DOMAIN Seen(b)'[l] = DOMAIN table'[l] /\ \A f \in DOMAIN table'[l] : Seen(b)'[l][f] = table'[l][f]
      BY <2>1, <3>1, <3>2, NothingIsEmpty DEF Over
    <3>4. TheFinders(l)' = EmailFields
      BY <3>2 DEF TheFinders
    <3>5. FinderTouches(l)
      BY <1>1, <3>1
    <3> QED BY <3>2, <3>3, <3>4, <3>5 DEF FinderTouches
  <2> QED BY <2>2, <2>3
<1>7. WritesWhatWasNull(b)'
  <2>1. \A l \in Wrote(b) \cap DOMAIN table : table'[l] = table[l]
    BY <1>5
  <2> QED BY <1>1, <1>3, <1>4, <2>1 DEF SeesWell, WritesWhatWasNull
<1>8. HoldsWhatItSaw(b)'
  <2>1. ASSUME NEW l \in DOMAIN batch[b].held \cap DOMAIN Seen(b)
        PROVE  DOMAIN Seen(b)'[l] \ DOMAIN batch[b].held[l] \subseteq TheFinders(l)'
    <3>1. DOMAIN Seen(b)[l] \ DOMAIN batch[b].held[l] \subseteq TheFinders(l)
      BY DEF SeesWell, HoldsWhatItSaw
    <3> QED BY <1>4, <1>6, <3>1
  <2> QED BY <1>1, <1>3, <2>1 DEF HoldsWhatItSaw
<1>9. ASSUME NEW l \in DOMAIN Seen(b), NEW r, Known(Seen(b), earned, l, r)
      PROVE  Known(Seen(b)', earned', l, r)
  BY <1>1, <1>3, <1>6, <1>9, KnownStays
<1>10. ASSUME batch[b].pc = "merging", ~Deleted(b)
       PROVE  MergesWhatIsNull(b, batch[b].target)'
  <2>1. PICK t : t = batch[b].target
    OBVIOUS
  <2>2. MergesWhatIsNull(b, t) /\ t \in DOMAIN Seen(b)
    BY <1>10, <2>1 DEF SeesWell, Deleted, Seen
  <2>3. Known(Seen(b)', earned', t, Row(b))
    BY <1>9, <2>2 DEF MergesWhatIsNull
  <2>4. \A f \in DOMAIN batch[b].fill : f \in DOMAIN Seen(b)'[t] => f \in TheFinders(t)'
    BY <1>4, <1>6, <2>2 DEF MergesWhatIsNull
  <2>5. ASSUME "email" \in DOMAIN batch[b].fill, NEW l \in DOMAIN Seen(b) \ {t},
               Agree("email", Row(b), Seen(b)'[l])
        PROVE  {<<l, Row(b)["email"]>>, <<t, Row(b)["email"]>>} \cap earned' # {}
    <3>1. "email" \in DOMAIN Row(b) \cap DOMAIN Seen(b)'[l] /\ Row(b)["email"] = Seen(b)'[l]["email"]
      BY <2>5, EmailsAgree
    <3>2. CASE <<l, Seen(b)'[l]["email"]>> \in earned'
      BY <3>1, <3>2
    <3>3. CASE "email" \in DOMAIN Seen(b)[l] /\ Seen(b)'[l]["email"] = Seen(b)[l]["email"]
      <4>1. Agree("email", Row(b), Seen(b)[l])
        BY <3>1, <3>3, EmailsAgree
      <4>2. {<<l, Row(b)["email"]>>, <<t, Row(b)["email"]>>} \cap earned # {}
        BY <2>2, <2>5, <4>1 DEF MergesWhatIsNull
      <4> QED BY <1>1, <4>2
    <3> QED BY <1>6, <3>1, <3>2, <3>3
  <2> QED BY <1>1, <1>3, <2>1, <2>2, <2>3, <2>4, <2>5 DEF MergesWhatIsNull
<1>11. UniqueEmails(Seen(b), earned)'
  <2>1. UniqueEmails(Seen(b)', earned')
    BY <1>1, <1>3, <1>6, EmailsStayUnique DEF SeesWell
  <2> QED BY <2>1
<1>12. \A x \in batch[b].links : Known(Seen(b)', earned', x[1], Canonical(batch[b].file[x[3]]))
  BY <1>9 DEF SeesWell, Known
<1> QED BY <1>1, <1>3, <1>7, <1>8, <1>10, <1>11, <1>12 DEF SeesWell

(* The first moments of an upload: it sees what is committed. *)
LEMMA UploadSees ==
  ASSUME Types, UniqueEmails(table, earned), NEW b \in Batches, NEW file \in Files, Upload(b, file)
  PROVE  SeesWell(b)'
<1>1. /\ batch'[b].pc = "reading" /\ batch'[b].mine = {} /\ batch'[b].wrote = Nothing
      /\ batch'[b].held = Nothing /\ batch'[b].links = {} /\ UNCHANGED <<table, earned>>
  BY UploadMoves DEF finderVars
<1>2. Wrote(b)' = {} /\ DOMAIN batch'[b].held = {} /\ \A k : Written(b, k)' = Nothing
  BY <1>1, NothingIsEmpty DEF Wrote, Written
<1>3. DOMAIN Seen(b)' = DOMAIN table
  BY <1>1 DEF Seen
<1>4. ASSUME NEW k \in DOMAIN table
      PROVE  DOMAIN Seen(b)'[k] = DOMAIN table[k] /\ \A f \in DOMAIN table[k] : Seen(b)'[k][f] = table[k][f]
  <2>1. Seen(b)'[k] = Over(Written(b, k)', Stored(k)')
    BY <1>1 DEF Seen
  <2>2. Seen(b)'[k] = Over(Nothing, table[k])
    BY <1>1, <1>2, <2>1 DEF Stored
  <2> QED BY <2>2, NothingIsEmpty DEF Over
<1>5. UniqueEmails(Seen(b), earned)'
  <2>1. UniqueEmails(Seen(b)', earned)
    BY <1>3, <1>4 DEF UniqueEmails
  <2> QED BY <1>1, <2>1
<1> QED BY <1>1, <1>2, <1>5 DEF SeesWell, WritesWhatWasNull, HoldsWhatItSaw

(* A lead that is committed shows in what an upload sees all that it showed. *)
LEMMA CommitKeeps ==
  ASSUME NEW b \in Batches, WritesWhatWasNull(b), NEW l, NEW row, Known(table, earned, l, row)
  PROVE  Known(Seen(b), earned, l, row)
<1>1. l \in DOMAIN table /\ l \in DOMAIN Seen(b)
  BY DEF Known, Seen
<1>2. /\ DOMAIN Seen(b)[l] = DOMAIN Written(b, l) \cup DOMAIN Stored(l)
      /\ \A f \in DOMAIN Stored(l) \ DOMAIN Written(b, l) : Seen(b)[l][f] = Stored(l)[f]
  BY <1>1, SeenAt
<1>3. DOMAIN Written(b, l) \cap DOMAIN table[l] \subseteq TheFinders(l) /\ Stored(l) = table[l]
  BY <1>1, NothingIsEmpty DEF WritesWhatWasNull, Written, Stored
<1>4. \A f \in DOMAIN table[l] \ TheFinders(l) : f \in DOMAIN Seen(b)[l] /\ Seen(b)[l][f] = table[l][f]
  BY <1>2, <1>3
<1>5. /\ \A f \in DOMAIN table[l] \ EmailFields : f \notin TheFinders(l)
      /\ ~Won(earned, l) => "email" \notin TheFinders(l)
  BY DEF TheFinders
<1> QED BY <1>1, <1>4, <1>5, KnownStays

LEMMA SourcesStep == Types /\ Sources /\ [Next]_vars => Sources'
<1> SUFFICES ASSUME Types, Sources, [Next]_vars PROVE Sources'
  OBVIOUS
<1>1. ASSUME UNCHANGED <<table, finderVars>> PROVE Sources'
  BY <1>1 DEF Sources, finderVars
<1>2. ASSUME NEW b \in Batches, NEW file \in Files, Upload(b, file) PROVE Sources'
  BY <1>1, <1>2, UploadMoves
<1>3. ASSUME NEW b \in Batches, BatchStep(b), ~CommitBatch(b) PROVE Sources'
  BY <1>1, <1>3, QuarantineMoves, InsertMoves, MatchMoves, FlushMoves, RollbackMoves DEF BatchStep
<1>4. ASSUME NEW b \in Batches, CommitBatch(b) PROVE Sources'
  <2>1. table' = Seen(b) /\ UNCHANGED earned
    BY <1>4, CommitMoves DEF finderVars
  <2>2. ASSUME NEW l \in DOMAIN Seen(b), FromFinder(Seen(b)[l]) PROVE Won(earned, l)
    <3>1. /\ DOMAIN Seen(b)[l] = DOMAIN Written(b, l) \cup DOMAIN Stored(l)
          /\ \A f \in DOMAIN Written(b, l) : Seen(b)[l][f] = Written(b, l)[f]
          /\ \A f \in DOMAIN Stored(l) \ DOMAIN Written(b, l) : Seen(b)[l][f] = Stored(l)[f]
      BY SeenAt
    <3>2. ~FromFinder(Written(b, l))
      BY WrittenIsOK DEF RowOK
    <3>3. FromFinder(Stored(l))
      BY <2>2, <3>1, <3>2 DEF FromFinder
    <3>4. l \in DOMAIN table /\ FromFinder(table[l])
      BY <3>3, NothingIsEmpty DEF Stored, FromFinder
    <3> QED BY <3>4 DEF Sources
  <2> QED BY <2>1, <2>2 DEF Sources
<1>5. ASSUME NEW l \in Ids, DeleteLead(l) PROVE Sources'
  BY <1>5 DEF DeleteLead, Sources, finderVars
<1>6. CASE FinderStep
  <2>1. /\ DOMAIN table' = DOMAIN table /\ earned \subseteq earned'
        /\ \A l \in DOMAIN table : FinderTouches(l)
    BY <1>6, FinderMoves
  <2> QED BY <2>1 DEF FinderTouches, Sources, Earned, Won
<1> QED BY <1>1, <1>2, <1>3, <1>4, <1>5, <1>6, NextIs DEF vars

LEMMA IdentitiesStep ==
  Types /\ Provenance /\ IdsAreUsedOnce /\ AloneIsAlone /\ Sources /\ Identities /\ [Next]_vars
    => Identities'
<1> SUFFICES ASSUME Types, Provenance, IdsAreUsedOnce, AloneIsAlone, Sources, Identities,
                    [Next]_vars, OneByOne'
             PROVE  /\ UniqueEmails(table', earned')
                    /\ \A x \in links' : Known(table', earned', x[1], Canonical(batch'[x[2]].file[x[3]]))
                    /\ \A b \in Batches : Open(b)' => SeesWell(b)'
  BY DEF Identities
<1>0. OneByOne
  BY AloneStep
<1>1. /\ UniqueEmails(table, earned)
      /\ \A x \in links : Known(table, earned, x[1], Canonical(batch[x[2]].file[x[3]]))
      /\ \A b \in Batches : Open(b) => SeesWell(b)
  BY <1>0 DEF Identities
<1>2. \A x \in links : x[2] \in Batches /\ batch[x[2]].pc = "completed"
  BY DEF Types, Provenance
<1>3. \A b, c \in Batches : Open(b) /\ Open(c) => b = c
  BY <1>0 DEF OneByOne, AloneIsAlone
<1> DEFINE LinksKnown == \A x \in links' : Known(table', earned', x[1], Canonical(batch'[x[2]].file[x[3]]))
           OpenSees == \A c \in Batches : Open(c)' => SeesWell(c)'
<1>4. ASSUME NEW b \in Batches, NEW file \in Files, Upload(b, file)
      PROVE  UniqueEmails(table', earned') /\ LinksKnown /\ OpenSees
  <2>1. /\ batch[b].pc = "new" /\ UNCHANGED <<table, links, earned>>
        /\ batch'[b].alone => \A c \in Batches : ~Open(c)
    BY <1>4, UploadMoves DEF finderVars
  <2>2. \A c \in Batches \ {b} : batch'[c].pc = batch[c].pc /\ batch'[c].file = batch[c].file
    BY <1>4, UploadMoves
  <2>3. \A c \in Batches \ {b} : ~Open(c)'
    BY <2>1, <2>2 DEF OneByOne, Open
  <2>4. SeesWell(b)'
    BY <1>1, <1>4, UploadSees
  <2>5. LinksKnown
    BY <1>1, <1>2, <2>1, <2>2
  <2> QED BY <1>1, <2>1, <2>3, <2>4, <2>5
<1>5. ASSUME NEW b \in Batches, BatchStep(b), ~CommitBatch(b)
      PROVE  UniqueEmails(table', earned') /\ LinksKnown /\ OpenSees
  <2>1. Others(b) /\ SameFile(b) /\ Open(b) /\ UNCHANGED <<table, links, earned>>
    BY <1>5, QuarantineMoves, InsertMoves, MatchMoves, FlushMoves, RollbackMoves
       DEF BatchStep, Open, finderVars
  <2>2. \A c \in Batches \ {b} : ~Open(c)'
    BY <1>3, <2>1 DEF Others, Open
  <2>3. Open(b)' => SeesWell(b)'
    <3>1. SeesWell(b)
      BY <1>1, <2>1
    <3>2. CASE Rollback(b)
      BY <3>2, RollbackMoves DEF Open
    <3> QED BY <1>5, <3>1, <3>2, QuarantineSees, InsertSees, MatchSees, FlushSees DEF BatchStep
  <2>4. LinksKnown
    BY <1>1, <1>2, <2>1 DEF Others, SameFile
  <2> QED BY <1>1, <2>1, <2>2, <2>3, <2>4
<1>6. ASSUME NEW b \in Batches, CommitBatch(b)
      PROVE  UniqueEmails(table', earned') /\ LinksKnown /\ OpenSees
  <2>1. /\ Others(b) /\ SameFile(b) /\ batch[b].pc = "reading" /\ batch'[b].pc = "completed"
        /\ table' = Seen(b) /\ links' = links \cup batch[b].links /\ UNCHANGED earned
    BY <1>6, CommitMoves DEF finderVars
  <2>2. SeesWell(b)
    BY <1>1, <2>1 DEF Open
  <2>3. \A c \in Batches : ~Open(c)'
    BY <1>3, <2>1 DEF Others, Open
  <2>4. \A c \in Batches : batch'[c].file = batch[c].file
    BY <2>1 DEF Others, SameFile
  <2>5. \A x \in links : Known(table', earned', x[1], Canonical(batch'[x[2]].file[x[3]]))
    BY <1>1, <1>2, <2>1, <2>2, <2>4, CommitKeeps DEF SeesWell
  <2>6. \A x \in batch[b].links : x[2] = b /\ Known(table', earned', x[1], Canonical(batch'[x[2]].file[x[3]]))
    BY <2>1, <2>2, <2>4 DEF SeesWell, Provenance, Accounts
  <2> QED BY <2>1, <2>2, <2>3, <2>5, <2>6 DEF SeesWell
<1>7. ASSUME NEW d \in Ids, DeleteLead(d)
      PROVE  UniqueEmails(table', earned') /\ LinksKnown /\ OpenSees
  <2>1. /\ DOMAIN table' = DOMAIN table \ {d} /\ \A k \in DOMAIN table' : table'[k] = table[k]
        /\ links' = {x \in links : x[1] # d} /\ UNCHANGED <<batch, earned>>
    BY <1>7 DEF DeleteLead, finderVars
  <2>2. UniqueEmails(table', earned')
    BY <1>1, <2>1 DEF UniqueEmails
  <2>3. LinksKnown
    BY <1>1, <2>1 DEF Known
  <2>4. OpenSees
    BY <1>1, <1>7, <2>1, DeleteSees DEF Open
  <2> QED BY <2>2, <2>3, <2>4
<1>8. ASSUME FinderStep
      PROVE  UniqueEmails(table', earned') /\ LinksKnown /\ OpenSees
  <2>1. /\ UNCHANGED <<links, batch>> /\ DOMAIN table' = DOMAIN table /\ earned \subseteq earned'
        /\ \A l \in DOMAIN table : FinderTouches(l)
    BY <1>8, FinderMoves
  <2>2. UniqueEmails(table', earned')
    BY <1>1, <2>1, EmailsStayUnique DEF FinderTouches
  <2>3. ASSUME NEW l \in DOMAIN table, NEW row, Known(table, earned, l, row)
        PROVE  Known(table', earned', l, row)
    <3>1. ~Won(earned', l) => table'[l] = table[l]
      BY <2>1 DEF FinderTouches, Sources, Earned, Won
    <3>2. \A f \in DOMAIN table[l] \ EmailFields : f \in DOMAIN table'[l] /\ table'[l][f] = table[l][f]
      BY <2>1 DEF FinderTouches
    <3> QED BY <2>1, <2>3, <3>1, <3>2, KnownStays
  <2>4. LinksKnown
    BY <1>1, <2>1, <2>3 DEF Known
  <2>5. OpenSees
    BY <1>1, <1>8, <2>1, FinderSees DEF Open
  <2> QED BY <2>2, <2>4, <2>5
<1>9. CASE UNCHANGED vars
  <2>1. UNCHANGED <<table, links, batch, earned>>
    BY <1>9 DEF vars, finderVars
  <2>2. \A b \in Batches : Seen(b)' = Seen(b)
    BY <2>1, SameSeen
  <2>3. OpenSees
    BY <1>1, <2>1, <2>2 DEF Open, SeesWell, WritesWhatWasNull, HoldsWhatItSaw, MergesWhatIsNull,
                            TheFinders, Wrote, Deleted, Row
  <2> QED BY <1>1, <2>1, <2>3
<1> QED BY <1>4, <1>5, <1>6, <1>7, <1>8, <1>9, NextIs

LEMMA IdentitiesInit == Init => Sources /\ Identities
<1> SUFFICES ASSUME Init PROVE Sources /\ Identities
  OBVIOUS
<1>1. /\ links = {} /\ DOMAIN table = {}
      /\ \A b \in Batches : ~Open(b)
  BY NothingIsEmpty DEF Init, NoBatch, Open
<1> QED BY <1>1 DEF Sources, Identities, UniqueEmails

LEMMA IdentitiesAlways == Spec => []Identities
<1>1. Init => Types /\ Provenance /\ IdsAreUsedOnce /\ Counted /\ AloneIsAlone /\ Sources /\ Identities
  BY TypesInit, ProvenanceInit, IdsInit, AloneInit, IdentitiesInit
<1>2. Types /\ Provenance /\ IdsAreUsedOnce /\ Counted /\ AloneIsAlone /\ Sources /\ Identities /\ [Next]_vars
        => (Types /\ Provenance /\ IdsAreUsedOnce /\ Counted /\ AloneIsAlone /\ Sources /\ Identities)'
  BY TypesStep, ProvenanceStep, IdsStep, AloneStep, SourcesStep, IdentitiesStep
<1> QED BY <1>1, <1>2, PTL DEF Spec

(* No two leads hold one email, as long as uploads do not overlap and but for what results
   write with no lookup: a merge fills an email only when no lead had it, and of two leads
   with one email the finder wrote it into one, whatever it wrote and requeues cleared
   beside the upload.                                                                     *)
THEOREM EmailsIdentify == Spec => []EmailIdentifies
<1>1. Identities => EmailIdentifies
  BY DEF Identities, UniqueEmails, EmailIdentifies
<1> QED BY <1>1, IdentitiesAlways, PTL

(* A row that was uploaded is recognised for as long as its lead is there and, if the row has
   an email, the finder has written none into that lead, as long as uploads do not overlap:
   merges, commits, results and requeues take nothing else away that it matched on.       *)
THEOREM RowsAreRecognised == Spec => []RowsStayRecognised
<1>1. ASSUME Identities, OneByOne, NEW x \in links,
             DOMAIN Canonical(batch[x[2]].file[x[3]]) \cap IdFields # {},
             "email" \in DOMAIN Canonical(batch[x[2]].file[x[3]]) => ~Earned(x[1])
      PROVE  FindMatchingLead(Canonical(batch[x[2]].file[x[3]]), table) # {}
  <2> DEFINE row == Canonical(batch[x[2]].file[x[3]])
  <2>1. x[1] \in DOMAIN table /\ Shows(table[x[1]], row)
    BY <1>1 DEF Identities, Known, Promised, Earned, Won
  <2> QED BY <2>1, MatchIsRight
<1>2. Identities => RowsStayRecognised
  BY <1>1 DEF RowsStayRecognised
<1> QED BY <1>2, IdentitiesAlways, PTL
=============================================================================
