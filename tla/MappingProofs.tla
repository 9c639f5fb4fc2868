---------------------------- MODULE MappingProofs ----------------------------
(***************************************************************************)
(* What is proved of Mapping for every set of mapping specs, of runs of    *)
(* the seed script with whatever each of them knows, and of files: what a  *)
(* run that ends leaves registered, that no registered mapping changes,    *)
(* that a file whose header is registered is recognised, and which of a    *)
(* podcast's emails is chosen.                                             *)
(*                                                                         *)
(* What the recursive functions compute is proved by minimal               *)
(* counterexamples: every nonempty set of numbers has a least element, so  *)
(* a table that is wrong somewhere is wrong at a first place.              *)
(***************************************************************************)
EXTENDS Mapping, FiniteSetTheorems, SequenceTheorems, TLAPS

-----------------------------------------------------------------------------
(* Numbers *)

(* The intervals 1 .. n are finite sets, on which strict inclusion is well founded. *)
LEMMA LeastNumber ==
  ASSUME NEW T \in SUBSET Nat, T # {}
  PROVE  \E n \in T : \A m \in T : n <= m
<1> DEFINE upTo(n) == 1 .. n
           S == {upTo(n) : n \in T}
           R == StrictSubsetOrdering(Nat)
<1>1. S \subseteq FiniteSubsetsOf(Nat) /\ S # {}
  <2>1. ASSUME NEW n \in T PROVE upTo(n) \in FiniteSubsetsOf(Nat)
    <3>1. upTo(n) \in SUBSET Nat /\ IsFiniteSet(upTo(n))
      BY FS_Interval
    <3> QED BY <3>1 DEF FiniteSubsetsOf
  <2> QED BY <2>1
<1>2. IsWellFoundedOn(R, FiniteSubsetsOf(Nat))
  BY FS_StrictSubsetOrderingWellFounded
<1>3. \E U \in S : \A V \in S : ~(<<V, U>> \in R)
  <2> HIDE DEF S, R
  <2> QED BY <1>1, <1>2, WFMin
<1>4. PICK n \in T : \A V \in S : ~(<<V, upTo(n)>> \in R)
  BY <1>3
<1>5. ASSUME NEW m \in T PROVE n <= m
  <2>1. ~(<<upTo(m), upTo(n)>> \in R)
    BY <1>4
  <2>2. CASE m < n
    <3>1. upTo(m) \in SUBSET Nat /\ upTo(n) \in SUBSET Nat /\ upTo(m) \subseteq upTo(n)
      BY <2>2
    <3>2. n \in upTo(n) /\ n \notin upTo(m)
      BY <2>2
    <3>3. <<upTo(m), upTo(n)>> \in R
      BY <3>1, <3>2 DEF StrictSubsetOrdering
    <3> QED BY <2>1, <3>3
  <2> QED BY <2>2
<1> QED BY <1>5

LEMMA GreatestNumber ==
  ASSUME NEW T \in SUBSET Nat, T # {}, NEW top \in Nat, \A n \in T : n <= top
  PROVE  /\ Max(T) \in T
         /\ \A n \in T : n <= Max(T)
<1> DEFINE above == {m \in Nat : \A n \in T : n <= m}
<1>1. PICK m \in above : \A k \in above : m <= k
  <2>1. above \in SUBSET Nat /\ top \in above
    OBVIOUS
  <2> HIDE DEF above
  <2> QED BY <2>1, LeastNumber
<1>2. m \in T
  <2>1. CASE m \notin T
    <3>1. PICK t \in T : TRUE
      OBVIOUS
    <3>2. t < m
      BY <2>1
    <3>3. \A n \in T : n <= m - 1
      BY <2>1
    <3>4. m - 1 \in above
      BY <3>2, <3>3
    <3> QED BY <1>1, <3>4
  <2> QED BY <2>1
<1> QED BY <1>1, <1>2 DEF Max

-----------------------------------------------------------------------------
(* The seed script *)

(* The record that NoScript is. *)
Shaped(r) == r = [pc |-> r.pc, at |-> r.at, mine |-> r.mine, twice |-> r.twice]

KnownAs(s, i) == Fingerprint(Shapes[s][i].header)

(* A run that goes on has found or added what it has looked at; one that ended well has
   left it registered.                                                              *)
ScriptOK(s) ==
  /\ Shaped(script[s])
  /\ script[s].pc \in {"new", "done", "failed"}
  /\ script[s].at \in 1 .. Len(Shapes[s]) + 1
  /\ script[s].twice \in BOOLEAN
  /\ script[s].pc = "new" =>
       \A i \in 1 .. script[s].at - 1 :
         ~Shapes[s][i].csv => KnownAs(s, i) \in DOMAIN registry \cup DOMAIN script[s].mine
  /\ script[s].pc = "done" =>
       \A i \in DOMAIN Shapes[s] : ~Shapes[s][i].csv => KnownAs(s, i) \in DOMAIN registry

Seeds == /\ script = [s \in Scripts |-> script[s]]
         /\ \A s \in Scripts : ScriptOK(s)

LEMMA ShapesOf ==
  ASSUME NEW s \in Scripts
  PROVE  Len(Shapes[s]) \in Nat /\ DOMAIN Shapes[s] = 1 .. Len(Shapes[s])
BY ShapesAssumption

(* A run goes on as it was while others register what they know. *)
LEMMA StillSeeds ==
  ASSUME NEW s \in Scripts, ScriptOK(s), script'[s] = script[s], DOMAIN registry \subseteq DOMAIN registry'
  PROVE  ScriptOK(s)'
BY DEF ScriptOK, KnownAs

LEMMA SeedsInit == Init => Seeds
<1> SUFFICES ASSUME Init PROVE Seeds
  OBVIOUS
<1>1. ASSUME NEW s \in Scripts PROVE ScriptOK(s)
  <2>1. script[s].pc = "new" /\ script[s].at = 1 /\ script[s].twice = FALSE /\ Shaped(script[s])
    BY DEF Init, NoScript, Shaped
  <2>2. script[s].at \in 1 .. Len(Shapes[s]) + 1 /\ 1 .. script[s].at - 1 = {}
    BY <2>1, ShapesOf
  <2>3. script[s].twice \in BOOLEAN
    BY <2>1
  <2> QED BY <2>1, <2>2, <2>3, Zenon DEF ScriptOK
<1> QED BY <1>1 DEF Seeds, Init

LEMMA LookSeeds ==
  ASSUME Seeds, NEW s \in Scripts, SeedLook(s)
  PROVE  Seeds'
<1> DEFINE shape == Shapes[s][script[s].at]
           fp == Fingerprint(shape.header)
<1>1. /\ script[s].pc = "new" /\ script[s].at <= Len(Shapes[s]) /\ UNCHANGED registry
      /\ \/ /\ shape.csv \/ fp \in DOMAIN registry
            /\ script' = [script EXCEPT ![s].at = @ + 1]
         \/ script' = [script EXCEPT ![s] = Added(s, fp, shape.spec)]
  BY DEF SeedLook
<1>2. /\ ScriptOK(s) /\ Shaped(script[s]) /\ script[s].at \in 1 .. Len(Shapes[s]) + 1
      /\ script = [r \in Scripts |-> script[r]] /\ script[s].twice \in BOOLEAN
  BY DEF Seeds, ScriptOK
<1>3. /\ script' = [r \in Scripts |-> script'[r]]
      /\ \A r \in Scripts \ {s} : script'[r] = script[r]
      /\ Shaped(script'[s]) /\ script'[s].pc = "new" /\ script'[s].at = script[s].at + 1
      /\ script'[s].twice \in BOOLEAN
      /\ DOMAIN script[s].mine \subseteq DOMAIN script'[s].mine
      /\ ~shape.csv => fp \in DOMAIN registry \cup DOMAIN script'[s].mine
  <2>1. CASE /\ shape.csv \/ fp \in DOMAIN registry
             /\ script' = [script EXCEPT ![s].at = @ + 1]
    <3>1. /\ script' = [r \in Scripts |-> script'[r]]
          /\ \A r \in Scripts \ {s} : script'[r] = script[r]
          /\ script'[s] = [script[s] EXCEPT !.at = @ + 1]
      BY <1>2, <2>1
    <3>2. /\ Shaped(script'[s]) /\ script'[s].pc = "new" /\ script'[s].at = script[s].at + 1
          /\ script'[s].mine = script[s].mine /\ script'[s].twice = script[s].twice
      BY <1>1, <1>2, <3>1 DEF Shaped
    <3> QED BY <1>2, <2>1, <3>1, <3>2
  <2>2. CASE script' = [script EXCEPT ![s] = Added(s, fp, shape.spec)]
    <3>1. /\ script' = [r \in Scripts |-> script'[r]]
          /\ \A r \in Scripts \ {s} : script'[r] = script[r]
          /\ script'[s] = Added(s, fp, shape.spec)
      BY <1>2, <2>2
    <3>2. PICK twice \in BOOLEAN : twice = (script[s].twice \/ fp \in DOMAIN script[s].mine)
      OBVIOUS
    <3>3. PICK mine : mine = Put(script[s].mine, fp, shape.spec)
      OBVIOUS
    <3>4. script'[s] = [pc |-> "new", at |-> script[s].at + 1, mine |-> mine, twice |-> twice]
      BY <3>1, <3>2, <3>3 DEF Added
    <3>5. Shaped(script'[s])
      BY <3>4 DEF Shaped
    <3>6. DOMAIN mine = DOMAIN script[s].mine \cup {fp}
      BY <3>3 DEF Put
    <3> QED BY <1>1, <3>1, <3>4, <3>5, <3>6
  <2> QED BY <1>1, <2>1, <2>2
<1>4. ASSUME NEW i \in 1 .. script'[s].at - 1, ~Shapes[s][i].csv
      PROVE  KnownAs(s, i) \in DOMAIN registry \cup DOMAIN script'[s].mine
  <2>1. CASE i = script[s].at
    BY <1>3, <1>4, <2>1 DEF KnownAs
  <2>2. CASE i # script[s].at
    <3>1. i \in 1 .. script[s].at - 1
      BY <1>2, <1>3, <2>2, ShapesOf
    <3> QED BY <1>1, <1>2, <1>3, <1>4, <3>1 DEF ScriptOK
  <2> QED BY <2>1, <2>2
<1>5. script'[s].at \in 1 .. Len(Shapes[s]) + 1
  BY <1>1, <1>2, <1>3, ShapesOf
<1>6. ScriptOK(s)'
  BY <1>1, <1>3, <1>4, <1>5 DEF ScriptOK, KnownAs
<1>7. \A r \in Scripts \ {s} : ScriptOK(r)'
  BY <1>1, <1>3, StillSeeds DEF Seeds
<1> QED BY <1>3, <1>6, <1>7 DEF Seeds

LEMMA CommitSeeds ==
  ASSUME Seeds, NEW s \in Scripts, SeedCommit(s)
  PROVE  Seeds'
<1>1. /\ ScriptOK(s) /\ Shaped(script[s]) /\ script = [r \in Scripts |-> script[r]]
      /\ script[s].pc = "new" /\ script[s].at > Len(Shapes[s])
      /\ script[s].at \in 1 .. Len(Shapes[s]) + 1
  BY DEF Seeds, ScriptOK, SeedCommit
<1>2. \A i \in DOMAIN Shapes[s] :
        ~Shapes[s][i].csv => KnownAs(s, i) \in DOMAIN registry \cup DOMAIN script[s].mine
  <2>1. \A i \in DOMAIN Shapes[s] : i \in 1 .. script[s].at - 1
    BY <1>1, ShapesOf
  <2> QED BY <1>1, <2>1 DEF ScriptOK
<1>3. PICK pc \in {"done", "failed"} :
        /\ script' = [script EXCEPT ![s].pc = pc]
        /\ DOMAIN registry \subseteq DOMAIN registry'
        /\ pc = "done" => DOMAIN script[s].mine \subseteq DOMAIN registry'
  <2>1. DOMAIN Over(script[s].mine, registry) = DOMAIN script[s].mine \cup DOMAIN registry
    BY DEF Over
  <2>2. CASE script' = [script EXCEPT ![s].pc = "done"] /\ registry' = Over(script[s].mine, registry)
    BY <2>1, <2>2
  <2>3. CASE script' = [script EXCEPT ![s].pc = "failed"] /\ UNCHANGED registry
    BY <2>3
  <2> QED BY <2>2, <2>3 DEF SeedCommit
<1>4. /\ script' = [r \in Scripts |-> script'[r]]
      /\ \A r \in Scripts \ {s} : script'[r] = script[r]
      /\ script'[s] = [script[s] EXCEPT !.pc = pc]
  BY <1>1, <1>3
<1>5. /\ Shaped(script'[s]) /\ script'[s].pc = pc /\ script'[s].at = script[s].at
      /\ script'[s].twice = script[s].twice
  BY <1>1, <1>4 DEF Shaped
<1>6. ScriptOK(s)'
  BY <1>1, <1>2, <1>3, <1>5 DEF ScriptOK, KnownAs
<1>7. \A r \in Scripts \ {s} : ScriptOK(r)'
  BY <1>3, <1>4, StillSeeds DEF Seeds
<1> QED BY <1>4, <1>6, <1>7 DEF Seeds

LEMMA SeedsStep == Seeds /\ [Next]_vars => Seeds'
<1> SUFFICES ASSUME Seeds, [Next]_vars PROVE Seeds'
  OBVIOUS
<1>1. ASSUME NEW s \in Scripts, SeedLook(s) PROVE Seeds'
  BY <1>1, LookSeeds
<1>2. ASSUME NEW s \in Scripts, SeedCommit(s) PROVE Seeds'
  BY <1>2, CommitSeeds
<1>3. CASE UNCHANGED <<registry, script>>
  BY <1>3, StillSeeds DEF Seeds
<1> QED BY <1>1, <1>2, <1>3 DEF Next, vars, Receive, Dispatch, MapFields, TryEmail, Qualify, Answer

(* Registered and about to be: a mapping is one that the code knows. *)
SpecsKnown ==
  /\ \A fp \in DOMAIN registry : registry[fp] \in DOMAIN Specs
  /\ \A s \in Scripts : \A fp \in DOMAIN script[s].mine : script[s].mine[fp] \in DOMAIN Specs

LEMMA SpecsInit == Init => SpecsKnown
BY DEF Init, NoScript, SpecsKnown

LEMMA SpecsStep == Seeds /\ SpecsKnown /\ [Next]_vars => SpecsKnown'
<1> SUFFICES ASSUME Seeds, SpecsKnown, [Next]_vars PROVE SpecsKnown'
  OBVIOUS
<1>1. ASSUME NEW s \in Scripts, SeedLook(s) PROVE SpecsKnown'
  <2> DEFINE shape == Shapes[s][script[s].at]
             fp == Fingerprint(shape.header)
  <2>1. /\ Shaped(script[s]) /\ script = [r \in Scripts |-> script[r]] /\ UNCHANGED registry
        /\ script[s].at \in DOMAIN Shapes[s]
    BY <1>1, ShapesOf DEF Seeds, ScriptOK, SeedLook
  <2>2. shape.spec \in DOMAIN Specs
    BY <2>1, ShapesAssumption
  <2>3. /\ \A r \in Scripts \ {s} : script'[r] = script[r]
        /\ \/ script'[s].mine = script[s].mine
           \/ script'[s].mine = Put(script[s].mine, fp, shape.spec)
    <3>1. \/ script' = [script EXCEPT ![s].at = @ + 1]
          \/ script' = [script EXCEPT ![s] = Added(s, fp, shape.spec)]
      BY <1>1 DEF SeedLook
    <3>2. PICK r : /\ script' = [script EXCEPT ![s] = r]
                   /\ r.mine = script[s].mine \/ r.mine = Put(script[s].mine, fp, shape.spec)
      <4>1. CASE script' = [script EXCEPT ![s].at = @ + 1]
        <5>1. script' = [script EXCEPT ![s] = [script[s] EXCEPT !.at = @ + 1]]
          BY <4>1
        <5>2. [script[s] EXCEPT !.at = @ + 1].mine = script[s].mine
          BY <2>1 DEF Shaped
        <5> QED BY <5>1, <5>2
      <4>2. CASE script' = [script EXCEPT ![s] = Added(s, fp, shape.spec)]
        <5>1. Added(s, fp, shape.spec).mine = Put(script[s].mine, fp, shape.spec)
          BY DEF Added
        <5> QED BY <4>2, <5>1
      <4> QED BY <3>1, <4>1, <4>2
    <3> QED BY <2>1, <3>2
  <2> HIDE DEF shape, fp
  <2>4. \A g \in DOMAIN Put(script[s].mine, fp, shape.spec) :
          Put(script[s].mine, fp, shape.spec)[g] \in DOMAIN Specs
    BY <2>2 DEF Put, SpecsKnown
  <2>5. ASSUME NEW r \in Scripts, NEW g \in DOMAIN script'[r].mine
        PROVE  script'[r].mine[g] \in DOMAIN Specs
    BY <2>3, <2>4, <2>5 DEF SpecsKnown
  <2> QED BY <2>1, <2>5 DEF SpecsKnown
<1>2. ASSUME NEW s \in Scripts, SeedCommit(s) PROVE SpecsKnown'
  <2>1. Shaped(script[s]) /\ script = [r \in Scripts |-> script[r]]
    BY DEF Seeds, ScriptOK
  <2>2. PICK pc : /\ script' = [script EXCEPT ![s].pc = pc]
                  /\ \/ registry' = Over(script[s].mine, registry)
                     \/ UNCHANGED registry
    BY <1>2 DEF SeedCommit
  <2>3. \A r \in Scripts : script'[r].mine = script[r].mine
    <3>1. \A r \in Scripts \ {s} : script'[r] = script[r]
      BY <2>1, <2>2
    <3>2. script'[s] = [script[s] EXCEPT !.pc = pc]
      BY <2>1, <2>2
    <3>3. script'[s].mine = script[s].mine
      BY <2>1, <3>2 DEF Shaped
    <3> QED BY <3>1, <3>3
  <2>4. \A fp \in DOMAIN registry' : registry'[fp] \in DOMAIN Specs
    BY <2>2 DEF Over, SpecsKnown
  <2> QED BY <2>3, <2>4 DEF SpecsKnown
<1>3. CASE UNCHANGED <<registry, script>>
  BY <1>3 DEF SpecsKnown
<1> QED BY <1>1, <1>2, <1>3 DEF Next, vars, Receive, Dispatch, MapFields, TryEmail, Qualify, Answer

(* A run that ends well leaves every header it knows registered, whatever the other runs
   know and in whatever order they commit.                                           *)
THEOREM SeedsAreComplete == Spec => []SeedsComplete
<1>1. Seeds => SeedsComplete
  BY DEF Seeds, ScriptOK, KnownAs, SeedsComplete
<1> QED BY <1>1, SeedsInit, SeedsStep, PTL DEF Spec

(* No run replaces or removes a mapping: a commit adds only what nobody registered. *)
THEOREM SpecsStay == Spec => SpecsAreKept
<1> DEFINE Stays == \A fp \in DOMAIN registry : fp \in DOMAIN registry' /\ registry'[fp] = registry[fp]
<1>1. ASSUME NEW s \in Scripts, SeedCommit(s) PROVE Stays
  <2>1. CASE /\ DOMAIN script[s].mine \cap DOMAIN registry = {}
             /\ registry' = Over(script[s].mine, registry)
    BY <2>1 DEF Over
  <2>2. CASE UNCHANGED registry
    BY <2>2
  <2> QED BY <1>1, <2>1, <2>2 DEF SeedCommit
<1>2. ASSUME UNCHANGED registry PROVE Stays
  BY <1>2
<1>3. [Next]_vars => [Stays]_vars
  BY <1>1, <1>2 DEF Next, vars, SeedLook, Receive, Dispatch, MapFields, TryEmail, Qualify, Answer
<1> QED BY <1>3, PTL DEF Spec, SpecsAreKept

-----------------------------------------------------------------------------
(* The header *)

(* The record that NoUpload is. *)
ShapedUpload == upload = [pc |-> upload.pc, file |-> upload.file, header |-> upload.header,
                          spec |-> upload.spec, canonical |-> upload.canonical,
                          next |-> upload.next, best |-> upload.best, length |-> upload.length]

(* What was read is the header that the file shows. *)
ReadsHeader ==
  /\ ShapedUpload
  /\ upload.pc = "read" => upload.file \in Files /\ upload.header = Header(upload.file)

LEMMA ReadsInit == Init => ReadsHeader
BY DEF Init, NoUpload, ReadsHeader, ShapedUpload

LEMMA ReadsStep == ReadsHeader /\ [Next]_vars => ReadsHeader'
<1> SUFFICES ASSUME ReadsHeader, [Next]_vars PROVE ReadsHeader'
  OBVIOUS
<1>1. ASSUME NEW file \in Files, Receive(file) PROVE ReadsHeader'
  <2>1. upload' = [NoUpload EXCEPT !.pc = "read", !.file = file, !.header = Header(file)]
    BY <1>1 DEF Receive
  <2>2. /\ ShapedUpload' /\ upload'.file = file /\ upload'.header = Header(file)
    BY <2>1 DEF NoUpload, ShapedUpload
  <2> QED BY <2>2 DEF ReadsHeader
<1>2. CASE Dispatch
  <2>1. PICK pc \in {"known", "refused"} :
          \/ upload' = [upload EXCEPT !.pc = pc]
          \/ \E spec : upload' = [upload EXCEPT !.pc = pc, !.spec = spec]
    BY <1>2 DEF Dispatch
  <2>2. ShapedUpload' /\ upload'.pc = pc
    BY <2>1 DEF ReadsHeader, ShapedUpload
  <2> QED BY <2>2 DEF ReadsHeader
<1>3. CASE MapFields
  <2>1. PICK pc \in {"failed", "qualifying", "mapped"} :
          \/ upload' = [upload EXCEPT !.pc = pc]
          \/ \E canonical : upload' = [upload EXCEPT !.pc = pc, !.canonical = canonical]
    <3>1. CASE Specs[upload.spec].qualifier
      BY <1>3, <3>1 DEF MapFields
    <3>2. CASE ~Specs[upload.spec].qualifier
      BY <1>3, <3>2 DEF MapFields
    <3> QED BY <3>1, <3>2
  <2>2. ShapedUpload' /\ upload'.pc = pc
    BY <2>1 DEF ReadsHeader, ShapedUpload
  <2> QED BY <2>2 DEF ReadsHeader
<1>4. CASE TryEmail
  <2>1. /\ upload.pc = "qualifying"
        /\ \/ upload' = [upload EXCEPT !.next = @ + 1]
           \/ \E length : upload' = [upload EXCEPT !.next = @ + 1, !.best = upload.next,
                                                   !.length = length]
    BY <1>4 DEF TryEmail
  <2>2. ShapedUpload' /\ upload'.pc = "qualifying"
    BY <2>1 DEF ReadsHeader, ShapedUpload
  <2> QED BY <2>2 DEF ReadsHeader
<1>5. CASE Qualify
  <2>1. \E canonical : upload' = [upload EXCEPT !.pc = "mapped", !.canonical = canonical]
    BY <1>5 DEF Qualify
  <2>2. ShapedUpload' /\ upload'.pc = "mapped"
    BY <2>1 DEF ReadsHeader, ShapedUpload
  <2> QED BY <2>2 DEF ReadsHeader
<1>6. CASE Answer
  BY <1>6 DEF Answer, NoUpload, ReadsHeader, ShapedUpload
<1>7. ASSUME UNCHANGED upload PROVE ReadsHeader'
  BY <1>7 DEF ReadsHeader, ShapedUpload
<1> QED BY <1>1, <1>2, <1>3, <1>4, <1>5, <1>6, <1>7 DEF Next, vars, SeedLook, SeedCommit

(* A file that is separated by commas or semicolons, in which no name holds one, is split
   where its columns are, with a hint that tells so and without.                        *)
LEMMA HeaderIsNames ==
  ASSUME NEW file \in Files, file.written # "tab", file.hint \in {NULL, file.written},
         \A i \in DOMAIN file.columns : file.columns[i].quoted = {}
  PROVE  Header(file) = Names(file)
<1>1. /\ file.written \in {",", ";"}
      /\ DOMAIN file.columns = 1 .. Len(file.columns)
      /\ Len(file.columns) \in Nat /\ Len(file.columns) # 0
  <2> DEFINE columns == file.columns
             Some == {columns[i] : i \in DOMAIN columns}
  <2>1. /\ file.written \in {",", ";", "tab"}
        /\ columns \in Seq(Some) /\ columns # <<>>
    BY FilesAssumption
  <2>2. ASSUME NEW S, NEW c \in Seq(S), c # <<>>
        PROVE  DOMAIN c = 1 .. Len(c) /\ Len(c) \in Nat /\ Len(c) # 0
    BY <2>2
  <2> QED BY <2>1, <2>2
<1>2. Split(file, file.written) = Names(file)
  BY DEF Split
<1>3. CASE file.hint = file.written
  <2>1. file.hint # NULL /\ file.hint # "tab"
    BY <1>1, <1>3, NullAssumption
  <2> QED BY <1>1, <1>2, <1>3, <2>1 DEF Header
<1>4. CASE file.hint = NULL
  <2> DEFINE sniffed == IF Occurs(";", file) > Occurs(",", file) THEN ";" ELSE ","
  <2>1. Header(file) = Split(file, sniffed)
    BY <1>4, NullAssumption DEF Header
  <2>0. PICK n \in Nat \ {0} : n = Len(file.columns)
    BY <1>1
  <2>2. ASSUME NEW separator
        PROVE  Occurs(separator, file) = IF separator = file.written THEN n - 1 ELSE 0
    <3>1. {i \in DOMAIN file.columns : separator \in file.columns[i].quoted} = {}
      OBVIOUS
    <3>2. Cardinality({i \in DOMAIN file.columns : separator \in file.columns[i].quoted}) = 0
      BY <3>1, FS_EmptySet
    <3>3. Occurs(separator, file) = 0 + (IF separator = file.written THEN n - 1 ELSE 0)
      BY <2>0, <3>2 DEF Occurs
    <3> QED BY <3>3
  <2>3. CASE n = 1
    <3>1. 1 \in DOMAIN file.columns
      <4>1. DOMAIN file.columns = 1 .. n
        BY <1>1, <2>0
      <4> QED BY <4>1
    <3>2. sniffed \notin file.columns[1].quoted
      BY <3>1
    <3> QED BY <2>0, <2>1, <2>3, <3>2 DEF Split
  <2>4. CASE n # 1
    <3>1. n - 1 > 0
      BY <2>4
    <3>2. sniffed = file.written
      <4>1. CASE file.written = ";"
        BY <2>2, <3>1, <4>1
      <4>2. CASE file.written = ","
        <5>1. Occurs(";", file) = 0 /\ Occurs(",", file) = n - 1
          BY <2>2, <4>2
        <5>2. ~(0 > n - 1)
          OBVIOUS
        <5> QED BY <4>2, <5>1, <5>2
      <4> QED BY <1>1, <4>1, <4>2
    <3> QED BY <1>2, <2>1, <3>2
  <2> QED BY <2>3, <2>4
<1> QED BY <1>3, <1>4

(* A file whose header is registered is recognised, in either of the two separators and
   with either kind of first line.                                                   *)
THEOREM RegisteredFilesAreRead == Spec => RegisteredIsRead
<1> DEFINE file == upload.file
           Excused == \/ Fingerprint(Names(file)) \notin DOMAIN registry
                      \/ file.written = "tab"
                      \/ file.hint \notin {NULL, file.written}
                      \/ \E i \in DOMAIN file.columns : file.columns[i].quoted # {}
           Refused == upload.pc = "read" /\ upload'.pc = "refused"
<1>1. ASSUME ReadsHeader, Refused, Dispatch PROVE Excused
  <2>1. file \in Files /\ upload.header = Header(file)
    BY <1>1 DEF ReadsHeader
  <2>2. Fingerprint(upload.header) \notin DOMAIN registry
    <3>1. ASSUME Fingerprint(upload.header) \in DOMAIN registry PROVE FALSE
      <4>1. \E spec : upload' = [upload EXCEPT !.pc = "known", !.spec = spec]
        BY <1>1, <3>1 DEF Dispatch
      <4> QED BY <1>1, <4>1 DEF ReadsHeader, ShapedUpload
    <3> QED BY <3>1
  <2>3. CASE Header(file) = Names(file)
    BY <2>1, <2>2, <2>3
  <2>4. CASE Header(file) # Names(file)
    <3>1. \/ file.written = "tab"
          \/ file.hint \notin {NULL, file.written}
          \/ \E i \in DOMAIN file.columns : file.columns[i].quoted # {}
      BY <2>1, <2>4, HeaderIsNames
    <3> QED BY <3>1
  <2> QED BY <2>3, <2>4
<1>2. ASSUME ReadsHeader, Refused, Next PROVE Dispatch
  BY <1>2 DEF Next, SeedLook, SeedCommit, Receive, MapFields, TryEmail, Qualify, Answer
<1>3. ReadsHeader /\ [Next]_vars => [Refused => Excused]_vars
  BY <1>1, <1>2
<1> QED BY <1>3, ReadsInit, ReadsStep, PTL DEF Spec, RegisteredIsRead

-----------------------------------------------------------------------------
(* The longest common substring *)

(* The last n letters of the first i of a are the last n of the first j of b. *)
Together(a, b, i, j, n) ==
  n <= i /\ n <= j /\ \A k \in 0 .. n - 1 : a[i - k] = b[j - k]

Back(a, b, i, j) == Max({n \in Nat : Together(a, b, i, j, n)})

LEMMA BackIs ==
  ASSUME NEW a, NEW b, NEW i \in Nat, NEW j \in Nat
  PROVE  /\ Back(a, b, i, j) \in Nat
         /\ Together(a, b, i, j, Back(a, b, i, j))
         /\ \A n \in Nat : Together(a, b, i, j, n) => n <= Back(a, b, i, j)
<1> DEFINE T == {n \in Nat : Together(a, b, i, j, n)}
<1>1. T \in SUBSET Nat /\ 0 \in T /\ \A n \in T : n <= i
  BY DEF Together
<1>2. Max(T) \in T /\ \A n \in T : n <= Max(T)
  <2> HIDE DEF T
  <2> QED BY <1>1, GreatestNumber
<1> QED BY <1>2 DEF Back

LEMMA BackSteps ==
  ASSUME NEW a, NEW b, NEW i \in Nat, NEW j \in Nat
  PROVE  Back(a, b, i, j) = IF i = 0 \/ j = 0 THEN 0
                            ELSE IF a[i] = b[j] THEN Back(a, b, i - 1, j - 1) + 1 ELSE 0
<1>1. PICK n \in Nat : /\ n = Back(a, b, i, j) /\ Together(a, b, i, j, n)
                       /\ \A m \in Nat : Together(a, b, i, j, m) => m <= n
  BY BackIs
<1>2. CASE i = 0 \/ j = 0
  BY <1>1, <1>2 DEF Together
<1>3. CASE i # 0 /\ j # 0 /\ a[i] # b[j]
  <2>1. ~(0 \in 0 .. n - 1)
    BY <1>1, <1>3 DEF Together
  <2> QED BY <1>1, <1>3, <2>1
<1>4. CASE i # 0 /\ j # 0 /\ a[i] = b[j]
  <2>1. i - 1 \in Nat /\ j - 1 \in Nat
    BY <1>4
  <2>2. PICK m \in Nat : /\ m = Back(a, b, i - 1, j - 1) /\ Together(a, b, i - 1, j - 1, m)
                         /\ \A l \in Nat : Together(a, b, i - 1, j - 1, l) => l <= m
    BY <2>1, BackIs
  <2>3. Together(a, b, i, j, m + 1)
    <3>1. m + 1 <= i /\ m + 1 <= j
      BY <2>1, <2>2 DEF Together
    <3>2. ASSUME NEW k \in 0 .. m + 1 - 1 PROVE a[i - k] = b[j - k]
      <4>1. CASE k = 0
        BY <1>4, <4>1
      <4>2. CASE k # 0
        <5>1. k - 1 \in 0 .. m - 1
          BY <4>2
        <5>2. a[i - 1 - (k - 1)] = b[j - 1 - (k - 1)]
          BY <2>2, <5>1 DEF Together
        <5>3. i - 1 - (k - 1) = i - k /\ j - 1 - (k - 1) = j - k
          OBVIOUS
        <5> QED BY <5>2, <5>3
      <4> QED BY <4>1, <4>2
    <3> QED BY <3>1, <3>2 DEF Together
  <2>4. m + 1 <= n
    BY <1>1, <2>3
  <2>5. Together(a, b, i - 1, j - 1, n - 1)
    <3>1. n - 1 <= i - 1 /\ n - 1 <= j - 1
      BY <1>1 DEF Together
    <3>2. ASSUME NEW k \in 0 .. n - 1 - 1 PROVE a[i - 1 - k] = b[j - 1 - k]
      <4>1. k + 1 \in 0 .. n - 1
        OBVIOUS
      <4>2. a[i - (k + 1)] = b[j - (k + 1)]
        BY <1>1, <4>1 DEF Together
      <4>3. i - (k + 1) = i - 1 - k /\ j - (k + 1) = j - 1 - k
        OBVIOUS
      <4> QED BY <4>2, <4>3
    <3> QED BY <3>1, <3>2 DEF Together
  <2>6. n - 1 <= m
    BY <2>2, <2>4, <2>5
  <2>7. n = m + 1
    BY <2>4, <2>6
  <2> QED BY <1>1, <1>4, <2>2, <2>7
<1> QED BY <1>2, <1>3, <1>4

(* The table is that of the longest common endings: they obey its equation, and a table
   that obeys it cannot differ from them at a first place.                            *)
LEMMA TableIsBack ==
  ASSUME NEW a, NEW b, Len(a) \in Nat, Len(b) \in Nat
  PROVE  LongestCommonSubstring(a, b) = Max({Back(a, b, p[1], p[2]) : p \in Places(a, b)})
<1> DEFINE suffix[p \in Places(a, b)] ==
             IF p[1] = 0 \/ p[2] = 0 THEN 0
             ELSE IF a[p[1]] = b[p[2]] THEN suffix[<<p[1] - 1, p[2] - 1>>] + 1 ELSE 0
           Obeys(f) == f = [p \in Places(a, b) |->
             IF p[1] = 0 \/ p[2] = 0 THEN 0
             ELSE IF a[p[1]] = b[p[2]] THEN f[<<p[1] - 1, p[2] - 1>>] + 1 ELSE 0]
           back == [p \in Places(a, b) |-> Back(a, b, p[1], p[2])]
<1>1. ASSUME NEW p \in Places(a, b)
      PROVE  /\ p[1] \in Nat /\ p[2] \in Nat /\ p = <<p[1], p[2]>>
             /\ p[1] # 0 /\ p[2] # 0 => <<p[1] - 1, p[2] - 1>> \in Places(a, b)
  BY DEF Places
<1>2. Obeys(back)
  <2>1. ASSUME NEW p \in Places(a, b)
        PROVE  back[p] = IF p[1] = 0 \/ p[2] = 0 THEN 0
                         ELSE IF a[p[1]] = b[p[2]] THEN back[<<p[1] - 1, p[2] - 1>>] + 1 ELSE 0
    <3>1. PICK i \in Nat, j \in Nat : i = p[1] /\ j = p[2] /\ p = <<i, j>>
      BY <1>1
    <3>2. back[p] = Back(a, b, i, j)
      BY <3>1
    <3>3. CASE i # 0 /\ j # 0
      <4>1. <<i - 1, j - 1>> \in Places(a, b)
        BY <1>1, <3>1, <3>3
      <4>2. back[<<i - 1, j - 1>>] = Back(a, b, i - 1, j - 1)
        BY <4>1
      <4> HIDE DEF back
      <4>3. Back(a, b, i, j) = IF a[i] = b[j] THEN Back(a, b, i - 1, j - 1) + 1 ELSE 0
        BY <3>3, BackSteps
      <4> QED BY <3>1, <3>2, <3>3, <4>2, <4>3
    <3>4. CASE i = 0 \/ j = 0
      <4>1. Back(a, b, i, j) = 0
        BY <3>4, BackSteps
      <4> HIDE DEF back
      <4> QED BY <3>1, <3>2, <3>4, <4>1
    <3> QED BY <3>3, <3>4
  <2>2. back = [p \in Places(a, b) |-> back[p]]
    OBVIOUS
  <2> HIDE DEF back
  <2> QED BY <2>1, <2>2
<1>3. Obeys(suffix)
  <2>1. suffix = CHOOSE f : Obeys(f)
    OBVIOUS
  <2> HIDE DEF suffix, Obeys, back
  <2> QED BY <1>2, <2>1
<1>4. LongestCommonSubstring(a, b) = Max({suffix[p] : p \in Places(a, b)})
  BY DEF LongestCommonSubstring
<1>5. \A p \in Places(a, b) : suffix[p] = back[p]
  <2> DEFINE wrong == {p \in Places(a, b) : suffix[p] # back[p]}
             first == {p[1] : p \in wrong}
  <2>1. CASE wrong # {}
    <3>1. PICK i \in first : \A k \in first : i <= k
      <4>1. first \in SUBSET Nat /\ first # {}
        BY <1>1, <2>1
      <4> HIDE DEF first
      <4> QED BY <4>1, LeastNumber
    <3>2. PICK p \in wrong : p[1] = i
      BY <3>1
    <3>3. /\ p \in Places(a, b) /\ suffix[p] # back[p]
          /\ p[1] \in Nat /\ p[2] \in Nat
          /\ p[1] # 0 /\ p[2] # 0 => <<p[1] - 1, p[2] - 1>> \in Places(a, b)
      BY <1>1, <3>2
    <3> DEFINE q == <<p[1] - 1, p[2] - 1>>
    <3>4. p[1] # 0 /\ p[2] # 0 => q \in Places(a, b) /\ suffix[q] = back[q]
      <4>1. CASE p[1] # 0 /\ p[2] # 0 /\ q \in wrong
        <5> HIDE DEF suffix, back, wrong
        <5>1. q[1] = p[1] - 1 /\ q \in wrong
          BY <4>1
        <5>2. p[1] - 1 \in first
          BY <5>1
        <5>3. i <= p[1] - 1
          BY <3>1, <5>2
        <5> HIDE DEF first
        <5> QED BY <3>2, <3>3, <5>3
      <4> HIDE DEF suffix, back
      <4> QED BY <3>3, <4>1
    <3>5. /\ suffix[p] = IF p[1] = 0 \/ p[2] = 0 THEN 0
                         ELSE IF a[p[1]] = b[p[2]] THEN suffix[q] + 1 ELSE 0
          /\ back[p] = IF p[1] = 0 \/ p[2] = 0 THEN 0
                       ELSE IF a[p[1]] = b[p[2]] THEN back[q] + 1 ELSE 0
      <4> HIDE DEF suffix, back
      <4> QED BY <1>2, <1>3, <3>3
    <3> HIDE DEF suffix, back
    <3> QED BY <3>3, <3>4, <3>5
  <2> HIDE DEF suffix, back
  <2> QED BY <2>1
<1>6. \A p \in Places(a, b) : suffix[p] = Back(a, b, p[1], p[2])
  <2> HIDE DEF suffix
  <2> QED BY <1>5
<1> HIDE DEF suffix
<1>7. {suffix[p] : p \in Places(a, b)} = {Back(a, b, p[1], p[2]) : p \in Places(a, b)}
  BY <1>6
<1> QED BY <1>4, <1>7

-----------------------------------------------------------------------------
(* The longest common substring is as long as the longest part that both share *)

(* The n elements of a sequence behind its first m. *)
LEMMA PartOfSeq ==
  ASSUME NEW X, NEW s, NEW m \in Nat, NEW n \in Nat, \A k \in m + 1 .. m + n : s[k] \in X
  PROVE  /\ SubSeq(s, m + 1, m + n) \in Seq(X)
         /\ Len(SubSeq(s, m + 1, m + n)) = n
         /\ \A k \in 1 .. n : SubSeq(s, m + 1, m + n)[k] = s[m + k]
<1>1. PICK p \in Int, q \in Int : p = m + 1 /\ q = m + n
  OBVIOUS
<1>2. PICK part : part = SubSeq(s, p, q)
  OBVIOUS
<1>3. /\ part \in Seq(X)
      /\ Len(part) = IF p <= q THEN q - p + 1 ELSE 0
      /\ \A k \in 1 .. q - p + 1 : part[k] = s[p + k - 1]
  BY <1>1, <1>2, SubSeqProperties
<1>4. Len(part) = n
  BY <1>1, <1>3
<1>5. ASSUME NEW k \in 1 .. n PROVE part[k] = s[m + k]
  <2>1. k \in 1 .. q - p + 1 /\ p + k - 1 = m + k
    BY <1>1
  <2> QED BY <1>3, <2>1
<1> QED BY <1>1, <1>2, <1>3, <1>4, <1>5

LEMMA SharesIs ==
  ASSUME NEW X, NEW a \in Seq(X), NEW b \in Seq(X), NEW n \in Nat
  PROVE  Shares(a, b, n) <=>
           \E p \in Places(a, b) : Together(a, b, p[1], p[2], n)
<1>1. Len(a) \in Nat /\ Len(b) \in Nat
  OBVIOUS
(* A part of a, from behind its first i letters, that is in b behind its first j. *)
<1> DEFINE Meet(i, j) == \A k \in 1 .. n : a[i + k] = b[j + k]
<1>2. ASSUME NEW i \in 0 .. Len(a) - n, NEW j \in 0 .. Len(b)
      PROVE  IsPrefix(SubSeq(a, i + 1, i + n), SubSeq(b, j + 1, Len(b)))
               <=> j + n <= Len(b) /\ Meet(i, j)
  <2> DEFINE part == SubSeq(a, i + 1, i + n)
             rest == SubSeq(b, j + 1, Len(b))
  <2>1. /\ part \in Seq(X) /\ Len(part) = n /\ \A k \in 1 .. n : part[k] = a[i + k]
        /\ rest \in Seq(X) /\ Len(rest) = Len(b) - j
        /\ \A k \in 1 .. Len(b) - j : rest[k] = b[j + k]
    <3>1. i \in Nat /\ \A k \in i + 1 .. i + n : a[k] \in X
      BY <1>1
    <3>2. j \in Nat /\ \A k \in j + 1 .. Len(b) : b[k] \in X
      BY <1>1
    <3>3. /\ part \in Seq(X) /\ Len(part) = n /\ \A k \in 1 .. n : part[k] = a[i + k]
      BY <3>1, PartOfSeq
    <3>4. PICK l \in Nat : l = Len(b) - j /\ Len(b) = j + l
      <4>1. Len(b) - j \in Nat /\ Len(b) = j + (Len(b) - j)
        BY <1>1
      <4> QED BY <4>1
    <3>5. \A k \in j + 1 .. j + l : b[k] \in X
      BY <3>2, <3>4
    <3> HIDE DEF part, rest
    <3>6. /\ SubSeq(b, j + 1, j + l) \in Seq(X) /\ Len(SubSeq(b, j + 1, j + l)) = l
          /\ \A k \in 1 .. l : SubSeq(b, j + 1, j + l)[k] = b[j + k]
      BY <3>2, <3>5, PartOfSeq
    <3>7. rest = SubSeq(b, j + 1, j + l)
      BY <3>4 DEF rest
    <3> QED BY <3>3, <3>4, <3>6, <3>7
  <2> HIDE DEF part, rest
  <2>2. /\ SubSeq(part, 1, n) = [k \in 1 .. n |-> part[k]]
        /\ n <= Len(rest) => SubSeq(rest, 1, n) = [k \in 1 .. n |-> rest[k]]
    BY <1>1, <2>1
  <2>3. IsPrefix(part, rest) <=> n <= Len(rest) /\ \A k \in 1 .. n : part[k] = rest[k]
    <3>1. IsPrefix(part, rest) <=> n <= Len(rest) /\ SubSeq(part, 1, n) = SubSeq(rest, 1, n)
      BY <2>1 DEF IsPrefix
    <3>2. n <= Len(rest) => (SubSeq(part, 1, n) = SubSeq(rest, 1, n)
                              <=> \A k \in 1 .. n : part[k] = rest[k])
      BY <2>2
    <3> QED BY <3>1, <3>2
  <2>4. n <= Len(rest) <=> j + n <= Len(b)
    BY <1>1, <2>1
  <2>5. ASSUME n <= Len(rest), NEW k \in 1 .. n
        PROVE  part[k] = a[i + k] /\ rest[k] = b[j + k]
    <3>1. k \in 1 .. Len(b) - j
      BY <1>1, <2>1, <2>5
    <3> QED BY <2>1, <3>1
  <2> QED BY <2>3, <2>4, <2>5 DEF part, rest
<1>3. ASSUME Shares(a, b, n)
      PROVE  \E p \in Places(a, b) : Together(a, b, p[1], p[2], n)
  <2>1. PICK i \in 0 .. Len(a) - n, j \in 0 .. Len(b) : j + n <= Len(b) /\ Meet(i, j)
    BY <1>2, <1>3 DEF Shares, IsWithin
  <2>2. <<i + n, j + n>> \in Places(a, b)
    BY <1>1, <2>1 DEF Places
  <2>3. ASSUME NEW k \in 0 .. n - 1 PROVE a[i + n - k] = b[j + n - k]
    <3>1. n - k \in 1 .. n /\ i + (n - k) = i + n - k /\ j + (n - k) = j + n - k
      OBVIOUS
    <3> QED BY <2>1, <3>1
  <2>4. Together(a, b, i + n, j + n, n)
    BY <2>3 DEF Together
  <2> QED BY <2>2, <2>4
<1>4. ASSUME NEW p \in Places(a, b), Together(a, b, p[1], p[2], n)
      PROVE  Shares(a, b, n)
  <2>1. PICK i \in 0 .. Len(a), j \in 0 .. Len(b) : Together(a, b, i, j, n)
    BY <1>4 DEF Places
  <2>2. i - n \in 0 .. Len(a) - n /\ j - n \in 0 .. Len(b) /\ j - n + n <= Len(b)
    BY <1>1, <2>1 DEF Together
  <2>3. ASSUME NEW k \in 1 .. n PROVE a[i - n + k] = b[j - n + k]
    <3>1. n - k \in 0 .. n - 1 /\ i - (n - k) = i - n + k /\ j - (n - k) = j - n + k
      OBVIOUS
    <3> QED BY <2>1, <3>1 DEF Together
  <2>4. IsPrefix(SubSeq(a, i - n + 1, i - n + n), SubSeq(b, j - n + 1, Len(b)))
    BY <1>2, <2>2, <2>3
  <2> QED BY <2>2, <2>4 DEF Shares, IsWithin
<1> QED BY <1>3, <1>4

(* What the table computes: the number of letters of the longest part that both share. *)
LEMMA LongestIsShared ==
  ASSUME NEW X, NEW a \in Seq(X), NEW b \in Seq(X)
  PROVE  /\ LongestCommonSubstring(a, b) \in Nat
         /\ LongestCommonSubstring(a, b) <= Len(b)
         /\ \A n \in Nat : Shares(a, b, n) <=> n <= LongestCommonSubstring(a, b)
<1> DEFINE T == {Back(a, b, p[1], p[2]) : p \in Places(a, b)}
<1>1. Len(a) \in Nat /\ Len(b) \in Nat
  OBVIOUS
<1>2. ASSUME NEW p \in Places(a, b)
      PROVE  /\ Back(a, b, p[1], p[2]) \in Nat
             /\ Back(a, b, p[1], p[2]) <= Len(b)
             /\ \A n \in Nat : Together(a, b, p[1], p[2], n) <=> n <= Back(a, b, p[1], p[2])
  <2>1. PICK i \in 0 .. Len(a), j \in 0 .. Len(b) : i = p[1] /\ j = p[2]
    BY DEF Places
  <2>2. PICK m \in Nat : /\ m = Back(a, b, i, j) /\ Together(a, b, i, j, m)
                         /\ \A n \in Nat : Together(a, b, i, j, n) => n <= m
    BY <1>1, <2>1, BackIs
  <2>3. m <= Len(b)
    BY <1>1, <2>2 DEF Together
  <2>4. ASSUME NEW n \in Nat, n <= m PROVE Together(a, b, i, j, n)
    <3>1. 0 .. n - 1 \subseteq 0 .. m - 1 /\ n <= i /\ n <= j
      BY <1>1, <2>2, <2>4 DEF Together
    <3> QED BY <2>2, <3>1 DEF Together
  <2> QED BY <2>1, <2>2, <2>3, <2>4
<1>3. T \in SUBSET Nat /\ T # {} /\ \A n \in T : n <= Len(b)
  <2>1. <<0, 0>> \in Places(a, b)
    BY <1>1 DEF Places
  <2> QED BY <1>2, <2>1
<1>4. Max(T) \in T /\ \A n \in T : n <= Max(T)
  <2> HIDE DEF T
  <2> QED BY <1>1, <1>3, GreatestNumber
<1>5. LongestCommonSubstring(a, b) = Max(T)
  BY <1>1, TableIsBack
<1>6. ASSUME NEW n \in Nat PROVE Shares(a, b, n) <=> n <= Max(T)
  <2>1. ASSUME Shares(a, b, n) PROVE n <= Max(T)
    <3>1. PICK p \in Places(a, b) : Together(a, b, p[1], p[2], n)
      BY <2>1, SharesIs
    <3>2. PICK m \in T : m = Back(a, b, p[1], p[2]) /\ n <= m
      BY <1>2, <3>1
    <3> HIDE DEF T
    <3>3. m \in Nat /\ Max(T) \in Nat /\ m <= Max(T)
      BY <1>3, <1>4
    <3> QED BY <3>2, <3>3
  <2>2. ASSUME n <= Max(T) PROVE Shares(a, b, n)
    <3>1. PICK p \in Places(a, b) : Max(T) = Back(a, b, p[1], p[2])
      BY <1>4
    <3>2. Together(a, b, p[1], p[2], n)
      BY <1>2, <2>2, <3>1
    <3> QED BY <3>2, SharesIs
  <2> QED BY <2>1, <2>2
<1> HIDE DEF T
<1> QED BY <1>3, <1>4, <1>5, <1>6

-----------------------------------------------------------------------------
(* Words put together *)

(* f puts the first n words of s together, one after the other. *)
Joins(f, s, n) == f = [i \in 1 .. n |-> IF i = 1 THEN s[i] ELSE f[i - 1] \o s[i]]

(* One word more. *)
LEMMA OneMore ==
  ASSUME NEW X, NEW s, NEW n \in Nat, n > 1, s[n] \in Seq(X),
         NEW g \in [1 .. n - 1 -> Seq(X)], Joins(g, s, n - 1)
  PROVE  \E f \in [1 .. n -> Seq(X)] : Joins(f, s, n)
<1> DEFINE f == [i \in 1 .. n |-> IF i = n THEN g[n - 1] \o s[n] ELSE g[i]]
<1>1. n - 1 \in 1 .. n - 1 /\ n - 1 # n /\ n - 1 \in 1 .. n /\ n \in 1 .. n
  OBVIOUS
<1>2. g[n - 1] \o s[n] \in Seq(X)
  BY <1>1, ConcatProperties
<1>3. f \in [1 .. n -> Seq(X)]
  <2>1. ASSUME NEW i \in 1 .. n PROVE (IF i = n THEN g[n - 1] \o s[n] ELSE g[i]) \in Seq(X)
    <3>1. i # n => i \in 1 .. n - 1
      OBVIOUS
    <3> QED BY <1>2, <3>1
  <2> QED BY <2>1
<1>4. f[n] = g[n - 1] \o s[n] /\ \A i \in 1 .. n - 1 : f[i] = g[i]
  <2>1. ASSUME NEW i \in 1 .. n - 1 PROVE i \in 1 .. n /\ i # n
    OBVIOUS
  <2> QED BY <1>1, <2>1
<1>5. f = [i \in 1 .. n |-> f[i]]
  OBVIOUS
<1> HIDE DEF f
<1>6. ASSUME NEW i \in 1 .. n PROVE f[i] = IF i = 1 THEN s[i] ELSE f[i - 1] \o s[i]
  <2>1. CASE i = n
    <3>1. f[n - 1] = g[n - 1]
      BY <1>1, <1>4
    <3>2. f[n] = f[n - 1] \o s[n]
      BY <1>4, <3>1
    <3>3. i # 1
      BY <2>1
    <3>4. f[i] = f[i - 1] \o s[i]
      BY <2>1, <3>2
    <3> QED BY <3>3, <3>4
  <2>2. CASE i # n
    <3>1. i \in 1 .. n - 1 /\ (i # 1 => i - 1 \in 1 .. n - 1)
      BY <2>2
    <3>2. g[i] = IF i = 1 THEN s[i] ELSE g[i - 1] \o s[i]
      BY <3>1 DEF Joins
    <3> QED BY <1>4, <3>1, <3>2
  <2> QED BY <2>1, <2>2
<1>7. Joins(f, s, n)
  BY <1>5, <1>6 DEF Joins
<1> QED BY <1>3, <1>7

LEMMA FlattenedIsSeq ==
  ASSUME NEW X, NEW s \in Seq(Seq(X))
  PROVE  FlattenSeq(s) \in Seq(X)
<1> DEFINE flatten[i \in 1 .. Len(s)] == IF i = 1 THEN s[i] ELSE flatten[i - 1] \o s[i]
<1>1. PICK N \in Nat : N = Len(s) /\ \A i \in 1 .. N : s[i] \in Seq(X)
  BY ElementOfSeq, LenProperties
<1>2. CASE N = 0
  <2>1. FlattenSeq(s) = s /\ s = <<>>
    BY <1>1, <1>2, EmptySeq DEF FlattenSeq
  <2> QED BY <2>1
<1>3. CASE N # 0
  <2>1. flatten = CHOOSE f : Joins(f, s, N)
    BY <1>1 DEF Joins
  <2>2. FlattenSeq(s) = flatten[N]
    BY <1>1, <1>3 DEF FlattenSeq
  <2> HIDE DEF flatten
  <2>3. \A n \in 1 .. N : \E f \in [1 .. n -> Seq(X)] : Joins(f, s, n)
    <3> DEFINE without == {n \in 1 .. N : ~\E f \in [1 .. n -> Seq(X)] : Joins(f, s, n)}
    <3>1. without \in SUBSET Nat /\ without \subseteq 1 .. N
      OBVIOUS
    <3>2. ASSUME NEW n \in without, \A m \in without : n <= m PROVE FALSE
      <4>1. n \in 1 .. N /\ n \in Nat /\ ~\E f \in [1 .. n -> Seq(X)] : Joins(f, s, n)
        OBVIOUS
      <4>2. CASE n = 1
        <5> DEFINE f == [i \in 1 .. 1 |-> s[i]]
        <5>1. f \in [1 .. 1 -> Seq(X)]
          BY <1>1, <1>3
        <5>2. Joins(f, s, 1)
          BY DEF Joins
        <5> HIDE DEF f
        <5> QED BY <4>1, <4>2, <5>1, <5>2
      <4>3. CASE n # 1
        <5>1. n > 1 /\ n - 1 \in 1 .. N /\ ~(n <= n - 1)
          BY <4>1, <4>3
        <5>2. n - 1 \notin without
          <6> HIDE DEF without
          <6> QED BY <3>2, <5>1
        <5>3. PICK g \in [1 .. n - 1 -> Seq(X)] : Joins(g, s, n - 1)
          BY <5>1, <5>2
        <5>4. s[n] \in Seq(X)
          BY <1>1, <4>1
        <5> HIDE DEF without
        <5> QED BY <4>1, <5>1, <5>3, <5>4, OneMore
      <4> QED BY <4>2, <4>3
    <3>3. without = {}
      <4> HIDE DEF without
      <4> QED BY <3>1, <3>2, LeastNumber
    <3> QED BY <3>3
  <2>4. Joins(flatten, s, N)
    <3>1. N \in 1 .. N
      BY <1>3
    <3>2. \E f : Joins(f, s, N)
      BY <2>3, <3>1
    <3> QED BY <2>1, <3>2
  <2>5. \A i \in 1 .. N : flatten[i] \in Seq(X)
    <3> DEFINE wrong == {i \in 1 .. N : flatten[i] \notin Seq(X)}
    <3>1. wrong \in SUBSET Nat
      OBVIOUS
    <3>2. ASSUME NEW i \in wrong, \A k \in wrong : i <= k PROVE FALSE
      <4>1. i \in 1 .. N /\ flatten[i] \notin Seq(X)
        OBVIOUS
      <4>2. flatten[i] = IF i = 1 THEN s[i] ELSE flatten[i - 1] \o s[i]
        BY <2>4, <4>1 DEF Joins
      <4>3. i # 1 => i - 1 \in 1 .. N /\ ~(i <= i - 1)
        BY <4>1
      <4>4. i # 1 => flatten[i - 1] \in Seq(X)
        BY <3>2, <4>3
      <4> HIDE DEF wrong
      <4> QED BY <1>1, <4>1, <4>2, <4>4, ConcatProperties
    <3>3. wrong = {}
      <4> HIDE DEF wrong
      <4> QED BY <3>1, <3>2, LeastNumber
    <3> QED BY <3>3
  <2>6. N \in 1 .. N
    BY <1>3
  <2> QED BY <2>2, <2>5, <2>6
<1> QED BY <1>1, <1>2, <1>3

-----------------------------------------------------------------------------
(* What the names of a brand are made of *)

(* A word put together from what each of its elements stands for. *)
LEMMA SpelledIsSeq ==
  ASSUME NEW X, NEW Y, NEW word \in Seq(Y), NEW s, s = [i \in DOMAIN word |-> s[i]],
         \A i \in DOMAIN word : word[i] \in Y => s[i] \in Seq(X)
  PROVE  FlattenSeq(s) \in Seq(X)
<1>1. PICK n \in Nat : n = Len(word) /\ DOMAIN word = 1 .. n /\ \A i \in 1 .. n : word[i] \in Y
  BY ElementOfSeq, LenProperties
<1>2. s = [i \in 1 .. n |-> s[i]] /\ \A i \in 1 .. n : s[i] \in Seq(X)
  BY <1>1
<1>3. s \in [1 .. n -> Seq(X)]
  BY <1>2
<1>4. s \in Seq(Seq(X))
  BY <1>3, SeqDef
<1> QED BY <1>4, FlattenedIsSeq

LEMMA NormalizedIsSeq ==
  ASSUME NEW word \in Seq(Characters)
  PROVE  Normalize(word) \in Seq(Plain)
<1> DEFINE s == [i \in DOMAIN word |-> Ascii[word[i]]]
<1>1. s = [i \in DOMAIN word |-> s[i]]
  OBVIOUS
<1>2. \A i \in DOMAIN word : word[i] \in Characters => s[i] \in Seq(Plain)
  BY AsciiAssumption
<1>3. FlattenSeq(s) \in Seq(Plain)
  <2> HIDE DEF s
  <2> QED BY <1>1, <1>2, SpelledIsSeq
<1> QED BY <1>3 DEF Normalize

LEMMA KeptIsSeq ==
  ASSUME NEW X, NEW Y, NEW word \in Seq(Y)
  PROVE  Kept(word, X) \in Seq(X)
<1> DEFINE s == [i \in DOMAIN word |-> IF word[i] \in X THEN <<word[i]>> ELSE <<>>]
<1>1. s = [i \in DOMAIN word |-> s[i]]
  OBVIOUS
<1>2. \A i \in DOMAIN word : s[i] \in Seq(X)
  OBVIOUS
<1>3. FlattenSeq(s) \in Seq(X)
  <2> HIDE DEF s
  <2> QED BY <1>1, <1>2, SpelledIsSeq
<1> QED BY <1>3 DEF Kept

LEMMA DottedIsSeq ==
  ASSUME NEW labels \in Seq(Seq(Characters))
  PROVE  Dotted(labels) \in Seq(Characters)
<1>1. CASE labels = <<>>
  BY <1>1, EmptySeq DEF Dotted
<1>2. CASE labels # <<>>
  <2> DEFINE rest == Tail(labels)
             s == [i \in DOMAIN rest |-> <<".">> \o labels[i + 1]]
  <2>1. /\ Head(labels) \in Seq(Characters) /\ rest \in Seq(Seq(Characters))
        /\ \A i \in DOMAIN rest : rest[i] = labels[i + 1]
    <3>1. /\ Head(labels) \in Seq(Characters) /\ rest \in Seq(Seq(Characters))
          /\ \A i \in 1 .. Len(rest) : rest[i] = labels[i + 1]
      BY <1>2, HeadTailProperties
    <3>2. DOMAIN rest = 1 .. Len(rest)
      BY <3>1, LenProperties
    <3> QED BY <3>1, <3>2
  <2>2. <<".">> \in Seq(Characters)
    BY AsciiAssumption
  <2>3. s = [i \in DOMAIN rest |-> s[i]]
    OBVIOUS
  <2>4. \A i \in DOMAIN rest : s[i] = <<".">> \o labels[i + 1]
    OBVIOUS
  <2>5. FlattenSeq(s) \in Seq(Characters)
    <3> HIDE DEF s, rest
    <3>1. ASSUME NEW i \in DOMAIN rest, rest[i] \in Seq(Characters) PROVE s[i] \in Seq(Characters)
      <4>1. s[i] = <<".">> \o rest[i]
        BY <2>1, <2>4
      <4> QED BY <2>2, <3>1, <4>1, ConcatProperties
    <3> QED BY <2>1, <2>3, <3>1, SpelledIsSeq
  <2>6. Dotted(labels) = Head(labels) \o FlattenSeq(s)
    BY <1>2 DEF Dotted
  <2> HIDE DEF s, rest
  <2> QED BY <2>1, <2>5, <2>6, ConcatProperties
<1> QED BY <1>1, <1>2

(* The parts of a host are words, and the base domain has a first label. *)
LEMMA PartsOfHost ==
  ASSUME NEW host \in Labels
  PROVE  /\ WithoutWww(host) \in Labels
         /\ BaseDomain(host)[1] \in Seq(Characters)
         /\ Subdomain(host) \in Seq(Seq(Characters))
<1> DEFINE W == Seq(Characters)
<1>1. host \in Seq(W) /\ host # <<>>
  BY DEF Labels
<1>2. PICK n \in Nat \ {0} : /\ n = Len(host) /\ DOMAIN host = 1 .. n
                             /\ \A i \in 1 .. n : host[i] \in W
  <2> HIDE DEF W
  <2> QED BY <1>1, ElementOfSeq, LenProperties, EmptySeq
<1> HIDE DEF W
<1>3. WithoutWww(host) \in Seq(W) /\ WithoutWww(host) # <<>>
  <2>1. CASE n > 1
    <3>1. Tail(host) \in Seq(W) /\ Len(Tail(host)) = n - 1
      BY <1>1, <1>2, HeadTailProperties
    <3>2. Tail(host) # <<>>
      <4>1. Len(Tail(host)) # 0
        BY <2>1, <3>1
      <4> QED BY <4>1, EmptySeq
    <3> QED BY <1>1, <3>1, <3>2 DEF WithoutWww
  <2>2. CASE ~(n > 1)
    BY <1>1, <1>2, <2>2 DEF WithoutWww
  <2> QED BY <2>1, <2>2
<1>4. BaseDomain(host)[1] \in W
  <2>1. CASE n > 2
    <3>1. n - 1 \in Int /\ n \in Int /\ \A i \in n - 1 .. n : host[i] \in W
      BY <1>2, <2>1
    <3>2. \A i \in 1 .. n - (n - 1) + 1 : SubSeq(host, n - 1, n)[i] = host[n - 1 + i - 1]
      BY <3>1, SubSeqProperties
    <3>3. SubSeq(host, n - 1, n)[1] = host[n - 1] /\ n - 1 \in 1 .. n
      BY <2>1, <3>2
    <3> QED BY <1>2, <2>1, <3>3 DEF BaseDomain
  <2>2. CASE ~(n > 2)
    <3>1. 1 \in 1 .. n
      OBVIOUS
    <3> QED BY <1>2, <2>2, <3>1 DEF BaseDomain
  <2> QED BY <2>1, <2>2
<1>5. Subdomain(host) \in Seq(W)
  <2>1. CASE n > 2
    <3>1. 1 \in Int /\ n - 2 \in Int /\ \A i \in 1 .. n - 2 : host[i] \in W
      BY <1>2, <2>1
    <3>2. SubSeq(host, 1, n - 2) \in Seq(W)
      BY <3>1, SubSeqProperties
    <3> QED BY <1>2, <2>1, <3>2 DEF Subdomain
  <2>2. CASE ~(n > 2)
    BY <1>2, <2>2, EmptySeq DEF Subdomain
  <2> QED BY <2>1, <2>2
<1> QED BY <1>3, <1>4, <1>5 DEF Labels, W

LEMMA PathIsSeq ==
  ASSUME NEW website, website.host \in Labels, website.path \in Seq(Seq(Characters))
  PROVE  PathIdentifier(website) \in Seq(Plain)
<1> DEFINE parts == <<Dotted(website.host)>> \o website.path
           segments == [i \in DOMAIN parts |-> Kept(parts[i], Plain \cup {"-"})]
           long == {i \in DOMAIN segments : Len(segments[i]) >= MIN_LCS_LENGTH /\ segments[i] \notin PathStop}
<1>1. PathIdentifier(website) = IF long = {} THEN <<>> ELSE Kept(segments[Max(long)], Plain)
  BY DEF PathIdentifier
<1>2. parts \in Seq(Seq(Characters))
  <2>1. Dotted(website.host) \in Seq(Characters)
    BY DottedIsSeq DEF Labels
  <2>2. <<Dotted(website.host)>> \in Seq(Seq(Characters))
    BY <2>1
  <2> QED BY <2>2, ConcatProperties
<1>3. CASE long # {}
  <2>1. PICK n \in Nat : n = Len(parts) /\ DOMAIN parts = 1 .. n
                         /\ \A i \in 1 .. n : parts[i] \in Seq(Characters)
    <3> HIDE DEF parts
    <3> QED BY <1>2, ElementOfSeq, LenProperties
  <2>2. long \in SUBSET Nat /\ \A i \in long : i <= n /\ i \in DOMAIN segments
    <3> HIDE DEF parts
    <3> QED BY <2>1
  <2>3. Max(long) \in DOMAIN segments
    <3> HIDE DEF long
    <3> QED BY <1>3, <2>2, GreatestNumber
  <2>4. segments[Max(long)] \in Seq(Plain \cup {"-"})
    <3> HIDE DEF parts, long
    <3>1. Max(long) \in 1 .. n
      BY <2>1, <2>3
    <3> QED BY <2>1, <3>1, KeptIsSeq
  <2> HIDE DEF parts, segments, long
  <2> QED BY <1>1, <1>3, <2>4, KeptIsSeq
<1>4. CASE long = {}
  <2> HIDE DEF long
  <2> QED BY <1>1, <1>4, EmptySeq
<1> QED BY <1>3, <1>4

(* Every name that a brand goes by is made of letters and digits. *)
LEMMA CandidatesAreWords ==
  ASSUME NEW name \in Seq(Seq(Characters)), NEW website,
         website # NULL => website.host \in Labels /\ website.path \in Seq(Seq(Characters))
  PROVE  BrandCandidates(name, website) \in SUBSET Seq(Plain)
<1>1. Normalize(FlattenSeq(name)) \in Seq(Plain)
  <2>1. FlattenSeq(name) \in Seq(Characters)
    BY FlattenedIsSeq
  <2> QED BY <2>1, NormalizedIsSeq
<1>2. \A i \in DOMAIN name : Normalize(name[i]) \in Seq(Plain)
  <2>1. DOMAIN name = 1 .. Len(name) /\ \A i \in 1 .. Len(name) : name[i] \in Seq(Characters)
    BY ElementOfSeq, LenProperties
  <2> QED BY <2>1, NormalizedIsSeq
<1>3. website # NULL => WebsiteBrand(website) \in Seq(Plain)
  <2> SUFFICES ASSUME website # NULL PROVE WebsiteBrand(website) \in Seq(Plain)
    OBVIOUS
  <2> DEFINE host == WithoutWww(website.host)
  <2>1. host \in Labels
    BY PartsOfHost
  <2>2. Normalize(BaseDomain(host)[1]) \in Seq(Plain)
    <3> HIDE DEF host
    <3> QED BY <2>1, PartsOfHost, NormalizedIsSeq
  <2>3. Normalize(Dotted(Subdomain(host))) \in Seq(Plain)
    <3> HIDE DEF host
    <3> QED BY <2>1, PartsOfHost, DottedIsSeq, NormalizedIsSeq
  <2> QED BY <2>2, <2>3, PathIsSeq DEF WebsiteBrand
<1> QED BY <1>1, <1>2, <1>3 DEF BrandCandidates

(* How well an email matches is the number of letters it shares with the best of the names. *)
LEMMA MatchIsShared ==
  ASSUME NEW X, NEW candidates \in SUBSET Seq(X), NEW email,
         Normalize(email.local) \in Seq(X), Normalize(email.domain[1]) \in Seq(X)
  PROVE  /\ MatchLength(email, candidates) \in Nat
         /\ \A n \in Nat \ {0} :
              n <= MatchLength(email, candidates) <=>
                \E c \in candidates, t \in {Normalize(email.local), Normalize(email.domain[1])} :
                  Shares(c, t, n)
<1> DEFINE a == Normalize(email.local)
           b == Normalize(email.domain[1])
           L(c, t) == LongestCommonSubstring(c, t)
           T == {0} \cup {L(c, t) : c \in candidates, t \in {a, b}}
<1>1. PICK top \in Nat : Len(a) <= top /\ Len(b) <= top /\ top = Len(a) + Len(b)
  <2>1. Len(a) \in Nat /\ Len(b) \in Nat
    BY LenProperties
  <2> HIDE DEF a, b
  <2> QED BY <2>1
<1>2. ASSUME NEW c \in candidates, NEW t \in {a, b}
      PROVE  /\ L(c, t) \in Nat /\ L(c, t) <= top
             /\ \A n \in Nat : Shares(c, t, n) <=> n <= L(c, t)
  <2>1. /\ L(c, t) \in Nat /\ L(c, t) <= Len(t)
        /\ \A n \in Nat : Shares(c, t, n) <=> n <= L(c, t)
    <3>1. c \in Seq(X) /\ t \in Seq(X)
      OBVIOUS
    <3> HIDE DEF a, b
    <3> QED BY <3>1, LongestIsShared
  <2>2. Len(t) \in Nat /\ Len(t) <= top
    <3>1. Len(a) \in Nat /\ Len(b) \in Nat
      BY LenProperties
    <3> HIDE DEF a, b
    <3> QED BY <1>1, <3>1
  <2> HIDE DEF L
  <2> QED BY <2>1, <2>2
<1> HIDE DEF a, b, L
<1>3. T \in SUBSET Nat /\ T # {} /\ \A n \in T : n <= top
  BY <1>2
<1>3a. /\ \A m \in T : m = 0 \/ \E c \in candidates, t \in {a, b} : m = L(c, t)
       /\ \A c \in candidates, t \in {a, b} : L(c, t) \in T
  OBVIOUS
<1> HIDE DEF T
<1>4. Max(T) \in T /\ \A n \in T : n <= Max(T)
  BY <1>3, GreatestNumber
<1>5. Max(T) \in Nat
  BY <1>3, <1>4
<1>6. ASSUME NEW n \in Nat \ {0}
      PROVE  n <= Max(T) <=> \E c \in candidates, t \in {a, b} : Shares(c, t, n)
  <2>1. ASSUME n <= Max(T) PROVE \E c \in candidates, t \in {a, b} : Shares(c, t, n)
    <3>1. Max(T) # 0
      BY <2>1
    <3>2. PICK c \in candidates, t \in {a, b} : Max(T) = L(c, t)
      BY <1>3a, <1>4, <3>1
    <3> QED BY <1>2, <2>1, <3>2
  <2>2. ASSUME NEW c \in candidates, NEW t \in {a, b}, Shares(c, t, n) PROVE n <= Max(T)
    <3>1. L(c, t) \in T /\ n <= L(c, t)
      BY <1>2, <1>3a, <2>2
    <3>2. L(c, t) <= Max(T) /\ L(c, t) \in Nat
      BY <1>2, <1>4, <3>1
    <3> QED BY <1>5, <3>1, <3>2
  <2> QED BY <2>1, <2>2
<1>7. MatchLength(email, candidates) = Max(T)
  BY DEF MatchLength, a, b, L, T
<1> QED BY <1>5, <1>6, <1>7 DEF a, b

-----------------------------------------------------------------------------
(* The email of a podcast *)

(* How well the i-th of the emails matches, and whether it is in question at all. *)
Length(i) == MatchLength(Podcast.emails[i], Candidates)

InQuestion(i) == ~IsJunk(Podcast.emails[i]) /\ Length(i) >= MIN_LCS_LENGTH

(* The best of the emails that the loop has looked at. *)
BestSoFar ==
  /\ upload.best # NULL => /\ upload.best \in 1 .. upload.next - 1
                           /\ InQuestion(upload.best)
                           /\ upload.length = Length(upload.best)
                           /\ \A i \in 1 .. upload.best - 1 : InQuestion(i) => Length(i) < upload.length
  /\ \A i \in 1 .. upload.next - 1 : InQuestion(i) => Length(i) <= upload.length

Typed ==
  /\ ShapedUpload
  /\ upload.pc \in {"idle", "read", "refused", "known", "failed", "qualifying", "mapped"}
  /\ upload.pc # "idle" => upload.file \in Files
  /\ upload.pc \notin {"idle", "read", "refused"} => upload.spec \in DOMAIN Specs
  /\ upload.next \in Nat \ {0} /\ upload.length \in Nat
  /\ upload.best = NULL <=> upload.length = 0

(* The loop goes over the emails once, and only for a file that asks for it; what it has
   chosen is what is answered.                                                         *)
Chosen ==
  /\ upload.pc \notin {"qualifying", "mapped"} => upload.next = 1 /\ upload.best = NULL
  /\ upload.pc = "qualifying" => /\ Specs[upload.spec].qualifier
                                 /\ upload.next <= Len(Podcast.emails) + 1
                                 /\ BestSoFar
  /\ upload.pc = "mapped" /\ Specs[upload.spec].qualifier =>
       /\ upload.next = Len(Podcast.emails) + 1
       /\ BestSoFar
       /\ upload.canonical.email = upload.best

LEMMA LengthIsMatched ==
  ASSUME upload.file \in Files, NEW i \in DOMAIN Podcast.emails
  PROVE  /\ Length(i) \in Nat
         /\ \A n \in Nat \ {0} : Matches(Podcast.emails[i], n) <=> n <= Length(i)
<1> DEFINE email == Podcast.emails[i]
<1>1. /\ Podcast.name \in Seq(Seq(Characters))
      /\ Podcast.website # NULL => /\ Podcast.website.host \in Labels
                                   /\ Podcast.website.path \in Seq(Seq(Characters))
      /\ email.local \in Seq(Characters) /\ email.domain \in Labels
  BY PodcastsAssumption DEF Podcast
<1>2. Candidates \in SUBSET Seq(Plain)
  BY <1>1, CandidatesAreWords DEF Candidates
<1>3. email.domain[1] \in Seq(Characters)
  <2> HIDE DEF email
  <2>1. email.domain \in Seq(Seq(Characters)) /\ email.domain # <<>>
    BY <1>1 DEF Labels
  <2>2. 1 \in 1 .. Len(email.domain)
    BY <2>1, EmptySeq
  <2> QED BY <2>1, <2>2, ElementOfSeq
<1>4. Normalize(email.local) \in Seq(Plain) /\ Normalize(email.domain[1]) \in Seq(Plain)
  <2> HIDE DEF email
  <2> QED BY <1>1, <1>3, NormalizedIsSeq
<1> HIDE DEF email
<1>5. /\ MatchLength(email, Candidates) \in Nat
      /\ \A n \in Nat \ {0} :
           n <= MatchLength(email, Candidates) <=>
             \E c \in Candidates, t \in {Normalize(email.local), Normalize(email.domain[1])} :
               Shares(c, t, n)
  BY <1>2, <1>4, MatchIsShared
<1>6. Matches(email, 0) = Matches(email, 0) /\ Length(i) = MatchLength(email, Candidates)
  BY DEF Length, email
<1>7. \A n \in Nat \ {0} : Matches(email, n) <=> n <= MatchLength(email, Candidates)
  BY <1>5 DEF Matches
<1> QED BY <1>5, <1>6, <1>7 DEF email

LEMMA EmailsOf ==
  ASSUME upload.file \in Files
  PROVE  Len(Podcast.emails) \in Nat /\ DOMAIN Podcast.emails = 1 .. Len(Podcast.emails)
BY PodcastsAssumption, LenProperties DEF Podcast

UploadInv == Typed /\ Chosen

LEMMA NoneKeeps ==
  ASSUME upload = NoUpload
  PROVE  UploadInv
<1>1. /\ ShapedUpload /\ upload.pc = "idle" /\ upload.next = 1
      /\ upload.best = NULL /\ upload.length = 0
  BY DEF NoUpload, ShapedUpload
<1> QED BY <1>1 DEF UploadInv, Typed, Chosen

LEMMA ReceiveKeeps ==
  ASSUME UploadInv, NEW file \in Files, Receive(file)
  PROVE  UploadInv'
<1>1. upload' = [NoUpload EXCEPT !.pc = "read", !.file = file, !.header = Header(file)]
  BY DEF Receive
<1>2. /\ ShapedUpload' /\ upload'.pc = "read" /\ upload'.file = file
      /\ upload'.next = 1 /\ upload'.best = NULL /\ upload'.length = 0
  BY <1>1 DEF NoUpload, ShapedUpload
<1> QED BY <1>2 DEF UploadInv, Typed, Chosen

LEMMA DispatchKeeps ==
  ASSUME UploadInv, SpecsKnown, Dispatch
  PROVE  UploadInv'
<1> DEFINE fp == Fingerprint(upload.header)
<1>1. \/ fp \in DOMAIN registry /\ upload' = [upload EXCEPT !.pc = "known", !.spec = registry[fp]]
      \/ upload' = [upload EXCEPT !.pc = "refused"]
  BY DEF Dispatch
<1>2. upload.pc = "read" /\ ShapedUpload
  BY DEF Dispatch, UploadInv, Typed
<1>3. CASE fp \in DOMAIN registry /\ upload' = [upload EXCEPT !.pc = "known", !.spec = registry[fp]]
  <2>1. /\ ShapedUpload' /\ upload'.pc = "known" /\ upload'.file = upload.file
        /\ upload'.next = upload.next /\ upload'.best = upload.best /\ upload'.length = upload.length
        /\ upload'.spec = registry[fp]
    BY <1>2, <1>3 DEF ShapedUpload
  <2>2. registry[fp] \in DOMAIN Specs
    BY <1>3 DEF SpecsKnown
  <2> HIDE DEF fp
  <2> QED BY <1>2, <2>1, <2>2 DEF UploadInv, Typed, Chosen
<1>4. CASE upload' = [upload EXCEPT !.pc = "refused"]
  <2>1. /\ ShapedUpload' /\ upload'.pc = "refused" /\ upload'.file = upload.file
        /\ upload'.next = upload.next /\ upload'.best = upload.best /\ upload'.length = upload.length
    BY <1>2, <1>4 DEF ShapedUpload
  <2> QED BY <1>2, <2>1 DEF UploadInv, Typed, Chosen
<1> QED BY <1>1, <1>3, <1>4

LEMMA MapKeeps ==
  ASSUME UploadInv, MapFields
  PROVE  UploadInv'
<1>1. PICK pc \in {"failed", "qualifying", "mapped"} :
        /\ \/ upload' = [upload EXCEPT !.pc = pc]
           \/ \E canonical : upload' = [upload EXCEPT !.pc = pc, !.canonical = canonical]
        /\ pc = "qualifying" => Specs[upload.spec].qualifier
        /\ pc = "mapped" => ~Specs[upload.spec].qualifier
  <2>1. CASE Specs[upload.spec].qualifier
    BY <2>1 DEF MapFields
  <2>2. CASE ~Specs[upload.spec].qualifier
    BY <2>2 DEF MapFields
  <2> QED BY <2>1, <2>2
<1>2. upload.pc = "known" /\ ShapedUpload
  BY DEF MapFields, UploadInv, Typed
<1>3. /\ ShapedUpload' /\ upload'.pc = pc /\ upload'.file = upload.file /\ upload'.spec = upload.spec
      /\ upload'.next = upload.next /\ upload'.best = upload.best /\ upload'.length = upload.length
  BY <1>1, <1>2 DEF ShapedUpload
<1>4. Typed' /\ upload'.next = 1 /\ upload'.best = NULL
  BY <1>2, <1>3 DEF UploadInv, Typed, Chosen
<1>5. Len(Podcast.emails)' \in Nat
  <2>1. Len(Podcast.emails) \in Nat /\ Podcast' = Podcast
    BY <1>2, <1>3, EmailsOf DEF UploadInv, Typed, Podcast
  <2> QED BY <2>1
<1>6. BestSoFar'
  BY <1>4 DEF BestSoFar
<1>7. upload'.next <= Len(Podcast.emails)' + 1
  BY <1>4, <1>5
<1>8. CASE pc = "failed"
  BY <1>3, <1>4, <1>8 DEF UploadInv, Chosen
<1>9. CASE pc = "qualifying"
  BY <1>1, <1>3, <1>4, <1>6, <1>7, <1>9 DEF UploadInv, Chosen
<1>10. CASE pc = "mapped"
  BY <1>1, <1>3, <1>4, <1>10 DEF UploadInv, Chosen
<1> QED BY <1>8, <1>9, <1>10

LEMMA TryKeeps ==
  ASSUME UploadInv, TryEmail
  PROVE  UploadInv'
<1>1. /\ upload.pc = "qualifying" /\ ShapedUpload /\ upload.file \in Files /\ BestSoFar
      /\ upload.best = NULL <=> upload.length = 0
  BY DEF TryEmail, UploadInv, Typed, Chosen
<1>2. PICK n \in Nat \ {0}, l \in Nat, N \in Nat :
        /\ n = upload.next /\ l = upload.length /\ N = Len(Podcast.emails) /\ n <= N
        /\ DOMAIN Podcast.emails = 1 .. N
  BY <1>1, EmailsOf DEF TryEmail, UploadInv, Typed
<1>3. PICK m \in Nat : m = Length(n) /\ \A i \in 1 .. n : Length(i) \in Nat
  <2>1. \A i \in 1 .. n : Length(i) \in Nat
    <3>1. \A i \in 1 .. n : i \in DOMAIN Podcast.emails
      BY <1>2
    <3> QED BY <1>1, <3>1, LengthIsMatched
  <2> QED BY <2>1
<1>4. PICK k \in Nat \ {0} : k = MIN_LCS_LENGTH
  BY LengthAssumption
<1>5. \/ /\ InQuestion(n) /\ m > l
         /\ upload' = [upload EXCEPT !.next = @ + 1, !.best = n, !.length = m]
      \/ /\ ~(InQuestion(n) /\ m > l)
         /\ upload' = [upload EXCEPT !.next = @ + 1]
  <2>1. InQuestion(n) /\ m > l <=> ~IsJunk(Podcast.emails[n]) /\ Beats(m)
    BY <1>2, <1>3 DEF InQuestion, Beats
  <2>2. upload' = IF ~IsJunk(Podcast.emails[n]) /\ Beats(m)
                  THEN [upload EXCEPT !.next = @ + 1, !.best = n, !.length = m]
                  ELSE [upload EXCEPT !.next = @ + 1]
    BY <1>2, <1>3 DEF TryEmail, Length
  <2> QED BY <2>1, <2>2
<1>6. /\ ShapedUpload' /\ upload'.pc = "qualifying" /\ upload'.file = upload.file
      /\ upload'.spec = upload.spec /\ upload'.next = n + 1
      /\ \/ InQuestion(n) /\ m > l /\ upload'.best = n /\ upload'.length = m
         \/ ~(InQuestion(n) /\ m > l) /\ upload'.best = upload.best /\ upload'.length = l
  BY <1>1, <1>2, <1>5 DEF ShapedUpload
<1>7. /\ Podcast' = Podcast
      /\ \A i : Length(i)' = Length(i) /\ (InQuestion(i)' <=> InQuestion(i))
  BY <1>6 DEF Podcast, Candidates, Length, InQuestion
<1>8. /\ \A i \in 1 .. n - 1 : InQuestion(i) => Length(i) <= l
      /\ upload.best # NULL => /\ upload.best \in 1 .. n - 1
                               /\ InQuestion(upload.best)
                               /\ l = Length(upload.best)
                               /\ \A i \in 1 .. upload.best - 1 : InQuestion(i) => Length(i) < l
  BY <1>1, <1>2 DEF BestSoFar
<1>9. BestSoFar' /\ (upload'.best = NULL <=> upload'.length = 0) /\ upload'.length \in Nat
  <2>1. CASE InQuestion(n) /\ m > l /\ upload'.best = n /\ upload'.length = m
    <3>0. m # 0 /\ n \in 1 .. n
      BY <2>1
    <3>1. n # NULL
      BY NullAssumption
    <3>2. ASSUME NEW i \in 1 .. n - 1, InQuestion(i) PROVE Length(i) < m
      <4>1. PICK li \in Nat : li = Length(i) /\ li <= l
        BY <1>3, <1>8, <3>2
      <4> QED BY <2>1, <4>1
    <3>3. ASSUME NEW i \in 1 .. n, InQuestion(i) PROVE Length(i) <= m
      <4>1. CASE i = n
        BY <1>3, <4>1
      <4>2. CASE i # n
        <5>1. i \in 1 .. n - 1 /\ Length(i) \in Nat
          BY <1>3, <4>2
        <5> QED BY <3>2, <3>3, <5>1
      <4> QED BY <4>1, <4>2
    <3>4. n + 1 - 1 = n
      OBVIOUS
    <3> QED BY <1>3, <1>6, <1>7, <2>1, <3>0, <3>1, <3>2, <3>3, <3>4 DEF BestSoFar
  <2>2. CASE ~(InQuestion(n) /\ m > l) /\ upload'.best = upload.best /\ upload'.length = l
    <3>1. ASSUME NEW i \in 1 .. n, InQuestion(i) PROVE Length(i) <= l
      <4>1. CASE i = n
        BY <1>3, <2>2, <3>1, <4>1
      <4>2. CASE i # n
        <5>1. i \in 1 .. n - 1
          BY <4>2
        <5> QED BY <1>8, <3>1, <5>1
      <4> QED BY <4>1, <4>2
    <3>2. n + 1 - 1 = n /\ 1 .. n - 1 \subseteq 1 .. n
      OBVIOUS
    <3> QED BY <1>1, <1>2, <1>6, <1>7, <1>8, <2>2, <3>1, <3>2 DEF BestSoFar
  <2> QED BY <1>6, <2>1, <2>2
<1>10. n + 1 \in Nat \ {0} /\ n + 1 <= N + 1
  BY <1>2
<1>11. Typed'
  <2>1. upload.spec \in DOMAIN Specs
    BY <1>1 DEF UploadInv, Typed
  <2> QED BY <1>1, <1>6, <1>9, <1>10, <2>1 DEF Typed
<1>12. Specs[upload.spec].qualifier
  BY <1>1 DEF UploadInv, Chosen
<1> QED BY <1>2, <1>6, <1>7, <1>9, <1>10, <1>11, <1>12 DEF UploadInv, Chosen

LEMMA QualifyKeeps ==
  ASSUME UploadInv, Qualify
  PROVE  UploadInv'
<1> DEFINE canonical == Over([email |-> upload.best,
                              email_source |-> IF upload.best = NULL THEN NULL ELSE "provided"],
                             upload.canonical)
<1>1. /\ upload.pc = "qualifying" /\ ShapedUpload /\ upload.file \in Files /\ BestSoFar
      /\ upload.next \in Nat \ {0} /\ upload.next <= Len(Podcast.emails) + 1
      /\ upload.next > Len(Podcast.emails)
  BY DEF Qualify, UploadInv, Typed, Chosen
<1>2. upload' = [upload EXCEPT !.pc = "mapped", !.canonical = canonical]
  BY <1>1 DEF Qualify, ShapedUpload
<1>3. canonical.email = upload.best
  BY DEF Over
<1> HIDE DEF canonical
<1>4. /\ ShapedUpload' /\ upload'.pc = "mapped" /\ upload'.file = upload.file
      /\ upload'.spec = upload.spec /\ upload'.next = upload.next /\ upload'.best = upload.best
      /\ upload'.length = upload.length /\ upload'.canonical.email = upload.best
  BY <1>1, <1>2, <1>3 DEF ShapedUpload
<1>5. /\ Podcast' = Podcast
      /\ \A i : Length(i)' = Length(i) /\ (InQuestion(i)' <=> InQuestion(i))
  BY <1>4 DEF Podcast, Candidates, Length, InQuestion
<1>6. BestSoFar'
  BY <1>1, <1>4, <1>5 DEF BestSoFar
<1>7. upload.next = Len(Podcast.emails) + 1
  BY <1>1, EmailsOf
<1> QED BY <1>1, <1>4, <1>5, <1>6, <1>7 DEF UploadInv, Typed, Chosen

LEMMA UploadStep == UploadInv /\ SpecsKnown /\ [Next]_vars => UploadInv'
<1> SUFFICES ASSUME UploadInv, SpecsKnown, [Next]_vars PROVE UploadInv'
  OBVIOUS
<1>1. CASE Answer
  <2>1. upload' = NoUpload
    BY <1>1 DEF Answer
  <2>2. /\ ShapedUpload' /\ upload'.pc = "idle" /\ upload'.next = 1
        /\ upload'.best = NULL /\ upload'.length = 0
    BY <2>1 DEF NoUpload, ShapedUpload
  <2> QED BY <2>2 DEF UploadInv, Typed, Chosen
<1>2. CASE UNCHANGED upload
  BY <1>2 DEF UploadInv, Typed, ShapedUpload, Chosen, BestSoFar, InQuestion, Length, Candidates, Podcast
<1> QED BY <1>1, <1>2, ReceiveKeeps, DispatchKeeps, MapKeeps, TryKeeps, QualifyKeeps
        DEF Next, vars, SeedLook, SeedCommit

LEMMA EmailIsBest ==
  ASSUME UploadInv
  PROVE  BestEmailWins
<1> DEFINE emails == Podcast.emails
           eligible(i) == ~IsJunk(emails[i]) /\ Matches(emails[i], MIN_LCS_LENGTH)
           chosen == upload.canonical.email
<1>1. SUFFICES ASSUME upload.pc = "mapped", Specs[upload.spec].qualifier
      PROVE  /\ chosen = NULL <=> ~\E i \in DOMAIN emails : eligible(i)
             /\ chosen # NULL =>
                  /\ eligible(chosen)
                  /\ \A i \in DOMAIN emails : eligible(i) => Matches(emails[chosen], upload.length)
                  /\ \A i \in DOMAIN emails : eligible(i) => ~Matches(emails[i], upload.length + 1)
                  /\ \A i \in 1 .. chosen - 1 : eligible(i) => ~Matches(emails[i], upload.length)
  BY DEF BestEmailWins
<1>2. /\ upload.file \in Files /\ BestSoFar /\ chosen = upload.best
      /\ upload.next = Len(emails) + 1 /\ (upload.best = NULL <=> upload.length = 0)
  BY <1>1 DEF UploadInv, Typed, Chosen
<1>3. PICK N \in Nat, l \in Nat, k \in Nat \ {0} :
        /\ N = Len(emails) /\ l = upload.length /\ k = MIN_LCS_LENGTH /\ DOMAIN emails = 1 .. N
  BY <1>2, EmailsOf, LengthAssumption DEF UploadInv, Typed
<1>4. /\ \A i \in 1 .. N : InQuestion(i) => Length(i) <= l
      /\ chosen # NULL => /\ chosen \in 1 .. N
                          /\ InQuestion(chosen)
                          /\ l = Length(chosen)
                          /\ \A i \in 1 .. chosen - 1 : InQuestion(i) => Length(i) < l
  <2>1. upload.next - 1 = N
    BY <1>2, <1>3
  <2> HIDE DEF emails
  <2> QED BY <1>2, <1>3, <2>1 DEF BestSoFar
<1>5. ASSUME NEW i \in 1 .. N
      PROVE  /\ Length(i) \in Nat
             /\ \A n \in Nat \ {0} : Matches(emails[i], n) <=> n <= Length(i)
             /\ eligible(i) <=> InQuestion(i)
  <2>1. i \in DOMAIN Podcast.emails
    BY <1>3
  <2>2. /\ Length(i) \in Nat
        /\ \A n \in Nat \ {0} : Matches(emails[i], n) <=> n <= Length(i)
    BY <1>2, <2>1, LengthIsMatched
  <2>3. Matches(emails[i], k) <=> k <= Length(i)
    BY <2>2
  <2> QED BY <1>3, <2>2, <2>3 DEF InQuestion
<1>6. chosen = NULL => \A i \in 1 .. N : ~InQuestion(i)
  <2>1. ASSUME chosen = NULL, NEW i \in 1 .. N, InQuestion(i) PROVE FALSE
    <3>1. PICK m \in Nat : m = Length(i)
      BY <1>5
    <3>2. m <= 0 /\ m >= k
      BY <1>2, <1>3, <1>4, <2>1, <3>1 DEF InQuestion
    <3> QED BY <3>2
  <2> QED BY <2>1
<1>7. chosen # NULL =>
        /\ eligible(chosen)
        /\ l # 0 /\ Matches(emails[chosen], l)
        /\ \A i \in 1 .. N : eligible(i) => ~Matches(emails[i], l + 1)
        /\ \A i \in 1 .. chosen - 1 : eligible(i) => ~Matches(emails[i], l)
  <2> SUFFICES ASSUME chosen # NULL
               PROVE /\ eligible(chosen)
                     /\ l # 0 /\ Matches(emails[chosen], l)
                     /\ \A i \in 1 .. N : eligible(i) => ~Matches(emails[i], l + 1)
                     /\ \A i \in 1 .. chosen - 1 : eligible(i) => ~Matches(emails[i], l)
    OBVIOUS
  <2>1. chosen \in 1 .. N /\ l # 0
    BY <1>2, <1>3, <1>4
  <2>2. eligible(chosen)
    BY <1>4, <1>5, <2>1
  <2>3. Matches(emails[chosen], l)
    BY <1>4, <1>5, <2>1
  <2>4. ASSUME NEW i \in 1 .. N, eligible(i) PROVE ~Matches(emails[i], l + 1)
    <3>1. PICK m \in Nat : m = Length(i) /\ m <= l
      BY <1>4, <1>5, <2>4
    <3>2. Matches(emails[i], l + 1) <=> l + 1 <= m
      BY <1>5, <3>1
    <3> QED BY <3>1, <3>2
  <2>5. ASSUME NEW i \in 1 .. chosen - 1, eligible(i) PROVE ~Matches(emails[i], l)
    <3>0. i \in 1 .. N
      BY <2>1
    <3>1. PICK m \in Nat : m = Length(i) /\ m < l
      BY <1>4, <1>5, <2>5, <3>0
    <3>2. Matches(emails[i], l) <=> l <= m
      BY <1>5, <2>1, <3>0, <3>1
    <3> QED BY <3>1, <3>2
  <2> HIDE DEF eligible, emails
  <2> QED BY <2>1, <2>2, <2>3, <2>4, <2>5
<1> QED BY <1>2, <1>3, <1>4, <1>5, <1>6, <1>7

LEMMA UploadHolds == Spec => []UploadInv
<1>1. Init => UploadInv
  BY NoneKeeps DEF Init
<1> QED BY <1>1, SeedsInit, SeedsStep, SpecsInit, SpecsStep, UploadStep, PTL DEF Spec

(* Every state is one of the record types and ranges that TypeOK gives, for any number of
   runs of the script, files and emails: a mapping in use is one that the code knows, and
   an email is chosen exactly if some letters of it matched.                           *)
THEOREM TypesHold == Spec => []TypeOK
<1>1. Seeds /\ SpecsKnown /\ UploadInv => TypeOK
  BY DEF Seeds, ScriptOK, SpecsKnown, UploadInv, Typed, TypeOK
<1> QED BY <1>1, UploadHolds, SeedsInit, SeedsStep, SpecsInit, SpecsStep, PTL DEF Spec

(* Of any podcast's emails the first of those that match its brand best is chosen, whatever
   the alphabet, the names, the lists of junk and the least length; none if none matches. *)
THEOREM BestIsChosen == Spec => []BestEmailWins
BY UploadHolds, EmailIsBest, PTL
=============================================================================
