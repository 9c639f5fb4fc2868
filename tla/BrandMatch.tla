------------------------------ MODULE BrandMatch ------------------------------
(***************************************************************************)
(* Which of a podcast's listed emails belongs to its brand: the names the  *)
(* brand goes by, the longest common substring of a name and an address,   *)
(* and the addresses that are junk whoever they match.                     *)
(* Source: app/services/mapping/qualifiers.py,                             *)
(* app/services/mapping/email_junk.py.                                     *)
(*                                                                         *)
(* A word is a sequence of characters, lower-cased. A host or a domain is  *)
(* a sequence of words, its labels. Numbers of characters are compared     *)
(* with MIN_LCS_LENGTH, as the source does everywhere with 4.              *)
(***************************************************************************)
EXTENDS Naturals, Sequences, SequencesExt, FiniteSetsExt

CONSTANTS
  MIN_LCS_LENGTH,
  Ascii,        \* of each character, the letters and digits it is normalized to
  Plain,        \* the characters that are letters or digits
  Junk,         \* the pattern lists of email_junk.py, a field for each
  HostDomains,  \* PODCAST_HOST_DOMAINS
  Stopwords,    \* _STOPWORDS, in a name
  PathStop,     \* _PATH_STOP, in a website's path
  NULL

ASSUME LengthAssumption == MIN_LCS_LENGTH \in Nat \ {0}

Characters == DOMAIN Ascii

ASSUME AsciiAssumption ==
  /\ Plain \cup {"-", ".", "@"} \subseteq Characters
  /\ \A c \in Characters : Ascii[c] \in Seq(Plain)
  /\ \A c \in Plain : Ascii[c] = <<c>>
  /\ \A c \in {"-", ".", "@"} : Ascii[c] = <<>>

(* A host or the domain of an address: its labels, of which splitting leaves at least one. *)
Labels == Seq(Seq(Characters)) \ {<<>>}

(* What is left of a word when all but some characters are struck out. *)
Kept(word, characters) ==
  FlattenSeq([i \in DOMAIN word |-> IF word[i] \in characters THEN <<word[i]>> ELSE <<>>])

Normalize(word) == FlattenSeq([i \in DOMAIN word |-> Ascii[word[i]]])

Dotted(labels) ==
  IF labels = <<>> THEN <<>>
  ELSE Head(labels) \o FlattenSeq([i \in DOMAIN Tail(labels) |-> <<".">> \o labels[i + 1]])

IsWithin(part, word) == \E i \in 0 .. Len(word) : IsPrefix(part, SubSeq(word, i + 1, Len(word)))

-----------------------------------------------------------------------------
(* The longest common substring, by the table of the common suffixes *)

(* The places of the table: so many letters of the one word, so many of the other. *)
Places(a, b) == (0 .. Len(a)) \X (0 .. Len(b))

(* Mutated form: the letters need not stand together. *)
CommonSubsequence(a, b) ==
  LET table[p \in Places(a, b)] ==
        IF p[1] = 0 \/ p[2] = 0 THEN 0
        ELSE IF a[p[1]] = b[p[2]] THEN table[<<p[1] - 1, p[2] - 1>>] + 1
        ELSE Max({table[<<p[1] - 1, p[2]>>], table[<<p[1], p[2] - 1>>]})
  IN table[<<Len(a), Len(b)>>]

LongestCommonSubstring(a, b) ==
  LET suffix[p \in Places(a, b)] ==
        IF p[1] = 0 \/ p[2] = 0 THEN 0
        ELSE IF a[p[1]] = b[p[2]] THEN suffix[<<p[1] - 1, p[2] - 1>>] + 1 ELSE 0
  IN Max({suffix[p] : p \in Places(a, b)})

-----------------------------------------------------------------------------
(* Junk, for any of six reasons *)

UnderDomain(domain, vendors) == \E v \in vendors : IsSuffix(v, domain)

IsJunk(email) ==
  \/ Last(email.domain) \in Junk.extensions
  \/ \E marker \in Junk.markers : IsWithin(marker, email.local \o <<"@">> \o Dotted(email.domain))
  \/ email.local \in Junk.placeholders
  \/ email.local \in Junk.mailboxes
  \/ UnderDomain(email.domain, Junk.vendors)
  \/ UnderDomain(email.domain, HostDomains)

-----------------------------------------------------------------------------
(* The names of a podcast's brand. A website has the labels of its host and the segments
   of its path.                                                                        *)

WithoutWww(host) == IF Len(host) > 1 /\ host[1] = <<"w", "w", "w">> THEN Tail(host) ELSE host

BaseDomain(host) == IF Len(host) > 2 THEN SubSeq(host, Len(host) - 1, Len(host)) ELSE host

Subdomain(host) == IF Len(host) > 2 THEN SubSeq(host, 1, Len(host) - 2) ELSE <<>>

IsHostingDomain(domain) == \E h \in HostDomains : IsWithin(Dotted(h), Dotted(domain))

(* What identifies a show in its path: the last segment of some length. The host is the
   first of the segments.                                                              *)
PathIdentifier(website) ==
  LET parts == <<Dotted(website.host)>> \o website.path
      segments == [i \in DOMAIN parts |-> Kept(parts[i], Plain \cup {"-"})]
      long == {i \in DOMAIN segments : Len(segments[i]) >= MIN_LCS_LENGTH /\ segments[i] \notin PathStop}
  IN IF long = {} THEN <<>> ELSE Kept(segments[Max(long)], Plain)

WebsiteBrand(website) ==
  LET host == WithoutWww(website.host) IN
  IF ~IsHostingDomain(BaseDomain(host)) THEN Normalize(BaseDomain(host)[1])
  ELSE IF Subdomain(host) # <<>> THEN Normalize(Dotted(Subdomain(host)))
  ELSE PathIdentifier(website)

(* name: the words of the podcast's name. Its tokens are what is left of the words. *)
BrandCandidates(name, website) ==
  LET tokens == {Normalize(name[i]) : i \in {i \in DOMAIN name : name[i] \notin Stopwords}} \ Stopwords
      brand == IF website = NULL THEN {} ELSE {WebsiteBrand(website)}
  IN {c \in {Normalize(FlattenSeq(name))} \cup tokens \cup brand : Len(c) >= MIN_LCS_LENGTH}

(* How well an email matches: the local part or the first label of the domain, with the
   best of the names.                                                                 *)
MatchLength(email, candidates) ==
  Max({0} \cup {LongestCommonSubstring(c, t) :
                  c \in candidates, t \in {Normalize(email.local), Normalize(email.domain[1])}})
=============================================================================
