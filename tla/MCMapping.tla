------------------------------ MODULE MCMapping ------------------------------
(* Podcasts with up to two emails over a small alphabet, and files of one cell of each
   kind, while the seed script runs from old and from new code.                        *)
EXTENDS Mapping, TLC

MCAscii == [c \in {"a", "b", "c", "w"} |-> <<c>>] @@ [c \in {"-", ".", "@"} |-> <<>>] @@ ("á" :> <<"a">>)

ab == <<"a", "b">>
ba == <<"b", "a">>
bab == <<"b", "a", "b">>
cc == <<"c", "c">>
www == <<"w", "w", "w">>

MCStopwords == {cc}
MCPathStop == {ab}
MCHostDomains == {<<<<"b", "b">>, cc>>}
MCJunk == [extensions |-> {<<"w">>}, markers |-> {<<"b", "b", "a">>}, placeholders |-> {<<"a", "c">>},
           mailboxes |-> {<<"c", "a">>}, vendors |-> {<<ba, cc>>}]

Emails ==
  { [local |-> ab, domain |-> <<<<"b">>, cc>>],            \* matches in part
    [local |-> <<"c">>, domain |-> <<bab, cc>>],           \* matches better
    [local |-> <<"b", "-", "á">>, domain |-> <<cc, cc>>],  \* normalized first
    [local |-> ab, domain |-> <<<<"c">>, <<"w">>>>],       \* junk: an asset
    [local |-> <<"b", "b", "a">>, domain |-> <<ab, cc>>],  \* junk: a placeholder
    [local |-> <<"a", "c">>, domain |-> <<ab, cc>>],       \* junk: a placeholder
    [local |-> <<"c", "a">>, domain |-> <<ab, cc>>],       \* junk: a mailbox
    [local |-> ab, domain |-> <<cc, ba, cc>>],             \* junk: a vendor
    [local |-> bab, domain |-> <<<<"b", "b">>, cc>>] }     \* junk: a platform

Podcasts ==
  [ name : {<<>>, <<ab, cc>>, <<<<"b", "á">>, <<"b">>>>},
    website : {NULL, [host |-> <<www, ab, cc>>, path |-> <<>>],
               [host |-> <<ba, <<"b", "b">>, cc>>, path |-> <<>>],
               [host |-> <<<<"b", "b">>, cc>>, path |-> <<<<"a", "-", "b">>, ab, <<"c">>>>],
               [host |-> <<<<"b", "b">>, cc>>, path |-> <<>>]},
    emails : {<<>>} \cup [{1} -> Emails] \cup [1..2 -> Emails] ]

Column(name) == [name |-> name, quoted |-> {}]
NoPodcast == [name |-> <<>>, website |-> NULL, emails |-> <<>>]

PodcastFile(p) ==
  [hint |-> ";", written |-> ";", columns |-> <<Column("Name"), Column("Website")>>,
   cells |-> [n \in {"Name", "Website"} |-> "link"], podcast |-> p]

ListFile(hint, written, columns, kind) ==
  [hint |-> hint, written |-> written, columns |-> columns,
   cells |-> [i \in {columns[j].name : j \in DOMAIN columns} |-> kind], podcast |-> NoPodcast]

Layouts ==
  { <<Column("Email"), Column("Employees")>>, <<Column("Employees"), Column("Email")>>,
    <<Column("Email"), [name |-> "Employees", quoted |-> {",", ";"}]>>, <<Column("Handle")>> }

MCFiles ==
  {PodcastFile(p) : p \in Podcasts}
  \cup {ListFile(NULL, ",", <<Column("Email"), Column("Employees")>>, k) : k \in Kinds}
  \cup {ListFile(NULL, ";", <<Column("Handle")>>, k) : k \in Kinds}
  \cup {ListFile(h, w, c, "number") : h \in {NULL, ",", ";", "tab"}, w \in {",", ";", "tab"}, c \in Layouts}

Field(canonical, source, op) == [canonical |-> canonical, source |-> source, op |-> op]

Apollo == {Field("email", "Email", "email_or_null"), Field("website", "Email", "website_or_null"),
           Field("country", "Email", "const")}

MCSpecs ==
  [ apollo |-> [fields |-> Apollo, qualifier |-> FALSE],
    apollo_headcount |-> [fields |-> Apollo \cup {Field("company_headcount", "Employees", "to_int")},
                          qualifier |-> FALSE],
    consulti |-> [fields |-> {Field("social_youtube", "Handle", "youtube_url_from_handle"),
                              Field("email_confidence", "Handle", "to_float"),
                              Field("last_post", "Handle", "date_parse"),
                              Field("scraped_at", "Handle", "datetime_parse")}, qualifier |-> FALSE],
    podscan_host |-> [fields |-> {Field("company_name", "Name", "text"),
                                  Field("website", "Website", "url_or_null")}, qualifier |-> TRUE] ]

Known(header, spec, csv) == [header |-> header, spec |-> spec, csv |-> csv]

(* The new code has a newer spec for one header and knows one more. The old code knows one
   header twice, as code and, in another order, from a CSV.                               *)
MCShapes ==
  [ old |-> <<Known(<<"Handle">>, "consulti", TRUE), Known(<<"Employees", "Email">>, "apollo", TRUE),
              Known(<<"Email", "Employees">>, "apollo", FALSE)>>,
    new |-> <<Known(<<"Handle">>, "consulti", TRUE),
              Known(<<"Employees", "Email">>, "apollo_headcount", FALSE),
              Known(<<"Name", "Website">>, "podscan_host", FALSE)>> ]
=============================================================================
