----------------------------- MODULE RecordFormats -----------------------------
(***************************************************************************)
(* External: what the documentation of the three APIs says of a record     *)
(* that was made from a work, which is a record of its title, authors,     *)
(* abstract, DOI and date, and of which of its authors are groups of       *)
(* persons.  Texts without content are <<>>, an unknown DOI or date is     *)
(* None.                                                                   *)
(***************************************************************************)
EXTENDS Records

Texts == Seq(STRING)

-----------------------------------------------------------------------------
(* Title and abstract.                                                     *)

Words(text) == Without(text, {Blank})

\* As its author writes a text: single blanks, between words only.
Written(text) == text \in Texts /\ text = Spaced(Words(text))

\* The same words, with blanks between them as it pleases the API and marks
\* anywhere.
SetsOut(raw, text, marks) ==
  /\ raw \in Texts
  /\ Without(raw, marks \cup {Blank}) = Words(text)
  /\ \A i, j \in DOMAIN raw :
       i < j /\ {raw[i], raw[j]} \cap (marks \cup {Blank}) = {} =>
         \E k \in i .. j : raw[k] = Blank

SetsOutIfAny(raw, text, marks) ==
  IF raw = None THEN text = <<>> ELSE SetsOut(raw, text, marks)

\* Every word, once for each place where it stands.
Indexes(index, text) ==
  LET words == Words(text)
  IN  IF text = <<>> THEN index = None
      ELSE /\ index \notin {None, Junk}
           /\ DOMAIN index = ToSet(words)
           /\ \A word \in ToSet(words) :
                /\ IsInjective(index[word])
                /\ ToSet(index[word]) = {k - 1 : k \in {i \in DOMAIN words : words[i] = word}}

TellsTexts(p, record, work) ==
  CASE p = "openalex" ->
         /\ Get(record, "title") \in {None, work.title}
         /\ Get(record, "display_name") = OrNone(work.title)
         /\ Indexes(Get(record, "abstract_inverted_index"), work.abstract)
    [] p = "crossref" ->
         /\ FirstOf(Get(record, "title")) = OrNone(work.title)
         /\ SetsOutIfAny(Get(record, "abstract"), work.abstract, Tags)
    [] p = "arxiv" ->
         /\ SetsOutIfAny(Get(record, "title"), work.title, {})
         /\ SetsOutIfAny(Get(record, "summary"), work.abstract, {})

-----------------------------------------------------------------------------
(* Authors.                                                                *)

\* A given name, a family name or both.
SpellsName(author, name) ==
  LET given  == Get(author, "given")
      family == Get(author, "family")
  IN  \/ given = name /\ family = None
      \/ given = None /\ family = name
      \/ /\ {given, family} \subseteq Texts \ {<<>>}
         /\ name = given \o <<Blank>> \o family

\* A group has a name and neither part of one.
NamesGroup(author, name) ==
  /\ Get(author, "name") = name
  /\ Get(author, "given") = None /\ Get(author, "family") = None

ListsAuthors(p, record, work) ==
  LET authors == work.authors IN
  CASE p = "openalex" ->
         LET list == GetOr(record, "authorships", <<>>)
         IN  /\ list # None /\ DOMAIN list = DOMAIN authors
             /\ \A k \in DOMAIN authors :
                  LET author == GetOr(list[k], "author", EmptyDict)
                  IN  author # None /\ Get(author, "display_name") = authors[k]
    [] p = "crossref" ->
         LET list == GetOr(record, "author", <<>>)
         IN  /\ list # None /\ DOMAIN list = DOMAIN authors
             /\ \A k \in DOMAIN authors :
                  IF k \in work.groups THEN NamesGroup(list[k], authors[k])
                  ELSE SpellsName(list[k], authors[k])
    [] p = "arxiv" ->
         /\ DOMAIN record.authors = DOMAIN authors
         /\ \A k \in DOMAIN authors :
              LET name == Get(record.authors[k], "name")
              IN  name \in Texts /\ Strip(name) = authors[k]

-----------------------------------------------------------------------------
(* DOI and dates.                                                          *)

\* What clean_doi() is given.
DoiText(p, record) ==
  CASE p = "openalex" -> Get(record, "doi")
    [] p = "crossref" -> Get(record, "DOI")
    [] p = "arxiv"    -> Text(record, "doi")

\* A DOI is spelled bare or with one prefix, and begins with none itself.  For
\* one that is not known there is nothing, blanks or a bare prefix.
SpellsDoi(text, doi) ==
  IF doi = None
  THEN \/ text = None
       \/ text \in Texts
          /\ Strip(text) \in {<<>>} \cup {<<p>> : p \in DoiPrefixes \cup {"DOI:"}}
  ELSE /\ doi \in Texts \ {<<>>} /\ Blank \notin ToSet(doi)
       /\ Lower(Head(doi)) \notin DoiPrefixes
       /\ text \in Texts
       /\ Strip(text) \in {doi} \cup {<<p>> \o doi : p \in DoiPrefixes \cup {"DOI:"}}

\* A day of the calendar, or a month or a year without the rest.
KnownDate(date) ==
  /\ IsDate(date.year, OrFirst(date.month), OrFirst(date.day))
  /\ date.year <= LatestYear
  /\ date.month = None => date.day = None

\* An ISO date, UTC unless it says so itself.
TellsDate(text, date) ==
  IF date = None THEN text = None
  ELSE /\ text \notin {None, Junk}
       /\ text.year = date.year /\ text.month = date.month /\ text.day = date.day
       /\ text.hour \in 0 .. 23 /\ text.offset \in {None, 0}

\* A list of as many integers as are known, or of one null.  (The print date
\* of Crossref is such a list too, and not a year.)
ListsDate(parts, date) ==
  IF date = None THEN parts \in {None, <<>>, <<None>>}
  ELSE /\ IsText(parts)
       /\ parts = CASE date.month = None -> <<date.year>>
                    [] date.month # None /\ date.day = None -> <<date.year, date.month>>
                    [] OTHER -> <<date.year, date.month, date.day>>

CarriesDate(p, record, date) ==
  /\ date = None \/ KnownDate(date)
  /\ CASE p = "openalex" ->
            /\ Get(record, "publication_year") = IF date = None THEN None ELSE date.year
            /\ TellsDate(Get(record, "publication_date"), date)
       [] p = "crossref" ->
            /\ ListsDate(Issued(record), date)
            /\ Get(GetOr(record, "published-print", EmptyDict), "year") = None
       [] p = "arxiv" -> TellsDate(Get(record, "published"), date)

-----------------------------------------------------------------------------
(* The rest of a record, and a record.                                     *)

TextOrNull == Texts \cup {None}

\* The other columns hold texts and numbers, and objects are not null.
FillsRest(p, record) ==
  CASE p = "openalex" ->
         /\ GetOr(record, "open_access", EmptyDict) # None
         /\ Get(record, "cited_by_count") \in Int \cup {None}
         /\ Get(Or(Get(Location(record), "source"), EmptyDict), "display_name") \in TextOrNull
         /\ Get(Location(record), "landing_page_url") \in TextOrNull
         /\ Get(record, "id") \in TextOrNull
    [] p = "crossref" ->
         /\ GetOr(record, "published-print", EmptyDict) # None
         /\ Get(record, "is-referenced-by-count") \in Int \cup {None}
         /\ FirstOf(Get(record, "container-title")) \in TextOrNull
         /\ Get(record, "URL") \in TextOrNull
    [] p = "arxiv" ->
         /\ \A tag \in {"id", "journal_ref"} : Get(record, tag) \in TextOrNull
         /\ record.links \in Seq(ToSet(record.links))
         /\ \A i \in DOMAIN record.links : Get(record.links[i], "href") \in TextOrNull

IsWork(work) ==
  /\ Written(work.title) /\ Written(work.abstract)
  /\ work.authors \in Seq(Texts)
  /\ \A k \in DOMAIN work.authors :
       work.authors[k] # <<>> /\ Strip(work.authors[k]) = work.authors[k]
  /\ work.groups \subseteq DOMAIN work.authors

Documents(p, record, work) ==
  /\ IsWork(work)
  /\ TellsTexts(p, record, work)
  /\ ListsAuthors(p, record, work)
  /\ SpellsDoi(DoiText(p, record), work.doi)
  /\ CarriesDate(p, record, work.date)
  /\ FillsRest(p, record)

ASSUME DocumentationAssumption ==
  \A p \in DOMAIN Pages : \A answer \in Pages[p] : \A i \in DOMAIN answer :
    answer[i].work # None => Documents(p, answer[i].record, answer[i].work)

\* What `extra` may be made of.
ExtraFields == {"id", "type", "oa_status", "publisher", "categories", "primary_category",
                "arxiv_id"}

\* The literals that a Result may show are strings: nothing about the code, but
\* to the provers STRING is a set like any other.
ASSUME LiteralsAssumption == {"openalex", "crossref", "arxiv", "arXiv"} \subseteq STRING

\* None, Junk and Huge are no values that a column may hold.
ASSUME ValuesAssumption ==
  /\ None \notin {Junk, Huge}
  /\ \A value \in {None, Junk, Huge} :
       /\ value \notin Int /\ value \notin STRING /\ value \notin Datetimes
       /\ value \notin Texts /\ value \notin Seq(Texts)
       /\ \A fields \in SUBSET ExtraFields : fields # value
=============================================================================
