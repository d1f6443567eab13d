-------------------------------- MODULE Records --------------------------------
(***************************************************************************)
(* From the records of one answer to the batch that DuckDB receives: the   *)
(* loop over _map() in each provider's search(), the trimming in process() *)
(* and results_to_batch().                                                 *)
(*                                                                         *)
(* A record of an API is a function with the fields that are present; null *)
(* is None.  A field of a kind that is not foreseen holds Junk.            *)
(*                                                                         *)
(* provider, columns, room   the provider, the projected columns, and what *)
(*                           is left of `count`                            *)
(* page      the answer: each record with the work it was made from, or    *)
(*           None for one that no documentation promises                   *)
(* mapped    the Results so far                                            *)
(* batch     column -> its values, once it is emitted                      *)
(* outcome   mapping; emitted; empty (no rows, no batch); crashed (_map()  *)
(*           raised); rejected (Arrow raised)                              *)
(***************************************************************************)
EXTENDS RecordTexts

CONSTANTS Pages,          \* provider -> the answers it may have
          Projections,    \* the sets of columns a query may ask for
          Rooms           \* how much of `count` may be left

VARIABLES provider, columns, room, page, mapped, batch, outcome

asked == <<provider, columns, room, page>>
vars == <<asked, mapped, batch, outcome>>

Columns == {"title", "authors", "abstract", "doi", "year", "published", "venue",
            "citations_count", "url", "source", "extra"}

ASSUME RecordsAssumption ==
  /\ DOMAIN Pages \subseteq {"openalex", "arxiv", "crossref"}
  /\ \A p \in DOMAIN Pages : \A answer \in Pages[p] : answer \in Seq(ToSet(answer))
  /\ Projections \subseteq (SUBSET Columns) \ {{}}
  /\ Rooms \subseteq Nat \ {0}

\* record.get(field, default) and record.get(field)
GetOr(record, field, default) ==
  IF field \in DOMAIN record THEN record[field] ELSE default
Get(record, field) == GetOr(record, field, None)

\* `a or b`
Or(a, b) == IF a \in {None, <<>>} THEN b ELSE a

EmptyDict == <<>>

\* The fields of `extra` that are set.
Present(record, fields) == {field \in fields : Get(record, field) \notin {None, <<>>}}

-----------------------------------------------------------------------------
(* openalex.py                                                             *)

NullLocationRaises(work) ==              \* mutant: no `or {}`
  Get(work, "primary_location") = None

OpenAlexRaises(work) ==
  \/ GetOr(work, "authorships", <<>>) = None
  \/ \E i \in DOMAIN Or(Get(work, "authorships"), <<>>) :
       GetOr(work.authorships[i], "author", EmptyDict) = None
  \/ GetOr(work, "open_access", EmptyDict) = None
  \/ Get(work, "abstract_inverted_index") = Junk

\* Where a work may be read; null when OpenAlex knows none.
Location(work) == Or(Get(work, "primary_location"), EmptyDict)

OpenAlexAuthors(work) ==
  LET names == [i \in DOMAIN GetOr(work, "authorships", <<>>) |->
                  Get(GetOr(work.authorships[i], "author", EmptyDict), "display_name")]
  IN  OrNone(Without(names, {None, <<>>}))

OpenAlexResult(work) ==
  [source    |-> "openalex",
   title     |-> Or(Get(work, "title"), Get(work, "display_name")),
   authors   |-> OpenAlexAuthors(work),
   abstract  |-> ReconstructAbstract(Get(work, "abstract_inverted_index")),
   doi       |-> CleanDoi(Get(work, "doi")),
   year      |-> ParseYear(Get(work, "publication_year")),
   published |-> ParseDate(Get(work, "publication_date")),
   venue     |-> Get(Or(Get(Location(work), "source"), EmptyDict), "display_name"),
   citations_count |-> Get(work, "cited_by_count"),
   url       |-> Or(Get(Location(work), "landing_page_url"), Get(work, "id")),
   extra     |-> Present(work, {"id", "type"})
                 \cup Present(GetOr(work, "open_access", EmptyDict), {"oa_status"})]

-----------------------------------------------------------------------------
(* crossref.py                                                             *)

FirstOf(list) == IF list \in {None, <<>>} THEN None ELSE Head(list)

Issued(item) == FirstOf(Get(Or(Get(item, "issued"), EmptyDict), "date-parts"))

NameParts(author) == <<Get(author, "given"), Get(author, "family")>>

GivenAndFamily(author) ==                \* mutant: both are expected
  IF None \in ToSet(NameParts(author)) THEN <<>>
  ELSE Strip(Get(author, "given") \o <<Blank>> \o Get(author, "family"))

\* " ".join(part for part in (given, family) if part).strip()
AuthorName(author) ==
  LET given   == Or(Get(author, "given"), <<>>)
      family  == Or(Get(author, "family"), <<>>)
      between == IF <<>> \in {given, family} THEN <<>> ELSE <<Blank>>
  IN  Strip(given \o between \o family)

CrossrefRaises(item) ==
  \/ GetOr(item, "author", <<>>) = None
  \/ \E i \in DOMAIN Or(Get(item, "author"), <<>>) : Junk \in ToSet(NameParts(item.author[i]))
  \/ DatePartsRaise(Issued(item))
  \/ /\ DatePartsToDatetime(Issued(item)) = None
     /\ GetOr(item, "published-print", EmptyDict) = None

PrintYear(item, published) ==            \* mutant: the print year alone
  ParseYear(Get(GetOr(item, "published-print", EmptyDict), "year"))

\* The year of the date, or else the one in published-print.
CrossrefYear(item, published) ==
  IF published # None THEN published.year
  ELSE ParseYear(Get(GetOr(item, "published-print", EmptyDict), "year"))

CrossrefAuthors(item) ==
  LET names == [i \in DOMAIN GetOr(item, "author", <<>>) |-> AuthorName(item.author[i])]
  IN  OrNone(Without(names, {<<>>}))

CrossrefResult(item) ==
  LET published == DatePartsToDatetime(Issued(item))
  IN  [source    |-> "crossref",
       title     |-> FirstOf(Get(item, "title")),
       authors   |-> CrossrefAuthors(item),
       abstract  |-> StripJats(Get(item, "abstract")),
       doi       |-> CleanDoi(Get(item, "DOI")),
       year      |-> CrossrefYear(item, published),
       published |-> published,
       venue     |-> FirstOf(Get(item, "container-title")),
       citations_count |-> Get(item, "is-referenced-by-count"),
       url       |-> Get(item, "URL"),
       extra     |-> Present(item, {"type", "publisher"})]

-----------------------------------------------------------------------------
(* arxiv.py; ElementTree gives no text for a missing or empty element.     *)

TextAsIs(entry, tag) == Get(entry, tag)  \* mutant: "" stays ""

\* _text()
Text(entry, tag) ==
  IF Get(entry, tag) = None THEN None ELSE OrNone(Strip(Get(entry, tag)))

Collapsed(text) == IF text = None THEN None ELSE Collapse(text)

\* The first alternate link with a target, or the id.
ArxivUrl(entry) ==
  LET links == {i \in DOMAIN entry.links :
                  /\ Get(entry.links[i], "rel") = "alternate"
                  /\ Get(entry.links[i], "href") \notin {None, <<>>}}
  IN  IF links = {} THEN Text(entry, "id") ELSE entry.links[Min(links)].href

ArxivAuthors(entry) ==
  LET names == [i \in DOMAIN entry.authors |-> Text(entry.authors[i], "name")]
  IN  OrNone(Without(names, {None}))

ArxivResult(entry) ==
  LET published == ParseDate(Get(entry, "published"))
  IN  [source    |-> "arxiv",
       title     |-> Collapsed(Text(entry, "title")),
       authors   |-> ArxivAuthors(entry),
       abstract  |-> Collapsed(Text(entry, "summary")),
       doi       |-> CleanDoi(Text(entry, "doi")),
       year      |-> IF published = None THEN None ELSE published.year,
       published |-> published,
       venue     |-> Or(Text(entry, "journal_ref"), <<"arXiv">>),
       citations_count |-> None,
       url       |-> ArxivUrl(entry),
       extra     |-> Present(entry, {"categories", "primary_category"})
                     \cup (IF ArxivUrl(entry) # None /\ "/abs/" \in ToSet(ArxivUrl(entry))
                           THEN {"arxiv_id"} ELSE {})]

-----------------------------------------------------------------------------
Raises(record) ==
  CASE provider = "openalex" -> OpenAlexRaises(record)
    [] provider = "crossref" -> CrossrefRaises(record)
    [] provider = "arxiv"    -> FALSE

ResultOf(record) ==
  CASE provider = "openalex" -> OpenAlexResult(record)
    [] provider = "crossref" -> CrossrefResult(record)
    [] provider = "arxiv"    -> ArxivResult(record)

DayAfter(date) ==
  IF date.day < DaysIn(date.year, date.month) THEN [date EXCEPT !.day = @ + 1]
  ELSE IF date.month < 12 THEN [date EXCEPT !.month = @ + 1, !.day = 1]
  ELSE [date EXCEPT !.year = @ + 1, !.month = 1, !.day = 1]

DayBefore(date) ==
  IF date.day > 1 THEN [date EXCEPT !.day = @ - 1]
  ELSE IF date.month > 1
  THEN [date EXCEPT !.month = @ - 1, !.day = DaysIn(date.year, date.month - 1)]
  ELSE [date EXCEPT !.year = @ - 1, !.month = 12, !.day = 31]

\* The column is of UTC timestamps: an offset, in hours, is subtracted.
InUtc(date) ==
  LET hour == date.hour - date.offset
      day  == CASE hour < 0  -> DayBefore(date)
                [] hour > 23 -> DayAfter(date)
                [] OTHER     -> date
  IN  [day EXCEPT !.hour = hour % 24, !.offset = 0]

\* extra_json() is None when nothing is set.
Cell(result, column) ==
  CASE column = "extra" /\ result.extra = {}                -> None
    [] column = "published" /\ result.published # None      -> InUtc(result.published)
    [] OTHER                                                -> result[column]

\* pa.array(): a value of the wrong type, or beyond int32, is an error.
ArrowTakes(value) == value \notin {Junk, Huge}

Init ==
  /\ provider \in DOMAIN Pages
  /\ page \in Pages[provider]
  /\ columns \in Projections
  /\ room \in Rooms
  /\ mapped = <<>>
  /\ batch = [column \in {} |-> <<>>]
  /\ outcome = "mapping"

NextRecord == page[Len(mapped) + 1].record

\* One more record of the answer becomes a Result.
MapNext ==
  /\ outcome = "mapping"
  /\ Len(mapped) < Len(page)
  /\ ~ Raises(NextRecord)
  /\ mapped' = Append(mapped, ResultOf(NextRecord))
  /\ UNCHANGED <<asked, batch, outcome>>

\* One record that raises ends the whole answer.
MapRaises ==
  /\ outcome = "mapping"
  /\ Len(mapped) < Len(page)
  /\ Raises(NextRecord)
  /\ outcome' = "crashed"
  /\ UNCHANGED <<asked, mapped, batch>>

Kept == SubSeq(mapped, 1, Min({room, Len(mapped)}))

Emittable(column) == \A i \in DOMAIN Kept : ArrowTakes(Cell(Kept[i], column))

EmitEarly ==                             \* mutant: what is mapped so far
  /\ outcome = "mapping"
  /\ Kept # <<>>
  /\ \A column \in columns : Emittable(column)
  /\ batch' = [column \in columns |-> [i \in DOMAIN Kept |-> Cell(Kept[i], column)]]
  /\ outcome' = "emitted"
  /\ UNCHANGED <<asked, mapped>>

\* results_to_batch(), column by column.
Emit ==
  /\ outcome = "mapping"
  /\ Len(mapped) = Len(page)
  /\ Kept # <<>>
  /\ \A column \in columns : Emittable(column)
  /\ batch' = [column \in columns |-> [i \in DOMAIN Kept |-> Cell(Kept[i], column)]]
  /\ outcome' = "emitted"
  /\ UNCHANGED <<asked, mapped>>

NothingToEmit ==
  /\ outcome = "mapping"
  /\ page = <<>>
  /\ outcome' = "empty"
  /\ UNCHANGED <<asked, mapped, batch>>

ArrowRejects ==
  /\ outcome = "mapping"
  /\ Len(mapped) = Len(page)
  /\ \E column \in columns : ~ Emittable(column)
  /\ outcome' = "rejected"
  /\ UNCHANGED <<asked, mapped, batch>>

Next == MapNext \/ MapRaises \/ Emit \/ NothingToEmit \/ ArrowRejects

Spec == Init /\ [][Next]_vars

-----------------------------------------------------------------------------
(* Properties.  `work` is what the API made a documented record from.      *)

\* Row i of the batch is shown, with this column, for a documented work.
Shows(i, column) ==
  /\ outcome = "emitted"
  /\ column \in columns
  /\ i <= Min({room, Len(page)})
  /\ page[i].work # None

\* Every variable has its type; a date is a day of the calendar and a year
\* fits its column, whatever the record held.
TypeOK ==
  /\ outcome \in {"mapping", "emitted", "empty", "crashed", "rejected"}
  /\ Len(mapped) <= Len(page)
  /\ \A i \in DOMAIN mapped :
       /\ DOMAIN mapped[i] = Columns
       /\ mapped[i].year # None => mapped[i].year \in 1 .. MAXYEAR
       /\ LET date == mapped[i].published
          IN  date # None => IsDate(date.year, date.month, date.day)

\* A page is emitted whole or not at all: a record that cannot be mapped, or
\* a value that Arrow refuses, leaves no batch with holes or of ragged
\* columns behind.
PageWhole ==
  /\ outcome # "emitted" => DOMAIN batch = {}
  /\ outcome = "emitted" =>
       /\ DOMAIN batch = columns
       /\ \A column \in columns : DOMAIN batch[column] = 1 .. Min({room, Len(page)})

\* A page of documented records is never lost, whatever they leave out or
\* set to null.
DocumentedAccepted ==
  (\A i \in DOMAIN page : page[i].work # None) => outcome \notin {"crashed", "rejected"}

\* The two date columns tell the date of the work: they agree, a date that is
\* known to the month or the year starts there, and none is invented.
DatesAgree ==
  \A i \in DOMAIN page :
    LET date == page[i].work.date
    IN  /\ Shows(i, "year") =>
             batch["year"][i] = IF date = None THEN None ELSE date.year
        /\ Shows(i, "published") =>
             IF date = None THEN batch["published"][i] = None
             ELSE LET shown == batch["published"][i]
                  IN  /\ shown.year = date.year
                      /\ shown.month = OrFirst(date.month)
                      /\ shown.day = OrFirst(date.day)
                      /\ shown.offset = 0

\* Inverted index, markup and line breaks: title and abstract read as they
\* were written.
TextsRestored ==
  \A i \in DOMAIN page :
    /\ Shows(i, "title") => batch["title"][i] = OrNone(page[i].work.title)
    /\ Shows(i, "abstract") => batch["abstract"][i] = OrNone(page[i].work.abstract)

\* The authors of a work that its provider's rows list: of Crossref, the persons.
Listed(work) ==
  IF provider = "crossref"
  THEN At(work.authors, DOMAIN work.authors \ work.groups) ELSE work.authors

\* The authors are listed in order, and no person is left out, whatever stands
\* between two of them.
AuthorsInOrder ==
  \A i \in DOMAIN page :
    Shows(i, "authors") => batch["authors"][i] = OrNone(Listed(page[i].work))

\* A work has the same DOI, bare, from whichever provider it comes.
DoiShared ==
  \A i \in DOMAIN page : Shows(i, "doi") => batch["doi"][i] = page[i].work.doi

\* The texts that the code cleans.  It passes on titles, venues and links of
\* OpenAlex and Crossref as it gets them, "" included.
Cleaned == {"abstract", "doi"} \cup (IF provider = "arxiv" THEN {"title", "venue"} ELSE {})

\* What is left of an element of blanks, a DOI that is a prefix only, or an
\* abstract of markup is NULL, and no text of blanks.
MissingIsNull ==
  \A i \in DOMAIN page : \A column \in Cleaned :
    Shows(i, column) =>
      batch[column][i] = None \/ Strip(batch[column][i]) # <<>>

\* base.py:123, of every record: "strip any URL / doi: prefix".
AnyPrefixStripped ==
  outcome = "emitted" /\ "doi" \in columns =>
    \A i \in DOMAIN batch["doi"] :
      batch["doi"][i] # None =>
        Head(batch["doi"][i]) \notin DoiPrefixes \cup {"http://dx.doi.org/"}
=============================================================================
