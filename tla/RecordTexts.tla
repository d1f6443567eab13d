------------------------------ MODULE RecordTexts ------------------------------
(***************************************************************************)
(* The parsing helpers the providers share (providers/base.py), and those  *)
(* for abstracts, as operators.                                            *)
(*                                                                         *)
(* A text is a sequence of pieces: words, blanks, markup tags and the      *)
(* prefixes a DOI may carry.  A date in a text is a record of its parts,   *)
(* None for one it leaves out.  Junk is any value of a type that is not    *)
(* foreseen, or a text that does not parse; Huge an integer beyond a C int.*)
(***************************************************************************)
EXTENDS Integers, SequencesExt

CONSTANTS None, Junk, Huge

Blank == " "
Tags == {"<p>", "</p>", "<i>", "</i>"}

\* `text or None`, `list or None`
OrNone(seq) == IF seq = <<>> THEN None ELSE seq

IsText(value) == value \notin {None, Junk, <<>>}

\* The numbers of a finite set in increasing order: the one with k - 1 before it
\* is the k-th.
InOrder(numbers) ==
  [k \in 1 .. Cardinality(numbers) |->
     CHOOSE n \in numbers : Cardinality({m \in numbers : m < n}) = k - 1]

\* The elements of a list that stand at these places, and those that are none
\* of the dropped ones.
At(seq, places) == [k \in 1 .. Cardinality(places) |-> seq[InOrder(places)[k]]]

Without(seq, dropped) == At(seq, {i \in DOMAIN seq : seq[i] \notin dropped})

Strip(text) ==
  LET shown == {i \in DOMAIN text : text[i] # Blank}
  IN  IF shown = {} THEN <<>> ELSE SubSeq(text, Min(shown), Max(shown))

\* " ".join(text.split()): of the blanks in a row, the first.
FirstBlanks(text) ==
  At(text, {i \in DOMAIN text : text[i] # Blank \/ text[i - 1] # Blank})

Collapse(text) == FirstBlanks(Strip(text))

\* " ".join(words)
Spaced(words) ==
  [i \in 1 .. 2 * Len(words) - 1 |->
     IF i % 2 = 1 THEN words[(i + 1) \div 2] ELSE Blank]

-----------------------------------------------------------------------------
DoiPrefixes == {"https://doi.org/", "http://doi.org/", "https://dx.doi.org/", "doi:"}

CaseMatters(piece) == piece              \* mutant: startswith() alone

Lower(piece) == IF piece = "DOI:" THEN "doi:" ELSE piece

\* clean_doi(): at most one prefix is removed.
CleanDoi(value) ==
  IF ~ IsText(value) \/ Strip(value) = <<>> THEN None
  ELSE LET doi == Strip(value)
       IN  OrNone(IF Lower(Head(doi)) \in DoiPrefixes THEN Tail(doi) ELSE doi)

AnyInteger(value) ==                     \* mutant: no range check
  IF value \in {None, Junk} THEN None ELSE value

LatestYear == 3000

\* parse_year()
ParseYear(value) ==
  IF value \notin {None, Junk, Huge} /\ value \in 1 .. LatestYear THEN value ELSE None

DaysIn(year, month) ==
  CASE month = 2 -> IF year % 4 = 0 /\ (year % 100 # 0 \/ year % 400 = 0) THEN 29 ELSE 28
    [] month \in {4, 6, 9, 11} -> 30
    [] OTHER -> 31

\* What datetime() accepts.
MAXYEAR == 9999

IsDate(year, month, day) ==
  year \in 1 .. MAXYEAR /\ month \in 1 .. 12 /\ day \in 1 .. DaysIn(year, month)

Datetimes == [year : Int, month : Int, day : Int, hour : Int, offset : Int]

Midnight(year, month, day) ==
  [year |-> year, month |-> month, day |-> day, hour |-> 0, offset |-> 0]

\* A part of a date that is left out is the first.
OrFirst(part) == IF part = None THEN 1 ELSE part

\* parse_date(): a bare year or month starts on its first day, a date without
\* an offset is UTC, and an offset is kept.
ParseDate(text) ==
  IF text \in {None, Junk} THEN None
  ELSE LET month == OrFirst(text.month)
           day   == OrFirst(text.day)
       IN  IF IsDate(text.year, month, day)
           THEN [year |-> text.year, month |-> month, day |-> day, hour |-> text.hour,
                 offset |-> IF text.offset = None THEN 0 ELSE text.offset]
           ELSE None

\* The three integers of a Crossref date, when it is a list of some.
Parts(parts) == [i \in 1 .. 3 |-> IF i <= Len(parts) THEN parts[i] ELSE 1]

\* date_parts_to_datetime() does not catch the OverflowError of datetime().
DatePartsRaise(parts) ==
  /\ IsText(parts)
  /\ ToSet(Parts(parts)) \cap {None, Junk} = {}
  /\ Huge \in ToSet(Parts(parts))

DatePartsToDatetime(parts) ==
  IF ~ IsText(parts) \/ ToSet(Parts(parts)) \cap {None, Junk} # {} THEN None
  ELSE LET ymd == Parts(parts)
       IN  IF IsDate(ymd[1], ymd[2], ymd[3])
           THEN Midnight(ymd[1], ymd[2], ymd[3]) ELSE None

-----------------------------------------------------------------------------
TokenOrder(index) ==                     \* mutant: the positions are not used
  OrNone(Spaced(SetToSeq(DOMAIN index)))

\* Every token at each of its positions: <<position, token, n-th of its list>>.
Places(index) ==
  UNION {{<<index[token][i], token, i>> : i \in DOMAIN index[token]} :
           token \in DOMAIN index}

\* positions.sort(key=lambda p: p[0]); equal positions in any order.
Sorted(places) ==
  CHOOSE list \in [1 .. Cardinality(places) -> places] :
    \A i, j \in DOMAIN list : i < j => list[i] # list[j] /\ list[i][1] <= list[j][1]

\* _reconstruct_abstract()
InPositionOrder(index) ==
  LET positions == Sorted(Places(index))
  IN  OrNone(Spaced([k \in DOMAIN positions |-> positions[k][2]]))

ReconstructAbstract(index) == IF index = None THEN None ELSE InPositionOrder(index)

\* _strip_jats()
StripJats(value) ==
  IF ~ IsText(value) THEN None
  ELSE OrNone(Collapse(Without(value, Tags)))
=============================================================================
