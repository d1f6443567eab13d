---------------------------- MODULE Records_proofs ----------------------------
(***************************************************************************)
(* What reaches a batch, for every answer an API may give, every set of    *)
(* columns and every room that is left.                                    *)
(***************************************************************************)
EXTENDS RecordFormats, TLAPS, FiniteSetTheorems, FunctionTheorems

-----------------------------------------------------------------------------
(* Results.                                                                *)

\* The date columns of a Result, whatever record it was made from.
SoundDates(result) ==
  /\ result.year # None => result.year \in 1 .. MAXYEAR
  /\ result.published # None =>
       IsDate(result.published.year, result.published.month, result.published.day)

\* A text that parses as a date is one.
LEMMA ParsedDateIsDate ==
  ASSUME NEW text, ParseDate(text) # None
  PROVE  IsDate(ParseDate(text).year, ParseDate(text).month, ParseDate(text).day)
<1> DEFINE month == OrFirst(text.month)
           day == OrFirst(text.day)
           parsed == [year |-> text.year, month |-> month, day |-> day, hour |-> text.hour,
                      offset |-> IF text.offset = None THEN 0 ELSE text.offset]
<1>1. ParseDate(text) = parsed /\ IsDate(text.year, month, day)
  BY DEF ParseDate
<1>2. parsed.year = text.year /\ parsed.month = month /\ parsed.day = day
  OBVIOUS
<1> QED BY <1>1, <1>2

\* So are the date parts of Crossref that make a datetime.
LEMMA DatePartsAreDate ==
  ASSUME NEW parts, DatePartsToDatetime(parts) # None
  PROVE  IsDate(DatePartsToDatetime(parts).year, DatePartsToDatetime(parts).month,
                DatePartsToDatetime(parts).day)
<1> DEFINE ymd == Parts(parts)
<1>1. DatePartsToDatetime(parts) = Midnight(ymd[1], ymd[2], ymd[3])
      /\ IsDate(ymd[1], ymd[2], ymd[3])
  BY DEF DatePartsToDatetime
<1>2. /\ Midnight(ymd[1], ymd[2], ymd[3]).year = ymd[1]
      /\ Midnight(ymd[1], ymd[2], ymd[3]).month = ymd[2]
      /\ Midnight(ymd[1], ymd[2], ymd[3]).day = ymd[3]
  BY DEF Midnight
<1> QED BY <1>1, <1>2

\* The last year of a datetime is later than the last that parse_year() takes.
LEMMA MaxYearType == MAXYEAR \in Int /\ LatestYear \in Int /\ LatestYear <= MAXYEAR
BY DEF MAXYEAR, LatestYear

\* A year that parse_year() lets through fits its column.
LEMMA ParsedYearFits ==
  ASSUME NEW value, ParseYear(value) # None
  PROVE  ParseYear(value) \in 1 .. MAXYEAR
<1>1. ParseYear(value) \in 1 .. LatestYear
  BY DEF ParseYear
<1> QED BY <1>1, MaxYearType

\* The three providers map every record to a Result with all columns and
\* sound dates.
LEMMA OpenAlexResultSound ==
  ASSUME NEW work
  PROVE  DOMAIN OpenAlexResult(work) = Columns /\ SoundDates(OpenAlexResult(work))
<1>1. /\ OpenAlexResult(work).year = ParseYear(Get(work, "publication_year"))
      /\ OpenAlexResult(work).published = ParseDate(Get(work, "publication_date"))
  BY DEF OpenAlexResult
<1>2. DOMAIN OpenAlexResult(work) = Columns
  BY DEF OpenAlexResult, Columns
<1> QED BY <1>1, <1>2, ParsedDateIsDate, ParsedYearFits DEF SoundDates

\* See OpenAlexResultSound.
LEMMA CrossrefResultSound ==
  ASSUME NEW item
  PROVE  DOMAIN CrossrefResult(item) = Columns /\ SoundDates(CrossrefResult(item))
<1>1. PICK published : published = DatePartsToDatetime(Issued(item))
  OBVIOUS
<1>2. /\ CrossrefResult(item).year = CrossrefYear(item, published)
      /\ CrossrefResult(item).published = published
  BY <1>1 DEF CrossrefResult
<1>3. DOMAIN CrossrefResult(item) = Columns
  BY DEF CrossrefResult, Columns
<1>4. published # None => IsDate(published.year, published.month, published.day)
  BY <1>1, DatePartsAreDate
<1>5. CrossrefYear(item, published) # None => CrossrefYear(item, published) \in 1 .. MAXYEAR
  BY <1>4, ParsedYearFits DEF CrossrefYear, IsDate
<1> QED BY <1>2, <1>3, <1>4, <1>5 DEF SoundDates

\* See OpenAlexResultSound.
LEMMA ArxivResultSound ==
  ASSUME NEW entry
  PROVE  DOMAIN ArxivResult(entry) = Columns /\ SoundDates(ArxivResult(entry))
<1>1. PICK published : published = ParseDate(Get(entry, "published"))
  OBVIOUS
<1>2. /\ ArxivResult(entry).year = IF published = None THEN None ELSE published.year
      /\ ArxivResult(entry).published = published
  BY <1>1 DEF ArxivResult
<1>3. DOMAIN ArxivResult(entry) = Columns
  BY DEF ArxivResult, Columns
<1>4. published # None => IsDate(published.year, published.month, published.day)
  BY <1>1, ParsedDateIsDate
<1> QED BY <1>2, <1>3, <1>4 DEF SoundDates, IsDate

\* So does the provider of the answer, whichever it is.
LEMMA ResultSound ==
  ASSUME NEW record, provider \in {"openalex", "arxiv", "crossref"}
  PROVE  DOMAIN ResultOf(record) = Columns /\ SoundDates(ResultOf(record))
BY OpenAlexResultSound, CrossrefResultSound, ArxivResultSound DEF ResultOf

-----------------------------------------------------------------------------
(* Batches.                                                                *)

\* The number of rows that an answer still adds to the scan.
Rows == Min({room, Len(page)})

\* Row i of the batch, as the i-th record of the answer makes it.
RowsOfPage ==
  [column \in columns |-> [i \in 1 .. Rows |-> Cell(ResultOf(page[i].record), column)]]

\* What is asked is one of the cases the constants allow.
AskedInv ==
  /\ provider \in {"openalex", "arxiv", "crossref"}
  /\ provider \in DOMAIN Pages
  /\ page \in Pages[provider]
  /\ page \in Seq(ToSet(page))
  /\ columns \subseteq Columns
  /\ room \in Nat \ {0}

\* The records are mapped one by one, in their order.
MappedInv ==
  /\ mapped \in Seq({ResultOf(page[i].record) : i \in DOMAIN page})
  /\ Len(mapped) <= Len(page)
  /\ \A i \in 1 .. Len(mapped) : mapped[i] = ResultOf(page[i].record)

\* A batch is emitted once all of them are, with a row for each.
BatchInv ==
  /\ outcome \in {"mapping", "emitted", "empty", "crashed", "rejected"}
  /\ batch = IF outcome = "emitted" THEN RowsOfPage ELSE [column \in {} |-> <<>>]

\* An answer is lost to a record that raises, or to a value that Arrow does not
\* take.
LostInv ==
  /\ outcome = "crashed" => \E i \in DOMAIN page : Raises(page[i].record)
  /\ outcome = "rejected" =>
       \E i \in DOMAIN page, column \in columns :
         ~ ArrowTakes(Cell(ResultOf(page[i].record), column))

\* The inductive invariant.
RecordsInv == AskedInv /\ MappedInv /\ BatchInv /\ LostInv

\* The smaller of two natural numbers.
LEMMA MinOfTwo ==
  ASSUME NEW a \in Nat, NEW b \in Nat
  PROVE  Min({a, b}) = IF a <= b THEN a ELSE b
<1> DEFINE least == IF a <= b THEN a ELSE b
<1>1. least \in {a, b} /\ \A y \in {a, b} : least <= y
  OBVIOUS
<1>2. \A x \in {a, b} : (\A y \in {a, b} : x <= y) => x = least
  OBVIOUS
<1> QED BY <1>1, <1>2 DEF Min

\* When all records are mapped, process() keeps one row for each there is room
\* for.
LEMMA KeepsRows ==
  ASSUME RecordsInv, Len(mapped) = Len(page)
  PROVE  /\ Rows \in 0 .. Len(page)
         /\ DOMAIN Kept = 1 .. Rows
         /\ \A i \in 1 .. Rows : Kept[i] = ResultOf(page[i].record)
<1>1. /\ mapped \in Seq({ResultOf(page[i].record) : i \in DOMAIN page})
      /\ \A i \in 1 .. Len(mapped) : mapped[i] = ResultOf(page[i].record)
      /\ room \in Nat /\ Len(page) \in Nat
  BY DEF RecordsInv, AskedInv, MappedInv
<1>2. Rows \in 0 .. Len(mapped) /\ Kept = SubSeq(mapped, 1, Rows)
  BY <1>1, MinOfTwo DEF Rows, Kept
<1>3. Kept = [i \in 1 .. Rows |-> mapped[i]]
  <2> HIDE DEF Rows
  <2> QED BY <1>1, <1>2
<1>4. \A i \in 1 .. Rows : Kept[i] = ResultOf(page[i].record)
  BY <1>1, <1>2, <1>3
<1>5. DOMAIN Kept = 1 .. Rows
  BY <1>3
<1> QED BY <1>2, <1>4, <1>5

\* results_to_batch() makes those the batch.
LEMMA EmitsRows ==
  ASSUME RecordsInv, Emit
  PROVE  batch' = RowsOfPage
<1>1. /\ Len(mapped) = Len(page)
      /\ batch' = [column \in columns |-> [i \in DOMAIN Kept |-> Cell(Kept[i], column)]]
  BY DEF Emit
<1>2. DOMAIN Kept = 1 .. Rows /\ \A i \in 1 .. Rows : Kept[i] = ResultOf(page[i].record)
  BY <1>1, KeepsRows
<1> QED BY <1>1, <1>2 DEF RowsOfPage

\* An answer that is lost was mapped up to a record that raises, or to the end
\* and holds a value that Arrow does not take.
LEMMA LosesAnswer ==
  ASSUME RecordsInv, MapRaises \/ ArrowRejects
  PROVE  LostInv'
<1>1. page \in Seq(ToSet(page)) /\ Len(mapped) \in Nat
  BY DEF RecordsInv, AskedInv, MappedInv
<1>2. CASE MapRaises
  <2>1. Len(mapped) + 1 \in DOMAIN page /\ Raises(page[Len(mapped) + 1].record)
    BY <1>1, <1>2 DEF MapRaises, NextRecord
  <2>2. \E i \in DOMAIN page : Raises(page[i].record)
    BY <2>1
  <2> QED BY <1>2, <2>2 DEF MapRaises, LostInv, Raises, asked
<1>3. CASE ArrowRejects
  <2>1. PICK column \in columns, i \in DOMAIN Kept : ~ ArrowTakes(Cell(Kept[i], column))
    BY <1>3 DEF ArrowRejects, Emittable
  <2>2. i \in DOMAIN page /\ Kept[i] = ResultOf(page[i].record)
    BY <1>1, <1>3, KeepsRows DEF ArrowRejects
  <2>3. ~ ArrowTakes(Cell(ResultOf(page[i].record), column))
    BY <2>1, <2>2
  <2> QED BY <1>3, <2>2, <2>3 DEF ArrowRejects, LostInv, ResultOf, asked
<1> QED BY <1>2, <1>3

\* One more record is mapped.
LEMMA MapsNext ==
  ASSUME RecordsInv, MapNext
  PROVE  MappedInv'
<1> DEFINE results == {ResultOf(page[i].record) : i \in DOMAIN page}
<1>1. /\ mapped' = Append(mapped, ResultOf(page[Len(mapped) + 1].record))
      /\ Len(mapped) < Len(page)
      /\ provider' = provider /\ page' = page
  BY DEF MapNext, NextRecord, asked
<1>2. /\ mapped \in Seq(results)
      /\ \A i \in 1 .. Len(mapped) : mapped[i] = ResultOf(page[i].record)
      /\ page \in Seq(ToSet(page))
  BY DEF RecordsInv, AskedInv, MappedInv
<1>3. Len(mapped) + 1 \in DOMAIN page
  BY <1>1, <1>2
<1>4. ResultOf(page[Len(mapped) + 1].record) \in results
  BY <1>3
<1>5. PICK next : next = ResultOf(page[Len(mapped) + 1].record)
  OBVIOUS
<1>6. /\ mapped' \in Seq(results)
      /\ Len(mapped') = Len(mapped) + 1
      /\ \A i \in 1 .. Len(mapped') :
           mapped'[i] = IF i = Len(mapped) + 1 THEN next ELSE mapped[i]
  <2> HIDE DEF results
  <2> QED BY <1>1, <1>2, <1>4, <1>5
<1>7. \A i \in 1 .. Len(mapped') : mapped'[i] = ResultOf(page[i].record)
  <2> HIDE DEF results
  <2>1. Len(mapped) \in Nat
    BY <1>2
  <2>2. ASSUME NEW i \in 1 .. Len(mapped')
        PROVE  i \in 1 .. Len(mapped) \/ i = Len(mapped) + 1
    BY <1>6, <2>1
  <2> QED BY <1>2, <1>5, <1>6, <2>1, <2>2
<1>8. Len(mapped') <= Len(page)
  BY <1>1, <1>2, <1>6
<1> QED BY <1>1, <1>6, <1>7, <1>8 DEF MappedInv, ResultOf

\* What neither maps nor asks leaves the results as they are.
LEMMA MappedStands ==
  ASSUME MappedInv, UNCHANGED <<asked, mapped>>
  PROVE  MappedInv'
BY DEF MappedInv, asked, ResultOf

\* A query begins with nothing mapped.
LEMMA RecordsInit == Init => RecordsInv
<1> SUFFICES ASSUME Init PROVE RecordsInv
  OBVIOUS
<1>1. AskedInv
  BY RecordsAssumption DEF Init, AskedInv
<1>2. MappedInv
  BY <1>1 DEF Init, MappedInv, AskedInv
<1>3. BatchInv
  BY DEF Init, BatchInv
<1>4. LostInv
  BY DEF Init, LostInv
<1> QED BY <1>1, <1>2, <1>3, <1>4 DEF RecordsInv

\* Every step keeps the invariant.
LEMMA RecordsStep == RecordsInv /\ [Next]_vars => RecordsInv'
<1> SUFFICES ASSUME RecordsInv, [Next]_vars PROVE RecordsInv'
  OBVIOUS
<1>0. UNCHANGED asked
  BY DEF Next, MapNext, MapRaises, Emit, NothingToEmit, ArrowRejects, vars
<1>1. AskedInv'
  BY <1>0 DEF RecordsInv, AskedInv, asked
<1>2. MappedInv'
  <2>1. CASE MapNext
    BY <2>1, MapsNext
  <2>2. CASE ~ MapNext
    BY <1>0, <2>2, MappedStands
       DEF RecordsInv, Next, MapRaises, Emit, NothingToEmit, ArrowRejects, vars
  <2> QED BY <2>1, <2>2
<1>3. BatchInv'
  <2>1. CASE Emit
    <3>1. batch' = RowsOfPage /\ outcome' = "emitted"
      BY <2>1, EmitsRows DEF Emit
    <3>2. RowsOfPage' = RowsOfPage
      BY <1>0 DEF RowsOfPage, Rows, ResultOf, asked
    <3> QED BY <3>1, <3>2 DEF BatchInv
  <2>2. CASE UNCHANGED <<batch, outcome>>
    <3>1. RowsOfPage' = RowsOfPage
      BY <1>0 DEF RowsOfPage, Rows, ResultOf, asked
    <3> QED BY <2>2, <3>1 DEF RecordsInv, BatchInv
  <2>3. CASE MapRaises \/ NothingToEmit \/ ArrowRejects
    BY <2>3 DEF RecordsInv, BatchInv, MapRaises, NothingToEmit, ArrowRejects
  <2> QED BY <2>1, <2>2, <2>3 DEF Next, MapNext, vars
<1>4. LostInv'
  <2>1. CASE MapRaises \/ ArrowRejects
    BY <2>1, LosesAnswer
  <2>2. CASE Emit \/ NothingToEmit
    BY <2>2 DEF Emit, NothingToEmit, LostInv
  <2>3. CASE MapNext \/ UNCHANGED vars
    BY <1>0, <2>3 DEF MapNext, vars, asked, RecordsInv, LostInv, Raises, ResultOf
  <2> QED BY <2>1, <2>2, <2>3 DEF Next
<1> QED BY <1>1, <1>2, <1>3, <1>4 DEF RecordsInv

\* The invariant holds in every reachable state.
THEOREM RecordsInvariant == Spec => []RecordsInv
  BY RecordsInit, RecordsStep, PTL DEF Spec

\* Every variable has its type; a date is a day of the calendar and a year
\* fits its column, whatever the record held.
THEOREM RecordsTypes == Spec => []TypeOK
<1>1. RecordsInv => TypeOK
  <2> SUFFICES ASSUME RecordsInv PROVE TypeOK
    OBVIOUS
  <2>1. /\ outcome \in {"mapping", "emitted", "empty", "crashed", "rejected"}
        /\ Len(mapped) <= Len(page)
    BY DEF RecordsInv, BatchInv, MappedInv
  <2>2. ASSUME NEW i \in DOMAIN mapped
        PROVE  DOMAIN mapped[i] = Columns /\ SoundDates(mapped[i])
    <3>1. mapped[i] = ResultOf(page[i].record)
      BY DEF RecordsInv, MappedInv
    <3>2. provider \in {"openalex", "arxiv", "crossref"}
      BY DEF RecordsInv, AskedInv
    <3> QED BY <3>1, <3>2, ResultSound
  <2> QED BY <2>1, <2>2 DEF TypeOK, SoundDates
<1> QED BY <1>1, RecordsInvariant, PTL

\* A page is emitted whole or not at all: no batch with holes or of ragged
\* columns is left behind by a record that cannot be mapped, or by a value
\* that Arrow refuses.
THEOREM PageIsWhole == Spec => []PageWhole
<1>1. RecordsInv => PageWhole
  BY DEF RecordsInv, BatchInv, PageWhole, RowsOfPage, Rows
<1> QED BY <1>1, RecordsInvariant, PTL

\* Row i of an emitted batch is made from record i of the answer: no row is
\* lost, repeated or moved, in any column.
THEOREM RowsAreRecords ==
  Spec => [](outcome = "emitted" =>
               \A column \in columns, i \in 1 .. Rows :
                 batch[column][i] = Cell(ResultOf(page[i].record), column))
<1>1. RecordsInv =>
        (outcome = "emitted" =>
           \A column \in columns, i \in 1 .. Rows :
             batch[column][i] = Cell(ResultOf(page[i].record), column))
  BY DEF RecordsInv, BatchInv, RowsOfPage
<1> QED BY <1>1, RecordsInvariant, PTL

-----------------------------------------------------------------------------
(* Numbers in their order, and the elements of a list at some places.      *)

\* e is S in increasing order, and has n members.
Increases(e, n, S) ==
  /\ n \in Nat
  /\ e \in [1 .. n -> S]
  /\ \A i, j \in 1 .. n : i < j => e[i] < e[j]
  /\ \A x \in S : \E i \in 1 .. n : e[i] = x

\* The members of S that come before x.
Before(S, x) == {m \in S : m < x}

\* There are fewer of them than members.
LEMMA BeforeType ==
  ASSUME NEW S, S \subseteq Int, IsFiniteSet(S), NEW x \in S
  PROVE  /\ IsFiniteSet(Before(S, x))
         /\ Cardinality(Before(S, x)) \in 0 .. Cardinality(S) - 1
<1>1. Before(S, x) \subseteq S /\ Before(S, x) # S
  BY DEF Before
<1> QED BY <1>1, FS_Subset, FS_CardinalityType

\* The later a member, the more come before it.
LEMMA BeforeGrows ==
  ASSUME NEW S, S \subseteq Int, IsFiniteSet(S), NEW x \in S, NEW y \in S, x < y
  PROVE  Cardinality(Before(S, x)) < Cardinality(Before(S, y))
<1>1. /\ Before(S, x) \subseteq Before(S, y)
      /\ x \in Before(S, y) /\ x \notin Before(S, x)
  <2>1. x \in Int /\ y \in Int
    OBVIOUS
  <2>2. ASSUME NEW m \in S, m < x PROVE m < y
    BY <2>1, <2>2
  <2>3. x \in Before(S, y) /\ x \notin Before(S, x)
    BY <2>1 DEF Before
  <2> QED BY <2>2, <2>3 DEF Before
<1>2. IsFiniteSet(Before(S, y))
  BY BeforeType
<1> QED BY <1>1, <1>2, FS_Subset, FS_CardinalityType

\* InOrder() puts a finite set in increasing order: as many members as there
\* are numbers of members before one, so that each number is met.
LEMMA InOrderIncreases ==
  ASSUME NEW S, S \subseteq Int, IsFiniteSet(S)
  PROVE  Increases(InOrder(S), Cardinality(S), S)
<1> DEFINE n == Cardinality(S)
           rank == [x \in S |-> Cardinality(Before(S, x))]
<1>1. n \in Nat
  BY FS_CardinalityType
<1>2. rank \in [S -> 0 .. n - 1]
  BY BeforeType
<1>3. \A x, y \in S : x < y => rank[x] < rank[y]
  BY BeforeGrows
<1>4. rank \in Injection(S, 0 .. n - 1)
  <2>1. \A x, y \in S : rank[x] = rank[y] => x = y
    <3> HIDE DEF n, rank
    <3> QED BY <1>1, <1>2, <1>3
  <2> HIDE DEF n, rank
  <2> QED BY <1>2, <2>1 DEF Injection, IsInjective
<1>5. IsFiniteSet(0 .. n - 1) /\ Cardinality(0 .. n - 1) = n
  BY <1>1, FS_Interval
<1>6. rank \in Surjection(S, 0 .. n - 1)
  BY <1>4, <1>5, FS_Injection
<1>7. \A k \in 1 .. n : \E x \in S : rank[x] = k - 1
  <2> HIDE DEF n, rank
  <2> QED BY <1>1, <1>6 DEF Surjection
<1>8. \A k \in 1 .. n : InOrder(S)[k] \in S /\ rank[InOrder(S)[k]] = k - 1
  BY <1>7 DEF InOrder, Before
<1>9. InOrder(S) \in [1 .. n -> S]
  BY <1>8 DEF InOrder
<1>10. \A i, j \in 1 .. n : i < j => InOrder(S)[i] < InOrder(S)[j]
  <2> SUFFICES ASSUME NEW i \in 1 .. n, NEW j \in 1 .. n, i < j,
                      ~ InOrder(S)[i] < InOrder(S)[j]
               PROVE  FALSE
    OBVIOUS
  <2>1. PICK x, y : x = InOrder(S)[i] /\ y = InOrder(S)[j]
    OBVIOUS
  <2>2. x \in S /\ y \in S /\ rank[x] = i - 1 /\ rank[y] = j - 1
    BY <1>8, <2>1
  <2>3. x = y \/ y < x
    BY <2>1, <2>2
  <2> HIDE DEF rank
  <2> QED BY <1>1, <1>3, <2>2, <2>3
<1>11. \A x \in S : \E i \in 1 .. n : InOrder(S)[i] = x
  <2> SUFFICES ASSUME NEW x \in S PROVE InOrder(S)[rank[x] + 1] = x /\ rank[x] + 1 \in 1 .. n
    OBVIOUS
  <2>1. rank[x] + 1 \in 1 .. n
    <3> HIDE DEF rank, n
    <3> QED BY <1>1, <1>2
  <2>2. InOrder(S)[rank[x] + 1] \in S /\ rank[InOrder(S)[rank[x] + 1]] = rank[x]
    <3> HIDE DEF rank, n
    <3> QED BY <1>1, <1>2, <1>8, <2>1
  <2>3. PICK y : y = InOrder(S)[rank[x] + 1]
    OBVIOUS
  <2>4. x \in Int /\ y \in Int /\ y \in S /\ rank[y] = rank[x]
    BY <2>2, <2>3
  <2>5. rank[x] \in Int
    <3> HIDE DEF rank, n
    <3> QED BY <1>1, <1>2
  <2>6. x = y
    <3> HIDE DEF rank, n
    <3> QED BY <1>3, <2>4, <2>5
  <2> QED BY <2>1, <2>3, <2>6
<1> QED BY <1>1, <1>9, <1>10, <1>11 DEF Increases

\* There is no other way to put it in increasing order.
LEMMA OrderUnique ==
  ASSUME NEW S, S \subseteq Int, NEW n, NEW e, Increases(e, n, S)
  PROVE  IsFiniteSet(S) /\ Cardinality(S) = n /\ InOrder(S) = e
<1>1. /\ n \in Nat /\ e \in [1 .. n -> S]
      /\ \A i, j \in 1 .. n : i < j => e[i] < e[j]
      /\ \A x \in S : \E i \in 1 .. n : e[i] = x
  BY DEF Increases
<1>2. \A i, j \in 1 .. n : e[i] = e[j] => i = j
  <2> SUFFICES ASSUME NEW i \in 1 .. n, NEW j \in 1 .. n, e[i] = e[j], i # j
               PROVE  FALSE
    OBVIOUS
  <2>1. e[i] \in Int /\ e[j] \in Int
    BY <1>1
  <2>2. i < j \/ j < i
    BY <1>1
  <2> QED BY <1>1, <2>1, <2>2
<1>3. e \in Bijection(1 .. n, S)
  BY <1>1, <1>2 DEF Bijection, Injection, Surjection, IsInjective
<1>4. IsFiniteSet(S) /\ Cardinality(S) = n
  BY <1>1, <1>3, FS_CountingElements, FS_NatBijection, Fun_ExistsBij DEF ExistsBijection
<1>5. ASSUME NEW k \in 1 .. n
      PROVE  Cardinality(Before(S, e[k])) = k - 1
  <2>1. Before(S, e[k]) = {e[i] : i \in 1 .. k - 1}
    <3>1. ASSUME NEW x \in Before(S, e[k])
          PROVE  \E i \in 1 .. k - 1 : x = e[i]
      <4>1. PICK i \in 1 .. n : e[i] = x
        BY <1>1 DEF Before
      <4>2. e[i] < e[k] /\ e[i] \in Int /\ e[k] \in Int
        BY <1>1, <4>1 DEF Before
      <4>3. i < k
        BY <1>1, <4>1, <4>2
      <4> QED BY <1>1, <4>1, <4>3
    <3>2. ASSUME NEW i \in 1 .. k - 1
          PROVE  e[i] \in Before(S, e[k])
      BY <1>1 DEF Before
    <3> QED BY <3>1, <3>2
  <2> DEFINE head == [i \in 1 .. k - 1 |-> e[i]]
  <2>2. head \in Bijection(1 .. k - 1, Before(S, e[k]))
    <3>1. head \in [1 .. k - 1 -> Before(S, e[k])]
      BY <2>1
    <3>2. \A i, j \in 1 .. k - 1 : head[i] = head[j] => i = j
      BY <1>1, <1>2
    <3>3. \A x \in Before(S, e[k]) : \E i \in 1 .. k - 1 : head[i] = x
      BY <2>1
    <3> HIDE DEF head
    <3> QED BY <3>1, <3>2, <3>3 DEF Bijection, Injection, Surjection, IsInjective
  <2> QED BY <1>1, <2>2, FS_CountingElements DEF ExistsBijection
<1>6. ASSUME NEW k \in 1 .. n
      PROVE  InOrder(S)[k] = e[k]
  <2>1. Increases(InOrder(S), n, S)
    BY <1>4, InOrderIncreases
  <2>2. InOrder(S)[k] \in S
    BY <2>1 DEF Increases
  <2>3. Cardinality(Before(S, InOrder(S)[k])) = k - 1
    <3>1. e[k] \in S /\ Cardinality({m \in S : m < e[k]}) = k - 1
      BY <1>1, <1>5 DEF Before
    <3> QED BY <1>4, <3>1 DEF InOrder, Before
  <2>4. PICK i \in 1 .. n : e[i] = InOrder(S)[k]
    BY <1>1, <2>2
  <2>5. i - 1 = k - 1
    BY <1>5, <2>3, <2>4
  <2> QED BY <1>1, <2>4, <2>5
<1>7. DOMAIN InOrder(S) = 1 .. n /\ InOrder(S) = [k \in 1 .. n |-> InOrder(S)[k]]
  BY <1>4 DEF InOrder
<1> QED BY <1>1, <1>4, <1>6, <1>7

\* The elements at some places of a list are a list, of one for each place.
LEMMA AtPlaces ==
  ASSUME NEW T, NEW seq \in Seq(T), NEW P \in SUBSET (DOMAIN seq)
  PROVE  /\ Increases(InOrder(P), Cardinality(P), P)
         /\ At(seq, P) \in Seq(T) /\ Len(At(seq, P)) = Cardinality(P)
         /\ \A k \in 1 .. Cardinality(P) : At(seq, P)[k] = seq[InOrder(P)[k]]
<1>1. DOMAIN seq = 1 .. Len(seq) /\ Len(seq) \in Nat
  OBVIOUS
<1>2. P \subseteq Int /\ IsFiniteSet(P)
  <2>1. IsFiniteSet(1 .. Len(seq))
    BY <1>1, FS_Interval
  <2>2. P \subseteq 1 .. Len(seq)
    BY <1>1
  <2> QED BY <2>1, <2>2, FS_Subset
<1>3. PICK e, n : e = InOrder(P) /\ n = Cardinality(P)
  OBVIOUS
<1>4. Increases(e, n, P)
  BY <1>2, <1>3, InOrderIncreases
<1>5. At(seq, P) = [k \in 1 .. n |-> seq[e[k]]]
  BY <1>3 DEF At
<1>6. n \in Nat /\ \A k \in 1 .. n : e[k] \in P
  BY <1>4 DEF Increases
<1>7. \A k \in 1 .. n : seq[e[k]] \in T
  BY <1>1, <1>6
<1>8. At(seq, P) \in Seq(T) /\ Len(At(seq, P)) = n
  BY <1>5, <1>6, <1>7
<1> QED BY <1>3, <1>4, <1>5, <1>8

\* Whatever puts the places in increasing order tells the elements.
LEMMA AtIs ==
  ASSUME NEW seq, NEW P, P \subseteq Int, NEW e, NEW n, Increases(e, n, P)
  PROVE  At(seq, P) = [k \in 1 .. n |-> seq[e[k]]]
<1>1. InOrder(P) = e /\ Cardinality(P) = n
  BY OrderUnique
<1> QED BY <1>1 DEF At

\* All places: the list itself.
LEMMA AtAll ==
  ASSUME NEW T, NEW seq \in Seq(T)
  PROVE  At(seq, DOMAIN seq) = seq
<1> DEFINE e == [k \in 1 .. Len(seq) |-> k]
<1>1. DOMAIN seq = 1 .. Len(seq) /\ Len(seq) \in Nat
  OBVIOUS
<1>2. Increases(e, Len(seq), DOMAIN seq)
  BY <1>1 DEF Increases
<1>3. At(seq, DOMAIN seq) = [k \in 1 .. Len(seq) |-> seq[e[k]]]
  <2> HIDE DEF e
  <2> QED BY <1>1, <1>2, AtIs
<1> QED BY <1>1, <1>3

\* Elements of elements.
LEMMA AtAt ==
  ASSUME NEW T, NEW seq \in Seq(T), NEW P \in SUBSET (DOMAIN seq),
         NEW Q \in SUBSET (DOMAIN At(seq, P))
  PROVE  At(At(seq, P), Q) = At(seq, {InOrder(P)[q] : q \in Q})
<1>1. PICK e, n : /\ e = InOrder(P) /\ n = Cardinality(P)
                  /\ Increases(e, n, P)
                  /\ At(seq, P) \in Seq(T) /\ Len(At(seq, P)) = n
                  /\ \A k \in 1 .. n : At(seq, P)[k] = seq[e[k]]
  BY AtPlaces
<1>2. PICK some : some = At(seq, P)
  OBVIOUS
<1>3. some \in Seq(T) /\ Q \in SUBSET (DOMAIN some)
  BY <1>1, <1>2
<1>4. PICK f, m : f = InOrder(Q) /\ m = Cardinality(Q) /\ Increases(f, m, Q)
  BY <1>3, AtPlaces
<1> DEFINE places == {e[q] : q \in Q}
           ef == [k \in 1 .. m |-> e[f[k]]]
<1>5. /\ n \in Nat /\ \A k \in 1 .. n : e[k] \in P
      /\ \A i, j \in 1 .. n : i < j => e[i] < e[j]
      /\ m \in Nat /\ \A k \in 1 .. m : f[k] \in Q
      /\ \A i, j \in 1 .. m : i < j => f[i] < f[j]
      /\ \A q \in Q : \E i \in 1 .. m : f[i] = q
  BY <1>1, <1>4 DEF Increases
<1>6. Q \subseteq 1 .. n
  BY <1>1
<1>7. Increases(ef, m, places)
  <2>1. ef \in [1 .. m -> places]
    BY <1>5
  <2>2. \A i, j \in 1 .. m : i < j => ef[i] < ef[j]
    BY <1>5, <1>6
  <2>3. \A x \in places : \E i \in 1 .. m : ef[i] = x
    BY <1>5
  <2> HIDE DEF ef, places
  <2> QED BY <1>5, <2>1, <2>2, <2>3 DEF Increases
<1>8. places \subseteq Int
  BY <1>5, <1>6
<1>9. At(seq, places) = [k \in 1 .. m |-> seq[ef[k]]]
  <2>1. InOrder(places) = ef /\ Cardinality(places) = m
    <3> HIDE DEF ef, places
    <3> QED BY <1>7, <1>8, OrderUnique
  <2> HIDE DEF ef, places
  <2> QED BY <2>1 DEF At
<1>10. \A k \in 1 .. m : some[f[k]] = seq[e[f[k]]]
  BY <1>1, <1>2, <1>5, <1>6
<1>11. At(some, Q) = [k \in 1 .. m |-> seq[e[f[k]]]]
  BY <1>4, <1>10 DEF At
<1>12. At(seq, places) = [k \in 1 .. m |-> seq[e[f[k]]]]
  BY <1>9
<1> QED BY <1>1, <1>2, <1>11, <1>12

\* What is kept of some elements of a list.
LEMMA WithoutOfAt ==
  ASSUME NEW T, NEW seq \in Seq(T), NEW P \in SUBSET (DOMAIN seq), NEW dropped
  PROVE  Without(At(seq, P), dropped) = At(seq, {i \in P : seq[i] \notin dropped})
<1> DEFINE Q == {k \in DOMAIN At(seq, P) : At(seq, P)[k] \notin dropped}
<1>1. PICK e, n : /\ e = InOrder(P) /\ n = Cardinality(P)
                  /\ Increases(e, n, P)
                  /\ At(seq, P) \in Seq(T) /\ Len(At(seq, P)) = n
                  /\ \A k \in 1 .. n : At(seq, P)[k] = seq[e[k]]
  BY AtPlaces
<1>2. Without(At(seq, P), dropped) = At(seq, {e[q] : q \in Q})
  <2>1. At(At(seq, P), Q) = At(seq, {InOrder(P)[q] : q \in Q})
    BY AtAt
  <2>2. Without(At(seq, P), dropped) = At(At(seq, P), Q)
    BY DEF Without
  <2> QED BY <1>1, <2>1, <2>2
<1>3. {e[q] : q \in Q} = {i \in P : seq[i] \notin dropped}
  BY <1>1 DEF Increases
<1> QED BY <1>2, <1>3

\* Nothing is dropped: the list itself.
LEMMA WithoutNone ==
  ASSUME NEW T, NEW seq \in Seq(T), NEW dropped, T \cap dropped = {}
  PROVE  Without(seq, dropped) = seq
<1>1. \A i \in DOMAIN seq : seq[i] \in T
  OBVIOUS
<1>2. {i \in DOMAIN seq : seq[i] \notin dropped} = DOMAIN seq
  BY <1>1
<1> QED BY <1>2, AtAll DEF Without

-----------------------------------------------------------------------------
(* Blanks and words.                                                       *)

\* A finite set of integers that is not empty has a least and a last member.
LEMMA MinMax ==
  ASSUME NEW S, S \subseteq Int, IsFiniteSet(S), S # {}
  PROVE  /\ Min(S) \in S /\ Max(S) \in S
         /\ \A x \in S : Min(S) <= x /\ x <= Max(S)
<1>1. PICK e, n : /\ n \in Nat /\ \A k \in 1 .. n : e[k] \in S
                  /\ \A i, j \in 1 .. n : i < j => e[i] < e[j]
                  /\ \A x \in S : \E i \in 1 .. n : e[i] = x
  <2>1. PICK e, n : e = InOrder(S) /\ n = Cardinality(S)
    OBVIOUS
  <2>2. Increases(e, n, S)
    BY <2>1, InOrderIncreases
  <2> QED BY <2>2 DEF Increases
<1>2. n >= 1
  <2>1. PICK x : x \in S
    OBVIOUS
  <2>2. PICK i \in 1 .. n : e[i] = x
    BY <1>1, <2>1
  <2> QED BY <1>1, <2>2
<1>3. PICK first, last : first = e[1] /\ last = e[n]
  OBVIOUS
<1>4. /\ first \in S /\ last \in S /\ first \in Int /\ last \in Int
      /\ \A x \in S : first <= x /\ x <= last
  <2>1. first \in S /\ last \in S
    BY <1>1, <1>2, <1>3
  <2>2. ASSUME NEW x \in S PROVE first <= x /\ x <= last
    <3>1. PICK i \in 1 .. n : e[i] = x
      BY <1>1
    <3>2. x \in Int /\ first \in Int /\ last \in Int
      BY <2>1
    <3>3. i = 1 \/ e[1] < e[i]
      BY <1>1, <1>2
    <3>4. i = n \/ e[i] < e[n]
      BY <1>1, <1>2
    <3> QED BY <1>3, <3>1, <3>2, <3>3, <3>4
  <2> QED BY <2>1, <2>2
<1>5. Min(S) \in S /\ \A x \in S : Min(S) <= x
  BY <1>4 DEF Min
<1>6. Max(S) \in S /\ \A x \in S : x <= Max(S)
  BY <1>4 DEF Max
<1> QED BY <1>5, <1>6

\* Between two words there is a blank.
Apart(text) ==
  \A i, j \in DOMAIN text :
    i < j /\ text[i] # Blank /\ text[j] # Blank => \E k \in i .. j : text[k] = Blank

\* A stretch of a text.
Stretch(text, a, b) ==
  /\ a \in Nat \ {0} /\ b \in Nat
  /\ a .. b \subseteq DOMAIN text
  /\ a <= b => text[a] # Blank /\ text[b] # Blank
  /\ \A i \in DOMAIN text : text[i] # Blank => i \in a .. b

\* strip() leaves the stretch from the first word to the last.
LEMMA StripIs ==
  ASSUME NEW text \in Texts
  PROVE  \E a, b : /\ Stretch(text, a, b)
                   /\ Strip(text) = [k \in 1 .. b - a + 1 |-> text[a + k - 1]]
<1>1. text \in Seq(STRING) /\ DOMAIN text = 1 .. Len(text) /\ Len(text) \in Nat
  BY DEF Texts
<1> DEFINE shown == {i \in DOMAIN text : text[i] # Blank}
<1>2. CASE shown = {}
  <2>1. Strip(text) = <<>>
    BY <1>2 DEF Strip
  <2>2. Stretch(text, 1, 0)
    BY <1>2 DEF Stretch
  <2>3. <<>> = [k \in 1 .. 0 - 1 + 1 |-> text[1 + k - 1]]
    OBVIOUS
  <2> QED BY <2>1, <2>2, <2>3
<1>3. CASE shown # {}
  <2>1. shown \subseteq Int /\ IsFiniteSet(shown)
    <3>1. IsFiniteSet(1 .. Len(text))
      BY <1>1, FS_Interval
    <3>2. shown \subseteq 1 .. Len(text)
      BY <1>1
    <3> QED BY <3>1, <3>2, FS_Subset
  <2>2. PICK a, b : a = Min(shown) /\ b = Max(shown)
    OBVIOUS
  <2>3. a \in shown /\ b \in shown /\ \A i \in shown : a <= i /\ i <= b
    <3> HIDE DEF shown
    <3> QED BY <1>3, <2>1, <2>2, MinMax
  <2>4. Strip(text) = SubSeq(text, a, b)
    BY <1>3, <2>2 DEF Strip
  <2>5. a \in 1 .. Len(text) /\ b \in 1 .. Len(text) /\ a <= b
    BY <1>1, <2>3
  <2>6. SubSeq(text, a, b) = [k \in 1 .. b - a + 1 |-> text[a + k - 1]]
    BY <1>1, <2>5
  <2>7. Stretch(text, a, b)
    BY <1>1, <2>3, <2>5 DEF Stretch
  <2> QED BY <2>4, <2>6, <2>7
<1> QED BY <1>2, <1>3

\* As a choice of places.
LEMMA StretchAt ==
  ASSUME NEW text \in Texts, NEW a, NEW b, Stretch(text, a, b)
  PROVE  At(text, a .. b) = [k \in 1 .. b - a + 1 |-> text[a + k - 1]]
<1>1. a \in Nat \ {0} /\ b \in Nat
  BY DEF Stretch
<1>2. PICK n : n = IF a <= b THEN b - a + 1 ELSE 0
  OBVIOUS
<1>3. n \in Nat
  BY <1>1, <1>2
<1>4. PICK e : e = [k \in 1 .. n |-> a + k - 1]
  OBVIOUS
<1>5. Increases(e, n, a .. b)
  <2>1. e \in [1 .. n -> a .. b]
    BY <1>1, <1>2, <1>4
  <2>2. \A i, j \in 1 .. n : i < j => e[i] < e[j]
    BY <1>1, <1>2, <1>4
  <2>3. ASSUME NEW x \in a .. b PROVE x - a + 1 \in 1 .. n /\ e[x - a + 1] = x
    BY <1>1, <1>2, <1>4
  <2> QED BY <1>3, <2>1, <2>2, <2>3 DEF Increases
<1>6. At(text, a .. b) = [k \in 1 .. n |-> text[e[k]]]
  <2>1. InOrder(a .. b) = e /\ Cardinality(a .. b) = n
    <3>1. a .. b \subseteq Int
      OBVIOUS
    <3> QED BY <1>5, <3>1, OrderUnique
  <2> QED BY <2>1 DEF At
<1>7. 1 .. n = 1 .. b - a + 1
  BY <1>1, <1>2
<1> QED BY <1>4, <1>6, <1>7

\* The words of a text with single blanks, whatever blanks are around.
LEMMA StripKeeps ==
  ASSUME NEW text \in Texts
  PROVE  /\ Strip(text) \in Texts
         /\ Words(Strip(text)) = Words(text)
         /\ Apart(text) => Apart(Strip(text))
         /\ Strip(text) # <<>> =>
              Strip(text)[1] # Blank /\ Strip(text)[Len(Strip(text))] # Blank
         /\ Strip(text) = <<>> <=> \A i \in DOMAIN text : text[i] = Blank
<1>1. text \in Seq(STRING) /\ DOMAIN text = 1 .. Len(text) /\ Len(text) \in Nat
  BY DEF Texts
<1>2. PICK a, b : /\ Stretch(text, a, b)
                  /\ Strip(text) = [k \in 1 .. b - a + 1 |-> text[a + k - 1]]
  BY StripIs
<1>3. PICK s : s = Strip(text)
  OBVIOUS
<1>4. /\ a \in Nat \ {0} /\ b \in Nat
      /\ a .. b \subseteq DOMAIN text
      /\ a <= b => text[a] # Blank /\ text[b] # Blank
      /\ \A i \in DOMAIN text : text[i] # Blank => i \in a .. b
  BY <1>2 DEF Stretch
<1>5. \E n \in Nat : n = IF a <= b THEN b - a + 1 ELSE 0
  <2>1. (IF a <= b THEN b - a + 1 ELSE 0) \in Nat
    BY <1>4
  <2> QED BY <2>1
<1>6. PICK n \in Nat : n = IF a <= b THEN b - a + 1 ELSE 0
  BY <1>5
<1>7. s = [k \in 1 .. n |-> text[a + k - 1]]
  <2>1. 1 .. n = 1 .. b - a + 1
    BY <1>4, <1>6
  <2> QED BY <1>2, <1>3, <2>1
<1>8. \A k \in 1 .. n : a + k - 1 \in a .. b /\ a + k - 1 \in DOMAIN text
  BY <1>4, <1>6
<1>9. s \in Texts /\ Len(s) = n /\ DOMAIN s = 1 .. n
  <2>1. \A k \in 1 .. n : text[a + k - 1] \in STRING
    BY <1>1, <1>8
  <2> QED BY <1>7, <2>1 DEF Texts
<1>10. Words(s) = Words(text)
  <2>1. s = At(text, a .. b)
    BY <1>2, <1>3, StretchAt
  <2>2. Without(At(text, a .. b), {Blank}) = At(text, {i \in a .. b : text[i] \notin {Blank}})
    BY <1>1, <1>4, WithoutOfAt
  <2>3. {i \in a .. b : text[i] \notin {Blank}} = {i \in DOMAIN text : text[i] \notin {Blank}}
    BY <1>4
  <2> QED BY <2>1, <2>2, <2>3 DEF Words, Without
<1>11. Apart(text) => Apart(s)
  <2> SUFFICES ASSUME Apart(text),
                      NEW i \in 1 .. n, NEW j \in 1 .. n, i < j, s[i] # Blank, s[j] # Blank
               PROVE  \E k \in i .. j : s[k] = Blank
    BY <1>9 DEF Apart
  <2>1. PICK l \in a + i - 1 .. a + j - 1 : text[l] = Blank
    <3>1. /\ text[a + i - 1] # Blank /\ text[a + j - 1] # Blank
          /\ a + i - 1 \in DOMAIN text /\ a + j - 1 \in DOMAIN text
          /\ a + i - 1 < a + j - 1
      BY <1>4, <1>7, <1>8
    <3> QED BY <3>1 DEF Apart
  <2>2. l - a + 1 \in i .. j /\ l - a + 1 \in 1 .. n /\ a + (l - a + 1) - 1 = l
    BY <1>4, <2>1
  <2> QED BY <1>7, <2>1, <2>2
<1>12. s # <<>> => s[1] # Blank /\ s[Len(s)] # Blank
  <2> SUFFICES ASSUME s # <<>> PROVE s[1] # Blank /\ s[n] # Blank
    BY <1>9
  <2>1. n >= 1 /\ a <= b
    BY <1>4, <1>6, <1>7
  <2>2. s[1] = text[a] /\ s[n] = text[b]
    BY <1>4, <1>6, <1>7, <2>1
  <2> QED BY <1>4, <2>1, <2>2
<1>13. s = <<>> <=> \A i \in DOMAIN text : text[i] = Blank
  <2>1. CASE a <= b
    <3>1. n >= 1 /\ a \in DOMAIN text /\ text[a] # Blank
      BY <1>4, <1>6, <2>1
    <3>2. s # <<>>
      BY <1>9, <3>1
    <3> QED BY <3>1, <3>2
  <2>2. CASE ~ a <= b
    BY <1>4, <1>6, <1>7, <2>2
  <2> QED BY <2>1, <2>2
<1> QED BY <1>3, <1>9, <1>10, <1>11, <1>12, <1>13

\* The places that are kept when only the first of several blanks is.
KeptPlaces(text) == {i \in DOMAIN text : text[i] # Blank \/ text[i - 1] # Blank}

\* A text that begins and ends with words, and has blanks between them, is
\* collapsed to its words with one blank between two: the places kept are those
\* of the words and, but for the last, the one behind each.
LEMMA FirstBlanksSpace ==
  ASSUME NEW text \in Texts, Apart(text),
         text # <<>> => text[1] # Blank /\ text[Len(text)] # Blank
  PROVE  FirstBlanks(text) = Spaced(Words(text))
<1>1. text \in Seq(STRING) /\ DOMAIN text = 1 .. Len(text) /\ Len(text) \in Nat
  BY DEF Texts
<1> DEFINE places == {i \in DOMAIN text : text[i] # Blank}
<1>2. /\ {i \in DOMAIN text : text[i] \notin {Blank}} = places
      /\ places \in SUBSET (DOMAIN text)
  OBVIOUS
<1>3. PICK w, n, words : w = InOrder(places) /\ n = Cardinality(places) /\ words = Words(text)
  OBVIOUS
<1>4. /\ Increases(w, n, places)
      /\ words \in Seq(STRING) /\ Len(words) = n
      /\ \A k \in 1 .. n : words[k] = text[w[k]]
  <2>1. words = At(text, places)
    BY <1>2, <1>3 DEF Words, Without
  <2> HIDE DEF places
  <2> QED BY <1>1, <1>2, <1>3, <2>1, AtPlaces
<1>5. /\ n \in Nat /\ DOMAIN words = 1 .. n
      /\ \A k \in 1 .. n : w[k] \in 1 .. Len(text) /\ text[w[k]] # Blank
      /\ \A i, j \in 1 .. n : i < j => w[i] < w[j]
      /\ \A x \in 1 .. Len(text) : text[x] # Blank => \E k \in 1 .. n : w[k] = x
  <2>1. /\ n \in Nat /\ \A k \in 1 .. n : w[k] \in places
        /\ \A i, j \in 1 .. n : i < j => w[i] < w[j]
        /\ \A x \in places : \E k \in 1 .. n : w[k] = x
    BY <1>4 DEF Increases
  <2>2. DOMAIN words = 1 .. n
    BY <1>4
  <2> QED BY <1>1, <2>1, <2>2
<1>6. \A k \in 1 .. n - 1 : /\ w[k] + 1 \in 1 .. Len(text)
                            /\ text[w[k] + 1] = Blank
                            /\ w[k] + 1 < w[k + 1]
  <2> SUFFICES ASSUME NEW k \in 1 .. n - 1
               PROVE  /\ w[k] + 1 \in 1 .. Len(text)
                      /\ text[w[k] + 1] = Blank
                      /\ w[k] + 1 < w[k + 1]
    OBVIOUS
  <2>1. PICK x, y : x = w[k] /\ y = w[k + 1]
    OBVIOUS
  <2>2. /\ x \in 1 .. Len(text) /\ y \in 1 .. Len(text) /\ x < y
        /\ text[x] # Blank /\ text[y] # Blank
    BY <1>5, <2>1
  <2>3. x + 1 \in 1 .. Len(text)
    BY <1>1, <2>2
  <2>4. text[x + 1] = Blank
    <3> SUFFICES ASSUME text[x + 1] # Blank PROVE FALSE
      OBVIOUS
    <3>1. PICK z \in x .. x + 1 : text[z] = Blank
      BY <1>1, <2>2, <2>3 DEF Apart
    <3> QED BY <2>2, <3>1
  <2>5. x + 1 # y
    BY <2>2, <2>4
  <2> QED BY <2>1, <2>2, <2>3, <2>4, <2>5
<1> DEFINE m == IF n = 0 THEN 0 ELSE 2 * n - 1
           e == [i \in 1 .. m |-> IF i % 2 = 1 THEN w[(i + 1) \div 2] ELSE w[i \div 2] + 1]
<1>7. /\ m \in Nat
      /\ \A i \in 1 .. m : i % 2 = 1 => (i + 1) \div 2 \in 1 .. n
      /\ \A i \in 1 .. m : i % 2 # 1 => i \div 2 \in 1 .. n - 1
      /\ \A k \in 1 .. n : 2 * k - 1 \in 1 .. m /\ (2 * k - 1) % 2 = 1
                           /\ ((2 * k - 1) + 1) \div 2 = k
      /\ \A k \in 1 .. n - 1 : 2 * k \in 1 .. m /\ (2 * k) % 2 # 1 /\ (2 * k) \div 2 = k
  BY <1>5
<1>8. Increases(e, m, KeptPlaces(text))
  <2>1. e \in [1 .. m -> KeptPlaces(text)]
    <3>1. ASSUME NEW i \in 1 .. m, i % 2 = 1 PROVE e[i] \in KeptPlaces(text)
      BY <1>1, <1>5, <1>7, <3>1 DEF KeptPlaces
    <3>2. ASSUME NEW i \in 1 .. m, i % 2 # 1 PROVE e[i] \in KeptPlaces(text)
      <4>1. PICK k \in 1 .. n - 1 : k = i \div 2 /\ e[i] = w[k] + 1
        BY <1>7, <3>2
      <4>2. /\ w[k] + 1 \in 1 .. Len(text) /\ (w[k] + 1) - 1 = w[k]
            /\ text[w[k]] # Blank
        BY <1>5, <1>6
      <4> QED BY <1>1, <4>1, <4>2 DEF KeptPlaces
    <3> QED BY <3>1, <3>2
  <2>2. ASSUME NEW i \in 1 .. m, NEW j \in 1 .. m, i < j PROVE e[i] < e[j]
    <3>1. \A h \in 1 .. m : \E k \in 1 .. n : \/ h = 2 * k - 1 /\ e[h] = w[k]
                                              \/ h = 2 * k /\ k < n /\ e[h] = w[k] + 1
      <4>1. ASSUME NEW h \in 1 .. m, h % 2 = 1
            PROVE  \E k \in 1 .. n : h = 2 * k - 1 /\ e[h] = w[k]
        <5>1. PICK k \in 1 .. n : k = (h + 1) \div 2
          BY <1>7, <4>1
        <5> QED BY <1>5, <4>1, <5>1
      <4>2. ASSUME NEW h \in 1 .. m, h % 2 # 1
            PROVE  \E k \in 1 .. n : h = 2 * k /\ k < n /\ e[h] = w[k] + 1
        <5>1. PICK k \in 1 .. n - 1 : k = h \div 2
          BY <1>7, <4>2
        <5> QED BY <1>5, <4>2, <5>1
      <4> QED BY <4>1, <4>2
    <3>3. PICK k \in 1 .. n : \/ i = 2 * k - 1 /\ e[i] = w[k]
                              \/ i = 2 * k /\ k < n /\ e[i] = w[k] + 1
      BY <3>1
    <3>4. PICK l \in 1 .. n : \/ j = 2 * l - 1 /\ e[j] = w[l]
                              \/ j = 2 * l /\ l < n /\ e[j] = w[l] + 1
      BY <3>1
    <3> HIDE DEF e, m
    <3>5. w[k] \in Int /\ w[l] \in Int
      BY <1>5
    <3>6. CASE k = l
      BY <1>5, <2>2, <3>3, <3>4, <3>5, <3>6
    <3>7. CASE k < l
      <4>1. w[k + 1] \in Int /\ w[k] + 1 < w[k + 1]
        BY <1>5, <1>6, <3>7
      <4>2. k + 1 = l \/ w[k + 1] < w[l]
        BY <1>5, <3>7
      <4> QED BY <3>3, <3>4, <3>5, <4>1, <4>2
    <3> QED BY <1>5, <2>2, <3>3, <3>4, <3>6, <3>7
  <2>3. ASSUME NEW x \in KeptPlaces(text) PROVE \E i \in 1 .. m : e[i] = x
    <3>1. x \in 1 .. Len(text) /\ (text[x] # Blank \/ text[x - 1] # Blank)
      BY <1>1 DEF KeptPlaces
    <3>2. CASE text[x] # Blank
      <4>1. PICK k \in 1 .. n : w[k] = x
        BY <1>5, <3>1, <3>2
      <4>2. e[2 * k - 1] = x /\ 2 * k - 1 \in 1 .. m
        BY <1>7, <4>1
      <4> QED BY <4>2
    <3>3. CASE text[x] = Blank
      <4>1. x # 1 /\ text[Len(text)] # Blank /\ Len(text) \in 1 .. Len(text)
        BY <1>1, <3>1, <3>3
      <4>2. x - 1 \in 1 .. Len(text) /\ text[x - 1] # Blank
        BY <3>1, <3>3, <4>1
      <4>3. PICK k \in 1 .. n : w[k] = x - 1
        BY <1>5, <4>2
      <4>4. PICK l \in 1 .. n : w[l] = Len(text)
        BY <1>5, <4>1
      <4>5. k # n
        <5> SUFFICES ASSUME k = n PROVE FALSE
          OBVIOUS
        <5>1. l = n \/ w[l] < w[n]
          BY <1>5
        <5>2. x - 1 = Len(text) \/ Len(text) < x - 1
          BY <4>3, <4>4, <5>1
        <5> QED BY <1>1, <3>1, <5>2
      <4>6. k \in 1 .. n - 1
        BY <1>5, <4>5
      <4>7. e[2 * k] = x /\ 2 * k \in 1 .. m
        BY <1>7, <3>1, <4>3, <4>6
      <4> QED BY <4>7
    <3> QED BY <3>2, <3>3
  <2> HIDE DEF e, m
  <2> QED BY <1>7, <2>1, <2>2, <2>3 DEF Increases
<1>9. FirstBlanks(text) = [i \in 1 .. m |-> text[e[i]]]
  <2>1. InOrder(KeptPlaces(text)) = e /\ Cardinality(KeptPlaces(text)) = m
    <3>1. KeptPlaces(text) \subseteq Int
      BY <1>1 DEF KeptPlaces
    <3> HIDE DEF e, m
    <3> QED BY <1>8, <3>1, OrderUnique
  <2> HIDE DEF e, m
  <2> QED BY <2>1 DEF At, FirstBlanks, KeptPlaces
<1>10. Spaced(words) = [i \in 1 .. m |-> IF i % 2 = 1 THEN words[(i + 1) \div 2] ELSE Blank]
  <2>1. 1 .. m = 1 .. 2 * n - 1
    BY <1>5
  <2> HIDE DEF m
  <2> QED BY <1>4, <2>1 DEF Spaced
<1>11. \A i \in 1 .. m : text[e[i]] = IF i % 2 = 1 THEN words[(i + 1) \div 2] ELSE Blank
  <2>1. ASSUME NEW i \in 1 .. m, i % 2 = 1 PROVE text[e[i]] = words[(i + 1) \div 2]
    <3>1. PICK k \in 1 .. n : k = (i + 1) \div 2
      BY <1>7, <2>1
    <3>2. e[i] = w[k]
      BY <2>1, <3>1
    <3> QED BY <1>4, <3>1, <3>2
  <2>2. ASSUME NEW i \in 1 .. m, i % 2 # 1 PROVE text[e[i]] = Blank
    <3>1. PICK k \in 1 .. n - 1 : k = i \div 2
      BY <1>7, <2>2
    <3>2. e[i] = w[k] + 1
      BY <2>2, <3>1
    <3> QED BY <1>6, <3>1, <3>2
  <2> QED BY <2>1, <2>2
<1> HIDE DEF e, m
<1> QED BY <1>3, <1>9, <1>10, <1>11

\* " ".join(text.split()) of a text whose words are apart.
LEMMA CollapseSpaces ==
  ASSUME NEW text \in Texts, Apart(text)
  PROVE  Collapse(text) = Spaced(Words(text))
<1>1. PICK s : s = Strip(text)
  OBVIOUS
<1>2. /\ s \in Texts /\ Words(s) = Words(text) /\ Apart(s)
      /\ s # <<>> => s[1] # Blank /\ s[Len(s)] # Blank
  BY <1>1, StripKeeps
<1>3. FirstBlanks(s) = Spaced(Words(s))
  BY <1>2, FirstBlanksSpace
<1> QED BY <1>1, <1>2, <1>3 DEF Collapse

\* A text without words is one of blanks.
LEMMA NoWords ==
  ASSUME NEW text \in Texts
  PROVE  Words(text) = <<>> <=> \A i \in DOMAIN text : text[i] = Blank
<1> DEFINE places == {i \in DOMAIN text : text[i] \notin {Blank}}
<1>1. text \in Seq(STRING) /\ DOMAIN text = 1 .. Len(text) /\ Len(text) \in Nat
  BY DEF Texts
<1>2. places \in SUBSET (DOMAIN text) /\ Words(text) = At(text, places)
  BY DEF Words, Without
<1>3. Increases(InOrder(places), Cardinality(places), places)
      /\ At(text, places) \in Seq(STRING) /\ Len(At(text, places)) = Cardinality(places)
  <2> HIDE DEF places
  <2> QED BY <1>1, <1>2, AtPlaces
<1>4. places = {} <=> Cardinality(places) = 0
  <2> HIDE DEF places
  <2> QED BY <1>3 DEF Increases
<1>5. At(text, places) = <<>> <=> Len(At(text, places)) = 0
  <2> HIDE DEF places
  <2> QED BY <1>3
<1> QED BY <1>2, <1>3, <1>4, <1>5

\* A written text without words is empty.
LEMMA WrittenHasWords ==
  ASSUME NEW text, Written(text)
  PROVE  text = <<>> <=> Words(text) = <<>>
<1>1. text \in Texts /\ text = Spaced(Words(text))
  BY DEF Written
<1>2. Spaced(<<>>) = <<>>
  BY DEF Spaced
<1>3. text = <<>> => Words(text) = <<>>
  BY <1>1, NoWords
<1> QED BY <1>1, <1>2, <1>3

\* A column shows this text, or is null.
Legible(value) == value = None \/ (value \in Texts /\ Strip(value) # <<>>)

\* A column that shows it shows words.
LEMMA WrittenLegible ==
  ASSUME NEW text, Written(text)
  PROVE  Legible(OrNone(text))
<1>1. CASE text = <<>>
  BY <1>1 DEF Legible, OrNone
<1>2. CASE text # <<>>
  <2>1. text \in Texts
    BY DEF Written
  <2>2. Strip(text) # <<>>
    BY <1>2, <2>1, WrittenHasWords, NoWords, StripKeeps
  <2> QED BY <1>2, <2>1, <2>2 DEF Legible, OrNone
<1> QED BY <1>1, <1>2

\* Without its marks, a text that is set out has the words of the written one,
\* and they are apart.
LEMMA SetOutWords ==
  ASSUME NEW raw, NEW text, NEW marks, SetsOut(raw, text, marks), Blank \notin marks
  PROVE  /\ Without(raw, marks) \in Texts
         /\ Words(Without(raw, marks)) = Words(text)
         /\ Apart(Without(raw, marks))
<1>1. /\ raw \in Seq(STRING) /\ DOMAIN raw = 1 .. Len(raw) /\ Len(raw) \in Nat
      /\ Without(raw, marks \cup {Blank}) = Words(text)
      /\ \A i, j \in DOMAIN raw :
           i < j /\ {raw[i], raw[j]} \cap (marks \cup {Blank}) = {} =>
             \E k \in i .. j : raw[k] = Blank
  BY DEF SetsOut, Texts
<1> DEFINE places == {i \in DOMAIN raw : raw[i] \notin marks}
<1>2. PICK t, e, n : t = Without(raw, marks) /\ e = InOrder(places) /\ n = Cardinality(places)
  OBVIOUS
<1>3. places \in SUBSET (DOMAIN raw) /\ t = At(raw, places)
  BY <1>2 DEF Without
<1>4. /\ Increases(e, n, places)
      /\ t \in Seq(STRING) /\ Len(t) = n
      /\ \A k \in 1 .. n : t[k] = raw[e[k]]
  <2> HIDE DEF places
  <2> QED BY <1>1, <1>2, <1>3, AtPlaces
<1>5. Words(t) = Words(text)
  <2>1. Without(At(raw, places), {Blank}) = At(raw, {i \in places : raw[i] \notin {Blank}})
    <3> HIDE DEF places
    <3> QED BY <1>1, <1>3, WithoutOfAt
  <2>2. {i \in places : raw[i] \notin {Blank}} = {i \in DOMAIN raw : raw[i] \notin marks \cup {Blank}}
    OBVIOUS
  <2> QED BY <1>1, <1>3, <2>1, <2>2 DEF Words, Without
<1>6. /\ n \in Nat /\ DOMAIN t = 1 .. n
      /\ \A k \in 1 .. n : e[k] \in DOMAIN raw /\ raw[e[k]] \notin marks
      /\ \A i, j \in 1 .. n : i < j => e[i] < e[j]
      /\ \A x \in DOMAIN raw : raw[x] \notin marks => \E k \in 1 .. n : e[k] = x
  <2>1. /\ n \in Nat /\ \A k \in 1 .. n : e[k] \in places
        /\ \A i, j \in 1 .. n : i < j => e[i] < e[j]
        /\ \A x \in places : \E k \in 1 .. n : e[k] = x
    BY <1>4 DEF Increases
  <2>2. DOMAIN t = 1 .. n
    BY <1>4
  <2> QED BY <2>1, <2>2
<1>7. Apart(t)
  <2> SUFFICES ASSUME NEW i \in 1 .. n, NEW j \in 1 .. n, i < j, t[i] # Blank, t[j] # Blank
               PROVE  \E k \in i .. j : t[k] = Blank
    BY <1>6 DEF Apart
  <2>1. /\ e[i] \in 1 .. Len(raw) /\ e[j] \in 1 .. Len(raw) /\ e[i] < e[j]
        /\ {raw[e[i]], raw[e[j]]} \cap (marks \cup {Blank}) = {}
    BY <1>1, <1>4, <1>6
  <2>2. PICK x \in e[i] .. e[j] : raw[x] = Blank
    BY <1>1, <2>1
  <2>3. x \in DOMAIN raw /\ raw[x] \notin marks
    BY <1>1, <2>1, <2>2
  <2>4. PICK k \in 1 .. n : e[k] = x
    BY <1>6, <2>3
  <2>5. k \in i .. j
    <3>1. ~ k < i
      BY <1>6, <2>1, <2>2, <2>4
    <3>2. ~ j < k
      BY <1>6, <2>1, <2>2, <2>4
    <3> QED BY <3>1, <3>2
  <2> QED BY <1>4, <2>2, <2>4, <2>5
<1> QED BY <1>2, <1>4, <1>5, <1>7 DEF Texts

\* Collapsed, it is the written text.
LEMMA SetOutCollapses ==
  ASSUME NEW raw, NEW text, NEW marks, SetsOut(raw, text, marks), Blank \notin marks,
         Written(text)
  PROVE  Collapse(Without(raw, marks)) = text
<1>1. PICK t : t = Without(raw, marks)
  OBVIOUS
<1>2. t \in Texts /\ Words(t) = Words(text) /\ Apart(t)
  BY <1>1, SetOutWords
<1>3. Collapse(t) = Spaced(Words(t))
  BY <1>2, CollapseSpaces
<1> QED BY <1>1, <1>2, <1>3 DEF Written

\* _strip_jats() restores an abstract with tags and line breaks.
LEMMA JatsRestored ==
  ASSUME NEW raw, NEW text, SetsOutIfAny(raw, text, Tags), Written(text)
  PROVE  StripJats(raw) = OrNone(text)
<1>1. CASE raw = None
  BY <1>1 DEF SetsOutIfAny, StripJats, IsText, OrNone
<1>2. CASE raw # None
  <2>1. SetsOut(raw, text, Tags)
    BY <1>2 DEF SetsOutIfAny
  <2>2. raw \in Texts /\ raw # Junk
    BY <2>1, ValuesAssumption DEF SetsOut
  <2>3. Blank \notin Tags
    BY DEF Blank, Tags
  <2>4. Collapse(Without(raw, Tags)) = text
    BY <2>1, <2>3, SetOutCollapses
  <2>5. CASE raw = <<>>
    <3>1. Without(raw, Tags) = <<>> /\ Collapse(<<>>) = <<>>
      <4>1. <<>> \in Texts /\ Words(<<>>) = <<>> /\ Apart(<<>>)
        <5>1. <<>> \in Texts /\ Apart(<<>>)
          BY DEF Texts, Apart
        <5> QED BY <5>1, NoWords
      <4>2. Collapse(<<>>) = Spaced(<<>>)
        BY <4>1, CollapseSpaces
      <4>3. Without(raw, Tags) = <<>>
        <5>1. PICK T : T = {}
          OBVIOUS
        <5>2. raw \in Seq(T) /\ T \cap Tags = {}
          BY <2>5, <5>1
        <5>3. Without(raw, Tags) = raw
          BY <5>2, WithoutNone
        <5> QED BY <2>5, <5>3
      <4> QED BY <4>2, <4>3 DEF Spaced
    <3> QED BY <2>4, <2>5, <3>1 DEF StripJats, IsText, OrNone
  <2>6. CASE raw # <<>>
    BY <1>2, <2>2, <2>4, <2>6 DEF StripJats, IsText
  <2> QED BY <2>5, <2>6
<1> QED BY <1>1, <1>2

\* A text element of an arXiv entry, with line breaks, is restored.
LEMMA ElementRestored ==
  ASSUME NEW entry, NEW tag, NEW text,
         SetsOutIfAny(Get(entry, tag), text, {}), Written(text)
  PROVE  Collapsed(Text(entry, tag)) = OrNone(text)
<1>1. PICK raw : raw = Get(entry, tag)
  OBVIOUS
<1>2. CASE raw = None
  BY <1>1, <1>2 DEF SetsOutIfAny, Text, Collapsed, OrNone
<1>3. CASE raw # None
  <2>1. SetsOut(raw, text, {})
    BY <1>1, <1>3 DEF SetsOutIfAny
  <2>2. raw \in Texts
    BY <2>1 DEF SetsOut
  <2>3. Without(raw, {}) = raw
    <3>1. raw \in Seq(STRING) /\ STRING \cap {} = {}
      BY <2>2 DEF Texts
    <3> QED BY <3>1, WithoutNone
  <2>4. Words(raw) = Words(text) /\ Apart(raw)
    BY <2>1, <2>3, SetOutWords
  <2>5. PICK s : s = Strip(raw)
    OBVIOUS
  <2>6. /\ s \in Texts /\ Words(s) = Words(text) /\ Apart(s)
        /\ s = <<>> <=> \A i \in DOMAIN raw : raw[i] = Blank
    BY <2>2, <2>4, <2>5, StripKeeps
  <2>7. s = <<>> <=> text = <<>>
    BY <2>2, <2>4, <2>6, NoWords, WrittenHasWords
  <2>8. Collapse(s) = text
    BY <2>6, CollapseSpaces DEF Written
  <2>9. Text(entry, tag) = OrNone(s)
    BY <1>1, <1>3, <2>5 DEF Text
  <2>10. s # None
    BY <2>6, ValuesAssumption
  <2> QED BY <2>7, <2>8, <2>9, <2>10 DEF OrNone, Collapsed
<1> QED BY <1>2, <1>3

-----------------------------------------------------------------------------
(* Inverted indexes.                                                       *)

\* Each of the numbers 0 .. n - 1 is the position of one place.
Numbers(places, n) ==
  /\ \A p \in places : p[1] \in 0 .. n - 1
  /\ \A p, q \in places : p[1] = q[1] => p = q
  /\ \A k \in 1 .. n : \E p \in places : p[1] = k - 1

\* Sorted by their positions, such places are in the order of the numbers.
LEMMA SortedByPosition ==
  ASSUME NEW n \in Nat, NEW places, Numbers(places, n)
  PROVE  /\ Sorted(places) \in [1 .. n -> places]
         /\ \A k \in 1 .. n : Sorted(places)[k][1] = k - 1
<1>1. /\ \A p \in places : p[1] \in 0 .. n - 1
      /\ \A p, q \in places : p[1] = q[1] => p = q
      /\ \A k \in 1 .. n : \E p \in places : p[1] = k - 1
  BY DEF Numbers
<1> DEFINE by == [k \in 1 .. n |-> CHOOSE p \in places : p[1] = k - 1]
<1>2. by \in [1 .. n -> places] /\ \A k \in 1 .. n : by[k][1] = k - 1
  BY <1>1
<1> HIDE DEF by
<1>3. by \in Bijection(1 .. n, places)
  <2>1. \A i, j \in 1 .. n : by[i] = by[j] => i = j
    BY <1>2
  <2>2. ASSUME NEW p \in places
        PROVE  \E k \in 1 .. n : by[k] = p
    <3>1. p[1] + 1 \in 1 .. n /\ p[1] \in Int
      BY <1>1
    <3>2. by[p[1] + 1][1] = p[1] + 1 - 1
      BY <1>2, <3>1
    <3>3. by[p[1] + 1] \in places /\ by[p[1] + 1][1] = p[1]
      BY <1>2, <3>1, <3>2
    <3> QED BY <1>1, <3>1, <3>3
  <2> QED BY <1>2, <2>1, <2>2 DEF Bijection, Injection, Surjection, IsInjective
<1>4. IsFiniteSet(1 .. n) /\ Cardinality(1 .. n) = n
  BY FS_Interval
<1>5. IsFiniteSet(places) /\ Cardinality(places) = n
  BY <1>3, <1>4, FS_Bijection DEF ExistsBijection
<1> DEFINE Sorts(list) ==
      \A i, j \in DOMAIN list : i < j => list[i] # list[j] /\ list[i][1] <= list[j][1]
<1>6. Sorts(by)
  BY <1>2
<1>7. PICK list : list = Sorted(places)
  OBVIOUS
<1>8. list \in [1 .. n -> places] /\ Sorts(list)
  <2>1. list = CHOOSE choice \in [1 .. n -> places] : Sorts(choice)
    BY <1>5, <1>7 DEF Sorted
  <2> HIDE DEF Sorts
  <2> QED BY <1>2, <1>6, <2>1
<1> DEFINE e == [k \in 1 .. n |-> list[k][1] + 1]
<1>9. e \in [1 .. n -> 1 .. n]
  BY <1>1, <1>8
<1>10. ASSUME NEW i \in 1 .. n, NEW j \in 1 .. n, i < j
       PROVE  e[i] < e[j]
  <2>1. list[i] \in places /\ list[j] \in places /\ list[i] # list[j]
        /\ list[i][1] <= list[j][1]
    BY <1>8, <1>10
  <2>2. list[i][1] \in Int /\ list[j][1] \in Int /\ list[i][1] # list[j][1]
    BY <1>1, <2>1
  <2> QED BY <2>1, <2>2
<1>11. Increases(e, n, 1 .. n)
  <2> HIDE DEF e
  <2>1. \A i, j \in 1 .. n : e[i] = e[j] => i = j
    <3> SUFFICES ASSUME NEW i \in 1 .. n, NEW j \in 1 .. n, e[i] = e[j], i # j PROVE FALSE
      OBVIOUS
    <3>1. i < j \/ j < i
      OBVIOUS
    <3>2. e[i] \in Int /\ e[j] \in Int
      BY <1>9
    <3> QED BY <1>10, <3>1, <3>2
  <2>2. e \in Surjection(1 .. n, 1 .. n)
    BY <1>4, <1>9, <2>1, FS_Injection DEF Injection, IsInjective
  <2>3. \A x \in 1 .. n : \E i \in 1 .. n : e[i] = x
    BY <2>2 DEF Surjection
  <2> QED BY <1>9, <1>10, <2>3 DEF Increases
<1> DEFINE same == [k \in 1 .. n |-> k]
<1>12. Increases(same, n, 1 .. n)
  BY DEF Increases
<1>13. e = same
  <2> HIDE DEF e, same
  <2>1. 1 .. n \subseteq Int
    OBVIOUS
  <2>2. InOrder(1 .. n) = e
    BY <1>11, <2>1, OrderUnique
  <2>3. InOrder(1 .. n) = same
    BY <1>12, <2>1, OrderUnique
  <2> QED BY <2>2, <2>3
<1>14. ASSUME NEW k \in 1 .. n
       PROVE  list[k][1] = k - 1
  <2>1. e[k] = same[k]
    BY <1>13
  <2>2. list[k][1] + 1 = k
    BY <2>1
  <2>3. list[k][1] \in Int
    BY <1>1, <1>8
  <2> QED BY <2>2, <2>3
<1> QED BY <1>7, <1>8, <1>14

\* The places of an inverted index are the numbers of the words, each with its
\* word.
LEMMA PlacesOfWords ==
  ASSUME NEW index, NEW text, Written(text), text # <<>>, Indexes(index, text)
  PROVE  /\ Numbers(Places(index), Len(Words(text)))
         /\ \A p \in Places(index) : p[2] = Words(text)[p[1] + 1]
<1>1. PICK words : words = Words(text)
  OBVIOUS
<1> DEFINE n == Len(words)
<1>2. words \in Seq(STRING) /\ DOMAIN words = 1 .. n /\ n \in Nat
  <2>1. Words(text) \in Seq(STRING)
    <3>1. text \in Seq(STRING)
      BY DEF Written, Texts
    <3>2. {i \in DOMAIN text : text[i] \notin {Blank}} \in SUBSET (DOMAIN text)
      OBVIOUS
    <3> QED BY <3>1, <3>2, AtPlaces DEF Words, Without
  <2> QED BY <1>1, <2>1
<1>3. /\ DOMAIN index = ToSet(words)
      /\ \A word \in ToSet(words) :
           /\ IsInjective(index[word])
           /\ ToSet(index[word]) = {k - 1 : k \in {i \in DOMAIN words : words[i] = word}}
  BY <1>1 DEF Indexes
<1>4. ASSUME NEW token \in DOMAIN index, NEW i \in DOMAIN index[token]
      PROVE  /\ index[token][i] \in 0 .. n - 1
             /\ words[index[token][i] + 1] = token
  <2>1. index[token][i] \in ToSet(index[token])
    BY DEF ToSet
  <2>2. PICK k \in DOMAIN words : words[k] = token /\ index[token][i] = k - 1
    BY <1>3, <2>1
  <2>3. k \in 1 .. n /\ k - 1 + 1 = k
    BY <1>2
  <2> QED BY <1>2, <2>2, <2>3
<1>5. ASSUME NEW p \in Places(index)
      PROVE  \E token \in DOMAIN index : \E i \in DOMAIN index[token] :
               p = <<index[token][i], token, i>>
  BY DEF Places
<1>6. ASSUME NEW p \in Places(index)
      PROVE  p[1] \in 0 .. n - 1 /\ p[2] = words[p[1] + 1]
  <2>1. PICK token \in DOMAIN index : \E i \in DOMAIN index[token] :
          p = <<index[token][i], token, i>>
    BY <1>5
  <2>2. PICK i \in DOMAIN index[token] : p = <<index[token][i], token, i>>
    BY <2>1
  <2>3. p[1] = index[token][i] /\ p[2] = token
    BY <2>2
  <2> QED BY <1>4, <2>3
<1>7. ASSUME NEW p \in Places(index), NEW q \in Places(index), p[1] = q[1]
      PROVE  p = q
  <2>1. PICK token \in DOMAIN index : \E i \in DOMAIN index[token] :
          p = <<index[token][i], token, i>>
    BY <1>5
  <2>2. PICK other \in DOMAIN index : \E j \in DOMAIN index[other] :
          q = <<index[other][j], other, j>>
    BY <1>5
  <2>3. PICK i \in DOMAIN index[token], j \in DOMAIN index[other] :
          p = <<index[token][i], token, i>> /\ q = <<index[other][j], other, j>>
    BY <2>1, <2>2
  <2>4. p[1] = index[token][i] /\ q[1] = index[other][j] /\ p[2] = token /\ q[2] = other
    BY <2>3
  <2>5. token = other
    <3>1. p[2] = words[p[1] + 1]
      BY <1>6
    <3>2. q[2] = words[q[1] + 1]
      BY <1>6
    <3> QED BY <1>7, <2>4, <3>1, <3>2
  <2>6. IsInjective(index[token])
    BY <1>3
  <2>7. i = j
    BY <1>7, <2>4, <2>5, <2>6 DEF IsInjective
  <2> QED BY <2>3, <2>5, <2>7
<1>8. ASSUME NEW k \in 1 .. n
      PROVE  \E p \in Places(index) : p[1] = k - 1
  <2>1. PICK word : word = words[k]
    OBVIOUS
  <2>2. word \in ToSet(words)
    BY <1>2, <2>1 DEF ToSet
  <2>3. k - 1 \in ToSet(index[word])
    BY <1>2, <1>3, <2>1, <2>2
  <2>4. PICK i \in DOMAIN index[word] : index[word][i] = k - 1
    BY <2>3 DEF ToSet
  <2>5. <<index[word][i], word, i>> \in Places(index)
    BY <1>3, <2>2 DEF Places
  <2>6. <<index[word][i], word, i>>[1] = k - 1
    BY <2>4
  <2> QED BY <2>5, <2>6
<1>9. Numbers(Places(index), n)
  <2> HIDE DEF n
  <2> QED BY <1>6, <1>7, <1>8 DEF Numbers
<1> QED BY <1>1, <1>6, <1>9

\* _reconstruct_abstract() restores a text from its inverted index.
LEMMA IndexRestored ==
  ASSUME NEW index, NEW text, Written(text), Indexes(index, text)
  PROVE  ReconstructAbstract(index) = OrNone(text)
<1>1. CASE text = <<>>
  BY <1>1 DEF Indexes, ReconstructAbstract, OrNone
<1>2. CASE text # <<>>
  <2>1. PICK words : words = Words(text)
    OBVIOUS
  <2>2. words \in Seq(STRING)
    <3>1. text \in Seq(STRING)
      BY DEF Written, Texts
    <3>2. {i \in DOMAIN text : text[i] \notin {Blank}} \in SUBSET (DOMAIN text)
      OBVIOUS
    <3> QED BY <2>1, <3>1, <3>2, AtPlaces DEF Words, Without
  <2>3. PICK n : n = Len(words)
    OBVIOUS
  <2>4. n \in Nat /\ words = [k \in 1 .. n |-> words[k]]
    BY <2>2, <2>3
  <2>5. PICK places, positions : places = Places(index) /\ positions = Sorted(places)
    OBVIOUS
  <2>6. Numbers(places, n) /\ \A p \in places : p[2] = words[p[1] + 1]
    BY <1>2, <2>1, <2>3, <2>5, PlacesOfWords
  <2>7. positions \in [1 .. n -> places] /\ \A k \in 1 .. n : positions[k][1] = k - 1
    BY <2>4, <2>5, <2>6, SortedByPosition
  <2>8. ASSUME NEW k \in 1 .. n
        PROVE  positions[k][2] = words[k]
    <3>1. positions[k][1] = k - 1 /\ positions[k] \in places
      BY <2>7
    <3>2. positions[k][2] = words[positions[k][1] + 1]
      BY <2>6, <3>1
    <3>3. k - 1 + 1 = k
      BY <2>4
    <3> QED BY <3>1, <3>2, <3>3
  <2>9. [k \in DOMAIN positions |-> positions[k][2]] = words
    BY <2>4, <2>7, <2>8
  <2>10. InPositionOrder(index) = OrNone(Spaced(words))
    BY <2>5, <2>9 DEF InPositionOrder
  <2>11. index # None
    BY <1>2 DEF Indexes
  <2> QED BY <2>1, <2>10, <2>11 DEF ReconstructAbstract, Written
<1> QED BY <1>1, <1>2

-----------------------------------------------------------------------------
(* Records as the APIs document them.                                      *)

\* However a DOI is spelled, clean_doi() makes the bare one of it, and of blanks
\* or a prefix alone it makes none.
LEMMA CleanDoiIsBare ==
  ASSUME NEW text, NEW doi, SpellsDoi(text, doi)
  PROVE  CleanDoi(text) = doi
<1>1. CASE doi = None
  <2>1. CASE text = None \/ Strip(text) = <<>>
    BY <1>1, <2>1 DEF CleanDoi, IsText
  <2>2. CASE \E p \in DoiPrefixes \cup {"DOI:"} : Strip(text) = <<p>>
    <3>1. PICK p \in DoiPrefixes \cup {"DOI:"} : Strip(text) = <<p>>
      BY <2>2
    <3>2. PICK stripped : stripped = Strip(text)
      OBVIOUS
    <3>3. stripped # <<>> /\ Head(stripped) = p /\ Tail(stripped) = <<>>
      BY <3>1, <3>2
    <3>4. Lower(p) \in DoiPrefixes
      BY <3>1 DEF Lower, DoiPrefixes
    <3> QED BY <1>1, <3>2, <3>3, <3>4 DEF CleanDoi, OrNone
  <2> QED BY <1>1, <2>1, <2>2 DEF SpellsDoi
<1>2. CASE doi # None
  <2>1. /\ doi \in Seq(STRING) /\ doi # <<>>
        /\ Lower(Head(doi)) \notin DoiPrefixes
        /\ IsText(text) /\ Strip(text) # <<>>
        /\ Strip(text) = doi
           \/ \E p \in DoiPrefixes \cup {"DOI:"} : Strip(text) = <<p>> \o doi
    <3>1. /\ doi \in Seq(STRING) /\ doi # <<>>
          /\ Lower(Head(doi)) \notin DoiPrefixes
          /\ text \in Texts
          /\ Strip(text) = doi
             \/ \E p \in DoiPrefixes \cup {"DOI:"} : Strip(text) = <<p>> \o doi
      BY <1>2 DEF SpellsDoi, Texts
    <3>2. text # None /\ text # Junk
      BY <3>1, ValuesAssumption
    <3>3. Strip(text) # <<>>
      <4>1. ASSUME NEW p
            PROVE  <<p>> \o doi # <<>>
        <5>1. PICK S : S = STRING \cup {p}
          OBVIOUS
        <5>2. doi \in Seq(S) /\ <<p>> \in Seq(S)
          BY <3>1, <5>1
        <5> QED BY <5>2
      <4> QED BY <3>1, <4>1
    <3>4. text # <<>>
      BY <3>1, <3>3, StripKeeps DEF Texts
    <3> QED BY <3>1, <3>2, <3>3, <3>4 DEF IsText
  <2>2. CASE Strip(text) = doi
    BY <2>1, <2>2 DEF CleanDoi, OrNone
  <2>3. CASE \E p \in DoiPrefixes \cup {"DOI:"} : Strip(text) = <<p>> \o doi
    <3>1. PICK p \in DoiPrefixes \cup {"DOI:"} : Strip(text) = <<p>> \o doi
      BY <2>3
    <3>2. PICK stripped : stripped = Strip(text)
      OBVIOUS
    <3>3. stripped # <<>> /\ Head(stripped) = p /\ Tail(stripped) = doi
      <4>1. PICK S : S = STRING \cup {p}
        OBVIOUS
      <4>2. doi \in Seq(S) /\ <<p>> \in Seq(S)
        BY <2>1, <4>1
      <4> QED BY <3>1, <3>2, <4>2
    <3>4. Lower(p) \in DoiPrefixes
      BY <3>1 DEF Lower, DoiPrefixes
    <3> QED BY <2>1, <3>2, <3>3, <3>4 DEF CleanDoi, OrNone
  <2> QED BY <2>1, <2>2, <2>3
<1> QED BY <1>1, <1>2

\* The datetime that a date of a work becomes.
Becomes(value, date) ==
  IF date = None THEN value = None
  ELSE /\ value \in Datetimes
       /\ value.year = date.year
       /\ value.month = OrFirst(date.month)
       /\ value.day = OrFirst(date.day)
       /\ value.hour \in 0 .. 23 /\ value.offset = 0

\* The parts of a date are integers.
LEMMA DateIsInteger ==
  ASSUME NEW year, NEW month, NEW day, IsDate(year, month, day)
  PROVE  year \in Int /\ month \in Int /\ day \in Int
<1>1. DaysIn(year, month) \in {28, 29, 30, 31}
  BY DEF DaysIn
<1>2. day \in 1 .. DaysIn(year, month)
  BY DEF IsDate
<1> QED BY <1>1, <1>2 DEF IsDate

\* An ISO date is parsed as that datetime.
LEMMA ParseDateTells ==
  ASSUME NEW text, NEW date, TellsDate(text, date), date = None \/ KnownDate(date)
  PROVE  Becomes(ParseDate(text), date)
<1>1. CASE date = None
  BY <1>1 DEF TellsDate, ParseDate, Becomes
<1>2. CASE date # None
  <2> DEFINE month == OrFirst(text.month)
             day == OrFirst(text.day)
             offset == IF text.offset = None THEN 0 ELSE text.offset
             parsed == [year |-> text.year, month |-> month, day |-> day, hour |-> text.hour,
                        offset |-> offset]
  <2>1. /\ text \notin {None, Junk}
        /\ text.year = date.year /\ text.month = date.month /\ text.day = date.day
        /\ text.hour \in 0 .. 23 /\ offset = 0
        /\ IsDate(text.year, month, day)
    BY <1>2 DEF TellsDate, KnownDate
  <2>2. ParseDate(text) = parsed
    BY <2>1 DEF ParseDate
  <2>3. text.year \in Int /\ month \in Int /\ day \in Int
    BY <2>1, DateIsInteger
  <2>4. /\ parsed \in Datetimes /\ parsed.year = text.year /\ parsed.month = month
        /\ parsed.day = day /\ parsed.hour = text.hour /\ parsed.offset = 0
    <3> HIDE DEF month, day, offset
    <3> QED BY <2>1, <2>3 DEF Datetimes
  <2> QED BY <1>2, <2>1, <2>2, <2>4 DEF Becomes
<1> QED BY <1>1, <1>2

\* The parts that Crossref lists of a date are that date.
LEMMA ListedParts ==
  ASSUME NEW parts, NEW date, ListsDate(parts, date), date # None, KnownDate(date)
  PROVE  /\ IsText(parts)
         /\ Parts(parts) = <<date.year, OrFirst(date.month), OrFirst(date.day)>>
         /\ \A i \in DOMAIN Parts(parts) : Parts(parts)[i] \in Int
<1> DEFINE month == OrFirst(date.month)
           day == OrFirst(date.day)
<1>1. date.year \in Int /\ month \in Int /\ day \in Int
  BY DateIsInteger DEF KnownDate
<1>2. IsText(parts)
  BY DEF ListsDate
<1>3. Parts(parts) = <<date.year, month, day>>
  <2>1. CASE date.month = None
    <3>1. parts = <<date.year>> /\ date.day = None
      BY <2>1 DEF ListsDate, KnownDate
    <3> QED BY <2>1, <3>1 DEF Parts, OrFirst
  <2>2. CASE date.month # None /\ date.day = None
    <3>1. parts = <<date.year, date.month>>
      BY <2>2 DEF ListsDate
    <3> QED BY <2>2, <3>1 DEF Parts, OrFirst
  <2>3. CASE date.month # None /\ date.day # None
    <3>1. parts = <<date.year, date.month, date.day>>
      BY <2>3 DEF ListsDate
    <3> QED BY <2>3, <3>1 DEF Parts, OrFirst
  <2> QED BY <2>1, <2>2, <2>3
<1> HIDE DEF month, day
<1> QED BY <1>1, <1>2, <1>3 DEF month, day

\* So are the date parts of Crossref.
LEMMA DatePartsTell ==
  ASSUME NEW parts, NEW date, ListsDate(parts, date), date = None \/ KnownDate(date)
  PROVE  Becomes(DatePartsToDatetime(parts), date)
<1>1. CASE date = None
  <2>1. CASE parts \in {None, <<>>}
    BY <1>1, <2>1 DEF DatePartsToDatetime, IsText, Becomes
  <2>2. CASE parts = <<None>>
    <3>1. 1 \in DOMAIN Parts(parts) /\ Parts(parts)[1] = None
      BY <2>2 DEF Parts
    <3>2. None \in ToSet(Parts(parts))
      BY <3>1 DEF ToSet
    <3> QED BY <1>1, <3>2 DEF DatePartsToDatetime, Becomes
  <2> QED BY <1>1, <2>1, <2>2 DEF ListsDate
<1>2. CASE date # None
  <2> DEFINE month == OrFirst(date.month)
             day == OrFirst(date.day)
  <2>1. IsDate(date.year, month, day)
    BY <1>2 DEF KnownDate
  <2>2. date.year \in Int /\ month \in Int /\ day \in Int
    BY <2>1, DateIsInteger
  <2>3. IsText(parts)
    BY <1>2, ListedParts
  <2>4. Parts(parts) = <<date.year, month, day>>
    BY <1>2, ListedParts
  <2>5. ToSet(Parts(parts)) \cap {None, Junk} = {}
    <3> HIDE DEF month, day
    <3> QED BY <2>2, <2>4, ValuesAssumption DEF ToSet
  <2>6. DatePartsToDatetime(parts) = Midnight(date.year, month, day)
    <3> HIDE DEF month, day
    <3> QED BY <2>1, <2>3, <2>4, <2>5 DEF DatePartsToDatetime
  <2>7. /\ Midnight(date.year, month, day) \in Datetimes
        /\ Midnight(date.year, month, day).year = date.year
        /\ Midnight(date.year, month, day).month = month
        /\ Midnight(date.year, month, day).day = day
        /\ Midnight(date.year, month, day).hour \in 0 .. 23
        /\ Midnight(date.year, month, day).offset = 0
    <3> HIDE DEF month, day
    <3> QED BY <2>2 DEF Midnight, Datetimes
  <2> QED BY <1>2, <2>6, <2>7 DEF Becomes
<1> QED BY <1>1, <1>2

\* The date columns of a work with this date.
ShowsDate(result, date) ==
  /\ result.year = IF date = None THEN None ELSE date.year
  /\ Becomes(result.published, date)

\* parse_year() keeps the year of a date.
LEMMA ParseYearKeeps ==
  ASSUME NEW date, KnownDate(date)
  PROVE  ParseYear(date.year) = date.year
<1>1. PICK year : year = date.year
  OBVIOUS
<1>2. year \in 1 .. LatestYear
  <2>1. year \in 1 .. MAXYEAR /\ MAXYEAR \in Int /\ LatestYear \in Int
    BY <1>1, MaxYearType DEF KnownDate, IsDate
  <2>2. year <= LatestYear
    BY <1>1 DEF KnownDate
  <2> QED BY <2>1, <2>2
<1>3. {None, Junk, Huge} \cap Int = {}
  BY ValuesAssumption
<1>4. year \notin {None, Junk, Huge}
  BY <1>2, <1>3
<1>5. ParseYear(year) = year
  BY <1>2, <1>4 DEF ParseYear
<1> QED BY <1>1, <1>5

\* A date that is shown is one.
LEMMA BecomesKnown ==
  ASSUME NEW value, NEW date, Becomes(value, date)
  PROVE  IF value = None THEN date = None ELSE date # None /\ value.year = date.year
BY ValuesAssumption DEF Becomes

\* Each provider shows the date of a documented record, in both columns.
LEMMA OpenAlexShowsDate ==
  ASSUME NEW work, NEW date, CarriesDate("openalex", work, date)
  PROVE  ShowsDate(OpenAlexResult(work), date)
<1>1. /\ date = None \/ KnownDate(date)
      /\ Get(work, "publication_year") = IF date = None THEN None ELSE date.year
      /\ TellsDate(Get(work, "publication_date"), date)
  BY DEF CarriesDate
<1>2. Becomes(ParseDate(Get(work, "publication_date")), date)
  BY <1>1, ParseDateTells
<1>3. ParseYear(Get(work, "publication_year")) = IF date = None THEN None ELSE date.year
  <2>1. ParseYear(None) = None
    BY DEF ParseYear
  <2> QED BY <1>1, <2>1, ParseYearKeeps
<1>4. /\ OpenAlexResult(work).year = ParseYear(Get(work, "publication_year"))
      /\ OpenAlexResult(work).published = ParseDate(Get(work, "publication_date"))
  BY DEF OpenAlexResult
<1> QED BY <1>2, <1>3, <1>4 DEF ShowsDate

\* See OpenAlexShowsDate.
LEMMA CrossrefShowsDate ==
  ASSUME NEW item, NEW date, CarriesDate("crossref", item, date)
  PROVE  ShowsDate(CrossrefResult(item), date)
<1>1. /\ date = None \/ KnownDate(date)
      /\ ListsDate(Issued(item), date)
      /\ Get(GetOr(item, "published-print", EmptyDict), "year") = None
  BY DEF CarriesDate
<1>2. PICK published : published = DatePartsToDatetime(Issued(item))
  OBVIOUS
<1>3. Becomes(published, date)
  BY <1>1, <1>2, DatePartsTell
<1>4. /\ CrossrefResult(item).year = CrossrefYear(item, published)
      /\ CrossrefResult(item).published = published
  BY <1>2 DEF CrossrefResult
<1>5. CrossrefYear(item, published) = IF published = None THEN None ELSE published.year
  BY <1>1 DEF CrossrefYear, ParseYear
<1> QED BY <1>3, <1>4, <1>5, BecomesKnown DEF ShowsDate

\* See OpenAlexShowsDate.
LEMMA ArxivShowsDate ==
  ASSUME NEW entry, NEW date, CarriesDate("arxiv", entry, date)
  PROVE  ShowsDate(ArxivResult(entry), date)
<1>1. /\ date = None \/ KnownDate(date)
      /\ TellsDate(Get(entry, "published"), date)
  BY DEF CarriesDate
<1>2. PICK published : published = ParseDate(Get(entry, "published"))
  OBVIOUS
<1>3. Becomes(published, date)
  BY <1>1, <1>2, ParseDateTells
<1>4. /\ ArxivResult(entry).year = IF published = None THEN None ELSE published.year
      /\ ArxivResult(entry).published = published
  BY <1>2 DEF ArxivResult
<1> QED BY <1>3, <1>4, BecomesKnown DEF ShowsDate

\* A datetime in UTC is that instant.
LEMMA UtcStays ==
  ASSUME NEW value \in Datetimes, value.hour \in 0 .. 23, value.offset = 0
  PROVE  InUtc(value) = value
<1>1. PICK hour : hour = value.hour - value.offset
  OBVIOUS
<1>2. hour = value.hour /\ ~ (hour < 0) /\ ~ (hour > 23) /\ hour % 24 = hour
  BY <1>1
<1>3. InUtc(value) = [value EXCEPT !.hour = hour % 24, !.offset = 0]
  BY <1>1, <1>2 DEF InUtc
<1>4. [value EXCEPT !.hour = value.hour, !.offset = value.offset] = value
  BY DEF Datetimes
<1> QED BY <1>2, <1>3, <1>4

\* Every record that was made from a work is as documented.
LEMMA RecordDocumented ==
  ASSUME AskedInv, NEW i \in DOMAIN page, page[i].work # None
  PROVE  Documents(provider, page[i].record, page[i].work)
BY DocumentationAssumption DEF AskedInv

\* A row that is shown for a documented work comes from its record.
LEMMA ShownRow ==
  ASSUME RecordsInv, NEW i \in DOMAIN page, NEW column, column # "extra", Shows(i, column)
  PROVE  /\ batch[column][i] = Cell(ResultOf(page[i].record), column)
         /\ column # "published" => batch[column][i] = ResultOf(page[i].record)[column]
         /\ Documents(provider, page[i].record, page[i].work)
<1>1. /\ outcome = "emitted" /\ column \in columns
      /\ i <= Rows /\ page[i].work # None
  BY DEF Shows, Rows
<1>2. page \in Seq(ToSet(page)) /\ room \in Nat
  BY DEF RecordsInv, AskedInv
<1>3. i \in 1 .. Rows
  <2>1. i \in Nat \ {0} /\ Len(page) \in Nat
    BY <1>2
  <2>2. Rows \in Nat
    BY <1>2, <2>1, MinOfTwo DEF Rows
  <2> QED BY <1>1, <2>1, <2>2
<1>4. batch[column][i] = Cell(ResultOf(page[i].record), column)
  BY <1>1, <1>3 DEF RecordsInv, BatchInv, RowsOfPage
<1>5. column # "published" =>
        Cell(ResultOf(page[i].record), column) = ResultOf(page[i].record)[column]
  BY DEF Cell
<1>6. Documents(provider, page[i].record, page[i].work)
  BY <1>1, RecordDocumented DEF RecordsInv
<1> QED BY <1>4, <1>5, <1>6

\* A work has the same DOI, bare, from whichever provider it comes and
\* however that provider spells it.
THEOREM DoiIsShared == Spec => []DoiShared
<1>1. RecordsInv => DoiShared
  <2> SUFFICES ASSUME RecordsInv, NEW i \in DOMAIN page, Shows(i, "doi")
               PROVE  batch["doi"][i] = page[i].work.doi
    BY DEF DoiShared
  <2>1. PICK record : record = page[i].record
    OBVIOUS
  <2>2. /\ batch["doi"][i] = ResultOf(record)["doi"]
        /\ SpellsDoi(DoiText(provider, record), page[i].work.doi)
    BY <2>1, ShownRow DEF Documents
  <2>3. CleanDoi(DoiText(provider, record)) = page[i].work.doi
    BY <2>2, CleanDoiIsBare
  <2>4. provider \in {"openalex", "arxiv", "crossref"}
    BY DEF RecordsInv, AskedInv
  <2>5. OpenAlexResult(record).doi = CleanDoi(Get(record, "doi"))
    BY DEF OpenAlexResult
  <2>6. CrossrefResult(record).doi = CleanDoi(Get(record, "DOI"))
    BY DEF CrossrefResult
  <2>7. ArxivResult(record).doi = CleanDoi(Text(record, "doi"))
    BY DEF ArxivResult
  <2>8. ResultOf(record).doi = CleanDoi(DoiText(provider, record))
    BY <2>4, <2>5, <2>6, <2>7 DEF ResultOf, DoiText
  <2> QED BY <2>2, <2>3, <2>8
<1> QED BY <1>1, RecordsInvariant, PTL

\* The date that a documented record shows is the one in its column.
LEMMA CellTellsDate ==
  ASSUME NEW result, NEW date, ShowsDate(result, date)
  PROVE  Becomes(Cell(result, "published"), date)
<1>1. Becomes(result.published, date)
  BY DEF ShowsDate
<1>2. CASE date = None
  BY <1>1, <1>2 DEF Becomes, Cell
<1>3. CASE date # None
  <2>1. PICK value : value = result.published
    OBVIOUS
  <2>2. value \in Datetimes /\ value.hour \in 0 .. 23 /\ value.offset = 0
    BY <1>1, <1>3, <2>1 DEF Becomes
  <2>3. value # None /\ InUtc(value) = value
    BY <2>2, UtcStays, ValuesAssumption
  <2>4. Cell(result, "published") = value
    BY <2>1, <2>3 DEF Cell
  <2> QED BY <1>1, <2>1, <2>4
<1> QED BY <1>2, <1>3

\* The two date columns of a row tell the date of the work it is made from:
\* they agree, a date that is known to the month or the year starts there,
\* and none is invented.
THEOREM DatesTold == Spec => []DatesAgree
<1>1. ASSUME RecordsInv, NEW i \in DOMAIN page, NEW column \in {"year", "published"},
             Shows(i, column)
      PROVE  /\ batch[column][i] = Cell(ResultOf(page[i].record), column)
             /\ ShowsDate(ResultOf(page[i].record), page[i].work.date)
  <2>1. PICK record : record = page[i].record
    OBVIOUS
  <2>2. /\ batch[column][i] = Cell(ResultOf(record), column)
        /\ CarriesDate(provider, record, page[i].work.date)
    BY <1>1, <2>1, ShownRow DEF Documents
  <2>3. provider \in {"openalex", "arxiv", "crossref"}
    BY <1>1 DEF RecordsInv, AskedInv
  <2>4. ShowsDate(ResultOf(record), page[i].work.date)
    BY <2>2, <2>3, OpenAlexShowsDate, CrossrefShowsDate, ArxivShowsDate DEF ResultOf
  <2> QED BY <2>1, <2>2, <2>4
<1>2. RecordsInv => DatesAgree
  <2> SUFFICES ASSUME RecordsInv, NEW i \in DOMAIN page, NEW date, date = page[i].work.date
               PROVE  /\ Shows(i, "year") =>
                           batch["year"][i] = IF date = None THEN None ELSE date.year
                      /\ Shows(i, "published") =>
                           IF date = None THEN batch["published"][i] = None
                           ELSE /\ batch["published"][i].year = date.year
                                /\ batch["published"][i].month = OrFirst(date.month)
                                /\ batch["published"][i].day = OrFirst(date.day)
                                /\ batch["published"][i].offset = 0
    BY DEF DatesAgree
  <2>1. Shows(i, "year") => batch["year"][i] = IF date = None THEN None ELSE date.year
    <3> HAVE Shows(i, "year")
    <3>1. PICK result : result = ResultOf(page[i].record)
      OBVIOUS
    <3>2. batch["year"][i] = Cell(result, "year") /\ ShowsDate(result, date)
      BY <1>1, <3>1
    <3>3. Cell(result, "year") = result["year"]
      BY DEF Cell
    <3> QED BY <3>2, <3>3 DEF ShowsDate
  <2>2. Shows(i, "published") => Becomes(batch["published"][i], date)
    <3> HAVE Shows(i, "published")
    <3>1. PICK result : result = ResultOf(page[i].record)
      OBVIOUS
    <3>2. batch["published"][i] = Cell(result, "published") /\ ShowsDate(result, date)
      BY <1>1, <3>1
    <3> QED BY <3>2, CellTellsDate
  <2> QED BY <2>1, <2>2 DEF Becomes
<1> QED BY <1>2, RecordsInvariant, PTL

\* The title and the abstract of a work.
ShowsTexts(result, work) ==
  result.title = OrNone(work.title) /\ result.abstract = OrNone(work.abstract)

\* Each provider restores the title and the abstract of a documented record.
LEMMA OpenAlexShowsTexts ==
  ASSUME NEW record, NEW work, IsWork(work), TellsTexts("openalex", record, work)
  PROVE  ShowsTexts(OpenAlexResult(record), work)
<1>1. /\ Get(record, "title") \in {None, work.title}
      /\ Get(record, "display_name") = OrNone(work.title)
      /\ Indexes(Get(record, "abstract_inverted_index"), work.abstract)
  BY DEF TellsTexts
<1>2. Written(work.abstract) /\ work.title \in Texts /\ work.title # None
  BY ValuesAssumption DEF IsWork, Written
<1>3. Or(Get(record, "title"), Get(record, "display_name")) = OrNone(work.title)
  BY <1>1, <1>2 DEF Or, OrNone
<1>4. ReconstructAbstract(Get(record, "abstract_inverted_index")) = OrNone(work.abstract)
  BY <1>1, <1>2, IndexRestored
<1>5. /\ OpenAlexResult(record).title = Or(Get(record, "title"), Get(record, "display_name"))
      /\ OpenAlexResult(record).abstract =
           ReconstructAbstract(Get(record, "abstract_inverted_index"))
  BY DEF OpenAlexResult
<1> QED BY <1>3, <1>4, <1>5 DEF ShowsTexts

\* See OpenAlexShowsTexts.
LEMMA CrossrefShowsTexts ==
  ASSUME NEW record, NEW work, IsWork(work), TellsTexts("crossref", record, work)
  PROVE  ShowsTexts(CrossrefResult(record), work)
<1>1. /\ FirstOf(Get(record, "title")) = OrNone(work.title)
      /\ SetsOutIfAny(Get(record, "abstract"), work.abstract, Tags)
  BY DEF TellsTexts
<1>2. StripJats(Get(record, "abstract")) = OrNone(work.abstract)
  BY <1>1, JatsRestored DEF IsWork
<1>3. /\ CrossrefResult(record).title = FirstOf(Get(record, "title"))
      /\ CrossrefResult(record).abstract = StripJats(Get(record, "abstract"))
  BY DEF CrossrefResult
<1> QED BY <1>1, <1>2, <1>3 DEF ShowsTexts

\* See OpenAlexShowsTexts.
LEMMA ArxivShowsTexts ==
  ASSUME NEW record, NEW work, IsWork(work), TellsTexts("arxiv", record, work)
  PROVE  ShowsTexts(ArxivResult(record), work)
<1>1. /\ SetsOutIfAny(Get(record, "title"), work.title, {})
      /\ SetsOutIfAny(Get(record, "summary"), work.abstract, {})
  BY DEF TellsTexts
<1>2. /\ Collapsed(Text(record, "title")) = OrNone(work.title)
      /\ Collapsed(Text(record, "summary")) = OrNone(work.abstract)
  BY <1>1, ElementRestored DEF IsWork
<1>3. /\ ArxivResult(record).title = Collapsed(Text(record, "title"))
      /\ ArxivResult(record).abstract = Collapsed(Text(record, "summary"))
  BY DEF ArxivResult
<1> QED BY <1>2, <1>3 DEF ShowsTexts

\* So does the provider of the answer, whichever it is.
LEMMA ResultShowsTexts ==
  ASSUME AskedInv, NEW record, NEW work, Documents(provider, record, work)
  PROVE  ShowsTexts(ResultOf(record), work)
<1>1. /\ provider \in {"openalex", "arxiv", "crossref"}
      /\ IsWork(work) /\ TellsTexts(provider, record, work)
  BY DEF AskedInv, Documents
<1> QED BY <1>1, OpenAlexShowsTexts, CrossrefShowsTexts, ArxivShowsTexts DEF ResultOf

\* Inverted index, markup and line breaks: title and abstract read as they
\* were written.
THEOREM TextsAreRestored == Spec => []TextsRestored
<1>1. RecordsInv => TextsRestored
  <2> SUFFICES ASSUME RecordsInv, NEW i \in DOMAIN page
               PROVE  /\ Shows(i, "title") => batch["title"][i] = OrNone(page[i].work.title)
                      /\ Shows(i, "abstract") =>
                           batch["abstract"][i] = OrNone(page[i].work.abstract)
    BY DEF TextsRestored
  <2>1. PICK result : result = ResultOf(page[i].record)
    OBVIOUS
  <2>2. Shows(i, "title") =>
          batch["title"][i] = result["title"] /\ ShowsTexts(result, page[i].work)
    BY <2>1, ShownRow, ResultShowsTexts DEF RecordsInv
  <2>3. Shows(i, "abstract") =>
          batch["abstract"][i] = result["abstract"] /\ ShowsTexts(result, page[i].work)
    BY <2>1, ShownRow, ResultShowsTexts DEF RecordsInv
  <2> QED BY <2>2, <2>3 DEF ShowsTexts
<1> QED BY <1>1, RecordsInvariant, PTL

\* The authors of a work are none that the providers drop.
LEMMA WorkAuthors ==
  ASSUME NEW work, IsWork(work)
  PROVE  /\ work.authors \in Seq(Texts \ {<<>>})
         /\ \A k \in DOMAIN work.authors :
              /\ work.authors[k] \in Texts \ {None, <<>>}
              /\ Strip(work.authors[k]) = work.authors[k]
<1>1. PICK authors : authors = work.authors
  OBVIOUS
<1>2. /\ authors \in Seq(Texts)
      /\ \A k \in DOMAIN authors : authors[k] # <<>> /\ Strip(authors[k]) = authors[k]
  BY <1>1 DEF IsWork
<1>3. None \notin Texts
  BY ValuesAssumption
<1>4. \A k \in DOMAIN authors : authors[k] \in Texts
  BY <1>2
<1>5. authors \in Seq(Texts \ {<<>>})
  BY <1>2, <1>4
<1> QED BY <1>1, <1>2, <1>3, <1>4, <1>5

\* Each provider lists the authors of a documented record.
LEMMA OpenAlexListsAuthors ==
  ASSUME NEW record, NEW work, IsWork(work), ListsAuthors("openalex", record, work)
  PROVE  OpenAlexAuthors(record) = OrNone(work.authors)
<1>1. PICK authors, list :
        authors = work.authors /\ list = GetOr(record, "authorships", <<>>)
  OBVIOUS
<1>2. /\ DOMAIN list = DOMAIN authors
      /\ \A k \in DOMAIN authors :
           Get(GetOr(list[k], "author", EmptyDict), "display_name") = authors[k]
  BY <1>1 DEF ListsAuthors
<1>3. authors \in Seq(Texts \ {<<>>}) /\ (Texts \ {<<>>}) \cap {None, <<>>} = {}
  BY <1>1, WorkAuthors, ValuesAssumption
<1> DEFINE names == [i \in DOMAIN GetOr(record, "authorships", <<>>) |->
                       Get(GetOr(record.authorships[i], "author", EmptyDict), "display_name")]
<1>4. names = authors
  <2>1. ASSUME NEW k \in DOMAIN list
        PROVE  list[k] = record.authorships[k]
    BY <1>1 DEF GetOr
  <2>2. names = [k \in DOMAIN authors |-> authors[k]]
    BY <1>1, <1>2, <2>1
  <2> QED BY <1>3, <2>2
<1>5. Without(authors, {None, <<>>}) = authors
  BY <1>3, WithoutNone
<1> QED BY <1>1, <1>4, <1>5 DEF OpenAlexAuthors

\* However a name is divided, AuthorName() puts it together.
LEMMA NameSpelled ==
  ASSUME NEW author, NEW name \in Texts \ {None, <<>>}, Strip(name) = name,
         SpellsName(author, name)
  PROVE  AuthorName(author) = name
<1>1. PICK given, family : given = Get(author, "given") /\ family = Get(author, "family")
  OBVIOUS
<1>2. name \in Seq(STRING) /\ name \o <<>> \o <<>> = name /\ <<>> \o <<>> \o name = name
  BY DEF Texts
<1>3. CASE given = name /\ family = None
  BY <1>1, <1>2, <1>3 DEF AuthorName, Or
<1>4. CASE given = None /\ family = name
  BY <1>1, <1>2, <1>4 DEF AuthorName, Or
<1>5. CASE {given, family} \subseteq Texts \ {<<>>} /\ name = given \o <<Blank>> \o family
  <2>1. given \notin {None, <<>>} /\ family \notin {None, <<>>}
    BY <1>5, ValuesAssumption
  <2> QED BY <1>1, <1>5, <2>1 DEF AuthorName, Or
<1> QED BY <1>1, <1>3, <1>4, <1>5 DEF SpellsName

\* A group has no name for AuthorName().
LEMMA GroupUnnamed ==
  ASSUME NEW author, NEW name, NamesGroup(author, name)
  PROVE  AuthorName(author) = <<>>
<1>1. <<>> \in Texts /\ <<>> \o <<>> \o <<>> = <<>>
  BY DEF Texts
<1>2. Strip(<<>>) = <<>>
  BY <1>1, StripKeeps
<1> QED BY <1>1, <1>2 DEF NamesGroup, AuthorName, Or

\* Without the groups, which have no name here: see OpenAlexListsAuthors.
LEMMA CrossrefListsAuthors ==
  ASSUME NEW record, NEW work, IsWork(work), ListsAuthors("crossref", record, work)
  PROVE  CrossrefAuthors(record) =
           OrNone(At(work.authors, DOMAIN work.authors \ work.groups))
<1>1. PICK authors, list : authors = work.authors /\ list = GetOr(record, "author", <<>>)
  OBVIOUS
<1>2. /\ DOMAIN list = DOMAIN authors
      /\ \A k \in DOMAIN authors :
           IF k \in work.groups THEN NamesGroup(list[k], authors[k])
           ELSE SpellsName(list[k], authors[k])
  BY <1>1 DEF ListsAuthors
<1>3. /\ authors \in Seq(Texts \ {<<>>})
      /\ \A k \in DOMAIN authors :
           authors[k] \in Texts \ {None, <<>>} /\ Strip(authors[k]) = authors[k]
  BY <1>1, WorkAuthors
<1> DEFINE names == [i \in DOMAIN GetOr(record, "author", <<>>) |-> AuthorName(record.author[i])]
           persons == DOMAIN authors \ work.groups
<1>4. /\ DOMAIN names = DOMAIN authors
      /\ \A k \in DOMAIN authors :
           names[k] = IF k \in work.groups THEN <<>> ELSE authors[k]
  <2>1. ASSUME NEW k \in DOMAIN list
        PROVE  list[k] = record.author[k]
    BY <1>1 DEF GetOr
  <2>2. ASSUME NEW k \in DOMAIN authors
        PROVE  AuthorName(list[k]) = IF k \in work.groups THEN <<>> ELSE authors[k]
    BY <1>2, <1>3, NameSpelled, GroupUnnamed
  <2> QED BY <1>1, <1>2, <2>1, <2>2
<1>5. {k \in DOMAIN names : names[k] \notin {<<>>}} = persons
  BY <1>3, <1>4
<1>6. Without(names, {<<>>}) = At(names, persons)
  <2> HIDE DEF names, persons
  <2> QED BY <1>5 DEF Without
<1>7. At(names, persons) = At(authors, persons)
  <2>1. PICK e, n : e = InOrder(persons) /\ n = Cardinality(persons)
    OBVIOUS
  <2>2. persons \in SUBSET (DOMAIN authors) /\ Increases(e, n, persons)
    <3>1. persons \in SUBSET (DOMAIN authors)
      OBVIOUS
    <3> HIDE DEF persons
    <3> QED BY <1>3, <2>1, <3>1, AtPlaces
  <2>3. \A k \in 1 .. n : e[k] \in persons
    BY <2>2 DEF Increases
  <2>4. \A k \in 1 .. n : names[e[k]] = authors[e[k]]
    BY <1>4, <2>3
  <2> HIDE DEF names, persons
  <2> QED BY <2>1, <2>4 DEF At
<1>8. CrossrefAuthors(record) = OrNone(Without(names, {<<>>}))
  BY DEF CrossrefAuthors
<1> HIDE DEF names
<1> QED BY <1>1, <1>6, <1>7, <1>8

\* See OpenAlexListsAuthors.
LEMMA ArxivListsAuthors ==
  ASSUME NEW record, NEW work, IsWork(work), ListsAuthors("arxiv", record, work)
  PROVE  ArxivAuthors(record) = OrNone(work.authors)
<1>1. PICK authors : authors = work.authors
  OBVIOUS
<1>2. /\ DOMAIN record.authors = DOMAIN authors
      /\ \A k \in DOMAIN authors :
           /\ Get(record.authors[k], "name") \in Texts
           /\ Strip(Get(record.authors[k], "name")) = authors[k]
  BY <1>1 DEF ListsAuthors
<1>3. /\ authors \in Seq(Texts \ {<<>>})
      /\ \A k \in DOMAIN authors : authors[k] \in Texts \ {None, <<>>}
  BY <1>1, WorkAuthors
<1> DEFINE names == [i \in DOMAIN record.authors |-> Text(record.authors[i], "name")]
<1>4. names = authors
  <2>1. ASSUME NEW k \in DOMAIN authors
        PROVE  Text(record.authors[k], "name") = authors[k]
    <3>1. Get(record.authors[k], "name") # None
      BY <1>2, ValuesAssumption
    <3> QED BY <1>2, <1>3, <3>1 DEF Text, OrNone
  <2>2. names = [k \in DOMAIN authors |-> authors[k]]
    BY <1>2, <2>1
  <2> QED BY <1>3, <2>2
<1>5. Without(authors, {None}) = authors
  <2>1. (Texts \ {<<>>}) \cap {None} = {}
    BY ValuesAssumption
  <2> QED BY <1>3, <2>1, WithoutNone
<1> QED BY <1>1, <1>4, <1>5 DEF ArxivAuthors

\* So does the provider of the answer, whichever it is.
LEMMA ResultListsAuthors ==
  ASSUME AskedInv, NEW record, NEW work, Documents(provider, record, work)
  PROVE  ResultOf(record).authors = OrNone(Listed(work))
<1>1. /\ provider \in {"openalex", "arxiv", "crossref"}
      /\ IsWork(work) /\ ListsAuthors(provider, record, work)
  BY DEF AskedInv, Documents
<1>2. /\ OpenAlexResult(record).authors = OpenAlexAuthors(record)
      /\ CrossrefResult(record).authors = CrossrefAuthors(record)
      /\ ArxivResult(record).authors = ArxivAuthors(record)
  BY DEF OpenAlexResult, CrossrefResult, ArxivResult
<1> QED BY <1>1, <1>2, OpenAlexListsAuthors, CrossrefListsAuthors, ArxivListsAuthors
        DEF ResultOf, Listed

\* Some authors of a work are texts, too.
LEMMA ListedTexts ==
  ASSUME NEW work, IsWork(work)
  PROVE  Listed(work) \in Seq(Texts)
<1>1. PICK authors : authors = work.authors
  OBVIOUS
<1>2. authors \in Seq(Texts) /\ (DOMAIN authors \ work.groups) \in SUBSET (DOMAIN authors)
  BY <1>1 DEF IsWork
<1>3. At(authors, DOMAIN authors \ work.groups) \in Seq(Texts)
  BY <1>2, AtPlaces
<1> QED BY <1>1, <1>2, <1>3 DEF Listed

\* The authors are listed in order, and no person is left out, whatever stands
\* between two of them.
THEOREM AuthorsAreInOrder == Spec => []AuthorsInOrder
<1>1. RecordsInv => AuthorsInOrder
  <2> SUFFICES ASSUME RecordsInv, NEW i \in DOMAIN page, Shows(i, "authors")
               PROVE  batch["authors"][i] = OrNone(Listed(page[i].work))
    BY DEF AuthorsInOrder
  <2>1. PICK record, work : record = page[i].record /\ work = page[i].work
    OBVIOUS
  <2>2. batch["authors"][i] = ResultOf(record)["authors"] /\ Documents(provider, record, work)
    BY <2>1, ShownRow
  <2>3. ResultOf(record).authors = OrNone(Listed(work))
    BY <2>2, ResultListsAuthors DEF RecordsInv
  <2> QED BY <2>1, <2>2, <2>3
<1> QED BY <1>1, RecordsInvariant, PTL

-----------------------------------------------------------------------------
(* What the code cleans, and what it passes on.                            *)

\* A text that does not begin with a blank is legible.
LEMMA LegibleText ==
  ASSUME NEW text \in Texts, NEW i \in DOMAIN text, text[i] # Blank
  PROVE  Legible(text)
BY StripKeeps DEF Legible

\* The text of an element is legible, whatever the element holds.
LEMMA TextLegible ==
  ASSUME NEW entry, NEW tag, Get(entry, tag) \in TextOrNull
  PROVE  Legible(Text(entry, tag))
<1>1. CASE Get(entry, tag) = None
  BY <1>1 DEF Text, Legible
<1>2. CASE Get(entry, tag) # None
  <2>1. PICK text : text = Strip(Get(entry, tag))
    OBVIOUS
  <2>2. Text(entry, tag) = IF text = <<>> THEN None ELSE text
    BY <1>2, <2>1 DEF Text, OrNone
  <2>3. text \in Texts /\ (text # <<>> => text[1] # Blank)
    BY <1>2, <2>1, StripKeeps DEF TextOrNull
  <2>4. text # <<>> => 1 \in DOMAIN text
    BY <2>3 DEF Texts
  <2> QED BY <2>2, <2>3, <2>4, LegibleText DEF Legible
<1> QED BY <1>1, <1>2

\* A journal is, or "arXiv" in its place.
LEMMA ArxivVenueLegible ==
  ASSUME NEW entry, FillsRest("arxiv", entry)
  PROVE  Legible(Or(Text(entry, "journal_ref"), <<"arXiv">>))
<1>1. Get(entry, "journal_ref") \in TextOrNull
  BY DEF FillsRest
<1>2. Legible(Text(entry, "journal_ref"))
  BY <1>1, TextLegible
<1>3. Legible(<<"arXiv">>)
  <2>1. PICK text : text = <<"arXiv">>
    OBVIOUS
  <2>2. text \in Texts
    <3>1. PICK word \in STRING : word = "arXiv"
      BY LiteralsAssumption
    <3>2. <<word>> \in Seq(STRING)
      OBVIOUS
    <3> QED BY <2>1, <3>1, <3>2 DEF Texts
  <2>3. 1 \in DOMAIN text /\ text[1] # Blank
    BY <2>1 DEF Blank
  <2>4. Legible(text)
    BY <2>2, <2>3, LegibleText
  <2> QED BY <2>1, <2>4
<1> QED BY <1>2, <1>3 DEF Or

\* The DOI that clean_doi() makes of a spelling is legible.
LEMMA DoiLegible ==
  ASSUME NEW text, NEW doi, SpellsDoi(text, doi)
  PROVE  Legible(CleanDoi(text))
<1>1. CleanDoi(text) = doi
  BY CleanDoiIsBare
<1>2. CASE doi = None
  BY <1>1, <1>2 DEF Legible
<1>3. CASE doi # None
  <2>1. doi \in Texts /\ doi # <<>> /\ Blank \notin ToSet(doi)
    BY <1>3 DEF SpellsDoi
  <2>2. 1 \in DOMAIN doi /\ doi[1] \in ToSet(doi)
    BY <2>1 DEF Texts, ToSet
  <2> QED BY <1>1, <2>1, <2>2, LegibleText
<1> QED BY <1>2, <1>3

\* The DOI of a Result is that of clean_doi(), and arXiv's venue the journal or
\* "arXiv".
LEMMA DoiAndVenue ==
  ASSUME AskedInv, NEW record
  PROVE  /\ ResultOf(record).doi = CleanDoi(DoiText(provider, record))
         /\ provider = "arxiv" =>
              ResultOf(record).venue = Or(Text(record, "journal_ref"), <<"arXiv">>)
<1>1. provider \in {"openalex", "arxiv", "crossref"}
  BY DEF AskedInv
<1>2. OpenAlexResult(record).doi = CleanDoi(Get(record, "doi"))
  BY DEF OpenAlexResult
<1>3. CrossrefResult(record).doi = CleanDoi(Get(record, "DOI"))
  BY DEF CrossrefResult
<1>4. /\ ArxivResult(record).doi = CleanDoi(Text(record, "doi"))
      /\ ArxivResult(record).venue = Or(Text(record, "journal_ref"), <<"arXiv">>)
  BY DEF ArxivResult
<1> QED BY <1>1, <1>2, <1>3, <1>4 DEF ResultOf, DoiText

\* What the code cleans is legible.
LEMMA CleanedLegible ==
  ASSUME AskedInv, NEW record, NEW work, Documents(provider, record, work),
         NEW column \in Cleaned
  PROVE  Legible(ResultOf(record)[column])
<1>1. PICK result : result = ResultOf(record)
  OBVIOUS
<1>2. /\ IsWork(work) /\ FillsRest(provider, record)
      /\ SpellsDoi(DoiText(provider, record), work.doi)
  BY DEF Documents
<1>3. Legible(result.title) /\ Legible(result.abstract)
  BY <1>1, <1>2, ResultShowsTexts, WrittenLegible DEF ShowsTexts, IsWork
<1>4. Legible(result.doi)
  BY <1>1, <1>2, DoiAndVenue, DoiLegible
<1>5. provider = "arxiv" => Legible(result.venue)
  BY <1>1, <1>2, DoiAndVenue, ArxivVenueLegible
<1>6. column \in {"abstract", "doi", "title"} \/ (column = "venue" /\ provider = "arxiv")
  BY DEF Cleaned
<1> QED BY <1>1, <1>3, <1>4, <1>5, <1>6

\* What is left of an element of blanks, a DOI that is a prefix only, or an
\* abstract of markup is NULL, and no text of blanks.
THEOREM MissingIsNulled == Spec => []MissingIsNull
<1>1. RecordsInv => MissingIsNull
  <2> SUFFICES ASSUME RecordsInv, NEW i \in DOMAIN page, NEW column \in Cleaned,
                      Shows(i, column)
               PROVE  batch[column][i] = None \/ Strip(batch[column][i]) # <<>>
    BY DEF MissingIsNull
  <2>1. PICK record, work : record = page[i].record /\ work = page[i].work
    OBVIOUS
  <2>2. column # "extra" /\ column # "published"
    BY DEF Cleaned
  <2>3. batch[column][i] = ResultOf(record)[column] /\ Documents(provider, record, work)
    BY <2>1, <2>2, ShownRow
  <2>4. Legible(ResultOf(record)[column])
    BY <2>3, CleanedLegible DEF RecordsInv
  <2> QED BY <2>3, <2>4 DEF Legible
<1> QED BY <1>1, RecordsInvariant, PTL

\* The first of two texts that is set is one.
LEMMA OrText ==
  ASSUME NEW a \in TextOrNull, NEW b \in TextOrNull
  PROVE  Or(a, b) \in TextOrNull
BY DEF Or

\* A legible value is a text or null.
LEMMA LegibleIsText ==
  ASSUME NEW value, Legible(value)
  PROVE  value \in TextOrNull
BY DEF Legible, TextOrNull

\* The link of an entry is a text, or null.
LEMMA ArxivUrlText ==
  ASSUME NEW entry, FillsRest("arxiv", entry)
  PROVE  ArxivUrl(entry) \in TextOrNull
<1>1. /\ Get(entry, "id") \in TextOrNull
      /\ entry.links \in Seq(ToSet(entry.links))
      /\ \A i \in DOMAIN entry.links : Get(entry.links[i], "href") \in TextOrNull
  BY DEF FillsRest
<1> DEFINE links == {i \in DOMAIN entry.links :
                       /\ Get(entry.links[i], "rel") = "alternate"
                       /\ Get(entry.links[i], "href") \notin {None, <<>>}}
<1>2. CASE links = {}
  <2>1. ArxivUrl(entry) = Text(entry, "id")
    BY <1>2 DEF ArxivUrl
  <2> QED BY <1>1, <2>1, TextLegible, LegibleIsText
<1>3. CASE links # {}
  <2>1. PICK first : first = Min(links)
    OBVIOUS
  <2>2. ArxivUrl(entry) = entry.links[first].href
    BY <1>3, <2>1 DEF ArxivUrl
  <2>3. first \in links
    <3>1. links \subseteq 1 .. Len(entry.links) /\ Len(entry.links) \in Nat
      BY <1>1
    <3> HIDE DEF links
    <3>2. IsFiniteSet(1 .. Len(entry.links))
      BY <3>1, FS_Interval
    <3>3. links \in SUBSET (1 .. Len(entry.links)) /\ links \subseteq Int
      BY <3>1
    <3>4. IsFiniteSet(links)
      BY <3>2, <3>3, FS_Subset
    <3> QED BY <1>3, <2>1, <3>3, <3>4, MinMax
  <2>4. first \in DOMAIN entry.links /\ Get(entry.links[first], "href") # None
    BY <2>3
  <2>5. Get(entry.links[first], "href") = entry.links[first].href
    BY <2>4 DEF Get, GetOr
  <2> QED BY <1>1, <2>2, <2>4, <2>5
<1> QED BY <1>2, <1>3

\* The columns of a Result that hold a text.
TextColumns == {"title", "abstract", "doi", "venue", "url"}

ShowsText(result) == \A column \in TextColumns : result[column] \in TextOrNull

\* For a documented record, all of them do, or are null.
LEMMA ResultText ==
  ASSUME AskedInv, NEW record, NEW work, Documents(provider, record, work)
  PROVE  ShowsText(ResultOf(record))
<1>1. PICK result : result = ResultOf(record)
  OBVIOUS
<1>2. /\ provider \in {"openalex", "arxiv", "crossref"}
      /\ IsWork(work) /\ FillsRest(provider, record)
      /\ SpellsDoi(DoiText(provider, record), work.doi)
  BY DEF AskedInv, Documents
<1>3. result.title \in TextOrNull /\ result.abstract \in TextOrNull
  BY <1>1, <1>2, ResultShowsTexts, WrittenLegible, LegibleIsText DEF ShowsTexts, IsWork
<1>4. result.doi \in TextOrNull
  BY <1>1, <1>2, DoiAndVenue, DoiLegible, LegibleIsText
<1>5. result.venue \in TextOrNull /\ result.url \in TextOrNull
  <2>1. CASE provider = "openalex"
    <3>1. /\ result.venue = Get(Or(Get(Location(record), "source"), EmptyDict), "display_name")
          /\ result.url = Or(Get(Location(record), "landing_page_url"), Get(record, "id"))
      BY <1>1, <2>1 DEF ResultOf, OpenAlexResult
    <3>2. /\ Get(Or(Get(Location(record), "source"), EmptyDict), "display_name") \in TextOrNull
          /\ Get(Location(record), "landing_page_url") \in TextOrNull
          /\ Get(record, "id") \in TextOrNull
      BY <1>2, <2>1 DEF FillsRest
    <3> QED BY <3>1, <3>2, OrText
  <2>2. CASE provider = "crossref"
    <3>1. /\ result.venue = FirstOf(Get(record, "container-title"))
          /\ result.url = Get(record, "URL")
      BY <1>1, <2>2 DEF ResultOf, CrossrefResult
    <3> QED BY <1>2, <2>2, <3>1 DEF FillsRest
  <2>3. CASE provider = "arxiv"
    <3>1. result.url = ArxivUrl(record)
      BY <1>1, <2>3 DEF ResultOf, ArxivResult
    <3>2. FillsRest("arxiv", record)
      BY <1>2, <2>3
    <3>3. Legible(result.venue)
      BY <1>1, <2>3, <3>2, DoiAndVenue, ArxivVenueLegible
    <3> QED BY <3>1, <3>2, <3>3, ArxivUrlText, LegibleIsText
  <2> QED BY <1>2, <2>1, <2>2, <2>3
<1> QED BY <1>1, <1>3, <1>4, <1>5 DEF ShowsText, TextColumns

-----------------------------------------------------------------------------
(* No documented record is lost.                                           *)

\* _map() raises on none, whatever it leaves out or sets to null.
LEMMA OpenAlexTakesRecord ==
  ASSUME NEW record, NEW work, Documents("openalex", record, work)
  PROVE  ~ OpenAlexRaises(record)
<1>1. PICK list : list = GetOr(record, "authorships", <<>>)
  OBVIOUS
<1>2. /\ list # None
      /\ \A k \in DOMAIN list : GetOr(list[k], "author", EmptyDict) # None
  BY <1>1 DEF Documents, ListsAuthors
<1>3. ASSUME NEW i \in DOMAIN Or(Get(record, "authorships"), <<>>)
      PROVE  GetOr(record.authorships[i], "author", EmptyDict) # None
  <2>1. "authorships" \in DOMAIN record /\ list = record.authorships
    BY <1>1 DEF Or, Get, GetOr
  <2>2. i \in DOMAIN list
    BY <2>1 DEF Or, Get, GetOr
  <2> QED BY <1>2, <2>1, <2>2
<1>4. GetOr(record, "open_access", EmptyDict) # None
  BY DEF Documents, FillsRest
<1>5. Get(record, "abstract_inverted_index") # Junk
  BY ValuesAssumption DEF Documents, TellsTexts, Indexes
<1> QED BY <1>1, <1>2, <1>3, <1>4, <1>5 DEF OpenAlexRaises

\* The integers that are known of a date are no overflow.
LEMMA ListedDateTaken ==
  ASSUME NEW parts, NEW date, ListsDate(parts, date), date = None \/ KnownDate(date)
  PROVE  ~ DatePartsRaise(parts)
<1>1. CASE date = None
  <2>1. CASE parts \in {None, <<>>}
    BY <2>1 DEF DatePartsRaise, IsText
  <2>2. CASE parts = <<None>>
    <3>1. 1 \in DOMAIN Parts(parts) /\ Parts(parts)[1] = None
      BY <2>2 DEF Parts
    <3>2. None \in ToSet(Parts(parts))
      BY <3>1 DEF ToSet
    <3> QED BY <3>2 DEF DatePartsRaise
  <2> QED BY <1>1, <2>1, <2>2 DEF ListsDate
<1>2. CASE date # None
  <2>1. ToSet(Parts(parts)) \subseteq Int
    BY <1>2, ListedParts DEF ToSet
  <2>2. Huge \notin Int
    BY ValuesAssumption
  <2> QED BY <2>1, <2>2 DEF DatePartsRaise
<1> QED BY <1>1, <1>2

\* See OpenAlexTakesRecord.
LEMMA CrossrefTakesRecord ==
  ASSUME NEW record, NEW work, Documents("crossref", record, work)
  PROVE  ~ CrossrefRaises(record)
<1>1. PICK authors, list : authors = work.authors /\ list = GetOr(record, "author", <<>>)
  OBVIOUS
<1>2. /\ list # None /\ DOMAIN list = DOMAIN authors
      /\ \A k \in DOMAIN authors :
           /\ IF k \in work.groups THEN NamesGroup(list[k], authors[k])
              ELSE SpellsName(list[k], authors[k])
           /\ authors[k] \in Texts
  BY <1>1, WorkAuthors DEF Documents, ListsAuthors
<1>3. ASSUME NEW i \in DOMAIN Or(Get(record, "author"), <<>>)
      PROVE  Junk \notin ToSet(NameParts(record.author[i]))
  <2>1. "author" \in DOMAIN record /\ list = record.author /\ i \in DOMAIN list
    BY <1>1 DEF Or, Get, GetOr
  <2>2. NamesGroup(list[i], authors[i]) \/ SpellsName(list[i], authors[i])
    BY <1>2, <2>1
  <2>3. Get(list[i], "given") # Junk /\ Get(list[i], "family") # Junk
    BY <1>2, <2>1, <2>2, ValuesAssumption DEF SpellsName, NamesGroup
  <2> QED BY <2>1, <2>3 DEF NameParts, ToSet
<1>4. ~ DatePartsRaise(Issued(record))
  BY ListedDateTaken DEF Documents, CarriesDate
<1>5. GetOr(record, "published-print", EmptyDict) # None
  BY DEF Documents, FillsRest
<1> QED BY <1>1, <1>2, <1>3, <1>4, <1>5 DEF CrossrefRaises

\* So does the provider of the answer, whichever it is.
LEMMA RecordTaken ==
  ASSUME AskedInv, NEW record, NEW work, Documents(provider, record, work)
  PROVE  ~ Raises(record)
<1>1. provider \in {"openalex", "arxiv", "crossref"}
  BY DEF AskedInv
<1> QED BY <1>1, OpenAlexTakesRecord, CrossrefTakesRecord DEF Raises

\* Arrow takes texts, and lists of texts.
LEMMA TextsTaken ==
  /\ \A value \in TextOrNull : ArrowTakes(value)
  /\ \A list : list \in Seq(Texts) => ArrowTakes(OrNone(list))
BY ValuesAssumption DEF TextOrNull, ArrowTakes, OrNone

\* The two date columns of a documented record are dates and years, or null.
LEMMA DatesTaken ==
  ASSUME NEW result, NEW date, ShowsDate(result, date), date = None \/ KnownDate(date)
  PROVE  ArrowTakes(result.year) /\ ArrowTakes(Cell(result, "published"))
<1>1. date # None => date.year \in Int
  BY DateIsInteger DEF KnownDate
<1>2. Becomes(Cell(result, "published"), date)
  BY CellTellsDate
<1> QED BY <1>1, <1>2, ValuesAssumption DEF ShowsDate, Becomes, ArrowTakes

\* The fields of `extra`, and the count of citations.
LEMMA RestTaken ==
  ASSUME AskedInv, NEW record, FillsRest(provider, record)
  PROVE  /\ ResultOf(record).extra \subseteq ExtraFields
         /\ ResultOf(record).source \in STRING
         /\ ResultOf(record).citations_count \in Int \cup {None}
<1>1. PICK result : result = ResultOf(record)
  OBVIOUS
<1>2. ASSUME NEW item, NEW fields \in SUBSET ExtraFields
      PROVE  Present(item, fields) \subseteq ExtraFields
  BY DEF Present
<1>3. CASE provider = "openalex"
  <2>1. /\ result.extra = Present(record, {"id", "type"})
                          \cup Present(GetOr(record, "open_access", EmptyDict), {"oa_status"})
        /\ result.source = "openalex"
        /\ result.citations_count = Get(record, "cited_by_count")
    BY <1>1, <1>3 DEF ResultOf, OpenAlexResult
  <2>2. {"id", "type"} \subseteq ExtraFields /\ {"oa_status"} \subseteq ExtraFields
    BY DEF ExtraFields
  <2>3. Get(record, "cited_by_count") \in Int \cup {None}
    BY <1>3 DEF FillsRest
  <2> QED BY <1>1, <1>2, <2>1, <2>2, <2>3, LiteralsAssumption
<1>4. CASE provider = "crossref"
  <2>1. /\ result.extra = Present(record, {"type", "publisher"})
        /\ result.source = "crossref"
        /\ result.citations_count = Get(record, "is-referenced-by-count")
    BY <1>1, <1>4 DEF ResultOf, CrossrefResult
  <2>2. {"type", "publisher"} \subseteq ExtraFields
    BY DEF ExtraFields
  <2>3. Get(record, "is-referenced-by-count") \in Int \cup {None}
    BY <1>4 DEF FillsRest
  <2> QED BY <1>1, <1>2, <2>1, <2>2, <2>3, LiteralsAssumption
<1>5. CASE provider = "arxiv"
  <2>1. /\ result.extra \subseteq Present(record, {"categories", "primary_category"})
                                  \cup {"arxiv_id"}
        /\ result.source = "arxiv"
        /\ result.citations_count = None
    BY <1>1, <1>5 DEF ResultOf, ArxivResult
  <2>2. {"categories", "primary_category"} \subseteq ExtraFields /\ "arxiv_id" \in ExtraFields
    BY DEF ExtraFields
  <2> QED BY <1>1, <1>2, <2>1, <2>2, LiteralsAssumption
<1> QED BY <1>3, <1>4, <1>5 DEF AskedInv

\* Arrow takes every cell of a documented record.
LEMMA CellsTaken ==
  ASSUME AskedInv, NEW record, NEW work, Documents(provider, record, work),
         NEW column \in Columns
  PROVE  ArrowTakes(Cell(ResultOf(record), column))
<1>1. PICK result : result = ResultOf(record)
  OBVIOUS
<1>2. /\ provider \in {"openalex", "arxiv", "crossref"}
      /\ IsWork(work) /\ FillsRest(provider, record)
      /\ CarriesDate(provider, record, work.date)
  BY DEF AskedInv, Documents
<1>3. CASE column \in TextColumns
  <2>1. Cell(result, column) = result[column] /\ result[column] \in TextOrNull
    BY <1>1, <1>3, ResultText DEF Cell, ShowsText, TextColumns
  <2> QED BY <1>1, <2>1, TextsTaken
<1>4. CASE column = "authors"
  <2>1. Cell(result, column) = OrNone(Listed(work)) /\ Listed(work) \in Seq(Texts)
    BY <1>1, <1>2, <1>4, ResultListsAuthors, ListedTexts DEF Cell
  <2> QED BY <1>1, <2>1, TextsTaken
<1>5. CASE column \in {"year", "published"}
  <2>1. column = "year" => Cell(result, column) = result.year
    BY DEF Cell
  <2>2. ShowsDate(result, work.date) /\ (work.date = None \/ KnownDate(work.date))
    BY <1>1, <1>2, OpenAlexShowsDate, CrossrefShowsDate, ArxivShowsDate
       DEF ResultOf, CarriesDate
  <2> QED BY <1>1, <1>5, <2>1, <2>2, DatesTaken
<1>6. CASE column \in {"citations_count", "source"}
  <2>1. Cell(result, column) = result[column]
    BY <1>6 DEF Cell
  <2>2. result.source \in STRING /\ result.citations_count \in Int \cup {None}
    BY <1>1, <1>2, RestTaken
  <2> QED BY <1>1, <1>6, <2>1, <2>2, ValuesAssumption DEF ArrowTakes
<1>7. CASE column = "extra"
  <2>1. result.extra \in SUBSET ExtraFields
    BY <1>1, <1>2, RestTaken
  <2>2. Cell(result, column) \in (SUBSET ExtraFields) \cup {None}
    BY <1>7, <2>1 DEF Cell
  <2> QED BY <1>1, <2>2, ValuesAssumption DEF ArrowTakes
<1> QED BY <1>3, <1>4, <1>5, <1>6, <1>7 DEF Columns, TextColumns

\* A page of documented records is never lost, whatever they leave out or set
\* to null: no record of it raises, and Arrow takes every column.
THEOREM DocumentedAreAccepted == Spec => []DocumentedAccepted
<1>1. RecordsInv => DocumentedAccepted
  <2> SUFFICES ASSUME RecordsInv, \A i \in DOMAIN page : page[i].work # None,
                      outcome \in {"crashed", "rejected"}
               PROVE  FALSE
    BY DEF DocumentedAccepted
  <2>1. ASSUME NEW i \in DOMAIN page
        PROVE  Documents(provider, page[i].record, page[i].work)
    BY RecordDocumented DEF RecordsInv
  <2>2. CASE outcome = "crashed"
    <3>1. PICK i \in DOMAIN page : Raises(page[i].record)
      BY <2>2 DEF RecordsInv, LostInv
    <3> QED BY <2>1, <3>1, RecordTaken DEF RecordsInv
  <2>3. CASE outcome = "rejected"
    <3>1. PICK i \in DOMAIN page, column \in columns :
            ~ ArrowTakes(Cell(ResultOf(page[i].record), column))
      BY <2>3 DEF RecordsInv, LostInv
    <3>2. column \in Columns
      BY DEF RecordsInv, AskedInv
    <3> QED BY <2>1, <3>1, <3>2, CellsTaken DEF RecordsInv
  <2> QED BY <2>2, <2>3
<1> QED BY <1>1, RecordsInvariant, PTL
=============================================================================
