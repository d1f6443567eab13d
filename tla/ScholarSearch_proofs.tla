------------------------ MODULE ScholarSearch_proofs ------------------------
(***************************************************************************)
(* What ScholarSearch guarantees for all values of its constants: the      *)
(* budgets against every API; order, completeness and the refinement of    *)
(* BoundedStream for those APIs that the theorems name.                    *)
(***************************************************************************)
EXTENDS ScholarSearch, ProviderApi_proofs

-----------------------------------------------------------------------------
(* Pages of one scan.                                                      *)

\* The rows a page contributes are its first results, at most as many as
\* remain, and none only if the page is empty.
LEMMA KeptIsHead ==
  ASSUME NEW page, page.results \in Seq(Works),
         Remaining \in Nat \ {0}
  PROVE  /\ Kept(page) \in Seq(Works)
         /\ Len(Kept(page)) <= Remaining
         /\ Len(Kept(page)) <= Len(page.results)
         /\ \A i \in 1 .. Len(Kept(page)) : Kept(page)[i] = page.results[i]
         /\ Kept(page) = <<>> <=> page.results = <<>>
         /\ Len(Kept(page)) = Remaining \/ Len(Kept(page)) = Len(page.results)
<1> DEFINE head == SubSeq(page.results, 1, Min({Remaining, Len(page.results)}))
<1>1. Kept(page) = head
  BY DEF Kept
<1>2. /\ head \in Seq(Works)
      /\ Len(head) <= Remaining
      /\ Len(head) <= Len(page.results)
      /\ \A i \in 1 .. Len(head) : head[i] = page.results[i]
      /\ head = <<>> <=> page.results = <<>>
      /\ Len(head) = Remaining \/ Len(head) = Len(page.results)
  BY HeadOfPage, Zenon
<1> HIDE DEF head
<1> QED BY <1>1, <1>2

\* Before a search there is something left to fetch, and the search asks
\* for a positive number of results.
LEMMA RequestOfScan ==
  ASSUME TypeOK, ~ Exhausted
  PROVE  /\ Remaining \in Nat \ {0}
         /\ TheRequest.at \in Nat
         /\ TheRequest.want \in Nat \ {0}
<1>1. /\ args.provider \in ProviderNames
      /\ args.count \in Nat
      /\ args.page_size \in Nat
      /\ state.emitted \in Nat
      /\ state.cursor \in Cursor
  BY ArgsAssumption DEF TypeOK, ScanState
<1>2. Remaining \in Nat \ {0}
  BY <1>1 DEF Remaining, Exhausted
<1>3. WantedPage \in Nat
  <2>1. DefaultPageSize \in Int /\ Remaining \in Int
    BY <1>2, ArgsAssumption
  <2>2. Min({DefaultPageSize, Remaining}) \in {DefaultPageSize, Remaining}
    BY <2>1, MinOfTwo
  <2>3. Min({DefaultPageSize, Remaining}) \in Nat
    BY <2>2, <1>2, ArgsAssumption
  <2> QED BY <2>3, <1>1 DEF WantedPage
<1> QED
  BY <1>1, <1>2, <1>3, RequestType DEF TheRequest

\* Every page is made of an answer to the request of the tick.
LEMMA PageFromAnswer ==
  ASSUME TypeOK, ~ Exhausted, NEW page \in Pages
  PROVE  /\ corpus \in Seq(Works)
         /\ args.provider \in ProviderNames
         /\ TheRequest.at \in Nat
         /\ TheRequest.want \in Nat \ {0}
         /\ \E answer \in Answers(TheQuirks, corpus, TheRequest) :
              page = PageOf(args.provider, TheRequest, answer)
<1>1. TheRequest.at \in Nat /\ TheRequest.want \in Nat \ {0}
  BY RequestOfScan
<1> QED BY <1>1 DEF Pages, TypeOK

\* What every page that may come back guarantees, whatever the quirks: it is
\* a slice of the result list, its cursor is one its provider makes, and an
\* empty page has none.
LEMMA PageType ==
  ASSUME TypeOK, ~ Exhausted, NEW page \in Pages
  PROVE  /\ page.results \in Seq(Works)
         /\ TheRequest.at > Len(corpus) => page.results = <<>>
         /\ TheRequest.at <= Len(corpus) =>
              TheRequest.at + Len(page.results) <= Len(corpus)
         /\ \A i \in 1 .. Len(page.results) :
              page.results[i] = corpus[TheRequest.at + i]
         /\ page.next_cursor \in Cursor
         /\ page.next_cursor.form \in CursorForms(args.provider)
         /\ page.results = <<>> => page.next_cursor = NoCursor
BY PageFromAnswer, PageOfList DEF CursorForms

-----------------------------------------------------------------------------
(* The row and request budgets, against every API.                         *)

\* The inductive invariant.  RequestBudget alone is not inductive: a page
\* without rows must be the last one, so an open scan has had no such page.
BudgetInv ==
  /\ TypeOK
  /\ CountBudget
  /\ RequestBudget
  /\ status = "open" => requests <= Len(rows)

\* A fresh scan satisfies the invariant.
LEMMA BudgetInit == Init => BudgetInv
<1> SUFFICES ASSUME Init PROVE BudgetInv
  OBVIOUS
<1>1. args.count \in Nat \ {0}
  BY ArgsAssumption DEF Init
<1>2. NoCursor \in Cursor /\ NoCursor.form = "none"
  BY DEF NoCursor, Cursor, Forms
<1>3. TypeOK
  BY <1>2, ApiAssumption DEF Init, TypeOK, InitialState, ScanState, CursorForms
<1> QED
  BY <1>1, <1>3 DEF BudgetInv, CountBudget, RequestBudget, Init, InitialState

\* What the budgets need of a page, whatever list it comes from.
PageFits(page) ==
  /\ page.results \in Seq(Works)
  /\ page.next_cursor \in Cursor
  /\ page.next_cursor.form \in CursorForms(args.provider)
  /\ page.results = <<>> => page.next_cursor = NoCursor

\* process() emits what it keeps of a page.
Emits(page) ==
  /\ rows' = rows \o Kept(page)
  /\ state' = After(page)
  /\ status' = IF Kept(page) = <<>> /\ page.next_cursor = NoCursor
               THEN "finished" ELSE "open"
  /\ requests' = requests + 1
  /\ UNCHANGED <<args, world>>

\* A page keeps the invariant: its rows fit into what remains, and if it
\* has none, it ends the scan.
LEMMA BudgetEmit ==
  ASSUME BudgetInv, status = "open", ~ Exhausted, NEW page, PageFits(page), Emits(page)
  PROVE  BudgetInv'
<1>1. TypeOK
  BY DEF BudgetInv
<1>2. /\ rows' = rows \o Kept(page)
      /\ state' = [cursor  |-> page.next_cursor,
                   emitted |-> state.emitted + Len(Kept(page)),
                   started |-> TRUE,
                   done    |-> page.next_cursor = NoCursor
                                 \/ state.emitted + Len(Kept(page)) >= args.count]
      /\ status' = IF Kept(page) = <<>> /\ page.next_cursor = NoCursor
                   THEN "finished" ELSE "open"
      /\ requests' = requests + 1
      /\ UNCHANGED <<args, world>>
  BY DEF Emits, After
<1> DEFINE kept == Kept(page)
<1>3. /\ page.results \in Seq(Works)
      /\ page.next_cursor \in Cursor
      /\ page.next_cursor.form \in CursorForms(args.provider)
      /\ page.results = <<>> => page.next_cursor = NoCursor
  BY DEF PageFits
<1>4. Remaining \in Nat \ {0}
  BY <1>1, RequestOfScan
<1>5. /\ kept \in Seq(Works)
      /\ Len(kept) <= Remaining
      /\ kept = <<>> <=> page.results = <<>>
  BY <1>3, <1>4, KeptIsHead
<1> HIDE DEF kept
<1>6. /\ rows \in Seq(Works)
      /\ args.count \in Nat
      /\ state.emitted = Len(rows)
      /\ Len(rows) \in Nat
      /\ requests \in Nat /\ requests <= Len(rows)
  <2>1. args.count \in Nat
    BY <1>1, ArgsAssumption DEF TypeOK
  <2>2. rows \in Seq(Works) /\ requests \in Nat
    BY <1>1 DEF TypeOK
  <2> QED BY <2>1, <2>2 DEF BudgetInv, CountBudget
<1>7. /\ rows' \in Seq(Works)
      /\ Len(rows') = Len(rows) + Len(kept)
      /\ Len(kept) \in Nat
  BY <1>2, <1>5, <1>6 DEF kept
<1>8. TypeOK'
  <2>1. state' \in ScanState /\ state'.cursor.form \in CursorForms(args'.provider)
    BY <1>2, <1>3, <1>6, <1>7 DEF kept, ScanState
  <2>2. status' \in {"finished", "open"}
    BY <1>2
  <2> QED
    BY <1>1, <1>2, <1>7, <2>1, <2>2 DEF TypeOK, world
<1>9. CountBudget'
  <2>1. state'.emitted = Len(rows')
    BY <1>2, <1>6, <1>7 DEF kept
  <2>2. Len(rows') <= args'.count
    BY <1>2, <1>4, <1>5, <1>6, <1>7 DEF Remaining
  <2> QED BY <2>1, <2>2 DEF CountBudget
<1>10. /\ requests' <= Len(rows') + 1
       /\ status' = "open" => requests' <= Len(rows')
  <2>1. requests' = requests + 1
    BY <1>2
  <2>2. status' = "open" => kept # <<>>
    BY <1>2, <1>3, <1>5 DEF kept
  <2>3. kept # <<>> => Len(kept) >= 1
    BY <1>5, <1>7
  <2> QED BY <2>1, <2>2, <2>3, <1>6, <1>7
<1> QED
  BY <1>8, <1>9, <1>10 DEF BudgetInv, RequestBudget

\* The pages of a tick are of that kind.
LEMMA BudgetPage ==
  ASSUME BudgetInv, TickPage
  PROVE  BudgetInv'
<1>1. TypeOK /\ status = "open" /\ ~ Exhausted
  BY DEF BudgetInv, TickPage
<1>2. PICK page \in Pages : Emits(page)
  BY DEF TickPage, Emits
<1>3. PageFits(page)
  BY <1>1, PageType DEF PageFits
<1> QED BY <1>1, <1>2, <1>3, BudgetEmit

\* An error keeps the invariant: it brings no row and ends the scan.
LEMMA BudgetFail ==
  ASSUME BudgetInv, status = "open", status' \in {"clean_error", "raw_error"},
         state' \in {state, [state EXCEPT !.started = TRUE]},
         requests' = requests + 1, UNCHANGED <<args, rows, world>>
  PROVE  BudgetInv'
<1>1. /\ state' \in ScanState
      /\ state'.cursor = state.cursor
      /\ state'.emitted = state.emitted
  BY DEF BudgetInv, TypeOK, ScanState
<1>2. requests \in Nat /\ requests <= Len(rows) /\ rows \in Seq(Works)
  BY DEF BudgetInv, TypeOK
<1>3. TypeOK'
  BY <1>1, <1>2 DEF BudgetInv, TypeOK, world
<1>4. CountBudget' /\ RequestBudget'
  BY <1>1, <1>2 DEF BudgetInv, CountBudget, RequestBudget
<1> QED BY <1>3, <1>4 DEF BudgetInv

\* Every step keeps the invariant.
LEMMA BudgetStep == BudgetInv /\ [Next]_vars => BudgetInv'
<1> SUFFICES ASSUME BudgetInv, [Next]_vars PROVE BudgetInv'
  OBVIOUS
<1> USE DEF BudgetInv, CountBudget, RequestBudget
<1>1. CASE TickFinish
  BY <1>1 DEF TickFinish, TypeOK, world
<1>2. CASE TickPage
  BY <1>2, BudgetPage
<1>3. CASE SearchFails
  BY <1>3, BudgetFail DEF SearchFails
<1>4. CASE SearchCrashes
  BY <1>4, BudgetFail DEF SearchCrashes
<1>5. CASE EmitFails
  BY <1>5, BudgetFail DEF EmitFails
<1>6. CASE WorkAdded
  <2>1. PICK w \in Works \ (ToSet(corpus) \cup removed), i \in 1 .. Len(corpus) + 1 :
          /\ corpus' = InsertAt(corpus, i, w)
          /\ added' = added \cup {w}
    BY <1>6 DEF WorkAdded
  <2>2. corpus' \in Seq(Works)
    <3>1. /\ SubSeq(corpus, 1, i - 1) \in Seq(Works)
          /\ SubSeq(corpus, i, Len(corpus)) \in Seq(Works)
          /\ <<w>> \in Seq(Works)
      BY DEF TypeOK
    <3> QED BY <2>1, <3>1 DEF InsertAt
  <2> QED BY <1>6, <2>1, <2>2 DEF WorkAdded, TypeOK, scan
<1>7. CASE WorkRemoved
  <2>1. PICK i \in 1 .. Len(corpus) :
          /\ corpus' = RemoveAt(corpus, i)
          /\ removed' = removed \cup {corpus[i]}
    BY <1>7 DEF WorkRemoved
  <2>2. corpus' \in Seq(Works) /\ corpus[i] \in Works
    <3>1. /\ SubSeq(corpus, 1, i - 1) \in Seq(Works)
          /\ SubSeq(corpus, i + 1, Len(corpus)) \in Seq(Works)
          /\ corpus[i] \in Works
      BY DEF TypeOK
    <3> QED BY <2>1, <3>1 DEF RemoveAt
  <2> QED BY <1>7, <2>1, <2>2 DEF WorkRemoved, TypeOK, scan
<1>8. CASE UNCHANGED vars
  BY <1>8 DEF vars, scan, world, TypeOK
<1> QED
  BY <1>1, <1>2, <1>3, <1>4, <1>5, <1>6, <1>7, <1>8 DEF Next, Tick

\* The invariant holds in every reachable state.
THEOREM BudgetInvariant == Spec => []BudgetInv
  BY BudgetInit, BudgetStep, PTL DEF Spec

\* Type correctness, with the form of every provider's cursors.
THEOREM TypeCorrect == Spec => []TypeOK
<1>1. BudgetInv => TypeOK
  BY DEF BudgetInv
<1> QED BY <1>1, BudgetInvariant, PTL

\* No API can make a scan emit more than `count` rows, and the counter in
\* the scan state never disagrees with what was emitted.
THEOREM CountHonored == Spec => []CountBudget
<1>1. BudgetInv => CountBudget
  BY DEF BudgetInv
<1> QED BY <1>1, BudgetInvariant, PTL

\* No API can make a scan send more than one fruitless request.
THEOREM RequestsBounded == Spec => []RequestBudget
<1>1. BudgetInv => RequestBudget
  BY DEF BudgetInv
<1> QED BY <1>1, BudgetInvariant, PTL

-----------------------------------------------------------------------------
(* The scan goes on where its rows end.                                    *)

\* No API sends a blank or backward cursor.  Their pages may still be of any
\* size, stop early, or be unusable, and their result lists may change.
CursorsLeadOn == \A p \in ProviderNames : LeadsOn(Quirks[p])

\* Inductive: a scan in progress continues after its last row.
TrackInv ==
  /\ BudgetInv
  /\ CursorTracksRows

\* What a tick with a page does to the variables, and what the next tick
\* makes of it: the next request starts after the rows, and nothing more is
\* fetched only if the page has no cursor or fills `count`.
LEMMA TrackPage ==
  ASSUME CursorsLeadOn, TrackInv, TickPage
  PROVE  \E page \in Pages :
           /\ rows' = rows \o Kept(page)
           /\ Kept(page) \in Seq(Works)
           /\ Len(rows') = Len(rows) + Len(Kept(page))
           /\ Len(Kept(page)) <= Len(page.results)
           /\ \A i \in 1 .. Len(Kept(page)) : Kept(page)[i] = page.results[i]
           /\ Len(rows') < args.count => Len(Kept(page)) = Len(page.results)
           /\ Kept(page) = <<>> <=> page.results = <<>>
           /\ status' = IF Kept(page) = <<>> /\ page.next_cursor = NoCursor
                        THEN "finished" ELSE "open"
           /\ Exhausted' <=> page.next_cursor = NoCursor \/ Len(rows') >= args.count
           /\ ~ Exhausted' => TheRequest'.at = Len(rows')
<1>1. /\ TypeOK /\ TypeOK' /\ ~ Exhausted
      /\ state.emitted = Len(rows) /\ state'.emitted = Len(rows')
  <2>1. BudgetInv'
    BY BudgetPage DEF TrackInv
  <2> QED BY <2>1 DEF TrackInv, BudgetInv, CountBudget, TickPage, After
<1>2. PICK page \in Pages :
        /\ rows' = rows \o Kept(page)
        /\ state' = After(page)
        /\ status' = IF Kept(page) = <<>> /\ page.next_cursor = NoCursor
                     THEN "finished" ELSE "open"
  BY DEF TickPage
<1>3. args' = args /\ corpus' = corpus
  BY DEF TickPage, world
<1> DEFINE kept == Kept(page)
<1>4. /\ rows \in Seq(Works) /\ rows' \in Seq(Works)
      /\ args.count \in Nat
      /\ page.results \in Seq(Works)
      /\ Remaining \in Nat \ {0}
      /\ Remaining = args.count - Len(rows)
  BY <1>1, PageType, RequestOfScan, ArgsAssumption DEF TypeOK, Remaining
<1>5. /\ kept \in Seq(Works)
      /\ Len(kept) <= Len(page.results)
      /\ \A i \in 1 .. Len(kept) : kept[i] = page.results[i]
      /\ kept = <<>> <=> page.results = <<>>
      /\ Len(kept) = Remaining \/ Len(kept) = Len(page.results)
  BY <1>4, KeptIsHead
<1>6. /\ state'.cursor = page.next_cursor
      /\ state'.started = TRUE
      /\ state'.done = (page.next_cursor = NoCursor
                          \/ state.emitted + Len(kept) >= args.count)
  BY <1>2 DEF After
<1> HIDE DEF kept
<1>7. Len(rows') = Len(rows) + Len(kept)
  BY <1>2, <1>4, <1>5 DEF kept
<1>8. Len(rows') < args.count => Len(kept) = Len(page.results)
  BY <1>4, <1>5, <1>7
<1>9. Exhausted' <=> page.next_cursor = NoCursor \/ Len(rows') >= args.count
  BY <1>1, <1>3, <1>6, <1>7 DEF Exhausted
<1>10. ASSUME ~ Exhausted'
       PROVE  TheRequest'.at = Len(rows')
  <2>1. page.next_cursor # NoCursor /\ Len(kept) = Len(page.results)
    <3>1. ~ (Len(rows') >= args.count)
      BY <1>9, <1>10
    <3>2. Len(rows') < args.count
      BY <1>4, <3>1
    <3> QED BY <1>8, <1>9, <1>10, <3>2
  <2>2. PICK answer \in Answers(TheQuirks, corpus, TheRequest) :
          page = PageOf(args.provider, TheRequest, answer)
    BY <1>1, PageFromAnswer
  <2>3. LeadsOn(TheQuirks)
    BY <1>1, PageFromAnswer DEF CursorsLeadOn, TheQuirks
  <2>4. TheRequest.at = Len(rows)
    BY <1>1 DEF TrackInv, CursorTracksRows, TickPage
  <2>5. Request(args.provider, WantedPage', page.next_cursor).at
          = TheRequest.at + Len(page.results)
    <3>1. /\ corpus \in Seq(Works)
          /\ args.provider \in ProviderNames
          /\ TheRequest.at \in Nat
          /\ TheRequest.want \in Nat \ {0}
      BY <1>1, PageFromAnswer
    <3>2. Continues(args.provider, page, TheRequest.at + Len(page.results))
      BY <3>1, <2>2, <2>3, CursorOfPage
    <3> QED BY <2>1, <3>2 DEF Continues
  <2>6. TheRequest' = Request(args.provider, WantedPage', page.next_cursor)
    BY <1>3, <1>6 DEF TheRequest
  <2> QED BY <1>7, <2>1, <2>4, <2>5, <2>6
<1> QED
  BY <1>2, <1>5, <1>7, <1>8, <1>9, <1>10 DEF kept

\* A fresh scan starts at the beginning.
LEMMA TrackInit == Init => TrackInv
<1> SUFFICES ASSUME Init PROVE TrackInv
  OBVIOUS
<1>1. TheRequest.at = 0
  BY FirstRequest DEF TheRequest, Init, InitialState
<1> QED BY <1>1, BudgetInit DEF TrackInv, CursorTracksRows, Init

\* Every step keeps the scan on track, the changes of the list included.
LEMMA TrackStep ==
  ASSUME CursorsLeadOn
  PROVE  TrackInv /\ [Next]_vars => TrackInv'
<1> SUFFICES ASSUME TrackInv, [Next]_vars PROVE TrackInv'
  OBVIOUS
<1>1. BudgetInv'
  BY BudgetStep DEF TrackInv
<1>2. CASE TickPage
  <2>1. ~ Exhausted' => TheRequest'.at = Len(rows')
    BY <1>2, TrackPage
  <2> QED BY <1>1, <2>1 DEF TrackInv, CursorTracksRows
<1>3. CASE TickFinish \/ SearchFails \/ SearchCrashes \/ EmitFails
  <2>1. status' # "open"
    BY <1>3 DEF TickFinish, SearchFails, SearchCrashes, EmitFails
  <2> QED BY <1>1, <2>1 DEF TrackInv, CursorTracksRows
<1>4. CASE WorkAdded \/ WorkRemoved \/ UNCHANGED vars
  <2>1. UNCHANGED <<args, state, rows, status>>
    BY <1>4 DEF WorkAdded, WorkRemoved, vars, scan
  <2> QED
    BY <1>1, <2>1
       DEF TrackInv, CursorTracksRows, Exhausted, TheRequest, WantedPage, Remaining
<1> QED BY <1>2, <1>3, <1>4 DEF Next, Tick

\* Against every API whose cursors lead on, even while its result list
\* changes, the next request of a scan starts after the rows it has emitted.
THEOREM NextPageContinues ==
  ASSUME CursorsLeadOn
  PROVE  Spec => []CursorTracksRows
<1>1. TrackInv => CursorTracksRows
  BY DEF TrackInv
<1> QED BY <1>1, TrackInit, TrackStep, PTL DEF Spec

-----------------------------------------------------------------------------
(* Order: rows are a prefix of the result list.                            *)

\* No result list changes.
ListsStand == \A p \in ProviderNames : "drift" \notin Quirks[p]

\* Then the works stay where they are.
LEMMA NoDrift ==
  ASSUME ListsStand, TypeOK
  PROVE  ~ WorkAdded /\ ~ WorkRemoved
BY DEF ListsStand, WorkAdded, WorkRemoved, Drifts, TheQuirks, TypeOK

\* Inductive: InOrderPrefix needs to know where the next page starts.
OrderInv ==
  /\ TrackInv
  /\ Len(rows) <= Len(corpus)
  /\ \A i \in 1 .. Len(rows) : rows[i] = corpus[i]

\* A page keeps the order: it starts where the rows end.
LEMMA OrderPage ==
  ASSUME CursorsLeadOn, OrderInv, TickPage
  PROVE  OrderInv'
<1>1. TrackInv /\ TrackInv' /\ TypeOK /\ ~ Exhausted
  BY TrackStep DEF OrderInv, TrackInv, BudgetInv, TickPage, Next, Tick
<1>2. PICK page \in Pages :
        /\ rows' = rows \o Kept(page)
        /\ Kept(page) \in Seq(Works)
        /\ Len(rows') = Len(rows) + Len(Kept(page))
        /\ Len(Kept(page)) <= Len(page.results)
        /\ \A i \in 1 .. Len(Kept(page)) : Kept(page)[i] = page.results[i]
  BY <1>1, TrackPage
<1>3. TheRequest.at = Len(rows) /\ TheRequest.at <= Len(corpus)
  BY <1>1 DEF OrderInv, TrackInv, CursorTracksRows, TickPage
<1>4. /\ page.results \in Seq(Works)
      /\ Len(rows) + Len(page.results) <= Len(corpus)
      /\ \A i \in 1 .. Len(page.results) : page.results[i] = corpus[Len(rows) + i]
  BY <1>1, <1>3, PageType
<1> DEFINE kept == Kept(page)
<1>5. /\ rows' = rows \o kept /\ kept \in Seq(Works)
      /\ Len(rows') = Len(rows) + Len(kept)
      /\ Len(kept) <= Len(page.results)
      /\ \A i \in 1 .. Len(kept) : kept[i] = page.results[i]
      /\ rows \in Seq(Works) /\ corpus \in Seq(Works) /\ corpus' = corpus
  BY <1>1, <1>2 DEF TypeOK, TickPage, world
<1> HIDE DEF kept
<1>6. Len(rows') <= Len(corpus')
  BY <1>4, <1>5
<1>7. \A i \in 1 .. Len(rows') : rows'[i] = corpus'[i]
  <2> SUFFICES ASSUME NEW i \in 1 .. Len(rows') PROVE rows'[i] = corpus[i]
    BY <1>5
  <2>1. CASE i <= Len(rows)
    BY <2>1, <1>5 DEF OrderInv
  <2>2. CASE i > Len(rows)
    <3> DEFINE j == i - Len(rows)
    <3>1. j \in 1 .. Len(kept) /\ j \in 1 .. Len(page.results) /\ i = Len(rows) + j
      BY <2>2, <1>4, <1>5
    <3>2. rows'[i] = kept[j]
      BY <3>1, <1>5
    <3>3. kept[j] = page.results[j] /\ page.results[j] = corpus[Len(rows) + j]
      BY <3>1, <1>4, <1>5
    <3> QED BY <3>1, <3>2, <3>3
  <2> QED BY <2>1, <2>2, <1>5
<1> QED BY <1>1, <1>6, <1>7 DEF OrderInv

\* A fresh scan is in order.
LEMMA OrderInit == Init => OrderInv
<1> SUFFICES ASSUME Init PROVE OrderInv
  OBVIOUS
<1>1. TrackInv /\ corpus \in Seq(Works)
  BY TrackInit DEF TrackInv, BudgetInv, TypeOK
<1> QED BY <1>1 DEF OrderInv, Init

\* Every step keeps the order.
LEMMA OrderStep ==
  ASSUME CursorsLeadOn, ListsStand
  PROVE  OrderInv /\ [Next]_vars => OrderInv'
<1> SUFFICES ASSUME OrderInv, [Next]_vars PROVE OrderInv'
  OBVIOUS
<1>1. TrackInv' /\ TypeOK
  BY TrackStep DEF OrderInv, TrackInv, BudgetInv
<1>2. CASE TickPage
  BY <1>2, OrderPage
<1>3. CASE TickFinish \/ SearchFails \/ SearchCrashes \/ EmitFails \/ UNCHANGED vars
  <2>1. rows' = rows /\ corpus' = corpus
    BY <1>3
       DEF TickFinish, SearchFails, SearchCrashes, EmitFails, vars, scan, world
  <2> QED BY <1>1, <2>1 DEF OrderInv
<1> QED BY <1>1, <1>2, <1>3, NoDrift DEF Next, Tick

\* Against every API whose cursors lead on and whose list stands still,
\* whatever the sizes of its pages, a scan emits a prefix of the result list.
THEOREM RowsInOrder ==
  ASSUME CursorsLeadOn, ListsStand
  PROVE  Spec => []InOrderPrefix
<1>1. Spec => []OrderInv
  BY OrderInit, OrderStep, PTL DEF Spec
<1>2. OrderInv => InOrderPrefix
  <2> SUFFICES ASSUME OrderInv PROVE InOrderPrefix
    OBVIOUS
  <2>1. rows \in Seq(Works) /\ corpus \in Seq(Works)
    BY DEF OrderInv, TrackInv, BudgetInv, TypeOK
  <2>2. /\ Len(rows) <= Len(corpus)
        /\ \A i \in 1 .. Len(rows) : rows[i] = corpus[i]
    BY DEF OrderInv
  <2>3. SubSeq(rows, 1, Len(rows)) = SubSeq(corpus, 1, Len(rows))
    BY <2>1, <2>2
  <2> QED BY <2>2, <2>3 DEF InOrderPrefix, IsPrefix
<1> QED BY <1>1, <1>2, PTL

-----------------------------------------------------------------------------
(* Completeness: the rows end where `count` or the result list ends.       *)

\* APIs that in addition send an empty page or withhold the cursor only at
\* the end of the list, and an arXiv that returns the slice it is asked for.
CursorsEndWithList == \A p \in ProviderNames : EndsWithList(p, Quirks[p])

\* APIs that keep their documentation.
Documented == CursorsEndWithList /\ ListsStand

Whole == Len(rows) = args.count \/ Len(rows) = Len(corpus)

\* Inductive: a scan has nothing more to fetch only when it is whole.
CompleteInv ==
  /\ OrderInv
  /\ status = "finished" \/ (status = "open" /\ Exhausted) => Whole

\* Cursors that end with the list lead on.
LEMMA EndingCursorsLeadOn ==
  ASSUME CursorsEndWithList
  PROVE  CursorsLeadOn
BY DEF CursorsEndWithList, CursorsLeadOn, EndsWithList

\* A page without a next cursor reaches the end of the list.
LEMMA LastPage ==
  ASSUME TypeOK, ~ Exhausted, CursorsEndWithList, NEW page \in Pages,
         TheRequest.at <= Len(corpus), page.next_cursor = NoCursor
  PROVE  TheRequest.at + Len(page.results) = Len(corpus)
<1>1. EndsWithList(args.provider, TheQuirks)
  BY PageFromAnswer DEF CursorsEndWithList, TheQuirks
<1>2. PICK answer \in Answers(TheQuirks, corpus, TheRequest) :
        page = PageOf(args.provider, TheRequest, answer)
  BY PageFromAnswer
<1> QED BY <1>1, <1>2, PageFromAnswer, LastPageOfList DEF ReachesEnd

\* A page after which nothing remains to be fetched makes the scan whole.
LEMMA CompletePage ==
  ASSUME Documented, CompleteInv, TickPage
  PROVE  CompleteInv'
<1>1. CursorsLeadOn /\ CursorsEndWithList
  BY EndingCursorsLeadOn DEF Documented
<1>2. OrderInv' /\ OrderInv /\ TrackInv /\ TypeOK /\ ~ Exhausted
  BY <1>1, OrderPage DEF CompleteInv, OrderInv, TrackInv, BudgetInv, TickPage
<1>3. PICK page \in Pages :
        /\ Len(rows') = Len(rows) + Len(Kept(page))
        /\ Len(rows') < args.count => Len(Kept(page)) = Len(page.results)
        /\ status' = IF Kept(page) = <<>> /\ page.next_cursor = NoCursor
                     THEN "finished" ELSE "open"
        /\ Exhausted' <=> page.next_cursor = NoCursor \/ Len(rows') >= args.count
  BY <1>1, <1>2, TrackPage
<1>4. TheRequest.at = Len(rows) /\ TheRequest.at <= Len(corpus)
  BY <1>2 DEF OrderInv, TrackInv, CursorTracksRows, TickPage
<1>5. /\ Len(rows') <= args.count
      /\ Len(rows') \in Nat
      /\ args.count \in Nat
      /\ args' = args /\ corpus' = corpus
  <2>1. rows' \in Seq(Works) /\ args.count \in Counts
    BY <1>2 DEF OrderInv, TrackInv, BudgetInv, TypeOK
  <2>2. Len(rows') <= args'.count
    BY <1>2 DEF OrderInv, TrackInv, BudgetInv, CountBudget
  <2>3. args' = args /\ corpus' = corpus
    BY DEF TickPage, world
  <2>4. Len(rows') \in Nat
    BY <2>1
  <2>5. args.count \in Nat
    BY <2>1, ArgsAssumption
  <2> QED BY <2>2, <2>3, <2>4, <2>5
<1>6. ASSUME page.next_cursor = NoCursor, Len(rows') # args.count
      PROVE  Whole'
  <2>1. Len(rows) + Len(page.results) = Len(corpus)
    BY <1>1, <1>2, <1>4, <1>6, LastPage
  <2>2. Len(rows') < args.count
    BY <1>5, <1>6
  <2> QED BY <1>3, <1>5, <2>1, <2>2 DEF Whole
<1>7. status' = "finished" \/ Exhausted' => Whole'
  <2>1. Len(rows') >= args.count => Len(rows') = args.count
    BY <1>5
  <2> QED BY <1>3, <1>5, <1>6, <2>1 DEF Whole
<1> QED BY <1>2, <1>7 DEF CompleteInv

\* A fresh scan has something to fetch: `count` is at least 1.
LEMMA CompleteInit == Init => CompleteInv
<1> SUFFICES ASSUME Init PROVE CompleteInv
  OBVIOUS
<1>1. args.count \in Nat \ {0}
  BY ArgsAssumption DEF Init
<1>2. ~ Exhausted
  BY <1>1 DEF Exhausted, Init, InitialState
<1> QED BY <1>2, OrderInit DEF CompleteInv, Init

\* Every step keeps the invariant.
LEMMA CompleteStep ==
  ASSUME Documented
  PROVE  CompleteInv /\ [Next]_vars => CompleteInv'
<1> SUFFICES ASSUME CompleteInv, [Next]_vars PROVE CompleteInv'
  OBVIOUS
<1>1. OrderInv' /\ TypeOK
  BY OrderStep, EndingCursorsLeadOn
     DEF Documented, CompleteInv, OrderInv, TrackInv, BudgetInv
<1>2. CASE TickFinish
  BY <1>1, <1>2 DEF TickFinish, CompleteInv, Whole, world
<1>3. CASE TickPage
  BY <1>3, CompletePage
<1>4. CASE SearchFails \/ SearchCrashes \/ EmitFails
  BY <1>1, <1>4 DEF SearchFails, SearchCrashes, EmitFails, CompleteInv
<1>5. CASE UNCHANGED vars
  BY <1>1, <1>5 DEF vars, scan, world, CompleteInv, Exhausted, Whole
<1> QED BY <1>1, <1>2, <1>3, <1>4, <1>5, NoDrift DEF Documented, Next, Tick

\* Whole scans have delivered what is promised.
LEMMA WholeIsPromised ==
  ASSUME OrderInv
  PROVE  /\ Promise!Promised \in Nat
         /\ Len(rows) <= Promise!Promised
         /\ Whole => Len(rows) = Promise!Promised
<1>1. /\ args.count \in Int /\ args.count \in Nat
      /\ Len(corpus) \in Int /\ Len(corpus) \in Nat
      /\ Len(rows) \in Nat
  <2>1. args.count \in Nat
    BY ArgsAssumption DEF OrderInv, TrackInv, BudgetInv, TypeOK
  <2>2. corpus \in Seq(Works) /\ rows \in Seq(Works)
    BY DEF OrderInv, TrackInv, BudgetInv, TypeOK
  <2> QED BY <2>1, <2>2
<1>2. Len(rows) <= args.count /\ Len(rows) <= Len(corpus)
  BY DEF OrderInv, TrackInv, BudgetInv, CountBudget
<1> DEFINE m == Min({args.count, Len(corpus)})
<1>3. m \in {args.count, Len(corpus)} /\ m <= args.count /\ m <= Len(corpus)
  BY <1>1, MinOfTwo
<1>4. Promise!Promised = m
  BY DEF Promise!Promised, Promise!Min, Min
<1> HIDE DEF m
<1> QED BY <1>1, <1>2, <1>3, <1>4 DEF Whole

\* Against a documented API a scan that finishes has emitted min(count,
\* length) rows.
THEOREM FinishedIsComplete ==
  ASSUME Documented
  PROVE  Spec => []CompleteOnFinish
<1>1. Spec => []CompleteInv
  BY CompleteInit, CompleteStep, PTL DEF Spec
<1>2. CompleteInv => CompleteOnFinish
  <2>1. Promise!Promised = Min({args.count, Len(corpus)})
    BY DEF Promise!Promised, Promise!Min, Min
  <2> QED BY <2>1, WholeIsPromised DEF CompleteInv, CompleteOnFinish
<1> QED BY <1>1, <1>2, PTL

-----------------------------------------------------------------------------
(* Refinement of BoundedStream.                                            *)

\* A fresh scan is a fresh stream.
LEMMA PromiseInit == Init => Promise!Init
<1> SUFFICES ASSUME Init PROVE Promise!Init
  OBVIOUS
<1>1. args.count \in Counts /\ corpus \in Corpora /\ rows = <<>> /\ status = "open"
  BY DEF Init
<1> QED BY <1>1 DEF Promise!Init

\* Every step of a scan is a step of the stream, or invisible in it.
LEMMA PromiseStep ==
  ASSUME CompleteInv, CompleteInv', [Next]_vars, Documented
  PROVE  [Promise!Next]_(Promise!vars)
<1> USE DEF Promise!vars
<1>1. /\ Promise!Promised \in Nat
      /\ Len(rows) <= Promise!Promised
      /\ Whole => Len(rows) = Promise!Promised
  BY WholeIsPromised DEF CompleteInv
<1>2. CASE TickFinish
  <2>1. Len(rows) = Promise!Promised
    BY <1>1, <1>2 DEF TickFinish, CompleteInv
  <2>2. /\ status = "open" /\ status' = "finished"
        /\ UNCHANGED <<corpus, args, rows>>
    BY <1>2 DEF TickFinish, world
  <2> QED BY <2>1, <2>2 DEF Promise!Next, Promise!Finish
<1>3. CASE TickPage
  <2>1. PICK page \in Pages :
          /\ rows' = rows \o Kept(page)
          /\ status' = IF Kept(page) = <<>> /\ page.next_cursor = NoCursor
                       THEN "finished" ELSE "open"
    BY <1>3 DEF TickPage, After
  <2>2. /\ status = "open" /\ ~ Exhausted
        /\ UNCHANGED <<corpus, args>>
        /\ TypeOK
    BY <1>3 DEF TickPage, After, world, CompleteInv, OrderInv, TrackInv, BudgetInv
  <2>3. /\ Kept(page) \in Seq(Works)
        /\ rows \in Seq(Works)
        /\ Kept(page) = <<>> => page.next_cursor = NoCursor
    <3>1. /\ page.results \in Seq(Works)
          /\ page.results = <<>> => page.next_cursor = NoCursor
          /\ Remaining \in Nat \ {0}
      BY <2>2, PageType, RequestOfScan
    <3> QED BY <3>1, <2>2, KeptIsHead DEF TypeOK
  <2>4. CASE Kept(page) = <<>>
    <3>1. rows' = rows /\ status' = "finished"
      BY <2>1, <2>3, <2>4
    <3>2. Whole
      <4>1. Whole'
        BY <3>1 DEF CompleteInv
      <4> QED BY <4>1, <3>1, <2>2 DEF Whole
    <3> QED BY <1>1, <2>2, <3>1, <3>2 DEF Promise!Next, Promise!Finish
  <2>5. CASE Kept(page) # <<>>
    <3>1. status' = "open" /\ Len(rows') >= Len(rows) + 1 /\ Len(rows') \in Nat
      BY <2>1, <2>3, <2>5
    <3>2. Len(rows') <= Promise!Promised
      <4>1. (Len(rows) <= Promise!Promised)'
        BY WholeIsPromised, PTL DEF CompleteInv
      <4>2. Promise!Promised' = Promise!Promised
        BY <2>2 DEF Promise!Promised
      <4> QED BY <4>1, <4>2
    <3>3. rows' = SubSeq(corpus, 1, Len(rows'))
      <4>1. /\ rows' \in Seq(Works) /\ corpus \in Seq(Works)
            /\ Len(rows') <= Len(corpus)
            /\ \A i \in 1 .. Len(rows') : rows'[i] = corpus[i]
        BY <2>2 DEF CompleteInv, OrderInv, TrackInv, BudgetInv, TypeOK
      <4> QED BY <4>1
    <3>4. Len(rows') \in Len(rows) + 1 .. Promise!Promised
      <4>1. Len(rows) \in Nat
        BY <2>3
      <4> QED BY ONLY <4>1, <1>1, <3>1, <3>2
    <3>5. \E n \in Len(rows) + 1 .. Promise!Promised : rows' = SubSeq(corpus, 1, n)
      BY <3>3, <3>4
    <3>6. Promise!Deliver
      BY <2>2, <3>1, <3>5 DEF Promise!Deliver
    <3> QED BY <3>6 DEF Promise!Next
  <2> QED BY <2>4, <2>5
<1>4. CASE SearchFails \/ SearchCrashes \/ EmitFails
  <2>1. /\ status = "open" /\ status' \in {"clean_error", "raw_error"}
        /\ UNCHANGED <<corpus, args, rows>>
    BY <1>4 DEF SearchFails, SearchCrashes, EmitFails, world
  <2> QED BY <2>1 DEF Promise!Next, Promise!Fail
<1>5. CASE UNCHANGED vars
  BY <1>5 DEF vars, scan, world
<1> QED
  BY <1>2, <1>3, <1>4, <1>5, NoDrift
     DEF Documented, CompleteInv, OrderInv, TrackInv, BudgetInv, Next, Tick

\* Seen from DuckDB, every scan of a documented API is a bounded stream of
\* its result list: the safety part of KeepsPromise.
THEOREM ImplementsPromise ==
  ASSUME Documented
  PROVE  Spec => Promise!Spec
<1>1. Spec => []CompleteInv
  BY CompleteInit, CompleteStep, PTL DEF Spec
<1>2. CompleteInv /\ CompleteInv' /\ [Next]_vars => [Promise!Next]_(Promise!vars)
  BY PromiseStep
<1> QED BY <1>1, <1>2, PromiseInit, PTL DEF Spec, Promise!Spec

=============================================================================
