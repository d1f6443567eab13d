------------------------- MODULE ProviderApi_proofs -------------------------
(***************************************************************************)
(* What every page has that a provider makes of an answer, for all         *)
(* requests, result lists and quirks.  The proofs about one scan and about *)
(* a worker with many rest on these lemmas.                                *)
(***************************************************************************)
EXTENDS ProviderApi, TLAPS

-----------------------------------------------------------------------------
(* The two-element minimum and maximum of the code.                        *)

\* min(a, b) is one of the two and at most both.
LEMMA MinOfTwo ==
  ASSUME NEW a \in Int, NEW b \in Int
  PROVE  /\ Min({a, b}) \in {a, b}
         /\ Min({a, b}) <= a
         /\ Min({a, b}) <= b
<1>1. \E x \in {a, b} : \A y \in {a, b} : x =< y
  <2>1. CASE a <= b BY <2>1
  <2>2. CASE ~(a <= b) BY <2>2
  <2> QED BY <2>1, <2>2
<1>2. Min({a, b}) \in {a, b} /\ \A y \in {a, b} : Min({a, b}) =< y
  BY <1>1 DEF Min
<1> QED BY <1>2

\* max(a, b) is one of the two and at least both.
LEMMA MaxOfTwo ==
  ASSUME NEW a \in Int, NEW b \in Int
  PROVE  /\ Max({a, b}) \in {a, b}
         /\ Max({a, b}) >= a
         /\ Max({a, b}) >= b
<1>1. \E x \in {a, b} : \A y \in {a, b} : x >= y
  <2>1. CASE a >= b BY <2>1
  <2>2. CASE ~(a >= b) BY <2>2
  <2> QED BY <2>1, <2>2
<1>2. Max({a, b}) \in {a, b} /\ \A y \in {a, b} : Max({a, b}) >= y
  BY <1>1 DEF Max
<1> QED BY <1>2

-----------------------------------------------------------------------------
(* Requests.                                                               *)

\* The clamped page size is positive for every provider.
LEMMA PerPageType ==
  ASSUME NEW p \in ProviderNames, NEW count \in Nat
  PROVE  PerPage(p, count) \in Nat \ {0}
<1>1. PageLimit[p] \in Nat
  BY PageLimitAssumption
<1> DEFINE m == Min({count, PageLimit[p]})
<1>2. m \in Nat
  BY <1>1, MinOfTwo
<1>3. 1 \in Int /\ m \in Int
  BY <1>2
<1> HIDE DEF m
<1>4. Max({1, m}) \in {1, m} /\ Max({1, m}) >= 1
  BY <1>3, MaxOfTwo
<1>5. PerPage(p, count) = Max({1, m})
  BY DEF PerPage, m
<1> QED
  BY <1>2, <1>4, <1>5

\* Every request asks for a positive number of results at a position.
LEMMA RequestType ==
  ASSUME NEW p \in ProviderNames, NEW count \in Nat, NEW c \in Cursor
  PROVE  /\ Request(p, count, c).at \in Nat
         /\ Request(p, count, c).want \in Nat \ {0}
<1>1. "arxiv" \in ProviderNames
  BY DEF ProviderNames
<1>2. CursorParam(c).at \in Nat
  BY DEF CursorParam, Star, Cursor
<1>3. ParseOffset(c) \in Nat
  <2>1. 0 \in Int /\ c.at \in Nat /\ c.at \in Int
    BY DEF Cursor
  <2>2. Max({0, c.at}) \in {0, c.at}
    BY <2>1, MaxOfTwo
  <2> QED BY <2>1, <2>2 DEF ParseOffset
<1> QED
  BY <1>1, <1>2, <1>3, PerPageType DEF Request, ArxivRequest, CursorRequest

\* Where a request starts depends on the provider and the cursor only.
LEMMA RequestPosition ==
  ASSUME NEW p, NEW count, NEW c
  PROVE  Request(p, count, c).at =
           IF p = "arxiv" THEN ParseOffset(c) ELSE CursorParam(c).at
BY DEF Request, ArxivRequest, CursorRequest

\* Without a cursor a search starts at the beginning.
LEMMA FirstRequest ==
  ASSUME NEW p, NEW count
  PROVE  Request(p, count, NoCursor).at = 0
<1>1. ParseOffset(NoCursor) = 0 /\ CursorParam(NoCursor).at = 0
  BY DEF ParseOffset, CursorParam, NoCursor, Star
<1> QED BY <1>1, RequestPosition

-----------------------------------------------------------------------------
(* Answers and pages.                                                      *)

\* The elements of a slice of a sequence.
LEMMA SliceElements ==
  ASSUME NEW S, NEW s \in Seq(S), NEW a \in Nat, NEW k \in Nat, a + k <= Len(s)
  PROVE  /\ SubSeq(s, a + 1, a + k) \in Seq(S)
         /\ Len(SubSeq(s, a + 1, a + k)) = k
         /\ \A i \in 1 .. k : SubSeq(s, a + 1, a + k)[i] = s[a + i]
OBVIOUS

\* The cursors an answer carries are cursors, and none of them is decimal.
LEMMA NextCursorType ==
  ASSUME NEW quirks, NEW total \in Nat, NEW end \in Nat,
         NEW c \in NextCursors(quirks, total, end)
  PROVE  c \in Cursor /\ c.form \in {"none", "blank", "token"}
<1>1. c \in {Token(end)} \cup {NoCursor} \cup {Blank} \cup {Token(n) : n \in 0 .. end}
  BY DEF NextCursors
<1> QED
  BY <1>1 DEF Token, NoCursor, Blank, Cursor, Forms

\* An answer is a slice of the result list, possibly empty, that stays
\* inside the list, with one of the cursors an API may send along.
LEMMA AnswerIsSlice ==
  ASSUME NEW S, NEW list \in Seq(S), NEW quirks, NEW request,
         request.at \in Nat, request.want \in Nat \ {0},
         NEW answer \in Answers(quirks, list, request)
  PROVE  \E k \in Nat :
           /\ request.at <= Len(list) => request.at + k <= Len(list)
           /\ request.at > Len(list) => k = 0
           /\ answer.items = SubSeq(list, request.at + 1, request.at + k)
           /\ answer.next \in NextCursors(quirks, Len(list), request.at + k)
           /\ k \in AnswerSizes(quirks, Max({0, Len(list) - request.at}), request.want)
<1> DEFINE left == Max({0, Len(list) - request.at})
<1>1. PICK k \in AnswerSizes(quirks, left, request.want) :
        \E c \in NextCursors(quirks, Len(list), request.at + k) :
          answer = [items |-> SubSeq(list, request.at + 1, request.at + k), next |-> c]
  BY DEF Answers
<1>2. /\ left \in Nat
      /\ request.at <= Len(list) => left = Len(list) - request.at
      /\ request.at > Len(list) => left = 0
  <2>1. 0 \in Int /\ Len(list) - request.at \in Int
    OBVIOUS
  <2>2. left \in {0, Len(list) - request.at} /\ left >= 0 /\ left >= Len(list) - request.at
    BY <2>1, MaxOfTwo
  <2> HIDE DEF left
  <2> QED BY <2>1, <2>2
<1> HIDE DEF left
<1>3. k \in 0 .. left
  <2> DEFINE full == Min({left, request.want})
  <2>0. left \in Int /\ request.want \in Int
    BY <1>2
  <2>1. full \in {left, request.want} /\ full <= left
    BY <2>0, MinOfTwo
  <2>2. k \in {full} \cup 1 .. full \cup full .. left \cup {0}
    BY <1>1 DEF AnswerSizes
  <2> HIDE DEF full
  <2> QED BY <2>1, <2>2, <1>2
<1>4. /\ k \in Nat
      /\ request.at <= Len(list) => request.at + k <= Len(list)
      /\ request.at > Len(list) => k = 0
  BY <1>2, <1>3
<1>5. /\ answer.items = SubSeq(list, request.at + 1, request.at + k)
      /\ answer.next \in NextCursors(quirks, Len(list), request.at + k)
  <2>1. PICK c \in NextCursors(quirks, Len(list), request.at + k) :
          answer = [items |-> SubSeq(list, request.at + 1, request.at + k), next |-> c]
    BY <1>1
  <2> QED BY <2>1
<1>6. k \in AnswerSizes(quirks, Max({0, Len(list) - request.at}), request.want)
  BY <1>1 DEF left
<1> QED BY <1>4, <1>5, <1>6

\* APIs whose cursors lead on: pages may still be of any size, stop early,
\* or be unusable.
LeadsOn(quirks) == quirks \cap {"blank", "loop"} = {}

\* APIs that in addition send an empty page or withhold the cursor only at
\* the end of the list, and an arXiv that returns the slice it is asked for.
EndsWithList(p, quirks) ==
  /\ LeadsOn(quirks)
  /\ quirks \cap {"stall", "cut"} = {}
  /\ p = "arxiv" => quirks \cap {"short", "over"} = {}

\* How a provider passes an answer on.
LEMMA PageOfAnswer ==
  ASSUME NEW p \in ProviderNames, NEW request, NEW answer
  PROVE  LET page == PageOf(p, request, answer)
         IN  /\ page.results = answer.items
             /\ p = "arxiv" =>
                  page.next_cursor = IF Len(answer.items) = request.want
                                     THEN Offset(request.at + request.want) ELSE NoCursor
             /\ p # "arxiv" =>
                  page.next_cursor = IF answer.items = <<>> THEN NoCursor ELSE answer.next
<1> DEFINE page == PageOf(p, request, answer)
<1>1. CASE p = "arxiv"
  <2>1. page = ArxivPage(request, answer)
    BY <1>1 DEF PageOf
  <2> QED BY <1>1, <2>1 DEF ArxivPage
<1>2. CASE p # "arxiv"
  <2>1. page = OpenAlexPage(answer)
    BY <1>2 DEF PageOf, OpenAlexPage, CrossrefPage, ProviderNames, CursorProviders
  <2> QED BY <1>2, <2>1 DEF OpenAlexPage
<1> QED BY <1>1, <1>2

\* What every page guarantees, whatever the quirks: it is a slice of the
\* list, its cursor is one its provider makes, and an empty page has none.
LEMMA PageOfList ==
  ASSUME NEW S, NEW list \in Seq(S), NEW p \in ProviderNames, NEW quirks, NEW request,
         request.at \in Nat, request.want \in Nat \ {0},
         NEW answer \in Answers(quirks, list, request),
         NEW page, page = PageOf(p, request, answer)
  PROVE  /\ page.results \in Seq(S)
         /\ request.at > Len(list) => page.results = <<>>
         /\ request.at <= Len(list) => request.at + Len(page.results) <= Len(list)
         /\ \A i \in 1 .. Len(page.results) : page.results[i] = list[request.at + i]
         /\ page.next_cursor \in Cursor
         /\ page.next_cursor.form \in
              IF p = "arxiv" THEN {"none", "decimal"} ELSE {"none", "blank", "token"}
         /\ page.results = <<>> => page.next_cursor = NoCursor
<1>1. /\ page.results = answer.items
      /\ p = "arxiv" =>
           page.next_cursor = IF Len(answer.items) = request.want
                              THEN Offset(request.at + request.want) ELSE NoCursor
      /\ p # "arxiv" =>
           page.next_cursor = IF answer.items = <<>> THEN NoCursor ELSE answer.next
  BY PageOfAnswer
<1> DEFINE a == request.at
<1>2. a \in Nat
  OBVIOUS
<1>3. PICK k \in Nat :
        /\ a <= Len(list) => a + k <= Len(list)
        /\ a > Len(list) => k = 0
        /\ answer.items = SubSeq(list, a + 1, a + k)
        /\ answer.next \in NextCursors(quirks, Len(list), a + k)
  BY AnswerIsSlice
<1> HIDE DEF a
<1>4. /\ answer.items \in Seq(S)
      /\ a > Len(list) => answer.items = <<>>
      /\ a <= Len(list) => a + Len(answer.items) <= Len(list)
      /\ \A i \in 1 .. Len(answer.items) : answer.items[i] = list[a + i]
  <2>1. Len(list) \in Nat
    OBVIOUS
  <2>2. CASE a <= Len(list)
    <3>1. a + k <= Len(list)
      BY <1>3, <2>2
    <3>2. /\ answer.items \in Seq(S)
          /\ Len(answer.items) = k
          /\ \A i \in 1 .. k : answer.items[i] = list[a + i]
      BY <1>2, <1>3, <3>1, SliceElements
    <3> QED BY <1>2, <2>1, <2>2, <3>1, <3>2
  <2>3. CASE a > Len(list)
    <3>1. answer.items = SubSeq(list, a + 1, a)
      BY <1>2, <1>3, <2>3
    <3>2. answer.items = <<>>
      BY <1>2, <3>1
    <3> QED BY <1>2, <2>1, <2>3, <3>2
  <2> QED BY <1>2, <2>1, <2>2, <2>3
<1>5. answer.next \in Cursor /\ answer.next.form \in {"none", "blank", "token"}
  <2>1. Len(list) \in Nat /\ a + k \in Nat
    BY <1>2
  <2> QED BY <2>1, <1>3, NextCursorType
<1>6. NoCursor \in Cursor /\ NoCursor.form = "none"
  BY DEF NoCursor, Cursor, Forms
<1>7. CASE p = "arxiv"
  <2>1. Offset(a + request.want) \in Cursor /\ Offset(a + request.want).form = "decimal"
    BY <1>2 DEF Offset, Cursor, Forms
  <2>2. answer.items = <<>> => Len(answer.items) # request.want
    OBVIOUS
  <2> QED BY <1>1, <1>4, <1>6, <1>7, <2>1, <2>2 DEF a
<1>8. CASE p # "arxiv"
  BY <1>1, <1>4, <1>5, <1>6, <1>8 DEF a
<1> QED BY <1>7, <1>8

\* The results of a page are the part of a list that starts at a position.
Excerpt(list, at, page) ==
  /\ at <= Len(list) => at + Len(page.results) <= Len(list)
  /\ \A i \in 1 .. Len(page.results) : page.results[i] = list[at + i]

\* Every page is an excerpt.
LEMMA PageIsExcerpt ==
  ASSUME NEW S, NEW list \in Seq(S), NEW p \in ProviderNames, NEW quirks, NEW request,
         request.at \in Nat, request.want \in Nat \ {0},
         NEW answer \in Answers(quirks, list, request),
         NEW page, page = PageOf(p, request, answer)
  PROVE  Excerpt(list, request.at, page)
BY PageOfList DEF Excerpt

\* The cursor of a page, if it has one, leads to position n, whatever size
\* the next page is to have.
Continues(p, page, n) ==
  page.next_cursor # NoCursor =>
    \A count : Request(p, count, page.next_cursor).at = n

\* The cursor of a page leads to the end of its slice.
LEMMA CursorOfPage ==
  ASSUME NEW S, NEW list \in Seq(S), NEW p \in ProviderNames, NEW quirks, NEW request,
         request.at \in Nat, request.want \in Nat \ {0},
         LeadsOn(quirks),
         NEW answer \in Answers(quirks, list, request),
         NEW page, page = PageOf(p, request, answer)
  PROVE  Continues(p, page, request.at + Len(page.results))
<1> SUFFICES ASSUME page.next_cursor # NoCursor, NEW count
             PROVE  Request(p, count, page.next_cursor).at
                      = request.at + Len(page.results)
  BY DEF Continues
<1>1. /\ page.results = answer.items
      /\ p = "arxiv" =>
           page.next_cursor = IF Len(answer.items) = request.want
                              THEN Offset(request.at + request.want) ELSE NoCursor
      /\ p # "arxiv" =>
           page.next_cursor = IF answer.items = <<>> THEN NoCursor ELSE answer.next
  BY PageOfAnswer
<1> DEFINE a == request.at
<1>2. a \in Nat
  OBVIOUS
<1>3. CASE p = "arxiv"
  <2> DEFINE n == a + request.want
  <2>1. Len(page.results) = request.want /\ page.next_cursor = Offset(n)
    BY <1>1, <1>3
  <2>2. n \in Nat /\ n \in Int /\ 0 \in Int
    BY <1>2
  <2> HIDE DEF n
  <2>3. Max({0, n}) \in {0, n} /\ Max({0, n}) >= n
    BY <2>2, MaxOfTwo
  <2>4. Max({0, n}) = n
    BY <2>2, <2>3
  <2>5. ParseOffset(page.next_cursor) = n
    BY <2>1, <2>4 DEF ParseOffset, Offset
  <2> QED BY <1>3, <2>1, <2>5, RequestPosition DEF n
<1>4. CASE p # "arxiv"
  <2>1. page.next_cursor = answer.next /\ answer.items # <<>>
    BY <1>1, <1>4
  <2>2. PICK k \in Nat :
          /\ a <= Len(list) => a + k <= Len(list)
          /\ a > Len(list) => k = 0
          /\ answer.items = SubSeq(list, a + 1, a + k)
          /\ answer.next \in NextCursors(quirks, Len(list), a + k)
    BY AnswerIsSlice
  <2> HIDE DEF a
  <2>3. "blank" \notin quirks /\ "loop" \notin quirks
    BY DEF LeadsOn
  <2>4. answer.next \in {Token(a + k), NoCursor}
    BY <2>2, <2>3 DEF NextCursors
  <2>5. page.next_cursor = Token(a + k)
    BY <2>1, <2>4
  <2>6. CursorParam(page.next_cursor).at = a + k
    BY <2>5 DEF CursorParam, Token
  <2>7. a <= Len(list)
    <3> SUFFICES ASSUME a > Len(list) PROVE FALSE
      BY <1>2
    <3>1. answer.items = SubSeq(list, a + 1, a)
      BY <1>2, <2>2
    <3>2. answer.items = <<>>
      BY <1>2, <3>1
    <3> QED BY <2>1, <3>2
  <2>8. Len(answer.items) = k
    BY <1>2, <2>2, <2>7, SliceElements
  <2> QED BY <1>1, <1>4, <2>6, <2>8, RequestPosition DEF a
<1> QED BY <1>3, <1>4

\* The results of a page at a position go to the end of a list.
ReachesEnd(list, at, page) == at + Len(page.results) = Len(list)

\* A page without a next cursor does.
LEMMA LastPageOfList ==
  ASSUME NEW S, NEW list \in Seq(S), NEW p \in ProviderNames, NEW quirks, NEW request,
         request.at \in Nat, request.want \in Nat \ {0}, request.at <= Len(list),
         EndsWithList(p, quirks),
         NEW answer \in Answers(quirks, list, request),
         NEW page, page = PageOf(p, request, answer),
         page.next_cursor = NoCursor
  PROVE  ReachesEnd(list, request.at, page)
<1> SUFFICES request.at + Len(page.results) = Len(list)
  BY DEF ReachesEnd
<1>1. /\ page.results = answer.items
      /\ p = "arxiv" =>
           page.next_cursor = IF Len(answer.items) = request.want
                              THEN Offset(request.at + request.want) ELSE NoCursor
      /\ p # "arxiv" =>
           page.next_cursor = IF answer.items = <<>> THEN NoCursor ELSE answer.next
  BY PageOfAnswer
<1> DEFINE a == request.at
           want == request.want
           left == Max({0, Len(list) - a})
           full == Min({left, want})
<1>2. /\ a \in Nat /\ a <= Len(list) /\ Len(list) \in Nat
      /\ want \in Nat \ {0} /\ want \in Int
  OBVIOUS
<1>3. PICK k \in Nat :
        /\ a + k <= Len(list)
        /\ answer.items = SubSeq(list, a + 1, a + k)
        /\ answer.next \in NextCursors(quirks, Len(list), a + k)
        /\ k \in AnswerSizes(quirks, left, want)
  BY <1>2, AnswerIsSlice
<1> HIDE DEF a, want
<1>4. left = Len(list) - a /\ left \in Int /\ left \in Nat
  <2> DEFINE d == Len(list) - a
  <2>1. 0 \in Int /\ d \in Int /\ d >= 0
    BY <1>2
  <2> HIDE DEF d
  <2>2. Max({0, d}) \in {0, d} /\ Max({0, d}) >= d
    BY <2>1, MaxOfTwo
  <2>3. left = d
    BY <2>1, <2>2 DEF d
  <2> QED BY <2>1, <2>3 DEF d
<1> HIDE DEF left
<1>5. full \in {left, want} /\ full <= left
  BY <1>2, <1>4, MinOfTwo
<1>6. k \in {full} \cup 1 .. full \cup full .. left
  BY <1>3 DEF AnswerSizes, EndsWithList
<1>7. Len(answer.items) = k
  BY <1>2, <1>3, SliceElements
<1>8. CASE p = "arxiv"
  <2>1. k # want
    BY <1>1, <1>7, <1>8 DEF Offset, NoCursor, want
  <2>2. "short" \notin quirks /\ "over" \notin quirks /\ "stall" \notin quirks
    BY <1>8 DEF EndsWithList
  <2>3. k = full
    BY <1>3, <2>2 DEF AnswerSizes
  <2> HIDE DEF full
  <2> QED BY <1>1, <1>2, <1>4, <1>5, <1>7, <2>1, <2>3 DEF a
<1> HIDE DEF full
<1>9. CASE p # "arxiv"
  <2>1. CASE answer.items = <<>>
    <3>1. k = 0
      BY <1>7, <2>1
    <3>2. left = 0
      BY <1>2, <1>4, <1>5, <1>6, <3>1
    <3> QED BY <1>1, <1>2, <1>4, <1>7, <3>1, <3>2 DEF a
  <2>2. CASE answer.items # <<>>
    <3>1. answer.next = NoCursor
      BY <1>1, <1>9, <2>2
    <3>2. quirks \cap {"blank", "loop", "cut"} = {}
      BY DEF EndsWithList, LeadsOn
    <3>3. a + k >= Len(list)
      BY <1>3, <3>1, <3>2 DEF NextCursors, Token, NoCursor
    <3>4. a + k = Len(list)
      BY <1>2, <1>3, <3>3
    <3> QED BY <1>1, <1>7, <3>4 DEF a
  <2> QED BY <2>1, <2>2
<1> QED BY <1>8, <1>9

\* page.results[:n] is as much of the page as fits, and empty only if the
\* page is.
LEMMA HeadOfPage ==
  ASSUME NEW S, NEW results \in Seq(S), NEW n \in Nat \ {0}
  PROVE  LET kept == SubSeq(results, 1, Min({n, Len(results)}))
         IN  /\ kept \in Seq(S)
             /\ Len(kept) <= n
             /\ Len(kept) <= Len(results)
             /\ \A i \in 1 .. Len(kept) : kept[i] = results[i]
             /\ kept = <<>> <=> results = <<>>
             /\ Len(kept) = n \/ Len(kept) = Len(results)
<1> DEFINE m == Min({n, Len(results)})
           kept == SubSeq(results, 1, m)
<1>1. n \in Int /\ Len(results) \in Int /\ Len(results) \in Nat
  OBVIOUS
<1>2. m \in {n, Len(results)} /\ m <= n /\ m <= Len(results)
  BY <1>1, MinOfTwo
<1>3. kept = SubSeq(results, 1, m)
  OBVIOUS
<1> SUFFICES /\ kept \in Seq(S)
             /\ Len(kept) <= n
             /\ Len(kept) <= Len(results)
             /\ \A i \in 1 .. Len(kept) : kept[i] = results[i]
             /\ kept = <<>> <=> results = <<>>
             /\ Len(kept) = n \/ Len(kept) = Len(results)
  OBVIOUS
<1> HIDE DEF m, kept
<1>4. m \in 0 .. Len(results)
  BY <1>1, <1>2
<1>5. /\ kept \in Seq(S)
      /\ Len(kept) = m
      /\ \A i \in 1 .. m : kept[i] = results[i]
  <2>1. results \in Seq(S)
    OBVIOUS
  <2> QED BY ONLY <1>3, <1>4, <2>1
<1>6. m = 0 <=> Len(results) = 0
  BY <1>1, <1>2
<1>7. results \in Seq(S) /\ n \in Nat
  OBVIOUS
<1> QED BY ONLY <1>1, <1>2, <1>5, <1>6, <1>7
=============================================================================
