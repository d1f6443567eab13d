------------------------------ MODULE Providers ------------------------------
(***************************************************************************)
(* The paging half of the three providers of vgi_scholar/providers: how a  *)
(* scan's cursor and page size become one HTTP request, and how the answer *)
(* becomes a Page with the cursor of the next one.  The objects are        *)
(* stateless ("cheap, stateless value objects"), so they are operators.    *)
(*                                                                         *)
(* A cursor is a Python `str | None`.  What the code tells apart of it is  *)
(* None, the falsy string "", an opaque token minted by the API (identified *)
(* with the position it stands for), a decimal offset made by arXiv's      *)
(* provider, and the "*" with which a cursor API starts.                   *)
(***************************************************************************)
EXTENDS Integers, Sequences, FiniteSetsExt

CONSTANT PageLimit      \* provider -> the most results it asks for at once

CursorProviders == {"openalex", "crossref"}
ProviderNames == CursorProviders \cup {"arxiv"}

ASSUME PageLimitAssumption == PageLimit \in [ProviderNames -> Nat \ {0}]

Forms == {"none", "blank", "token", "decimal", "star"}
Cursor == [form : Forms, at : Nat]

NoCursor  == [form |-> "none", at |-> 0]
Blank     == [form |-> "blank", at |-> 0]
Star      == [form |-> "star", at |-> 0]
Token(n)  == [form |-> "token", at |-> n]
Offset(n) == [form |-> "decimal", at |-> n]

(***************************************************************************)
(* max(1, min(count, limit)): the page size actually sent.                 *)
(***************************************************************************)
PerPage(p, count) == Max({1, Min({count, PageLimit[p]})})

CursorNeverSent(cursor) == Star          \* mutant: always the first page

(***************************************************************************)
(* `cursor or "*"`: None and "" both mean the beginning.                   *)
(***************************************************************************)
CursorParam(cursor) == IF cursor.form \in {"none", "blank"} THEN Star ELSE cursor

OffsetForgotten(cursor) == 0             \* mutant: the cursor is not decoded

(***************************************************************************)
(* _parse_offset: a falsy or non-numeric cursor is offset 0.               *)
(***************************************************************************)
ParseOffset(cursor) == IF cursor.form = "decimal" THEN Max({0, cursor.at}) ELSE 0

(***************************************************************************)
(* One request: the position in the provider's result list it addresses    *)
(* and how many results it asks for.                                       *)
(***************************************************************************)
CursorRequest(p, count, cursor) ==
  [at |-> CursorParam(cursor).at, want |-> PerPage(p, count)]

ArxivRequest(count, cursor) ==
  [at |-> ParseOffset(cursor), want |-> PerPage("arxiv", count)]

Request(p, count, cursor) ==
  IF p = "arxiv" THEN ArxivRequest(count, cursor) ELSE CursorRequest(p, count, cursor)

CursorTrusted(answer) ==                 \* mutant: no stop on an empty page
  [results |-> answer.items, next_cursor |-> answer.next]

(***************************************************************************)
(* One Page made of an answer's items and of the cursor it carries.        *)
(* OpenAlex and Crossref pass the API's cursor on unless the page is       *)
(* empty.                                                                  *)
(***************************************************************************)
OpenAlexPage(answer) ==
  [results |-> answer.items,
   next_cursor |-> IF answer.items = <<>> THEN NoCursor ELSE answer.next]

CrossrefPage(answer) ==
  [results |-> answer.items,
   next_cursor |-> IF answer.items = <<>> THEN NoCursor ELSE answer.next]

ArxivEndRepeated(request, answer) ==     \* mutant: offset one too small
  [results |-> answer.items,
   next_cursor |-> IF Len(answer.items) = request.want
                   THEN Offset(Max({0, request.at + request.want - 1})) ELSE NoCursor]
ArxivEndSkipped(request, answer) ==      \* mutant: offset one too large
  [results |-> answer.items,
   next_cursor |-> IF Len(answer.items) = request.want
                   THEN Offset(request.at + request.want + 1) ELSE NoCursor]
ArxivCursorPassed(request, answer) ==    \* mutant: pages like a cursor API
  [results |-> answer.items, next_cursor |-> answer.next]

(***************************************************************************)
(* arXiv's answers carry no cursor: its provider goes on exactly when the  *)
(* page is full, from the offset after it.                                 *)
(***************************************************************************)
ArxivPage(request, answer) ==
  [results |-> answer.items,
   next_cursor |-> IF Len(answer.items) = request.want
                   THEN Offset(request.at + request.want) ELSE NoCursor]

PageOf(p, request, answer) ==
  CASE p = "openalex" -> OpenAlexPage(answer)
    [] p = "crossref" -> CrossrefPage(answer)
    [] p = "arxiv"    -> ArxivPage(request, answer)
=============================================================================
