------------------------------ MODULE SearchTick ------------------------------
(***************************************************************************)
(* The pieces of ScholarSearchFunction.process() (vgi_scholar/tables.py):  *)
(* what one tick of a scan decides from its arguments and its state.       *)
(*                                                                         *)
(* args      provider, count and page_size of the call                     *)
(* state     the _ScanState                                                *)
(* corpus    the provider's ranked result list for the query               *)
(***************************************************************************)
EXTENDS ProviderApi

CONSTANTS DefaultPageSize, \* _DEFAULT_PAGE_SIZE    (the code: 25)
          Quirks           \* provider -> the quirks its API has

VARIABLES args, state, corpus

ScanState == [cursor : Cursor, emitted : Nat, started : BOOLEAN, done : BOOLEAN]

InitialState == [cursor |-> NoCursor, emitted |-> 0, started |-> FALSE, done |-> FALSE]

ExhaustedEarly ==                        \* mutant: the last row is not fetched
  state.done \/ state.emitted + 1 >= args.count

\* Nothing more to fetch: the two guards at the head of process().
Exhausted ==
  \/ state.done
  \/ state.emitted >= args.count
  \/ state.started /\ state.cursor = NoCursor

RemainingForgotten == args.count         \* mutant: ignores what was emitted

\* How much of `count` is left.
Remaining == args.count - state.emitted

\* page_size or min(_DEFAULT_PAGE_SIZE, remaining) or remaining
WantedPage ==
  IF args.page_size # 0 THEN args.page_size ELSE Min({DefaultPageSize, Remaining})

TheRequest == Request(args.provider, WantedPage, state.cursor)

TheQuirks == Quirks[args.provider]

\* The pages provider.search() may return on this tick.
Pages ==
  { PageOf(args.provider, TheRequest, answer) :
      answer \in Answers(TheQuirks, corpus, TheRequest) }

KeptWhole(page) == page.results          \* mutant: not trimmed

\* page.results[:remaining]
Kept(page) == SubSeq(page.results, 1, Min({Remaining, Len(page.results)}))

\* The scan state a page leaves behind.
After(page) ==
  LET total == state.emitted + Len(Kept(page))
  IN  [cursor  |-> page.next_cursor,
       emitted |-> total,
       started |-> TRUE,
       done    |-> page.next_cursor = NoCursor \/ total >= args.count]
=============================================================================
