------------------------------ MODULE MockServer ------------------------------
(***************************************************************************)
(* tests/mock_server.py, the server every test of the worker talks to: a   *)
(* fixed list for any query, one result per page for the cursor APIs, the  *)
(* slice asked for from arXiv.                                             *)
(***************************************************************************)
EXTENDS ProviderApi

CONSTANTS Works,        \* the works a result list may hold
          MockList      \* the _TOTAL results it serves

ASSUME MockAssumption == MockList \in Seq(Works) \ {<<>>}

CursorStuck(request) ==                  \* mutant: f"p{idx}"
  IF request.at >= Len(MockList)
  THEN [items |-> <<>>, next |-> NoCursor]
  ELSE [items |-> <<MockList[request.at + 1]>>, next |-> Token(request.at)]

\* "p<N>" stands for result N, and N + 1 follows until the list is over.
CursorAnswer(request) ==
  IF request.at >= Len(MockList)
  THEN [items |-> <<>>, next |-> NoCursor]
  ELSE [items |-> <<MockList[request.at + 1]>>, next |-> Token(request.at + 1)]

\* range(start, min(start + max_results, _TOTAL))
SliceAnswer(request) ==
  [items |-> SubSeq(MockList, request.at + 1,
                    Min({request.at + request.want, Len(MockList)})),
   next  |-> NoCursor]

MockAnswer(p, request) ==
  IF p = "arxiv" THEN SliceAnswer(request) ELSE CursorAnswer(request)
=============================================================================
