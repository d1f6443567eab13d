---------------------------- MODULE ScholarSearch ----------------------------
(***************************************************************************)
(* One scan of the table function scholar_search                           *)
(* (vgi_scholar/tables.py): DuckDB calls process() again and again (a      *)
(* tick), each call emits at most one batch, and the only memory between   *)
(* two calls is the externalized _ScanState.                               *)
(*                                                                         *)
(* args, state, corpus  see SearchTick                                     *)
(* rows      what the scan has emitted so far                              *)
(* status    open; finished (out.finish()); clean_error (RuntimeError made *)
(*           by the handler in process()); raw_error (any other exception  *)
(*           that escapes process())                                       *)
(* requests  how many searches the scan has made         (history)         *)
(* added, removed  works that entered and left the list  (history)         *)
(***************************************************************************)
EXTENDS SearchTick, SequencesExt

CONSTANTS Counts,          \* values of `count`     (the code: 1 .. 1000)
          PageSizes,       \* values of `page_size` (the code: 0 .. 200)
          Works,           \* the works that can ever be in a result list
          Corpora,         \* the result lists a scan may start against
          MaxDrift         \* bound: changes of the result list in a scan

ASSUME ArgsAssumption ==
  /\ Counts \subseteq Nat \ {0}
  /\ PageSizes \subseteq Nat
  /\ DefaultPageSize \in Nat \ {0}
ASSUME ApiAssumption ==
  /\ \A list \in Corpora : list \in Seq(Works) /\ IsInjective(list)
  /\ Quirks \in [ProviderNames -> SUBSET QuirkKinds]
  /\ MaxDrift \in Nat

VARIABLES rows, status, requests, added, removed

scan == <<state, rows, status, requests>>
world == <<corpus, added, removed>>
vars == <<args, scan, world>>

Init ==
  /\ args \in [provider : ProviderNames, count : Counts, page_size : PageSizes]
  /\ corpus \in Corpora
  /\ state = InitialState
  /\ rows = <<>>
  /\ status = "open"
  /\ requests = 0
  /\ added = {}
  /\ removed = {}

-----------------------------------------------------------------------------
(* One tick is one of the following.                                       *)

ReturnUnfinished ==                      \* mutant: returns without out.finish()
  /\ status = "open"
  /\ Exhausted
  /\ UNCHANGED vars

\* The scan was exhausted before this tick.
TickFinish ==
  /\ status = "open"
  /\ Exhausted
  /\ status' = "finished"
  /\ UNCHANGED <<args, state, rows, requests, world>>

\* A page arrives: emit its rows, remember where to go on, and finish at
\* once when it brought neither rows nor a cursor.
TickPage ==
  /\ status = "open"
  /\ ~ Exhausted
  /\ \E page \in Pages :
       /\ rows' = rows \o Kept(page)
       /\ state' = After(page)
       /\ status' = IF Kept(page) = <<>> /\ page.next_cursor = NoCursor
                    THEN "finished" ELSE "open"
  /\ requests' = requests + 1
  /\ UNCHANGED <<args, world>>

\* search() raises ProviderError (retries exhausted, 4xx, bad XML) or
\* ValueError (the body is not JSON); the handler wraps it.
SearchFails ==
  /\ status = "open"
  /\ ~ Exhausted
  /\ status' = "clean_error"
  /\ requests' = requests + 1
  /\ UNCHANGED <<args, state, rows, world>>

\* search() raises something the handler does not name: walking JSON of an
\* unforeseen shape (AttributeError, TypeError), or get() (OverflowError).
SearchCrashes ==
  /\ status = "open"
  /\ ~ Exhausted
  /\ TheQuirks \cap {"malformed", "foreign"} # {}
  /\ status' = "raw_error"
  /\ requests' = requests + 1
  /\ UNCHANGED <<args, state, rows, world>>

\* results_to_batch() runs outside the handler, after started is set.
EmitFails ==
  /\ status = "open"
  /\ ~ Exhausted
  /\ "unrepresentable" \in TheQuirks
  /\ \E page \in Pages : Kept(page) # <<>>
  /\ state' = [state EXCEPT !.started = TRUE]
  /\ status' = "raw_error"
  /\ requests' = requests + 1
  /\ UNCHANGED <<args, rows, world>>

Tick == TickFinish \/ TickPage \/ SearchFails \/ SearchCrashes \/ EmitFails

-----------------------------------------------------------------------------
(* The result list of an offset-paged API between two ticks.               *)

Drifts ==
  /\ "drift" \in TheQuirks
  /\ status = "open"
  /\ Cardinality(added) + Cardinality(removed) < MaxDrift

WorkAdded ==
  /\ Drifts
  /\ \E w \in Works \ (ToSet(corpus) \cup removed), i \in 1 .. Len(corpus) + 1 :
       /\ corpus' = InsertAt(corpus, i, w)
       /\ added' = added \cup {w}
  /\ UNCHANGED <<args, scan, removed>>

WorkRemoved ==
  /\ Drifts
  /\ \E i \in 1 .. Len(corpus) :
       /\ corpus' = RemoveAt(corpus, i)
       /\ removed' = removed \cup {corpus[i]}
  /\ UNCHANGED <<args, scan, added>>

Next == Tick \/ WorkAdded \/ WorkRemoved

Spec == Init /\ [][Next]_vars

\* DuckDB keeps calling process() until the scan has ended, and a call
\* returns: every request has a timeout and the retries are bounded.
FairSpec == Spec /\ WF_vars(Tick)

-----------------------------------------------------------------------------
(* Properties.                                                             *)

\* The cursors a provider's own pages can leave in the scan state.
CursorForms(p) ==
  IF p = "arxiv" THEN {"none", "decimal"} ELSE {"none", "blank", "token"}

\* Every variable has its type; a cursor has the form its provider makes.
TypeOK ==
  /\ args \in [provider : ProviderNames, count : Counts, page_size : PageSizes]
  /\ state \in ScanState
  /\ state.cursor.form \in CursorForms(args.provider)
  /\ rows \in Seq(Works)
  /\ status \in {"open", "finished", "clean_error", "raw_error"}
  /\ corpus \in Seq(Works)
  /\ requests \in Nat
  /\ added \subseteq Works
  /\ removed \subseteq Works

\* However many results an API packs into its pages, a scan never emits
\* more than `count` rows, and the counter that travels in the scan state
\* agrees with the rows DuckDB has received.
CountBudget ==
  /\ Len(rows) <= args.count
  /\ state.emitted = Len(rows)

\* A scan makes at most one request that brings no row: an API cannot keep
\* it fetching empty pages (the loop of process() and the provider's "no
\* results, no cursor" rule together).
RequestBudget == requests <= Len(rows) + 1

\* The round-trip of the cursor through the scan state loses nothing: while
\* the scan goes on, the next request starts right after the last emitted
\* row, for opaque cursors as for arXiv's computed offsets.
CursorTracksRows ==
  status = "open" /\ ~ Exhausted => TheRequest.at = Len(rows)

\* "All results, in order, with no dupes": what has been emitted is a prefix
\* of the provider's result list, whatever the page boundaries.
InOrderPrefix == IsPrefix(rows, corpus)

\* A scan that finishes has emitted everything it was asked for: `count`
\* rows, or all there are when the provider has fewer.
CompleteOnFinish ==
  status = "finished" => Len(rows) = Min({args.count, Len(corpus)})

\* Under an offset-paged list that changes during the scan, a row is
\* repeated only by an insertion: one repetition at most for each.
RepeatsBounded ==
  Len(rows) - Cardinality(ToSet(rows)) <= Cardinality(added)

\* ... and a work that was in the list all along is missed only by a
\* removal: a scan that ran to the end of the list misses one at most for
\* each.
MissesBounded ==
  LET steady == ToSet(corpus) \ added
  IN  status = "finished" /\ Len(rows) < args.count
        => Cardinality(steady \ ToSet(rows)) <= Cardinality(removed)

\* Every scan comes to an end: it finishes or raises, whatever the API
\* answers.
Terminates == <>(status # "open")

\* http_client.py:14-16 says of every failure of a provider that it is
\* translated, so that process() raises its own RuntimeError.
FailuresTranslated == status # "raw_error"

\* The whole scan, seen from DuckDB, is a bounded stream of the result list.
Promise == INSTANCE BoundedStream WITH
  Sources <- Corpora, Limits <- Counts,
  source <- corpus, limit <- args.count, delivered <- rows,
  phase <- IF status \in {"clean_error", "raw_error"} THEN "failed" ELSE status

\* Seen from DuckDB a scan is exactly the promised stream: chunks of the
\* result list in order, then the end at min(count, length), or one error.
KeepsPromise == Promise!FairSpec
=============================================================================
