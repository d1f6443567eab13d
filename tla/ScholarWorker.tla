----------------------------- MODULE ScholarWorker -----------------------------
(***************************************************************************)
(* One worker that serves several scans at once.  Over stdio a scan's      *)
(* state stays in the memory of the worker; over HTTP the client holds it  *)
(* as a continuation token and sends it with every tick, so that ticks are *)
(* independent requests: the answer to one may be lost and the tick asked  *)
(* for again, and the worker may be replaced between two of them.          *)
(*                                                                         *)
(* transport, env   how the worker was started, and its environment        *)
(* calls            scan -> the call it serves                             *)
(* phase            scan -> new, open, finished or failed                  *)
(* held             scan -> reader -> the _ScanState, as it is kept        *)
(* reading          scan -> the readers that have not finished             *)
(* rows             scan -> the rows its client has received               *)
(* servers          scan -> the servers it has sent a search to  (history) *)
(* faults           answers lost and workers restarted                     *)
(***************************************************************************)
EXTENDS Registry, MockServer

CONSTANTS Scans,           \* the scans
          Calls,           \* the calls a scan may be for
          Environments,    \* the environments a worker may start in
          DefaultPageSize, \* _DEFAULT_PAGE_SIZE
          LiveList,        \* the result list of the real APIs
          LiveQuirks,      \* provider -> the quirks of its API
          MaxFaults        \* bound: lost answers and restarts

VARIABLES transport, env, calls, phase, held, reading, rows, servers, faults

setup == <<transport, env, calls>>
vars == <<setup, phase, held, reading, rows, servers, faults>>

\* Both are published by worker.py; scholar_providers also as a table, whose
\* primary key is `provider`.
Catalog == {"scholar_search", "scholar_providers"}

Call == [function : Catalog, name : Name, count : Nat \ {0}, page_size : Nat]

ASSUME WorkerAssumption ==
  /\ Calls \subseteq Call
  /\ Environments \subseteq Environment
  /\ DefaultPageSize \in Nat \ {0}
  /\ LiveList \in Seq(Works)
  /\ LiveQuirks \in [ProviderNames -> SUBSET QuirkKinds]
  /\ MaxFaults \in Nat

-----------------------------------------------------------------------------
(* One scan at a state, in the terms of ScholarSearch.                     *)

ServerOf(s) == ServerFor(env, calls[s].name)
ListOf(s) == IF ServerOf(s) = "live" THEN LiveList ELSE MockList

Args(s) == [provider  |-> Resolved(calls[s].name),
            count     |-> calls[s].count,
            page_size |-> calls[s].page_size]

At(s, st) == INSTANCE SearchTick WITH
  args <- Args(s), state <- st, corpus <- ListOf(s), Quirks <- LiveQuirks

Fresh == [cursor |-> NoCursor, emitted |-> 0, started |-> FALSE, done |-> FALSE]

CounterNotSent == {"cursor", "started", "done"}   \* mutant: not a field

\* The fields that _ScanState declares are those that travel.
DeclaredFields == {"cursor", "emitted", "started", "done"}

Keep(st) ==
  IF transport = "http" THEN [field \in DeclaredFields |-> st[field]] ELSE st

\* A field that did not travel has the default its declaration gives it.
StateOf(s, r) ==
  [field \in DOMAIN Fresh |->
     IF field \in DOMAIN held[s][r] THEN held[s][r][field] ELSE Fresh[field]]

\* The pages a search may return.
PagesFor(s, st) ==
  IF ServerOf(s) = "live" THEN At(s, st)!Pages
  ELSE LET p == Args(s).provider
           request == At(s, st)!TheRequest
       IN  {PageOf(p, request, MockAnswer(p, request))}

-----------------------------------------------------------------------------
TwoReaders == {1, 2}                     \* mutant: no @init_single_worker

\* @init_single_worker: one reader per scan.
Readers == {1}

\* serve.py puts --http before the arguments it was given.
Arguments(entry, given) == IF entry = "serve" THEN given \cup {"--http"} ELSE given

Transport(arguments) == IF "--http" \in arguments THEN "http" ELSE "stdio"

Init ==
  /\ \E entry \in {"serve", "vgi-scholar-worker"}, given \in SUBSET {"--http"} :
       transport = Transport(Arguments(entry, given))
  /\ env \in Environments
  /\ calls \in [Scans -> Calls]
  /\ phase = [s \in Scans |-> "new"]
  /\ held = [s \in Scans |-> <<>>]
  /\ reading = [s \in Scans |-> {}]
  /\ rows = [s \in Scans |-> <<>>]
  /\ servers = [s \in Scans |-> {}]
  /\ faults = 0

\* on_bind() rejects an unknown provider; otherwise every reader starts with
\* initial_state().
Bind(s) ==
  /\ phase[s] = "new"
  /\ IF calls[s].function = "scholar_search" /\ ~ IsKnown(calls[s].name)
     THEN /\ phase' = [phase EXCEPT ![s] = "failed"]
          /\ UNCHANGED <<held, reading>>
     ELSE /\ phase' = [phase EXCEPT ![s] = "open"]
          /\ held' = [held EXCEPT ![s] = [r \in Readers |-> Keep(Fresh)]]
          /\ reading' = [reading EXCEPT ![s] = Readers]
  /\ UNCHANGED <<setup, rows, servers, faults>>

\* out.finish(): the scan is over with its last reader.
ReaderFinishes(s, r) ==
  /\ reading' = [reading EXCEPT ![s] = @ \ {r}]
  /\ phase' = [phase EXCEPT ![s] = IF reading[s] = {r} THEN "finished" ELSE @]

OpenTick(s, r, function) ==
  /\ phase[s] = "open"
  /\ r \in reading[s]
  /\ calls[s].function = function

\* ScholarProvidersFunction.process()
ListProviders(s, r) ==
  /\ OpenTick(s, r, "scholar_providers")
  /\ rows' = [rows EXCEPT ![s] = @ \o ProviderRows]
  /\ ReaderFinishes(s, r)
  /\ UNCHANGED <<setup, held, servers, faults>>

NeedsPage(s, r) ==
  OpenTick(s, r, "scholar_search") /\ ~ At(s, StateOf(s, r))!Exhausted

SearchStays(s, r) ==                     \* mutant: returns without finish()
  /\ OpenTick(s, r, "scholar_search")
  /\ At(s, StateOf(s, r))!Exhausted
  /\ UNCHANGED vars

\* ScholarSearchFunction.process(): nothing is left to fetch.
SearchFinishes(s, r) ==
  /\ OpenTick(s, r, "scholar_search")
  /\ At(s, StateOf(s, r))!Exhausted
  /\ ReaderFinishes(s, r)
  /\ UNCHANGED <<setup, held, rows, servers, faults>>

\* It fetches a page, and its rows and the new state reach the client.
SearchPage(s, r) ==
  /\ NeedsPage(s, r)
  /\ \E page \in PagesFor(s, StateOf(s, r)) :
       LET kept == At(s, StateOf(s, r))!Kept(page)
       IN  /\ rows' = [rows EXCEPT ![s] = @ \o kept]
           /\ held' = [held EXCEPT ![s][r] = Keep(At(s, StateOf(s, r))!After(page))]
           /\ IF kept = <<>> /\ page.next_cursor = NoCursor
              THEN ReaderFinishes(s, r)
              ELSE UNCHANGED <<reading, phase>>
  /\ servers' = [servers EXCEPT ![s] = @ \cup {ServerOf(s)}]
  /\ UNCHANGED <<setup, faults>>

\* search() or the batch raises: the scan ends with an error.
SearchRaises(s, r) ==
  /\ NeedsPage(s, r)
  /\ phase' = [phase EXCEPT ![s] = "failed"]
  /\ servers' = [servers EXCEPT ![s] = @ \cup {ServerOf(s)}]
  /\ UNCHANGED <<setup, held, reading, rows, faults>>

WorkerRemembers(s, r) ==                 \* mutant: the state is the worker's
  /\ NeedsPage(s, r)
  /\ transport = "http"
  /\ faults < MaxFaults
  /\ \E page \in PagesFor(s, StateOf(s, r)) :
       held' = [held EXCEPT ![s][r] = Keep(At(s, StateOf(s, r))!After(page))]
  /\ faults' = faults + 1
  /\ servers' = [servers EXCEPT ![s] = @ \cup {ServerOf(s)}]
  /\ UNCHANGED <<setup, phase, reading, rows>>

\* The worker has served the tick, but the client never hears of it and will
\* send the token it holds again.
AnswerLost(s, r) ==
  /\ NeedsPage(s, r)
  /\ transport = "http"
  /\ faults < MaxFaults
  /\ faults' = faults + 1
  /\ servers' = [servers EXCEPT ![s] = @ \cup {ServerOf(s)}]
  /\ UNCHANGED <<setup, phase, held, reading, rows>>

\* The worker dies.  Over HTTP another one answers the next request; over
\* stdio the state of every open scan died with it.
Restart ==
  /\ faults < MaxFaults
  /\ faults' = faults + 1
  /\ phase' = [s \in Scans |->
                 IF transport = "stdio" /\ phase[s] = "open" THEN "failed" ELSE phase[s]]
  /\ UNCHANGED <<setup, held, reading, rows, servers>>

Tick(s) ==
  \/ Bind(s)
  \/ \E r \in Readers : \/ ListProviders(s, r) \/ SearchFinishes(s, r)
                        \/ SearchPage(s, r)    \/ SearchRaises(s, r)

Next ==
  \/ \E s \in Scans : Tick(s)
  \/ \E s \in Scans, r \in Readers : AnswerLost(s, r)
  \/ Restart

Spec == Init /\ [][Next]_vars

\* DuckDB asks for the next tick of every scan, and a tick ends.
FairSpec == Spec /\ \A s \in Scans : WF_vars(Tick(s))

-----------------------------------------------------------------------------
(* Properties.                                                             *)

\* Every variable has its type, and a state that travels loses no field.
TypeOK ==
  /\ transport \in {"stdio", "http"}
  /\ env \in Environments
  /\ calls \in [Scans -> Calls]
  /\ phase \in [Scans -> {"new", "open", "finished", "failed"}]
  /\ reading \in [Scans -> SUBSET Readers]
  /\ servers \in [Scans -> SUBSET {"live", "override"}]
  /\ faults \in 0 .. MaxFaults
  /\ \A s \in Scans :
       /\ phase[s] = "open" => DOMAIN held[s] = Readers /\ reading[s] # {}
       /\ \A r \in DOMAIN held[s] : DOMAIN held[s][r] = DOMAIN Fresh

\* cardinality(): the most rows a scan may have.
MaxRows(s) ==
  IF calls[s].function = "scholar_search" THEN calls[s].count ELSE Len(ListedProviders)

SourceOf(s) ==
  IF calls[s].function = "scholar_search" THEN ListOf(s) ELSE ProviderRows

Stream(s) == INSTANCE BoundedStream WITH
  Sources <- {LiveList, MockList, ProviderRows}, Limits <- Nat \ {0},
  source <- SourceOf(s), limit <- MaxRows(s), delivered <- rows[s],
  phase <- IF phase[s] = "new" THEN "open" ELSE phase[s]

\* Scans do not disturb each other: whatever the other scans do, and however
\* often answers are lost or the worker is replaced, each scan is a bounded
\* stream of the list of its server, within the cardinality it announced.
IndependentStreams ==
  /\ \A s \in Scans : Stream(s)!Init
  /\ [][\A s \in Scans : [Stream(s)!Next]_(Stream(s)!vars)]_vars

\* No scan waits for another: all of them end, finished or failed.
EveryScanEnds == <>(\A s \in Scans : phase[s] \in {"finished", "failed"})

\* The token a client holds stands for the rows it has received: the next
\* tick, on whichever worker, goes on right after them.
TokenTracksRows ==
  \A s \in Scans : \A r \in reading[s] :
    NeedsPage(s, r) =>
      /\ StateOf(s, r).emitted = Len(rows[s])
      /\ At(s, StateOf(s, r))!TheRequest.at = Len(rows[s])

\* scholar_providers keeps what its table declares and what a caller does
\* with it: `provider` is a key, every name listed is accepted and stands
\* for itself, and the one default is what an omitted name stands for.
DiscoveryHonest ==
  \A s \in Scans :
    calls[s].function = "scholar_providers" /\ phase[s] = "finished" =>
      /\ \A i, j \in 1 .. Len(rows[s]) :
           rows[s][i].provider = rows[s][j].provider => i = j
      /\ {row \in {rows[s][i] : i \in 1 .. Len(rows[s])} : row.default}
           = {ProviderRow(Resolved(Plain("")))}
      /\ {rows[s][i].provider : i \in 1 .. Len(rows[s])}
           = {name \in {"unlisted"} \cup ProviderNames : IsKnown(Plain(name))}

\* A test against the mock server is a test against an API: every page the
\* mock gives is one that an API without quirks but short pages could give.
MockIsAnApi ==
  \A s \in Scans : \A r \in reading[s] :
    NeedsPage(s, r) /\ ServerOf(s) = "override" =>
      LET p == Args(s).provider
          request == At(s, StateOf(s, r))!TheRequest
          quirks == IF p = "arxiv" THEN {} ELSE {"short"}
      IN  PagesFor(s, StateOf(s, r))
            \subseteq {PageOf(p, request, a) : a \in Answers(quirks, MockList, request)}
=============================================================================
