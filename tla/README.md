# vgi-scholar in TLA+

vgi-scholar is a VGI worker: DuckDB calls its table function `scholar_search`,
which pages one of three literature APIs (OpenAlex, arXiv, Crossref) and emits
rows of one unified schema. This directory holds a model of its logic, the TLC
runs that check it on small instances, and proofs of what holds for all
instances. Sources are named relative to `vgi_scholar/`, those of `tests/` and `ci/`
relative to the repository.

## Inventory

| component | state | operations | correct when |
| --- | --- | --- | --- |
| scan (`tables.py`) | `_ScanState`: cursor, emitted, started, done; nothing else survives a tick | `on_bind`, `initial_state`, `process` (one tick) | rows are a prefix of the result list, at most `count`, all of it when the scan finishes; every scan ends; an API cannot keep it fetching |
| provider paging (`providers/*.py`) | none ("stateless value objects") | `search`: clamp, cursor parameter or offset, next cursor | the next request starts where the page ended; no cursor after an empty page |
| remote APIs (external) | the ranked result list, which may change | answer a request | (contract, with quirks) |
| `http_client.get` | loop variable, pending sleep | attempt, sleep, give up, return | at most retries + 1 requests; only transient failures retried; bounded own backoff; ends |
| registry and base-URL override (`providers/__init__.py`, `tables.py`) | environment | `get_provider`, `base_url_override` | both mean the same provider, so that every search goes to the server that was configured (two kinds of names excepted, see below) |
| normalisation (`providers/base.py` and `_map`) | none | `_map`, `clean_doi`, `parse_date`, `parse_year`, `date_parts_to_datetime`, abstracts | a work is the same work from every provider; no documented record is lost; what is missing is NULL |
| schema and batches (`schema_utils.py`) | none | `results_to_batch`, `extra_json` | one row per result in each projected column, or no batch |
| discovery (`scholar_providers`) | none | one tick | lists what the registry accepts, each once, with one default (the order promised is another, see below) |
| worker and transports (`worker.py`, `serve.py`, `scholar_worker.py`) | the scans it serves; over HTTP their clients hold the state | bind, init, process | scans do not disturb each other; a scan survives a restart when its state travels |
| test harness, mock server (`tests/`) | none | drive a scan; serve five items | harness ends; mock keeps the API contract |
| CI script (`ci/run-integration.sh`) | processes, files | boot, poll, run, clean up | green only after a real pass; the suite meets the servers of this run; what cleanup knows is gone afterwards |

Interaction: DuckDB (or the harness) calls `process()` with the scan state; a
tick calls `provider.search()`, which calls `http_client.get()`, which calls
httpx; the page comes back, the rows are emitted, the state is updated and
handed back to DuckDB. There is one thread per scan and no shared mutable state
between scans; the hard behaviours are therefore sequences: ticks whose only
link is the scan state, retries inside a tick, answers of any shape, and a
result list that changes between two ticks.

What makes it correct is therefore hard to test: a test sees one page size
against one server, while every property below is about a sequence of ticks or
attempts with a different answer at each. The full list, line by line, is
`hazards` in `PROJECT.json`.

## Modules

| module | models | lines of code it reads |
| --- | --- | --- |
| `Providers` | cursors, requests and pages of the three providers, as operators | `providers/openalex.py`, `arxiv.py`, `crossref.py`, `base.py` |
| `ProviderApi` | external: every answer an API may give to one request, with quirks switched on per provider | how the providers use the answers |
| `SearchTick` | what a tick decides from its arguments and its state, as operators | `tables.py` 75-91, 298-338 |
| `ScholarSearch` | one scan | `tables.py` 59-72, 290-338 |
| `BoundedStream` | abstract: what a scan promises DuckDB, without pages, cursors or requests | README and docstrings of the function |
| `HttpClient` | one call of `get()` | `http_client.py` 58-119 |
| `ScanOverHttp` | a scan whose searches are runs of `HttpClient` | `tables.py` 295-338, `http_client.py` 63-108 |
| `Registry` | the provider name and the environment: which provider, which server; the rows of `scholar_providers` | `providers/__init__.py` 18-44, `tables.py` 49-56, 351-362, 507-521, `scripts/run_sql_e2e.py` 41-45 |
| `MockServer` | the answers of the test server | `tests/mock_server.py` 91-137 |
| `ScholarWorker` | several scans of both functions in one worker, over stdio or HTTP | `tables.py` 277-338, 501-524, `worker.py` 342-385, `serve.py`, `scholar_worker.py` |
| `RecordTexts` | the parsing helpers, as operators over texts | `providers/base.py` 69-131, `openalex.py` 86-97, `crossref.py` 93-98 |
| `Records` | one answer, from its records to the batch | the three `_map`, `schema_utils.py` 56-123 |
| `RecordFormats` | external: what the documentation of each API says of a record that was made from a work | how the three `_map` use the fields |
| `IntegrationHarness` | one run of the CI script beside the processes it starts | `ci/run-integration.sh` 41-264, `tests/mock_server.py` 188-200 |
| `MCScholarSearch`, `MCHttpClient`, `MCScanOverHttp`, `MCScholarWorker`, `MCRecords` | the instances TLC checks | |
| `ProviderApi_proofs` | lemmas: what a request, an answer and a page of each provider are, for a scan and for the worker | |
| `ScholarSearch_proofs`, `ScholarSearchDrift_proofs`, `HttpClient_proofs`, `ScanOverHttp_proofs`, `ScholarWorker_proofs`, `Records_proofs`, `IntegrationHarness_proofs` | the theorems | |

`ScholarSearch` extends `SearchTick`, which extends `ProviderApi` and that `Providers`, and
instantiates `BoundedStream` with a refinement mapping: the stream's `delivered`
is `rows`, its `limit` is `args.count`, its `phase` is `status` with both kinds
of error mapped to `failed`. `ScanOverHttp` extends `ScholarSearch` for its operators and its
changes of the list, instantiates `HttpClient` with its variables for the call, and
`ScholarSearch` a second time (`Seen`) under a refinement mapping; `ScanOverHttp_proofs`
instantiates `HttpClient_proofs` and `ScholarSearch_proofs` the same way and cites their
lemmas and theorems. `ScholarWorker` instantiates `SearchTick` once for each
scan and state, and `BoundedStream` once for each scan.

### How state and actions correspond

A cursor is a record of a form (`none`, `blank`, `token`, `decimal`, `star`) and
a position. This keeps what the code tells apart of a `str | None`: `None`, a
falsy string, a string of digits, anything else. An opaque token is identified
with the position it stands for: the APIs document a cursor as a stable pointer
into one result set, and the code never looks into it.

| code | model |
| --- | --- |
| `_ScanState.cursor`, `.emitted`, `.started`, `.done` | the fields of `state` |
| rows given to `out.emit()` so far | `rows` |
| `out.finish()` | `status = "finished"` |
| `raise RuntimeError(...) from exc` | `status = "clean_error"` (`SearchFails`) |
| any other exception leaving `process()` | `status = "raw_error"` (`SearchCrashes`, `EmitFails`) |
| the two guards at the head of `process()` | `Exhausted`, `TickFinish` |
| the rest of `process()`, from the request to the last `finish()` | `TickPage`, one step |
| `page_size or min(_DEFAULT_PAGE_SIZE, remaining) or remaining` | `WantedPage` |
| `page.results[:remaining]` | `Kept` |
| the clamps in the providers' `search()` | `PerPage` |
| loop variable, argument of `_sleep()` in `get()` | `attempt`, `nap` |
| `except httpx.HTTPError`; 429 or 5xx; other 4xx; fall through | `TransportError`, `ServerBusy`, `ClientError`, `Success` |
| an exception `get()` does not name | `ForeignError` |
| `time.sleep()` returning, or refusing its argument | `Sleep`, `SleepRefused` |
| `provider.search()` calls `get()` | `CallGet` |
| `get()` returns a response | `ResponseArrives` (its body waits in `answer`) |
| the body is used: rows emitted and state updated; not parsed; of another shape; refused by Arrow | `PageUsed`; `BodyRejected`; `BodyCrashes`; `BatchRejected` |
| `get()` raises what the handler names, or something else | `Refused`, `Escapes` |
| the tick is over, and with it the call | `CallEnds`, `ScanFails` |
| `except (ProviderError, ValueError)` | `Caught` |
| `on_bind()`, `initial_state()` | `Bind` |
| the fields of `_ScanState`, as they are serialized | `DeclaredFields`, `Keep`, `StateOf` |
| `@init_single_worker` | `Readers` |
| the answer of a tick is lost and the tick asked for again | `AnswerLost`: the search was sent, nothing else changed |
| the worker is replaced | `Restart`: stdio scans fail, HTTP scans go on |
| one round of the comprehension over `_map()` | `MapNext`, `MapRaises` |
| `pa.array(...)` of each projected column | `Emit`, `ArrowRejects` |
| `$MOCK_PID`, `$WORKER_PID` | `shell`, `worker` |
| one `kill -0`; one look at the output or the file | `ProbeMock`, `ReadMock`; `ProbeWorker`, `ReadWorker` (two steps each: a process may exit between) |
| the three checks after the suite | `Green`, `Report` |
| `cleanup()`, command by command | `KillWorker`, `WaitWorker`, `KillMock`, `WaitMock`, `Remove` |

`corpus` is the provider's ranked result list for the query. It is constant
except under the quirk `drift`, where `WorkAdded` and `WorkRemoved` change it
between two ticks (offset paging only: a cursor stands for a snapshot). The variables `requests`,
`added`, `removed`, `seen`, `slept`, `obeyed`, `story` and `servers` are history: no guard of the
modelled code reads them (`Drifts` uses two of them as the bound `MaxDrift`).

`IntegrationHarness` stands apart: it is about the script that tests the worker.
The mock server (`mock`) and the subshell it was started from (`shell`) are two
processes, because the script starts it without `exec`; the worker is one. A test
file can pass only while the servers are up, and may fail or be skipped at any
time, as the runner skips what fails with an error that mentions HTTP. `files` are the files
of a run under `$TMPDIR` by what they are: the staged tests and the log of the worker, which
the script makes and never removes, the output file of the mock server, and the port file or
socket, which `cleanup()` does remove. A log and a socket may be there from an earlier run,
since the first has a fixed name and the second the pid of its script.

A provider's `search()` is one step of `ScholarSearch`. In `ScanOverHttp` it is a call
of `get()`, with its attempts and sleeps as steps; the body of the response that ends it
waits in `answer` until `process()` uses it in a step of its own, and the list may change
between any two of these steps. How the tick ends is decided there by the code's own steps:
what `get()` raised against what the handler names (`Caught`), and what the body turned out
to be. That such a scan is one of `ScholarSearch` is a refinement with a mapping (`Seen`): the
abstract scan takes its step when the response arrives, with the page that the list held
then, and the use of the answer is no step of it. `sent`, `waited` and `story` (the call
with which the scan failed) are history.

In `ScholarWorker` a tick is one step, as in `ScholarSearch`; what is new is where the
state is between two ticks (`held`) and that scans take turns. `Name` keeps of the
provider argument the word that `strip().lower()` leaves, whether it had capitals and
whether it had white space around it. A lost answer of a tick that sends no search is
left out: it changes nothing.

In `Records` a text is a sequence of pieces (words, blanks, tags, DOI prefixes), a date
a record of its parts, and a record a function of the fields it has. `Junk` stands for a
value of a type nobody foresaw, `Huge` for an integer beyond a C int. Each record carries
the work it was written from, and the properties compare the batch with that work;
records of no documented shape carry none. `RecordFormats` extends `Records` with what the
documentation of the APIs says of a record and its work, field by field and without
reference to the code: how a text is set out (`SetsOut`: its words in their order, with
blanks and marks as it pleases the API; `Indexes`: each word with its places), how a name
is divided and which authors are groups with a `name` and no parts of one, how a DOI and a
date are written (an unknown DOI as nothing, blanks or a bare prefix), and which other fields
hold a text, a number or null (`FillsRest`; a text may be `""`). `DocumentationAssumption` says that the records with a work are of
that kind (`Documents`), and TLC evaluates it on the instance.

The list helpers of `RecordTexts` (`Without`, `Collapse`, `Sorted`) say which elements
stand in the result and in which order, not how a loop gathers them: `InOrder` lists the
numbers of a finite set by their ranks, `At` the elements of a list at a set of places.
Filters, sorts and folds of the standard and community modules compute the same, but the
provers know nothing of them. `Sorted` takes any order of equal positions, where Python's sort keeps
the order of the dictionary: an index with two words at one position is no documented one.
Operators marked
`mutant` are the single bugs each property is known to catch; nothing else
refers to them.

## Runs

| run | question | bounds |
| --- | --- | --- |
| `scan_honest` | documented APIs: order, completeness, refinement of `BoundedStream` with liveness | lists of 0..6 works, count 1..5, page_size 0, 1, 2, 4; limits 3, 3, 2; default page 2 |
| `scan_wild` | APIs that answer anything: row and request budget, termination | the same |
| `scan_drift` | arXiv's list changes: repeats and misses | lists of 1..4 works, 2 changes |
| `scan_malformed` | violation: untranslated exceptions | the same as `scan_wild` |
| `http_get` | every outcome and Retry-After header | the code's 3 retries |
| `http_raises` | violation: a Retry-After that cannot be slept | the code's 3 retries |
| `scan_http` | a tick as a run of `get()`: refinement of `ScholarSearch` with liveness; requests and sleeps of a whole scan; how it ends | 1 retry, lists of 0, 2, 3 works, count 1, 3, page_size 0, 1, 1 change, sleeps up to 4 |
| `worker` | two scans in one worker: isolation, lost answers, restarts, discovery, the mock server as an API | 7 calls, 2 environments, 2 faults, lists of 2 and 3 works |
| `records` | works written in each API's format come back as the same works | 4 to 5 works and up to 5 undocumented records a provider, pages of 0..2, 3 projections |
| `record_doi` | violation: a DOI with a prefix `clean_doi` does not know | the same |
| `harness` | slow and dying servers, every transport, files of earlier runs: verdict, boot, cleanup, end | 3 polls each, 3 test files |
| `harness_mock` | violation: the mock server survives the script | 3 polls each, 1 test file |

What they show:

* **Order and completeness** (`CursorTracksRows`, `InOrderPrefix`,
  `CompleteOnFinish`, `KeepsPromise`). For all three providers and every mix of
  short and full pages, a scan emits the result list in order, with no row twice
  and none left out, up to `count`. An OpenAlex or Crossref page may be shorter
  than asked for, in the middle of the list, without harm; `scan_honest` includes
  that. arXiv must return exact slices: a short page ends its scan early, and
  this is the one thing the code cannot survive.
* **Budgets** (`CountBudget`, `RequestBudget`, `Terminates`). Empty pages,
  oversized pages, cursors that loop, `""` as a cursor, broken JSON: the scan
  emits at most `count` rows, sends at most one request that brings nothing,
  and ends.
* **Drift** (`RepeatsBounded`, `MissesBounded`). Offset paging over a changing
  list repeats at most one row per insertion and misses at most one per removal. A work
  that changes its rank is not modelled as such: it would be one removal and one insertion.
* **Retry discipline** (`AttemptsBounded`, `OnlyTransientRetried`,
  `EndsForItsReason`, `BackoffBounded`, `RetriesSpaced`, `GetEnds`): at most retries + 1
  requests, retries for transient failures only, own sleeps neither longer nor shorter than
  the backoff, no retry without a pause (`Retry-After: 0` does not make one immediate), an
  honest outcome.
* **Ticks with retries are ticks** (`CallsAreTicks`, `NetworkBudget`, `WaitBudget`). What
  `get()` does inside a tick, and a list that changes meanwhile or while an answer waits to
  be used, adds nothing to the behaviours of a scan; a scan sends at most (retries + 1)
  requests for each row and one search more, and its own sleeps are bounded the same way.
* **Two kinds of errors** (`EndingExplained`). A failing scan raises `RuntimeError` for every
  refusal of a server, the refusal of `time.sleep()` to sleep for a negative time or NaN
  included (`ValueError`); an exception of another kind leaves `process()` exactly for what
  the handler does not name: a foreign exception of httpx, a body of another shape, a value
  Arrow refuses, and a Retry-After that is infinite or too long for `time.sleep()`, which
  raises `OverflowError`. So one header ends a scan in either way, by its value.
* **Scans are independent** (`IndependentStreams`, `TokenTracksRows`, `EveryScanEnds`).
  Whatever another scan does, however often an answer is lost or the worker replaced,
  each scan is a `BoundedStream` of its server's list. The token alone stands for the
  rows the client has, and one reader is what keeps a scan from emitting rows twice.
* **Discovery and mock server** (`DiscoveryHonest`, `MockIsAnApi`). `scholar_providers`
  lists what `get_provider` accepts; every page of the mock server is one a documented
  API could give (with one item per page for the cursor APIs).
* **Records** (`PageWhole`, `DocumentedAccepted`, `DatesAgree`, `TextsRestored`,
  `AuthorsInOrder`, `DoiShared`, `MissingIsNull`). Null locations, works without authors,
  dates of a year or a month, `[[null]]`, blank markup: no documented record costs a page,
  and each work has the same title, authors, abstract, DOI and date from every provider
  that has them. Groups among the authors of a Crossref work are left out, the persons
  around them stay in order. One record of no documented shape loses its page, never a part
  of it. `MissingIsNull` is about what the code cleans (abstracts, DOIs, titles and venues of
  arXiv); titles, venues and links of OpenAlex and Crossref are passed on as they come.
* **A green run means a tested worker** (`GreenIffTested`, `SuiteAfterBoot`, `NothingLeft`,
  `HarnessEnds`). A server may exit at any step, also between a probe and the read
  after it, and the runner skips instead of failing: the script exits 0 exactly
  when every file passed, and always ends. The suite starts only when the servers of this
  run have announced themselves: an old socket of the same name is removed first. Afterwards
  there is no worker, no output file of the mock server, no port file and no socket of this
  run, not even of a worker killed while it boots; the log of the worker and the staged tests
  stay, and the mock server itself does too (see below).

### Bounds

The code's constants are scaled down so that every relation between them still
occurs: the page size limits 200, 200, 100 become 3, 3, 2 (Crossref's below the
others), the default page 25 becomes 2, `page_size` is 0 (automatic), below the
limits, between them and above all of them, `count` is below, at and above every
page size and takes up to five pages, and the lists are empty, shorter than,
equal to and longer than `count`. Two changes of a list (`MaxDrift`) are enough
for an insertion and a removal, or two of either, to fall between any two pages.
`Retries` is the code's own 3. Three polls are enough for a server to announce
itself, or exit, before, between and after them. The works are numbered in list order, so a
repeated, skipped or swapped row is visible.

`scan_http` uses one retry, enough for a failure before the last attempt and at it, and
one change of the list, which falls before, during or after a sleep; its Retry-After
headers are one of each kind `float()` and `time.sleep()` tell apart, a number above
`MaxSleep` (what `time.sleep()` takes at most, 2^63 ns) among them. `worker` has two
scans, enough for one to disturb another; its calls are one of each kind (discovery, each
provider, an unknown name, an empty one, one in capitals, one with white space), its
environments have each value of a variable, and two faults are two lost answers, two
restarts or one of each. `records` has pages of two records, enough for a record to fail
after another and for `count` to cut a page; the works differ in what they leave out.
The proofs below remove the bounds for the safety properties they name.

Deadlock is not checked, because a scan that has finished or raised, a call that has
returned or raised, and an answer that has been emitted or refused really stop.

### Fairness

`ScholarSearch!FairSpec` has weak fairness on `Tick`: DuckDB, like the loop of
`invoke_table_function` in `tests/harness.py` 88-98, calls `process()` until the
scan has finished or raised, and a call returns because every request has a
timeout and the attempts are bounded. Nothing is assumed of the APIs, and the
choice between a page and a failure is never fair. `HttpClient!FairSpec` has weak
fairness on the whole of `Next`: an attempt ends and a finite sleep ends. httpx's
timeout is one per phase of a request (connect, read, write), so a server that
sends a byte now and then can make one attempt last as long as it likes; the
fairness is the assumption that none does. No bound on the length of a sleep
asked for by Retry-After is assumed, and the code has none.
`ScanOverHttp!FairHttpSpec` has weak fairness on `Program`, everything but changes of the
list: the two assumptions above in one, since one thread takes all these steps.
`ScholarWorker!FairSpec` has weak fairness on the tick of each scan: DuckDB asks for the
ticks of every scan it has bound, whatever it asks of others. Faults are never fair, and
there are at most `MaxFaults`: a client whose every answer is lost has no reason to end.
`IntegrationHarness!FairSpec` lets the script go on and SIGTERM end the subshell
and the worker, neither of which handles it; no server need ever come up.

## Proofs

Each theorem holds for all result lists, argument ranges, page limits and
retry counts that satisfy the named assumptions of the modules
(`PageLimitAssumption`, `ArgsAssumption`, `ApiAssumption`, `HttpAssumption`,
`CallAssumption`, `MockAssumption`, `WorkerAssumption`, `RecordsAssumption`,
`ValuesAssumption`, `LiteralsAssumption`, `HarnessAssumption`: limits and `count` are positive, a result list has no work twice, each
backoff is twice the last, the mock server's list is not empty, there is at least one poll
and one test file; `None`, `Junk` and `Huge` are no text, number, date or list of texts;
the literals of the code are strings, which the provers do not know). What the APIs must do in addition is a hypothesis of the theorem that
needs it; each holds of the APIs of the run that checks the property (`scan_honest`,
`scan_drift`, `worker`, `records`).

| theorem | states | from |
| --- | --- | --- |
| `TypeCorrect` | `Spec => []TypeOK` | no further assumption |
| `CountHonored`, `RequestsBounded` | `CountBudget`, `RequestBudget`, whatever the APIs answer | no further assumption |
| `NextPageContinues` | `CursorTracksRows`, also while the list changes | `CursorsLeadOn`: no API sends a blank or backward cursor |
| `RowsInOrder` | `InOrderPrefix` | `CursorsLeadOn` and `ListsStand`: no list changes |
| `FinishedIsComplete` | `CompleteOnFinish` | `Documented`: `CursorsEndWithList` (an API sends an empty page or withholds the cursor only at the end of its list, and arXiv sends exact slices) and `ListsStand` |
| `ImplementsPromise` | `Spec => Promise!Spec`, the safety part of `KeepsPromise` | `Documented` |
| `RepeatedPerInsertion` | `RepeatsBounded`, for any number of changes | `CursorsLeadOn` |
| `MissedPerRemoval` | `MissesBounded`, for any number of changes | `CursorsEndWithList` |
| `GetTypeCorrect`, `RetryDiscipline`, `HonestEnd`, `BackoffBudget`, `NoHotRetry` | the type invariant and the safety properties of `HttpClient` | no further assumption |
| `CallsRefineTicks` | `HttpSpec => Seen!Spec`, the safety part of `CallsAreTicks`: with each answer seen when it arrives, a scan over HTTP is one of `ScholarSearch` | no further assumption |
| `HttpImplementsPromise` | `HttpSpec => SeenScan!Promise!Spec`: with all retries, sleeps and waiting answers a scan is a `BoundedStream` | `Documented` |
| `CallTypes`, `NetworkBounded`, `WaitBounded`, `EndingsExplained` | `CallTypeOK`, `NetworkBudget`, `WaitBudget`, `EndingExplained`, whatever the servers answer | no further assumption |
| `WorkerTypes`, `ListingIsHonest`, `MockSuffices` | `TypeOK`, `DiscoveryHonest`, `MockIsAnApi`, for any scans, calls and faults | no further assumption |
| `TokenStandsForRows` | `TokenTracksRows`, for any number of scans, lost answers and restarts | `LiveCursorsLeadOn`: `CursorsLeadOn` for the live APIs |
| `ScansAreIndependent` | `IndependentStreams` | `LiveCursorsEndWithList` |
| `RecordsTypes`, `PageIsWhole`, `RowsAreRecords` | `TypeOK` and `PageWhole` of `Records`; row i is made from record i | no further assumption: any record may be in the answer |
| `DoiIsShared`, `DatesTold`, `TextsAreRestored`, `AuthorsAreInOrder` | `DoiShared`, `DatesAgree`, `TextsRestored`, `AuthorsInOrder`: the row shows the work, for texts and lists of any length | `DocumentationAssumption` |
| `MissingIsNulled`, `DocumentedAreAccepted` | `MissingIsNull`, `DocumentedAccepted` | `DocumentationAssumption` |
| `GreenIsTested`, `WorkerCleanedUp`, `SuiteHasServers` | `GreenIffTested`, `NothingLeft`, `SuiteAfterBoot` | no further assumption |

None of these invariants is inductive alone.

* `BudgetInv` adds to the type invariant what links the scan state to the
  history: an open scan that may still send a request has had a row for each one
  it sent, because a page without rows also comes without a cursor. Without
  that, `RequestBudget` says nothing about the next tick.
* `TrackInv` adds `CursorTracksRows`: a page that was trimmed is the last one, and, for
  arXiv, the offset grows by the page size only when the page was full. Nothing in it
  mentions the list, so it survives every change of it.
* `OrderInv` adds to `TrackInv` that the rows are a prefix, which needs that the next
  request starts where they end; `CompleteInv` adds why a scan is exhausted: `count` is
  reached, or the list is.
* `DriftInv` adds to `TrackInv` what the works of a changing list are: each occurs once,
  and one that is not in the list any more has been removed. `RepeatInv` counts the repeats
  that have happened together with those that still can: the rows twice emitted, and the
  works beyond the next offset that are rows already, are at most the insertions.
  `RepeatsBounded` alone is not inductive, since an insertion does its harm only with the
  next page. `MissInv` counts in the same way the works behind the next offset that are
  neither new nor rows: at most one for each removal.
* `GetInv` relates `attempt`, the length of `seen` and the sum of the backoffs
  (`Backoff[n] - Backoff[0]` closes the geometric sum). That the last backoff is the longest
  (`BackoffGrows`) is an induction; it is proved by a largest counterexample, which exists
  because strict inclusion is well-founded on the subsets of a finite set.
* `NetworkInv` adds to `BudgetInv` what the calls that ended have cost: at most
  (retries + 1) requests and the whole backoff for each search. A call that goes on
  satisfies `GetInv`, and goes on only while the scan is open and needs a page (`CallInv`),
  so that `requests` is still at most the number of rows. `AnswerInv` says that an answer
  waits exactly while the call has returned, with a page that the budgets allow for: that page
  is emitted later, when the list may be another one. `CallEnded` relates what `get()` raised
  to its last attempt and its last pause, from which `EndingExplained` follows, and shows
  (`EscapeIsForeign`) that what escapes the handler is a foreign reply of `ScholarSearch`.
* `Shape` and `Moves` of `ScholarWorker_proofs` say what a step of the worker is for one
  scan: nothing, a failure, its opening, its listing, its end, or one page taken by one of
  its readers (`StepMoves`). Every invariant after that is about one scan: `ListingInv` that a listing
  has no rows before its one tick, `SearchInv` that the counter in the token is the number
  of rows, `TrackInv` that the rows are the head of the list and the token continues them,
  `StreamInv` that a token with nothing left to fetch belongs to a complete scan. The
  lemmas on pages are those of `ProviderApi_proofs`, which `ScholarSearch_proofs` uses too.
* `RecordsInv` says that the Results so far are those of the first records, in their
  order, and gives the whole batch as a function of the answer, the columns and the room
  that is left. `PageWhole` alone does not say which rows a batch has. `LostInv`, its last
  part, says what an answer was lost to: a record of it that raises, or a value of it that
  Arrow refuses. With it `DocumentedAccepted` is a statement about single records:
  `RecordTaken` shows that none of a documented format raises, `CellsTaken` goes through
  the columns.
* `HarnessInv` says where in the script which results, exit status and processes are
  possible: no result before the suite, so that an error there is never a pass, and
  no live worker after the wait, so that no file can appear after the removal. `BootInv`, a
  part of it, says whose files there are: while the script waits for its worker, the port
  file or socket exists only if this worker has come up.

What the text helpers return for a text of any length would be an induction over the text,
which the provers cannot do. It is avoided by uniqueness: a finite set of integers has
exactly one increasing enumeration (`InOrderIncreases`, `OrderUnique`), so that two lists
made from the same places of a text are equal. The rest follows from which places are
kept. A filter of a filter keeps the places that pass both (`AtAt`, `WithoutOfAt`), so
stripping, collapsing and removing marks keep the words (`StripKeeps`, `SetOutWords`). In
a collapsed text the places are the words' and the first blank after each, whatever the
number of blanks (`FirstBlanksSpace`, `CollapseSpaces`), and a text that is written with
single blanks is determined by its words (`SetOutCollapses`). The positions of an inverted
index are those of the words, each once, so that sorting leaves the word k - 1 at place k
(`SortedByPosition`, `IndexRestored`).

`ImplementsPromise` maps each step to `Deliver`, `Finish`, `Fail` or a stutter,
using `CompleteInv` for `Finish`; the step that emits nothing and finishes at once
is a `Finish`, the one that emits nothing and goes on is a stutter.
`CallsRefineTicks` maps the arrival of a response to the tick: `StateSeen`, `RowsSeen` and
`StatusSeen` are computed from `answer` before the code has changed anything, `ArrivalIsTick`
shows that they make the step of the abstract scan for each kind of body, and the steps that
use the answer leave them as they are. With the theorems of `ScholarSearch_proofs` about that
scan, `HttpImplementsPromise` follows.
`ScansAreIndependent` does what `ImplementsPromise` does for each scan of a worker, where the step of another
scan, a lost answer and a restart that an HTTP scan survives are stutters as well.

Only model-checked: the liveness properties (`Terminates`, `GetEnds`, `EveryScanEnds`,
`HarnessEnds`, and the fair parts of `KeepsPromise` and `CallsAreTicks`), which are out of
the prover's reach. Every invariant of a passing run is a theorem.

## Where code and comments disagree

* `scan_malformed`: `http_client.py` 14-16 says failures are translated and the
  worker never crashes. `process()` catches `ProviderError` and `ValueError`; JSON
  of another shape raises `TypeError` or `AttributeError`, which leaves it as it is.
* `http_raises`: `http_client.py` 74-76 says exhausted retries, transport errors and
  error statuses raise `ProviderError`. A 429 or 5xx with a Retry-After that is
  negative, NaN or infinite raises `ValueError` or `OverflowError` from
  `time.sleep()`, after one attempt.
* `harness_mock`: `run-integration.sh` 87 says the mock server is killed by
  `cleanup()`. It is started in a subshell without `exec`, so the pid is the
  subshell's; the server goes on running after the script.
* `record_doi`: `base.py` 123 says `clean_doi` strips "any URL / `doi:` prefix". It knows
  four, removes one and does not strip again.
* `base.py` 81 says `parse_date` returns a UTC datetime. An offset other than
  zero is kept (106), and the year taken from the result is the local one, while the column
  `published` is in UTC. No API documents such dates; `records` has one, without a work, and
  `Cell` converts it.
* `README.md` 80 and `schema_utils.py` 59 say that `authors` are the
  author display names, in listed order. A Crossref author that is a group has a name and
  neither part of one, and is dropped; `AuthorsInOrder` says that the persons are kept.
* `tables.py` 51-53 says `VGI_SCHOLAR_OPENALEX_BASE_URL` overrides OpenAlex.
  With `provider := ' openalex '` or `''` the provider is OpenAlex and the override is not used.
  For every other way to write the name, capitals included, both readings agree (`Resolved`,
  `IsOverridden`).
* `tables.py` 421 says the row order of `scholar_providers` is the
  registration order. `provider_names()` sorts (`ListedProviders`), so that the first row is
  not the default.
* `openalex.py` 47-48 says the scan stops on a "short/empty" page; the code stops on
  an empty one. `scan_honest` needs it that way.

## Not modelled

Catalogue texts in `worker.py` and documentation strings in `tables.py`, about half of the
lines of the package; HTTP headers, the contact address and error texts; the bytes of a
batch; the framing and signing of tokens and the unix socket of the vgi library;
environments that change while a worker runs, or that differ between a worker and the one
that replaces it; works that change their rank as one step; two adjacent paragraphs of an
abstract, whose words are joined; OpenAlex and Crossref objects that are null against their
documentation, beyond those some record of `records` has (such a page is lost); blanks after a
DOI prefix and the letter case inside a DOI, which no API documents to vary; a batch without
columns; packaging and release files; in
`scripts/run_sql_e2e.py` all but the environment it exports; in the CI script the staging
and rewriting of test files, and signals sent to the script.

## Plan

Done: every component that has behaviour, with its run; a theorem for every invariant and
for the safety part of each refinement. What could come next:

1. A fourth provider needs a case in `Providers`, `Records` and `RecordFormats` and one
   lemma of each kind (`...ShowsTexts`, `...ListsAuthors`, `...TakesRecord`).
2. Liveness, with a prover that has rules for fairness.
