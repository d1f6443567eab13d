----------------------------- MODULE ScanOverHttp -----------------------------
(***************************************************************************)
(* A scan whose searches are calls of http_client.get(): one tick of       *)
(* ScholarSearch is here a run of HttpClient, with its attempts and sleeps *)
(* as steps of their own, and process() uses the answer in a step after    *)
(* its arrival.  The result list may change between any two of them.       *)
(***************************************************************************)
EXTENDS ScholarSearch

CONSTANTS Retries, Backoff, MaxSleep, Outcomes, RetryAfters   \* of HttpClient

VARIABLES
  pc, raised, attempt, nap, seen, slept, obeyed, \* the call; pc may be "idle"
  answer,    \* the body get() has returned, until process() has used it
  sent,      \* attempts of the calls that have ended          (history)
  waited,    \* their own backoff: slept without obeyed        (history)
  story      \* the call with which the scan failed            (history)

Http == INSTANCE HttpClient

ASSUME CallAssumption ==
  /\ Retries \in Nat
  /\ Backoff \in [0 .. Retries -> Nat \ {0}]
  /\ \A n \in 1 .. Retries : Backoff[n] = 2 * Backoff[n - 1]
  /\ MaxSleep \in Nat /\ \A n \in 0 .. Retries : Backoff[n] <= MaxSleep
  /\ Outcomes \subseteq Http!OutcomeKinds
  /\ RetryAfters \subseteq Http!Header

\* A reply that get() cannot handle is what ProviderApi calls "foreign".
ASSUME ForeignAssumption ==
  \/ "foreign" \in Outcomes
  \/ \E header \in RetryAfters : Http!SleepError(header) = "OverflowError"
  => \A p \in ProviderNames : "foreign" \in Quirks[p]

call == <<pc, raised, attempt, nap, seen, slept, obeyed>>
spent == <<sent, waited, story>>
all == <<vars, call, answer, spent>>

NoPage == [results |-> <<>>, next_cursor |-> NoCursor]
NoAnswer == [kind |-> "none", page |-> NoPage]
NoStory == [seen |-> <<>>, nap |-> Http!NoNap, body |-> "none"]

HttpInit ==
  /\ Init
  /\ pc = "idle"
  /\ raised = "none"
  /\ attempt = 0
  /\ nap = Http!NoNap
  /\ seen = <<>>
  /\ slept = 0
  /\ obeyed = 0
  /\ answer = NoAnswer
  /\ sent = 0
  /\ waited = 0
  /\ story = NoStory

-----------------------------------------------------------------------------
\* process() finds that it needs a page, and the provider calls get().
CallGet ==
  /\ status = "open"
  /\ ~ Exhausted
  /\ pc = "idle"
  /\ pc' = "send"
  /\ UNCHANGED <<vars, raised, attempt, nap, seen, slept, obeyed, answer, spent>>

\* An attempt that brings no response, or a sleep: process() waits.
GetGoesOn == Http!Next /\ pc' # "returned" /\ UNCHANGED <<vars, answer, spent>>

\* What the body of a response may be: a page; neither JSON nor XML; JSON of
\* an unforeseen shape; or a page with a value that Arrow rejects.
Bodies ==
  {[kind |-> "page", page |-> page] : page \in Pages}
  \cup {[kind |-> "unparsable", page |-> NoPage]}
  \cup {[kind |-> "malformed", page |-> NoPage] : quirk \in TheQuirks \cap {"malformed"}}
  \cup {[kind |-> "unrepresentable", page |-> page] :
           page \in {page \in Pages : Kept(page) # <<>> /\ "unrepresentable" \in TheQuirks}}

\* The response that ends the call shows the list as it is now.
ResponseArrives ==
  /\ Http!Next
  /\ pc' = "returned"
  /\ answer' \in Bodies
  /\ UNCHANGED <<vars, spent>>

AttemptKept ==                           \* mutant: the next call goes on counting
  /\ pc' = "idle"
  /\ raised' = "none"
  /\ nap' = Http!NoNap
  /\ seen' = <<>>
  /\ slept' = 0
  /\ obeyed' = 0
  /\ answer' = NoAnswer
  /\ sent' = sent + Len(seen)
  /\ waited' = waited + slept - obeyed
  /\ UNCHANGED attempt

\* The tick is over and the local variables of its call are gone.
CallEnds ==
  /\ pc' = "idle"
  /\ raised' = "none"
  /\ attempt' = 0
  /\ nap' = Http!NoNap
  /\ seen' = <<>>
  /\ slept' = 0
  /\ obeyed' = 0
  /\ answer' = NoAnswer
  /\ sent' = sent + Len(seen)
  /\ waited' = waited + slept - obeyed

\* It is over with an exception that leaves process().
ScanFails(ending) ==
  /\ CallEnds
  /\ status' = ending
  /\ requests' = requests + 1
  /\ story' = [seen |-> seen, nap |-> nap, body |-> answer.kind]
  /\ UNCHANGED <<args, rows, world>>

PageAsked ==                             \* mutant: fetched again to be emitted
  /\ pc = "returned"
  /\ answer.kind = "page"
  /\ \E page \in Pages :
       /\ rows' = rows \o Kept(page)
       /\ state' = After(page)
       /\ status' = IF Kept(page) = <<>> /\ page.next_cursor = NoCursor
                    THEN "finished" ELSE "open"
  /\ requests' = requests + 1
  /\ CallEnds
  /\ UNCHANGED <<args, world, story>>

\* process() emits what it keeps of the page that came with the answer.
PageUsed ==
  /\ pc = "returned"
  /\ answer.kind = "page"
  /\ rows' = rows \o Kept(answer.page)
  /\ state' = After(answer.page)
  /\ status' = IF Kept(answer.page) = <<>> /\ answer.page.next_cursor = NoCursor
               THEN "finished" ELSE "open"
  /\ requests' = requests + 1
  /\ CallEnds
  /\ UNCHANGED <<args, world, story>>

\* resp.json() raises ValueError, or the XML parser makes a ProviderError.
BodyRejected ==
  /\ pc = "returned"
  /\ answer.kind = "unparsable"
  /\ ScanFails("clean_error")
  /\ UNCHANGED state

\* Walking the body raises something that the handler does not name.
BodyCrashes ==
  /\ pc = "returned"
  /\ answer.kind = "malformed"
  /\ ScanFails("raw_error")
  /\ UNCHANGED state

\* results_to_batch() raises, outside the handler.
BatchRejected ==
  /\ pc = "returned"
  /\ answer.kind = "unrepresentable"
  /\ ScanFails("raw_error")
  /\ state' = [state EXCEPT !.started = TRUE]

CaughtWithOverflow ==                    \* mutant: OverflowError caught as well
  {"ProviderError", "ValueError", "OverflowError"}

\* What the handler around search() catches.
Caught == {"ProviderError", "ValueError"}

TriedAgain ==                            \* mutant: the error is swallowed
  /\ pc = "raised"
  /\ raised \in Caught
  /\ CallEnds
  /\ UNCHANGED <<vars, story>>

\* get() raised an exception that the handler turns into its own.
Refused ==
  /\ pc = "raised"
  /\ raised \in Caught
  /\ ScanFails("clean_error")
  /\ UNCHANGED state

\* get() raised one that it does not name.
Escapes ==
  /\ pc = "raised"
  /\ raised \notin Caught
  /\ ScanFails("raw_error")
  /\ UNCHANGED state

\* A tick that needs no page.
Finishes == pc = "idle" /\ TickFinish /\ UNCHANGED <<call, answer, spent>>

Program ==
  \/ CallGet \/ GetGoesOn \/ ResponseArrives
  \/ PageUsed \/ BodyRejected \/ BodyCrashes \/ BatchRejected
  \/ Refused \/ Escapes \/ Finishes

-----------------------------------------------------------------------------
(* The scan as ScholarSearch sees it: an answer has its effect when it     *)
(* arrives, whenever process() comes to use it.                            *)

StateSeen ==
  CASE answer.kind = "page" -> After(answer.page)
    [] answer.kind = "unrepresentable" -> [state EXCEPT !.started = TRUE]
    [] OTHER -> state

RowsSeen == IF answer.kind = "page" THEN rows \o Kept(answer.page) ELSE rows

StatusSeen ==
  CASE answer.kind = "none" -> status
    [] answer.kind = "page" ->
         IF Kept(answer.page) = <<>> /\ answer.page.next_cursor = NoCursor
         THEN "finished" ELSE "open"
    [] answer.kind = "unparsable" -> "clean_error"
    [] OTHER -> "raw_error"

RequestsSeen == IF answer.kind = "none" THEN requests ELSE requests + 1

Seen == INSTANCE ScholarSearch WITH
  state <- StateSeen, rows <- RowsSeen, status <- StatusSeen, requests <- RequestsSeen

\* The list may change before, between and after the attempts, and while an
\* answer waits to be used: it matters as long as the scan needs more.
ListChanges ==
  /\ StatusSeen = "open"
  /\ WorkAdded \/ WorkRemoved
  /\ UNCHANGED <<call, answer, spent>>

HttpNext == Program \/ ListChanges

HttpSpec == HttpInit /\ [][HttpNext]_all

\* Attempts and sleeps end, and DuckDB asks for the next tick.
FairHttpSpec == HttpSpec /\ WF_all(Program)

-----------------------------------------------------------------------------
\* Every variable has its type; a call is made only for a page that is
\* needed, an answer is there only while process() has it to use, and
\* nothing is left of either afterwards.
CallTypeOK ==
  /\ TypeOK
  /\ \/ /\ pc = "idle"
        /\ <<raised, attempt, nap, seen, slept, obeyed>>
             = <<"none", 0, Http!NoNap, <<>>, 0, 0>>
     \/ /\ Http!TypeOK
        /\ status = "open"
        /\ ~ Exhausted
  /\ answer # NoAnswer <=> pc = "returned"
  /\ sent \in Nat
  /\ waited \in Nat

\* A tick with all its retries is one tick of ScholarSearch, against the
\* list as it was when the last attempt was answered: what happens between
\* the attempts, and between an answer and its use, cannot be told from a
\* scan whose searches are atomic; and none of it keeps a scan from ending.
CallsAreTicks == Seen!FairSpec

\* The error a query gets tells whose fault it was: RuntimeError, however
\* often the call was retried, for a server that refuses, stays busy, asks
\* for a negative pause or sends what cannot be parsed; and an exception of
\* another kind exactly for what nothing in the worker foresees, among them
\* a pause that is too long (see the README).
EndingExplained ==
  status \in {"clean_error", "raw_error"} =>
    LET last == story.seen[Len(story.seen)]
        unforeseen == \/ last = "foreign"
                      \/ Http!SleepError(story.nap) = "OverflowError"
                      \/ last = "ok" /\ story.body \in {"malformed", "unrepresentable"}
    IN  status = IF unforeseen THEN "raw_error" ELSE "clean_error"

\* The HTTP requests of a whole scan, retries and failed searches included,
\* are bounded by the rows it delivers.
NetworkBudget == sent + Len(seen) <= (Retries + 1) * (Len(rows) + 1)

\* So is the time the scan sleeps of its own accord.
WaitBudget ==
  waited + slept - obeyed <= (Backoff[Retries] - Backoff[0]) * (Len(rows) + 1)
=============================================================================
