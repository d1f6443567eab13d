-------------------------- MODULE ScanOverHttp_proofs --------------------------
(***************************************************************************)
(* A scan whose searches are calls of get() cannot be told from one whose  *)
(* searches are atomic, and so keeps what that one promises; its endings   *)
(* tell their reason; the number of its HTTP requests and the time it      *)
(* sleeps of its own accord are bounded, for every number of retries.      *)
(* What get() does within a call is proved in HttpClient_proofs and used   *)
(* here by name.                                                           *)
(***************************************************************************)
EXTENDS ScanOverHttp, ScholarSearch_proofs

Get == INSTANCE HttpClient_proofs

-----------------------------------------------------------------------------
(* A call is a run of HttpClient.                                          *)

\* The two instances of HttpClient mean the same kinds of answers.
LEMMA SameKinds ==
  Get!OutcomeKinds = Http!OutcomeKinds /\ Get!Header = Http!Header
BY DEF Get!OutcomeKinds, Get!Transient, Get!Header, Get!HeaderKinds,
       Http!OutcomeKinds, Http!Transient, Http!Header, Http!HeaderKinds

\* The step of a call within a scan is a step of HttpClient.
LEMMA SameSteps == Http!Next => Get!Next
BY DEF Get!Next, Http!Next, Get!TransportError, Http!TransportError,
       Get!ServerBusy, Http!ServerBusy, Get!ClientError, Http!ClientError,
       Get!Success, Http!Success, Get!ForeignError, Http!ForeignError,
       Get!Sleep, Http!Sleep, Get!SleepRefused, Http!SleepRefused,
       Get!Attempt, Http!Attempt, Get!RetryWith, Http!RetryWith,
       Get!NapFor, Http!NapFor, Get!Falsy, Http!Falsy, Get!Parsed, Http!Parsed,
       Get!Own, Http!Own, Get!NoNap, Http!NoNap, Get!SleepError, Http!SleepError

\* ... and the same refused pauses.
LEMMA SameErrors ==
  Get!NoNap = Http!NoNap /\ \A value : Get!SleepError(value) = Http!SleepError(value)
BY DEF Get!SleepError, Http!SleepError, Get!NoNap, Http!NoNap

\* The call variables as a call finds them and leaves them.
Untouched ==
  <<raised, attempt, nap, seen, slept, obeyed>> = <<"none", 0, Http!NoNap, <<>>, 0, 0>>

\* A call that has just begun satisfies the invariant of get().
LEMMA CallBegins == Untouched /\ pc = "send" => Get!GetInv
<1>1. Untouched /\ pc = "send" => Get!Init
  BY DEF Untouched, Get!Init, Get!NoNap, Http!NoNap
<1>2. Get!Init => Get!GetInv
  BY Get!GetInit, CallAssumption, SameKinds
<1> QED BY <1>1, <1>2

\* A step of get(), or none, keeps that invariant.
LEMMA CallStep ==
  Get!GetInv /\ (Http!Next \/ UNCHANGED call) => Get!GetInv'
<1>1. Get!GetInv /\ [Get!Next]_(Get!vars) => Get!GetInv'
  BY Get!GetStep, CallAssumption, SameKinds
<1>2. UNCHANGED call => UNCHANGED Get!vars
  BY DEF call, Get!vars
<1> QED BY <1>1, <1>2, SameSteps

\* The longest time that one call sleeps of its own accord.
LongestWait == Backoff[Retries] - Backoff[0]

\* It is the backoff of the last attempt.
LEMMA LongestWaitType ==
  /\ LongestWait \in Nat
  /\ \A n \in 0 .. Retries : Backoff[n] \in Nat /\ Backoff[n] - Backoff[0] <= LongestWait
<1>1. ASSUME NEW n \in 0 .. Retries PROVE Backoff[n] <= Backoff[Retries]
  BY <1>1, Get!BackoffGrows, CallAssumption, SameKinds
<1>2. 0 \in 0 .. Retries /\ Retries \in 0 .. Retries
  BY CallAssumption
<1>3. \A n \in 0 .. Retries : Backoff[n] \in Nat
  BY CallAssumption
<1> QED BY <1>1, <1>2, <1>3 DEF LongestWait

\* What a call has cost so far: at most Retries + 1 requests, and its own
\* backoff.
LEMMA CallCosts ==
  ASSUME Get!GetInv
  PROVE  /\ Len(seen) \in Nat /\ Len(seen) <= Retries + 1
         /\ slept \in Nat /\ obeyed \in Nat
         /\ slept - obeyed \in Nat /\ slept - obeyed <= LongestWait
<1>1. /\ seen \in Seq(Get!OutcomeKinds) /\ Len(seen) <= Retries + 1
      /\ slept \in Nat /\ obeyed \in Nat /\ obeyed <= slept
      /\ slept - obeyed <= Backoff[attempt] - Backoff[0]
      /\ attempt \in 0 .. Retries
  BY DEF Get!GetInv, Get!TypeOK, Get!AttemptsBounded, Get!BackoffBounded
<1>2. /\ LongestWait \in Nat /\ Backoff[attempt] - Backoff[0] <= LongestWait
      /\ Backoff[attempt] \in Nat /\ Backoff[0] \in Nat
  <2>1. 0 \in 0 .. Retries
    BY CallAssumption
  <2> QED BY <1>1, <2>1, LongestWaitType
<1> QED BY <1>1, <1>2

-----------------------------------------------------------------------------
(* What all calls of a scan cost.                                          *)

\* A call is going on, for a page that the scan needs.
CallInv == Get!GetInv /\ status = "open" /\ ~ Exhausted

\* The calls that have ended cost at most their share for each search.
SpentInv ==
  /\ sent \in Nat /\ waited \in Nat
  /\ sent <= (Retries + 1) * requests
  /\ waited <= LongestWait * requests

\* There is an answer exactly while process() has it to use, and its page is
\* one that the budgets allow for.
AnswerInv ==
  /\ answer = NoAnswer <=> pc # "returned"
  /\ answer.kind = "none" <=> answer = NoAnswer
  /\ answer.kind \in {"none", "page", "unparsable", "malformed", "unrepresentable"}
  /\ answer.kind \in {"page", "unrepresentable"} => PageFits(answer.page)

\* The inductive invariant: the calls that have ended cost no more than the
\* searches allow, a call is made only while the scan needs a page, and
\* nothing is left of it and of its answer afterwards.
NetworkInv ==
  /\ BudgetInv
  /\ (pc = "idle" /\ Untouched) \/ CallInv
  /\ AnswerInv
  /\ SpentInv
  /\ EndingExplained

\* The bodies that a response may have.
LEMMA BodyType ==
  ASSUME TypeOK, ~ Exhausted, NEW body \in Bodies
  PROVE  /\ body.kind \in {"page", "unparsable", "malformed", "unrepresentable"}
         /\ body # NoAnswer
         /\ body.kind \in {"page", "unrepresentable"} =>
              body.page \in Pages /\ PageFits(body.page)
         /\ body.kind = "unrepresentable" =>
              Kept(body.page) # <<>> /\ "unrepresentable" \in TheQuirks
         /\ body.kind = "malformed" => "malformed" \in TheQuirks
<1>1. /\ body.kind \in {"page", "unparsable", "malformed", "unrepresentable"}
      /\ body.kind \in {"page", "unrepresentable"} => body.page \in Pages
      /\ body.kind = "unrepresentable" =>
           Kept(body.page) # <<>> /\ "unrepresentable" \in TheQuirks
      /\ body.kind = "malformed" => "malformed" \in TheQuirks
  BY DEF Bodies
<1>2. body # NoAnswer
  BY <1>1 DEF NoAnswer
<1>3. \A page \in Pages : PageFits(page)
  BY PageType DEF PageFits
<1> QED BY <1>1, <1>2, <1>3

\* One share more for one search more.
LEMMA OneMore ==
  ASSUME NEW share \in Nat, NEW n \in Nat, NEW cost \in Nat, cost <= share * n,
         NEW more \in Nat, more <= share
  PROVE  cost + more <= share * (n + 1)
<1>1. share * (n + 1) = share * n + share /\ share * n \in Nat
  OBVIOUS
<1> QED BY <1>1

\* Multiplication by a natural number keeps an order.
LEMMA TimesMonotone ==
  ASSUME NEW k \in Nat, NEW a \in Nat, NEW b \in Nat, a <= b
  PROVE  k * a <= k * b
<1>1. PICK d \in Nat : b = a + d
  <2>1. b - a \in Nat /\ b = a + (b - a)
    OBVIOUS
  <2> QED BY <2>1
<1>2. k * b = k * a + k * d
  BY <1>1
<1>3. k * d \in Nat /\ k * a \in Int
  BY <1>1
<1> QED BY <1>2, <1>3

\* A tick that ends leaves nothing behind but what its call has cost.
LEMMA EndCounts ==
  ASSUME NetworkInv, CallEnds, pc # "idle", requests' = requests + 1
  PROVE  ((pc = "idle" /\ Untouched) /\ AnswerInv /\ SpentInv)'
<1>1. /\ pc' = "idle" /\ Untouched' /\ answer' = NoAnswer
      /\ sent' = sent + Len(seen) /\ waited' = waited + slept - obeyed
  BY DEF CallEnds, Untouched, Http!NoNap
<1>2. /\ Len(seen) \in Nat /\ Len(seen) <= Retries + 1
      /\ slept \in Nat /\ obeyed \in Nat
      /\ slept - obeyed \in Nat /\ slept - obeyed <= LongestWait
  BY CallCosts DEF NetworkInv, CallInv
<1>3. /\ sent \in Nat /\ sent <= (Retries + 1) * requests
      /\ waited \in Nat /\ waited <= LongestWait * requests
      /\ requests \in Nat /\ Retries + 1 \in Nat
  BY CallAssumption DEF NetworkInv, SpentInv, BudgetInv, TypeOK
<1>4. sent' \in Nat /\ sent' <= (Retries + 1) * requests'
  BY <1>1, <1>2, <1>3, OneMore
<1>5. waited' \in Nat /\ waited' <= LongestWait * requests'
  <2>1. waited' = waited + (slept - obeyed)
    BY <1>1, <1>2, <1>3
  <2>2. waited + (slept - obeyed) <= LongestWait * (requests + 1)
    BY <1>2, <1>3, LongestWaitType, OneMore
  <2> QED BY <1>2, <1>3, <2>1, <2>2
<1>6. SpentInv'
  BY <1>4, <1>5 DEF SpentInv, LongestWait
<1>7. AnswerInv'
  BY <1>1 DEF AnswerInv, NoAnswer
<1> QED BY <1>1, <1>6, <1>7

\* A step that neither makes nor ends a call costs nothing.
LEMMA SpentStands ==
  ASSUME SpentInv, UNCHANGED <<spent, requests>>
  PROVE  SpentInv'
BY DEF SpentInv, spent, LongestWait

\* The story of an ending does not change while the scan goes on.
LEMMA EndingStands ==
  ASSUME EndingExplained, UNCHANGED <<status, spent>>
  PROVE  EndingExplained'
BY DEF EndingExplained, spent, Http!SleepError

\* Nor does an answer, while nothing uses it.
LEMMA AnswerStands ==
  ASSUME AnswerInv, UNCHANGED <<answer, args>>, pc' = "returned" <=> pc = "returned"
  PROVE  AnswerInv'
BY DEF AnswerInv, PageFits

\* Nor is anything left behind.
LEMMA CallStands ==
  ASSUME (pc = "idle" /\ Untouched) \/ CallInv, UNCHANGED <<call, scan, args>>
  PROVE  ((pc = "idle" /\ Untouched) \/ CallInv)'
<1>1. CASE pc = "idle" /\ Untouched
  BY <1>1 DEF Untouched, call, Http!NoNap
<1>2. CASE CallInv
  <2>1. Get!GetInv'
    BY <1>2, CallStep DEF CallInv
  <2>2. status' = "open" /\ (~ Exhausted)'
    BY <1>2 DEF CallInv, scan, Exhausted
  <2> QED BY <2>1, <2>2 DEF CallInv
<1> QED BY <1>1, <1>2

\* A scan that fails keeps the invariant, when the call it fails with
\* explains the ending.
LEMMA FailKeeps ==
  ASSUME NetworkInv, NEW ending \in {"clean_error", "raw_error"}, ScanFails(ending),
         pc \in {"returned", "raised"},
         state' \in {state, [state EXCEPT !.started = TRUE]},
         ending = "raw_error" <=>
           \/ Http!LastSeen = "foreign"
           \/ Http!SleepError(nap) = "OverflowError"
           \/ Http!LastSeen = "ok" /\ answer.kind \in {"malformed", "unrepresentable"}
  PROVE  NetworkInv'
<1>1. /\ status = "open"
      /\ status' = ending /\ requests' = requests + 1
      /\ story' = [seen |-> seen, nap |-> nap, body |-> answer.kind]
      /\ UNCHANGED <<args, rows, world>>
      /\ CallEnds
  BY DEF NetworkInv, CallInv, ScanFails
<1>2. BudgetInv'
  BY <1>1, BudgetFail DEF NetworkInv
<1>3. EndingExplained'
  <2>1. /\ story'.seen = seen /\ story'.nap = nap /\ story'.body = answer.kind
    BY <1>1
  <2>2. status' = IF \/ Http!LastSeen = "foreign"
                     \/ Http!SleepError(nap) = "OverflowError"
                     \/ Http!LastSeen = "ok" /\ answer.kind \in {"malformed", "unrepresentable"}
                  THEN "raw_error" ELSE "clean_error"
    BY <1>1
  <2> QED BY <2>1, <2>2, Zenon DEF EndingExplained, Http!LastSeen, Http!SleepError
<1> QED BY <1>1, <1>2, <1>3, EndCounts DEF NetworkInv

\* How a call has ended, while its tick goes on.
LEMMA CallEnded ==
  ASSUME NetworkInv
  PROVE  /\ pc = "raised" =>
              /\ answer.kind = "none"
              /\ raised = CASE Http!LastSeen = "foreign" -> "other"
                           [] Http!LastSeen # "foreign" /\ Http!SleepError(nap) # "none"
                                -> Http!SleepError(nap)
                           [] OTHER -> "ProviderError"
         /\ pc = "returned" =>
              Http!LastSeen = "ok" /\ Http!SleepError(nap) = "none" /\ answer.kind # "none"
<1>1. CASE pc = "idle"
  BY <1>1
<1>2. CASE CallInv
  <2>1. /\ Get!EndsForItsReason
        /\ pc = "returned" => nap = Get!NoNap
        /\ Get!SleepError(Get!NoNap) = "none"
    BY <1>2, Get!NoNapSleeps, CallAssumption, SameKinds DEF CallInv, Get!GetInv
  <2>2. Get!LastSeen = Http!LastSeen /\ Get!SleepError(nap) = Http!SleepError(nap)
    BY SameErrors DEF Get!LastSeen, Http!LastSeen
  <2>3. answer.kind = "none" <=> pc # "returned"
    BY DEF NetworkInv, AnswerInv
  <2> QED BY <2>1, <2>2, <2>3, SameErrors DEF Get!EndsForItsReason
<1> QED BY <1>1, <1>2 DEF NetworkInv

\* What leaves a call unforeseen is foreign to the APIs, too.
LEMMA EscapeIsForeign ==
  ASSUME NetworkInv, pc = "raised", raised \notin Caught
  PROVE  "foreign" \in TheQuirks
<1>1. CallInv
  BY DEF NetworkInv
<1>2. Get!FromOutside /\ raised \in {"none", "ProviderError", "ValueError", "OverflowError", "other"}
  BY <1>1 DEF CallInv, Get!GetInv, Get!TypeOK
<1>3. raised # "none"
  BY CallEnded
<1>4. \/ "foreign" \in Outcomes
      \/ \E header \in RetryAfters : Http!SleepError(header) = "OverflowError"
  BY <1>2, <1>3, SameErrors DEF Get!FromOutside, Caught
<1>5. args.provider \in ProviderNames
  BY DEF NetworkInv, BudgetInv, TypeOK
<1> QED BY <1>4, <1>5, ForeignAssumption DEF TheQuirks

\* Every step keeps the invariant.
LEMMA NetworkStep == NetworkInv /\ [HttpNext]_all => NetworkInv'
<1> SUFFICES ASSUME NetworkInv, [HttpNext]_all PROVE NetworkInv'
  OBVIOUS
<1>1. CASE CallGet
  <2>1. /\ pc = "idle" /\ pc' = "send"
        /\ UNCHANGED <<raised, attempt, nap, seen, slept, obeyed>>
        /\ UNCHANGED <<spent, requests, answer, args, status>>
        /\ UNCHANGED vars
        /\ status' = "open" /\ (~ Exhausted)'
    BY <1>1 DEF CallGet, vars, scan, Exhausted
  <2>2. Untouched'
    BY <2>1 DEF NetworkInv, CallInv, Get!GetInv, Get!TypeOK, Untouched, Http!NoNap
  <2>3. (Untouched /\ pc = "send" => Get!GetInv)'
    BY CallBegins, PTL
  <2>4. CallInv'
    BY <2>1, <2>2, <2>3 DEF CallInv
  <2>5. SpentInv' /\ AnswerInv' /\ EndingExplained'
    BY <2>1, SpentStands, AnswerStands, EndingStands DEF NetworkInv
  <2>6. BudgetInv'
    BY <2>1, BudgetStep DEF NetworkInv
  <2> QED BY <2>4, <2>5, <2>6 DEF NetworkInv
<1>2. CASE GetGoesOn \/ ResponseArrives
  <2>1. /\ Http!Next /\ UNCHANGED <<spent, requests, status>>
        /\ UNCHANGED <<scan, args>> /\ UNCHANGED vars
        /\ IF pc' = "returned" THEN answer' \in Bodies ELSE answer' = answer
    BY <1>2 DEF GetGoesOn, ResponseArrives, vars, scan
  <2>2. pc \in {"send", "sleep"}
    BY <2>1 DEF Http!Next, Http!TransportError, Http!ServerBusy, Http!ClientError,
                Http!Success, Http!ForeignError, Http!Attempt, Http!Sleep,
                Http!SleepRefused
  <2>3. CallInv /\ CallInv'
    <3>1. Get!GetInv' /\ CallInv
      BY <2>1, <2>2, CallStep DEF NetworkInv, CallInv
    <3> QED BY <2>1, <3>1 DEF CallInv, scan, Exhausted
  <2>4. SpentInv' /\ EndingExplained'
    BY <2>1, SpentStands, EndingStands DEF NetworkInv
  <2>5. BudgetInv'
    BY <2>1, BudgetStep DEF NetworkInv
  <2>6. AnswerInv'
    <3>1. CASE pc' # "returned"
      BY <2>1, <2>2, <3>1, AnswerStands DEF NetworkInv, vars
    <3>2. CASE pc' = "returned"
      <4>1. TypeOK /\ ~ Exhausted /\ answer' \in Bodies
        BY <2>1, <2>3, <3>2 DEF NetworkInv, BudgetInv, CallInv
      <4>2. /\ answer'.kind \in {"page", "unparsable", "malformed", "unrepresentable"}
            /\ answer' # NoAnswer
            /\ answer'.kind \in {"page", "unrepresentable"} => PageFits(answer'.page)
        BY <4>1, BodyType
      <4> QED BY <2>1, <3>2, <4>2 DEF AnswerInv, PageFits, vars
    <3> QED BY <3>1, <3>2
  <2> QED BY <2>3, <2>4, <2>5, <2>6 DEF NetworkInv
<1>3. CASE PageUsed
  <2>1. /\ pc = "returned" /\ answer.kind = "page" /\ requests' = requests + 1
        /\ CallEnds /\ Emits(answer.page) /\ status' \in {"finished", "open"}
    BY <1>3 DEF PageUsed, Emits
  <2>2. status = "open" /\ ~ Exhausted /\ PageFits(answer.page)
    BY <2>1 DEF NetworkInv, CallInv, AnswerInv
  <2>3. BudgetInv'
    BY <2>1, <2>2, BudgetEmit DEF NetworkInv
  <2>4. EndingExplained'
    BY <2>1 DEF EndingExplained
  <2> QED BY <2>1, <2>3, <2>4, EndCounts DEF NetworkInv
<1>4. CASE BodyRejected
  BY <1>4, FailKeeps, CallEnded DEF BodyRejected
<1>5. CASE BodyCrashes
  BY <1>5, FailKeeps, CallEnded DEF BodyCrashes
<1>6. CASE BatchRejected
  BY <1>6, FailKeeps, CallEnded DEF BatchRejected
<1>7. CASE Refused
  <2>1. /\ pc = "raised" /\ ScanFails("clean_error") /\ state' = state
        /\ raised \in {"ProviderError", "ValueError"}
    BY <1>7 DEF Refused, Caught
  <2>2. /\ Http!LastSeen # "foreign" /\ answer.kind = "none"
        /\ Http!SleepError(nap) # "OverflowError"
    BY <2>1, CallEnded
  <2> QED BY <2>1, <2>2, FailKeeps
<1>8. CASE Escapes
  <2>1. /\ pc = "raised" /\ ScanFails("raw_error") /\ state' = state
        /\ raised \notin {"ProviderError", "ValueError"}
    BY <1>8 DEF Escapes, Caught
  <2>2. Http!SleepError(nap) \in {"none", "ValueError", "OverflowError"}
    BY DEF Http!SleepError
  <2>3. Http!LastSeen = "foreign" \/ Http!SleepError(nap) = "OverflowError"
    BY <2>1, <2>2, CallEnded
  <2> QED BY <2>1, <2>3, FailKeeps
<1>9. CASE Finishes
  <2>1. /\ pc = "idle" /\ UNCHANGED <<call, answer, spent, requests, args>>
        /\ status' = "finished" /\ pc' = pc /\ TickFinish
    BY <1>9 DEF Finishes, TickFinish, call
  <2>2. pc' = "idle" /\ Untouched'
    BY <2>1 DEF NetworkInv, CallInv, Get!GetInv, Get!TypeOK, Untouched, call, Http!NoNap
  <2>3. SpentInv' /\ AnswerInv'
    BY <2>1, SpentStands, AnswerStands DEF NetworkInv
  <2>4. EndingExplained'
    BY <2>1 DEF EndingExplained
  <2>5. BudgetInv'
    BY <2>1, BudgetStep DEF NetworkInv, Next, Tick
  <2> QED BY <2>2, <2>3, <2>4, <2>5 DEF NetworkInv
<1>10. CASE ListChanges \/ UNCHANGED all
  <2>1. /\ UNCHANGED <<call, answer, spent, scan, args, requests, status, pc>>
        /\ [Next]_vars
    BY <1>10 DEF ListChanges, WorkAdded, WorkRemoved, all, vars, scan, call, Next
  <2>2. SpentInv' /\ AnswerInv' /\ EndingExplained'
    BY <2>1, SpentStands, AnswerStands, EndingStands DEF NetworkInv
  <2>3. BudgetInv'
    BY <2>1, BudgetStep DEF NetworkInv
  <2> QED BY <2>1, <2>2, <2>3, CallStands DEF NetworkInv
<1> QED
  BY <1>1, <1>2, <1>3, <1>4, <1>5, <1>6, <1>7, <1>8, <1>9, <1>10 DEF HttpNext, Program

\* A scan begins with the invariant.
LEMMA NetworkInit == HttpInit => NetworkInv
<1> SUFFICES ASSUME HttpInit PROVE NetworkInv
  OBVIOUS
<1>1. BudgetInv /\ requests = 0 /\ status = "open"
  BY BudgetInit DEF HttpInit, Init
<1>2. pc = "idle" /\ Untouched /\ sent = 0 /\ waited = 0 /\ answer = NoAnswer
  BY DEF HttpInit, Untouched
<1>3. SpentInv
  BY <1>1, <1>2, LongestWaitType, CallAssumption DEF SpentInv
<1>4. AnswerInv /\ EndingExplained
  BY <1>1, <1>2 DEF AnswerInv, NoAnswer, EndingExplained
<1> QED BY <1>1, <1>2, <1>3, <1>4 DEF NetworkInv

\* The invariant holds in every reachable state.
THEOREM NetworkInvariant == HttpSpec => []NetworkInv
  BY NetworkInit, NetworkStep, PTL DEF HttpSpec

\* Every variable has its type, a call is made only for a page that is
\* needed, and nothing is left of it afterwards.
THEOREM CallTypes == HttpSpec => []CallTypeOK
<1>1. NetworkInv => CallTypeOK
  <2> SUFFICES ASSUME NetworkInv PROVE CallTypeOK
    OBVIOUS
  <2>1. TypeOK
    BY DEF NetworkInv, BudgetInv
  <2>2. sent \in Nat /\ waited \in Nat /\ (answer # NoAnswer <=> pc = "returned")
    BY DEF NetworkInv, SpentInv, AnswerInv
  <2>3. CASE pc = "idle" /\ Untouched
    BY <2>1, <2>2, <2>3 DEF CallTypeOK, Untouched
  <2>4. CASE CallInv
    <3>1. Http!TypeOK
      BY <2>4, SameKinds
         DEF CallInv, Get!GetInv, Get!TypeOK, Http!TypeOK, Get!HeaderKinds,
             Http!HeaderKinds
    <3> QED BY <2>1, <2>2, <2>4, <3>1 DEF CallTypeOK, CallInv
  <2> QED BY <2>3, <2>4 DEF NetworkInv
<1> QED BY <1>1, NetworkInvariant, PTL

\* What the searches of a scan and the call that goes on cost, when each
\* search costs its share: one share for each row and one more.
LEMMA ScanCosts ==
  ASSUME NEW share \in Nat, NEW cost \in Nat, NEW more \in Nat, BudgetInv,
         cost <= share * requests, more <= share,
         more = 0 \/ status = "open"
  PROVE  cost + more <= share * (Len(rows) + 1)
<1>1. PICK n : n = Len(rows)
  OBVIOUS
<1>2. /\ n \in Nat /\ requests \in Nat /\ requests <= n + 1
      /\ status = "open" => requests <= n
  BY <1>1 DEF BudgetInv, RequestBudget, TypeOK
<1>3. CASE more = 0
  <2>1. share * requests <= share * (n + 1)
    BY <1>2, TimesMonotone
  <2>2. share * requests \in Nat /\ share * (n + 1) \in Nat
    BY <1>2
  <2> QED BY <1>1, <1>3, <2>1, <2>2
<1>4. CASE status = "open"
  <2>1. share * requests <= share * n
    BY <1>2, <1>4, TimesMonotone
  <2>2. share * requests \in Nat /\ share * n \in Nat
    BY <1>2
  <2>3. cost <= share * n
    BY <2>1, <2>2
  <2> QED BY <1>1, <1>2, <2>3, OneMore
<1> QED BY <1>3, <1>4

\* Whatever the servers answer, the HTTP requests of a scan are at most
\* Retries + 1 for each row and one search more.
THEOREM NetworkBounded == HttpSpec => []NetworkBudget
<1>1. NetworkInv => NetworkBudget
  <2> SUFFICES ASSUME NetworkInv PROVE NetworkBudget
    OBVIOUS
  <2>1. sent \in Nat /\ sent <= (Retries + 1) * requests /\ Retries + 1 \in Nat
    BY CallAssumption DEF NetworkInv, SpentInv
  <2>2. /\ Len(seen) \in Nat /\ Len(seen) <= Retries + 1
        /\ Len(seen) = 0 \/ status = "open"
    <3>1. CASE Untouched
      BY <2>1, <3>1 DEF Untouched
    <3>2. CASE CallInv
      BY <3>2, CallCosts DEF CallInv
    <3> QED BY <3>1, <3>2 DEF NetworkInv
  <2> QED BY <2>1, <2>2, ScanCosts DEF NetworkInv, NetworkBudget
<1> QED BY <1>1, NetworkInvariant, PTL

\* Whatever the servers answer, a scan sleeps of its own accord at most the
\* whole backoff of one call for each row and one search more.
THEOREM WaitBounded == HttpSpec => []WaitBudget
<1>1. NetworkInv => WaitBudget
  <2> SUFFICES ASSUME NetworkInv PROVE WaitBudget
    OBVIOUS
  <2>1. waited \in Nat /\ waited <= LongestWait * requests /\ LongestWait \in Nat
    BY LongestWaitType DEF NetworkInv, SpentInv
  <2>2. /\ slept \in Nat /\ obeyed \in Nat
        /\ slept - obeyed \in Nat /\ slept - obeyed <= LongestWait
        /\ slept - obeyed = 0 \/ status = "open"
    <3>1. CASE Untouched
      BY <2>1, <3>1 DEF Untouched
    <3>2. CASE CallInv
      BY <3>2, CallCosts DEF CallInv
    <3> QED BY <3>1, <3>2 DEF NetworkInv
  <2>3. waited + (slept - obeyed) <= LongestWait * (Len(rows) + 1)
    BY <2>1, <2>2, ScanCosts DEF NetworkInv
  <2>4. waited + slept - obeyed = waited + (slept - obeyed)
    BY <2>1, <2>2
  <2> QED BY <2>3, <2>4 DEF WaitBudget, LongestWait
<1> QED BY <1>1, NetworkInvariant, PTL

\* A query fails with an exception that is not its own exactly for what
\* nothing in the worker foresees, for every number of retries.
THEOREM EndingsExplained == HttpSpec => []EndingExplained
<1>1. NetworkInv => EndingExplained
  BY DEF NetworkInv
<1> QED BY <1>1, NetworkInvariant, PTL

-----------------------------------------------------------------------------
(* Ticks.  An answer has its effect when it arrives: then the abstract     *)
(* scan takes its step, and what process() does with the answer later is   *)
(* not visible in it.                                                      *)

\* The operators of the two scans are the same where they read no state.
LEMMA SameMin == \A S : Seen!Min(S) = Min(S)
BY Zenon DEF Seen!Min, Min

LEMMA SameMax == \A S : Seen!Max(S) = Max(S)
BY Zenon DEF Seen!Max, Max

LEMMA SamePageOf == \A p, r, a : Seen!PageOf(p, r, a) = PageOf(p, r, a)
BY Zenon
   DEF Seen!PageOf, PageOf, Seen!OpenAlexPage, OpenAlexPage, Seen!CrossrefPage,
       CrossrefPage, Seen!ArxivPage, ArxivPage, Seen!NoCursor, NoCursor, Seen!Offset,
       Offset

LEMMA SameRequest == \A p, n, c : Seen!Request(p, n, c) = Request(p, n, c)
BY SameMin, SameMax, Zenon
   DEF Seen!Request, Request, Seen!CursorRequest, CursorRequest, Seen!ArxivRequest,
       ArxivRequest, Seen!PerPage, PerPage, Seen!CursorParam, CursorParam,
       Seen!ParseOffset, ParseOffset, Seen!Star, Star

LEMMA SameAnswers == \A q, l, r : Seen!Answers(q, l, r) = Answers(q, l, r)
BY Zenon
   DEF Seen!Answers, Answers, Seen!AnswerSizes, AnswerSizes, Seen!NextCursors,
       NextCursors, Seen!Token, Token, Seen!Blank, Blank, Seen!NoCursor, NoCursor,
       Seen!Min, Min, Seen!Max, Max

LEMMA SameLists ==
  /\ \A list, i, w : Seen!InsertAt(list, i, w) = InsertAt(list, i, w)
  /\ \A list, i : Seen!RemoveAt(list, i) = RemoveAt(list, i)
  /\ \A list : Seen!ToSet(list) = ToSet(list)
BY Zenon DEF Seen!InsertAt, InsertAt, Seen!RemoveAt, RemoveAt, Seen!ToSet, ToSet

LEMMA SameCardinality == \A S : Seen!Cardinality(S) = Cardinality(S)
BY Zenon DEF Seen!Cardinality, Cardinality

\* While no answer waits, the scan is seen as it is.
LEMMA SeenNow ==
  ASSUME answer.kind = "none"
  PROVE  StateSeen = state /\ RowsSeen = rows /\ StatusSeen = status /\ RequestsSeen = requests
BY DEF StateSeen, RowsSeen, StatusSeen, RequestsSeen

\* ... and so are the pages it may get.
LEMMA SeenPages ==
  ASSUME answer.kind = "none"
  PROVE  /\ Seen!Pages = Pages
         /\ Seen!Exhausted <=> Exhausted
         /\ Seen!TheQuirks = TheQuirks
         /\ \A page : Seen!Kept(page) = Kept(page) /\ Seen!After(page) = After(page)
<1>1. StateSeen = state
  BY SeenNow
<1>2. Seen!Remaining = Remaining
  BY <1>1 DEF Seen!Remaining, Remaining
<1>3. Seen!TheRequest = TheRequest
  BY <1>1, <1>2, SameMin, SameRequest, Zenon DEF Seen!TheRequest, TheRequest, Seen!WantedPage, WantedPage
<1>4. Seen!TheQuirks = TheQuirks
  BY DEF Seen!TheQuirks, TheQuirks
<1>5. Seen!Pages = Pages
  BY <1>3, <1>4, SameAnswers, SamePageOf DEF Seen!Pages, Pages
<1>6. Seen!Exhausted <=> Exhausted
  BY <1>1 DEF Seen!Exhausted, Exhausted, Seen!NoCursor, NoCursor
<1>7. \A page : Seen!Kept(page) = Kept(page)
  BY <1>2, SameMin, Zenon DEF Seen!Kept, Kept
<1>8. \A page : Seen!After(page) = After(page)
  BY <1>1, <1>7, Zenon DEF Seen!After, After, Seen!NoCursor, NoCursor
<1> QED
  BY <1>4, <1>5, <1>6, <1>7, <1>8

\* An answer of which the scan has not heard changes nothing it sees.
LEMMA SeenStands == UNCHANGED <<vars, answer>> => UNCHANGED Seen!vars
BY DEF Seen!vars, Seen!scan, Seen!world, vars, scan, world, StateSeen, RowsSeen,
       StatusSeen, RequestsSeen, After, Kept, Remaining

\* What is seen of an answer that has just arrived.
LEMMA SeenArrival ==
  ASSUME UNCHANGED vars, NEW body, answer' = body
  PROVE  /\ RowsSeen' = IF body.kind = "page" THEN rows \o Kept(body.page) ELSE rows
         /\ StateSeen' = CASE body.kind = "page" -> After(body.page)
                           [] body.kind = "unrepresentable" -> [state EXCEPT !.started = TRUE]
                           [] OTHER -> state
         /\ StatusSeen' = CASE body.kind = "none" -> status
                            [] body.kind = "page" ->
                                 IF Kept(body.page) = <<>> /\ body.page.next_cursor = NoCursor
                                 THEN "finished" ELSE "open"
                            [] body.kind = "unparsable" -> "clean_error"
                            [] OTHER -> "raw_error"
         /\ RequestsSeen' = IF body.kind = "none" THEN requests ELSE requests + 1
<1>1. /\ rows' = rows /\ state' = state /\ args' = args /\ status' = status
      /\ requests' = requests
  BY DEF vars, scan
<1> QED
  BY <1>1 DEF RowsSeen, StateSeen, StatusSeen, RequestsSeen, After, Kept, Remaining

\* A step that ends the use of an answer, or uses none.
LEMMA SeenAfterUse ==
  ASSUME answer' = NoAnswer
  PROVE  /\ StateSeen' = state' /\ RowsSeen' = rows'
         /\ StatusSeen' = status' /\ RequestsSeen' = requests'
BY DEF StateSeen, RowsSeen, StatusSeen, RequestsSeen, NoAnswer

\* The arrival of an answer is the tick.
LEMMA ArrivalIsTick ==
  ASSUME NetworkInv, ResponseArrives
  PROVE  Seen!Tick
<1>1. /\ status = "open" /\ ~ Exhausted /\ TypeOK /\ answer.kind = "none"
  <2>1. pc \in {"send", "sleep"}
    BY DEF ResponseArrives, Http!Next, Http!TransportError, Http!ServerBusy,
           Http!ClientError, Http!Success, Http!ForeignError, Http!Attempt,
           Http!Sleep, Http!SleepRefused
  <2> QED BY <2>1 DEF NetworkInv, CallInv, AnswerInv, BudgetInv
<1>2. PICK body \in Bodies : answer' = body
  BY DEF ResponseArrives
<1>3. UNCHANGED vars /\ UNCHANGED <<args, world>> /\ UNCHANGED Seen!world
  BY DEF ResponseArrives, vars, world, Seen!world
<1>4. /\ StateSeen = state /\ RowsSeen = rows /\ StatusSeen = "open"
      /\ RequestsSeen = requests
      /\ Seen!Pages = Pages /\ ~ Seen!Exhausted /\ Seen!TheQuirks = TheQuirks
      /\ \A page : Seen!Kept(page) = Kept(page) /\ Seen!After(page) = After(page)
  BY <1>1, SeenNow, SeenPages
<1>5. /\ RowsSeen' = IF body.kind = "page" THEN rows \o Kept(body.page) ELSE rows
      /\ StateSeen' = CASE body.kind = "page" -> After(body.page)
                        [] body.kind = "unrepresentable" -> [state EXCEPT !.started = TRUE]
                        [] OTHER -> state
      /\ StatusSeen' = CASE body.kind = "none" -> status
                         [] body.kind = "page" ->
                              IF Kept(body.page) = <<>> /\ body.page.next_cursor = NoCursor
                              THEN "finished" ELSE "open"
                         [] body.kind = "unparsable" -> "clean_error"
                         [] OTHER -> "raw_error"
      /\ RequestsSeen' = IF body.kind = "none" THEN requests ELSE requests + 1
  BY <1>2, <1>3, SeenArrival
<1>6. /\ body.kind \in {"page", "unparsable", "malformed", "unrepresentable"}
      /\ body.kind \in {"page", "unrepresentable"} => body.page \in Pages
      /\ body.kind = "unrepresentable" =>
           Kept(body.page) # <<>> /\ "unrepresentable" \in TheQuirks
      /\ body.kind = "malformed" => "malformed" \in TheQuirks
  BY <1>1, <1>2, BodyType
<1>7. CASE body.kind = "page"
  <2>1. /\ RowsSeen' = RowsSeen \o Seen!Kept(body.page)
        /\ StateSeen' = Seen!After(body.page)
        /\ StatusSeen' = IF Seen!Kept(body.page) = <<>> /\ body.page.next_cursor = Seen!NoCursor
                         THEN "finished" ELSE "open"
        /\ RequestsSeen' = RequestsSeen + 1
        /\ body.page \in Seen!Pages
    BY <1>4, <1>5, <1>6, <1>7 DEF Seen!NoCursor, NoCursor
  <2>2. Seen!TickPage
    BY <1>3, <1>4, <2>1 DEF Seen!TickPage
  <2> QED BY <2>2 DEF Seen!Tick
<1>8. CASE body.kind = "unparsable"
  BY <1>3, <1>4, <1>5, <1>8 DEF Seen!Tick, Seen!SearchFails
<1>9. CASE body.kind = "malformed"
  BY <1>3, <1>4, <1>5, <1>6, <1>9 DEF Seen!Tick, Seen!SearchCrashes
<1>10. CASE body.kind = "unrepresentable"
  BY <1>3, <1>4, <1>5, <1>6, <1>10 DEF Seen!Tick, Seen!EmitFails
<1> QED BY <1>6, <1>7, <1>8, <1>9, <1>10

\* Every step is a tick, a change of the list, or one that is not seen.
LEMMA StepOfScan ==
  ASSUME NetworkInv, [HttpNext]_all
  PROVE  [Seen!Next]_(Seen!vars)
<1>1. CASE CallGet \/ GetGoesOn \/ UNCHANGED all
  <2>1. UNCHANGED <<vars, answer>>
    BY <1>1 DEF CallGet, GetGoesOn, all
  <2> QED BY <2>1, SeenStands
<1>2. CASE ResponseArrives
  BY <1>2, ArrivalIsTick DEF Seen!Next
<1>3. CASE PageUsed
  <2>1. /\ StateSeen' = state' /\ RowsSeen' = rows' /\ StatusSeen' = status'
        /\ RequestsSeen' = requests'
    BY <1>3, SeenAfterUse DEF PageUsed, CallEnds
  <2>2. /\ StateSeen = state' /\ RowsSeen = rows' /\ StatusSeen = status'
        /\ RequestsSeen = requests' /\ UNCHANGED <<args, world>>
    BY <1>3 DEF PageUsed, StateSeen, RowsSeen, StatusSeen, RequestsSeen
  <2> QED BY <2>1, <2>2 DEF Seen!vars, Seen!scan, Seen!world, world
<1>4. CASE BodyRejected \/ BodyCrashes \/ BatchRejected
  <2>1. /\ StateSeen' = state' /\ RowsSeen' = rows' /\ StatusSeen' = status'
        /\ RequestsSeen' = requests'
    BY <1>4, SeenAfterUse DEF BodyRejected, BodyCrashes, BatchRejected, ScanFails, CallEnds
  <2>2. /\ StateSeen = state' /\ RowsSeen = rows' /\ StatusSeen = status'
        /\ RequestsSeen = requests' /\ UNCHANGED <<args, world>>
    BY <1>4 DEF BodyRejected, BodyCrashes, BatchRejected, ScanFails, StateSeen, RowsSeen,
                StatusSeen, RequestsSeen
  <2> QED BY <2>1, <2>2 DEF Seen!vars, Seen!scan, Seen!world, world
<1>5. CASE Refused \/ Escapes
  <2>1. /\ status = "open" /\ ~ Exhausted /\ answer.kind = "none" /\ pc = "raised"
    BY <1>5, CallEnded DEF Refused, Escapes, NetworkInv, CallInv
  <2>2. /\ StateSeen = state /\ RowsSeen = rows /\ StatusSeen = "open"
        /\ RequestsSeen = requests
        /\ ~ Seen!Exhausted /\ Seen!TheQuirks = TheQuirks
    BY <2>1, SeenNow, SeenPages
  <2>3. /\ StateSeen' = state /\ RowsSeen' = rows /\ StatusSeen' = status'
        /\ RequestsSeen' = requests + 1
        /\ UNCHANGED args /\ UNCHANGED Seen!world
    BY <1>5, SeenAfterUse DEF Refused, Escapes, ScanFails, CallEnds, world, Seen!world
  <2>4. CASE Refused
    BY <2>2, <2>3, <2>4 DEF Seen!Next, Seen!Tick, Seen!SearchFails, Refused, ScanFails
  <2>5. CASE Escapes
    <3>1. "foreign" \in TheQuirks /\ status' = "raw_error"
      BY <2>1, <2>5, EscapeIsForeign DEF Escapes, ScanFails
    <3> QED BY <2>2, <2>3, <3>1 DEF Seen!Next, Seen!Tick, Seen!SearchCrashes
  <2> QED BY <1>5, <2>4, <2>5
<1>6. CASE Finishes
  <2>1. answer = NoAnswer /\ answer' = NoAnswer /\ answer.kind = "none"
    BY <1>6 DEF Finishes, NetworkInv, AnswerInv
  <2>2. /\ StateSeen = state /\ RowsSeen = rows /\ StatusSeen = status
        /\ RequestsSeen = requests /\ (Seen!Exhausted <=> Exhausted)
        /\ StateSeen' = state' /\ RowsSeen' = rows' /\ StatusSeen' = status'
        /\ RequestsSeen' = requests'
    BY <2>1, SeenNow, SeenPages, SeenAfterUse
  <2>3. Seen!TickFinish
    BY <1>6, <2>2 DEF Finishes, TickFinish, Seen!TickFinish, world, Seen!world
  <2> QED BY <2>3 DEF Seen!Next, Seen!Tick
<1>7. CASE ListChanges
  <2>1. /\ UNCHANGED <<scan, answer, args>> /\ StatusSeen = "open"
        /\ WorkAdded \/ WorkRemoved
    BY <1>7 DEF ListChanges, WorkAdded, WorkRemoved
  <2>2. UNCHANGED <<Seen!scan, args>>
    BY <2>1 DEF Seen!scan, scan, StateSeen, RowsSeen, StatusSeen, RequestsSeen, After,
                Kept, Remaining
  <2>3. Seen!Drifts
    BY <2>1, SameCardinality DEF WorkAdded, WorkRemoved, Drifts, Seen!Drifts, TheQuirks,
                                 Seen!TheQuirks
  <2>4. CASE WorkAdded
    <3>1. PICK w \in Works \ (ToSet(corpus) \cup removed), i \in 1 .. Len(corpus) + 1 :
             corpus' = InsertAt(corpus, i, w) /\ added' = added \cup {w}
      BY <2>4 DEF WorkAdded
    <3>2. /\ w \in Works \ (Seen!ToSet(corpus) \cup removed)
          /\ corpus' = Seen!InsertAt(corpus, i, w) /\ removed' = removed
      BY <2>4, <3>1, SameLists DEF WorkAdded
    <3>3. Seen!WorkAdded
      BY <2>2, <2>3, <3>1, <3>2 DEF Seen!WorkAdded
    <3> QED BY <3>3 DEF Seen!Next
  <2>5. CASE WorkRemoved
    <3>1. PICK i \in 1 .. Len(corpus) :
             corpus' = RemoveAt(corpus, i) /\ removed' = removed \cup {corpus[i]}
      BY <2>5 DEF WorkRemoved
    <3>2. corpus' = Seen!RemoveAt(corpus, i) /\ added' = added
      BY <2>5, <3>1, SameLists DEF WorkRemoved
    <3>3. Seen!WorkRemoved
      BY <2>2, <2>3, <3>1, <3>2 DEF Seen!WorkRemoved
    <3> QED BY <3>3 DEF Seen!Next
  <2> QED BY <2>1, <2>4, <2>5
<1> QED
  BY <1>1, <1>2, <1>3, <1>4, <1>5, <1>6, <1>7 DEF HttpNext, Program

\* However its calls are retried and slept over, and however the list
\* changes between attempts and between an answer and its use, a scan over
\* HTTP is a scan whose searches are atomic (the safety part of
\* CallsAreTicks).
THEOREM CallsRefineTicks == HttpSpec => Seen!Spec
<1>1. HttpInit => Seen!Init
  <2> SUFFICES ASSUME HttpInit PROVE Seen!Init
    OBVIOUS
  <2>1. Init /\ answer.kind = "none"
    BY DEF HttpInit, NoAnswer
  <2>2. /\ StateSeen = state /\ RowsSeen = rows /\ StatusSeen = status
        /\ RequestsSeen = requests
    BY <2>1, SeenNow
  <2> QED
    BY <2>1, <2>2 DEF Init, Seen!Init, InitialState, Seen!InitialState, NoCursor,
       Seen!NoCursor, ProviderNames, Seen!ProviderNames, CursorProviders,
       Seen!CursorProviders
<1> QED
  BY <1>1, StepOfScan, NetworkInvariant, PTL DEF HttpSpec, Seen!Spec

-----------------------------------------------------------------------------
(* The promise.                                                            *)

SeenScan == INSTANCE ScholarSearch_proofs WITH
  state <- StateSeen, rows <- RowsSeen, status <- StatusSeen, requests <- RequestsSeen

\* This instance, with its theorems, and Seen are one scan: it sends the
\* same requests,
LEMMA SameRequests ==
  /\ Seen!NoCursor = SeenScan!NoCursor
  /\ Seen!Remaining = SeenScan!Remaining
  /\ Seen!TheRequest = SeenScan!TheRequest
BY Zenon
   DEF Seen!NoCursor, SeenScan!NoCursor, Seen!Remaining, SeenScan!Remaining,
       Seen!TheRequest, SeenScan!TheRequest, Seen!WantedPage, SeenScan!WantedPage,
       Seen!Min, SeenScan!Min, Seen!Max, SeenScan!Max, Seen!Request, SeenScan!Request,
       Seen!CursorRequest, SeenScan!CursorRequest, Seen!ArxivRequest,
       SeenScan!ArxivRequest, Seen!PerPage, SeenScan!PerPage, Seen!CursorParam,
       SeenScan!CursorParam, Seen!ParseOffset, SeenScan!ParseOffset, Seen!Star,
       SeenScan!Star

\* It gets the same pages,
LEMMA SamePages == Seen!Pages = SeenScan!Pages
<1>1. \A p, r, a : Seen!PageOf(p, r, a) = SeenScan!PageOf(p, r, a)
  BY Zenon
     DEF Seen!PageOf, SeenScan!PageOf, Seen!OpenAlexPage, SeenScan!OpenAlexPage,
         Seen!CrossrefPage, SeenScan!CrossrefPage, Seen!ArxivPage, SeenScan!ArxivPage,
         Seen!Offset, SeenScan!Offset, Seen!NoCursor, SeenScan!NoCursor
<1>2. \A q, l, r : Seen!Answers(q, l, r) = SeenScan!Answers(q, l, r)
  BY Zenon
     DEF Seen!Min, SeenScan!Min, Seen!Max, SeenScan!Max, Seen!Answers,
         SeenScan!Answers, Seen!AnswerSizes, SeenScan!AnswerSizes, Seen!NextCursors,
         SeenScan!NextCursors, Seen!Token, SeenScan!Token, Seen!Blank, SeenScan!Blank,
         Seen!NoCursor, SeenScan!NoCursor
<1>3. Seen!TheQuirks = SeenScan!TheQuirks
  BY DEF Seen!TheQuirks, SeenScan!TheQuirks
<1> QED
  BY <1>1, <1>2, <1>3, SameRequests DEF Seen!Pages, SeenScan!Pages

\* takes the same steps,
LEMMA SameTicks == Seen!Next <=> SeenScan!Next
BY SameRequests, SamePages, Zenon
   DEF Seen!Next, SeenScan!Next, Seen!Tick, SeenScan!Tick, Seen!TickFinish,
       SeenScan!TickFinish, Seen!TickPage, SeenScan!TickPage, Seen!SearchFails,
       SeenScan!SearchFails, Seen!SearchCrashes, SeenScan!SearchCrashes,
       Seen!EmitFails, SeenScan!EmitFails, Seen!WorkAdded, SeenScan!WorkAdded,
       Seen!WorkRemoved, SeenScan!WorkRemoved, Seen!Drifts, SeenScan!Drifts,
       Seen!Exhausted, SeenScan!Exhausted, Seen!Kept, SeenScan!Kept, Seen!After,
       SeenScan!After, Seen!TheQuirks, SeenScan!TheQuirks, Seen!scan, SeenScan!scan,
       Seen!world, SeenScan!world, Seen!vars, SeenScan!vars, Seen!Min, SeenScan!Min,
       Seen!ToSet, SeenScan!ToSet, Seen!InsertAt, SeenScan!InsertAt, Seen!RemoveAt,
       SeenScan!RemoveAt, Seen!Cardinality, SeenScan!Cardinality

\* and so has the same behaviours.
LEMMA SameScan == Seen!Spec <=> SeenScan!Spec
<1>1. Seen!Init <=> SeenScan!Init
  BY Zenon
     DEF Seen!Init, SeenScan!Init, Seen!InitialState, SeenScan!InitialState,
         Seen!NoCursor, SeenScan!NoCursor, Seen!ProviderNames, SeenScan!ProviderNames,
         Seen!CursorProviders, SeenScan!CursorProviders
<1>2. UNCHANGED Seen!vars <=> UNCHANGED SeenScan!vars
  BY DEF Seen!vars, SeenScan!vars, Seen!scan, SeenScan!scan, Seen!world, SeenScan!world
<1>3. [Seen!Next]_(Seen!vars) <=> [SeenScan!Next]_(SeenScan!vars)
  BY SameTicks, <1>2
<1> QED BY <1>1, <1>3, PTL DEF Seen!Spec, SeenScan!Spec

\* Against APIs that keep their documentation, a scan with every attempt,
\* sleep and waiting answer of its calls is a bounded stream of its list.
THEOREM HttpImplementsPromise ==
  ASSUME Documented
  PROVE  HttpSpec => SeenScan!Promise!Spec
<1>1. SeenScan!Documented
  BY
     DEF Documented, CursorsEndWithList, ListsStand, EndsWithList, LeadsOn,
         ProviderNames,
         CursorProviders, SeenScan!Documented, SeenScan!CursorsEndWithList,
         SeenScan!ListsStand, SeenScan!EndsWithList, SeenScan!LeadsOn,
         SeenScan!ProviderNames, SeenScan!CursorProviders
<1>2. SeenScan!Spec => SeenScan!Promise!Spec
  <2>1. /\ SeenScan!PageLimitAssumption /\ SeenScan!ArgsAssumption
        /\ SeenScan!ApiAssumption
    BY PageLimitAssumption, ArgsAssumption, ApiAssumption
      
          DEF SeenScan!PageLimitAssumption, SeenScan!ArgsAssumption,
              SeenScan!ApiAssumption,
           SeenScan!QuirkKinds, QuirkKinds, SeenScan!ProviderNames, ProviderNames,
           SeenScan!CursorProviders, CursorProviders, SeenScan!IsInjective, IsInjective
  <2> QED BY <1>1, <2>1, SeenScan!ImplementsPromise
<1> QED BY <1>2, SameScan, CallsRefineTicks
=============================================================================
