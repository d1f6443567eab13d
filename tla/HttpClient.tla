------------------------------ MODULE HttpClient ------------------------------
(***************************************************************************)
(* One call of http_client.get(): at most retries + 1 requests, with a     *)
(* sleep between two of them.  httpx and time.sleep() are not part of the  *)
(* repository; an attempt ends with one of                                 *)
(*                                                                         *)
(*   transport  httpx raises an HTTPError (DNS, connect, read timeout)     *)
(*   busy       status 429 or >= 500, with or without a Retry-After        *)
(*   refused    any other status >= 400                                    *)
(*   ok         any other status                                           *)
(*   foreign    httpx raises something else (httpx.InvalidURL)             *)
(*                                                                         *)
(* Time is counted in multiples of _BACKOFF_BASE, and only the time that   *)
(* get() itself chooses to spend is counted: its sleeps.                   *)
(***************************************************************************)
EXTENDS Integers, Sequences

CONSTANTS Retries,      \* retries = DEFAULT_RETRIES      (the code: 3)
          Backoff,      \* attempt -> _BACKOFF_BASE * 2**attempt
          MaxSleep,     \* what time.sleep() takes at most (2^63 ns)
          Outcomes,     \* the ways an attempt may end
          RetryAfters   \* the Retry-After headers a busy answer may have

Transient == {"transport", "busy"}
OutcomeKinds == Transient \cup {"refused", "ok", "foreign"}

\* A header is absent, a text float() rejects, or a number as float() reads
\* it, counted in the same unit: NaN and infinity are floats too.
HeaderKinds == {"absent", "text", "number", "nan", "infinite"}
Header == [kind : HeaderKinds, units : Int]

ASSUME HttpAssumption ==
  /\ Retries \in Nat
  /\ Backoff \in [0 .. Retries -> Nat \ {0}]
  /\ \A n \in 1 .. Retries : Backoff[n] = 2 * Backoff[n - 1]
  /\ MaxSleep \in Nat /\ \A n \in 0 .. Retries : Backoff[n] <= MaxSleep
  /\ Outcomes \subseteq OutcomeKinds
  /\ RetryAfters \subseteq Header

VARIABLES
  pc,         \* "send", "sleep", "returned" or "raised"
  raised,     \* the exception that leaves get(), or "none"
  attempt,    \* the loop variable
  nap,        \* the argument of the pending _sleep()
  seen,       \* the outcomes of the attempts so far          (history)
  slept,      \* the time spent in _sleep()                   (history)
  obeyed      \* the part of it that Retry-After dictated     (history)

vars == <<pc, raised, attempt, nap, seen, slept, obeyed>>

OwnDoubled(n) ==                           \* mutant: 2**(attempt + 1)
  [kind |-> "number", units |-> 2 * Backoff[n]]

\* _BACKOFF_BASE * (2**attempt)
Own(n) == [kind |-> "number", units |-> Backoff[n]]

NoNap == [kind |-> "number", units |-> 0]

Init ==
  /\ pc = "send"
  /\ raised = "none"
  /\ attempt = 0
  /\ nap = NoNap
  /\ seen = <<>>
  /\ slept = 0
  /\ obeyed = 0

-----------------------------------------------------------------------------
ParsedAsIs(header) == header               \* mutant: ValueError not caught

\* _retry_after(): what float() makes of the header, or None.
Parsed(header) ==
  IF header.kind = "text" THEN [header EXCEPT !.kind = "absent"] ELSE header

FalsyIfNone(value) == value.kind = "absent"   \* mutant: `is None` for `or`

\* The falsy values of `float | None`.
Falsy(value) == value.kind = "absent" \/ value = NoNap

\* _retry_after(resp) or _BACKOFF_BASE * 2**attempt
NapFor(header) == IF Falsy(Parsed(header)) THEN Own(attempt) ELSE Parsed(header)

\* What time.sleep() raises for a value it cannot sleep for.
SleepError(value) ==
  CASE value.kind = "nan" -> "ValueError"
    [] value.kind = "infinite" -> "OverflowError"
    [] value.kind = "number" /\ value.units \notin -MaxSleep .. MaxSleep -> "OverflowError"
    [] value.kind = "number" /\ value.units \in -MaxSleep .. -1 -> "ValueError"
    [] OTHER -> "none"

-----------------------------------------------------------------------------
RetryTooOften(value) ==                    \* mutant: sleeps after the last
  /\ pc' = "sleep"
  /\ nap' = value
  /\ UNCHANGED raised

RetryTooSeldom(value) ==                   \* mutant: range(retries)
  IF attempt + 1 < Retries
  THEN /\ pc' = "sleep"
       /\ nap' = value
       /\ UNCHANGED raised
  ELSE /\ pc' = "raised"
       /\ raised' = "ProviderError"
       /\ UNCHANGED nap

\* Sleep before the next attempt, or give up after the last.
RetryWith(value) ==
  IF attempt < Retries
  THEN /\ pc' = "sleep"
       /\ nap' = value
       /\ UNCHANGED raised
  ELSE /\ pc' = "raised"
       /\ raised' = "ProviderError"
       /\ UNCHANGED nap

Attempt(outcome) ==
  /\ pc = "send"
  /\ outcome \in Outcomes
  /\ seen' = Append(seen, outcome)
  /\ UNCHANGED <<attempt, slept, obeyed>>

TransportError == Attempt("transport") /\ RetryWith(Own(attempt))

ServerBusy ==
  /\ Attempt("busy")
  /\ \E header \in RetryAfters : RetryWith(NapFor(header))

ClientErrorRetried ==                      \* mutant: retried like the rest
  Attempt("refused") /\ RetryWith(Own(attempt))

\* Any other status of 400 or more ends the call at once.
ClientError ==
  /\ Attempt("refused")
  /\ pc' = "raised"
  /\ raised' = "ProviderError"
  /\ UNCHANGED nap

Success ==
  /\ Attempt("ok")
  /\ pc' = "returned"
  /\ UNCHANGED <<raised, nap>>

ForeignError ==
  /\ Attempt("foreign")
  /\ pc' = "raised"
  /\ raised' = "other"
  /\ UNCHANGED nap

\* The sleep ends and the loop goes on with the next attempt.
Sleep ==
  /\ pc = "sleep"
  /\ SleepError(nap) = "none"
  /\ slept' = slept + nap.units
  /\ obeyed' = IF nap = Own(attempt) THEN obeyed ELSE obeyed + nap.units
  /\ attempt' = attempt + 1
  /\ nap' = NoNap
  /\ pc' = "send"
  /\ UNCHANGED <<raised, seen>>

SleepForever ==                            \* mutant: waits for what never comes
  /\ pc = "sleep"
  /\ SleepError(nap) # "none"
  /\ UNCHANGED vars

\* time.sleep() refuses its argument; nothing in get() catches that.
SleepRefused ==
  /\ pc = "sleep"
  /\ SleepError(nap) # "none"
  /\ pc' = "raised"
  /\ raised' = SleepError(nap)
  /\ UNCHANGED <<attempt, nap, seen, slept, obeyed>>

Next ==
  \/ TransportError \/ ServerBusy \/ ClientError \/ Success \/ ForeignError
  \/ Sleep \/ SleepRefused

Spec == Init /\ [][Next]_vars

\* httpx ends every attempt (each phase of a request has a timeout) and a
\* finite sleep ends.
FairSpec == Spec /\ WF_vars(Next)

-----------------------------------------------------------------------------
(* Properties.                                                             *)

Ended == pc \in {"returned", "raised"}
LastSeen == seen[Len(seen)]

\* Every variable has its type.
TypeOK ==
  /\ pc \in {"send", "sleep", "returned", "raised"}
  /\ raised \in {"none", "ProviderError", "ValueError", "OverflowError", "other"}
  /\ attempt \in 0 .. Retries
  /\ nap \in [kind : HeaderKinds \ {"absent", "text"}, units : Int]
  /\ seen \in Seq(OutcomeKinds)
  /\ slept \in Nat
  /\ obeyed \in Nat

\* Bounded retry: at most retries + 1 requests, each attempt of the loop is
\* one of them, and after the last there is no sleep.
AttemptsBounded ==
  /\ Len(seen) <= Retries + 1
  /\ pc = "send" => Len(seen) = attempt
  /\ pc = "sleep" => Len(seen) = attempt + 1 /\ attempt < Retries

\* "Everything else fails fast": only a transport error, a 429 or a 5xx is
\* ever followed by another request.
OnlyTransientRetried ==
  \A i \in 1 .. Len(seen) : i < Len(seen) \/ pc = "sleep" => seen[i] \in Transient

\* A ProviderError is raised only for a client error or after the last
\* attempt, a response is returned only when the last attempt was fine, and
\* what else leaves get() is httpx's own or what time.sleep() made of the
\* pause it was asked for.
EndsForItsReason ==
  /\ pc = "returned" => LastSeen = "ok"
  /\ raised = "ProviderError" =>
       \/ LastSeen = "refused"
       \/ LastSeen \in Transient /\ Len(seen) = Retries + 1
  /\ pc = "raised" =>
       raised = CASE LastSeen = "foreign" -> "other"
                  [] LastSeen # "foreign" /\ SleepError(nap) # "none" -> SleepError(nap)
                  [] OTHER -> "ProviderError"

\* The time get() sleeps of its own accord is that of the exponential
\* backoff, 1 + 2 + 4 + ... times the base; the rest a server asked for.
BackoffBounded == slept - obeyed <= Backoff[attempt] - Backoff[0]

\* No server can make the retries follow one another at once, or faster
\* than the backoff: there is a pause before each of them, and where no
\* header asks for a pause of its own ("0", a text and no header at all do
\* not) the pauses are the exponential backoff and nothing less.
RetriesSpaced ==
  /\ attempt <= slept
  /\ obeyed = 0 => slept = Backoff[attempt] - Backoff[0]

\* Every call comes to an end.
GetEnds == <>Ended

\* http_client.py:74-76: get() raises ProviderError, for exhausted retries,
\* transport errors and error statuses.
RaisesProviderError == pc = "raised" => raised = "ProviderError"
=============================================================================
