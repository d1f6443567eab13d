-------------------------- MODULE HttpClient_proofs --------------------------
(***************************************************************************)
(* The bounds of http_client.get() for every number of retries, every      *)
(* backoff table that doubles and every set of Retry-After headers.        *)
(***************************************************************************)
EXTENDS HttpClient, TLAPS

LOCAL INSTANCE FiniteSetTheorems
LOCAL INSTANCE WellFoundedInduction

\* What get() may pause for: never nothing.
Pauses == {value \in [kind : HeaderKinds \ {"absent", "text"}, units : Int] :
             value.kind = "number" => value.units # 0}

\* A pause is get()'s own or one that a header asks for, and what neither
\* get() nor its callers foresee comes from httpx or from such a header.
FromOutside ==
  /\ pc = "sleep" => nap = Own(attempt) \/ nap \in RetryAfters
  /\ raised = "OverflowError" =>
       \E header \in RetryAfters : SleepError(header) = "OverflowError"
  /\ raised = "other" => "foreign" \in Outcomes

\* The inductive invariant: the control state determines how many outcomes
\* have been seen, everything before the last was transient, and a server
\* dictates no more than what was slept.
GetInv ==
  /\ TypeOK
  /\ obeyed <= slept
  /\ AttemptsBounded
  /\ OnlyTransientRetried
  /\ EndsForItsReason
  /\ BackoffBounded
  /\ RetriesSpaced
  /\ FromOutside
  /\ pc = "sleep" => nap \in Pauses /\ LastSeen \in Transient
  /\ pc \in {"send", "returned"} => nap = NoNap
  /\ raised # "none" => pc = "raised"
  /\ pc = "send" => \A i \in 1 .. Len(seen) : seen[i] \in Transient

\* The backoff of an attempt is a positive number.
LEMMA BackoffType ==
  ASSUME NEW n \in 0 .. Retries
  PROVE  Backoff[n] \in Nat \ {0}
BY HttpAssumption

\* The backoff table doubles.
LEMMA BackoffDoubles ==
  ASSUME NEW n \in 0 .. Retries, n < Retries
  PROVE  n + 1 \in 0 .. Retries /\ Backoff[n + 1] = 2 * Backoff[n]
<1>1. n + 1 \in 1 .. Retries /\ n + 1 \in 0 .. Retries /\ (n + 1) - 1 = n
  BY HttpAssumption
<1> QED BY <1>1, HttpAssumption

\* Of the backoffs of a call the last is the longest: above a largest
\* counterexample there would be one twice as long.
LEMMA BackoffGrows ==
  ASSUME NEW n \in 0 .. Retries
  PROVE  Backoff[n] <= Backoff[Retries]
<1> DEFINE Longer == {i \in 0 .. Retries : Backoff[i] > Backoff[Retries]}
           Above == {i .. Retries : i \in Longer}
           less == StrictSubsetOrdering(0 .. Retries)
<1>1. IsWellFoundedOn(less, SUBSET (0 .. Retries))
  <2>1. IsFiniteSet(0 .. Retries)
    BY FS_Interval, HttpAssumption
  <2> QED BY <2>1, FS_FiniteSubsetsOfFinite, FS_StrictSubsetOrderingWellFounded
<1>2. Retries \in 0 .. Retries
  BY HttpAssumption
<1> SUFFICES ASSUME Longer # {} PROVE FALSE
  BY <1>2, BackoffType
<1>3. Above \subseteq SUBSET (0 .. Retries) /\ Above # {}
  BY HttpAssumption
<1>4. PICK least \in Above : \A other \in Above : <<other, least>> \notin less
  <2> HIDE DEF Above, less
  <2> QED BY <1>1, <1>3, WFMin
<1>5. PICK i \in Longer : least = i .. Retries
  OBVIOUS
<1>6. /\ i + 1 \in 0 .. Retries
      /\ Backoff[i + 1] = 2 * Backoff[i]
      /\ Backoff[i] \in Nat \ {0}
      /\ Backoff[Retries] \in Nat
  <2>1. i \in 0 .. Retries /\ i # Retries
    BY <1>2, BackoffType
  <2> QED BY <1>2, <2>1, BackoffType, BackoffDoubles, HttpAssumption
<1>7. i + 1 \in Longer
  BY <1>6
<1>8. <<(i + 1) .. Retries, i .. Retries>> \in less
  <2>1. (i + 1) .. Retries \subseteq i .. Retries
    BY <1>6, HttpAssumption
  <2>2. i \in i .. Retries /\ i \notin (i + 1) .. Retries
    BY <1>6, HttpAssumption
  <2>3. i .. Retries \in SUBSET (0 .. Retries) /\ (i + 1) .. Retries \in SUBSET (0 .. Retries)
    BY <1>6, HttpAssumption
  <2> QED BY <2>1, <2>2, <2>3 DEF StrictSubsetOrdering
<1> QED BY <1>4, <1>5, <1>7, <1>8

\* What get() sleeps for is a number other than 0, NaN or infinity, and
\* never a text.
LEMMA NapType ==
  ASSUME NEW header \in Header, attempt \in 0 .. Retries
  PROVE  /\ NapFor(header) \in Pauses
         /\ NapFor(header) = Own(attempt) \/ NapFor(header) = header
<1>1. Own(attempt) \in Pauses
  BY BackoffType DEF Own, HeaderKinds, Pauses
<1>2. CASE header.kind = "text"
  <2>1. Parsed(header).kind = "absent"
    BY <1>2 DEF Parsed, Header
  <2> QED BY <1>1, <2>1 DEF NapFor, Falsy
<1>3. CASE header.kind = "absent"
  BY <1>1, <1>3 DEF NapFor, Falsy, Parsed
<1>4. CASE header.kind \notin {"text", "absent"}
  <2>1. Parsed(header) = header /\ header \in [kind : HeaderKinds \ {"absent", "text"}, units : Int]
    BY <1>4 DEF Parsed, Header
  <2>2. CASE header = NoNap
    BY <1>1, <2>1, <2>2 DEF NapFor, Falsy
  <2>3. CASE header # NoNap
    <3>1. header.kind = "number" => header.units # 0
      BY <2>1, <2>3 DEF NoNap
    <3>2. NapFor(header) = header
      BY <1>4, <2>1, <2>3 DEF NapFor, Falsy
    <3> QED BY <2>1, <3>1, <3>2 DEF Pauses
  <2> QED BY <2>2, <2>3
<1> QED BY <1>2, <1>3, <1>4

\* A fresh call satisfies the invariant.
LEMMA GetInit == Init => GetInv
<1> SUFFICES ASSUME Init PROVE GetInv
  OBVIOUS
<1>1. 0 \in 0 .. Retries /\ Backoff[0] \in Nat
  BY BackoffType, HttpAssumption
<1> QED
  BY <1>1, HttpAssumption
     DEF Init, GetInv, TypeOK, AttemptsBounded, OnlyTransientRetried,
         EndsForItsReason, BackoffBounded, RetriesSpaced, FromOutside, NoNap,
         HeaderKinds, OutcomeKinds

\* An attempt is possible only while requests are left.
LEMMA AttemptFacts ==
  ASSUME GetInv, NEW outcome, Attempt(outcome)
  PROVE  /\ outcome \in OutcomeKinds
         /\ seen' = Append(seen, outcome)
         /\ Len(seen) = attempt
         /\ Len(seen') = attempt + 1
         /\ attempt \in 0 .. Retries
         /\ \A i \in 1 .. Len(seen') : seen'[i] = IF i = attempt + 1 THEN outcome ELSE seen[i]
         /\ \A i \in 1 .. attempt : seen[i] \in Transient
         /\ seen' \in Seq(OutcomeKinds)
         /\ UNCHANGED <<attempt, slept, obeyed>>
         /\ pc = "send" /\ raised = "none" /\ nap = NoNap
<1>1. /\ outcome \in OutcomeKinds /\ seen' = Append(seen, outcome)
      /\ UNCHANGED <<attempt, slept, obeyed>>
      /\ pc = "send"
  BY HttpAssumption DEF Attempt
<1>2. /\ seen \in Seq(OutcomeKinds) /\ attempt \in 0 .. Retries /\ raised = "none"
      /\ nap = NoNap
      /\ Len(seen) = attempt
      /\ \A i \in 1 .. Len(seen) : seen[i] \in Transient
  BY <1>1 DEF GetInv, TypeOK, AttemptsBounded
<1> QED BY <1>1, <1>2

\* time.sleep(0) is no error.
LEMMA NoNapSleeps == SleepError(NoNap) = "none"
BY HttpAssumption DEF SleepError, NoNap

\* A transient failure keeps the invariant: it leads to a sleep, or to a
\* ProviderError after the last attempt.
LEMMA RetryKeeps ==
  ASSUME GetInv, NEW outcome \in Transient, Attempt(outcome),
         NEW value \in Pauses, value = Own(attempt) \/ value \in RetryAfters,
         RetryWith(value)
  PROVE  GetInv'
<1>1. /\ outcome \in OutcomeKinds
      /\ Len(seen') = attempt + 1
      /\ attempt \in 0 .. Retries
      /\ \A i \in 1 .. Len(seen') : seen'[i] \in Transient
      /\ seen'[Len(seen')] = outcome
      /\ seen' \in Seq(OutcomeKinds)
      /\ UNCHANGED <<attempt, slept, obeyed>>
      /\ pc = "send" /\ raised = "none" /\ nap = NoNap
  <2>1. /\ outcome \in OutcomeKinds
        /\ Len(seen') = attempt + 1
        /\ attempt \in 0 .. Retries
        /\ \A i \in 1 .. Len(seen') : seen'[i] = IF i = attempt + 1 THEN outcome ELSE seen[i]
        /\ \A i \in 1 .. attempt : seen[i] \in Transient
        /\ seen' \in Seq(OutcomeKinds)
        /\ UNCHANGED <<attempt, slept, obeyed>>
        /\ pc = "send" /\ raised = "none" /\ nap = NoNap
    BY AttemptFacts
  <2> QED BY <2>1
<1>2. TypeOK /\ BackoffBounded /\ RetriesSpaced /\ Retries \in Nat
  BY HttpAssumption DEF GetInv
<1>3. CASE attempt < Retries
  <2>1. pc' = "sleep" /\ nap' = value /\ raised' = raised
    BY <1>3 DEF RetryWith
  <2>2. TypeOK'
    BY <1>1, <1>2, <2>1 DEF TypeOK, Pauses
  <2>3. AttemptsBounded'
    BY <1>1, <1>2, <1>3, <2>1 DEF AttemptsBounded
  <2>4. OnlyTransientRetried' /\ EndsForItsReason'
    BY <1>1, <1>2, <2>1 DEF OnlyTransientRetried, EndsForItsReason
  <2>5. BackoffBounded' /\ RetriesSpaced'
    BY <1>1, <1>2 DEF BackoffBounded, RetriesSpaced
  <2>6. LastSeen' \in Transient
    BY <1>1 DEF LastSeen
  <2>7. FromOutside'
    BY <1>1, <2>1 DEF FromOutside, Own
  <2> QED BY <1>1, <2>1, <2>2, <2>3, <2>4, <2>5, <2>6, <2>7 DEF GetInv
<1>4. CASE ~ (attempt < Retries)
  <2>1. pc' = "raised" /\ raised' = "ProviderError" /\ nap' = nap
    BY <1>4 DEF RetryWith
  <2>2. Len(seen') = Retries + 1
    BY <1>1, <1>2, <1>4
  <2>3. TypeOK'
    BY <1>1, <1>2, <2>1 DEF TypeOK
  <2>4. AttemptsBounded'
    BY <1>2, <2>1, <2>2 DEF AttemptsBounded
  <2>5. OnlyTransientRetried' /\ BackoffBounded' /\ RetriesSpaced'
    BY <1>1, <1>2, <2>1, <2>2 DEF OnlyTransientRetried, BackoffBounded, RetriesSpaced
  <2>6. SleepError(nap)' = "none"
    BY <1>1, <2>1, NoNapSleeps DEF SleepError
  <2>7. EndsForItsReason'
    <3>1. LastSeen' \in Transient /\ LastSeen' # "foreign" /\ pc' = "raised"
      BY <1>1, <2>1 DEF LastSeen, Transient
    <3> QED BY <2>1, <2>2, <2>6, <3>1 DEF EndsForItsReason
  <2>8. FromOutside'
    BY <2>1 DEF FromOutside
  <2> QED BY <1>1, <2>1, <2>3, <2>4, <2>5, <2>7, <2>8 DEF GetInv
<1> QED BY <1>3, <1>4

\* An attempt that ends the call keeps the invariant.
LEMMA LastAttemptKeeps ==
  ASSUME GetInv, NEW outcome, Attempt(outcome), nap' = nap,
         pc' \in {"returned", "raised"},
         pc' = "returned" => outcome = "ok",
         raised' = CASE pc' = "returned" -> "none"
                     [] outcome = "foreign" -> "other"
                     [] OTHER -> "ProviderError",
         raised' = "ProviderError" => outcome = "refused"
  PROVE  GetInv'
<1>1. /\ outcome \in OutcomeKinds
      /\ Len(seen') = attempt + 1
      /\ attempt \in 0 .. Retries
      /\ \A i \in 1 .. Len(seen') : i < Len(seen') => seen'[i] \in Transient
      /\ seen'[Len(seen')] = outcome
      /\ seen' \in Seq(OutcomeKinds)
      /\ UNCHANGED <<attempt, slept, obeyed>>
      /\ nap = NoNap
  <2>1. /\ outcome \in OutcomeKinds
        /\ Len(seen') = attempt + 1
        /\ attempt \in 0 .. Retries
        /\ \A i \in 1 .. Len(seen') : seen'[i] = IF i = attempt + 1 THEN outcome ELSE seen[i]
        /\ \A i \in 1 .. attempt : seen[i] \in Transient
        /\ seen' \in Seq(OutcomeKinds)
        /\ UNCHANGED <<attempt, slept, obeyed>>
        /\ nap = NoNap
    BY AttemptFacts
  <2> QED BY <2>1
<1>2. TypeOK /\ BackoffBounded /\ RetriesSpaced /\ Retries \in Nat
  BY HttpAssumption DEF GetInv
<1>3. TypeOK'
  BY <1>1, <1>2 DEF TypeOK
<1>4. AttemptsBounded'
  BY <1>1, <1>2 DEF AttemptsBounded
<1>5. OnlyTransientRetried' /\ BackoffBounded' /\ RetriesSpaced'
  BY <1>1, <1>2 DEF OnlyTransientRetried, BackoffBounded, RetriesSpaced
<1>6. SleepError(nap)' = "none"
  BY <1>1, NoNapSleeps DEF SleepError
<1>7. EndsForItsReason'
  BY <1>1, <1>2, <1>6 DEF EndsForItsReason, LastSeen
<1>8. FromOutside'
  <2>1. raised' = "other" => outcome = "foreign"
    OBVIOUS
  <2>2. outcome \in Outcomes
    BY DEF Attempt
  <2> QED BY <2>1, <2>2 DEF FromOutside
<1> QED BY <1>1, <1>3, <1>4, <1>5, <1>7, <1>8 DEF GetInv

\* A sleep keeps the invariant: it adds to the own backoff at most what the
\* next attempt's doubled backoff allows.
LEMMA SleepKeeps ==
  ASSUME GetInv, Sleep
  PROVE  GetInv'
<1>1. /\ pc = "sleep" /\ pc' = "send" /\ attempt' = attempt + 1 /\ nap' = NoNap
      /\ slept' = slept + nap.units
      /\ obeyed' = IF nap = Own(attempt) THEN obeyed ELSE obeyed + nap.units
      /\ UNCHANGED <<raised, seen>>
  BY DEF Sleep
<1>2. /\ attempt \in 0 .. Retries /\ attempt < Retries /\ Retries \in Nat
      /\ Len(seen) = attempt + 1
      /\ slept \in Nat /\ obeyed \in Nat /\ obeyed <= slept
      /\ slept - obeyed <= Backoff[attempt] - Backoff[0]
      /\ attempt <= slept /\ (obeyed = 0 => slept = Backoff[attempt] - Backoff[0])
      /\ seen \in Seq(OutcomeKinds)
      /\ \A i \in 1 .. Len(seen) : seen[i] \in Transient
      /\ raised = "none"
  BY <1>1, HttpAssumption
     DEF GetInv, TypeOK, AttemptsBounded, BackoffBounded, RetriesSpaced,
         OnlyTransientRetried
<1>3. nap.kind = "number" /\ nap.units \in Nat \ {0}
  <2>1. nap \in [kind : HeaderKinds \ {"absent", "text"}, units : Int]
    BY DEF GetInv, TypeOK
  <2>2. SleepError(nap) = "none"
    BY DEF Sleep
  <2>3. nap.kind \in {"number", "nan", "infinite"} /\ nap.units \in Int
    BY <2>1 DEF HeaderKinds
  <2>4. nap.kind = "number" /\ nap.units \in -MaxSleep .. MaxSleep /\ nap.units \notin -MaxSleep .. -1
    BY <2>2, <2>3 DEF SleepError
  <2>5. nap.units # 0
    BY <1>1, <2>4 DEF GetInv, Pauses
  <2> QED BY <2>3, <2>4, <2>5, HttpAssumption
<1>4. /\ attempt + 1 \in 0 .. Retries
      /\ Backoff[attempt + 1] = 2 * Backoff[attempt]
      /\ Backoff[attempt] \in Nat /\ Backoff[0] \in Nat
  <2>1. 0 \in 0 .. Retries
    BY <1>2
  <2> QED BY <1>2, <2>1, BackoffDoubles, BackoffType
<1>5. slept' - obeyed' <= Backoff[attempt + 1] - Backoff[0]
  <2> DEFINE own == Backoff[attempt]
             next == Backoff[attempt + 1]
             base == Backoff[0]
  <2>1. /\ own \in Nat /\ base \in Nat /\ next = 2 * own
        /\ slept \in Nat /\ obeyed \in Nat /\ nap.units \in Nat
        /\ slept - obeyed <= own - base
    BY <1>2, <1>3, <1>4
  <2>2. nap = Own(attempt) => nap.units = own
    BY DEF Own
  <2>3. \/ slept' = slept + own /\ obeyed' = obeyed
        \/ slept' = slept + nap.units /\ obeyed' = obeyed + nap.units
    BY <1>1, <2>2
  <2> HIDE DEF own, next, base
  <2>4. slept' - obeyed' <= next - base
    BY <2>1, <2>3
  <2> QED BY <2>4 DEF next, base
<1>6. TypeOK'
  <2>1. slept' \in Nat /\ obeyed' \in Nat
    BY <1>1, <1>2, <1>3
  <2> QED BY <1>1, <1>2, <1>4, <2>1 DEF TypeOK, NoNap, HeaderKinds
<1>7. AttemptsBounded' /\ OnlyTransientRetried' /\ EndsForItsReason'
  BY <1>1, <1>2 DEF AttemptsBounded, OnlyTransientRetried, EndsForItsReason
<1>8. BackoffBounded'
  BY <1>1, <1>5 DEF BackoffBounded
<1>9. obeyed' <= slept'
  <2>1. nap.units \in Nat => obeyed + nap.units <= slept + nap.units /\ obeyed <= slept + nap.units
    BY <1>2
  <2> QED BY <1>1, <1>3, <2>1
<1>10. RetriesSpaced'
  <2> DEFINE own == Backoff[attempt]
             next == Backoff[attempt + 1]
             base == Backoff[0]
  <2>1. /\ own \in Nat \ {0} /\ base \in Nat /\ next = 2 * own
        /\ slept \in Nat /\ obeyed \in Nat /\ nap.units \in Nat \ {0}
        /\ attempt \in Nat /\ attempt <= slept
        /\ obeyed = 0 => slept = own - base
    BY <1>2, <1>3, <1>4, BackoffType
  <2>2. nap = Own(attempt) => nap.units = own
    BY DEF Own
  <2>3. \/ slept' = slept + own /\ obeyed' = obeyed
        \/ slept' = slept + nap.units /\ obeyed' = obeyed + nap.units
    BY <1>1, <2>2
  <2> HIDE DEF own, next, base
  <2>4. attempt + 1 <= slept' /\ (obeyed' = 0 => slept' = next - base)
    BY <2>1, <2>3
  <2> QED BY <1>1, <2>4 DEF RetriesSpaced, next, base
<1>11. FromOutside'
  BY <1>1, <1>2 DEF FromOutside
<1> QED BY <1>1, <1>2, <1>6, <1>7, <1>8, <1>9, <1>10, <1>11 DEF GetInv

\* Every step keeps the invariant.
LEMMA GetStep == GetInv /\ [Next]_vars => GetInv'
<1> SUFFICES ASSUME GetInv, [Next]_vars PROVE GetInv'
  OBVIOUS
<1>0. attempt \in 0 .. Retries
  BY DEF GetInv, TypeOK
<1>1. CASE TransportError
  <2>1. Own(attempt) \in Pauses
    BY <1>0, BackoffType DEF Own, HeaderKinds, Pauses
  <2>2. "transport" \in Transient /\ Attempt("transport") /\ RetryWith(Own(attempt))
    BY <1>1 DEF TransportError, Transient
  <2> QED BY <2>1, <2>2, RetryKeeps
<1>2. CASE ServerBusy
  <2>1. PICK header \in RetryAfters : RetryWith(NapFor(header))
    BY <1>2 DEF ServerBusy
  <2>2. NapFor(header) \in Pauses
    BY <1>0, NapType, HttpAssumption
  <2>4. NapFor(header) = Own(attempt) \/ NapFor(header) \in RetryAfters
    BY <1>0, NapType, HttpAssumption
  <2>3. "busy" \in Transient /\ Attempt("busy")
    BY <1>2 DEF ServerBusy, Transient
  <2> QED BY <2>1, <2>2, <2>3, <2>4, RetryKeeps
<1>3. CASE ClientError
  BY <1>3, LastAttemptKeeps DEF ClientError
<1>4. CASE Success
  <2>1. Attempt("ok") /\ pc' = "returned" /\ raised' = raised /\ nap' = nap
    BY <1>4 DEF Success
  <2>2. raised = "none"
    BY <2>1, AttemptFacts
  <2> QED BY <2>1, <2>2, LastAttemptKeeps
<1>5. CASE ForeignError
  BY <1>5, LastAttemptKeeps DEF ForeignError
<1>6. CASE Sleep
  BY <1>6, SleepKeeps
<1>7. CASE SleepRefused
  <2>1. /\ pc = "sleep" /\ pc' = "raised" /\ raised' = SleepError(nap)
        /\ SleepError(nap) # "none"
        /\ UNCHANGED <<attempt, nap, seen, slept, obeyed>>
    BY <1>7 DEF SleepRefused
  <2>2. raised' \in {"ValueError", "OverflowError"}
    BY <2>1 DEF SleepError
  <2>3. TypeOK' /\ BackoffBounded' /\ RetriesSpaced'
    BY <2>1, <2>2 DEF GetInv, TypeOK, BackoffBounded, RetriesSpaced
  <2>4. AttemptsBounded' /\ OnlyTransientRetried'
    BY <2>1, <2>2 DEF GetInv, AttemptsBounded, OnlyTransientRetried
  <2>5. raised' = SleepError(nap)' /\ SleepError(nap)' # "none"
    BY <2>1 DEF SleepError
  <2>6. EndsForItsReason'
    <3>1. LastSeen' = LastSeen /\ LastSeen \in Transient
      BY <2>1 DEF GetInv, LastSeen
    <3> QED BY <2>1, <2>2, <2>5, <3>1 DEF EndsForItsReason, Transient
  <2>7. SleepError(Own(attempt)) = "none"
    <3>1. Backoff[attempt] \in Nat \ {0} /\ Backoff[attempt] <= MaxSleep /\ MaxSleep \in Nat
      BY <1>0, BackoffType, HttpAssumption
    <3> QED BY <3>1 DEF SleepError, Own
  <2>8. FromOutside'
    <3>1. nap \in RetryAfters
      BY <2>1, <2>7 DEF GetInv, FromOutside
    <3> QED BY <2>1, <2>2, <3>1 DEF FromOutside
  <2> QED BY <2>1, <2>2, <2>3, <2>4, <2>6, <2>8 DEF GetInv
<1>8. CASE UNCHANGED vars
  BY <1>8 DEF vars, GetInv, TypeOK, AttemptsBounded, OnlyTransientRetried,
              EndsForItsReason, BackoffBounded, RetriesSpaced, LastSeen, SleepError,
              FromOutside, Own
<1> QED
  BY <1>1, <1>2, <1>3, <1>4, <1>5, <1>6, <1>7, <1>8 DEF Next

\* The invariant holds in every reachable state.
THEOREM GetInvariant == Spec => []GetInv
  BY GetInit, GetStep, PTL DEF Spec

\* Every variable has its type: what reaches time.sleep() is a float.
THEOREM GetTypeCorrect == Spec => []TypeOK
<1>1. GetInv => TypeOK
  BY DEF GetInv
<1> QED BY <1>1, GetInvariant, PTL

\* A call sends at most retries + 1 requests and never sleeps after the
\* last; everything but a transient failure ends it at once.
THEOREM RetryDiscipline == Spec => [](AttemptsBounded /\ OnlyTransientRetried)
<1>1. GetInv => AttemptsBounded /\ OnlyTransientRetried
  BY DEF GetInv
<1> QED BY <1>1, GetInvariant, PTL

\* A call returns only after an attempt that was fine, and raises
\* ProviderError only for a client error or after the last attempt.
THEOREM HonestEnd == Spec => []EndsForItsReason
<1>1. GetInv => EndsForItsReason
  BY DEF GetInv
<1> QED BY <1>1, GetInvariant, PTL

\* The sleeps that no server asked for add up to at most
\* base * (2**attempt - 1).
THEOREM BackoffBudget == Spec => []BackoffBounded
<1>1. GetInv => BackoffBounded
  BY DEF GetInv
<1> QED BY <1>1, GetInvariant, PTL

\* Whatever Retry-After headers the servers send, there is a pause before
\* each retry, and without a header that asks for one the pauses are the
\* exponential backoff.
THEOREM NoHotRetry == Spec => []RetriesSpaced
<1>1. GetInv => RetriesSpaced
  BY DEF GetInv
<1> QED BY <1>1, GetInvariant, PTL
=============================================================================
