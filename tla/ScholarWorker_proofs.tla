-------------------------- MODULE ScholarWorker_proofs --------------------------
(***************************************************************************)
(* What one worker guarantees for any number of scans, lost answers and    *)
(* restarts, and for all result lists: types, the listing and the mock     *)
(* server against every API; tokens and streams for those APIs that the    *)
(* theorems name.                                                          *)
(***************************************************************************)
EXTENDS ScholarWorker, ProviderApi_proofs

-----------------------------------------------------------------------------
(* What a step of the worker is for one scan.                              *)

\* The variables are functions of the scans, and the state of an open scan
\* is there for its only reader.
Shape ==
  /\ TypeOK
  /\ DOMAIN held = Scans /\ DOMAIN rows = Scans
  /\ \A s \in Scans :
       /\ phase[s] = "open" => reading[s] = Readers
       /\ phase[s] = "new" => rows[s] = <<>> /\ reading[s] = {}

\* Nothing happens to the scan.
Idle(s) ==
  /\ phase'[s] = phase[s]
  /\ reading'[s] = reading[s]
  /\ held'[s] = held[s]
  /\ rows'[s] = rows[s]

\* It fails: it was for an unknown provider, a search raised, or the worker
\* that held its state died.
Fails(s) ==
  /\ phase[s] \in {"new", "open"}
  /\ phase'[s] = "failed"
  /\ reading'[s] = reading[s]
  /\ held'[s] = held[s]
  /\ rows'[s] = rows[s]

\* It is bound.
Opens(s) ==
  /\ phase[s] = "new"
  /\ calls[s].function = "scholar_search" => IsKnown(calls[s].name)
  /\ phase'[s] = "open"
  /\ reading'[s] = Readers
  /\ held'[s] = [r \in Readers |-> Keep(Fresh)]
  /\ rows'[s] = rows[s]

\* It lists the providers.
Lists(s) ==
  /\ phase[s] = "open"
  /\ calls[s].function = "scholar_providers"
  /\ phase'[s] = "finished"
  /\ reading'[s] = {}
  /\ held'[s] = held[s]
  /\ rows'[s] = rows[s] \o ProviderRows

\* It finds nothing left to fetch.
Ends(s, r) ==
  /\ phase[s] = "open"
  /\ calls[s].function = "scholar_search"
  /\ At(s, StateOf(s, r))!Exhausted
  /\ phase'[s] = "finished"
  /\ reading'[s] = {}
  /\ held'[s] = held[s]
  /\ rows'[s] = rows[s]

\* It takes a page.
Takes(s, r, page) ==
  LET kept == At(s, StateOf(s, r))!Kept(page)
      last == kept = <<>> /\ page.next_cursor = NoCursor
  IN  /\ phase[s] = "open"
      /\ calls[s].function = "scholar_search"
      /\ ~ At(s, StateOf(s, r))!Exhausted
      /\ phase'[s] = IF last THEN "finished" ELSE "open"
      /\ reading'[s] = IF last THEN {} ELSE Readers
      /\ DOMAIN held'[s] = Readers
      /\ held'[s][r] = Keep(At(s, StateOf(s, r))!After(page))
      /\ rows'[s] = rows[s] \o kept

Moves(s) ==
  \/ Idle(s) \/ Fails(s) \/ Opens(s) \/ Lists(s)
  \/ \E r \in Readers : \/ Ends(s, r)
                        \/ \E page \in PagesFor(s, StateOf(s, r)) : Takes(s, r, page)

\* There is one reader.
LEMMA OneReader ==
  ASSUME NEW r \in Readers
  PROVE  Readers = {r} /\ r = 1
BY DEF Readers

\* Every step is such a move for each of the scans.
LEMMA StepMoves ==
  ASSUME Shape, [Next]_vars
  PROVE  /\ UNCHANGED setup
         /\ DOMAIN held' = Scans /\ DOMAIN rows' = Scans
         /\ \A s \in Scans : Moves(s)
<1> DEFINE Goal == /\ UNCHANGED setup
                   /\ DOMAIN held' = Scans /\ DOMAIN rows' = Scans
                   /\ \A s \in Scans : Moves(s)
<1>0. /\ phase \in [Scans -> {"new", "open", "finished", "failed"}]
      /\ reading \in [Scans -> SUBSET Readers]
      /\ DOMAIN held = Scans /\ DOMAIN rows = Scans
      /\ \A s \in Scans : phase[s] = "open" => reading[s] = Readers /\ DOMAIN held[s] = Readers
  BY DEF Shape, TypeOK
<1>1. ASSUME NEW s \in Scans, Bind(s) PROVE Goal
  <2>1. \A t \in Scans \ {s} : Idle(t)
    BY <1>0, <1>1 DEF Bind, Idle
  <2>2. Fails(s) \/ Opens(s)
    BY <1>0, <1>1 DEF Bind, Fails, Opens
  <2>3. UNCHANGED setup /\ DOMAIN held' = Scans /\ DOMAIN rows' = Scans
    BY <1>0, <1>1 DEF Bind
  <2> QED BY <2>1, <2>2, <2>3 DEF Moves
<1>2. ASSUME NEW s \in Scans, NEW r \in Readers, ListProviders(s, r) PROVE Goal
  <2>1. \A t \in Scans \ {s} : Idle(t)
    BY <1>0, <1>2 DEF ListProviders, ReaderFinishes, Idle
  <2>2. Lists(s)
    <3>1. reading[s] = {r}
      BY <1>0, <1>2, OneReader DEF ListProviders, OpenTick
    <3> QED BY <1>0, <1>2, <3>1 DEF ListProviders, OpenTick, ReaderFinishes, Lists
  <2>3. UNCHANGED setup /\ DOMAIN held' = Scans /\ DOMAIN rows' = Scans
    BY <1>0, <1>2 DEF ListProviders
  <2> QED BY <2>1, <2>2, <2>3 DEF Moves
<1>3. ASSUME NEW s \in Scans, NEW r \in Readers, SearchFinishes(s, r) PROVE Goal
  <2>1. \A t \in Scans \ {s} : Idle(t)
    BY <1>0, <1>3 DEF SearchFinishes, ReaderFinishes, Idle
  <2>2. Ends(s, r)
    <3>1. reading[s] = {r}
      BY <1>0, <1>3, OneReader DEF SearchFinishes, OpenTick
    <3> QED BY <1>0, <1>3, <3>1 DEF SearchFinishes, OpenTick, ReaderFinishes, Ends
  <2>3. UNCHANGED setup /\ DOMAIN held' = Scans /\ DOMAIN rows' = Scans
    BY <1>0, <1>3 DEF SearchFinishes
  <2> QED BY <2>1, <2>2, <2>3 DEF Moves
<1>4. ASSUME NEW s \in Scans, NEW r \in Readers, SearchPage(s, r) PROVE Goal
  <2> DEFINE st == StateOf(s, r)
  <2>1. PICK page \in PagesFor(s, st) :
          LET kept == At(s, st)!Kept(page)
          IN  /\ rows' = [rows EXCEPT ![s] = @ \o kept]
              /\ held' = [held EXCEPT ![s][r] = Keep(At(s, st)!After(page))]
              /\ IF kept = <<>> /\ page.next_cursor = NoCursor
                 THEN ReaderFinishes(s, r)
                 ELSE UNCHANGED <<reading, phase>>
    BY <1>4 DEF SearchPage
  <2>2. /\ phase[s] = "open" /\ calls[s].function = "scholar_search"
        /\ ~ At(s, st)!Exhausted
        /\ reading[s] = {r} /\ {r} = Readers
        /\ DOMAIN held[s] = Readers
    BY <1>0, <1>4, OneReader DEF SearchPage, NeedsPage, OpenTick
  <2> HIDE DEF st
  <2>3. \A t \in Scans \ {s} : Idle(t)
    BY <1>0, <2>1 DEF ReaderFinishes, Idle
  <2>4. Takes(s, r, page)
    <3> DEFINE kept == At(s, st)!Kept(page)
               after == Keep(At(s, st)!After(page))
    <3>1. /\ rows' = [rows EXCEPT ![s] = @ \o kept]
          /\ held' = [held EXCEPT ![s][r] = after]
          /\ IF kept = <<>> /\ page.next_cursor = NoCursor
             THEN ReaderFinishes(s, r)
             ELSE UNCHANGED <<reading, phase>>
      BY <2>1
    <3> HIDE DEF kept, after
    <3>2. /\ phase'[s] = IF kept = <<>> /\ page.next_cursor = NoCursor
                         THEN "finished" ELSE "open"
          /\ reading'[s] = IF kept = <<>> /\ page.next_cursor = NoCursor
                           THEN {} ELSE Readers
      BY <1>0, <2>2, <3>1 DEF ReaderFinishes
    <3>3. DOMAIN held'[s] = Readers /\ held'[s][r] = after
      BY <1>0, <2>2, <3>1
    <3>4. rows'[s] = rows[s] \o kept
      BY <1>0, <3>1
    <3> QED BY <2>2, <3>2, <3>3, <3>4 DEF Takes, st, kept, after
  <2>5. UNCHANGED setup /\ DOMAIN held' = Scans /\ DOMAIN rows' = Scans
    BY <1>0, <1>4, <2>1 DEF SearchPage
  <2> QED BY <2>3, <2>4, <2>5 DEF Moves, st
<1>5. ASSUME NEW s \in Scans, NEW r \in Readers, SearchRaises(s, r) PROVE Goal
  <2>1. \A t \in Scans \ {s} : Idle(t)
    BY <1>0, <1>5 DEF SearchRaises, Idle
  <2>2. Fails(s)
    BY <1>0, <1>5 DEF SearchRaises, NeedsPage, OpenTick, Fails
  <2>3. UNCHANGED setup /\ DOMAIN held' = Scans /\ DOMAIN rows' = Scans
    BY <1>0, <1>5 DEF SearchRaises
  <2> QED BY <2>1, <2>2, <2>3 DEF Moves
<1>6. CASE Restart
  <2>1. \A t \in Scans : Idle(t) \/ Fails(t)
    BY <1>0, <1>6 DEF Restart, Idle, Fails
  <2>2. UNCHANGED setup /\ DOMAIN held' = Scans /\ DOMAIN rows' = Scans
    BY <1>0, <1>6 DEF Restart
  <2> QED BY <2>1, <2>2 DEF Moves
<1>7. CASE UNCHANGED vars \/ \E s \in Scans, r \in Readers : AnswerLost(s, r)
  <2>1. UNCHANGED <<setup, phase, reading, held, rows>>
    BY <1>7 DEF vars, AnswerLost
  <2>2. \A t \in Scans : Idle(t)
    BY <2>1 DEF Idle
  <2> QED BY <1>0, <2>1, <2>2 DEF Moves
<1> QED BY <1>1, <1>2, <1>3, <1>4, <1>5, <1>6, <1>7 DEF Next, Tick

-----------------------------------------------------------------------------
(* Types.                                                                  *)

\* A scan state with all its fields.
State == [cursor : Cursor, emitted : Nat, started : BOOLEAN, done : BOOLEAN]

\* What travels loses no field.
LEMMA KeepIsWhole ==
  ASSUME NEW st \in State
  PROVE  /\ DOMAIN Keep(st) = DOMAIN Fresh
         /\ Keep(st).cursor = st.cursor
         /\ Keep(st).emitted = st.emitted
         /\ Keep(st).started = st.started
         /\ Keep(st).done = st.done
<1>1. DOMAIN st = DeclaredFields /\ DOMAIN Fresh = DeclaredFields
  BY DEF State, Fresh, DeclaredFields
<1> QED BY <1>1 DEF Keep, DeclaredFields

\* What the worker reads back is what was kept.
LEMMA StateIsHeld ==
  ASSUME NEW s \in Scans, NEW r, DOMAIN held[s][r] = DOMAIN Fresh
  PROVE  /\ StateOf(s, r).cursor = held[s][r].cursor
         /\ StateOf(s, r).emitted = held[s][r].emitted
         /\ StateOf(s, r).started = held[s][r].started
         /\ StateOf(s, r).done = held[s][r].done
<1>1. DOMAIN Fresh = {"cursor", "emitted", "started", "done"}
  BY DEF Fresh
<1> QED BY <1>1 DEF StateOf

\* A page that is taken leaves a whole state behind.
LEMMA TakenState ==
  ASSUME NEW s \in Scans, NEW r \in Readers, NEW page, Takes(s, r, page)
  PROVE  /\ DOMAIN held'[s] = {r}
         /\ DOMAIN held'[s][r] = DOMAIN Fresh
<1> DEFINE after == At(s, StateOf(s, r))!After(page)
<1>1. DOMAIN after = DeclaredFields /\ DOMAIN Fresh = DeclaredFields
  BY DEF At!After, Fresh, DeclaredFields
<1>2. DOMAIN held'[s] = Readers /\ held'[s][r] = Keep(after)
  BY DEF Takes
<1> HIDE DEF after
<1> QED BY <1>1, <1>2, OneReader DEF Keep

\* The history and the bound have their types.
LEMMA HistoryStep ==
  ASSUME Shape, [Next]_vars
  PROVE  /\ servers' \in [Scans -> SUBSET {"live", "override"}]
         /\ faults' \in 0 .. MaxFaults
<1>1. \A s \in Scans : ServerOf(s) \in {"live", "override"}
  BY DEF ServerOf, ServerFor
<1>2. /\ servers \in [Scans -> SUBSET {"live", "override"}]
      /\ faults \in 0 .. MaxFaults
      /\ MaxFaults \in Nat
  BY WorkerAssumption DEF Shape, TypeOK
<1>3. \/ servers' = servers
      \/ \E s \in Scans : servers' = [servers EXCEPT ![s] = @ \cup {ServerOf(s)}]
  BY DEF Next, Tick, Bind, ListProviders, SearchFinishes, SearchPage, SearchRaises,
         AnswerLost, Restart, vars
<1>4. faults' = faults \/ (faults < MaxFaults /\ faults' = faults + 1)
  BY DEF Next, Tick, Bind, ListProviders, SearchFinishes, SearchPage, SearchRaises,
         AnswerLost, Restart, vars
<1>5. servers' \in [Scans -> SUBSET {"live", "override"}]
  BY <1>1, <1>2, <1>3
<1>6. faults' \in 0 .. MaxFaults
  BY <1>2, <1>4
<1> QED BY <1>5, <1>6

\* The phase and the readers stay functions of the scans.
LEMMA PhaseStep ==
  ASSUME Shape, [Next]_vars
  PROVE  /\ phase' \in [Scans -> {"new", "open", "finished", "failed"}]
         /\ reading' \in [Scans -> SUBSET Readers]
<1>0. /\ phase \in [Scans -> {"new", "open", "finished", "failed"}]
      /\ reading \in [Scans -> SUBSET Readers]
  BY DEF Shape, TypeOK
<1>1. \A s \in Scans : Bind(s) =>
        /\ phase' \in [Scans -> {"new", "open", "finished", "failed"}]
        /\ reading' \in [Scans -> SUBSET Readers]
  BY <1>0 DEF Bind
<1>2. \A s \in Scans, r \in Readers : ReaderFinishes(s, r) =>
        /\ phase' \in [Scans -> {"new", "open", "finished", "failed"}]
        /\ reading' \in [Scans -> SUBSET Readers]
  BY <1>0 DEF ReaderFinishes
<1>3. \A s \in Scans, r \in Readers : SearchRaises(s, r) =>
        /\ phase' \in [Scans -> {"new", "open", "finished", "failed"}]
        /\ reading' \in [Scans -> SUBSET Readers]
  BY <1>0 DEF SearchRaises
<1>4. Restart =>
        /\ phase' \in [Scans -> {"new", "open", "finished", "failed"}]
        /\ reading' \in [Scans -> SUBSET Readers]
  BY <1>0 DEF Restart
<1>5. \/ Restart \/ UNCHANGED <<phase, reading>>
      \/ \E s \in Scans : Bind(s)
      \/ \E s \in Scans, r \in Readers : SearchRaises(s, r) \/ ReaderFinishes(s, r)
  BY DEF Next, Tick, ListProviders, SearchFinishes, SearchPage, AnswerLost, vars
<1> QED BY <1>0, <1>1, <1>2, <1>3, <1>4, <1>5

\* Every step keeps the shape.
LEMMA ShapeStep == Shape /\ [Next]_vars => Shape'
<1> SUFFICES ASSUME Shape, [Next]_vars PROVE Shape'
  OBVIOUS
<1>1. /\ UNCHANGED setup
      /\ DOMAIN held' = Scans /\ DOMAIN rows' = Scans
      /\ \A s \in Scans : Moves(s)
  BY StepMoves
<1>2. ASSUME NEW s \in Scans
      PROVE  /\ phase'[s] = "open" => DOMAIN held'[s] = Readers /\ reading'[s] = Readers
             /\ phase'[s] = "new" => rows'[s] = <<>> /\ reading'[s] = {}
             /\ \A r \in DOMAIN held'[s] : DOMAIN held'[s][r] = DOMAIN Fresh
  <2>0. /\ phase[s] = "open" => DOMAIN held[s] = Readers /\ reading[s] = Readers
        /\ phase[s] = "new" => rows[s] = <<>> /\ reading[s] = {}
        /\ \A r \in DOMAIN held[s] : DOMAIN held[s][r] = DOMAIN Fresh
    BY DEF Shape, TypeOK
  <2>1. CASE Idle(s) \/ Fails(s)
    BY <2>0, <2>1 DEF Idle, Fails
  <2>2. CASE Opens(s)
    <3>1. Fresh \in State
      BY DEF Fresh, State, NoCursor, Cursor, Forms
    <3>2. DOMAIN Keep(Fresh) = DOMAIN Fresh
      BY <3>1, KeepIsWhole
    <3> QED BY <2>2, <3>2 DEF Opens
  <2>3. CASE Lists(s) \/ \E r \in Readers : Ends(s, r)
    BY <2>0, <2>3 DEF Lists, Ends
  <2>4. ASSUME NEW r \in Readers, NEW page \in PagesFor(s, StateOf(s, r)), Takes(s, r, page)
        PROVE  /\ phase'[s] = "open" => DOMAIN held'[s] = Readers /\ reading'[s] = Readers
               /\ phase'[s] = "new" => rows'[s] = <<>> /\ reading'[s] = {}
               /\ \A q \in DOMAIN held'[s] : DOMAIN held'[s][q] = DOMAIN Fresh
    <3>1. /\ DOMAIN held'[s] = {r} /\ Readers = {r}
          /\ DOMAIN held'[s][r] = DOMAIN Fresh
      BY <2>4, TakenState, OneReader
    <3>2. /\ phase'[s] \in {"finished", "open"}
          /\ phase'[s] = "open" => reading'[s] = Readers
      BY <2>4 DEF Takes
    <3> QED BY <3>1, <3>2
  <2> QED BY <1>1, <2>1, <2>2, <2>3, <2>4 DEF Moves
<1>3. TypeOK'
  <2>1. \A s \in Scans : phase'[s] = "open" => reading'[s] # {}
    BY <1>2 DEF Readers
  <2>2. transport' \in {"stdio", "http"} /\ env' \in Environments /\ calls' \in [Scans -> Calls]
    BY <1>1 DEF setup, Shape, TypeOK
  <2> QED BY <1>2, <2>1, <2>2, HistoryStep, PhaseStep DEF TypeOK
<1> QED BY <1>1, <1>2, <1>3 DEF Shape

\* The worker starts in that shape.
LEMMA ShapeInit == Init => Shape
<1> SUFFICES ASSUME Init PROVE Shape
  OBVIOUS
<1>1. transport \in {"stdio", "http"}
  BY DEF Init, Transport
<1>2. 0 \in 0 .. MaxFaults
  BY WorkerAssumption
<1> QED BY <1>1, <1>2 DEF Init, Shape, TypeOK

\* Whatever is called, fails, gets lost or restarts, every variable has its
\* type, an open scan has a reader, and a token has every field.
THEOREM WorkerTypes == Spec => []TypeOK
<1>1. Shape => TypeOK
  BY DEF Shape
<1> QED BY <1>1, ShapeInit, ShapeStep, PTL DEF Spec

-----------------------------------------------------------------------------
(* The listing of the providers.                                           *)

\* A listing has no rows until it finishes, and then it has them all.
ListingInv(s) ==
  calls[s].function = "scholar_providers" =>
    /\ phase[s] \in {"new", "open"} => rows[s] = <<>>
    /\ phase[s] = "finished" => rows[s] = ProviderRows

\* Only the tick of a listing changes it.
LEMMA ListingStep ==
  ASSUME Shape, NEW s \in Scans, ListingInv(s), Moves(s), UNCHANGED setup
  PROVE  ListingInv(s)'
<1>1. calls' = calls
  BY DEF setup
<1>2. CASE Idle(s) \/ Fails(s)
  BY <1>1, <1>2 DEF Idle, Fails, ListingInv
<1>3. CASE Opens(s)
  BY <1>1, <1>3 DEF Opens, Shape, ListingInv
<1>4. CASE Lists(s)
  <2>1. rows[s] = <<>> /\ rows'[s] = rows[s] \o ProviderRows /\ phase'[s] = "finished"
    BY <1>4 DEF Lists, ListingInv
  <2>2. <<>> \o ProviderRows = ProviderRows
    <3>1. ProviderRows \in Seq({ProviderRow(ListedProviders[i]) : i \in 1 .. 3})
      BY DEF ProviderRows, ListedProviders
    <3> HIDE DEF ProviderRows
    <3> QED BY <3>1
  <2> QED BY <2>1, <2>2 DEF ListingInv
<1>5. CASE \E r \in Readers : \/ Ends(s, r)
                              \/ \E page \in PagesFor(s, StateOf(s, r)) : Takes(s, r, page)
  BY <1>1, <1>5 DEF Ends, Takes, ListingInv
<1> QED BY <1>2, <1>3, <1>4, <1>5 DEF Moves

ListingsInv == Shape /\ \A s \in Scans : ListingInv(s)

\* The worker starts with it.
LEMMA ListingsInit == Init => ListingsInv
BY ShapeInit DEF Init, ListingsInv, ListingInv

\* Every step keeps it.
LEMMA ListingsStep == ListingsInv /\ [Next]_vars => ListingsInv'
BY ShapeStep, StepMoves, ListingStep DEF ListingsInv

\* scholar_providers lists each provider that get_provider() accepts once,
\* and marks as the default the one an omitted name stands for, whatever
\* else the worker serves and however often it is replaced.
THEOREM ListingIsHonest == Spec => []DiscoveryHonest
<1>1. ListingsInv => DiscoveryHonest
  <2> SUFFICES ASSUME ListingsInv, NEW s \in Scans,
                      calls[s].function = "scholar_providers", phase[s] = "finished"
               PROVE
      /\ \A i, j \in 1 .. Len(rows[s]) :
           rows[s][i].provider = rows[s][j].provider => i = j
      /\ {row \in {rows[s][i] : i \in 1 .. Len(rows[s])} : row.default}
           = {ProviderRow(Resolved(Plain("")))}
      /\ {rows[s][i].provider : i \in 1 .. Len(rows[s])}
           = {name \in {"unlisted"} \cup ProviderNames : IsKnown(Plain(name))}
    BY DEF DiscoveryHonest
  <2> DEFINE list == rows[s]
  <2>1. list = ProviderRows
    BY DEF ListingsInv, ListingInv
  <2>2. /\ Len(list) = 3 /\ 1 .. Len(list) = {1, 2, 3}
        /\ list[1] = ProviderRow("arxiv")
        /\ list[2] = ProviderRow("crossref")
        /\ list[3] = ProviderRow("openalex")
    <3>1. /\ Len(ListedProviders) = 3
          /\ ListedProviders[1] = "arxiv"
          /\ ListedProviders[2] = "crossref"
          /\ ListedProviders[3] = "openalex"
      BY DEF ListedProviders
    <3>2. 1 .. 3 = {1, 2, 3}
      OBVIOUS
    <3>3. /\ ProviderRows = [i \in 1 .. 3 |-> ProviderRow(ListedProviders[i])]
      BY <3>1 DEF ProviderRows
    <3>4. Len(ProviderRows) = 3
      BY <3>3
    <3> QED BY <2>1, <3>1, <3>2, <3>3, <3>4
  <2>3. Resolved(Plain("")) = "openalex"
    BY DEF Resolved, DefaultProvider
  <2>4. \A name \in {"unlisted"} \cup ProviderNames : Resolved(Plain(name)) = name
    <3> SUFFICES ASSUME NEW name \in {"unlisted"} \cup ProviderNames
                 PROVE  Resolved(Plain(name)) = name
      OBVIOUS
    <3>1. Plain(name).word = name /\ Plain("").word = ""
      BY DEF Plain
    <3>2. name # ""
      BY DEF ProviderNames, CursorProviders
    <3>3. Plain(name) # Plain("")
      BY <3>1, <3>2
    <3> QED BY <3>1, <3>3 DEF Resolved
  <2>5. {name \in {"unlisted"} \cup ProviderNames : IsKnown(Plain(name))}
          = {"arxiv", "crossref", "openalex"}
    <3>1. "unlisted" \notin ProviderNames
      BY DEF ProviderNames, CursorProviders
    <3> QED BY <2>4, <3>1 DEF IsKnown, ProviderNames, CursorProviders
  <2>6. /\ ProviderRow("arxiv").provider = "arxiv"
        /\ ProviderRow("crossref").provider = "crossref"
        /\ ProviderRow("openalex").provider = "openalex"
        /\ ProviderRow("arxiv").default = FALSE
        /\ ProviderRow("crossref").default = FALSE
        /\ ProviderRow("openalex").default = TRUE
    BY DEF ProviderRow, DefaultProvider
  <2> HIDE DEF list
  <2>7. {list[i] : i \in 1 .. Len(list)}
          = {ProviderRow("arxiv"), ProviderRow("crossref"), ProviderRow("openalex")}
    BY <2>2
  <2>8. {list[i].provider : i \in 1 .. Len(list)} = {"arxiv", "crossref", "openalex"}
    BY <2>2, <2>6
  <2>9. \A i, j \in 1 .. Len(list) : list[i].provider = list[j].provider => i = j
    BY <2>2, <2>6
  <2>10. {row \in {list[i] : i \in 1 .. Len(list)} : row.default}
           = {ProviderRow("openalex")}
    BY <2>6, <2>7
  <2> QED BY <2>3, <2>5, <2>8, <2>9, <2>10 DEF list
<1> QED BY <1>1, ListingsInit, ListingsStep, PTL DEF Spec

-----------------------------------------------------------------------------
(* One tick of a scan, in the terms of its call and of the state it holds. *)

\* Nothing is left to fetch.
Over(s, st) ==
  \/ st.done
  \/ st.emitted >= calls[s].count
  \/ st.started /\ st.cursor = NoCursor

\* Where the next request starts.
StartOf(s, st) ==
  IF Args(s).provider = "arxiv" THEN ParseOffset(st.cursor) ELSE CursorParam(st.cursor).at

\* How many results it is to bring.
WantedOf(s, st) ==
  IF calls[s].page_size # 0 THEN calls[s].page_size
  ELSE Min({DefaultPageSize, calls[s].count - st.emitted})

\* The quirks of the server of a scan; those of the mock server are the
\* short pages of its cursor APIs.
QuirksOf(s) ==
  CASE ServerOf(s) = "live" -> LiveQuirks[Args(s).provider]
    [] ServerOf(s) # "live" /\ Args(s).provider = "arxiv" -> {}
    [] ServerOf(s) # "live" /\ Args(s).provider # "arxiv" -> {"short"}

\* The definitions of SearchTick, for the scan s.
LEMMA TickOfScan ==
  ASSUME NEW s \in Scans, NEW st
  PROVE  /\ At(s, st)!Exhausted <=> Over(s, st)
         /\ At(s, st)!TheRequest = Request(Args(s).provider, WantedOf(s, st), st.cursor)
         /\ At(s, st)!TheRequest.at = StartOf(s, st)
<1>1. At(s, st)!Exhausted <=> Over(s, st)
  BY DEF At!Exhausted, Args, At!NoCursor, NoCursor, Over
<1>2. At(s, st)!TheRequest = Request(Args(s).provider, WantedOf(s, st), st.cursor)
  <2>1. At(s, st)!WantedPage = WantedOf(s, st)
    BY DEF At!WantedPage, WantedOf, At!Remaining, Args, At!Min, Min
  <2> QED
    BY <2>1 DEF At!TheRequest, At!Request, Request, At!ArxivRequest, ArxivRequest,
                At!CursorRequest, CursorRequest, At!ParseOffset, ParseOffset,
                At!CursorParam, CursorParam, At!Star, Star, At!PerPage, PerPage,
                At!Max, Max, At!Min, Min
<1>3. Request(Args(s).provider, WantedOf(s, st), st.cursor).at = StartOf(s, st)
  BY RequestPosition DEF StartOf
<1> QED BY <1>1, <1>2, <1>3

\* The rows a page contributes, and the state it leaves behind.
LEMMA PageOfTick ==
  ASSUME NEW s \in Scans, NEW st, NEW page
  PROVE  LET kept  == At(s, st)!Kept(page)
             after == At(s, st)!After(page)
         IN  /\ kept = SubSeq(page.results, 1,
                              Min({calls[s].count - st.emitted, Len(page.results)}))
             /\ after = [cursor |-> page.next_cursor, emitted |-> st.emitted + Len(kept),
                         started |-> TRUE,
                         done |-> \/ page.next_cursor = NoCursor
                                  \/ st.emitted + Len(kept) >= calls[s].count]
<1>1. At(s, st)!Kept(page)
        = SubSeq(page.results, 1, Min({calls[s].count - st.emitted, Len(page.results)}))
  BY DEF At!Kept, At!Remaining, Args, Min, At!Min
<1>2. At(s, st)!After(page)
        = [cursor |-> page.next_cursor, emitted |-> st.emitted + Len(At(s, st)!Kept(page)),
           started |-> TRUE,
           done |-> \/ page.next_cursor = NoCursor
                    \/ st.emitted + Len(At(s, st)!Kept(page)) >= calls[s].count]
  BY DEF At!After, Args, At!NoCursor, NoCursor
<1> QED BY <1>1, <1>2

\* The pages of a live API, in the terms of ProviderApi.
LEMMA LivePages ==
  ASSUME NEW s \in Scans, NEW st, NEW r, r = At(s, st)!TheRequest,
         NEW p, p = Args(s).provider
  PROVE  At(s, st)!Pages = {PageOf(p, r, a) : a \in Answers(LiveQuirks[p], ListOf(s), r)}
<1>1. At(s, st)!Pages
        = {At(s, st)!PageOf(p, r, a) : a \in At(s, st)!Answers(LiveQuirks[p], ListOf(s), r)}
  BY DEF At!Pages, At!TheQuirks
<1>2. At(s, st)!Answers(LiveQuirks[p], ListOf(s), r)
        = Answers(LiveQuirks[p], ListOf(s), r)
  BY DEF At!Answers, Answers, At!NextCursors, NextCursors, At!AnswerSizes, AnswerSizes,
         At!Token, Token, At!NoCursor, NoCursor, At!Blank, Blank, At!Max, Max, At!Min, Min
<1>3. \A a : At(s, st)!PageOf(p, r, a) = PageOf(p, r, a)
  BY DEF At!PageOf, PageOf, At!OpenAlexPage, OpenAlexPage, At!CrossrefPage, CrossrefPage,
         At!ArxivPage, ArxivPage, At!Offset, Offset, At!NoCursor, NoCursor
<1> QED BY <1>1, <1>2, <1>3

\* A slice of one element.
LEMMA SliceOfOne ==
  ASSUME NEW S, NEW list \in Seq(S), NEW at \in Nat, at + 1 <= Len(list)
  PROVE  SubSeq(list, at + 1, at + 1) = <<list[at + 1]>>
<1> DEFINE slice == SubSeq(list, at + 1, at + 1)
<1>1. slice \in Seq(S) /\ Len(slice) = 1 /\ slice[1] = list[at + 1]
  BY SliceElements
<1> HIDE DEF slice
<1>2. <<list[at + 1]>> = [i \in 1 .. 1 |-> list[at + 1]]
  OBVIOUS
<1>3. slice = [i \in 1 .. 1 |-> list[at + 1]]
  BY <1>1
<1> QED BY <1>2, <1>3 DEF slice

\* A slice of a possible size with a possible cursor is an answer.
LEMMA SliceIsAnswer ==
  ASSUME NEW quirks, NEW list, NEW request, NEW left, NEW k, NEW c,
         left = Max({0, Len(list) - request.at}),
         k \in AnswerSizes(quirks, left, request.want),
         c \in NextCursors(quirks, Len(list), request.at + k)
  PROVE  [items |-> SubSeq(list, request.at + 1, request.at + k), next |-> c]
           \in Answers(quirks, list, request)
<1> DEFINE Sized(n) ==
             {[items |-> SubSeq(list, request.at + 1, request.at + n), next |-> d] :
                d \in NextCursors(quirks, Len(list), request.at + n)}
<1>1. [items |-> SubSeq(list, request.at + 1, request.at + k), next |-> c] \in Sized(k)
  OBVIOUS
<1>2. Answers(quirks, list, request)
        = UNION {Sized(n) : n \in AnswerSizes(quirks, left, request.want)}
  BY DEF Answers
<1> HIDE DEF Sized
<1> QED BY <1>1, <1>2

\* A page of the mock server is a page of an API with short pages at most.
LEMMA MockPage ==
  ASSUME NEW p \in ProviderNames, NEW request,
         request.at \in Nat, request.want \in Nat \ {0}
  PROVE  LET quirks == IF p = "arxiv" THEN {} ELSE {"short"}
         IN  PageOf(p, request, MockAnswer(p, request))
               \in {PageOf(p, request, a) : a \in Answers(quirks, MockList, request)}
<1> DEFINE list == MockList
           at == request.at
           want == request.want
           left == Max({0, Len(list) - at})
           full == Min({left, want})
<1>1. /\ list \in Seq(Works) /\ Len(list) \in Nat
      /\ at \in Nat /\ want \in Nat \ {0}
  BY MockAssumption
<1>2. /\ left \in Nat
      /\ at <= Len(list) => left = Len(list) - at
      /\ at > Len(list) => left = 0
  <2>1. 0 \in Int /\ Len(list) - at \in Int
    BY <1>1
  <2>2. left \in {0, Len(list) - at} /\ left >= 0 /\ left >= Len(list) - at
    BY <2>1, MaxOfTwo
  <2> HIDE DEF left
  <2> QED BY <1>1, <2>2
<1> HIDE DEF left
<1>3. full \in {left, want} /\ full <= left /\ full <= want /\ full \in Nat
  <2>1. left \in Int /\ want \in Int
    BY <1>1, <1>2
  <2> QED BY <2>1, <1>1, <1>2, MinOfTwo
<1> HIDE DEF full
<1>4. CASE p = "arxiv"
  <2> DEFINE answer == [items |-> SubSeq(list, at + 1, at + full), next |-> Token(at + full)]
  <2>1. full \in AnswerSizes({}, left, want)
    BY DEF AnswerSizes, full
  <2>2. Token(at + full) \in NextCursors({}, Len(list), at + full)
    BY DEF NextCursors
  <2>3. answer \in Answers({}, list, request)
    BY <2>1, <2>2, SliceIsAnswer DEF left
  <2>4. MockAnswer(p, request).items = answer.items
    <3> DEFINE end == Min({at + want, Len(list)})
    <3>1. MockAnswer(p, request).items = SubSeq(list, at + 1, end)
      BY <1>4 DEF MockAnswer, SliceAnswer
    <3>2. at + want \in Int /\ Len(list) \in Int
      BY <1>1
    <3>3. end \in {at + want, Len(list)} /\ end <= at + want /\ end <= Len(list)
      BY <3>2, MinOfTwo
    <3> HIDE DEF end
    <3>4. CASE at <= Len(list)
      <4>1. end = at + full
        BY <1>1, <1>2, <1>3, <3>3, <3>4
      <4> QED BY <3>1, <4>1
    <3>5. CASE at > Len(list)
      <4>1. end = Len(list) /\ full = 0
        BY <1>1, <1>2, <1>3, <3>3, <3>5
      <4>2. SubSeq(list, at + 1, end) = <<>> /\ SubSeq(list, at + 1, at + full) = <<>>
        BY <1>1, <4>1, <3>5
      <4> QED BY <3>1, <4>2
    <3> QED BY <1>1, <3>4, <3>5
  <2>5. PageOf(p, request, MockAnswer(p, request)) = PageOf(p, request, answer)
    BY <1>4, <2>4 DEF PageOf, ArxivPage
  <2> QED BY <1>4, <2>3, <2>5
<1>5. CASE p # "arxiv"
  <2> DEFINE k == IF at >= Len(list) THEN 0 ELSE 1
             answer == MockAnswer(p, request)
  <2>1. k \in AnswerSizes({"short"}, left, want)
    <3>1. k \in {full} \cup 1 .. full
      BY <1>1, <1>2, <1>3
    <3> QED BY <3>1 DEF AnswerSizes, full
  <2>2. answer.next \in NextCursors({"short"}, Len(list), at + k)
    BY <1>1, <1>5 DEF MockAnswer, CursorAnswer, NextCursors
  <2>3. answer = [items |-> SubSeq(list, at + 1, at + k), next |-> answer.next]
    <3>1. CASE at >= Len(list)
      <4>1. SubSeq(list, at + 1, at + k) = <<>>
        BY <1>1, <3>1
      <4> QED BY <1>5, <3>1, <4>1 DEF MockAnswer, CursorAnswer
    <3>2. CASE ~ (at >= Len(list))
      <4>1. SubSeq(list, at + 1, at + k) = <<list[at + 1]>>
        <5>1. list \in Seq(Works) /\ at + 1 \in 1 .. Len(list) /\ k = 1
          BY <1>1, <3>2
        <5> QED BY <1>1, <5>1, SliceOfOne
      <4> QED BY <1>5, <3>2, <4>1 DEF MockAnswer, CursorAnswer
    <3> QED BY <3>1, <3>2
  <2> HIDE DEF answer, k
  <2>4. answer \in Answers({"short"}, list, request)
    BY <2>1, <2>2, <2>3, SliceIsAnswer DEF left
  <2>5. PageOf(p, request, answer)
          \in {PageOf(p, request, a) : a \in Answers({"short"}, list, request)}
    BY <2>4
  <2> QED BY <1>5, <2>5 DEF answer
<1> QED BY <1>4, <1>5

-----------------------------------------------------------------------------
(* Searches.                                                               *)

\* The counter of a search and its rows agree, whatever the server sends.
SearchInv(s) ==
  calls[s].function = "scholar_search" =>
    /\ rows[s] \in Seq(Works)
    /\ Len(rows[s]) <= calls[s].count
    /\ phase[s] = "open" =>
         /\ Args(s).provider \in ProviderNames
         /\ \A r \in Readers : /\ held[s][r].cursor \in Cursor
                               /\ held[s][r].emitted = Len(rows[s])

\* What the worker reads back for an open scan is what was kept.
LEMMA HeldOfScan ==
  ASSUME Shape, NEW s \in Scans, NEW r \in Readers, phase[s] = "open"
  PROVE  /\ StateOf(s, r).cursor = held[s][r].cursor
         /\ StateOf(s, r).emitted = held[s][r].emitted
         /\ StateOf(s, r).started = held[s][r].started
         /\ StateOf(s, r).done = held[s][r].done
<1>1. DOMAIN held[s][r] = DOMAIN Fresh
  BY DEF Shape, TypeOK
<1> QED BY <1>1, StateIsHeld

\* Its call and the list of its server are well typed.
LEMMA CallOfScan ==
  ASSUME Shape, NEW s \in Scans
  PROVE  /\ calls[s].count \in Nat \ {0}
         /\ calls[s].page_size \in Nat
         /\ ListOf(s) \in Seq(Works)
         /\ Args(s).provider = Resolved(calls[s].name)
<1>1. calls[s] \in Call
  BY WorkerAssumption DEF Shape, TypeOK
<1>2. ListOf(s) \in Seq(Works)
  BY WorkerAssumption, MockAssumption DEF ListOf
<1> QED BY <1>1, <1>2 DEF Call, Args

\* Before a search something is left to fetch, and the search asks for a
\* positive number of results.
LEMMA RequestOfTick ==
  ASSUME Shape, NEW s \in Scans, NEW r \in Readers, SearchInv(s),
         phase[s] = "open", calls[s].function = "scholar_search",
         ~ At(s, StateOf(s, r))!Exhausted
  PROVE  /\ calls[s].count - Len(rows[s]) \in Nat \ {0}
         /\ StateOf(s, r).emitted = Len(rows[s])
         /\ StateOf(s, r).cursor \in Cursor
         /\ At(s, StateOf(s, r))!TheRequest.at \in Nat
         /\ At(s, StateOf(s, r))!TheRequest.want \in Nat \ {0}
<1> DEFINE st == StateOf(s, r)
<1>1. /\ calls[s].count \in Nat \ {0}
      /\ calls[s].page_size \in Nat
  BY CallOfScan
<1>2. st.emitted = Len(rows[s]) /\ st.cursor \in Cursor /\ rows[s] \in Seq(Works)
      /\ Args(s).provider \in ProviderNames
  BY HeldOfScan DEF SearchInv
<1>3. ~ Over(s, st)
  BY TickOfScan
<1>4. At(s, st)!TheRequest = Request(Args(s).provider, WantedOf(s, st), st.cursor)
  BY TickOfScan
<1> HIDE DEF st
<1>5. calls[s].count - Len(rows[s]) \in Nat \ {0}
  <2>1. Len(rows[s]) \in Nat /\ ~ (Len(rows[s]) >= calls[s].count)
    BY <1>2, <1>3 DEF Over
  <2> QED BY <1>1, <2>1
<1>6. WantedOf(s, st) \in Nat
  <2> DEFINE left == calls[s].count - st.emitted
  <2>1. left \in Int /\ left \in Nat /\ DefaultPageSize \in Int /\ DefaultPageSize \in Nat
    BY <1>2, <1>5, WorkerAssumption
  <2> HIDE DEF left
  <2>2. Min({DefaultPageSize, left}) \in {DefaultPageSize, left}
    BY <2>1, MinOfTwo
  <2>3. Min({DefaultPageSize, left}) \in Nat
    BY <2>1, <2>2
  <2> QED BY <1>1, <2>3 DEF WantedOf, left
<1>7. /\ Request(Args(s).provider, WantedOf(s, st), st.cursor).at \in Nat
      /\ Request(Args(s).provider, WantedOf(s, st), st.cursor).want \in Nat \ {0}
  BY <1>2, <1>6, RequestType
<1> QED BY <1>2, <1>4, <1>5, <1>7 DEF st

\* Every page a search gets, from a live API or from the mock server, is
\* made of an answer of an API with the quirks of its server.
LEMMA PageOfServer ==
  ASSUME Shape, NEW s \in Scans, NEW r \in Readers, SearchInv(s),
         phase[s] = "open", calls[s].function = "scholar_search",
         ~ At(s, StateOf(s, r))!Exhausted,
         NEW request, request = At(s, StateOf(s, r))!TheRequest,
         NEW page \in PagesFor(s, StateOf(s, r))
  PROVE  /\ Args(s).provider \in ProviderNames
         /\ page \in {PageOf(Args(s).provider, request, a) :
                        a \in Answers(QuirksOf(s), ListOf(s), request)}
<1> DEFINE p == Args(s).provider
<1>1. p \in ProviderNames
  BY DEF SearchInv
<1>2. CASE ServerOf(s) = "live"
  <2>1. page \in At(s, StateOf(s, r))!Pages
    BY <1>2 DEF PagesFor
  <2>2. page \in {PageOf(p, request, a) : a \in Answers(LiveQuirks[p], ListOf(s), request)}
    BY <2>1, LivePages
  <2>3. QuirksOf(s) = LiveQuirks[p]
    BY <1>2 DEF QuirksOf
  <2> QED BY <1>1, <2>2, <2>3
<1>3. CASE ServerOf(s) # "live"
  <2>1. page = PageOf(p, request, MockAnswer(p, request)) /\ ListOf(s) = MockList
    BY <1>3 DEF PagesFor, ListOf
  <2>2. request.at \in Nat /\ request.want \in Nat \ {0}
    BY RequestOfTick
  <2>3. QuirksOf(s) = IF p = "arxiv" THEN {} ELSE {"short"}
    BY <1>3 DEF QuirksOf
  <2> HIDE DEF p
  <2> QED BY <1>1, <2>1, <2>2, <2>3, MockPage DEF p
<1> QED BY <1>2, <1>3

\* What taking a page does to a search: its rows grow by the head of the
\* page, and the state that is kept stands for them.
Grows(s, r, page, kept) ==
  /\ rows'[s] = rows[s] \o kept
  /\ rows[s] \in Seq(Works) /\ kept \in Seq(Works) /\ page.results \in Seq(Works)
  /\ Len(rows'[s]) = Len(rows[s]) + Len(kept)
  /\ Len(rows'[s]) <= calls[s].count
  /\ Len(kept) <= Len(page.results)
  /\ \A i \in 1 .. Len(kept) : kept[i] = page.results[i]
  /\ kept = <<>> <=> page.results = <<>>
  /\ Len(rows'[s]) = calls[s].count \/ Len(kept) = Len(page.results)
  /\ page.next_cursor \in Cursor
  /\ page.results = <<>> => page.next_cursor = NoCursor
  /\ held'[s][r].cursor = page.next_cursor
  /\ held'[s][r].emitted = Len(rows'[s])
  /\ held'[s][r].started = TRUE
  /\ held'[s][r].done <=> \/ page.next_cursor = NoCursor
                          \/ Len(rows'[s]) >= calls[s].count

\* A search that takes a page grows by its head.
LEMMA TakenPage ==
  ASSUME Shape, NEW s \in Scans, NEW r \in Readers, SearchInv(s),
         NEW page \in PagesFor(s, StateOf(s, r)), Takes(s, r, page),
         UNCHANGED setup,
         NEW kept, kept = At(s, StateOf(s, r))!Kept(page)
  PROVE  Grows(s, r, page, kept)
<1> DEFINE st == StateOf(s, r)
           request == At(s, st)!TheRequest
           after == At(s, st)!After(page)
<1>1. /\ phase[s] = "open" /\ calls[s].function = "scholar_search"
      /\ ~ At(s, st)!Exhausted
      /\ held'[s][r] = Keep(after)
      /\ rows'[s] = rows[s] \o kept
  BY DEF Takes
<1>2. /\ calls[s].count - Len(rows[s]) \in Nat \ {0}
      /\ st.emitted = Len(rows[s])
      /\ request.at \in Nat
      /\ request.want \in Nat \ {0}
  BY <1>1, RequestOfTick
<1>3. /\ rows[s] \in Seq(Works) /\ calls[s].count \in Nat /\ ListOf(s) \in Seq(Works)
  BY <1>1, CallOfScan DEF SearchInv
<1>4. PICK answer \in Answers(QuirksOf(s), ListOf(s), request) :
        page = PageOf(Args(s).provider, request, answer)
  BY <1>1, PageOfServer
<1>5. Args(s).provider \in ProviderNames
  BY <1>1, PageOfServer
<1>6. /\ kept = SubSeq(page.results, 1, Min({calls[s].count - st.emitted, Len(page.results)}))
      /\ after = [cursor |-> page.next_cursor, emitted |-> st.emitted + Len(kept),
                  started |-> TRUE,
                  done |-> \/ page.next_cursor = NoCursor
                           \/ st.emitted + Len(kept) >= calls[s].count]
  BY PageOfTick
<1> HIDE DEF request, after, st
<1>7. /\ page.results \in Seq(Works)
      /\ page.next_cursor \in Cursor
      /\ page.results = <<>> => page.next_cursor = NoCursor
  BY <1>2, <1>3, <1>4, <1>5, PageOfList
<1> DEFINE left == calls[s].count - Len(rows[s])
           head == SubSeq(page.results, 1, Min({left, Len(page.results)}))
<1>8. left \in Nat \ {0} /\ kept = head
  BY <1>2, <1>6
<1> HIDE DEF left
<1>9. /\ head \in Seq(Works)
      /\ Len(head) <= left
      /\ Len(head) <= Len(page.results)
      /\ \A i \in 1 .. Len(head) : head[i] = page.results[i]
      /\ head = <<>> <=> page.results = <<>>
      /\ Len(head) = left \/ Len(head) = Len(page.results)
  BY <1>7, <1>8, HeadOfPage, Zenon
<1> HIDE DEF head
<1>10. /\ Len(rows'[s]) = Len(rows[s]) + Len(kept)
       /\ Len(rows'[s]) \in Nat
  BY <1>1, <1>3, <1>8, <1>9
<1>11. /\ Len(rows'[s]) <= calls[s].count
       /\ Len(rows'[s]) = calls[s].count \/ Len(kept) = Len(page.results)
  BY <1>3, <1>8, <1>9, <1>10 DEF left
<1>12. /\ held'[s][r].cursor = page.next_cursor
       /\ held'[s][r].emitted = Len(rows'[s])
       /\ held'[s][r].started = TRUE
       /\ held'[s][r].done <=> \/ page.next_cursor = NoCursor
                               \/ Len(rows'[s]) >= calls[s].count
  <2>1. after \in State
    <3>1. st.emitted + Len(kept) \in Nat
      BY <1>2, <1>10
    <3> QED BY <1>6, <1>7, <3>1 DEF State
  <2>2. /\ Keep(after).cursor = after.cursor
        /\ Keep(after).emitted = after.emitted
        /\ Keep(after).started = after.started
        /\ Keep(after).done = after.done
    BY <2>1, KeepIsWhole
  <2> QED BY <1>1, <1>2, <1>6, <1>10, <2>2
<1> QED BY <1>1, <1>3, <1>7, <1>8, <1>9, <1>10, <1>11, <1>12 DEF Grows

\* Every move of a scan keeps its counter and its rows in agreement.
LEMMA SearchStep ==
  ASSUME Shape, NEW s \in Scans, SearchInv(s), Moves(s), UNCHANGED setup
  PROVE  SearchInv(s)'
<1> SUFFICES ASSUME calls[s].function = "scholar_search"
             PROVE  SearchInv(s)'
  BY DEF setup, SearchInv
<1>0. calls' = calls /\ Args(s)' = Args(s)
  BY DEF setup, Args
<1>1. CASE Idle(s) \/ Fails(s) \/ \E r \in Readers : Ends(s, r)
  <2>1. rows'[s] = rows[s] /\ held'[s] = held[s] /\ (phase'[s] = "open" => phase[s] = "open")
    BY <1>1 DEF Idle, Fails, Ends
  <2> QED BY <1>0, <2>1 DEF SearchInv
<1>2. CASE Opens(s)
  <2>1. rows[s] = <<>> /\ rows'[s] = <<>> /\ Len(<<>>) = 0
    BY <1>2 DEF Opens, Shape
  <2>2. Fresh \in State /\ Fresh.cursor = NoCursor /\ Fresh.emitted = 0 /\ NoCursor \in Cursor
    BY DEF Fresh, State, NoCursor, Cursor, Forms
  <2>3. \A r \in Readers : held'[s][r] = Keep(Fresh)
    BY <1>2 DEF Opens
  <2>4. Keep(Fresh).cursor = NoCursor /\ Keep(Fresh).emitted = 0
    BY <2>2, KeepIsWhole
  <2>5. Args(s).provider \in ProviderNames
    BY <1>2 DEF Opens, IsKnown, Args
  <2> QED BY <1>0, <2>1, <2>2, <2>3, <2>4, <2>5 DEF SearchInv
<1>3. ASSUME NEW r \in Readers, NEW page \in PagesFor(s, StateOf(s, r)), Takes(s, r, page)
      PROVE  SearchInv(s)'
  <2>0. PICK kept : kept = At(s, StateOf(s, r))!Kept(page)
    OBVIOUS
  <2>1. /\ rows'[s] = rows[s] \o kept
        /\ rows[s] \in Seq(Works) /\ kept \in Seq(Works)
        /\ Len(rows'[s]) <= calls[s].count
        /\ page.next_cursor \in Cursor
        /\ held'[s][r].cursor = page.next_cursor
        /\ held'[s][r].emitted = Len(rows'[s])
    <3>1. Grows(s, r, page, kept)
      BY <1>3, <2>0, TakenPage
    <3> QED BY <3>1 DEF Grows
  <2>2. rows'[s] \in Seq(Works)
    BY <2>1
  <2>3. Args(s).provider \in ProviderNames
    BY <1>3 DEF Takes, SearchInv
  <2>4. Readers = {r}
    BY OneReader
  <2> QED BY <1>0, <2>1, <2>2, <2>3, <2>4 DEF SearchInv
<1>4. CASE Lists(s)
  BY <1>4 DEF Lists
<1> QED BY <1>1, <1>2, <1>3, <1>4 DEF Moves

\* The inductive invariant against any server.
SearchesInv == Shape /\ \A s \in Scans : SearchInv(s)

\* No search has rows at the start.
LEMMA SearchesInit == Init => SearchesInv
<1> SUFFICES ASSUME Init PROVE SearchesInv
  OBVIOUS
<1>1. Shape
  BY ShapeInit
<1>2. ASSUME NEW s \in Scans PROVE SearchInv(s)
  <2>1. phase[s] = "new" /\ rows[s] = <<>> /\ calls[s].count \in Nat
    BY <1>1, CallOfScan DEF Init
  <2>2. rows[s] \in Seq(Works) /\ Len(rows[s]) = 0
    BY <2>1
  <2>3. Len(rows[s]) <= calls[s].count
    BY <2>1, <2>2
  <2> QED BY <2>1, <2>2, <2>3 DEF SearchInv
<1> QED BY <1>1, <1>2 DEF SearchesInv

\* Every step keeps it.
LEMMA SearchesStep == SearchesInv /\ [Next]_vars => SearchesInv'
BY ShapeStep, StepMoves, SearchStep DEF SearchesInv

\* For all lists, requests and calls: a page of the mock server is one that
\* an API could give which at most splits its pages.
THEOREM MockSuffices == Spec => []MockIsAnApi
<1>1. SearchesInv => MockIsAnApi
  <2> SUFFICES ASSUME SearchesInv, NEW s \in Scans, NEW r \in reading[s],
                      NeedsPage(s, r), ServerOf(s) = "override",
                      NEW page \in PagesFor(s, StateOf(s, r)),
                      NEW p, p = Args(s).provider,
                      NEW request, request = At(s, StateOf(s, r))!TheRequest
               PROVE  page \in {PageOf(p, request, a) :
                                  a \in Answers(IF p = "arxiv" THEN {} ELSE {"short"},
                                                MockList, request)}
    BY DEF MockIsAnApi
  <2>1. /\ phase[s] = "open" /\ calls[s].function = "scholar_search"
        /\ ~ At(s, StateOf(s, r))!Exhausted
        /\ r \in Readers
    BY DEF NeedsPage, OpenTick, SearchesInv, Shape, TypeOK
  <2>2. page \in {PageOf(p, request, a) : a \in Answers(QuirksOf(s), ListOf(s), request)}
    BY <2>1, PageOfServer DEF SearchesInv
  <2>3. /\ ListOf(s) = MockList
        /\ QuirksOf(s) = IF p = "arxiv" THEN {} ELSE {"short"}
    BY DEF ListOf, QuirksOf
  <2> QED BY <2>2, <2>3
<1> QED BY <1>1, SearchesInit, SearchesStep, PTL DEF Spec

-----------------------------------------------------------------------------
(* Tokens.                                                                 *)

\* The cursors of the live APIs lead on, whatever else they do.
LiveCursorsLeadOn == \A p \in ProviderNames : LeadsOn(LiveQuirks[p])

\* The rows of a search are the head of the list of its server, and the
\* next request that its token makes starts right after them.
TrackInv(s) ==
  calls[s].function = "scholar_search" =>
    /\ Len(rows[s]) <= Len(ListOf(s))
    /\ \A i \in 1 .. Len(rows[s]) : rows[s][i] = ListOf(s)[i]
    /\ phase[s] = "open" =>
         \A r \in Readers : \/ Over(s, held[s][r])
                            \/ StartOf(s, held[s][r]) = Len(rows[s])

\* A search that takes a page asks for what follows its rows.
LEMMA AsksForRest ==
  ASSUME Shape, NEW s \in Scans, NEW r \in Readers, SearchInv(s), TrackInv(s),
         phase[s] = "open", calls[s].function = "scholar_search",
         ~ At(s, StateOf(s, r))!Exhausted,
         NEW request, request = At(s, StateOf(s, r))!TheRequest
  PROVE  /\ request.at = Len(rows[s])
         /\ request.at \in Nat
         /\ request.want \in Nat \ {0}
         /\ request.at <= Len(ListOf(s))
<1>1. /\ StateOf(s, r).cursor = held[s][r].cursor
      /\ StateOf(s, r).emitted = held[s][r].emitted
      /\ StateOf(s, r).started = held[s][r].started
      /\ StateOf(s, r).done = held[s][r].done
  BY HeldOfScan
<1>2. ~ Over(s, StateOf(s, r)) /\ request.at = StartOf(s, StateOf(s, r))
  BY TickOfScan
<1>3. ~ Over(s, held[s][r]) /\ request.at = StartOf(s, held[s][r])
  BY <1>1, <1>2 DEF Over, StartOf
<1>4. request.at = Len(rows[s]) /\ Len(rows[s]) <= Len(ListOf(s))
  BY <1>3 DEF TrackInv
<1> QED BY <1>4, RequestOfTick

\* The page of a search that leads on continues after its results.
LEMMA TakenLeadsOn ==
  ASSUME LiveCursorsLeadOn,
         Shape, NEW s \in Scans, NEW r \in Readers, SearchInv(s), TrackInv(s),
         NEW page \in PagesFor(s, StateOf(s, r)), Takes(s, r, page)
  PROVE  /\ Len(rows[s]) + Len(page.results) <= Len(ListOf(s))
         /\ \A i \in 1 .. Len(page.results) :
              page.results[i] = ListOf(s)[Len(rows[s]) + i]
         /\ Continues(Args(s).provider, page, Len(rows[s]) + Len(page.results))
<1>0. PICK request : request = At(s, StateOf(s, r))!TheRequest
  OBVIOUS
<1>1. /\ phase[s] = "open" /\ calls[s].function = "scholar_search"
      /\ ~ At(s, StateOf(s, r))!Exhausted
  BY DEF Takes
<1>2. /\ request.at = Len(rows[s])
      /\ request.at \in Nat
      /\ request.want \in Nat \ {0}
      /\ request.at <= Len(ListOf(s))
  BY <1>0, <1>1, AsksForRest
<1>3. /\ Args(s).provider \in ProviderNames
      /\ page \in {PageOf(Args(s).provider, request, a) :
                     a \in Answers(QuirksOf(s), ListOf(s), request)}
  BY <1>0, <1>1, PageOfServer
<1>4. PICK answer \in Answers(QuirksOf(s), ListOf(s), request) :
        page = PageOf(Args(s).provider, request, answer)
  BY <1>3
<1>5. ListOf(s) \in Seq(Works)
  BY CallOfScan
<1>6. LeadsOn(QuirksOf(s))
  <2>1. CASE ServerOf(s) = "live"
    BY <1>3, <2>1 DEF LiveCursorsLeadOn, QuirksOf
  <2>2. CASE ServerOf(s) # "live"
    BY <2>2 DEF QuirksOf, LeadsOn
  <2> QED BY <2>1, <2>2
<1>7. /\ request.at + Len(page.results) <= Len(ListOf(s))
      /\ \A i \in 1 .. Len(page.results) : page.results[i] = ListOf(s)[request.at + i]
  <2>1. Excerpt(ListOf(s), request.at, page)
    BY <1>2, <1>3, <1>4, <1>5, PageIsExcerpt
  <2> QED BY <1>2, <2>1 DEF Excerpt
<1>8. Continues(Args(s).provider, page, request.at + Len(page.results))
  BY <1>2, <1>3, <1>4, <1>5, <1>6, CursorOfPage
<1> QED BY <1>2, <1>7, <1>8

\* Every move keeps a search on track.
LEMMA TrackStep ==
  ASSUME LiveCursorsLeadOn,
         Shape, NEW s \in Scans, SearchInv(s), TrackInv(s), Moves(s), UNCHANGED setup
  PROVE  TrackInv(s)'
<1> SUFFICES ASSUME calls[s].function = "scholar_search"
             PROVE  TrackInv(s)'
  BY DEF setup, TrackInv
<1>0. /\ calls' = calls
      /\ Args(s)' = Args(s)
      /\ ListOf(s)' = ListOf(s)
  BY DEF setup, Args, ListOf, ServerOf
<1>1. CASE Idle(s) \/ Fails(s) \/ \E r \in Readers : Ends(s, r)
  <2>1. rows'[s] = rows[s] /\ held'[s] = held[s] /\ (phase'[s] = "open" => phase[s] = "open")
    BY <1>1 DEF Idle, Fails, Ends
  <2> QED BY <1>0, <2>1 DEF TrackInv, Over, StartOf
<1>2. CASE Opens(s)
  <2>1. rows[s] = <<>> /\ rows'[s] = rows[s] /\ Len(rows[s]) = 0
    <3>1. rows[s] = <<>> /\ rows'[s] = rows[s]
      BY <1>2 DEF Opens, Shape
    <3> QED BY <3>1
  <2>2. Fresh \in State /\ Fresh.cursor = NoCursor
    BY DEF Fresh, State, NoCursor, Cursor, Forms
  <2>3. Keep(Fresh).cursor = NoCursor
    BY <2>2, KeepIsWhole
  <2>4. \A r \in Readers : held'[s][r].cursor = NoCursor
    BY <1>2, <2>3 DEF Opens
  <2>5. ParseOffset(NoCursor) = 0 /\ CursorParam(NoCursor).at = 0
    BY DEF ParseOffset, CursorParam, NoCursor, Star
  <2>6. \A r \in Readers : StartOf(s, held[s][r])' = Len(rows'[s])
    BY <1>0, <2>1, <2>4, <2>5 DEF StartOf
  <2> QED BY <1>0, <2>1, <2>6 DEF TrackInv
<1>3. ASSUME NEW r \in Readers, NEW page \in PagesFor(s, StateOf(s, r)), Takes(s, r, page)
      PROVE  TrackInv(s)'
  <2>0. PICK kept : kept = At(s, StateOf(s, r))!Kept(page)
    OBVIOUS
  <2>1. Grows(s, r, page, kept)
    BY <1>3, <2>0, TakenPage
  <2>2. /\ rows'[s] = rows[s] \o kept
        /\ rows[s] \in Seq(Works) /\ kept \in Seq(Works)
        /\ Len(rows'[s]) = Len(rows[s]) + Len(kept)
        /\ Len(kept) <= Len(page.results)
        /\ \A i \in 1 .. Len(kept) : kept[i] = page.results[i]
    BY <2>1 DEF Grows
  <2>3. /\ Len(rows[s]) + Len(page.results) <= Len(ListOf(s))
        /\ \A i \in 1 .. Len(page.results) :
             page.results[i] = ListOf(s)[Len(rows[s]) + i]
        /\ Continues(Args(s).provider, page, Len(rows[s]) + Len(page.results))
    BY <1>3, TakenLeadsOn
  <2>4. \A i \in 1 .. Len(rows[s]) : rows[s][i] = ListOf(s)[i]
    BY DEF TrackInv
  <2>5. PICK n \in Nat : n = Len(page.results)
    <3>1. page.results \in Seq(Works)
      BY <2>1 DEF Grows
    <3> QED BY <3>1
  <2>6. ListOf(s) \in Seq(Works)
    BY CallOfScan
  <2>7. Len(rows'[s]) <= Len(ListOf(s))
    <3>1. Len(rows[s]) \in Nat /\ Len(kept) \in Nat /\ Len(ListOf(s)) \in Nat
      BY <2>2, <2>6
    <3>2. Len(rows'[s]) = Len(rows[s]) + Len(kept) /\ Len(kept) <= n
      BY <2>2, <2>5
    <3>3. Len(rows[s]) + n <= Len(ListOf(s))
      BY <2>3, <2>5
    <3> QED BY <3>1, <3>2, <3>3
  <2>8. \A i \in 1 .. Len(rows'[s]) : rows'[s][i] = ListOf(s)[i]
    <3> SUFFICES ASSUME NEW i \in 1 .. Len(rows'[s]) PROVE rows'[s][i] = ListOf(s)[i]
      OBVIOUS
    <3>1. CASE i <= Len(rows[s])
      BY <2>2, <2>4, <3>1
    <3>2. CASE ~ (i <= Len(rows[s]))
      <4>1. PICK j \in 1 .. Len(kept) : i = Len(rows[s]) + j
        <5>1. i - Len(rows[s]) \in 1 .. Len(kept) /\ i = Len(rows[s]) + (i - Len(rows[s]))
          BY <2>2, <3>2
        <5> QED BY <5>1
      <4>2. rows'[s][i] = kept[j]
        BY <2>2, <4>1
      <4>3. j \in 1 .. Len(page.results)
        BY <2>2, <2>5, <4>1
      <4> QED BY <2>2, <2>3, <4>1, <4>2, <4>3
    <3> QED BY <3>1, <3>2
  <2>9. ASSUME ~ Over(s, held[s][r])'
        PROVE  StartOf(s, held[s][r])' = Len(rows'[s])
    <3>1. /\ held'[s][r].cursor = page.next_cursor
          /\ held'[s][r].emitted = Len(rows'[s])
          /\ held'[s][r].started = TRUE
          /\ Len(rows'[s]) = calls[s].count \/ Len(kept) = Len(page.results)
      BY <2>1 DEF Grows
    <3>2. page.next_cursor # NoCursor /\ ~ (Len(rows'[s]) >= calls[s].count)
      BY <1>0, <2>9, <3>1 DEF Over
    <3>3. Len(kept) = Len(page.results)
      <4>1. calls[s].count \in Nat
        BY CallOfScan
      <4> QED BY <3>1, <3>2, <4>1
    <3>4. Request(Args(s).provider, 0, page.next_cursor).at = Len(rows'[s])
      BY <2>2, <2>3, <3>2, <3>3 DEF Continues
    <3> QED BY <1>0, <3>1, <3>4, RequestPosition DEF StartOf
  <2>10. Readers = {r}
    BY OneReader
  <2> QED BY <1>0, <2>7, <2>8, <2>9, <2>10 DEF TrackInv
<1>4. CASE Lists(s)
  BY <1>4 DEF Lists
<1> QED BY <1>1, <1>2, <1>3, <1>4 DEF Moves

\* The inductive invariant against APIs whose cursors lead on.
TracksInv == SearchesInv /\ \A s \in Scans : TrackInv(s)

\* Without rows a search is on track.
LEMMA TracksInit == Init => TracksInv
<1> SUFFICES ASSUME Init PROVE TracksInv
  OBVIOUS
<1>1. SearchesInv
  BY SearchesInit
<1>2. ASSUME NEW s \in Scans PROVE TrackInv(s)
  <2>1. phase[s] = "new" /\ rows[s] = <<>> /\ ListOf(s) \in Seq(Works)
    BY <1>1, CallOfScan DEF Init, SearchesInv
  <2>2. Len(rows[s]) = 0 /\ Len(ListOf(s)) \in Nat
    BY <2>1
  <2> QED BY <2>1, <2>2 DEF TrackInv
<1> QED BY <1>1, <1>2 DEF TracksInv

\* Every step keeps it.
LEMMA TracksStep ==
  ASSUME LiveCursorsLeadOn
  PROVE  TracksInv /\ [Next]_vars => TracksInv'
BY SearchesStep, StepMoves, TrackStep DEF TracksInv, SearchesInv

\* Against every API whose cursors lead on: the token a client holds stands
\* for the rows it has received, however often answers are lost, ticks are
\* asked for again and the worker is replaced, and whatever other scans do.
THEOREM TokenStandsForRows ==
  ASSUME LiveCursorsLeadOn
  PROVE  Spec => []TokenTracksRows
<1>1. TracksInv => TokenTracksRows
  <2> SUFFICES ASSUME TracksInv, NEW s \in Scans, NEW r \in reading[s], NeedsPage(s, r)
               PROVE  /\ StateOf(s, r).emitted = Len(rows[s])
                      /\ At(s, StateOf(s, r))!TheRequest.at = Len(rows[s])
    BY DEF TokenTracksRows
  <2>1. /\ phase[s] = "open" /\ calls[s].function = "scholar_search"
        /\ ~ At(s, StateOf(s, r))!Exhausted
        /\ r \in Readers
        /\ Shape /\ SearchInv(s) /\ TrackInv(s)
    BY DEF NeedsPage, OpenTick, TracksInv, SearchesInv, Shape, TypeOK
  <2>2. StateOf(s, r).emitted = Len(rows[s])
    BY <2>1, RequestOfTick
  <2>3. PICK request : request = At(s, StateOf(s, r))!TheRequest
    OBVIOUS
  <2>4. request.at = Len(rows[s])
    BY <2>1, <2>3, AsksForRest
  <2> QED BY <2>2, <2>3, <2>4
<1> QED BY <1>1, TracksInit, TracksStep, PTL DEF Spec

-----------------------------------------------------------------------------
(* Complete searches.                                                      *)

\* The live APIs send an empty page or withhold the cursor only at the end
\* of their list.
LiveCursorsEndWithList == \A p \in ProviderNames : EndsWithList(p, LiveQuirks[p])

\* Such cursors lead on.
LEMMA LiveEndsLeadOn ==
  ASSUME LiveCursorsEndWithList
  PROVE  LiveCursorsLeadOn
BY DEF LiveCursorsEndWithList, LiveCursorsLeadOn, EndsWithList

\* The rows of a search are all it can have.
Complete(s) == Len(rows[s]) = calls[s].count \/ Len(rows[s]) = Len(ListOf(s))

\* A search has nothing left to fetch only when it is complete.
StreamInv(s) ==
  phase[s] = "open" /\ calls[s].function = "scholar_search" =>
    \A r \in Readers : Over(s, held[s][r]) => Complete(s)

\* A page that leaves nothing to fetch completes the search.
LEMMA TakenCompletes ==
  ASSUME LiveCursorsEndWithList,
         Shape, NEW s \in Scans, NEW r \in Readers, SearchInv(s), TrackInv(s),
         NEW page \in PagesFor(s, StateOf(s, r)), Takes(s, r, page), UNCHANGED setup,
         page.next_cursor = NoCursor \/ Len(rows'[s]) >= calls[s].count
  PROVE  Complete(s)'
<1>0. PICK request : request = At(s, StateOf(s, r))!TheRequest
  OBVIOUS
<1>1. PICK kept : kept = At(s, StateOf(s, r))!Kept(page)
  OBVIOUS
<1>2. Grows(s, r, page, kept)
  BY <1>1, TakenPage
<1>3. /\ rows[s] \in Seq(Works) /\ kept \in Seq(Works) /\ page.results \in Seq(Works)
      /\ Len(rows'[s]) = Len(rows[s]) + Len(kept)
      /\ Len(rows'[s]) <= calls[s].count
      /\ Len(rows'[s]) = calls[s].count \/ Len(kept) = Len(page.results)
  BY <1>2 DEF Grows
<1>4. calls[s].count \in Nat /\ ListOf(s) \in Seq(Works)
  BY CallOfScan
<1>5. UNCHANGED <<calls[s], ListOf(s)>>
  BY DEF setup, ListOf, ServerOf
<1>6. CASE Len(rows'[s]) = calls[s].count
  BY <1>5, <1>6 DEF Complete
<1>7. CASE Len(rows'[s]) # calls[s].count
  <2>1. /\ phase[s] = "open" /\ calls[s].function = "scholar_search"
        /\ ~ At(s, StateOf(s, r))!Exhausted
    BY DEF Takes
  <2>2. /\ request.at = Len(rows[s])
        /\ request.at \in Nat
        /\ request.want \in Nat \ {0}
        /\ request.at <= Len(ListOf(s))
    BY <1>0, <2>1, AsksForRest
  <2>3. /\ Args(s).provider \in ProviderNames
        /\ page \in {PageOf(Args(s).provider, request, a) :
                       a \in Answers(QuirksOf(s), ListOf(s), request)}
    BY <1>0, <2>1, PageOfServer
  <2>4. PICK answer \in Answers(QuirksOf(s), ListOf(s), request) :
          page = PageOf(Args(s).provider, request, answer)
    BY <2>3
  <2>5. EndsWithList(Args(s).provider, QuirksOf(s))
    <3>1. CASE ServerOf(s) = "live"
      BY <2>3, <3>1 DEF LiveCursorsEndWithList, QuirksOf
    <3>2. CASE ServerOf(s) # "live"
      BY <3>2 DEF QuirksOf, EndsWithList, LeadsOn
    <3> QED BY <3>1, <3>2
  <2>6. Len(rows'[s]) \in Nat
    BY <1>3
  <2>7. page.next_cursor = NoCursor
    BY <1>3, <1>4, <1>7, <2>6
  <2>8. request.at + Len(page.results) = Len(ListOf(s))
    <3>1. ReachesEnd(ListOf(s), request.at, page)
      BY <1>4, <2>2, <2>3, <2>4, <2>5, <2>7, LastPageOfList
    <3> QED BY <3>1 DEF ReachesEnd
  <2>9. Len(rows'[s]) = Len(ListOf(s))
    BY <1>3, <1>7, <2>2, <2>8
  <2> QED BY <1>5, <2>9 DEF Complete
<1> QED BY <1>6, <1>7

\* Every move keeps it.
LEMMA StreamStep ==
  ASSUME LiveCursorsEndWithList,
         Shape, NEW s \in Scans, SearchInv(s), TrackInv(s), StreamInv(s),
         Moves(s), UNCHANGED setup
  PROVE  StreamInv(s)'
<1>0. /\ calls' = calls
      /\ ListOf(s)' = ListOf(s)
  BY DEF setup, ListOf, ServerOf
<1>1. CASE Idle(s) \/ Fails(s)
  <2>1. rows'[s] = rows[s] /\ held'[s] = held[s] /\ (phase'[s] = "open" => phase[s] = "open")
    BY <1>1 DEF Idle, Fails
  <2> QED BY <1>0, <2>1 DEF StreamInv, Over, Complete
<1>2. CASE Opens(s)
  <2>1. rows'[s] = <<>>
    BY <1>2 DEF Opens, Shape
  <2>2. ASSUME calls[s].function = "scholar_search"
        PROVE  \A r \in Readers : ~ Over(s, held[s][r])'
    <3>1. Fresh \in State /\ ~ Fresh.done /\ ~ Fresh.started /\ Fresh.emitted = 0
      BY DEF Fresh, State, NoCursor, Cursor, Forms
    <3>2. ~ Keep(Fresh).done /\ ~ Keep(Fresh).started /\ Keep(Fresh).emitted = 0
      BY <3>1, KeepIsWhole
    <3>3. \A r \in Readers : held'[s][r] = Keep(Fresh)
      BY <1>2 DEF Opens
    <3>4. ~ (0 >= calls[s].count)
      <4>1. calls[s].count \in Nat \ {0}
        BY CallOfScan
      <4> QED BY <4>1
    <3> QED BY <1>0, <3>2, <3>3, <3>4 DEF Over
  <2> QED BY <1>0, <2>1, <2>2 DEF StreamInv
<1>3. CASE Lists(s) \/ \E r \in Readers : Ends(s, r)
  BY <1>3 DEF Lists, Ends, StreamInv
<1>4. ASSUME NEW r \in Readers, NEW page \in PagesFor(s, StateOf(s, r)), Takes(s, r, page)
      PROVE  StreamInv(s)'
  <2>1. PICK kept : kept = At(s, StateOf(s, r))!Kept(page)
    OBVIOUS
  <2>2. Grows(s, r, page, kept)
    BY <1>4, <2>1, TakenPage
  <2>3. ASSUME Over(s, held[s][r])'
        PROVE  Complete(s)'
    <3>1. page.next_cursor = NoCursor \/ Len(rows'[s]) >= calls[s].count
      BY <1>0, <2>2, <2>3 DEF Over, Grows
    <3> QED BY <1>4, <3>1, TakenCompletes
  <2>4. calls'[s].function = "scholar_search" /\ Readers = {r}
    BY <1>0, <1>4, OneReader DEF Takes
  <2> QED BY <2>3, <2>4 DEF StreamInv
<1> QED BY <1>1, <1>2, <1>3, <1>4 DEF Moves

\* The inductive invariant against APIs that end their pages with the list.
StreamsInv ==
  /\ TracksInv
  /\ ListingsInv
  /\ \A s \in Scans : StreamInv(s)

\* No scan is open at the start.
LEMMA StreamsInit == Init => StreamsInv
BY TracksInit, ListingsInit DEF Init, StreamsInv, StreamInv

\* Every step keeps it.
LEMMA StreamsStep ==
  ASSUME LiveCursorsEndWithList
  PROVE  StreamsInv /\ [Next]_vars => StreamsInv'
BY LiveEndsLeadOn, TracksStep, ListingsStep, StepMoves, StreamStep
   DEF StreamsInv, TracksInv, SearchesInv

-----------------------------------------------------------------------------
(* Every scan as a BoundedStream.                                          *)

\* What is promised of a search, and of a listing.
LEMMA PromisedOfScan ==
  ASSUME Shape, NEW s \in Scans
  PROVE  /\ Stream(s)!Promised \in Nat
         /\ Stream(s)!Promised <= MaxRows(s)
         /\ Stream(s)!Promised <= Len(SourceOf(s))
         /\ Stream(s)!Promised \in {MaxRows(s), Len(SourceOf(s))}
         /\ calls[s].function # "scholar_search" => Stream(s)!Promised = 3
<1>1. /\ Len(ListedProviders) = 3 /\ Len(ProviderRows) = 3
  <2>1. Len(ListedProviders) = 3
    BY DEF ListedProviders
  <2> QED BY <2>1 DEF ProviderRows
<1>2. MaxRows(s) \in Nat /\ Len(SourceOf(s)) \in Nat
  <2>1. calls[s].count \in Nat /\ ListOf(s) \in Seq(Works)
    BY CallOfScan
  <2> QED BY <1>1, <2>1 DEF MaxRows, SourceOf
<1>3. Stream(s)!Promised = Min({MaxRows(s), Len(SourceOf(s))})
  BY DEF Stream!Promised, Stream!Min, Min
<1>4. MaxRows(s) \in Int /\ Len(SourceOf(s)) \in Int
  BY <1>2
<1>5. /\ Min({MaxRows(s), Len(SourceOf(s))}) \in {MaxRows(s), Len(SourceOf(s))}
      /\ Min({MaxRows(s), Len(SourceOf(s))}) <= MaxRows(s)
      /\ Min({MaxRows(s), Len(SourceOf(s))}) <= Len(SourceOf(s))
  BY <1>4, MinOfTwo
<1>6. calls[s].function # "scholar_search" => MaxRows(s) = 3 /\ Len(SourceOf(s)) = 3
  BY <1>1 DEF MaxRows, SourceOf
<1> QED BY <1>2, <1>3, <1>5, <1>6

\* A head of a sequence that is as long as it is.
LEMMA RowsAreHead ==
  ASSUME NEW S, NEW seq \in Seq(S), NEW list \in Seq(S), Len(seq) <= Len(list),
         \A i \in 1 .. Len(seq) : seq[i] = list[i]
  PROVE  seq = SubSeq(list, 1, Len(seq))
OBVIOUS

\* A search that takes a page delivers rows, or ends with the empty page.
LEMMA TakeDelivers ==
  ASSUME LiveCursorsEndWithList,
         Shape, NEW s \in Scans, SearchInv(s), TrackInv(s), StreamInv(s), UNCHANGED setup,
         TrackInv(s)',
         NEW r \in Readers, NEW page \in PagesFor(s, StateOf(s, r)), Takes(s, r, page)
  PROVE  [Stream(s)!Next]_(Stream(s)!vars)
<1>1. PICK kept : kept = At(s, StateOf(s, r))!Kept(page)
  OBVIOUS
<1>2. Grows(s, r, page, kept)
  BY <1>1, TakenPage
<1>3. /\ rows'[s] = rows[s] \o kept
      /\ rows[s] \in Seq(Works) /\ kept \in Seq(Works)
      /\ Len(rows'[s]) = Len(rows[s]) + Len(kept)
      /\ Len(rows'[s]) <= calls[s].count
      /\ kept = <<>> <=> page.results = <<>>
      /\ page.results = <<>> => page.next_cursor = NoCursor
  BY <1>2 DEF Grows
<1>4. /\ phase[s] = "open" /\ calls[s].function = "scholar_search"
      /\ phase'[s] = IF kept = <<>> /\ page.next_cursor = NoCursor
                     THEN "finished" ELSE "open"
  BY <1>1 DEF Takes
<1>5. UNCHANGED <<SourceOf(s), MaxRows(s)>>
  BY DEF setup, SourceOf, MaxRows, ListOf, ServerOf
<1>6. /\ MaxRows(s) = calls[s].count /\ SourceOf(s) = ListOf(s)
      /\ ListOf(s) \in Seq(Works) /\ calls[s].count \in Nat
  BY <1>4, CallOfScan DEF MaxRows, SourceOf
<1>7. /\ Stream(s)!Promised \in Nat
      /\ Stream(s)!Promised <= calls[s].count
      /\ Stream(s)!Promised <= Len(ListOf(s))
      /\ Stream(s)!Promised \in {calls[s].count, Len(ListOf(s))}
  BY <1>6, PromisedOfScan
<1>8. /\ Len(rows'[s]) <= Len(ListOf(s))
      /\ \A i \in 1 .. Len(rows'[s]) : rows'[s][i] = ListOf(s)[i]
  <2>1. calls'[s] = calls[s] /\ ListOf(s)' = ListOf(s)
    BY DEF setup, ListOf, ServerOf
  <2> QED BY <1>4, <2>1 DEF TrackInv
<1>9. rows'[s] \in Seq(Works)
  BY <1>3
<1>10. rows'[s] = SubSeq(ListOf(s), 1, Len(rows'[s]))
  BY <1>6, <1>8, <1>9, RowsAreHead
<1>11. Len(rows'[s]) <= Stream(s)!Promised
  BY <1>3, <1>7, <1>8
<1>12. CASE kept = <<>>
  <2>1. page.next_cursor = NoCursor /\ phase'[s] = "finished"
    BY <1>3, <1>4, <1>12
  <2>2. rows'[s] = rows[s]
    BY <1>3, <1>12
  <2>3. Complete(s)'
    BY <2>1, TakenCompletes
  <2>4. Len(rows[s]) = calls[s].count \/ Len(rows[s]) = Len(ListOf(s))
    <3>1. calls'[s] = calls[s] /\ ListOf(s)' = ListOf(s)
      BY DEF setup, ListOf, ServerOf
    <3> QED BY <2>2, <2>3, <3>1 DEF Complete
  <2>5. Len(rows[s]) = Stream(s)!Promised
    BY <1>3, <1>6, <1>7, <1>11, <2>2, <2>4
  <2>6. Stream(s)!Finish
    BY <1>4, <1>5, <2>1, <2>2, <2>5 DEF Stream!Finish
  <2> QED BY <2>6 DEF Stream!Next
<1>13. CASE kept # <<>>
  <2>1. phase'[s] = "open"
    BY <1>4, <1>13
  <2>2. Len(rows'[s]) \in Len(rows[s]) + 1 .. Stream(s)!Promised
    <3>1. Len(kept) \in Nat /\ Len(kept) # 0 /\ Len(rows[s]) \in Nat
      BY <1>3, <1>13
    <3> QED BY <1>3, <1>7, <1>11, <3>1
  <2>3. Stream(s)!Deliver
    BY <1>4, <1>5, <1>6, <1>10, <2>1, <2>2 DEF Stream!Deliver
  <2> QED BY <2>3 DEF Stream!Next
<1> QED BY <1>12, <1>13

\* A listing delivers all its rows and ends.
LEMMA ListDelivers ==
  ASSUME Shape, NEW s \in Scans, ListingInv(s), Lists(s), UNCHANGED setup
  PROVE  [Stream(s)!Next]_(Stream(s)!vars)
<1>1. /\ phase[s] = "open" /\ calls[s].function = "scholar_providers"
      /\ phase'[s] = "finished" /\ rows'[s] = rows[s] \o ProviderRows
      /\ rows[s] = <<>>
  BY DEF Lists, ListingInv
<1>2. UNCHANGED <<SourceOf(s), MaxRows(s)>> /\ SourceOf(s) = ProviderRows
  BY <1>1 DEF setup, SourceOf, MaxRows, ListOf, ServerOf
<1>3. Stream(s)!Promised = 3
  BY <1>1, PromisedOfScan
<1>4. <<>> \o ProviderRows = SubSeq(ProviderRows, 1, 3)
  <2>1. Len(ListedProviders) = 3
    BY DEF ListedProviders
  <2>2. /\ ProviderRows \in Seq({ProviderRow(ListedProviders[i]) : i \in 1 .. 3})
        /\ Len(ProviderRows) = 3
    BY <2>1 DEF ProviderRows
  <2> HIDE DEF ProviderRows
  <2> QED BY <2>2
<1>5. Len(rows[s]) = 0
  BY <1>1
<1>6. Stream(s)!DeliverLast
  BY <1>1, <1>2, <1>3, <1>4, <1>5 DEF Stream!DeliverLast
<1> QED BY <1>6 DEF Stream!Next

\* Every move of a scan is a step of a bounded stream, or none.
LEMMA MoveStreams ==
  ASSUME LiveCursorsEndWithList,
         Shape, NEW s \in Scans, SearchInv(s), TrackInv(s), StreamInv(s), ListingInv(s),
         UNCHANGED setup, TrackInv(s)', Moves(s)
  PROVE  [Stream(s)!Next]_(Stream(s)!vars)
<1>1. UNCHANGED <<SourceOf(s), MaxRows(s)>>
  BY DEF setup, SourceOf, MaxRows, ListOf, ServerOf
<1>2. CASE Idle(s) \/ Opens(s)
  BY <1>1, <1>2 DEF Idle, Opens, Stream!vars
<1>3. CASE Fails(s)
  <2>1. Stream(s)!Fail
    BY <1>1, <1>3 DEF Fails, Stream!Fail
  <2> QED BY <2>1 DEF Stream!Next
<1>4. CASE Lists(s)
  BY <1>4, ListDelivers
<1>5. ASSUME NEW r \in Readers, Ends(s, r)
      PROVE  [Stream(s)!Next]_(Stream(s)!vars)
  <2>1. /\ phase[s] = "open" /\ calls[s].function = "scholar_search"
        /\ At(s, StateOf(s, r))!Exhausted
        /\ phase'[s] = "finished" /\ rows'[s] = rows[s]
    BY <1>5 DEF Ends
  <2>2. Over(s, StateOf(s, r))
    BY <2>1, TickOfScan
  <2>3. Over(s, held[s][r])
    BY <2>1, <2>2, HeldOfScan DEF Over
  <2>4. Len(rows[s]) = calls[s].count \/ Len(rows[s]) = Len(ListOf(s))
    BY <2>1, <2>3 DEF StreamInv, Complete
  <2>5. /\ MaxRows(s) = calls[s].count /\ SourceOf(s) = ListOf(s)
        /\ ListOf(s) \in Seq(Works) /\ calls[s].count \in Nat
        /\ rows[s] \in Seq(Works)
        /\ Len(rows[s]) <= calls[s].count
        /\ Len(rows[s]) <= Len(ListOf(s))
    BY <2>1, CallOfScan DEF MaxRows, SourceOf, SearchInv, TrackInv
  <2>6. /\ Stream(s)!Promised \in Nat
        /\ Stream(s)!Promised <= calls[s].count
        /\ Stream(s)!Promised <= Len(ListOf(s))
        /\ Stream(s)!Promised \in {calls[s].count, Len(ListOf(s))}
    BY <2>5, PromisedOfScan
  <2>7. Len(rows[s]) = Stream(s)!Promised
    BY <2>4, <2>5, <2>6
  <2>8. Stream(s)!Finish
    BY <1>1, <2>1, <2>7 DEF Stream!Finish
  <2> QED BY <2>8 DEF Stream!Next
<1>6. ASSUME NEW r \in Readers, NEW page \in PagesFor(s, StateOf(s, r)), Takes(s, r, page)
      PROVE  [Stream(s)!Next]_(Stream(s)!vars)
  BY <1>6, TakeDelivers
<1> QED BY <1>2, <1>3, <1>4, <1>5, <1>6 DEF Moves

\* A scan that has not been bound is a stream that has delivered nothing.
LEMMA StreamsStart == Init => \A s \in Scans : Stream(s)!Init
<1> SUFFICES ASSUME Init, NEW s \in Scans PROVE Stream(s)!Init
  OBVIOUS
<1>1. calls[s].count \in Nat \ {0}
  BY ShapeInit, CallOfScan
<1>2. Len(ListedProviders) = 3
  BY DEF ListedProviders
<1>3. MaxRows(s) \in Nat \ {0}
  BY <1>1, <1>2 DEF MaxRows
<1>4. SourceOf(s) \in {LiveList, MockList, ProviderRows}
  BY DEF SourceOf, ListOf
<1>5. phase[s] = "new" /\ rows[s] = <<>>
  BY DEF Init
<1> QED BY <1>3, <1>4, <1>5 DEF Stream!Init

\* Against every API that ends its pages with its list: whatever the other
\* scans do, and however often answers are lost or the worker is replaced,
\* every scan delivers what is promised of it in order, and then ends, or
\* fails.
THEOREM ScansAreIndependent ==
  ASSUME LiveCursorsEndWithList
  PROVE  Spec => IndependentStreams
<1>1. StreamsInv /\ StreamsInv' /\ [Next]_vars
        => [\A s \in Scans : [Stream(s)!Next]_(Stream(s)!vars)]_vars
  <2> SUFFICES ASSUME StreamsInv, StreamsInv', [Next]_vars, NEW s \in Scans
               PROVE  [Stream(s)!Next]_(Stream(s)!vars)
    OBVIOUS
  <2>1. /\ Shape /\ SearchInv(s) /\ TrackInv(s) /\ TrackInv(s)'
        /\ StreamInv(s) /\ ListingInv(s)
    BY DEF StreamsInv, TracksInv, SearchesInv, ListingsInv
  <2>2. UNCHANGED setup /\ Moves(s)
    BY <2>1, StepMoves
  <2> QED BY <2>1, <2>2, MoveStreams
<1> QED BY <1>1, StreamsStart, StreamsInit, StreamsStep, PTL DEF Spec, IndependentStreams
=============================================================================
