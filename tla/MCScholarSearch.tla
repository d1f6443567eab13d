--------------------------- MODULE MCScholarSearch ---------------------------
(* Small instances of ScholarSearch.                                       *)
EXTENDS ScholarSearch

\* OpenAlex and arXiv share a limit, Crossref's is smaller (200, 200, 100).
MCPageLimit == [p \in ProviderNames |-> IF p = "crossref" THEN 2 ELSE 3]

MCCounts == 1 .. 5
MCPageSizes == {0, 1, 2, 4}
MCWorks == 1 .. 6
MCCorpora == { [i \in 1 .. n |-> i] : n \in 0 .. 6 }

\* The documented APIs: cursor APIs choose the size of their pages, arXiv
\* returns exactly the slice it is asked for.
HonestQuirks ==
  [p \in ProviderNames |-> IF p = "arxiv" THEN {} ELSE {"short", "over"}]

\* Anything may come back.
WildQuirks ==
  [p \in ProviderNames |->
     IF p = "arxiv" THEN {"short", "over", "stall"} ELSE QuirkKinds \ {"drift"}]

\* JSON whose shape the providers do not expect.
MalformedQuirks ==
  [p \in ProviderNames |-> IF p = "arxiv" THEN {} ELSE {"malformed"}]

\* arXiv's result list changes while the scan pages through it.
DriftQuirks ==
  [p \in ProviderNames |-> IF p = "arxiv" THEN {"drift"} ELSE {}]
MCDriftWorks == 1 .. 6
MCDriftCorpora == { [i \in 1 .. n |-> i] : n \in 1 .. 4 }
=============================================================================
