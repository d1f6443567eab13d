---------------------------- MODULE MCScholarWorker ----------------------------
(* Two scans in one worker.                                                *)
EXTENDS ScholarWorker

MCPageLimit == [p \in ProviderNames |-> IF p = "crossref" THEN 1 ELSE 2]

CONSTANTS w1, w2, m1, m2, m3       \* works

MCLiveList == <<w1, w2>>
MCMockList == <<m1, m2, m3>>

MCLiveQuirks == [p \in ProviderNames |-> IF p = "arxiv" THEN {} ELSE {"short", "over"}]

MCEnvironments ==
  {E2eEnvironment,
   [p \in ProviderNames |->
      CASE p = "openalex" -> "url" [] p = "crossref" -> "blank" [] p = "arxiv" -> "unset"]}

Search(name, count, page_size) ==
  [function |-> "scholar_search", name |-> name, count |-> count, page_size |-> page_size]

MCCalls ==
  {[function |-> "scholar_providers", name |-> Plain(""), count |-> 1, page_size |-> 0]}
  \cup {Search(Plain("crossref"), 2, 0), Search(Plain("arxiv"), 3, 1)}
  \cup {Search(Plain(""), 1, 0), Search(Plain("unlisted"), 1, 0)}
  \cup {Search([word |-> "openalex", capitals |-> c, padded |-> ~ c], 4, 0) : c \in BOOLEAN}
=============================================================================
