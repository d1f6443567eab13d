---------------------------- MODULE MCScanOverHttp ----------------------------
(* A small instance of ScanOverHttp: one retry, lists of at most 3 works.  *)
EXTENDS ScanOverHttp, MCScholarSearch

AllOutcomes == {"transport", "busy", "refused", "ok", "foreign"}

OneRetryBackoff == 0 :> 1 @@ 1 :> 2

FewRetryAfters ==
  { [kind |-> k, units |-> 0] : k \in {"absent", "text", "nan", "infinite"} }
  \cup { [kind |-> "number", units |-> s] : s \in {-1, 3, 5} }

FewCounts == {1, 3}
FewPageSizes == {0, 1}
FewWorks == 1 .. 4
FewCorpora == { [i \in 1 .. n |-> i] : n \in {0, 2, 3} }

\* Cursor APIs with broken answers, arXiv with a list that changes; get()
\* may raise what it does not name with each of them.
CallQuirks ==
  [p \in ProviderNames |->
     IF p = "arxiv" THEN {"drift", "foreign"}
     ELSE {"short", "stall", "malformed", "unrepresentable", "foreign"}]
=============================================================================
