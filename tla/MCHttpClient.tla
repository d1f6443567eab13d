----------------------------- MODULE MCHttpClient -----------------------------
(* Instances of HttpClient with the code's own number of retries.          *)
EXTENDS HttpClient

MCBackoff == [n \in 0 .. 3 |-> CASE n = 0 -> 1 [] n = 1 -> 2 [] n = 2 -> 4 [] n = 3 -> 8]

MCRetryAfters ==
  { [kind |-> k, units |-> 0] : k \in HeaderKinds }
  \cup { [kind |-> "number", units |-> s] : s \in {-61, -1, 2, 60, 61} }

HttpOutcomes == OutcomeKinds \ {"foreign"}
=============================================================================
