---------------------------- MODULE BoundedStream ----------------------------
(***************************************************************************)
(* What scholar_search promises the query that calls it: the first `limit` *)
(* works of the provider's result list, in order, in non-empty batches of  *)
(* any size, and then the end; or an error in place of the rest.  Pages,   *)
(* cursors, offsets and requests are not visible.                          *)
(***************************************************************************)
EXTENDS Integers, Sequences, FiniteSetsExt

CONSTANTS Sources,      \* the result lists there may be
          Limits        \* the values `limit` may have

VARIABLES source, limit, delivered, phase

vars == <<source, limit, delivered, phase>>

Promised == Min({limit, Len(source)})

Init ==
  /\ source \in Sources
  /\ limit \in Limits
  /\ delivered = <<>>
  /\ phase = "open"

Deliver ==
  /\ phase = "open"
  /\ \E n \in Len(delivered) + 1 .. Promised : delivered' = SubSeq(source, 1, n)
  /\ UNCHANGED <<source, limit, phase>>

Finish ==
  /\ phase = "open"
  /\ Len(delivered) = Promised
  /\ phase' = "finished"
  /\ UNCHANGED <<source, limit, delivered>>

\* The end may come with the last batch.
DeliverLast ==
  /\ phase = "open"
  /\ Len(delivered) < Promised
  /\ delivered' = SubSeq(source, 1, Promised)
  /\ phase' = "finished"
  /\ UNCHANGED <<source, limit>>

Fail ==
  /\ phase = "open"
  /\ phase' = "failed"
  /\ UNCHANGED <<source, limit, delivered>>

Next == Deliver \/ DeliverLast \/ Finish \/ Fail

Spec == Init /\ [][Next]_vars

FairSpec == Spec /\ WF_vars(Next)
=============================================================================
