----------------------------- MODULE ProviderApi -----------------------------
(***************************************************************************)
(* The remote search APIs, which are not part of the repository: what an   *)
(* answer to one request may hold, as far as the providers' code depends   *)
(* on it.  A well-behaved API returns the requested slice of its result    *)
(* list.  A quirk is a way in which an answer may differ from that:        *)
(*                                                                         *)
(*   short           fewer results than asked for, though more exist       *)
(*   over            more results than asked for                           *)
(*   stall           an empty page, though more results exist              *)
(*   cut             no next cursor, though more results exist             *)
(*   blank           "" as the next cursor                                 *)
(*   loop            a next cursor that points back                        *)
(*   malformed       JSON of an unforeseen shape (null results, null meta) *)
(*   unrepresentable a value the Arrow schema cannot hold                  *)
(*   foreign         a reply get() itself cannot handle (Retry-After: inf) *)
(*   drift           the result list changes between two requests          *)
(***************************************************************************)
EXTENDS Providers

QuirkKinds == {"short", "over", "stall", "cut", "blank", "loop",
               "malformed", "unrepresentable", "foreign", "drift"}

(***************************************************************************)
(* How many results an answer may carry when `left` of them remain at the  *)
(* requested position.                                                     *)
(***************************************************************************)
AnswerSizes(quirks, left, want) ==
  LET full == Min({left, want})
  IN  {full}
      \cup (IF "short" \in quirks THEN 1 .. full ELSE {})
      \cup (IF "over" \in quirks THEN full .. left ELSE {})
      \cup (IF "stall" \in quirks THEN {0} ELSE {})

(***************************************************************************)
(* The cursors an answer may carry when it ends at position `end` of       *)
(* `total` results.  The last page may or may not come with a cursor.      *)
(***************************************************************************)
NextCursors(quirks, total, end) ==
  {Token(end)}
  \cup (IF end >= total \/ "cut" \in quirks THEN {NoCursor} ELSE {})
  \cup (IF "blank" \in quirks THEN {Blank} ELSE {})
  \cup (IF "loop" \in quirks THEN {Token(n) : n \in 0 .. end} ELSE {})

(***************************************************************************)
(* Every answer to a request against the result list `corpus`.             *)
(***************************************************************************)
Answers(quirks, corpus, request) ==
  LET total == Len(corpus)
      left  == Max({0, total - request.at})
  IN  UNION { { [items |-> SubSeq(corpus, request.at + 1, request.at + k), next |-> c] :
                  c \in NextCursors(quirks, total, request.at + k) } :
              k \in AnswerSizes(quirks, left, request.want) }
=============================================================================
