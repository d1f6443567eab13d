---------------------- MODULE ScholarSearchDrift_proofs ----------------------
(***************************************************************************)
(* What a result list that changes during a scan can do to it, for all     *)
(* values of the constants: a row is repeated at most once per insertion,  *)
(* and a work is missed at most once per removal.                          *)
(***************************************************************************)
EXTENDS ScholarSearch_proofs, FiniteSetTheorems

-----------------------------------------------------------------------------
(* A list and a position in it.                                            *)

\* The elements up to position n, and those after it.
UpTo(list, n)  == { list[j] : j \in {k \in 1 .. Len(list) : k <= n} }
Beyond(list, n) == { list[j] : j \in {k \in 1 .. Len(list) : k > n} }

\* The set of a list's elements.
LEMMA ElementSet ==
  ASSUME NEW S, NEW s \in Seq(S)
  PROVE  /\ \A x : x \in ToSet(s) <=> \E j \in 1 .. Len(s) : x = s[j]
         /\ \A j \in 1 .. Len(s) : s[j] \in ToSet(s)
         /\ ToSet(s) \subseteq S
BY DEF ToSet

\* The elements of two lists put together.
LEMMA ConcatElements ==
  ASSUME NEW S, NEW a \in Seq(S), NEW b \in Seq(S)
  PROVE  /\ a \o b \in Seq(S)
         /\ Len(a \o b) = Len(a) + Len(b)
         /\ \A j \in 1 .. Len(a) + Len(b) :
              (a \o b)[j] = IF j <= Len(a) THEN a[j] ELSE b[j - Len(a)]
OBVIOUS

\* The elements of a list after an insertion.
LEMMA InsertElements ==
  ASSUME NEW S, NEW s \in Seq(S), NEW w \in S, NEW i \in 1 .. Len(s) + 1,
         NEW t, t = InsertAt(s, i, w)
  PROVE  /\ t \in Seq(S)
         /\ Len(t) = Len(s) + 1
         /\ \A j \in 1 .. Len(t) :
              t[j] = IF j < i THEN s[j] ELSE IF j = i THEN w ELSE s[j - 1]
<1> DEFINE head == SubSeq(s, 1, i - 1)
           tail == SubSeq(s, i, Len(s))
<1>1. /\ head \in Seq(S) /\ Len(head) = i - 1
      /\ \A j \in 1 .. i - 1 : head[j] = s[j]
  OBVIOUS
<1>2. /\ tail \in Seq(S) /\ Len(tail) = Len(s) + 1 - i
      /\ \A j \in 1 .. Len(s) + 1 - i : tail[j] = s[i + j - 1]
  OBVIOUS
<1>3. t = head \o <<w>> \o tail
  BY DEF InsertAt
<1> HIDE DEF head, tail
<1>4. <<w>> \in Seq(S) /\ Len(<<w>>) = 1 /\ <<w>>[1] = w
  OBVIOUS
<1> DEFINE most == head \o <<w>>
<1>5. /\ most \in Seq(S) /\ Len(most) = i
      /\ \A j \in 1 .. i : most[j] = IF j < i THEN s[j] ELSE w
  <2>1. /\ most \in Seq(S) /\ Len(most) = Len(head) + 1
        /\ \A j \in 1 .. Len(head) + 1 :
             most[j] = IF j <= Len(head) THEN head[j] ELSE <<w>>[j - Len(head)]
    BY ONLY <1>1, <1>4, ConcatElements
  <2> HIDE DEF most
  <2> QED BY <1>1, <1>4, <2>1
<1>6. t = most \o tail
  BY <1>3
<1> HIDE DEF most
<1>7. /\ t \in Seq(S) /\ Len(t) = i + Len(tail)
      /\ \A j \in 1 .. i + Len(tail) :
           t[j] = IF j <= i THEN most[j] ELSE tail[j - i]
  BY ONLY <1>2, <1>5, <1>6, ConcatElements
<1>8. Len(t) = Len(s) + 1
  BY <1>2, <1>7
<1>9. ASSUME NEW j \in 1 .. Len(t)
      PROVE  t[j] = IF j < i THEN s[j] ELSE IF j = i THEN w ELSE s[j - 1]
  <2>1. CASE j <= i
    BY <1>5, <1>7, <1>8, <2>1
  <2>2. CASE j > i
    <3>1. j - i \in 1 .. Len(s) + 1 - i /\ i + (j - i) - 1 = j - 1
      BY <1>8, <2>2
    <3>2. tail[j - i] = s[i + (j - i) - 1]
      BY <1>2, <3>1
    <3>3. t[j] = tail[j - i]
      BY <1>2, <1>7, <1>8, <2>2
    <3> QED BY <2>2, <3>1, <3>2, <3>3
  <2> QED BY <2>1, <2>2
<1> QED BY <1>7, <1>8, <1>9

\* The elements of a list after a removal.
LEMMA RemoveElements ==
  ASSUME NEW S, NEW s \in Seq(S), NEW i \in 1 .. Len(s),
         NEW t, t = RemoveAt(s, i)
  PROVE  /\ t \in Seq(S)
         /\ Len(t) = Len(s) - 1
         /\ \A j \in 1 .. Len(t) : t[j] = IF j < i THEN s[j] ELSE s[j + 1]
<1> DEFINE head == SubSeq(s, 1, i - 1)
           tail == SubSeq(s, i + 1, Len(s))
<1>1. /\ head \in Seq(S) /\ Len(head) = i - 1
      /\ \A j \in 1 .. i - 1 : head[j] = s[j]
  OBVIOUS
<1>2. /\ tail \in Seq(S) /\ Len(tail) = Len(s) - i
      /\ \A j \in 1 .. Len(s) - i : tail[j] = s[i + j]
  OBVIOUS
<1>3. t = head \o tail
  BY DEF RemoveAt
<1> HIDE DEF head, tail
<1>4. /\ t \in Seq(S) /\ Len(t) = Len(head) + Len(tail)
      /\ \A j \in 1 .. Len(head) + Len(tail) :
           t[j] = IF j <= Len(head) THEN head[j] ELSE tail[j - Len(head)]
  BY ONLY <1>1, <1>2, <1>3, ConcatElements
<1>5. Len(t) = Len(s) - 1
  BY <1>1, <1>2, <1>4
<1>6. ASSUME NEW j \in 1 .. Len(t)
      PROVE  t[j] = IF j < i THEN s[j] ELSE s[j + 1]
  <2>1. CASE j < i
    BY <1>1, <1>4, <1>5, <1>2, <2>1
  <2>2. CASE j >= i
    <3>1. j - (i - 1) \in 1 .. Len(s) - i /\ i + (j - (i - 1)) = j + 1
      BY <1>5, <2>2
    <3>2. tail[j - (i - 1)] = s[i + (j - (i - 1))]
      BY <1>2, <3>1
    <3>3. t[j] = tail[j - (i - 1)]
      BY <1>1, <1>2, <1>4, <1>5, <2>2
    <3> QED BY <2>2, <3>1, <3>2, <3>3
  <2> QED BY <2>1, <2>2
<1> QED BY <1>4, <1>5, <1>6

\* An insertion moves at most one element across a position, from before it
\* to behind it.
LEMMA InsertMoves ==
  ASSUME NEW S, NEW s \in Seq(S), NEW w \in S, NEW i \in 1 .. Len(s) + 1,
         NEW t, t = InsertAt(s, i, w), NEW n \in Nat
  PROVE  /\ ToSet(t) = ToSet(s) \cup {w}
         /\ UpTo(t, n) \subseteq UpTo(s, n) \cup {w}
         /\ Beyond(t, n) \subseteq Beyond(s, n) \cup {w} \cup {s[n]}
         /\ IsInjective(s) /\ w \notin ToSet(s) => IsInjective(t)
<1>1. /\ t \in Seq(S)
      /\ Len(t) = Len(s) + 1
      /\ \A j \in 1 .. Len(t) :
           t[j] = IF j < i THEN s[j] ELSE IF j = i THEN w ELSE s[j - 1]
  BY InsertElements
<1>2. ToSet(t) = ToSet(s) \cup {w}
  <2>0. /\ \A x : x \in ToSet(s) <=> \E j \in 1 .. Len(s) : x = s[j]
        /\ \A x : x \in ToSet(t) <=> \E j \in 1 .. Len(t) : x = t[j]
        /\ \A j \in 1 .. Len(t) : t[j] \in ToSet(t)
        /\ \A j \in 1 .. Len(s) : s[j] \in ToSet(s)
    BY <1>1, ElementSet
  <2>1. ASSUME NEW j \in 1 .. Len(t)
        PROVE  t[j] \in ToSet(s) \cup {w}
    <3>1. CASE j > i
      <4>1. j - 1 \in 1 .. Len(s) /\ t[j] = s[j - 1]
        BY <1>1, <3>1
      <4> QED BY <2>0, <4>1
    <3>2. CASE j <= i
      BY <1>1, <2>0, <3>2
    <3> QED BY <3>1, <3>2
  <2>2. w \in ToSet(t)
    <3>1. i \in 1 .. Len(t) /\ t[i] = w
      BY <1>1
    <3> QED BY <2>0, <3>1
  <2>3. ASSUME NEW j \in 1 .. Len(s)
        PROVE  s[j] \in ToSet(t)
    <3>1. CASE j < i
      <4>1. j \in 1 .. Len(t) /\ t[j] = s[j]
        BY <1>1, <3>1
      <4> QED BY <2>0, <4>1
    <3>2. CASE ~ (j < i)
      <4>1. j + 1 \in 1 .. Len(t) /\ t[j + 1] = s[j]
        BY <1>1, <3>2
      <4> QED BY <2>0, <4>1
    <3> QED BY <3>1, <3>2
  <2> QED BY <2>0, <2>1, <2>2, <2>3
<1>3. UpTo(t, n) \subseteq UpTo(s, n) \cup {w}
  <2> SUFFICES ASSUME NEW j \in 1 .. Len(t), j <= n, t[j] # w
               PROVE  \E k \in 1 .. Len(s) : k <= n /\ t[j] = s[k]
    BY DEF UpTo
  <2>1. CASE j < i
    BY <1>1, <2>1
  <2>2. CASE j > i
    <3>1. j - 1 \in 1 .. Len(s) /\ j - 1 <= n /\ t[j] = s[j - 1]
      BY <1>1, <2>2
    <3> QED BY <3>1
  <2> QED BY <1>1, <2>1, <2>2
<1>4. Beyond(t, n) \subseteq Beyond(s, n) \cup {w} \cup {s[n]}
  <2> SUFFICES ASSUME NEW j \in 1 .. Len(t), j > n, t[j] # w, t[j] # s[n]
               PROVE  \E k \in 1 .. Len(s) : k > n /\ t[j] = s[k]
    BY DEF Beyond
  <2>1. CASE j < i
    BY <1>1, <2>1
  <2>2. CASE j > i
    <3>1. j - 1 \in 1 .. Len(s) /\ t[j] = s[j - 1] /\ j - 1 >= n
      BY <1>1, <2>2
    <3>2. j - 1 # n
      BY <3>1
    <3> QED BY <3>1, <3>2
  <2> QED BY <1>1, <2>1, <2>2
<1>5. ASSUME IsInjective(s), w \notin ToSet(s)
      PROVE  IsInjective(t)
  <2>1. \A j \in 1 .. Len(s) : s[j] # w
    BY <1>5 DEF ToSet
  <2>2. \A j, k \in 1 .. Len(s) : s[j] = s[k] => j = k
    BY <1>5 DEF IsInjective
  <2>3. ASSUME NEW j \in 1 .. Len(t), NEW k \in 1 .. Len(t), t[j] = t[k], j < k
        PROVE  FALSE
    <3>1. CASE k < i
      BY <1>1, <2>2, <2>3, <3>1
    <3>2. CASE k = i
      BY <1>1, <2>1, <2>3, <3>2
    <3>3. CASE k > i
      <4>1. k - 1 \in 1 .. Len(s) /\ t[k] = s[k - 1]
        BY <1>1, <3>3
      <4>2. CASE j < i
        <5>1. j \in 1 .. Len(s) /\ t[j] = s[j] /\ j # k - 1
          BY <1>1, <3>3, <4>2
        <5> QED BY <2>2, <2>3, <4>1, <5>1
      <4>3. CASE j = i
        BY <1>1, <2>1, <2>3, <4>1, <4>3
      <4>4. CASE j > i
        <5>1. j - 1 \in 1 .. Len(s) /\ t[j] = s[j - 1]
          BY <1>1, <4>4
        <5> QED BY <2>2, <2>3, <4>1, <5>1
      <4> QED BY <4>2, <4>3, <4>4
    <3> QED BY <3>1, <3>2, <3>3
  <2>4. \A j, k \in 1 .. Len(t) : t[j] = t[k] => j = k
    BY <2>3, <1>1
  <2> QED BY <1>1, <2>4 DEF IsInjective
<1> QED BY <1>2, <1>3, <1>4, <1>5

\* A removal moves at most one element across a position, from behind it to
\* before it.
LEMMA RemoveMoves ==
  ASSUME NEW S, NEW s \in Seq(S), NEW i \in 1 .. Len(s),
         NEW t, t = RemoveAt(s, i), NEW n \in Nat
  PROVE  /\ ToSet(s) = ToSet(t) \cup {s[i]}
         /\ UpTo(t, n) \subseteq UpTo(s, n) \cup {s[n + 1]}
         /\ Beyond(t, n) \subseteq Beyond(s, n)
         /\ IsInjective(s) => IsInjective(t) /\ s[i] \notin ToSet(t)
<1>1. /\ t \in Seq(S)
      /\ Len(t) = Len(s) - 1
      /\ \A j \in 1 .. Len(t) : t[j] = IF j < i THEN s[j] ELSE s[j + 1]
  BY RemoveElements
<1>2. /\ \A x : x \in ToSet(s) <=> \E j \in 1 .. Len(s) : x = s[j]
      /\ \A x : x \in ToSet(t) <=> \E j \in 1 .. Len(t) : x = t[j]
      /\ \A j \in 1 .. Len(t) : t[j] \in ToSet(t)
      /\ \A j \in 1 .. Len(s) : s[j] \in ToSet(s)
  BY <1>1, ElementSet
<1>3. ASSUME NEW j \in 1 .. Len(t)
      PROVE  \E k \in 1 .. Len(s) :
               /\ t[j] = s[k] /\ k # i
               /\ k = IF j < i THEN j ELSE j + 1
  <2>1. CASE j < i
    BY <1>1, <2>1
  <2>2. CASE ~ (j < i)
    <3>1. j + 1 \in 1 .. Len(s) /\ t[j] = s[j + 1] /\ j + 1 # i
      BY <1>1, <2>2
    <3> QED BY <2>2, <3>1
  <2> QED BY <2>1, <2>2
<1>4. ToSet(s) = ToSet(t) \cup {s[i]}
  <2>1. ToSet(t) \subseteq ToSet(s)
    BY <1>2, <1>3
  <2>2. ASSUME NEW j \in 1 .. Len(s), j # i
        PROVE  s[j] \in ToSet(t)
    <3>1. CASE j < i
      <4>1. j \in 1 .. Len(t) /\ t[j] = s[j]
        BY <1>1, <3>1
      <4> QED BY <1>2, <4>1
    <3>2. CASE j > i
      <4>1. j - 1 \in 1 .. Len(t) /\ t[j - 1] = s[j]
        BY <1>1, <3>2
      <4> QED BY <1>2, <4>1
    <3> QED BY <2>2, <3>1, <3>2
  <2> QED BY <1>2, <2>1, <2>2
<1>5. UpTo(t, n) \subseteq UpTo(s, n) \cup {s[n + 1]}
  <2> SUFFICES ASSUME NEW j \in 1 .. Len(t), j <= n, t[j] # s[n + 1]
               PROVE  \E k \in 1 .. Len(s) : k <= n /\ t[j] = s[k]
    BY DEF UpTo
  <2>1. PICK k \in 1 .. Len(s) : t[j] = s[k] /\ k = IF j < i THEN j ELSE j + 1
    BY <1>3
  <2>2. k # n + 1
    BY <2>1
  <2> QED BY <1>1, <2>1, <2>2
<1>6. Beyond(t, n) \subseteq Beyond(s, n)
  <2> SUFFICES ASSUME NEW j \in 1 .. Len(t), j > n
               PROVE  \E k \in 1 .. Len(s) : k > n /\ t[j] = s[k]
    BY DEF Beyond
  <2>1. PICK k \in 1 .. Len(s) : t[j] = s[k] /\ k = IF j < i THEN j ELSE j + 1
    BY <1>3
  <2> QED BY <1>1, <2>1
<1>7. ASSUME IsInjective(s)
      PROVE  IsInjective(t) /\ s[i] \notin ToSet(t)
  <2>1. \A j, k \in 1 .. Len(s) : s[j] = s[k] => j = k
    BY <1>7 DEF IsInjective
  <2>2. s[i] \notin ToSet(t)
    BY <1>2, <1>3, <2>1
  <2>3. ASSUME NEW j \in 1 .. Len(t), NEW k \in 1 .. Len(t), t[j] = t[k]
        PROVE  j = k
    <3>1. PICK jj \in 1 .. Len(s) : t[j] = s[jj] /\ jj = IF j < i THEN j ELSE j + 1
      BY <1>3
    <3>2. PICK kk \in 1 .. Len(s) : t[k] = s[kk] /\ kk = IF k < i THEN k ELSE k + 1
      BY <1>3
    <3>3. jj = kk
      BY <2>1, <2>3, <3>1, <3>2
    <3> QED BY <1>1, <3>1, <3>2, <3>3
  <2> QED BY <1>1, <2>2, <2>3 DEF IsInjective
<1> QED BY <1>4, <1>5, <1>6, <1>7

\* The page is the part of list s that starts behind position n.
StartsBehind(page, s, n) ==
  /\ n + Len(page) <= Len(s)
  /\ \A j \in 1 .. Len(page) : page[j] = s[n + j]

\* What such a page takes from the part beyond n.
LEMMA PageTakes ==
  ASSUME NEW S, NEW s \in Seq(S), NEW n \in Nat, NEW page \in Seq(S),
         IsInjective(s), StartsBehind(page, s, n)
  PROVE  /\ ToSet(page) \subseteq Beyond(s, n)
         /\ IsFiniteSet(ToSet(page))
         /\ Cardinality(ToSet(page)) = Len(page)
         /\ UpTo(s, n + Len(page)) = UpTo(s, n) \cup ToSet(page)
         /\ Beyond(s, n + Len(page)) = Beyond(s, n) \ ToSet(page)
<1> DEFINE taken == ToSet(page)
           k == Len(page)
<1>0. k \in Nat /\ n + k <= Len(s) /\ \A j \in 1 .. k : page[j] = s[n + j]
  BY DEF StartsBehind
<1>1. /\ \A x : x \in taken <=> \E j \in 1 .. k : x = page[j]
      /\ \A j \in 1 .. k : page[j] \in taken
  BY ElementSet
<1> HIDE DEF taken, k
<1>2. \A j \in 1 .. k : n + j \in 1 .. Len(s) /\ n + j > n /\ n + j <= n + k
  BY <1>0
<1>3. \A i, j \in 1 .. Len(s) : s[i] = s[j] => i = j
  BY DEF IsInjective
<1>4. taken \subseteq Beyond(s, n)
  <2>1. ASSUME NEW j \in 1 .. k
        PROVE  page[j] \in Beyond(s, n)
    <3>1. page[j] = s[n + j] /\ n + j \in 1 .. Len(s) /\ n + j > n
      BY <1>0, <1>2
    <3> QED BY <3>1 DEF Beyond
  <2> QED BY <1>1, <2>1
<1>5. ExistsBijection(1 .. k, taken)
  <2> DEFINE f == [j \in 1 .. k |-> page[j]]
  <2>1. f \in [1 .. k -> taken]
    BY <1>1
  <2>2. \A i, j \in 1 .. k : f[i] = f[j] => i = j
    <3> SUFFICES ASSUME NEW i \in 1 .. k, NEW j \in 1 .. k, page[i] = page[j]
                 PROVE  i = j
      OBVIOUS
    <3>1. s[n + i] = s[n + j]
      BY <1>0
    <3>2. n + i = n + j
      BY <1>2, <1>3, <3>1
    <3> QED BY <3>2
  <2>3. \A x \in taken : \E j \in 1 .. k : f[j] = x
    BY <1>1
  <2>4. f \in Bijection(1 .. k, taken)
    BY <2>1, <2>2, <2>3 DEF Bijection, Injection, Surjection, IsInjective
  <2> QED BY <2>4 DEF ExistsBijection
<1>6. IsFiniteSet(taken) /\ Cardinality(taken) = k
  BY <1>0, <1>5, FS_NatBijection, FS_CountingElements
<1>7. UpTo(s, n + k) = UpTo(s, n) \cup taken
  <2>1. ASSUME NEW i \in 1 .. Len(s), i <= n + k, i > n
        PROVE  s[i] \in taken
    <3>1. i - n \in 1 .. k /\ n + (i - n) = i
      BY <1>0, <2>1
    <3> QED BY <1>0, <1>1, <3>1
  <2>2. UpTo(s, n + k) \subseteq UpTo(s, n) \cup taken
    <3> SUFFICES ASSUME NEW i \in 1 .. Len(s), i <= n + k
                 PROVE  (i <= n) \/ s[i] \in taken
      BY DEF UpTo
    <3> QED BY <2>1
  <2>3. UpTo(s, n) \subseteq UpTo(s, n + k)
    BY <1>0 DEF UpTo
  <2>4. ASSUME NEW j \in 1 .. k
        PROVE  page[j] \in UpTo(s, n + k)
    <3>1. page[j] = s[n + j] /\ n + j \in 1 .. Len(s) /\ n + j <= n + k
      BY <1>0, <1>2
    <3> QED BY <3>1 DEF UpTo
  <2> QED BY <1>1, <2>2, <2>3, <2>4
<1>8. Beyond(s, n + k) = Beyond(s, n) \ taken
  <2>1. Beyond(s, n + k) \subseteq Beyond(s, n)
    BY <1>0 DEF Beyond
  <2>2. ASSUME NEW i \in 1 .. Len(s), i > n + k
        PROVE  s[i] \notin taken
    <3> SUFFICES ASSUME NEW j \in 1 .. k, s[i] = s[n + j] PROVE FALSE
      BY <1>0, <1>1
    <3>1. i = n + j
      BY <1>2, <1>3
    <3> QED BY <1>0, <2>2, <3>1
  <2>3. ASSUME NEW i \in 1 .. Len(s), i > n, ~ (i > n + k)
        PROVE  s[i] \in taken
    <3>1. i - n \in 1 .. k /\ n + (i - n) = i
      BY <1>0, <2>3
    <3> QED BY <1>0, <1>1, <3>1
  <2> QED BY <2>1, <2>2, <2>3 DEF Beyond
<1> QED BY <1>4, <1>6, <1>7, <1>8 DEF taken, k

-----------------------------------------------------------------------------
(* The works a scan meets.                                                 *)

\* Inductive: no work is twice in the list or comes back to it, and whatever
\* was emitted or added is still there or was removed.
DriftInv ==
  /\ TrackInv
  /\ IsInjective(corpus)
  /\ ToSet(corpus) \cap removed = {}
  /\ added \subseteq ToSet(corpus) \cup removed
  /\ ToSet(rows) \subseteq ToSet(corpus) \cup removed
  /\ IsFiniteSet(added)
  /\ IsFiniteSet(removed)

\* Nothing has been met in a fresh scan.
LEMMA DriftInit == Init => DriftInv
<1> SUFFICES ASSUME Init PROVE DriftInv
  OBVIOUS
<1>1. TrackInv /\ IsInjective(corpus)
  BY TrackInit, ApiAssumption DEF Init
<1>2. ToSet(rows) = {}
  BY DEF Init, ToSet
<1> QED BY <1>1, <1>2, FS_EmptySet DEF DriftInv, Init

\* The sets that are counted are finite.
LEMMA FiniteLists ==
  ASSUME NEW S, NEW s \in Seq(S), NEW n
  PROVE  IsFiniteSet(ToSet(s)) /\ IsFiniteSet(UpTo(s, n)) /\ IsFiniteSet(Beyond(s, n))
<1>1. IsFiniteSet(ToSet(s))
  <2> DEFINE f == [j \in 1 .. Len(s) |-> s[j]]
  <2>1. f \in Surjection(1 .. Len(s), ToSet(s))
    BY ElementSet DEF Surjection
  <2>2. Len(s) \in Nat
    OBVIOUS
  <2> QED BY <2>1, <2>2, FS_NatSurjection DEF ExistsSurjection
<1>2. UpTo(s, n) \in SUBSET ToSet(s) /\ Beyond(s, n) \in SUBSET ToSet(s)
  BY DEF UpTo, Beyond, ToSet
<1> QED BY <1>1, <1>2, FS_Subset

\* What a page adds to the rows it takes from the part of the list beyond
\* them.
LEMMA DriftPage ==
  ASSUME CursorsLeadOn, DriftInv, TickPage
  PROVE  \E page \in Pages :
           LET n    == Len(rows)
               K    == ToSet(Kept(page))
           IN  /\ Len(rows') = n + Cardinality(K)
               /\ ToSet(rows') = ToSet(rows) \cup K
               /\ IsFiniteSet(K)
               /\ K \subseteq Beyond(corpus, n)
               /\ UpTo(corpus, Len(rows')) = UpTo(corpus, n) \cup K
               /\ Beyond(corpus, Len(rows')) = Beyond(corpus, n) \ K
               /\ n <= Len(corpus) /\ Len(rows') < args.count =>
                    Len(rows') = n + Len(page.results)
               /\ status' = "finished" => page.next_cursor = NoCursor
               /\ Exhausted' /\ Len(rows') < args.count => page.next_cursor = NoCursor
<1>1. TrackInv /\ TypeOK /\ ~ Exhausted /\ TheRequest.at = Len(rows)
  BY DEF DriftInv, TrackInv, BudgetInv, CursorTracksRows, TickPage
<1>2. PICK page \in Pages :
        /\ rows' = rows \o Kept(page)
        /\ Kept(page) \in Seq(Works)
        /\ Len(rows') = Len(rows) + Len(Kept(page))
        /\ Len(Kept(page)) <= Len(page.results)
        /\ \A i \in 1 .. Len(Kept(page)) : Kept(page)[i] = page.results[i]
        /\ Len(rows') < args.count => Len(Kept(page)) = Len(page.results)
        /\ Kept(page) = <<>> <=> page.results = <<>>
        /\ status' = IF Kept(page) = <<>> /\ page.next_cursor = NoCursor
                     THEN "finished" ELSE "open"
        /\ Exhausted' <=> page.next_cursor = NoCursor \/ Len(rows') >= args.count
  BY <1>1, TrackPage
<1>3. /\ page.results \in Seq(Works)
      /\ Len(rows) > Len(corpus) => page.results = <<>>
      /\ Len(rows) <= Len(corpus) => Len(rows) + Len(page.results) <= Len(corpus)
      /\ \A i \in 1 .. Len(page.results) : page.results[i] = corpus[Len(rows) + i]
  BY <1>1, PageType
<1> DEFINE kept == Kept(page)
           K == ToSet(kept)
           n == Len(rows)
           k == Len(kept)
<1>4. /\ rows \in Seq(Works) /\ corpus \in Seq(Works) /\ IsInjective(corpus)
      /\ args.count \in Nat
  BY <1>1, ArgsAssumption DEF TypeOK, DriftInv
<1>5. /\ kept \in Seq(Works) /\ rows' = rows \o kept /\ Len(rows') = n + k
      /\ n \in Nat /\ k \in Nat
      /\ \A i \in 1 .. k : kept[i] = page.results[i]
      /\ k <= Len(page.results)
  BY <1>2, <1>4
<1> HIDE DEF kept
<1>6. ToSet(rows') = ToSet(rows) \cup K
  <2>1. \A x : x \in ToSet(rows') <=> \E j \in 1 .. n + k : x = rows'[j]
    <3>1. rows' \in Seq(Works)
      BY <1>4, <1>5
    <3>2. \A x : x \in ToSet(rows') <=> \E j \in 1 .. Len(rows') : x = rows'[j]
      BY <3>1, ElementSet
    <3> QED BY <1>5, <3>2
  <2>2. \A x : x \in ToSet(rows) <=> \E j \in 1 .. n : x = rows[j]
    BY <1>4, ElementSet
  <2>3. \A x : x \in K <=> \E j \in 1 .. k : x = kept[j]
    BY <1>5, ElementSet
  <2>4. \A j \in 1 .. n + k : rows'[j] = IF j <= n THEN rows[j] ELSE kept[j - n]
    BY <1>4, <1>5, ConcatElements
  <2> HIDE DEF n, k, K
  <2>5. ASSUME NEW x \in ToSet(rows')
        PROVE  x \in ToSet(rows) \cup K
    <3>1. PICK j \in 1 .. n + k : x = rows'[j]
      BY <2>1
    <3>2. CASE j <= n
      BY <1>5, <2>2, <2>4, <3>1, <3>2
    <3>3. CASE j > n
      <4>1. j - n \in 1 .. k /\ x = kept[j - n]
        BY <1>5, <2>4, <3>1, <3>3
      <4> QED BY <2>3, <4>1
    <3> QED BY <1>5, <3>2, <3>3
  <2>6. ASSUME NEW x \in ToSet(rows)
        PROVE  x \in ToSet(rows')
    <3>1. PICK j \in 1 .. n : x = rows[j]
      BY <2>2
    <3>2. j \in 1 .. n + k /\ rows'[j] = x
      BY <1>5, <2>4, <3>1
    <3> QED BY <2>1, <3>2
  <2>7. ASSUME NEW x \in K
        PROVE  x \in ToSet(rows')
    <3>1. PICK j \in 1 .. k : x = kept[j]
      BY <2>3
    <3>2. n + j \in 1 .. n + k /\ rows'[n + j] = x
      BY <1>5, <2>4, <3>1
    <3> QED BY <2>1, <3>2
  <2> QED BY <2>5, <2>6, <2>7
<1>7. /\ IsFiniteSet(K)
      /\ Cardinality(K) = k
      /\ K \subseteq Beyond(corpus, n)
      /\ UpTo(corpus, n + k) = UpTo(corpus, n) \cup K
      /\ Beyond(corpus, n + k) = Beyond(corpus, n) \ K
  <2>1. CASE n <= Len(corpus)
    <3>1. n + k <= Len(corpus)
      BY <1>3, <1>4, <1>5, <2>1
    <3>2. \A j \in 1 .. k : kept[j] = corpus[n + j]
      BY <1>3, <1>5
    <3>3. /\ kept \in Seq(Works)
          /\ corpus \in Seq(Works) /\ IsInjective(corpus)
          /\ n \in Nat
      BY <1>4, <1>5
    <3>4. StartsBehind(kept, corpus, n)
      BY <3>1, <3>2 DEF StartsBehind
    <3> HIDE DEF n
    <3>5. /\ IsFiniteSet(ToSet(kept))
          /\ Cardinality(ToSet(kept)) = Len(kept)
          /\ ToSet(kept) \subseteq Beyond(corpus, n)
          /\ UpTo(corpus, n + Len(kept)) = UpTo(corpus, n) \cup ToSet(kept)
          /\ Beyond(corpus, n + Len(kept)) = Beyond(corpus, n) \ ToSet(kept)
      BY ONLY <3>3, <3>4, PageTakes
    <3> QED BY <3>5
  <2>2. CASE n > Len(corpus)
    <3>1. kept = <<>>
      BY <1>2, <1>3, <2>2 DEF kept
    <3>2. k = 0 /\ K = {}
      BY <3>1 DEF ToSet
    <3>3. n + k = n
      BY <1>5, <3>2
    <3> QED BY <3>2, <3>3, FS_EmptySet
  <2>3. n \in Nat /\ Len(corpus) \in Nat
    BY <1>4
  <2> QED BY <2>1, <2>2, <2>3
<1>8. /\ Len(rows') < args.count => Len(rows') = n + Len(page.results)
      /\ status' = "finished" => page.next_cursor = NoCursor
      /\ Exhausted' /\ Len(rows') < args.count => page.next_cursor = NoCursor
  <2>1. Len(rows') < args.count => ~ (Len(rows') >= args.count)
    BY <1>4, <1>5
  <2>2. Len(rows') < args.count => Len(rows') = n + Len(page.results)
    BY <1>2
  <2>3. status' = "finished" => page.next_cursor = NoCursor
    BY <1>2
  <2> QED BY <1>2, <2>1, <2>2, <2>3
<1>9. Len(rows') = n + Cardinality(K)
  BY <1>5, <1>7
<1> QED BY <1>5, <1>6, <1>7, <1>8, <1>9 DEF kept

\* An insertion into the list of an open scan, as the invariants see it.
LEMMA DriftInsert ==
  ASSUME DriftInv, WorkAdded
  PROVE  \E w \in Works :
           /\ w \notin ToSet(corpus) /\ w \notin removed
           /\ w \notin added /\ w \notin ToSet(rows)
           /\ added' = added \cup {w}
           /\ ToSet(corpus') = ToSet(corpus) \cup {w}
           /\ UpTo(corpus', Len(rows)) \subseteq UpTo(corpus, Len(rows)) \cup {w}
           /\ Beyond(corpus', Len(rows)) \subseteq
                Beyond(corpus, Len(rows)) \cup {w} \cup {corpus[Len(rows)]}
           /\ IsInjective(corpus')
<1>1. PICK w \in Works \ (ToSet(corpus) \cup removed), i \in 1 .. Len(corpus) + 1 :
        /\ corpus' = InsertAt(corpus, i, w)
        /\ added' = added \cup {w}
  BY DEF WorkAdded
<1>2. corpus \in Seq(Works) /\ rows \in Seq(Works) /\ IsInjective(corpus)
  BY DEF DriftInv, TrackInv, BudgetInv, TypeOK
<1> DEFINE n == Len(rows)
<1>3. n \in Nat
  BY <1>2
<1> HIDE DEF n
<1>4. /\ ToSet(corpus') = ToSet(corpus) \cup {w}
      /\ UpTo(corpus', n) \subseteq UpTo(corpus, n) \cup {w}
      /\ Beyond(corpus', n) \subseteq Beyond(corpus, n) \cup {w} \cup {corpus[n]}
      /\ IsInjective(corpus) /\ w \notin ToSet(corpus) => IsInjective(corpus')
  BY <1>1, <1>2, <1>3, InsertMoves
<1>5. w \notin added /\ w \notin ToSet(rows)
  BY <1>1 DEF DriftInv
<1> QED BY <1>1, <1>2, <1>4, <1>5 DEF n

\* A removal from the list of an open scan, as the invariants see it.
LEMMA DriftRemove ==
  ASSUME DriftInv, WorkRemoved
  PROVE  \E w \in ToSet(corpus) :
           /\ w \notin removed
           /\ removed' = removed \cup {w}
           /\ ToSet(corpus) = ToSet(corpus') \cup {w}
           /\ w \notin ToSet(corpus')
           /\ UpTo(corpus', Len(rows)) \subseteq
                UpTo(corpus, Len(rows)) \cup {corpus[Len(rows) + 1]}
           /\ Beyond(corpus', Len(rows)) \subseteq Beyond(corpus, Len(rows))
           /\ IsInjective(corpus')
<1>1. PICK i \in 1 .. Len(corpus) :
        /\ corpus' = RemoveAt(corpus, i)
        /\ removed' = removed \cup {corpus[i]}
  BY DEF WorkRemoved
<1>2. corpus \in Seq(Works) /\ rows \in Seq(Works) /\ IsInjective(corpus)
  BY DEF DriftInv, TrackInv, BudgetInv, TypeOK
<1> DEFINE n == Len(rows)
<1>3. n \in Nat
  BY <1>2
<1> HIDE DEF n
<1>4. /\ ToSet(corpus) = ToSet(corpus') \cup {corpus[i]}
      /\ UpTo(corpus', n) \subseteq UpTo(corpus, n) \cup {corpus[n + 1]}
      /\ Beyond(corpus', n) \subseteq Beyond(corpus, n)
      /\ IsInjective(corpus) => IsInjective(corpus') /\ corpus[i] \notin ToSet(corpus')
  BY <1>1, <1>2, <1>3, RemoveMoves
<1>5. corpus[i] \in ToSet(corpus)
  BY <1>2, ElementSet
<1>6. corpus[i] \notin removed
  BY <1>5 DEF DriftInv
<1> QED BY <1>1, <1>2, <1>4, <1>5, <1>6 DEF n

\* Every step keeps the works accounted for.
LEMMA DriftStep ==
  ASSUME CursorsLeadOn
  PROVE  DriftInv /\ [Next]_vars => DriftInv'
<1> SUFFICES ASSUME DriftInv, [Next]_vars PROVE DriftInv'
  OBVIOUS
<1>1. TrackInv'
  BY TrackStep DEF DriftInv
<1>2. CASE TickPage
  <2>1. PICK K : /\ ToSet(rows') = ToSet(rows) \cup K
                 /\ K \subseteq Beyond(corpus, Len(rows))
    BY <1>2, DriftPage
  <2>2. Beyond(corpus, Len(rows)) \subseteq ToSet(corpus)
    BY DEF Beyond, ToSet, DriftInv, TrackInv, BudgetInv, TypeOK
  <2>3. UNCHANGED <<corpus, added, removed>>
    BY <1>2 DEF TickPage, world
  <2> QED BY <1>1, <2>1, <2>2, <2>3 DEF DriftInv
<1>3. CASE WorkAdded
  <2>1. PICK w \in Works :
          /\ w \notin removed
          /\ added' = added \cup {w}
          /\ ToSet(corpus') = ToSet(corpus) \cup {w}
          /\ IsInjective(corpus')
    BY <1>3, DriftInsert
  <2>2. rows' = rows /\ removed' = removed
    BY <1>3 DEF WorkAdded, scan
  <2>3. IsFiniteSet(added')
    BY <2>1, FS_AddElement DEF DriftInv
  <2> QED BY <1>1, <2>1, <2>2, <2>3 DEF DriftInv
<1>4. CASE WorkRemoved
  <2>1. PICK w \in ToSet(corpus) :
          /\ removed' = removed \cup {w}
          /\ ToSet(corpus) = ToSet(corpus') \cup {w}
          /\ w \notin ToSet(corpus')
          /\ IsInjective(corpus')
    BY <1>4, DriftRemove
  <2>2. rows' = rows /\ added' = added
    BY <1>4 DEF WorkRemoved, scan
  <2>3. IsFiniteSet(removed')
    BY <2>1, FS_AddElement DEF DriftInv
  <2> QED BY <1>1, <2>1, <2>2, <2>3 DEF DriftInv
<1>5. CASE TickFinish \/ SearchFails \/ SearchCrashes \/ EmitFails \/ UNCHANGED vars
  <2>1. UNCHANGED <<rows, corpus, added, removed>>
    BY <1>5
       DEF TickFinish, SearchFails, SearchCrashes, EmitFails, vars, scan, world
  <2> QED BY <1>1, <2>1 DEF DriftInv
<1> QED BY <1>2, <1>3, <1>4, <1>5 DEF Next, Tick

-----------------------------------------------------------------------------
(* Repeated rows.                                                          *)

\* How many of n rows with the works R are repetitions, or will be when the
\* works A follow.
Excess(n, R, A) == n - Cardinality(R) + Cardinality(A \cap R)

\* Inductive: a work the scan has emitted may be emitted once more if it is
\* in the list beyond the rows, so those count as well.
RepeatInv ==
  /\ DriftInv
  /\ Excess(Len(rows), ToSet(rows), Beyond(corpus, Len(rows))) <= Cardinality(added)

\* The sets of the invariant are finite.
LEMMA RepeatFinite ==
  ASSUME DriftInv
  PROVE  LET R == ToSet(rows)
             A == Beyond(corpus, Len(rows))
         IN  /\ rows \in Seq(Works) /\ corpus \in Seq(Works)
             /\ Len(rows) \in Nat
             /\ IsFiniteSet(R) /\ Cardinality(R) \in Nat
             /\ IsFiniteSet(A) /\ Cardinality(A) \in Nat
             /\ IsFiniteSet(A \cap R) /\ Cardinality(A \cap R) \in Nat
             /\ IsFiniteSet(added) /\ Cardinality(added) \in Nat
             /\ IsFiniteSet(removed) /\ Cardinality(removed) \in Nat
<1>1. rows \in Seq(Works) /\ corpus \in Seq(Works) /\ IsFiniteSet(added) /\ IsFiniteSet(removed)
  BY DEF DriftInv, TrackInv, BudgetInv, TypeOK
<1>2. IsFiniteSet(ToSet(rows)) /\ IsFiniteSet(Beyond(corpus, Len(rows)))
  BY <1>1, FiniteLists
<1>3. IsFiniteSet(Beyond(corpus, Len(rows)) \cap ToSet(rows))
  BY <1>2, FS_Intersection
<1> QED BY <1>1, <1>2, <1>3, FS_CardinalityType

\* Taking elements from the part beyond the rows, some of them repeated,
\* leaves the sum unchanged.
LEMMA TakingKeepsSum ==
  ASSUME NEW R, IsFiniteSet(R), NEW A, IsFiniteSet(A), NEW K \in SUBSET A,
         NEW n \in Nat
  PROVE  Excess(n + Cardinality(K), R \cup K, A \ K) = Excess(n, R, A)
<1> SUFFICES ASSUME NEW m, m = n + Cardinality(K),
                    NEW all, all = R \cup K,
                    NEW rest, rest = A \ K
             PROVE  Excess(m, all, rest) = Excess(n, R, A)
  OBVIOUS
<1> DEFINE old == A \cap R
           left == rest \cap all
           again == R \cap K
<1>1. IsFiniteSet(K) /\ IsFiniteSet(old)
  BY FS_Subset, FS_Intersection
<1>2. IsFiniteSet(all) /\ Cardinality(all) = Cardinality(R) + Cardinality(K) - Cardinality(again)
  BY <1>1, FS_Union
<1>3. left = old \ K /\ old \cap K = again
  OBVIOUS
<1>4. IsFiniteSet(left) /\ Cardinality(left) = Cardinality(old) - Cardinality(again)
  BY <1>1, <1>3, FS_Difference
<1>5. /\ Cardinality(R) \in Nat /\ Cardinality(K) \in Nat
      /\ Cardinality(old) \in Nat /\ Cardinality(again) \in Nat
      /\ Cardinality(all) \in Nat /\ Cardinality(left) \in Nat
  BY <1>1, <1>2, <1>4, FS_CardinalityType, FS_Intersection
<1>6. /\ Excess(m, all, rest) = m - Cardinality(all) + Cardinality(left)
      /\ Excess(n, R, A) = n - Cardinality(R) + Cardinality(old)
  BY DEF Excess
<1> HIDE DEF old, left, again
<1> QED BY <1>2, <1>4, <1>5, <1>6

\* Every step keeps the account of repeated rows.
LEMMA RepeatStep ==
  ASSUME CursorsLeadOn
  PROVE  RepeatInv /\ [Next]_vars => RepeatInv'
<1> SUFFICES ASSUME RepeatInv, [Next]_vars PROVE RepeatInv'
  OBVIOUS
<1>1. DriftInv /\ DriftInv'
  BY DriftStep DEF RepeatInv
<1> DEFINE n == Len(rows)
           R == ToSet(rows)
           A == Beyond(corpus, n)
<1>2. /\ n \in Nat
      /\ IsFiniteSet(R) /\ Cardinality(R) \in Nat
      /\ IsFiniteSet(A) /\ Cardinality(A) \in Nat
      /\ IsFiniteSet(A \cap R) /\ Cardinality(A \cap R) \in Nat
      /\ IsFiniteSet(added) /\ Cardinality(added) \in Nat
  BY <1>1, RepeatFinite
<1>3. Excess(n, R, A) <= Cardinality(added)
  BY DEF RepeatInv
<1>4. CASE TickPage
  <2>1. PICK K :
          /\ Len(rows') = n + Cardinality(K)
          /\ ToSet(rows') = R \cup K
          /\ IsFiniteSet(K)
          /\ K \subseteq A
          /\ Beyond(corpus, Len(rows')) = A \ K
    BY <1>1, <1>4, DriftPage
  <2>2. corpus' = corpus /\ added' = added
    BY <1>4 DEF TickPage, world
  <2>3. Beyond(corpus', Len(rows')) = A \ K
    BY <2>1, <2>2
  <2> HIDE DEF n, R, A
  <2>4. Excess(n + Cardinality(K), R \cup K, A \ K) = Excess(n, R, A)
    BY <1>2, <2>1, TakingKeepsSum
  <2>5. Excess(Len(rows'), ToSet(rows'), Beyond(corpus', Len(rows'))) <= Cardinality(added')
    BY <1>3, <2>1, <2>2, <2>3, <2>4
  <2> QED BY <1>1, <2>5 DEF RepeatInv
<1>5. CASE WorkAdded
  <2>1. PICK w \in Works :
          /\ w \notin added /\ w \notin R
          /\ added' = added \cup {w}
          /\ Beyond(corpus', n) \subseteq A \cup {w} \cup {corpus[n]}
    BY <1>1, <1>5, DriftInsert
  <2>2. rows' = rows
    BY <1>5 DEF WorkAdded, scan
  <2> DEFINE B == Beyond(corpus', n) \cap R
             C == (A \cap R) \cup {corpus[n]}
  <2>3. B \in SUBSET C
    BY <2>1
  <2> HIDE DEF R, A
  <2>4. IsFiniteSet(C) /\ Cardinality(C) <= Cardinality(A \cap R) + 1 /\ Cardinality(C) \in Nat
    <3> DEFINE D == A \cap R
               c == corpus[n]
    <3>1. IsFiniteSet(D) /\ Cardinality(D) \in Nat
      BY <1>2
    <3> HIDE DEF D, c
    <3>2. /\ IsFiniteSet(D \cup {c})
          /\ Cardinality(D \cup {c}) = IF c \in D THEN Cardinality(D) ELSE Cardinality(D) + 1
      BY <3>1, FS_AddElement
    <3>3. Cardinality(D \cup {c}) <= Cardinality(D) + 1 /\ Cardinality(D \cup {c}) \in Nat
      BY <3>1, <3>2
    <3> QED BY <3>2, <3>3 DEF D, c
  <2>5. Cardinality(B) <= Cardinality(C) /\ Cardinality(B) \in Nat
    BY <2>3, <2>4, FS_Subset, FS_CardinalityType
  <2>6. Cardinality(added') = Cardinality(added) + 1
    BY <1>2, <2>1, FS_AddElement
  <2> HIDE DEF n, B, C
  <2>7. n - Cardinality(R) + Cardinality(B) <= Cardinality(added')
    BY <1>2, <1>3, <2>4, <2>5, <2>6 DEF Excess
  <2>8. Excess(n, R, Beyond(corpus', n)) <= Cardinality(added')
    BY <2>7 DEF Excess, B
  <2> QED BY <1>1, <2>2, <2>8 DEF RepeatInv, n, R
<1>6. CASE WorkRemoved
  <2>1. Beyond(corpus', n) \subseteq A
    BY <1>1, <1>6, DriftRemove
  <2>2. rows' = rows /\ added' = added
    BY <1>6 DEF WorkRemoved, scan
  <2> DEFINE B == Beyond(corpus', n) \cap R
  <2>3. B \in SUBSET (A \cap R)
    BY <2>1
  <2> HIDE DEF R, A
  <2>4. Cardinality(B) <= Cardinality(A \cap R) /\ Cardinality(B) \in Nat
    BY <1>2, <2>3, FS_Subset, FS_CardinalityType
  <2> HIDE DEF n, B
  <2>5. n - Cardinality(R) + Cardinality(B) <= Cardinality(added')
    BY <1>2, <1>3, <2>2, <2>4 DEF Excess
  <2>6. Excess(n, R, Beyond(corpus', n)) <= Cardinality(added')
    BY <2>5 DEF Excess, B
  <2> QED BY <1>1, <2>2, <2>6 DEF RepeatInv, n, R
<1>7. CASE TickFinish \/ SearchFails \/ SearchCrashes \/ EmitFails \/ UNCHANGED vars
  <2>1. UNCHANGED <<rows, corpus, added>>
    BY <1>7
       DEF TickFinish, SearchFails, SearchCrashes, EmitFails, vars, scan, world
  <2> QED BY <1>1, <2>1 DEF RepeatInv
<1> QED BY <1>4, <1>5, <1>6, <1>7 DEF Next, Tick

\* Against every API whose cursors lead on, a scan of a list that changes
\* under it repeats at most one row for each insertion.
THEOREM RepeatedPerInsertion ==
  ASSUME CursorsLeadOn
  PROVE  Spec => []RepeatsBounded
<1>1. Init => RepeatInv
  <2> SUFFICES ASSUME Init PROVE RepeatInv
    OBVIOUS
  <2>1. DriftInv /\ rows = <<>> /\ added = {}
    BY DriftInit DEF Init
  <2>2. ToSet(rows) = {}
    BY <2>1 DEF ToSet
  <2>3. Beyond(corpus, Len(rows)) \cap ToSet(rows) = {}
    BY <2>2
  <2>4. Len(rows) = 0 /\ Cardinality({}) = 0
    BY <2>1, FS_EmptySet
  <2>5. Excess(Len(rows), ToSet(rows), Beyond(corpus, Len(rows))) = 0 - 0 + 0
    BY <2>2, <2>3, <2>4 DEF Excess
  <2>6. Excess(Len(rows), ToSet(rows), Beyond(corpus, Len(rows))) <= Cardinality(added)
    BY <2>1, <2>4, <2>5
  <2> QED BY <2>1, <2>6 DEF RepeatInv
<1>2. RepeatInv => RepeatsBounded
  <2> SUFFICES ASSUME RepeatInv PROVE RepeatsBounded
    OBVIOUS
  <2>1. /\ Len(rows) \in Nat
        /\ Cardinality(ToSet(rows)) \in Nat
        /\ Cardinality(Beyond(corpus, Len(rows)) \cap ToSet(rows)) \in Nat
        /\ Cardinality(added) \in Nat
    BY RepeatFinite DEF RepeatInv
  <2> QED BY <2>1 DEF RepeatInv, RepeatsBounded, Excess
<1> QED BY <1>1, <1>2, RepeatStep, PTL DEF Spec

-----------------------------------------------------------------------------
(* Missed works.                                                           *)

\* The works of the list that the scan has passed: those up to its rows, or
\* all of them when it has nothing more to fetch.
Behind ==
  IF status = "open" /\ ~ Exhausted THEN UpTo(corpus, Len(rows)) ELSE ToSet(corpus)

\* Inductive: the works that were passed, never added, and not emitted are
\* at most as many as were removed.
MissInv ==
  /\ DriftInv
  /\ status \in {"open", "finished"} /\ Len(rows) < args.count =>
       Cardinality((Behind \ added) \ ToSet(rows)) <= Cardinality(removed)

\* The sets of the invariant are finite.
LEMMA MissFinite ==
  ASSUME DriftInv
  PROVE  /\ IsFiniteSet((Behind \ added) \ ToSet(rows))
         /\ Cardinality((Behind \ added) \ ToSet(rows)) \in Nat
         /\ IsFiniteSet(removed) /\ Cardinality(removed) \in Nat
<1>1. IsFiniteSet(Behind)
  BY FiniteLists DEF Behind, DriftInv, TrackInv, BudgetInv, TypeOK
<1>2. IsFiniteSet((Behind \ added) \ ToSet(rows))
  BY <1>1, FS_Difference
<1> QED BY <1>2, FS_CardinalityType DEF DriftInv

\* A page passes the works it emits; the last one passes the whole list.
LEMMA MissPage ==
  ASSUME CursorsEndWithList, MissInv, TickPage
  PROVE  MissInv'
<1>1. CursorsLeadOn /\ DriftInv /\ DriftInv' /\ TypeOK /\ ~ Exhausted /\ status = "open"
  BY EndingCursorsLeadOn, DriftStep
     DEF MissInv, DriftInv, TrackInv, BudgetInv, TickPage, Next, Tick
<1> SUFFICES ASSUME status' \in {"open", "finished"}, Len(rows') < args'.count
             PROVE  Cardinality((Behind' \ added') \ ToSet(rows')) <= Cardinality(removed')
  BY <1>1 DEF MissInv
<1>2. UNCHANGED <<args, corpus, added, removed>>
  BY DEF TickPage, world
<1> DEFINE n == Len(rows)
<1>3. PICK page \in Pages :
        LET K == ToSet(Kept(page))
        IN  /\ Len(rows') = n + Cardinality(K)
            /\ ToSet(rows') = ToSet(rows) \cup K
            /\ IsFiniteSet(K)
            /\ UpTo(corpus, Len(rows')) = UpTo(corpus, n) \cup K
            /\ n <= Len(corpus) /\ Len(rows') < args.count =>
                 Len(rows') = n + Len(page.results)
            /\ status' = "finished" => page.next_cursor = NoCursor
            /\ Exhausted' /\ Len(rows') < args.count => page.next_cursor = NoCursor
  BY <1>1, DriftPage
<1> DEFINE K == ToSet(Kept(page))
<1>4. Behind' \subseteq UpTo(corpus, n) \cup K
  <2>1. CASE status' = "open" /\ ~ Exhausted'
    BY <1>2, <1>3, <2>1 DEF Behind
  <2>2. CASE ~ (status' = "open" /\ ~ Exhausted')
    <3>1. page.next_cursor = NoCursor
      BY <1>2, <1>3, <2>2
    <3>2. corpus \in Seq(Works) /\ rows \in Seq(Works)
      BY <1>1 DEF TypeOK
    <3>3. Len(corpus) <= Len(rows')
      <4>1. CASE n <= Len(corpus)
        <5>1. TheRequest.at = n
          BY <1>1 DEF DriftInv, TrackInv, CursorTracksRows
        <5>2. n + Len(page.results) = Len(corpus)
          BY <1>1, <3>1, <4>1, <5>1, LastPage
        <5>3. Len(rows') = Len(corpus)
          BY <1>2, <1>3, <4>1, <5>2
        <5> QED BY <3>2, <5>3
      <4>2. CASE n > Len(corpus)
        <5>1. Cardinality(K) \in Nat
          BY <1>3, FS_CardinalityType
        <5>2. Len(rows') = n + Cardinality(K)
          BY <1>3
        <5> HIDE DEF K
        <5> QED BY <3>2, <4>2, <5>1, <5>2
      <4> QED BY <3>2, <4>1, <4>2
    <3>4. ToSet(corpus) \subseteq UpTo(corpus, Len(rows'))
      <4>1. \A j \in 1 .. Len(corpus) : j <= Len(rows')
        <5>1. Len(rows') \in Nat
          BY <1>1 DEF DriftInv, TrackInv, BudgetInv, TypeOK
        <5> QED BY <3>2, <3>3, <5>1
      <4> QED BY <3>2, <4>1, ElementSet DEF UpTo
    <3>5. Behind' = ToSet(corpus)
      BY <1>2, <2>2 DEF Behind
    <3> QED BY <1>3, <3>4, <3>5
  <2> QED BY <2>1, <2>2
<1>5. Behind = UpTo(corpus, n)
  BY <1>1 DEF Behind
<1>6. (Behind' \ added') \ ToSet(rows') \in SUBSET ((Behind \ added) \ ToSet(rows))
  BY <1>2, <1>3, <1>4, <1>5
<1>7. Cardinality((Behind' \ added') \ ToSet(rows'))
        <= Cardinality((Behind \ added) \ ToSet(rows))
  BY <1>1, <1>6, MissFinite, FS_Subset
<1>8. Cardinality((Behind \ added) \ ToSet(rows)) <= Cardinality(removed)
  <2>1. n < args.count
    <3>1. args.count \in Nat /\ args.count > state.emitted /\ state.emitted = Len(rows)
      <4>1. args.count \in Nat /\ state.emitted \in Nat /\ state.emitted = Len(rows)
        BY <1>1, ArgsAssumption
           DEF TypeOK, ScanState, DriftInv, TrackInv, BudgetInv, CountBudget
      <4> QED BY <1>1, <4>1 DEF Exhausted
    <3> QED BY <3>1
  <2> QED BY <1>1, <2>1 DEF MissInv
<1>9. /\ Cardinality((Behind \ added) \ ToSet(rows)) \in Nat
      /\ Cardinality(removed) \in Nat
      /\ Cardinality((Behind' \ added') \ ToSet(rows')) \in Nat
  <2>1. IsFiniteSet((Behind' \ added') \ ToSet(rows'))
    BY <1>1, <1>6, MissFinite, FS_Subset
  <2> QED BY <1>1, <2>1, MissFinite, FS_CardinalityType
<1> QED BY <1>2, <1>7, <1>8, <1>9

\* A removal may hide one work from the scan, an insertion none.
LEMMA MissDrift ==
  ASSUME MissInv, DriftInv', WorkAdded \/ WorkRemoved
  PROVE  MissInv'
<1>1. DriftInv
  BY DEF MissInv
<1> SUFFICES ASSUME status' \in {"open", "finished"}, Len(rows') < args'.count
             PROVE  Cardinality((Behind' \ added') \ ToSet(rows')) <= Cardinality(removed')
  BY DEF MissInv
<1> DEFINE old == (Behind \ added) \ ToSet(rows)
           new == (Behind' \ added') \ ToSet(rows')
<1>2. UNCHANGED <<args, state, rows, status>>
  BY DEF WorkAdded, WorkRemoved, scan
<1>3. Exhausted' <=> Exhausted
  BY <1>2 DEF Exhausted
<1>4. /\ IsFiniteSet(old) /\ Cardinality(old) \in Nat
      /\ IsFiniteSet(removed) /\ Cardinality(removed) \in Nat
      /\ Cardinality(old) <= Cardinality(removed)
  BY <1>1, <1>2, MissFinite DEF MissInv
<1>5. CASE WorkAdded
  <2>1. PICK w \in Works :
          /\ added' = added \cup {w}
          /\ ToSet(corpus') = ToSet(corpus) \cup {w}
          /\ UpTo(corpus', Len(rows)) \subseteq UpTo(corpus, Len(rows)) \cup {w}
    BY <1>1, <1>5, DriftInsert
  <2>2. removed' = removed
    BY <1>5 DEF WorkAdded
  <2>3. Behind' \subseteq Behind \cup {w}
    BY <1>2, <1>3, <2>1 DEF Behind
  <2>4. new \in SUBSET old
    BY <1>2, <2>1, <2>3
  <2> HIDE DEF old, new
  <2>5. Cardinality(new) <= Cardinality(old) /\ Cardinality(new) \in Nat
    BY <1>4, <2>4, FS_Subset, FS_CardinalityType
  <2>6. Cardinality(new) <= Cardinality(removed')
    BY <1>4, <2>2, <2>5
  <2> QED BY <2>6 DEF new
<1>6. CASE WorkRemoved
  <2> DEFINE next == corpus[Len(rows) + 1]
  <2>1. PICK w \in ToSet(corpus) :
          /\ w \notin removed
          /\ removed' = removed \cup {w}
          /\ ToSet(corpus) = ToSet(corpus') \cup {w}
          /\ UpTo(corpus', Len(rows)) \subseteq UpTo(corpus, Len(rows)) \cup {next}
    BY <1>1, <1>6, DriftRemove
  <2>2. added' = added
    BY <1>6 DEF WorkRemoved
  <2> HIDE DEF next
  <2>3. Behind' \subseteq Behind \cup {next}
    BY <1>2, <1>3, <2>1 DEF Behind
  <2>4. new \in SUBSET (old \cup {next})
    BY <1>2, <2>2, <2>3
  <2> HIDE DEF old, new
  <2>5. /\ IsFiniteSet(old \cup {next})
        /\ Cardinality(old \cup {next}) = IF next \in old THEN Cardinality(old)
                                                          ELSE Cardinality(old) + 1
    BY <1>4, FS_AddElement
  <2>6. /\ Cardinality(new) <= Cardinality(old \cup {next})
        /\ Cardinality(new) \in Nat
    BY <2>4, <2>5, FS_Subset, FS_CardinalityType
  <2>7. Cardinality(removed') = Cardinality(removed) + 1
    BY <1>4, <2>1, FS_AddElement
  <2>8. Cardinality(new) <= Cardinality(removed')
    BY <1>4, <2>5, <2>6, <2>7
  <2> QED BY <2>8 DEF new
<1> QED BY <1>5, <1>6

\* Every step keeps the account of missed works.
LEMMA MissStep ==
  ASSUME CursorsEndWithList
  PROVE  MissInv /\ [Next]_vars => MissInv'
<1> SUFFICES ASSUME MissInv, [Next]_vars PROVE MissInv'
  OBVIOUS
<1>1. DriftInv /\ DriftInv'
  BY EndingCursorsLeadOn, DriftStep DEF MissInv
<1>2. CASE TickPage
  BY <1>2, MissPage
<1>3. CASE WorkAdded \/ WorkRemoved
  BY <1>1, <1>3, MissDrift
<1>4. CASE SearchFails \/ SearchCrashes \/ EmitFails
  BY <1>1, <1>4 DEF SearchFails, SearchCrashes, EmitFails, MissInv
<1>5. CASE TickFinish
  <2>1. UNCHANGED <<args, state, rows, corpus, added, removed>> /\ Exhausted /\ status = "open"
    BY <1>5 DEF TickFinish, world
  <2>2. Behind' = ToSet(corpus) /\ Behind = ToSet(corpus)
    BY <1>5, <2>1 DEF Behind, TickFinish
  <2> QED BY <1>1, <2>1, <2>2 DEF MissInv
<1>6. CASE UNCHANGED vars
  <2>1. UNCHANGED <<args, state, rows, status, corpus, added, removed>>
    BY <1>6 DEF vars, scan, world
  <2>2. Behind' = Behind
    BY <2>1 DEF Behind, Exhausted
  <2> QED BY <1>1, <2>1, <2>2 DEF MissInv
<1> QED BY <1>2, <1>3, <1>4, <1>5, <1>6 DEF Next, Tick

\* Against every API whose pages end with its list, a scan that ran to the
\* end of a list that changes under it has missed at most one of the works
\* that were always there for each removal.
THEOREM MissedPerRemoval ==
  ASSUME CursorsEndWithList
  PROVE  Spec => []MissesBounded
<1>1. Init => MissInv
  <2> SUFFICES ASSUME Init PROVE MissInv
    OBVIOUS
  <2>1. DriftInv /\ rows = <<>> /\ removed = {} /\ status = "open"
    BY DriftInit DEF Init
  <2>2. ~ Exhausted
    <3>1. args.count \in Nat \ {0} /\ state.emitted = 0 /\ ~ state.done /\ ~ state.started
      BY ArgsAssumption DEF Init, InitialState
    <3> QED BY <3>1 DEF Exhausted
  <2>3. corpus \in Seq(Works)
    BY <2>1 DEF DriftInv, TrackInv, BudgetInv, TypeOK
  <2>4. Behind = {}
    BY <2>1, <2>2, <2>3 DEF Behind, UpTo
  <2>5. (Behind \ added) \ ToSet(rows) = {}
    BY <2>4
  <2>6. Cardinality((Behind \ added) \ ToSet(rows)) = 0 /\ Cardinality(removed) = 0
    BY <2>1, <2>5, FS_EmptySet
  <2> QED BY <2>1, <2>6 DEF MissInv
<1>2. MissInv => MissesBounded
  <2> SUFFICES ASSUME MissInv, status = "finished", Len(rows) < args.count
               PROVE  Cardinality((ToSet(corpus) \ added) \ ToSet(rows)) <= Cardinality(removed)
    BY DEF MissesBounded
  <2>1. Behind = ToSet(corpus)
    BY DEF Behind
  <2> QED BY <2>1 DEF MissInv
<1> QED BY <1>1, <1>2, MissStep, PTL DEF Spec
=============================================================================
