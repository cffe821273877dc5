--------------------------- MODULE ProbePath_proofs -------------------------
(***************************************************************************)
(* For paths of any shape and length, what the code makes of a hop field   *)
(* is what SCION means by it; so whatever records the routers of a path    *)
(* write, what is shown of a link is of the router that sent the probe     *)
(* over it.                                                                *)
(***************************************************************************)
EXTENDS ProbePath, SequenceTheorems, FiniteSetTheorems, TLAPS

-----------------------------------------------------------------------------
(* Hop fields.                                                             *)

\* The lengths of a shape are natural numbers, and so are the parts of the reversed
\* shape (convert.go, the lengths of the decoded path).
LEMMA Lengths ==
    ASSUME NEW s \in Shapes
    PROVE  /\ s.len \in [1..3 -> Nat] /\ s.peer \in BOOLEAN
           /\ s.len[1] \in Nat \ {0} /\ s.len[2] \in Nat /\ s.len[3] \in Nat
           /\ s.len[2] = 0 => s.len[3] = 0 /\ ~s.peer /\ s.len[1] >= 2
           /\ s.peer => s.len[3] = 0 /\ s.len[2] >= 1
           /\ ~s.peer /\ s.len[2] > 0 => s.len[1] >= 2 /\ s.len[2] >= 2
           /\ s.len[3] = 0 \/ s.len[3] >= 2
BY DEF Shapes

\* The way back has the segments in the opposite order, each of its own length
\* (convert.go, reverse).
LEMMA ReversedLengths ==
    ASSUME NEW s \in Shapes
    PROVE  /\ Reversed(s).peer = s.peer
           /\ s.len[3] > 0 => /\ Reversed(s).len[1] = s.len[3]
                              /\ Reversed(s).len[2] = s.len[2]
                              /\ Reversed(s).len[3] = s.len[1]
           /\ s.len[3] = 0 /\ s.len[2] > 0 => /\ Reversed(s).len[1] = s.len[2]
                                              /\ Reversed(s).len[2] = s.len[1]
                                              /\ Reversed(s).len[3] = 0
           /\ s.len[2] = 0 => Reversed(s) = s
           /\ Reversed(s).len \in [1..3 -> Nat]
           /\ Reversed(s) \in [len : [1..3 -> Nat], peer : BOOLEAN]
<1> USE Lengths
<1>0. s \in [len : [1..3 -> Nat], peer : BOOLEAN]
  BY DEF Shapes
<1>1. CASE s.len[3] > 0
  <2> DEFINE L == [i \in 1..3 |-> s.len[4 - i]]
  <2>1. Reversed(s) = [s EXCEPT !.len = L]
    BY <1>1 DEF Reversed
  <2>2. L[1] = s.len[3] /\ L[2] = s.len[2] /\ L[3] = s.len[1] /\ L \in [1..3 -> Nat]
    <3>1. \A i \in 1..3 : 4 - i \in 1..3
      OBVIOUS
    <3> QED BY <3>1, Lengths
  <2> HIDE DEF L
  <2> QED BY <1>0, <1>1, <2>1, <2>2, Lengths
<1>2. CASE ~(s.len[3] > 0) /\ s.len[2] > 0
  <2> DEFINE L == [i \in 1..3 |-> IF i = 3 THEN 0 ELSE s.len[3 - i]]
  <2>1. Reversed(s) = [s EXCEPT !.len = L]
    BY <1>2 DEF Reversed
  <2>2. L[1] = s.len[2] /\ L[2] = s.len[1] /\ L[3] = 0 /\ L \in [1..3 -> Nat]
    <3>1. \A i \in 1..3 : i # 3 => 3 - i \in 1..3
      OBVIOUS
    <3> QED BY <3>1, Lengths
  <2> HIDE DEF L
  <2> QED BY <1>0, <1>2, <2>1, <2>2, Lengths
<1>3. CASE ~(s.len[3] > 0) /\ ~(s.len[2] > 0)
  <2>1. Reversed(s) = [s EXCEPT !.len = s.len]
    BY <1>3 DEF Reversed
  <2>2. Reversed(s) = s
    BY <2>1, <1>0
  <2> QED BY <1>0, <1>3, <2>2, Lengths
<1> QED BY <1>1, <1>2, <1>3

\* A reversed path is a path (convert.go, reverse).
LEMMA ReversedIsShape ==
    ASSUME NEW s \in Shapes
    PROVE  Reversed(s) \in Shapes
BY Lengths, ReversedLengths DEF Shapes

\* Whatever the shape, the index of every hop field is one of the metadata's
\* interfaces, and that interface is one of the hop field's AS (FwdPathMeta).
THEOREM FwdIAIsRight ==
    ASSUME NEW s \in Shapes, NEW i \in 0 .. HopFields(s) - 1
    PROVE  InRange(s, i) /\ FwdIA(s, i) = AsAt(s, i)
<1> DEFINE a == s.len[1]  b == s.len[2]  c == s.len[3]
<1>1. /\ a \in Nat \ {0} /\ b \in Nat /\ c \in Nat /\ s.peer \in BOOLEAN
      /\ b = 0 => c = 0 /\ ~s.peer /\ a >= 2
      /\ s.peer => c = 0 /\ b >= 1
      /\ ~s.peer /\ b > 0 => a >= 2 /\ b >= 2
      /\ c = 0 \/ c >= 2
      /\ i \in Nat /\ i < a + b + c
  BY Lengths DEF HopFields
<1> DEFINE at(n) == n - (IF ~s.peer /\ b > 0 /\ n >= a THEN 1 ELSE 0)
                      - (IF c > 0 /\ n >= a + b THEN 1 ELSE 0)
           last == at(HopFields(s) - 1)
           idx == IF i = 0 THEN 0
                  ELSE IF i < (IF s.peer THEN a + b ELSE a) THEN 2 * i - 1
                  ELSE IF i < a + b THEN 2 * i - 3 ELSE 2 * i - 5
<1>2. AsAt(s, i) = at(i) /\ LastAs(s) = last /\ InterfaceIdx(s, i) = idx
  <2>1. AsAt(s, i) = at(i)
    BY DEF AsAt
  <2>2. LastAs(s) = last
    BY DEF LastAs, AsAt
  <2>3. InterfaceIdx(s, i) = idx
    BY DEF InterfaceIdx, FirstChange
  <2> HIDE DEF at, last, idx
  <2> QED BY <2>1, <2>2, <2>3
<1>3. HopFields(s) = a + b + c
  BY <1>1 DEF HopFields
<1> HIDE DEF a, b, c
<1>4. idx \in 0 .. 2 * last - 1
  BY <1>1, <1>3
<1>5. (idx + 1) \div 2 = at(i)
  BY <1>1
<1> QED BY <1>2, <1>4, <1>5 DEF InRange, Interfaces, FwdIA, AsOfInterface

\* The hop fields of the way back count from the destination, and RevPathMeta gives
\* each the AS it belongs to.
THEOREM RevIAIsRight ==
    ASSUME NEW s \in Shapes, NEW i \in 0 .. HopFields(s) - 1
    PROVE  /\ InRange(Reversed(s), i)
           /\ RevIA(s, i) = LastAs(s) - AsAt(Reversed(s), i)
<1> DEFINE r == Reversed(s)
<1>1. r \in Shapes /\ HopFields(r) = HopFields(s) /\ LastAs(r) = LastAs(s)
  BY Lengths, ReversedLengths, ReversedIsShape DEF HopFields, LastAs, AsAt
<1>2. InRange(r, i) /\ FwdIA(r, i) = AsAt(r, i)
  BY <1>1, FwdIAIsRight
<1>3. LastAs(s) \in Int /\ AsAt(r, i) \in Int
  BY <1>1, Lengths DEF LastAs, AsAt, HopFields
<1>4. InterfaceIdx(r, i) \in Int
  BY <1>1, <1>2 DEF InRange
<1>5. ASSUME NEW n \in Int, NEW j \in Int
      PROVE  (2 * n - j - 1 + 1) \div 2 = n - (j + 1) \div 2
  OBVIOUS
<1> QED BY <1>2, <1>3, <1>4, <1>5 DEF RevIA, FwdIA, AsOfInterface, Interfaces

-----------------------------------------------------------------------------
(* Numbers.                                                                *)

\* What holds of 0, and of n + 1 if of n, holds of all numbers.
LEMMA Counting ==
    ASSUME NEW T, 0 \in T, \A n \in Nat : n \in T => n + 1 \in T
    PROVE  \A n \in Nat : n \in T
<1> DEFINE Others == {n \in Nat : n \notin T}  R == OpToRel(<, Nat)
<1>1. R = {ss \in Nat \X Nat : ss[1] < ss[2]}
  BY Zenon DEF OpToRel
<1>2. IsWellFoundedOn(R, Nat)
  BY NatLessThanWellFounded
<1> HIDE DEF R
<1>3. ASSUME Others # {} PROVE FALSE
  <2>1. \E x \in Others : \A y \in Others : ~(<<y, x>> \in R)
    <3>1. Others \subseteq Nat
      OBVIOUS
    <3> HIDE DEF Others
    <3> QED BY <1>2, <1>3, <3>1, WFMin
  <2>2. PICK n \in Others : \A y \in Others : ~(<<y, n>> \in R)
    BY <2>1
  <2>3. n \in Nat /\ n # 0 /\ n \notin T
    OBVIOUS
  <2>4. n - 1 \in Nat /\ n - 1 < n /\ (n - 1) + 1 = n
    BY <2>3
  <2>5. <<n - 1, n>> \in R
    BY <1>1, <2>3, <2>4
  <2>6. n - 1 \in T
    BY <2>2, <2>4, <2>5
  <2>7. (n - 1) + 1 \in T
    BY <2>4, <2>6
  <2> QED BY <2>3, <2>4, <2>7
<1> QED BY <1>3

\* A non-empty set of numbers has a least one, and if bounded a last one.
LEMMA Extremes ==
    ASSUME NEW m \in Nat, NEW S, S \subseteq 0 .. m, S # {}
    PROVE  First(S) \in S /\ Final(S) \in S
<1>1. \E x \in S : \A y \in S : x <= y
  <2> SUFFICES ASSUME \A x \in S : \E y \in S : y < x PROVE FALSE
    BY \A x, y \in S : x <= y \/ y < x
  <2> DEFINE T == {n \in Nat : \A x \in S : x >= n}
  <2>1. 0 \in T
    OBVIOUS
  <2>2. ASSUME NEW n \in Nat, n \in T PROVE n + 1 \in T
    <3> SUFFICES ASSUME NEW x \in S PROVE x >= n + 1
      OBVIOUS
    <3>1. PICK y \in S : y < x
      OBVIOUS
    <3>2. y >= n /\ x \in Nat /\ y \in Nat
      BY <2>2
    <3> QED BY <3>1, <3>2
  <2> HIDE DEF T
  <2>3. m + 1 \in T
    BY <2>1, <2>2, Counting
  <2>4. PICK x \in S : TRUE
    OBVIOUS
  <2>5. x >= m + 1 /\ x \in 0 .. m
    BY <2>3 DEF T
  <2> QED BY <2>5
<1>2. \E x \in S : \A y \in S : x >= y
  <2> SUFFICES ASSUME \A x \in S : \E y \in S : y > x PROVE FALSE
    BY \A x, y \in S : x >= y \/ y > x
  <2> DEFINE T == {n \in Nat : \A x \in S : x <= m - n}
  <2>1. 0 \in T
    OBVIOUS
  <2>2. ASSUME NEW n \in Nat, n \in T PROVE n + 1 \in T
    <3> SUFFICES ASSUME NEW x \in S PROVE x <= m - (n + 1)
      OBVIOUS
    <3>1. PICK y \in S : y > x
      OBVIOUS
    <3>2. y <= m - n /\ x \in Nat /\ y \in Nat
      BY <2>2
    <3> QED BY <3>1, <3>2
  <2> HIDE DEF T
  <2>3. m + 1 \in T
    BY <2>1, <2>2, Counting
  <2>4. PICK x \in S : TRUE
    OBVIOUS
  <2>5. x <= m - (m + 1) /\ x \in 0 .. m
    BY <2>3 DEF T
  <2> QED BY <2>5
<1> QED BY <1>1, <1>2 DEF First, Final

\* As many numbers as fit between 1 and m, in ascending order, are all of them.
LEMMA Filled ==
    ASSUME NEW m \in Nat, NEW f \in [1 .. m -> 1 .. m],
           \A i, j \in 1 .. m : i < j => f[i] < f[j]
    PROVE  \A k \in 1 .. m : f[k] = k
<1> DEFINE Up == {n \in Nat : n + 1 <= m => f[n + 1] >= n + 1}
           Down == {n \in Nat : n < m => f[m - n] <= m - n}
<1>1. \A n \in Nat : n \in Up
  <2>1. 0 \in Up
    OBVIOUS
  <2>2. ASSUME NEW n \in Nat, n \in Up PROVE n + 1 \in Up
    <3> SUFFICES ASSUME (n + 1) + 1 <= m PROVE f[(n + 1) + 1] >= (n + 1) + 1
      OBVIOUS
    <3>1. f[n + 1] < f[(n + 1) + 1]
      OBVIOUS
    <3> QED BY <2>2, <3>1
  <2> HIDE DEF Up
  <2> QED BY <2>1, <2>2, Counting
<1>2. \A n \in Nat : n \in Down
  <2>1. 0 \in Down
    OBVIOUS
  <2>2. ASSUME NEW n \in Nat, n \in Down PROVE n + 1 \in Down
    <3> SUFFICES ASSUME n + 1 < m PROVE f[m - (n + 1)] <= m - (n + 1)
      OBVIOUS
    <3>1. m - (n + 1) \in 1 .. m /\ m - n \in 1 .. m /\ m - (n + 1) < m - n
      OBVIOUS
    <3>2. f[m - (n + 1)] < f[m - n] /\ f[m - (n + 1)] \in Nat /\ f[m - n] \in Nat /\ f[m - n] <= m - n
      BY <2>2, <3>1
    <3> QED BY <3>1, <3>2
  <2> HIDE DEF Down
  <2> QED BY <2>1, <2>2, Counting
<1>3. ASSUME NEW k \in 1 .. m PROVE f[k] = k
  <2>1. k - 1 \in Nat /\ m - k \in Nat /\ (k - 1) + 1 = k /\ m - (m - k) = k
    OBVIOUS
  <2> HIDE DEF Up, Down
  <2>2. k - 1 \in Up /\ m - k \in Down
    BY <1>1, <1>2, <2>1
  <2>3. (k - 1) + 1 <= m => f[(k - 1) + 1] >= (k - 1) + 1
    BY <2>2 DEF Up
  <2>4. m - k < m => f[m - (m - k)] <= m - (m - k)
    BY <2>2 DEF Down
  <2> QED BY <2>1, <2>3, <2>4
<1> QED BY <1>3

-----------------------------------------------------------------------------
(* The records that are kept.                                              *)

\* What has been kept of the first n records (egressRecords, the loop).
Keeps(recs, n, out) ==
    out = [k \in 0 .. n |-> IF k = 0 THEN <<>>
                           ELSE IF recs[k].egress THEN Append(out[k - 1], recs[k]) ELSE out[k - 1]]

\* The loop keeps some (egressRecords).
LEMMA EgressKeeps ==
    ASSUME NEW recs, Len(recs) \in Nat
    PROVE  \E out : Keeps(recs, Len(recs), out) /\ Egress(recs) = out[Len(recs)]
<1> DEFINE T == {n \in Nat : \E out : Keeps(recs, n, out)}
<1>1. 0 \in T
  <2> DEFINE out == [k \in 0 .. 0 |-> <<>>]
  <2>1. Keeps(recs, 0, out)
    BY DEF Keeps
  <2> QED BY <2>1
<1>2. ASSUME NEW n \in Nat, n \in T PROVE n + 1 \in T
  <2>1. PICK g : Keeps(recs, n, g)
    BY <1>2
  <2> DEFINE h == [k \in 0 .. n + 1 |-> IF k = n + 1 THEN IF recs[k].egress THEN Append(g[n], recs[k]) ELSE g[n]
                                       ELSE g[k]]
  <2>2. ASSUME NEW k \in 0 .. n + 1
        PROVE  h[k] = IF k = 0 THEN <<>>
                      ELSE IF recs[k].egress THEN Append(h[k - 1], recs[k]) ELSE h[k - 1]
    <3>1. CASE k = 0
      BY <2>1, <3>1 DEF Keeps
    <3>2. CASE k = n + 1
      BY <3>2
    <3>3. CASE k # 0 /\ k # n + 1
      <4>1. k \in 0 .. n /\ k - 1 \in 0 .. n + 1 /\ k - 1 # n + 1
        BY <3>3
      <4>2. h[k] = g[k] /\ h[k - 1] = g[k - 1]
        BY <3>3, <4>1
      <4>3. g[k] = IF recs[k].egress THEN Append(g[k - 1], recs[k]) ELSE g[k - 1]
        BY <2>1, <3>3, <4>1 DEF Keeps
      <4> QED BY <3>3, <4>2, <4>3
    <3> QED BY <3>1, <3>2, <3>3
  <2>3. h = [k \in 0 .. n + 1 |-> h[k]]
    OBVIOUS
  <2> HIDE DEF h
  <2>4. Keeps(recs, n + 1, h)
    BY <2>2, <2>3 DEF Keeps
  <2> QED BY <2>4
<1>3. Len(recs) \in T
  <2> HIDE DEF T
  <2> QED BY <1>1, <1>2, Counting
<1>4. \E out : Keeps(recs, Len(recs), out)
  BY <1>3
<1> DEFINE W == CHOOSE out : out = [k \in 0 .. Len(recs) |->
                                      IF k = 0 THEN <<>>
                                      ELSE IF recs[k].egress THEN Append(out[k - 1], recs[k]) ELSE out[k - 1]]
<1>5. Egress(recs) = W[Len(recs)]
  BY DEF Egress
<1>6. Keeps(recs, Len(recs), W)
  BY <1>4 DEF Keeps
<1> HIDE DEF W
<1> QED BY <1>5, <1>6

\* kept holds the egress records at the places at of the first n, in their order.
Selected(recs, n, kept, at) ==
    /\ kept = [k \in 1 .. Len(kept) |-> recs[at[k]]] /\ Len(kept) \in Nat
    /\ at \in [1 .. Len(kept) -> 1 .. n]
    /\ \A k \in 1 .. Len(kept) : recs[at[k]].egress
    /\ \A k, l \in 1 .. Len(kept) : k < l => at[k] < at[l]

\* The records kept are egress records in the order they came in (egressRecords).
LEMMA EgressSelects ==
    ASSUME NEW R, NEW recs \in Seq(R)
    PROVE  Egress(recs) \in Seq(R) /\ \E at : Selected(recs, Len(recs), Egress(recs), at)
<1>1. Len(recs) \in Nat /\ \A k \in 1 .. Len(recs) : recs[k] \in R
  BY LenProperties, ElementOfSeq
<1>2. PICK out : Keeps(recs, Len(recs), out) /\ Egress(recs) = out[Len(recs)]
  BY <1>1, EgressKeeps
<1>3. /\ out[0] = <<>>
      /\ \A k \in 1 .. Len(recs) : out[k] = IF recs[k].egress THEN Append(out[k - 1], recs[k]) ELSE out[k - 1]
  <2> DEFINE n == Len(recs)
             next(k) == IF recs[k].egress THEN Append(out[k - 1], recs[k]) ELSE out[k - 1]
  <2>1. out = [k \in 0 .. n |-> IF k = 0 THEN <<>> ELSE next(k)]
    BY <1>2 DEF Keeps
  <2>2. n \in Nat
    BY <1>1
  <2> HIDE DEF n, next
  <2>3. out[0] = <<>> /\ \A k \in 1 .. n : out[k] = next(k)
    BY <2>1, <2>2
  <2> QED BY <2>3 DEF n, next
<1> DEFINE T == {n \in Nat : n <= Len(recs) => /\ out[n] \in Seq(R)
                                               /\ \E at : Selected(recs, n, out[n], at)}
<1>4. 0 \in T
  <2> DEFINE none == [k \in 1 .. 0 |-> 1]
  <2>1. Len(<<>>) = 0 /\ <<>> \in Seq(R)
    OBVIOUS
  <2>2. none \in [1 .. 0 -> 1 .. 0]
    OBVIOUS
  <2>3. <<>> = [k \in 1 .. Len(<<>>) |-> recs[none[k]]]
    <3> HIDE DEF none
    <3>1. <<>> \in Seq(R) /\ Len(<<>>) = 0
      OBVIOUS
    <3>2. <<>> = [k \in 1 .. 0 |-> <<>>[k]]
      OBVIOUS
    <3> QED BY <3>1, <3>2
  <2> HIDE DEF none
  <2>4. Selected(recs, 0, <<>>, none)
    BY <2>1, <2>2, <2>3 DEF Selected
  <2> QED BY <1>3, <2>1, <2>4
<1>5. ASSUME NEW n \in Nat, n \in T PROVE n + 1 \in T
  <2> SUFFICES ASSUME n + 1 <= Len(recs)
               PROVE  out[n + 1] \in Seq(R) /\ \E at : Selected(recs, n + 1, out[n + 1], at)
    OBVIOUS
  <2>1. out[n] \in Seq(R) /\ \E at : Selected(recs, n, out[n], at)
    BY <1>1, <1>5
  <2>2. PICK at : Selected(recs, n, out[n], at)
    BY <2>1
  <2>3. n + 1 \in 1 .. Len(recs) /\ recs[n + 1] \in R
    BY <1>1
  <2>4. out[n + 1] = IF recs[n + 1].egress THEN Append(out[n], recs[n + 1]) ELSE out[n]
    BY <1>3, <2>3
  <2> DEFINE kept == out[n]
             len == Len(out[n])
  <2>5. CASE ~recs[n + 1].egress
    <3>1. Selected(recs, n + 1, out[n], at)
      BY <2>2 DEF Selected
    <3> QED BY <2>1, <2>4, <2>5, <3>1
  <2>6. CASE recs[n + 1].egress
    <3> DEFINE longer == Append(out[n], recs[n + 1])
               on == [k \in 1 .. len + 1 |-> IF k = len + 1 THEN n + 1 ELSE at[k]]
    <3>1. /\ longer \in Seq(R) /\ Len(longer) = len + 1 /\ longer[len + 1] = recs[n + 1]
          /\ \A k \in 1 .. len : longer[k] = out[n][k]
          /\ len \in Nat /\ longer = [k \in 1 .. Len(longer) |-> longer[k]]
      BY <2>1, <2>3
    <3> HIDE DEF longer
    <3>2. \A k \in 1 .. len : out[n][k] = recs[at[k]] /\ at[k] \in 1 .. n /\ recs[at[k]].egress
      BY <2>2 DEF Selected
    <3>3. ASSUME NEW k \in 1 .. len + 1
          PROVE  longer[k] = recs[on[k]] /\ recs[on[k]].egress /\ on[k] \in 1 .. n + 1
      <4>1. CASE k = len + 1
        BY <2>6, <3>1, <4>1
      <4>2. CASE k # len + 1
        <5>1. k \in 1 .. len /\ on[k] = at[k]
          BY <3>1, <4>2
        <5>2. longer[k] = out[n][k] /\ out[n][k] = recs[at[k]] /\ at[k] \in 1 .. n /\ recs[at[k]].egress
          BY <3>1, <3>2, <5>1
        <5> HIDE DEF on
        <5> QED BY <5>1, <5>2
      <4> QED BY <4>1, <4>2
    <3>4. ASSUME NEW k \in 1 .. len + 1, NEW l \in 1 .. len + 1, k < l
          PROVE  on[k] < on[l]
      <4>1. k \in 1 .. len /\ on[k] = at[k] /\ at[k] \in 1 .. n
        BY <3>1, <3>2, <3>4
      <4>2. CASE l = len + 1
        BY <4>1, <4>2
      <4>3. CASE l # len + 1
        <5>1. l \in 1 .. len /\ on[l] = at[l]
          BY <3>1, <4>3
        <5>2. at[k] < at[l]
          BY <2>2, <3>4, <4>1, <5>1 DEF Selected
        <5> HIDE DEF on
        <5> QED BY <4>1, <5>1, <5>2
      <4> QED BY <4>2, <4>3
    <3>5. on \in [1 .. len + 1 -> 1 .. n + 1]
      <4>1. on = [k \in 1 .. len + 1 |-> on[k]] /\ \A k \in 1 .. len + 1 : on[k] \in 1 .. n + 1
        BY <3>3
      <4> HIDE DEF on
      <4> QED BY <4>1
    <3> HIDE DEF on
    <3>6. Selected(recs, n + 1, longer, on)
      BY <3>1, <3>3, <3>4, <3>5 DEF Selected
    <3> QED BY <2>4, <2>6, <3>1, <3>6 DEF longer
  <2> QED BY <2>5, <2>6
<1>6. Len(recs) \in T
  <2> HIDE DEF T
  <2> QED BY <1>1, <1>4, <1>5, Counting
<1> QED BY <1>2, <1>6

-----------------------------------------------------------------------------
(* What the routers write.                                                 *)

Record == [hop : Nat, egress : BOOLEAN, by : Nat, over : Nat]

\* Every AS of a path has a hop field, whether segments meet there or not (SCION's path
\* type, as convert.go takes it).
LEMMA EveryAsHasFields ==
    ASSUME NEW s \in Shapes
    PROVE  /\ HopFields(s) \in Nat /\ LastAs(s) \in Nat \ {0}
           /\ \A a \in 0 .. LastAs(s) : /\ FieldsOf(s, a) # {}
                                        /\ First(FieldsOf(s, a)) \in FieldsOf(s, a)
                                        /\ Final(FieldsOf(s, a)) \in FieldsOf(s, a)
<1> DEFINE l1 == s.len[1]  l2 == s.len[2]  l3 == s.len[3]  h == HopFields(s)
           as(i) == i - (IF ~s.peer /\ l2 > 0 /\ i >= l1 THEN 1 ELSE 0)
                      - (IF l3 > 0 /\ i >= l1 + l2 THEN 1 ELSE 0)
<1>1. /\ l1 \in Nat \ {0} /\ l2 \in Nat /\ l3 \in Nat /\ s.peer \in BOOLEAN
      /\ l2 = 0 => l3 = 0 /\ ~s.peer /\ l1 >= 2
      /\ s.peer => l3 = 0 /\ l2 >= 1
      /\ ~s.peer /\ l2 > 0 => l1 >= 2 /\ l2 >= 2
      /\ l3 = 0 \/ l3 >= 2
      /\ h = l1 + l2 + l3
  BY Lengths DEF HopFields
<1>2. LastAs(s) = as(h - 1) /\ \A i \in 0 .. h - 1 : AsAt(s, i) = as(i)
  BY DEF LastAs, AsAt
<1> HIDE DEF l1, l2, l3, h
<1>3. h \in Nat \ {0} /\ LastAs(s) \in Nat \ {0}
  BY <1>1, <1>2
<1>4. ASSUME NEW a \in 0 .. LastAs(s) PROVE \E i \in 0 .. h - 1 : as(i) = a
  <2>1. a \in 0 .. h - 1 /\ a + 1 \in Nat /\ a + 2 \in Nat
    BY <1>1, <1>2, <1>3
  <2>2. CASE as(a) = a
    BY <2>1, <2>2
  <2>3. CASE as(a) # a /\ as(a + 1) = a
    <3>1. a + 1 \in 0 .. h - 1
      BY <1>1, <1>2, <1>3, <2>1, <2>3
    <3> HIDE DEF as
    <3> QED BY <2>3, <3>1
  <2>4. CASE as(a) # a /\ as(a + 1) # a
    <3>1. as(a + 2) = a /\ a + 2 \in 0 .. h - 1
      BY <1>1, <1>2, <1>3, <2>1, <2>4
    <3> HIDE DEF as
    <3> QED BY <3>1
  <2> QED BY <2>2, <2>3, <2>4
<1>5. ASSUME NEW a \in 0 .. LastAs(s)
      PROVE  FieldsOf(s, a) # {} /\ FieldsOf(s, a) \subseteq 0 .. h - 1
  <2>1. PICK i \in 0 .. h - 1 : as(i) = a
    BY <1>4
  <2>2. AsAt(s, i) = a
    BY <1>2, <2>1
  <2> QED BY <2>2 DEF FieldsOf, h
<1>6. h - 1 \in Nat
  BY <1>3
<1> QED BY <1>3, <1>5, <1>6, Extremes DEF h

OfAs(s, a, by, over, r) ==
    /\ r.by = by /\ r.hop \in FieldsOf(s, a)
    /\ r.egress => over # 0 /\ r.over = over

\* The routers of an AS write records of hop fields of their own, at most one of them as
\* the packet leaves, and none if it goes no further.
LEMMA WrittenByAs ==
    ASSUME NEW s \in Shapes, NEW a \in 0 .. LastAs(s), NEW by \in Nat, NEW over \in Nat,
           NEW w \in Written(s, a, by, over)
    PROVE  /\ w \in Seq(Record) /\ Len(w) \in 0 .. 2
           /\ \A i \in 1 .. Len(w) : OfAs(s, a, by, over, w[i])
           /\ \A i, j \in 1 .. Len(w) : w[i].egress /\ w[j].egress => i = j
<1> DEFINE in  == [hop |-> First(FieldsOf(s, a)), egress |-> FALSE, by |-> by, over |-> 0]
           out == [hop |-> Final(FieldsOf(s, a)), egress |-> TRUE, by |-> by, over |-> over]
<1>1. First(FieldsOf(s, a)) \in FieldsOf(s, a) /\ Final(FieldsOf(s, a)) \in FieldsOf(s, a)
  BY EveryAsHasFields
<1>2. FieldsOf(s, a) \subseteq Nat
  BY EveryAsHasFields DEF FieldsOf
<1>3. /\ in \in Record /\ in.by = by /\ in.hop \in FieldsOf(s, a) /\ in.egress = FALSE
      /\ out \in Record /\ out.by = by /\ out.hop \in FieldsOf(s, a) /\ out.egress = TRUE
      /\ out.over = over
      /\ OfAs(s, a, by, over, in) /\ (over # 0 => OfAs(s, a, by, over, out))
  BY <1>1, <1>2 DEF Record, OfAs
<1>4. w \in {<<>>, <<in>>} \cup (IF over = 0 THEN {} ELSE {<<out>>, <<in, out>>})
  BY DEF Written
<1> HIDE DEF in, out
<1>5. CASE w = <<>>
  BY <1>5
<1>6. CASE w = <<in>>
  BY <1>3, <1>6
<1>7. CASE w = <<out>> /\ over # 0
  BY <1>3, <1>7
<1>8. CASE w = <<in, out>> /\ over # 0
  <2>1. w \in Seq(Record) /\ Len(w) = 2 /\ w[1] = in /\ w[2] = out
    BY <1>3, <1>8
  <2> QED BY <1>3, <1>8, <2>1
<1> QED BY <1>4, <1>5, <1>6, <1>7, <1>8

-----------------------------------------------------------------------------
(* A stack of records, of a way there or back of shape s, whose packet has *)
(* been through n of the ASes on its way.                                  *)

\* The place on the way of the AS that wrote record r, and the link after that place.
Place(s, back, r) == IF back THEN LastAs(s) - r.by ELSE r.by
LinkAfter(s, back, a) == IF back THEN LastAs(s) - a ELSE a + 1

Stack(s, back, stack, n) ==
    /\ stack \in Seq(Record)
    /\ \A i \in 1 .. Len(stack) :
          /\ Place(s, back, stack[i]) \in 0 .. n - 1
          /\ stack[i].hop \in FieldsOf(s, Place(s, back, stack[i]))
          /\ stack[i].egress => /\ Place(s, back, stack[i]) < LastAs(s)
                                /\ stack[i].over = LinkAfter(s, back, Place(s, back, stack[i]))
    /\ \A i, j \in 1 .. Len(stack) :
          i < j /\ stack[i].egress /\ stack[j].egress =>
              Place(s, back, stack[i]) < Place(s, back, stack[j])

\* Before the packet has been anywhere its stack is empty (Probe, the request).
LEMMA EmptyStack == ASSUME NEW s \in Shapes, NEW back \in BOOLEAN PROVE Stack(s, back, <<>>, 0)
BY DEF Stack

\* Going on without a record changes nothing (an AS that does not take part).
LEMMA StackStays ==
    ASSUME NEW s, NEW back, NEW stack, NEW n \in Nat, Stack(s, back, stack, n)
    PROVE  Stack(s, back, stack, n + 1)
<1>1. 0 .. n - 1 \subseteq 0 .. (n + 1) - 1
  OBVIOUS
<1> QED BY <1>1 DEF Stack

\* What the next AS on the way writes goes to the end of the stack, and that AS writes
\* no more than one record of a link it sends the packet over.
LEMMA StackGrows ==
    ASSUME NEW s \in Shapes, NEW back \in BOOLEAN, NEW a \in 0 .. LastAs(s),
           NEW stack, Stack(s, back, stack, a),
           NEW by \in Nat, by = IF back THEN LastAs(s) - a ELSE a,
           NEW over \in Nat, over = IF a = LastAs(s) THEN 0 ELSE LinkAfter(s, back, a),
           NEW w \in Written(s, a, by, over)
    PROVE  Stack(s, back, stack \o w, a + 1)
<1> DEFINE long == stack \o w  m == Len(stack)
<1>1. /\ w \in Seq(Record) /\ Len(w) \in 0 .. 2
      /\ \A i \in 1 .. Len(w) : OfAs(s, a, by, over, w[i])
      /\ \A i, j \in 1 .. Len(w) : w[i].egress /\ w[j].egress => i = j
  BY WrittenByAs
<1>2. stack \in Seq(Record) /\ m \in Nat /\ LastAs(s) \in Nat \ {0}
  BY EveryAsHasFields, LenProperties DEF Stack
<1>3. /\ long \in Seq(Record) /\ Len(long) = m + Len(w)
      /\ \A i \in 1 .. m : long[i] = stack[i]
      /\ \A i \in m + 1 .. m + Len(w) : long[i] = w[i - m]
  <2>1. /\ long \in Seq(Record) /\ Len(long) = m + Len(w)
        /\ \A i \in 1 .. Len(stack) + Len(w) :
              long[i] = IF i <= Len(stack) THEN stack[i] ELSE w[i - Len(stack)]
    BY <1>1, <1>2, ConcatProperties
  <2> HIDE DEF long
  <2> QED BY <1>1, <1>2, <2>1
<1> HIDE DEF long
<1>4. ASSUME NEW i \in 1 .. m
      PROVE  /\ Place(s, back, long[i]) \in 0 .. a - 1
             /\ long[i].hop \in FieldsOf(s, Place(s, back, long[i]))
             /\ long[i].egress => /\ Place(s, back, long[i]) < LastAs(s)
                                  /\ long[i].over = LinkAfter(s, back, Place(s, back, long[i]))
  BY <1>3 DEF Stack
<1>5. ASSUME NEW i \in m + 1 .. m + Len(w)
      PROVE  /\ Place(s, back, long[i]) = a
             /\ long[i].hop \in FieldsOf(s, a)
             /\ long[i].egress => a < LastAs(s) /\ long[i].over = LinkAfter(s, back, a)
  <2> DEFINE j == i - m
  <2>1. j \in 1 .. Len(w) /\ long[i] = w[j]
    BY <1>1, <1>2, <1>3
  <2> HIDE DEF j
  <2>2. OfAs(s, a, by, over, long[i])
    BY <1>1, <2>1
  <2>3. long[i].by = by /\ long[i].hop \in FieldsOf(s, a)
    BY <2>2 DEF OfAs
  <2>4. Place(s, back, long[i]) = a
    BY <1>2, <2>3 DEF Place
  <2>5. long[i].egress => over # 0 /\ long[i].over = over
    BY <2>2 DEF OfAs
  <2>6. over # 0 => a < LastAs(s) /\ over = LinkAfter(s, back, a)
    BY <1>2
  <2> QED BY <2>3, <2>4, <2>5, <2>6
<1>6. ASSUME NEW i \in 1 .. Len(long), NEW j \in 1 .. Len(long), i < j, long[i].egress, long[j].egress
      PROVE  Place(s, back, long[i]) < Place(s, back, long[j])
  <2>1. i \in 1 .. m \/ i \in m + 1 .. m + Len(w)
    BY <1>1, <1>2, <1>3
  <2>2. j \in 1 .. m \/ j \in m + 1 .. m + Len(w)
    BY <1>1, <1>2, <1>3
  <2>3. CASE i \in 1 .. m /\ j \in 1 .. m
    BY <1>3, <1>6, <2>3 DEF Stack
  <2>4. CASE i \in 1 .. m /\ j \in m + 1 .. m + Len(w)
    BY <1>2, <1>4, <1>5, <2>4
  <2>5. CASE i \in m + 1 .. m + Len(w)
    <3>1. j \in m + 1 .. m + Len(w) /\ i - m \in 1 .. Len(w) /\ j - m \in 1 .. Len(w) /\ i - m # j - m
      BY <1>1, <1>2, <1>6, <2>2, <2>5
    <3> QED BY <1>1, <1>3, <1>6, <2>5, <3>1
  <2> QED BY <2>1, <2>2, <2>3, <2>4, <2>5
<1>7. ASSUME NEW i \in 1 .. Len(long)
      PROVE  /\ Place(s, back, long[i]) \in 0 .. (a + 1) - 1
             /\ long[i].hop \in FieldsOf(s, Place(s, back, long[i]))
             /\ long[i].egress => /\ Place(s, back, long[i]) < LastAs(s)
                                  /\ long[i].over = LinkAfter(s, back, Place(s, back, long[i]))
  <2>1. i \in 1 .. m \/ i \in m + 1 .. m + Len(w)
    BY <1>1, <1>2, <1>3
  <2> QED BY <1>4, <1>5, <2>1
<1> QED BY <1>3, <1>6, <1>7 DEF Stack, long

\* If the records of the links are as many as the links, each is of its own: the k-th in
\* the stack was written by the AS at place k - 1 of the way (buildVM, the length check).
LEMMA AllLinksOrNone ==
    ASSUME NEW s \in Shapes, NEW back \in BOOLEAN, NEW stack, NEW ia,
           Stack(s, back, stack, LastAs(s) + 1),
           \A i \in 0 .. HopFields(s) - 1 : ia[i] = IF back THEN LastAs(s) - AsAt(s, i) ELSE AsAt(s, i),
           Len(Egress(Records(stack, ia))) = LastAs(s)
    PROVE  \A k \in 1 .. LastAs(s) :
              /\ Egress(Records(stack, ia))[k].over = LinkAfter(s, back, k - 1)
              /\ Egress(Records(stack, ia))[k].ia = Egress(Records(stack, ia))[k].by
<1> DEFINE recs == Records(stack, ia)  kept == Egress(recs)  links == LastAs(s)
           R == {recs[i] : i \in 1 .. Len(stack)}
<1>1. stack \in Seq(Record) /\ Len(stack) \in Nat /\ links \in Nat \ {0}
  BY EveryAsHasFields, LenProperties DEF Stack
<1>2. \A i \in 1 .. Len(stack) : recs[i] = [ia |-> ia[stack[i].hop], egress |-> stack[i].egress,
                                          by |-> stack[i].by, over |-> stack[i].over]
  BY DEF Records
<1>3. recs \in Seq(R) /\ Len(recs) = Len(stack)
  <2>1. recs = [i \in 1 .. Len(stack) |-> recs[i]]
    BY DEF Records
  <2> HIDE DEF recs
  <2> QED BY <1>1, <2>1, IsASeq
<1>4. PICK at : Selected(recs, Len(recs), kept, at)
  <2> HIDE DEF recs, R
  <2> QED BY <1>3, EgressSelects
<1> HIDE DEF recs, kept, R, links
<1>5. Len(kept) = links
  BY DEF kept, recs, links
<1>6. /\ at \in [1 .. links -> 1 .. Len(stack)]
      /\ \A k \in 1 .. links : kept[k] = recs[at[k]] /\ recs[at[k]].egress
      /\ \A k, l \in 1 .. links : k < l => at[k] < at[l]
  BY <1>3, <1>4, <1>5 DEF Selected
<1> DEFINE f == [k \in 1 .. links |-> Place(s, back, stack[at[k]]) + 1]
<1>7. ASSUME NEW k \in 1 .. links
      PROVE  /\ at[k] \in 1 .. Len(stack) /\ stack[at[k]].egress
             /\ Place(s, back, stack[at[k]]) \in 0 .. links - 1
             /\ stack[at[k]].over = LinkAfter(s, back, Place(s, back, stack[at[k]]))
             /\ stack[at[k]].hop \in FieldsOf(s, Place(s, back, stack[at[k]]))
             /\ kept[k].over = stack[at[k]].over /\ kept[k].by = stack[at[k]].by
             /\ kept[k].ia = ia[stack[at[k]].hop]
  <2>1. at[k] \in 1 .. Len(stack) /\ stack[at[k]].egress
    <3>1. at[k] \in 1 .. Len(stack) /\ recs[at[k]].egress
      BY <1>6
    <3>2. recs[at[k]] = [ia |-> ia[stack[at[k]].hop], egress |-> stack[at[k]].egress,
                         by |-> stack[at[k]].by, over |-> stack[at[k]].over]
      BY <1>2, <3>1
    <3> QED BY <3>1, <3>2
  <2>2. kept[k] = [ia |-> ia[stack[at[k]].hop], egress |-> stack[at[k]].egress,
                   by |-> stack[at[k]].by, over |-> stack[at[k]].over]
    BY <1>2, <1>6, <2>1
  <2>3. /\ Place(s, back, stack[at[k]]) \in 0 .. LastAs(s) /\ Place(s, back, stack[at[k]]) < LastAs(s)
        /\ stack[at[k]].hop \in FieldsOf(s, Place(s, back, stack[at[k]]))
        /\ stack[at[k]].over = LinkAfter(s, back, Place(s, back, stack[at[k]]))
    BY <1>1, <2>1 DEF Stack, links
  <2> QED BY <1>1, <2>1, <2>2, <2>3 DEF links
<1>8. f \in [1 .. links -> 1 .. links]
  BY <1>1, <1>7
<1>9. ASSUME NEW k \in 1 .. links, NEW l \in 1 .. links, k < l PROVE f[k] < f[l]
  <2>1. at[k] < at[l]
    BY <1>6, <1>9
  <2>2. Place(s, back, stack[at[k]]) < Place(s, back, stack[at[l]])
    BY <1>7, <2>1 DEF Stack
  <2> QED BY <1>7, <2>2
<1>10. \A k \in 1 .. links : f[k] = k
  <2> HIDE DEF f
  <2> QED BY <1>1, <1>8, <1>9, Filled
<1>11. ASSUME NEW k \in 1 .. links
       PROVE  kept[k].over = LinkAfter(s, back, k - 1) /\ kept[k].ia = kept[k].by
  <2>1. Place(s, back, stack[at[k]]) = k - 1
    BY <1>7, <1>10
  <2>2. kept[k].over = LinkAfter(s, back, k - 1)
    BY <1>7, <2>1
  <2>3. stack[at[k]].hop \in 0 .. HopFields(s) - 1 /\ AsAt(s, stack[at[k]].hop) = k - 1
    BY <1>7, <2>1 DEF FieldsOf
  <2>4. ia[stack[at[k]].hop] = IF back THEN LastAs(s) - (k - 1) ELSE k - 1
    BY <2>3
  <2>5. stack[at[k]].by \in Nat
    <3>1. at[k] \in 1 .. Len(stack)
      BY <1>7
    <3>2. stack[at[k]] \in Record
      BY <1>1, <3>1, ElementOfSeq
    <3> QED BY <3>2 DEF Record
  <2>6. stack[at[k]].by = IF back THEN LastAs(s) - (k - 1) ELSE k - 1
    BY <1>1, <2>1, <2>5 DEF Place, links
  <2> QED BY <1>7, <2>2, <2>4, <2>6
<1> QED BY <1>11 DEF kept, recs, links

-----------------------------------------------------------------------------
(* The invariant.                                                          *)

\* The stacks of a packet on path p.
FwdStack(p, stack, n) == Stack(Shape[p], FALSE, stack, n)
RevStack(p, stack, n) == Stack(Reversed(Shape[p]), TRUE, stack, n)

Packet == [pc : {"there", "back"}, path : Paths, at : Nat, fwd : Seq(Record), rev : Seq(Record)]

\* What the packet carries was written by the ASes it has been through, in their order;
\* all of the way there, once it is on its way back.
CarriedIn(q) ==
    /\ q \in Packet /\ q.at \in 0 .. Links(q.path)
    /\ q.pc = "there" => FwdStack(q.path, q.fwd, q.at) /\ q.rev = <<>>
    /\ q.pc = "back" => /\ FwdStack(q.path, q.fwd, Links(q.path) + 1)
                        /\ RevStack(q.path, q.rev, Links(q.path) - q.at)

Carried == pkt # NoPkt => CarriedIn(pkt)

Typed ==
    /\ offer \subseteq Paths
    /\ pin \in Paths \cup {NoPath}
    /\ shown.path \in Paths \cup {NoPath}

Inv == Typed /\ Carried /\ HopsOnTheirLinks /\ PinIsKept

\* The shape of a path, there and back: as many links either way, and the ASs that the
\* code takes the hop fields for (FwdPathMeta, RevPathMeta).
LEMMA Ways ==
    ASSUME NEW p \in Paths
    PROVE  /\ Shape[p] \in Shapes /\ Reversed(Shape[p]) \in Shapes
           /\ Links(p) = LastAs(Shape[p]) /\ Links(p) = LastAs(Reversed(Shape[p]))
           /\ Links(p) \in Nat \ {0}
           /\ HopFields(Reversed(Shape[p])) = HopFields(Shape[p])
<1>1. Shape[p] \in Shapes
  BY PathAssumption
<1> DEFINE s == Shape[p]
<1> HIDE DEF s
<1>2. s \in Shapes
  BY <1>1 DEF s
<1>3. HopFields(Reversed(s)) = HopFields(s) /\ LastAs(Reversed(s)) = LastAs(s)
  BY <1>2, Lengths, ReversedLengths DEF HopFields, LastAs, AsAt
<1>4. Reversed(s) \in Shapes /\ LastAs(s) \in Nat \ {0}
  BY <1>2, ReversedIsShape, EveryAsHasFields
<1> QED BY <1>2, <1>3, <1>4 DEF s, Links

\* The hops of the records of a path (buildVM, with the ASes of convert.go).
Made(p, fwd, rev) ==
    Hops(p, Records(fwd, [i \in 0 .. HopFields(Shape[p]) - 1 |-> FwdIA(Shape[p], i)]),
            Records(rev, [i \in 0 .. HopFields(Shape[p]) - 1 |-> RevIA(Shape[p], i)]))

\* What buildVM makes of two complete stacks is nothing, or one hop for each link of the
\* path, of the AS before the link or of the AS after it, whichever way it is taken from.
LEMMA HopsAreRight ==
    ASSUME NEW p \in Paths, NEW fwd, NEW rev,
           FwdStack(p, fwd, Links(p) + 1), RevStack(p, rev, Links(p)),
           Made(p, fwd, rev) # <<>>
    PROVE  /\ Len(Made(p, fwd, rev)) = Links(p)
           /\ \A k \in 1 .. Links(p) : /\ Made(p, fwd, rev)[k].over = k
                                       /\ Made(p, fwd, rev)[k].ia = Made(p, fwd, rev)[k].by
<1> DEFINE s == Shape[p]  r == Reversed(Shape[p])  n == Links(p)  fields == 0 .. HopFields(Shape[p]) - 1
           fia == [i \in fields |-> FwdIA(s, i)]  ria == [i \in fields |-> RevIA(s, i)]
           F == Egress(Records(fwd, fia))  G == Egress(Records(rev, ria))  hops == Made(p, fwd, rev)
<1>1. /\ s \in Shapes /\ r \in Shapes /\ n = LastAs(s) /\ n = LastAs(r) /\ n \in Nat \ {0}
      /\ HopFields(r) = HopFields(s)
  BY Ways
<1>2. hops = IF Len(F) = n THEN F ELSE IF Len(G) = n THEN Reverse(G) ELSE <<>>
  BY DEF Made, Hops
<1> HIDE DEF hops
<1>3. \A i \in fields : fia[i] = AsAt(s, i)
  BY <1>1, FwdIAIsRight
<1>4. \A i \in fields : ria[i] = LastAs(r) - AsAt(r, i)
  BY <1>1, RevIAIsRight
<1>5. Stack(s, FALSE, fwd, LastAs(s) + 1) /\ Stack(r, TRUE, rev, LastAs(r) + 1)
  <2>1. Stack(s, FALSE, fwd, n + 1) /\ Stack(r, TRUE, rev, n)
    BY DEF FwdStack, RevStack
  <2> HIDE DEF s, r, n
  <2> QED BY <1>1, <2>1, StackStays
<1>6. 0 .. HopFields(r) - 1 = fields /\ 0 .. HopFields(s) - 1 = fields
  BY <1>1
<1> HIDE DEF fia, ria, s, r, n, fields
<1>7. ASSUME Len(F) = n
      PROVE  \A k \in 1 .. n : F[k].over = k /\ F[k].ia = F[k].by
  <2> DEFINE back == FALSE
  <2> HIDE DEF back
  <2>1. \A i \in 0 .. HopFields(s) - 1 : fia[i] = IF back THEN LastAs(s) - AsAt(s, i) ELSE AsAt(s, i)
    BY <1>3, <1>6 DEF back
  <2>2. Len(F) = LastAs(s)
    BY <1>1, <1>7
  <2>3. \A k \in 1 .. LastAs(s) : F[k].over = LinkAfter(s, back, k - 1) /\ F[k].ia = F[k].by
    <3>1. back \in BOOLEAN /\ Stack(s, back, fwd, LastAs(s) + 1)
      BY <1>5 DEF back
    <3>2. s \in Shapes
      BY <1>1
    <3> QED BY <2>1, <2>2, <3>1, <3>2, AllLinksOrNone
  <2> HIDE DEF F
  <2> QED BY <1>1, <2>3 DEF LinkAfter, back
<1>8. ASSUME Len(G) = n
      PROVE  \A k \in 1 .. n : G[k].over = n - k + 1 /\ G[k].ia = G[k].by
  <2> DEFINE back == TRUE
  <2> HIDE DEF back
  <2>1. \A i \in 0 .. HopFields(r) - 1 : ria[i] = IF back THEN LastAs(r) - AsAt(r, i) ELSE AsAt(r, i)
    BY <1>4, <1>6 DEF back
  <2>2. Len(G) = LastAs(r)
    BY <1>1, <1>8
  <2>3. \A k \in 1 .. LastAs(r) : G[k].over = LinkAfter(r, back, k - 1) /\ G[k].ia = G[k].by
    <3>1. back \in BOOLEAN /\ Stack(r, back, rev, LastAs(r) + 1)
      BY <1>5 DEF back
    <3>2. r \in Shapes
      BY <1>1
    <3> QED BY <2>1, <2>2, <3>1, <3>2, AllLinksOrNone
  <2> HIDE DEF G
  <2> QED BY <1>1, <2>3 DEF LinkAfter, back
<1> HIDE DEF F, G
<1>9. CASE Len(F) = n
  BY <1>2, <1>7, <1>9 DEF n, hops
<1>10. CASE Len(F) # n /\ Len(G) = n
  <2> DEFINE turned == [k \in 1 .. n |-> G[n - k + 1]]
  <2>1. hops = turned
    BY <1>2, <1>10 DEF Reverse
  <2>2. Len(turned) = n
    BY <1>1
  <2>3. ASSUME NEW k \in 1 .. n PROVE turned[k].over = k /\ turned[k].ia = turned[k].by
    <3>1. n - k + 1 \in 1 .. n /\ turned[k] = G[n - k + 1] /\ n - (n - k + 1) + 1 = k
      BY <1>1
    <3> QED BY <1>8, <1>10, <3>1
  <2> HIDE DEF turned
  <2> QED BY <2>1, <2>2, <2>3 DEF n, hops
<1>11. hops # <<>>
  BY DEF hops
<1> QED BY <1>2, <1>9, <1>10, <1>11

-----------------------------------------------------------------------------
(* Each action.                                                            *)

\* What the actions that leave the packet or what is shown alone need of the invariant.
LEMMA InvTyped == Inv => TypeOK
<1> SUFFICES ASSUME Inv PROVE TypeOK
  OBVIOUS
<1>1. offer \subseteq Paths /\ pin \in Paths \cup {NoPath} /\ shown.path \in Paths \cup {NoPath}
  BY DEF Inv, Typed
<1>2. ASSUME pkt # NoPkt
      PROVE  /\ pkt.path \in Paths /\ pkt.at \in 0 .. Links(pkt.path)
             /\ \A i \in 1 .. Len(pkt.fwd) : InRange(Shape[pkt.path], pkt.fwd[i].hop)
             /\ \A i \in 1 .. Len(pkt.rev) : InRange(Reversed(Shape[pkt.path]), pkt.rev[i].hop)
  <2> DEFINE p == pkt.path  s == Shape[pkt.path]  r == Reversed(Shape[pkt.path])
  <2>1. pkt \in Packet /\ pkt.at \in 0 .. Links(pkt.path)
    BY <1>2 DEF Inv, Carried, CarriedIn
  <2>2. p \in Paths /\ pkt.pc \in {"there", "back"}
    BY <2>1 DEF Packet
  <2>3. s \in Shapes /\ HopFields(r) = HopFields(s)
    BY <2>2, Ways
  <2>4. \E n : Stack(s, FALSE, pkt.fwd, n)
    BY <1>2, <2>2 DEF Inv, Carried, CarriedIn, FwdStack
  <2>5. pkt.rev = <<>> \/ \E n : Stack(r, TRUE, pkt.rev, n)
    BY <1>2, <2>2 DEF Inv, Carried, CarriedIn, RevStack
  <2> HIDE DEF s, r
  <2>6. ASSUME NEW i \in 1 .. Len(pkt.fwd) PROVE InRange(s, pkt.fwd[i].hop)
    <3>1. pkt.fwd[i].hop \in 0 .. HopFields(s) - 1
      BY <2>4 DEF Stack, FieldsOf
    <3> QED BY <2>3, <3>1, FwdIAIsRight
  <2>7. ASSUME NEW i \in 1 .. Len(pkt.rev) PROVE InRange(r, pkt.rev[i].hop)
    <3>1. pkt.rev # <<>>
      <4>1. Len(<<>>) = 0
        OBVIOUS
      <4> QED BY <4>1
    <3>2. pkt.rev[i].hop \in 0 .. HopFields(s) - 1
      BY <2>3, <2>5, <3>1 DEF Stack, FieldsOf
    <3> QED BY <2>3, <3>2, RevIAIsRight DEF r, s
  <2> QED BY <2>1, <2>2, <2>6, <2>7 DEF r, s
<1> QED BY <1>1, <1>2 DEF TypeOK

LEMMA InvInit == Init => Inv
<1> SUFFICES ASSUME Init PROVE Inv
  OBVIOUS
<1>1. offer = {} /\ pin = NoPath /\ pkt = NoPkt /\ shown.path = NoPath /\ shown.hops = <<>>
  BY DEF Init, NoHops
<1>2. Len(shown.hops) = 0
  BY <1>1
<1> QED BY <1>1, <1>2 DEF Inv, Typed, Carried, HopsOnTheirLinks, PinIsKept

\* A session set anew, a probe lost and a path come or gone leave no packet, or the one
\* there was.
LEMMA QuietKeeps ==
    ASSUME Inv, Beacon \/ Set \/ Lost \/ UNCHANGED vars
    PROVE  Inv'
<1>1. CASE Beacon
  <2>1. UNCHANGED <<pin, pkt, shown>> /\ offer' \subseteq Paths
    BY <1>1 DEF Beacon, Inv, Typed
  <2> QED BY <2>1 DEF Inv, Typed, Carried, HopsOnTheirLinks, PinIsKept
<1>2. CASE Set
  <2>1. offer' = offer /\ pin' \in {NoPath} \cup Paths /\ pkt' = NoPkt
    BY <1>2 DEF Set
  <2>2. shown'.path = NoPath /\ shown'.hops = <<>>
    BY <1>2 DEF Set, NoHops
  <2>3. Len(shown'.hops) = 0
    BY <2>2
  <2> QED BY <2>1, <2>2, <2>3 DEF Inv, Typed, Carried, HopsOnTheirLinks, PinIsKept
<1>3. CASE Lost
  <2>1. UNCHANGED <<offer, pin, shown>> /\ pkt' = NoPkt
    BY <1>3 DEF Lost
  <2> QED BY <2>1 DEF Inv, Typed, Carried, HopsOnTheirLinks, PinIsKept
<1>4. CASE UNCHANGED vars
  BY <1>4 DEF vars, Inv, Typed, Carried, HopsOnTheirLinks, PinIsKept
<1> QED BY <1>1, <1>2, <1>3, <1>4

\* A probe starts with an empty packet, on the pinned path if there is a pin.
LEMMA ProbeKeeps ==
    ASSUME Inv, Probe
    PROVE  Inv'
<1>1. pkt = NoPkt /\ UNCHANGED <<offer, pin, shown>>
  BY DEF Probe
<1>2. PICK p \in Via : pkt' = [pc |-> "there", path |-> p, at |-> 0, fwd |-> <<>>, rev |-> <<>>]
  BY DEF Probe
<1>3. p \in Paths /\ (pin # NoPath => p = pin)
  BY <1>2 DEF Via, Inv, Typed
<1>4. /\ pkt'.pc = "there" /\ pkt'.path = p /\ pkt'.at = 0 /\ pkt'.fwd = <<>> /\ pkt'.rev = <<>>
      /\ pkt' \in Packet
  BY <1>2, <1>3 DEF Packet
<1>5. Shape[p] \in Shapes /\ Links(p) \in Nat \ {0}
  BY <1>3, Ways
<1>6. FwdStack(p, <<>>, 0)
  BY <1>5, EmptyStack DEF FwdStack
<1>7. Carried'
  <2> DEFINE q == pkt'
  <2>1. /\ q.pc = "there" /\ q.path = p /\ q.at = 0 /\ q.fwd = <<>> /\ q.rev = <<>>
        /\ q \in Packet
    BY <1>4
  <2> HIDE DEF q
  <2>2. 0 \in 0 .. Links(p)
    BY <1>5
  <2>3. FwdStack(q.path, q.fwd, q.at)
    BY <1>6, <2>1
  <2>4. CarriedIn(q)
    BY <2>1, <2>2, <2>3 DEF CarriedIn
  <2> QED BY <2>4 DEF Carried, q
<1>8. Typed' /\ HopsOnTheirLinks' /\ PinIsKept'
  BY <1>1, <1>3, <1>4 DEF Inv, Typed, HopsOnTheirLinks, PinIsKept
<1> QED BY <1>7, <1>8 DEF Inv

\* A packet that goes on, there or back, is of the path it was of.
LEMMA OnTheWay ==
    ASSUME Inv, pkt # NoPkt, pkt'.path = pkt.path, UNCHANGED <<offer, pin, shown>>, Carried'
    PROVE  Inv'
BY DEF Inv, Typed, HopsOnTheirLinks, PinIsKept

\* The next AS on the way there adds to the forward stack; the destination turns the
\* packet round.
LEMMA ThereKeeps ==
    ASSUME Inv, There
    PROVE  Inv'
<1> DEFINE p == pkt.path  s == Shape[p]  at == pkt.at  n == LastAs(Shape[p])
<1>1. pkt # NoPkt /\ pkt.pc = "there" /\ UNCHANGED <<offer, pin, shown>>
  BY DEF There, NoPkt
<1>2. pkt \in Packet /\ at \in 0 .. Links(p) /\ FwdStack(p, pkt.fwd, at) /\ pkt.rev = <<>>
  BY <1>1 DEF Inv, Carried, CarriedIn
<1>3. p \in Paths /\ at \in Nat
  BY <1>2 DEF Packet
<1>4. s \in Shapes /\ Reversed(s) \in Shapes /\ Links(p) = n /\ n \in Nat \ {0}
  BY <1>3, Ways
<1> DEFINE over == IF at = n THEN 0 ELSE at + 1
<1>5. PICK w \in Written(s, at, at, over) :
         pkt' = [pc |-> IF at = n THEN "back" ELSE "there", path |-> p,
                 at |-> IF at = n THEN at ELSE at + 1, fwd |-> pkt.fwd \o w, rev |-> pkt.rev]
  BY DEF There
<1>6. FwdStack(p, pkt.fwd \o w, at + 1)
  <2> DEFINE back == FALSE
  <2>1. Stack(s, back, pkt.fwd, at)
    BY <1>2 DEF FwdStack
  <2>2. at \in 0 .. LastAs(s)
    BY <1>2, <1>4
  <2>3. /\ back \in BOOLEAN /\ at = IF back THEN LastAs(s) - at ELSE at
        /\ over \in Nat /\ over = IF at = LastAs(s) THEN 0 ELSE LinkAfter(s, back, at)
    BY <1>3 DEF LinkAfter
  <2> HIDE DEF back, over, s, at
  <2>4. Stack(s, back, pkt.fwd \o w, at + 1)
    <3>1. at \in Nat
      BY <1>3
    <3> QED BY <1>4, <1>5, <2>1, <2>2, <2>3, <3>1, StackGrows
  <2> QED BY <2>4 DEF back, s, at, FwdStack
<1>7. pkt'.path = p /\ pkt'.fwd = pkt.fwd \o w /\ pkt'.rev = <<>>
  BY <1>2, <1>5
<1>8. pkt.fwd \o w \in Seq(Record) /\ <<>> \in Seq(Record)
  BY <1>6 DEF FwdStack, Stack
<1>9. CASE at = n
  <2>1. pkt'.pc = "back" /\ pkt'.at = at /\ pkt' \in Packet
    BY <1>2, <1>3, <1>5, <1>8, <1>9 DEF Packet
  <2>2. RevStack(p, <<>>, 0)
    BY <1>4, EmptyStack DEF RevStack
  <2>3. Carried'
    <3> DEFINE q == pkt'
    <3>1. /\ q.pc = "back" /\ q.at = at /\ q \in Packet /\ q.path = p /\ q.fwd = pkt.fwd \o w
          /\ q.rev = <<>> /\ Links(p) + 1 = at + 1 /\ Links(p) - at = 0
      BY <1>4, <1>7, <1>9, <2>1
    <3> HIDE DEF q
    <3>2. CarriedIn(q)
      BY <1>2, <1>6, <2>2, <3>1 DEF CarriedIn
    <3> QED BY <3>2 DEF Carried, q
  <2> QED BY <1>1, <1>7, <2>3, OnTheWay
<1>10. CASE at # n
  <2>1. pkt'.pc = "there" /\ pkt'.at = at + 1 /\ pkt' \in Packet
    BY <1>2, <1>3, <1>5, <1>8, <1>10 DEF Packet
  <2>2. at + 1 \in 0 .. Links(p)
    BY <1>2, <1>3, <1>4, <1>10
  <2>3. Carried'
    <3> DEFINE q == pkt'
    <3>1. /\ q.pc = "there" /\ q.at = at + 1 /\ q \in Packet /\ q.path = p /\ q.fwd = pkt.fwd \o w
          /\ q.rev = <<>>
      BY <1>7, <2>1
    <3> HIDE DEF q
    <3>2. CarriedIn(q)
      BY <1>6, <2>2, <3>1 DEF CarriedIn
    <3> QED BY <3>2 DEF Carried, q
  <2> QED BY <1>1, <1>7, <2>3, OnTheWay
<1> QED BY <1>9, <1>10

\* The next AS on the way back adds to the reverse stack.
LEMMA BackKeeps ==
    ASSUME Inv, Back
    PROVE  Inv'
<1> DEFINE p == pkt.path  r == Reversed(Shape[pkt.path])  at == pkt.at  n == LastAs(Shape[pkt.path])
<1>1. pkt # NoPkt /\ pkt.pc = "back" /\ at > 0 /\ UNCHANGED <<offer, pin, shown>>
  BY DEF Back, NoPkt
<1>2. /\ pkt \in Packet /\ at \in 0 .. Links(p) /\ RevStack(p, pkt.rev, Links(p) - at)
      /\ FwdStack(p, pkt.fwd, Links(p) + 1)
  BY <1>1 DEF Inv, Carried, CarriedIn
<1>3. p \in Paths /\ at \in Nat
  BY <1>2 DEF Packet
<1>4. r \in Shapes /\ Links(p) = n /\ LastAs(r) = n /\ n \in Nat \ {0}
  BY <1>3, Ways
<1>5. PICK w \in Written(r, n - at, at, at) :
         pkt' = [pc |-> "back", path |-> p, at |-> at - 1, fwd |-> pkt.fwd, rev |-> pkt.rev \o w]
  BY DEF Back
<1>6. RevStack(p, pkt.rev \o w, (n - at) + 1)
  <2> DEFINE back == TRUE  a == n - at
  <2>1. Stack(r, back, pkt.rev, a)
    BY <1>2, <1>4 DEF RevStack
  <2>2. a \in 0 .. LastAs(r) /\ LastAs(r) - a = at
    BY <1>2, <1>3, <1>4
  <2>3. /\ back \in BOOLEAN /\ at = IF back THEN LastAs(r) - a ELSE a
        /\ at \in Nat /\ at = IF a = LastAs(r) THEN 0 ELSE LinkAfter(r, back, a)
    BY <1>1, <1>3, <1>4, <2>2 DEF LinkAfter
  <2>4. w \in Written(r, a, at, at)
    OBVIOUS
  <2> HIDE DEF back, a, r, at
  <2>5. Stack(r, back, pkt.rev \o w, a + 1)
    BY <1>4, <2>1, <2>2, <2>3, <2>4, StackGrows
  <2> QED BY <2>5 DEF back, a, at, r, RevStack
<1>7. pkt'.path = p /\ pkt'.fwd = pkt.fwd /\ pkt'.rev = pkt.rev \o w /\ pkt'.pc = "back" /\ pkt'.at = at - 1
  BY <1>5
<1>8. pkt.rev \o w \in Seq(Record)
  BY <1>6 DEF RevStack, Stack
<1>9. pkt' \in Packet /\ at - 1 \in 0 .. Links(p) /\ (n - at) + 1 = Links(p) - (at - 1)
  BY <1>1, <1>2, <1>3, <1>4, <1>5, <1>8 DEF Packet
<1>10. Carried'
  <2> DEFINE q == pkt'
  <2>1. /\ q.pc = "back" /\ q.at = at - 1 /\ q \in Packet /\ q.path = p /\ q.fwd = pkt.fwd
        /\ q.rev = pkt.rev \o w
    BY <1>7, <1>9
  <2> HIDE DEF q
  <2>2. CarriedIn(q)
    BY <1>2, <1>6, <1>9, <2>1 DEF CarriedIn
  <2> QED BY <2>2 DEF Carried, q
<1> QED BY <1>1, <1>7, <1>10, OnTheWay

\* A packet that comes home shows nothing new, or the hops of its path.
LEMMA HomeKeeps ==
    ASSUME Inv, Home
    PROVE  Inv'
<1> DEFINE p == pkt.path  s == Shape[pkt.path]  fields == 0 .. HopFields(Shape[pkt.path]) - 1
           hops == Hops(p, Records(pkt.fwd, [i \in fields |-> FwdIA(s, i)]),
                           Records(pkt.rev, [i \in fields |-> RevIA(s, i)]))
<1>1. pkt # NoPkt /\ pkt.pc = "back" /\ pkt.at = 0 /\ UNCHANGED <<offer, pin>> /\ pkt' = NoPkt
  BY DEF Home, NoPkt
<1>2. pkt \in Packet /\ RevStack(p, pkt.rev, Links(p) - 0) /\ FwdStack(p, pkt.fwd, Links(p) + 1)
  BY <1>1 DEF Inv, Carried, CarriedIn
<1>3. p \in Paths
  BY <1>2 DEF Packet
<1>4. Links(p) \in Nat \ {0} /\ Links(p) - 0 = Links(p)
  BY <1>3, Ways
<1>5. shown' = shown \/ (hops # <<>> /\ shown' = [path |-> p, hops |-> hops])
  BY DEF Home
<1>6. Carried'
  BY <1>1 DEF Carried
<1>7. CASE shown' = shown
  BY <1>1, <1>6, <1>7 DEF Inv, Typed, HopsOnTheirLinks, PinIsKept
<1>8. CASE hops # <<>> /\ shown' = [path |-> p, hops |-> hops]
  <2>1. /\ Len(hops) = Links(p)
        /\ \A k \in 1 .. Len(hops) : hops[k].over = k /\ hops[k].ia = hops[k].by
    <3> DEFINE fwd == pkt.fwd  rev == pkt.rev
    <3>1. hops = Made(p, fwd, rev)
      BY DEF Made
    <3>2. p \in Paths /\ FwdStack(p, fwd, Links(p) + 1) /\ RevStack(p, rev, Links(p))
      BY <1>2, <1>3, <1>4
    <3> HIDE DEF hops, p, fwd, rev
    <3>3. Made(p, fwd, rev) # <<>>
      BY <1>8, <3>1
    <3>4. /\ Len(Made(p, fwd, rev)) = Links(p)
          /\ \A k \in 1 .. Links(p) : /\ Made(p, fwd, rev)[k].over = k
                                      /\ Made(p, fwd, rev)[k].ia = Made(p, fwd, rev)[k].by
      BY <3>2, <3>3, HopsAreRight
    <3> QED BY <3>1, <3>4
  <2> HIDE DEF hops
  <2>2. shown'.path = p /\ shown'.hops = hops
    BY <1>8
  <2>3. pin # NoPath => p = pin
    BY <1>1 DEF Inv, PinIsKept
  <2>4. HopsOnTheirLinks'
    BY <2>1, <2>2 DEF HopsOnTheirLinks
  <2> HIDE DEF p
  <2>5. Typed'
    BY <1>1, <1>3, <2>2 DEF Inv, Typed
  <2>6. PinIsKept'
    BY <1>1, <2>2, <2>3 DEF PinIsKept
  <2> QED BY <1>6, <2>4, <2>5, <2>6 DEF Inv
<1> QED BY <1>5, <1>7, <1>8

LEMMA InvInduct == Spec => []Inv
<1>1. ASSUME Inv, [Next]_vars PROVE Inv'
  BY <1>1, QuietKeeps, ProbeKeeps, ThereKeeps, BackKeeps, HomeKeeps DEF Next
<1> QED BY <1>1, InvInit, PTL DEF Spec

-----------------------------------------------------------------------------
(* The theorems.                                                           *)

\* Every record the routers write is of a hop field that the code has an interface for,
\* there and back, whatever the shape of the path (FwdPathMeta, RevPathMeta).
THEOREM PathTyped == Spec => []TypeOK
BY InvInduct, InvTyped, PTL

\* However many records are lost, of whichever direction, what is shown of a link was
\* written by the router that sent the probe over it and carries its AS (buildVM).
THEOREM HopsAreOnTheirLinks == Spec => []HopsOnTheirLinks
<1>1. Inv => HopsOnTheirLinks
  BY DEF Inv
<1> QED BY <1>1, InvInduct, PTL

\* A session with a pinned path is shown no other (probePath, the pinned fingerprint).
THEOREM PinsAreKept == Spec => []PinIsKept
<1>1. Inv => PinIsKept
  BY DEF Inv
<1> QED BY <1>1, InvInduct, PTL

-----------------------------------------------------------------------------
(* The order of the paths.                                                 *)

\* What has been added up of the first n of the latencies of path p.
Sums(p, n, sum) ==
    sum = [k \in 0 .. n |->
              IF k = 0 THEN 0
              ELSE sum[k - 1] + (IF Latency[p][k] = Unset THEN 0 ELSE Latency[p][k])]

\* The known latencies of a path have a sum (sortPaths, the totals).
LEMMA TotalSums ==
    ASSUME NEW p \in Paths
    PROVE  \E sum : Sums(p, Len(Latency[p]), sum) /\ Total(p) = sum[Len(Latency[p])]
<1> DEFINE N == Len(Latency[p])  T == {n \in Nat : \E sum : Sums(p, n, sum)}
           next(k, v) == v + (IF Latency[p][k] = Unset THEN 0 ELSE Latency[p][k])
<1>1. N \in Nat
  BY PathAssumption, LenProperties
<1>2. 0 \in T
  <2> DEFINE g == [k \in 0 .. 0 |-> 0]
  <2>1. Sums(p, 0, g)
    BY DEF Sums
  <2> QED BY <2>1
<1>3. ASSUME NEW n \in Nat, n \in T PROVE n + 1 \in T
  <2>1. PICK g : Sums(p, n, g)
    BY <1>3
  <2> DEFINE h == [k \in 0 .. n + 1 |-> IF k = n + 1 THEN next(n + 1, g[n]) ELSE g[k]]
  <2>2. g = [k \in 0 .. n |-> IF k = 0 THEN 0 ELSE next(k, g[k - 1])]
    BY <2>1 DEF Sums
  <2> HIDE DEF next
  <2>3. ASSUME NEW k \in 0 .. n + 1 PROVE h[k] = IF k = 0 THEN 0 ELSE next(k, h[k - 1])
    <3>1. CASE k = 0
      BY <2>2, <3>1
    <3>2. CASE k = n + 1
      BY <3>2
    <3>3. CASE k # 0 /\ k # n + 1
      <4>1. k \in 0 .. n /\ k - 1 \in 0 .. n + 1 /\ k - 1 # n + 1
        BY <3>3
      <4>2. h[k] = g[k] /\ h[k - 1] = g[k - 1]
        BY <3>3, <4>1
      <4>3. g[k] = next(k, g[k - 1])
        BY <2>2, <3>3, <4>1
      <4> QED BY <3>3, <4>2, <4>3
    <3> QED BY <3>1, <3>2, <3>3
  <2>4. h = [k \in 0 .. n + 1 |-> h[k]]
    OBVIOUS
  <2> HIDE DEF h
  <2>5. h = [k \in 0 .. n + 1 |-> IF k = 0 THEN 0 ELSE next(k, h[k - 1])]
    BY <2>3, <2>4
  <2>6. Sums(p, n + 1, h)
    BY <2>5 DEF Sums, next
  <2> QED BY <2>6
<1>4. \E sum : Sums(p, N, sum)
  <2> HIDE DEF T, N
  <2>1. N \in T
    BY <1>1, <1>2, <1>3, Counting
  <2> QED BY <2>1 DEF T
<1> DEFINE W == CHOOSE sum : sum = [k \in 0 .. Len(Latency[p]) |->
                                      IF k = 0 THEN 0
                                      ELSE sum[k - 1] + (IF Latency[p][k] = Unset THEN 0 ELSE Latency[p][k])]
<1>5. Total(p) = W[Len(Latency[p])]
  BY DEF Total
<1>6. Sums(p, Len(Latency[p]), W)
  BY <1>4 DEF Sums
<1> HIDE DEF W
<1> QED BY <1>5, <1>6

\* That sum is a number, and there is a latency to add up (sortPaths).
LEMMA TotalIsANumber ==
    ASSUME NEW p \in Paths
    PROVE  Total(p) \in Nat /\ Latency[p] # <<>>
<1> DEFINE l == Latency[p]
<1>1. l \in Seq(Nat \cup {Unset}) /\ Len(l) = Interfaces(Shape[p]) - 1
  BY PathAssumption
<1>2. Len(l) \in Nat \ {0}
  BY <1>1, Ways DEF Links, Interfaces
<1>3. l # <<>>
  <2>1. Len(<<>>) = 0
    OBVIOUS
  <2> QED BY <1>2, <2>1
<1>4. PICK sum : Sums(p, Len(l), sum) /\ Total(p) = sum[Len(l)]
  BY TotalSums
<1>5. ASSUME NEW k \in 1 .. Len(l) PROVE l[k] \in Nat \cup {Unset}
  BY <1>1, ElementOfSeq
<1> HIDE DEF l
<1> DEFINE T == {n \in Nat : n <= Len(l) => sum[n] \in Nat}
<1>6. sum = [k \in 0 .. Len(l) |-> IF k = 0 THEN 0
                                  ELSE sum[k - 1] + (IF l[k] = Unset THEN 0 ELSE l[k])]
  BY <1>4 DEF Sums, l
<1>7. 0 \in T
  BY <1>2, <1>6
<1>8. ASSUME NEW n \in Nat, n \in T PROVE n + 1 \in T
  <2> SUFFICES ASSUME n + 1 <= Len(l) PROVE sum[n + 1] \in Nat
    OBVIOUS
  <2>1. sum[n] \in Nat /\ l[n + 1] \in Nat \cup {Unset}
    BY <1>2, <1>5, <1>8
  <2>2. n + 1 \in 0 .. Len(l) /\ n + 1 # 0 /\ (n + 1) - 1 = n
    BY <1>2
  <2>3. sum[n + 1] = sum[n] + (IF l[n + 1] = Unset THEN 0 ELSE l[n + 1])
    BY <1>6, <2>2
  <2> QED BY <2>1, <2>3 DEF Unset
<1>9. Len(l) \in T
  <2> HIDE DEF T
  <2> QED BY <1>2, <1>7, <1>8, Counting
<1> QED BY <1>2, <1>3, <1>4, <1>9 DEF l

\* Of two paths one is better than the other, and what is better than a better one is
\* better (sortPaths, the comparison).
LEMMA BetterIsAnOrder ==
    ASSUME NEW p \in Paths, NEW q \in Paths, NEW r \in Paths
    PROVE  /\ ~Better(p, p)
           /\ p # q => Better(p, q) \/ Better(q, p)
           /\ Better(p, q) /\ Better(q, r) => Better(p, r)
<1>1. \A x \in {p, q, r} : Total(x) \in Nat /\ Links(x) \in Nat /\ x \in Nat /\ AnyUnset(x) \in BOOLEAN
  BY PathAssumption, TotalIsANumber, Ways DEF AnyUnset
<1> QED BY <1>1 DEF Better

\* Each place of the list has a path of its own, and there is none better than the first's
\* (sortPaths).
LEMMA PlacesAreTaken ==
    ASSUME NEW S, S \subseteq Paths, IsFiniteSet(S), NEW i \in 1 .. Cardinality(S)
    PROVE  /\ SortPaths(S)[i] \in S
           /\ Cardinality({q \in S : Better(q, SortPaths(S)[i])}) = i - 1
<1> DEFINE N == Cardinality(S)
           above(p) == {q \in S : Better(q, p)}
           rank == [p \in S |-> Cardinality(above(p))]
<1>1. N \in Nat
  BY FS_CardinalityType
<1>2. ASSUME NEW p \in S PROVE IsFiniteSet(above(p)) /\ rank[p] \in 0 .. N - 1
  <2>1. p \in Paths /\ ~Better(p, p)
    BY BetterIsAnOrder
  <2>2. above(p) \in SUBSET S /\ above(p) # S
    BY <2>1
  <2> HIDE DEF above
  <2>3. IsFiniteSet(above(p)) /\ Cardinality(above(p)) <= N /\ Cardinality(above(p)) # N
    BY <2>2, FS_Subset
  <2>4. Cardinality(above(p)) \in Nat
    BY <2>3, FS_CardinalityType
  <2> QED BY <1>1, <2>3, <2>4
<1>3. ASSUME NEW p \in S, NEW q \in S, Better(p, q) PROVE rank[p] < rank[q]
  <2>1. above(p) \in SUBSET above(q) /\ above(p) # above(q)
    <3>1. ~Better(p, p)
      BY BetterIsAnOrder
    <3>2. ASSUME NEW r \in S, Better(r, p) PROVE Better(r, q)
      BY <1>3, <3>2, BetterIsAnOrder
    <3>3. p \in above(q) /\ p \notin above(p)
      BY <1>3, <3>1
    <3> QED BY <3>2, <3>3
  <2>2. rank[p] \in Nat /\ rank[q] \in Nat /\ IsFiniteSet(above(q))
    <3> HIDE DEF rank, above, N
    <3> QED BY <1>1, <1>2
  <2> HIDE DEF above
  <2>3. Cardinality(above(p)) <= Cardinality(above(q)) /\ Cardinality(above(p)) # Cardinality(above(q))
    BY <2>1, <2>2, FS_Subset
  <2> QED BY <2>2, <2>3
<1>4. rank \in Injection(S, 0 .. N - 1)
  <2>1. rank \in [S -> 0 .. N - 1]
    BY <1>2
  <2>2. ASSUME NEW p \in S, NEW q \in S, p # q PROVE rank[p] # rank[q]
    <3>1. Better(p, q) \/ Better(q, p)
      BY <2>2, BetterIsAnOrder
    <3> HIDE DEF rank, above, N
    <3>2. rank[p] \in Nat /\ rank[q] \in Nat
      BY <1>1, <1>2
    <3>3. rank[p] < rank[q] \/ rank[q] < rank[p]
      BY <1>3, <3>1
    <3> QED BY <3>2, <3>3
  <2> HIDE DEF rank
  <2> QED BY <2>1, <2>2 DEF Injection, IsInjective
<1>5. IsFiniteSet(0 .. N - 1) /\ Cardinality(0 .. N - 1) = N
  <2>1. 0 \in Int /\ N - 1 \in Int
    BY <1>1
  <2>2. IsFiniteSet(0 .. N - 1) /\ Cardinality(0 .. N - 1) = IF 0 > N - 1 THEN 0 ELSE (N - 1) - 0 + 1
    BY <2>1, FS_Interval
  <2> QED BY <1>1, <2>2
<1>6. rank \in Surjection(S, 0 .. N - 1)
  <2> DEFINE D == 0 .. N - 1
  <2>1. rank \in Injection(S, D) /\ IsFiniteSet(D) /\ Cardinality(S) = Cardinality(D)
    BY <1>4, <1>5
  <2> HIDE DEF rank, D
  <2>2. rank \in Surjection(S, D)
    BY <2>1, FS_Injection
  <2> QED BY <2>2 DEF D
<1>7. \E p \in S : Cardinality(above(p)) = i - 1
  <2>1. i - 1 \in 0 .. N - 1
    BY <1>1
  <2>2. \E p \in S : rank[p] = i - 1
    <3> HIDE DEF rank
    <3> QED BY <1>6, <2>1 DEF Surjection
  <2> QED BY <2>2
<1>8. SortPaths(S)[i] = CHOOSE p \in S : Cardinality(above(p)) = i - 1
  BY DEF SortPaths
<1> QED BY <1>7, <1>8

\* sciond knows finitely many paths at a time.
LEMMA OfferIsFinite == Spec => []IsFiniteSet(offer)
<1>1. Init => IsFiniteSet(offer)
  BY FS_EmptySet DEF Init
<1>2. ASSUME IsFiniteSet(offer), [Next]_vars PROVE IsFiniteSet(offer')
  <2>1. CASE Beacon
    <3>1. PICK p \in Paths : offer' = (offer \ {p}) \cup ({p} \ offer)
      BY <2>1 DEF Beacon
    <3>2. offer' = offer \ {p} \/ offer' = offer \cup {p}
      BY <3>1
    <3> QED BY <1>2, <3>2, FS_AddElement, FS_RemoveElement
  <2>2. CASE offer' = offer
    BY <1>2, <2>2
  <2>3. Beacon \/ offer' = offer
    BY <1>2 DEF Next, Set, Probe, There, Back, Lost, Home, vars
  <2> QED BY <2>1, <2>2, <2>3
<1>3. IsFiniteSet(offer) /\ [Next]_vars => IsFiniteSet(offer)'
  BY <1>2
<1> QED BY <1>1, <1>3, PTL DEF Spec

\* Nothing in the list is shown to be faster than its first path (latencyTotal, sortPaths).
LEMMA FirstIsFastest ==
    ASSUME offer \subseteq Paths, IsFiniteSet(offer), NEW i \in 1 .. Len(Listed)
    PROVE  /\ Listed[1].path = SortPaths(offer)[1]
           /\ Listed[i].latency = Unset \/ Listed[1].latency \in 0 .. Listed[i].latency
<1> DEFINE N == Cardinality(offer)  best == SortPaths(offer)[1]  p == SortPaths(offer)[i]
<1>1. N \in Nat
  BY FS_CardinalityType
<1>2. Len(Listed) = N
  BY <1>1 DEF Listed
<1>3. i \in 1 .. N /\ 1 \in 1 .. N
  BY <1>1, <1>2
<1>4. /\ Listed[1].path = best /\ Listed[1].latency = LatencyTotal(best)
      /\ Listed[i].latency = LatencyTotal(p)
  BY <1>3 DEF Listed
<1>5. p \in offer /\ best \in offer /\ Cardinality({q \in offer : Better(q, best)}) = 1 - 1
  BY <1>3, PlacesAreTaken
<1> HIDE DEF best, p, N
<1>6. ~Better(p, best)
  <2> DEFINE above == {q \in offer : Better(q, best)}
  <2>1. above \subseteq offer /\ Cardinality(above) = 0
    BY <1>5
  <2> HIDE DEF above
  <2>2. above = {}
    <3>1. IsFiniteSet(above)
      BY <2>1, FS_Subset
    <3> QED BY <2>1, <3>1, FS_EmptySet
  <2> QED BY <1>5, <2>2 DEF above
<1>7. p \in Paths /\ best \in Paths
  BY <1>5
<1>8. /\ Total(p) \in Nat /\ Total(best) \in Nat /\ Latency[p] # <<>> /\ Latency[best] # <<>>
      /\ AnyUnset(p) \in BOOLEAN /\ AnyUnset(best) \in BOOLEAN
  BY <1>7, TotalIsANumber DEF AnyUnset
<1>9. ~AnyUnset(p) => ~AnyUnset(best) /\ Total(best) <= Total(p)
  BY <1>6, <1>8 DEF Better
<1>10. LatencyTotal(p) = Unset \/ LatencyTotal(best) \in 0 .. LatencyTotal(p)
  BY <1>8, <1>9 DEF LatencyTotal
<1> QED BY <1>4, <1>10 DEF best

\* An unpinned probe leaves by the path a list made at that time has first, and by the
\* latencies in the list no other is faster (PathOptions, probePath, sortPaths).
THEOREM TheBestIsProbed == Spec => BestIsProbed
<1>1. ASSUME Typed, IsFiniteSet(offer), [Next]_vars, pkt = NoPkt, pkt' # NoPkt, pin = NoPath
      PROVE  /\ pkt'.path = Listed[1].path
             /\ \A i \in 1 .. Len(Listed) :
                   Listed[i].latency = Unset \/ Listed[1].latency \in 0 .. Listed[i].latency
  <2>1. pkt.pc = "idle"
    BY <1>1 DEF NoPkt
  <2>2. Probe
    BY <1>1, <2>1 DEF Next, Beacon, Set, There, Back, Lost, Home, vars
  <2>3. PICK p \in offer : p = SortPaths(offer)[1] /\ pkt'.path = p
    BY <1>1, <2>2 DEF Probe, Via
  <2>4. Cardinality(offer) \in Nat \ {0}
    BY <1>1, <2>3, FS_CardinalityType, FS_EmptySet
  <2>5. 1 \in 1 .. Len(Listed)
    BY <2>4 DEF Listed
  <2>6. offer \subseteq Paths
    BY <1>1 DEF Typed
  <2> QED BY <1>1, <2>3, <2>5, <2>6, FirstIsFastest
<1>2. Inv => Typed
  BY DEF Inv
<1>3. Typed /\ IsFiniteSet(offer) /\ [Next]_vars =>
        [pkt = NoPkt /\ pkt' # NoPkt /\ pin = NoPath =>
            /\ pkt'.path = Listed[1].path
            /\ \A i \in 1 .. Len(Listed) :
                  Listed[i].latency = Unset \/ Listed[1].latency \in 0 .. Listed[i].latency]_vars
  BY <1>1
<1> QED BY <1>2, <1>3, InvInduct, OfferIsFinite, PTL DEF Spec, BestIsProbed
=============================================================================
