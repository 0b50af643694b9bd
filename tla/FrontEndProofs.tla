--------------------------- MODULE FrontEndProofs ---------------------------
(***************************************************************************)
(* What holds of the front-end for every request, every table of line      *)
(* features and every score.                                               *)
(***************************************************************************)
EXTENDS FrontEnd, Induction, SequenceTheorems

-----------------------------------------------------------------------------
(***************************************************************************)
(* Sequences, whatever they are made of.                                   *)
(***************************************************************************)
IsSeq(s) == s \in Seq(Range(s))

LEMMA SeqFacts ==
    ASSUME NEW s, IsSeq(s)
    PROVE  /\ Len(s) \in Nat /\ DOMAIN s = 1 .. Len(s)
           /\ s = [k \in 1 .. Len(s) |-> s[k]]
           /\ Len(s) = 0 <=> s = <<>>
<1>1. s \in Seq(Range(s)) BY DEF IsSeq
<1> QED BY <1>1, LenProperties, EmptySeq

LEMMA SeqIntro ==
    ASSUME NEW S, NEW s \in Seq(S)
    PROVE  IsSeq(s)
BY SeqOfRange DEF IsSeq

\* A function over 1 .. n is a sequence.
LEMMA SeqOfFunction ==
    ASSUME NEW n \in Nat, NEW s, s = [k \in 1 .. n |-> s[k]]
    PROVE  IsSeq(s) /\ Len(s) = n /\ DOMAIN s = 1 .. n
<1>1. DOMAIN s = 1 .. n OBVIOUS
<1>2. s \in [1 .. n -> Range(s)] BY <1>1 DEF Range
<1>3. s \in Seq(Range(s)) BY <1>2
<1> QED BY <1>1, <1>2, <1>3, LenProperties DEF IsSeq

LEMMA ConcatFacts ==
    ASSUME NEW s, NEW t, IsSeq(s), IsSeq(t)
    PROVE  /\ IsSeq(s \o t) /\ Len(s \o t) = Len(s) + Len(t)
           /\ DOMAIN (s \o t) = 1 .. Len(s) + Len(t)
           /\ \A k \in 1 .. Len(s) : (s \o t)[k] = s[k]
           /\ \A k \in 1 .. Len(t) : (s \o t)[Len(s) + k] = t[k]
<1> DEFINE S == Range(s) \cup Range(t)
<1>1. s \in Seq(S) /\ t \in Seq(S) BY SeqMonotonic DEF IsSeq
<1> HIDE DEF S
<1>2. s \o t \in Seq(S) /\ Len(s \o t) = Len(s) + Len(t) BY <1>1, ConcatProperties
<1>3. Len(s) \in Nat /\ Len(t) \in Nat BY <1>1
<1>4. \A k \in 1 .. Len(s) : (s \o t)[k] = s[k] BY <1>1, <1>3
<1>5. ASSUME NEW k \in 1 .. Len(t) PROVE (s \o t)[Len(s) + k] = t[k]
  <2>1. Len(s) + k \in 1 .. Len(s) + Len(t) /\ ~ (Len(s) + k <= Len(s)) /\ (Len(s) + k) - Len(s) = k
    BY <1>3
  <2> QED BY <1>1, <1>3, <2>1
<1>6. DOMAIN (s \o t) = 1 .. Len(s) + Len(t) BY <1>2, LenProperties
<1> QED BY <1>2, <1>4, <1>5, <1>6, SeqIntro

LEMMA AppendFacts ==
    ASSUME NEW s, NEW e, IsSeq(s)
    PROVE  /\ IsSeq(Append(s, e)) /\ Len(Append(s, e)) = Len(s) + 1
           /\ DOMAIN Append(s, e) = 1 .. Len(s) + 1
           /\ \A k \in 1 .. Len(s) : Append(s, e)[k] = s[k]
           /\ Append(s, e)[Len(s) + 1] = e
<1> DEFINE S == Range(s) \cup {e}
<1>1. s \in Seq(S) /\ e \in S BY SeqMonotonic DEF IsSeq
<1> HIDE DEF S
<1>2. /\ Append(s, e) \in Seq(S) /\ Len(Append(s, e)) = Len(s) + 1
      /\ \A k \in 1 .. Len(s) : Append(s, e)[k] = s[k]
      /\ Append(s, e)[Len(s) + 1] = e
  BY <1>1, AppendProperties
<1>3. IsSeq(Append(s, e)) BY <1>2, SeqIntro
<1> QED BY <1>2, <1>3, SeqFacts

LEMMA TailFacts ==
    ASSUME NEW s, IsSeq(s), s # <<>>
    PROVE  /\ IsSeq(Tail(s)) /\ Len(Tail(s)) = Len(s) - 1 /\ Head(s) = s[1]
           /\ DOMAIN Tail(s) = 1 .. Len(s) - 1
           /\ \A k \in 1 .. Len(s) - 1 : Tail(s)[k] = s[k + 1]
<1>1. s \in Seq(Range(s)) BY DEF IsSeq
<1>2. /\ Tail(s) \in Seq(Range(s)) /\ Len(Tail(s)) = Len(s) - 1
      /\ \A i \in 1 .. Len(Tail(s)) : Tail(s)[i] = s[i + 1]
  BY <1>1, HeadTailProperties
<1>3. IsSeq(Tail(s)) BY <1>2, SeqIntro
<1>4. Head(s) = s[1] BY <1>1
<1>5. DOMAIN Tail(s) = 1 .. Len(s) - 1 BY <1>2, <1>3, SeqFacts
<1> QED BY <1>2, <1>3, <1>4, <1>5

\* One more element in front.
LEMMA ConsFacts ==
    ASSUME NEW e, NEW s, IsSeq(s)
    PROVE  /\ IsSeq(<<e>> \o s) /\ Len(<<e>> \o s) = Len(s) + 1
           /\ (<<e>> \o s)[1] = e
           /\ \A k \in 1 .. Len(s) : (<<e>> \o s)[k + 1] = s[k]
<1>1. IsSeq(<<e>>) /\ Len(<<e>>) = 1 /\ <<e>>[1] = e
  <2>1. <<e>> \in Seq({e}) OBVIOUS
  <2> QED BY <2>1, SeqIntro
<1>2. Len(s) \in Nat BY SeqFacts
<1>3. \A k \in 1 .. Len(s) : 1 + k = k + 1 OBVIOUS
<1> QED BY <1>1, <1>2, <1>3, ConcatFacts

\* None in front.
LEMMA NothingInFront ==
    ASSUME NEW s, IsSeq(s) PROVE <<>> \o s = s
<1>1. s \in Seq(Range(s)) BY DEF IsSeq
<1> QED BY <1>1, ConcatEmptySeq

-----------------------------------------------------------------------------
(***************************************************************************)
(* InOrder.  The rank of an element, the number of those up to it, is one  *)
(* to one onto 1 .. Cardinality(S).                                        *)
(***************************************************************************)
LEMMA RankFacts ==
    ASSUME NEW S, IsFiniteSet(S), S \subseteq Int
    PROVE  LET rank == [x \in S |-> Cardinality({y \in S : y <= x})]
           IN  /\ Cardinality(S) \in Nat
               /\ rank \in Bijection(S, 1 .. Cardinality(S))
               /\ \A x, y \in S : x < y => rank[x] < rank[y]
<1> DEFINE Upto(x) == {y \in S : y <= x}
           rank == [x \in S |-> Cardinality(Upto(x))]
           n == Cardinality(S)
<1>1. n \in Nat BY FS_CardinalityType
<1>2. \A x \in S : /\ IsFiniteSet(Upto(x)) /\ Cardinality(Upto(x)) \in Nat
                   /\ Cardinality(Upto(x)) <= n /\ Cardinality(Upto(x)) # 0
  <2> SUFFICES ASSUME NEW x \in S
               PROVE  /\ IsFiniteSet(Upto(x)) /\ Cardinality(Upto(x)) \in Nat
                      /\ Cardinality(Upto(x)) <= n /\ Cardinality(Upto(x)) # 0
    OBVIOUS
  <2>1. Upto(x) \in SUBSET S /\ x \in Upto(x) OBVIOUS
  <2> HIDE DEF Upto
  <2>2. IsFiniteSet(Upto(x)) /\ Cardinality(Upto(x)) <= n BY <2>1, FS_Subset
  <2> QED BY <2>1, <2>2, FS_CardinalityType, FS_EmptySet
<1>3. rank \in [S -> 1 .. n]
  <2> HIDE DEF Upto, n
  <2>1. \A x \in S : Cardinality(Upto(x)) \in 1 .. n BY <1>1, <1>2
  <2> QED BY <2>1
<1>4. ASSUME NEW x \in S, NEW y \in S, x < y PROVE rank[x] < rank[y]
  <2>1. Upto(x) \in SUBSET Upto(y) /\ y \in Upto(y) /\ y \notin Upto(x)
    <3>1. x \in Int /\ y \in Int /\ \A z \in S : z \in Int OBVIOUS
    <3>2. \A z \in S : z <= x => z <= y BY <1>4, <3>1
    <3>3. ~ (y <= x) /\ y <= y BY <1>4, <3>1
    <3> QED BY <3>2, <3>3
  <2> HIDE DEF Upto
  <2>2. /\ Cardinality(Upto(x)) <= Cardinality(Upto(y))
        /\ Cardinality(Upto(y)) = Cardinality(Upto(x)) => Upto(y) = Upto(x)
    BY <1>2, <2>1, FS_Subset
  <2>3. Cardinality(Upto(x)) \in Nat /\ Cardinality(Upto(y)) \in Nat BY <1>2
  <2> QED BY <2>1, <2>2, <2>3
<1> HIDE DEF rank, n, Upto
<1>5. ASSUME NEW x \in S, NEW y \in S, rank[x] = rank[y] PROVE x = y
  <2>1. x \in Int /\ y \in Int /\ rank[x] \in Int /\ rank[y] \in Int BY <1>1, <1>3
  <2>2. ~ (x < y) /\ ~ (y < x) BY <1>4, <1>5, <2>1
  <2> QED BY <2>1, <2>2
<1>6. rank \in Injection(S, 1 .. n) BY <1>3, <1>5 DEF Injection, IsInjective
<1>7. IsFiniteSet(1 .. n) /\ Cardinality(1 .. n) = n BY <1>1, FS_Interval
<1>8. rank \in Surjection(S, 1 .. n) BY <1>6, <1>7, FS_Injection DEF n
<1>9. rank \in Bijection(S, 1 .. n) BY <1>6, <1>8 DEF Bijection
<1> QED BY <1>1, <1>4, <1>9 DEF n, rank, Upto

LEMMA InOrderFacts ==
    ASSUME NEW S, IsFiniteSet(S), S \subseteq Int
    PROVE  /\ IsSeq(InOrder(S)) /\ Len(InOrder(S)) = Cardinality(S)
           /\ \A k \in DOMAIN InOrder(S) : /\ InOrder(S)[k] \in S
                                           /\ Cardinality({y \in S : y <= InOrder(S)[k]}) = k
           /\ \A x \in S : \E k \in DOMAIN InOrder(S) : InOrder(S)[k] = x
           /\ Range(InOrder(S)) = S
           /\ \A j, k \in DOMAIN InOrder(S) : j < k => InOrder(S)[j] < InOrder(S)[k]
<1> DEFINE rank == [x \in S |-> Cardinality({y \in S : y <= x})]
           n == Cardinality(S)
           o == InOrder(S)
<1>1. /\ n \in Nat /\ rank \in Bijection(S, 1 .. n)
      /\ \A x, y \in S : x < y => rank[x] < rank[y]
  BY RankFacts
<1>2. /\ rank \in [S -> 1 .. n] /\ \A x, y \in S : rank[x] = rank[y] => x = y
      /\ \A k \in 1 .. n : \E x \in S : rank[x] = k
  BY <1>1 DEF Bijection, Injection, IsInjective, Surjection
<1>3. \A k \in 1 .. n : o[k] = CHOOSE x \in S : Cardinality({y \in S : y <= x}) = k
  BY DEF InOrder
<1>4. \A k \in 1 .. n : o[k] \in S /\ rank[o[k]] = k
  <2> SUFFICES ASSUME NEW k \in 1 .. n PROVE o[k] \in S /\ rank[o[k]] = k OBVIOUS
  <2>1. \A x \in S : rank[x] = Cardinality({y \in S : y <= x}) OBVIOUS
  <2>2. \E x \in S : Cardinality({y \in S : y <= x}) = k BY <1>2, <2>1
  <2>3. o[k] \in S /\ Cardinality({y \in S : y <= o[k]}) = k BY <1>3, <2>2
  <2> QED BY <2>1, <2>3
<1>5. o = [k \in 1 .. n |-> o[k]]
  <2> DEFINE e(k) == CHOOSE x \in S : Cardinality({y \in S : y <= x}) = k
  <2>1. o = [k \in 1 .. n |-> e(k)] BY DEF InOrder
  <2> HIDE DEF e, o, n
  <2> QED BY <2>1
<1> HIDE DEF rank, n, o
<1>6. IsSeq(o) /\ Len(o) = n /\ DOMAIN o = 1 .. n BY <1>1, <1>5, SeqOfFunction
<1>7. ASSUME NEW x \in S PROVE \E k \in 1 .. n : o[k] = x
  <2>1. rank[x] \in 1 .. n BY <1>2
  <2>2. o[rank[x]] \in S /\ rank[o[rank[x]]] = rank[x] BY <1>4, <2>1
  <2> QED BY <1>2, <2>1, <2>2
<1>8. ASSUME NEW j \in 1 .. n, NEW k \in 1 .. n, j < k PROVE o[j] < o[k]
  <2>1. o[j] \in S /\ o[k] \in S /\ rank[o[j]] = j /\ rank[o[k]] = k BY <1>4
  <2>2. o[j] \in Int /\ o[k] \in Int
    <3>1. \A z \in S : z \in Int OBVIOUS
    <3> QED BY <2>1, <3>1, Zenon
  <2>3. o[j] # o[k] BY <1>8, <2>1, <2>2
  <2>4. o[k] < o[j] => k < j BY <1>1, <2>1
  <2> QED BY <1>8, <2>2, <2>3, <2>4
<1>9. Range(o) = S
  <2>1. Range(o) = {o[k] : k \in 1 .. n} BY <1>6 DEF Range
  <2>2. {o[k] : k \in 1 .. n} \subseteq S BY <1>4
  <2>3. S \subseteq {o[k] : k \in 1 .. n} BY <1>7
  <2> QED BY <2>1, <2>2, <2>3
<1>10. \A k \in 1 .. n : Cardinality({y \in S : y <= o[k]}) = k BY <1>4 DEF rank
<1> QED BY <1>4, <1>6, <1>7, <1>8, <1>9, <1>10 DEF o, n

-----------------------------------------------------------------------------
(***************************************************************************)
(* Covers: intervals that follow each other from a to b.                   *)
(***************************************************************************)
Covers(lo, hi, n, a, b) ==
    /\ n \in Nat /\ n >= 1 /\ a \in Int /\ b \in Int
    /\ \A k \in 1 .. n : lo[k] \in Int /\ hi[k] \in Int /\ lo[k] <= hi[k]
    /\ lo[1] = a /\ hi[n] = b
    /\ \A k \in 2 .. n : lo[k] = hi[k - 1] + 1

\* They are disjoint, stay within a .. b and leave nothing of it out.
LEMMA CoverFacts ==
    ASSUME NEW lo, NEW hi, NEW n, NEW a, NEW b, Covers(lo, hi, n, a, b)
    PROVE  /\ \A j, k \in 1 .. n : j < k => hi[j] < lo[k]
           /\ \A k \in 1 .. n : a <= lo[k] /\ hi[k] <= b
           /\ \A i \in a .. b : \E k \in 1 .. n : i \in lo[k] .. hi[k]
<1> DEFINE Upto(k) == /\ \A j \in 1 .. k - 1 : hi[j] < lo[k]
                      /\ a <= lo[k]
                      /\ \A i \in a .. hi[k] : \E j \in 1 .. k : i \in lo[j] .. hi[j]
           A == {k \in Nat : k + 1 <= n => Upto(k + 1)}
<1>1. 0 \in A
  <2> SUFFICES Upto(1) OBVIOUS
  <2>1. lo[1] = a /\ 1 \in 1 .. n /\ lo[1] \in Int BY DEF Covers
  <2> QED BY <2>1
<1>2. ASSUME NEW m \in Nat, m \in A PROVE m + 1 \in A
  <2> SUFFICES ASSUME (m + 1) + 1 <= n PROVE Upto((m + 1) + 1) OBVIOUS
  <2> DEFINE k == m + 1
  <2>1. /\ k \in 1 .. n /\ k + 1 \in 2 .. n /\ k + 1 \in 1 .. n /\ (k + 1) - 1 = k /\ n \in Nat
    BY DEF Covers
  <2>2. lo[k] \in Int /\ hi[k] \in Int /\ lo[k] <= hi[k] /\ lo[k + 1] = hi[k] + 1 /\ hi[k + 1] \in Int
    BY <2>1 DEF Covers
  <2>3. Upto(k) BY <1>2, <2>1
  <2> HIDE DEF k
  <2>4. ASSUME NEW j \in 1 .. (k + 1) - 1 PROVE hi[j] < lo[k + 1]
    <3>1. CASE j = k BY <2>2, <3>1
    <3>2. CASE j # k
      <4>1. j \in 1 .. k - 1 /\ j \in 1 .. n BY <2>1, <3>2
      <4>2. hi[j] \in Int /\ hi[j] < lo[k] BY <2>3, <4>1 DEF Covers
      <4> QED BY <2>2, <4>2
    <3> QED BY <3>1, <3>2
  <2>5. a <= lo[k + 1] BY <2>2, <2>3 DEF Covers
  <2>6. ASSUME NEW i \in a .. hi[k + 1] PROVE \E j \in 1 .. k + 1 : i \in lo[j] .. hi[j]
    <3>1. i \in Int /\ a \in Int BY DEF Covers
    <3>2. CASE i <= hi[k]
      <4>1. i \in a .. hi[k] BY <2>2, <3>1, <3>2
      <4>2. PICK j \in 1 .. k : i \in lo[j] .. hi[j] BY <2>3, <4>1
      <4>3. j \in 1 .. k + 1 BY <2>1
      <4> QED BY <4>2, <4>3
    <3>3. CASE i > hi[k]
      <4>1. i \in lo[k + 1] .. hi[k + 1] BY <2>2, <3>1, <3>3
      <4>2. k + 1 \in 1 .. k + 1 BY <2>1
      <4> QED BY <4>1, <4>2
    <3> QED BY <2>2, <3>1, <3>2, <3>3
  <2> QED BY <2>4, <2>5, <2>6 DEF k
<1>3. Nat \subseteq A
  <2> HIDE DEF A
  <2> QED BY <1>1, <1>2, NatInductionOnSet
<1>4. ASSUME NEW k \in 1 .. n PROVE Upto(k)
  <2>1. k - 1 \in Nat /\ (k - 1) + 1 = k /\ k <= n BY DEF Covers
  <2>2. k - 1 \in A BY <1>3, <2>1
  <2> HIDE DEF Upto
  <2> QED BY <2>1, <2>2
<1>5. ASSUME NEW j \in 1 .. n, NEW k \in 1 .. n, j < k PROVE hi[j] < lo[k]
  <2>1. j \in 1 .. k - 1 BY <1>5 DEF Covers
  <2> QED BY <1>4, <2>1
<1>6. n \in 1 .. n /\ hi[n] = b BY DEF Covers
<1>7. ASSUME NEW k \in 1 .. n PROVE a <= lo[k] /\ hi[k] <= b
  <2>1. a <= lo[k] BY <1>4
  <2>2. CASE k = n BY <1>6, <2>1, <2>2 DEF Covers
  <2>3. CASE k # n
    <3>1. k < n BY <2>3 DEF Covers
    <3>2. hi[k] < lo[n] BY <1>5, <1>6, <3>1
    <3>3. hi[k] \in Int /\ lo[n] \in Int /\ hi[n] \in Int /\ lo[n] <= hi[n] BY <1>6 DEF Covers
    <3> QED BY <1>6, <2>1, <3>2, <3>3
  <2> QED BY <2>2, <2>3
<1>8. \A i \in a .. b : \E k \in 1 .. n : i \in lo[k] .. hi[k] BY <1>4, <1>6
<1> QED BY <1>5, <1>7, <1>8

-----------------------------------------------------------------------------
(***************************************************************************)
(* Runs.                                                                   *)
(***************************************************************************)
\* The first and the last places of the pairs of a sequence.
Lows(s)  == [k \in DOMAIN s |-> s[k][1]]
Highs(s) == [k \in DOMAIN s |-> s[k][2]]

LEMMA RunsFacts ==
    ASSUME NEW from \in Int, NEW to \in Int, NEW cuts
    PROVE  LET runs == Runs(from, to, cuts)
           IN  /\ IsSeq(runs)
               /\ from > to => runs = <<>>
               /\ from <= to => Covers(Lows(runs), Highs(runs), Len(runs), from, to)
               /\ \A k \in DOMAIN runs : /\ k > 1 => runs[k][1] \in cuts
                                         /\ \A i \in runs[k][1] + 1 .. runs[k][2] : i \notin cuts
<1> DEFINE S == {i \in from .. to : i = from \/ i \in cuts}
           o == InOrder(S)
           n == Len(o)
           runs == Runs(from, to, cuts)
<1>1. IsFiniteSet(S) /\ S \subseteq Int
  <2>1. IsFiniteSet(from .. to) BY FS_Interval
  <2>2. S \in SUBSET (from .. to) OBVIOUS
  <2>3. from .. to \subseteq Int OBVIOUS
  <2> HIDE DEF S
  <2> QED BY <2>1, <2>2, <2>3, FS_Subset
<1>2. /\ IsSeq(o) /\ n = Cardinality(S)
      /\ \A k \in DOMAIN o : o[k] \in S
      /\ \A x \in S : \E k \in DOMAIN o : o[k] = x
      /\ \A j, k \in DOMAIN o : j < k => o[j] < o[k]
  <2> HIDE DEF S
  <2> QED BY <1>1, InOrderFacts
<1>3. n \in Nat /\ DOMAIN o = 1 .. n BY <1>2, SeqFacts
<1>4. runs = [k \in 1 .. n |-> <<o[k], IF k = n THEN to ELSE o[k + 1] - 1>>]
  BY <1>3, Zenon DEF Runs
<1>5. \A x \in S : x \in Int /\ from <= x /\ x <= to /\ (x = from \/ x \in cuts) OBVIOUS
<1>6. \A x \in from .. to : (x = from \/ x \in cuts) => x \in S OBVIOUS
<1> HIDE DEF S, o, n, runs
<1>7. \A k \in 1 .. n : o[k] \in S /\ o[k] \in Int /\ from <= o[k] /\ o[k] <= to
  BY <1>2, <1>3, <1>5
<1>8. \A k \in 1 .. n : runs[k][1] = o[k] /\ runs[k][2] = IF k = n THEN to ELSE o[k + 1] - 1
  BY <1>4
<1>9. /\ IsSeq(runs) /\ Len(runs) = n /\ DOMAIN runs = 1 .. n
  <2>1. runs = [k \in 1 .. n |-> runs[k]]
    <3> DEFINE e(k) == <<o[k], IF k = n THEN to ELSE o[k + 1] - 1>>
    <3>1. runs = [k \in 1 .. n |-> e(k)] BY <1>4
    <3> HIDE DEF e
    <3> QED BY <3>1
  <2> QED BY <1>3, <2>1, SeqOfFunction
<1>10. from > to => runs = <<>>
  <2> SUFFICES ASSUME from > to PROVE runs = <<>> OBVIOUS
  <2>1. n = 0
    <3>1. n # 0 => 1 \in 1 .. n BY <1>3
    <3>2. 1 \in 1 .. n => from <= to
      <4>1. 1 \in 1 .. n => from <= o[1] /\ o[1] <= to /\ o[1] \in Int BY <1>7
      <4> QED BY <4>1
    <3> QED BY <3>1, <3>2
  <2> QED BY <1>9, <2>1, SeqFacts
<1>11. from <= to => n >= 1 /\ o[1] = from
  <2> SUFFICES ASSUME from <= to PROVE n >= 1 /\ o[1] = from OBVIOUS
  <2>1. from \in S BY <1>6
  <2>2. PICK k \in 1 .. n : o[k] = from BY <1>2, <1>3, <2>1
  <2>3. n >= 1 /\ 1 \in 1 .. n BY <1>3, <2>2
  <2>4. k # 1 => o[1] < o[k] BY <1>2, <1>3, <2>2, <2>3
  <2> QED BY <1>7, <2>2, <2>3, <2>4
\* Between two starts nothing is cut.
<1>12. ASSUME NEW k \in 1 .. n, NEW i \in o[k] + 1 .. to, k = n \/ i < o[k + 1]
       PROVE  i \notin cuts
  <2> SUFFICES ASSUME i \in cuts PROVE FALSE OBVIOUS
  <2>1. i \in Int /\ o[k] \in Int /\ from <= o[k] /\ o[k] < i /\ i <= to BY <1>7
  <2>2. i \in from .. to BY <2>1
  <2>3. i \in S BY <1>6, <2>2
  <2>4. PICK m \in 1 .. n : o[m] = i BY <1>2, <1>3, <2>3
  <2>5. ~ (m <= k)
    <3>1. m < k => o[m] < o[k] BY <1>2, <1>3
    <3> QED BY <2>1, <2>4, <3>1
  <2>6. k # n /\ k + 1 \in 1 .. n /\ m >= k + 1 BY <1>3, <2>5
  <2>7. k + 1 < m => o[k + 1] < o[m] BY <1>2, <1>3, <2>6
  <2>8. o[k + 1] \in Int BY <1>7, <2>6
  <2> QED BY <1>12, <2>1, <2>4, <2>6, <2>7, <2>8
<1>13. ASSUME NEW k \in DOMAIN runs
       PROVE  /\ k > 1 => runs[k][1] \in cuts
              /\ \A i \in runs[k][1] + 1 .. runs[k][2] : i \notin cuts
  <2>1. k \in 1 .. n BY <1>9
  <2>2. k > 1 => o[k] # from
    <3> SUFFICES ASSUME k > 1 PROVE o[k] # from OBVIOUS
    <3>1. 1 \in 1 .. n /\ o[1] < o[k] BY <1>2, <1>3, <2>1
    <3> QED BY <1>7, <2>1, <3>1
  <2>3. k > 1 => runs[k][1] \in cuts BY <1>5, <1>7, <1>8, <2>1, <2>2
  <2>4. ASSUME NEW i \in runs[k][1] + 1 .. runs[k][2] PROVE i \notin cuts
    <3>1. CASE k = n BY <1>8, <1>12, <2>1, <3>1
    <3>2. CASE k # n
      <4>1. k + 1 \in 1 .. n BY <1>3, <2>1, <3>2
      <4>2. o[k + 1] \in Int /\ o[k] \in Int /\ o[k + 1] <= to BY <1>7, <2>1, <4>1
      <4>3. i \in o[k] + 1 .. o[k + 1] - 1 BY <1>8, <2>1, <3>2
      <4>4. i \in o[k] + 1 .. to /\ i < o[k + 1] BY <4>2, <4>3
      <4> QED BY <1>12, <2>1, <4>4
    <3> QED BY <3>1, <3>2
  <2> QED BY <2>3, <2>4
<1>14. ASSUME from <= to PROVE Covers(Lows(runs), Highs(runs), n, from, to)
  <2>1. \A k \in 1 .. n : Lows(runs)[k] = o[k] /\ Highs(runs)[k] = IF k = n THEN to ELSE o[k + 1] - 1
    BY <1>8, <1>9 DEF Lows, Highs
  <2>2. n >= 1 /\ o[1] = from BY <1>11, <1>14
  <2>3. ASSUME NEW k \in 1 .. n
        PROVE  Lows(runs)[k] \in Int /\ Highs(runs)[k] \in Int /\ Lows(runs)[k] <= Highs(runs)[k]
    <3>1. CASE k = n BY <1>7, <2>1, <3>1
    <3>2. CASE k # n
      <4>1. k + 1 \in 1 .. n /\ k < k + 1 BY <1>3, <3>2
      <4>2. o[k] \in Int /\ o[k + 1] \in Int /\ o[k] < o[k + 1] BY <1>2, <1>3, <1>7, <4>1
      <4>3. Lows(runs)[k] = o[k] /\ Highs(runs)[k] = o[k + 1] - 1 BY <2>1, <3>2
      <4> QED BY <4>2, <4>3
    <3> QED BY <3>1, <3>2
  <2>4. ASSUME NEW k \in 2 .. n PROVE Lows(runs)[k] = Highs(runs)[k - 1] + 1
    <3>1. k \in 1 .. n /\ k - 1 \in 1 .. n /\ k - 1 # n /\ (k - 1) + 1 = k BY <1>3
    <3>2. Lows(runs)[k] = o[k] /\ Highs(runs)[k - 1] = o[k] - 1 /\ o[k] \in Int
      BY <1>7, <2>1, <3>1
    <3> QED BY <3>2
  <2>5. 1 \in 1 .. n /\ n \in 1 .. n BY <1>3, <2>2
  <2>6. Lows(runs)[1] = from /\ Highs(runs)[n] = to BY <2>1, <2>2, <2>5
  <2> HIDE DEF Lows, Highs
  <2> QED BY <1>3, <2>2, <2>3, <2>4, <2>6 DEF Covers
<1> QED BY <1>9, <1>10, <1>13, <1>14 DEF runs

-----------------------------------------------------------------------------
(***************************************************************************)
(* Recursive functions over 1 .. N.                                        *)
(***************************************************************************)
RecursiveFromOne(h, N, first, step) ==
    h = [k \in 1 .. N |-> IF k = 1 THEN first ELSE step[<<k, h[k - 1]>>]]

LEMMA RecursionFromOne ==
    ASSUME NEW V, NEW first \in V, NEW N \in Nat, N >= 1,
           NEW step, \A k \in 2 .. N : \A v \in V : step[<<k, v>>] \in V
    PROVE  \E h : RecursiveFromOne(h, N, first, step) /\ \A k \in 1 .. N : h[k] \in V
<1> DEFINE next == [kv \in Nat \X V |-> step[<<kv[1] + 1, kv[2]>>]]
<1>1. \A k \in 1 .. N - 1 : \A v \in V : next[<<k, v>>] = step[<<k + 1, v>>]
  <2> SUFFICES ASSUME NEW k \in 1 .. N - 1, NEW v \in V
               PROVE  next[<<k, v>>] = step[<<k + 1, v>>]
    OBVIOUS
  <2>1. <<k, v>> \in Nat \X V /\ <<k, v>>[1] = k /\ <<k, v>>[2] = v OBVIOUS
  <2> QED BY <2>1, Zenon
<1> HIDE DEF next
<1>2. \A k \in 1 .. N - 1 : \A v \in V : next[<<k, v>>] \in V
  <2>1. \A k \in 1 .. N - 1 : k + 1 \in 2 .. N OBVIOUS
  <2> QED BY <1>1, <2>1
<1>3. N - 1 \in Nat OBVIOUS
<1>4. PICK g : Recursive(g, N - 1, V, first, next) BY <1>2, <1>3, RecursionExists
<1> DEFINE h == [k \in 1 .. N |-> g[k - 1]]
<1>5. \A k \in 1 .. N : h[k] \in V BY <1>4 DEF Recursive
<1>6. ASSUME NEW k \in 1 .. N PROVE h[k] = IF k = 1 THEN first ELSE step[<<k, h[k - 1]>>]
  <2>1. CASE k = 1 BY <1>4, <2>1 DEF Recursive
  <2>2. CASE k # 1
    <3>1. k - 1 \in 1 .. N - 1 /\ k - 1 \in 1 .. N /\ (k - 1) + 1 = k BY <2>2
    <3>2. g[k - 1] = next[<<k - 1, g[(k - 1) - 1]>>] BY <1>4, <3>1 DEF Recursive
    <3>3. h[k] = g[k - 1] /\ h[k - 1] = g[(k - 1) - 1] BY <3>1
    <3>4. h[k - 1] \in V BY <1>5, <3>1
    <3> HIDE DEF h
    <3>5. next[<<k - 1, h[k - 1]>>] = step[<<k, h[k - 1]>>] BY <1>1, <3>1, <3>4
    <3> QED BY <2>2, <3>2, <3>3, <3>5
  <2> QED BY <2>1, <2>2
<1>7. h = [k \in 1 .. N |-> h[k]] OBVIOUS
<1> HIDE DEF h
<1>8. RecursiveFromOne(h, N, first, step) BY <1>6, <1>7 DEF RecursiveFromOne
<1> QED BY <1>5, <1>8

-----------------------------------------------------------------------------
(***************************************************************************)
(* FlattenSeq: the concatenation of k sequences is that of the first k - 1 *)
(* followed by the k-th.                                                   *)
(***************************************************************************)
FlattenIs(f, seqs) ==
    f = [i \in 1 .. Len(seqs) |-> IF i = 1 THEN seqs[i] ELSE f[i - 1] \o seqs[i]]

LEMMA FlattenFacts ==
    ASSUME NEW seqs, IsSeq(seqs), seqs # <<>>, \A k \in DOMAIN seqs : IsSeq(seqs[k])
    PROVE  \E f : /\ FlattenSeq(seqs) = f[Len(seqs)]
                  /\ f[1] = seqs[1]
                  /\ \A k \in 1 .. Len(seqs) : IsSeq(f[k])
                  /\ \A k \in 2 .. Len(seqs) : f[k] = f[k - 1] \o seqs[k]
<1> DEFINE N == Len(seqs)
           S == UNION {Range(seqs[k]) : k \in 1 .. N}
           step == [kv \in Nat \X Seq(S) |-> kv[2] \o seqs[kv[1]]]
           flat == CHOOSE f : FlattenIs(f, seqs)
<1>1. N \in Nat /\ N >= 1 /\ DOMAIN seqs = 1 .. N BY SeqFacts
<1>2. ASSUME NEW k \in 1 .. N PROVE seqs[k] \in Seq(S)
  <2>1. seqs[k] \in Seq(Range(seqs[k])) BY <1>1 DEF IsSeq
  <2>2. Range(seqs[k]) \subseteq S OBVIOUS
  <2> HIDE DEF S
  <2> QED BY <2>1, <2>2, SeqMonotonic
<1> HIDE DEF S
<1>3. \A k \in 2 .. N : \A v \in Seq(S) : step[<<k, v>>] = v \o seqs[k]
  <2> SUFFICES ASSUME NEW k \in 2 .. N, NEW v \in Seq(S)
               PROVE  step[<<k, v>>] = v \o seqs[k]
    OBVIOUS
  <2>1. <<k, v>> \in Nat \X Seq(S) /\ <<k, v>>[1] = k /\ <<k, v>>[2] = v OBVIOUS
  <2> QED BY <2>1, Zenon
<1> HIDE DEF step
<1>4. \A k \in 2 .. N : \A v \in Seq(S) : step[<<k, v>>] \in Seq(S)
  <2>1. \A k \in 2 .. N : seqs[k] \in Seq(S) BY <1>1, <1>2
  <2>2. \A s, t \in Seq(S) : s \o t \in Seq(S) OBVIOUS
  <2> QED BY <1>3, <2>1, <2>2
<1>5. 1 \in 1 .. N BY <1>1
<1>6. PICK h : RecursiveFromOne(h, N, seqs[1], step) /\ \A k \in 1 .. N : h[k] \in Seq(S)
  <2>1. seqs[1] \in Seq(S) BY <1>2, <1>5
  <2> HIDE DEF N
  <2> QED BY <1>1, <1>4, <2>1, RecursionFromOne
<1>7. FlattenIs(h, seqs)
  <2>1. ASSUME NEW i \in 1 .. N PROVE h[i] = IF i = 1 THEN seqs[i] ELSE h[i - 1] \o seqs[i]
    <3>1. CASE i = 1 BY <1>6, <3>1 DEF RecursiveFromOne
    <3>2. CASE i # 1
      <4>1. i \in 2 .. N /\ i - 1 \in 1 .. N BY <1>1, <3>2
      <4>2. h[i - 1] \in Seq(S) BY <1>6, <4>1
      <4>3. h[i] = step[<<i, h[i - 1]>>] BY <1>6, <3>2 DEF RecursiveFromOne
      <4> QED BY <1>3, <3>2, <4>1, <4>2, <4>3
    <3> QED BY <3>1, <3>2
  <2>2. h = [i \in 1 .. N |-> h[i]] BY <1>6 DEF RecursiveFromOne
  <2>3. h = [i \in 1 .. N |-> IF i = 1 THEN seqs[i] ELSE h[i - 1] \o seqs[i]] BY <2>1, <2>2
  <2> QED BY <2>3 DEF FlattenIs
<1>8. FlattenIs(flat, seqs) BY <1>7
<1>9. FlattenSeq(seqs) = flat[N] BY <1>1 DEF FlattenSeq, FlattenIs
<1> HIDE DEF flat
<1>10. flat[1] = seqs[1] /\ \A k \in 2 .. N : flat[k] = flat[k - 1] \o seqs[k]
  <2>1. \A k \in 1 .. N : flat[k] = IF k = 1 THEN seqs[k] ELSE flat[k - 1] \o seqs[k]
    BY <1>8, Zenon DEF FlattenIs
  <2>2. \A k \in 2 .. N : k \in 1 .. N /\ k # 1 BY <1>1
  <2> QED BY <1>5, <2>1, <2>2
<1> DEFINE A == {k \in Nat : k + 1 <= N => flat[k + 1] \in Seq(S)}
<1>11. 0 \in A BY <1>2, <1>5, <1>10
<1>12. ASSUME NEW k \in Nat, k \in A PROVE k + 1 \in A
  <2> SUFFICES ASSUME (k + 1) + 1 <= N PROVE flat[(k + 1) + 1] \in Seq(S) OBVIOUS
  <2>1. (k + 1) + 1 \in 1 .. N /\ (k + 1) + 1 \in 2 .. N /\ ((k + 1) + 1) - 1 = k + 1 BY <1>1
  <2>2. flat[(k + 1) + 1] = flat[k + 1] \o seqs[(k + 1) + 1] BY <1>10, <2>1
  <2>3. flat[k + 1] \in Seq(S) /\ seqs[(k + 1) + 1] \in Seq(S) BY <1>1, <1>2, <1>12, <2>1
  <2> QED BY <2>2, <2>3
<1>13. Nat \subseteq A
  <2> HIDE DEF A
  <2> QED BY <1>11, <1>12, NatInductionOnSet
<1>14. ASSUME NEW k \in 1 .. N PROVE IsSeq(flat[k])
  <2>1. k - 1 \in Nat /\ (k - 1) + 1 = k /\ k <= N BY <1>1
  <2>2. k - 1 \in A BY <1>13, <2>1
  <2>3. flat[k] \in Seq(S) BY <2>1, <2>2
  <2> QED BY <2>3, SeqIntro
<1> QED BY <1>9, <1>10, <1>14

-----------------------------------------------------------------------------
(***************************************************************************)
(* Sequences of regions that follow each other from a to b.                *)
(***************************************************************************)
Froms(rs) == [k \in DOMAIN rs |-> rs[k].from]
Tos(rs)   == [k \in DOMAIN rs |-> rs[k].to]

RegionCover(rs, a, b) == IsSeq(rs) /\ Covers(Froms(rs), Tos(rs), Len(rs), a, b)

\* The same without the helpers.
LEMMA RegionCoverIs ==
    ASSUME NEW rs, NEW a \in Int, NEW b \in Int, IsSeq(rs)
    PROVE  RegionCover(rs, a, b) <=>
             /\ Len(rs) >= 1 /\ rs[1].from = a /\ rs[Len(rs)].to = b
             /\ \A k \in 1 .. Len(rs) : rs[k].from \in Int /\ rs[k].to \in Int /\ rs[k].from <= rs[k].to
             /\ \A k \in 2 .. Len(rs) : rs[k].from = rs[k - 1].to + 1
<1>1. Len(rs) \in Nat /\ DOMAIN rs = 1 .. Len(rs) BY SeqFacts
<1>2. \A k \in 1 .. Len(rs) : Froms(rs)[k] = rs[k].from /\ Tos(rs)[k] = rs[k].to
  BY <1>1 DEF Froms, Tos
<1>3. Len(rs) >= 1 => 1 \in 1 .. Len(rs) /\ Len(rs) \in 1 .. Len(rs) BY <1>1
<1>4. \A k \in 2 .. Len(rs) : k \in 1 .. Len(rs) /\ k - 1 \in 1 .. Len(rs) BY <1>1
<1>5. \A k \in 2 .. Len(rs) : Froms(rs)[k] = rs[k].from /\ Tos(rs)[k - 1] = rs[k - 1].to
  BY <1>2, <1>4
<1> QED BY <1>1, <1>2, <1>3, <1>5 DEF RegionCover, Covers

\* They are disjoint and leave nothing out.
LEMMA RegionCoverFacts ==
    ASSUME NEW rs, NEW a, NEW b, RegionCover(rs, a, b)
    PROVE  /\ \A j, k \in 1 .. Len(rs) : j < k => rs[j].to < rs[k].from
           /\ \A k \in 1 .. Len(rs) : /\ rs[k].from \in Int /\ rs[k].to \in Int
                                      /\ a <= rs[k].from /\ rs[k].from <= rs[k].to /\ rs[k].to <= b
           /\ \A i \in a .. b : \E k \in 1 .. Len(rs) : i \in rs[k].from .. rs[k].to
<1>1. IsSeq(rs) /\ a \in Int /\ b \in Int BY DEF RegionCover, Covers
<1>2. DOMAIN rs = 1 .. Len(rs) BY <1>1, SeqFacts
<1>3. \A k \in 1 .. Len(rs) : Froms(rs)[k] = rs[k].from /\ Tos(rs)[k] = rs[k].to
  BY <1>2 DEF Froms, Tos
<1>4. /\ \A j, k \in 1 .. Len(rs) : j < k => Tos(rs)[j] < Froms(rs)[k]
      /\ \A k \in 1 .. Len(rs) : a <= Froms(rs)[k] /\ Tos(rs)[k] <= b
      /\ \A i \in a .. b : \E k \in 1 .. Len(rs) : i \in Froms(rs)[k] .. Tos(rs)[k]
  <2>1. Covers(Froms(rs), Tos(rs), Len(rs), a, b) BY DEF RegionCover
  <2> QED BY <2>1, CoverFacts
<1>5. \A k \in 1 .. Len(rs) : rs[k].from \in Int /\ rs[k].to \in Int /\ rs[k].from <= rs[k].to
  BY <1>1, RegionCoverIs
<1> QED BY <1>3, <1>4, <1>5

LEMMA RegionCoverConcat ==
    ASSUME NEW s, NEW t, NEW a \in Int, NEW b \in Int, NEW c \in Int,
           RegionCover(s, a, b), RegionCover(t, b + 1, c)
    PROVE  RegionCover(s \o t, a, c)
<1> DEFINE m == Len(s)
           n == Len(t)
           st == s \o t
<1>1. IsSeq(s) /\ IsSeq(t) /\ m \in Nat /\ n \in Nat BY SeqFacts DEF RegionCover
<1>2. /\ IsSeq(st) /\ Len(st) = m + n
      /\ \A k \in 1 .. m : st[k] = s[k]
      /\ \A k \in 1 .. n : st[m + k] = t[k]
  BY <1>1, ConcatFacts
<1>3. /\ m >= 1 /\ s[1].from = a /\ s[m].to = b
      /\ \A k \in 1 .. m : s[k].from \in Int /\ s[k].to \in Int /\ s[k].from <= s[k].to
      /\ \A k \in 2 .. m : s[k].from = s[k - 1].to + 1
  BY <1>1, RegionCoverIs
<1>4. /\ n >= 1 /\ t[1].from = b + 1 /\ t[n].to = c
      /\ \A k \in 1 .. n : t[k].from \in Int /\ t[k].to \in Int /\ t[k].from <= t[k].to
      /\ \A k \in 2 .. n : t[k].from = t[k - 1].to + 1
  BY <1>1, RegionCoverIs
<1> HIDE DEF m, n, st
<1>5. st[1].from = a /\ st[m + n].to = c BY <1>1, <1>2, <1>3, <1>4
<1>6. ASSUME NEW k \in 1 .. m + n
      PROVE  st[k].from \in Int /\ st[k].to \in Int /\ st[k].from <= st[k].to
  <2>1. CASE k <= m
    <3>1. k \in 1 .. m BY <1>1, <2>1
    <3> QED BY <1>2, <1>3, <3>1
  <2>2. CASE k > m
    <3>1. k - m \in 1 .. n /\ m + (k - m) = k BY <1>1, <2>2
    <3>2. st[k] = t[k - m] BY <1>2, <3>1
    <3> QED BY <1>4, <3>1, <3>2
  <2> QED BY <1>1, <2>1, <2>2
<1>7. ASSUME NEW k \in 2 .. m + n PROVE st[k].from = st[k - 1].to + 1
  <2>1. CASE k <= m
    <3>1. k \in 2 .. m /\ k \in 1 .. m /\ k - 1 \in 1 .. m BY <1>1, <2>1
    <3>2. st[k] = s[k] /\ st[k - 1] = s[k - 1] BY <1>2, <3>1
    <3> QED BY <1>3, <3>1, <3>2
  <2>2. CASE k = m + 1
    <3>1. 1 \in 1 .. n /\ m \in 1 .. m /\ k - 1 = m BY <1>1, <1>3, <1>4, <2>2
    <3>2. st[k] = t[1] /\ st[k - 1] = s[m] BY <1>2, <2>2, <3>1
    <3> QED BY <1>3, <1>4, <3>2
  <2>3. CASE k > m + 1
    <3> DEFINE j == k - m
    <3>1. j \in 2 .. n /\ j \in 1 .. n /\ j - 1 \in 1 .. n /\ m + j = k /\ m + (j - 1) = k - 1
      BY <1>1, <2>3
    <3> HIDE DEF j
    <3>2. st[k] = t[j] /\ st[k - 1] = t[j - 1] BY <1>2, <3>1
    <3> QED BY <1>4, <3>1, <3>2
  <2> QED BY <1>1, <2>1, <2>2, <2>3
<1>8. Len(st) >= 1 BY <1>1, <1>2, <1>3
<1>9. RegionCover(st, a, c) BY <1>2, <1>5, <1>6, <1>7, <1>8, RegionCoverIs
<1> QED BY <1>9 DEF st

-----------------------------------------------------------------------------
(***************************************************************************)
(* viterbi.  What a labelling gains: the evidence for its labels, less the *)
(* price of every switch.                                                  *)
(***************************************************************************)
Label == Range(Labels)
Price(l) == SwitchPenalty + At(Sticky, l)

SwitchCost(path, i) == IF i > 1 /\ path[i] # path[i - 1] THEN Price(path[i - 1]) ELSE 0
Gains(evs, path, n) == [i \in 1 .. n |-> At(evs[i], path[i]) - SwitchCost(path, i)]
Gain(evs, path, n) == SumFunctionOnSet(Gains(evs, path, n), 1 .. n)

\* What a single label gains.
Alone(evs, l, n) == [i \in 1 .. n |-> At(evs[i], l)]
GainAlone(evs, l, n) == SumFunctionOnSet(Alone(evs, l, n), 1 .. n)

Evidence(evs) == IsSeq(evs) /\ \A i \in 1 .. Len(evs) : \A l \in Label : At(evs[i], l) \in Int

\* A hypothesis about the first n lines costs no less than its labelling loses.
Hyp == [label : Label, cost : Int, path : Seq(Label)]
Sound(h, evs, n) ==
    h \in Hyp /\ Len(h.path) = n /\ h.path[n] = h.label /\ h.cost >= -Gain(evs, h.path, n)

\* The hypotheses about the first n lines: one of every label that costs no
\* more than the label alone would.
Pool(hyps, evs, n) ==
    /\ IsFiniteSet(hyps) /\ hyps # {}
    /\ \A h \in hyps : Sound(h, evs, n)
    /\ \A l \in Label : \E h \in hyps : h.label = l /\ h.cost <= -GainAlone(evs, l, n)

LEMMA LabelFacts == IsFiniteSet(Label) /\ Label # {} /\ \A l \in Label : Price(l) \in Nat
<1>1. IsSeq(Labels) /\ Labels # <<>> BY RegionsAssumption DEF IsSeq
<1>2. Len(Labels) \in Nat /\ Len(Labels) # 0 /\ DOMAIN Labels = 1 .. Len(Labels) BY <1>1, SeqFacts
<1>3. IsFiniteSet(1 .. Len(Labels)) BY <1>2, FS_Interval
<1>4. Label = {Labels[i] : i \in 1 .. Len(Labels)} BY <1>2 DEF Label, Range
<1>5. IsFiniteSet(Label) BY <1>3, <1>4, ImageIsFinite
<1>6. Labels[1] \in Label BY <1>2, <1>4
<1>7. \A l : At(Sticky, l) \in Nat BY RegionsAssumption DEF At
<1>8. \A l : Price(l) \in Nat BY <1>7, RegionsAssumption DEF Price
<1> QED BY <1>5, <1>6, <1>8

\* A sum over one more place.
LEMMA SumStep ==
    ASSUME NEW n \in Nat, NEW f, NEW g,
           \A i \in 1 .. n + 1 : f[i] \in Int, \A i \in 1 .. n : g[i] = f[i]
    PROVE  /\ SumFunctionOnSet(g, 1 .. n) \in Int
           /\ SumFunctionOnSet(f, 1 .. n + 1) = SumFunctionOnSet(g, 1 .. n) + f[n + 1]
<1>1. IsFiniteSet(1 .. n) /\ IsFiniteSet(1 .. n + 1) BY FS_Interval
<1>2. (1 .. n + 1) \ {n + 1} = 1 .. n /\ n + 1 \in 1 .. n + 1 OBVIOUS
<1>3. SumFunctionOnSet(f, 1 .. n + 1) = f[n + 1] + SumFunctionOnSet(f, (1 .. n + 1) \ {n + 1})
  BY <1>1, <1>2, SumTakesOne
<1>4. SumFunctionOnSet(g, 1 .. n) = SumFunctionOnSet(f, 1 .. n) BY <1>1, SumOfSame
<1>5. \A i \in 1 .. n : g[i] \in Int OBVIOUS
<1>6. SumFunctionOnSet(g, 1 .. n) \in Int BY <1>1, <1>5, SumIsInt
<1>7. f[n + 1] \in Int BY <1>2
<1> DEFINE whole == SumFunctionOnSet(f, 1 .. n + 1)
           part == SumFunctionOnSet(g, 1 .. n)
<1>8. whole = f[n + 1] + part BY <1>2, <1>3, <1>4, Zenon
<1>9. part \in Int BY <1>6
<1> HIDE DEF whole, part
<1>10. whole = part + f[n + 1] BY <1>7, <1>8, <1>9
<1> QED BY <1>9, <1>10 DEF whole, part

\* What a labelling gains with one more line.
LEMMA GainStep ==
    ASSUME NEW evs, Evidence(evs), NEW n \in Nat, n >= 1, n + 1 <= Len(evs),
           NEW path \in Seq(Label), Len(path) = n, NEW l \in Label
    PROVE  /\ Gain(evs, path, n) \in Int
           /\ Gain(evs, Append(path, l), n + 1)
                = Gain(evs, path, n) + At(evs[n + 1], l) - (IF l # path[n] THEN Price(path[n]) ELSE 0)
<1> DEFINE longer == Append(path, l)
           f == Gains(evs, longer, n + 1)
           g == Gains(evs, path, n)
<1>1. /\ \A i \in 1 .. n : longer[i] = path[i] /\ path[i] \in Label
      /\ longer[n + 1] = l
  OBVIOUS
<1>2. Len(evs) \in Nat BY SeqFacts DEF Evidence
<1>3. \A i \in 1 .. n + 1 : \A x \in Label : At(evs[i], x) \in Int
  <2>1. \A i \in 1 .. n + 1 : i \in 1 .. Len(evs) BY <1>2
  <2> QED BY <2>1, Zenon DEF Evidence
<1>4. \A x \in Label : Price(x) \in Int BY LabelFacts
<1> HIDE DEF longer
<1>5. ASSUME NEW i \in 1 .. n + 1
      PROVE  /\ f[i] = At(evs[i], longer[i]) - SwitchCost(longer, i)
             /\ f[i] \in Int
  <2>1. f[i] = At(evs[i], longer[i]) - SwitchCost(longer, i) BY DEF Gains
  <2>2. longer[i] \in Label /\ (i > 1 => longer[i - 1] \in Label)
    <3>1. i = n + 1 \/ i \in 1 .. n OBVIOUS
    <3>2. i > 1 => i - 1 \in 1 .. n OBVIOUS
    <3> QED BY <1>1, <3>1, <3>2
  <2>3. SwitchCost(longer, i) \in Int BY <1>4, <2>2 DEF SwitchCost
  <2>4. At(evs[i], longer[i]) \in Int BY <1>3, <2>2
  <2> HIDE DEF f
  <2> QED BY <2>1, <2>3, <2>4
<1>6. ASSUME NEW i \in 1 .. n PROVE g[i] = f[i]
  <2>1. g[i] = At(evs[i], path[i]) - SwitchCost(path, i) BY DEF Gains
  <2>2. longer[i] = path[i] /\ (i > 1 => longer[i - 1] = path[i - 1])
    <3>1. i > 1 => i - 1 \in 1 .. n OBVIOUS
    <3> QED BY <1>1, <3>1
  <2>3. SwitchCost(longer, i) = SwitchCost(path, i) BY <2>2 DEF SwitchCost
  <2>4. i \in 1 .. n + 1 OBVIOUS
  <2> QED BY <1>5, <2>1, <2>2, <2>3, <2>4
<1>7. SwitchCost(longer, n + 1) = IF l # path[n] THEN Price(path[n]) ELSE 0
  <2>1. n + 1 > 1 /\ (n + 1) - 1 = n /\ n \in 1 .. n OBVIOUS
  <2> QED BY <1>1, <2>1 DEF SwitchCost
<1>8. /\ SumFunctionOnSet(g, 1 .. n) \in Int
      /\ SumFunctionOnSet(f, 1 .. n + 1) = SumFunctionOnSet(g, 1 .. n) + f[n + 1]
  <2> HIDE DEF f, g
  <2> QED BY <1>5, <1>6, SumStep
<1>9. n + 1 \in 1 .. n + 1 /\ n \in 1 .. n OBVIOUS
<1>10. f[n + 1] = At(evs[n + 1], l) - (IF l # path[n] THEN Price(path[n]) ELSE 0)
  BY <1>1, <1>5, <1>7, <1>9
<1>11. At(evs[n + 1], l) \in Int /\ Price(path[n]) \in Int BY <1>1, <1>3, <1>4, <1>9
<1>12. /\ Gain(evs, path, n) = SumFunctionOnSet(g, 1 .. n)
       /\ Gain(evs, longer, n + 1) = SumFunctionOnSet(f, 1 .. n + 1)
  BY DEF Gain
<1> HIDE DEF f, g
<1> QED BY <1>8, <1>10, <1>11, <1>12 DEF longer

LEMMA GainAloneStep ==
    ASSUME NEW evs, Evidence(evs), NEW n \in Nat, n + 1 <= Len(evs), NEW l \in Label
    PROVE  /\ GainAlone(evs, l, n) \in Int
           /\ GainAlone(evs, l, n + 1) = GainAlone(evs, l, n) + At(evs[n + 1], l)
<1> DEFINE f == Alone(evs, l, n + 1)
           g == Alone(evs, l, n)
<1>1. Len(evs) \in Nat BY SeqFacts DEF Evidence
<1>2. \A i \in 1 .. n + 1 : f[i] = At(evs[i], l) /\ At(evs[i], l) \in Int
  BY <1>1 DEF Evidence, Alone
<1>3. \A i \in 1 .. n : g[i] = f[i] BY <1>2 DEF Alone
<1> HIDE DEF f, g
<1>4. /\ SumFunctionOnSet(g, 1 .. n) \in Int
      /\ SumFunctionOnSet(f, 1 .. n + 1) = SumFunctionOnSet(g, 1 .. n) + f[n + 1]
  BY <1>2, <1>3, SumStep
<1> QED BY <1>2, <1>4 DEF GainAlone, f, g

\* The cheapest of finitely many hypotheses is one of them.
LEMMA CheapestFacts ==
    ASSUME NEW hyps \in SUBSET Hyp, IsFiniteSet(hyps), hyps # {}
    PROVE  Cheapest(hyps) \in hyps /\ \A h \in hyps : Cheapest(hyps).cost <= h.cost
<1> DEFINE Before(x, y) == x.cost < y.cost \/ (x.cost = y.cost /\ Rank(x.label) <= Rank(y.label))
           R == {p \in hyps \X hyps : Before(p[1], p[2])}
<1>1. \A x, y \in hyps : <<x, y>> \in R <=> Before(x, y) OBVIOUS
<1>2. \A h \in hyps : h.cost \in Int /\ Rank(h.label) \in Int
  <2> SUFFICES ASSUME NEW h \in hyps PROVE h.cost \in Int /\ Rank(h.label) \in Int OBVIOUS
  <2>1. h.cost \in Int /\ h.label \in Label BY DEF Hyp
  <2>2. \E i \in DOMAIN Labels : Labels[i] = h.label BY <2>1 DEF Label, Range
  <2>3. Rank(h.label) \in DOMAIN Labels BY <2>2 DEF Rank
  <2>4. IsSeq(Labels) BY RegionsAssumption DEF IsSeq
  <2>5. DOMAIN Labels = 1 .. Len(Labels) BY <2>4, SeqFacts
  <2> QED BY <2>1, <2>3, <2>5
<1>3. \A x, y \in hyps : Before(x, y) \/ Before(y, x) BY <1>2
<1>4. \A x, y, z \in hyps : Before(x, y) /\ Before(y, z) => Before(x, z) BY <1>2
<1> HIDE DEF Before, R
<1>5. \E m \in hyps : \A x \in hyps \ {m} : <<m, x>> \in R
  <2>1. \A x, y \in hyps : x # y => <<x, y>> \in R \/ <<y, x>> \in R BY <1>1, <1>3
  <2>2. \A x, y, z \in hyps : <<x, y>> \in R /\ <<y, z>> \in R => <<x, z>> \in R BY <1>1, <1>4
  <2> QED BY ONLY IsFiniteSet(hyps), hyps # {}, <2>1, <2>2, FirstExists
<1>6. \E m \in hyps : \A x \in hyps : Before(m, x) BY <1>1, <1>3, <1>5
<1>7. Cheapest(hyps) = CHOOSE h \in hyps : \A o \in hyps : Before(h, o) BY DEF Cheapest, Before
<1>8. Cheapest(hyps) \in hyps /\ \A x \in hyps : Before(Cheapest(hyps), x) BY <1>6, <1>7
<1>9. \A x \in hyps : Cheapest(hyps).cost <= x.cost BY <1>2, <1>8 DEF Before
<1> QED BY <1>8, <1>9

\* What becomes of a hypothesis with one more line.
Step(hyps, ev) ==
    LET best   == Cheapest(hyps)
        switch == best.cost + SwitchPenalty + At(Sticky, best.label)
    IN  [h \in hyps |-> IF h.cost <= switch THEN Extend(h, h.cost, h.label, ev)
                        ELSE Extend(best, switch, h.label, ev)]

LEMMA StepFacts ==
    ASSUME NEW hyps \in SUBSET Hyp, IsFiniteSet(hyps), hyps # {},
           NEW ev, \A l \in Label : At(ev, l) \in Int
    PROVE  /\ Decode(hyps, ev) = {Step(hyps, ev)[h] : h \in hyps}
           /\ IsFiniteSet(Decode(hyps, ev)) /\ Decode(hyps, ev) # {}
           /\ Decode(hyps, ev) \in SUBSET Hyp
           /\ \A h \in hyps : \E o \in hyps : \E cost \in Int :
                 /\ Step(hyps, ev)[h] = Extend(o, cost, h.label, ev)
                 /\ cost <= h.cost
                 /\ cost >= o.cost + (IF h.label # o.label THEN Price(o.label) ELSE 0)
<1> DEFINE best   == Cheapest(hyps)
           switch == best.cost + SwitchPenalty + At(Sticky, best.label)
           Next1(h) == IF h.cost <= switch THEN Extend(h, h.cost, h.label, ev)
                       ELSE Extend(best, switch, h.label, ev)
<1>1. best \in hyps BY CheapestFacts
<1>2. \A h \in hyps : h.cost \in Int /\ h.label \in Label /\ h.path \in Seq(Label) BY DEF Hyp
<1>3. best.cost \in Int /\ best.label \in Label /\ best.path \in Seq(Label) BY <1>1, <1>2
<1>4. switch = best.cost + Price(best.label) /\ switch \in Int /\ Price(best.label) \in Nat
  <2>1. SwitchPenalty \in Nat /\ At(Sticky, best.label) \in Nat BY RegionsAssumption DEF At
  <2> HIDE DEF best
  <2> QED BY <1>3, <2>1 DEF Price
<1>5. \A h \in hyps : Step(hyps, ev)[h] = Next1(h) BY Zenon DEF Step
<1>6. Decode(hyps, ev) = {Next1(h) : h \in hyps} BY Zenon DEF Decode
<1> HIDE DEF best, switch
<1>7. \A h \in hyps : \E o \in hyps : \E cost \in Int :
                 /\ Next1(h) = Extend(o, cost, h.label, ev)
                 /\ cost <= h.cost
                 /\ cost >= o.cost + (IF h.label # o.label THEN Price(o.label) ELSE 0)
  <2> SUFFICES ASSUME NEW h \in hyps
               PROVE  \E o \in hyps : \E cost \in Int :
                         /\ Next1(h) = Extend(o, cost, h.label, ev)
                         /\ cost <= h.cost
                         /\ cost >= o.cost + (IF h.label # o.label THEN Price(o.label) ELSE 0)
    OBVIOUS
  <2>1. CASE h.cost <= switch
    <3>1. h.cost >= h.cost + 0 /\ h.cost <= h.cost BY <1>2
    <3> QED BY <1>2, <2>1, <3>1
  <2>2. CASE ~ (h.cost <= switch)
    <3>1. switch <= h.cost BY <1>2, <1>4, <2>2
    <3>2. switch >= best.cost + (IF h.label # best.label THEN Price(best.label) ELSE 0)
      BY <1>3, <1>4
    <3> QED BY <1>1, <1>4, <2>2, <3>1, <3>2
  <2> QED BY <2>1, <2>2
<1> HIDE DEF Next1
<1>8. Decode(hyps, ev) = {Step(hyps, ev)[h] : h \in hyps} BY <1>5, <1>6
<1>9. IsFiniteSet(Decode(hyps, ev)) BY <1>8, ImageIsFinite
<1>10. Decode(hyps, ev) # {} BY <1>8
<1>11. ASSUME NEW x \in Decode(hyps, ev) PROVE x \in Hyp
  <2>1. PICK h \in hyps : x = Next1(h) BY <1>6
  <2>2. PICK o \in hyps, cost \in Int : Next1(h) = Extend(o, cost, h.label, ev) BY <1>7
  <2>3. h.label \in Label /\ At(ev, h.label) \in Int /\ o.path \in Seq(Label) BY <1>2
  <2>4. x = [label |-> h.label, cost |-> cost - At(ev, h.label), path |-> Append(o.path, h.label)]
    BY <2>1, <2>2 DEF Extend
  <2>5. cost - At(ev, h.label) \in Int /\ Append(o.path, h.label) \in Seq(Label) BY <2>3
  <2> QED BY <2>3, <2>4, <2>5 DEF Hyp
<1> QED BY <1>5, <1>7, <1>8, <1>9, <1>10, <1>11

LEMMA PoolStep ==
    ASSUME NEW evs, Evidence(evs), NEW n \in Nat, n >= 1, n + 1 <= Len(evs),
           NEW hyps, Pool(hyps, evs, n)
    PROVE  Pool(Decode(hyps, evs[n + 1]), evs, n + 1)
<1> DEFINE ev == evs[n + 1]
           step == Step(hyps, ev)
<1>1. /\ hyps \in SUBSET Hyp /\ IsFiniteSet(hyps) /\ hyps # {}
      /\ \A h \in hyps : Sound(h, evs, n)
  BY DEF Pool, Sound
<1>2. \A l \in Label : At(ev, l) \in Int
  <2>1. n + 1 \in 1 .. Len(evs) BY SeqFacts DEF Evidence
  <2> QED BY <2>1 DEF Evidence
<1> HIDE DEF ev
<1>3. /\ Decode(hyps, ev) = {step[h] : h \in hyps}
      /\ IsFiniteSet(Decode(hyps, ev)) /\ Decode(hyps, ev) # {}
      /\ Decode(hyps, ev) \in SUBSET Hyp
      /\ \A h \in hyps : \E o \in hyps : \E cost \in Int :
            /\ step[h] = Extend(o, cost, h.label, ev)
            /\ cost <= h.cost
            /\ cost >= o.cost + (IF h.label # o.label THEN Price(o.label) ELSE 0)
  BY ONLY <1>1, <1>2, StepFacts, Zenon
<1> HIDE DEF step
<1>4. ASSUME NEW h \in hyps
      PROVE  /\ Sound(step[h], evs, n + 1) /\ step[h].label = h.label
             /\ step[h].cost <= h.cost - At(ev, h.label)
  <2>1. PICK o \in hyps, cost \in Int :
            /\ step[h] = Extend(o, cost, h.label, ev)
            /\ cost <= h.cost
            /\ cost >= o.cost + (IF h.label # o.label THEN Price(o.label) ELSE 0)
    BY <1>3
  <2> DEFINE l == h.label
             path == o.path
  <2>2. /\ l \in Label /\ h.cost \in Int /\ path \in Seq(Label) /\ o.cost \in Int /\ o.label \in Label
        /\ Len(path) = n /\ path[n] = o.label /\ o.cost >= -Gain(evs, path, n)
    BY <1>1 DEF Sound, Hyp
  <2>3. step[h] = [label |-> l, cost |-> cost - At(ev, l), path |-> Append(path, l)]
    BY <2>1 DEF Extend
  <2>4. step[h] \in Hyp BY <1>3
  <2>5. At(ev, l) \in Int /\ Price(o.label) \in Int
    <3>1. At(ev, l) \in Int BY <1>2, <2>2
    <3>2. Price(o.label) \in Int BY ONLY <2>2, LabelFacts
    <3> QED BY <3>1, <3>2
  <2>6. /\ Gain(evs, path, n) \in Int
        /\ Gain(evs, Append(path, l), n + 1)
             = Gain(evs, path, n) + At(ev, l) - (IF l # path[n] THEN Price(path[n]) ELSE 0)
    BY <2>2, GainStep DEF ev
  <2>7. Len(Append(path, l)) = n + 1 /\ Append(path, l)[n + 1] = l BY <2>2
  <2> HIDE DEF l, path
  <2>8. /\ step[h].label = l /\ step[h].cost = cost - At(ev, l) /\ step[h].path = Append(path, l)
    BY <2>3
  <2> DEFINE price == IF l # path[n] THEN Price(path[n]) ELSE 0
             gain == Gain(evs, path, n)
             more == Gain(evs, Append(path, l), n + 1)
  <2>9. price \in Int /\ cost >= o.cost + price BY <2>1, <2>2, <2>5 DEF l
  <2>10. gain \in Int /\ more = gain + At(ev, l) - price /\ o.cost >= -gain BY <2>2, <2>6
  <2> HIDE DEF price, gain, more
  <2>11. cost - At(ev, l) >= -more BY <2>2, <2>5, <2>9, <2>10
  <2>12. cost - At(ev, l) <= h.cost - At(ev, l) BY <2>1, <2>2, <2>5
  <2> QED BY <2>4, <2>7, <2>8, <2>11, <2>12 DEF Sound, more, l
<1>5. \A x \in Decode(hyps, ev) : Sound(x, evs, n + 1) BY <1>3, <1>4
<1>6. ASSUME NEW l \in Label
      PROVE  \E x \in Decode(hyps, ev) : x.label = l /\ x.cost <= -GainAlone(evs, l, n + 1)
  <2>1. PICK h \in hyps : h.label = l /\ h.cost <= -GainAlone(evs, l, n) BY DEF Pool
  <2>2. step[h] \in Decode(hyps, ev) /\ step[h].label = l /\ step[h].cost <= h.cost - At(ev, l)
    BY <1>3, <1>4, <2>1
  <2>3. GainAlone(evs, l, n) \in Int /\ GainAlone(evs, l, n + 1) = GainAlone(evs, l, n) + At(ev, l)
    BY GainAloneStep DEF ev
  <2>4. h.cost \in Int /\ At(ev, l) \in Int /\ step[h].cost \in Int
    BY <1>1, <1>2, <1>3, <2>2 DEF Hyp
  <2> DEFINE a == GainAlone(evs, l, n)
             b == GainAlone(evs, l, n + 1)
  <2>5. a \in Int /\ b = a + At(ev, l) /\ h.cost <= -a BY <2>1, <2>3
  <2> HIDE DEF a, b
  <2>6. step[h].cost <= -b BY <2>2, <2>4, <2>5
  <2> QED BY <2>2, <2>6 DEF b
<1> QED BY <1>3, <1>5, <1>6 DEF Pool, ev

HypothesesIs(f, evs) ==
    f = [k \in 1 .. Len(evs) |->
            IF k = 1 THEN {[label |-> l, cost |-> -At(evs[1], l), path |-> <<l>>] : l \in Range(Labels)}
            ELSE Decode(f[k - 1], evs[k])]

LEMMA HypothesesExist ==
    ASSUME NEW evs, Evidence(evs), evs # <<>>
    PROVE  HypothesesIs(Hypotheses(evs), evs)
<1> DEFINE N == Len(evs)
           first == {[label |-> l, cost |-> -At(evs[1], l), path |-> <<l>>] : l \in Label}
           V == {H \in SUBSET Hyp : IsFiniteSet(H) /\ H # {}}
           step == [kv \in Nat \X V |-> Decode(kv[2], evs[kv[1]])]
           chosen == CHOOSE f : HypothesesIs(f, evs)
<1>1. N \in Nat /\ N >= 1 /\ 1 \in 1 .. N BY SeqFacts DEF Evidence
<1>2. first \in V
  <2> DEFINE g == [l \in Label |-> [label |-> l, cost |-> -At(evs[1], l), path |-> <<l>>]]
  <2>1. first = {g[l] : l \in Label} OBVIOUS
  <2>2. \A l \in Label : g[l] \in Hyp
    <3> SUFFICES ASSUME NEW l \in Label PROVE g[l] \in Hyp OBVIOUS
    <3>1. At(evs[1], l) \in Int BY <1>1 DEF Evidence
    <3>2. <<l>> \in Seq(Label) /\ -At(evs[1], l) \in Int BY <3>1
    <3> QED BY <3>2 DEF Hyp
  <2> HIDE DEF g, first
  <2>3. IsFiniteSet(first) BY <2>1, LabelFacts, ImageIsFinite
  <2>4. first # {} BY <2>1, LabelFacts
  <2>5. first \in SUBSET Hyp BY <2>1, <2>2
  <2> QED BY <2>3, <2>4, <2>5
<1>3. \A k \in 2 .. N : \A v \in V : step[<<k, v>>] = Decode(v, evs[k])
  <2> SUFFICES ASSUME NEW k \in 2 .. N, NEW v \in V PROVE step[<<k, v>>] = Decode(v, evs[k]) OBVIOUS
  <2>1. <<k, v>> \in Nat \X V /\ <<k, v>>[1] = k /\ <<k, v>>[2] = v OBVIOUS
  <2> QED BY <2>1, Zenon
<1>4. \A k \in 2 .. N : \A v \in V : step[<<k, v>>] \in V
  <2> SUFFICES ASSUME NEW k \in 2 .. N, NEW v \in V PROVE step[<<k, v>>] \in V OBVIOUS
  <2>1. k \in 1 .. N BY <1>1
  <2>2. \A l \in Label : At(evs[k], l) \in Int BY <2>1 DEF Evidence
  <2>3. v \in SUBSET Hyp /\ IsFiniteSet(v) /\ v # {} OBVIOUS
  <2>4. Decode(v, evs[k]) \in SUBSET Hyp /\ IsFiniteSet(Decode(v, evs[k])) /\ Decode(v, evs[k]) # {}
    BY <2>2, <2>3, StepFacts
  <2> HIDE DEF step
  <2> QED BY <1>3, <2>4
<1> HIDE DEF step, V, first, N
<1>5. PICK h : RecursiveFromOne(h, N, first, step) /\ \A k \in 1 .. N : h[k] \in V
  BY <1>1, <1>2, <1>4, RecursionFromOne
<1>6. HypothesesIs(h, evs)
  <2>1. ASSUME NEW k \in 1 .. N PROVE h[k] = IF k = 1 THEN first ELSE Decode(h[k - 1], evs[k])
    <3>1. CASE k = 1 BY <1>5, <3>1 DEF RecursiveFromOne
    <3>2. CASE k # 1
      <4>1. k \in 2 .. N /\ k - 1 \in 1 .. N BY <1>1, <3>2
      <4>2. h[k - 1] \in V BY <1>5, <4>1
      <4>3. h[k] = step[<<k, h[k - 1]>>] BY <1>5, <3>2 DEF RecursiveFromOne
      <4> QED BY <1>3, <3>2, <4>1, <4>2, <4>3
    <3> QED BY <3>1, <3>2
  <2>2. h = [k \in 1 .. N |-> h[k]] BY <1>5 DEF RecursiveFromOne
  <2>3. h = [k \in 1 .. N |-> IF k = 1 THEN first ELSE Decode(h[k - 1], evs[k])] BY <2>1, <2>2
  <2> QED BY <2>3 DEF HypothesesIs, N, first, Label
<1>7. HypothesesIs(chosen, evs) BY <1>6
<1>8. Hypotheses(evs) = chosen BY DEF Hypotheses, HypothesesIs
<1> QED BY <1>7, <1>8

\* The decoded labelling gains at least what any single label gains.
LEMMA ViterbiFacts ==
    ASSUME NEW evs, Evidence(evs), evs # <<>>
    PROVE  /\ Viterbi(evs) \in Seq(Label) /\ Len(Viterbi(evs)) = Len(evs)
           /\ \A l \in Label : Gain(evs, Viterbi(evs), Len(evs)) >= GainAlone(evs, l, Len(evs))
<1> DEFINE N == Len(evs)
           H == Hypotheses(evs)
           A == {n \in Nat : n + 1 <= N => Pool(H[n + 1], evs, n + 1)}
<1>1. N \in Nat /\ N >= 1 /\ 1 \in 1 .. N /\ N \in 1 .. N BY SeqFacts DEF Evidence
<1>2. \A k \in 1 .. N : H[k] =
            IF k = 1 THEN {[label |-> l, cost |-> -At(evs[1], l), path |-> <<l>>] : l \in Label}
            ELSE Decode(H[k - 1], evs[k])
  <2>1. HypothesesIs(H, evs) BY HypothesesExist
  <2> HIDE DEF H
  <2> QED BY <2>1, Zenon DEF HypothesesIs, Label
<1> HIDE DEF N, H
<1>3. 0 \in A
  <2> SUFFICES Pool(H[1], evs, 1) OBVIOUS
  <2> DEFINE g == [l \in Label |-> [label |-> l, cost |-> -At(evs[1], l), path |-> <<l>>]]
  <2>1. H[1] = {g[l] : l \in Label}
    <3>1. H[1] = {[label |-> l, cost |-> -At(evs[1], l), path |-> <<l>>] : l \in Label} BY <1>1, <1>2
    <3>2. {[label |-> l, cost |-> -At(evs[1], l), path |-> <<l>>] : l \in Label} = {g[l] : l \in Label}
      OBVIOUS
    <3> HIDE DEF g
    <3> QED BY <3>1, <3>2
  <2>2. ASSUME NEW l \in Label
        PROVE  /\ Sound(g[l], evs, 1) /\ g[l].label = l
               /\ g[l].cost <= -GainAlone(evs, l, 1)
    <3>1. At(evs[1], l) \in Int BY <1>1 DEF Evidence, N
    <3>2. g[l] = [label |-> l, cost |-> -At(evs[1], l), path |-> <<l>>] OBVIOUS
    <3>3. <<l>> \in Seq(Label) /\ Len(<<l>>) = 1 /\ <<l>>[1] = l OBVIOUS
    <3>4. 1 .. 1 = {1} OBVIOUS
    <3>5. \A f : f[1] \in Int => SumFunctionOnSet(f, 1 .. 1) = f[1]
      <4> SUFFICES ASSUME NEW f, f[1] \in Int PROVE SumFunctionOnSet(f, 1 .. 1) = f[1] OBVIOUS
      <4>1. \A i \in 1 .. 0 + 1 : f[i] \in Int OBVIOUS
      <4>2. SumFunctionOnSet(f, 1 .. 0 + 1) = SumFunctionOnSet(f, 1 .. 0) + f[0 + 1] BY <4>1, SumStep
      <4>3. 1 .. 0 = {} /\ 0 + 1 = 1 OBVIOUS
      <4>4. SumFunctionOnSet(f, 1 .. 0) = 0 BY <4>3, SumOfNone
      <4> QED BY <4>2, <4>3, <4>4
    <3>6. Gain(evs, <<l>>, 1) = At(evs[1], l)
      <4>1. SwitchCost(<<l>>, 1) = 0 BY DEF SwitchCost
      <4>2. Gains(evs, <<l>>, 1)[1] = At(evs[1], l) BY <3>1, <3>3, <4>1 DEF Gains
      <4> QED BY <3>1, <3>5, <4>2 DEF Gain
    <3>7. GainAlone(evs, l, 1) = At(evs[1], l)
      <4>1. Alone(evs, l, 1)[1] = At(evs[1], l) BY DEF Alone
      <4> QED BY <3>1, <3>5, <4>1 DEF GainAlone
    <3> HIDE DEF g
    <3>8. g[l] \in Hyp BY <3>1, <3>2, <3>3 DEF Hyp
    <3>9. g[l].label = l /\ g[l].cost = -At(evs[1], l) /\ g[l].path = <<l>> BY <3>2
    <3>10. Sound(g[l], evs, 1) BY <3>1, <3>3, <3>6, <3>8, <3>9 DEF Sound
    <3> QED BY <3>1, <3>7, <3>9, <3>10
  <2> HIDE DEF g
  <2>3. IsFiniteSet(H[1]) /\ H[1] # {} BY <2>1, LabelFacts, ImageIsFinite
  <2> QED BY <2>1, <2>2, <2>3 DEF Pool
<1>4. ASSUME NEW n \in Nat, n \in A PROVE n + 1 \in A
  <2> SUFFICES ASSUME (n + 1) + 1 <= N PROVE Pool(H[(n + 1) + 1], evs, (n + 1) + 1) OBVIOUS
  <2> DEFINE k == n + 1
  <2>1. k \in Nat /\ k >= 1 /\ k + 1 <= Len(evs) /\ k + 1 \in 1 .. N /\ k + 1 # 1 /\ (k + 1) - 1 = k
    BY <1>1 DEF N
  <2>2. Pool(H[k], evs, k) BY <1>1, <1>4
  <2> HIDE DEF k
  <2>3. H[k + 1] = Decode(H[k], evs[k + 1]) BY <1>2, <2>1
  <2>4. Pool(H[k + 1], evs, k + 1) BY <2>1, <2>2, <2>3, PoolStep
  <2> QED BY <2>4 DEF k
<1>5. Nat \subseteq A
  <2> HIDE DEF A
  <2> QED BY <1>3, <1>4, NatInductionOnSet
<1>6. Pool(H[N], evs, N)
  <2>1. N - 1 \in Nat /\ (N - 1) + 1 = N BY <1>1
  <2>2. N - 1 \in A BY <1>5, <2>1
  <2> QED BY <1>1, <2>1, <2>2
<1> DEFINE best == Cheapest(H[N])
<1>7. best \in H[N] /\ \A h \in H[N] : best.cost <= h.cost
  <2>1. H[N] \in SUBSET Hyp /\ IsFiniteSet(H[N]) /\ H[N] # {} BY <1>6 DEF Pool, Sound
  <2> QED BY <2>1, CheapestFacts
<1>8. Viterbi(evs) = best.path BY DEF Viterbi, H, N
<1> HIDE DEF best
<1>9. Sound(best, evs, N) BY <1>6, <1>7 DEF Pool
<1>10. best.path \in Seq(Label) /\ Len(best.path) = N /\ best.cost \in Int
  BY <1>9 DEF Sound, Hyp
<1>11. Gain(evs, best.path, N) \in Int /\ best.cost >= -Gain(evs, best.path, N)
  <2>1. IsFiniteSet(1 .. N) BY <1>1, FS_Interval
  <2>2. \A i \in 1 .. N : Gains(evs, best.path, N)[i] \in Int
    <3> SUFFICES ASSUME NEW i \in 1 .. N PROVE Gains(evs, best.path, N)[i] \in Int OBVIOUS
    <3>1. best.path[i] \in Label /\ (i > 1 => best.path[i - 1] \in Label)
      <4>1. i > 1 => i - 1 \in 1 .. N BY <1>1
      <4> QED BY <1>10, <4>1, ElementOfSeq
    <3>2. At(evs[i], best.path[i]) \in Int BY <3>1 DEF Evidence, N
    <3>3. SwitchCost(best.path, i) \in Int BY <3>1, LabelFacts DEF SwitchCost
    <3> QED BY <3>2, <3>3 DEF Gains
  <2>3. Gain(evs, best.path, N) \in Int BY <2>1, <2>2, SumIsInt DEF Gain
  <2> QED BY <1>9, <2>3 DEF Sound
<1>12. ASSUME NEW l \in Label PROVE Gain(evs, best.path, N) >= GainAlone(evs, l, N)
  <2>1. PICK h \in H[N] : h.cost <= -GainAlone(evs, l, N) BY <1>6 DEF Pool
  <2>2. best.cost <= h.cost /\ h.cost \in Int BY <1>6, <1>7 DEF Pool, Sound, Hyp
  <2>3. GainAlone(evs, l, N) \in Int
    <3>1. \A i \in 1 .. N : Alone(evs, l, N)[i] \in Int BY DEF Evidence, Alone, N
    <3>2. IsFiniteSet(1 .. N) BY <1>1, FS_Interval
    <3> QED BY <3>1, <3>2, SumIsInt DEF GainAlone
  <2> DEFINE a == Gain(evs, best.path, N)
             b == GainAlone(evs, l, N)
  <2>4. a \in Int /\ b \in Int /\ best.cost >= -a /\ h.cost <= -b BY <1>11, <2>1, <2>3
  <2> HIDE DEF a, b
  <2>5. a >= b BY <1>10, <2>2, <2>4
  <2> QED BY <2>5 DEF a, b
<1> QED BY <1>8, <1>10, <1>12 DEF N

-----------------------------------------------------------------------------
(***************************************************************************)
(* segment.                                                                *)
(***************************************************************************)
\* What does not change from one place to the next is the same all over.
LEMMA SameAllOver ==
    ASSUME NEW a \in Int, NEW b \in Int, NEW f, \A i \in a + 1 .. b : f[i] = f[i - 1]
    PROVE  \A i \in a .. b : f[i] = f[a]
<1> DEFINE A == {n \in Nat : a + n <= b => f[a + n] = f[a]}
<1>1. 0 \in A
  <2>1. a + 0 = a OBVIOUS
  <2> QED BY <2>1
<1>2. ASSUME NEW n \in Nat, n \in A PROVE n + 1 \in A
  <2> SUFFICES ASSUME a + (n + 1) <= b PROVE f[a + (n + 1)] = f[a] OBVIOUS
  <2>1. a + (n + 1) \in a + 1 .. b /\ (a + (n + 1)) - 1 = a + n /\ a + n <= b OBVIOUS
  <2>2. f[a + (n + 1)] = f[(a + (n + 1)) - 1] BY <2>1
  <2> QED BY <1>2, <2>1, <2>2
<1>3. Nat \subseteq A
  <2> HIDE DEF A
  <2> QED BY <1>1, <1>2, NatInductionOnSet
<1> SUFFICES ASSUME NEW i \in a .. b PROVE f[i] = f[a] OBVIOUS
<1>4. i - a \in Nat /\ a + (i - a) = i /\ i <= b OBVIOUS
<1>5. i - a \in A BY <1>3, <1>4
<1> QED BY <1>4, <1>5

LEMMA LabelRunsFacts ==
    ASSUME NEW from \in Int, NEW labels, IsSeq(labels), labels # <<>>
    PROVE  LET rs == LabelRuns(from, labels)
           IN  /\ RegionCover(rs, from, from + Len(labels) - 1)
               /\ \A k \in 1 .. Len(rs) :
                     /\ rs[k].exact = FALSE
                     /\ \A p \in rs[k].from .. rs[k].to : labels[p - from + 1] = rs[k].label
<1> DEFINE n == Len(labels)
           cuts == {i \in 2 .. n : labels[i] # labels[i - 1]}
           runs == Runs(1, n, cuts)
           rs == LabelRuns(from, labels)
<1>1. n \in Nat /\ n >= 1 BY SeqFacts
<1>2. /\ IsSeq(runs) /\ Covers(Lows(runs), Highs(runs), Len(runs), 1, n)
      /\ \A k \in DOMAIN runs : \A i \in runs[k][1] + 1 .. runs[k][2] : i \notin cuts
  <2> HIDE DEF n, cuts
  <2> QED BY <1>1, RunsFacts
<1>3. rs = [k \in DOMAIN runs |->
            RegionOf(from + runs[k][1] - 1, from + runs[k][2] - 1, labels[runs[k][1]], FALSE)]
  BY Zenon DEF LabelRuns
<1>4. \A i \in 2 .. n : i \notin cuts => labels[i] = labels[i - 1] OBVIOUS
<1> DEFINE m == Len(runs)
<1>5. m \in Nat /\ DOMAIN runs = 1 .. m BY <1>2, SeqFacts
<1>6. \A k \in 1 .. m : Lows(runs)[k] = runs[k][1] /\ Highs(runs)[k] = runs[k][2]
  BY <1>5 DEF Lows, Highs
<1> HIDE DEF n, cuts, runs, rs, m
<1>7. \A k \in 1 .. m : 1 <= Lows(runs)[k] /\ Highs(runs)[k] <= n
  BY <1>2, CoverFacts DEF m
<1>8. /\ m >= 1 /\ runs[1][1] = 1 /\ runs[m][2] = n
      /\ \A k \in 1 .. m : /\ runs[k][1] \in Int /\ runs[k][2] \in Int /\ runs[k][1] <= runs[k][2]
                           /\ 1 <= runs[k][1] /\ runs[k][2] <= n
      /\ \A k \in 2 .. m : runs[k][1] = runs[k - 1][2] + 1
  <2>1. \A k \in 2 .. m : k \in 1 .. m /\ k - 1 \in 1 .. m BY <1>5
  <2>2. m >= 1 /\ 1 \in 1 .. m /\ m \in 1 .. m BY <1>2, <1>5 DEF Covers, m
  <2>3. \A k \in 2 .. m : Lows(runs)[k] = Highs(runs)[k - 1] + 1 BY <1>2 DEF Covers, m
  <2>4. \A k \in 2 .. m : runs[k][1] = runs[k - 1][2] + 1
    <3> SUFFICES ASSUME NEW k \in 2 .. m PROVE runs[k][1] = runs[k - 1][2] + 1 OBVIOUS
    <3>1. Lows(runs)[k] = runs[k][1] /\ Highs(runs)[k - 1] = runs[k - 1][2] BY <1>6, <2>1
    <3> QED BY <2>3, <3>1
  <2>5. Lows(runs)[1] = 1 /\ Highs(runs)[m] = n BY <1>2 DEF Covers, m
  <2>6. \A k \in 1 .. m : Lows(runs)[k] \in Int /\ Highs(runs)[k] \in Int /\ Lows(runs)[k] <= Highs(runs)[k]
    BY <1>2 DEF Covers, m
  <2> QED BY <1>6, <1>7, <2>2, <2>4, <2>5, <2>6
<1>9. \A k \in 1 .. m : /\ rs[k].from = from + runs[k][1] - 1 /\ rs[k].to = from + runs[k][2] - 1
                        /\ rs[k].label = labels[runs[k][1]] /\ rs[k].exact = FALSE
  BY <1>3, <1>5 DEF RegionOf
<1>10. IsSeq(rs) /\ Len(rs) = m
  <2>1. rs = [k \in 1 .. m |-> rs[k]] BY <1>3, <1>5
  <2> QED BY <1>5, <2>1, SeqOfFunction
<1>11. RegionCover(rs, from, from + n - 1)
  <2>1. m >= 1 /\ rs[1].from = from /\ rs[m].to = from + n - 1
    <3>1. m >= 1 /\ 1 \in 1 .. m /\ m \in 1 .. m BY <1>5, <1>8
    <3>2. rs[1].from = from + 1 - 1 /\ rs[m].to = from + n - 1 BY <1>8, <1>9, <3>1
    <3> QED BY <3>1, <3>2
  <2>2. \A k \in 1 .. m : rs[k].from \in Int /\ rs[k].to \in Int /\ rs[k].from <= rs[k].to
    <3> SUFFICES ASSUME NEW k \in 1 .. m
                 PROVE  rs[k].from \in Int /\ rs[k].to \in Int /\ rs[k].from <= rs[k].to
      OBVIOUS
    <3>1. runs[k][1] \in Int /\ runs[k][2] \in Int /\ runs[k][1] <= runs[k][2] BY <1>8
    <3>2. rs[k].from = from + runs[k][1] - 1 /\ rs[k].to = from + runs[k][2] - 1 BY <1>9
    <3> QED BY <3>1, <3>2
  <2>3. \A k \in 2 .. m : rs[k].from = rs[k - 1].to + 1
    <3> SUFFICES ASSUME NEW k \in 2 .. m PROVE rs[k].from = rs[k - 1].to + 1 OBVIOUS
    <3>1. k \in 1 .. m /\ k - 1 \in 1 .. m BY <1>5
    <3>2. runs[k][1] = runs[k - 1][2] + 1 /\ runs[k - 1][2] \in Int BY <1>8, <3>1
    <3>3. rs[k].from = from + runs[k][1] - 1 /\ rs[k - 1].to = from + runs[k - 1][2] - 1 BY <1>9, <3>1
    <3> QED BY <3>2, <3>3
  <2>4. from + n - 1 \in Int BY <1>1
  <2>5. /\ Len(rs) >= 1 /\ rs[1].from = from /\ rs[Len(rs)].to = from + n - 1
        /\ \A k \in 1 .. Len(rs) : rs[k].from \in Int /\ rs[k].to \in Int /\ rs[k].from <= rs[k].to
        /\ \A k \in 2 .. Len(rs) : rs[k].from = rs[k - 1].to + 1
    BY ONLY <1>10, <2>1, <2>2, <2>3
  <2>6. PICK last : last = from + n - 1 OBVIOUS
  <2>7. RegionCover(rs, from, last)
    BY ONLY from \in Int, <1>10, <2>4, <2>5, <2>6, RegionCoverIs
  <2> QED BY <2>6, <2>7
<1>12. ASSUME NEW k \in 1 .. m, NEW p \in rs[k].from .. rs[k].to
       PROVE  labels[p - from + 1] = rs[k].label
  <2>1. p - from + 1 \in runs[k][1] .. runs[k][2]
    <3>1. /\ rs[k].from = from + runs[k][1] - 1 /\ rs[k].to = from + runs[k][2] - 1
          /\ runs[k][1] \in Int /\ runs[k][2] \in Int
      BY <1>8, <1>9
    <3>2. PICK lo \in Int, hi \in Int : lo = runs[k][1] /\ hi = runs[k][2] BY <3>1
    <3>3. p \in from + lo - 1 .. from + hi - 1 BY <3>1, <3>2
    <3>4. p - from + 1 \in lo .. hi BY ONLY from \in Int, lo \in Int, hi \in Int, <3>3
    <3> QED BY <3>2, <3>4
  <2>2. \A i \in runs[k][1] + 1 .. runs[k][2] : labels[i] = labels[i - 1]
    <3> SUFFICES ASSUME NEW i \in runs[k][1] + 1 .. runs[k][2] PROVE labels[i] = labels[i - 1] OBVIOUS
    <3>1. i \in 2 .. n BY <1>1, <1>8
    <3>2. i \notin cuts BY <1>2, <1>5
    <3> QED BY <1>4, <3>1, <3>2
  <2>3. \A i \in runs[k][1] .. runs[k][2] : labels[i] = labels[runs[k][1]]
    <3>1. PICK lo \in Int, hi \in Int : lo = runs[k][1] /\ hi = runs[k][2] BY <1>8
    <3>2. \A i \in lo + 1 .. hi : labels[i] = labels[i - 1] BY <2>2, <3>1
    <3>3. \A i \in lo .. hi : labels[i] = labels[lo]
      BY ONLY lo \in Int, hi \in Int, <3>2, SameAllOver
    <3> QED BY <3>1, <3>3
  <2>4. rs[k].label = labels[runs[k][1]] BY <1>9
  <2>5. labels[p - from + 1] = labels[runs[k][1]] BY <2>1, <2>3
  <2> QED BY <2>4, <2>5
<1> QED BY <1>9, <1>10, <1>11, <1>12 DEF rs, n

\* Scored lines; the evidence of those from a to b.
Scored(scored) ==
    IsSeq(scored) /\ scored # <<>> /\ \A i \in 1 .. Len(scored) : \A l \in Label : At(scored[i].ev, l) \in Int
Ev(scored, a, b) == [i \in 1 .. (b - a + 1) |-> scored[a + i - 1].ev]

LEMMA EvFacts ==
    ASSUME NEW scored, Scored(scored), NEW a \in Int, NEW b \in Int, 1 <= a, a <= b, b <= Len(scored)
    PROVE  /\ Evidence(Ev(scored, a, b)) /\ Ev(scored, a, b) # <<>> /\ Len(Ev(scored, a, b)) = b - a + 1
           /\ \A p \in a .. b : Ev(scored, a, b)[p - a + 1] = scored[p].ev
<1> DEFINE e == Ev(scored, a, b)
           n == b - a + 1
<1>1. n \in Nat /\ n >= 1 /\ Len(scored) \in Nat BY SeqFacts DEF Scored
<1>2. e = [i \in 1 .. n |-> scored[a + i - 1].ev] BY DEF Ev
<1> HIDE DEF e, n
<1>3. e = [i \in 1 .. n |-> e[i]] BY <1>2
<1>4. IsSeq(e) /\ Len(e) = n BY <1>1, <1>3, SeqOfFunction
<1>5. \A i \in 1 .. n : e[i] = scored[a + i - 1].ev BY <1>2
<1>6. \A i \in 1 .. n : a + i - 1 \in 1 .. Len(scored) BY <1>1 DEF n
<1>7. Evidence(e) BY <1>4, <1>5, <1>6 DEF Evidence, Scored
<1>8. e # <<>> BY <1>1, <1>4, SeqFacts
<1>9. ASSUME NEW p \in a .. b PROVE e[p - a + 1] = scored[p].ev
  <2>1. p - a + 1 \in 1 .. n /\ a + (p - a + 1) - 1 = p BY DEF n
  <2> QED BY <1>5, <2>1
<1> QED BY <1>4, <1>7, <1>8, <1>9 DEF e, n

\* The regions of a block: itself, or those of its decoded labels.
\* A block is one region if its label is forced, else it is cut where its labels change.
BlockSays(scored, a, b) ==
    LET rs == BlockRegions(scored, a, b)
        path == Viterbi(Ev(scored, a, b))
    IN  /\ RegionCover(rs, a, b)
        /\ scored[a].forced # "" => rs = <<RegionOf(a, b, scored[a].forced, TRUE)>>
        /\ scored[a].forced = "" =>
             \A k \in 1 .. Len(rs) :
                /\ rs[k].exact = FALSE
                /\ \A p \in rs[k].from .. rs[k].to : path[p - a + 1] = rs[k].label

LEMMA BlockFacts ==
    ASSUME NEW scored, Scored(scored), NEW a \in Int, NEW b \in Int, 1 <= a, a <= b, b <= Len(scored)
    PROVE  BlockSays(scored, a, b)
<1> DEFINE path == Viterbi(Ev(scored, a, b))
           whole == <<RegionOf(a, b, scored[a].forced, TRUE)>>
           rs == BlockRegions(scored, a, b)
<1>1. CASE scored[a].forced # ""
  <2>1. rs = whole BY <1>1 DEF BlockRegions
  <2>2. whole \in Seq({RegionOf(a, b, scored[a].forced, TRUE)}) /\ Len(whole) = 1 OBVIOUS
  <2>3. whole[1].from = a /\ whole[1].to = b BY DEF RegionOf
  <2> HIDE DEF whole
  <2>4. IsSeq(whole) BY <2>2, SeqIntro
  <2>5. RegionCover(whole, a, b)
    <3>1. \A k \in 1 .. Len(whole) : k = 1 BY <2>2
    <3>2. \A k \in 1 .. Len(whole) : whole[k].from \in Int /\ whole[k].to \in Int /\ whole[k].from <= whole[k].to
      BY <2>3, <3>1
    <3>3. \A k \in 2 .. Len(whole) : whole[k].from = whole[k - 1].to + 1 BY <2>2
    <3>4. Len(whole) >= 1 /\ whole[1].from = a /\ whole[Len(whole)].to = b BY <2>2, <2>3
    <3> QED BY ONLY a \in Int, b \in Int, <2>4, <3>2, <3>3, <3>4, RegionCoverIs
  <2> QED BY <1>1, <2>1, <2>5 DEF BlockSays, whole
<1>2. CASE scored[a].forced = ""
  <2>1. rs = LabelRuns(a, path) BY <1>2 DEF BlockRegions, Ev
  <2>2. Evidence(Ev(scored, a, b)) /\ Ev(scored, a, b) # <<>> /\ Len(Ev(scored, a, b)) = b - a + 1
    BY EvFacts
  <2>3. path \in Seq(Label) /\ Len(path) = b - a + 1 BY <2>2, ViterbiFacts
  <2> HIDE DEF path, rs
  <2>4. IsSeq(path) /\ path # <<>> BY <2>3, SeqIntro
  <2>5. a + Len(path) - 1 = b BY <2>3
  <2>6. /\ RegionCover(LabelRuns(a, path), a, a + Len(path) - 1)
        /\ \A k \in 1 .. Len(LabelRuns(a, path)) :
              /\ LabelRuns(a, path)[k].exact = FALSE
              /\ \A p \in LabelRuns(a, path)[k].from .. LabelRuns(a, path)[k].to :
                    path[p - a + 1] = LabelRuns(a, path)[k].label
    BY <2>4, LabelRunsFacts
  <2> QED BY <1>2, <2>1, <2>5, <2>6 DEF BlockSays, path, rs
<1> QED BY <1>1, <1>2

LEMMA RangeOfConcat ==
    ASSUME NEW s, NEW t, IsSeq(s), IsSeq(t)
    PROVE  Range(s \o t) = Range(s) \cup Range(t)
<1>1. /\ DOMAIN s = 1 .. Len(s) /\ DOMAIN t = 1 .. Len(t) /\ Len(s) \in Nat /\ Len(t) \in Nat
  BY SeqFacts
<1>2. /\ DOMAIN (s \o t) = 1 .. Len(s) + Len(t)
      /\ \A k \in 1 .. Len(s) : (s \o t)[k] = s[k]
      /\ \A k \in 1 .. Len(t) : (s \o t)[Len(s) + k] = t[k]
  BY ConcatFacts
<1> DEFINE st == s \o t
           m == Len(s)
           n == Len(t)
<1> HIDE DEF st, m, n
<1>3. ASSUME NEW x \in Range(st) PROVE x \in Range(s) \cup Range(t)
  <2>1. PICK k \in 1 .. m + n : x = st[k] BY <1>2 DEF Range, st, m, n
  <2>2. CASE k <= m
    <3>1. k \in 1 .. m BY <1>1, <2>2 DEF m
    <3>2. x = s[k] BY <1>2, <2>1, <3>1 DEF st, m
    <3> QED BY <1>1, <3>1, <3>2 DEF Range, m
  <2>3. CASE k > m
    <3>1. k - m \in 1 .. n /\ m + (k - m) = k BY <1>1, <2>3 DEF m, n
    <3>2. x = t[k - m] BY <1>2, <2>1, <3>1 DEF st, m, n
    <3> QED BY <1>1, <3>1, <3>2 DEF Range, n
  <2> QED BY <1>1, <2>2, <2>3 DEF m, n
<1>4. ASSUME NEW x \in Range(s) PROVE x \in Range(st)
  <2>1. PICK k \in 1 .. m : x = s[k] BY <1>1 DEF Range, m
  <2>2. k \in 1 .. m + n BY <1>1 DEF m, n
  <2>3. st[k] = s[k] BY <1>2 DEF st, m
  <2> QED BY <1>2, <2>1, <2>2, <2>3 DEF Range, st, m, n
<1>5. ASSUME NEW x \in Range(t) PROVE x \in Range(st)
  <2>1. PICK k \in 1 .. n : x = t[k] BY <1>1 DEF Range, n
  <2>2. m + k \in 1 .. m + n BY <1>1 DEF m, n
  <2>3. st[m + k] = t[k] BY <1>2 DEF st, m, n
  <2> QED BY <1>2, <2>1, <2>2, <2>3 DEF Range, st, m, n
<1> QED BY <1>3, <1>4, <1>5 DEF st

\* The blocks: what comes before the next delimiter or change of forced label.
BlockCuts(scored) ==
    {i \in 2 .. Len(scored) : scored[i].forced # scored[i - 1].forced \/ scored[i].break}
BlocksOf(scored) == Runs(1, Len(scored), BlockCuts(scored))
BlockSeqs(scored) ==
    [k \in DOMAIN BlocksOf(scored) |-> BlockRegions(scored, BlocksOf(scored)[k][1], BlocksOf(scored)[k][2])]

LEMMA BlocksFacts ==
    ASSUME NEW scored, Scored(scored)
    PROVE  LET bs == BlocksOf(scored)
           IN  /\ IsSeq(bs) /\ Len(bs) \in Nat /\ Len(bs) >= 1 /\ DOMAIN bs = 1 .. Len(bs)
               /\ bs[1][1] = 1 /\ bs[Len(bs)][2] = Len(scored)
               /\ \A k \in 1 .. Len(bs) : /\ bs[k][1] \in Int /\ bs[k][2] \in Int /\ 1 <= bs[k][1]
                                          /\ bs[k][1] <= bs[k][2] /\ bs[k][2] <= Len(scored)
                                          /\ k > 1 => bs[k][1] \in BlockCuts(scored)
                                          /\ \A i \in bs[k][1] + 1 .. bs[k][2] : i \notin BlockCuts(scored)
               /\ \A k \in 2 .. Len(bs) : bs[k][1] = bs[k - 1][2] + 1
               /\ \A j, k \in 1 .. Len(bs) : j < k => bs[j][2] < bs[k][1]
               /\ \A i \in 1 .. Len(scored) : \E k \in 1 .. Len(bs) : i \in bs[k][1] .. bs[k][2]
<1> DEFINE n == Len(scored)
           bs == BlocksOf(scored)
           m == Len(bs)
<1>1. n \in Nat /\ n >= 1 BY SeqFacts DEF Scored
<1>2. /\ IsSeq(bs) /\ Covers(Lows(bs), Highs(bs), m, 1, n)
      /\ \A k \in DOMAIN bs : /\ k > 1 => bs[k][1] \in BlockCuts(scored)
                              /\ \A i \in bs[k][1] + 1 .. bs[k][2] : i \notin BlockCuts(scored)
  <2>1. bs = Runs(1, n, BlockCuts(scored)) BY DEF BlocksOf
  <2>2. n \in Int /\ 1 <= n BY <1>1
  <2>3. /\ IsSeq(Runs(1, n, BlockCuts(scored)))
        /\ Covers(Lows(Runs(1, n, BlockCuts(scored))), Highs(Runs(1, n, BlockCuts(scored))),
                  Len(Runs(1, n, BlockCuts(scored))), 1, n)
    <3> HIDE DEF n, bs, m
    <3> QED BY <2>2, RunsFacts
  <2>4. ASSUME NEW k \in DOMAIN Runs(1, n, BlockCuts(scored))
        PROVE  LET rn == Runs(1, n, BlockCuts(scored))
               IN  /\ k > 1 => rn[k][1] \in BlockCuts(scored)
                   /\ \A i \in rn[k][1] + 1 .. rn[k][2] : i \notin BlockCuts(scored)
    <3> HIDE DEF n, bs, m
    <3> QED BY <2>2, RunsFacts
  <2> HIDE DEF n, bs
  <2> QED BY <2>1, <2>3, <2>4
<1>3. m \in Nat /\ DOMAIN bs = 1 .. m BY <1>2, SeqFacts
<1>4. \A k \in 1 .. m : Lows(bs)[k] = bs[k][1] /\ Highs(bs)[k] = bs[k][2]
  BY <1>3 DEF Lows, Highs
<1>5. /\ \A j, k \in 1 .. m : j < k => Highs(bs)[j] < Lows(bs)[k]
      /\ \A k \in 1 .. m : 1 <= Lows(bs)[k] /\ Highs(bs)[k] <= n
      /\ \A i \in 1 .. n : \E k \in 1 .. m : i \in Lows(bs)[k] .. Highs(bs)[k]
  BY <1>2, CoverFacts
<1> HIDE DEF bs, m, n
<1>6. /\ m >= 1 /\ Lows(bs)[1] = 1 /\ Highs(bs)[m] = n
      /\ \A k \in 1 .. m : Lows(bs)[k] \in Int /\ Highs(bs)[k] \in Int /\ Lows(bs)[k] <= Highs(bs)[k]
      /\ \A k \in 2 .. m : Lows(bs)[k] = Highs(bs)[k - 1] + 1
  BY <1>2 DEF Covers
<1>7. 1 \in 1 .. m /\ m \in 1 .. m BY <1>3, <1>6
<1>8. ASSUME NEW k \in 2 .. m PROVE bs[k][1] = bs[k - 1][2] + 1
  <2>1. k \in 1 .. m /\ k - 1 \in 1 .. m BY <1>3
  <2>2. Lows(bs)[k] = bs[k][1] /\ Highs(bs)[k - 1] = bs[k - 1][2] BY <1>4, <2>1
  <2> QED BY <1>6, <2>2
<1>9. bs[1][1] = 1 /\ bs[m][2] = n BY <1>4, <1>6, <1>7
<1>10. \A k \in 1 .. m : bs[k][1] \in Int /\ bs[k][2] \in Int /\ 1 <= bs[k][1]
                         /\ bs[k][1] <= bs[k][2] /\ bs[k][2] <= n
  BY <1>4, <1>5, <1>6
<1>11. \A j, k \in 1 .. m : j < k => bs[j][2] < bs[k][1] BY <1>4, <1>5
<1>12. \A i \in 1 .. n : \E k \in 1 .. m : i \in bs[k][1] .. bs[k][2] BY <1>4, <1>5
<1> QED BY <1>2, <1>3, <1>6, <1>8, <1>9, <1>10, <1>11, <1>12 DEF bs, m, n

\* The regions are those of the blocks, one block after the other.
LEMMA SegmentFacts ==
    ASSUME NEW scored, Scored(scored)
    PROVE  LET rs == SegmentOf(scored)
               seqs == BlockSeqs(scored)
           IN  /\ RegionCover(rs, 1, Len(scored))
               /\ Range(rs) = UNION {Range(seqs[k]) : k \in 1 .. Len(BlocksOf(scored))}
<1> DEFINE n == Len(scored)
           bs == BlocksOf(scored)
           m == Len(bs)
           seqs == BlockSeqs(scored)
           Block(k) == BlockRegions(scored, bs[k][1], bs[k][2])
<1>1. /\ m \in Nat /\ m >= 1 /\ DOMAIN bs = 1 .. m /\ bs[1][1] = 1 /\ bs[m][2] = n
      /\ \A k \in 1 .. m : /\ bs[k][1] \in Int /\ bs[k][2] \in Int /\ 1 <= bs[k][1]
                           /\ bs[k][1] <= bs[k][2] /\ bs[k][2] <= n
      /\ \A k \in 2 .. m : bs[k][1] = bs[k - 1][2] + 1
  BY BlocksFacts
<1>2. seqs = [k \in 1 .. m |-> Block(k)] BY <1>1, Zenon DEF BlockSeqs
<1>3. SegmentOf(scored) = FlattenSeq(seqs) BY Zenon DEF SegmentOf, BlockSeqs, BlocksOf, BlockCuts
<1> HIDE DEF n, bs, m, seqs, Block
<1>4. \A k \in 1 .. m : seqs[k] = Block(k) BY <1>2
<1>5. ASSUME NEW k \in 1 .. m PROVE RegionCover(seqs[k], bs[k][1], bs[k][2])
  <2>1. RegionCover(BlockRegions(scored, bs[k][1], bs[k][2]), bs[k][1], bs[k][2])
    BY <1>1, BlockFacts DEF BlockSays, n
  <2> QED BY <1>4, <2>1 DEF Block
<1>6. IsSeq(seqs) /\ Len(seqs) = m /\ DOMAIN seqs = 1 .. m
  <2>1. seqs = [k \in 1 .. m |-> seqs[k]] BY <1>2
  <2> QED BY <1>1, <2>1, SeqOfFunction
<1>7. seqs # <<>> BY <1>1, <1>6, SeqFacts
<1>8. \A k \in DOMAIN seqs : IsSeq(seqs[k]) BY <1>5, <1>6 DEF RegionCover
<1>9. PICK f : /\ FlattenSeq(seqs) = f[m] /\ f[1] = seqs[1]
               /\ \A k \in 1 .. m : IsSeq(f[k])
               /\ \A k \in 2 .. m : f[k] = f[k - 1] \o seqs[k]
  BY <1>6, <1>7, <1>8, FlattenFacts
<1> DEFINE Good(k) == /\ RegionCover(f[k], 1, bs[k][2])
                      /\ \A x : x \in Range(f[k]) <=> \E j \in 1 .. k : x \in Range(seqs[j])
           A == {k \in Nat : k + 1 <= m => Good(k + 1)}
<1>10. 0 \in A
  <2> SUFFICES Good(1) OBVIOUS
  <2>1. 1 \in 1 .. m /\ 1 .. 1 = {1} BY <1>1
  <2>2. RegionCover(f[1], 1, bs[1][2]) BY <1>1, <1>5, <1>9, <2>1
  <2>3. \A x : x \in Range(f[1]) <=> \E j \in 1 .. 1 : x \in Range(seqs[j]) BY <1>9, <2>1
  <2> QED BY <2>2, <2>3
<1>11. ASSUME NEW k \in Nat, k \in A PROVE k + 1 \in A
  <2> SUFFICES ASSUME (k + 1) + 1 <= m PROVE Good((k + 1) + 1) OBVIOUS
  <2> DEFINE i == k + 1
  <2>1. /\ i \in 1 .. m /\ i + 1 \in 1 .. m /\ i + 1 \in 2 .. m /\ (i + 1) - 1 = i
        /\ 1 .. i + 1 = (1 .. i) \cup {i + 1} /\ i \in Nat
    BY <1>1
  <2>2. Good(i) BY <1>1, <1>11
  <2> HIDE DEF i
  <2>3. f[i + 1] = f[i] \o seqs[i + 1] BY <1>9, <2>1
  <2>4. RegionCover(seqs[i + 1], bs[i][2] + 1, bs[i + 1][2]) BY <1>1, <1>5, <2>1
  <2>5. bs[i][2] \in Int /\ bs[i + 1][2] \in Int BY <1>1, <2>1
  <2> DEFINE s == f[i]
             t == seqs[i + 1]
             b == bs[i][2]
             c == bs[i + 1][2]
  <2>6. RegionCover(f[i + 1], 1, c)
    <3>1. RegionCover(s, 1, b) /\ RegionCover(t, b + 1, c) /\ b \in Int /\ c \in Int
      BY <2>2, <2>4, <2>5
    <3>2. f[i + 1] = s \o t BY <2>3
    <3> HIDE DEF s, t, b, c
    <3> QED BY <3>1, <3>2, RegionCoverConcat
  <2>7. Range(f[i + 1]) = Range(f[i]) \cup Range(seqs[i + 1])
    BY <1>6, <1>8, <1>9, <2>1, <2>3, RangeOfConcat
  <2>8. \A j : j \in 1 .. i + 1 <=> (j \in 1 .. i \/ j = i + 1) BY <2>1
  <2>9. \A x : x \in Range(f[i + 1]) <=> \E j \in 1 .. i + 1 : x \in Range(seqs[j])
    <3>1. \A x : x \in Range(f[i]) <=> \E j \in 1 .. i : x \in Range(seqs[j]) BY <2>2
    <3> QED BY <2>7, <2>8, <3>1, Zenon
  <2>10. Good(i + 1) BY <2>6, <2>9
  <2> QED BY <2>10 DEF i
<1>12. Nat \subseteq A
  <2> HIDE DEF A
  <2> QED BY <1>10, <1>11, NatInductionOnSet
<1>13. Good(m)
  <2>1. m - 1 \in Nat /\ (m - 1) + 1 = m BY <1>1
  <2>2. m - 1 \in A BY <1>12, <2>1
  <2> QED BY <1>1, <2>1, <2>2
<1> QED BY <1>1, <1>3, <1>9, <1>13 DEF n, m, bs, seqs

-----------------------------------------------------------------------------
(***************************************************************************)
(* classify_lines.                                                         *)
(***************************************************************************)
FencesIs(st, lines_) ==
    st = [k \in 0 .. Len(lines_) |-> IF k = 0 THEN NoFence ELSE FenceAfter(st[k - 1], Line[lines_[k]])]

LEMMA FencesExist ==
    ASSUME NEW text, IsSeq(text)
    PROVE  FencesIs(Fences(text), text)
<1> DEFINE N == Len(text)
           V == {NoFence} \cup {[open |-> TRUE, lang |-> Line[text[k]].lang] : k \in 1 .. N}
           step == [kv \in Nat \X V |-> FenceAfter(kv[2], Line[text[kv[1]]])]
           F0 == CHOOSE st : FencesIs(st, text)
<1>1. N \in Nat BY SeqFacts
<1>2. \A k \in 1 .. N : \A v \in V : FenceAfter(v, Line[text[k]]) \in V
  BY DEF FenceAfter
<1>3. NoFence \in V OBVIOUS
<1> HIDE DEF V, N
<1>4. \A k \in 1 .. N : \A v \in V : step[<<k, v>>] = FenceAfter(v, Line[text[k]])
  <2> SUFFICES ASSUME NEW k \in 1 .. N, NEW v \in V
               PROVE  step[<<k, v>>] = FenceAfter(v, Line[text[k]])
    OBVIOUS
  <2>1. <<k, v>> \in Nat \X V /\ <<k, v>>[1] = k /\ <<k, v>>[2] = v BY <1>1
  <2> QED BY <2>1, Zenon
<1> HIDE DEF step
<1>5. PICK h : Recursive(h, N, V, NoFence, step)
  <2>1. \A k \in 1 .. N : \A v \in V : step[<<k, v>>] \in V BY <1>2, <1>4
  <2> QED BY <1>1, <1>3, <2>1, RecursionExists
<1>6. FencesIs(h, text)
  <2>1. h \in [0 .. N -> V] /\ h[0] = NoFence BY <1>5 DEF Recursive
  <2>2. ASSUME NEW k \in 0 .. N PROVE h[k] = IF k = 0 THEN NoFence ELSE FenceAfter(h[k - 1], Line[text[k]])
    <3>1. CASE k = 0 BY <2>1, <3>1
    <3>2. CASE k # 0
      <4>1. k \in 1 .. N /\ k - 1 \in 0 .. N BY <1>1, <3>2
      <4>2. h[k - 1] \in V BY <2>1, <4>1
      <4>3. h[k] = step[<<k, h[k - 1]>>] BY <1>5, <4>1 DEF Recursive
      <4> QED BY <1>4, <3>2, <4>1, <4>2, <4>3
    <3> QED BY <3>1, <3>2
  <2>3. h = [k \in 0 .. N |-> h[k]] BY <2>1
  <2>4. h = [k \in 0 .. N |-> IF k = 0 THEN NoFence ELSE FenceAfter(h[k - 1], Line[text[k]])]
    BY <2>2, <2>3
  <2> QED BY <2>4 DEF FencesIs, N
<1>7. FencesIs(F0, text) BY <1>6
<1>8. Fences(text) = F0 BY DEF Fences, FencesIs
<1> QED BY <1>7, <1>8

\* A line of a document, and the scores it is given.
IsText(text) == text \in Seq(DOMAIN Line)

LEMMA TextFacts ==
    ASSUME NEW text, IsText(text)
    PROVE  /\ IsSeq(text) /\ Len(text) \in Nat /\ DOMAIN text = 1 .. Len(text)
           /\ \A p \in 1 .. Len(text) : text[p] \in DOMAIN Line
<1>1. IsSeq(text) BY SeqIntro DEF IsText
<1> QED BY <1>1, SeqFacts DEF IsText

LEMMA ClassifiedFacts ==
    ASSUME NEW text, IsText(text), text # <<>>
    PROVE  /\ Scored(Classified(text)) /\ Len(Classified(text)) = Len(text)
           /\ \A p \in 1 .. Len(text) : Classified(text)[p] = Score(Line[text[p]], Fences(text)[p])
<1> DEFINE n == Len(text)
           c == Classified(text)
           score(p) == Score(Line[text[p]], Fences(text)[p])
<1>1. n \in Nat /\ n # 0 /\ DOMAIN text = 1 .. n /\ \A p \in 1 .. n : text[p] \in DOMAIN Line
  BY TextFacts, SeqFacts
<1>2. c = [p \in 1 .. n |-> score(p)] BY <1>1, Zenon DEF Classified, ScoresOf
<1>3. ASSUME NEW p \in 1 .. n, NEW l \in Label PROVE At(score(p).ev, l) \in Int
  <2>1. At(<<>>, l) = 0 BY DEF At
  <2>2. \A f : f \in DOMAIN Line => At(Line[f].ev, l) \in Int BY RegionsAssumption DEF At
  <2>3. At(Line[text[p]].ev, l) \in Int BY <1>1, <2>2
  <2>4. score(p).ev \in {<<>>, Line[text[p]].ev} BY DEF Score, Delimiter
  <2> HIDE DEF score
  <2> QED BY <2>1, <2>3, <2>4
<1> HIDE DEF c, n, score
<1>4. c = [p \in 1 .. n |-> c[p]] /\ \A p \in 1 .. n : c[p] = score(p) BY <1>2
<1>5. IsSeq(c) /\ Len(c) = n BY <1>1, <1>4, SeqOfFunction
<1>6. c # <<>> BY <1>1, <1>5, SeqFacts
<1>7. Scored(c) BY <1>3, <1>4, <1>5, <1>6 DEF Scored
<1> QED BY <1>4, <1>5, <1>7 DEF c, n, score

-----------------------------------------------------------------------------
(***************************************************************************)
(* The regions of a document of n lines: in order, and every line in one.  *)
(***************************************************************************)
Split(rs, n) ==
    /\ IsSeq(rs)
    /\ \A k \in 1 .. Len(rs) : /\ rs[k].from \in Int /\ rs[k].to \in Int
                               /\ 1 <= rs[k].from /\ rs[k].to <= n
    /\ \A j, k \in 1 .. Len(rs) : j < k => rs[j].to < rs[k].from
    /\ \A i \in 1 .. n : \E k \in 1 .. Len(rs) : i \in rs[k].from .. rs[k].to

LEMMA RegionsFacts ==
    ASSUME NEW doc, IsText(doc.lines)
    PROVE  /\ Split(RegionsOf(doc), Len(doc.lines))
           /\ \/ Len(RegionsOf(doc)) = 1 /\ RegionsOf(doc)[1].exact = TRUE
              \/ RegionsOf(doc) = Segment(doc.lines) /\ doc.lines # <<>>
<1> DEFINE n == Len(doc.lines)
           seen == IF doc.hint # "" THEN [label |-> doc.hint, sure |-> TRUE] ELSE Detect(doc.lines)
           whole == <<RegionOf(1, n, seen.label, TRUE)>>
<1>1. n \in Nat BY TextFacts
<1>2. RegionsOf(doc) = IF seen.sure THEN whole ELSE Segment(doc.lines) BY DEF RegionsOf, RegionsSeen
<1>3. doc.lines = <<>> => seen.sure
  <2> SUFFICES ASSUME doc.lines = <<>> PROVE seen.sure OBVIOUS
  <2>1. CASE doc.hint # "" BY <2>1
  <2>2. CASE doc.hint = ""
    <3>1. Range(doc.lines) = {} BY DEF Range
    <3>2. Blank(doc.lines) BY <3>1 DEF Blank
    <3>3. Detect(doc.lines) = [label |-> "prose", sure |-> TRUE]
      BY <3>2, Zenon DEF Detect
    <3>4. seen = [label |-> "prose", sure |-> TRUE] BY <2>2, <3>3, Zenon
    <3> HIDE DEF seen
    <3> QED BY <3>4
  <2> QED BY <2>1, <2>2
<1> HIDE DEF seen, n
<1>4. CASE seen.sure
  <2>1. RegionsOf(doc) = whole BY <1>2, <1>4
  <2>2. whole \in Seq({RegionOf(1, n, seen.label, TRUE)}) /\ Len(whole) = 1 OBVIOUS
  <2>3. whole[1].from = 1 /\ whole[1].to = n /\ whole[1].exact = TRUE BY DEF RegionOf
  <2> HIDE DEF whole
  <2>4. IsSeq(whole) BY <2>2, SeqIntro
  <2>5. \A k \in 1 .. Len(whole) : k = 1 BY <2>2
  <2>6. \A j, k \in 1 .. Len(whole) : ~ (j < k) BY <2>2
  <2>7. 1 \in 1 .. Len(whole) BY <2>2
  <2>8. Split(whole, n) BY <1>1, <2>3, <2>4, <2>5, <2>6, <2>7 DEF Split
  <2> QED BY <2>1, <2>2, <2>3, <2>8 DEF n
<1>5. CASE ~ seen.sure
  <2>1. RegionsOf(doc) = Segment(doc.lines) /\ doc.lines # <<>> BY <1>2, <1>3, <1>5
  <2> DEFINE rs == Segment(doc.lines)
  <2>2. RegionCover(rs, 1, n)
    <3>1. Scored(Classified(doc.lines)) /\ Len(Classified(doc.lines)) = n BY <2>1, ClassifiedFacts DEF n
    <3> QED BY <3>1, SegmentFacts DEF Segment
  <2> HIDE DEF rs
  <2>3. IsSeq(rs) BY <2>2 DEF RegionCover
  <2>4. Split(rs, n) BY <2>2, <2>3, RegionCoverFacts DEF Split
  <2> QED BY <2>1, <2>4 DEF rs, n
<1> QED BY <1>4, <1>5

-----------------------------------------------------------------------------
(***************************************************************************)
(* Greatest and least elements.                                            *)
(***************************************************************************)
LEMMA MaxFacts ==
    ASSUME NEW S, IsFiniteSet(S), S # {}, S \subseteq Int
    PROVE  Max(S) \in S /\ \A x \in S : x <= Max(S)
<1> DEFINE R == {p \in S \X S : p[1] >= p[2]}
<1>1. \A x, y \in S : <<x, y>> \in R <=> x >= y OBVIOUS
<1>2. \A x \in S : x \in Int OBVIOUS
<1> HIDE DEF R
<1>3. \E m \in S : \A x \in S \ {m} : <<m, x>> \in R
  <2>1. \A x, y \in S : x # y => <<x, y>> \in R \/ <<y, x>> \in R BY <1>1, <1>2
  <2>2. \A x, y, z \in S : <<x, y>> \in R /\ <<y, z>> \in R => <<x, z>> \in R BY <1>1, <1>2
  <2> QED BY ONLY IsFiniteSet(S), S # {}, <2>1, <2>2, FirstExists
<1>4. PICK m \in S : \A x \in S \ {m} : <<m, x>> \in R BY <1>3
<1>5. ASSUME NEW x \in S PROVE m >= x
  <2>1. x \in Int /\ m \in Int BY <1>2
  <2>2. x # m => <<m, x>> \in R BY <1>4
  <2>3. <<m, x>> \in R <=> m >= x BY <1>1
  <2> QED BY <2>1, <2>2, <2>3
<1>6. Max(S) \in S /\ \A x \in S : Max(S) >= x BY <1>5 DEF Max
<1> QED BY <1>2, <1>6

LEMMA MinFacts ==
    ASSUME NEW S, IsFiniteSet(S), S # {}, S \subseteq Int
    PROVE  Min(S) \in S /\ \A x \in S : Min(S) <= x
<1> DEFINE R == {p \in S \X S : p[1] <= p[2]}
<1>1. \A x, y \in S : <<x, y>> \in R <=> x <= y OBVIOUS
<1>2. \A x \in S : x \in Int OBVIOUS
<1> HIDE DEF R
<1>3. \E m \in S : \A x \in S \ {m} : <<m, x>> \in R
  <2>1. \A x, y \in S : x # y => <<x, y>> \in R \/ <<y, x>> \in R BY <1>1, <1>2
  <2>2. \A x, y, z \in S : <<x, y>> \in R /\ <<y, z>> \in R => <<x, z>> \in R BY <1>1, <1>2
  <2> QED BY ONLY IsFiniteSet(S), S # {}, <2>1, <2>2, FirstExists
<1>4. PICK m \in S : \A x \in S \ {m} : <<m, x>> \in R BY <1>3
<1>5. ASSUME NEW x \in S PROVE m <= x
  <2>1. x \in Int /\ m \in Int BY <1>2
  <2>2. x # m => <<m, x>> \in R BY <1>4
  <2>3. <<m, x>> \in R <=> m <= x BY <1>1
  <2> QED BY <2>1, <2>2, <2>3
<1>6. Min(S) \in S /\ \A x \in S : Min(S) <= x BY <1>5 DEF Min
<1> QED BY <1>6

LEMMA SomeInterval ==
    ASSUME NEW a \in Int, NEW b \in Int, NEW S, S \subseteq a .. b
    PROVE  IsFiniteSet(S) /\ S \subseteq Int
<1>1. IsFiniteSet(a .. b) BY FS_Interval
<1>2. a .. b \subseteq Int OBVIOUS
<1> QED BY <1>1, <1>2, FS_Subset

LEMMA SomePlaces ==
    ASSUME NEW n \in Nat, NEW S, S \subseteq 1 .. n
    PROVE  IsFiniteSet(S) /\ S \subseteq Int
<1>1. n \in Int /\ 1 \in Int OBVIOUS
<1> QED BY <1>1, SomeInterval

-----------------------------------------------------------------------------
(***************************************************************************)
(* split_blocks.                                                           *)
(***************************************************************************)
Parted(from, to) ==
    {p \in from .. to : F(p).chars = 0 /\ ~ (Cardinality({q \in from .. (p - 1) : F(q).fence}) % 2 = 1)}
StartsOf(from, to, parted) == {p \in (from .. to) \ parted : p = from \/ p - 1 \in parted}
EndOf(p, to, parted) == Max({q \in p .. to : p .. q \cap parted = {}})

LEMMA IntervalFacts ==
    ASSUME NEW a \in Int, NEW b \in Int, a <= b
    PROVE  /\ IsSeq(Interval(a, b)) /\ Len(Interval(a, b)) = b - a + 1
           /\ Interval(a, b) # <<>> /\ Range(Interval(a, b)) = a .. b /\ Interval(a, b)[1] = a
           /\ \A i \in 1 .. b - a + 1 : Interval(a, b)[i] = a + i - 1
<1> DEFINE s == Interval(a, b)
           n == b - a + 1
<1>1. n \in Nat /\ n >= 1 OBVIOUS
<1>2. s = [i \in 1 .. n |-> a + i - 1] BY DEF Interval
<1> HIDE DEF s, n
<1>3. s = [i \in 1 .. n |-> s[i]] /\ \A i \in 1 .. n : s[i] = a + i - 1 BY <1>2
<1>4. IsSeq(s) /\ Len(s) = n /\ DOMAIN s = 1 .. n BY <1>1, <1>3, SeqOfFunction
<1>5. s # <<>> BY <1>1, <1>4, SeqFacts
<1>6. Range(s) = a .. b
  <2>1. ASSUME NEW i \in 1 .. n PROVE s[i] \in a .. b BY <1>3 DEF n
  <2>2. ASSUME NEW x \in a .. b PROVE \E i \in 1 .. n : s[i] = x
    <3>1. x - a + 1 \in 1 .. n BY DEF n
    <3>2. s[x - a + 1] = a + (x - a + 1) - 1 BY <1>3, <3>1
    <3>3. s[x - a + 1] = x BY <3>2
    <3> QED BY <3>1, <3>3
  <2> QED BY <1>4, <2>1, <2>2 DEF Range
<1>7. s[1] = a
  <2>1. 1 \in 1 .. n BY <1>1
  <2> QED BY <1>3, <2>1
<1> QED BY <1>3, <1>4, <1>5, <1>6, <1>7 DEF s, n

\* A block is an interval; a line that is not blank is in one.
LEMMA SplitBlocksFacts ==
    ASSUME NEW from \in Int, NEW to \in Int
    PROVE  LET bs == Blocks(from, to)
           IN  /\ IsSeq(bs)
               /\ \A k \in 1 .. Len(bs) :
                     IsSeq(bs[k]) /\ bs[k] # <<>> /\ Range(bs[k]) \subseteq from .. to
               /\ \A p \in from .. to :
                     F(p).chars # 0 => \E k \in 1 .. Len(bs) : p \in Range(bs[k])
<1> DEFINE parted == Parted(from, to)
           S == StartsOf(from, to, parted)
           starts == InOrder(S)
           e(p) == EndOf(p, to, parted)
           bs == Blocks(from, to)
<1>1. bs = [k \in DOMAIN starts |-> Interval(starts[k], e(starts[k]))]
  BY Zenon DEF Blocks, EndOf, StartsOf, Parted
<1>2. S \subseteq from .. to BY DEF StartsOf
<1>3. \A p \in S : p \notin parted BY DEF StartsOf
<1>4. \A p \in from .. to : (p \notin parted /\ (p = from \/ p - 1 \in parted)) => p \in S BY DEF StartsOf
<1>5. \A p \in from .. to : F(p).chars # 0 => p \notin parted BY DEF Parted
<1> HIDE DEF parted, S
<1>6. IsFiniteSet(S) /\ S \subseteq Int BY <1>2, SomeInterval
<1>7. /\ IsSeq(starts) /\ \A k \in DOMAIN starts : starts[k] \in S
      /\ \A x \in S : \E k \in DOMAIN starts : starts[k] = x
  BY <1>6, InOrderFacts
<1> HIDE DEF starts, bs
<1>8. Len(starts) \in Nat /\ DOMAIN starts = 1 .. Len(starts) BY <1>7, SeqFacts
<1>9. ASSUME NEW p \in S
      PROVE  e(p) \in p .. to /\ \A q \in p .. to : p .. q \cap parted = {} => q <= e(p)
  <2> DEFINE Q == {q \in p .. to : p .. q \cap parted = {}}
  <2>1. p \in Int /\ p \in from .. to /\ p \notin parted BY <1>2, <1>3
  <2>2. p \in Q
    <3>1. p .. p = {p} BY <2>1
    <3> QED BY <2>1, <3>1
  <2>3. Q \subseteq p .. to OBVIOUS
  <2>4. \A q \in p .. to : p .. q \cap parted = {} => q \in Q OBVIOUS
  <2>5. e(p) = Max(Q) BY DEF EndOf
  <2> HIDE DEF Q, e
  <2>6. Q # {} /\ IsFiniteSet(Q) /\ Q \subseteq Int BY <2>1, <2>2, <2>3, SomeInterval
  <2>7. Max(Q) \in Q /\ \A q \in Q : q <= Max(Q) BY <2>6, MaxFacts
  <2> QED BY <2>3, <2>4, <2>5, <2>7
<1> HIDE DEF e
<1>10. \A k \in 1 .. Len(starts) : bs[k] = Interval(starts[k], e(starts[k])) BY <1>1, <1>8
<1>11. IsSeq(bs) /\ Len(bs) = Len(starts)
  <2>1. bs = [k \in 1 .. Len(starts) |-> bs[k]] BY <1>1, <1>8
  <2> QED BY <1>8, <2>1, SeqOfFunction
<1>12. ASSUME NEW k \in 1 .. Len(starts)
       PROVE  /\ IsSeq(bs[k]) /\ bs[k] # <<>> /\ Range(bs[k]) = starts[k] .. e(starts[k])
              /\ Range(bs[k]) \subseteq from .. to
  <2> DEFINE a == starts[k]
  <2>1. a \in S /\ a \in from .. to BY <1>2, <1>7, <1>8
  <2> HIDE DEF a
  <2>2. e(a) \in a .. to BY <1>9, <2>1
  <2>3. a \in Int /\ e(a) \in Int /\ a <= e(a) /\ a .. e(a) \subseteq from .. to BY <2>1, <2>2
  <2>4. bs[k] = Interval(a, e(a)) BY <1>10 DEF a
  <2>5. /\ IsSeq(Interval(a, e(a))) /\ Interval(a, e(a)) # <<>>
        /\ Range(Interval(a, e(a))) = a .. e(a)
    BY <2>3, IntervalFacts
  <2> QED BY <2>3, <2>4, <2>5 DEF a
\* Every place that does not part is in the block of the last start before it.
<1> DEFINE Reached(p) == p \notin parted => \E s \in S : s <= p /\ s .. p \cap parted = {}
           A == {n \in Nat : from + n <= to => Reached(from + n)}
<1>13. 0 \in A
  <2> SUFFICES ASSUME from + 0 <= to PROVE Reached(from + 0) OBVIOUS
  <2>1. from + 0 = from /\ from \in from .. to /\ from .. from = {from} /\ from <= from OBVIOUS
  <2>2. Reached(from) BY <1>4, <2>1
  <2> QED BY <2>1, <2>2
<1>14. ASSUME NEW n \in Nat, n \in A PROVE n + 1 \in A
  <2> DEFINE p == from + (n + 1)
  <2> SUFFICES ASSUME p <= to, p \notin parted PROVE \E s \in S : s <= p /\ s .. p \cap parted = {}
    OBVIOUS
  <2>1. p \in from .. to /\ p - 1 = from + n /\ p - 1 <= to /\ p \in Int /\ p .. p = {p} OBVIOUS
  <2> HIDE DEF p
  <2>2. CASE p - 1 \in parted
    <3>1. p \in S BY <1>4, <2>1, <2>2
    <3> QED BY <2>1, <3>1
  <2>3. CASE p - 1 \notin parted
    <3>1. Reached(p - 1) BY <1>14, <2>1
    <3>2. PICK s \in S : s <= p - 1 /\ s .. p - 1 \cap parted = {} BY <2>3, <3>1
    <3>3. s \in Int /\ s <= p /\ s .. p = (s .. p - 1) \cup {p} BY <1>6, <2>1, <3>2
    <3> QED BY <3>2, <3>3
  <2> QED BY <2>2, <2>3
<1>15. Nat \subseteq A
  <2> HIDE DEF A
  <2> QED BY <1>13, <1>14, NatInductionOnSet
<1>16. ASSUME NEW p \in from .. to, F(p).chars # 0
       PROVE  \E k \in 1 .. Len(starts) : p \in Range(bs[k])
  <2>1. p - from \in Nat /\ from + (p - from) = p /\ p <= to /\ p \in Int OBVIOUS
  <2>2. p - from \in A BY <1>15, <2>1
  <2>3. Reached(p) BY <2>1, <2>2
  <2>4. PICK s \in S : s <= p /\ s .. p \cap parted = {} BY <1>5, <1>16, <2>3
  <2>5. PICK k \in 1 .. Len(starts) : starts[k] = s BY <1>7, <1>8
  <2>6. s \in Int /\ p \in s .. to BY <1>6, <2>1, <2>4
  <2>7. e(s) \in Int /\ p <= e(s) BY <1>9, <2>4, <2>6
  <2>8. p \in s .. e(s) BY <2>6, <2>7
  <2> QED BY <1>12, <2>5, <2>8
<1> QED BY <1>11, <1>12, <1>16 DEF bs

-----------------------------------------------------------------------------
(***************************************************************************)
(* Units.                                                                  *)
(***************************************************************************)
IsUnit(v) ==
    v = [kind |-> v.kind, doc |-> v.doc, region |-> v.region, text |-> v.text, prot |-> v.prot,
         parent |-> v.parent, header |-> v.header, depth |-> v.depth, rungs |-> v.rungs,
         template |-> v.template]

\* A unit of the region at work, and one that holds just its text.
Made(v)  == IsUnit(v) /\ v.doc = d /\ v.region = r
Plain(v) == Made(v) /\ v.parent = 0 /\ v.rungs = {Atoms(v.text)}

LEMMA UnitFacts ==
    ASSUME NEW kind, NEW places, NEW prot
    PROVE  /\ Plain(Unit(kind, places, prot)) /\ Unit(kind, places, prot).kind = kind
           /\ Unit(kind, places, prot).text = places /\ ~ Unit(kind, places, prot).header
           /\ Unit(kind, places, prot).depth = 0
BY DEF Unit, Plain, Made, IsUnit

LEMMA WithParent ==
    ASSUME NEW v, IsUnit(v), NEW p
    PROVE  LET w == [v EXCEPT !.parent = p]
           IN  /\ IsUnit(w) /\ w.parent = p
               /\ w.kind = v.kind /\ w.doc = v.doc /\ w.region = v.region /\ w.text = v.text
               /\ w.header = v.header /\ w.depth = v.depth /\ w.rungs = v.rungs
               /\ w.template = v.template
<1> DEFINE w == [v EXCEPT !.parent = p]
<1>1. w = [kind |-> v.kind, doc |-> v.doc, region |-> v.region, text |-> v.text, prot |-> v.prot,
           parent |-> p, header |-> v.header, depth |-> v.depth, rungs |-> v.rungs,
           template |-> v.template]
  BY DEF IsUnit
<1> HIDE DEF w
<1>2. /\ w.parent = p /\ w.kind = v.kind /\ w.doc = v.doc /\ w.region = v.region /\ w.text = v.text
      /\ w.header = v.header /\ w.depth = v.depth /\ w.rungs = v.rungs
      /\ w.template = v.template /\ w.prot = v.prot
  BY <1>1
<1>3. IsUnit(w) BY <1>1, <1>2 DEF IsUnit
<1> QED BY <1>2, <1>3 DEF w

\* BuildContext.emit: the units are followed by us.
Grown(us) ==
    /\ IsSeq(us) /\ IsSeq(units') /\ Len(units') = Len(units) + Len(us)
    /\ \A u \in 1 .. Len(units) : units'[u] = units[u]
    /\ \A k \in 1 .. Len(us) : units'[Len(units) + k] = us[k]
    /\ edges \subseteq edges'
    /\ \A k \in 1 .. Len(us) :
          us[k].parent # 0 => Edge(Len(units) + k, us[k].parent, "REQUIRES") \in edges'

LEMMA EmitFacts ==
    ASSUME NEW us, NEW more, IsSeq(units), IsSeq(us), Emit(us, more)
    PROVE  Grown(us) /\ more \subseteq edges'
<1>1. units' = units \o us BY DEF Emit
<1>2. /\ IsSeq(units') /\ Len(units') = Len(units) + Len(us)
      /\ \A u \in 1 .. Len(units) : units'[u] = units[u]
      /\ \A k \in 1 .. Len(us) : units'[Len(units) + k] = us[k]
  BY <1>1, ConcatFacts
<1>3. Len(units) \in Nat /\ Len(us) \in Nat BY SeqFacts
<1> DEFINE new == {v \in Len(units) + 1 .. Len(units') : units'[v].parent # 0}
           req(u) == Edge(u, units'[u].parent, "REQUIRES")
           con(u) == Edge(units'[u].parent, u, "CONTAINS")
<1>4. edges' = edges \cup more \cup UNION {{req(u), con(u)} : u \in new} BY DEF Emit, Uid
<1>5. \A k \in 1 .. Len(us) : us[k].parent # 0 => Len(units) + k \in new
  <2> SUFFICES ASSUME NEW k \in 1 .. Len(us), us[k].parent # 0 PROVE Len(units) + k \in new OBVIOUS
  <2>1. Len(units) + k \in Len(units) + 1 .. Len(units') BY <1>2, <1>3
  <2> QED BY <1>2, <2>1
<1> HIDE DEF new
<1>6. edges \subseteq edges' /\ more \subseteq edges' BY <1>4
<1>7. \A u \in new : req(u) \in edges' BY <1>4
<1>8. ASSUME NEW k \in 1 .. Len(us), us[k].parent # 0
      PROVE  Edge(Len(units) + k, us[k].parent, "REQUIRES") \in edges'
  <2>1. req(Len(units) + k) \in edges' BY <1>5, <1>7, <1>8
  <2> QED BY <1>2, <2>1
<1> QED BY <1>2, <1>6, <1>8 DEF Grown

-----------------------------------------------------------------------------
(***************************************************************************)
(* The units of a body.                                                    *)
(***************************************************************************)
LEMMA TableFacts ==
    ASSUME NEW rows, IsSeq(rows)
    PROVE  /\ IsSeq(Table(rows)) /\ Len(Table(rows)) = Len(rows)
           /\ \A k \in 1 .. Len(rows) : /\ Plain(Table(rows)[k]) /\ Table(rows)[k].kind = "row"
                                        /\ Table(rows)[k].text = {rows[k]}
                                        /\ (Table(rows)[k].header <=> k = 1)
<1> DEFINE row(k) == [Unit("row", {rows[k]}, IF k = 1 THEN ANCHORED ELSE ELASTIC) EXCEPT !.header = (k = 1)]
           t == Table(rows)
           n == Len(rows)
<1>1. n \in Nat /\ DOMAIN rows = 1 .. n BY SeqFacts
<1>2. t = [k \in 1 .. n |-> row(k)] BY <1>1, Zenon DEF Table
<1>3. \A k \in 1 .. n : Plain(row(k)) /\ row(k).kind = "row" /\ row(k).text = {rows[k]} /\ (row(k).header <=> k = 1)
  <2> SUFFICES ASSUME NEW k \in 1 .. n
               PROVE  Plain(row(k)) /\ row(k).kind = "row" /\ row(k).text = {rows[k]} /\ (row(k).header <=> k = 1)
    OBVIOUS
  <2> DEFINE p == IF k = 1 THEN ANCHORED ELSE ELASTIC
             w == row(k)
  <2>1. w = [kind |-> "row", doc |-> d, region |-> r, text |-> {rows[k]}, prot |-> p, parent |-> 0,
             header |-> (k = 1), depth |-> 0, rungs |-> {Atoms({rows[k]})}, template |-> <<>>]
    <3> DEFINE h == (k = 1)
               s == {rows[k]}
    <3>1. w = [Unit("row", s, p) EXCEPT !.header = h] OBVIOUS
    <3> HIDE DEF p, w, h, s
    <3>2. w = [kind |-> "row", doc |-> d, region |-> r, text |-> s, prot |-> p, parent |-> 0,
               header |-> h, depth |-> 0, rungs |-> {Atoms(s)}, template |-> <<>>]
      BY <3>1 DEF Unit
    <3> QED BY <3>2 DEF h, s
  <2> HIDE DEF p, w
  <2>2. /\ w.kind = "row" /\ w.doc = d /\ w.region = r /\ w.text = {rows[k]} /\ w.prot = p
        /\ w.parent = 0 /\ w.depth = 0 /\ w.rungs = {Atoms({rows[k]})} /\ w.template = <<>>
    BY <2>1
  <2>3. w.header <=> k = 1 BY <2>1
  <2>4. IsUnit(w) BY <2>1 DEF IsUnit
  <2>5. Plain(w) BY <2>2, <2>4 DEF Plain, Made
  <2> QED BY <2>2, <2>3, <2>5 DEF w
<1> HIDE DEF t, row, n
<1>4. \A k \in 1 .. n : t[k] = row(k) BY <1>2
<1>5. t = [k \in 1 .. n |-> t[k]] BY <1>2
<1>6. IsSeq(t) /\ Len(t) = n BY <1>1, <1>5, SeqOfFunction
<1> QED BY <1>3, <1>4, <1>6 DEF t, n

LEMMA ItemsFacts ==
    ASSUME NEW kind, NEW texts, IsSeq(texts)
    PROVE  /\ IsSeq(Items(kind, texts)) /\ Len(Items(kind, texts)) = Len(texts)
           /\ \A k \in 1 .. Len(texts) : /\ Plain(Items(kind, texts)[k]) /\ Items(kind, texts)[k].kind = kind
                                         /\ Items(kind, texts)[k].text = texts[k]
<1> DEFINE item(k) == Unit(kind, texts[k], Mark(texts[k]))
           t == Items(kind, texts)
           n == Len(texts)
<1>1. n \in Nat /\ DOMAIN texts = 1 .. n BY SeqFacts
<1>2. t = [k \in 1 .. n |-> item(k)] BY <1>1, Zenon DEF Items
<1>3. \A k \in 1 .. n : Plain(item(k)) /\ item(k).kind = kind /\ item(k).text = texts[k]
  BY DEF Unit, Plain, Made, IsUnit
<1> HIDE DEF t, item, n
<1>4. \A k \in 1 .. n : t[k] = item(k) BY <1>2
<1>5. t = [k \in 1 .. n |-> t[k]] BY <1>2
<1>6. IsSeq(t) /\ Len(t) = n BY <1>1, <1>5, SeqOfFunction
<1> QED BY <1>3, <1>4, <1>6 DEF t, n

LEMMA SentencesFacts ==
    ASSUME NEW body, IsSeq(body)
    PROVE  /\ IsSeq(Sentences(body))
           /\ \A k \in 1 .. Len(body) : \E j \in 1 .. Len(Sentences(body)) : body[k] \in Sentences(body)[j]
<1> DEFINE n == Len(body)
           runs == Runs(1, n, {i \in 2 .. n : F(body[i - 1]).ends})
           text(k) == {body[i] : i \in runs[k][1] .. runs[k][2]}
           s == Sentences(body)
<1>1. n \in Nat BY SeqFacts
<1>2. s = [k \in DOMAIN runs |-> text(k)] BY Zenon DEF Sentences
<1>3. IsSeq(runs) /\ (1 <= n => Covers(Lows(runs), Highs(runs), Len(runs), 1, n))
  <2>1. n \in Int /\ 1 \in Int BY <1>1
  <2> HIDE DEF n
  <2> QED BY <2>1, RunsFacts
<1> HIDE DEF n, runs, s
<1>4. Len(runs) \in Nat /\ DOMAIN runs = 1 .. Len(runs) BY <1>3, SeqFacts
<1>5. IsSeq(s) /\ Len(s) = Len(runs)
  <2> HIDE DEF text
  <2>1. s = [k \in 1 .. Len(runs) |-> s[k]] BY <1>2, <1>4
  <2> QED BY <1>4, <2>1, SeqOfFunction
<1>6. ASSUME NEW k \in 1 .. n PROVE \E j \in 1 .. Len(s) : body[k] \in s[j]
  <2>1. Covers(Lows(runs), Highs(runs), Len(runs), 1, n) BY <1>1, <1>3
  <2>2. PICK j \in 1 .. Len(runs) : k \in Lows(runs)[j] .. Highs(runs)[j] BY <2>1, CoverFacts
  <2>3. Lows(runs)[j] = runs[j][1] /\ Highs(runs)[j] = runs[j][2] BY <1>4 DEF Lows, Highs
  <2>4. body[k] \in text(j) BY <2>2, <2>3
  <2> QED BY <1>2, <1>4, <1>5, <2>4
<1> QED BY <1>5, <1>6 DEF n, s

TextKinds == {"row", "item", "sentence"}

\* A row of a table, not its separator.
Whole(v) == \A p \in v.text : ~F(p).sep

LEMMA BodyFacts ==
    ASSUME NEW body, NEW shown, IsSeq(shown), IsFiniteSet(Range(shown)), Range(shown) \subseteq Int
    PROVE  LET us == BodyUnits(body, shown)
           IN  /\ IsSeq(us)
               /\ \A k \in 1 .. Len(us) : /\ Plain(us[k]) /\ us[k].kind \in TextKinds
                                          /\ us[k].kind = "row" => (us[k].header <=> k = 1) /\ Whole(us[k])
               /\ (\A k \in 1 .. Len(us) : us[k].kind = "row") \/ (\A k \in 1 .. Len(us) : us[k].kind # "row")
               /\ body # <<>> => \A p \in Range(shown) :
                                    ~F(p).sep => \E k \in 1 .. Len(us) : p \in us[k].text
<1> DEFINE us == BodyUnits(body, shown)
           rows == InOrder({p \in Range(shown) : ~F(p).sep})
           texts == [k \in DOMAIN shown |-> {shown[k]}]
<1>1. Len(shown) \in Nat /\ DOMAIN shown = 1 .. Len(shown) BY SeqFacts
<1>2. IsSeq(texts) /\ Len(texts) = Len(shown) /\ \A k \in 1 .. Len(shown) : texts[k] = {shown[k]}
  <2>1. texts = [k \in 1 .. Len(shown) |-> {shown[k]}] BY <1>1
  <2> HIDE DEF texts
  <2>2. \A k \in 1 .. Len(shown) : texts[k] = {shown[k]} BY <2>1
  <2>3. texts = [k \in 1 .. Len(shown) |-> texts[k]] BY <2>1
  <2> QED BY <1>1, <2>2, <2>3, SeqOfFunction
<1>3. IsSeq(rows) /\ Range(rows) = {p \in Range(shown) : ~F(p).sep}
  <2> DEFINE S == {p \in Range(shown) : ~F(p).sep}
  <2>1. IsFiniteSet(S) /\ S \subseteq Int
    <3>1. S \subseteq Range(shown) OBVIOUS
    <3> HIDE DEF S
    <3> QED BY <3>1, FS_Subset
  <2> HIDE DEF S
  <2> QED BY <2>1, InOrderFacts DEF S
<1>4. \A p \in Range(shown) : \E k \in 1 .. Len(shown) : p = shown[k] BY <1>1 DEF Range
<1> HIDE DEF rows, texts
<1>5. CASE body = <<>>
  <2>1. us = <<>> BY <1>5 DEF BodyUnits
  <2>2. IsSeq(us) /\ Len(us) = 0
    <3>1. <<>> \in Seq({}) /\ Len(<<>>) = 0 OBVIOUS
    <3> QED BY <2>1, <3>1, SeqIntro
  <2> HIDE DEF us
  <2>3. \A k \in 1 .. Len(us) : FALSE BY <2>2
  <2> QED BY <1>5, <2>2, <2>3 DEF us
<1>6. CASE body # <<>> /\ IsTable(body)
  <2>1. us = Table(rows) BY <1>6 DEF BodyUnits, rows
  <2> HIDE DEF us
  <2>2. /\ IsSeq(us) /\ Len(us) = Len(rows)
        /\ \A k \in 1 .. Len(rows) : /\ Plain(us[k]) /\ us[k].kind = "row" /\ us[k].text = {rows[k]}
                                     /\ (us[k].header <=> k = 1)
    BY <1>3, <2>1, TableFacts
  <2>3. \A k \in 1 .. Len(us) : us[k].kind = "row" /\ us[k].kind \in TextKinds BY <2>2 DEF TextKinds
  <2>5. \A k \in 1 .. Len(us) : Whole(us[k])
    <3> SUFFICES ASSUME NEW k \in 1 .. Len(us) PROVE Whole(us[k]) OBVIOUS
    <3>1. DOMAIN rows = 1 .. Len(rows) BY <1>3, SeqFacts
    <3>2. rows[k] \in Range(rows) BY <2>2, <3>1 DEF Range
    <3>3. ~F(rows[k]).sep BY <1>3, <3>2
    <3> QED BY <2>2, <3>3 DEF Whole
  <2>4. \A p \in Range(shown) : ~F(p).sep => \E k \in 1 .. Len(us) : p \in us[k].text
    <3> SUFFICES ASSUME NEW p \in Range(shown), ~F(p).sep PROVE \E k \in 1 .. Len(us) : p \in us[k].text
      OBVIOUS
    <3>1. p \in Range(rows) /\ DOMAIN rows = 1 .. Len(rows) BY <1>3, SeqFacts
    <3>2. PICK k \in 1 .. Len(rows) : p = rows[k] BY <3>1 DEF Range
    <3> QED BY <2>2, <3>2
  <2> QED BY <2>2, <2>3, <2>4, <2>5 DEF us
<1>7. CASE body # <<>> /\ ~IsTable(body) /\ IsList(body)
  <2>1. us = Items("item", texts) BY <1>7 DEF BodyUnits, texts
  <2> HIDE DEF us
  <2>2. /\ IsSeq(us) /\ Len(us) = Len(texts)
        /\ \A k \in 1 .. Len(texts) : Plain(us[k]) /\ us[k].kind = "item" /\ us[k].text = texts[k]
    BY <1>2, <2>1, ItemsFacts
  <2>3. \A k \in 1 .. Len(us) : us[k].kind # "row" /\ us[k].kind \in TextKinds BY <2>2 DEF TextKinds
  <2>4. \A p \in Range(shown) : \E k \in 1 .. Len(us) : p \in us[k].text BY <1>2, <1>4, <2>2
  <2> QED BY <2>2, <2>3, <2>4 DEF us
<1>8. CASE body # <<>> /\ ~IsTable(body) /\ ~IsList(body)
  <2>1. us = Items("sentence", Sentences(shown)) BY <1>8 DEF BodyUnits
  <2> HIDE DEF us
  <2>2. /\ IsSeq(Sentences(shown))
        /\ \A k \in 1 .. Len(shown) : \E j \in 1 .. Len(Sentences(shown)) : shown[k] \in Sentences(shown)[j]
    BY SentencesFacts
  <2>3. /\ IsSeq(us) /\ Len(us) = Len(Sentences(shown))
        /\ \A k \in 1 .. Len(Sentences(shown)) :
              Plain(us[k]) /\ us[k].kind = "sentence" /\ us[k].text = Sentences(shown)[k]
    BY <2>1, <2>2, ItemsFacts
  <2>4. \A k \in 1 .. Len(us) : us[k].kind # "row" /\ us[k].kind \in TextKinds BY <2>3 DEF TextKinds
  <2>5. \A p \in Range(shown) : \E k \in 1 .. Len(us) : p \in us[k].text
    <3> SUFFICES ASSUME NEW p \in Range(shown) PROVE \E k \in 1 .. Len(us) : p \in us[k].text OBVIOUS
    <3>1. PICK i \in 1 .. Len(shown) : p = shown[i] BY <1>4
    <3>2. PICK j \in 1 .. Len(Sentences(shown)) : shown[i] \in Sentences(shown)[j] BY <2>2
    <3> QED BY <2>3, <3>1, <3>2
  <2> QED BY <2>3, <2>4, <2>5 DEF us
<1> QED BY <1>5, <1>6, <1>7, <1>8

-----------------------------------------------------------------------------
(***************************************************************************)
(* The state of the builder: what holds of its control between two steps.  *)
(***************************************************************************)
Shape ==
    /\ docs \in Contexts /\ d \in 0 .. Len(docs) /\ r \in Nat \ {0}
    /\ IsSeq(regions) /\ IsSeq(blocks) /\ IsSeq(units)
    /\ d = 0 => regions = <<>> /\ ~open
    /\ d # 0 => \/ docs[d].role \in FrozenRoles /\ regions = <<>>
                \/ docs[d].role \notin FrozenRoles /\ regions = RegionsOf(docs[d])
    /\ open => r <= Len(regions) /\ Pipe(regions[r].label) \in Prosaic
    /\ ~open => blocks = <<>>
    /\ \A k \in 1 .. Len(blocks) :
          IsSeq(blocks[k]) /\ blocks[k] # <<>> /\ Range(blocks[k]) \subseteq regions[r].from .. regions[r].to

\* The units of a document come from the regions done, and from the open one.
Belongs(v) ==
    /\ IsUnit(v) /\ v.doc \in 1 .. d
    /\ v.doc = d /\ v.kind # "instruction" =>
          v.region \in 1 .. Len(regions) /\ (v.region < r \/ (open /\ v.region = r))

Homed == \A u \in 1 .. Len(units) : Belongs(units[u])

LEMMA ContextFacts ==
    ASSUME NEW c \in Contexts
    PROVE  Len(c) \in Nat /\ DOMAIN c = 1 .. Len(c) /\ \A i \in 1 .. Len(c) : IsText(c[i].lines)
<1>1. IsSeq(c) /\ \A doc \in Range(c) : doc.lines \in Seq(DOMAIN Line)
  BY FrontEndAssumption DEF IsSeq
<1>2. Len(c) \in Nat /\ DOMAIN c = 1 .. Len(c) BY <1>1, SeqFacts
<1>3. \A i \in 1 .. Len(c) : c[i] \in Range(c) BY <1>2 DEF Range
<1> QED BY <1>1, <1>2, <1>3 DEF IsText

\* The document at work and its regions.
LEMMA ShapeFacts ==
    ASSUME Shape
    PROVE  /\ Len(docs) \in Nat /\ Len(units) \in Nat /\ DOMAIN units = 1 .. Len(units)
           /\ Len(regions) \in Nat /\ DOMAIN regions = 1 .. Len(regions)
           /\ d < Len(docs) => d + 1 \in 1 .. Len(docs) /\ IsText(docs[d + 1].lines)
           /\ ~Free => d # 0 /\ r \in 1 .. Len(regions)
           /\ d # 0 => /\ IsText(lines)
                       /\ regions = <<>> \/ Split(regions, Len(lines))
                       /\ regions = <<>> <=> docs[d].role \in FrozenRoles
                       /\ DOMAIN lines = 1 .. Len(lines) /\ Len(lines) \in Nat
                       /\ \A p \in 1 .. Len(lines) : lines[p] \in DOMAIN Line
<1>1. Len(docs) \in Nat /\ d \in 0 .. Len(docs) /\ \A i \in 1 .. Len(docs) : IsText(docs[i].lines)
  BY ContextFacts DEF Shape
<1>2. Len(regions) \in Nat /\ Len(units) \in Nat /\ DOMAIN units = 1 .. Len(units)
      /\ DOMAIN regions = 1 .. Len(regions)
  BY SeqFacts DEF Shape
<1>3. d < Len(docs) => d + 1 \in 1 .. Len(docs) /\ IsText(docs[d + 1].lines) BY <1>1
<1>4. ~Free => d # 0 /\ r \in 1 .. Len(regions) BY <1>2 DEF Free, Shape
<1>5. d # 0 => d \in 1 .. Len(docs) BY <1>1
<1>6. ASSUME d # 0
      PROVE  /\ IsText(lines)
             /\ regions = <<>> \/ Split(regions, Len(lines))
             /\ regions = <<>> <=> docs[d].role \in FrozenRoles
  <2>1. IsText(lines) BY <1>1, <1>5, <1>6 DEF lines
  <2>2. /\ Split(RegionsOf(docs[d]), Len(lines))
        /\ Len(RegionsOf(docs[d])) = 1 \/ (RegionsOf(docs[d]) = Segment(lines) /\ lines # <<>>)
    BY <2>1, RegionsFacts DEF lines
  <2>3. RegionsOf(docs[d]) # <<>>
    <3> SUFFICES ASSUME RegionsOf(docs[d]) = <<>> PROVE FALSE OBVIOUS
    <3>1. Len(RegionsOf(docs[d])) = 0 /\ lines # <<>> /\ Split(<<>>, Len(lines)) BY <2>2
    <3>2. Len(lines) \in Nat /\ Len(lines) # 0 BY <2>1, <3>1, TextFacts, SeqFacts
    <3>3. 1 \in 1 .. Len(lines) /\ Len(<<>>) = 0 BY <3>2
    <3>4. \E k \in 1 .. 0 : 1 \in <<>>[k].from .. <<>>[k].to BY <3>1, <3>3 DEF Split
    <3> QED BY <3>4
  <2> QED BY <1>6, <2>1, <2>2, <2>3 DEF Shape
<1>7. ASSUME d # 0
      PROVE  /\ DOMAIN lines = 1 .. Len(lines) /\ Len(lines) \in Nat
             /\ \A p \in 1 .. Len(lines) : lines[p] \in DOMAIN Line
  <2>1. IsText(lines) BY <1>6, <1>7
  <2> QED BY <2>1, TextFacts
<1> QED BY <1>1, <1>2, <1>3, <1>4, <1>6, <1>7

\* The places of a region are lines of the document.
LEMMA PlacesFacts ==
    ASSUME Shape, d # 0, r \in 1 .. Len(regions)
    PROVE  /\ regions[r].from \in Int /\ regions[r].to \in Int
           /\ regions[r].from .. regions[r].to \subseteq 1 .. Len(lines)
           /\ IsSeq(Places)
           /\ Range(Places) = {p \in regions[r].from .. regions[r].to : F(p).chars > 0}
           /\ Range(Places) \subseteq 1 .. Len(lines)
           /\ IsFiniteSet(Range(Places)) /\ Range(Places) \subseteq Int
           /\ \A i, j \in 1 .. Len(Places) : i < j => Places[i] < Places[j]
<1> DEFINE from == regions[r].from
           to == regions[r].to
           S == {p \in from .. to : F(p).chars > 0}
<1>1. regions # <<>>
  <2>1. Len(regions) # 0 BY ShapeFacts
  <2>2. Len(<<>>) = 0 OBVIOUS
  <2> QED BY <2>1, <2>2
<1>2. Split(regions, Len(lines)) /\ Len(lines) \in Nat BY <1>1, ShapeFacts
<1>3. from \in Int /\ to \in Int /\ 1 <= from /\ to <= Len(lines) BY <1>2 DEF Split
<1>4. Places = InOrder(S) BY DEF Places, Full
<1> HIDE DEF from, to
<1>5. from .. to \subseteq 1 .. Len(lines) BY <1>2, <1>3
<1>6. S \subseteq from .. to OBVIOUS
<1> HIDE DEF S
<1>7. IsFiniteSet(S) /\ S \subseteq Int BY <1>3, <1>6, SomeInterval
<1>8. /\ IsSeq(Places) /\ Range(Places) = S
      /\ \A i, j \in DOMAIN Places : i < j => Places[i] < Places[j]
  BY <1>4, <1>7, InOrderFacts
<1>9. DOMAIN Places = 1 .. Len(Places) BY <1>8, SeqFacts
<1> QED BY <1>3, <1>5, <1>6, <1>7, <1>8, <1>9 DEF S, from, to

-----------------------------------------------------------------------------
(***************************************************************************)
(* What each action adds.                                                  *)
(***************************************************************************)
FrozenAdd(us) ==
    /\ Grown(us)
    /\ \A k \in 1 .. Len(us) : /\ IsUnit(us[k]) /\ us[k].doc = d + 1 /\ us[k].kind = "instruction"
                               /\ us[k].rungs = {Atoms(us[k].text)}
    /\ \A p \in 1 .. Len(docs[d + 1].lines) :
          Line[docs[d + 1].lines[p]].chars # 0 => \E k \in 1 .. Len(us) : p \in us[k].text

LEMMA OpenFrozenAdds ==
    ASSUME Shape, OpenFrozen
    PROVE  \E us : FrozenAdd(us)
<1> DEFINE text == docs[d + 1].lines
           S == {p \in DOMAIN text : Line[text[p]].chars > 0}
           places == InOrder(S)
           unit(k) == [Unit("instruction", {places[k]}, FROZEN) EXCEPT !.doc = d + 1]
           us == [k \in DOMAIN places |-> unit(k)]
<1>1. d < Len(docs) /\ Emit(us, {}) BY Zenon DEF OpenFrozen
<1>2. IsText(text) BY <1>1, ShapeFacts
<1>3. DOMAIN text = 1 .. Len(text) /\ Len(text) \in Nat /\ \A p \in 1 .. Len(text) : text[p] \in DOMAIN Line
  BY <1>2, TextFacts
<1>4. \A p \in 1 .. Len(text) : Line[text[p]].chars # 0 => p \in S
  BY <1>3, FrontEndAssumption
<1>5. S \subseteq 1 .. Len(text) BY <1>3
<1>6. ASSUME NEW k
      PROVE  /\ IsUnit(unit(k)) /\ unit(k).doc = d + 1 /\ unit(k).kind = "instruction"
             /\ unit(k).text = {places[k]} /\ unit(k).rungs = {Atoms({places[k]})}
  <2> DEFINE t == {places[k]}
             e == d + 1
  <2>1. unit(k) = [Unit("instruction", t, FROZEN) EXCEPT !.doc = e] OBVIOUS
  <2> HIDE DEF t, e, unit
  <2>2. unit(k) = [kind |-> "instruction", doc |-> e, region |-> r, text |-> t, prot |-> FROZEN,
                   parent |-> 0, header |-> FALSE, depth |-> 0, rungs |-> {Atoms(t)}, template |-> <<>>]
    BY <2>1 DEF Unit
  <2>3. IsUnit(unit(k)) BY <2>2 DEF IsUnit
  <2>4. /\ unit(k).doc = e /\ unit(k).kind = "instruction" /\ unit(k).text = t
        /\ unit(k).rungs = {Atoms(t)}
    BY <2>2
  <2> QED BY <2>3, <2>4 DEF t, e
<1> HIDE DEF S, unit, text
<1>7. IsFiniteSet(S) /\ S \subseteq Int BY <1>3, <1>5, SomePlaces DEF text
<1>8. IsSeq(places) /\ Range(places) = S BY <1>7, InOrderFacts
<1> HIDE DEF places
<1>9. DOMAIN places = 1 .. Len(places) /\ Len(places) \in Nat BY <1>8, SeqFacts
<1>10. us = [k \in 1 .. Len(places) |-> unit(k)] BY <1>9
<1> HIDE DEF us
<1>11. us = [k \in 1 .. Len(places) |-> us[k]] /\ \A k \in 1 .. Len(places) : us[k] = unit(k) BY <1>10
<1>12. IsSeq(us) /\ Len(us) = Len(places) BY <1>9, <1>11, SeqOfFunction
<1>13. Grown(us)
  <2>1. IsSeq(units) BY DEF Shape
  <2> QED BY <1>1, <1>12, <2>1, EmitFacts
<1>14. ASSUME NEW p \in 1 .. Len(text), Line[text[p]].chars # 0
       PROVE  \E k \in 1 .. Len(us) : p \in us[k].text
  <2>1. p \in Range(places) BY <1>4, <1>8, <1>14
  <2>2. PICK k \in 1 .. Len(places) : p = places[k] BY <1>9, <2>1 DEF Range
  <2> QED BY <1>6, <1>11, <1>12, <2>2
<1>15. \A k \in 1 .. Len(us) : /\ IsUnit(us[k]) /\ us[k].doc = d + 1 /\ us[k].kind = "instruction"
                               /\ us[k].rungs = {Atoms(us[k].text)}
  <2> SUFFICES ASSUME NEW k \in 1 .. Len(us)
               PROVE  /\ IsUnit(us[k]) /\ us[k].doc = d + 1 /\ us[k].kind = "instruction"
                      /\ us[k].rungs = {Atoms(us[k].text)}
    OBVIOUS
  <2>1. us[k] = unit(k) BY <1>11, <1>12
  <2>2. /\ IsUnit(unit(k)) /\ unit(k).doc = d + 1 /\ unit(k).kind = "instruction"
        /\ unit(k).text = {places[k]} /\ unit(k).rungs = {Atoms({places[k]})}
    BY <1>6
  <2> QED BY <2>1, <2>2
<1>16. FrozenAdd(us) BY <1>13, <1>14, <1>15 DEF FrozenAdd, text
<1> QED BY <1>16

\* A block: h is the number of headings, 0 or 1.
BlockAdd(us, h) ==
    LET block == Head(blocks)
        depth == F(block[1]).heading
        n     == Len(units)
    IN  /\ Grown(us) /\ h \in {0, 1} /\ h <= Len(us)
        /\ \A k \in 1 .. Len(us) : Made(us[k]) /\ us[k].rungs = {Atoms(us[k].text)}
        /\ h = 0 => stack' = stack /\ \A k \in 1 .. Len(us) : us[k].parent = Scope(stack)
        /\ h = 1 => /\ us[1].kind = "heading" /\ us[1].depth = depth /\ depth \in Nat
                    /\ us[1].parent = Scope(Close(depth))
                    /\ stack' = Append(Close(depth), n + 1)
                    /\ \A k \in 2 .. Len(us) : us[k].parent = n + 1
        /\ \A k \in h + 1 .. Len(us) : us[k].kind \in TextKinds
        /\ \/ \A k \in 1 .. Len(us) : us[k].kind # "row"
           \/ \A k \in h + 1 .. Len(us) :
                 /\ us[k].kind = "row" /\ (us[k].header <=> k = h + 1) /\ Whole(us[k])
                 /\ k # h + 1 => Edge(n + k, n + h + 1, "REQUIRES") \in edges'
        /\ \A p \in Range(block) :
              F(p).chars # 0 /\ ~F(p).sep => \E k \in 1 .. Len(us) : p \in us[k].text

LEMMA BuildBlockAdds ==
    ASSUME Shape, BuildBlock
    PROVE  \E us, h : BlockAdd(us, h)
<1> DEFINE block == Head(blocks)
           depth == F(block[1]).heading
           n == Len(units)
           body == Body(block)
           S == {p \in Range(body) : F(p).chars > 0}
           shown == InOrder(S)
           bare == BodyUnits(body, shown)
           scope == IF depth = 0 THEN Scope(stack) ELSE n + 1
           head == IF depth = 0 THEN <<>> ELSE <<Headed(block[1], Close(depth))>>
           h == IF depth = 0 THEN 0 ELSE 1
           under == [k \in DOMAIN bare |-> [bare[k] EXCEPT !.parent = scope]]
           more == {Edge(Uid(Len(head) + k), Uid(Len(head) + 1), "REQUIRES") :
                      k \in {j \in DOMAIN bare : j > 1 /\ bare[j].kind = "row"}}
           us == head \o under
<1>1. open /\ blocks # <<>> /\ AddBlock(block, BlockUnits(body), Close(depth)) BY DEF BuildBlock
<1>2. d # 0 /\ r \in 1 .. Len(regions) BY <1>1, ShapeFacts DEF Shape
\* The places of the block.
<1>3. /\ IsSeq(block) /\ block # <<>> /\ Range(block) \subseteq 1 .. Len(lines)
      /\ n \in Nat /\ \A p \in 1 .. Len(lines) : F(p).chars \in Nat /\ F(p).heading \in Nat
  <2>1. IsSeq(blocks) BY DEF Shape
  <2>2. Head(blocks) = blocks[1] /\ 1 \in 1 .. Len(blocks)
    <3>1. Len(blocks) \in Nat /\ Len(blocks) # 0 BY <1>1, <2>1, SeqFacts
    <3> QED BY <1>1, <2>1, <3>1, TailFacts
  <2>3. /\ IsSeq(block) /\ block # <<>> /\ Range(block) \subseteq regions[r].from .. regions[r].to
    BY <2>2 DEF Shape
  <2>4. regions[r].from .. regions[r].to \subseteq 1 .. Len(lines) BY <1>2, PlacesFacts
  <2>5. \A p \in 1 .. Len(lines) : F(p).chars \in Nat /\ F(p).heading \in Nat
    <3>1. \A p \in 1 .. Len(lines) : lines[p] \in DOMAIN Line BY <1>2, ShapeFacts
    <3> QED BY <3>1, FrontEndAssumption DEF F
  <2>6. n \in Nat BY ShapeFacts
  <2> QED BY <2>3, <2>4, <2>5, <2>6
<1>4. block[1] \in Range(block) /\ depth \in Nat
  <2>1. DOMAIN block = 1 .. Len(block) /\ Len(block) \in Nat /\ Len(block) # 0 BY <1>3, SeqFacts
  <2>2. 1 \in DOMAIN block BY <2>1
  <2>3. block[1] \in Range(block) BY <2>2 DEF Range
  <2> QED BY <1>3, <2>3
<1> HIDE DEF block
<1>5. /\ Range(body) \subseteq Range(block)
      /\ \A p \in Range(block) : p \in Range(body) \/ (depth # 0 /\ p = block[1])
      /\ body = <<>> => Range(body) = {}
  <2>1. /\ DOMAIN block = 1 .. Len(block) /\ Len(block) \in Nat
        /\ IsSeq(Tail(block)) /\ DOMAIN Tail(block) = 1 .. Len(block) - 1
        /\ \A k \in 1 .. Len(block) - 1 : Tail(block)[k] = block[k + 1]
    BY <1>3, SeqFacts, TailFacts
  <2>2. \A k \in 1 .. Len(block) - 1 : k + 1 \in 1 .. Len(block) BY <2>1
  <2>3. Range(Tail(block)) \subseteq Range(block) BY <2>1, <2>2 DEF Range
  <2>4. ASSUME NEW p \in Range(block) PROVE p \in Range(Tail(block)) \/ p = block[1]
    <3>1. PICK k \in 1 .. Len(block) : p = block[k] BY <2>1 DEF Range
    <3>2. CASE k = 1 BY <3>1, <3>2
    <3>3. CASE k # 1
      <4>1. k - 1 \in 1 .. Len(block) - 1 /\ (k - 1) + 1 = k BY <2>1, <3>3
      <4>2. Tail(block)[k - 1] = p BY <2>1, <3>1, <4>1
      <4> QED BY <2>1, <4>1, <4>2 DEF Range
    <3> QED BY <3>2, <3>3
  <2>5. body = IF depth > 0 THEN Tail(block) ELSE block BY DEF Body
  <2>6. depth > 0 <=> depth # 0 BY <1>4
  <2>7. Range(<<>>) = {} BY DEF Range
  <2> HIDE DEF body, depth
  <2> QED BY <2>3, <2>4, <2>5, <2>6, <2>7
<1>6. S \subseteq Range(body) /\ \A p \in Range(body) : F(p).chars # 0 => p \in S
  <2>1. \A p \in Range(body) : F(p).chars \in Nat BY <1>3, <1>5
  <2> QED BY <2>1
<1> HIDE DEF body, depth, S, n
<1>7. IsSeq(shown) /\ Range(shown) = S /\ IsFiniteSet(S) /\ S \subseteq Int
  <2>1. Len(lines) \in Nat BY <1>2, ShapeFacts
  <2>2. S \subseteq 1 .. Len(lines) BY <1>3, <1>5, <1>6
  <2>3. IsFiniteSet(S) /\ S \subseteq Int BY <2>1, <2>2, SomePlaces
  <2> QED BY <2>3, InOrderFacts
<1> HIDE DEF shown
<1>8. /\ IsSeq(bare)
      /\ \A k \in 1 .. Len(bare) : /\ Plain(bare[k]) /\ bare[k].kind \in TextKinds
                                   /\ bare[k].kind = "row" => (bare[k].header <=> k = 1) /\ Whole(bare[k])
      /\ (\A k \in 1 .. Len(bare) : bare[k].kind = "row") \/ (\A k \in 1 .. Len(bare) : bare[k].kind # "row")
      /\ body # <<>> => \A p \in Range(shown) : ~F(p).sep => \E k \in 1 .. Len(bare) : p \in bare[k].text
  BY <1>7, BodyFacts
<1>9. BlockUnits(body) = bare BY DEF BlockUnits, bare, shown, S
<1>10. /\ Emit(us, more)
       /\ depth = 0 => stack' = stack
       /\ depth # 0 => stack' = Append(Close(depth), n + 1)
  <2>1. AddBlock(block, bare, Close(depth)) BY <1>1, <1>9
  <2>2. Uid(1) = n + 1 BY DEF Uid, n
  <2> HIDE DEF bare
  <2>3. CASE depth = 0
    <3>1. EmitBlock(<<>>, bare, Scope(stack)) /\ stack' = stack BY <2>1, <2>3 DEF AddBlock, depth
    <3> QED BY <2>3, <3>1 DEF EmitBlock
  <2>4. CASE depth # 0
    <3>1. /\ EmitBlock(<<Headed(block[1], Close(depth))>>, bare, n + 1)
          /\ stack' = Append(Close(depth), n + 1)
      BY <2>1, <2>2, <2>4 DEF AddBlock, depth
    <3> QED BY <2>4, <3>1 DEF EmitBlock
  <2> QED BY <2>3, <2>4
<1> HIDE DEF bare
<1>11. Len(bare) \in Nat /\ DOMAIN bare = 1 .. Len(bare) BY <1>8, SeqFacts
<1>12. /\ IsSeq(under) /\ Len(under) = Len(bare)
       /\ \A k \in 1 .. Len(bare) : /\ IsUnit(under[k]) /\ under[k].parent = scope
                                    /\ under[k].doc = d /\ under[k].region = r
                                    /\ under[k].kind = bare[k].kind /\ under[k].text = bare[k].text
                                    /\ (under[k].header <=> bare[k].header)
                                    /\ under[k].rungs = {Atoms(under[k].text)}
  <2> HIDE DEF scope
  <2>1. \A k \in 1 .. Len(bare) : under[k] = [bare[k] EXCEPT !.parent = scope] BY <1>11
  <2>2. under = [k \in 1 .. Len(bare) |-> under[k]] BY <1>11
  <2> HIDE DEF under
  <2>3. IsSeq(under) /\ Len(under) = Len(bare) BY <1>11, <2>2, SeqOfFunction
  <2>4. ASSUME NEW k \in 1 .. Len(bare)
        PROVE  /\ IsUnit(under[k]) /\ under[k].parent = scope
               /\ under[k].doc = d /\ under[k].region = r
               /\ under[k].kind = bare[k].kind /\ under[k].text = bare[k].text
               /\ (under[k].header <=> bare[k].header)
               /\ under[k].rungs = {Atoms(under[k].text)}
    <3>1. Plain(bare[k]) BY <1>8
    <3>2. IsUnit(bare[k]) /\ bare[k].doc = d /\ bare[k].region = r /\ bare[k].rungs = {Atoms(bare[k].text)}
      BY <3>1 DEF Plain, Made
    <3> DEFINE v == bare[k]
               w == under[k]
    <3>3. IsUnit(v) /\ w = [v EXCEPT !.parent = scope] BY <2>1, <3>2
    <3> HIDE DEF v, w
    <3>4. /\ IsUnit(w) /\ w.parent = scope
          /\ w.kind = v.kind /\ w.doc = v.doc /\ w.region = v.region
          /\ w.text = v.text /\ w.header = v.header /\ w.rungs = v.rungs
      BY <3>3, WithParent
    <3> QED BY <3>2, <3>4 DEF v, w
  <2> QED BY <2>3, <2>4
<1>13. /\ IsSeq(head) /\ Len(head) = h /\ h \in {0, 1}
       /\ depth # 0 => LET v == head[1] IN
            /\ Made(v) /\ v.kind = "heading" /\ v.depth = depth /\ v.parent = Scope(Close(depth))
            /\ v.text = {block[1]} /\ v.rungs = {Atoms(v.text)}
  <2>1. CASE depth = 0
    <3>1. head = <<>> /\ h = 0 BY <2>1
    <3>2. <<>> \in Seq({}) /\ Len(<<>>) = 0 OBVIOUS
    <3> HIDE DEF head, h
    <3> QED BY <2>1, <3>1, <3>2, SeqIntro
  <2>2. CASE depth # 0
    <3> DEFINE v == Headed(block[1], Close(depth))
               s == Scope(Close(depth))
               t == {block[1]}
    <3>1. head = <<v>> /\ h = 1 BY <2>2
    <3>2. v = [[Unit("heading", t, ANCHORED) EXCEPT !.depth = depth] EXCEPT !.parent = s]
      BY DEF Headed, depth, Unit
    <3> HIDE DEF v, s, t, head, h
    <3>3. v = [kind |-> "heading", doc |-> d, region |-> r, text |-> t, prot |-> ANCHORED,
               parent |-> s, header |-> FALSE, depth |-> depth, rungs |-> {Atoms(t)}, template |-> <<>>]
      BY <3>2 DEF Unit
    <3>4. IsUnit(v) BY <3>3 DEF IsUnit
    <3>5. /\ v.kind = "heading" /\ v.doc = d /\ v.region = r /\ v.text = t /\ v.parent = s
          /\ v.depth = depth /\ v.rungs = {Atoms(t)}
      BY <3>3
    <3>6. <<v>> \in Seq({v}) /\ Len(<<v>>) = 1 /\ <<v>>[1] = v OBVIOUS
    <3>7. IsSeq(<<v>>) BY <3>6, SeqIntro
    <3> QED BY <2>2, <3>1, <3>4, <3>5, <3>6, <3>7 DEF Made, s, t
  <2> QED BY <2>1, <2>2
<1>14. scope = IF h = 0 THEN Scope(stack) ELSE n + 1 OBVIOUS
<1>15. (h = 0 <=> depth = 0) OBVIOUS
<1> HIDE DEF head, h, scope, under, more
<1>16. /\ IsSeq(us) /\ Len(us) = h + Len(bare)
       /\ \A k \in 1 .. h : us[k] = head[k]
       /\ \A k \in 1 .. Len(bare) : us[h + k] = under[k]
  BY <1>12, <1>13, ConcatFacts
<1> HIDE DEF us
<1>17. Grown(us) /\ more \subseteq edges'
  <2>1. IsSeq(units) BY DEF Shape
  <2> QED BY <1>10, <1>16, <2>1, EmitFacts
\* A unit of the body in its place among the new ones.
<1>18. ASSUME NEW k \in h + 1 .. Len(us)
       PROVE  k - h \in 1 .. Len(bare) /\ us[k] = under[k - h]
  <2>1. k - h \in 1 .. Len(bare) /\ h + (k - h) = k BY <1>11, <1>13, <1>16
  <2> QED BY <1>16, <2>1
<1>19. ASSUME NEW k \in 1 .. Len(us) PROVE k \in h + 1 .. Len(us) \/ (h = 1 /\ k = 1 /\ us[k] = head[1])
  BY <1>11, <1>13, <1>16
<1>20. \A k \in 1 .. Len(us) : Made(us[k]) /\ us[k].rungs = {Atoms(us[k].text)}
  <2> SUFFICES ASSUME NEW k \in 1 .. Len(us)
               PROVE  Made(us[k]) /\ us[k].rungs = {Atoms(us[k].text)}
    OBVIOUS
  <2>1. CASE k \in h + 1 .. Len(us)
    <3> DEFINE v == under[k - h]
    <3>1. us[k] = v /\ k - h \in 1 .. Len(bare) BY <1>18, <2>1
    <3>2. IsUnit(v) /\ v.doc = d /\ v.region = r /\ v.rungs = {Atoms(v.text)} BY <1>12, <3>1
    <3> HIDE DEF v
    <3> QED BY <3>1, <3>2 DEF Made
  <2>2. CASE h = 1 /\ us[k] = head[1]
    <3>1. depth # 0 BY <1>15, <2>2
    <3> QED BY <1>13, <2>2, <3>1
  <2> QED BY <1>19, <2>1, <2>2
<1>21. h = 0 => stack' = stack /\ \A k \in 1 .. Len(us) : us[k].parent = Scope(stack)
  <2> SUFFICES ASSUME h = 0 PROVE stack' = stack /\ \A k \in 1 .. Len(us) : us[k].parent = Scope(stack)
    OBVIOUS
  <2>1. \A k \in 1 .. Len(us) : k \in h + 1 .. Len(us) BY <1>16
  <2> QED BY <1>10, <1>12, <1>14, <1>15, <1>18, <2>1
<1>22. h = 1 => /\ us[1].kind = "heading" /\ us[1].depth = depth /\ depth \in Nat
                /\ us[1].parent = Scope(Close(depth))
                /\ stack' = Append(Close(depth), n + 1)
                /\ \A k \in 2 .. Len(us) : us[k].parent = n + 1
  <2> SUFFICES ASSUME h = 1
               PROVE  /\ us[1].kind = "heading" /\ us[1].depth = depth
                      /\ us[1].parent = Scope(Close(depth))
                      /\ stack' = Append(Close(depth), n + 1)
                      /\ \A k \in 2 .. Len(us) : us[k].parent = n + 1
    BY <1>4
  <2>1. depth # 0 /\ 1 \in 1 .. h /\ us[1] = head[1] BY <1>15, <1>16
  <2>2. \A k \in 2 .. Len(us) : k \in h + 1 .. Len(us) OBVIOUS
  <2>3. \A k \in 2 .. Len(us) : us[k].parent = n + 1 BY <1>12, <1>14, <1>18, <2>2
  <2> QED BY <1>10, <1>13, <2>1, <2>3
<1>23. \A k \in h + 1 .. Len(us) : us[k].kind \in TextKinds BY <1>8, <1>12, <1>18
<1>24. \/ \A k \in 1 .. Len(us) : us[k].kind # "row"
       \/ \A k \in h + 1 .. Len(us) :
             /\ us[k].kind = "row" /\ (us[k].header <=> k = h + 1) /\ Whole(us[k])
             /\ k # h + 1 => Edge(n + k, n + h + 1, "REQUIRES") \in edges'
  <2>1. CASE \A k \in 1 .. Len(bare) : bare[k].kind # "row"
    <3>1. \A k \in h + 1 .. Len(us) : us[k].kind # "row" BY <1>12, <1>18, <2>1
    <3>2. h = 1 => us[1].kind # "row" BY <1>22
    <3> QED BY <1>19, <3>1, <3>2
  <2>2. CASE \A k \in 1 .. Len(bare) : bare[k].kind = "row"
    <3> SUFFICES ASSUME NEW k \in h + 1 .. Len(us)
                 PROVE  /\ us[k].kind = "row" /\ (us[k].header <=> k = h + 1) /\ Whole(us[k])
                        /\ k # h + 1 => Edge(n + k, n + h + 1, "REQUIRES") \in edges'
      OBVIOUS
    <3> DEFINE j == k - h
    <3>1. j \in 1 .. Len(bare) /\ us[k] = under[j] /\ (j = 1 <=> k = h + 1) /\ h + j = k
      BY <1>13, <1>18
    <3>2. k # h + 1 => j > 1 BY <1>11, <3>1
    <3> HIDE DEF j
    <3>3. us[k].kind = "row" /\ (us[k].header <=> k = h + 1) BY <1>8, <1>12, <2>2, <3>1
    <3>6. Whole(us[k])
      <4>1. Whole(bare[j]) /\ us[k].text = bare[j].text BY <1>8, <1>12, <2>2, <3>1
      <4> QED BY <4>1 DEF Whole
    <3>4. k # h + 1 => Edge(Uid(h + j), Uid(h + 1), "REQUIRES") \in more
      BY <1>11, <1>13, <2>2, <3>1, <3>2 DEF more
    <3>5. Uid(h + j) = n + k /\ Uid(h + 1) = n + h + 1
      BY <1>3, <1>13, <3>1 DEF Uid, n
    <3> QED BY <1>17, <3>3, <3>4, <3>5, <3>6
  <2> QED BY <1>8, <2>1, <2>2
<1>25. \A p \in Range(block) : F(p).chars # 0 /\ ~F(p).sep => \E k \in 1 .. Len(us) : p \in us[k].text
  <2> SUFFICES ASSUME NEW p \in Range(block), F(p).chars # 0, ~F(p).sep
               PROVE  \E k \in 1 .. Len(us) : p \in us[k].text
    OBVIOUS
  <2>1. CASE p \in Range(body)
    <3>1. p \in Range(shown) /\ body # <<>> BY <1>5, <1>6, <1>7, <2>1
    <3>2. PICK k \in 1 .. Len(bare) : p \in bare[k].text BY <1>8, <3>1
    <3>3. h + k \in 1 .. Len(us) BY <1>11, <1>13, <1>16
    <3>4. us[h + k] = under[k] /\ under[k].text = bare[k].text BY <1>12, <1>16
    <3> QED BY <3>2, <3>3, <3>4
  <2>2. CASE depth # 0 /\ p = block[1]
    <3>1. h = 1 /\ 1 \in 1 .. h BY <1>13, <1>15, <2>2
    <3>2. us[1] = head[1] /\ 1 \in 1 .. Len(us) BY <1>11, <1>16, <3>1
    <3>3. p \in us[1].text BY <1>13, <2>2, <3>2
    <3> QED BY <3>2, <3>3
  <2> QED BY <1>5, <2>1, <2>2
<1>26. h <= Len(us) BY <1>11, <1>13, <1>16
<1>27. BlockAdd(us, h)
  BY <1>13, <1>17, <1>20, <1>21, <1>22, <1>23, <1>24, <1>25, <1>26, Zenon DEF BlockAdd, block, depth, n
<1> QED BY <1>27

\* A place that some new unit holds.
Holds(us, p) == \E k \in 1 .. Len(us) : p \in us[k].text /\ us[k].rungs = {Atoms(us[k].text)}

\* A unit per place.
PerPlace(us, places, kind) ==
    /\ IsSeq(us) /\ Len(us) = Len(places)
    /\ \A k \in 1 .. Len(places) : Plain(us[k]) /\ us[k].kind = kind /\ us[k].text = {places[k]}
    /\ \A p \in Range(places) : Holds(us, p)

LEMMA OnePerPlace ==
    ASSUME NEW places, IsSeq(places), NEW kind, NEW prot
    PROVE  PerPlace([k \in DOMAIN places |-> Unit(kind, {places[k]}, prot)], places, kind)
<1> DEFINE unit(k) == Unit(kind, {places[k]}, prot)
           us == [k \in DOMAIN places |-> unit(k)]
<1>1. DOMAIN places = 1 .. Len(places) /\ Len(places) \in Nat BY SeqFacts
<1>2. \A k : Plain(unit(k)) /\ unit(k).kind = kind /\ unit(k).text = {places[k]}
  BY UnitFacts
<1>3. us = [k \in 1 .. Len(places) |-> unit(k)] BY <1>1
<1> HIDE DEF us, unit
<1>4. us = [k \in 1 .. Len(places) |-> us[k]] /\ \A k \in 1 .. Len(places) : us[k] = unit(k) BY <1>3
<1>5. IsSeq(us) /\ Len(us) = Len(places) BY <1>1, <1>4, SeqOfFunction
<1>6. \A k \in 1 .. Len(places) : Plain(us[k]) /\ us[k].kind = kind /\ us[k].text = {places[k]}
  BY <1>2, <1>4
<1>7. ASSUME NEW p \in Range(places) PROVE Holds(us, p)
  <2>1. PICK k \in 1 .. Len(places) : p = places[k] BY <1>1 DEF Range
  <2>2. p \in us[k].text /\ us[k].rungs = {Atoms(us[k].text)} BY <1>6, <2>1 DEF Plain
  <2> QED BY <1>5, <2>2 DEF Holds
<1> QED BY <1>5, <1>6, <1>7 DEF us, unit, PerPlace

TableAdd(us) ==
    /\ Grown(us)
    /\ \A k \in 1 .. Len(us) : Made(us[k]) /\ us[k].kind \in {"row", "profile"}
    /\ \/ \A j, k \in 1 .. Len(us) : j # k => ~ (Whole(us[j]) /\ Whole(us[k]))
       \/ /\ Len(us) >= 1 /\ us[1].kind = "row" /\ us[1].header /\ Whole(us[1])
          /\ \A k \in 2 .. Len(us) : us[k].kind = "row" => ~us[k].header /\ us[k].parent = Len(units) + 1
    /\ \A p \in Range(Places) : ~F(p).sep => Holds(us, p)

LEMMA BuildTableAdds ==
    ASSUME Shape, BuildTable
    PROVE  \E us : TableAdd(us)
<1> DEFINE S == {p \in Range(Places) : ~F(p).sep}
           n == Len(Rows)
           header == [Unit("row", {Rows[1]}, LOCKED) EXCEPT !.header = TRUE]
           profile == [Unit("profile", {}, ANCHORED) EXCEPT !.parent = Uid(1)]
           row(k) == [Unit("row", {Rows[k + 1]}, ELASTIC) EXCEPT !.parent = Uid(1)]
           each == [k \in DOMAIN Places |-> Unit("row", {Places[k]}, ELASTIC)]
           rest == [k \in 1 .. n - 1 |-> row(k)]
           us == <<header, profile>> \o rest
<1>1. d # 0 /\ r \in 1 .. Len(regions) BY ShapeFacts DEF BuildTable, Building
<1>2. /\ IsSeq(Places) /\ IsFiniteSet(Range(Places)) /\ Range(Places) \subseteq Int
      /\ \A i, j \in 1 .. Len(Places) : i < j => Places[i] < Places[j]
  BY <1>1, PlacesFacts
<1>3. IsFiniteSet(S) /\ S \subseteq Int
  <2>1. S \subseteq Range(Places) OBVIOUS
  <2> HIDE DEF S
  <2> QED BY <1>2, <2>1, FS_Subset
<1>4. Rows = InOrder(S) BY DEF Rows
<1>5. \A p : p \in S <=> p \in Range(Places) /\ ~F(p).sep OBVIOUS
<1> HIDE DEF S
<1>6. IsSeq(Rows) /\ Range(Rows) = S BY <1>3, <1>4, InOrderFacts
<1>7. DOMAIN Rows = 1 .. n /\ n \in Nat BY <1>6, SeqFacts
<1>8. IsSeq(units) BY DEF Shape
<1>9. CASE n < 2
  <2>1. Emit(each, {}) BY <1>9 DEF BuildTable
  <2>2. /\ IsSeq(each) /\ Len(each) = Len(Places)
        /\ \A k \in 1 .. Len(Places) : Plain(each[k]) /\ each[k].kind = "row" /\ each[k].text = {Places[k]}
        /\ \A p \in Range(Places) : Holds(each, p)
    <3>1. PerPlace(each, Places, "row") BY <1>2, OnePerPlace, Zenon
    <3> QED BY <3>1 DEF PerPlace
  <2> HIDE DEF each
  <2>3. Grown(each) BY <1>8, <2>1, <2>2, EmitFacts
  <2>4. ASSUME NEW j \in 1 .. Len(each), NEW k \in 1 .. Len(each), j # k, Whole(each[j]), Whole(each[k])
        PROVE  FALSE
    <3>1. DOMAIN Places = 1 .. Len(Places) /\ Len(Places) \in Nat BY <1>2, SeqFacts
    <3>2. Places[j] \in Range(Places) /\ Places[k] \in Range(Places) BY <2>2, <3>1 DEF Range
    <3>3. ~F(Places[j]).sep /\ ~F(Places[k]).sep BY <2>2, <2>4 DEF Whole
    <3>4. Places[j] \in Range(Rows) /\ Places[k] \in Range(Rows) BY <1>5, <1>6, <3>2, <3>3
    <3>5. \A i \in 1 .. n : i = 1 BY <1>7, <1>9
    <3>6. Places[j] = Rows[1] /\ Places[k] = Rows[1] BY <1>7, <3>4, <3>5 DEF Range
    <3>7. Places[j] \in Int BY <1>2, <3>2
    <3>8. j < k \/ k < j BY <2>2, <2>4, <3>1
    <3> QED BY <1>2, <2>2, <3>6, <3>7, <3>8
  <2>5. \A k \in 1 .. Len(each) : Made(each[k]) /\ each[k].kind \in {"row", "profile"}
    BY <2>2 DEF Plain
  <2>6. TableAdd(each) BY <2>2, <2>3, <2>4, <2>5 DEF TableAdd
  <2> QED BY <2>6
<1>10. CASE ~ (n < 2)
  <2>1. Emit(us, {}) BY <1>10 DEF BuildTable, HeaderUnit
  <2>2. /\ Made(header) /\ header.kind = "row" /\ header.header /\ header.text = {Rows[1]}
        /\ header.rungs = {Atoms(header.text)}
    <3> DEFINE t == {Rows[1]}
    <3>1. header = [Unit("row", t, LOCKED) EXCEPT !.header = TRUE] OBVIOUS
    <3> HIDE DEF t, header
    <3>2. header = [kind |-> "row", doc |-> d, region |-> r, text |-> t, prot |-> LOCKED, parent |-> 0,
                    header |-> TRUE, depth |-> 0, rungs |-> {Atoms(t)}, template |-> <<>>]
      BY <3>1 DEF Unit
    <3>3. IsUnit(header) BY <3>2 DEF IsUnit
    <3>4. /\ header.kind = "row" /\ header.header /\ header.text = t /\ header.doc = d
          /\ header.region = r /\ header.rungs = {Atoms(t)}
      BY <3>2
    <3> QED BY <3>3, <3>4 DEF Made, t
  <2>3. Made(profile) /\ profile.kind = "profile"
    <3> DEFINE v == Unit("profile", {}, ANCHORED)
    <3>1. Plain(v) /\ v.kind = "profile" BY DEF Unit, Plain, Made, IsUnit
    <3>2. IsUnit(v) /\ v.doc = d /\ v.region = r BY <3>1 DEF Plain, Made
    <3>3. profile = [v EXCEPT !.parent = Uid(1)] OBVIOUS
    <3> HIDE DEF v, profile
    <3>4. IsUnit(profile) /\ profile.doc = d /\ profile.region = r /\ profile.kind = "profile"
      BY <3>1, <3>2, <3>3, WithParent
    <3> QED BY <3>4 DEF Made
  <2>4. ASSUME NEW k
        PROVE  /\ Made(row(k)) /\ row(k).kind = "row" /\ ~row(k).header /\ row(k).parent = Uid(1)
               /\ row(k).text = {Rows[k + 1]} /\ row(k).rungs = {Atoms(row(k).text)}
    <3> DEFINE t == {Rows[k + 1]}
               w == row(k)
    <3>1. w = [Unit("row", t, ELASTIC) EXCEPT !.parent = Uid(1)] OBVIOUS
    <3> HIDE DEF t, w
    <3>2. w = [kind |-> "row", doc |-> d, region |-> r, text |-> t, prot |-> ELASTIC, parent |-> Uid(1),
               header |-> FALSE, depth |-> 0, rungs |-> {Atoms(t)}, template |-> <<>>]
      BY <3>1 DEF Unit
    <3>3. IsUnit(w) BY <3>2 DEF IsUnit
    <3>4. /\ w.kind = "row" /\ ~w.header /\ w.text = t /\ w.doc = d /\ w.parent = Uid(1)
          /\ w.region = r /\ w.rungs = {Atoms(t)}
      BY <3>2
    <3> QED BY <3>3, <3>4 DEF Made, t, w
  <2> HIDE DEF header, profile, row
  <2>5. IsSeq(<<header, profile>>) /\ Len(<<header, profile>>) = 2
        /\ <<header, profile>>[1] = header /\ <<header, profile>>[2] = profile
    <3>1. <<header, profile>> \in Seq({header, profile}) OBVIOUS
    <3> QED BY <3>1, SeqIntro
  <2>6. IsSeq(rest) /\ Len(rest) = n - 1 /\ \A k \in 1 .. n - 1 : rest[k] = row(k)
    <3>1. n - 1 \in Nat BY <1>7, <1>10
    <3>2. \A k \in 1 .. n - 1 : rest[k] = row(k) OBVIOUS
    <3>3. rest = [k \in 1 .. n - 1 |-> rest[k]] OBVIOUS
    <3> HIDE DEF rest
    <3> QED BY <3>1, <3>2, <3>3, SeqOfFunction
  <2> HIDE DEF rest
  <2>7. /\ IsSeq(us) /\ Len(us) = 2 + (n - 1)
        /\ \A k \in 1 .. 2 : us[k] = <<header, profile>>[k]
        /\ \A k \in 1 .. n - 1 : us[2 + k] = rest[k]
    BY <2>5, <2>6, ConcatFacts
  <2> HIDE DEF us
  <2>8. us[1] = header /\ us[2] = profile /\ \A k \in 1 .. n - 1 : us[2 + k] = row(k)
    <3>1. 1 \in 1 .. 2 /\ 2 \in 1 .. 2 OBVIOUS
    <3> QED BY <2>5, <2>6, <2>7, <3>1
  <2>9. ASSUME NEW k \in 1 .. Len(us)
        PROVE  k = 1 \/ k = 2 \/ (k - 2 \in 1 .. n - 1 /\ us[k] = row(k - 2))
    <3> SUFFICES ASSUME k # 1, k # 2 PROVE k - 2 \in 1 .. n - 1 /\ us[k] = row(k - 2) OBVIOUS
    <3>1. k - 2 \in 1 .. n - 1 /\ 2 + (k - 2) = k BY <1>7, <1>10, <2>7
    <3> QED BY <2>8, <3>1
  <2>10. Grown(us) BY <1>8, <2>1, <2>7, EmitFacts
  <2>11. Uid(1) = Len(units) + 1 BY DEF Uid
  <2>12. \A k \in 1 .. Len(us) : Made(us[k]) /\ us[k].kind \in {"row", "profile"}
    BY <2>2, <2>3, <2>4, <2>8, <2>9
  <2>13. \A k \in 2 .. Len(us) : us[k].kind = "row" => ~us[k].header /\ us[k].parent = Len(units) + 1
    <3> SUFFICES ASSUME NEW k \in 2 .. Len(us), us[k].kind = "row"
                 PROVE  ~us[k].header /\ us[k].parent = Len(units) + 1
      OBVIOUS
    <3>1. k \in 1 .. Len(us) /\ k # 1 OBVIOUS
    <3>2. k # 2 BY <2>3, <2>8
    <3>3. us[k] = row(k - 2) BY <2>9, <3>1, <3>2
    <3> QED BY <2>4, <2>11, <3>3
  <2>14. Len(us) >= 1 /\ Whole(us[1])
    <3>1. 1 \in 1 .. n BY <1>7, <1>10
    <3>2. Rows[1] \in S BY <1>6, <1>7, <3>1 DEF Range
    <3>3. ~F(Rows[1]).sep BY <1>5, <3>2
    <3>4. Whole(us[1]) BY <2>2, <2>8, <3>3 DEF Whole
    <3> QED BY <1>7, <1>10, <2>7, <3>4
  <2>15. ASSUME NEW p \in Range(Places), ~F(p).sep PROVE Holds(us, p)
    <3>1. p \in Range(Rows) BY <1>5, <1>6, <2>15
    <3>2. PICK i \in 1 .. n : p = Rows[i] BY <1>7, <3>1 DEF Range
    <3>3. CASE i = 1
      <4>1. 1 \in 1 .. Len(us) BY <1>7, <1>10, <2>7
      <4> QED BY <2>2, <2>8, <3>2, <3>3, <4>1 DEF Holds
    <3>4. CASE i # 1
      <4>1. i - 1 \in 1 .. n - 1 /\ (i - 1) + 1 = i /\ 2 + (i - 1) \in 1 .. Len(us)
        BY <1>7, <1>10, <2>7, <3>4
      <4>2. us[2 + (i - 1)] = row(i - 1) BY <2>8, <4>1
      <4>3. row(i - 1).text = {p} /\ row(i - 1).rungs = {Atoms(row(i - 1).text)} BY <2>4, <3>2, <4>1
      <4> QED BY <4>1, <4>2, <4>3 DEF Holds
    <3> QED BY <3>3, <3>4
  <2>16. TableAdd(us) BY <2>2, <2>8, <2>10, <2>12, <2>13, <2>14, <2>15 DEF TableAdd
  <2> QED BY <2>16
<1> QED BY <1>9, <1>10

\* The statements leave no place out.
LEMMA StatementsFacts ==
    ASSUME NEW places, IsSeq(places)
    PROVE  /\ IsSeq(Statements(places))
           /\ \A p \in Range(places) : \E k \in 1 .. Len(Statements(places)) : p \in Range(Statements(places)[k])
<1> DEFINE n == Len(places)
           runs == Runs(1, n, {i \in 2 .. n : F(places[i - 1]).semicolon})
           part(k) == SubSeq(places, runs[k][1], runs[k][2])
           s == Statements(places)
<1>1. n \in Nat /\ DOMAIN places = 1 .. n BY SeqFacts
<1>2. s = [k \in DOMAIN runs |-> part(k)] BY Zenon DEF Statements, Parts
<1>3. IsSeq(runs) /\ (1 <= n => Covers(Lows(runs), Highs(runs), Len(runs), 1, n))
  <2>1. n \in Int /\ 1 \in Int BY <1>1
  <2> HIDE DEF n
  <2> QED BY <2>1, RunsFacts
<1> HIDE DEF n, runs, s
<1>4. Len(runs) \in Nat /\ DOMAIN runs = 1 .. Len(runs) BY <1>3, SeqFacts
<1>5. IsSeq(s) /\ Len(s) = Len(runs)
  <2> HIDE DEF part
  <2>1. s = [k \in 1 .. Len(runs) |-> s[k]] BY <1>2, <1>4
  <2> QED BY <1>4, <2>1, SeqOfFunction
<1>6. ASSUME NEW p \in Range(places) PROVE \E k \in 1 .. Len(s) : p \in Range(s[k])
  <2>1. PICK i \in 1 .. n : p = places[i] BY <1>1 DEF Range
  <2>2. Covers(Lows(runs), Highs(runs), Len(runs), 1, n) BY <1>1, <1>3
  <2>3. PICK k \in 1 .. Len(runs) : i \in Lows(runs)[k] .. Highs(runs)[k] BY <2>2, CoverFacts
  <2> DEFINE a == runs[k][1]
             b == runs[k][2]
  <2>4. Lows(runs)[k] = a /\ Highs(runs)[k] = b BY <1>4 DEF Lows, Highs
  <2>5. a \in Int /\ b \in Int /\ 1 <= a /\ b <= n /\ i \in a .. b
    <3>1. Lows(runs)[k] \in Int /\ Highs(runs)[k] \in Int BY <2>2 DEF Covers
    <3>2. 1 <= Lows(runs)[k] /\ Highs(runs)[k] <= n BY <2>2, CoverFacts
    <3> QED BY <2>3, <2>4, <3>1, <3>2
  <2> HIDE DEF a, b
  <2>6. \A j \in a .. b : places[j] \in Range(places) BY <1>1, <2>5 DEF Range
  <2> DEFINE t == SubSeq(places, a, b)
  <2>7. /\ t \in Seq(Range(places)) /\ Len(t) = IF a <= b THEN b - a + 1 ELSE 0
        /\ \A j \in 1 .. b - a + 1 : t[j] = places[a + j - 1]
    BY <2>5, <2>6, SubSeqProperties
  <2> HIDE DEF t
  <2>8. i - a + 1 \in 1 .. b - a + 1 /\ a + (i - a + 1) - 1 = i /\ Len(t) = b - a + 1 BY <2>5, <2>7
  <2>9. t[i - a + 1] = p BY <2>1, <2>7, <2>8
  <2>10. DOMAIN t = 1 .. Len(t) BY <2>7
  <2>11. p \in Range(t) BY <2>8, <2>9, <2>10 DEF Range
  <2>12. s[k] = t BY <1>2, <1>4 DEF t, a, b
  <2> QED BY <1>5, <2>11, <2>12
<1> QED BY <1>5, <1>6 DEF s

SqlAdd(us) ==
    /\ Grown(us) /\ \A k \in 1 .. Len(us) : Made(us[k]) /\ us[k].kind = "stmt"
    /\ \A p \in Range(Places) : Holds(us, p)

LEMMA BuildSqlAdds ==
    ASSUME Shape, BuildSql
    PROVE  \E us : SqlAdd(us)
<1> DEFINE stmts == Statements(Places)
           elder == [k \in DOMAIN stmts |-> Elder(stmts, k)]
           unit(k) == StmtUnit(stmts[k], elder[k] < k)
           us == [k \in DOMAIN stmts |-> unit(k)]
           more == {Edge(Uid(k), Uid(elder[k]), "DUPLICATE_OF") : k \in {j \in DOMAIN stmts : elder[j] < j}}
<1>1. d # 0 /\ r \in 1 .. Len(regions) BY ShapeFacts DEF BuildSql, Building
<1>2. IsSeq(Places) BY <1>1, PlacesFacts
<1>3. Emit(us, more) BY Zenon DEF BuildSql, AddStatements, EmitStatements
<1>4. /\ IsSeq(stmts)
      /\ \A p \in Range(Places) : \E k \in 1 .. Len(stmts) : p \in Range(stmts[k])
  BY <1>2, StatementsFacts
<1>5. ASSUME NEW k PROVE Plain(unit(k)) /\ unit(k).kind = "stmt" /\ unit(k).text = Range(stmts[k])
  <2> HIDE DEF stmts, elder
  <2> QED BY UnitFacts DEF StmtUnit
<1> HIDE DEF stmts, elder, unit, more
<1>6. DOMAIN stmts = 1 .. Len(stmts) /\ Len(stmts) \in Nat BY <1>4, SeqFacts
<1>7. us = [k \in 1 .. Len(stmts) |-> unit(k)] BY <1>6
<1> HIDE DEF us
<1>8. us = [k \in 1 .. Len(stmts) |-> us[k]] /\ \A k \in 1 .. Len(stmts) : us[k] = unit(k) BY <1>7
<1>9. IsSeq(us) /\ Len(us) = Len(stmts) BY <1>6, <1>8, SeqOfFunction
<1>10. Grown(us)
  <2>1. IsSeq(units) BY DEF Shape
  <2> QED BY <1>3, <1>9, <2>1, EmitFacts
<1>11. \A k \in 1 .. Len(us) : /\ Made(us[k]) /\ us[k].kind = "stmt" /\ us[k].text = Range(stmts[k])
                               /\ us[k].rungs = {Atoms(us[k].text)}
  BY <1>5, <1>8, <1>9 DEF Plain
<1>12. \A p \in Range(Places) : Holds(us, p) BY <1>4, <1>9, <1>11 DEF Holds
<1>13. SqlAdd(us) BY <1>10, <1>11, <1>12 DEF SqlAdd
<1> QED BY <1>13


\* A line or a child of a payload is in some rung.
Shown(us, p, k) == \E j \in 1 .. Len(us) : \E shown \in us[j].rungs : <<p, k>> \in shown

PayloadAdd(us) ==
    LET payload == Payload(r)
    IN  /\ payload.kind # "none"
        /\ \A k \in DOMAIN payload.kids : payload.kids[k].size > FullLimit \/ Shown(us, Head(Places), k)

JsonAdd(us) ==
    /\ Grown(us) /\ \A k \in 1 .. Len(us) : Made(us[k]) /\ us[k].kind = "json"
    /\ Pipe(regions[r].label) = "json"
    /\ (\A p \in Range(Places) : Shown(us, p, 0)) \/ PayloadAdd(us)

\* A unit whose rungs are given.
Rung(w, kind, s) == Made(w) /\ w.kind = kind /\ w.rungs = s

LEMMA WithRungs ==
    ASSUME NEW kind, NEW prot, NEW s, NEW w, w = [Unit(kind, {}, prot) EXCEPT !.rungs = s]
    PROVE  Rung(w, kind, s)
<1> DEFINE t == {}
<1>1. w = [Unit(kind, t, prot) EXCEPT !.rungs = s] OBVIOUS
<1> HIDE DEF t
<1>2. w = [kind |-> kind, doc |-> d, region |-> r, text |-> t, prot |-> prot, parent |-> 0,
           header |-> FALSE, depth |-> 0, rungs |-> s, template |-> <<>>]
  BY <1>1 DEF Unit
<1>3. IsUnit(w) BY <1>2 DEF IsUnit
<1>4. w.kind = kind /\ w.doc = d /\ w.region = r /\ w.rungs = s BY <1>2
<1> QED BY <1>3, <1>4 DEF Made, Rung

\* The value of a text that a parser takes has children of some length each.
LEMMA PayloadFacts ==
    ASSUME NEW k, Payload(k).kind # "none"
    PROVE  LET kids == Payload(k).kids
           IN  /\ IsSeq(kids) /\ DOMAIN kids = 1 .. Len(kids) /\ Len(kids) \in Nat
               /\ \A j \in 1 .. Len(kids) : kids[j].size \in Nat
<1> DEFINE kids == Payload(k).kids
<1>1. Payload(k) \in Payloads
  <2>1. NoPayload.kind = "none" BY DEF NoPayload
  <2> DEFINE text == RegionText(k)
  <2>2. Payload(k) = NoPayload \/ Payload(k) = Value(text) BY DEF Payload
  <2> HIDE DEF text
  <2>3. Value(text) = NoPayload \/ Value(text) \in Payloads BY DEF Value, TryYaml
  <2> QED BY <2>1, <2>2, <2>3
<1>2. IsSeq(kids) /\ \A kid \in Range(kids) : kid.size \in Nat
  BY <1>1, FrontEndAssumption DEF IsSeq
<1> HIDE DEF kids
<1>3. DOMAIN kids = 1 .. Len(kids) /\ Len(kids) \in Nat BY <1>2, SeqFacts
<1>4. \A j \in 1 .. Len(kids) : kids[j] \in Range(kids) BY <1>3 DEF Range
<1> QED BY <1>2, <1>3, <1>4 DEF kids

LEMMA BuildJsonAdds ==
    ASSUME Shape, BuildJson
    PROVE  \E us : JsonAdd(us)
<1> DEFINE at == Head(Places)
           payload == Payload(r)
           kids == payload.kids
           atoms(k) == IF kids[k].size <= FullLimit THEN {<<at, k>>} ELSE {}
           some(k) == Rungs(kids[k].kind, kids[k].count, kids[k].size, atoms(k))
           child(k) == Child(kids[k], k)
           each == [k \in DOMAIN Places |-> Unit("json", {Places[k]}, ANCHORED)]
           all == Atoms(Range(Places))
           top == Rungs(payload.kind, Len(kids), Length(Places), all)
           whole == Node(top)
           first == Node({{}})
           rest == [k \in DOMAIN kids |-> child(k)]
<1>1. d # 0 /\ r \in 1 .. Len(regions) /\ Pipe(regions[r].label) = "json"
  BY ShapeFacts DEF BuildJson, Building
<1>2. IsSeq(Places) /\ Range(Places) \subseteq 1 .. Len(lines) BY <1>1, PlacesFacts
<1>3. IsSeq(units) BY DEF Shape
<1>4. DOMAIN Places = 1 .. Len(Places) /\ Len(Places) \in Nat BY <1>2, SeqFacts
<1>5. \/ Emit(each, {})
      \/ payload.kind # "none" /\ Emit(<<whole>>, {})
      \/ payload.kind # "none" /\ Emit(<<first>> \o rest, {})
  BY DEF BuildJson, PayloadUnits
<1>6. CASE Emit(each, {})
  <2>1. PerPlace(each, Places, "json") BY <1>2, OnePerPlace, Zenon
  <2> HIDE DEF each
  <2>2. Grown(each) BY <1>3, <1>6, <2>1, EmitFacts DEF PerPlace
  <2>3. ASSUME NEW p \in Range(Places) PROVE Shown(each, p, 0)
    <3>1. PICK k \in 1 .. Len(each) : p \in each[k].text /\ each[k].rungs = {Atoms(each[k].text)}
      BY <2>1 DEF PerPlace, Holds
    <3>2. <<p, 0>> \in Atoms(each[k].text) BY <3>1 DEF Atoms
    <3> QED BY <3>1, <3>2 DEF Shown
  <2>4. \A k \in 1 .. Len(each) : Made(each[k]) /\ each[k].kind = "json" BY <2>1 DEF PerPlace, Plain
  <2>5. JsonAdd(each) BY <1>1, <2>2, <2>3, <2>4 DEF JsonAdd
  <2> QED BY <2>5
<1>7. CASE payload.kind # "none" /\ Emit(<<whole>>, {})
  <2> DEFINE us == <<whole>>
  <2>1. all \in top BY DEF Rungs
  <2>2. Made(whole) /\ whole.kind = "json" /\ whole.rungs = top
    <3> DEFINE s == top
    <3>1. whole = [Unit("json", {}, ANCHORED) EXCEPT !.rungs = s] BY DEF Node
    <3> HIDE DEF s, whole
    <3>2. Rung(whole, "json", s) BY <3>1, WithRungs
    <3> QED BY <3>2 DEF s, Rung
  <2> HIDE DEF whole, top
  <2>3. us \in Seq({whole}) /\ Len(us) = 1 /\ us[1] = whole OBVIOUS
  <2>4. IsSeq(us) BY <2>3, SeqIntro
  <2> HIDE DEF us
  <2>5. Emit(us, {}) BY <1>7 DEF us
  <2>6. Grown(us) BY <1>3, <2>4, <2>5, EmitFacts
  <2>7. \A k \in 1 .. Len(us) : Made(us[k]) /\ us[k].kind = "json" BY <2>2, <2>3
  <2>8. ASSUME NEW p \in Range(Places) PROVE Shown(us, p, 0)
    <3>1. <<p, 0>> \in all BY DEF Atoms
    <3>2. 1 \in 1 .. Len(us) /\ all \in us[1].rungs BY <2>1, <2>2, <2>3
    <3> HIDE DEF all
    <3> QED BY <3>1, <3>2 DEF Shown
  <2>9. JsonAdd(us) BY <1>1, <2>6, <2>7, <2>8 DEF JsonAdd
  <2> QED BY <2>9
<1>8. CASE payload.kind # "none" /\ Emit(<<first>> \o rest, {})
  <2> DEFINE us == <<first>> \o rest
  <2>1. \A k : atoms(k) \in some(k) BY DEF Rungs
  <2>2. Made(first) /\ first.kind = "json"
    <3>1. first = [Unit("json", {}, ANCHORED) EXCEPT !.rungs = {{}}] BY DEF Node
    <3> HIDE DEF first
    <3>2. Rung(first, "json", {{}}) BY <3>1, WithRungs
    <3> QED BY <3>2 DEF Rung
  <2>3. ASSUME NEW k PROVE Made(child(k)) /\ child(k).kind = "json" /\ child(k).rungs = some(k)
    <3> DEFINE s == some(k)
               p == Uid(1)
               c == child(k)
    <3>1. c = [[Unit("json", {}, ANCHORED) EXCEPT !.rungs = s] EXCEPT !.parent = p] BY DEF Node, Child
    <3> HIDE DEF s, c, p
    <3>2. c = [kind |-> "json", doc |-> d, region |-> r, text |-> {}, prot |-> ANCHORED, parent |-> p,
               header |-> FALSE, depth |-> 0, rungs |-> s, template |-> <<>>]
      BY <3>1 DEF Unit
    <3>3. IsUnit(c) BY <3>2 DEF IsUnit
    <3>4. c.kind = "json" /\ c.doc = d /\ c.region = r /\ c.rungs = s BY <3>2
    <3> QED BY <3>3, <3>4 DEF Made, s, c
  <2> HIDE DEF first, child, some
  <2>4. <<first>> \in Seq({first}) /\ Len(<<first>>) = 1 /\ <<first>>[1] = first OBVIOUS
  <2>5. IsSeq(<<first>>) BY <2>4, SeqIntro
  <2>6. DOMAIN kids = 1 .. Len(kids) /\ Len(kids) \in Nat /\ \A k \in 1 .. Len(kids) : kids[k].size \in Nat
    BY <1>8, PayloadFacts
  <2> HIDE DEF kids
  <2>7. rest = [k \in 1 .. Len(kids) |-> child(k)] BY <2>6
  <2> HIDE DEF rest
  <2>8. rest = [k \in 1 .. Len(kids) |-> rest[k]] /\ \A k \in 1 .. Len(kids) : rest[k] = child(k) BY <2>7
  <2>9. IsSeq(rest) /\ Len(rest) = Len(kids) BY <2>6, <2>8, SeqOfFunction
  <2>10. /\ IsSeq(us) /\ Len(us) = 1 + Len(kids)
         /\ \A k \in 1 .. 1 : us[k] = <<first>>[k]
         /\ \A k \in 1 .. Len(kids) : us[1 + k] = rest[k]
    BY <2>4, <2>5, <2>9, ConcatFacts
  <2>11. Emit(us, {}) BY <1>8
  <2> HIDE DEF us
  <2>12. Grown(us) BY <1>3, <2>10, <2>11, EmitFacts
  <2>13. us[1] = first BY <2>4, <2>10
  <2>14. ASSUME NEW k \in 1 .. Len(us) PROVE Made(us[k]) /\ us[k].kind = "json"
    <3>1. CASE k = 1 BY <2>2, <2>13, <3>1
    <3>2. CASE k # 1
      <4>1. k - 1 \in 1 .. Len(kids) /\ 1 + (k - 1) = k BY <2>6, <2>10, <3>2
      <4>2. us[k] = child(k - 1) BY <2>8, <2>10, <4>1
      <4> QED BY <2>3, <4>2
    <3> QED BY <3>1, <3>2
  <2>15. ASSUME NEW k \in 1 .. Len(kids) PROVE kids[k].size > FullLimit \/ Shown(us, at, k)
    <3>1. FullLimit \in Nat /\ kids[k].size \in Nat BY <2>6, FrontEndAssumption
    <3>2. CASE kids[k].size <= FullLimit
      <4>1. <<at, k>> \in atoms(k) /\ atoms(k) \in some(k) BY <2>1, <3>2
      <4>2. 1 + k \in 1 .. Len(us) /\ us[1 + k] = child(k) BY <2>6, <2>8, <2>10
      <4>3. us[1 + k].rungs = some(k) BY <2>3, <4>2
      <4> HIDE DEF atoms
      <4> QED BY <4>1, <4>2, <4>3 DEF Shown
    <3> QED BY <3>1, <3>2
  <2>16. PayloadAdd(us) BY <1>8, <2>6, <2>15 DEF PayloadAdd, kids
  <2>17. JsonAdd(us) BY <1>1, <2>12, <2>14, <2>16 DEF JsonAdd
  <2> QED BY <2>17
<1> QED BY <1>5, <1>6, <1>7, <1>8

LogAdd(us) ==
    LET ts == Mine(lines, Places)
    IN  /\ Grown(us) /\ Len(us) = Len(ts)
        /\ \A k \in 1 .. Len(us) :
              /\ Made(us[k]) /\ us[k].kind = "log" /\ us[k].template = ts[k]
              /\ Atoms({ts[k].spans[j] : j \in {i \in DOMAIN ts[k].spans : i <= MaxVerbatim}}) \in us[k].rungs

LEMMA BuildLogsAdds ==
    ASSUME Shape, BuildLogs, IsSeq(Mine(lines, Places))
    PROVE  \E us : LogAdd(us)
<1> DEFINE ts == Mine(lines, Places)
           us == [k \in DOMAIN ts |-> LogUnit(ts[k])]
           more == {Edge(Uid(k), Uid(k + 1), "ADJACENT") : k \in 1 .. Len(ts) - 1}
<1>1. Emit(us, more) BY Zenon DEF BuildLogs, EmitTemplates
<1>2. ASSUME NEW t
      PROVE  /\ Made(LogUnit(t)) /\ LogUnit(t).kind = "log" /\ LogUnit(t).template = t
             /\ Atoms({t.spans[j] : j \in {i \in DOMAIN t.spans : i <= MaxVerbatim}}) \in LogUnit(t).rungs
  <2> DEFINE p == IF Severity(t.level) >= 4 \/ t.count = 1 THEN ANCHORED ELSE ELASTIC
             text == {t.spans[1]}
             one == Atoms(IF t.count > 1 THEN {t.spans[1]} ELSE {})
             many == Atoms({t.spans[j] : j \in {i \in DOMAIN t.spans : i <= MaxVerbatim}})
             s == {{}, one, many}
             w == LogUnit(t)
  <2>1. w = [Unit("log", text, p) EXCEPT !.template = t, !.rungs = s] BY DEF LogUnit
  <2>2. many \in s OBVIOUS
  <2> HIDE DEF p, text, s, w, many
  <2>3. w = [kind |-> "log", doc |-> d, region |-> r, text |-> text, prot |-> p, parent |-> 0,
             header |-> FALSE, depth |-> 0, rungs |-> s, template |-> t]
    BY <2>1 DEF Unit
  <2>4. IsUnit(w) BY <2>3 DEF IsUnit
  <2>5. w.kind = "log" /\ w.doc = d /\ w.region = r /\ w.rungs = s /\ w.template = t BY <2>3
  <2> QED BY <2>2, <2>4, <2>5 DEF Made, w, many
<1> HIDE DEF ts, more
<1>3. IsSeq(ts) BY DEF ts
<1>4. DOMAIN ts = 1 .. Len(ts) /\ Len(ts) \in Nat BY <1>3, SeqFacts
<1>5. us = [k \in 1 .. Len(ts) |-> LogUnit(ts[k])] BY <1>4
<1> HIDE DEF us
<1>6. us = [k \in 1 .. Len(ts) |-> us[k]] /\ \A k \in 1 .. Len(ts) : us[k] = LogUnit(ts[k]) BY <1>5
<1>7. IsSeq(us) /\ Len(us) = Len(ts) BY <1>4, <1>6, SeqOfFunction
<1>8. Grown(us)
  <2>1. IsSeq(units) BY DEF Shape
  <2> QED BY <1>1, <1>7, <2>1, EmitFacts
<1>9. ASSUME NEW k \in 1 .. Len(us)
      PROVE  /\ Made(us[k]) /\ us[k].kind = "log" /\ us[k].template = ts[k]
             /\ Atoms({ts[k].spans[j] : j \in {i \in DOMAIN ts[k].spans : i <= MaxVerbatim}}) \in us[k].rungs
  <2> DEFINE t == ts[k]
  <2>1. us[k] = LogUnit(t) BY <1>6, <1>7
  <2> HIDE DEF t
  <2> QED BY <1>2, <2>1 DEF t
<1>10. LogAdd(us) BY <1>7, <1>8, <1>9 DEF LogAdd, ts
<1> QED BY <1>10


-----------------------------------------------------------------------------
(***************************************************************************)
(* Templates of log lines.                                                 *)
(***************************************************************************)
Slots(f) == {<<i, f.slots[i]>> : i \in DOMAIN f.slots}

\* A template over the lines of a text.
Records(text) ==
    [mask : {Line[l].mask : l \in DOMAIN Line}, level : {Line[l].level : l \in DOMAIN Line}, count : Nat,
     spans : Seq(1 .. Len(text)), values : SUBSET UNION {Slots(Line[l]) : l \in DOMAIN Line}]

\* Of the lines that are no frames the template holds every value, as long as
\* the slot takes values.
Recalled(t, f) ==
    \A k \in DOMAIN f.slots : <<k, f.slots[k]>> \in t.values \/ Cardinality(Held(t.values, k)) >= SlotValues

Recorded(t, text) ==
    /\ t \in Records(text) /\ IsFiniteSet(t.values)
    /\ \A i \in 1 .. Len(t.spans) : LET f == Line[text[t.spans[i]]] IN ~f.frame => Recalled(t, f)

Templates(text) == {t \in Records(text) : Recorded(t, text)}

\* The state of the miner.
Miner(text) ==
    {st \in [templates : Seq(Templates(text)), error : Nat] : st.error <= Len(st.templates)}

\* A line that some template stands for.
Spanned(ts, p) == \E i \in 1 .. Len(ts) : p \in Range(ts[i].spans)

LEMMA HeldFacts ==
    ASSUME NEW S, IsFiniteSet(S), NEW T, T \subseteq S, NEW k
    PROVE  /\ Cardinality(Held(T, k)) \in Nat /\ Cardinality(Held(S, k)) \in Nat
           /\ Cardinality(Held(T, k)) <= Cardinality(Held(S, k))
<1>1. Held(S, k) \subseteq S /\ Held(T, k) \subseteq Held(S, k) BY DEF Held
<1>2. IsFiniteSet(Held(S, k)) BY <1>1, FS_Subset
<1> QED BY <1>1, <1>2, FS_Subset, FS_CardinalityType

\* _update: one more line.
LEMMA UpdateFacts ==
    ASSUME NEW text, IsText(text), NEW at \in 1 .. Len(text),
           NEW t, t \in Records(text), IsFiniteSet(t.values),
           \A i \in 1 .. Len(t.spans) : LET f == Line[text[t.spans[i]]] IN ~f.frame => Recalled(t, f)
    PROVE  LET w == Update(t, Line[text[at]], at)
           IN  w \in Templates(text) /\ w.spans = Append(t.spans, at)
<1> DEFINE line == Line[text[at]]
           free == {j \in DOMAIN line.slots : Cardinality(Held(t.values, j)) < SlotValues}
           new == {<<i, line.slots[i]>> : i \in free}
           values == t.values \cup new
           spans == Append(t.spans, at)
           w == Update(t, line, at)
<1>1. text[at] \in DOMAIN Line BY TextFacts
<1>2. IsSeq(line.slots) BY <1>1, LogAssumption DEF IsSeq
<1>3. DOMAIN line.slots = 1 .. Len(line.slots) /\ Len(line.slots) \in Nat BY <1>2, SeqFacts
<1>4. w = [t EXCEPT !.count = @ + 1, !.spans = spans, !.values = values] BY DEF Update
<1>5. /\ t.mask \in {Line[l].mask : l \in DOMAIN Line} /\ t.level \in {Line[l].level : l \in DOMAIN Line}
      /\ t.count \in Nat /\ t.spans \in Seq(1 .. Len(text))
      /\ t.values \subseteq UNION {Slots(Line[l]) : l \in DOMAIN Line}
      /\ t = [mask |-> t.mask, level |-> t.level, count |-> t.count, spans |-> t.spans, values |-> t.values]
  BY DEF Records
<1>6. new \subseteq UNION {Slots(Line[l]) : l \in DOMAIN Line}
  <2>1. new \subseteq Slots(line) BY DEF Slots
  <2> HIDE DEF new
  <2> QED BY <1>1, <2>1
<1>7. IsFiniteSet(new)
  <2>1. free \subseteq 1 .. Len(line.slots) BY <1>3
  <2> HIDE DEF free, line
  <2>2. IsFiniteSet(free) BY <1>3, <2>1, SomePlaces
  <2> DEFINE g == [i \in free |-> <<i, line.slots[i]>>]
  <2>3. \A i \in free : g[i] = <<i, line.slots[i]>> OBVIOUS
  <2>4. new = {g[i] : i \in free} BY <2>3
  <2> HIDE DEF g
  <2> QED BY <2>2, <2>4, ImageIsFinite
<1>8. IsFiniteSet(values) BY <1>7, FS_Union
<1>9. \A j \in DOMAIN line.slots :
         <<j, line.slots[j]>> \in values \/ Cardinality(Held(t.values, j)) >= SlotValues
  <2>1. \A j \in DOMAIN line.slots : Cardinality(Held(t.values, j)) \in Nat BY HeldFacts
  <2>2. SlotValues \in Nat BY LogAssumption
  <2>3. \A j \in free : <<j, line.slots[j]>> \in new OBVIOUS
  <2>4. \A j \in DOMAIN line.slots : j \notin free => Cardinality(Held(t.values, j)) >= SlotValues BY <2>1, <2>2
  <2> HIDE DEF free, new
  <2> QED BY <2>3, <2>4
<1>10. t.values \subseteq values OBVIOUS
<1>11. values \subseteq UNION {Slots(Line[l]) : l \in DOMAIN Line} BY <1>5, <1>6
<1> HIDE DEF values, w, new, free, line
<1>12. /\ spans \in Seq(1 .. Len(text)) /\ IsSeq(t.spans) /\ Len(spans) = Len(t.spans) + 1 /\ Len(t.spans) \in Nat
       /\ \A i \in 1 .. Len(t.spans) : spans[i] = t.spans[i]
       /\ spans[Len(t.spans) + 1] = at
  <2>1. IsSeq(t.spans) BY <1>5, SeqIntro
  <2> QED BY <1>5, <2>1, SeqFacts, AppendFacts, AppendProperties
<1> HIDE DEF spans
<1>13. w = [mask |-> t.mask, level |-> t.level, count |-> t.count + 1, spans |-> spans, values |-> values]
  BY <1>4, <1>5
<1>14. w \in Records(text) BY <1>5, <1>11, <1>12, <1>13 DEF Records
<1>15. w.spans = spans /\ w.values = values BY <1>13
<1>16. ASSUME NEW f, Recalled(t, f) PROVE Recalled(w, f)
  <2> SUFFICES ASSUME NEW k \in DOMAIN f.slots
               PROVE  <<k, f.slots[k]>> \in w.values \/ Cardinality(Held(w.values, k)) >= SlotValues
    BY DEF Recalled
  <2>1. <<k, f.slots[k]>> \in t.values \/ Cardinality(Held(t.values, k)) >= SlotValues
    BY <1>16 DEF Recalled
  <2>2. CASE <<k, f.slots[k]>> \in t.values BY <1>10, <1>15, <2>2
  <2>3. CASE Cardinality(Held(t.values, k)) >= SlotValues
    <3>1. /\ Cardinality(Held(t.values, k)) \in Nat /\ Cardinality(Held(values, k)) \in Nat
          /\ Cardinality(Held(t.values, k)) <= Cardinality(Held(values, k))
      BY <1>8, <1>10, HeldFacts
    <3>2. SlotValues \in Nat BY LogAssumption
    <3> QED BY <1>15, <2>3, <3>1, <3>2
  <2> QED BY <2>1, <2>2, <2>3
<1>17. Recalled(w, line)
  <2> SUFFICES ASSUME NEW k \in DOMAIN line.slots
               PROVE  <<k, line.slots[k]>> \in w.values \/ Cardinality(Held(w.values, k)) >= SlotValues
    BY DEF Recalled
  <2>1. CASE <<k, line.slots[k]>> \in values BY <1>15, <2>1
  <2>2. CASE Cardinality(Held(t.values, k)) >= SlotValues
    <3>1. /\ Cardinality(Held(t.values, k)) \in Nat /\ Cardinality(Held(values, k)) \in Nat
          /\ Cardinality(Held(t.values, k)) <= Cardinality(Held(values, k))
      BY <1>8, <1>10, HeldFacts
    <3>2. SlotValues \in Nat BY LogAssumption
    <3> QED BY <1>15, <2>2, <3>1, <3>2
  <2> QED BY <1>9, <2>1, <2>2
<1>18. ASSUME NEW i \in 1 .. Len(w.spans), ~Line[text[w.spans[i]]].frame
       PROVE  Recalled(w, Line[text[w.spans[i]]])
  <2>1. CASE i \in 1 .. Len(t.spans)
    <3>1. w.spans[i] = t.spans[i] BY <1>12, <1>15, <2>1
    <3>2. Recalled(t, Line[text[t.spans[i]]]) BY <1>18, <2>1, <3>1
    <3> QED BY <1>16, <3>1, <3>2
  <2>2. CASE i = Len(t.spans) + 1
    <3>1. w.spans[i] = at BY <1>12, <1>15, <2>2
    <3> QED BY <1>17, <3>1 DEF line
  <2> QED BY <1>12, <1>15, <2>1, <2>2
<1>19. w \in Templates(text) BY <1>8, <1>14, <1>15, <1>18 DEF Templates, Recorded
<1> QED BY <1>15, <1>19 DEF w, spans, line


LEMMA HomeFacts ==
    ASSUME NEW ts, IsSeq(ts), NEW line
    PROVE  Home(ts, line) \in 0 .. Len(ts)
<1>1. Len(ts) \in Nat /\ DOMAIN ts = 1 .. Len(ts) BY SeqFacts
<1>2. Exact(ts, line) \subseteq 1 .. Len(ts) /\ Similar(ts, line) \subseteq 1 .. Len(ts)
  BY <1>1 DEF Exact, Similar
<1>3. \A S : S \subseteq 1 .. Len(ts) /\ S # {} => Min(S) \in 1 .. Len(ts)
  <2> SUFFICES ASSUME NEW S, S \subseteq 1 .. Len(ts), S # {} PROVE Min(S) \in 1 .. Len(ts) OBVIOUS
  <2>1. IsFiniteSet(S) /\ S \subseteq Int BY <1>1, SomePlaces
  <2> QED BY <2>1, MinFacts
<1>4. Len(ts) \in 0 .. Len(ts) /\ 0 \in 0 .. Len(ts) /\ \A m \in 1 .. Len(ts) : m \in 0 .. Len(ts) BY <1>1
<1> QED BY <1>2, <1>3, <1>4 DEF Home

\* The templates us are those of ts, with one more line.
Mined1(ts, us, text, at) ==
    /\ us \in Seq(Templates(text)) /\ Len(us) \in Nat /\ Len(ts) <= Len(us)
    /\ \A p : Spanned(ts, p) => Spanned(us, p)
    /\ Spanned(us, at)

\* One of the templates is replaced by another that has one more line.
LEMMA SpanAdded ==
    ASSUME NEW text, NEW ts \in Seq(Templates(text)), NEW e \in 1 .. Len(ts), NEW at, NEW w \in Templates(text),
           w.spans = Append(ts[e].spans, at)
    PROVE  Mined1(ts, [ts EXCEPT ![e] = w], text, at)
<1> DEFINE us == [ts EXCEPT ![e] = w]
<1>1. IsSeq(ts) BY SeqIntro
<1>2. Len(ts) \in Nat /\ DOMAIN ts = 1 .. Len(ts) BY <1>1, SeqFacts
<1>3. \A i \in 1 .. Len(ts) : ts[i] \in Templates(text) BY <1>2
<1>4. us = [i \in 1 .. Len(ts) |-> IF i = e THEN w ELSE ts[i]] BY <1>2
<1> HIDE DEF us
<1>5. us = [i \in 1 .. Len(ts) |-> us[i]] /\ us[e] = w /\ \A i \in 1 .. Len(ts) : i # e => us[i] = ts[i]
  BY <1>4
<1>6. IsSeq(us) /\ Len(us) = Len(ts) BY <1>2, <1>5, SeqOfFunction
<1>7. us \in Seq(Templates(text))
  <2>1. us \in [1 .. Len(ts) -> Templates(text)] BY <1>3, <1>4
  <2> QED BY <1>2, <2>1
<1>8. Range(ts[e].spans) \cup {at} = Range(w.spans)
  <2>1. ts[e].spans \in Seq(1 .. Len(text)) BY <1>3 DEF Templates, Records
  <2> DEFINE s == ts[e].spans
             t == w.spans
  <2>2. IsSeq(s) BY <2>1, SeqIntro
  <2> HIDE DEF s
  <2>3. Len(s) \in Nat /\ DOMAIN s = 1 .. Len(s) BY <2>2, SeqFacts
  <2>4. t = Append(s, at) BY DEF s
  <2> HIDE DEF t
  <2>5. /\ DOMAIN t = 1 .. Len(s) + 1 /\ t[Len(s) + 1] = at
        /\ \A k \in 1 .. Len(s) : t[k] = s[k]
    BY <2>2, <2>4, AppendFacts
  <2>6. Range(t) = {t[k] : k \in 1 .. Len(s) + 1} /\ Range(s) = {s[k] : k \in 1 .. Len(s)}
    BY <2>3, <2>5 DEF Range
  <2>7. ASSUME NEW x \in Range(t) PROVE x \in Range(s) \cup {at}
    <3>1. PICK k \in 1 .. Len(s) + 1 : x = t[k] BY <2>6
    <3>2. k \in 1 .. Len(s) \/ k = Len(s) + 1 BY <2>3
    <3> QED BY <2>5, <2>6, <3>1, <3>2
  <2>8. Range(s) \cup {at} \subseteq Range(t)
    <3>1. \A k \in 1 .. Len(s) : k \in 1 .. Len(s) + 1 BY <2>3
    <3>2. Len(s) + 1 \in 1 .. Len(s) + 1 BY <2>3
    <3> QED BY <2>5, <2>6, <3>1, <3>2
  <2> QED BY <2>7, <2>8 DEF s, t
<1>9. Spanned(us, at) BY <1>5, <1>6, <1>8 DEF Spanned
<1>10. ASSUME NEW p, Spanned(ts, p) PROVE Spanned(us, p)
  <2>1. PICK i \in 1 .. Len(ts) : p \in Range(ts[i].spans) BY <1>10 DEF Spanned
  <2>2. p \in Range(us[i].spans)
    <3>1. CASE i = e BY <1>5, <1>8, <2>1, <3>1
    <3>2. CASE i # e BY <1>5, <2>1, <3>2
    <3> QED BY <3>1, <3>2
  <2> QED BY <1>6, <2>2 DEF Spanned
<1>11. Mined1(ts, us, text, at) BY <1>2, <1>6, <1>7, <1>9, <1>10 DEF Mined1
<1> QED BY <1>11 DEF us

LEMMA JoinedFacts ==
    ASSUME NEW text, IsText(text), NEW at \in 1 .. Len(text),
           NEW ts \in Seq(Templates(text)), NEW home \in 0 .. Len(ts)
    PROVE  LET us == Joined(ts, Line[text[at]], at, home)
           IN  Mined1(ts, us, text, at) /\ (home = 0 => Len(us) = Len(ts) + 1)
<1> DEFINE line == Line[text[at]]
           us == Joined(ts, line, at, home)
<1>1. IsSeq(ts) BY SeqIntro
<1>2. Len(ts) \in Nat /\ DOMAIN ts = 1 .. Len(ts) BY <1>1, SeqFacts
<1>3. CASE home # 0
  <2> DEFINE w == Update(ts[home], line, at)
  <2>1. home \in 1 .. Len(ts) BY <1>2, <1>3
  <2>2. ts[home] \in Templates(text) BY <1>2, <2>1
  <2>3. w \in Templates(text) /\ w.spans = Append(ts[home].spans, at)
    BY <2>2, UpdateFacts DEF Templates, Recorded
  <2>4. us = [ts EXCEPT ![home] = w] BY <1>3 DEF Joined
  <2> HIDE DEF w, us
  <2> QED BY <1>3, <2>1, <2>3, <2>4, SpanAdded DEF us
<1>4. CASE home = 0
  <2> DEFINE t == NewTemplate(line)
             w == Update(t, line, at)
  <2>1. text[at] \in DOMAIN Line BY TextFacts
  <2>2. t.spans = <<>> /\ t.values = {} /\ Len(t.spans) = 0 BY DEF NewTemplate
  <2>3. t \in Records(text)
    <3>1. <<>> \in Seq(1 .. Len(text)) OBVIOUS
    <3> QED BY <2>1, <3>1 DEF NewTemplate, Records
  <2>4. IsFiniteSet(t.values) BY <2>2, FS_EmptySet
  <2>5. \A i \in 1 .. Len(t.spans) : FALSE BY <2>2
  <2>6. w \in Templates(text) /\ w.spans = Append(t.spans, at)
    <3> HIDE DEF t, w
    <3> QED BY <2>3, <2>4, <2>5, UpdateFacts DEF w
  <2>7. us = Append(ts, w) BY <1>4 DEF Joined
  <2> HIDE DEF w, us, t
  <2>8. /\ us \in Seq(Templates(text)) /\ Len(us) = Len(ts) + 1
        /\ \A i \in 1 .. Len(ts) : us[i] = ts[i]
        /\ us[Len(ts) + 1] = w
    BY <2>6, <2>7, AppendProperties
  <2>9. Spanned(us, at)
    <3>1. w.spans = <<at>> BY <2>2, <2>6
    <3>2. at \in Range(<<at>>)
      <4>1. 1 \in DOMAIN <<at>> /\ <<at>>[1] = at OBVIOUS
      <4> QED BY <4>1 DEF Range
    <3>3. Len(ts) + 1 \in 1 .. Len(us) BY <1>2, <2>8
    <3> QED BY <2>8, <3>1, <3>2, <3>3 DEF Spanned
  <2>10. \A p : Spanned(ts, p) => Spanned(us, p)
    <3>1. \A i \in 1 .. Len(ts) : i \in 1 .. Len(us) BY <1>2, <2>8
    <3> QED BY <2>8, <3>1 DEF Spanned
  <2>11. Mined1(ts, us, text, at) /\ Len(us) = Len(ts) + 1
    BY <1>2, <2>8, <2>9, <2>10 DEF Mined1
  <2> QED BY <2>11 DEF us
<1> QED BY <1>3, <1>4

LEMMA MineLineFacts ==
    ASSUME NEW text, IsText(text), NEW at \in 1 .. Len(text), NEW st \in Miner(text)
    PROVE  LET su == MineLine(st, Line[text[at]], at)
           IN  su \in Miner(text) /\ Mined1(st.templates, su.templates, text, at)
<1> DEFINE line == Line[text[at]]
           ts == st.templates
           e == st.error
           su == MineLine(st, line, at)
<1>1. ts \in Seq(Templates(text)) /\ e \in Nat /\ e <= Len(ts) /\ st = [templates |-> ts, error |-> e]
  BY DEF Miner
<1>2. IsSeq(ts) BY <1>1, SeqIntro
<1>3. Len(ts) \in Nat /\ DOMAIN ts = 1 .. Len(ts) BY <1>2, SeqFacts
<1>4. CASE line.frame /\ e # 0
  <2> DEFINE w == [ts[e] EXCEPT !.spans = Append(@, at)]
             us == [ts EXCEPT ![e] = w]
             t == ts[e]
             s == Append(t.spans, at)
  <2>1. e \in 1 .. Len(ts) /\ e \in DOMAIN ts BY <1>1, <1>3, <1>4
  <2>2. t \in Templates(text) BY <1>1, <1>3, <2>1
  <2>3. t \in Records(text) /\ Recorded(t, text) BY <2>2 DEF Templates
  <2>4. su = [st EXCEPT !.templates = us] BY <1>4 DEF MineLine
  <2>5. su = [templates |-> us, error |-> e] BY <1>1, <2>4
  <2>6. w = [t EXCEPT !.spans = s] OBVIOUS
  <2> HIDE DEF w, us, t, s, su, ts
  <2>7. w = [mask |-> t.mask, level |-> t.level, count |-> t.count, spans |-> s, values |-> t.values]
    BY <2>3, <2>6 DEF Records
  <2>8. w.spans = s /\ w.values = t.values BY <2>7
  <2>9. /\ t.spans \in Seq(1 .. Len(text)) /\ IsSeq(t.spans)
        /\ t.mask \in {Line[l].mask : l \in DOMAIN Line} /\ t.level \in {Line[l].level : l \in DOMAIN Line}
        /\ t.count \in Nat /\ t.values \subseteq UNION {Slots(Line[l]) : l \in DOMAIN Line}
    BY <2>3, SeqIntro DEF Records
  <2>10. /\ s \in Seq(1 .. Len(text)) /\ Len(s) = Len(t.spans) + 1 /\ Len(t.spans) \in Nat
         /\ \A i \in 1 .. Len(t.spans) : s[i] = t.spans[i]
         /\ s[Len(t.spans) + 1] = at
    BY <2>9, SeqFacts, AppendProperties DEF s
  <2>11. w \in Records(text) BY <2>7, <2>9, <2>10 DEF Records
  <2>12. ASSUME NEW i \in 1 .. Len(w.spans), ~Line[text[w.spans[i]]].frame
         PROVE  Recalled(w, Line[text[w.spans[i]]])
    <3>1. i # Len(t.spans) + 1 BY <1>4, <2>8, <2>10, <2>12
    <3>2. i \in 1 .. Len(t.spans) BY <2>8, <2>10, <3>1
    <3>3. w.spans[i] = t.spans[i] BY <2>8, <2>10, <3>2
    <3>4. Recalled(t, Line[text[t.spans[i]]]) BY <2>3, <2>12, <3>2, <3>3 DEF Recorded
    <3> QED BY <2>8, <3>3, <3>4 DEF Recalled
  <2>13. IsFiniteSet(w.values) BY <2>3, <2>8 DEF Recorded
  <2>14. w \in Templates(text) BY <2>11, <2>12, <2>13 DEF Templates, Recorded
  <2>15. Mined1(ts, us, text, at) BY <1>1, <2>1, <2>8, <2>14, SpanAdded DEF us, s, t
  <2>16. su \in Miner(text)
    <3>1. e <= Len(us) BY <1>1, <1>3, <2>15 DEF Mined1
    <3> QED BY <1>1, <2>5, <2>15, <3>1 DEF Miner, Mined1
  <2>17. su.templates = us BY <2>5
  <2> QED BY <2>15, <2>16, <2>17 DEF su, ts
<1>5. CASE ~ (line.frame /\ e # 0)
  <2> DEFINE home == Home(ts, line)
             us == Joined(ts, line, at, home)
             k == IF home # 0 THEN home ELSE Len(ts) + 1
             error == IF Severity(us[k].level) >= 4 THEN k ELSE 0
  <2>1. home \in 0 .. Len(ts) BY <1>2, HomeFacts
  <2>2. su = After(us, k) BY <1>5, Zenon DEF MineLine, MineHome
  <2>3. su = [templates |-> us, error |-> error] BY <2>2, Zenon DEF After
  <2> HIDE DEF home, su, ts
  <2>4. Mined1(ts, us, text, at) /\ (home = 0 => Len(us) = Len(ts) + 1) BY <1>1, <2>1, JoinedFacts
  <2> HIDE DEF us
  <2>5. k \in Nat /\ k <= Len(us) BY <1>3, <2>1, <2>4 DEF Mined1
  <2> HIDE DEF k
  <2>6. error \in Nat /\ error <= Len(us) BY <2>4, <2>5 DEF Mined1
  <2> HIDE DEF error
  <2>7. su \in Miner(text) BY <2>3, <2>4, <2>6 DEF Miner, Mined1
  <2>8. su.templates = us BY <2>3
  <2> QED BY <2>4, <2>7, <2>8 DEF su, ts
<1> QED BY <1>4, <1>5

MinedIs(st, text, places) ==
    st = [k \in 0 .. Len(places) |->
            IF k = 0 THEN [templates |-> <<>>, error |-> 0]
            ELSE MineLine(st[k - 1], Line[text[places[k]]], places[k])]

LEMMA MinedExists ==
    ASSUME NEW text, IsText(text), NEW places, IsSeq(places), Range(places) \subseteq 1 .. Len(text)
    PROVE  /\ MinedIs(Mined(text, places), text, places)
           /\ \A k \in 0 .. Len(places) : Mined(text, places)[k] \in Miner(text)
<1> DEFINE N == Len(places)
           V == Miner(text)
           none == [templates |-> <<>>, error |-> 0]
           add(k, v) == MineLine(v, Line[text[places[k]]], places[k])
           step == [kv \in Nat \X V |-> add(kv[1], kv[2])]
           M0 == CHOOSE st : MinedIs(st, text, places)
<1>1. N \in Nat /\ \A k \in 1 .. N : places[k] \in 1 .. Len(text)
  <2>1. N \in Nat /\ DOMAIN places = 1 .. N BY SeqFacts
  <2> QED BY <2>1 DEF Range
<1>2. \A k \in 1 .. N : \A v \in V : add(k, v) \in V BY <1>1, MineLineFacts
<1>3. none \in V
  <2>1. <<>> \in Seq(Templates(text)) /\ Len(<<>>) = 0 OBVIOUS
  <2> QED BY <2>1 DEF Miner
<1> HIDE DEF V, N, add, none
<1>4. \A k \in 1 .. N : \A v \in V : step[<<k, v>>] = add(k, v)
  <2> SUFFICES ASSUME NEW k \in 1 .. N, NEW v \in V PROVE step[<<k, v>>] = add(k, v) OBVIOUS
  <2>1. <<k, v>> \in Nat \X V /\ <<k, v>>[1] = k /\ <<k, v>>[2] = v BY <1>1
  <2> QED BY <2>1, Zenon
<1> HIDE DEF step
<1>5. PICK h : Recursive(h, N, V, none, step)
  <2>1. \A k \in 1 .. N : \A v \in V : step[<<k, v>>] \in V BY <1>2, <1>4
  <2> QED BY <1>1, <1>3, <2>1, RecursionExists
<1>6. MinedIs(h, text, places)
  <2>1. h \in [0 .. N -> V] /\ h[0] = none BY <1>5 DEF Recursive
  <2>2. ASSUME NEW k \in 0 .. N PROVE h[k] = IF k = 0 THEN none ELSE add(k, h[k - 1])
    <3>1. CASE k = 0 BY <2>1, <3>1
    <3>2. CASE k # 0
      <4>1. k \in 1 .. N /\ k - 1 \in 0 .. N BY <1>1, <3>2
      <4>2. h[k - 1] \in V BY <2>1, <4>1
      <4>3. h[k] = step[<<k, h[k - 1]>>] BY <1>5, <4>1 DEF Recursive
      <4> QED BY <1>4, <3>2, <4>1, <4>2, <4>3
    <3> QED BY <3>1, <3>2
  <2>3. h = [k \in 0 .. N |-> h[k]] BY <2>1
  <2>4. h = [k \in 0 .. N |-> IF k = 0 THEN none ELSE add(k, h[k - 1])] BY <2>2, <2>3
  <2> QED BY <2>4, Zenon DEF MinedIs, N, none, add
<1>7. MinedIs(M0, text, places) BY <1>6
<1>8. Mined(text, places) = M0 BY DEF Mined, MinedIs
<1> HIDE DEF M0
<1> DEFINE m == Mined(text, places)
           A == {k \in Nat : k <= N => m[k] \in V}
<1>9. m = [k \in 0 .. N |-> IF k = 0 THEN none ELSE add(k, m[k - 1])]
  <2>1. MinedIs(m, text, places) BY <1>7, <1>8
  <2> HIDE DEF m
  <2> QED BY <2>1, Zenon DEF MinedIs, N, none, add
<1> HIDE DEF m
<1>10. 0 \in A BY <1>1, <1>3, <1>9
<1>11. ASSUME NEW k \in Nat, k \in A PROVE k + 1 \in A
  <2> SUFFICES ASSUME k + 1 <= N PROVE m[k + 1] \in V OBVIOUS
  <2>1. k <= N /\ k + 1 \in 0 .. N /\ k + 1 # 0 /\ (k + 1) - 1 = k /\ k + 1 \in 1 .. N BY <1>1
  <2>2. m[k + 1] = add(k + 1, m[k]) BY <1>9, <2>1
  <2> QED BY <1>2, <1>11, <2>1, <2>2
<1>12. Nat \subseteq A
  <2> HIDE DEF A
  <2> QED BY <1>10, <1>11, NatInductionOnSet
<1>13. \A k \in 0 .. N : m[k] \in V BY <1>1, <1>12
<1> QED BY <1>7, <1>8, <1>13 DEF m, N, V

\* mine: every line is in a template.
LEMMA MineFacts ==
    ASSUME NEW text, IsText(text), NEW places, IsSeq(places), Range(places) \subseteq 1 .. Len(text)
    PROVE  /\ Mine(text, places) \in Seq(Templates(text))
           /\ \A p \in Range(places) : Spanned(Mine(text, places), p)
<1> DEFINE N == Len(places)
           m == Mined(text, places)
           A == {k \in Nat : k <= N => \A i \in 1 .. k : Spanned(m[k].templates, places[i])}
<1>1. N \in Nat /\ DOMAIN places = 1 .. N /\ \A k \in 1 .. N : places[k] \in 1 .. Len(text)
  <2>1. N \in Nat /\ DOMAIN places = 1 .. N BY SeqFacts
  <2> QED BY <2>1 DEF Range
<1>2. MinedIs(m, text, places) /\ \A k \in 0 .. N : m[k] \in Miner(text) BY MinedExists
<1> HIDE DEF m
<1>3. ASSUME NEW k \in 1 .. N
      PROVE  Mined1(m[k - 1].templates, m[k].templates, text, places[k])
  <2>1. k \in 0 .. N /\ k # 0 /\ k - 1 \in 0 .. N BY <1>1
  <2>2. m[k] = MineLine(m[k - 1], Line[text[places[k]]], places[k]) BY <1>2, <2>1 DEF MinedIs
  <2>3. m[k - 1] \in Miner(text) /\ places[k] \in 1 .. Len(text) BY <1>1, <1>2, <2>1
  <2> QED BY <2>2, <2>3, MineLineFacts
<1> HIDE DEF N
<1>4. 0 \in A OBVIOUS
<1>5. ASSUME NEW k \in Nat, k \in A PROVE k + 1 \in A
  <2> SUFFICES ASSUME k + 1 <= N, NEW i \in 1 .. k + 1 PROVE Spanned(m[k + 1].templates, places[i]) OBVIOUS
  <2>1. k <= N /\ k + 1 \in 1 .. N /\ (k + 1) - 1 = k BY <1>1
  <2>2. Mined1(m[k].templates, m[k + 1].templates, text, places[k + 1]) BY <1>3, <2>1
  <2>3. CASE i = k + 1 BY <2>2, <2>3 DEF Mined1
  <2>4. CASE i # k + 1
    <3>1. i \in 1 .. k BY <2>4
    <3>2. Spanned(m[k].templates, places[i]) BY <1>5, <2>1, <3>1
    <3> QED BY <2>2, <3>2 DEF Mined1
  <2> QED BY <2>3, <2>4
<1>6. Nat \subseteq A
  <2> HIDE DEF A
  <2> QED BY <1>4, <1>5, NatInductionOnSet
<1>7. \A i \in 1 .. N : Spanned(m[N].templates, places[i]) BY <1>1, <1>6
<1>8. Mine(text, places) = m[N].templates BY DEF Mine, m, N
<1>9. m[N] \in Miner(text) BY <1>1, <1>2 DEF N
<1>10. m[N].templates \in Seq(Templates(text)) BY <1>9 DEF Miner
<1> QED BY <1>1, <1>7, <1>8, <1>10 DEF Range


-----------------------------------------------------------------------------
(***************************************************************************)
(* The steps of the builder: a document is opened, an empty region is      *)
(* passed over, one of another kind than prose is done, a region of prose  *)
(* is entered, one of its blocks is built, and it is left.                 *)
(***************************************************************************)
Steady == docs' = docs /\ d' = d /\ regions' = regions

FrozenOpened(us) ==
    /\ docs' = docs /\ d + 1 \in 1 .. Len(docs) /\ d' = d + 1 /\ ~open /\ ~open'
    /\ regions' = <<>> /\ r' = 1 /\ stack' = <<>> /\ blocks' = blocks
    /\ docs[d + 1].role \in FrozenRoles /\ FrozenAdd(us)

DocumentOpened ==
    /\ docs' = docs /\ d + 1 \in 1 .. Len(docs) /\ d' = d + 1 /\ ~open /\ ~open'
    /\ regions' = RegionsOf(docs[d + 1]) /\ r' = 1 /\ stack' = <<>> /\ blocks' = blocks
    /\ docs[d + 1].role \notin FrozenRoles /\ units' = units /\ edges' = edges

RegionSkipped ==
    /\ Steady /\ ~open /\ ~open' /\ blocks' = blocks /\ stack' = stack /\ units' = units /\ edges' = edges
    /\ d # 0 /\ r \in 1 .. Len(regions) /\ r' = r + 1 /\ Empty(r)

NoneAdd(us) == us = <<>> /\ Pipe(regions[r].label) \in {"code", "conversation"}

RegionDone(us) ==
    /\ Steady /\ ~open /\ ~open' /\ blocks' = blocks /\ stack' = <<>>
    /\ d # 0 /\ r \in 1 .. Len(regions) /\ r' = r + 1 /\ ~Empty(r) /\ Pipe(regions[r].label) \notin Prosaic
    /\ Grown(us) /\ \A k \in 1 .. Len(us) : Made(us[k])
    /\ NoneAdd(us) \/ TableAdd(us) \/ SqlAdd(us) \/ JsonAdd(us) \/ LogAdd(us)

ProseEntered ==
    /\ Steady /\ ~open /\ open' /\ r' = r /\ stack' = stack /\ units' = units /\ edges' = edges
    /\ d # 0 /\ r \in 1 .. Len(regions) /\ Pipe(regions[r].label) \in Prosaic
    /\ blocks' = Blocks(regions[r].from, regions[r].to)

BlockBuilt(us, h) ==
    /\ Steady /\ open /\ open' /\ r' = r /\ d # 0 /\ r \in 1 .. Len(regions)
    /\ Pipe(regions[r].label) \in Prosaic
    /\ blocks # <<>> /\ blocks' = Tail(blocks) /\ BlockAdd(us, h)

\* Two units that are alike but for their protection.
Alike(w, v) ==
    /\ w.kind = v.kind /\ w.doc = v.doc /\ w.region = v.region /\ w.text = v.text
    /\ w.parent = v.parent /\ (w.header <=> v.header) /\ w.depth = v.depth /\ w.rungs = v.rungs
    /\ w.template = v.template

ProseLeft ==
    /\ Steady /\ open /\ ~open' /\ r' = r + 1 /\ stack' = stack /\ d # 0 /\ r \in 1 .. Len(regions)
    /\ Pipe(regions[r].label) \in Prosaic
    /\ blocks = <<>> /\ blocks' = <<>> /\ edges \subseteq edges'
    /\ IsSeq(units') /\ Len(units') = Len(units)
    /\ \A u \in 1 .. Len(units) : IsUnit(units'[u]) /\ Alike(units'[u], units[u])

LEMMA LeaveProseFacts ==
    ASSUME Shape, Homed, LeaveProse
    PROVE  ProseLeft
<1>1. IsSeq(units) /\ Len(units) \in Nat /\ DOMAIN units = 1 .. Len(units) BY ShapeFacts DEF Shape
<1>2. /\ open /\ d # 0 /\ r \in 1 .. Len(regions) /\ Pipe(regions[r].label) \in Prosaic
  BY ShapeFacts DEF LeaveProse, Shape
<1>3. /\ Steady /\ ~open' /\ r' = r + 1 /\ stack' = stack /\ blocks = <<>> /\ blocks' = <<>>
  BY Zenon DEF LeaveProse, Steady
<1>4. \A u \in 1 .. Len(units) : IsUnit(units[u]) BY DEF Homed, Belongs
<1>5. CASE regions[r].label # "legal"
  <2>1. units' = units /\ edges' = edges BY <1>5 DEF LeaveProse
  <2>2. \A u \in 1 .. Len(units) : units'[u] = units[u] BY <2>1
  <2>3. \A u \in 1 .. Len(units) : IsUnit(units'[u]) /\ Alike(units'[u], units[u])
    BY <1>4, <2>2 DEF Alike
  <2> QED BY <1>1, <1>2, <1>3, <2>1, <2>3 DEF ProseLeft
<1>6. CASE regions[r].label = "legal"
  <2> DEFINE prot(u) == Join(units[u].prot, ANCHORED)
             unit(u) == IF u \in Clauses THEN [units[u] EXCEPT !.prot = prot(u)] ELSE units[u]
  <2>1. units' = [u \in DOMAIN units |-> IF u \in Clauses
                            THEN [units[u] EXCEPT !.prot = Join(@, ANCHORED)] ELSE units[u]]
        /\ edges \subseteq edges'
    BY <1>6, Zenon DEF LeaveProse
  <2>2. units' = [u \in 1 .. Len(units) |-> unit(u)] BY <1>1, <2>1
  <2>3. ASSUME NEW u \in 1 .. Len(units) PROVE IsUnit(unit(u)) /\ Alike(unit(u), units[u])
    <3> DEFINE v == units[u]
               p == prot(u)
               w == [v EXCEPT !.prot = p]
    <3>1. unit(u) = w \/ unit(u) = v OBVIOUS
    <3>2. IsUnit(v) BY <1>4
    <3> HIDE DEF v, p, unit
    <3>3. w = [kind |-> v.kind, doc |-> v.doc, region |-> v.region, text |-> v.text, prot |-> p,
               parent |-> v.parent, header |-> v.header, depth |-> v.depth, rungs |-> v.rungs,
               template |-> v.template]
      BY <3>2 DEF IsUnit
    <3> HIDE DEF w
    <3>4. IsUnit(w) BY <3>3 DEF IsUnit
    <3>5. /\ w.kind = v.kind /\ w.doc = v.doc /\ w.region = v.region /\ w.text = v.text
          /\ w.parent = v.parent /\ w.depth = v.depth /\ w.rungs = v.rungs /\ w.template = v.template
          /\ w.header = v.header
      BY <3>3
    <3>6. Alike(w, v) BY <3>5 DEF Alike
    <3>7. Alike(v, v) BY DEF Alike
    <3> QED BY <3>1, <3>2, <3>4, <3>6, <3>7 DEF v
  <2> HIDE DEF unit
  <2>4. units' = [u \in 1 .. Len(units) |-> units'[u]] /\ \A u \in 1 .. Len(units) : units'[u] = unit(u)
    BY <2>2
  <2>5. IsSeq(units') /\ Len(units') = Len(units) BY <1>1, <2>4, SeqOfFunction
  <2>6. \A u \in 1 .. Len(units) : IsUnit(units'[u]) /\ Alike(units'[u], units[u]) BY <2>3, <2>4
  <2> QED BY <1>2, <1>3, <2>1, <2>5, <2>6 DEF ProseLeft
<1> QED BY <1>5, <1>6

LEMMA Steps ==
    ASSUME Shape, Homed, Next
    PROVE  \/ \E us : FrozenOpened(us)
           \/ DocumentOpened
           \/ RegionSkipped
           \/ \E us : RegionDone(us)
           \/ ProseEntered
           \/ \E us, h : BlockBuilt(us, h)
           \/ ProseLeft
<1>1. Free => ~open
  <2>1. Len(regions) \in Nat /\ r \in Nat BY ShapeFacts DEF Shape
  <2> QED BY <2>1 DEF Free, Shape
<1>2. d < Len(docs) => d + 1 \in 1 .. Len(docs) BY ShapeFacts
<1>3. ~Free => d # 0 /\ r \in 1 .. Len(regions) BY ShapeFacts
<1>4. open => d # 0 /\ r \in 1 .. Len(regions) /\ Pipe(regions[r].label) \in Prosaic
  <2>1. Len(regions) \in Nat /\ r \in Nat \ {0} BY ShapeFacts DEF Shape
  <2> QED BY <2>1 DEF Shape
<1>5. CASE OpenFrozen
  <2>1. PICK us : FrozenAdd(us) BY <1>5, OpenFrozenAdds
  <2>2. FrozenOpened(us)
    BY <1>1, <1>2, <1>5, <2>1 DEF OpenFrozen, FrozenOpened
  <2> QED BY <2>2
<1>6. CASE OpenDocument BY <1>1, <1>2, <1>6 DEF OpenDocument, DocumentOpened
<1> DEFINE pipe == Pipe(regions[r].label)
           Closing == /\ Steady /\ ~open /\ ~open' /\ blocks' = blocks /\ stack' = <<>>
                      /\ d # 0 /\ r \in 1 .. Len(regions) /\ r' = r + 1 /\ ~Empty(r)
<1>7. ASSUME NEW pipes, Building(pipes), Done PROVE Closing /\ pipe \in pipes
  BY <1>3, <1>7 DEF Building, Done, Steady
<1>8. \A pipes : pipe \in pipes /\ pipes \cap Prosaic = {} => pipe \notin Prosaic OBVIOUS
<1> HIDE DEF pipe, Closing
<1>9. ASSUME NEW us, Closing, pipe \notin Prosaic, Grown(us), \A k \in 1 .. Len(us) : Made(us[k]),
             NoneAdd(us) \/ TableAdd(us) \/ SqlAdd(us) \/ JsonAdd(us) \/ LogAdd(us)
      PROVE  RegionDone(us)
  BY <1>9 DEF Closing, RegionDone, pipe
<1>10. CASE Elsewhere
  <2>1. Building({"code", "conversation"}) /\ Done /\ units' = units /\ edges' = edges
    BY <1>10 DEF Elsewhere
  <2>2. Closing /\ pipe \in {"code", "conversation"} BY <1>7, <2>1
  <2>3. pipe \notin Prosaic BY <2>2 DEF Prosaic
  <2> DEFINE us == <<>>
  <2>4. IsSeq(us) /\ Len(us) = 0
    <3>1. <<>> \in Seq({}) /\ Len(<<>>) = 0 OBVIOUS
    <3> QED BY <3>1, SeqIntro
  <2>5. NoneAdd(us) BY <2>2 DEF NoneAdd, pipe
  <2> HIDE DEF us
  <2>6. \A k \in 1 .. Len(us) : FALSE BY <2>4
  <2>7. IsSeq(units) /\ Len(units) \in Nat BY ShapeFacts DEF Shape
  <2>8. Grown(us) BY <2>1, <2>4, <2>6, <2>7 DEF Grown
  <2>9. RegionDone(us) BY <1>9, <2>2, <2>3, <2>5, <2>6, <2>8
  <2> QED BY <2>9
<1>11. CASE EnterProse
  <2>1. Building(Prosaic) BY <1>11 DEF EnterProse
  <2>2. d # 0 /\ r \in 1 .. Len(regions) /\ ~open /\ Pipe(regions[r].label) \in Prosaic
    BY <1>3, <2>1 DEF Building
  <2>3. /\ Steady /\ open' /\ r' = r /\ stack' = stack /\ units' = units /\ edges' = edges
        /\ blocks' = Blocks(regions[r].from, regions[r].to)
    BY <1>11, Zenon DEF EnterProse, Steady
  <2>4. ProseEntered BY <2>2, <2>3 DEF ProseEntered
  <2> QED BY <2>4
<1>12. CASE BuildBlock
  <2>1. PICK us, h : BlockAdd(us, h) BY <1>12, BuildBlockAdds
  <2>2. /\ Steady /\ open /\ open' /\ r' = r /\ blocks # <<>> /\ blocks' = Tail(blocks)
    BY <1>12, Zenon DEF BuildBlock, Steady
  <2>3. BlockBuilt(us, h) BY <1>4, <2>1, <2>2 DEF BlockBuilt
  <2> QED BY <2>3
<1>13. CASE LeaveProse BY <1>13, LeaveProseFacts
<1>14. CASE BuildTable
  <2>1. PICK us : TableAdd(us) BY <1>14, BuildTableAdds
  <2>2. Closing /\ pipe \in {"table"} BY <1>7, <1>14 DEF BuildTable
  <2>3. pipe \notin Prosaic BY <2>2 DEF Prosaic
  <2>4. Grown(us) /\ \A k \in 1 .. Len(us) : Made(us[k]) BY <2>1 DEF TableAdd
  <2>5. RegionDone(us) BY <1>9, <2>1, <2>2, <2>3, <2>4
  <2> QED BY <2>5
<1>15. CASE BuildSql
  <2>1. PICK us : SqlAdd(us) BY <1>15, BuildSqlAdds
  <2>2. Closing /\ pipe \in {"sql"} BY <1>7, <1>15 DEF BuildSql
  <2>3. pipe \notin Prosaic BY <2>2 DEF Prosaic
  <2>4. Grown(us) /\ \A k \in 1 .. Len(us) : Made(us[k]) BY <2>1 DEF SqlAdd
  <2>5. RegionDone(us) BY <1>9, <2>1, <2>2, <2>3, <2>4
  <2> QED BY <2>5
<1>16. CASE BuildJson
  <2>1. PICK us : JsonAdd(us) BY <1>16, BuildJsonAdds
  <2>2. Closing /\ pipe \in {"json"} BY <1>7, <1>16 DEF BuildJson
  <2>3. pipe \notin Prosaic BY <2>2 DEF Prosaic
  <2>4. Grown(us) /\ \A k \in 1 .. Len(us) : Made(us[k]) BY <2>1 DEF JsonAdd
  <2>5. RegionDone(us) BY <1>9, <2>1, <2>2, <2>3, <2>4
  <2> QED BY <2>5
<1>17. CASE BuildLogs
  <2>1. Building({"logs"}) BY <1>17 DEF BuildLogs
  <2>2. Closing /\ pipe \in {"logs"} BY <1>7, <1>17 DEF BuildLogs
  <2>3. pipe \notin Prosaic BY <2>2 DEF Prosaic
  <2>4. d # 0 /\ r \in 1 .. Len(regions) BY <1>3, <2>1 DEF Building
  <2>5. IsText(lines) /\ IsSeq(Places) /\ Range(Places) \subseteq 1 .. Len(lines)
    BY <2>4, ShapeFacts, PlacesFacts
  <2>6. IsSeq(Mine(lines, Places)) BY <2>5, MineFacts, SeqIntro
  <2>7. PICK us : LogAdd(us) BY <1>17, <2>6, BuildLogsAdds
  <2>8. Grown(us) /\ \A k \in 1 .. Len(us) : Made(us[k]) BY <2>7 DEF LogAdd
  <2>9. RegionDone(us) BY <1>9, <2>2, <2>3, <2>7, <2>8
  <2> QED BY <2>9
<1>18. CASE Skip
  <2>1. ~Free /\ ~open /\ Empty(r) BY <1>18 DEF Skip
  <2>2. Steady /\ open' = open /\ blocks' = blocks /\ stack' = stack /\ units' = units /\ edges' = edges /\ r' = r + 1
    BY <1>18, Zenon DEF Skip, Steady
  <2> QED BY <1>3, <2>1, <2>2 DEF RegionSkipped
<1> QED BY <1>5, <1>6, <1>10, <1>11, <1>12, <1>13, <1>14, <1>15, <1>16, <1>17, <1>18 DEF Next


\* A unit of the next state was there, or is one of the new ones.
LEMMA GrownFacts ==
    ASSUME NEW us, Grown(us), Shape, NEW u \in 1 .. Len(units')
    PROVE  \/ u \in 1 .. Len(units) /\ units'[u] = units[u]
           \/ /\ u - Len(units) \in 1 .. Len(us) /\ units'[u] = us[u - Len(units)] /\ u > Len(units)
              /\ Len(units) + (u - Len(units)) = u
<1>1. Len(units) \in Nat /\ Len(us) \in Nat BY ShapeFacts, SeqFacts DEF Grown
<1>2. CASE u <= Len(units) BY <1>1, <1>2 DEF Grown
<1>3. CASE u > Len(units)
  <2>1. u - Len(units) \in 1 .. Len(us) /\ Len(units) + (u - Len(units)) = u BY <1>1, <1>3 DEF Grown
  <2> QED BY <1>3, <2>1 DEF Grown
<1> QED BY <1>1, <1>2, <1>3

LEMMA ShapeInit == Init => Shape /\ Homed
<1> SUFFICES ASSUME Init PROVE Shape /\ Homed OBVIOUS
<1>1. docs \in Contexts /\ d = 0 /\ regions = <<>> /\ r = 1 /\ blocks = <<>> /\ open = FALSE /\ units = <<>>
  BY DEF Init
<1>2. Len(docs) \in Nat BY <1>1, ContextFacts
<1>3. IsSeq(<<>>) /\ Len(<<>>) = 0
  <2>1. <<>> \in Seq({}) /\ Len(<<>>) = 0 OBVIOUS
  <2> QED BY <2>1, SeqIntro
<1>4. \A k \in 1 .. Len(<<>>) : FALSE BY <1>3
<1>5. \A k \in 1 .. Len(blocks) : FALSE BY <1>1, <1>4
<1>6. Homed
  <2>1. \A k \in 1 .. Len(units) : FALSE BY <1>1, <1>4
  <2> QED BY <2>1 DEF Homed
<1>7. d \in 0 .. Len(docs) /\ r \in Nat \ {0}
  <2>1. 0 \in 0 .. Len(docs) BY <1>2
  <2>2. 1 \in Nat \ {0} OBVIOUS
  <2> QED BY <1>1, <2>1, <2>2
<1>8. IsSeq(regions) /\ IsSeq(blocks) /\ IsSeq(units) BY <1>1, <1>3
<1>9. Shape BY <1>1, <1>5, <1>7, <1>8 DEF Shape
<1> QED BY <1>6, <1>9

LEMMA ShapeStep ==
    ASSUME Shape, Homed, Next
    PROVE  Shape' /\ Homed'
<1>1. /\ Len(docs) \in Nat /\ Len(units) \in Nat /\ Len(regions) \in Nat /\ IsSeq(units) /\ IsSeq(regions)
      /\ IsSeq(blocks) /\ docs \in Contexts /\ d \in 0 .. Len(docs) /\ r \in Nat \ {0}
  BY ShapeFacts DEF Shape
<1>2. \A u \in 1 .. Len(units) : Belongs(units[u]) BY DEF Homed
<1>3. ~open => blocks = <<>> BY DEF Shape
<1>4. IsSeq(<<>>) /\ \A k \in 1 .. Len(<<>>) : FALSE
  <2>1. <<>> \in Seq({}) /\ Len(<<>>) = 0 OBVIOUS
  <2>2. IsSeq(<<>>) BY <2>1, SeqIntro
  <2>3. \A k \in 1 .. Len(<<>>) : FALSE BY <2>1
  <2> QED BY <2>2, <2>3
<1>5. ASSUME NEW us, FrozenOpened(us) PROVE Shape' /\ Homed'
  <2>1. Grown(us) BY <1>5 DEF FrozenOpened, FrozenAdd
  <2>2. Shape'
    <3>1. blocks' = <<>> BY <1>3, <1>5 DEF FrozenOpened
    <3>2. \A k \in 1 .. Len(blocks') : FALSE BY <1>4, <3>1
    <3>3. IsSeq(blocks') BY <1>4, <3>1
    <3>4. d' \in 0 .. Len(docs') /\ r' \in Nat \ {0} BY <1>1, <1>5 DEF FrozenOpened
    <3> QED BY <1>1, <1>4, <1>5, <3>1, <3>2, <3>3, <3>4, <2>1 DEF Shape, FrozenOpened, Grown
  <2>3. ASSUME NEW u \in 1 .. Len(units') PROVE Belongs(units[u])'
    <3>1. CASE u \in 1 .. Len(units) /\ units'[u] = units[u]
      BY <1>1, <1>2, <1>5, <3>1 DEF Belongs, FrozenOpened
    <3>2. CASE u - Len(units) \in 1 .. Len(us) /\ units'[u] = us[u - Len(units)]
      BY <1>1, <1>5, <3>2 DEF Belongs, FrozenOpened, FrozenAdd
    <3> QED BY <2>1, <3>1, <3>2, GrownFacts
  <2> QED BY <2>2, <2>3 DEF Homed
<1>6. CASE DocumentOpened
  <2>1. IsText(docs[d + 1].lines) BY <1>1, <1>6, ContextFacts DEF DocumentOpened
  <2>2. IsSeq(RegionsOf(docs[d + 1])) BY <2>1, RegionsFacts DEF Split
  <2>3. Shape'
    <3>1. blocks' = <<>> BY <1>3, <1>6 DEF DocumentOpened
    <3>2. \A k \in 1 .. Len(blocks') : FALSE BY <1>4, <3>1
    <3>3. IsSeq(blocks') BY <1>4, <3>1
    <3>4. d' \in 0 .. Len(docs') /\ r' \in Nat \ {0} BY <1>1, <1>6 DEF DocumentOpened
    <3> QED BY <1>1, <1>4, <1>6, <3>1, <3>2, <3>3, <3>4, <2>2 DEF Shape, DocumentOpened
  <2>4. ASSUME NEW u \in 1 .. Len(units') PROVE Belongs(units[u])'
    BY <1>1, <1>2, <1>6 DEF Belongs, DocumentOpened
  <2> QED BY <2>3, <2>4 DEF Homed
<1>7. ASSUME NEW us, RegionDone(us) PROVE Shape' /\ Homed'
  <2>1. Grown(us) BY <1>7 DEF RegionDone
  <2>2. Shape'
    <3>1. blocks' = <<>> BY <1>3, <1>7 DEF RegionDone
    <3>2. \A k \in 1 .. Len(blocks') : FALSE BY <1>4, <3>1
    <3>3. IsSeq(blocks') BY <1>4, <3>1
    <3>4. d' \in 0 .. Len(docs') /\ r' \in Nat \ {0} BY <1>1, <1>7 DEF RegionDone, Steady
    <3> QED BY <1>1, <1>4, <1>7, <3>1, <3>2, <3>3, <3>4, <2>1 DEF Shape, RegionDone, Grown, Steady
  <2>3. ASSUME NEW u \in 1 .. Len(units') PROVE Belongs(units[u])'
    <3>1. CASE u \in 1 .. Len(units) /\ units'[u] = units[u]
      BY <1>1, <1>2, <1>7, <3>1 DEF Belongs, RegionDone, Steady
    <3>2. CASE u - Len(units) \in 1 .. Len(us) /\ units'[u] = us[u - Len(units)]
      <4>1. Made(units'[u]) BY <1>7, <3>2 DEF RegionDone
      <4> QED BY <1>1, <1>7, <4>1 DEF Belongs, RegionDone, Made, Steady
    <3> QED BY <2>1, <3>1, <3>2, GrownFacts
  <2> QED BY <2>2, <2>3 DEF Homed
<1>8. CASE ProseEntered
  <2>1. regions[r].from \in Int /\ regions[r].to \in Int BY <1>8, PlacesFacts DEF ProseEntered
  <2>2. /\ IsSeq(blocks')
        /\ \A k \in 1 .. Len(blocks') :
              /\ IsSeq(blocks'[k]) /\ blocks'[k] # <<>>
              /\ Range(blocks'[k]) \subseteq regions[r].from .. regions[r].to
    <3> DEFINE from == regions[r].from
               to == regions[r].to
    <3>1. from \in Int /\ to \in Int /\ blocks' = Blocks(from, to) BY <1>8, <2>1 DEF ProseEntered
    <3> HIDE DEF from, to
    <3>2. LET bs == Blocks(from, to)
          IN  /\ IsSeq(bs)
              /\ \A k \in 1 .. Len(bs) : IsSeq(bs[k]) /\ bs[k] # <<>> /\ Range(bs[k]) \subseteq from .. to
      BY <3>1, SplitBlocksFacts
    <3> QED BY <3>1, <3>2 DEF from, to
  <2>3. Shape' BY <1>1, <1>8, <2>2 DEF Shape, ProseEntered, Steady
  <2>4. ASSUME NEW u \in 1 .. Len(units') PROVE Belongs(units[u])'
    BY <1>1, <1>2, <1>8 DEF Belongs, ProseEntered, Steady
  <2> QED BY <2>3, <2>4 DEF Homed
<1>9. ASSUME NEW us, NEW h, BlockBuilt(us, h) PROVE Shape' /\ Homed'
  <2>1. Grown(us) /\ \A k \in 1 .. Len(us) : Made(us[k]) BY <1>9 DEF BlockBuilt, BlockAdd
  <2>2. /\ IsSeq(blocks') /\ \A k \in 1 .. Len(blocks') : k + 1 \in 1 .. Len(blocks) /\ blocks'[k] = blocks[k + 1]
    <3>1. blocks # <<>> /\ blocks' = Tail(blocks) BY <1>9 DEF BlockBuilt
    <3>2. /\ IsSeq(Tail(blocks)) /\ Len(Tail(blocks)) = Len(blocks) - 1
          /\ \A k \in 1 .. Len(blocks) - 1 : Tail(blocks)[k] = blocks[k + 1]
      BY <1>1, <3>1, TailFacts
    <3>3. Len(blocks) \in Nat BY <1>1, SeqFacts
    <3> QED BY <3>1, <3>2, <3>3
  <2>3. \A k \in 1 .. Len(blocks') : /\ IsSeq(blocks'[k]) /\ blocks'[k] # <<>>
                                     /\ Range(blocks'[k]) \subseteq regions[r].from .. regions[r].to
    BY <2>2 DEF Shape
  <2>4. Shape' BY <1>1, <1>9, <2>1, <2>2, <2>3 DEF Shape, BlockBuilt, Steady, Grown
  <2>5. ASSUME NEW u \in 1 .. Len(units') PROVE Belongs(units[u])'
    <3>1. CASE u \in 1 .. Len(units) /\ units'[u] = units[u]
      BY <1>1, <1>2, <1>9, <3>1 DEF Belongs, BlockBuilt, Steady
    <3>2. CASE u - Len(units) \in 1 .. Len(us) /\ units'[u] = us[u - Len(units)]
      <4>1. Made(units'[u]) BY <2>1, <3>2
      <4> QED BY <1>1, <1>9, <4>1 DEF Belongs, BlockBuilt, Made, Steady
    <3> QED BY <2>1, <3>1, <3>2, GrownFacts
  <2> QED BY <2>4, <2>5 DEF Homed
<1>10. CASE ProseLeft
  <2>1. Shape'
    <3>1. blocks' = <<>> BY <1>3, <1>10 DEF ProseLeft
    <3>2. \A k \in 1 .. Len(blocks') : FALSE BY <1>4, <3>1
    <3>3. IsSeq(blocks') BY <1>4, <3>1
    <3>4. d' \in 0 .. Len(docs') /\ r' \in Nat \ {0} BY <1>1, <1>10 DEF ProseLeft, Steady
    <3> QED BY <1>1, <1>4, <1>10, <3>1, <3>2, <3>3, <3>4 DEF Shape, ProseLeft, Steady
  <2>2. ASSUME NEW u \in 1 .. Len(units') PROVE Belongs(units[u])'
    <3>1. u \in 1 .. Len(units) /\ IsUnit(units'[u]) /\ Alike(units'[u], units[u]) BY <1>10 DEF ProseLeft
    <3> QED BY <1>1, <1>2, <1>10, <3>1 DEF Belongs, ProseLeft, Alike, Steady
  <2> QED BY <2>1, <2>2 DEF Homed
<1>11. CASE RegionSkipped
  <2>1. Shape'
    <3>1. blocks' = <<>> BY <1>3, <1>11 DEF RegionSkipped
    <3>2. \A k \in 1 .. Len(blocks') : FALSE BY <1>4, <3>1
    <3>3. IsSeq(blocks') BY <1>4, <3>1
    <3>4. d' \in 0 .. Len(docs') /\ r' \in Nat \ {0} BY <1>1, <1>11 DEF RegionSkipped, Steady
    <3> QED BY <1>1, <1>4, <1>11, <3>1, <3>2, <3>3, <3>4 DEF Shape, RegionSkipped, Steady
  <2>2. ASSUME NEW u \in 1 .. Len(units') PROVE Belongs(units[u])'
    BY <1>1, <1>2, <1>11 DEF Belongs, RegionSkipped, Steady
  <2> QED BY <2>1, <2>2 DEF Homed
<1> QED BY <1>5, <1>6, <1>7, <1>8, <1>9, <1>10, <1>11, Steps

LEMMA ShapeStutters ==
    ASSUME Shape, Homed, UNCHANGED vars
    PROVE  Shape' /\ Homed'
BY DEF vars, Shape, Homed, Belongs, lines


LEMMA BlockKinds ==
    ASSUME NEW us, NEW h, BlockAdd(us, h), NEW k \in 1 .. Len(us)
    PROVE  us[k].kind \in TextKinds \cup {"heading"} /\ (us[k].kind = "heading" <=> k <= h)
<1>1. h \in {0, 1} BY DEF BlockAdd
<1>2. CASE k \in h + 1 .. Len(us)
  <2>1. us[k].kind \in TextKinds BY <1>2 DEF BlockAdd
  <2>2. ~ (k <= h) BY <1>1, <1>2
  <2> QED BY <2>1, <2>2 DEF TextKinds
<1>3. CASE h = 1 /\ k = 1
  <2>1. us[1].kind = "heading" BY <1>3 DEF BlockAdd
  <2> QED BY <1>3, <2>1
<1> QED BY <1>1, <1>2, <1>3

-----------------------------------------------------------------------------
(***************************************************************************)
(* Log units show templates of the lines of their document.                *)
(***************************************************************************)
IsLog(v) == v.kind = "log" => v.template \in Templates(lines)

LogsRecorded == \A u \in 1 .. Len(units) : units[u].doc = d => IsLog(units[u])

LEMMA LogsStep ==
    ASSUME Shape, Homed, LogsRecorded, Next
    PROVE  LogsRecorded'
<1>1. d \in Int /\ \A u \in 1 .. Len(units) : units[u].doc \in 1 .. d
  BY ShapeFacts DEF Homed, Belongs, Shape
<1>2. \A u \in 1 .. Len(units) : units[u].doc = d => IsLog(units[u]) BY DEF LogsRecorded
<1> SUFFICES ASSUME NEW u \in 1 .. Len(units'), units'[u].doc = d', units'[u].kind = "log"
             PROVE  units'[u].template \in Templates(docs'[d'].lines)
  BY DEF LogsRecorded, IsLog, lines
<1>3. ASSUME NEW us, FrozenOpened(us) PROVE FALSE
  <2>1. Grown(us) BY <1>3 DEF FrozenOpened, FrozenAdd
  <2>2. CASE u \in 1 .. Len(units) /\ units'[u] = units[u] BY <1>1, <1>3, <2>2 DEF FrozenOpened
  <2>3. CASE u - Len(units) \in 1 .. Len(us) /\ units'[u] = us[u - Len(units)]
    <3>1. units'[u].kind = "instruction" BY <1>3, <2>3 DEF FrozenOpened, FrozenAdd
    <3> QED BY <3>1
  <2> QED BY <2>1, <2>2, <2>3, GrownFacts
<1>4. CASE DocumentOpened BY <1>1, <1>4 DEF DocumentOpened
<1>5. ASSUME NEW us, RegionDone(us) PROVE units'[u].template \in Templates(docs'[d'].lines)
  <2>1. Grown(us) /\ docs' = docs /\ d' = d BY <1>5 DEF RegionDone, Steady
  <2>2. CASE u \in 1 .. Len(units) /\ units'[u] = units[u] BY <1>2, <2>1, <2>2 DEF IsLog, lines
  <2>3. CASE u - Len(units) \in 1 .. Len(us) /\ units'[u] = us[u - Len(units)]
    <3> DEFINE k == u - Len(units)
    <3>1. k \in 1 .. Len(us) /\ us[k].kind = "log" BY <2>3
    <3> HIDE DEF k
    <3>2. LogAdd(us)
      <4>1. ~NoneAdd(us)
        <5>1. Len(<<>>) = 0 OBVIOUS
        <5> QED BY <3>1, <5>1 DEF NoneAdd
      <4>2. ~TableAdd(us) BY <3>1 DEF TableAdd
      <4>3. ~SqlAdd(us) /\ ~JsonAdd(us) BY <3>1 DEF SqlAdd, JsonAdd
      <4> QED BY <1>5, <4>1, <4>2, <4>3 DEF RegionDone
    <3> DEFINE ts == Mine(lines, Places)
    <3>3. ts \in Seq(Templates(lines))
      <4>1. IsText(lines) /\ IsSeq(Places) /\ Range(Places) \subseteq 1 .. Len(lines)
        BY <1>5, ShapeFacts, PlacesFacts DEF RegionDone
      <4> QED BY <4>1, MineFacts
    <3>4. Len(us) = Len(ts) /\ us[k].template = ts[k] BY <3>1, <3>2 DEF LogAdd
    <3> HIDE DEF ts
    <3>5. ts[k] \in Templates(lines) BY <3>1, <3>3, <3>4
    <3> QED BY <2>1, <2>3, <3>4, <3>5 DEF k, lines
  <2> QED BY <2>1, <2>2, <2>3, GrownFacts
<1>6. CASE ProseEntered BY <1>2, <1>6 DEF ProseEntered, Steady, IsLog, lines
<1>7. ASSUME NEW us, NEW h, BlockBuilt(us, h) PROVE units'[u].template \in Templates(docs'[d'].lines)
  <2>1. Grown(us) /\ docs' = docs /\ d' = d /\ BlockAdd(us, h) BY <1>7 DEF BlockBuilt, BlockAdd, Steady
  <2>2. CASE u \in 1 .. Len(units) /\ units'[u] = units[u] BY <1>2, <2>1, <2>2 DEF IsLog, lines
  <2>3. CASE u - Len(units) \in 1 .. Len(us) /\ units'[u] = us[u - Len(units)]
    <3>1. units'[u].kind \in TextKinds \cup {"heading"} BY <2>1, <2>3, BlockKinds
    <3> QED BY <3>1 DEF TextKinds
  <2> QED BY <2>1, <2>2, <2>3, GrownFacts
<1>8. CASE ProseLeft BY <1>2, <1>8 DEF ProseLeft, Alike, Steady, IsLog, lines
<1>9. CASE RegionSkipped BY <1>2, <1>9 DEF RegionSkipped, Steady, IsLog, lines
<1> QED BY <1>3, <1>4, <1>5, <1>6, <1>7, <1>8, <1>9, Steps

LEMMA LogsHold == Shape /\ Homed /\ LogsRecorded => InlinedConstantsHold
<1> SUFFICES ASSUME Shape, Homed, LogsRecorded,
                    NEW u \in DOMAIN units, units[u].doc = d, units[u].kind = "log",
                    NEW k \in Inlined(units[u].template), NEW p \in Range(units[u].template.spans),
                    ~F(p).frame, k <= Len(F(p).slots)
             PROVE  <<k, F(p).slots[k]>> \in units[u].template.values
  BY DEF InlinedConstantsHold
<1> DEFINE t == units[u].template
<1>1. t \in Templates(lines)
  <2>1. u \in 1 .. Len(units) BY ShapeFacts
  <2> QED BY <2>1 DEF LogsRecorded, IsLog
<1>2. Recorded(t, lines) /\ t.spans \in Seq(1 .. Len(lines)) BY <1>1 DEF Templates, Records
<1>3. k \in Inlined(t) /\ p \in Range(t.spans) OBVIOUS
<1> HIDE DEF t
<1>4. IsSeq(t.spans) BY <1>2, SeqIntro
<1>5. DOMAIN t.spans = 1 .. Len(t.spans) BY <1>4, SeqFacts
<1>6. PICK i \in 1 .. Len(t.spans) : p = t.spans[i] BY <1>3, <1>5 DEF Range
<1>7. p \in 1 .. Len(lines) BY <1>2, <1>5, <1>6
<1>8. Recalled(t, F(p)) BY <1>2, <1>6 DEF Recorded, F
<1>9. lines[p] \in DOMAIN Line
  <2>1. u \in 1 .. Len(units) BY ShapeFacts
  <2>2. d # 0 BY <2>1 DEF Homed, Belongs
  <2> QED BY <1>7, <2>2, ShapeFacts
<1>10. IsSeq(F(p).slots) BY <1>9, LogAssumption DEF IsSeq, F
<1>11. k \in DOMAIN F(p).slots
  <2>1. k \in 1 .. Cardinality(Holes(t)) BY <1>3 DEF Inlined
  <2>2. k \in Int /\ k >= 1 BY <2>1
  <2>3. DOMAIN F(p).slots = 1 .. Len(F(p).slots) /\ Len(F(p).slots) \in Nat BY <1>10, SeqFacts
  <2> QED BY <2>2, <2>3
<1>12. Cardinality(Held(t.values, k)) = 1 BY <1>3 DEF Inlined
<1>13. ~ (Cardinality(Held(t.values, k)) >= SlotValues) BY <1>12, LogAssumption
<1> QED BY <1>8, <1>11, <1>13 DEF Recalled, t


-----------------------------------------------------------------------------
(***************************************************************************)
(* Rows bring their header, or have no other row in their region, which is *)
(* done.                                                                   *)
(***************************************************************************)
IsRow(u) == units[u].doc = d /\ units[u].kind = "row" /\ Whole(units[u])

Header(h, u) ==
    /\ IsRow(h) /\ units[h].header /\ Edge(u, h, "REQUIRES") \in edges /\ h < u
    /\ units[h].region = units[u].region
    /\ \A g \in 1 .. Len(units) : IsRow(g) /\ units[g].header /\ g < u => g <= h

Brought(u) == \E h \in 1 .. Len(units) : Header(h, u)

Single(u) ==
    /\ ~ (open /\ units[u].region = r)
    /\ \A v \in 1 .. Len(units) : IsRow(v) /\ units[v].region = units[u].region => v = u

RowsHoused == \A u \in 1 .. Len(units) : IsRow(u) /\ ~units[u].header => Brought(u) \/ Single(u)

\* What a step that stays in the document leaves as it was.
Carried ==
    /\ Steady /\ IsSeq(units') /\ Len(units') \in Nat /\ Len(units) <= Len(units') /\ edges \subseteq edges'
    /\ \A u \in 1 .. Len(units) : Alike(units'[u], units[u])

LEMMA CarriedFacts ==
    ASSUME Shape, Homed
    PROVE  /\ \A us : Steady /\ Grown(us) => Carried
           /\ Steady /\ units' = units /\ edges' = edges => Carried
           /\ ProseLeft => Carried
<1>1. IsSeq(units) /\ Len(units) \in Nat BY ShapeFacts DEF Shape
<1>2. ASSUME NEW us, Steady, Grown(us) PROVE Carried
  <2>1. Len(us) \in Nat /\ Len(units') = Len(units) + Len(us) BY <1>2, SeqFacts DEF Grown
  <2>2. Len(units') \in Nat /\ Len(units) <= Len(units') BY <1>1, <2>1
  <2>3. \A u \in 1 .. Len(units) : units'[u] = units[u] BY <1>2 DEF Grown
  <2>4. \A u \in 1 .. Len(units) : Alike(units'[u], units[u]) BY <2>3 DEF Alike
  <2> QED BY <1>2, <2>2, <2>4 DEF Carried, Grown
<1>3. ASSUME Steady, units' = units, edges' = edges PROVE Carried
  <2>1. \A u \in 1 .. Len(units) : Alike(units'[u], units[u]) BY <1>3 DEF Alike
  <2> QED BY <1>1, <1>3, <2>1 DEF Carried
<1>4. ASSUME ProseLeft PROVE Carried BY <1>1, <1>4 DEF ProseLeft, Carried
<1> QED BY <1>2, <1>3, <1>4

LEMMA RowsCarried ==
    ASSUME Shape, Carried, NEW u \in 1 .. Len(units)
    PROVE  /\ IsRow(u)' <=> IsRow(u)
           /\ units'[u].region = units[u].region /\ (units'[u].header <=> units[u].header)
           /\ Brought(u) => Brought(u)'
<1>1. Len(units) \in Nat BY ShapeFacts
<1>2. \A v \in 1 .. Len(units) : Alike(units'[v], units[v]) BY DEF Carried
<1>3. \A v \in 1 .. Len(units) : IsRow(v)' <=> IsRow(v)
  <2> SUFFICES ASSUME NEW v \in 1 .. Len(units) PROVE IsRow(v)' <=> IsRow(v) OBVIOUS
  <2>1. /\ units'[v].doc = units[v].doc /\ units'[v].kind = units[v].kind /\ units'[v].text = units[v].text
    BY <1>2 DEF Alike
  <2>2. docs' = docs /\ d' = d BY DEF Carried, Steady
  <2>3. Whole(units[v])' <=> Whole(units[v]) BY <2>1, <2>2 DEF Whole, F, lines
  <2> QED BY <2>1, <2>2, <2>3 DEF IsRow
<1>4. \A v \in 1 .. Len(units) :
         units'[v].region = units[v].region /\ (units'[v].header <=> units[v].header)
  BY <1>2 DEF Alike
<1>5. ASSUME Brought(u) PROVE Brought(u)'
  <2>1. PICK h \in 1 .. Len(units) : Header(h, u) BY <1>5 DEF Brought
  <2>2. h \in 1 .. Len(units') BY <1>1 DEF Carried
  <2>3. IsRow(h)' /\ units'[h].header /\ units'[h].region = units'[u].region
    BY <1>3, <1>4, <2>1 DEF Header
  <2>4. Edge(u, h, "REQUIRES") \in edges' /\ h < u BY <2>1 DEF Header, Carried
  <2>5. ASSUME NEW g \in 1 .. Len(units'), IsRow(g)', units'[g].header, g < u PROVE g <= h
    <3>1. g \in 1 .. Len(units) BY <1>1, <2>5 DEF Carried
    <3>2. IsRow(g) /\ units[g].header BY <1>3, <1>4, <2>5, <3>1
    <3> QED BY <2>1, <2>5, <3>1, <3>2 DEF Header
  <2>6. Header(h, u)' BY <2>3, <2>4, <2>5 DEF Header
  <2> QED BY <2>2, <2>6 DEF Brought
<1> QED BY <1>3, <1>4, <1>5

\* A row that was there, when the new units are none or of the region at work.
LEMMA RowsStay ==
    ASSUME Shape, Homed, RowsHoused, Carried, NEW u \in 1 .. Len(units), IsRow(u)', ~units'[u].header,
           \A v \in 1 .. Len(units') : v \in 1 .. Len(units) \/ units'[v].region = r,
           open' => r' = r /\ (~open => units' = units),
           ~open' /\ open => Len(units') = Len(units)
    PROVE  Brought(u)' \/ Single(u)'
<1>1. IsRow(u) /\ ~units[u].header /\ units'[u].region = units[u].region BY RowsCarried
<1>2. CASE Brought(u) BY <1>2, RowsCarried
<1>3. CASE Single(u)
  <2>1. units[u].region < r /\ r \in Nat /\ units[u].region \in Int
    <3>1. Belongs(units[u]) /\ units[u].doc = d /\ units[u].kind = "row" BY <1>1 DEF Homed, IsRow
    <3>2. ~ (open /\ units[u].region = r) BY <1>3 DEF Single
    <3> QED BY <3>1, <3>2 DEF Belongs, Shape
  <2>2. ~ (open' /\ units'[u].region = r') BY <1>1, <2>1
  <2>3. ASSUME NEW v \in 1 .. Len(units'), IsRow(v)', units'[v].region = units'[u].region PROVE v = u
    <3>1. CASE v \in 1 .. Len(units)
      <4>1. IsRow(v) /\ units[v].region = units[u].region BY <1>1, <2>3, <3>1, RowsCarried
      <4> QED BY <1>3, <3>1, <4>1 DEF Single
    <3>2. CASE units'[v].region = r BY <1>1, <2>1, <2>3, <3>2
    <3> QED BY <3>1, <3>2
  <2>4. Single(u)' BY <2>2, <2>3 DEF Single
  <2> QED BY <2>4
<1> QED BY <1>1, <1>2, <1>3 DEF RowsHoused

LEMMA RowsStep ==
    ASSUME Shape, Homed, RowsHoused, Next
    PROVE  RowsHoused'
<1>1. /\ d \in Int /\ Len(units) \in Nat /\ IsSeq(units)
      /\ \A u \in 1 .. Len(units) : units[u].doc \in 1 .. d
  BY ShapeFacts DEF Homed, Belongs, Shape
<1> SUFFICES ASSUME NEW u \in 1 .. Len(units'), IsRow(u)', ~units'[u].header
             PROVE  Brought(u)' \/ Single(u)'
  BY DEF RowsHoused
<1>2. units'[u].doc = d' /\ units'[u].kind = "row" /\ Whole(units[u])' BY DEF IsRow
<1>3. ASSUME NEW us, FrozenOpened(us) PROVE FALSE
  <2>1. Grown(us) BY <1>3 DEF FrozenOpened, FrozenAdd
  <2>2. CASE u \in 1 .. Len(units) /\ units'[u] = units[u] BY <1>1, <1>2, <1>3, <2>2 DEF FrozenOpened
  <2>3. CASE u - Len(units) \in 1 .. Len(us) /\ units'[u] = us[u - Len(units)]
    <3>1. units'[u].kind = "instruction" BY <1>3, <2>3 DEF FrozenOpened, FrozenAdd
    <3> QED BY <1>2, <3>1
  <2> QED BY <2>1, <2>2, <2>3, GrownFacts
<1>4. CASE DocumentOpened BY <1>1, <1>2, <1>4 DEF DocumentOpened
<1>5. ASSUME NEW us, RegionDone(us) PROVE Brought(u)' \/ Single(u)'
  <2>1. Grown(us) /\ Steady /\ ~open /\ ~open' BY <1>5 DEF RegionDone
  <2>2. Carried BY <2>1, CarriedFacts
  <2>3. ASSUME NEW v \in 1 .. Len(units')
        PROVE  v \in 1 .. Len(units) \/ units'[v].region = r
    <3>1. CASE v - Len(units) \in 1 .. Len(us) /\ units'[v] = us[v - Len(units)]
      BY <1>5, <3>1 DEF RegionDone, Made
    <3> QED BY <2>1, <3>1, GrownFacts
  <2>4. CASE u \in 1 .. Len(units) BY <2>1, <2>2, <2>3, <2>4, RowsStay
  <2>5. CASE /\ u - Len(units) \in 1 .. Len(us) /\ units'[u] = us[u - Len(units)] /\ u > Len(units)
             /\ Len(units) + (u - Len(units)) = u
    <3> DEFINE n == Len(units)
               k == u - n
    <3>1. k \in 1 .. Len(us) /\ units'[u] = us[k] /\ u = n + k BY <2>5
    <3> HIDE DEF k
    <3>2. TableAdd(us)
      <4>1. ~NoneAdd(us)
        <5>1. Len(<<>>) = 0 OBVIOUS
        <5> QED BY <3>1, <5>1 DEF NoneAdd
      <4>2. ~SqlAdd(us) BY <1>2, <3>1 DEF SqlAdd
      <4>3. ~JsonAdd(us) BY <1>2, <3>1 DEF JsonAdd
      <4>4. ~LogAdd(us) BY <1>2, <3>1 DEF LogAdd
      <4> QED BY <1>5, <4>1, <4>2, <4>3, <4>4 DEF RegionDone
    <3>3. \A v : Whole(v)' <=> Whole(v) BY <2>1 DEF Steady, Whole, F, lines
    <3>4. Whole(us[k])
      <4>1. Whole(units[u])' <=> Whole(units'[u]) BY <2>1 DEF Steady, Whole, F, lines
      <4> QED BY <1>2, <3>1, <4>1
    <3>5. \A j \in 1 .. Len(us) : n + j \in 1 .. Len(units') /\ units'[n + j] = us[j]
      <4>1. Len(us) \in Nat BY <2>1, SeqFacts DEF Grown
      <4> QED BY <1>1, <2>1, <4>1 DEF Grown
    <3>6. CASE \A i, j \in 1 .. Len(us) : i # j => ~ (Whole(us[i]) /\ Whole(us[j]))
      <4>1. ASSUME NEW v \in 1 .. Len(units'), IsRow(v)', units'[v].region = units'[u].region PROVE v = u
        <5>1. units'[u].region = r BY <1>5, <3>1 DEF RegionDone, Made
        <5>2. CASE v \in 1 .. n
          <6>1. IsRow(v) /\ units[v].region = r BY <2>2, <4>1, <5>1, <5>2, RowsCarried
          <6>2. Belongs(units[v]) BY <5>2 DEF Homed
          <6> QED BY <2>1, <6>1, <6>2 DEF Belongs, IsRow, Shape
        <5>3. CASE v - n \in 1 .. Len(us) /\ units'[v] = us[v - n] /\ n + (v - n) = v
          <6>1. Whole(us[v - n])
            <7>1. Whole(units[v])' BY <4>1 DEF IsRow
            <7>2. Whole(units[v])' <=> Whole(units'[v]) BY <2>1 DEF Steady, Whole, F, lines
            <7> QED BY <5>3, <7>1, <7>2
          <6>2. v - n = k BY <3>1, <3>4, <3>6, <5>3, <6>1
          <6> QED BY <1>1, <3>1, <5>3, <6>2
        <5> QED BY <2>1, <5>2, <5>3, GrownFacts
      <4>2. Single(u)' BY <2>1, <4>1 DEF Single
      <4> QED BY <4>2
    <3>7. CASE /\ Len(us) >= 1 /\ us[1].kind = "row" /\ us[1].header /\ Whole(us[1])
               /\ \A j \in 2 .. Len(us) : us[j].kind = "row" => ~us[j].header /\ us[j].parent = Len(units) + 1
      <4>0. PICK h : h = n + 1 OBVIOUS
      <4>1. Len(us) \in Nat /\ 1 \in 1 .. Len(us) BY <2>1, <3>7, SeqFacts DEF Grown
      <4>2. h \in 1 .. Len(units') /\ units'[h] = us[1] BY <3>5, <4>0, <4>1
      <4>3. k # 1 BY <3>1, <3>7
      <4>4. k \in 2 .. Len(us) BY <3>1, <4>1, <4>3
      <4>5. us[k].parent = h BY <1>2, <3>1, <3>7, <4>0, <4>4
      <4>6. h # 0 /\ h < u BY <1>1, <3>1, <4>0, <4>4
      <4>7. Edge(u, h, "REQUIRES") \in edges' BY <2>1, <3>1, <4>5, <4>6 DEF Grown
      <4>8. Made(us[1]) /\ Made(us[k]) BY <1>5, <3>1, <4>1 DEF RegionDone
      <4>9. units'[h].doc = d' /\ units'[h].region = units'[u].region
        BY <2>1, <3>1, <4>2, <4>8 DEF Made, Steady
      <4>10. Whole(units[h])'
        <5>1. Whole(units[h])' <=> Whole(units'[h]) BY <2>1 DEF Steady, Whole, F, lines
        <5> QED BY <3>7, <4>2, <5>1
      <4>11. IsRow(h)' /\ units'[h].header BY <3>7, <4>2, <4>9, <4>10 DEF IsRow
      <4>12. ASSUME NEW g \in 1 .. Len(units'), IsRow(g)', units'[g].header, g < u PROVE g <= h
        <5>1. CASE g \in 1 .. n BY <1>1, <4>0, <5>1
        <5>2. CASE g - n \in 1 .. Len(us) /\ units'[g] = us[g - n] /\ n + (g - n) = g
          <6>1. units'[g].kind = "row" BY <4>12 DEF IsRow
          <6>2. ~ (g - n \in 2 .. Len(us)) BY <3>7, <4>12, <5>2, <6>1
          <6>3. g - n = 1 BY <4>1, <5>2, <6>2
          <6> QED BY <1>1, <4>0, <5>2, <6>3
        <5> QED BY <2>1, <5>1, <5>2, GrownFacts
      <4>13. Header(h, u)' BY <4>6, <4>7, <4>9, <4>11, <4>12 DEF Header
      <4>14. Brought(u)' BY <4>2, <4>13 DEF Brought
      <4> QED BY <4>14
    <3> QED BY <3>2, <3>6, <3>7 DEF TableAdd
  <2> QED BY <2>1, <2>4, <2>5, GrownFacts
<1>6. CASE ProseEntered
  <2>1. Carried /\ units' = units BY <1>6, CarriedFacts DEF ProseEntered
  <2>2. u \in 1 .. Len(units) /\ open' /\ r' = r BY <1>6, <2>1 DEF ProseEntered
  <2> QED BY <2>1, <2>2, RowsStay
<1>7. ASSUME NEW us, NEW h, BlockBuilt(us, h) PROVE Brought(u)' \/ Single(u)'
  <2>1. Grown(us) /\ Steady /\ BlockAdd(us, h) /\ open /\ open' /\ r' = r BY <1>7 DEF BlockBuilt, BlockAdd
  <2>2. Carried BY <2>1, CarriedFacts
  <2>3. ASSUME NEW v \in 1 .. Len(units')
        PROVE  v \in 1 .. Len(units) \/ units'[v].region = r
    <3>1. CASE v - Len(units) \in 1 .. Len(us) /\ units'[v] = us[v - Len(units)]
      BY <2>1, <3>1 DEF BlockAdd, Made
    <3> QED BY <2>1, <3>1, GrownFacts
  <2>4. CASE u \in 1 .. Len(units) BY <2>1, <2>2, <2>3, <2>4, RowsStay
  <2>5. CASE /\ u - Len(units) \in 1 .. Len(us) /\ units'[u] = us[u - Len(units)] /\ u > Len(units)
             /\ Len(units) + (u - Len(units)) = u
    <3> DEFINE n == Len(units)
               k == u - n
    <3>0. PICK first : first = n + h + 1 OBVIOUS
    <3>1. k \in 1 .. Len(us) /\ units'[u] = us[k] /\ u = n + k BY <2>5
    <3> HIDE DEF k
    <3>2. \A j \in h + 1 .. Len(us) :
                 /\ us[j].kind = "row" /\ (us[j].header <=> j = h + 1) /\ Whole(us[j])
                 /\ j # h + 1 => Edge(n + j, n + h + 1, "REQUIRES") \in edges'
      BY <1>2, <2>1, <3>1 DEF BlockAdd
    <3>3. h \in {0, 1} /\ Len(us) \in Nat BY <2>1, SeqFacts DEF BlockAdd, Grown
    <3>4. k \in h + 1 .. Len(us) /\ k # h + 1
      <4>1. ~ (k <= h)
        <5>1. k <= h => us[k].kind = "heading" BY <2>1, <3>1, BlockKinds
        <5> QED BY <1>2, <3>1, <5>1
      <4>2. k \in h + 1 .. Len(us) BY <3>1, <3>3, <4>1
      <4> QED BY <3>1, <3>2, <4>2
    <3>5. h + 1 \in h + 1 .. Len(us) /\ h + 1 \in 1 .. Len(us) /\ first = n + (h + 1) BY <1>1, <3>0, <3>3, <3>4
    <3>6. first \in 1 .. Len(units') /\ units'[first] = us[h + 1] /\ first < u
      <4>1. units'[n + (h + 1)] = us[h + 1] /\ Len(units') = n + Len(us) BY <2>1, <3>5 DEF Grown
      <4>2. first \in 1 .. Len(units') BY <1>1, <3>3, <3>5, <4>1
      <4>3. first < u BY <1>1, <3>0, <3>1, <3>3, <3>4
      <4> QED BY <3>5, <4>1, <4>2, <4>3
    <3>7. Edge(u, first, "REQUIRES") \in edges' BY <3>0, <3>1, <3>2, <3>4
    <3>8. Made(us[h + 1]) /\ Made(us[k]) BY <2>1, <3>1, <3>5 DEF BlockAdd
    <3>9. units'[first].doc = d' /\ units'[first].region = units'[u].region
      BY <2>1, <3>1, <3>6, <3>8 DEF Made, Steady
    <3>10. Whole(units[first])'
      <4>1. Whole(units[first])' <=> Whole(units'[first]) BY <2>1 DEF Steady, Whole, F, lines
      <4> QED BY <3>2, <3>5, <3>6, <4>1
    <3>11. IsRow(first)' /\ units'[first].header BY <3>2, <3>5, <3>6, <3>9, <3>10 DEF IsRow
    <3>12. ASSUME NEW g \in 1 .. Len(units'), IsRow(g)', units'[g].header, g < u PROVE g <= first
      <4>1. CASE g \in 1 .. n BY <1>1, <3>0, <3>3, <4>1
      <4>2. CASE g - n \in 1 .. Len(us) /\ units'[g] = us[g - n] /\ n + (g - n) = g
        <5>1. CASE g - n \in h + 1 .. Len(us)
          <6>1. g - n = h + 1 BY <3>2, <3>12, <4>2, <5>1
          <6> QED BY <1>1, <3>0, <3>3, <4>2, <6>1
        <5>2. CASE ~ (g - n \in h + 1 .. Len(us))
          <6>1. g - n <= h BY <3>3, <4>2, <5>2
          <6> QED BY <1>1, <3>0, <3>3, <4>2, <6>1
        <5> QED BY <5>1, <5>2
      <4> QED BY <2>1, <4>1, <4>2, GrownFacts
    <3>13. Header(first, u)' BY <3>6, <3>7, <3>9, <3>11, <3>12 DEF Header
    <3>14. Brought(u)' BY <3>6, <3>13 DEF Brought
    <3> QED BY <3>14
  <2> QED BY <2>1, <2>4, <2>5, GrownFacts
<1>8. CASE ProseLeft
  <2>1. Carried BY <1>8, CarriedFacts
  <2>2. u \in 1 .. Len(units) /\ open /\ ~open' /\ Len(units') = Len(units) BY <1>8 DEF ProseLeft
  <2> QED BY <2>1, <2>2, RowsStay
<1>9. CASE RegionSkipped
  <2>1. Carried /\ units' = units BY <1>9, CarriedFacts DEF RegionSkipped
  <2>2. u \in 1 .. Len(units) /\ ~open /\ ~open' BY <1>9, <2>1 DEF RegionSkipped
  <2> QED BY <2>1, <2>2, RowsStay
<1> QED BY <1>3, <1>4, <1>5, <1>6, <1>7, <1>8, <1>9, Steps

LEMMA RowsHold == Shape /\ RowsHoused => RowsBringHeader
<1> SUFFICES ASSUME Shape, RowsHoused PROVE RowsBringHeader OBVIOUS
<1> DEFINE rows == {u \in DOMAIN units : units[u].doc = d /\ units[u].kind = "row"
                                      /\ \A p \in units[u].text : ~F(p).sep}
           headers == {u \in rows : units[u].header}
<1>1. DOMAIN units = 1 .. Len(units) BY ShapeFacts
<1>2. rows = {u \in 1 .. Len(units) : IsRow(u)} BY <1>1 DEF IsRow, Whole
<1> HIDE DEF rows
<1>3. ASSUME NEW u \in rows \ headers, NEW v \in rows \ {u}, units[v].region = units[u].region
      PROVE  \E h \in headers : /\ Edge(u, h, "REQUIRES") \in edges /\ h < u
                                /\ units[h].region = units[u].region
                                /\ \A g \in headers : g < u => g <= h
  <2>1. u \in 1 .. Len(units) /\ IsRow(u) /\ ~units[u].header BY <1>2
  <2>2. v \in 1 .. Len(units) /\ IsRow(v) /\ v # u BY <1>2
  <2>3. ~Single(u) BY <1>3, <2>2 DEF Single
  <2>4. PICK h \in 1 .. Len(units) : Header(h, u) BY <2>1, <2>3 DEF RowsHoused, Brought
  <2>5. h \in headers BY <1>2, <2>4 DEF Header
  <2> QED BY <1>2, <2>4, <2>5 DEF Header
<1> QED BY <1>3 DEF RowsBringHeader, rows


-----------------------------------------------------------------------------
(***************************************************************************)
(* Nothing is lost of the regions that are done, nor of the open one but   *)
(* for the blocks still to do.                                             *)
(***************************************************************************)
Kept(p) ==
    \/ F(p).chars = 0 \/ F(p).sep \/ Delegated(p) \/ Counted(p)
    \/ Atom(p, 0)
    \/ \E k \in DOMAIN regions : p \in regions[k].from .. regions[k].to /\ ByChildren(k)

Waiting(p) == \E b \in 1 .. Len(blocks) : p \in Range(blocks[b])

FrozenKept == d # 0 /\ docs[d].role \in FrozenRoles => \A p \in 1 .. Len(lines) : Kept(p)

RegionsKept ==
    \A k \in 1 .. Len(regions) : \A p \in regions[k].from .. regions[k].to :
        k < r \/ (open /\ k = r) => Kept(p) \/ (open /\ k = r /\ Waiting(p))

\* What a new unit shows.
LEMMA NewAtom ==
    ASSUME Shape, NEW us, Grown(us), NEW k \in 1 .. Len(us), us[k].doc = d',
           NEW p, NEW q, NEW shown \in us[k].rungs, <<p, q>> \in shown
    PROVE  Atom(p, q)'
<1>1. PICK u : u = Len(units) + k OBVIOUS
<1>2. u \in 1 .. Len(units')
  <2>1. Len(us) \in Nat /\ Len(units) \in Nat BY SeqFacts, ShapeFacts DEF Grown
  <2> QED BY <1>1, <2>1 DEF Grown
<1>3. units'[u] = us[k] BY <1>1 DEF Grown
<1>4. u \in DOMAIN units' BY <1>2, SeqFacts DEF Grown
<1> QED BY <1>3, <1>4 DEF Atom

\* A new unit that holds a place shows its line.
LEMMA NewText ==
    ASSUME Shape, NEW us, Grown(us), NEW k \in 1 .. Len(us), us[k].doc = d',
           us[k].rungs = {Atoms(us[k].text)}, NEW p \in us[k].text
    PROVE  Kept(p)'
<1>1. <<p, 0>> \in Atoms(us[k].text) BY DEF Atoms
<1>2. Atom(p, 0)' BY <1>1, NewAtom
<1> QED BY <1>2 DEF Kept

\* In the same document a region stays what it was.
LEMMA SameRegions ==
    ASSUME docs' = docs, d' = d, regions' = regions, NEW k
    PROVE  /\ Payload(k)' = Payload(k) /\ (Empty(k)' <=> Empty(k))
           /\ Head(Full(regions[k].from, regions[k].to))' = Head(Full(regions[k].from, regions[k].to))
           /\ PayloadRegion(k)' <=> PayloadRegion(k)
<1>1. lines' = lines BY DEF lines
<1>2. Payload(k)' = Payload(k) BY <1>1 DEF Payload, RegionText
<1>3. Empty(k)' <=> Empty(k) BY <1>1 DEF Empty, F
<1>4. Head(Full(regions[k].from, regions[k].to))' = Head(Full(regions[k].from, regions[k].to))
  BY <1>1 DEF Full, F
<1>5. PayloadRegion(k)' <=> PayloadRegion(k) BY <1>2 DEF PayloadRegion
<1> QED BY <1>2, <1>3, <1>4, <1>5

\* A payload is held by its children when each of them is in some rung.
LEMMA ChildrenHold ==
    ASSUME docs' = docs, d' = d, regions' = regions, NEW k, PayloadRegion(k),
           NEW at, at = Head(Full(regions[k].from, regions[k].to)),
           \A j \in DOMAIN Payload(k).kids : Payload(k).kids[j].size > FullLimit \/ Atom(at, j)'
    PROVE  ByChildren(k)'
<1>1. PICK payload : payload = Payload(k) OBVIOUS
<1>2. payload = Payload(k)' /\ at = Head(Full(regions[k].from, regions[k].to))' /\ PayloadRegion(k)'
  BY <1>1, SameRegions
<1>3. \A j \in DOMAIN payload.kids : payload.kids[j].size > FullLimit \/ Atom(at, j)' BY <1>1
<1> QED BY <1>2, <1>3 DEF ByChildren, Atom

LEMMA KeptCarried ==
    ASSUME Shape, Carried, NEW p, Kept(p)
    PROVE  Kept(p)'
<1>1. /\ Len(units) \in Nat /\ DOMAIN units = 1 .. Len(units) /\ d' = d /\ docs' = docs /\ regions' = regions
  BY ShapeFacts DEF Carried, Steady
<1>2. \A u \in DOMAIN units : u \in DOMAIN units' /\ Alike(units'[u], units[u])
  <2>1. DOMAIN units' = 1 .. Len(units') BY SeqFacts DEF Carried
  <2> QED BY <1>1, <2>1 DEF Carried
<1>3. F(p)' = F(p) BY <1>1 DEF F, lines
<1>4. \A o, q : Atom(o, q) => Atom(o, q)'
  <2> SUFFICES ASSUME NEW o, NEW q, Atom(o, q) PROVE Atom(o, q)' OBVIOUS
  <2>1. PICK u \in DOMAIN units : units[u].doc = d /\ \E shown \in units[u].rungs : <<o, q>> \in shown
    BY DEF Atom
  <2>2. units'[u].doc = units[u].doc /\ units'[u].rungs = units[u].rungs BY <1>2 DEF Alike
  <2> QED BY <1>1, <1>2, <2>1, <2>2 DEF Atom
<1>5. Counted(p) => Counted(p)'
  <2> SUFFICES ASSUME Counted(p) PROVE Counted(p)' OBVIOUS
  <2>1. PICK u \in DOMAIN units : units[u].doc = d /\ units[u].kind = "log" /\
            \E k \in DOMAIN units[u].template.spans : k > MaxVerbatim /\ units[u].template.spans[k] = p
    BY DEF Counted
  <2>2. /\ units'[u].doc = units[u].doc /\ units'[u].kind = units[u].kind
        /\ units'[u].template = units[u].template
    BY <1>2 DEF Alike
  <2> QED BY <1>1, <1>2, <2>1, <2>2 DEF Counted
<1>6. Delegated(p) => Delegated(p)' BY <1>1 DEF Delegated
<1>7. ASSUME NEW k \in DOMAIN regions, p \in regions[k].from .. regions[k].to, ByChildren(k)
      PROVE  Kept(p)'
  <2>1. PICK at : at = Head(Full(regions[k].from, regions[k].to)) OBVIOUS
  <2>2. PayloadRegion(k) /\ \A j \in DOMAIN Payload(k).kids : Payload(k).kids[j].size > FullLimit \/ Atom(at, j)
    BY <1>7, <2>1 DEF ByChildren
  <2>3. ByChildren(k)' BY <1>1, <1>4, <2>1, <2>2, ChildrenHold
  <2> QED BY <1>1, <1>7, <2>3 DEF Kept
<1>8. CASE F(p).chars = 0 \/ F(p).sep BY <1>3, <1>8 DEF Kept
<1>9. CASE Delegated(p) \/ Counted(p) \/ Atom(p, 0) BY <1>4, <1>5, <1>6, <1>9 DEF Kept
<1> QED BY <1>7, <1>8, <1>9 DEF Kept

\* A region that is done shows its lines.
LEMMA RegionKept ==
    ASSUME Shape, Homed, NEW us, RegionDone(us), NEW p \in regions[r].from .. regions[r].to
    PROVE  Kept(p)'
<1>1. /\ Steady /\ Grown(us) /\ d # 0 /\ r \in 1 .. Len(regions) /\ (\A k \in 1 .. Len(us) : Made(us[k]))
      /\ d' = d /\ docs' = docs /\ regions' = regions
  BY DEF RegionDone, Steady
<1>2. p \in 1 .. Len(lines) /\ Range(Places) = {q \in regions[r].from .. regions[r].to : F(q).chars > 0}
      /\ IsSeq(Places) /\ Range(Places) \subseteq 1 .. Len(lines) /\ IsText(lines)
  BY <1>1, PlacesFacts, ShapeFacts
<1>3. F(p).chars \in Nat
  <2>1. lines[p] \in DOMAIN Line BY <1>1, <1>2, ShapeFacts
  <2> QED BY <2>1, FrontEndAssumption DEF F
<1>4. F(p)' = F(p) BY <1>1 DEF F, lines
<1>5. F(p).chars = 0 \/ F(p).sep => Kept(p)' BY <1>4 DEF Kept
<1>6. F(p).chars # 0 => p \in Range(Places) BY <1>2, <1>3
<1>7. \A k \in 1 .. Len(us) : us[k].doc = d' BY <1>1 DEF Made
<1>8. ASSUME Holds(us, p) PROVE Kept(p)'
  <2>1. PICK k \in 1 .. Len(us) : p \in us[k].text /\ us[k].rungs = {Atoms(us[k].text)} BY <1>8 DEF Holds
  <2> QED BY <1>1, <1>7, <2>1, NewText
<1>9. CASE NoneAdd(us)
  <2>1. Delegated(p)'
    <3>1. r \in DOMAIN regions' /\ p \in regions'[r].from .. regions'[r].to
      BY <1>1, ShapeFacts
    <3>2. Pipe(regions'[r].label) \in {"code", "conversation"} BY <1>1, <1>9 DEF NoneAdd
    <3> QED BY <3>1, <3>2 DEF Delegated
  <2> QED BY <2>1 DEF Kept
<1>10. CASE TableAdd(us) BY <1>5, <1>6, <1>8, <1>10 DEF TableAdd
<1>11. CASE SqlAdd(us) BY <1>5, <1>6, <1>8, <1>11 DEF SqlAdd
<1>12. CASE JsonAdd(us)
  <2>1. ASSUME NEW q, NEW k, Shown(us, q, k) PROVE Atom(q, k)'
    <3>1. PICK j \in 1 .. Len(us) : \E shown \in us[j].rungs : <<q, k>> \in shown BY <2>1 DEF Shown
    <3>2. PICK shown \in us[j].rungs : <<q, k>> \in shown BY <3>1
    <3> QED BY <1>1, <1>7, <3>1, <3>2, NewAtom
  <2>2. CASE \A q \in Range(Places) : Shown(us, q, 0) BY <1>5, <1>6, <2>1, <2>2 DEF Kept
  <2>3. CASE PayloadAdd(us)
    <3>1. PICK at, k : at = Head(Places) /\ k = r OBVIOUS
    <3>2. PayloadRegion(k) /\ at = Head(Full(regions[k].from, regions[k].to))
      BY <1>12, <2>3, <3>1 DEF JsonAdd, PayloadAdd, PayloadRegion, Places
    <3>3. \A j \in DOMAIN Payload(k).kids : Payload(k).kids[j].size > FullLimit \/ Atom(at, j)'
      BY <2>1, <2>3, <3>1 DEF PayloadAdd
    <3>4. ByChildren(k)' BY <1>1, <3>2, <3>3, ChildrenHold
    <3>5. k \in DOMAIN regions' /\ p \in regions'[k].from .. regions'[k].to BY <1>1, <3>1, ShapeFacts
    <3> QED BY <3>4, <3>5 DEF Kept
  <2> QED BY <1>12, <2>2, <2>3 DEF JsonAdd
<1>13. CASE LogAdd(us) /\ p \in Range(Places)
  <2> DEFINE ts == Mine(lines, Places)
  <2>1. ts \in Seq(Templates(lines)) /\ Spanned(ts, p) BY <1>2, <1>13, MineFacts
  <2>2. /\ Len(us) = Len(ts)
        /\ \A k \in 1 .. Len(us) :
              /\ us[k].kind = "log" /\ us[k].template = ts[k]
              /\ Atoms({ts[k].spans[j] : j \in {i \in DOMAIN ts[k].spans : i <= MaxVerbatim}}) \in us[k].rungs
    BY <1>13 DEF LogAdd
  <2> HIDE DEF ts
  <2>3. PICK k \in 1 .. Len(ts) : p \in Range(ts[k].spans) BY <2>1 DEF Spanned
  <2>4. PICK j \in DOMAIN ts[k].spans : p = ts[k].spans[j] BY <2>3 DEF Range
  <2>5. j \in Int
    <3>1. ts[k] \in Templates(lines) BY <2>1
    <3>2. ts[k].spans \in Seq(1 .. Len(lines)) BY <3>1 DEF Templates, Records
    <3>3. DOMAIN ts[k].spans = 1 .. Len(ts[k].spans) BY <3>2
    <3> QED BY <3>3
  <2>6. CASE j <= MaxVerbatim
    <3> DEFINE shown == {ts[k].spans[i] : i \in {m \in DOMAIN ts[k].spans : m <= MaxVerbatim}}
    <3>1. p \in shown BY <2>4, <2>6
    <3> HIDE DEF shown
    <3>2. <<p, 0>> \in Atoms(shown) BY <3>1 DEF Atoms
    <3>3. Atoms(shown) \in us[k].rungs BY <2>2, <2>3 DEF shown
    <3>4. Atom(p, 0)' BY <1>1, <1>7, <2>2, <2>3, <3>2, <3>3, NewAtom
    <3> QED BY <3>4 DEF Kept
  <2>7. CASE j > MaxVerbatim
    <3>1. PICK u : u = Len(units) + k OBVIOUS
    <3>2. u \in 1 .. Len(units') /\ units'[u] = us[k]
      <4>1. Len(us) \in Nat /\ Len(units) \in Nat BY <1>1, SeqFacts, ShapeFacts DEF Grown
      <4> QED BY <1>1, <2>2, <2>3, <3>1, <4>1 DEF Grown
    <3>3. u \in DOMAIN units' BY <1>1, <3>2, SeqFacts DEF Grown
    <3>4. units'[u].doc = d' /\ units'[u].kind = "log" /\ units'[u].template = ts[k]
      BY <1>7, <2>2, <2>3, <3>2
    <3>5. Counted(p)' BY <2>4, <2>7, <3>3, <3>4 DEF Counted
    <3> QED BY <3>5 DEF Kept
  <2>8. MaxVerbatim \in Nat BY FrontEndAssumption
  <2> QED BY <2>5, <2>6, <2>7, <2>8
<1> QED BY <1>5, <1>6, <1>9, <1>10, <1>11, <1>12, <1>13 DEF RegionDone

LEMMA FrozenKeptStep ==
    ASSUME Shape, Homed, FrozenKept, Next
    PROVE  FrozenKept'
<1>1. ASSUME NEW us, FrozenOpened(us) PROVE FrozenKept'
  <2>1. Grown(us) /\ docs' = docs /\ d' = d + 1 /\ FrozenAdd(us) BY <1>1 DEF FrozenOpened, FrozenAdd
  <2>2. ASSUME NEW p \in 1 .. Len(docs[d + 1].lines) PROVE Kept(p)'
    <3>1. F(p)' = Line[docs[d + 1].lines[p]] BY <2>1 DEF F, lines
    <3>2. CASE Line[docs[d + 1].lines[p]].chars = 0 BY <3>1, <3>2 DEF Kept
    <3>3. CASE Line[docs[d + 1].lines[p]].chars # 0
      <4>1. PICK k \in 1 .. Len(us) : p \in us[k].text BY <2>1, <3>3 DEF FrozenAdd
      <4>2. us[k].doc = d' /\ us[k].rungs = {Atoms(us[k].text)} BY <2>1 DEF FrozenAdd
      <4> QED BY <2>1, <4>1, <4>2, NewText
    <3> QED BY <3>2, <3>3
  <2> QED BY <2>1, <2>2 DEF FrozenKept, lines
<1>2. CASE DocumentOpened BY <1>2 DEF DocumentOpened, FrozenKept
<1>3. ASSUME Carried PROVE FrozenKept'
  <2>1. docs' = docs /\ d' = d /\ lines' = lines BY <1>3 DEF Carried, Steady, lines
  <2>2. \A p : Kept(p) => Kept(p)' BY <1>3, KeptCarried
  <2> QED BY <2>1, <2>2 DEF FrozenKept
<1>4. ASSUME NEW us, RegionDone(us) PROVE Carried BY <1>4, CarriedFacts DEF RegionDone
<1>5. CASE ProseEntered BY <1>3, <1>5, CarriedFacts DEF ProseEntered
<1>6. ASSUME NEW us, NEW h, BlockBuilt(us, h) PROVE Carried BY <1>6, CarriedFacts DEF BlockBuilt, BlockAdd
<1>7. CASE ProseLeft BY <1>3, <1>7, CarriedFacts
<1>8. CASE RegionSkipped BY <1>3, <1>8, CarriedFacts DEF RegionSkipped
<1> QED BY <1>1, <1>2, <1>3, <1>4, <1>5, <1>6, <1>7, <1>8, Steps

LEMMA RegionsKeptStep ==
    ASSUME Shape, Homed, RegionsKept, Next
    PROVE  RegionsKept'
<1>1. r \in Nat /\ Len(regions) \in Nat BY ShapeFacts DEF Shape
<1>2. ASSUME Carried
      PROVE  /\ \A p : Kept(p) => Kept(p)'
             /\ \A k \in 1 .. Len(regions) : k < r => \A p \in regions[k].from .. regions[k].to : Kept(p)'
             /\ docs' = docs /\ d' = d /\ regions' = regions
  <2>1. \A p : Kept(p) => Kept(p)' BY <1>2, KeptCarried
  <2> QED BY <1>1, <1>2, <2>1 DEF RegionsKept, Carried, Steady
<1>3. ASSUME NEW us, FrozenOpened(us) PROVE RegionsKept'
  <2>1. Len(<<>>) = 0 OBVIOUS
  <2>2. \A k \in 1 .. Len(regions') : FALSE BY <1>3, <2>1 DEF FrozenOpened
  <2> QED BY <2>2 DEF RegionsKept
<1>4. CASE DocumentOpened
  <2>1. \A k \in 1 .. Len(regions') : ~ (k < r') BY <1>4 DEF DocumentOpened
  <2> QED BY <1>4, <2>1 DEF RegionsKept, DocumentOpened
<1>5. ASSUME NEW us, RegionDone(us) PROVE RegionsKept'
  <2>1. Carried BY <1>5, CarriedFacts DEF RegionDone
  <2>2. \A p \in regions[r].from .. regions[r].to : Kept(p)' BY <1>5, RegionKept
  <2>3. ~open' /\ r' = r + 1 /\ regions' = regions BY <1>5 DEF RegionDone, Steady
  <2>4. \A k \in 1 .. Len(regions) : k < r' => k < r \/ k = r BY <1>1, <2>3
  <2> QED BY <1>2, <2>1, <2>2, <2>3, <2>4 DEF RegionsKept
<1>6. CASE ProseEntered
  <2>1. Carried BY <1>6, CarriedFacts DEF ProseEntered
  <2>2. /\ open' /\ r' = r /\ regions' = regions /\ r \in 1 .. Len(regions) /\ d # 0 /\ docs' = docs /\ d' = d
        /\ blocks' = Blocks(regions[r].from, regions[r].to)
    BY <1>6 DEF ProseEntered, Steady
  <2>3. ASSUME NEW p \in regions[r].from .. regions[r].to PROVE Kept(p)' \/ Waiting(p)'
    <3>1. CASE F(p).chars = 0
      <4>1. F(p)' = F(p) BY <2>2 DEF F, lines
      <4> QED BY <3>1, <4>1 DEF Kept
    <3>2. CASE F(p).chars # 0
      <4>1. regions[r].from \in Int /\ regions[r].to \in Int BY <2>2, PlacesFacts
      <4> DEFINE from == regions[r].from
                 to == regions[r].to
                 bs == Blocks(from, to)
      <4>2. p \in from .. to /\ from \in Int /\ to \in Int BY <4>1
      <4> HIDE DEF from, to
      <4>3. \E k \in 1 .. Len(bs) : p \in Range(bs[k]) BY <3>2, <4>2, SplitBlocksFacts
      <4>4. blocks' = bs BY <2>2 DEF from, to
      <4> QED BY <4>3, <4>4 DEF Waiting
    <3> QED BY <3>1, <3>2
  <2> QED BY <1>2, <2>1, <2>2, <2>3 DEF RegionsKept
<1>7. ASSUME NEW us, NEW h, BlockBuilt(us, h) PROVE RegionsKept'
  <2>1. Grown(us) /\ BlockAdd(us, h) /\ Steady BY <1>7 DEF BlockBuilt, BlockAdd
  <2>2. Carried BY <2>1, CarriedFacts
  <2>3. /\ open /\ open' /\ r' = r /\ regions' = regions /\ r \in 1 .. Len(regions) /\ docs' = docs /\ d' = d
        /\ blocks # <<>> /\ blocks' = Tail(blocks)
    BY <1>7 DEF BlockBuilt, Steady
  <2>4. /\ IsSeq(blocks) /\ Len(blocks) \in Nat /\ Head(blocks) = blocks[1]
        /\ Len(blocks') = Len(blocks) - 1
        /\ \A k \in 1 .. Len(blocks) - 1 : blocks'[k] = blocks[k + 1]
    <3>1. IsSeq(blocks) BY DEF Shape
    <3> QED BY <2>3, <3>1, SeqFacts, TailFacts
  <2>5. ASSUME NEW p \in regions[r].from .. regions[r].to PROVE Kept(p)' \/ Waiting(p)'
    <3>1. CASE Kept(p) BY <1>2, <2>2, <3>1
    <3>2. CASE Waiting(p)
      <4>1. PICK b \in 1 .. Len(blocks) : p \in Range(blocks[b]) BY <3>2 DEF Waiting
      <4>2. CASE b = 1
        <5>1. p \in Range(Head(blocks)) BY <2>4, <4>1, <4>2
        <5>2. F(p)' = F(p) BY <2>3 DEF F, lines
        <5>3. CASE F(p).chars = 0 \/ F(p).sep BY <5>2, <5>3 DEF Kept
        <5>4. CASE F(p).chars # 0 /\ ~F(p).sep
          <6>1. PICK k \in 1 .. Len(us) : p \in us[k].text BY <2>1, <5>1, <5>4 DEF BlockAdd
          <6>2. Made(us[k]) /\ us[k].rungs = {Atoms(us[k].text)} BY <2>1 DEF BlockAdd
          <6>3. us[k].doc = d' BY <2>3, <6>2 DEF Made
          <6> QED BY <2>1, <6>1, <6>2, <6>3, NewText
        <5> QED BY <5>3, <5>4
      <4>3. CASE b # 1
        <5>1. b - 1 \in 1 .. Len(blocks) - 1 /\ (b - 1) + 1 = b BY <2>4, <4>3
        <5>2. blocks'[b - 1] = blocks[b] BY <2>4, <5>1
        <5> QED BY <2>4, <4>1, <5>1, <5>2 DEF Waiting
      <4> QED BY <4>2, <4>3
    <3> QED BY <2>3, <3>1, <3>2 DEF RegionsKept
  <2> QED BY <1>2, <2>2, <2>3, <2>5 DEF RegionsKept
<1>8. CASE ProseLeft
  <2>1. Carried BY <1>8, CarriedFacts
  <2>2. /\ open /\ ~open' /\ r' = r + 1 /\ regions' = regions /\ blocks = <<>> BY <1>8 DEF ProseLeft, Steady
  <2>3. Len(<<>>) = 0 OBVIOUS
  <2>4. \A p : ~Waiting(p) BY <2>2, <2>3 DEF Waiting
  <2>5. \A k \in 1 .. Len(regions) : k < r' => k < r \/ k = r BY <1>1, <2>2
  <2>6. \A k \in 1 .. Len(regions) : \A p \in regions[k].from .. regions[k].to : k < r' => Kept(p)
    BY <2>2, <2>4, <2>5 DEF RegionsKept
  <2> QED BY <1>2, <2>1, <2>2, <2>6 DEF RegionsKept
<1>9. CASE RegionSkipped
  <2>1. Carried BY <1>9, CarriedFacts DEF RegionSkipped
  <2>2. /\ ~open /\ ~open' /\ r' = r + 1 /\ regions' = regions /\ docs' = docs /\ d' = d
        /\ Empty(r) /\ d # 0 /\ r \in 1 .. Len(regions)
    BY <1>9 DEF RegionSkipped, Steady
  <2>3. ASSUME NEW p \in regions[r].from .. regions[r].to PROVE Kept(p)'
    <3>1. regions[r].from \in Int /\ regions[r].to \in Int BY <2>2, PlacesFacts
    <3>2. p = regions[r].to /\ F(regions[r].to).chars = 0 BY <2>2, <3>1 DEF Empty
    <3>3. F(p)' = F(p) BY <2>2 DEF F, lines
    <3> QED BY <3>2, <3>3 DEF Kept
  <2>4. \A k \in 1 .. Len(regions) : k < r' => k < r \/ k = r BY <1>1, <2>2
  <2> QED BY <1>2, <2>1, <2>2, <2>3, <2>4 DEF RegionsKept
<1> QED BY <1>3, <1>4, <1>5, <1>6, <1>7, <1>8, <1>9, Steps

LEMMA KeptHolds == Shape /\ FrozenKept /\ RegionsKept => NothingLost
<1> SUFFICES ASSUME Shape, FrozenKept, RegionsKept, d > 0, Free, NEW p \in DOMAIN lines
             PROVE  Kept(p)
  BY DEF NothingLost, Kept
<1>1. d # 0 OBVIOUS
<1>2. p \in 1 .. Len(lines) BY <1>1, ShapeFacts
<1>3. CASE docs[d].role \in FrozenRoles BY <1>1, <1>2, <1>3 DEF FrozenKept
<1>4. CASE docs[d].role \notin FrozenRoles
  <2>1. Split(regions, Len(lines)) BY <1>1, <1>4, ShapeFacts
  <2>2. PICK k \in 1 .. Len(regions) : p \in regions[k].from .. regions[k].to BY <1>2, <2>1 DEF Split
  <2>3. r > Len(regions) /\ r \in Nat /\ Len(regions) \in Nat BY <1>1, ShapeFacts DEF Free, Shape
  <2>4. ~open BY <2>3 DEF Shape
  <2>5. k < r BY <2>2, <2>3
  <2> QED BY <2>2, <2>4, <2>5 DEF RegionsKept
<1> QED BY <1>3, <1>4

-----------------------------------------------------------------------------
(***************************************************************************)
(* Headings.  The stack holds the headings that are still reached, no      *)
(* region of another kind than prose in between, and that no later one of  *)
(* them has closed; what is emitted stands under the last of them.         *)
(***************************************************************************)
Heading(h) == units[h].doc = d /\ units[h].kind = "heading"
Texted(u)  == units[u].doc = d /\ units[u].kind \in {"heading", "item", "sentence"}
Prose(k)   == Empty(k) \/ Pipe(regions[k].label) \in Prosaic

AboveIt(u) == {h \in 1 .. Len(units) :
                  /\ Heading(h) /\ h < u
                  /\ units[u].kind = "heading" => units[h].depth < units[u].depth
                  /\ \A k \in units[h].region .. units[u].region : Prose(k)}

\* The greatest of a set of units, if it has one.
Nearest(m, S) == m \in S \cup {0} /\ \A h \in S : h <= m

Nested == \A u \in 1 .. Len(units) : Texted(u) => Nearest(units[u].parent, AboveIt(u))

\* The headings that no region of another kind has come after.
LastRegion == IF open THEN r ELSE r - 1
Reached == {h \in 1 .. Len(units) : Heading(h) /\ \A k \in units[h].region .. LastRegion : Prose(k)}
Unclosed == {h \in Reached : \A g \in Reached : h < g => units[h].depth < units[g].depth}

Ascending(s) == IsSeq(s) /\ \A i, j \in 1 .. Len(s) : i < j => s[i] < s[j]

Stacked ==
    /\ Ascending(stack) /\ Range(stack) = Unclosed
    /\ \A h \in 1 .. Len(units) : Heading(h) => units[h].depth \in Nat

LEMMA ScopeFacts ==
    ASSUME NEW s, Ascending(s), Range(s) \subseteq Nat
    PROVE  Nearest(Scope(s), Range(s))
<1>1. IsSeq(s) /\ Len(s) \in Nat /\ DOMAIN s = 1 .. Len(s) BY SeqFacts DEF Ascending
<1>2. CASE s = <<>>
  <2>1. Len(s) = 0 BY <1>1, <1>2, SeqFacts
  <2>2. Range(s) = {} BY <1>1, <2>1 DEF Range
  <2>3. Scope(s) = 0 BY <1>2 DEF Scope
  <2> QED BY <2>2, <2>3 DEF Nearest
<1>3. CASE s # <<>>
  <2>1. Len(s) # 0 BY <1>1, <1>3, SeqFacts
  <2>2. Len(s) \in 1 .. Len(s) BY <1>1, <2>1
  <2>3. Scope(s) = s[Len(s)] BY <1>3 DEF Scope, Last
  <2>4. s[Len(s)] \in Range(s) BY <1>1, <2>2 DEF Range
  <2>5. ASSUME NEW h \in Range(s) PROVE h <= s[Len(s)]
    <3>1. PICK i \in 1 .. Len(s) : h = s[i] BY <1>1 DEF Range
    <3>2. s[i] \in Nat /\ s[Len(s)] \in Nat BY <2>4, <3>1
    <3>3. i < Len(s) => s[i] < s[Len(s)] BY <2>2 DEF Ascending
    <3>4. i = Len(s) \/ i < Len(s)
      <4>1. Len(s) \in Nat BY <1>1
      <4> QED BY ONLY <4>1, i \in 1 .. Len(s)
    <3> QED BY <3>1, <3>2, <3>3, <3>4
  <2> QED BY <2>3, <2>4, <2>5 DEF Nearest
<1> QED BY <1>2, <1>3

\* What is left out may be, when it is not the greatest.
LEMMA NearestOfMore ==
    ASSUME NEW n \in Nat, NEW S, S \subseteq 1 .. n, NEW T, T \subseteq S,
           \A h \in S : (\A g \in S : g <= h) => h \in T,
           NEW m, Nearest(m, T)
    PROVE  Nearest(m, S)
<1>1. IsFiniteSet(S) /\ S \subseteq Int BY SomePlaces
<1>2. CASE S = {} BY <1>2 DEF Nearest
<1>3. CASE S # {}
  <2>1. Max(S) \in S /\ \A x \in S : x <= Max(S) BY <1>1, <1>3, MaxFacts
  <2>2. Max(S) \in T BY <2>1
  <2>3. m \in T \cup {0} /\ \A h \in T : h <= m BY DEF Nearest
  <2>4. m \in S \cup {0} /\ m \in Int /\ Max(S) <= m /\ Max(S) \in Int
    <3>1. m \in S \cup {0} BY ONLY T \subseteq S, <2>3
    <3>2. m \in Int BY ONLY <1>1, <3>1
    <3>3. Max(S) <= m BY ONLY <2>2, <2>3
    <3> QED BY <1>1, <2>1, <3>1, <3>2, <3>3
  <2>5. ASSUME NEW h \in S PROVE h <= m
    <3>1. h <= Max(S) /\ h \in Int BY <1>1, <2>1
    <3> QED BY ONLY <3>1, <2>4
  <2> QED BY <2>4, <2>5 DEF Nearest
<1> QED BY <1>2, <1>3

LEMMA StackFacts ==
    ASSUME Shape, Stacked, NEW depth \in Nat
    PROVE  /\ Unclosed \subseteq Reached /\ Reached \subseteq 1 .. Len(units) /\ Len(units) \in Nat
           /\ \A h \in Reached : units[h].depth \in Nat
           /\ Nearest(Scope(stack), Reached)
           /\ Ascending(Close(depth)) /\ Range(Close(depth)) = {u \in Unclosed : units[u].depth < depth}
           /\ Nearest(Scope(Close(depth)), {h \in Reached : units[h].depth < depth})
<1> DEFINE S == {u \in Unclosed : units[u].depth < depth}
           R == {h \in Reached : units[h].depth < depth}
<1>1. Len(units) \in Nat BY ShapeFacts
<1>2. Unclosed \subseteq Reached /\ Reached \subseteq 1 .. Len(units) BY DEF Unclosed, Reached
<1>3. \A h \in Reached : units[h].depth \in Nat BY DEF Reached, Stacked
<1>4. 1 .. Len(units) \subseteq Nat BY <1>1
<1>5. S \subseteq R /\ S \subseteq 1 .. Len(units) /\ R \subseteq 1 .. Len(units) BY <1>2
<1>6. IsFiniteSet(S) /\ S \subseteq Int BY <1>1, <1>5, SomePlaces
<1>7. Close(depth) = InOrder(S) BY DEF Close, Stacked
<1>8. Ascending(Close(depth)) /\ Range(Close(depth)) = S
  <2> HIDE DEF S
  <2>1. /\ IsSeq(InOrder(S)) /\ Range(InOrder(S)) = S
        /\ \A j, k \in DOMAIN InOrder(S) : j < k => InOrder(S)[j] < InOrder(S)[k]
    BY <1>6, InOrderFacts
  <2>2. DOMAIN InOrder(S) = 1 .. Len(InOrder(S)) BY <2>1, SeqFacts
  <2> QED BY <1>7, <2>1, <2>2 DEF Ascending
<1>9. Nearest(Scope(stack), Reached)
  <2>1. Nearest(Scope(stack), Unclosed)
    <3>1. Ascending(stack) /\ Range(stack) = Unclosed BY DEF Stacked
    <3>2. Range(stack) \subseteq Nat BY <1>2, <1>4, <3>1
    <3> QED BY <3>1, <3>2, ScopeFacts
  <2>2. ASSUME NEW h \in Reached, \A g \in Reached : g <= h PROVE h \in Unclosed
    <3>1. \A g \in Reached : ~ (h < g) BY <1>2, <1>4, <2>2
    <3> QED BY <3>1 DEF Unclosed
  <2> QED BY <1>1, <1>2, <2>1, <2>2, NearestOfMore
<1>10. Nearest(Scope(Close(depth)), R)
  <2>1. Nearest(Scope(Close(depth)), S)
    <3>1. Range(Close(depth)) \subseteq Nat BY <1>4, <1>5, <1>8
    <3> QED BY <1>8, <3>1, ScopeFacts
  <2>2. ASSUME NEW h \in R, \A g \in R : g <= h PROVE h \in S
    <3>1. ASSUME NEW g \in Reached, h < g PROVE units[h].depth < units[g].depth
      <4>1. g \in Nat /\ h \in Nat BY <1>2, <1>4
      <4>2. g \notin R BY <2>2, <3>1, <4>1
      <4>3. units[h].depth \in Nat /\ units[g].depth \in Nat BY <1>3
      <4> QED BY <4>2, <4>3
    <3> QED BY <3>1 DEF Unclosed
  <2> HIDE DEF S, R
  <2> QED BY <1>1, <1>5, <2>1, <2>2, NearestOfMore
<1> QED BY <1>1, <1>2, <1>3, <1>8, <1>9, <1>10

LEMMA HeadingsCarried ==
    ASSUME Shape, Carried
    PROVE  /\ \A u \in 1 .. Len(units) :
                 /\ Heading(u)' <=> Heading(u)
                 /\ Texted(u)' <=> Texted(u)
                 /\ units'[u].region = units[u].region /\ units'[u].depth = units[u].depth
                 /\ units'[u].parent = units[u].parent /\ units'[u].kind = units[u].kind
                 /\ AboveIt(u)' = AboveIt(u)
           /\ \A k : Prose(k)' <=> Prose(k)
           /\ 1 .. Len(units) \subseteq 1 .. Len(units')
<1>1. Len(units) \in Nat /\ Len(units') \in Nat /\ Len(units) <= Len(units') BY ShapeFacts DEF Carried
<1>2. d' = d /\ regions' = regions BY DEF Carried, Steady
<1>3. \A u \in 1 .. Len(units) :
         /\ units'[u].doc = units[u].doc /\ units'[u].kind = units[u].kind
         /\ units'[u].region = units[u].region /\ units'[u].depth = units[u].depth
         /\ units'[u].parent = units[u].parent
  BY DEF Carried, Alike
<1>4. \A u \in 1 .. Len(units) : (Heading(u)' <=> Heading(u)) /\ (Texted(u)' <=> Texted(u))
  BY <1>2, <1>3 DEF Heading, Texted
<1>5. \A k : Prose(k)' <=> Prose(k)
  <2>1. docs' = docs BY DEF Carried, Steady
  <2>2. \A k : Empty(k)' <=> Empty(k) BY <1>2, <2>1, SameRegions
  <2> QED BY <1>2, <2>2 DEF Prose
<1>6. ASSUME NEW u \in 1 .. Len(units) PROVE AboveIt(u)' = AboveIt(u)
  <2>1. \A h \in 1 .. Len(units') : h < u => h \in 1 .. Len(units) BY <1>1
  <2>2. \A h \in 1 .. Len(units) : h \in 1 .. Len(units') BY <1>1
  <2>3. ASSUME NEW h \in 1 .. Len(units)
        PROVE  (\A k \in units'[h].region .. units'[u].region : Prose(k)')
                  <=> \A k \in units[h].region .. units[u].region : Prose(k)
    BY <1>3, <1>5
  <2> QED BY <1>3, <1>4, <2>1, <2>2, <2>3 DEF AboveIt
<1>7. 1 .. Len(units) \subseteq 1 .. Len(units') BY <1>1
<1> QED BY <1>3, <1>4, <1>5, <1>6, <1>7

\* What stands stays where it stands.
LEMMA NestedCarried ==
    ASSUME Shape, Nested, Carried,
           \A u \in 1 .. Len(units') : u \in 1 .. Len(units) \/ (Texted(u)' => Nearest(units[u].parent, AboveIt(u))')
    PROVE  Nested'
<1>1. ASSUME NEW u \in 1 .. Len(units), Texted(u)' PROVE Nearest(units[u].parent, AboveIt(u))'
  <2>1. Texted(u) /\ units'[u].parent = units[u].parent /\ AboveIt(u)' = AboveIt(u)
    BY <1>1, HeadingsCarried
  <2>2. Nearest(units[u].parent, AboveIt(u)) BY <2>1 DEF Nested
  <2> QED BY <2>1, <2>2 DEF Nearest
<1> QED BY <1>1 DEF Nested

\* With no heading reached, the stack is empty.
LEMMA NothingStacked ==
    ASSUME stack' = <<>>, Reached' = {},
           \A h \in 1 .. Len(units') : Heading(h)' => units'[h].depth \in Nat
    PROVE  Stacked'
<1>1. <<>> \in Seq({}) /\ Len(<<>>) = 0 OBVIOUS
<1>2. IsSeq(<<>>) BY <1>1, SeqIntro
<1>3. Ascending(<<>>) BY <1>1, <1>2 DEF Ascending
<1>4. DOMAIN <<>> = 1 .. 0 BY <1>1, <1>2, SeqFacts
<1>5. Range(<<>>) = {} BY <1>4 DEF Range
<1>6. Unclosed' = {} BY DEF Unclosed
<1> QED BY <1>3, <1>5, <1>6 DEF Stacked

\* The stack stays as it is, and what is reached too.
LEMMA StackedStays ==
    ASSUME Shape, Stacked, Carried, stack' = stack, Reached' = Reached, Len(units') = Len(units)
    PROVE  Stacked'
<1>1. \A h \in 1 .. Len(units) : (Heading(h)' <=> Heading(h)) /\ units'[h].depth = units[h].depth
  BY HeadingsCarried
<1>2. \A h \in Reached : units'[h].depth = units[h].depth BY <1>1 DEF Reached
<1>3. Unclosed' = Unclosed BY <1>2 DEF Unclosed
<1>4. Ascending(stack') BY DEF Stacked
<1> QED BY <1>1, <1>3, <1>4 DEF Stacked, Ascending



LEMMA BlockStacked ==
    ASSUME Shape, Homed, Stacked, Nested, NEW us, NEW h, BlockBuilt(us, h)
    PROVE  Stacked' /\ Nested'
<1> DEFINE n == Len(units)
           depth == F(Head(blocks)[1]).heading
<1>1. /\ Steady /\ open /\ open' /\ r' = r /\ r \in 1 .. Len(regions) /\ Prose(r)
      /\ Grown(us) /\ BlockAdd(us, h) /\ h \in {0, 1} /\ h <= Len(us)
  BY DEF BlockBuilt, BlockAdd, Prose
<1>2. Carried BY <1>1, CarriedFacts
<1>3. n \in Nat /\ Len(us) \in Nat /\ Len(units') = n + Len(us) /\ \A k \in 1 .. Len(us) : units'[n + k] = us[k]
  BY <1>1, ShapeFacts, SeqFacts DEF Grown
<1>4. ASSUME NEW k \in 1 .. Len(us)
      PROVE  /\ us[k].doc = d /\ us[k].region = r /\ us[k].kind \in TextKinds \cup {"heading"}
             /\ us[k].kind = "heading" <=> k <= h
  <2>1. Made(us[k]) BY <1>1 DEF BlockAdd
  <2> QED BY <1>1, <2>1, BlockKinds DEF Made
<1>5. LastRegion = r /\ LastRegion' = r /\ d' = d /\ regions' = regions
  BY <1>1 DEF LastRegion, Steady
<1>6. \A g \in 1 .. n : /\ Heading(g)' <=> Heading(g)
                        /\ units'[g].region = units[g].region /\ units'[g].depth = units[g].depth
  BY <1>2, HeadingsCarried
<1>7. \A k : Prose(k)' <=> Prose(k) BY <1>2, HeadingsCarried
<1>8. ASSUME NEW k \in 1 .. Len(us), NEW u, u = n + k
      PROVE  /\ u \in 1 .. Len(units') /\ units'[u] = us[k] /\ u \notin 1 .. n
             /\ units'[u].region = r /\ (Heading(u)' <=> k <= h)
  <2>1. u \in 1 .. Len(units') /\ units'[u] = us[k] /\ u \notin 1 .. n BY <1>3, <1>8
  <2>2. Heading(u)' <=> units'[u].doc = d /\ units'[u].kind = "heading" BY <1>5 DEF Heading
  <2> QED BY <1>4, <2>1, <2>2
<1>9. ASSUME NEW u \in 1 .. Len(units'), u \notin 1 .. n PROVE \E k \in 1 .. Len(us) : u = n + k
  <2>1. u - n \in 1 .. Len(us) /\ u = n + (u - n) BY <1>3, <1>9
  <2> QED BY <2>1
\* The headings above a new unit.
<1>10. ASSUME NEW g \in 1 .. n
       PROVE  (\A k \in units'[g].region .. r : Prose(k)') /\ Heading(g)' <=> g \in Reached
  BY <1>5, <1>6, <1>7 DEF Reached
<1>11. r \in Int BY DEF Shape
<1>12. \A k \in r .. r : Prose(k) BY <1>1, <1>11
<1>13. Reached' = Reached \cup {n + k : k \in 1 .. h}
  <2>1. ASSUME NEW g \in 1 .. n PROVE g \in Reached' <=> g \in Reached
    BY <1>2, <1>5, <1>10, HeadingsCarried DEF Reached
  <2>2. ASSUME NEW k \in 1 .. Len(us), NEW u, u = n + k PROVE u \in Reached' <=> k <= h
    <3>1. u \in 1 .. Len(units') /\ units'[u].region = r /\ (Heading(u)' <=> k <= h) BY <1>8, <2>2
    <3>2. \A j \in units'[u].region .. LastRegion' : Prose(j)' BY <1>5, <1>7, <1>12, <3>1
    <3> QED BY <3>1, <3>2 DEF Reached
  <2>3. Reached' \subseteq 1 .. Len(units') /\ Reached \subseteq 1 .. n BY DEF Reached
  <2>4. \A k \in 1 .. h : k \in 1 .. Len(us) /\ k <= h BY <1>1, <1>3
  <2>5. ASSUME NEW u \in Reached' PROVE u \in Reached \cup {n + k : k \in 1 .. h}
    <3>1. u \in 1 .. Len(units') BY <2>3
    <3>2. CASE u \in 1 .. n BY <2>1, <3>2
    <3>3. CASE u \notin 1 .. n
      <4>1. PICK k \in 1 .. Len(us) : u = n + k BY <1>9, <3>1, <3>3
      <4>2. k <= h BY <2>2, <4>1
      <4>3. k \in 1 .. h BY <1>1, <4>2
      <4> QED BY <4>1, <4>3
    <3> QED BY <3>2, <3>3
  <2>6. ASSUME NEW u \in {n + k : k \in 1 .. h} PROVE u \in Reached'
    <3>1. PICK k \in 1 .. h : u = n + k OBVIOUS
    <3> QED BY <2>2, <2>4, <3>1
  <2> QED BY <2>1, <2>3, <2>5, <2>6
<1>14. CASE h = 0
  <2>1. stack' = stack /\ \A k \in 1 .. Len(us) : us[k].parent = Scope(stack) BY <1>1, <1>14 DEF BlockAdd
  <2>2. 1 .. h = {} BY <1>14
  <2>3. Reached' = Reached BY <1>13, <2>2
  <2>4. ASSUME NEW u \in 1 .. Len(units'), Heading(u)' PROVE u \in 1 .. n
    <3> SUFFICES ASSUME u \notin 1 .. n PROVE FALSE OBVIOUS
    <3>1. PICK k \in 1 .. Len(us) : u = n + k BY <1>9
    <3>2. k <= 0 BY <1>8, <1>14, <2>4, <3>1
    <3> QED BY <3>2
  <2>5. Stacked'
    <3>1. \A g \in Reached : units'[g].depth = units[g].depth BY <1>6 DEF Reached
    <3>2. Unclosed' = Unclosed BY <2>3, <3>1 DEF Unclosed
    <3>3. \A g \in 1 .. Len(units') : Heading(g)' => units'[g].depth \in Nat
      BY <1>6, <2>4 DEF Stacked
    <3>4. Ascending(stack) /\ Range(stack) = Unclosed BY DEF Stacked
    <3> QED BY <2>1, <3>2, <3>3, <3>4 DEF Stacked
  <2>6. Nearest(Scope(stack), Reached)
    <3>1. 0 \in Nat OBVIOUS
    <3> QED BY <3>1, StackFacts
  <2>7. ASSUME NEW u \in 1 .. Len(units'), u \notin 1 .. n PROVE Nearest(units[u].parent, AboveIt(u))'
    <3>1. PICK k \in 1 .. Len(us) : u = n + k BY <1>9, <2>7
    <3>2. units'[u].region = r /\ units'[u].parent = Scope(stack) /\ units'[u].kind # "heading"
      <4>1. units'[u] = us[k] /\ units'[u].region = r BY <1>8, <3>1
      <4>2. ~ (k <= h) BY <1>14
      <4> QED BY <1>4, <2>1, <4>1, <4>2
    <3>3. \A g \in 1 .. n : g \in 1 .. Len(units') /\ g < u BY <1>3, <3>1
    <3>4. \A g \in 1 .. Len(units') : Heading(g)' => g \in 1 .. n BY <2>4
    <3>5. AboveIt(u)' = Reached
      <4>1. Reached \subseteq 1 .. n BY DEF Reached
      <4> QED BY <1>10, <3>2, <3>3, <3>4, <4>1 DEF AboveIt
    <3> QED BY <2>6, <3>2, <3>5 DEF Nearest
  <2>8. Nested' BY <1>2, <2>7, NestedCarried
  <2> QED BY <2>5, <2>8
<1>15. CASE h = 1
  <2>1. /\ us[1].depth = depth /\ depth \in Nat /\ us[1].parent = Scope(Close(depth))
        /\ stack' = Append(Close(depth), n + 1) /\ \A k \in 2 .. Len(us) : us[k].parent = n + 1
    BY <1>1, <1>15 DEF BlockAdd
  <2> HIDE DEF depth
  <2>2. /\ Unclosed \subseteq Reached /\ Reached \subseteq 1 .. n
        /\ \A g \in Reached : units[g].depth \in Nat
        /\ Ascending(Close(depth)) /\ Range(Close(depth)) = {u \in Unclosed : units[u].depth < depth}
        /\ Nearest(Scope(Close(depth)), {g \in Reached : units[g].depth < depth})
    BY <2>1, StackFacts
  <2>3. 1 \in 1 .. Len(us) /\ 1 .. h = {1} BY <1>1, <1>3, <1>15
  <2>4. Reached' = Reached \cup {n + 1} BY <1>13, <2>3
  <2>5. units'[n + 1].depth = depth /\ \A g \in Reached : units'[g].depth = units[g].depth
    BY <1>3, <1>6, <2>1, <2>2, <2>3
  <2>6. Unclosed' = {u \in Unclosed : units[u].depth < depth} \cup {n + 1}
    <3>1. \A g \in Reached : g < n + 1 /\ g \in Nat BY <1>3, <2>2
    <3>2. ~ (n + 1 < n + 1) BY <1>3
    <3>3. \A g \in Reached : ~ (n + 1 < g) BY <1>3, <3>1
    <3>4. n + 1 \in Unclosed' BY <2>4, <3>2, <3>3 DEF Unclosed
    <3>5. ASSUME NEW g \in Reached PROVE g \in Unclosed' <=> g \in Unclosed /\ units[g].depth < depth
      <4>1. g \in Unclosed' <=> \A e \in Reached \cup {n + 1} : g < e => units'[g].depth < units'[e].depth
        BY <2>4 DEF Unclosed
      <4>2. g \in Unclosed <=> \A e \in Reached : g < e => units[g].depth < units[e].depth BY DEF Unclosed
      <4> QED BY <2>5, <3>1, <4>1, <4>2
    <3>6. Unclosed' \subseteq Reached \cup {n + 1} BY <2>4 DEF Unclosed
    <3>7. n + 1 \notin Reached BY <3>1, <3>2
    <3> QED BY <2>2, <3>4, <3>5, <3>6, <3>7
  <2>7. Stacked'
    <3> DEFINE s == Close(depth)
    <3>1. /\ IsSeq(s) /\ Len(s) \in Nat /\ DOMAIN s = 1 .. Len(s)
          /\ \A i, j \in 1 .. Len(s) : i < j => s[i] < s[j]
      BY <2>2, SeqFacts DEF Ascending
    <3>2. Range(s) \subseteq 1 .. n /\ Range(s) = {u \in Unclosed : units[u].depth < depth} BY <2>2
    <3> HIDE DEF s
    <3>3. /\ IsSeq(Append(s, n + 1)) /\ Len(Append(s, n + 1)) = Len(s) + 1
          /\ DOMAIN Append(s, n + 1) = 1 .. Len(s) + 1
          /\ \A k \in 1 .. Len(s) : Append(s, n + 1)[k] = s[k]
          /\ Append(s, n + 1)[Len(s) + 1] = n + 1
      BY <3>1, AppendFacts
    <3> DEFINE t == Append(s, n + 1)
    <3> HIDE DEF t
    <3>4. ASSUME NEW i \in 1 .. Len(t), NEW j \in 1 .. Len(t), i < j PROVE t[i] < t[j]
      <4>1. i \in 1 .. Len(s) /\ t[i] = s[i] BY <3>1, <3>3, <3>4 DEF t
      <4>2. s[i] \in 1 .. n BY <3>1, <3>2, <4>1 DEF Range
      <4>3. CASE j = Len(s) + 1
        <5>1. t[j] = n + 1 BY <3>3, <4>3 DEF t
        <5> QED BY <1>3, <4>1, <4>2, <5>1
      <4>4. CASE j # Len(s) + 1
        <5>1. j \in 1 .. Len(s) BY <3>1, <3>3, <4>4 DEF t
        <5>2. t[j] = s[j] BY <3>3, <5>1 DEF t
        <5> QED BY <3>1, <3>4, <4>1, <5>1, <5>2
      <4> QED BY <4>3, <4>4
    <3>5. Ascending(t) BY <3>3, <3>4 DEF Ascending, t
    <3>6. Range(t) = Range(s) \cup {n + 1}
      <4>1. \A k \in 1 .. Len(s) + 1 : k \in 1 .. Len(s) \/ k = Len(s) + 1 BY <3>1
      <4>2. \A k \in 1 .. Len(s) : k \in 1 .. Len(s) + 1 BY <3>1
      <4>3. Len(s) + 1 \in 1 .. Len(s) + 1 BY <3>1
      <4>4. DOMAIN t = 1 .. Len(s) + 1 /\ (\A k \in 1 .. Len(s) : t[k] = s[k]) /\ t[Len(s) + 1] = n + 1
        BY <3>3 DEF t
      <4>5. Range(s) \subseteq Range(t)
        <5> SUFFICES ASSUME NEW x \in Range(s) PROVE x \in Range(t) OBVIOUS
        <5>1. PICK k \in 1 .. Len(s) : x = s[k] BY <3>1 DEF Range
        <5> QED BY <4>2, <4>4, <5>1 DEF Range
      <4>6. n + 1 \in Range(t) BY <4>3, <4>4 DEF Range
      <4>7. ASSUME NEW x \in Range(t) PROVE x \in Range(s) \cup {n + 1}
        <5>1. PICK k \in 1 .. Len(s) + 1 : x = t[k] BY <4>4 DEF Range
        <5>2. k \in 1 .. Len(s) => x \in Range(s) BY <3>1, <4>4, <5>1 DEF Range
        <5> QED BY <4>1, <4>4, <5>1, <5>2
      <4> QED BY <4>5, <4>6, <4>7
    <3>7. Range(t) = Unclosed' BY <2>6, <3>2, <3>6
    <3>8. stack' = t BY <2>1 DEF s, t
    <3>9. \A g \in 1 .. Len(units') : Heading(g)' => units'[g].depth \in Nat
      <4> SUFFICES ASSUME NEW g \in 1 .. Len(units'), Heading(g)' PROVE units'[g].depth \in Nat OBVIOUS
      <4>1. CASE g \in 1 .. n BY <1>6, <4>1 DEF Stacked
      <4>2. CASE g \notin 1 .. n
        <5>1. PICK k \in 1 .. Len(us) : g = n + k BY <1>9, <4>2
        <5>2. k <= h BY <1>8, <5>1
        <5>3. k = 1 BY <1>15, <5>2
        <5> QED BY <2>1, <2>5, <5>1, <5>3
      <4> QED BY <4>1, <4>2
    <3> QED BY <3>5, <3>7, <3>8, <3>9 DEF Stacked
  <2>8. ASSUME NEW u \in 1 .. Len(units'), u \notin 1 .. n PROVE Nearest(units[u].parent, AboveIt(u))'
    <3>1. PICK k \in 1 .. Len(us) : u = n + k BY <1>9, <2>8
    <3>2. u \in 1 .. Len(units') /\ units'[u] = us[k] /\ units'[u].region = r BY <1>8, <3>1
    <3>3. \A g \in 1 .. n : g \in 1 .. Len(units') /\ g < u BY <1>3, <3>1
    <3>4. \A g \in 1 .. Len(units') : Heading(g)' => g \in 1 .. n \/ g = n + 1
      <4> SUFFICES ASSUME NEW g \in 1 .. Len(units'), Heading(g)', g \notin 1 .. n PROVE g = n + 1 OBVIOUS
      <4>1. PICK j \in 1 .. Len(us) : g = n + j BY <1>9
      <4>2. j <= h BY <1>8, <4>1
      <4>3. j = 1 BY <1>15, <4>2
      <4> QED BY <4>1, <4>3
    <3>5. CASE k = 1
      <4>1. u = n + 1 /\ units'[u].kind = "heading" /\ units'[u].depth = depth
            /\ units'[u].parent = Scope(Close(depth))
        BY <1>4, <1>15, <2>1, <3>1, <3>2, <3>5
      <4>2. \A g \in 1 .. Len(units') : Heading(g)' /\ g < u => g \in 1 .. n BY <1>3, <3>4, <4>1
      <4>3. AboveIt(u)' = {g \in Reached : units[g].depth < depth}
        BY <1>6, <1>10, <2>2, <3>2, <3>3, <4>1, <4>2 DEF AboveIt
      <4> QED BY <2>2, <4>1, <4>3 DEF Nearest
    <3>6. CASE k # 1
      <4>1. units'[u].parent = n + 1 /\ units'[u].kind # "heading" /\ n + 1 < u
        BY <1>3, <1>4, <1>15, <2>1, <3>1, <3>2, <3>6
      <4>2. PICK hd : hd = n + 1 OBVIOUS
      <4>3. hd \in 1 .. Len(units') /\ Heading(hd)' /\ units'[hd].region = r BY <1>8, <1>15, <2>3, <4>2
      <4>5. \A j \in units'[hd].region .. units'[u].region : Prose(j)' BY <1>7, <1>12, <3>2, <4>3
      <4>6. hd \in AboveIt(u)' BY <4>1, <4>2, <4>3, <4>5 DEF AboveIt
      <4>4. \A e \in AboveIt(u)' : e <= n + 1
        <5>1. \A e \in 1 .. n : e <= n + 1 BY <1>3
        <5>2. n + 1 <= n + 1 BY <1>3
        <5> QED BY <3>4, <5>1, <5>2 DEF AboveIt
      <4> QED BY <4>1, <4>2, <4>4, <4>6 DEF Nearest
    <3> QED BY <3>5, <3>6
  <2>9. Nested' BY <1>2, <2>8, NestedCarried
  <2> QED BY <2>7, <2>9
<1> QED BY <1>1, <1>14, <1>15

\* What other regions hold is no text.
LEMMA DoneUntexted ==
    ASSUME NEW us, RegionDone(us), NEW k \in 1 .. Len(us)
    PROVE  us[k].kind \notin {"heading", "item", "sentence"}
<1>1. CASE NoneAdd(us)
  <2>1. Len(<<>>) = 0 OBVIOUS
  <2> QED BY <1>1, <2>1 DEF NoneAdd
<1>2. CASE TableAdd(us)
  <2>1. us[k].kind \in {"row", "profile"} BY <1>2 DEF TableAdd
  <2> QED BY <2>1
<1>3. CASE SqlAdd(us)
  <2>1. us[k].kind = "stmt" BY <1>3 DEF SqlAdd
  <2> QED BY <2>1
<1>4. CASE JsonAdd(us)
  <2>1. us[k].kind = "json" BY <1>4 DEF JsonAdd
  <2> QED BY <2>1
<1>5. CASE LogAdd(us)
  <2>1. us[k].kind = "log" BY <1>5 DEF LogAdd
  <2> QED BY <2>1
<1> QED BY <1>1, <1>2, <1>3, <1>4, <1>5 DEF RegionDone

\* Another document: no text of it is there yet.
LEMMA NothingTexted ==
    ASSUME Homed, Shape, d' = d + 1, stack' = <<>>,
           \A u \in 1 .. Len(units') : \/ u \in 1 .. Len(units) /\ units'[u] = units[u]
                                       \/ units'[u].kind = "instruction"
    PROVE  Stacked' /\ Nested'
<1>1. \A u \in 1 .. Len(units) : units[u].doc # d + 1
  <2>1. d \in Int BY ShapeFacts DEF Shape
  <2>2. \A u \in 1 .. Len(units) : units[u].doc \in 1 .. d BY DEF Homed, Belongs
  <2> QED BY <2>1, <2>2
<1>2. ASSUME NEW u \in 1 .. Len(units') PROVE ~ Texted(u)' /\ ~ Heading(u)'
  <2>1. CASE units'[u] = units[u] /\ u \in 1 .. Len(units)
    <3>1. units'[u].doc # d' BY <1>1, <2>1
    <3> QED BY <3>1 DEF Texted, Heading
  <2>2. CASE units'[u].kind = "instruction" BY <2>2 DEF Texted, Heading
  <2> QED BY <2>1, <2>2
<1>3. Reached' = {} BY <1>2 DEF Reached
<1> QED BY <1>2, <1>3, NothingStacked DEF Nested

LEMMA NestedStep ==
    ASSUME Shape, Homed, Stacked, Nested, Next
    PROVE  Stacked' /\ Nested'
<1>1. Len(units) \in Nat /\ r \in Nat \ {0} BY ShapeFacts DEF Shape
<1>2. ASSUME NEW us, FrozenOpened(us) PROVE Stacked' /\ Nested'
  <2>1. Grown(us) /\ FrozenAdd(us) /\ d' = d + 1 /\ stack' = <<>> BY <1>2 DEF FrozenOpened, FrozenAdd
  <2>2. \A k \in 1 .. Len(us) : us[k].kind = "instruction" BY <2>1 DEF FrozenAdd
  <2>3. \A u \in 1 .. Len(units') : \/ u \in 1 .. Len(units) /\ units'[u] = units[u]
                                    \/ units'[u].kind = "instruction"
    BY <2>1, <2>2, GrownFacts
  <2> QED BY <2>1, <2>3, NothingTexted
<1>3. CASE DocumentOpened BY <1>3, NothingTexted DEF DocumentOpened
<1>4. ASSUME NEW us, RegionDone(us) PROVE Stacked' /\ Nested'
  <2>1. Carried BY <1>4, CarriedFacts DEF RegionDone
  <2>2. /\ Grown(us) /\ stack' = <<>> /\ ~open /\ ~open' /\ r' = r + 1 /\ d' = d /\ regions' = regions
        /\ ~ Prose(r)
    BY <1>4 DEF RegionDone, Steady, Prose
  <2>3. ASSUME NEW u \in 1 .. Len(units') PROVE u \in 1 .. Len(units) \/ (~ Texted(u)' /\ ~ Heading(u)')
    <3>1. CASE u - Len(units) \in 1 .. Len(us) /\ units'[u] = us[u - Len(units)]
      <4>1. units'[u].kind \notin {"heading", "item", "sentence"} BY <1>4, <3>1, DoneUntexted
      <4> QED BY <4>1 DEF Texted, Heading
    <3> QED BY <2>2, <3>1, GrownFacts
  <2>4. Nested' BY <2>1, <2>3, NestedCarried
  <2>5. \A u \in 1 .. Len(units) : /\ Heading(u)' <=> Heading(u)
                                   /\ units'[u].region = units[u].region /\ units'[u].depth = units[u].depth
    BY <2>1, HeadingsCarried
  <2>6. Reached' = {}
    <3> SUFFICES ASSUME NEW u \in Reached' PROVE FALSE OBVIOUS
    <3>1. u \in 1 .. Len(units) /\ Heading(u) BY <2>3, <2>5 DEF Reached
    <3>2. units[u].region \in 1 .. Len(regions) /\ units[u].region < r
      BY <2>2, <3>1 DEF Homed, Belongs, Heading
    <3>3. LastRegion' = r BY <1>1, <2>2 DEF LastRegion
    <3>4. PICK k : k = r OBVIOUS
    <3>5. k \in units'[u].region .. LastRegion' BY <1>1, <2>5, <3>1, <3>2, <3>3, <3>4
    <3>6. Prose(k)' BY <3>5 DEF Reached
    <3> QED BY <2>1, <2>2, <3>4, <3>6, HeadingsCarried
  <2>7. \A h \in 1 .. Len(units') : Heading(h)' => units'[h].depth \in Nat
    BY <2>3, <2>5 DEF Stacked
  <2> QED BY <2>2, <2>4, <2>6, <2>7, NothingStacked
\* What is reached is reached when the next region is prose too.
<1>5. ASSUME Carried, Prose(r), stack' = stack, Len(units') = Len(units),
             LastRegion' = r, LastRegion = r \/ (LastRegion = r - 1 /\ ~open)
      PROVE  Stacked' /\ Nested'
  <2>1. Nested' BY <1>5, NestedCarried
  <2>2. \A u \in 1 .. Len(units) : (Heading(u)' <=> Heading(u)) /\ units'[u].region = units[u].region
    BY <1>5, HeadingsCarried
  <2>3. \A k : Prose(k)' <=> Prose(k) BY <1>5, HeadingsCarried
  <2>4. ASSUME NEW u \in 1 .. Len(units), Heading(u)
        PROVE  (\A k \in units[u].region .. LastRegion : Prose(k))
                   <=> \A k \in units[u].region .. r : Prose(k)
    <3>1. units[u].region \in Int BY <2>4 DEF Homed, Belongs, Heading
    <3>2. CASE LastRegion = r BY <3>2
    <3>3. CASE LastRegion = r - 1
      <4>1. \A k \in units[u].region .. r : k \in units[u].region .. r - 1 \/ k = r BY <1>1, <3>1
      <4>2. \A k \in units[u].region .. r - 1 : k \in units[u].region .. r BY <1>1, <3>1
      <4> QED BY <1>5, <3>3, <4>1, <4>2
    <3> QED BY <1>5, <3>2, <3>3
  <2>5. Reached' = Reached BY <1>5, <2>2, <2>3, <2>4 DEF Reached
  <2>6. Stacked' BY <1>5, <2>5, StackedStays
  <2> QED BY <2>1, <2>6
<1>6. CASE ProseEntered
  <2>1. Carried BY <1>6, CarriedFacts DEF ProseEntered
  <2>2. /\ Prose(r) /\ stack' = stack /\ Len(units') = Len(units) /\ ~open /\ open' /\ r' = r
    BY <1>6 DEF ProseEntered, Prose
  <2>3. LastRegion' = r /\ LastRegion = r - 1 BY <2>2 DEF LastRegion
  <2> QED BY <1>5, <2>1, <2>2, <2>3
<1>7. ASSUME NEW us, NEW h, BlockBuilt(us, h) PROVE Stacked' /\ Nested' BY <1>7, BlockStacked
<1>8. CASE ProseLeft
  <2>1. Carried BY <1>8, CarriedFacts
  <2>2. /\ Prose(r) /\ stack' = stack /\ Len(units') = Len(units) /\ open /\ ~open' /\ r' = r + 1
    BY <1>8 DEF ProseLeft, Prose
  <2>3. LastRegion' = r /\ LastRegion = r BY <1>1, <2>2 DEF LastRegion
  <2> QED BY <1>5, <2>1, <2>2, <2>3
<1>9. CASE RegionSkipped
  <2>1. Carried BY <1>9, CarriedFacts DEF RegionSkipped
  <2>2. /\ Prose(r) /\ stack' = stack /\ Len(units') = Len(units) /\ ~open /\ ~open' /\ r' = r + 1
    BY <1>9 DEF RegionSkipped, Prose
  <2>3. LastRegion' = r /\ LastRegion = r - 1 BY <1>1, <2>2 DEF LastRegion
  <2> QED BY <1>5, <2>1, <2>2, <2>3
<1> QED BY <1>2, <1>3, <1>4, <1>6, <1>7, <1>8, <1>9, Steps

LEMMA NestedHolds == Shape /\ Nested => HeadingScope
<1> SUFFICES ASSUME Shape, Nested PROVE HeadingScope OBVIOUS
<1> DEFINE own == {u \in DOMAIN units :
                      units[u].doc = d /\ units[u].kind \in {"heading", "item", "sentence"}}
           Above(u) == {h \in own : /\ h < u /\ units[h].kind = "heading"
                                    /\ units[u].kind = "heading" => units[h].depth < units[u].depth
                                    /\ \A k \in units[h].region .. units[u].region :
                                          Empty(k) \/ Pipe(regions[k].label) \in Prosaic}
<1>1. DOMAIN units = 1 .. Len(units) /\ Len(units) \in Nat BY ShapeFacts
<1>2. own = {u \in 1 .. Len(units) : Texted(u)} BY <1>1 DEF Texted
<1>3. \A u : Above(u) = AboveIt(u) BY <1>1 DEF AboveIt, Heading, Prose
<1> HIDE DEF own, Above
<1>4. ASSUME NEW u \in own PROVE units[u].parent = Max(Above(u) \cup {0})
  <2> DEFINE m == units[u].parent
             S == AboveIt(u) \cup {0}
  <2>1. Nearest(m, AboveIt(u)) BY <1>2, <1>4 DEF Nested
  <2>2. AboveIt(u) \subseteq 1 .. Len(units) BY DEF AboveIt
  <2>3. S \subseteq 0 .. Len(units) /\ S # {} BY <1>1, <2>2
  <2>4. m \in S /\ \A h \in S : h <= m
    <3>1. m \in S BY <2>1 DEF Nearest
    <3>2. m \in Nat BY <1>1, <2>3, <3>1
    <3>3. 0 <= m BY <3>2
    <3> HIDE DEF m
    <3> QED BY <2>1, <3>1, <3>3 DEF Nearest
  <2> HIDE DEF m, S
  <2>5. 0 \in Int /\ Len(units) \in Int BY <1>1
  <2>6. IsFiniteSet(S) /\ S \subseteq Int BY <2>3, <2>5, SomeInterval
  <2>7. Max(S) \in S /\ \A x \in S : x <= Max(S) BY <2>3, <2>6, MaxFacts
  <2>8. m <= Max(S) /\ Max(S) <= m /\ m \in Int /\ Max(S) \in Int BY <2>4, <2>6, <2>7
  <2>9. m = Max(S) BY ONLY <2>8
  <2> QED BY <1>3, <2>9 DEF m, S
<1> QED BY <1>4 DEF HeadingScope, own, Above

-----------------------------------------------------------------------------
(***************************************************************************)
(* Fences.  A fence is open after a line when the number of delimiters up  *)
(* to it is odd, so that a delimiter is a block, and so is what stands     *)
(* between two of them.                                                    *)
(***************************************************************************)
Delims(text) == {p \in 1 .. Len(text) : Line[text[p]].fence}
UpTo(S, p)   == {q \in S : q <= p}

LEMMA FenceSteps ==
    ASSUME NEW text, IsText(text)
    PROVE  /\ Fences(text)[0] = NoFence
           /\ \A p \in 1 .. Len(text) : Fences(text)[p] = FenceAfter(Fences(text)[p - 1], Line[text[p]])
<1> DEFINE st == Fences(text)
<1>1. IsSeq(text) /\ Len(text) \in Nat BY TextFacts
<1>2. FencesIs(st, text) BY <1>1, FencesExist
<1> HIDE DEF st
<1>3. \A k \in 0 .. Len(text) : st[k] = IF k = 0 THEN NoFence ELSE FenceAfter(st[k - 1], Line[text[k]])
  BY <1>2, Zenon DEF FencesIs
<1>4. 0 \in 0 .. Len(text) /\ \A p \in 1 .. Len(text) : p \in 0 .. Len(text) /\ p # 0 BY <1>1
<1> QED BY <1>3, <1>4 DEF st

LEMMA FenceParity ==
    ASSUME NEW text, IsText(text), NEW p \in 0 .. Len(text)
    PROVE  Fences(text)[p].open <=> Cardinality(UpTo(Delims(text), p)) % 2 = 1
<1> DEFINE n == Len(text)
           S == Delims(text)
           c(q) == Cardinality(UpTo(S, q))
           A == {q \in Nat : q <= n => (Fences(text)[q].open <=> c(q) % 2 = 1)}
<1>1. n \in Nat /\ \A q \in S : q \in 1 .. n BY TextFacts DEF Delims
<1>2. \A q : UpTo(S, q) \subseteq 1 .. n BY <1>1 DEF UpTo
<1>3. \A q : IsFiniteSet(UpTo(S, q)) BY <1>1, <1>2, SomePlaces
<1>4. \A q : c(q) \in Nat BY <1>3, FS_CardinalityType
<1>5. 0 \in A
  <2>1. UpTo(S, 0) = {} BY <1>1 DEF UpTo
  <2>2. c(0) = 0 BY <2>1, FS_EmptySet
  <2>3. ~ NoFence.open BY DEF NoFence
  <2>4. ~ Fences(text)[0].open BY <2>3, FenceSteps
  <2> QED BY <2>2, <2>4
<1>6. ASSUME NEW q \in Nat, q \in A PROVE q + 1 \in A
  <2> SUFFICES ASSUME q + 1 <= n PROVE Fences(text)[q + 1].open <=> c(q + 1) % 2 = 1 OBVIOUS
  <2>1. q + 1 \in 1 .. n /\ (q + 1) - 1 = q BY <1>1
  <2>2. Fences(text)[q + 1] = FenceAfter(Fences(text)[q], Line[text[q + 1]]) BY <2>1, FenceSteps
  <2>3. Fences(text)[q].open <=> c(q) % 2 = 1 BY <1>1, <1>6
  <2>4. CASE q + 1 \in S
    <3>1. UpTo(S, q + 1) = UpTo(S, q) \cup {q + 1} BY <1>1, <2>1, <2>4 DEF UpTo
    <3>2. q + 1 \notin UpTo(S, q) BY DEF UpTo
    <3>3. c(q + 1) = c(q) + 1 BY <1>3, <3>1, <3>2, FS_AddElement
    <3>4. Line[text[q + 1]].fence BY <2>4 DEF Delims
    <3>5. Fences(text)[q + 1].open <=> ~ Fences(text)[q].open
      <4>1. ASSUME Fences(text)[q].open PROVE ~ Fences(text)[q + 1].open
        <5>1. Fences(text)[q + 1] = NoFence BY <2>2, <3>4, <4>1 DEF FenceAfter
        <5>2. ~ NoFence.open BY DEF NoFence
        <5> QED BY <5>1, <5>2
      <4>2. ASSUME ~ Fences(text)[q].open PROVE Fences(text)[q + 1].open
        <5> DEFINE opened == [open |-> TRUE, lang |-> Line[text[q + 1]].lang]
        <5>1. Fences(text)[q + 1] = opened BY <2>2, <3>4, <4>2 DEF FenceAfter
        <5>2. opened.open OBVIOUS
        <5> QED BY <5>1, <5>2
      <4> QED BY <4>1, <4>2
    <3>6. c(q) \in Nat BY <1>4
    <3> HIDE DEF c
    <3>7. (c(q) + 1) % 2 = 1 <=> ~ (c(q) % 2 = 1) BY ONLY <3>6
    <3> QED BY <2>3, <3>3, <3>5, <3>7
  <2>5. CASE q + 1 \notin S
    <3>1. UpTo(S, q + 1) = UpTo(S, q) BY <1>1, <2>5 DEF UpTo
    <3>2. ~ Line[text[q + 1]].fence BY <2>1, <2>5 DEF Delims
    <3>3. Fences(text)[q + 1] = Fences(text)[q] BY <2>2, <3>2 DEF FenceAfter
    <3> QED BY <2>3, <3>1, <3>3
  <2> QED BY <2>4, <2>5
<1>7. Nat \subseteq A
  <2> HIDE DEF A
  <2> QED BY <1>5, <1>6, NatInductionOnSet
<1>8. p \in Nat /\ p <= n BY <1>1
<1> QED BY <1>7, <1>8

\* A block is what stands between two cuts.
Uncut(scored, a, b) ==
    /\ a \in Int /\ b \in Int /\ 1 <= a /\ a <= b /\ b <= Len(scored)
    /\ a = 1 \/ a \in BlockCuts(scored)
    /\ b = Len(scored) \/ b + 1 \in BlockCuts(scored)
    /\ \A i \in a + 1 .. b : i \notin BlockCuts(scored)

IsBlock(scored, a, b) ==
    \E k \in 1 .. Len(BlocksOf(scored)) : BlocksOf(scored)[k][1] = a /\ BlocksOf(scored)[k][2] = b

LEMMA BlockBetween ==
    ASSUME NEW scored, Scored(scored), NEW a, NEW b, Uncut(scored, a, b)
    PROVE  IsBlock(scored, a, b)
<1> DEFINE n == Len(scored)
           bs == BlocksOf(scored)
           m == Len(bs)
<1>1. /\ m \in Nat /\ bs[m][2] = n
      /\ \A k \in 1 .. m : /\ bs[k][1] \in Int /\ bs[k][2] \in Int /\ 1 <= bs[k][1]
                           /\ bs[k][1] <= bs[k][2] /\ bs[k][2] <= n
                           /\ k > 1 => bs[k][1] \in BlockCuts(scored)
                           /\ \A i \in bs[k][1] + 1 .. bs[k][2] : i \notin BlockCuts(scored)
      /\ \A k \in 2 .. m : bs[k][1] = bs[k - 1][2] + 1
      /\ bs[1][1] = 1
      /\ \A i \in 1 .. n : \E k \in 1 .. m : i \in bs[k][1] .. bs[k][2]
  BY BlocksFacts
<1>2. n \in Nat /\ a \in Int /\ b \in Int BY SeqFacts DEF Scored, Uncut
<1> HIDE DEF n, bs, m
<1>3. a \in 1 .. n /\ a <= b /\ b <= n BY <1>2 DEF n, Uncut
<1>4. PICK k \in 1 .. m : a \in bs[k][1] .. bs[k][2] BY <1>1, <1>3
<1>5. bs[k][1] \in Int /\ bs[k][2] \in Int BY <1>1
<1>6. bs[k][1] = a
  <2> SUFFICES ASSUME bs[k][1] # a PROVE FALSE OBVIOUS
  <2>0. 1 <= bs[k][1] BY <1>1
  <2>1. a \in bs[k][1] + 1 .. bs[k][2] /\ a # 1 BY <1>2, <1>4, <1>5, <2>0
  <2> QED BY <1>1, <2>1 DEF Uncut
<1>7. bs[k][2] <= b
  <2> SUFFICES ASSUME b + 1 <= bs[k][2] PROVE FALSE BY <1>2, <1>5
  <2>1. bs[k][2] <= n BY <1>1
  <2>2. b + 1 \in bs[k][1] + 1 .. bs[k][2] /\ b # n BY <1>2, <1>3, <1>5, <1>6, <2>1
  <2> QED BY <1>1, <2>2 DEF n, Uncut
<1>8. b <= bs[k][2]
  <2> SUFFICES ASSUME bs[k][2] + 1 <= b PROVE FALSE BY <1>2, <1>5
  <2>1. k # m BY <1>1, <1>2, <1>3
  <2>2. k + 1 \in 2 .. m /\ k + 1 \in 1 .. m /\ (k + 1) - 1 = k /\ k + 1 > 1 BY <1>1, <2>1
  <2>3. bs[k + 1][1] = bs[k][2] + 1 BY <1>1, <2>2
  <2>4. bs[k + 1][1] \in BlockCuts(scored) BY <1>1, <2>2
  <2>5. bs[k + 1][1] \in a + 1 .. b BY <1>2, <1>4, <1>5, <1>6, <2>3
  <2> QED BY <2>4, <2>5 DEF Uncut
<1>9. bs[k][2] = b BY <1>2, <1>5, <1>7, <1>8
<1> QED BY <1>6, <1>9 DEF bs, m, IsBlock

LEMMA InSingle == ASSUME NEW e PROVE e \in Range(<<e>>)
<1>1. DOMAIN <<e>> = 1 .. 1 /\ <<e>>[1] = e OBVIOUS
<1>2. 1 \in DOMAIN <<e>> BY <1>1
<1> QED BY <1>1, <1>2 DEF Range

\* One with a forced label is a region.
LEMMA ForcedRegion ==
    ASSUME NEW scored, Scored(scored), NEW a, NEW b, Uncut(scored, a, b), scored[a].forced # ""
    PROVE  RegionOf(a, b, scored[a].forced, TRUE) \in Range(SegmentOf(scored))
<1> DEFINE bs == BlocksOf(scored)
           seqs == BlockSeqs(scored)
           rg == RegionOf(a, b, scored[a].forced, TRUE)
<1>0. IsBlock(scored, a, b) BY BlockBetween
<1>1. PICK k \in 1 .. Len(bs) : bs[k][1] = a /\ bs[k][2] = b BY <1>0 DEF IsBlock
<1>2. seqs[k] = BlockRegions(scored, a, b)
  <2>1. DOMAIN bs = 1 .. Len(bs) BY BlocksFacts
  <2> QED BY <1>1, <2>1 DEF BlockSeqs
<1>3. BlockRegions(scored, a, b) = <<rg>> BY DEF BlockRegions
<1>4. rg \in Range(<<rg>>) BY InSingle
<1>5. rg \in Range(seqs[k]) BY <1>2, <1>3, <1>4
<1>6. Range(SegmentOf(scored)) = UNION {Range(seqs[j]) : j \in 1 .. Len(bs)} BY SegmentFacts
<1> HIDE DEF rg, seqs, bs
<1>7. rg \in Range(SegmentOf(scored)) BY <1>5, <1>6
<1> QED BY <1>7 DEF rg

\* The scores of a delimiter, and of what stands behind one.
LEMMA DelimiterFacts ==
    ASSUME NEW text, IsText(text), text # <<>>, NEW p \in Delims(text)
    PROVE  LET c == Classified(text)
           IN  /\ p \in 1 .. Len(text) /\ Len(c) = Len(text) /\ Scored(c)
               /\ c[p].forced = "markdown"
               /\ p > 1 => p \in BlockCuts(c)
               /\ p < Len(text) => p + 1 \in BlockCuts(c)
<1> DEFINE c == Classified(text)
           st == Fences(text)
<1>1. p \in 1 .. Len(text) /\ Line[text[p]].fence /\ Len(text) \in Nat BY TextFacts DEF Delims
<1>2. /\ Scored(c) /\ Len(c) = Len(text)
      /\ \A q \in 1 .. Len(text) : c[q] = Score(Line[text[q]], st[q])
  BY ClassifiedFacts
<1> HIDE DEF c, st
<1>3. \A q \in 1 .. Len(text) : Line[text[q]].fence => c[q].forced = "markdown" /\ c[q].break
  <2> SUFFICES ASSUME NEW q \in 1 .. Len(text), Line[text[q]].fence
               PROVE  c[q].forced = "markdown" /\ c[q].break
    OBVIOUS
  <2>1. c[q] = Delimiter(st[q].lang) BY <1>2 DEF Score
  <2> QED BY <2>1 DEF Delimiter
<1>4. \A q \in 1 .. Len(text) : ~ Line[text[q]].fence => c[q].forced # "markdown"
  <2> SUFFICES ASSUME NEW q \in 1 .. Len(text), ~ Line[text[q]].fence PROVE c[q].forced # "markdown"
    OBVIOUS
  <2>1. CASE st[q].open
    <3>0. c[q] = [forced |-> FencedLabel(st[q].lang), break |-> FALSE, lang |-> st[q].lang, ev |-> <<>>]
      BY <1>2, <2>1 DEF Score
    <3>1. c[q].forced = FencedLabel(st[q].lang) BY <3>0
    <3>2. FencedLabel(st[q].lang) # "markdown" BY DEF FencedLabel
    <3> QED BY <3>1, <3>2
  <2>2. CASE ~ st[q].open
    <3> DEFINE e == Line[text[q]].ev
    <3>0. c[q] = [forced |-> "", break |-> FALSE, lang |-> "", ev |-> e] BY <1>2, <2>2 DEF Score
    <3> HIDE DEF e
    <3>1. c[q].forced = [forced |-> "", break |-> FALSE, lang |-> "", ev |-> e].forced BY ONLY <3>0
    <3>2. [forced |-> "", break |-> FALSE, lang |-> "", ev |-> e].forced = "" BY ONLY TRUE
    <3>3. "" # "markdown" BY ONLY TRUE
    <3> QED BY ONLY <3>1, <3>2, <3>3
  <2> QED BY <2>1, <2>2
<1>5. p > 1 => p \in BlockCuts(c) BY <1>1, <1>2, <1>3 DEF BlockCuts
<1>6. ASSUME p < Len(text) PROVE p + 1 \in BlockCuts(c)
  <2>1. p + 1 \in 2 .. Len(c) /\ p + 1 \in 1 .. Len(text) /\ (p + 1) - 1 = p BY <1>1, <1>2, <1>6
  <2>2. c[p + 1].break \/ c[p + 1].forced # c[p].forced BY <1>1, <1>3, <1>4, <2>1
  <2> QED BY <2>1, <2>2 DEF BlockCuts
<1> QED BY <1>1, <1>2, <1>3, <1>5, <1>6 DEF c

LEMMA DelimiterRegion ==
    ASSUME NEW text, IsText(text), text # <<>>, NEW p \in Delims(text)
    PROVE  RegionOf(p, p, "markdown", TRUE) \in Range(Segment(text))
<1> DEFINE c == Classified(text)
<1>1. /\ p \in 1 .. Len(text) /\ Len(c) = Len(text) /\ Scored(c) /\ c[p].forced = "markdown"
      /\ p > 1 => p \in BlockCuts(c)
      /\ p < Len(text) => p + 1 \in BlockCuts(c)
  BY DelimiterFacts
<1> HIDE DEF c
<1>2. Len(text) \in Nat BY TextFacts
<1>3. Uncut(c, p, p) BY <1>1, <1>2 DEF Uncut
<1>4. RegionOf(p, p, c[p].forced, TRUE) \in Range(SegmentOf(c)) BY <1>1, <1>3, ForcedRegion
<1>5. Segment(text) = SegmentOf(c) BY DEF Segment, c
<1> QED BY <1>1, <1>4, <1>5

\* What stands between a delimiter that opens a fence and the next one.
LEMMA FencedRegion ==
    ASSUME NEW text, IsText(text), text # <<>>, NEW p \in Delims(text),
           Cardinality(UpTo(Delims(text), p)) % 2 = 1,
           NEW b \in Int, p < b, b <= Len(text),
           \A q \in p + 1 .. b : q \notin Delims(text), b = Len(text) \/ b + 1 \in Delims(text)
    PROVE  RegionOf(p + 1, b, FencedLabel(Line[text[p]].lang), TRUE) \in Range(Segment(text))
<1> DEFINE c == Classified(text)
           st == Fences(text)
           label == FencedLabel(Line[text[p]].lang)
<1>1. /\ p \in 1 .. Len(text) /\ Len(c) = Len(text) /\ Scored(c)
      /\ p < Len(text) => p + 1 \in BlockCuts(c)
  BY DelimiterFacts
<1>2. Len(text) \in Nat BY TextFacts
<1>3. /\ \A q \in 1 .. Len(text) : st[q] = FenceAfter(st[q - 1], Line[text[q]])
      /\ st[p].open
  <2>1. p \in 0 .. Len(text) BY <1>1
  <2> QED BY <2>1, FenceSteps, FenceParity
<1>4. \A q \in 1 .. Len(text) : c[q] = Score(Line[text[q]], st[q]) BY ClassifiedFacts
<1> HIDE DEF c, st, label
<1>5. st[p].lang = Line[text[p]].lang
  <2>1. Line[text[p]].fence BY DEF Delims
  <2>2. st[p] = IF st[p - 1].open THEN NoFence ELSE [open |-> TRUE, lang |-> Line[text[p]].lang]
    BY <1>1, <1>3, <2>1 DEF FenceAfter
  <2>3. st[p] # NoFence
    <3>1. ~ NoFence.open BY DEF NoFence
    <3> QED BY <1>3, <3>1
  <2> QED BY <2>2, <2>3
<1>6. \A q \in p .. b : st[q] = st[p]
  <2>1. ASSUME NEW q \in p + 1 .. b PROVE st[q] = st[q - 1]
    <3>1. q \in 1 .. Len(text) /\ q \notin Delims(text) BY <1>1, <1>2
    <3>2. ~ Line[text[q]].fence BY <3>1 DEF Delims
    <3> QED BY <1>3, <3>1, <3>2 DEF FenceAfter
  <2>2. p \in Int BY <1>1
  <2> QED BY <2>1, <2>2, SameAllOver
<1>7. ASSUME NEW q \in p + 1 .. b PROVE c[q].forced = label /\ ~ c[q].break
  <2>1. q \in 1 .. Len(text) /\ q \notin Delims(text) /\ q \in p .. b BY <1>1, <1>2
  <2>2. ~ Line[text[q]].fence BY <2>1 DEF Delims
  <2>3. st[q].open /\ st[q].lang = Line[text[p]].lang BY <1>3, <1>5, <1>6, <2>1
  <2>4. c[q] = [forced |-> FencedLabel(st[q].lang), break |-> FALSE, lang |-> st[q].lang, ev |-> <<>>]
    BY <1>4, <2>1, <2>2, <2>3 DEF Score
  <2>5. c[q].forced = FencedLabel(st[q].lang) BY <2>4
  <2>6. ~ c[q].break BY <2>4
  <2> QED BY <2>3, <2>5, <2>6 DEF label
<1>8. \A i \in (p + 1) + 1 .. b : i \notin BlockCuts(c)
  <2> SUFFICES ASSUME NEW i \in (p + 1) + 1 .. b PROVE i \notin BlockCuts(c) OBVIOUS
  <2>1. i \in p + 1 .. b /\ i - 1 \in p + 1 .. b BY <1>1, <1>2
  <2>2. c[i].forced = c[i - 1].forced /\ ~ c[i].break BY <1>7, <2>1
  <2> QED BY <2>2 DEF BlockCuts
<1>9. b = Len(c) \/ b + 1 \in BlockCuts(c)
  <2>1. CASE b + 1 \in Delims(text)
    <3>1. b + 1 > 1 BY <1>1
    <3> QED BY <2>1, <3>1, DelimiterFacts DEF c
  <2> QED BY <1>1, <2>1
<1>10. Uncut(c, p + 1, b) BY <1>1, <1>2, <1>8, <1>9 DEF Uncut
<1>11. p + 1 \in p + 1 .. b BY <1>1
<1>12. c[p + 1].forced = label BY <1>7, <1>11
<1>13. label # "" BY DEF label, FencedLabel
<1>14. RegionOf(p + 1, b, label, TRUE) \in Range(SegmentOf(c)) BY <1>1, <1>10, <1>12, <1>13, ForcedRegion
<1> QED BY <1>14 DEF Segment, c, label

\* A place is in one region only.
LEMMA OneRegion ==
    ASSUME NEW rs, NEW n \in Nat, RegionCover(rs, 1, n), NEW p \in 1 .. n
    PROVE  Cardinality({k \in DOMAIN rs : p \in rs[k].from .. rs[k].to}) = 1
<1> DEFINE S == {k \in DOMAIN rs : p \in rs[k].from .. rs[k].to}
<1>1. /\ \A j, k \in 1 .. Len(rs) : j < k => rs[j].to < rs[k].from
      /\ \A k \in 1 .. Len(rs) : rs[k].from \in Int /\ rs[k].to \in Int
      /\ \A i \in 1 .. n : \E k \in 1 .. Len(rs) : i \in rs[k].from .. rs[k].to
  BY RegionCoverFacts
<1>2. DOMAIN rs = 1 .. Len(rs) /\ Len(rs) \in Nat BY SeqFacts DEF RegionCover
<1>3. PICK k \in 1 .. Len(rs) : p \in rs[k].from .. rs[k].to BY <1>1
<1>4. ASSUME NEW j \in 1 .. Len(rs), p \in rs[j].from .. rs[j].to PROVE j = k
  <2>1. ~ (j < k) BY <1>1, <1>3, <1>4
  <2>2. ~ (k < j) BY <1>1, <1>3, <1>4
  <2> QED BY <1>2, <2>1, <2>2
<1>5. S = {k} BY <1>2, <1>3, <1>4
<1> QED BY <1>5, FS_Singleton

LEMMA SegmentCovers ==
    ASSUME NEW text, IsText(text), text # <<>>
    PROVE  RegionCover(Segment(text), 1, Len(text))
<1>1. Scored(Classified(text)) /\ Len(Classified(text)) = Len(text) BY ClassifiedFacts
<1>2. RegionCover(SegmentOf(Classified(text)), 1, Len(Classified(text))) BY <1>1, SegmentFacts
<1> QED BY <1>1, <1>2 DEF Segment

\* A document that has just been split was segmented.
LEMMA JustSegmented ==
    ASSUME Shape, JustSplit
    PROVE  regions = Segment(lines) /\ lines # <<>> /\ IsText(lines) /\ d # 0
<1>1. d # 0 BY DEF JustSplit, Shape
<1>2. PICK k \in DOMAIN regions : Len(regions) > 1 \/ ~ regions[k].exact BY DEF JustSplit
<1>3. DOMAIN regions = 1 .. Len(regions) /\ Len(regions) \in Nat /\ IsText(lines) BY <1>1, ShapeFacts
<1>4. regions # <<>>
  <2>1. Len(<<>>) = 0 OBVIOUS
  <2> QED BY <1>2, <1>3, <2>1
<1>5. regions = RegionsOf(docs[d]) BY <1>1, <1>4 DEF Shape
<1>6. \/ Len(regions) = 1 /\ regions[1].exact = TRUE
      \/ regions = Segment(lines) /\ lines # <<>>
  BY <1>3, <1>5, RegionsFacts DEF lines
<1>7. ~ (Len(regions) = 1 /\ regions[1].exact = TRUE)
  <2> SUFFICES ASSUME Len(regions) = 1, regions[1].exact = TRUE PROVE FALSE OBVIOUS
  <2>1. k = 1 BY <1>2, <1>3
  <2> QED BY <1>2, <2>1
<1> QED BY <1>1, <1>3, <1>6, <1>7

LEMMA FencesHold == Shape => FencesAreExact
<1> SUFFICES ASSUME Shape, JustSplit PROVE FencesAreExact BY DEF FencesAreExact
<1> DEFINE S == {p \in DOMAIN lines : F(p).fence}
           delims == InOrder(S)
           Named(a, b, label) == a > b \/ \E k \in DOMAIN regions :
                regions[k].from = a /\ regions[k].to = b /\ regions[k].label = label
<1>1. regions = Segment(lines) /\ lines # <<>> /\ IsText(lines) BY JustSegmented
<1>2. Len(lines) \in Nat /\ DOMAIN lines = 1 .. Len(lines) BY <1>1, TextFacts
<1>3. RegionCover(regions, 1, Len(lines)) BY <1>1, SegmentCovers
<1>4. IsSeq(regions) /\ DOMAIN regions = 1 .. Len(regions) /\ Len(regions) \in Nat
  BY <1>3, SeqFacts DEF RegionCover
<1>5. S = Delims(lines) BY <1>2 DEF Delims, F
<1>6. \A p \in DOMAIN lines : Cardinality({k \in DOMAIN regions : p \in regions[k].from .. regions[k].to}) = 1
  BY <1>2, <1>3, OneRegion
<1>7. \A k \in DOMAIN regions : k > 1 => regions[k].from = regions[k - 1].to + 1
  <2>1. \A k \in 2 .. Len(regions) : regions[k].from = regions[k - 1].to + 1
    BY <1>2, <1>3, <1>4, RegionCoverIs
  <2> QED BY <1>4, <2>1
<1>8. S \subseteq 1 .. Len(lines) BY <1>2
<1>9. IsFiniteSet(S) /\ S \subseteq Int BY <1>2, <1>8, SomePlaces
<1> HIDE DEF S
<1>10. /\ IsSeq(delims) /\ Range(delims) = S
       /\ \A k \in DOMAIN delims : delims[k] \in S /\ Cardinality({y \in S : y <= delims[k]}) = k
       /\ \A x \in S : \E k \in DOMAIN delims : delims[k] = x
       /\ \A j, k \in DOMAIN delims : j < k => delims[j] < delims[k]
  BY <1>9, InOrderFacts
<1>11. DOMAIN delims = 1 .. Len(delims) /\ Len(delims) \in Nat BY <1>10, SeqFacts
<1> HIDE DEF delims
<1>12. ASSUME NEW a, NEW b, NEW label, RegionOf(a, b, label, TRUE) \in Range(Segment(lines))
       PROVE  Named(a, b, label)
  <2>1. PICK k \in DOMAIN regions : regions[k] = RegionOf(a, b, label, TRUE) BY <1>1, <1>12 DEF Range
  <2>2. regions[k].from = a /\ regions[k].to = b /\ regions[k].label = label BY <2>1 DEF RegionOf
  <2> QED BY <2>2
<1>13. ASSUME NEW i \in DOMAIN delims PROVE Named(delims[i], delims[i], "markdown")
  <2>1. delims[i] \in Delims(lines) BY <1>5, <1>10
  <2>2. RegionOf(delims[i], delims[i], "markdown", TRUE) \in Range(Segment(lines))
    BY <1>1, <2>1, DelimiterRegion
  <2> HIDE DEF Named
  <2> QED BY <1>12, <2>2
<1>14. ASSUME NEW i \in DOMAIN delims, i % 2 = 1
       PROVE  Named(delims[i] + 1, IF i = Len(delims) THEN Len(lines) ELSE delims[i + 1] - 1,
                    FencedLabel(F(delims[i]).lang))
  <2> DEFINE p == delims[i]
             b == IF i = Len(delims) THEN Len(lines) ELSE delims[i + 1] - 1
  <2>1. p \in Delims(lines) /\ p \in 1 .. Len(lines) BY <1>5, <1>8, <1>10
  <2>2. Cardinality(UpTo(Delims(lines), p)) % 2 = 1 BY <1>5, <1>10, <1>14 DEF UpTo
  <2>3. ASSUME i < Len(delims)
        PROVE  i + 1 \in DOMAIN delims /\ delims[i + 1] \in S /\ p < delims[i + 1]
    <3>1. i + 1 \in DOMAIN delims /\ i < i + 1 BY <1>11, <2>3
    <3> QED BY <1>10, <3>1
  <2>4. i \in Nat /\ i <= Len(delims) BY <1>11
  <2>5. b \in Int /\ b <= Len(lines) /\ (b = Len(lines) \/ b + 1 \in Delims(lines))
    <3>1. CASE i = Len(delims) BY <1>2, <3>1
    <3>2. CASE i # Len(delims)
      <4>1. delims[i + 1] \in 1 .. Len(lines) /\ delims[i + 1] \in Delims(lines)
        BY <1>5, <1>8, <1>11, <2>3, <2>4, <3>2
      <4>2. b = delims[i + 1] - 1 BY <3>2
      <4> HIDE DEF b
      <4>3. b \in Int /\ b <= Len(lines) /\ b + 1 = delims[i + 1] BY <1>2, <4>1, <4>2
      <4> QED BY <4>1, <4>3
    <3> QED BY <3>1, <3>2
  <2>6. \A q \in p + 1 .. b : q \notin Delims(lines)
    <3> SUFFICES ASSUME NEW q \in p + 1 .. b, q \in Delims(lines) PROVE FALSE OBVIOUS
    <3>1. PICK j \in DOMAIN delims : delims[j] = q BY <1>5, <1>10
    <3>2. p \in Int /\ q \in Int /\ p < q /\ q <= b BY <2>1, <2>5
    <3>3. i < j
      <4>1. j # i BY <3>1, <3>2
      <4>2. ~ (j < i)
        <5>1. j < i => delims[j] < delims[i] BY <1>10
        <5> QED BY <3>1, <3>2, <5>1
      <4> QED BY <1>11, <4>1, <4>2
    <3>4. i # Len(delims) /\ i + 1 \in DOMAIN delims BY <1>11, <3>3
    <3>5. b = delims[i + 1] - 1 /\ delims[i + 1] \in Int BY <1>9, <1>10, <3>4
    <3>6. i + 1 <= j BY <1>11, <3>3
    <3>7. delims[i + 1] <= delims[j]
      <4>1. i + 1 < j => delims[i + 1] < delims[j] BY <1>10, <3>4
      <4>2. i + 1 = j \/ i + 1 < j BY <1>11, <3>6
      <4> QED BY <3>1, <3>2, <3>5, <4>1, <4>2
    <3> HIDE DEF b
    <3> QED BY <3>1, <3>2, <3>5, <3>7
  <2>7. CASE p < b
    <3> HIDE DEF p, b
    <3>1. RegionOf(p + 1, b, FencedLabel(Line[lines[p]].lang), TRUE) \in Range(Segment(lines))
      BY <1>1, <2>1, <2>2, <2>5, <2>6, <2>7, FencedRegion
    <3> HIDE DEF Named
    <3>2. Named(p + 1, b, FencedLabel(Line[lines[p]].lang)) BY <1>12, <3>1
    <3> QED BY <3>2 DEF p, b, F
  <2>8. CASE ~ (p < b)
    <3>1. p + 1 > b BY <2>1, <2>5, <2>8
    <3> QED BY <3>1
  <2> QED BY <2>7, <2>8
<1> QED BY <1>6, <1>7, <1>13, <1>14 DEF FencesAreExact, delims, S

-----------------------------------------------------------------------------
(***************************************************************************)
(* Labels.  A stretch between fences is a block, whose labels are those    *)
(* that viterbi decodes.                                                   *)
(***************************************************************************)
\* g is f, less what is paid, on places that count from 1.
Less(f, pay, W, g, a, b) == \A p \in a .. b : g[p - a + 1] = f[p] - (IF p \in W THEN pay[p] ELSE 0)

Shifted(f, pay, W, g, a, b) ==
    /\ SumFunctionOnSet(f, a .. b) \in Int /\ SumFunctionOnSet(pay, W) \in Int
    /\ SumFunctionOnSet(g, 1 .. b - a + 1) = SumFunctionOnSet(f, a .. b) - SumFunctionOnSet(pay, W)

LEMMA SumShifted ==
    ASSUME NEW a \in Int, NEW b \in Int, a <= b, NEW f, NEW pay, NEW W, W \subseteq a .. b, NEW g,
           \A p \in a .. b : f[p] \in Int, \A p \in W : pay[p] \in Int, Less(f, pay, W, g, a, b)
    PROVE  Shifted(f, pay, W, g, a, b)
<1> DEFINE Sf(n) == SumFunctionOnSet(f, a .. a + n - 1)
           Sp(n) == SumFunctionOnSet(pay, W \cap (a .. a + n - 1))
           Sg(n) == SumFunctionOnSet(g, 1 .. n)
           Fit(n) == Sf(n) \in Int /\ Sp(n) \in Int /\ Sg(n) = Sf(n) - Sp(n)
           A == {n \in Nat : n <= b - a + 1 => Fit(n)}
<1>1. 0 \in A
  <2>1. a .. a + 0 - 1 = {} /\ 1 .. 0 = {} OBVIOUS
  <2>2. W \cap (a .. a + 0 - 1) = {} BY <2>1
  <2>3. Sf(0) = 0 /\ Sp(0) = 0 /\ Sg(0) = 0 BY <2>1, <2>2, SumOfNone
  <2> HIDE DEF Sf, Sp, Sg
  <2> QED BY <2>3
<1>2. ASSUME NEW n \in Nat, n \in A PROVE n + 1 \in A
  <2> HIDE DEF Fit
  <2> SUFFICES ASSUME n + 1 <= b - a + 1 PROVE Fit(n + 1) OBVIOUS
  <2>9. Fit(n) BY <1>2
  <2> USE DEF Fit
  <2> DEFINE p == a + n
             old == a .. a + n - 1
             new == a .. a + (n + 1) - 1
  <2>1. p \in a .. b /\ new = old \cup {p} /\ p \notin old /\ p - a + 1 = n + 1 /\ new \subseteq a .. b OBVIOUS
  <2>2. Sf(n) \in Int /\ Sp(n) \in Int /\ Sg(n) = Sf(n) - Sp(n) BY <2>9
  <2>3. IsFiniteSet(new) /\ p \in new /\ new \ {p} = old BY <2>1, SomeInterval
  <2>4. Sf(n + 1) = f[p] + Sf(n) /\ f[p] \in Int
    <3>1. \A x \in new : f[x] \in Int BY <2>1
    <3> HIDE DEF p, new, old
    <3>2. SumFunctionOnSet(f, new) = f[p] + SumFunctionOnSet(f, new \ {p}) BY <2>3, <3>1, SumTakesOne
    <3> QED BY <2>3, <3>1, <3>2 DEF new, old
  <2>5. Sg(n + 1) = g[n + 1] + Sg(n)
    <3>1. IsFiniteSet(1 .. n + 1) /\ n + 1 \in 1 .. n + 1 /\ (1 .. n + 1) \ {n + 1} = 1 .. n
      <4>1. IsFiniteSet(1 .. n + 1) BY FS_Interval
      <4>2. n + 1 \in 1 .. n + 1 /\ (1 .. n + 1) \ {n + 1} = 1 .. n BY ONLY n \in Nat
      <4> QED BY <4>1, <4>2
    <3>2. ASSUME NEW i \in 1 .. n + 1 PROVE g[i] \in Int
      <4>1. PICK q : q = a + i - 1 OBVIOUS
      <4>2. q \in a .. b /\ q - a + 1 = i BY <4>1
      <4>3. g[i] = f[q] - (IF q \in W THEN pay[q] ELSE 0) BY <4>2 DEF Less
      <4> QED BY <4>2, <4>3
    <3>3. SumFunctionOnSet(g, 1 .. n + 1) = g[n + 1] + SumFunctionOnSet(g, (1 .. n + 1) \ {n + 1})
      BY <3>1, <3>2, SumTakesOne
    <3> QED BY <3>1, <3>3
  <2>6. g[n + 1] = f[p] - (IF p \in W THEN pay[p] ELSE 0) BY <2>1 DEF Less
  <2>7. CASE p \in W
    <3>1. W \cap new = (W \cap old) \cup {p} /\ p \notin W \cap old BY <2>1, <2>7
    <3>2. pay[p] \in Int /\ \A x \in W \cap new : pay[x] \in Int BY <2>7
    <3>3. IsFiniteSet(W \cap new) BY <2>3, FS_Intersection
    <3>4. p \in W \cap new /\ (W \cap new) \ {p} = W \cap old BY <3>1
    <3> HIDE DEF p, new, old
    <3>5. SumFunctionOnSet(pay, W \cap new) = pay[p] + SumFunctionOnSet(pay, (W \cap new) \ {p})
      BY <3>2, <3>3, <3>4, SumTakesOne
    <3>6. Sp(n + 1) = pay[p] + Sp(n) BY <3>4, <3>5 DEF new, old
    <3>7. g[n + 1] = f[p] - pay[p] BY <2>6, <2>7
    <3> HIDE DEF Sf, Sp, Sg
    <3> QED BY <2>2, <2>4, <2>5, <3>2, <3>6, <3>7
  <2>8. CASE p \notin W
    <3>1. W \cap new = W \cap old BY <2>1, <2>8
    <3>2. Sp(n + 1) = Sp(n) BY <3>1
    <3>3. g[n + 1] = f[p] BY <2>4, <2>6, <2>8
    <3> HIDE DEF Sf, Sp, Sg, p
    <3> QED BY <2>2, <2>4, <2>5, <3>2, <3>3
  <2> QED BY <2>7, <2>8
<1>3. Nat \subseteq A
  <2> HIDE DEF A
  <2> QED BY <1>1, <1>2, NatInductionOnSet
<1> DEFINE m == b - a + 1
<1>4. m \in Nat /\ m <= b - a + 1 /\ a + m - 1 = b OBVIOUS
<1>5. W \cap (a .. b) = W OBVIOUS
<1>6. m \in A BY <1>3, <1>4
<1>8. Fit(m)
  <2> HIDE DEF Fit
  <2> QED BY <1>4, <1>6
<1>7. Sf(m) \in Int /\ Sp(m) \in Int /\ Sg(m) = Sf(m) - Sp(m) BY <1>8
<1> QED BY <1>4, <1>5, <1>7 DEF Shifted

\* The place of a region that was decoded is in a block that has no forced label.
Decoded(c, p, label) ==
    \E j \in 1 .. Len(BlocksOf(c)) :
        LET lo == BlocksOf(c)[j][1]
            hi == BlocksOf(c)[j][2]
        IN  p \in lo .. hi /\ label = Viterbi(Ev(c, lo, hi))[p - lo + 1]

LEMMA RegionPlace ==
    ASSUME NEW c, Scored(c), NEW rg \in Range(SegmentOf(c)), NEW p \in rg.from .. rg.to
    PROVE  \/ ~ rg.exact /\ c[p].forced = "" /\ Decoded(c, p, rg.label)
           \/ rg.exact /\ c[p].forced # ""
<1> DEFINE n == Len(c)
           bs == BlocksOf(c)
           seqs == BlockSeqs(c)
<1>1. PICK j \in 1 .. Len(bs) : rg \in Range(seqs[j]) BY SegmentFacts
<1>2. /\ DOMAIN bs = 1 .. Len(bs) /\ bs[j][1] \in Int /\ bs[j][2] \in Int /\ 1 <= bs[j][1]
      /\ bs[j][1] <= bs[j][2] /\ bs[j][2] <= n
      /\ \A i \in bs[j][1] + 1 .. bs[j][2] : i \notin BlockCuts(c)
  BY BlocksFacts
<1> DEFINE lo == bs[j][1]
           hi == bs[j][2]
           rs == BlockRegions(c, lo, hi)
           path == Viterbi(Ev(c, lo, hi))
<1>3. rg \in Range(rs) BY <1>1, <1>2 DEF BlockSeqs
<1>4. lo \in Int /\ hi \in Int /\ 1 <= lo /\ lo <= hi /\ hi <= n BY <1>2
<1>5. n \in Nat BY SeqFacts DEF Scored
<1>13. BlockSays(c, lo, hi)
  <2> HIDE DEF lo, hi
  <2> QED BY <1>4, BlockFacts
<1> HIDE DEF n, lo, hi
<1>6. /\ RegionCover(rs, lo, hi)
      /\ c[lo].forced # "" => rs = <<RegionOf(lo, hi, c[lo].forced, TRUE)>>
      /\ c[lo].forced = "" =>
            \A k \in 1 .. Len(rs) :
               rs[k].exact = FALSE /\ \A i \in rs[k].from .. rs[k].to : path[i - lo + 1] = rs[k].label
  BY <1>13 DEF BlockSays
<1> HIDE DEF rs, path
<1>7. DOMAIN rs = 1 .. Len(rs) BY <1>6, SeqFacts DEF RegionCover
<1>8. PICK k \in 1 .. Len(rs) : rg = rs[k] BY <1>3, <1>7 DEF Range
<1>9. p \in lo .. hi
  <2>1. rs[k].from \in Int /\ rs[k].to \in Int /\ lo <= rs[k].from /\ rs[k].to <= hi BY <1>6, RegionCoverFacts
  <2> QED BY <1>4, <1>8, <2>1
<1>10. c[p].forced = c[lo].forced
  <2> DEFINE f == [i \in 1 .. n |-> c[i].forced]
  <2>1. ASSUME NEW i \in lo + 1 .. hi PROVE f[i] = f[i - 1]
    <3>1. i \in 2 .. n /\ i \in 1 .. n /\ i - 1 \in 1 .. n BY <1>4, <1>5
    <3>2. i \notin BlockCuts(c) BY <1>2 DEF lo, hi
    <3>3. c[i].forced = c[i - 1].forced BY <3>1, <3>2 DEF BlockCuts, n
    <3> QED BY <3>1, <3>3
  <2>2. lo \in 1 .. n /\ p \in 1 .. n BY <1>4, <1>5, <1>9
  <2> HIDE DEF f
  <2>3. f[p] = f[lo] BY <1>4, <1>9, <2>1, SameAllOver
  <2> QED BY <2>2, <2>3 DEF f
<1>11. CASE c[lo].forced # ""
  <2>1. rs = <<RegionOf(lo, hi, c[lo].forced, TRUE)>> BY <1>6, <1>11
  <2>2. Len(rs) = 1 /\ rs[1] = RegionOf(lo, hi, c[lo].forced, TRUE) BY <2>1
  <2>5. k = 1 BY <2>2
  <2>3. rs[k] = RegionOf(lo, hi, c[lo].forced, TRUE) BY <2>2, <2>5
  <2>4. rg.exact BY <1>8, <2>3 DEF RegionOf
  <2> QED BY <1>10, <1>11, <2>4
<1>12. CASE c[lo].forced = ""
  <2>1. rs[k].exact = FALSE /\ path[p - lo + 1] = rs[k].label BY <1>6, <1>8, <1>12
  <2>2. ~ rg.exact BY <1>8, <2>1
  <2>3. Decoded(c, p, rg.label) BY <1>8, <1>9, <2>1 DEF Decoded, lo, hi, path
  <2> QED BY <1>10, <1>12, <2>2, <2>3
<1> QED BY <1>11, <1>12

\* A line whose label is not forced is no delimiter, and speaks for itself.
LEMMA UnforcedScore ==
    ASSUME NEW f, NEW st, Score(f, st).forced = ""
    PROVE  ~ Score(f, st).break /\ Score(f, st).ev = f.ev
<1>1. CASE f.fence
  <2>1. Score(f, st) = Delimiter(st.lang) BY <1>1 DEF Score
  <2>2. Score(f, st).forced = "markdown" BY <2>1 DEF Delimiter
  <2> QED BY <2>2
<1>2. CASE ~ f.fence /\ st.open
  <2>1. Score(f, st).forced = FencedLabel(st.lang) BY <1>2 DEF Score
  <2>2. FencedLabel(st.lang) # "" BY DEF FencedLabel
  <2> QED BY <2>1, <2>2
<1>3. CASE ~ f.fence /\ ~ st.open
  <2> DEFINE plain == [forced |-> "", break |-> FALSE, lang |-> "", ev |-> f.ev]
  <2>1. Score(f, st) = plain BY <1>3 DEF Score
  <2>2. ~ plain.break /\ plain.ev = f.ev OBVIOUS
  <2> HIDE DEF plain
  <2> QED BY <2>1, <2>2
<1> QED BY <1>1, <1>2, <1>3

\* A stretch of regions that were decoded, as long as it goes.
InDecoded(rs, p) == \E k \in 1 .. Len(rs) : ~ rs[k].exact /\ p \in rs[k].from .. rs[k].to
Stretch(rs, a, b) ==
    /\ a \in Int /\ b \in Int /\ a <= b
    /\ \E k \in 1 .. Len(rs) : ~ rs[k].exact /\ rs[k].from = a
    /\ \E k \in 1 .. Len(rs) : ~ rs[k].exact /\ rs[k].to = b
    /\ \A p \in a .. b : InDecoded(rs, p)
    /\ \A k \in 1 .. Len(rs) : ~ rs[k].exact => rs[k].to # a - 1 /\ rs[k].from # b + 1

\* The place of a region of a text: RegionPlace by the number of the region.
LEMMA PlaceOf ==
    ASSUME NEW text, IsText(text), text # <<>>, NEW k \in 1 .. Len(Segment(text)),
           NEW p \in Segment(text)[k].from .. Segment(text)[k].to
    PROVE  \/ /\ ~ Segment(text)[k].exact /\ Classified(text)[p].forced = ""
              /\ Decoded(Classified(text), p, Segment(text)[k].label)
           \/ Segment(text)[k].exact /\ Classified(text)[p].forced # ""
<1> DEFINE c == Classified(text)
           rs == SegmentOf(c)
<1>1. Scored(c) BY ClassifiedFacts
<1>2. Segment(text) = rs BY DEF Segment
<1>3. RegionCover(rs, 1, Len(text)) BY <1>2, SegmentCovers
<1> HIDE DEF c, rs
<1>4. DOMAIN rs = 1 .. Len(rs) BY <1>3, SeqFacts DEF RegionCover
<1>5. k \in 1 .. Len(rs) /\ p \in rs[k].from .. rs[k].to BY <1>2
<1>6. PICK rg : rg = rs[k] OBVIOUS
<1>7. rg \in Range(rs) BY <1>4, <1>5, <1>6 DEF Range
<1>8. \/ ~ rg.exact /\ c[p].forced = "" /\ Decoded(c, p, rg.label)
      \/ rg.exact /\ c[p].forced # ""
  BY <1>1, <1>5, <1>6, <1>7, RegionPlace DEF rs
<1> QED BY <1>2, <1>6, <1>8 DEF c

Unforced(c, a, b) == \A p \in a .. b : c[p].forced = ""

LEMMA StretchIsBlock ==
    ASSUME NEW text, IsText(text), text # <<>>, NEW a, NEW b, Stretch(Segment(text), a, b)
    PROVE  IsBlock(Classified(text), a, b) /\ Unforced(Classified(text), a, b)
<1> DEFINE c == Classified(text)
           rs == Segment(text)
           n == Len(text)
<1>1. /\ Scored(c) /\ Len(c) = n /\ n \in Nat
      /\ \A p \in 1 .. n : c[p] = Score(Line[text[p]], Fences(text)[p])
  BY ClassifiedFacts, TextFacts
<1>2. RegionCover(rs, 1, n) BY SegmentCovers
<1>3. \A k \in 1 .. Len(rs) : \A p \in rs[k].from .. rs[k].to : rs[k].exact <=> c[p].forced # ""
  BY PlaceOf
<1>4. Stretch(rs, a, b) OBVIOUS
<1> HIDE DEF c, rs, n
<1>5. /\ \A j, k \in 1 .. Len(rs) : j < k => rs[j].to < rs[k].from
      /\ \A k \in 1 .. Len(rs) : /\ rs[k].from \in Int /\ rs[k].to \in Int
                                 /\ 1 <= rs[k].from /\ rs[k].from <= rs[k].to /\ rs[k].to <= n
      /\ \A i \in 1 .. n : \E k \in 1 .. Len(rs) : i \in rs[k].from .. rs[k].to
  BY <1>2, RegionCoverFacts
<1>6. a \in Int /\ b \in Int /\ a <= b BY <1>4 DEF Stretch
<1>7. PICK ka \in 1 .. Len(rs) : ~ rs[ka].exact /\ rs[ka].from = a BY <1>4 DEF Stretch
<1>8. PICK kb \in 1 .. Len(rs) : ~ rs[kb].exact /\ rs[kb].to = b BY <1>4 DEF Stretch
<1>9. 1 <= a /\ b <= n BY <1>5, <1>7, <1>8
<1>10. ASSUME NEW p \in a .. b PROVE c[p].forced = ""
  <2>1. InDecoded(rs, p) BY <1>4 DEF Stretch
  <2>2. PICK k \in 1 .. Len(rs) : ~ rs[k].exact /\ p \in rs[k].from .. rs[k].to BY <2>1 DEF InDecoded
  <2> QED BY <1>3, <2>2
<1>11. ASSUME NEW j \in 1 .. Len(rs), NEW k \in 1 .. Len(rs), NEW p,
              p \in rs[j].from .. rs[j].to, p \in rs[k].from .. rs[k].to
       PROVE  j = k
  <2>1. p \in Int /\ rs[j].from <= p /\ p <= rs[j].to /\ rs[k].from <= p /\ p <= rs[k].to BY <1>5, <1>11
  <2>2. ~ (j < k) BY <1>5, <2>1
  <2>3. ~ (k < j) BY <1>5, <2>1
  <2>4. j \in Int /\ k \in Int OBVIOUS
  <2> QED BY <2>2, <2>3, <2>4
<1>12. a = 1 \/ a \in BlockCuts(c)
  <2> SUFFICES ASSUME a # 1 PROVE a \in BlockCuts(c) OBVIOUS
  <2>1. a - 1 \in 1 .. n /\ a \in 2 .. n BY <1>1, <1>6, <1>9
  <2>2. PICK k \in 1 .. Len(rs) : a - 1 \in rs[k].from .. rs[k].to BY <1>5, <2>1
  <2>3. rs[k].exact
    <3> SUFFICES ASSUME ~ rs[k].exact PROVE FALSE OBVIOUS
    <3>1. rs[k].to # a - 1 BY <1>4 DEF Stretch
    <3>2. rs[k].from \in Int /\ rs[k].to \in Int BY <1>5
    <3>3. a \in rs[k].from .. rs[k].to BY <1>6, <2>2, <3>1, <3>2
    <3>4. a \in rs[ka].from .. rs[ka].to BY <1>5, <1>6, <1>7
    <3>5. k = ka BY <1>11, <3>3, <3>4
    <3> QED BY <1>6, <1>7, <2>2, <3>2, <3>5
  <2>4. c[a - 1].forced # "" BY <1>3, <2>2, <2>3
  <2>6. a \in a .. b BY <1>6
  <2>5. c[a].forced = "" BY <1>10, <2>6
  <2> QED BY <1>1, <2>1, <2>4, <2>5 DEF BlockCuts
<1>13. b = n \/ b + 1 \in BlockCuts(c)
  <2> SUFFICES ASSUME b # n PROVE b + 1 \in BlockCuts(c) OBVIOUS
  <2>1. b + 1 \in 1 .. n /\ b + 1 \in 2 .. n /\ (b + 1) - 1 = b BY <1>1, <1>6, <1>9
  <2>2. PICK k \in 1 .. Len(rs) : b + 1 \in rs[k].from .. rs[k].to BY <1>5, <2>1
  <2>3. rs[k].exact
    <3> SUFFICES ASSUME ~ rs[k].exact PROVE FALSE OBVIOUS
    <3>1. rs[k].from # b + 1 BY <1>4 DEF Stretch
    <3>2. rs[k].from \in Int /\ rs[k].to \in Int BY <1>5
    <3>3. b \in rs[k].from .. rs[k].to BY <1>6, <2>2, <3>1, <3>2
    <3>4. b \in rs[kb].from .. rs[kb].to BY <1>5, <1>6, <1>8
    <3>5. k = kb BY <1>11, <3>3, <3>4
    <3> QED BY <1>6, <1>8, <2>2, <3>2, <3>5
  <2>4. c[b + 1].forced # "" BY <1>3, <2>2, <2>3
  <2>6. b \in a .. b BY <1>6
  <2>5. c[b].forced = "" BY <1>10, <2>6
  <2> QED BY <1>1, <2>1, <2>4, <2>5 DEF BlockCuts
<1>14. ASSUME NEW i \in a + 1 .. b PROVE i \notin BlockCuts(c)
  <2>1. i \in a .. b /\ i - 1 \in a .. b /\ i \in 1 .. n BY <1>1, <1>6, <1>9
  <2>2. c[i].forced = "" /\ c[i - 1].forced = "" BY <1>10, <2>1
  <2>3. ~ c[i].break
    <3>1. PICK f, st : f = Line[text[i]] /\ st = Fences(text)[i] OBVIOUS
    <3>2. c[i] = Score(f, st) BY <1>1, <2>1, <3>1
    <3> QED BY <2>2, <3>2, UnforcedScore
  <2> QED BY <2>2, <2>3 DEF BlockCuts
<1>15. Uncut(c, a, b) BY <1>1, <1>6, <1>9, <1>12, <1>13, <1>14 DEF Uncut
<1>16. IsBlock(c, a, b) BY <1>1, <1>15, BlockBetween
<1>17. Unforced(c, a, b) BY <1>10 DEF Unforced
<1> QED BY <1>16, <1>17 DEF c

\* The label of a region in a block is that which was decoded there.
LEMMA DecodedInBlock ==
    ASSUME NEW c, Scored(c), NEW a \in Int, NEW b \in Int, IsBlock(c, a, b), NEW p \in a .. b, NEW label,
           Decoded(c, p, label)
    PROVE  label = Viterbi(Ev(c, a, b))[p - a + 1]
<1> DEFINE bs == BlocksOf(c)
           Here(lo, hi) == Viterbi(Ev(c, lo, hi))[p - lo + 1]
<1>1. /\ \A k \in 1 .. Len(bs) : bs[k][1] \in Int /\ bs[k][2] \in Int
      /\ \A i, k \in 1 .. Len(bs) : i < k => bs[i][2] < bs[k][1]
  BY BlocksFacts
<1>2. PICK i \in 1 .. Len(bs) : bs[i][1] = a /\ bs[i][2] = b BY DEF IsBlock
<1>3. PICK j \in 1 .. Len(bs) : p \in bs[j][1] .. bs[j][2] /\ label = Here(bs[j][1], bs[j][2])
  BY DEF Decoded
<1> HIDE DEF bs, Here
<1>4. i = j
  <2>1. p \in Int /\ bs[i][1] <= p /\ p <= bs[i][2] /\ bs[j][1] <= p /\ p <= bs[j][2] BY <1>1, <1>2, <1>3
  <2>2. ~ (i < j) BY <1>1, <2>1
  <2>3. ~ (j < i) BY <1>1, <2>1
  <2>4. i \in Int /\ j \in Int OBVIOUS
  <2> QED BY <2>2, <2>3, <2>4
<1>5. label = Here(a, b) BY <1>2, <1>3, <1>4
<1> QED BY <1>5 DEF Here

\* The terms of the sums: what a path gains at a place and pays to switch, what one label gains.
TermsOf(c, a, b, path, l, f, pay, W, alone) ==
    /\ \A p \in a .. b : f[p] = At(c[p].ev, path[p - a + 1])
    /\ \A p \in a .. b : alone[p] = At(c[p].ev, l)
    /\ W = {p \in a + 1 .. b : path[p - a + 1] # path[p - a]}
    /\ \A p \in W : pay[p] = Price(path[p - a])

\* What viterbi decodes explains a block no worse than a single label does.
LEMMA BlockExplained ==
    ASSUME NEW c, Scored(c), NEW a \in Int, NEW b \in Int, 1 <= a, a <= b, b <= Len(c), NEW l \in Label,
           NEW path, path = Viterbi(Ev(c, a, b)), NEW f, NEW alone, NEW pay, NEW W,
           TermsOf(c, a, b, path, l, f, pay, W, alone)
    PROVE  SumFunctionOnSet(f, a .. b) - SumFunctionOnSet(pay, W) >= SumFunctionOnSet(alone, a .. b)
<1> USE DEF TermsOf
<1>18. \A p \in a .. b : p \in 1 .. Len(c)
  <2>1. Len(c) \in Nat BY SeqFacts DEF Scored
  <2> QED BY <2>1
<1> DEFINE evs == Ev(c, a, b)
           n == b - a + 1
           g == Gains(evs, path, n)
           h == Alone(evs, l, n)
<1>1. /\ Evidence(evs) /\ evs # <<>> /\ Len(evs) = n
      /\ \A p \in a .. b : evs[p - a + 1] = c[p].ev
  BY EvFacts
<1>2. path \in Seq(Label) /\ Len(path) = n /\ Gain(evs, path, n) >= GainAlone(evs, l, n)
  BY <1>1, ViterbiFacts
<1> HIDE DEF evs
<1>3. n \in Nat /\ n >= 1 OBVIOUS
<1>4. \A i \in 1 .. n : path[i] \in Label BY <1>2
<1>5. ASSUME NEW p \in a .. b
      PROVE  p - a + 1 \in 1 .. n /\ p > a <=> p - a + 1 > 1
  OBVIOUS
<1>6. \A p \in a .. b : p - a + 1 \in 1 .. n OBVIOUS
<1>7. \A p \in W : p \in a .. b /\ p > a /\ p - a \in 1 .. n BY <1>3
<1>8. \A p \in a .. b : f[p] \in Int
  <2> SUFFICES ASSUME NEW p \in a .. b PROVE f[p] \in Int OBVIOUS
  <2>1. PICK i \in 1 .. n : i = p - a + 1 BY <1>6
  <2>2. path[i] \in Label BY <1>4
  <2>3. At(c[p].ev, path[i]) \in Int BY <1>18, <2>2 DEF Scored
  <2> QED BY <2>1, <2>3
<1>9. \A p \in a .. b : alone[p] \in Int BY <1>18 DEF Scored
<1>10. \A p \in W : pay[p] \in Int
  <2> SUFFICES ASSUME NEW p \in W PROVE pay[p] \in Int OBVIOUS
  <2>1. path[p - a] \in Label BY <1>4, <1>7
  <2> QED BY <2>1, LabelFacts
<1>11. ASSUME NEW p \in a .. b
       PROVE  g[p - a + 1] = f[p] - (IF p \in W THEN pay[p] ELSE 0)
  <2>1. PICK i \in 1 .. n : i = p - a + 1 BY <1>6
  <2>2. g[i] = At(evs[i], path[i]) - SwitchCost(path, i) BY DEF Gains
  <2>3. At(evs[i], path[i]) = f[p] BY <1>1, <2>1
  <2>4. CASE p \in W
    <3>1. i > 1 /\ i - 1 = p - a BY <1>7, <2>1, <2>4
    <3>2. path[i] # path[i - 1] BY <2>1, <2>4, <3>1
    <3>3. SwitchCost(path, i) = Price(path[i - 1]) BY <3>1, <3>2 DEF SwitchCost
    <3>4. SwitchCost(path, i) = pay[p] BY <2>4, <3>1, <3>3
    <3> HIDE DEF g
    <3> QED BY <2>1, <2>2, <2>3, <2>4, <3>4
  <2>5. CASE p \notin W
    <3>1. ~ (i > 1 /\ path[i] # path[i - 1])
      <4> SUFFICES ASSUME i > 1, path[i] # path[i - 1] PROVE FALSE OBVIOUS
      <4>1. p \in a + 1 .. b /\ i - 1 = p - a BY <2>1
      <4> QED BY <2>1, <2>5, <4>1
    <3>2. SwitchCost(path, i) = 0 BY <3>1 DEF SwitchCost
    <3>3. f[p] \in Int BY <1>8
    <3> HIDE DEF g
    <3> QED BY <2>1, <2>2, <2>3, <2>5, <3>2, <3>3
  <2> QED BY <2>4, <2>5
<1>12. ASSUME NEW p \in a .. b
       PROVE  h[p - a + 1] = alone[p] - (IF p \in {} THEN pay[p] ELSE 0)
  <2>1. PICK i \in 1 .. n : i = p - a + 1 BY <1>6
  <2>2. h[i] = At(evs[i], l) BY DEF Alone
  <2>3. evs[i] = c[p].ev BY <1>1, <2>1
  <2>4. alone[p] \in Int BY <1>9
  <2> HIDE DEF h
  <2> QED BY <2>1, <2>2, <2>3, <2>4
<1>13. W \subseteq a .. b BY <1>7
<1> HIDE DEF TermsOf, g, h
<1>19. Less(f, pay, W, g, a, b) /\ Less(alone, pay, {}, h, a, b) BY <1>11, <1>12 DEF Less
<1>14. Shifted(f, pay, W, g, a, b)
  BY <1>8, <1>10, <1>13, <1>19, SumShifted
<1>15. Shifted(alone, pay, {}, h, a, b)
  <2>1. {} \subseteq a .. b /\ \A p \in {} : pay[p] \in Int OBVIOUS
  <2> QED BY <1>9, <1>19, <2>1, SumShifted
<1>16. SumFunctionOnSet(pay, {}) = 0 BY SumOfNone
<1>17. SumFunctionOnSet(g, 1 .. n) >= SumFunctionOnSet(h, 1 .. n) BY <1>2 DEF Gain, GainAlone, g, h
<1> QED BY <1>14, <1>15, <1>16, <1>17 DEF Shifted

LEMMA LabelsHold == Shape => LabelsExplainLines
<1> SUFFICES ASSUME Shape, JustSplit PROVE LabelsExplainLines BY DEF LabelsExplainLines
<1> DEFINE unfenced == {k \in DOMAIN regions : ~regions[k].exact}
           Where(p) == CHOOSE k \in unfenced : p \in regions[k].from .. regions[k].to
           LabelAt(p) == regions[Where(p)].label
           Stretches == {q \in (DOMAIN lines) \X (DOMAIN lines) :
                            /\ q[1] \in {regions[k].from : k \in unfenced}
                            /\ q[2] \in {regions[k].to : k \in unfenced}
                            /\ \A p \in q[1] .. q[2] : \E k \in unfenced : p \in regions[k].from .. regions[k].to
                            /\ \A k \in unfenced : regions[k].to # q[1] - 1 /\ regions[k].from # q[2] + 1}
           Explained(a, b) == SumFunction([p \in a .. b |-> At(F(p).ev, LabelAt(p))])
           ExplainedBy(l, a, b) == SumFunction([p \in a .. b |-> At(F(p).ev, l)])
           Switches(a, b) == {p \in (a + 1) .. b : LabelAt(p) # LabelAt(p - 1)}
           Paid(a, b) == SumFunction([p \in Switches(a, b) |-> SwitchPenalty + At(Sticky, LabelAt(p - 1))])
           c == Classified(lines)
           n == Len(lines)
<1>1. regions = Segment(lines) /\ lines # <<>> /\ IsText(lines) BY JustSegmented
<1>2. n \in Nat /\ DOMAIN lines = 1 .. n BY <1>1, TextFacts
<1>3. /\ Scored(c) /\ Len(c) = n
      /\ \A p \in 1 .. n : c[p] = Score(Line[lines[p]], Fences(lines)[p])
  BY <1>1, ClassifiedFacts
<1>4. RegionCover(regions, 1, n) BY <1>1, SegmentCovers
<1>5. DOMAIN regions = 1 .. Len(regions) BY <1>4, SeqFacts DEF RegionCover
<1>6. \A k \in 1 .. Len(regions) : regions[k].from \in Int /\ regions[k].to \in Int BY <1>4, RegionCoverFacts
<1>7. ASSUME NEW q \in Stretches, NEW l \in Label
      PROVE  Explained(q[1], q[2]) - Paid(q[1], q[2]) >= ExplainedBy(l, q[1], q[2])
  <2>1. PICK a, b : a = q[1] /\ b = q[2] OBVIOUS
  <2>2. a \in 1 .. n /\ b \in 1 .. n BY <1>2, <2>1
  <2>3. a \in Int /\ b \in Int BY <1>2, <2>2
  <2> DEFINE f == [p \in a .. b |-> At(F(p).ev, LabelAt(p))]
             alone == [p \in a .. b |-> At(F(p).ev, l)]
             W == Switches(a, b)
             pay == [p \in W |-> SwitchPenalty + At(Sticky, LabelAt(p - 1))]
             path == Viterbi(Ev(c, a, b))
  <2>4. /\ Explained(a, b) = SumFunctionOnSet(f, a .. b) /\ ExplainedBy(l, a, b) = SumFunctionOnSet(alone, a .. b)
        /\ Paid(a, b) = SumFunctionOnSet(pay, W)
    <3>1. DOMAIN f = a .. b /\ DOMAIN alone = a .. b /\ DOMAIN pay = W OBVIOUS
    <3> HIDE DEF f, alone, pay, W
    <3>2. /\ SumFunction(f) = SumFunctionOnSet(f, a .. b)
          /\ SumFunction(alone) = SumFunctionOnSet(alone, a .. b)
          /\ SumFunction(pay) = SumFunctionOnSet(pay, W)
      BY <3>1, SumOfFunction
    <3> QED BY <3>2 DEF f, alone, pay, W
  <2>5. CASE a > b
    <3>1. a .. b = {} /\ a + 1 .. b = {} BY <2>3, <2>5
    <3>2. W = {} BY <3>1
    <3> HIDE DEF f, alone, W, pay
    <3>3. /\ SumFunctionOnSet(f, a .. b) = 0 /\ SumFunctionOnSet(alone, a .. b) = 0
          /\ SumFunctionOnSet(pay, W) = 0
      BY <3>1, <3>2, SumOfNone
    <3> HIDE DEF Explained, ExplainedBy, Paid
    <3> QED BY <2>1, <2>4, <3>3
  <2>6. CASE a <= b
    <3>1. Stretch(regions, a, b)
      <4>1. \A p \in a .. b : InDecoded(regions, p) BY <1>5, <2>1 DEF InDecoded
      <4> QED BY <1>5, <2>1, <2>3, <2>6, <4>1 DEF Stretch
    <3>14. Stretch(Segment(lines), a, b) BY <1>1, <3>1
    <3>2. IsBlock(c, a, b) /\ \A p \in a .. b : c[p].forced = ""
      <4>1. IsBlock(c, a, b) /\ Unforced(c, a, b) BY <1>1, <3>14, StretchIsBlock
      <4> QED BY <4>1 DEF Unforced
    <3>3. ASSUME NEW p \in a .. b PROVE LabelAt(p) = path[p - a + 1]
      <4>1. InDecoded(regions, p) BY <3>1 DEF Stretch
      <4>2. \E k \in unfenced : p \in regions[k].from .. regions[k].to BY <1>5, <4>1 DEF InDecoded
      <4>3. Where(p) \in unfenced /\ p \in regions[Where(p)].from .. regions[Where(p)].to BY <4>2
      <4> HIDE DEF Where
      <4>4. PICK k : k = Where(p) OBVIOUS
      <4>5. k \in 1 .. Len(Segment(lines)) /\ p \in Segment(lines)[k].from .. Segment(lines)[k].to
        BY <1>1, <1>5, <4>3, <4>4
      <4>6. c[p].forced = "" BY <3>2
      <4> HIDE DEF path
      <4>7. Decoded(c, p, Segment(lines)[k].label) BY <1>1, <4>5, <4>6, PlaceOf
      <4>9. path = Viterbi(Ev(c, a, b)) BY DEF path
      <4> HIDE DEF c
      <4>10. PICK label : label = Segment(lines)[k].label OBVIOUS
      <4>11. label = Viterbi(Ev(c, a, b))[p - a + 1]
        <5>1. Decoded(c, p, label) BY <4>7, <4>10
        <5>2. Scored(c) /\ IsBlock(c, a, b) BY <1>3, <3>2
        <5>3. a \in Int /\ b \in Int BY <2>3
        <5> QED BY ONLY p \in a .. b, <5>1, <5>2, <5>3, DecodedInBlock
      <4>8. Segment(lines)[k].label = path[p - a + 1] BY <4>9, <4>10, <4>11
      <4> QED BY <1>1, <4>4, <4>8
    <3>4. ASSUME NEW p \in a .. b PROVE F(p).ev = c[p].ev
      <4>1. p \in 1 .. n BY <2>2
      <4>2. c[p].forced = "" BY <3>2
      <4>3. c[p] = Score(Line[lines[p]], Fences(lines)[p]) BY <1>3, <4>1
      <4>4. PICK f1, st : f1 = Line[lines[p]] /\ st = Fences(lines)[p] OBVIOUS
      <4> HIDE DEF c
      <4>5. c[p] = Score(f1, st) BY <4>3, <4>4
      <4>6. Score(f1, st).forced = "" BY <4>2, <4>5
      <4>7. Score(f1, st).ev = f1.ev BY <4>6, UnforcedScore
      <4> QED BY <4>4, <4>5, <4>7 DEF F
    <3>5. \A p \in a .. b : f[p] = At(c[p].ev, path[p - a + 1])
      <4> HIDE DEF c, path, LabelAt
      <4> QED BY <3>3, <3>4
    <3>6. \A p \in a .. b : alone[p] = At(c[p].ev, l)
      <4> HIDE DEF c
      <4> QED BY <3>4
    <3>7. \A p \in a + 1 .. b : p \in a .. b /\ p - 1 \in a .. b /\ (p - 1) - a + 1 = p - a BY <2>3
    <3>8. \A p \in a + 1 .. b : LabelAt(p) = path[p - a + 1] /\ LabelAt(p - 1) = path[p - a]
      <4> HIDE DEF LabelAt, path
      <4> SUFFICES ASSUME NEW p \in a + 1 .. b
                   PROVE  LabelAt(p) = path[p - a + 1] /\ LabelAt(p - 1) = path[p - a]
        OBVIOUS
      <4>1. p \in a .. b /\ p - 1 \in a .. b /\ (p - 1) - a + 1 = p - a BY <3>7
      <4>2. LabelAt(p) = path[p - a + 1] BY <3>3, <4>1
      <4>3. PICK o \in a .. b : o = p - 1 BY <4>1
      <4>4. LabelAt(o) = path[o - a + 1] BY <3>3
      <4> QED BY <4>1, <4>2, <4>3, <4>4
    <3>9. W = {p \in a + 1 .. b : path[p - a + 1] # path[p - a]}
      <4> HIDE DEF LabelAt, path
      <4> QED BY <3>8
    <3>10. \A p \in W : pay[p] = Price(path[p - a])
      <4> HIDE DEF LabelAt, path
      <4> QED BY <3>8 DEF Price
    <3>11. 1 <= a /\ b <= Len(c) BY <1>2, <1>3, <2>2
    <3> HIDE DEF f, alone, W, pay, path, c, Explained, ExplainedBy, Paid
    <3>12. path = Viterbi(Ev(c, a, b)) BY DEF path
    <3>13. SumFunctionOnSet(f, a .. b) - SumFunctionOnSet(pay, W) >= SumFunctionOnSet(alone, a .. b)
      <4>1. TermsOf(c, a, b, path, l, f, pay, W, alone) BY <3>5, <3>6, <3>9, <3>10 DEF TermsOf
      <4> QED BY <1>3, <2>3, <2>6, <3>11, <3>12, <4>1, BlockExplained
    <3> QED BY <2>1, <2>4, <3>13
  <2> QED BY <2>3, <2>5, <2>6
<1> QED BY <1>7 DEF LabelsExplainLines, Label

-----------------------------------------------------------------------------
(***************************************************************************)
(* The invariant of the builder, and its theorems.                         *)
(***************************************************************************)
Built == Shape /\ Homed /\ LogsRecorded /\ RowsHoused /\ FrozenKept /\ RegionsKept /\ Stacked /\ Nested

LEMMA BuiltInit == Init => Built
<1> SUFFICES ASSUME Init PROVE Built OBVIOUS
<1>1. <<>> \in Seq({}) /\ Len(<<>>) = 0 OBVIOUS
<1>2. IsSeq(<<>>) /\ \A k \in 1 .. Len(<<>>) : FALSE
  <2>1. IsSeq(<<>>) BY <1>1, SeqIntro
  <2>2. \A k \in 1 .. Len(<<>>) : FALSE BY <1>1
  <2> QED BY <2>1, <2>2
<1>3. units = <<>> /\ regions = <<>> /\ d = 0 /\ stack = <<>> BY DEF Init
<1>4. (\A u \in 1 .. Len(units) : FALSE) /\ (\A k \in 1 .. Len(regions) : FALSE) BY <1>2, <1>3
<1>5. LogsRecorded BY <1>4 DEF LogsRecorded
<1>6. RowsHoused BY <1>4 DEF RowsHoused
<1>7. FrozenKept /\ RegionsKept BY <1>3, <1>4 DEF FrozenKept, RegionsKept
<1>8. Stacked
  <2>1. Ascending(stack) BY <1>1, <1>2, <1>3 DEF Ascending
  <2>2. Range(stack) = {}
    <3>1. DOMAIN <<>> = 1 .. 0 BY <1>1, <1>2, SeqFacts
    <3> QED BY <1>3, <3>1 DEF Range
  <2>3. Unclosed = {} BY <1>4 DEF Unclosed, Reached
  <2> QED BY <1>4, <2>1, <2>2, <2>3 DEF Stacked
<1>9. Nested BY <1>4 DEF Nested
<1> QED BY <1>5, <1>6, <1>7, <1>8, <1>9, ShapeInit DEF Built

LEMMA BuiltStutters ==
    ASSUME Built, UNCHANGED vars
    PROVE  Built'
<1>1. /\ docs' = docs /\ d' = d /\ regions' = regions /\ r' = r /\ blocks' = blocks /\ open' = open
      /\ units' = units /\ edges' = edges /\ stack' = stack
  BY DEF vars
<1>2. lines' = lines BY <1>1 DEF lines
<1>3. \A p : F(p)' = F(p) BY <1>2 DEF F
<1>4. Shape' /\ Homed' BY ShapeStutters DEF Built
<1>5. LogsRecorded' BY <1>1, <1>2 DEF Built, LogsRecorded, IsLog
<1>6. RowsHoused' BY <1>1, <1>3 DEF Built, RowsHoused, IsRow, Whole, Brought, Header, Single
<1>7. \A p : (Kept(p) <=> Kept(p)') /\ (Waiting(p) <=> Waiting(p)')
  <2>1. \A p, q : Atom(p, q) <=> Atom(p, q)' BY <1>1 DEF Atom
  <2>2. ASSUME NEW k PROVE ByChildren(k) <=> ByChildren(k)'
    <3>1. PICK at, payload : at = Head(Full(regions[k].from, regions[k].to)) /\ payload = Payload(k) OBVIOUS
    <3>2. at = Head(Full(regions[k].from, regions[k].to))' /\ payload = Payload(k)'
          /\ (PayloadRegion(k)' <=> PayloadRegion(k))
      BY <1>1, <3>1, SameRegions
    <3>3. \A j : Atom(at, j) <=> Atom(at, j)' BY <2>1
    <3> QED BY <3>1, <3>2, <3>3 DEF ByChildren, Atom
  <2> QED BY <1>1, <1>3, <2>1, <2>2 DEF Kept, Waiting, Delegated, Counted
<1>8. FrozenKept' BY <1>1, <1>2, <1>7 DEF Built, FrozenKept
<1>9. RegionsKept' BY <1>1, <1>7 DEF Built, RegionsKept
<1>10. \A k : Prose(k)' <=> Prose(k)
  <2>1. \A k : Empty(k)' <=> Empty(k) BY <1>1, SameRegions
  <2> QED BY <1>1, <2>1 DEF Prose
<1>11. Stacked'
  <2>1. Stacked BY DEF Built
  <2> QED BY <1>1, <1>10, <2>1 DEF Stacked, Ascending, Unclosed, Reached, LastRegion, Heading
<1>12. Nested'
  <2>1. Nested BY DEF Built
  <2> QED BY <1>1, <1>10, <2>1 DEF Nested, Nearest, AboveIt, Heading, Texted
<1> QED BY <1>4, <1>5, <1>6, <1>8, <1>9, <1>11, <1>12 DEF Built

(***************************************************************************)
(* What the builder keeps between two steps, whatever the requests and     *)
(* whatever the regions their documents are cut into.                      *)
(***************************************************************************)
THEOREM BuiltInvariant == Spec => []Built
<1>1. Init => Built BY BuiltInit
<1>2. Built /\ [Next]_vars => Built'
  <2> SUFFICES ASSUME Built, [Next]_vars PROVE Built' OBVIOUS
  <2>1. CASE Next
    <3>1. Shape' /\ Homed' BY <2>1, ShapeStep DEF Built
    <3>2. LogsRecorded' BY <2>1, LogsStep DEF Built
    <3>3. RowsHoused' BY <2>1, RowsStep DEF Built
    <3>4. FrozenKept' BY <2>1, FrozenKeptStep DEF Built
    <3>5. RegionsKept' BY <2>1, RegionsKeptStep DEF Built
    <3>6. Stacked' /\ Nested' BY <2>1, NestedStep DEF Built
    <3> QED BY <3>1, <3>2, <3>3, <3>4, <3>5, <3>6 DEF Built
  <2>2. CASE UNCHANGED vars BY <2>2, BuiltStutters
  <2> QED BY <2>1, <2>2
<1> QED BY <1>1, <1>2, PTL DEF Spec

(***************************************************************************)
(* builder.py, build: when a document is done, every line of it that is    *)
(* not blank is in some rung of some unit, but for those that NothingLost  *)
(* names.                                                                  *)
(***************************************************************************)
THEOREM BuilderLosesNothing == Spec => []NothingLost
<1>1. Built => NothingLost BY KeptHolds DEF Built
<1> QED BY <1>1, BuiltInvariant, PTL

(***************************************************************************)
(* prose.py, _heading and the stack of ctx: the parent of a text or of a   *)
(* heading is the last heading before it whose section it is in.           *)
(***************************************************************************)
THEOREM ParentsAreHeadings == Spec => []HeadingScope
<1>1. Built => HeadingScope BY NestedHolds DEF Built
<1> QED BY <1>1, BuiltInvariant, PTL

(***************************************************************************)
(* tabular.py and prose.py: a row of a table requires the header of its    *)
(* own table.                                                              *)
(***************************************************************************)
THEOREM RowsRequireHeader == Spec => []RowsBringHeader
<1>1. Built => RowsBringHeader BY RowsHold DEF Built
<1> QED BY <1>1, BuiltInvariant, PTL

(***************************************************************************)
(* templates.py, mine and inline_constant_slots: a value that a template   *)
(* writes out is that of every line of the group that has that slot.  Of   *)
(* stack frames, and of lines that joined without the slot, it says        *)
(* nothing.                                                                *)
(***************************************************************************)
THEOREM TemplatesInlineConstants == Spec => []InlinedConstantsHold
<1>1. Built => InlinedConstantsHold BY LogsHold DEF Built
<1> QED BY <1>1, BuiltInvariant, PTL

(***************************************************************************)
(* doctype.py, "Fences are exact": what stands between two delimiters is   *)
(* one region of the type its language says, a delimiter is another, and   *)
(* the regions cover a document in order, however many fences it has and   *)
(* whether or not the last one is closed.                                  *)
(***************************************************************************)
THEOREM FencedRegionsAreExact == Spec => []FencesAreExact
<1>1. Built => FencesAreExact BY FencesHold DEF Built
<1> QED BY <1>1, BuiltInvariant, PTL

(***************************************************************************)
(* doctype.py, viterbi: whatever the labels, their evidence and the        *)
(* penalties, no stretch between fences is explained better by a single    *)
(* label than by those it was given, switches paid.                        *)
(***************************************************************************)
THEOREM SwitchesPayOff == Spec => []LabelsExplainLines
<1>1. Built => LabelsExplainLines BY LabelsHold DEF Built
<1> QED BY <1>1, BuiltInvariant, PTL


=============================================================================
