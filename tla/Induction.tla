----------------------------- MODULE Induction ------------------------------
(***************************************************************************)
(* Induction and recursion for the other proofs.  The induction principles *)
(* are stated with sets, not with predicates, so that the provers can      *)
(* apply them; they follow from the strict subset order of finite sets     *)
(* being well-founded.  From them come the facts about sums over finite    *)
(* sets and about functions defined by recursion.                          *)
(***************************************************************************)
EXTENDS Integers, Functions, FiniteSetTheorems, TLAPS

-----------------------------------------------------------------------------
(***************************************************************************)
(* Principles.                                                             *)
(***************************************************************************)
\* A non-empty set of finite subsets has a minimal one.
LEMMA MinimalSubset ==
    ASSUME NEW S, IsFiniteSet(S), NEW C \in SUBSET SUBSET S, C # {}
    PROVE  \E T \in C : \A U \in C : U \subseteq T => U = T
<1>1. C \subseteq FiniteSubsetsOf(S) BY FS_Subset DEF FiniteSubsetsOf
<1>2. PICK T \in C : \A U \in C : <<U, T>> \notin StrictSubsetOrdering(S)
  BY <1>1, FS_StrictSubsetOrderingWellFounded, WFMin
<1>3. ASSUME NEW U \in C, U \subseteq T, U # T PROVE FALSE
  <2>1. <<U, T>> \in StrictSubsetOrdering(S) BY <1>3 DEF StrictSubsetOrdering
  <2> QED BY <1>2, <2>1
<1> QED BY <1>3

\* What holds of a set once it holds of the set less any one element, and of
\* the empty set, holds of every subset.
LEMMA SetInduction ==
    ASSUME NEW S, IsFiniteSet(S), NEW A,
           {} \in A,
           \A T \in SUBSET S : T # {} /\ (\A x \in T : T \ {x} \in A) => T \in A
    PROVE  SUBSET S \subseteq A
<1> DEFINE Bad == {T \in SUBSET S : T \notin A}
<1> SUFFICES ASSUME Bad # {} PROVE FALSE OBVIOUS
<1>1. PICK T \in Bad : \A U \in Bad : U \subseteq T => U = T
  <2>1. Bad \in SUBSET SUBSET S OBVIOUS
  <2> HIDE DEF Bad
  <2> QED BY <2>1, MinimalSubset
<1>2. \A x \in T : T \ {x} \in A BY <1>1
<1> QED BY <1>1, <1>2

\* A non-empty set of naturals has a least element.
LEMMA LeastExists ==
    ASSUME NEW S, S \subseteq Nat, S # {}
    PROVE  \E x \in S : \A y \in S : x <= y
<1> DEFINE R == OpToRel(<, Nat)
<1>1. PICK x \in S : \A y \in S : ~ (<<y, x>> \in R)
  <2>1. IsWellFoundedOn(R, Nat) BY NatLessThanWellFounded
  <2> HIDE DEF R
  <2> QED BY <2>1, WFMin
<1>2. \A y \in S : x <= y
  <2> SUFFICES ASSUME NEW y \in S PROVE x <= y OBVIOUS
  <2>1. y \in Nat /\ x \in Nat OBVIOUS
  <2>2. y < x => <<y, x>> \in R BY <2>1 DEF OpToRel
  <2> HIDE DEF R
  <2>3. ~ (y < x) BY <1>1, <2>2
  <2> QED BY <2>1, <2>3
<1> QED BY <1>2

\* A finite set in which of any two elements one comes before the other has a
\* first one.
LEMMA FirstExists ==
    ASSUME NEW S, IsFiniteSet(S), S # {}, NEW R,
           \A x, y \in S : x # y => <<x, y>> \in R \/ <<y, x>> \in R,
           \A x, y, z \in S : <<x, y>> \in R /\ <<y, z>> \in R => <<x, z>> \in R
    PROVE  \E m \in S : \A x \in S \ {m} : <<m, x>> \in R
<1> DEFINE A == {T \in SUBSET S : T # {} => \E m \in T : \A x \in T \ {m} : <<m, x>> \in R}
<1>1. {} \in A OBVIOUS
<1>2. ASSUME NEW T \in SUBSET S, T # {}, \A x \in T : T \ {x} \in A PROVE T \in A
  <2>1. PICK e \in T : TRUE BY <1>2
  <2>2. CASE T \ {e} = {} BY <2>1, <2>2
  <2>3. CASE T \ {e} # {}
    <3>1. PICK m \in T \ {e} : \A x \in (T \ {e}) \ {m} : <<m, x>> \in R
      BY <1>2, <2>1, <2>3
    <3>2. CASE <<m, e>> \in R BY <3>1, <3>2
    <3>3. CASE <<e, m>> \in R
      <4>1. \A x \in T \ {e} : <<e, x>> \in R BY <2>1, <3>1, <3>3
      <4> QED BY <2>1, <4>1
    <3> QED BY <2>1, <3>1, <3>2, <3>3
  <2> QED BY <2>2, <2>3
<1>3. SUBSET S \subseteq A
  <2> HIDE DEF A
  <2> QED BY <1>1, <1>2, SetInduction
<1>4. S \in A BY <1>3
<1> QED BY <1>4

LEMMA ImageIsFinite ==
    ASSUME NEW S, IsFiniteSet(S), NEW f
    PROVE  IsFiniteSet({f[x] : x \in S})
<1> DEFINE g == [x \in S |-> f[x]]
           T == {f[x] : x \in S}
<1>1. g \in Surjection(S, T) BY DEF Surjection
<1> HIDE DEF g, T
<1>2. IsFiniteSet(T) BY <1>1, FS_Surjection
<1> QED BY <1>2 DEF T

LEMMA NatInductionOnSet ==
    ASSUME NEW A, 0 \in A, \A n \in Nat : n \in A => n + 1 \in A
    PROVE  Nat \subseteq A
<1> SUFFICES ASSUME NEW n \in Nat PROVE n \in A OBVIOUS
<1> DEFINE N == 1 .. n
           B == {T \in SUBSET N : Cardinality(T) \in A}
<1>1. IsFiniteSet(N) /\ Cardinality(N) = n BY FS_Interval
<1>2. {} \in B BY FS_EmptySet
<1>3. ASSUME NEW T \in SUBSET N, T # {}, \A x \in T : T \ {x} \in B PROVE T \in B
  <2>1. PICK x \in T : T \ {x} \in B BY <1>3
  <2>2. /\ IsFiniteSet(T) /\ Cardinality(T) \in Nat
        /\ IsFiniteSet(T \ {x}) /\ Cardinality(T \ {x}) \in Nat
        /\ Cardinality(T \ {x}) = Cardinality(T) - 1
    BY <1>1, FS_Subset, FS_CardinalityType, FS_RemoveElement
  <2>3. Cardinality(T) \in A BY <2>1, <2>2
  <2> QED BY <2>3
<1>4. SUBSET N \subseteq B
  <2> HIDE DEF B, N
  <2> QED BY <1>1, <1>2, <1>3, SetInduction
<1>5. N \in B BY <1>4
<1> QED BY <1>1, <1>5

\* h is the function on 0 .. N that starts with first and goes on with step.
Recursive(h, N, V, first, step) ==
    /\ h \in [0 .. N -> V] /\ h[0] = first
    /\ \A k \in 1 .. N : h[k] = step[<<k, h[k - 1]>>]

-----------------------------------------------------------------------------
(***************************************************************************)
(* Recursion over 0 .. n in a set of states V.                             *)
(***************************************************************************)
LEMMA RecursionExists ==
    ASSUME NEW V, NEW first \in V, NEW N \in Nat,
           NEW step, \A k \in 1 .. N : \A v \in V : step[<<k, v>>] \in V
    PROVE  \E h : Recursive(h, N, V, first, step)
<1> DEFINE Is(h, n) == /\ h \in [0 .. n -> V] /\ h[0] = first
                       /\ \A k \in 1 .. n : h[k] = step[<<k, h[k - 1]>>]
           A == {n \in Nat : n <= N => \E h : Is(h, n)}
<1>1. 0 \in A
  <2>1. Is([k \in 0 .. 0 |-> first], 0) OBVIOUS
  <2> QED BY <2>1
<1>2. ASSUME NEW n \in Nat, n \in A PROVE n + 1 \in A
  <2> SUFFICES ASSUME n + 1 <= N PROVE \E h : Is(h, n + 1) OBVIOUS
  <2>1. PICK h : Is(h, n) BY <1>2
  <2> DEFINE next == step[<<n + 1, h[n]>>]
             g == [k \in 0 .. n + 1 |-> IF k = n + 1 THEN next ELSE h[k]]
  <2>2. next \in V BY <2>1
  <2> HIDE DEF next
  <2>3. g \in [0 .. n + 1 -> V] /\ g[0] = first BY <2>1, <2>2
  <2>4. ASSUME NEW k \in 1 .. n + 1 PROVE g[k] = step[<<k, g[k - 1]>>]
    <3>1. CASE k = n + 1
      <4>1. k - 1 = n /\ g[k] = next /\ g[k - 1] = h[n] BY <3>1
      <4> QED BY <3>1, <4>1 DEF next
    <3>2. CASE k # n + 1
      <4>1. k \in 1 .. n /\ k - 1 \in 0 .. n /\ k - 1 # n + 1 BY <3>2
      <4>2. h[k] = step[<<k, h[k - 1]>>] BY <2>1, <4>1
      <4>3. g[k] = h[k] /\ g[k - 1] = h[k - 1] BY <3>2, <4>1
      <4> QED BY <4>2, <4>3
    <3> QED BY <3>1, <3>2
  <2> HIDE DEF g
  <2> QED BY <2>3, <2>4
<1>3. Nat \subseteq A
  <2> HIDE DEF A
  <2> QED BY <1>1, <1>2, NatInductionOnSet
<1> QED BY <1>3 DEF Recursive

-----------------------------------------------------------------------------
(***************************************************************************)
(* Sums.  SumFunctionOnSet is a recursive function on the subsets of its   *)
(* index set; Tally is the equation that function is chosen to satisfy.    *)
(***************************************************************************)
Some(s) == CHOOSE x \in s : TRUE

Added(f, h, s) == IF s = {} THEN 0 ELSE f[Some(s)] + h[s \ {Some(s)}]

Tally(f, h, C) == h = [s \in C |-> Added(f, h, s)]

FullTally(f, h, S) == Tally(f, h, SUBSET S)

Small(S, n) == {s \in SUBSET S : Cardinality(s) <= n}

LEMMA SomeIsElement == \A s : s # {} => Some(s) \in s
BY DEF Some

LEMMA OneLess ==
    ASSUME NEW S, IsFiniteSet(S), NEW s \in SUBSET S, s # {}
    PROVE  /\ s \ {Some(s)} \in SUBSET S
           /\ Cardinality(s) \in Nat /\ Cardinality(s) # 0
           /\ Cardinality(s \ {Some(s)}) = Cardinality(s) - 1
<1>1. IsFiniteSet(s) /\ Cardinality(s) \in Nat BY FS_Subset, FS_CardinalityType
<1>2. Cardinality(s) # 0 BY <1>1, FS_EmptySet
<1> QED BY <1>1, <1>2, SomeIsElement, FS_RemoveElement

LEMMA TallyExists ==
    ASSUME NEW f, NEW S, IsFiniteSet(S)
    PROVE  \E h : FullTally(f, h, S)
<1> DEFINE A == {n \in Nat : \E h : Tally(f, h, Small(S, n))}
<1>1. 0 \in A
  <2>1. \A s \in Small(S, 0) : s = {}
    <3>1. \A s \in Small(S, 0) : s # {} => Cardinality(s) \in Nat \ {0} BY OneLess DEF Small
    <3> QED BY <3>1 DEF Small
  <2> DEFINE h == [s \in Small(S, 0) |-> 0]
  <2>2. \A s \in Small(S, 0) : h[s] = Added(f, h, s) BY <2>1 DEF Added
  <2>3. h = [s \in Small(S, 0) |-> h[s]] OBVIOUS
  <2> HIDE DEF h
  <2>4. Tally(f, h, Small(S, 0)) BY <2>2, <2>3 DEF Tally
  <2> QED BY <2>4
<1>2. ASSUME NEW n \in Nat, n \in A PROVE n + 1 \in A
  <2>1. PICK h : Tally(f, h, Small(S, n)) BY <1>2
  <2> DEFINE g == [s \in Small(S, n + 1) |-> Added(f, h, s)]
  <2>2. ASSUME NEW s \in Small(S, n) PROVE s \in Small(S, n + 1) /\ g[s] = h[s]
    <3>1. s \in Small(S, n + 1)
      <4>1. Cardinality(s) \in Nat BY FS_Subset, FS_CardinalityType DEF Small
      <4> QED BY <4>1 DEF Small
    <3>2. h[s] = Added(f, h, s) BY <2>1 DEF Tally
    <3> QED BY <3>1, <3>2
  <2>3. ASSUME NEW s \in Small(S, n + 1) PROVE g[s] = Added(f, g, s)
    <3>1. g[s] = Added(f, h, s) OBVIOUS
    <3>2. CASE s = {} BY <3>1, <3>2 DEF Added
    <3>3. CASE s # {}
      <4>1. s \ {Some(s)} \in Small(S, n) BY <3>3, OneLess DEF Small
      <4>2. g[s \ {Some(s)}] = h[s \ {Some(s)}] BY <2>2, <4>1
      <4> QED BY <3>1, <3>3, <4>2 DEF Added
    <3> QED BY <3>2, <3>3
  <2>4. g = [s \in Small(S, n + 1) |-> g[s]] OBVIOUS
  <2> HIDE DEF g
  <2>5. Tally(f, g, Small(S, n + 1)) BY <2>3, <2>4 DEF Tally
  <2> QED BY <2>5
<1>3. Nat \subseteq A
  <2> HIDE DEF A
  <2> QED BY <1>1, <1>2, NatInductionOnSet
<1>4. Small(S, Cardinality(S)) = SUBSET S
  BY FS_Subset DEF Small
<1>5. Cardinality(S) \in A BY <1>3, FS_CardinalityType
<1> QED BY <1>4, <1>5 DEF FullTally

\* Two tallies agree where both are defined.
LEMMA TallyUnique ==
    ASSUME NEW f, NEW S, IsFiniteSet(S), NEW T, T \subseteq S,
           NEW g, NEW h, FullTally(f, g, S), FullTally(f, h, T)
    PROVE  g[T] = h[T]
<1> DEFINE A == {s \in SUBSET T : g[s] = h[s]}
<1>1. \A s \in SUBSET T : g[s] = Added(f, g, s) /\ h[s] = Added(f, h, s)
  BY DEF FullTally, Tally
<1>2. {} \in A BY <1>1 DEF Added
<1>3. ASSUME NEW s \in SUBSET T, s # {}, \A x \in s : s \ {x} \in A PROVE s \in A
  <2>1. g[s \ {Some(s)}] = h[s \ {Some(s)}] BY <1>3, SomeIsElement
  <2> QED BY <1>1, <1>3, <2>1 DEF Added
<1>4. IsFiniteSet(T) BY FS_Subset
<1>5. SUBSET T \subseteq A
  <2> HIDE DEF A
  <2> QED BY <1>2, <1>3, <1>4, SetInduction
<1> QED BY <1>5

LEMMA SumIsTally ==
    ASSUME NEW f, NEW S, IsFiniteSet(S)
    PROVE  \E h : /\ FullTally(f, h, S)
                  /\ \A T \in SUBSET S : SumFunctionOnSet(f, T) = h[T]
<1> DEFINE Iter(T) == CHOOSE h : FullTally(f, h, T)
<1>1. \A T \in SUBSET S : FullTally(f, Iter(T), T)
  BY TallyExists, FS_Subset
<1>2. \A T : SumFunctionOnSet(f, T) = Iter(T)[T]
  BY DEF SumFunctionOnSet, FoldFunctionOnSet, MapThenFoldSet, FullTally, Tally, Added, Some
<1> HIDE DEF Iter
<1>3. ASSUME NEW T \in SUBSET S PROVE Iter(S)[T] = Iter(T)[T]
  <2>1. FullTally(f, Iter(S), S) /\ FullTally(f, Iter(T), T) BY <1>1
  <2>2. PICK g : g = Iter(S) OBVIOUS
  <2>3. PICK h : h = Iter(T) OBVIOUS
  <2>4. FullTally(f, g, S) /\ FullTally(f, h, T) BY <2>1, <2>2, <2>3
  <2>5. g[T] = h[T] BY <2>4, TallyUnique
  <2> QED BY <2>2, <2>3, <2>5
<1> QED BY <1>1, <1>2, <1>3

LEMMA SumOfNone == \A f : SumFunctionOnSet(f, {}) = 0
<1> SUFFICES ASSUME NEW f PROVE SumFunctionOnSet(f, {}) = 0 OBVIOUS
<1>1. PICK h : FullTally(f, h, {}) /\ SumFunctionOnSet(f, {}) = h[{}]
  BY SumIsTally, FS_EmptySet
<1> QED BY <1>1 DEF FullTally, Tally, Added

LEMMA SumTakesSome ==
    ASSUME NEW S, IsFiniteSet(S), NEW f
    PROVE  \A T \in SUBSET S : T # {} =>
              SumFunctionOnSet(f, T) = f[Some(T)] + SumFunctionOnSet(f, T \ {Some(T)})
<1>1. PICK h : /\ FullTally(f, h, S)
               /\ \A T \in SUBSET S : SumFunctionOnSet(f, T) = h[T]
  BY SumIsTally
<1>2. \A T \in SUBSET S : h[T] = Added(f, h, T) BY <1>1 DEF FullTally, Tally
<1> QED BY <1>1, <1>2 DEF Added

LEMMA SumIsInt ==
    ASSUME NEW S, IsFiniteSet(S), NEW f, \A x \in S : f[x] \in Int
    PROVE  SumFunctionOnSet(f, S) \in Int
<1> DEFINE A == {T \in SUBSET S : SumFunctionOnSet(f, T) \in Int}
<1>1. {} \in A BY SumOfNone
<1>2. ASSUME NEW T \in SUBSET S, T # {}, \A x \in T : T \ {x} \in A PROVE T \in A
  <2>1. Some(T) \in T BY <1>2, SomeIsElement
  <2>2. SumFunctionOnSet(f, T) = f[Some(T)] + SumFunctionOnSet(f, T \ {Some(T)})
    BY <1>2, SumTakesSome
  <2> QED BY <1>2, <2>1, <2>2
<1>3. SUBSET S \subseteq A
  <2> HIDE DEF A
  <2> QED BY <1>1, <1>2, SetInduction
<1> QED BY <1>3

\* Any element may be taken out of a sum first.
LEMMA SumTakesOne ==
    ASSUME NEW S, IsFiniteSet(S), NEW f, \A x \in S : f[x] \in Int, NEW e \in S
    PROVE  SumFunctionOnSet(f, S) = f[e] + SumFunctionOnSet(f, S \ {e})
<1> DEFINE Sum(T) == SumFunctionOnSet(f, T)
           A == {T \in SUBSET S : \A x \in T : Sum(T) = f[x] + Sum(T \ {x})}
<1>1. \A T \in SUBSET S : Sum(T) \in Int BY FS_Subset, SumIsInt
<1>2. \A T \in SUBSET S : T # {} => Sum(T) = f[Some(T)] + Sum(T \ {Some(T)})
  BY SumTakesSome
<1> HIDE DEF Sum
<1>3. {} \in A OBVIOUS
<1>4. ASSUME NEW T \in SUBSET S, T # {}, \A x \in T : T \ {x} \in A PROVE T \in A
  <2> DEFINE c == Some(T)
  <2>1. c \in T /\ Sum(T) = f[c] + Sum(T \ {c}) BY <1>2, <1>4, SomeIsElement
  <2> HIDE DEF c
  <2>2. ASSUME NEW x \in T, x # c PROVE Sum(T) = f[x] + Sum(T \ {x})
    <3> DEFINE both == T \ {c, x}
    <3>1. (T \ {c}) \ {x} = both /\ (T \ {x}) \ {c} = both OBVIOUS
    <3>2. T \ {c} \in A /\ x \in T \ {c} BY <1>4, <2>1, <2>2
    <3>3. T \ {x} \in A /\ c \in T \ {x} BY <1>4, <2>1, <2>2
    <3>4. Sum(T \ {c}) = f[x] + Sum((T \ {c}) \ {x}) BY <3>2
    <3>5. Sum(T \ {x}) = f[c] + Sum((T \ {x}) \ {c}) BY <3>3
    <3>6. Sum(both) \in Int /\ f[x] \in Int /\ f[c] \in Int BY <1>1, <2>1
    <3>7. Sum(T \ {c}) = f[x] + Sum(both) BY <3>1, <3>4
    <3>8. Sum(T \ {x}) = f[c] + Sum(both) BY <3>1, <3>5
    <3> HIDE DEF both
    <3>9. Sum(T) = f[c] + (f[x] + Sum(both)) BY <2>1, <3>7
    <3>10. f[x] + (f[c] + Sum(both)) = f[c] + (f[x] + Sum(both)) BY <3>6
    <3> QED BY <3>8, <3>9, <3>10
  <2> QED BY <2>1, <2>2
<1>5. SUBSET S \subseteq A
  <2> HIDE DEF A
  <2> QED BY <1>3, <1>4, SetInduction
<1> QED BY <1>5 DEF Sum

\* A sum depends on the values at its indices only.
LEMMA SumOfSame ==
    ASSUME NEW S, IsFiniteSet(S), NEW f, NEW g, \A x \in S : f[x] = g[x]
    PROVE  SumFunctionOnSet(f, S) = SumFunctionOnSet(g, S)
<1> DEFINE A == {T \in SUBSET S : SumFunctionOnSet(f, T) = SumFunctionOnSet(g, T)}
<1>1. {} \in A BY SumOfNone
<1>2. ASSUME NEW T \in SUBSET S, T # {}, \A x \in T : T \ {x} \in A PROVE T \in A
  <2>1. Some(T) \in T BY <1>2, SomeIsElement
  <2>2. SumFunctionOnSet(f, T) = f[Some(T)] + SumFunctionOnSet(f, T \ {Some(T)})
    BY <1>2, SumTakesSome
  <2>3. SumFunctionOnSet(g, T) = g[Some(T)] + SumFunctionOnSet(g, T \ {Some(T)})
    BY <1>2, SumTakesSome
  <2> QED BY <1>2, <2>1, <2>2, <2>3
<1>3. SUBSET S \subseteq A
  <2> HIDE DEF A
  <2> QED BY <1>1, <1>2, SetInduction
<1> QED BY <1>3

LEMMA SumGrows ==
    ASSUME NEW S, IsFiniteSet(S), NEW f, NEW g,
           \A x \in S : f[x] \in Int /\ g[x] \in Int /\ f[x] <= g[x]
    PROVE  SumFunctionOnSet(f, S) <= SumFunctionOnSet(g, S)
<1> DEFINE A == {T \in SUBSET S : SumFunctionOnSet(f, T) <= SumFunctionOnSet(g, T)}
<1>1. {} \in A BY SumOfNone
<1>2. ASSUME NEW T \in SUBSET S, T # {}, \A x \in T : T \ {x} \in A PROVE T \in A
  <2> DEFINE c == Some(T)
  <2>1. c \in T BY <1>2, SomeIsElement
  <2>2. SumFunctionOnSet(f, T) = f[c] + SumFunctionOnSet(f, T \ {c}) BY <1>2, SumTakesSome
  <2>3. SumFunctionOnSet(g, T) = g[c] + SumFunctionOnSet(g, T \ {c}) BY <1>2, SumTakesSome
  <2>4. SumFunctionOnSet(f, T \ {c}) \in Int /\ SumFunctionOnSet(g, T \ {c}) \in Int
    <3>1. T \ {c} \in SUBSET S OBVIOUS
    <3>2. IsFiniteSet(T \ {c}) BY <3>1, FS_Subset
    <3> QED BY <3>2, SumIsInt
  <2>5. SumFunctionOnSet(f, T \ {c}) <= SumFunctionOnSet(g, T \ {c}) BY <1>2, <2>1
  <2> HIDE DEF c
  <2> QED BY <2>1, <2>2, <2>3, <2>4, <2>5
<1>3. SUBSET S \subseteq A
  <2> HIDE DEF A
  <2> QED BY <1>1, <1>2, SetInduction
<1> QED BY <1>3

\* One value changes and the sum with it.
LEMMA SumChangesAt ==
    ASSUME NEW S, IsFiniteSet(S), NEW f, NEW g, NEW e \in S,
           \A x \in S : f[x] \in Int /\ g[x] \in Int,
           \A x \in S : x # e => g[x] = f[x]
    PROVE  SumFunctionOnSet(g, S) = SumFunctionOnSet(f, S) - f[e] + g[e]
<1>1. IsFiniteSet(S \ {e}) BY FS_RemoveElement
<1>2. SumFunctionOnSet(f, S) = f[e] + SumFunctionOnSet(f, S \ {e}) BY SumTakesOne
<1>3. SumFunctionOnSet(g, S) = g[e] + SumFunctionOnSet(g, S \ {e}) BY SumTakesOne
<1>4. SumFunctionOnSet(g, S \ {e}) = SumFunctionOnSet(f, S \ {e}) BY <1>1, SumOfSame
<1>5. SumFunctionOnSet(f, S \ {e}) \in Int BY <1>1, SumIsInt
<1> QED BY <1>2, <1>3, <1>4, <1>5

\* The sum over a set is that over a part and that over the rest.
LEMMA SumSplits ==
    ASSUME NEW S, IsFiniteSet(S), NEW f, \A x \in S : f[x] \in Int, NEW T \in SUBSET S
    PROVE  SumFunctionOnSet(f, S) = SumFunctionOnSet(f, T) + SumFunctionOnSet(f, S \ T)
<1> DEFINE Sum(U) == SumFunctionOnSet(f, U)
           A == {U \in SUBSET T : Sum(S) = Sum(U) + Sum(S \ U)}
<1>1. \A U \in SUBSET S : Sum(U) \in Int BY FS_Subset, SumIsInt
<1>2. \A U \in SUBSET S : \A x \in U : Sum(U) = f[x] + Sum(U \ {x})
  BY FS_Subset, SumTakesOne
<1>3. Sum({}) = 0 BY SumOfNone
<1> HIDE DEF Sum
<1>4. {} \in A
  <2>1. S \ {} = S OBVIOUS
  <2> QED BY <1>1, <1>3, <2>1
<1>5. ASSUME NEW U \in SUBSET T, U # {}, \A x \in U : U \ {x} \in A PROVE U \in A
  <2>1. PICK x \in U : TRUE BY <1>5
  <2>2. Sum(S) = Sum(U \ {x}) + Sum(S \ (U \ {x})) BY <1>5
  <2>3. Sum(U) = f[x] + Sum(U \ {x}) BY <1>2
  <2>4. Sum(S \ (U \ {x})) = f[x] + Sum(S \ U)
    <3>1. (S \ (U \ {x})) \ {x} = S \ U /\ x \in S \ (U \ {x}) OBVIOUS
    <3>2. S \ (U \ {x}) \in SUBSET S OBVIOUS
    <3> QED BY <1>2, <3>1, <3>2
  <2>5. Sum(U \ {x}) \in Int /\ Sum(S \ U) \in Int /\ f[x] \in Int
    <3>1. U \ {x} \in SUBSET S /\ S \ U \in SUBSET S OBVIOUS
    <3> QED BY <1>1, <3>1
  <2> QED BY <2>2, <2>3, <2>4, <2>5
<1>6. IsFiniteSet(T) BY FS_Subset
<1>7. SUBSET T \subseteq A
  <2> HIDE DEF A
  <2> QED BY <1>4, <1>5, <1>6, SetInduction
<1>8. T \in A BY <1>7
<1> QED BY <1>8 DEF Sum

LEMMA SumIsNat ==
    ASSUME NEW S, IsFiniteSet(S), NEW f, \A x \in S : f[x] \in Nat
    PROVE  SumFunctionOnSet(f, S) \in Nat
<1> DEFINE A == {T \in SUBSET S : SumFunctionOnSet(f, T) \in Nat}
<1>1. {} \in A BY SumOfNone
<1>2. ASSUME NEW T \in SUBSET S, T # {}, \A x \in T : T \ {x} \in A PROVE T \in A
  <2>1. Some(T) \in T BY <1>2, SomeIsElement
  <2>2. SumFunctionOnSet(f, T) = f[Some(T)] + SumFunctionOnSet(f, T \ {Some(T)})
    BY <1>2, SumTakesSome
  <2> QED BY <1>2, <2>1, <2>2
<1>3. SUBSET S \subseteq A
  <2> HIDE DEF A
  <2> QED BY <1>1, <1>2, SetInduction
<1> QED BY <1>3

\* A part of a sum of naturals is no more than the whole.
LEMMA SumOfPart ==
    ASSUME NEW S, IsFiniteSet(S), NEW f, \A x \in S : f[x] \in Nat, NEW T \in SUBSET S
    PROVE  /\ SumFunctionOnSet(f, T) \in Nat
           /\ SumFunctionOnSet(f, T) <= SumFunctionOnSet(f, S)
<1>1. IsFiniteSet(T) /\ IsFiniteSet(S \ T) BY FS_Subset, FS_Difference
<1>2. SumFunctionOnSet(f, T) \in Nat /\ SumFunctionOnSet(f, S \ T) \in Nat BY <1>1, SumIsNat
<1>3. \A x \in S : f[x] \in Int OBVIOUS
<1>4. SumFunctionOnSet(f, S) = SumFunctionOnSet(f, T) + SumFunctionOnSet(f, S \ T)
  BY <1>3, SumSplits
<1> QED BY <1>2, <1>4

\* The sum of two functions, point by point.
LEMMA SumOfSums ==
    ASSUME NEW S, IsFiniteSet(S), NEW f, NEW g, NEW h,
           \A x \in S : f[x] \in Int /\ g[x] \in Int /\ h[x] = f[x] + g[x]
    PROVE  SumFunctionOnSet(h, S) = SumFunctionOnSet(f, S) + SumFunctionOnSet(g, S)
<1> DEFINE Sum(k, T) == SumFunctionOnSet(k, T)
           A == {T \in SUBSET S : Sum(h, T) = Sum(f, T) + Sum(g, T)}
<1>1. \A T \in SUBSET S : Sum(f, T) \in Int /\ Sum(g, T) \in Int
  BY FS_Subset, SumIsInt
<1>2. \A T \in SUBSET S : T # {} =>
         /\ Sum(f, T) = f[Some(T)] + Sum(f, T \ {Some(T)})
         /\ Sum(g, T) = g[Some(T)] + Sum(g, T \ {Some(T)})
         /\ Sum(h, T) = h[Some(T)] + Sum(h, T \ {Some(T)})
  BY SumTakesSome
<1>3. {} \in A BY SumOfNone
<1> HIDE DEF Sum
<1>4. ASSUME NEW T \in SUBSET S, T # {}, \A x \in T : T \ {x} \in A PROVE T \in A
  <2> DEFINE c == Some(T)
             U == T \ {c}
  <2>1. c \in T /\ U \in SUBSET S BY <1>4, SomeIsElement
  <2>2. Sum(h, U) = Sum(f, U) + Sum(g, U) BY <1>4, <2>1
  <2>3. Sum(f, U) \in Int /\ Sum(g, U) \in Int BY <1>1, <2>1
  <2>4. /\ Sum(f, T) = f[c] + Sum(f, U) /\ Sum(g, T) = g[c] + Sum(g, U)
        /\ Sum(h, T) = h[c] + Sum(h, U)
    BY <1>2, <1>4
  <2>5. f[c] \in Int /\ g[c] \in Int /\ h[c] = f[c] + g[c] BY <1>4, <2>1
  <2> HIDE DEF c, U
  <2>6. Sum(h, T) = Sum(f, T) + Sum(g, T) BY <2>2, <2>3, <2>4, <2>5
  <2> QED BY <1>4, <2>6
<1>5. SUBSET S \subseteq A
  <2> HIDE DEF A
  <2> QED BY <1>3, <1>4, SetInduction
<1> QED BY <1>5 DEF Sum

LEMMA SumOfZeros ==
    ASSUME NEW S, IsFiniteSet(S), NEW f, \A x \in S : f[x] = 0
    PROVE  SumFunctionOnSet(f, S) = 0
<1> DEFINE A == {T \in SUBSET S : SumFunctionOnSet(f, T) = 0}
<1>1. {} \in A BY SumOfNone
<1>2. ASSUME NEW T \in SUBSET S, T # {}, \A x \in T : T \ {x} \in A PROVE T \in A
  <2>1. Some(T) \in T BY <1>2, SomeIsElement
  <2>2. SumFunctionOnSet(f, T) = f[Some(T)] + SumFunctionOnSet(f, T \ {Some(T)})
    BY <1>2, SumTakesSome
  <2>3. f[Some(T)] = 0 /\ SumFunctionOnSet(f, T \ {Some(T)}) = 0 BY <1>2, <2>1
  <2> QED BY <1>2, <2>2, <2>3
<1>3. SUBSET S \subseteq A
  <2> HIDE DEF A
  <2> QED BY <1>1, <1>2, SetInduction
<1> QED BY <1>3

LEMMA SumOfFunction == \A f : SumFunction(f) = SumFunctionOnSet(f, DOMAIN f)
BY DEF SumFunction, SumFunctionOnSet, FoldFunction
=============================================================================
