---------------------------- MODULE SelectProofs ----------------------------
(***************************************************************************)
(* What holds of Select for every set of inputs.  The argument is one      *)
(* inductive invariant, IInv: once floored, every level lies between its   *)
(* unit's floor and its top rung, because only a unit that can rise is in  *)
(* the heap and a remembered singleton has left it for good.               *)
(***************************************************************************)
EXTENDS Select, Induction, SequenceTheorems

InputOK == /\ cir \in Seq(Unit) /\ budget \in Nat
           /\ \A i \in Uids(cir) : FloorIsCheaper(cir[i])

LevelOK == /\ level \in [Uids(cir) -> Nat]
           /\ \A i \in Uids(cir) : level[i] <= MaxLevel(cir[i])

HeapRises == stage = "greedy" =>
    \A i \in heap : i \in Uids(cir) /\ CanRise(i)

SingleRises == stage \in {"greedy", "settle"} /\ single # <<>> =>
    single[1] \in Uids(cir) /\ CanRise(single[1])

SingleLeftHeap == stage = "greedy" /\ single # <<>> => single[1] \notin heap

RoomLeft == stage \notin {"floor", "done"} => ~ (OutputTokens(cir, Floor(cir)) >= budget)

IInv == /\ InputOK /\ LevelOK /\ FloorHeld
        /\ HeapRises /\ SingleRises /\ SingleLeftHeap
        /\ RoomLeft

(***************************************************************************)
(* The accounts.  What is still owed, the quota of the round under way and *)
(* the shares not served yet, fits in what is left of the budget, so a     *)
(* round may spend its whole quota; and what the rounds report covers what *)
(* they made the output cost.                                              *)
(***************************************************************************)
UnderWay == {"share", "greedy", "settle"}
InRound  == {"greedy", "settle"}

Owed == (IF stage \in InRound THEN quota ELSE 0) + SumFunctionOnSet(share, pending)

BaseOK == /\ stage \in {"floor", "split", "done"} \cup UnderWay
          /\ stage # "floor" => base = OutputTokens(cir, Floor(cir))
          /\ stage \in {"floor", "split"} => total = 0

ShareOK == stage \in UnderWay =>
    share \in [Documents -> Nat] /\ pending \subseteq Documents

RoundOK == stage \in InRound /\ ~replaced =>
    quota \in Nat /\ spent \in Nat /\ spent <= quota

BudgetOK == ~replaced =>
    /\ total \in Nat
    /\ stage \in UnderWay => total + Owed <= Remaining
    /\ stage = "done" => total = 0 \/ total <= Remaining

CostOK == stage # "floor" /\ ~replaced => Cost <= base + Committed

Accounts == BaseOK /\ ShareOK /\ RoundOK /\ BudgetOK /\ CostOK

-----------------------------------------------------------------------------
\* The least element of a set of naturals is one of them.
LEMMA MinIsLeast ==
    ASSUME NEW S, S \subseteq Nat, S # {}
    PROVE  Min(S) \in S
BY LeastExists DEF Min

\* Unit.min_level is one of the unit's levels.
LEMMA MinLevelInLadder ==
    ASSUME NEW u \in Unit
    PROVE  /\ MaxLevel(u) \in Nat /\ MinLevel(u) \in Nat
           /\ MinLevel(u) <= MaxLevel(u)
<1>1. u.rungs \in Seq(Rung) BY DEF Unit
<1>2. MaxLevel(u) \in Nat BY <1>1 DEF MaxLevel
<1>3. u.rungs # <<>> => MaxLevel(u) >= 1 BY <1>1, <1>2, EmptySeq DEF MaxLevel
<1>4. Carrying(u) # {} => Min(Carrying(u)) \in 1 .. MaxLevel(u)
  <2>1. Carrying(u) \subseteq 1 .. MaxLevel(u) BY DEF Carrying
  <2>2. Carrying(u) \subseteq Nat BY <1>2, <2>1
  <2> QED BY <2>1, <2>2, MinIsLeast
<1> QED BY <1>2, <1>3, <1>4 DEF MinLevel

\* The cost of a level of the ladder is a number of tokens.
LEMMA CostIsNat ==
    ASSUME NEW u \in Unit, NEW j \in 0 .. MaxLevel(u)
    PROVE  CostAt(u, j) \in Nat
<1>1. u.rungs \in Seq(Rung) BY DEF Unit
<1>2. j # 0 => u.rungs[j] \in Rung
  <2> SUFFICES ASSUME j # 0 PROVE u.rungs[j] \in Rung OBVIOUS
  <2>1. j \in 1 .. Len(u.rungs) BY <1>1 DEF MaxLevel
  <2> QED BY <1>1, <2>1
<1> QED BY <1>2 DEF CostAt, Rung

LEMMA UnitsAreUnits ==
    ASSUME InputOK
    PROVE  \A i \in Uids(cir) :
              /\ cir[i] \in Unit
              /\ MaxLevel(cir[i]) \in Nat /\ MinLevel(cir[i]) \in Nat
              /\ MinLevel(cir[i]) <= MaxLevel(cir[i])
              /\ \A j \in 0 .. MaxLevel(cir[i]) : CostAt(cir[i], j) \in Nat
<1>1. \A i \in Uids(cir) : cir[i] \in Unit BY DEF InputOK, Uids
<1> QED BY <1>1, MinLevelInLadder, CostIsNat

LEMMA FloorIsAdmissible ==
    ASSUME InputOK
    PROVE  /\ Floor(cir) \in [Uids(cir) -> Nat]
           /\ \A i \in Uids(cir) :
                 /\ Floor(cir)[i] = MinLevel(cir[i])
                 /\ Floor(cir)[i] <= MaxLevel(cir[i])
<1>1. \A i \in Uids(cir) : cir[i] \in Unit BY DEF InputOK, Uids
<1> QED BY <1>1, UnitsAreUnits DEF Floor

-----------------------------------------------------------------------------
LEMMA Initially == Init => IInv
<1> SUFFICES ASSUME Init PROVE IInv OBVIOUS
<1>1. InputOK BY InputsAssumption DEF Init, InputOK
<1>2. LevelOK
  <2>1. \A i \in Uids(cir) : MaxLevel(cir[i]) \in Nat
    BY <1>1, UnitsAreUnits
  <2> QED BY <2>1 DEF Init, LevelOK
<1> QED BY <1>1, <1>2 DEF Init, IInv, FloorHeld, HeapRises, SingleRises,
                          SingleLeftHeap, RoomLeft

LEMMA Preserved == IInv /\ [Next]_vars => IInv'
<1> SUFFICES ASSUME IInv, [Next]_vars PROVE IInv' OBVIOUS
<1> USE DEF IInv
<1>1. CASE FloorEverything
  <2>1. InputOK' BY <1>1 DEF FloorEverything, InputOK
  <2>2. LevelOK' /\ FloorHeld'
    <3>1. level' = Floor(cir) /\ cir' = cir BY <1>1 DEF FloorEverything
    <3>2. \A i \in Uids(cir) : MinLevel(cir[i]) \in Nat
      BY UnitsAreUnits
    <3> QED BY <3>1, <3>2, FloorIsAdmissible DEF LevelOK, FloorHeld, InputOK
  <2>3. stage' \in {"done", "split"} BY <1>1 DEF FloorEverything
  <2>4. RoomLeft' BY <1>1 DEF FloorEverything, RoomLeft
  <2> QED BY <2>1, <2>2, <2>3, <2>4 DEF HeapRises, SingleRises, SingleLeftHeap
<1>2. CASE Split
  BY <1>2 DEF Split, InputOK, LevelOK, FloorHeld, HeapRises, SingleRises,
              SingleLeftHeap, RoomLeft
<1>3. ASSUME NEW units, NEW b, Enter(units, b), stage = "share",
             units \subseteq Uids(cir), UNCHANGED <<cir, budget, level>>
      PROVE  IInv'
  <2>1. HeapRises' BY <1>3 DEF Enter, HeapRises, CanRise
  <2>2. SingleRises' /\ SingleLeftHeap'
    BY <1>3 DEF Enter, SingleRises, SingleLeftHeap
  <2> QED BY <1>3, <2>1, <2>2 DEF Enter, InputOK, LevelOK, FloorHeld, RoomLeft
<1>4. ASSUME UNCHANGED <<cir, budget, level, call>>,
             stage' \in {"share", "done", "settle"}, stage \in {"share", "greedy", "settle"},
             stage' = "settle" => stage \in {"greedy", "settle"}
      PROVE  IInv'
  BY <1>4 DEF call, InputOK, LevelOK, FloorHeld, HeapRises, SingleRises,
              SingleLeftHeap, RoomLeft, CanRise
<1>5. CASE RunShare
  <2>1. PICK d : IF share[d] <= 0 THEN UNCHANGED <<stage, call>>
                                  ELSE Enter(Members(d), share[d])
    BY <1>5 DEF RunShare
  <2>2. stage = "share" /\ UNCHANGED <<cir, budget, level>> BY <1>5 DEF RunShare
  <2>3. Members(d) \subseteq Uids(cir) BY DEF Members, Upgradable
  <2> QED BY <1>3, <1>4, <2>1, <2>2, <2>3
<1>6. CASE Spill
  <2>1. {i \in Upgradable : CanRise(i)} \subseteq Uids(cir) BY DEF Upgradable
  <2>2. stage = "share" /\ UNCHANGED <<cir, budget, level>> BY <1>6 DEF Spill
  <2>3. \/ Enter({i \in Upgradable : CanRise(i)}, Leftover)
        \/ stage' = "done" /\ UNCHANGED call
    BY <1>6 DEF Spill
  <2> QED BY <1>3, <1>4, <2>1, <2>2, <2>3
<1>7. ASSUME NEW i \in heap, Fade(i) PROVE IInv'
  BY <1>7 DEF Fade, Looping, InputOK, LevelOK, FloorHeld, HeapRises, SingleRises,
              SingleLeftHeap, RoomLeft, CanRise
<1>8. ASSUME NEW i \in heap, Reject(i) PROVE IInv'
  <2>1. /\ stage = "greedy" /\ UNCHANGED <<cir, budget, level, stage>>
        /\ heap' = heap \ {i}
        /\ single' = single \/ single' = <<i, StepCost(i)>>
    BY <1>8 DEF Reject, Looping
  <2>2. InputOK' /\ LevelOK' /\ FloorHeld' /\ RoomLeft'
    BY <2>1 DEF InputOK, LevelOK, FloorHeld, RoomLeft
  <2>3. HeapRises' BY <2>1 DEF HeapRises, CanRise
  <2>4. i \in Uids(cir) /\ CanRise(i) BY <2>1 DEF HeapRises
  <2>5. SingleRises' /\ SingleLeftHeap'
    <3>1. CASE single' = single
      BY <2>1, <3>1 DEF SingleRises, SingleLeftHeap, CanRise
    <3>2. CASE single' = <<i, StepCost(i)>>
      <4>1. single'[1] = i BY <3>2
      <4> QED BY <2>1, <2>4, <4>1 DEF SingleRises, SingleLeftHeap, CanRise
    <3> QED BY <2>1, <3>1, <3>2
  <2> QED BY <2>2, <2>3, <2>5
<1>9. ASSUME NEW i \in heap, Upgrade(i) PROVE IInv'
  <2>1. /\ stage = "greedy" /\ UNCHANGED <<cir, budget, stage, single>>
        /\ level' = [level EXCEPT ![i] = @ + 1]
        /\ \/ heap' = heap /\ level[i] + 1 < MaxLevel(cir[i])
           \/ heap' = heap \ {i}
    BY <1>9 DEF Upgrade, Looping
  <2>2. i \in Uids(cir) /\ level[i] < MaxLevel(cir[i])
    BY <2>1 DEF HeapRises, CanRise
  <2>3. \A j \in Uids(cir) : level[j] \in Nat /\ MaxLevel(cir[j]) \in Nat
                             /\ MinLevel(cir[j]) \in Nat
    BY UnitsAreUnits DEF LevelOK
  <2>4. LevelOK' BY <2>1, <2>2, <2>3 DEF LevelOK
  <2>5. FloorHeld' BY <2>1, <2>2, <2>3 DEF FloorHeld, LevelOK
  <2>6. HeapRises' BY <2>1, <2>2, <2>3 DEF HeapRises, CanRise, LevelOK
  <2>7. SingleRises' /\ SingleLeftHeap'
    BY <2>1, <2>2, <2>3 DEF SingleRises, SingleLeftHeap, CanRise, LevelOK
  <2> QED BY <2>1, <2>4, <2>5, <2>6, <2>7 DEF InputOK, RoomLeft
<1>10. CASE Stop BY <1>4, <1>10 DEF Stop
<1>11. CASE Keep BY <1>4, <1>11 DEF Keep
<1>12. CASE Replace
  <2>1. /\ stage = "settle" /\ stage' = "share" /\ single # <<>>
        /\ UNCHANGED <<cir, budget>>
        /\ level' = [i \in Uids(cir) |->
                       IF i = single[1] THEN level[i] + 1
                       ELSE IF i \in pool /\ level[i] > MinLevel(cir[i]) THEN FallsTo(i)
                       ELSE level[i]]
    BY <1>12 DEF Replace
  <2>2. single[1] \in Uids(cir) /\ level[single[1]] < MaxLevel(cir[single[1]])
    BY <2>1 DEF SingleRises, CanRise
  <2>3. \A j \in Uids(cir) : level[j] \in Nat /\ MaxLevel(cir[j]) \in Nat
                             /\ MinLevel(cir[j]) \in Nat
                             /\ MinLevel(cir[j]) <= MaxLevel(cir[j])
    BY UnitsAreUnits DEF LevelOK
  <2>4. LevelOK' BY <2>1, <2>2, <2>3 DEF LevelOK, FallsTo
  <2>5. FloorHeld' BY <2>1, <2>3 DEF FloorHeld, FallsTo
  <2> QED BY <2>1, <2>4, <2>5 DEF InputOK, HeapRises, SingleRises,
                                  SingleLeftHeap, RoomLeft
<1>13. ASSUME NEW i \in heap, Requeue(i) PROVE IInv'
  BY <1>13 DEF Requeue, Looping, InputOK, LevelOK, FloorHeld, HeapRises,
               SingleRises, SingleLeftHeap, RoomLeft, CanRise
<1>14. CASE UNCHANGED vars
  BY <1>14 DEF vars, InputOK, LevelOK, FloorHeld, HeapRises, SingleRises,
               SingleLeftHeap, RoomLeft, CanRise
<1> QED BY <1>1, <1>2, <1>5, <1>6, <1>7, <1>8, <1>9, <1>10, <1>11, <1>12, <1>13,
           <1>14
        DEF Next, Greedy

LEMMA Invariant == Spec => []IInv
BY Initially, Preserved, PTL DEF Spec

-----------------------------------------------------------------------------
(***************************************************************************)
(* The accounts, one step at a time, from IInv.                            *)
(***************************************************************************)
LEMMA UidsFinite == InputOK => IsFiniteSet(Uids(cir))
BY FS_Interval DEF InputOK, Uids

LEMMA DocumentsFinite == InputOK => IsFiniteSet(Documents)
<1> SUFFICES ASSUME InputOK PROVE IsFiniteSet(Documents) OBVIOUS
<1>1. IsFiniteSet(Upgradable) BY UidsFinite, FS_Subset DEF Upgradable
<1> DEFINE f == [i \in Upgradable |-> cir[i].doc]
<1>2. Documents = {f[i] : i \in Upgradable} BY DEF Documents
<1> HIDE DEF f
<1> QED BY <1>1, <1>2, ImageIsFinite

\* A choice inside the ladders costs a number of tokens.
LEMMA OutputIsNat ==
    ASSUME InputOK, NEW lv, \A i \in Uids(cir) : lv[i] \in 0 .. MaxLevel(cir[i])
    PROVE  OutputTokens(cir, lv) \in Nat
<1> DEFINE f == [i \in Uids(cir) |-> CostAt(cir[i], lv[i])]
<1>1. \A i \in Uids(cir) : f[i] \in Nat BY UnitsAreUnits
<1>2. DOMAIN f = Uids(cir) OBVIOUS
<1> HIDE DEF f
<1>3. SumFunctionOnSet(f, Uids(cir)) \in Nat BY <1>1, UidsFinite, SumIsNat
<1> QED BY <1>2, <1>3 DEF OutputTokens, SumFunction, f

\* Raising one unit changes the output by what its rung changes.
LEMMA OutputChangesAt ==
    ASSUME NEW lv, NEW up, NEW i
    PROVE  /\ InputOK /\ i \in Uids(cir)
           /\ \A j \in Uids(cir) : /\ lv[j] \in 0 .. MaxLevel(cir[j])
                                   /\ up[j] \in 0 .. MaxLevel(cir[j])
                                   /\ j # i => up[j] = lv[j]
           => OutputTokens(cir, up) = OutputTokens(cir, lv) - CostAt(cir[i], lv[i])
                                                            + CostAt(cir[i], up[i])
<1> DEFINE f == [j \in Uids(cir) |-> CostAt(cir[j], lv[j])]
           g == [j \in Uids(cir) |-> CostAt(cir[j], up[j])]
           U == Uids(cir)
<1>1. SUFFICES ASSUME InputOK, i \in U,
                      \A j \in U : lv[j] \in 0 .. MaxLevel(cir[j]),
                      \A j \in U : up[j] \in 0 .. MaxLevel(cir[j]),
                      \A j \in U : j # i => up[j] = lv[j]
               PROVE  OutputTokens(cir, up) = OutputTokens(cir, lv)
                         - CostAt(cir[i], lv[i]) + CostAt(cir[i], up[i])
  OBVIOUS
<1>2. \A j \in U : f[j] \in Int /\ g[j] \in Int BY <1>1, UnitsAreUnits
<1>3. \A j \in U : j # i => g[j] = f[j] BY <1>1
<1>4. f[i] = CostAt(cir[i], lv[i]) /\ g[i] = CostAt(cir[i], up[i]) BY <1>1
<1>5. /\ OutputTokens(cir, lv) = SumFunctionOnSet(f, U)
      /\ OutputTokens(cir, up) = SumFunctionOnSet(g, U)
  BY DEF OutputTokens, SumFunction
<1>6. IsFiniteSet(U) BY <1>1, UidsFinite
<1>7. i \in U BY <1>1
<1> HIDE DEF f, g, U
<1>8. SumFunctionOnSet(g, U) = SumFunctionOnSet(f, U) - f[i] + g[i]
  BY <1>2, <1>3, <1>6, <1>7, SumChangesAt
<1> QED BY <1>4, <1>5, <1>8

\* No unit is cheaper at its top than at its floor, so no cap is negative.
LEMMA CapIsNat ==
    ASSUME InputOK, NEW d
    PROVE  Cap(d) \in Nat
<1> DEFINE f == [i \in Members(d) |-> Top(i) - CostAt(cir[i], MinLevel(cir[i]))]
<1>1. Members(d) \subseteq Uids(cir) BY DEF Members, Upgradable
<1>2. ASSUME NEW i \in Members(d) PROVE f[i] \in Nat
  <2>1. /\ i \in Uids(cir) /\ FloorIsCheaper(cir[i])
        /\ MinLevel(cir[i]) < MaxLevel(cir[i])
    BY <1>1 DEF InputOK, Members, Upgradable
  <2>2. /\ MaxLevel(cir[i]) \in Nat /\ MinLevel(cir[i]) \in Nat
        /\ \A j \in 0 .. MaxLevel(cir[i]) : CostAt(cir[i], j) \in Nat
    BY <2>1, UnitsAreUnits
  <2>3. Top(i) \in Nat /\ CostAt(cir[i], MinLevel(cir[i])) \in Nat
    BY <2>1, <2>2 DEF Top
  <2>4. CostAt(cir[i], MinLevel(cir[i])) <= Top(i)
    BY <2>1 DEF FloorIsCheaper, Top
  <2>5. f[i] = Top(i) - CostAt(cir[i], MinLevel(cir[i])) OBVIOUS
  <2> HIDE DEF f
  <2> QED BY <2>3, <2>4, <2>5
<1>3. IsFiniteSet(Members(d)) BY <1>1, UidsFinite, FS_Subset
<1>4. DOMAIN f = Members(d) OBVIOUS
<1> HIDE DEF f
<1>5. SumFunctionOnSet(f, Members(d)) \in Nat BY <1>2, <1>3, SumIsNat
<1> QED BY <1>4, <1>5 DEF Cap, SumFunction, f

\* Water-filling hands out no more than it is given.
LEMMA WaterfillFits ==
    ASSUME InputOK, NEW b \in Nat, NEW alloc \in Waterfill(b)
    PROVE  /\ alloc \in [Documents -> Nat]
           /\ SumFunctionOnSet(alloc, Documents) <= b
<1> DEFINE caps == [d \in Documents |-> Cap(d)]
<1>1. caps \in [Documents -> Nat] BY CapIsNat
<1>2. CASE b >= SumFunction(caps)
  <2>1. alloc = caps BY <1>2 DEF Waterfill
  <2>2. DOMAIN caps = Documents OBVIOUS
  <2>3. SumFunctionOnSet(caps, Documents) \in Nat
    BY <1>1, DocumentsFinite, SumIsNat
  <2> HIDE DEF caps
  <2> QED BY <1>1, <1>2, <2>1, <2>2, <2>3 DEF SumFunction
<1>3. CASE ~ (b >= SumFunction(caps))
  <2>1. alloc \in [Documents -> 0 .. b] /\ SumFunction(alloc) = b
    BY <1>3 DEF Waterfill
  <2>2. DOMAIN alloc = Documents BY <2>1
  <2> QED BY <2>1, <2>2 DEF SumFunction
<1> QED BY <1>2, <1>3

\* A document's number, and what is left of the budget, are naturals.
LEMMA DocumentsAreNat == InputOK => Documents \subseteq Nat
<1> SUFFICES ASSUME InputOK, NEW d \in Documents PROVE d \in Nat OBVIOUS
<1>1. PICK i \in Upgradable : d = cir[i].doc BY DEF Documents
<1>2. cir[i] \in Unit BY UnitsAreUnits DEF Upgradable
<1> QED BY <1>1, <1>2 DEF Unit

LEMMA FloorCostsNat == InputOK => OutputTokens(cir, Floor(cir)) \in Nat
<1> SUFFICES ASSUME InputOK PROVE OutputTokens(cir, Floor(cir)) \in Nat OBVIOUS
<1>1. \A i \in Uids(cir) : Floor(cir)[i] \in 0 .. MaxLevel(cir[i])
  BY UnitsAreUnits, FloorIsAdmissible
<1> QED BY <1>1, OutputIsNat

LEMMA RemainingIsNat ==
    InputOK /\ RoomLeft /\ BaseOK /\ stage \notin {"floor", "done"} => Remaining \in Nat
BY FloorCostsNat DEF InputOK, RoomLeft, BaseOK, Remaining

LEMMA SharesAreNat ==
    ASSUME InputOK, ShareOK, stage \in UnderWay, NEW T \in SUBSET pending
    PROVE  SumFunctionOnSet(share, T) \in Nat
<1>1. share \in [Documents -> Nat] /\ pending \subseteq Documents BY DEF ShareOK
<1>2. IsFiniteSet(T)
  <2>1. T \in SUBSET Documents BY <1>1
  <2> QED BY <2>1, DocumentsFinite, FS_Subset
<1>3. \A d \in T : share[d] \in Nat BY <1>1
<1> QED BY <1>2, <1>3, SumIsNat

\* An upgrade costs the output no more than the round is charged.
LEMMA UpgradeIsCovered ==
    ASSUME IInv, NEW i \in heap, Upgrade(i)
    PROVE  /\ Cost \in Nat /\ Cost' \in Nat /\ StepCost(i) \in Nat
           /\ Cost' <= Cost + StepCost(i)
<1> DEFINE up == level'
<1>1. /\ InputOK /\ i \in Uids(cir) /\ level[i] < MaxLevel(cir[i])
      /\ up = [level EXCEPT ![i] = @ + 1] /\ cir' = cir
  BY DEF IInv, HeapRises, Upgrade, Looping, CanRise
<1>2. \A j \in Uids(cir) : /\ MaxLevel(cir[j]) \in Nat
                           /\ level[j] \in 0 .. MaxLevel(cir[j])
                           /\ up[j] \in 0 .. MaxLevel(cir[j])
                           /\ j # i => up[j] = level[j]
  BY <1>1, UnitsAreUnits DEF IInv, LevelOK
<1>3. up[i] = level[i] + 1 BY <1>1 DEF IInv, LevelOK
<1>4. CostAt(cir[i], level[i]) \in Nat /\ CostAt(cir[i], up[i]) \in Nat
  BY <1>1, <1>2, UnitsAreUnits
<1> HIDE DEF up
<1>5. OutputTokens(cir, up) = OutputTokens(cir, level) - CostAt(cir[i], level[i])
                                                       + CostAt(cir[i], up[i])
  <2>1. /\ InputOK /\ i \in Uids(cir)
        /\ \A j \in Uids(cir) : /\ level[j] \in 0 .. MaxLevel(cir[j])
                                /\ up[j] \in 0 .. MaxLevel(cir[j])
                                /\ j # i => up[j] = level[j]
    BY <1>1, <1>2
  <2>2. PICK lv, hi : lv = level /\ hi = up OBVIOUS
  <2>3. /\ InputOK /\ i \in Uids(cir)
        /\ \A j \in Uids(cir) : /\ lv[j] \in 0 .. MaxLevel(cir[j])
                                /\ hi[j] \in 0 .. MaxLevel(cir[j])
                                /\ j # i => hi[j] = lv[j]
    BY <2>1, <2>2
  <2>4. OutputTokens(cir, hi) = OutputTokens(cir, lv) - CostAt(cir[i], lv[i])
                                                      + CostAt(cir[i], hi[i])
    BY <2>3, OutputChangesAt
  <2> QED BY <2>2, <2>4
<1>6. OutputTokens(cir, up) \in Nat /\ OutputTokens(cir, level) \in Nat
  BY <1>1, <1>2, OutputIsNat
<1>7. Cost = OutputTokens(cir, level) /\ Cost' = OutputTokens(cir, up)
  BY <1>1 DEF Cost, up
<1>8. StepCost(i) \in Nat /\ StepCost(i) >= CostAt(cir[i], up[i]) - CostAt(cir[i], level[i])
  BY <1>3, <1>4 DEF StepCost
<1> QED BY <1>4, <1>5, <1>6, <1>7, <1>8

LEMMA AccountsStart == Init => Accounts
BY DEF Init, Accounts, BaseOK, ShareOK, RoundOK, BudgetOK, CostOK, UnderWay, InRound

LEMMA AccountsKept == IInv /\ Accounts /\ [Next]_vars => Accounts'
<1> SUFFICES ASSUME IInv, Accounts, [Next]_vars PROVE Accounts' OBVIOUS
<1> USE DEF UnderWay, InRound
<1>1. /\ InputOK /\ RoomLeft
      /\ BaseOK /\ ShareOK /\ RoundOK /\ BudgetOK /\ CostOK
  BY DEF IInv, Accounts
<1>2. CASE FloorEverything
  <2>1. /\ stage = "floor" /\ stage' \in {"done", "split"}
        /\ level' = Floor(cir) /\ base' = OutputTokens(cir, level')
        /\ UNCHANGED <<cir, total>>
    BY <1>2 DEF FloorEverything
  <2>2. total' = 0 BY <1>1, <2>1 DEF BaseOK
  <2>3. base' \in Nat BY <1>1, <2>1, FloorCostsNat
  <2>4. Committed' = 0 BY <2>1, <2>2 DEF Committed
  <2>5. BaseOK' BY <2>1, <2>2 DEF BaseOK
  <2>6. CostOK'
    <3>1. \A x \in Nat : x <= x + 0 OBVIOUS
    <3>2. Cost' = base' BY <2>1 DEF Cost
    <3> QED BY <2>3, <2>4, <3>1, <3>2 DEF CostOK
  <2> QED BY <2>1, <2>2, <2>5, <2>6 DEF Accounts, ShareOK, RoundOK, BudgetOK
<1>3. CASE Split
  <2>1. /\ stage = "split" /\ stage' = "share"
        /\ share' \in Waterfill(Remaining) /\ pending' = Documents
        /\ UNCHANGED <<cir, budget, level, base, total, replaced>>
    BY <1>3 DEF Split
  <2>2. Remaining \in Nat BY <1>1, <2>1, RemainingIsNat
  <2>3. /\ share' \in [Documents -> Nat]
        /\ SumFunctionOnSet(share', Documents) <= Remaining
    BY <1>1, <2>1, <2>2, WaterfillFits
  <2>4. Documents' = Documents /\ Remaining' = Remaining /\ Cost' = Cost
    BY <2>1 DEF Documents, Upgradable, Remaining, Cost
  <2>5. total' = 0 /\ Committed' = Committed BY <1>1, <2>1 DEF BaseOK, Committed
  <2>6. IsFiniteSet(Documents) BY <1>1, DocumentsFinite
  <2>7. SumFunctionOnSet(share', Documents) \in Nat BY <2>3, <2>6, SumIsNat
  <2>8. Owed' = SumFunctionOnSet(share', Documents)
    BY <2>1, <2>7 DEF Owed
  <2>9. BudgetOK' BY <2>1, <2>3, <2>4, <2>5, <2>7, <2>8 DEF BudgetOK
  <2>10. BaseOK' BY <1>1, <2>1 DEF BaseOK
  <2>11. CostOK' BY <1>1, <2>1, <2>4, <2>5 DEF CostOK
  <2> QED BY <2>1, <2>3, <2>4, <2>9, <2>10, <2>11 DEF Accounts, ShareOK, RoundOK
<1>4. ASSUME stage \notin {"floor", "split"}, UNCHANGED <<cir, base>>
      PROVE  BaseOK'
  <2>1. stage' \in {"done"} \cup UnderWay
    BY <1>1, <1>4 DEF Next, vars, FloorEverything, Split, RunShare, Spill, Greedy, Fade,
       Reject, Requeue, Upgrade, Stop, Keep, Replace, Enter, Looping, call, BaseOK
  <2> QED BY <1>1, <1>4, <2>1 DEF BaseOK
<1>5. ASSUME stage \in UnderWay, UNCHANGED <<cir, share>>, pending' \subseteq pending
      PROVE  ShareOK'
  BY <1>1, <1>5 DEF ShareOK, Documents, Upgradable
<1>6. CASE RunShare
  <2>1. PICK d : /\ d = Min(pending) /\ pending' = pending \ {d}
                 /\ IF share[d] <= 0 THEN UNCHANGED <<stage, call>>
                                     ELSE Enter(Members(d), share[d])
    BY <1>6 DEF RunShare
  <2>2. /\ stage = "share" /\ pending # {}
        /\ UNCHANGED <<cir, budget, level, base, share, total, replaced>>
    BY <1>6 DEF RunShare
  <2>3. pending \subseteq Documents /\ share \in [Documents -> Nat]
    BY <1>1, <2>2 DEF ShareOK
  <2>4. d \in pending /\ share[d] \in Nat
    <3>1. pending \subseteq Nat BY <1>1, <2>3, DocumentsAreNat
    <3> QED BY <2>1, <2>2, <2>3, <3>1, MinIsLeast
  <2>5. SumFunctionOnSet(share, pending) = share[d] + SumFunctionOnSet(share, pending')
    <3>1. IsFiniteSet(pending)
      <4>1. pending \in SUBSET Documents BY <2>3
      <4> QED BY <1>1, <4>1, DocumentsFinite, FS_Subset
    <3>2. \A e \in pending : share[e] \in Int BY <2>3
    <3> QED BY <2>1, <2>4, <3>1, <3>2, SumTakesOne
  <2>6. SumFunctionOnSet(share, pending') \in Nat
    <3>1. pending' \in SUBSET pending BY <2>1
    <3> QED BY <1>1, <2>2, <3>1, SharesAreNat
  <2>7. Cost' = Cost /\ Remaining' = Remaining /\ Remaining \in Nat
    BY <1>1, <2>2, RemainingIsNat DEF Cost, Remaining
  <2>8. Owed = share[d] + SumFunctionOnSet(share, pending')
    BY <2>2, <2>4, <2>5, <2>6 DEF Owed
  <2>9. CASE share[d] <= 0
    <3>1. stage' = "share" BY <2>1, <2>2, <2>9 DEF call
    <3>2. Owed' = Owed BY <2>2, <2>4, <2>6, <2>8, <2>9, <3>1 DEF Owed
    <3>3. Committed' = Committed BY <2>2, <3>1 DEF Committed
    <3>4. BudgetOK' BY <1>1, <2>2, <2>7, <3>1, <3>2 DEF BudgetOK
    <3>5. CostOK' BY <1>1, <2>2, <2>7, <3>1, <3>3 DEF CostOK
    <3> QED BY <1>4, <1>5, <2>1, <2>2, <3>1, <3>4, <3>5 DEF Accounts, RoundOK
  <2>10. CASE ~ (share[d] <= 0)
    <3>1. stage' = "greedy" /\ quota' = share[d] /\ spent' = 0
      BY <2>1, <2>10 DEF Enter
    <3>2. Owed' = Owed BY <2>2, <2>8, <3>1 DEF Owed
    <3>3. ~replaced => Committed' = Committed
      BY <1>1, <2>2, <3>1 DEF Committed, BudgetOK
    <3>4. BudgetOK' BY <1>1, <2>2, <2>7, <3>1, <3>2 DEF BudgetOK
    <3>5. CostOK' BY <1>1, <2>2, <2>7, <3>1, <3>3 DEF CostOK
    <3>6. RoundOK' BY <2>4, <3>1 DEF RoundOK
    <3> QED BY <1>4, <1>5, <2>1, <2>2, <3>4, <3>5, <3>6 DEF Accounts
  <2> QED BY <2>9, <2>10
<1>7. CASE Spill
  <2>1. /\ stage = "share" /\ pending = {}
        /\ \/ Enter({i \in Upgradable : CanRise(i)}, Leftover)
              /\ Leftover > 8
           \/ stage' = "done" /\ UNCHANGED call
        /\ UNCHANGED <<cir, budget, level, base, share, pending, total, replaced>>
    BY <1>7 DEF Spill, Spills
  <2>2. Cost' = Cost /\ Remaining' = Remaining /\ Remaining \in Nat
    BY <1>1, <2>1, RemainingIsNat DEF Cost, Remaining
  <2>3. SumFunctionOnSet(share, pending) = 0 BY <2>1, SumOfNone
  <2>4. ~replaced => total \in Nat /\ total <= Remaining
    BY <1>1, <2>1, <2>2, <2>3 DEF BudgetOK, Owed
  <2>5. CASE stage' = "done"
    <3>1. Committed' = Committed BY <2>1, <2>5 DEF Committed
    <3>2. BudgetOK' BY <2>1, <2>2, <2>4, <2>5 DEF BudgetOK
    <3>3. CostOK' BY <1>1, <2>1, <2>2, <2>5, <3>1 DEF CostOK
    <3> QED BY <1>4, <1>5, <2>1, <2>5, <3>2, <3>3 DEF Accounts, RoundOK
  <2>6. CASE stage' = "greedy" /\ quota' = Leftover /\ spent' = 0 /\ Leftover > 8
    <3>1. ~replaced => Committed' = Committed
      BY <1>1, <2>1, <2>6 DEF Committed, BudgetOK
    <3>2. ~replaced => total' + Owed' = Remaining
      BY <2>1, <2>2, <2>3, <2>4, <2>6 DEF Owed, Leftover
    <3>3. BudgetOK' BY <1>1, <2>1, <2>2, <2>6, <3>2 DEF BudgetOK
    <3>4. CostOK' BY <1>1, <2>1, <2>2, <2>6, <3>1 DEF CostOK
    <3>5. RoundOK' BY <2>1, <2>2, <2>4, <2>6 DEF RoundOK, Leftover
    <3> QED BY <1>4, <1>5, <2>1, <3>3, <3>4, <3>5 DEF Accounts
  <2> QED BY <2>1, <2>5, <2>6 DEF Enter
<1>8. ASSUME stage \in InRound, stage' \in InRound,
             UNCHANGED <<cir, budget, level, base, share, pending, quota, spent, total, replaced>>
      PROVE  Accounts'
  <2>1. Cost' = Cost /\ Remaining' = Remaining /\ Owed' = Owed /\ Committed' = Committed
    BY <1>8 DEF Cost, Remaining, Owed, Committed
  <2>2. BudgetOK' BY <1>1, <1>8, <2>1 DEF BudgetOK
  <2>3. CostOK' BY <1>1, <1>8, <2>1 DEF CostOK
  <2>4. RoundOK' BY <1>1, <1>8 DEF RoundOK
  <2> QED BY <1>4, <1>5, <1>8, <2>2, <2>3, <2>4 DEF Accounts
<1>9. ASSUME NEW i \in heap, Fade(i) \/ Reject(i) \/ Requeue(i) PROVE Accounts'
  BY <1>8, <1>9 DEF Fade, Reject, Requeue, Looping
<1>10. ASSUME NEW i \in heap, Upgrade(i) PROVE Accounts'
  <2>1. /\ stage = "greedy" /\ stage' = "greedy"
        /\ spent' = spent + StepCost(i) /\ StepCost(i) <= quota - spent
        /\ UNCHANGED <<cir, budget, base, share, pending, quota, total, replaced>>
    BY <1>10 DEF Upgrade, Looping, Fits
  <2>2. /\ Cost \in Nat /\ Cost' \in Nat /\ StepCost(i) \in Nat
        /\ Cost' <= Cost + StepCost(i)
    BY <1>10, UpgradeIsCovered
  <2>3. Remaining' = Remaining /\ Owed' = Owed BY <2>1 DEF Remaining, Owed
  <2>4. RoundOK'
    <3>1. ASSUME ~replaced PROVE spent' \in Nat /\ spent' <= quota
      BY <1>1, <2>1, <2>2, <3>1 DEF RoundOK
    <3> QED BY <1>1, <2>1, <3>1 DEF RoundOK
  <2>5. BudgetOK' BY <1>1, <2>1, <2>3 DEF BudgetOK
  <2>6. CostOK'
    <3>1. SUFFICES ASSUME ~replaced PROVE Cost' <= base' + Committed'
      BY <2>1 DEF CostOK
    <3>2. /\ Committed = total + spent /\ Committed' = total + (spent + StepCost(i))
          /\ total \in Nat /\ spent \in Nat /\ base \in Nat
      BY <1>1, <2>1, <3>1, FloorCostsNat DEF Committed, BudgetOK, RoundOK, BaseOK
    <3>3. Cost <= base + (total + spent) BY <1>1, <2>1, <3>1, <3>2 DEF CostOK
    <3> QED BY <2>1, <2>2, <3>2, <3>3
  <2> QED BY <1>4, <1>5, <2>1, <2>4, <2>5, <2>6 DEF Accounts
<1>11. CASE Stop BY <1>8, <1>11 DEF Stop, call
<1>12. CASE Keep
  <2>1. /\ stage = "settle" /\ stage' = "share" /\ total' = total + spent
        /\ UNCHANGED <<cir, budget, level, base, share, pending, replaced>>
    BY <1>12 DEF Keep
  <2>2. /\ Cost' = Cost /\ Remaining' = Remaining
        /\ ~replaced => Committed' = Committed
        /\ Remaining \in Nat
    <3>1. Remaining \in Nat BY <1>1, <2>1, RemainingIsNat
    <3>2. Committed = total + spent BY <2>1 DEF Committed
    <3>3. ~replaced => Committed' = total' BY <1>1, <2>1 DEF Committed, BudgetOK, RoundOK
    <3> QED BY <2>1, <3>1, <3>2, <3>3 DEF Cost, Remaining
  <2>3. BudgetOK'
    <3>1. SUFFICES ASSUME ~replaced PROVE total' \in Nat /\ total' + Owed' <= Remaining
      BY <2>1, <2>2 DEF BudgetOK
    <3>2. SumFunctionOnSet(share, pending) \in Nat
      <4>1. pending \in SUBSET pending OBVIOUS
      <4> QED BY <1>1, <2>1, <4>1, SharesAreNat
    <3>3. Owed = quota + SumFunctionOnSet(share, pending) BY <2>1 DEF Owed
    <3>4. Owed' = SumFunctionOnSet(share, pending) BY <2>1, <3>2 DEF Owed
    <3>5. /\ total \in Nat /\ spent \in Nat /\ quota \in Nat /\ spent <= quota
          /\ total + Owed <= Remaining
      BY <1>1, <2>1, <3>1 DEF BudgetOK, RoundOK
    <3> QED BY <2>1, <2>2, <3>2, <3>3, <3>4, <3>5
  <2>4. CostOK' BY <1>1, <2>1, <2>2 DEF CostOK
  <2> QED BY <1>4, <1>5, <2>1, <2>3, <2>4 DEF Accounts, RoundOK
<1>13. CASE Replace
  <2>1. /\ stage = "settle" /\ stage' = "share" /\ replaced' = TRUE
        /\ UNCHANGED <<cir, base, share, pending>>
    BY <1>13 DEF Replace
  <2> QED BY <1>4, <1>5, <2>1 DEF Accounts, RoundOK, BudgetOK, CostOK
<1>14. CASE UNCHANGED vars
  <2>1. /\ Cost' = Cost /\ Remaining' = Remaining /\ Owed' = Owed
        /\ Committed' = Committed /\ Documents' = Documents
    BY <1>14 DEF vars, call, Cost, Remaining, Owed, Committed, Documents, Upgradable
  <2> QED BY <1>1, <1>14, <2>1 DEF vars, call, Accounts, BaseOK, ShareOK, RoundOK,
                                   BudgetOK, CostOK
<1> QED BY <1>2, <1>3, <1>6, <1>7, <1>9, <1>10, <1>11, <1>12, <1>13, <1>14
        DEF Next, Greedy


-----------------------------------------------------------------------------
\* Selection never leaves a unit below the floor its protection sets, whatever
\* the ladders, the costs, the budget and the order of the upgrades.
THEOREM FloorIsKept == Spec => []FloorHeld
<1>1. IInv => FloorHeld BY DEF IInv
<1> QED BY Invariant, <1>1, PTL

\* CascadeSelectPass implements the one-step contract of Selection: what it
\* returns is admissible, and it is the floor itself when the floor exhausts
\* the budget.
THEOREM ImplementsContract == Spec => ImplementsSelection
<1> DEFINE result == IF stage = "done" THEN level ELSE <<>>
<1>1. Init => Sel!Init BY DEF Init, Sel!Init
<1>2. IInv /\ IInv' /\ [Next]_vars => [Sel!Choose]_<<cir, budget, result>>
  <2> SUFFICES ASSUME IInv, IInv', [Next]_vars
               PROVE  Sel!Choose \/ UNCHANGED <<cir, budget, result>>
    OBVIOUS
  <2>1. UNCHANGED <<cir, budget>>
    BY DEF Next, vars, FloorEverything, Split, RunShare, Spill, Greedy, Fade,
           Reject, Requeue, Upgrade, Stop, Keep, Replace
  <2>2. CASE stage' # "done"
    <3>1. stage # "done"
      BY <2>2 DEF Next, vars, FloorEverything, Split, RunShare, Spill, Greedy,
             Fade, Reject, Requeue, Upgrade, Stop, Keep, Replace, Looping, Enter
    <3> QED BY <2>1, <2>2, <3>1
  <2>3. CASE stage = "done"
    <3>1. UNCHANGED <<stage, level>>
      BY <2>3 DEF Next, vars, FloorEverything, Split, RunShare, Spill, Greedy,
             Fade, Reject, Requeue, Upgrade, Stop, Keep, Replace, Looping, Enter
    <3> QED BY <2>1, <3>1
  <2>4. CASE stage # "done" /\ stage' = "done"
    <3>1. level' \in Seq(Nat) /\ Len(level') = Len(cir)
      <4>1. level' \in [1 .. Len(cir) -> Nat] /\ Len(cir) \in Nat
        BY <2>1 DEF IInv, LevelOK, Uids, InputOK
      <4> QED BY <4>1
    <3>2. Sel!Admissible(cir, level')
      <4>1. \A i \in Uids(cir) : /\ MinLevel(cir[i]) <= level'[i]
                                 /\ level'[i] <= MaxLevel(cir[i])
        BY <2>1, <2>4 DEF IInv, LevelOK, FloorHeld
      <4>2. \A i \in Uids(cir) : /\ level'[i] \in Nat /\ MaxLevel(cir[i]) \in Nat
                                 /\ MinLevel(cir[i]) \in Nat
        BY <2>1, UnitsAreUnits DEF IInv, LevelOK
      <4> QED BY <4>1, <4>2 DEF Sel!Admissible, Uids
    <3>3. Sel!Lowest(cir) = Floor(cir) BY DEF Sel!Lowest, Floor, Uids
    <3>4. Sel!Exhausted(cir, budget) => level' = Sel!Lowest(cir)
      <4>1. CASE FloorEverything BY <3>3, <4>1 DEF FloorEverything
      <4>2. CASE stage # "floor"
        BY <2>4, <3>3, <4>2 DEF IInv, RoomLeft, Sel!Exhausted
      <4>3. stage = "floor" => FloorEverything
        BY <2>4 DEF Next, vars, Split, RunShare, Spill, Greedy,
             Fade, Reject, Requeue, Upgrade, Stop, Keep, Replace, Looping
      <4> QED BY <4>1, <4>2, <4>3
    <3>5. CASE cir = <<>>
      <4>1. level' = <<>> BY <3>1, <3>5, EmptySeq
      <4> QED BY <2>1, <2>4, <4>1
    <3>6. CASE cir # <<>>
      <4>1. result = <<>> /\ result' = level' BY <2>4
      <4> QED BY <2>1, <3>1, <3>2, <3>4, <3>6, <4>1 DEF Sel!Choose, Sel!Outcome
    <3> QED BY <3>5, <3>6
  <2> QED BY <2>2, <2>3, <2>4
<1> QED BY <1>1, <1>2, Invariant, PTL DEF Spec, ImplementsSelection, Sel!Spec

\* As long as no best single upgrade has taken a round's place, the selected
\* rungs cost no more than the rounds account for, and the rounds, whatever the
\* heap yields and however the shares fall, stay inside the budget the floor
\* left: only the protection floor can exceed the budget.
THEOREM BudgetIsKept == Spec => []WithinBudget
<1>1. Init => IInv /\ Accounts BY Initially, AccountsStart
<1>2. IInv /\ Accounts /\ [Next]_vars => (IInv /\ Accounts)' BY Preserved, AccountsKept
<1>3. IInv /\ Accounts => WithinBudget
  <2> SUFFICES ASSUME IInv, Accounts, stage # "floor", ~replaced
               PROVE  /\ Cost <= base + Committed
                      /\ base + Committed <= budget \/ Committed = 0
    BY DEF WithinBudget
  <2>1. InputOK /\ RoomLeft /\ BaseOK /\ ShareOK /\ RoundOK /\ BudgetOK /\ CostOK
    BY DEF IInv, Accounts
  <2>2. Cost <= base + Committed BY <2>1 DEF CostOK
  <2>3. base \in Nat /\ budget \in Nat /\ total \in Nat
    BY <2>1, FloorCostsNat DEF BaseOK, InputOK, BudgetOK
  <2>4. CASE stage \notin UnderWay
    <3>1. Committed = total BY <2>3, <2>4 DEF Committed, UnderWay
    <3>2. total = 0 \/ total <= budget - base
      <4>1. CASE stage = "done" BY <2>1, <4>1 DEF BudgetOK, Remaining
      <4>2. CASE stage = "split" BY <2>1, <4>2 DEF BaseOK
      <4> QED BY <2>1, <2>4, <4>1, <4>2 DEF BaseOK
    <3> QED BY <2>2, <2>3, <3>1, <3>2
  <2>5. CASE stage \in UnderWay
    <3>1. SumFunctionOnSet(share, pending) \in Nat
      <4>1. pending \in SUBSET pending OBVIOUS
      <4> QED BY <2>1, <2>5, <4>1, SharesAreNat
    <3>2. Committed <= total + Owed /\ Committed \in Nat /\ Owed \in Nat
      BY <2>1, <2>3, <2>5, <3>1 DEF Committed, Owed, RoundOK, InRound, UnderWay
    <3>3. total + Owed <= budget - base BY <2>1, <2>5 DEF BudgetOK, Remaining
    <3> QED BY <2>2, <2>3, <3>2, <3>3
  <2> QED BY <2>4, <2>5
<1> QED BY <1>1, <1>2, <1>3, PTL DEF Spec

-----------------------------------------------------------------------------
(***************************************************************************)
(* The pushes of a call.  An entry that may still be put back before the   *)
(* next upgrade is charged for in advance, so the bound is inductive.      *)
(***************************************************************************)
PushOK == /\ IsFiniteSet(pool) /\ heap \subseteq pool
          /\ spent \in Nat /\ counter \in Nat
          /\ counter + Cardinality(heap \ fresh) <= Cardinality(pool) * (1 + spent)

\* The lemma on numbers: a round more for every token.
LEMMA OneMoreRound ==
    ASSUME NEW p \in Nat, NEW s \in Nat, NEW c \in Nat, c >= 1
    PROVE  p * (1 + s) + p <= p * (1 + (s + c))
<1>1. p * (1 + (s + c)) = p * (1 + s) + p * c OBVIOUS
<1>2. p <= p * c
  <2>1. p * c = p + p * (c - 1) OBVIOUS
  <2>2. p * (c - 1) \in Nat OBVIOUS
  <2> QED BY <2>1, <2>2
<1>3. p * (1 + s) \in Nat /\ p * c \in Nat OBVIOUS
<1> QED BY <1>1, <1>2, <1>3

LEMMA PushesKept == IInv /\ PushOK /\ [Next]_vars => PushOK'
<1> SUFFICES ASSUME IInv, PushOK, [Next]_vars PROVE PushOK' OBVIOUS
<1>1. /\ IsFiniteSet(pool) /\ heap \subseteq pool /\ spent \in Nat /\ counter \in Nat
      /\ counter + Cardinality(heap \ fresh) <= Cardinality(pool) * (1 + spent)
  BY DEF PushOK
<1>2. Cardinality(pool) \in Nat /\ IsFiniteSet(heap) /\ Cardinality(heap) <= Cardinality(pool)
  BY <1>1, FS_Subset, FS_CardinalityType
<1>3. ASSUME UNCHANGED call PROVE PushOK'
  BY <1>1, <1>3 DEF call, PushOK
<1>4. ASSUME NEW units, NEW b, Enter(units, b), units \subseteq Uids(cir)
      PROVE  PushOK'
  <2>1. IsFiniteSet(units) BY <1>4, UidsFinite, FS_Subset DEF IInv
  <2>2. heap' \subseteq units /\ fresh' = heap' /\ pool' = units /\ spent' = 0
        /\ counter' = Cardinality(heap')
    BY <1>4 DEF Enter
  <2>3. /\ Cardinality(heap') \in Nat /\ Cardinality(units) \in Nat
        /\ Cardinality(heap') <= Cardinality(units)
    BY <2>1, <2>2, FS_Subset, FS_CardinalityType
  <2>4. Cardinality(heap' \ fresh') = 0 BY <2>2, FS_EmptySet
  <2> QED BY <2>1, <2>2, <2>3, <2>4 DEF PushOK
<1>5. ASSUME NEW i \in heap, Fade(i) \/ Reject(i) PROVE PushOK'
  <2>1. /\ heap' = heap \ {i} /\ fresh' \in {fresh, fresh \ {i}}
        /\ UNCHANGED <<pool, spent, counter>>
    BY <1>5 DEF Fade, Reject
  <2>2. heap' \ fresh' \subseteq heap \ fresh BY <2>1
  <2>3. IsFiniteSet(heap \ fresh) BY <1>2, FS_Subset
  <2>4. /\ Cardinality(heap' \ fresh') \in Nat /\ Cardinality(heap \ fresh) \in Nat
        /\ Cardinality(heap' \ fresh') <= Cardinality(heap \ fresh)
    BY <2>2, <2>3, FS_Subset, FS_CardinalityType
  <2> QED BY <1>1, <1>2, <2>1, <2>4 DEF PushOK
<1>6. ASSUME NEW i \in heap, Requeue(i) PROVE PushOK'
  <2>1. /\ i \in heap \ fresh /\ fresh' = fresh \cup {i} /\ counter' = counter + 1
        /\ UNCHANGED <<pool, heap, spent>>
    BY <1>6 DEF Requeue, Pushed
  <2>2. heap' \ fresh' = (heap \ fresh) \ {i} BY <2>1
  <2>3. IsFiniteSet(heap \ fresh) BY <1>2, FS_Subset
  <2>4. /\ Cardinality(heap \ fresh) \in Nat
        /\ Cardinality(heap' \ fresh') = Cardinality(heap \ fresh) - 1
    BY <2>1, <2>2, <2>3, FS_RemoveElement, FS_CardinalityType
  <2> QED BY <1>1, <1>2, <2>1, <2>4 DEF PushOK
<1>7. ASSUME NEW i \in heap, Upgrade(i) PROVE PushOK'
  <2>1. StepCost(i) \in Nat /\ StepCost(i) >= 1
    <3>1. StepCost(i) \in Nat BY <1>7, UpgradeIsCovered
    <3> QED BY <3>1 DEF StepCost
  <2>2. /\ spent' = spent + StepCost(i) /\ pool' = pool /\ heap' \subseteq heap
        /\ \/ heap' = heap /\ fresh' = {i} /\ counter' = counter + 1
           \/ heap' = heap \ {i} /\ counter' = counter
    BY <1>7 DEF Upgrade
  <2>3. heap' \ fresh' \subseteq heap \ {i} BY <2>2
  <2>4. Cardinality(heap \ {i}) = Cardinality(heap) - 1 /\ Cardinality(heap) \in Nat
    BY <1>2, FS_RemoveElement, FS_CardinalityType
  <2>5. /\ Cardinality(heap' \ fresh') \in Nat
        /\ Cardinality(heap' \ fresh') <= Cardinality(heap) - 1
    BY <1>2, <2>3, <2>4, FS_Subset, FS_CardinalityType
  <2>6. Cardinality(heap \ fresh) \in Nat BY <1>2, FS_Subset, FS_CardinalityType
  <2>7. Cardinality(pool) * (1 + spent) + Cardinality(pool)
           <= Cardinality(pool) * (1 + (spent + StepCost(i)))
    BY <1>1, <1>2, <2>1, OneMoreRound
  <2>8. /\ counter' \in Nat /\ counter' <= counter + 1
        /\ spent' \in Nat /\ Cardinality(pool) * (1 + spent) \in Nat
        /\ Cardinality(pool) * (1 + (spent + StepCost(i))) \in Nat
    BY <1>1, <1>2, <2>1, <2>2
  <2>9. counter' + Cardinality(heap' \ fresh')
           <= Cardinality(pool) * (1 + (spent + StepCost(i)))
    BY <1>1, <1>2, <2>4, <2>5, <2>6, <2>7, <2>8
  <2> QED BY <1>1, <2>2, <2>8, <2>9 DEF PushOK
<1>8. CASE RunShare
  <2>1. PICK d : IF share[d] <= 0 THEN UNCHANGED <<stage, call>>
                                  ELSE Enter(Members(d), share[d])
    BY <1>8 DEF RunShare
  <2>2. Members(d) \subseteq Uids(cir) BY DEF Members, Upgradable
  <2> QED BY <1>3, <1>4, <2>1, <2>2
<1>9. CASE Spill
  <2>1. {i \in Upgradable : CanRise(i)} \subseteq Uids(cir) BY DEF Upgradable
  <2>2. UNCHANGED call \/ Enter({i \in Upgradable : CanRise(i)}, Leftover)
    BY <1>9 DEF Spill
  <2> QED BY <1>3, <1>4, <2>1, <2>2
<1>10. CASE FloorEverything \/ Split \/ Stop \/ Keep \/ Replace
  BY <1>3, <1>10 DEF FloorEverything, Split, Stop, Keep, Replace
<1>11. CASE UNCHANGED vars BY <1>3, <1>11 DEF vars, call
<1> QED BY <1>5, <1>6, <1>7, <1>8, <1>9, <1>10, <1>11 DEF Next, Greedy

\* The lazy heap does not churn: whatever the gains do, a call pushes an entry
\* per unit and per token it spends at most, so its loop ends.
THEOREM HeapDoesNotChurn == Spec => []PushesBounded
<1>1. Init => IInv /\ PushOK
  <2> SUFFICES ASSUME Init PROVE PushOK BY Initially
  <2>1. pool = {} /\ heap = {} /\ counter = 0 /\ spent = 0 BY DEF Init
  <2>2. heap \ fresh = {} BY <2>1
  <2> QED BY <2>1, <2>2, FS_EmptySet DEF PushOK
<1>2. IInv /\ PushOK /\ [Next]_vars => (IInv /\ PushOK)' BY Preserved, PushesKept
<1>3. PushOK => PushesBounded
  <2> SUFFICES ASSUME PushOK PROVE PushesBounded OBVIOUS
  <2>1. Cardinality(pool) \in Nat /\ Cardinality(heap \ fresh) \in Nat
    BY FS_Subset, FS_CardinalityType DEF PushOK
  <2> QED BY <2>1 DEF PushOK, PushesBounded
<1> QED BY <1>1, <1>2, <1>3, PTL DEF Spec
=============================================================================
