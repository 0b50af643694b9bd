-------------------------- MODULE CompressorProofs --------------------------
(***************************************************************************)
(* What holds of one compress call for every document and policy.  The     *)
(* argument is the inductive invariant IInv below; the facts about a       *)
(* repair that is admitted are collected in OptionFacts.                   *)
(***************************************************************************)
EXTENDS Compressor, Induction, SequenceTheorems

DocOK == doc \in Documents

\* Nothing has been repaired before the first rendering.
FreshStart == rounds = 0 /\ phase \in {"select", "closure"} => seen = {}

\* In the first adaptive round a repaired key sits in a FACT unit or at or below
\* its owner's level: what RepairsStick needs to be inductive.
InFact(k)  == \E f \in Uids(cir) : IsFact(f) /\ level[f] = 1 /\ k \in ClaimsAt(cir[f], 1)
AtOwner(k) == \E j \in 1 .. level[Owner(k)] : k \in ClaimsAt(cir[Owner(k)], j)
Stuck == rounds = 0 =>
    \A k \in seen : Owner(k) \in Uids(doc.cir) /\ (InFact(k) \/ AtOwner(k))

\* A repair that changed something is remembered until the next rendering.
Tracked == /\ phase = "verify" => output = level
           /\ phase = "repair" => dirty \/ output = level
           /\ OutputIsCurrent

\* While nothing has been repaired in this round, the queue holds what is left
\* of the audit, and a group that has left it had no affordable repair.
Waiting(i, keys, limit) ==
    \/ keys \subseteq DOMAIN queue
    \/ Affordable(i, keys, limit) = {} /\ keys \cap DOMAIN queue = {}
QueueOK == phase = "repair" /\ ~dirty =>
    /\ \A k \in DOMAIN queue : k \in Missing /\ Repairable(k) /\ queue[k] = Rank(k)
    /\ \A i \in Uids(doc.cir) :
          /\ Waiting(i, Unserved(i, Integrity \cup Critical), HardCap)
          /\ Waiting(i, Unserved(i, Other), Cap)

Base == DocOK /\ TypeOK

IInv == Base /\ ProtectionHeld /\ RepairBounded /\ FreshStart /\ Stuck /\ Tracked
             /\ QueueOK /\ RepairExhausted

-----------------------------------------------------------------------------
(***************************************************************************)
(* Facts about the operators.                                              *)
(***************************************************************************)
\* The least element of a set of naturals is one of them.
LEMMA MinIsLeast ==
    ASSUME NEW S, S \subseteq Nat, S # {}
    PROVE  Min(S) \in S
BY LeastExists DEF Min

\* Unit.min_level is one of the unit's levels.
LEMMA MinLevelInLadder ==
    ASSUME NEW u \in Unit
    PROVE  /\ MaxLevel(u) \in Nat /\ MinLevel(u) \in Nat
           /\ MinLevel(u) <= MaxLevel(u)
<1>1. u.rungs \in Seq(Rung) BY DEF Unit
<1>2. MaxLevel(u) \in Nat BY <1>1 DEF MaxLevel
<1>3. u.rungs # <<>> => MaxLevel(u) >= 1 BY <1>1, <1>2, EmptySeq DEF MaxLevel
<1>4. Carrying(u) # {} => Min(Carrying(u)) \in 1 .. MaxLevel(u)
  <2>1. Carrying(u) \subseteq 1 .. MaxLevel(u) BY DEF Carrying
  <2>2. Carrying(u) \subseteq Nat BY <1>2, <2>1
  <2> QED BY <2>1, <2>2, MinIsLeast
<1> QED BY <1>2, <1>3, <1>4 DEF MinLevel

\* The cost of a level of the ladder is a number of tokens.
LEMMA CostIsNat ==
    ASSUME NEW u \in Unit, NEW j \in 0 .. MaxLevel(u)
    PROVE  CostAt(u, j) \in Nat
<1>1. u.rungs \in Seq(Rung) BY DEF Unit
<1>2. j # 0 => u.rungs[j] \in Rung
  <2> SUFFICES ASSUME j # 0 PROVE u.rungs[j] \in Rung OBVIOUS
  <2>1. j \in 1 .. Len(u.rungs) BY <1>1 DEF MaxLevel
  <2> QED BY <1>1, <2>1
<1> QED BY <1>2 DEF CostAt, Rung

LEMMA DocFacts ==
    ASSUME DocOK
    PROVE  /\ doc.cir \in Seq(Unit) /\ doc.tokensIn \in Nat /\ doc.budget \in Nat
           /\ doc.carrier \in [SUBSET Key -> Nat] /\ Len(doc.cir) \in Nat
           /\ doc.maxRounds \in Nat
           /\ doc.audited \subseteq Key
<1>1. doc \in Document BY DocumentsAssumption DEF DocOK
<1>2. /\ doc.cir \in Seq(Unit) /\ doc.carrier \in [SUBSET Key -> Nat]
      /\ doc.tokensIn \in Nat /\ doc.budget \in Nat /\ doc.maxRounds \in Nat
      /\ doc.audited \in SUBSET Key
  BY <1>1, Zenon DEF Document
<1> QED BY <1>2

LEMMA LadderFacts ==
    ASSUME Base, NEW i \in Uids(cir)
    PROVE  /\ cir[i] \in Unit
           /\ level[i] \in Nat /\ MaxLevel(cir[i]) \in Nat /\ MinLevel(cir[i]) \in Nat
           /\ level[i] <= MaxLevel(cir[i]) /\ MinLevel(cir[i]) <= MaxLevel(cir[i])
<1>1. cir[i] \in Unit BY DEF Base, TypeOK, Uids
<1>2. level[i] \in Nat BY DEF Base, TypeOK, Uids
<1> QED BY <1>1, <1>2, MinLevelInLadder DEF Base, TypeOK

\* The caps on what repair may spend are numbers, and a larger budget lowers
\* neither.
LEMMA CapFacts ==
    ASSUME Base
    PROVE  Cap \in Nat /\ HardCap \in Nat /\ HardCap >= 48 /\ HardCap >= Cap
<1>1. budget \in Nat /\ doc.tokensIn \in Nat BY DocFacts DEF Base, TypeOK
<1>2. (35 * budget) \div 100 \in Nat /\ (45 * doc.tokensIn) \div 100 \in Nat BY <1>1
<1> QED BY <1>2 DEF Cap, HardCap, Larger

\* A repair that fits costs no more than what is left of the limit; a promotion
\* leads to a rung at or above the present one that carries the whole group.
LEMMA OptionFacts ==
    ASSUME Base, NEW i \in Uids(doc.cir), NEW group \in SUBSET Key, NEW limit \in Nat,
           NEW o \in Affordable(i, group, limit)
    PROVE  /\ o.cost \in Nat /\ spent + o.cost <= limit
           /\ o.how = "promote" =>
                 /\ o.rung \in Nat /\ o.rung >= 1 /\ o.rung >= level[i]
                 /\ o.rung <= MaxLevel(cir[i])
                 /\ Carries(cir[i], o.rung, group)
<1>1. i \in Uids(cir)
  BY DocFacts DEF Base, TypeOK, Uids
<1>2. /\ cir[i] \in Unit /\ level[i] \in Nat /\ MaxLevel(cir[i]) \in Nat
      /\ level[i] <= MaxLevel(cir[i])
  BY <1>1, LadderFacts
<1>3. spent + o.cost <= limit /\ (o \in Promotions(i, group) \/ o \in Carriers(group))
  BY DEF Affordable, Within
<1>4. CASE o \in Carriers(group)
  <2>1. o.how = "carrier" /\ o.cost = doc.carrier[group] + 1
    BY <1>4 DEF Carriers
  <2>2. doc.carrier[group] \in Nat BY DocFacts DEF Base
  <2> QED BY <1>3, <2>1, <2>2
<1>5. CASE o \in Promotions(i, group)
  <2> DEFINE enough == {j \in FromHere(i) .. MaxLevel(cir[i]) : Carries(cir[i], j, group)}
  <2>1. FromHere(i) \in Nat /\ FromHere(i) >= 1 /\ FromHere(i) >= level[i]
    BY <1>2 DEF FromHere, Larger
  <2>2. enough # {} /\ o = [how |-> "promote", rung |-> Min(enough),
           cost |-> Larger(0, CostAt(cir[i], Min(enough)) - CostAt(cir[i], level[i]))]
    BY <1>5 DEF Promotions
  <2>3. enough \subseteq Nat BY <1>2, <2>1
  <2>4. Min(enough) \in enough BY <2>2, <2>3, MinIsLeast
  <2>5. /\ Min(enough) \in 0 .. MaxLevel(cir[i]) /\ level[i] \in 0 .. MaxLevel(cir[i])
    BY <1>2, <2>1, <2>4
  <2>6. CostAt(cir[i], Min(enough)) \in Nat /\ CostAt(cir[i], level[i]) \in Nat
    BY <1>2, <2>5, CostIsNat
  <2>7. Larger(0, CostAt(cir[i], Min(enough)) - CostAt(cir[i], level[i])) \in Nat
    BY <2>6 DEF Larger
  <2>8. o.rung = Min(enough)
        /\ o.cost = Larger(0, CostAt(cir[i], Min(enough)) - CostAt(cir[i], level[i]))
    BY <2>2
  <2> HIDE DEF enough
  <2>9. o.cost \in Nat BY <2>7, <2>8
  <2>10. o.rung \in enough BY <2>4, <2>8
  <2>11. o.rung \in FromHere(i) .. MaxLevel(cir[i]) /\ Carries(cir[i], o.rung, group)
    BY <2>10 DEF enough
  <2> QED BY <1>2, <1>3, <2>1, <2>9, <2>11
<1> QED BY <1>3, <1>4, <1>5

\* Closing never lowers a unit, except a heading that may be dropped.
LEMMA CloseFacts ==
    ASSUME Base, level' = WithoutOrphans(Canonical(Closed(level)))
    PROVE  /\ level' \in [Uids(cir) -> Nat]
           /\ \A i \in Uids(cir) : /\ level'[i] <= MaxLevel(cir[i])
                                   /\ ~Droppable(cir[i]) => level'[i] >= level[i]
<1>1. \A i \in Uids(cir) : level[i] \in Nat /\ MaxLevel(cir[i]) \in Nat
                           /\ level[i] <= MaxLevel(cir[i])
  BY LadderFacts
<1>2. ASSUME NEW lv, NEW wanted,
             \A i \in Uids(cir) : lv[i] \in Nat /\ lv[i] <= MaxLevel(cir[i]) /\ lv[i] >= level[i]
      PROVE  \A i \in Uids(cir) : /\ Stub(lv, wanted)[i] \in Nat
                                  /\ Stub(lv, wanted)[i] <= MaxLevel(cir[i])
                                  /\ Stub(lv, wanted)[i] >= level[i]
  BY <1>1, <1>2 DEF Stub
<1>3. \A i \in Uids(cir) : /\ Closed(level)[i] \in Nat
                           /\ Closed(level)[i] <= MaxLevel(cir[i])
                           /\ Closed(level)[i] >= level[i]
  BY <1>1, <1>2 DEF Closed
<1>4. \A i \in Uids(cir) : /\ Canonical(Closed(level))[i] \in Nat
                           /\ Canonical(Closed(level))[i] <= MaxLevel(cir[i])
                           /\ Canonical(Closed(level))[i] >= level[i]
  <2> DEFINE lv == Closed(level)
  <2> HIDE DEF lv
  <2>1. \A i \in Uids(cir) : lv[i] \in Nat /\ lv[i] <= MaxLevel(cir[i]) /\ lv[i] >= level[i]
    BY <1>3 DEF lv
  <2>2. \A i \in Uids(cir) : /\ Canonical(lv)[i] \in Nat
                             /\ Canonical(lv)[i] <= MaxLevel(cir[i])
                             /\ Canonical(lv)[i] >= level[i]
    BY <1>2, <2>1 DEF Canonical
  <2> QED BY <2>2 DEF lv
<1>5. level' = [h \in Uids(cir) |->
          IF Droppable(cir[h]) /\ IsOrphan(h, Canonical(Closed(level)))
            THEN 0 ELSE Canonical(Closed(level))[h]]
  BY DEF WithoutOrphans
<1> QED BY <1>1, <1>4, <1>5

\* What an admitted repair of unit i does.  A promotion raises the unit to a
\* rung that carries the group; otherwise a FACT unit with the group is added.
LEMMA RepairFacts ==
    ASSUME IInv, NEW i \in Uids(doc.cir), RepairGroup(i)
    PROVE  /\ phase = "repair" /\ UNCHANGED <<doc, budget, phase, output, repairs, rounds, fallback>>
           /\ at' = i /\ Group(i) \subseteq Key /\ Limit(i) \in {Cap, HardCap}
           /\ \A k \in Group(i) : Owner(k) = i
           /\ queue' = Serve(Group(i))
           /\ \/ /\ UNCHANGED <<cir, level, spent, seen, dirty>>
                 /\ Affordable(i, Group(i), Limit(i)) = {}
              \/ \E o \in Affordable(i, Group(i), Limit(i)) : Admit(i, Group(i), o)
<1>1. Pending(i) \subseteq DOMAIN queue /\ Group(i) \subseteq Pending(i)
  BY DEF Pending, Group, Exempt
<1>2. DOMAIN queue \subseteq Key BY DEF IInv, Base, TypeOK
<1>3. \A k \in Pending(i) : Owner(k) = i BY DEF Pending
<1>4. Limit(i) \in {Cap, HardCap} BY DEF Limit
<1>5. /\ phase = "repair" /\ UNCHANGED <<doc, budget, phase, output, repairs, rounds, fallback>>
      /\ at' = i /\ queue' = Serve(Group(i))
  BY DEF RepairGroup
<1>6. \/ /\ UNCHANGED <<cir, level, spent, seen, dirty>>
         /\ Affordable(i, Group(i), Limit(i)) = {}
      \/ \E o \in Affordable(i, Group(i), Limit(i)) : Admit(i, Group(i), o)
  BY DEF RepairGroup
<1> QED BY <1>1, <1>2, <1>3, <1>4, <1>5, <1>6

LEMMA AdmitFacts ==
    ASSUME Base, NEW i \in Uids(doc.cir), NEW group \in SUBSET Key, NEW limit \in Nat,
           NEW o \in Affordable(i, group, limit), Admit(i, group, o), UNCHANGED doc
    PROVE  /\ cir' \in Seq(Unit) /\ level' \in Seq(Nat) /\ Len(level') = Len(cir')
           /\ Len(cir) <= Len(cir')
           /\ \A u \in Uids(cir) : cir'[u] = cir[u] /\ level[u] <= level'[u]
           /\ \A u \in Uids(cir) : u # i => level'[u] = level[u]
           /\ \A u \in Uids(cir') : level'[u] <= MaxLevel(cir'[u])
           /\ \A u \in Uids(cir') : u \notin Uids(cir) =>
                 cir'[u].prot = LOCKED /\ IsFact(u) /\ MinLevel(cir'[u]) = 1 /\ level'[u] = 1
           /\ spent' \in Nat /\ spent' <= limit
           /\ seen' = seen \cup group /\ dirty' = TRUE
           /\ \/ \E j \in 1 .. level'[i] : group \subseteq ClaimsAt(cir[i], j)
              \/ \E f \in Uids(cir') : /\ IsFact(f) /\ level'[f] = 1
                                       /\ group \subseteq ClaimsAt(cir'[f], 1)
<1>1. /\ cir \in Seq(Unit) /\ level \in Seq(Nat) /\ Len(level) = Len(cir)
      /\ Len(cir) \in Nat /\ spent \in Nat /\ seen \subseteq Key
      /\ Len(doc.cir) \in Nat /\ Len(doc.cir) <= Len(cir)
  BY DocFacts DEF Base, TypeOK
<1>2. i \in Uids(cir) BY <1>1 DEF Uids
<1>3. \A u \in Uids(cir) : /\ cir[u] \in Unit /\ level[u] \in Nat /\ MaxLevel(cir[u]) \in Nat
                           /\ level[u] <= MaxLevel(cir[u])
  BY LadderFacts
<1>4. /\ o.cost \in Nat /\ spent + o.cost <= limit
      /\ o.how = "promote" =>
            /\ o.rung \in Nat /\ o.rung >= 1 /\ o.rung >= level[i]
            /\ o.rung <= MaxLevel(cir[i])
            /\ Carries(cir[i], o.rung, group)
  BY OptionFacts
<1>5. spent' = spent + o.cost /\ seen' = seen \cup group /\ dirty' = TRUE
  BY DEF Admit, AsksRender
<1>6. spent' \in Nat /\ spent' <= limit BY <1>1, <1>4, <1>5
<1>7. CASE o.how = "promote"
  <2>1. level' = [level EXCEPT ![i] = o.rung] /\ cir' = cir BY <1>7 DEF Admit
  <2>2. level' \in Seq(Nat) /\ Len(level') = Len(level)
        /\ \A u \in Uids(cir) : level'[u] = IF u = i THEN o.rung ELSE level[u]
    BY <1>1, <1>2, <1>4, <1>7, <2>1, ExceptSeq DEF Uids
  <2>3. \A u \in Uids(cir) : level[u] <= level'[u] /\ level'[u] <= MaxLevel(cir[u])
    BY <1>2, <1>3, <1>4, <1>7, <2>2
  <2>4. o.rung \in 1 .. level'[i] /\ group \subseteq ClaimsAt(cir[i], o.rung)
    BY <1>2, <1>4, <1>7, <2>2 DEF Carries, ClaimsAt
  <2> QED BY <1>1, <1>5, <1>6, <2>1, <2>2, <2>3, <2>4
<1>8. CASE o.how # "promote"
  <2> DEFINE f == Fact(i, group, o.cost)
  <2>1. cir' = Append(cir, f) /\ level' = Append(level, 1)
    BY <1>8 DEF Admit, WithFactLevel
  <2>2. f \in Unit
    <3>1. cir[i].doc \in Nat BY <1>2, <1>3 DEF Unit
    <3>2. [cost |-> o.cost, claims |-> group, shows |-> group, foreign |-> FALSE] \in Rung
      BY <1>4 DEF Rung
    <3>3. LOCKED \in Level BY DEF LOCKED, Level, DROPPABLE, FROZEN
    <3> QED BY <3>1, <3>2, <3>3 DEF Fact, Unit
  <2>3. /\ f.prot = LOCKED /\ f.own = group /\ Len(f.rungs) = 1 /\ f.rungs # <<>>
        /\ f.rungs[1].claims = group
    BY DEF Fact
  <2> HIDE DEF f
  <2>4. /\ cir' \in Seq(Unit) /\ Len(cir') = Len(cir) + 1
        /\ \A u \in Uids(cir) : cir'[u] = cir[u]
        /\ cir'[Len(cir) + 1] = f
    BY <1>1, <2>1, <2>2, AppendProperties DEF Uids
  <2>5. /\ level' \in Seq(Nat) /\ Len(level') = Len(cir) + 1
        /\ \A u \in Uids(cir) : level'[u] = level[u]
        /\ level'[Len(cir) + 1] = 1
    BY <1>1, <2>1, AppendProperties DEF Uids
  <2>6. \A u \in Uids(cir') : u \in Uids(cir) \/ u = Len(cir) + 1
    BY <1>1, <2>4 DEF Uids
  <2>7. MaxLevel(f) = 1 /\ MinLevel(f) = 1
    <3>1. MaxLevel(f) = 1 BY <2>3 DEF MaxLevel
    <3>2. Carrying(f) = {1} BY <2>3, <3>1 DEF Carrying
    <3>3. Min({1}) = 1 BY MinIsLeast, {1} \subseteq Nat
    <3> QED BY <2>3, <3>1, <3>2, <3>3 DEF MinLevel, LOCKED, ANCHORED
  <2>8. IsFact(Len(cir) + 1) BY <1>1 DEF IsFact
  <2>9. group \subseteq ClaimsAt(f, 1) BY <2>3 DEF ClaimsAt
  <2>10. Len(cir) + 1 \in Uids(cir') BY <1>1, <2>4 DEF Uids
  <2>11. \A u \in Uids(cir') : level'[u] <= MaxLevel(cir'[u])
    BY <1>3, <2>4, <2>5, <2>6, <2>7
  <2>12. \A u \in Uids(cir') : u \notin Uids(cir) =>
             cir'[u].prot = LOCKED /\ IsFact(u) /\ MinLevel(cir'[u]) = 1 /\ level'[u] = 1
    BY <2>3, <2>4, <2>5, <2>6, <2>7, <2>8
  <2>13. \E g \in Uids(cir') : /\ IsFact(g) /\ level'[g] = 1
                               /\ group \subseteq ClaimsAt(cir'[g], 1)
    BY <2>4, <2>5, <2>8, <2>9, <2>10
  <2>14. \A u \in Uids(cir) : level[u] <= level'[u] BY <1>3, <2>5
  <2> QED BY <1>1, <1>5, <1>6, <2>4, <2>5, <2>11, <2>12, <2>13, <2>14
<1> QED BY <1>7, <1>8

\* The audit and the price of a repair depend on no other variable.
LEMMA AuditDependsOn ==
    ASSUME UNCHANGED <<doc, cir, level, output, seen, spent, budget>>
    PROVE  /\ Integrity' = Integrity /\ Critical' = Critical /\ Other' = Other
           /\ Cap' = Cap /\ HardCap' = HardCap
           /\ \A k : Repairable(k)' = Repairable(k) /\ Rank(k)' = Rank(k)
           /\ \A i, keys : Unserved(i, keys)' = Unserved(i, keys)
           /\ \A i, keys, limit : Affordable(i, keys, limit)' = Affordable(i, keys, limit)
<1>1. Retained' = Retained BY DEF Retained, Uids, ClaimsAt
<1>2. Printed' = Printed BY DEF Printed, IsFact
<1>3. \A i : InBody(i)' = InBody(i) BY DEF InBody, IsFact
<1>4. Interning' = Interning BY <1>2, <1>3 DEF Interning
<1>5. \A i : Hidden(i)' = Hidden(i) BY <1>3, <1>4 DEF Hidden
<1>6. Shown' = Shown BY <1>2, <1>5 DEF Shown, ShowsAt
<1>7. Integrity' = Integrity /\ Critical' = Critical /\ Other' = Other
  BY <1>1, <1>6 DEF Integrity, Critical, Other
<1>8. Cap' = Cap BY DEF Cap, Larger
<1>9. HardCap' = HardCap BY <1>8 DEF HardCap, Larger
<1>10. \A k : Holders(k)' = Holders(k) BY DEF Holders, Uids
<1>11. \A k : Owner(k)' = Owner(k) BY <1>10 DEF Owner
<1>12. \A k : Repairable(k)' = Repairable(k) BY <1>10 DEF Repairable
<1>13. \A k : Rank(k)' = Rank(k) BY <1>7 DEF Rank
<1>14. \A i, keys : Unserved(i, keys)' = Unserved(i, keys) BY <1>10, <1>11 DEF Unserved
<1>15. \A i, keys : Promotions(i, keys)' = Promotions(i, keys)
  BY DEF Promotions, FromHere, Larger, MaxLevel, Carries, CostAt
<1>16. \A keys : Carriers(keys)' = Carriers(keys) BY DEF Carriers
<1>17. \A i, keys, limit : Affordable(i, keys, limit)' = Affordable(i, keys, limit)
  BY <1>15, <1>16 DEF Affordable, Within
<1> QED BY <1>7, <1>8, <1>9, <1>12, <1>13, <1>14, <1>17

-----------------------------------------------------------------------------
(***************************************************************************)
(* The invariant.                                                          *)
(***************************************************************************)
LEMMA Initially == Init => IInv
<1> SUFFICES ASSUME Init PROVE IInv OBVIOUS
<1>1. DocOK BY DEF Init, DocOK
<1>2. doc.cir \in Seq(Unit) /\ doc.budget \in Nat /\ Len(doc.cir) \in Nat
  BY <1>1, DocFacts
<1>3. \A i \in Uids(cir) : MaxLevel(cir[i]) \in Nat
  BY <1>2, MinLevelInLadder DEF Init, Uids
<1>4. level \in [1 .. Len(cir) -> Nat] /\ \A i \in Uids(cir) : level[i] = MaxLevel(cir[i])
  BY <1>3 DEF Init, Uids
<1>5. level \in Seq(Nat) /\ Len(level) = Len(cir) BY <1>2, <1>4 DEF Init
<1>6. TypeOK
  <2>1. cir \in Seq(Unit) /\ Len(cir) >= Len(doc.cir) BY <1>2 DEF Init
  <2>2. \A i \in Uids(cir) : IF IsFact(i) THEN cir[i].prot = LOCKED ELSE cir[i] = doc.cir[i]
    BY <1>2 DEF Init, IsFact, Uids
  <2>3. \A i \in Uids(cir) : level[i] <= MaxLevel(cir[i]) BY <1>3, <1>4
  <2>4. output \in Seq(Nat) /\ Len(output) <= Len(cir) BY <1>2, EmptySeq DEF Init
  <2>5. DOMAIN queue = {} BY DEF Init
  <2>6. at \in 0 .. Len(doc.cir) /\ rounds \in 0 .. MaxAdaptiveRounds
    BY <1>2 DEF Init, MaxAdaptiveRounds
  <2> QED BY <1>2, <1>5, <2>1, <2>2, <2>3, <2>4, <2>5, <2>6 DEF Init, TypeOK
<1>7. RepairBounded
  <2>1. HardCap \in Nat BY <1>1, <1>6, CapFacts DEF Base
  <2> QED BY <2>1 DEF RepairBounded, Init
<1> QED
  BY <1>1, <1>6, <1>7 DEF Init, IInv, Base, ProtectionHeld, FreshStart, Stuck,
     Tracked, OutputIsCurrent, QueueOK, RepairExhausted

\* A step that leaves the document and the budget alone leaves the caps alone.
LEMMA CapsKept == ASSUME UNCHANGED <<doc, budget>> PROVE HardCap' = HardCap /\ Cap' = Cap
<1>1. Cap' = Cap BY DEF Cap, Larger
<1> QED BY <1>1 DEF HardCap, Larger

LEMMA SelectPreserves == IInv /\ Select => IInv'
<1> SUFFICES ASSUME IInv, Select PROVE IInv' OBVIOUS
<1>1. /\ phase = "select" /\ phase' = "closure"
      /\ UNCHANGED <<doc, cir, budget, output, queue, at, seen, spent, dirty, rounds, fallback>>
      /\ repairs' = 0
  BY DEF Select
<1>2. Contract!Outcome(cir, budget, level') BY DEF Select
<1>3. /\ level' \in Seq(Nat) /\ Len(level') = Len(cir)
      /\ \A i \in Uids(cir) : level'[i] \in MinLevel(cir[i]) .. MaxLevel(cir[i])
  BY <1>2 DEF Contract!Outcome, Contract!Admissible, Uids
<1>4. \A i \in Uids(cir) : /\ MinLevel(cir[i]) \in Nat /\ MaxLevel(cir[i]) \in Nat
                           /\ level'[i] >= MinLevel(cir[i]) /\ level'[i] <= MaxLevel(cir[i])
  BY <1>3, LadderFacts DEF IInv
<1>5. DocOK' BY <1>1 DEF IInv, Base, DocOK
<1>6. TypeOK'
  BY <1>1, <1>3, <1>4 DEF IInv, Base, TypeOK, IsFact, Uids
<1>7. ProtectionHeld' BY <1>1, <1>4 DEF ProtectionHeld, Uids
<1>8. RepairBounded' BY <1>1, CapsKept DEF IInv, RepairBounded
<1>9. FreshStart' /\ Stuck' BY <1>1 DEF IInv, FreshStart, Stuck
<1>10. Tracked' /\ QueueOK' /\ RepairExhausted'
  BY <1>1 DEF Tracked, OutputIsCurrent, QueueOK, RepairExhausted
<1> QED BY <1>5, <1>6, <1>7, <1>8, <1>9, <1>10 DEF IInv, Base

LEMMA ClosePreserves == IInv /\ Close => IInv'
<1> SUFFICES ASSUME IInv, Close PROVE IInv' OBVIOUS
<1>1. /\ phase = "closure" /\ phase' = "render"
      /\ UNCHANGED <<doc, cir, budget, output, queue, at, seen, spent, dirty, repairs,
                     rounds, fallback>>
  BY DEF Close
<1>2. /\ level' \in [Uids(cir) -> Nat]
      /\ \A i \in Uids(cir) : /\ level'[i] <= MaxLevel(cir[i])
                              /\ ~Droppable(cir[i]) => level'[i] >= level[i]
  BY CloseFacts DEF IInv, Close
<1>3. level' \in Seq(Nat) /\ Len(level') = Len(cir)
  <2>1. Len(cir) \in Nat BY DEF IInv, Base, TypeOK
  <2> QED BY <1>2, <2>1 DEF Uids
<1>4. DocOK' BY <1>1 DEF IInv, Base, DocOK
<1>5. TypeOK' BY <1>1, <1>2, <1>3 DEF IInv, Base, TypeOK, IsFact, Uids
<1>6. ProtectionHeld'
  <2> SUFFICES ASSUME NEW i \in Uids(cir), Protected(cir[i])
               PROVE  level'[i] >= MinLevel(cir[i])
    BY <1>1 DEF ProtectionHeld, Uids
  <2>1. level[i] >= MinLevel(cir[i]) BY <1>1 DEF IInv, ProtectionHeld
  <2>2. cir[i].prot \in Nat
    BY LadderFacts DEF IInv, Unit, Level, DROPPABLE, FROZEN
  <2>3. ~Droppable(cir[i]) BY <2>2 DEF Droppable, Protected, LOCKED, ANCHORED
  <2>4. level'[i] >= level[i] BY <1>2, <2>3
  <2>5. level[i] \in Nat /\ level'[i] \in Nat /\ MinLevel(cir[i]) \in Nat
    BY <1>2, LadderFacts DEF IInv
  <2> QED BY <2>1, <2>4, <2>5
<1>7. RepairBounded' BY <1>1, CapsKept DEF IInv, RepairBounded
<1>8. FreshStart' /\ Stuck' BY <1>1 DEF IInv, FreshStart, Stuck
<1>9. Tracked' /\ QueueOK' /\ RepairExhausted'
  BY <1>1 DEF Tracked, OutputIsCurrent, QueueOK, RepairExhausted
<1> QED BY <1>4, <1>5, <1>6, <1>7, <1>8, <1>9 DEF IInv, Base

\* Rendering, auditing and deciding whether to go on change no unit and repair nothing.
LEMMA QuietPreserves ==
    ASSUME IInv, UNCHANGED <<doc, cir, level, budget, seen, spent, rounds>>,
           phase # "select", phase' \notin {"select", "closure"}
    PROVE  DocOK' /\ ProtectionHeld' /\ RepairBounded' /\ FreshStart' /\ Stuck'
<1>1. DocOK' BY DEF IInv, Base, DocOK
<1>2. ProtectionHeld' BY DEF IInv, ProtectionHeld, Uids
<1>3. RepairBounded' BY CapsKept DEF IInv, RepairBounded
<1>4. FreshStart' BY DEF FreshStart
<1>5. \A k : Owner(k)' = Owner(k) BY DEF Owner, Holders, Uids
<1>6. \A k : InFact(k)' = InFact(k) BY DEF InFact, Uids, IsFact, ClaimsAt
<1>7. \A k : AtOwner(k)' = AtOwner(k) BY <1>5 DEF AtOwner, ClaimsAt
<1>8. Stuck' BY <1>5, <1>6, <1>7 DEF IInv, Stuck, Uids
<1> QED BY <1>1, <1>2, <1>3, <1>4, <1>8

LEMMA RenderPreserves == IInv /\ Render => IInv'
<1> SUFFICES ASSUME IInv, Render PROVE IInv' OBVIOUS
<1>1. /\ phase = "render" /\ phase' = "verify" /\ output' = level
      /\ UNCHANGED <<doc, cir, level, budget, queue, at, seen, spent, dirty, repairs,
                     rounds, fallback>>
  BY DEF Render
<1>2. DocOK' /\ ProtectionHeld' /\ RepairBounded' /\ FreshStart' /\ Stuck'
  BY <1>1, QuietPreserves
<1>3. TypeOK' BY <1>1 DEF IInv, Base, TypeOK, IsFact, Uids
<1>4. Tracked' /\ QueueOK' /\ RepairExhausted'
  BY <1>1 DEF Tracked, OutputIsCurrent, QueueOK, RepairExhausted
<1> QED BY <1>2, <1>3, <1>4 DEF IInv, Base

LEMMA AuditPreserves == IInv /\ Audit => IInv'
<1> SUFFICES ASSUME IInv, Audit PROVE IInv' OBVIOUS
<1> DEFINE keys == {m \in Missing : Repairable(m)}
<1>1. /\ phase = "verify" /\ phase' = "repair" /\ at' = 0
      /\ queue' = [k \in keys |-> Rank(k)]
      /\ UNCHANGED <<doc, cir, level, budget, output, seen, spent, dirty, repairs,
                     rounds, fallback>>
  BY DEF Audit
<1>2. DocOK' /\ ProtectionHeld' /\ RepairBounded' /\ FreshStart' /\ Stuck'
  BY <1>1, QuietPreserves
<1>3. keys \subseteq Key
  BY DocFacts DEF IInv, Base, Missing, Integrity, Critical, Other
<1>4. DOMAIN queue' = keys /\ \A k \in keys : queue'[k] = Rank(k) /\ Rank(k) \in 0 .. 2
  BY <1>1 DEF Rank
<1>5. TypeOK'
  <2>1. 0 \in 0 .. Len(doc.cir) BY DocFacts DEF IInv, Base
  <2>2. DOMAIN queue' \subseteq Key /\ \A k \in DOMAIN queue' : queue'[k] \in 0 .. 2
    BY <1>3, <1>4
  <2> HIDE DEF keys
  <2> QED BY <1>1, <2>1, <2>2 DEF IInv, Base, TypeOK, IsFact, Uids
<1>6. Tracked' /\ RepairExhausted'
  BY <1>1 DEF IInv, Tracked, OutputIsCurrent, RepairExhausted
<1>7. QueueOK'
  <2>1. /\ Integrity' = Integrity /\ Critical' = Critical /\ Other' = Other
        /\ \A k : Repairable(k)' = Repairable(k) /\ Rank(k)' = Rank(k)
        /\ \A i, ks : Unserved(i, ks)' = Unserved(i, ks)
    BY <1>1, AuditDependsOn
  <2>2. Missing' = Missing BY <2>1 DEF Missing
  <2>3. \A k \in DOMAIN queue' : k \in Missing' /\ Repairable(k)' /\ queue'[k] = Rank(k)'
    BY <1>4, <2>1, <2>2
  <2>4. \A i : Unserved(i, Integrity \cup Critical) \subseteq keys
    BY DEF Unserved, Missing, Repairable
  <2>5. \A i : Unserved(i, Other) \subseteq keys
    BY DEF Unserved, Missing, Repairable
  <2>6. \A i : /\ Unserved(i, Integrity \cup Critical)' \subseteq DOMAIN queue'
               /\ Unserved(i, Other)' \subseteq DOMAIN queue'
    BY <1>4, <2>1, <2>4, <2>5
  <2> QED BY <2>3, <2>6 DEF QueueOK, Waiting
<1> QED BY <1>2, <1>5, <1>6, <1>7 DEF IInv, Base

LEMMA LoopPreserves == IInv /\ Loop => IInv'
<1> SUFFICES ASSUME IInv, Loop PROVE IInv' OBVIOUS
<1>1. /\ phase = "repair" /\ DOMAIN queue = {} /\ dirty' = FALSE
      /\ \/ phase' = "render" /\ repairs' = repairs + 1
         \/ phase' = "decide" /\ repairs' = repairs /\ ~(dirty /\ repairs < doc.maxRounds)
      /\ UNCHANGED <<doc, cir, level, budget, output, queue, at, seen, spent, rounds, fallback>>
  BY DEF Loop
<1>2. DocOK' /\ ProtectionHeld' /\ RepairBounded' /\ FreshStart' /\ Stuck'
  BY <1>1, QuietPreserves
<1>3. TypeOK'
  <2>1. repairs' \in Nat /\ dirty' \in BOOLEAN /\ phase' \in {"render", "decide"}
    <3>1. repairs \in Nat BY DEF IInv, Base, TypeOK
    <3>2. phase' \in {"render", "decide"} /\ repairs' \in {repairs, repairs + 1} BY <1>1
    <3>3. repairs' \in Nat BY <3>1, <3>2
    <3>4. dirty' \in BOOLEAN BY <1>1, Zenon
    <3> QED BY <3>2, <3>3, <3>4
  <2>2. UNCHANGED <<doc, cir, level, budget, output, queue, at, seen, spent, rounds, fallback>>
    BY <1>1
  <2> QED BY <2>1, <2>2 DEF IInv, Base, TypeOK, IsFact, Uids
<1>4. Tracked' BY <1>1 DEF IInv, Tracked, OutputIsCurrent
<1>5. QueueOK' BY <1>1 DEF QueueOK
<1>6. RepairExhausted'
  <2> SUFFICES ASSUME phase' = "decide", repairs' < doc.maxRounds', NEW i \in Uids(doc.cir)
               PROVE  /\ \/ Unserved(i, Integrity \cup Critical)' = {}
                         \/ Affordable(i, Unserved(i, Integrity \cup Critical), HardCap)' = {}
                      /\ \/ Unserved(i, Other)' = {}
                         \/ Affordable(i, Unserved(i, Other), Cap)' = {}
    BY <1>1 DEF RepairExhausted, Uids
  <2>1. ~dirty BY <1>1
  <2>2. /\ Waiting(i, Unserved(i, Integrity \cup Critical), HardCap)
        /\ Waiting(i, Unserved(i, Other), Cap)
    BY <1>1, <2>1 DEF IInv, QueueOK
  <2>3. /\ \/ Unserved(i, Integrity \cup Critical) = {}
           \/ Affordable(i, Unserved(i, Integrity \cup Critical), HardCap) = {}
        /\ \/ Unserved(i, Other) = {}
           \/ Affordable(i, Unserved(i, Other), Cap) = {}
    BY <1>1, <2>2 DEF Waiting
  <2>4. /\ Integrity' = Integrity /\ Critical' = Critical /\ Other' = Other
        /\ Cap' = Cap /\ HardCap' = HardCap
        /\ \A j, keys : Unserved(j, keys)' = Unserved(j, keys)
        /\ \A j, keys, limit : Affordable(j, keys, limit)' = Affordable(j, keys, limit)
    BY <1>1, AuditDependsOn
  <2> QED BY <2>3, <2>4
<1> QED BY <1>2, <1>3, <1>4, <1>5, <1>6 DEF IInv, Base

LEMMA FinishPreserves == IInv /\ Finish => IInv'
<1> SUFFICES ASSUME IInv, Finish PROVE IInv' OBVIOUS
<1>1. /\ phase = "decide" /\ phase' = "done"
      /\ UNCHANGED <<doc, cir, level, budget, output, queue, at, seen, spent, dirty,
                     repairs, rounds>>
      /\ fallback' \in {"none", "inflation", "provenance"}
  BY DEF Finish
<1>2. DocOK' /\ ProtectionHeld' /\ RepairBounded' /\ FreshStart' /\ Stuck'
  BY <1>1, QuietPreserves
<1>3. TypeOK' BY <1>1 DEF IInv, Base, TypeOK, IsFact, Uids
<1>4. Tracked' /\ QueueOK' /\ RepairExhausted'
  BY <1>1 DEF Tracked, OutputIsCurrent, QueueOK, RepairExhausted
<1> QED BY <1>2, <1>3, <1>4 DEF IInv, Base

LEMMA RaiseBudgetPreserves == IInv /\ RaiseBudget => IInv'
<1> SUFFICES ASSUME IInv, RaiseBudget PROVE IInv' OBVIOUS
<1>1. /\ phase = "decide" /\ phase' = "select" /\ rounds < MaxAdaptiveRounds
      /\ rounds' = rounds + 1 /\ budget < doc.tokensIn
      /\ budget' = Smaller(doc.tokensIn, (135 * budget) \div 100 + 32)
      /\ UNCHANGED <<doc, cir, level, output, queue, at, seen, spent, dirty, repairs, fallback>>
  BY DEF RaiseBudget
<1>2. budget \in Nat /\ doc.tokensIn \in Nat /\ rounds \in 0 .. 3
  BY DocFacts DEF IInv, Base, TypeOK, MaxAdaptiveRounds
<1>3. budget' \in Nat /\ budget' >= budget
  <2>1. (135 * budget) \div 100 \in Nat /\ (135 * budget) \div 100 >= budget BY <1>2
  <2> QED BY <1>1, <1>2, <2>1 DEF Smaller
<1>4. HardCap' >= HardCap /\ HardCap \in Nat /\ HardCap' \in Nat
  <2>1. /\ (35 * budget) \div 100 \in Nat /\ (35 * budget') \div 100 \in Nat
        /\ (35 * budget') \div 100 >= (35 * budget) \div 100
    <3>1. \A a, b \in Nat : a <= b => /\ (35 * a) \div 100 \in Nat /\ (35 * b) \div 100 \in Nat
                                     /\ (35 * a) \div 100 <= (35 * b) \div 100
      OBVIOUS
    <3> QED BY <1>2, <1>3, <3>1
  <2>2. (45 * doc.tokensIn) \div 100 \in Nat BY <1>2
  <2>3. Cap \in Nat /\ Cap' \in Nat /\ Cap' >= Cap BY <2>1 DEF Cap, Larger
  <2> QED BY <1>1, <2>2, <2>3 DEF HardCap, Larger
<1>5. DocOK' BY <1>1 DEF IInv, Base, DocOK
<1>6. TypeOK'
  <2>1. rounds' \in 0 .. MaxAdaptiveRounds BY <1>1, <1>2 DEF MaxAdaptiveRounds
  <2> QED BY <1>1, <1>3, <2>1 DEF IInv, Base, TypeOK, IsFact, Uids
<1>7. ProtectionHeld' BY <1>1 DEF ProtectionHeld
<1>8. RepairBounded' BY <1>1, <1>4 DEF IInv, Base, TypeOK, RepairBounded
<1>9. FreshStart' /\ Stuck' BY <1>1, <1>2 DEF FreshStart, Stuck
<1>10. Tracked' /\ QueueOK' /\ RepairExhausted'
  BY <1>1 DEF Tracked, OutputIsCurrent, QueueOK, RepairExhausted
<1> QED BY <1>5, <1>6, <1>7, <1>8, <1>9, <1>10 DEF IInv, Base

LEMMA RepairPreserves == IInv /\ Repair => IInv'
<1> SUFFICES ASSUME IInv, NEW i \in Uids(doc.cir), RepairGroup(i) PROVE IInv'
  BY DEF Repair
<1> DEFINE group == Group(i)
           limit == Limit(i)
<1>1. /\ phase = "repair" /\ UNCHANGED <<doc, budget, phase, output, repairs, rounds, fallback>>
      /\ at' = i /\ group \in SUBSET Key /\ limit \in {Cap, HardCap}
      /\ \A k \in group : Owner(k) = i
      /\ queue' = Serve(group)
      /\ \/ /\ UNCHANGED <<cir, level, spent, seen, dirty>>
            /\ Affordable(i, group, limit) = {}
         \/ \E o \in Affordable(i, group, limit) : Admit(i, group, o)
  BY RepairFacts
<1>2. limit \in Nat /\ HardCap \in Nat /\ HardCap >= limit
  BY <1>1, CapFacts DEF IInv
<1>3. /\ DOMAIN queue' = DOMAIN queue \ group
      /\ \A k \in DOMAIN queue' : queue'[k] = queue[k]
  BY <1>1 DEF Serve
<1>4. DOMAIN queue' \subseteq Key /\ \A k \in DOMAIN queue' : queue'[k] \in 0 .. 2
  BY <1>3 DEF IInv, Base, TypeOK
<1>5. i \in 0 .. Len(doc.cir)
  BY DocFacts DEF IInv, Base, Uids
<1>6. CASE UNCHANGED <<cir, level, spent, seen, dirty>> /\ Affordable(i, group, limit) = {}
  <2> HIDE DEF group, limit
  <2>1. DocOK' /\ ProtectionHeld' /\ RepairBounded' /\ FreshStart' /\ Stuck'
    BY <1>1, <1>6, QuietPreserves
  <2>2. TypeOK'
    BY <1>1, <1>4, <1>5, <1>6 DEF IInv, Base, TypeOK, IsFact, Uids
  <2>3. Tracked' /\ RepairExhausted'
    BY <1>1, <1>6 DEF IInv, Tracked, OutputIsCurrent, RepairExhausted
  <2>4. QueueOK'
    <3> SUFFICES ASSUME ~dirty PROVE QueueOK' BY <1>6 DEF QueueOK
    <3>1. /\ \A k \in DOMAIN queue : k \in Missing /\ Repairable(k) /\ queue[k] = Rank(k)
          /\ \A u \in Uids(doc.cir) :
               /\ Waiting(u, Unserved(u, Integrity \cup Critical), HardCap)
               /\ Waiting(u, Unserved(u, Other), Cap)
      BY <1>1 DEF IInv, QueueOK
    <3>2. /\ Integrity' = Integrity /\ Critical' = Critical /\ Other' = Other
          /\ Cap' = Cap /\ HardCap' = HardCap
          /\ \A k : Repairable(k)' = Repairable(k) /\ Rank(k)' = Rank(k)
          /\ \A u, ks : Unserved(u, ks)' = Unserved(u, ks)
          /\ \A u, ks, l : Affordable(u, ks, l)' = Affordable(u, ks, l)
      BY <1>1, <1>6, AuditDependsOn
    <3>3. Missing' = Missing BY <3>2 DEF Missing
    <3>4. \A k \in DOMAIN queue' : k \in Missing' /\ Repairable(k)' /\ queue'[k] = Rank(k)'
      BY <1>3, <3>1, <3>2, <3>3
    <3>5. \A k : k \in Missing => (Rank(k) < 2 <=> k \in Integrity \cup Critical)
      BY DEF Missing, Rank, Other, Integrity, Critical
    <3>6. \A u, ks : \A k \in Unserved(u, ks) : Owner(k) = u /\ k \in ks BY DEF Unserved
    <3>7. ASSUME NEW u \in Uids(doc.cir)
          PROVE  /\ Waiting(u, Unserved(u, Integrity \cup Critical), HardCap)'
                 /\ Waiting(u, Unserved(u, Other), Cap)'
      <4> DEFINE exempt == Unserved(u, Integrity \cup Critical)
                 rest   == Unserved(u, Other)
      <4>1. /\ \/ exempt \subseteq DOMAIN queue
               \/ Affordable(u, exempt, HardCap) = {} /\ exempt \cap DOMAIN queue = {}
            /\ \/ rest \subseteq DOMAIN queue
               \/ Affordable(u, rest, Cap) = {} /\ rest \cap DOMAIN queue = {}
        BY <3>1 DEF Waiting
      <4>2. /\ exempt' = exempt /\ rest' = rest
            /\ Affordable(u, exempt, HardCap)' = Affordable(u, exempt, HardCap)
            /\ Affordable(u, rest, Cap)' = Affordable(u, rest, Cap)
        BY <3>2
      <4>3. CASE u # i
        <5>1. exempt \cap group = {} /\ rest \cap group = {} BY <1>1, <3>6, <4>3
        <5> QED BY <1>3, <4>1, <4>2, <5>1 DEF Waiting
      <4>4. CASE u = i
        <5>1. \A k \in DOMAIN queue :
                 /\ k \in Missing /\ Repairable(k)
                 /\ (queue[k] < 2) <=> (k \in Integrity \cup Critical)
          BY <3>1, <3>5
        <5>2. \A k \in Pending(i) : k \in exempt \/ k \in rest
          BY <4>4, <5>1 DEF Pending, Unserved, Repairable, Missing
        <5>3. Exempt(i) = exempt \cap DOMAIN queue
          <6>1. \A k \in Exempt(i) : k \in exempt /\ k \in DOMAIN queue
            BY <4>4, <5>1 DEF Exempt, Pending, Unserved, Repairable
          <6>2. \A k \in exempt \cap DOMAIN queue : k \in Exempt(i)
            BY <4>4, <5>1, <3>6 DEF Exempt, Pending
          <6> QED BY <6>1, <6>2
        <5>4. exempt \cap rest = {} BY <3>6 DEF Other, Integrity, Critical
        <5>5. CASE Exempt(i) # {}
          <6>1. group = Exempt(i) /\ limit = HardCap BY <5>5 DEF group, limit, Group, Limit
          <6>2. exempt = group BY <4>1, <5>3, <5>5, <6>1
          <6>3. exempt \cap DOMAIN queue' = {} BY <1>3, <6>2
          <6>4. Affordable(u, exempt, HardCap) = {} BY <1>6, <4>4, <6>1, <6>2
          <6>5. rest \cap group = {} BY <5>4, <6>2
          <6> QED BY <1>3, <4>1, <4>2, <6>3, <6>4, <6>5 DEF Waiting
        <5>6. CASE Exempt(i) = {}
          <6>1. group = Pending(i) /\ limit = Cap BY <5>6 DEF group, limit, Group, Limit
          <6>2. \A k \in group : k \in rest BY <5>2, <5>3, <5>6, <6>1 DEF Pending
          <6>3. \A k \in rest \cap DOMAIN queue : k \in group
            BY <3>6, <4>4, <6>1 DEF Pending
          <6>4. group # {} BY <6>1 DEF RepairGroup, Turn
          <6>5. rest \cap DOMAIN queue = group BY <6>1, <6>2, <6>3 DEF Pending
          <6>6. rest = group BY <4>1, <6>4, <6>5
          <6>7. rest \cap DOMAIN queue' = {} BY <1>3, <6>6
          <6>8. Affordable(u, rest, Cap) = {} BY <1>6, <4>4, <6>1, <6>6
          <6>9. exempt \cap group = {} BY <5>4, <6>6
          <6> QED BY <1>3, <4>1, <4>2, <6>7, <6>8, <6>9 DEF Waiting
        <5> QED BY <5>5, <5>6
      <4> QED BY <4>3, <4>4
    <3> QED BY <1>1, <3>4, <3>7 DEF QueueOK, Uids
  <2> QED BY <2>1, <2>2, <2>3, <2>4 DEF IInv, Base
<1>7. ASSUME NEW o \in Affordable(i, group, limit), Admit(i, group, o)
      PROVE  IInv'
  <2> HIDE DEF group, limit
  <2>1. /\ cir' \in Seq(Unit) /\ level' \in Seq(Nat) /\ Len(level') = Len(cir')
        /\ Len(cir) <= Len(cir')
        /\ \A u \in Uids(cir) : cir'[u] = cir[u] /\ level[u] <= level'[u]
        /\ \A u \in Uids(cir) : u # i => level'[u] = level[u]
        /\ \A u \in Uids(cir') : level'[u] <= MaxLevel(cir'[u])
        /\ \A u \in Uids(cir') : u \notin Uids(cir) =>
              cir'[u].prot = LOCKED /\ IsFact(u) /\ MinLevel(cir'[u]) = 1 /\ level'[u] = 1
        /\ spent' \in Nat /\ spent' <= limit
        /\ seen' = seen \cup group /\ dirty' = TRUE
        /\ \/ \E j \in 1 .. level'[i] : group \subseteq ClaimsAt(cir[i], j)
           \/ \E f \in Uids(cir') : /\ IsFact(f) /\ level'[f] = 1
                                    /\ group \subseteq ClaimsAt(cir'[f], 1)
    BY <1>1, <1>2, <1>7, AdmitFacts DEF IInv
  <2>2. /\ cir \in Seq(Unit) /\ Len(cir) \in Nat /\ Len(cir') \in Nat
        /\ Len(doc.cir) \in Nat /\ Len(doc.cir) <= Len(cir)
        /\ \A u \in Uids(cir) : IF IsFact(u) THEN cir[u].prot = LOCKED ELSE cir[u] = doc.cir[u]
    BY <2>1, DocFacts DEF IInv, Base, TypeOK
  <2>3. Uids(doc.cir) \subseteq Uids(cir) /\ Uids(cir) \subseteq Uids(cir')
    BY <2>1, <2>2 DEF Uids
  <2>4. DocOK' BY <1>1 DEF IInv, Base, DocOK
  <2>5. TypeOK'
    <3>1. \A u \in Uids(cir') : IF IsFact(u) THEN cir'[u].prot = LOCKED
                                             ELSE cir'[u] = doc.cir[u]
      BY <2>1, <2>2
    <3>2. seen' \subseteq Key BY <1>1, <2>1 DEF IInv, Base, TypeOK
    <3>3. output' \in Seq(Nat) /\ Len(output') <= Len(cir')
      <4>1. output \in Seq(Nat) /\ Len(output) <= Len(cir) /\ Len(output) \in Nat
        BY DEF IInv, Base, TypeOK
      <4> QED BY <1>1, <2>1, <2>2, <4>1
    <3>4. Len(cir') >= Len(doc.cir') BY <1>1, <2>1, <2>2
    <3>5. \A u \in Uids(cir') : IsFact(u)' = IsFact(u) BY <1>1 DEF IsFact
    <3> QED BY <1>1, <1>4, <1>5, <2>1, <3>1, <3>2, <3>3, <3>4, <3>5
            DEF IInv, Base, TypeOK
  <2>6. ProtectionHeld'
    <3> SUFFICES ASSUME NEW u \in Uids(cir'), Protected(cir'[u])
                 PROVE  level'[u] >= MinLevel(cir'[u])
      BY DEF ProtectionHeld
    <3>1. CASE u \in Uids(cir)
      <4>1. level[u] >= MinLevel(cir[u])
        BY <1>1, <2>1, <3>1 DEF IInv, ProtectionHeld
      <4>2. level[u] \in Nat /\ MinLevel(cir[u]) \in Nat /\ level'[u] \in Nat
        BY <2>1, <3>1, LadderFacts DEF IInv, Uids
      <4> QED BY <2>1, <3>1, <4>1, <4>2
    <3>2. CASE u \notin Uids(cir) BY <2>1, <3>2
    <3> QED BY <3>1, <3>2
  <2>7. RepairBounded' BY <1>1, <1>2, <2>1, CapsKept DEF RepairBounded
  <2>8. FreshStart' BY <1>1 DEF FreshStart
  <2>9. Stuck'
    <3>1. \A k : Owner(k)' = Owner(k) BY <1>1 DEF Owner, Holders, Uids
    <3>2. \A u : IsFact(u)' = IsFact(u) BY <1>1 DEF IsFact
    <3> SUFFICES ASSUME rounds = 0, NEW k \in seen'
                 PROVE  Owner(k) \in Uids(doc.cir) /\ (InFact(k)' \/ AtOwner(k)')
      BY <1>1, <3>1 DEF Stuck
    <3>3. CASE k \in group
      <4>1. Owner(k) = i BY <1>1, <3>3
      <4>2. CASE \E j \in 1 .. level'[i] : group \subseteq ClaimsAt(cir[i], j)
        <5>1. cir'[i] = cir[i] BY <2>1, <2>3
        <5>2. PICK j \in 1 .. level'[i] : k \in ClaimsAt(cir'[i], j) BY <3>3, <4>2, <5>1
        <5>3. AtOwner(k)' BY <3>1, <4>1, <5>2 DEF AtOwner, ClaimsAt
        <5> QED BY <4>1, <5>3
      <4>3. CASE \E f \in Uids(cir') : /\ IsFact(f) /\ level'[f] = 1
                                       /\ group \subseteq ClaimsAt(cir'[f], 1)
        <5>1. InFact(k)' BY <3>2, <3>3, <4>3 DEF InFact, ClaimsAt
        <5> QED BY <4>1, <5>1
      <4> QED BY <2>1, <4>2, <4>3
    <3>4. CASE k \in seen
      <4>1. Owner(k) \in Uids(doc.cir) /\ (InFact(k) \/ AtOwner(k))
        BY <3>4 DEF IInv, Stuck
      <4>2. CASE InFact(k)
        <5>1. PICK f \in Uids(cir) : IsFact(f) /\ level[f] = 1 /\ k \in ClaimsAt(cir[f], 1)
          BY <4>2 DEF InFact
        <5>2. f # i BY <2>2, <5>1 DEF IsFact, Uids
        <5>3. f \in Uids(cir') /\ cir'[f] = cir[f] /\ level'[f] = 1 BY <2>1, <2>3, <5>1, <5>2
        <5>4. InFact(k)' BY <3>2, <5>1, <5>3 DEF InFact, ClaimsAt
        <5> QED BY <4>1, <5>4
      <4>3. CASE AtOwner(k)
        <5>1. PICK j \in 1 .. level[Owner(k)] : k \in ClaimsAt(cir[Owner(k)], j)
          BY <4>3 DEF AtOwner
        <5>2. cir'[Owner(k)] = cir[Owner(k)] /\ level[Owner(k)] <= level'[Owner(k)]
          BY <2>1, <2>3, <4>1
        <5>3. level[Owner(k)] \in Nat /\ level'[Owner(k)] \in Nat
          <6>1. Owner(k) \in Uids(cir) /\ Owner(k) \in 1 .. Len(level')
            BY <2>1, <2>3, <4>1 DEF Uids
          <6>2. level[Owner(k)] \in Nat BY <6>1, LadderFacts DEF IInv
          <6>3. level' \in Seq(Nat) BY <2>1
          <6> QED BY <6>1, <6>2, <6>3
        <5>4. j \in 1 .. level'[Owner(k)] BY <5>2, <5>3
        <5>5. AtOwner(k)' BY <3>1, <5>1, <5>2, <5>4 DEF AtOwner, ClaimsAt
        <5> QED BY <4>1, <5>5
      <4> QED BY <4>1, <4>2, <4>3
    <3> QED BY <2>1, <3>3, <3>4
  <2>10. Tracked' /\ QueueOK' /\ RepairExhausted'
    BY <1>1, <2>1 DEF Tracked, OutputIsCurrent, QueueOK, RepairExhausted
  <2> QED BY <2>4, <2>5, <2>6, <2>7, <2>8, <2>9, <2>10 DEF IInv, Base
<1> QED BY <1>1, <1>6, <1>7

LEMMA StutterPreserves == IInv /\ UNCHANGED vars => IInv'
<1> SUFFICES ASSUME IInv, UNCHANGED vars PROVE IInv' OBVIOUS
<1>1. UNCHANGED <<doc, cir, level, budget, phase, output, queue, at, seen, spent, dirty,
                  repairs, rounds, fallback>>
  BY DEF vars
<1>2. /\ Integrity' = Integrity /\ Critical' = Critical /\ Other' = Other
      /\ Cap' = Cap /\ HardCap' = HardCap
      /\ \A k : Repairable(k)' = Repairable(k) /\ Rank(k)' = Rank(k)
      /\ \A u, ks : Unserved(u, ks)' = Unserved(u, ks)
      /\ \A u, ks, l : Affordable(u, ks, l)' = Affordable(u, ks, l)
  BY <1>1, AuditDependsOn
<1>3. DocOK' /\ TypeOK' /\ ProtectionHeld'
  BY <1>1 DEF IInv, Base, DocOK, TypeOK, ProtectionHeld, IsFact, Uids
<1>4. RepairBounded' /\ FreshStart' /\ Tracked'
  BY <1>1, <1>2 DEF IInv, RepairBounded, FreshStart, Tracked, OutputIsCurrent
<1>5. Stuck'
  <2>1. \A k : Owner(k)' = Owner(k) BY <1>1 DEF Owner, Holders, Uids
  <2>2. \A k : InFact(k)' = InFact(k) BY <1>1 DEF InFact, Uids, IsFact, ClaimsAt
  <2>3. \A k : AtOwner(k)' = AtOwner(k) BY <1>1, <2>1 DEF AtOwner, ClaimsAt
  <2> QED BY <1>1, <2>1, <2>2, <2>3 DEF IInv, Stuck, Uids
<1>6. QueueOK'
  <2>1. Missing' = Missing BY <1>2 DEF Missing
  <2> QED BY <1>1, <1>2, <2>1 DEF IInv, QueueOK, Waiting, Uids
<1>7. RepairExhausted' BY <1>1, <1>2 DEF IInv, RepairExhausted, Uids
<1> QED BY <1>3, <1>4, <1>5, <1>6, <1>7 DEF IInv, Base

LEMMA Preserved == IInv /\ [Next]_vars => IInv'
BY SelectPreserves, ClosePreserves, RenderPreserves, AuditPreserves, RepairPreserves,
   LoopPreserves, RaiseBudgetPreserves, FinishPreserves, StutterPreserves DEF Next

LEMMA Invariant == Spec => []IInv
BY Initially, Preserved, PTL DEF Spec

-----------------------------------------------------------------------------
(***************************************************************************)
(* The theorems.                                                           *)
(***************************************************************************)
\* The state of a compress call is well formed throughout: levels stay inside
\* their ladders, whatever repair appends to the document.
THEOREM TypeCorrect == Spec => []TypeOK
<1>1. IInv => TypeOK BY DEF IInv, Base
<1> QED BY Invariant, <1>1, PTL

\* The protection floor survives closure, repair and the adaptive loop.
THEOREM ProtectionSurvives == Spec => []ProtectionHeld
<1>1. IInv => ProtectionHeld BY DEF IInv
<1> QED BY Invariant, <1>1, PTL

\* Repair never spends more than the hard cap, however many rounds there are.
THEOREM RepairIsBounded == Spec => []RepairBounded
<1>1. IInv => RepairBounded BY DEF IInv
<1> QED BY Invariant, <1>1, PTL

\* A key repaired in the first adaptive round stays claimed, or its owner has
\* outgrown the rung that claimed it.
THEOREM RepairSticks == Spec => []RepairsStick
<1>1. IInv => RepairsStick
  <2> SUFFICES ASSUME IInv, rounds = 0, NEW k \in seen PROVE k \in Retained \/ Outgrown(k)
    BY DEF RepairsStick
  <2>1. Owner(k) \in Uids(doc.cir) /\ (InFact(k) \/ AtOwner(k)) BY DEF IInv, Stuck
  <2>2. Owner(k) \in Uids(cir) BY <2>1, DocFacts DEF IInv, Base, TypeOK, Uids
  <2>3. level[Owner(k)] \in Nat BY <2>2, LadderFacts DEF IInv
  <2>4. InFact(k) => k \in Retained BY DEF InFact, Retained
  <2>5. ASSUME AtOwner(k) PROVE k \in Retained \/ Outgrown(k)
    <3>1. PICK j \in 1 .. level[Owner(k)] : k \in ClaimsAt(cir[Owner(k)], j)
      BY <2>5 DEF AtOwner
    <3>2. CASE j = level[Owner(k)] BY <2>2, <3>1, <3>2 DEF Retained
    <3>3. CASE j # level[Owner(k)]
      <4>1. j \in 1 .. level[Owner(k)] - 1 BY <2>3, <3>1, <3>3
      <4> QED BY <3>1, <4>1 DEF Outgrown
    <3> QED BY <3>2, <3>3
  <2> QED BY <2>1, <2>4, <2>5
<1> QED BY Invariant, <1>1, PTL

\* What is measured and returned was rendered after the last repair.
THEOREM OutputCurrent == Spec => []OutputIsCurrent
<1>1. IInv => OutputIsCurrent BY DEF IInv, Tracked
<1> QED BY Invariant, <1>1, PTL

\* The repair loop stops only when no group it still owes fits its limit.
THEOREM RepairExhausts == Spec => []RepairExhausted
<1>1. IInv => RepairExhausted BY DEF IInv
<1> QED BY Invariant, <1>1, PTL

\* From rendering to the decision no unit loses a level: both orders in which
\* repair may serve the groups, and every group it may serve, only add.
THEOREM RepairGrows == Spec => RepairOnlyAdds
<1>1. IInv /\ [Next]_vars => [(phase \in {"render", "verify", "repair"}) => Grows]_vars
  <2> SUFFICES ASSUME IInv, Next, phase \in {"render", "verify", "repair"} PROVE Grows
    OBVIOUS
  <2>1. \A u \in Uids(cir) : level[u] \in Nat BY LadderFacts DEF IInv
  <2>2. Len(cir) \in Nat BY DEF IInv, Base, TypeOK
  <2>3. ASSUME UNCHANGED <<cir, level>> PROVE Grows
    BY <2>1, <2>2, <2>3 DEF Grows
  <2>4. ASSUME NEW i \in Uids(doc.cir), RepairGroup(i) PROVE Grows
    <3>1. /\ Group(i) \in SUBSET Key /\ Limit(i) \in {Cap, HardCap} /\ UNCHANGED doc
          /\ \/ UNCHANGED <<cir, level>>
             \/ \E o \in Affordable(i, Group(i), Limit(i)) : Admit(i, Group(i), o)
      BY <2>4, RepairFacts
    <3>2. Limit(i) \in Nat BY <3>1, CapFacts DEF IInv
    <3>3. ASSUME NEW o \in Affordable(i, Group(i), Limit(i)), Admit(i, Group(i), o)
          PROVE  Grows
      <4>1. /\ Len(cir) <= Len(cir')
            /\ \A u \in Uids(cir) : cir'[u] = cir[u] /\ level[u] <= level'[u]
        BY <3>1, <3>2, <3>3, AdmitFacts DEF IInv
      <4> QED BY <4>1 DEF Grows
    <3> QED BY <2>3, <3>1, <3>3
  <2>5. CASE Repair BY <2>4, <2>5 DEF Repair
  <2>6. CASE Render \/ Audit \/ Loop BY <2>3, <2>6 DEF Render, Audit, Loop
  <2>7. ~Select /\ ~Close /\ ~RaiseBudget /\ ~Finish
    BY DEF Select, Close, RaiseBudget, Finish
  <2> QED BY <2>5, <2>6, <2>7 DEF Next
<1> QED BY Invariant, <1>1, PTL DEF Spec, RepairOnlyAdds
=============================================================================
