-------------------------- MODULE ProtectionProofs --------------------------
(***************************************************************************)
(* What holds of Protection for every set of units, every document and     *)
(* every horizon.  The argument is one inductive invariant, IInv: along an *)
(* edge protection goes down by one and hops up by one, so a queued unit's *)
(* protection and hops never add up to more than FROZEN, and at a horizon  *)
(* of three or more the hop limit can only stop a unit that has nothing    *)
(* left to hand down.                                                      *)
(***************************************************************************)
EXTENDS Protection, Induction, SequenceTheorems

Queued(u) == \E i \in 1 .. Len(work) : work[i] = u
Unscanned(v) == \E i \in 1 .. Len(rest) : rest[i] = v

\* Every dependency of u has what u hands down.
Settled(u) == \A v \in Dependencies(doc, u) : prot[v] >= Demote(prot[u])

Running == phase \in {"pop", "scan"}

BeforeStart == phase \in {"seed", "anchor", "start"} =>
                  seen = {} /\ hops = [u \in Unit |-> 0] /\ work = <<>>

HopsPayForProtection == \A u \in seen : prot[u] + hops[u] <= FROZEN

WorkSeen == Running => \A i \in 1 .. Len(work) : work[i] \in seen

ProtectedSeen == Running => \A u \in Unit : prot[u] >= ANCHORED => u \in seen

ScanOK == phase = "scan" =>
    /\ \A i \in 1 .. Len(rest) : rest[i] \in Dependencies(doc, cur)
    /\ \A v \in Dependencies(doc, cur) :
          prot[v] >= Demote(prot[cur]) \/ Unscanned(v)
    /\ cur \in seen
    /\ hops[cur] < doc.horizon /\ prot[cur] >= ANCHORED

Unseeded == phase = "seed" => prot = [u \in Unit |-> doc.feature[u].given]

SeedIsFloor == phase # "seed" =>
    \A u \in Unit : prot[u] >= SeedLevel(doc.feature[u], doc.enforce)

LockedBySeed(u) == SeedLevel(doc.feature[u], doc.enforce) >= LOCKED

\* A unit locked by its seed cannot be raised, so its hops stay 0.
LockedHops == Running => \A u \in Unit : LockedBySeed(u) => hops[u] = 0

\* The units the horizon cannot stop short.
Must(u) == doc.horizon >= 3 \/ (doc.horizon >= 1 /\ LockedBySeed(u))

SettledOrQueued == Running =>
    \A u \in seen : Must(u) =>
        Queued(u) \/ Settled(u) \/ (phase = "scan" /\ u = cur)

SettledWhenDrained == Drained =>
    \A u \in Unit : Must(u) /\ prot[u] >= ANCHORED => Settled(u)

IInv == /\ TypeOK
        /\ doc \in Documents
        /\ BeforeStart
        /\ HopsPayForProtection
        /\ WorkSeen
        /\ ProtectedSeen
        /\ ScanOK
        /\ Unseeded
        /\ SeedIsFloor
        /\ LockedHops
        /\ SettledOrQueued
        /\ SettledWhenDrained

-----------------------------------------------------------------------------
(***************************************************************************)
(* The lattice.                                                            *)
(***************************************************************************)

\* Demotion stays in the lattice and is one level below, or the bottom.
LEMMA DemoteType ==
    ASSUME NEW p \in Level
    PROVE  /\ Demote(p) \in Level
           /\ p >= ANCHORED => Demote(p) = p - 1
           /\ p < ANCHORED => Demote(p) = DROPPABLE
BY DEF Demote, Level, DROPPABLE, ANCHORED, FROZEN

\* The join is the maximum.
LEMMA JoinType ==
    ASSUME NEW p \in Level, NEW q \in Level
    PROVE  /\ Join(p, q) \in Level
           /\ Join(p, q) >= p /\ Join(p, q) >= q
           /\ Join(p, q) = p \/ Join(p, q) = q
BY DEF Join, Level, DROPPABLE, FROZEN

\* The seed of a unit is a level, never below what its pipeline gave it.
LEMMA SeedType ==
    ASSUME NEW f \in Feature, NEW enforce
    PROVE  SeedLevel(f, enforce) \in Level /\ SeedLevel(f, enforce) >= f.given
<1>1. RoleLevel(f) \in Level
  BY DEF RoleLevel, Level, DROPPABLE, ELASTIC, ANCHORED, LOCKED, FROZEN
<1>2. ObligationLevel(f, enforce) \in Level
  BY DEF ObligationLevel, Level, DROPPABLE, ELASTIC, ANCHORED, LOCKED, FROZEN
<1>3. f.given \in Level
  BY DEF Feature
<1>4. DROPPABLE \in Level
  BY DEF Level, DROPPABLE, FROZEN
<1> DEFINE p == Join(RoleLevel(f), ObligationLevel(f, enforce))
<1>5. p \in Level
  BY <1>1, <1>2, JoinType
<1> DEFINE q == IF p <= ELASTIC /\ IsNoise(f) THEN DROPPABLE ELSE p
<1>6. q \in Level
  BY <1>4, <1>5
<1>7. SeedLevel(f, enforce) = Join(f.given, q)
  BY DEF SeedLevel
<1> HIDE DEF q
<1> QED
  BY <1>3, <1>6, <1>7, JoinType

\* The parts of a document, and that nothing depends on itself.
LEMMA DocumentType ==
    ASSUME NEW d \in Documents
    PROVE  /\ d \in Document
           /\ d.feature \in [Unit -> Feature]
           /\ d.out \in [Unit -> Seq(Unit)]
           /\ d.horizon \in Int
           /\ \A u \in Unit : /\ Dependencies(d, u) \subseteq Unit
                              /\ u \notin Dependencies(d, u)
BY DocumentsAssumption DEF Document, Dependencies

-----------------------------------------------------------------------------
(***************************************************************************)
(* Type correctness.                                                       *)
(***************************************************************************)
Typed == TypeOK /\ doc \in Documents

LEMMA InitTyped == Init => Typed
<1> SUFFICES ASSUME Init PROVE Typed
  OBVIOUS
<1>1. doc \in Documents /\ doc \in Document
  BY DocumentType DEF Init
<1>2. prot \in [Unit -> Level]
  <2>1. \A u \in Unit : doc.feature[u].given \in Level
    BY <1>1 DEF Document, Feature
  <2> QED
    BY <2>1 DEF Init
<1>3. cur \in Unit
  BY UnitAssumption DEF Init, AnyUnit
<1> QED
  BY <1>1, <1>2, <1>3 DEF Init, Typed, TypeOK

LEMMA NextTyped == Typed /\ [Next]_vars => Typed'
<1> SUFFICES ASSUME Typed, [Next]_vars
             PROVE  Typed'
  OBVIOUS
<1> USE DEF Typed
<1>d. /\ doc.feature \in [Unit -> Feature]
      /\ doc.out \in [Unit -> Seq(Unit)]
  BY DocumentType
<1>a. ANCHORED \in Level
  BY DEF Level, ANCHORED, DROPPABLE, FROZEN
<1>1. CASE Seed
  <2>1. prot' \in [Unit -> Level]
    BY <1>1, <1>d, SeedType DEF Seed
  <2> QED
    BY <1>1, <2>1 DEF Seed, TypeOK
<1>2. CASE AnchorReasoningChain
  BY <1>2, <1>a DEF AnchorReasoningChain, TypeOK
<1>3. CASE NothingToPropagate
  BY <1>3 DEF NothingToPropagate, TypeOK
<1>4. CASE FillWorklist
  <2>1. IsFiniteSet(Protected)
    BY UnitAssumption, FS_Subset DEF Protected
  <2>2. Cardinality(Protected) \in Nat
    BY <2>1, FS_CardinalityType
  <2>3. work' \in Seq(Unit)
    <3>1. PICK queue \in [1 .. Cardinality(Protected) -> Protected] : work' = queue
      BY <1>4 DEF FillWorklist
    <3>2. queue \in [1 .. Cardinality(Protected) -> Unit]
      BY <3>1 DEF Protected
    <3> QED
      BY <2>2, <3>1, <3>2, SeqDef
  <2> QED
    BY <1>4, <2>3 DEF FillWorklist, TypeOK, Protected
<1>5. CASE Drain
  BY <1>5 DEF Drain, TypeOK
<1>6. CASE Pop
  <2>1. work # <<>> /\ Head(work) \in Unit /\ Tail(work) \in Seq(Unit)
    BY <1>6 DEF Pop, TypeOK
  <2>2. doc.out[Head(work)] \in Seq(Unit)
    BY <1>d, <2>1
  <2>3. /\ phase' \in {"pop", "scan", "done"}
        /\ guard' \in Nat
        /\ UNCHANGED <<doc, prot, seen, hops>>
    BY <1>6 DEF Pop, TypeOK
  <2>4. work' \in {work, Tail(work)} /\ cur' \in {cur, Head(work)}
    BY <1>6 DEF Pop
  <2>5. rest' \in {rest, doc.out[Head(work)]}
    BY <1>6 DEF Pop
  <2> QED
    BY <2>1, <2>2, <2>3, <2>4, <2>5 DEF TypeOK
<1>7. CASE Visit
  <2>1. Head(rest) \in Unit /\ Tail(rest) \in Seq(Unit)
    BY <1>7 DEF Visit, TypeOK
  <2>2. CASE Queues(Head(rest), Inherited(cur))
    <3>1. Inherited(cur) \in Level
      BY DemoteType DEF Inherited, TypeOK
    <3>2. Join(prot[Head(rest)], Inherited(cur)) \in Level
      BY <2>1, <3>1, JoinType DEF TypeOK
    <3>3. prot' \in [Unit -> Level]
      BY <1>7, <2>1, <2>2, <3>2 DEF Visit, TypeOK
    <3>4. hops[cur] + 1 \in Nat
      BY DEF TypeOK
    <3>5. hops' \in [Unit -> Nat]
      BY <1>7, <2>1, <2>2, <3>4 DEF Visit, TypeOK
    <3>6. work' = Append(work, Head(rest)) /\ seen' = seen \cup {Head(rest)}
      BY <1>7, <2>2 DEF Visit
    <3>7. work' \in Seq(Unit) /\ seen' \subseteq Unit
      BY <2>1, <3>6 DEF TypeOK
    <3> QED
      BY <1>7, <2>1, <3>3, <3>5, <3>7 DEF Visit, TypeOK
  <2>3. CASE ~Queues(Head(rest), Inherited(cur))
    BY <1>7, <2>1, <2>3 DEF Visit, TypeOK
  <2> QED
    BY <2>2, <2>3
<1>8. CASE EndScan
  BY <1>8 DEF EndScan, TypeOK
<1>9. CASE UNCHANGED vars
  BY <1>9 DEF vars, TypeOK
<1> QED
  BY <1>1, <1>2, <1>3, <1>4, <1>5, <1>6, <1>7, <1>8, <1>9 DEF Next

\* The worklist state keeps its types whatever the document: in particular
\* protection stays inside the five-level lattice under every decay and join.
THEOREM TypeCorrect == Spec => []TypeOK
<1>1. Spec => []Typed
  BY InitTyped, NextTyped, PTL DEF Spec
<1>2. Typed => TypeOK
  BY DEF Typed
<1> QED
  BY <1>1, <1>2, PTL

-----------------------------------------------------------------------------
(***************************************************************************)
(* Monotonicity.                                                           *)
(***************************************************************************)
\* One step of the specification raises levels or leaves them.
LEMMA StepNeverLowers ==
    Typed /\ Unseeded /\ [Next]_vars => \A u \in Unit : prot'[u] >= prot[u]
<1> SUFFICES ASSUME Typed, Unseeded, [Next]_vars, NEW u \in Unit
             PROVE  prot'[u] >= prot[u]
  OBVIOUS
<1> USE DEF Typed
<1>1. prot[u] \in Level /\ prot \in [Unit -> Level]
  BY DEF TypeOK
<1>2. CASE UNCHANGED prot
  BY <1>1, <1>2 DEF Level, DROPPABLE, FROZEN
<1>3. CASE Seed
  <2>1. doc.feature[u] \in Feature
    BY DocumentType
  <2>2. prot[u] = doc.feature[u].given
    BY <1>3 DEF Seed, Unseeded
  <2> QED
    BY <1>3, <2>1, <2>2, SeedType DEF Seed
<1>4. CASE AnchorReasoningChain
  BY <1>1, <1>4 DEF AnchorReasoningChain, IsOperand, Level, DROPPABLE, FROZEN, ANCHORED
<1>5. CASE Visit
  <2>1. Head(rest) \in Unit
    BY <1>5 DEF Visit, TypeOK
  <2>2. Inherited(cur) \in Level
    BY DemoteType DEF Inherited, TypeOK
  <2>3. prot' \in {prot, [prot EXCEPT ![Head(rest)] =
                            Join(prot[Head(rest)], Inherited(cur))]}
    BY <1>5 DEF Visit
  <2>4. prot[Head(rest)] \in Level
    BY <2>1 DEF TypeOK
  <2>5. Join(prot[Head(rest)], Inherited(cur)) >= prot[Head(rest)]
    BY <2>2, <2>4, JoinType
  <2> QED
    BY <1>1, <2>1, <2>3, <2>5 DEF Level, DROPPABLE, FROZEN
<1> QED
  BY <1>2, <1>3, <1>4, <1>5
     DEF Next, vars, NothingToPropagate, FillWorklist, Drain, Pop, EndScan

-----------------------------------------------------------------------------
(***************************************************************************)
(* The inductive invariant.                                                *)
(***************************************************************************)

LEMMA InitInv == Init => IInv
<1> SUFFICES ASSUME Init PROVE IInv
  OBVIOUS
<1>1. Typed
  BY InitTyped
<1> QED
  BY <1>1 DEF Typed, IInv, Init, BeforeStart, HopsPayForProtection, WorkSeen,
       ProtectedSeen, ScanOK, Unseeded, SeedIsFloor, LockedHops,
       SettledOrQueued, SettledWhenDrained, Running, Drained

\* A settled unit whose level a step leaves alone stays settled.
LEMMA SettledStable ==
    ASSUME Typed, Typed', Unseeded, [Next]_vars, NEW u \in Unit,
           Settled(u), prot'[u] = prot[u]
    PROVE  Settled(u)'
<1>1. doc' = doc
  BY DEF Next, vars, Seed, AnchorReasoningChain, NothingToPropagate,
         FillWorklist, Drain, Pop, Visit, EndScan
<1>2. SUFFICES ASSUME NEW v \in Dependencies(doc, u)
               PROVE  prot'[v] >= Demote(prot'[u])
  BY <1>1 DEF Settled
<1>3. v \in Unit
  BY DocumentType DEF Typed
<1>4. prot'[v] >= prot[v]
  BY <1>3, StepNeverLowers
<1>5. prot[v] >= Demote(prot[u])
  BY DEF Settled
<1>6. prot[v] \in Level /\ prot'[v] \in Level /\ Demote(prot[u]) \in Level
  BY <1>3, DemoteType DEF Typed, TypeOK
<1> QED
  BY <1>4, <1>5, <1>6 DEF Level, DROPPABLE, FROZEN

\* Nothing is settled later than its last chance: a unit with nothing to hand
\* down is settled whatever its dependencies are.
LEMMA NothingToHandDown ==
    ASSUME Typed, NEW u \in Unit, Demote(prot[u]) <= DROPPABLE
    PROVE  Settled(u)
<1>1. SUFFICES ASSUME NEW v \in Dependencies(doc, u)
               PROVE  prot[v] >= Demote(prot[u])
  BY DEF Settled
<1>2. v \in Unit
  BY DocumentType DEF Typed
<1>3. prot[v] \in Level /\ Demote(prot[u]) \in Level
  BY <1>2, DemoteType DEF Typed, TypeOK
<1> QED
  BY <1>3 DEF Level, DROPPABLE, FROZEN

\* The steps that touch neither the levels nor the worklist's bookkeeping.
LEMMA PopInv == IInv /\ Typed' /\ Pop => IInv'
<1> SUFFICES ASSUME IInv, Typed', Pop PROVE IInv'
  OBVIOUS
<1>t. Typed /\ [Next]_vars
  BY DEF IInv, Typed, Next
<1> DEFINE u == Head(work)
<1>1. /\ work \in Seq(Unit) /\ work # <<>> /\ phase = "pop"
      /\ u \in Unit /\ u \in seen
      /\ UNCHANGED <<doc, prot, seen, hops>>
  <2>1. work \in Seq(Unit) /\ work # <<>> /\ phase = "pop"
    BY DEF Pop, IInv, TypeOK
  <2>2. 1 \in 1 .. Len(work) /\ u = work[1]
    BY <2>1
  <2>3. u \in seen
    BY <2>1, <2>2 DEF IInv, WorkSeen, Running
  <2> QED
    BY <2>1, <2>3 DEF Pop, IInv, TypeOK
<1>2. \A v \in Unit : Settled(v) => Settled(v)'
  BY <1>1, <1>t, SettledStable DEF IInv
<1>c. /\ BeforeStart' /\ HopsPayForProtection' /\ ProtectedSeen'
      /\ Unseeded' /\ SeedIsFloor' /\ LockedHops'
  <2>1. phase' \in {"pop", "scan", "done"}
    BY <1>1 DEF Pop
  <2>2. BeforeStart' /\ Unseeded'
    BY <2>1 DEF BeforeStart, Unseeded
  <2>3. HopsPayForProtection' /\ ProtectedSeen'
    BY <1>1 DEF IInv, HopsPayForProtection, ProtectedSeen, Running
  <2>4. SeedIsFloor' /\ LockedHops'
    BY <1>1 DEF IInv, SeedIsFloor, LockedHops, LockedBySeed, Running
  <2> QED
    BY <2>2, <2>3, <2>4
<1>3. CASE phase' = "done"
  <2>1. work' # <<>>
    BY <1>1, <1>3 DEF Pop
  <2>2. SettledWhenDrained'
    BY <2>1 DEF SettledWhenDrained, Drained
  <2> QED
    BY <1>c, <1>3, <2>2
       DEF IInv, Typed, WorkSeen, ScanOK, SettledOrQueued, Running
<1>4. CASE phase' # "done"
  <2>1. work' = Tail(work) /\ cur' = u /\ phase' \in {"pop", "scan"}
    BY <1>1, <1>4 DEF Pop
  <2>2. /\ \A i \in 1 .. Len(work') : i + 1 \in 1 .. Len(work) /\ work'[i] = work[i + 1]
        /\ \A i \in 1 .. Len(work) : i # 1 => i - 1 \in 1 .. Len(work') /\ work'[i - 1] = work[i]
    BY <1>1, <2>1
  <2>3. WorkSeen'
    BY <1>1, <2>2 DEF IInv, WorkSeen, Running
  <2>4. \A v \in Unit : Queued(v) => Queued(v)' \/ v = u
    BY <1>1, <2>2 DEF Queued
  <2>5. CASE Propagates(u)
    <3>1. phase' = "scan" /\ rest' = doc.out[u]
      BY <1>4, <2>5 DEF Pop
    <3>2. \A v : v \in Dependencies(doc, u) <=> \E i \in 1 .. Len(rest') : rest'[i] = v
      BY <3>1 DEF Dependencies
    <3>3. prot[u] \in Level /\ Inherited(u) > DROPPABLE /\ hops[u] < doc.horizon
      BY <1>1, <2>5 DEF IInv, TypeOK, Propagates
    <3>4. prot[u] >= ANCHORED
      BY <3>3 DEF Inherited, Demote, Level, DROPPABLE, FROZEN, ANCHORED
    <3>5. ScanOK'
      BY <1>1, <2>1, <3>2, <3>3, <3>4 DEF ScanOK, Unscanned
    <3>6. SettledOrQueued'
      BY <1>1, <1>2, <2>1, <2>4, <3>1
         DEF IInv, TypeOK, SettledOrQueued, Must, LockedBySeed, Running
    <3>7. SettledWhenDrained'
      BY <3>1 DEF SettledWhenDrained, Drained
    <3> QED
      BY <1>c, <2>3, <3>5, <3>6, <3>7 DEF IInv, Typed
  <2>6. CASE ~Propagates(u)
    <3>1. phase' = "pop"
      BY <1>1, <1>4, <2>6 DEF Pop
    <3>2. Must(u) => Demote(prot[u]) <= DROPPABLE
      <4> SUFFICES ASSUME Must(u) PROVE Demote(prot[u]) <= DROPPABLE
        OBVIOUS
      <4>1. /\ prot[u] \in Level /\ hops[u] \in Nat /\ doc.horizon \in Int
            /\ prot[u] + hops[u] <= FROZEN
        BY <1>1, DocumentType DEF IInv, TypeOK, HopsPayForProtection
      <4>2. CASE hops[u] < doc.horizon
        BY <2>6, <4>1, <4>2, DemoteType
           DEF Propagates, Inherited, Level, DROPPABLE, FROZEN
      <4>3. CASE ~(hops[u] < doc.horizon)
        <5>1. doc.horizon >= 3
          BY <1>1, <4>1, <4>3 DEF Must, IInv, LockedHops, Running
        <5> QED
          BY <4>1, <4>3, <5>1 DEF Demote, Level, DROPPABLE, FROZEN
      <4> QED
        BY <4>2, <4>3
    <3>3. Must(u) => Settled(u)
      BY <1>1, <1>t, <3>2, NothingToHandDown
    <3>4. SettledOrQueued'
      BY <1>1, <1>2, <2>4, <3>1, <3>3
         DEF IInv, TypeOK, SettledOrQueued, Must, LockedBySeed, Running
    <3>5. SettledWhenDrained' /\ ScanOK'
      BY <3>1 DEF SettledWhenDrained, Drained, ScanOK
    <3> QED
      BY <1>c, <2>3, <3>4, <3>5 DEF IInv, Typed
  <2> QED
    BY <2>5, <2>6
<1> QED
  BY <1>3, <1>4

LEMMA VisitInv == IInv /\ Typed' /\ Visit => IInv'
<1> SUFFICES ASSUME IInv, Typed', Visit PROVE IInv'
  OBVIOUS
<1>t. Typed /\ Unseeded /\ [Next]_vars
  BY DEF IInv, Typed, Next
<1> DEFINE dst == Head(rest)
<1>1. /\ phase = "scan" /\ phase' = "scan" /\ rest # <<>>
      /\ rest' = Tail(rest) /\ UNCHANGED <<doc, cur>>
      /\ rest \in Seq(Unit) /\ work \in Seq(Unit) /\ cur \in Unit
  BY DEF Visit, IInv, TypeOK
<1>2. dst \in Dependencies(doc, cur) /\ dst \in Unit /\ dst # cur
  <2>1. 1 \in 1 .. Len(rest) /\ dst = rest[1]
    BY <1>1
  <2>2. dst \in Dependencies(doc, cur)
    BY <1>1, <2>1 DEF IInv, ScanOK
  <2> QED
    BY <1>1, <2>2, DocumentType DEF IInv
<1>3. /\ cur \in seen /\ prot[cur] \in Level /\ prot[cur] >= ANCHORED
      /\ hops[cur] \in Nat /\ prot[cur] + hops[cur] <= FROZEN
      /\ Inherited(cur) = prot[cur] - 1
  <2>1. cur \in seen /\ prot[cur] >= ANCHORED
    BY <1>1 DEF IInv, ScanOK
  <2> QED
    BY <1>1, <2>1, DemoteType DEF IInv, TypeOK, HopsPayForProtection, Inherited
<1>4. \A v \in Unit : prot[v] \in Level /\ prot'[v] \in Level /\ prot'[v] >= prot[v]
  BY <1>t, StepNeverLowers DEF Typed, TypeOK
<1>5. BeforeStart' /\ Unseeded' /\ SettledWhenDrained'
  BY <1>1 DEF BeforeStart, Unseeded, SettledWhenDrained, Drained
<1>6. SeedIsFloor'
  <2> SUFFICES ASSUME NEW v \in Unit
               PROVE  prot'[v] >= SeedLevel(doc.feature[v], doc.enforce)
    BY <1>1 DEF SeedIsFloor
  <2>1. SeedLevel(doc.feature[v], doc.enforce) \in Level
    BY DocumentType, SeedType DEF IInv
  <2>2. prot[v] >= SeedLevel(doc.feature[v], doc.enforce)
    BY <1>1 DEF IInv, SeedIsFloor
  <2> QED
    BY <1>4, <2>1, <2>2 DEF Level, DROPPABLE, FROZEN
<1>7. prot'[dst] >= Inherited(cur) /\ prot'[cur] = prot[cur]
  <2>1. CASE Queues(dst, Inherited(cur))
    <3>1. prot' = [prot EXCEPT ![dst] = Join(prot[dst], Inherited(cur))]
      BY <2>1 DEF Visit
    <3>2. Inherited(cur) \in Level
      BY <1>3, DemoteType DEF Inherited
    <3> QED
      BY <1>2, <1>4, <3>1, <3>2, JoinType DEF IInv, TypeOK
  <2>2. CASE ~Queues(dst, Inherited(cur))
    <3>1. prot' = prot /\ ~(prot[dst] < Inherited(cur))
      BY <2>2 DEF Visit, Queues
    <3> QED
      BY <1>2, <1>3, <1>4, <3>1 DEF Level, DROPPABLE, FROZEN
  <2> QED
    BY <2>1, <2>2
<1>8. ScanOK'
  <2>1. \A i \in 1 .. Len(rest') : i + 1 \in 1 .. Len(rest) /\ rest'[i] = rest[i + 1]
    BY <1>1
  <2>2. \A i \in 1 .. Len(rest) : i # 1 => i - 1 \in 1 .. Len(rest') /\ rest'[i - 1] = rest[i]
    BY <1>1
  <2>3. \A i \in 1 .. Len(rest') : rest'[i] \in Dependencies(doc, cur)
    BY <1>1, <2>1 DEF IInv, ScanOK
  <2>4. ASSUME NEW v \in Dependencies(doc, cur)
        PROVE  prot'[v] >= Demote(prot'[cur]) \/ Unscanned(v)'
    <3>1. v \in Unit
      BY <1>1, DocumentType DEF IInv
    <3>2. CASE v = dst
      BY <1>7, <3>2 DEF Inherited
    <3>3. CASE v # dst /\ Unscanned(v)
      <4>1. PICK i \in 1 .. Len(rest) : rest[i] = v
        BY <3>3 DEF Unscanned
      <4>2. i # 1
        BY <1>1, <3>3, <4>1
      <4> QED
        BY <2>2, <4>1, <4>2 DEF Unscanned
    <3>4. CASE v # dst /\ ~Unscanned(v)
      <4>1. prot[v] >= Demote(prot[cur])
        BY <1>1, <3>4 DEF IInv, ScanOK
      <4> QED
        BY <1>3, <1>4, <1>7, <3>1, <4>1 DEF Inherited, Level, DROPPABLE, FROZEN
    <3> QED
      BY <3>2, <3>3, <3>4
  <2>5. cur \in seen' /\ hops'[cur] = hops[cur]
    BY <1>1, <1>2, <1>3 DEF Visit, IInv, TypeOK
  <2>6. hops[cur] < doc.horizon
    BY <1>1 DEF IInv, ScanOK
  <2> QED
    BY <1>1, <1>3, <1>7, <2>3, <2>4, <2>5, <2>6 DEF ScanOK
<1>9. CASE ~Queues(dst, Inherited(cur))
  <2>1. UNCHANGED <<prot, seen, hops, work>>
    BY <1>9 DEF Visit
  <2>2. HopsPayForProtection' /\ WorkSeen' /\ ProtectedSeen' /\ LockedHops'
    BY <1>1, <2>1 DEF IInv, HopsPayForProtection, WorkSeen, ProtectedSeen,
         LockedHops, LockedBySeed, Running
  <2>3. SettledOrQueued'
    BY <1>1, <2>1 DEF IInv, SettledOrQueued, Must, LockedBySeed, Running,
         Queued, Settled
  <2> QED
    BY <1>5, <1>6, <1>8, <2>2, <2>3 DEF IInv, Typed
<1>10. CASE Queues(dst, Inherited(cur))
  <2>1. /\ prot' = [prot EXCEPT ![dst] = Join(prot[dst], Inherited(cur))]
        /\ seen' = seen \cup {dst}
        /\ hops' = [hops EXCEPT ![dst] = hops[cur] + 1]
        /\ work' = Append(work, dst)
    BY <1>10 DEF Visit
  <2>2. /\ hops'[dst] = hops[cur] + 1
        /\ \A v \in Unit : v # dst => hops'[v] = hops[v] /\ prot'[v] = prot[v]
    BY <1>2, <2>1 DEF IInv, TypeOK
  <2>3. prot[dst] < Inherited(cur) \/ (dst \notin seen /\ prot[dst] <= ELASTIC)
    <3>1. CASE dst \in seen
      BY <1>10, <3>1 DEF Queues
    <3>2. CASE dst \notin seen
      <4>1. ~(prot[dst] >= ANCHORED)
        BY <1>1, <1>2, <3>2 DEF IInv, ProtectedSeen, Running
      <4> QED
        BY <1>2, <1>4, <3>2, <4>1 DEF Level, DROPPABLE, ELASTIC, ANCHORED, FROZEN
    <3> QED
      BY <3>1, <3>2
  <2>4. prot'[dst] = Join(prot[dst], Inherited(cur))
    BY <1>2, <2>1 DEF IInv, TypeOK
  <2>5. prot'[dst] + hops'[dst] <= FROZEN
    <3>1. prot'[dst] <= Inherited(cur) \/ prot'[dst] <= ELASTIC
      BY <1>2, <1>3, <1>4, <2>3, <2>4 DEF Join, Level, DROPPABLE, ELASTIC, FROZEN
    <3> QED
      BY <1>2, <1>3, <1>4, <2>2, <3>1
         DEF Level, DROPPABLE, ELASTIC, ANCHORED, FROZEN
  <2>6. HopsPayForProtection'
    BY <2>1, <2>2, <2>5 DEF IInv, TypeOK, HopsPayForProtection
  <2>7. /\ Len(work') = Len(work) + 1 /\ work'[Len(work')] = dst
        /\ \A i \in 1 .. Len(work) : i \in 1 .. Len(work') /\ work'[i] = work[i]
        /\ Len(work) \in Nat
    BY <1>1, <1>2, <2>1
  <2>8. WorkSeen'
    <3> SUFFICES ASSUME NEW i \in 1 .. Len(work') PROVE work'[i] \in seen'
      BY DEF WorkSeen
    <3>1. CASE i \in 1 .. Len(work)
      BY <1>1, <2>1, <2>7, <3>1 DEF IInv, WorkSeen, Running
    <3>2. CASE i = Len(work')
      BY <2>1, <2>7, <3>2
    <3> QED
      BY <2>7, <3>1, <3>2
  <2>9. ProtectedSeen'
    <3> SUFFICES ASSUME NEW v \in Unit, prot'[v] >= ANCHORED PROVE v \in seen'
      BY DEF ProtectedSeen
    <3>1. CASE v = dst
      BY <2>1, <3>1
    <3>2. CASE v # dst
      BY <1>1, <2>1, <2>2, <3>2 DEF IInv, ProtectedSeen, Running
    <3> QED
      BY <3>1, <3>2
  <2>10. ~LockedBySeed(dst)
    <3> SUFFICES ASSUME LockedBySeed(dst) PROVE FALSE
      OBVIOUS
    <3>1. prot[dst] >= SeedLevel(doc.feature[dst], doc.enforce)
      BY <1>1, <1>2 DEF IInv, SeedIsFloor
    <3>2. SeedLevel(doc.feature[dst], doc.enforce) \in Level
      BY <1>2, DocumentType, SeedType DEF IInv
    <3>3. prot[dst] >= LOCKED
      BY <1>2, <1>4, <3>1, <3>2 DEF LockedBySeed, Level, DROPPABLE, LOCKED, FROZEN
    <3> QED
      BY <1>2, <1>3, <1>4, <2>3, <3>3
         DEF Level, DROPPABLE, ELASTIC, LOCKED, FROZEN
  <2>11. LockedHops'
    BY <1>1, <2>2, <2>10 DEF IInv, LockedHops, LockedBySeed, Running
  <2>12. SettledOrQueued'
    <3> SUFFICES ASSUME NEW v \in seen', Must(v)
                 PROVE  Queued(v)' \/ Settled(v)' \/ v = cur
      BY <1>1 DEF SettledOrQueued, Must, LockedBySeed
    <3>1. v \in Unit
      BY <1>2, <2>1 DEF IInv, TypeOK
    <3>2. CASE v = dst
      BY <2>7, <3>2 DEF Queued
    <3>3. CASE v # dst
      <4>1. Queued(v) \/ Settled(v) \/ v = cur
        BY <1>1, <2>1, <3>3 DEF IInv, SettledOrQueued, Running
      <4>2. Queued(v) => Queued(v)'
        BY <2>7 DEF Queued
      <4>3. Settled(v) => Settled(v)'
        BY <1>t, <2>2, <3>1, <3>3, SettledStable
      <4> QED
        BY <4>1, <4>2, <4>3
    <3> QED
      BY <3>2, <3>3
  <2> QED
    BY <1>5, <1>6, <1>8, <2>6, <2>8, <2>9, <2>11, <2>12 DEF IInv, Typed
<1> QED
  BY <1>9, <1>10

LEMMA NextInv == IInv /\ [Next]_vars => IInv'
<1> SUFFICES ASSUME IInv, [Next]_vars PROVE IInv'
  OBVIOUS
<1>t. Typed /\ Typed'
  <2>1. Typed
    BY DEF IInv, Typed
  <2> QED
    BY <2>1, NextTyped
<1>1. CASE Seed
  <2>1. \A u \in Unit : prot'[u] = SeedLevel(doc.feature[u], doc.enforce)
    BY <1>1 DEF Seed
  <2>2. SeedIsFloor'
    <3>1. \A u \in Unit : prot'[u] \in Level
      BY <1>t DEF Typed, TypeOK
    <3> QED
      BY <1>1, <2>1, <3>1 DEF Seed, SeedIsFloor, Level, DROPPABLE, FROZEN
  <2>3. BeforeStart' /\ HopsPayForProtection' /\ Unseeded'
    BY <1>1 DEF Seed, IInv, BeforeStart, HopsPayForProtection, Unseeded
  <2> QED
    BY <1>t, <1>1, <2>2, <2>3 DEF Seed, IInv, Typed, WorkSeen, ProtectedSeen,
         ScanOK, LockedHops, SettledOrQueued, SettledWhenDrained, Running, Drained
<1>2. CASE AnchorReasoningChain
  <2>1. SeedIsFloor'
    <3> SUFFICES ASSUME NEW u \in Unit
                 PROVE  prot'[u] >= SeedLevel(doc.feature[u], doc.enforce)
      BY <1>2 DEF AnchorReasoningChain, SeedIsFloor
    <3>1. SeedLevel(doc.feature[u], doc.enforce) \in Level
      BY <1>t, DocumentType, SeedType DEF Typed
    <3>2. prot'[u] >= prot[u]
      BY <1>t, StepNeverLowers DEF IInv
    <3>3. prot[u] >= SeedLevel(doc.feature[u], doc.enforce)
      BY <1>2 DEF AnchorReasoningChain, IInv, SeedIsFloor
    <3>4. prot[u] \in Level /\ prot'[u] \in Level
      BY <1>t DEF Typed, TypeOK
    <3> QED
      BY <3>1, <3>2, <3>3, <3>4 DEF Level, DROPPABLE, FROZEN
  <2>2. BeforeStart' /\ HopsPayForProtection' /\ Unseeded'
    BY <1>2 DEF AnchorReasoningChain, IInv, BeforeStart, HopsPayForProtection, Unseeded
  <2> QED
    BY <1>t, <1>2, <2>1, <2>2 DEF AnchorReasoningChain, IInv, Typed, WorkSeen,
         ProtectedSeen, ScanOK, LockedHops, SettledOrQueued, SettledWhenDrained,
         Running, Drained
<1>3. CASE NothingToPropagate
  <2>1. SettledWhenDrained'
    <3>1. CASE doc.horizon <= 0
      BY <1>t, <1>3, <3>1, DocumentType
         DEF NothingToPropagate, SettledWhenDrained, Must, Typed
    <3>2. CASE ~HasEdges
      <4>1. \A u \in Unit : Dependencies(doc, u) = {}
        BY <3>2 DEF HasEdges, Dependencies
      <4> QED
        BY <1>3, <4>1 DEF NothingToPropagate, SettledWhenDrained, Settled
    <3> QED
      BY <1>3, <3>1, <3>2 DEF NothingToPropagate
  <2>2. SeedIsFloor' /\ HopsPayForProtection'
    BY <1>3 DEF NothingToPropagate, IInv, SeedIsFloor, HopsPayForProtection
  <2> QED
    BY <1>t, <1>3, <2>1, <2>2 DEF NothingToPropagate, IInv, Typed, BeforeStart,
         WorkSeen, ProtectedSeen, ScanOK, Unseeded, LockedHops, SettledOrQueued, Running
<1>4. CASE FillWorklist
  <2>1. /\ phase = "start" /\ phase' = "pop" /\ seen' = Protected
        /\ UNCHANGED <<doc, prot, hops, cur, rest>>
        /\ hops = [u \in Unit |-> 0]
    BY <1>4 DEF FillWorklist, IInv, BeforeStart
  <2>2. PICK queue \in [1 .. Cardinality(Protected) -> Protected] :
           /\ \A u \in Protected : \E i \in DOMAIN queue : queue[i] = u
           /\ work' = queue
    BY <1>4 DEF FillWorklist
  <2>3. Cardinality(Protected) \in Nat
    BY UnitAssumption, FS_Subset, FS_CardinalityType DEF Protected
  <2>4. Len(work') = Cardinality(Protected) /\ DOMAIN queue = 1 .. Len(work')
    BY <2>2, <2>3
  <2>5. WorkSeen'
    BY <2>1, <2>2, <2>4 DEF WorkSeen
  <2>6. HopsPayForProtection' /\ LockedHops'
    BY <2>1 DEF IInv, TypeOK, HopsPayForProtection, LockedHops, LockedBySeed,
         Protected, Level, DROPPABLE, FROZEN
  <2>7. ProtectedSeen'
    BY <2>1 DEF ProtectedSeen, Protected
  <2>8. SettledOrQueued'
    BY <2>1, <2>2, <2>4 DEF SettledOrQueued, Queued
  <2>9. SeedIsFloor' /\ Unseeded' /\ BeforeStart' /\ ScanOK' /\ SettledWhenDrained'
    BY <2>1 DEF IInv, SeedIsFloor, Unseeded, BeforeStart, ScanOK,
         SettledWhenDrained, Drained
  <2> QED
    BY <1>t, <2>5, <2>6, <2>7, <2>8, <2>9 DEF IInv, Typed
<1>5. CASE Drain
  <2>1. /\ phase = "pop" /\ phase' = "done" /\ work = <<>>
        /\ UNCHANGED <<doc, prot, seen, hops, work, cur, rest, guard>>
    BY <1>5 DEF Drain
  <2>2. SettledWhenDrained'
    <3> SUFFICES ASSUME NEW u \in Unit, Must(u), prot[u] >= ANCHORED
                 PROVE  Settled(u)
      BY <2>1 DEF SettledWhenDrained, Must, LockedBySeed, Settled
    <3>1. u \in seen
      BY <2>1 DEF IInv, ProtectedSeen, Running
    <3>2. ~Queued(u)
      BY <2>1 DEF Queued
    <3> QED
      BY <2>1, <3>1, <3>2 DEF IInv, SettledOrQueued, Running
  <2>3. SeedIsFloor' /\ HopsPayForProtection'
    BY <2>1 DEF IInv, SeedIsFloor, HopsPayForProtection
  <2> QED
    BY <1>t, <2>1, <2>2, <2>3 DEF IInv, Typed, BeforeStart, WorkSeen,
         ProtectedSeen, ScanOK, Unseeded, LockedHops, SettledOrQueued, Running
<1>6. CASE Pop
  BY <1>t, <1>6, PopInv
<1>7. CASE Visit
  BY <1>t, <1>7, VisitInv
<1>8. CASE EndScan
  <2>1. /\ phase = "scan" /\ phase' = "pop" /\ rest = <<>>
        /\ UNCHANGED <<doc, prot, seen, hops, work, cur, rest, guard>>
    BY <1>8 DEF EndScan
  <2>2. Settled(cur)
    BY <2>1 DEF IInv, ScanOK, Unscanned, Settled
  <2>3. SettledOrQueued'
    BY <2>1, <2>2 DEF IInv, SettledOrQueued, Must, LockedBySeed, Running,
         Queued, Settled
  <2>4. SeedIsFloor' /\ HopsPayForProtection' /\ WorkSeen' /\ ProtectedSeen' /\ LockedHops'
    BY <2>1 DEF IInv, SeedIsFloor, HopsPayForProtection, WorkSeen,
         ProtectedSeen, LockedHops, LockedBySeed, Running
  <2> QED
    BY <1>t, <2>1, <2>3, <2>4 DEF IInv, Typed, BeforeStart, ScanOK, Unseeded,
         SettledWhenDrained, Drained
<1>9. CASE UNCHANGED vars
  BY <1>t, <1>9 DEF vars, IInv, Typed, BeforeStart, HopsPayForProtection,
       WorkSeen, ProtectedSeen, ScanOK, Unseeded, SeedIsFloor, LockedHops,
       LockedBySeed, SettledOrQueued, SettledWhenDrained, Must, Running,
       Drained, Queued, Unscanned, Settled
<1> QED
  BY <1>1, <1>2, <1>3, <1>4, <1>5, <1>6, <1>7, <1>8, <1>9 DEF Next

LEMMA Invariance == Spec => []IInv
BY InitInv, NextInv, PTL DEF Spec

-----------------------------------------------------------------------------
\* No step of seeding, anchoring or propagation lowers any unit's protection.
THEOREM Monotone == Spec => NeverLowered
<1>1. IInv /\ [Next]_vars => [\A u \in Unit : prot'[u] >= prot[u]]_vars
  BY StepNeverLowers DEF IInv, Typed
<1> QED
  BY <1>1, Invariance, PTL DEF Spec, NeverLowered

\* With a horizon of three or more, a drained worklist is a fixpoint: every
\* dependency has what the unit that needs it hands down.
THEOREM Closed == Spec => []ClosedWhenDrained
<1>1. IInv => ClosedWhenDrained
  BY DEF IInv, SettledWhenDrained, ClosedWhenDrained, Must, Settled
<1> QED
  BY <1>1, Invariance, PTL

\* Under any positive horizon, what a unit locked by its seed depends on
\* directly ends at ANCHORED or above.
THEOREM DirectDependencies == Spec => []DirectDependenciesKept
<1>1. IInv => DirectDependenciesKept
  <2> SUFFICES ASSUME IInv, Drained, doc.horizon >= 1, NEW u \in Unit,
                      LockedBySeed(u), NEW v \in Dependencies(doc, u)
               PROVE  prot[v] >= ANCHORED
    BY DEF DirectDependenciesKept, LockedBySeed
  <2>1. SeedLevel(doc.feature[u], doc.enforce) \in Level
    BY DocumentType, SeedType DEF IInv
  <2>2. prot[u] \in Level /\ prot[u] >= LOCKED
    BY <2>1 DEF IInv, TypeOK, SeedIsFloor, Drained, LockedBySeed, Level,
         DROPPABLE, LOCKED, FROZEN
  <2>3. Settled(u)
    BY <2>2 DEF IInv, SettledWhenDrained, Must, Level, DROPPABLE, ANCHORED,
         LOCKED, FROZEN
  <2>4. v \in Unit /\ prot[v] \in Level
    BY DocumentType DEF IInv, TypeOK
  <2> QED
    BY <2>2, <2>3, <2>4, DemoteType
       DEF Settled, Level, DROPPABLE, ANCHORED, LOCKED, FROZEN
<1> QED
  BY <1>1, Invariance, PTL

-----------------------------------------------------------------------------
(***************************************************************************)
(* The cost of propagation.  Left holds the queueings a unit may still     *)
(* cause: one per level it can be raised to.  Queueing a unit uses one up, *)
(* so the pops made, the queue and what is left never exceed three per     *)
(* unit.                                                                   *)
(***************************************************************************)
Left == {p \in Unit \X (1 .. 3) : p[1] \notin seen \/ p[2] > prot[p[1]]}

Paid == /\ phase \in {"seed", "anchor", "start"} => guard = 0 /\ work = <<>>
        /\ Running => guard + Len(work) + Cardinality(Left) <= 3 * Cardinality(Unit)
        /\ phase = "done" => guard <= 3 * Cardinality(Unit) /\ work = <<>>

LEMMA UnitsCounted == /\ Cardinality(Unit) \in Nat
                      /\ IsFiniteSet(Unit \X (1 .. 3))
                      /\ Cardinality(Unit \X (1 .. 3)) = 3 * Cardinality(Unit)
<1>1. IsFiniteSet(1 .. 3) /\ Cardinality(1 .. 3) = 3
  <2>1. \A n \in Nat : IsFiniteSet(1 .. n) /\ Cardinality(1 .. n) = n BY FS_Interval
  <2>2. PICK n \in Nat : n = 3 OBVIOUS
  <2>3. IsFiniteSet(1 .. n) /\ Cardinality(1 .. n) = n BY <2>1
  <2> QED BY <2>2, <2>3
<1>2. IsFiniteSet(Unit) /\ Cardinality(Unit) \in Nat BY UnitAssumption, FS_CardinalityType
<1>3. /\ IsFiniteSet(Unit \X (1 .. 3))
      /\ Cardinality(Unit \X (1 .. 3)) = Cardinality(Unit) * Cardinality(1 .. 3)
  BY <1>1, <1>2, FS_Product
<1> QED BY <1>1, <1>2, <1>3

LEMMA LeftCounted == IsFiniteSet(Left) /\ Cardinality(Left) \in Nat
BY UnitsCounted, FS_Subset, FS_CardinalityType DEF Left

\* The defensive limit is beyond what the units can cause.
LEMMA LimitIsFar == TypeOK => MaxSteps \in Nat /\ 3 * Cardinality(Unit) < MaxSteps
<1> SUFFICES ASSUME TypeOK
             PROVE  MaxSteps \in Nat /\ 3 * Cardinality(Unit) < MaxSteps
  OBVIOUS
<1> DEFINE At == [u \in Unit |-> {<<u, i>> : i \in 1 .. Len(doc.out[u])}]
<1>1. ASSUME NEW u \in Unit PROVE IsFiniteSet(At[u])
  <2> DEFINE I == 1 .. Len(doc.out[u])
             pair == [i \in I |-> <<u, i>>]
  <2>1. Len(doc.out[u]) \in Nat BY DEF TypeOK, Document
  <2>2. IsFiniteSet(I) BY <2>1, FS_Interval
  <2>3. At[u] = {pair[i] : i \in I} OBVIOUS
  <2> HIDE DEF I, pair, At
  <2> QED BY <2>2, <2>3, ImageIsFinite
<1>2. Edges = UNION {At[u] : u \in Unit} BY DEF Edges
<1> HIDE DEF At
<1>3. IsFiniteSet({At[u] : u \in Unit}) BY UnitAssumption, ImageIsFinite
<1>4. IsFiniteSet(UNION {At[u] : u \in Unit}) BY <1>1, <1>3, FS_UNION
<1>5. Cardinality(Edges) \in Nat BY <1>2, <1>4, FS_CardinalityType
<1> QED BY <1>5, UnitsCounted DEF MaxSteps

LEMMA PaidStart == Init => Paid
BY DEF Init, Paid, Running

LEMMA PaidKept == IInv /\ Paid /\ [Next]_vars => Paid'
<1> SUFFICES ASSUME IInv, Paid, [Next]_vars PROVE Paid' OBVIOUS
<1>t. /\ TypeOK /\ TypeOK' /\ Cardinality(Unit) \in Nat
      /\ guard \in Nat /\ work \in Seq(Unit) /\ Len(work) \in Nat
  BY NextTyped, UnitsCounted DEF IInv, Typed, TypeOK
<1>p. prot \in [Unit -> Level] BY <1>t DEF TypeOK
<1>1. CASE Seed \/ AnchorReasoningChain \/ NothingToPropagate
  <2>1. guard' = guard /\ work' = work /\ phase \in {"seed", "anchor", "start"}
        /\ phase' \in {"anchor", "start", "done"}
    BY <1>1 DEF Seed, AnchorReasoningChain, NothingToPropagate
  <2> QED BY <1>t, <2>1 DEF Paid, Running
<1>2. CASE FillWorklist
  <2>1. /\ phase = "start" /\ phase' = "pop" /\ seen' = Protected
        /\ UNCHANGED <<prot, guard>> /\ guard = 0
    BY <1>2 DEF FillWorklist, Paid
  <2> DEFINE first == Protected \X {1}
             whole == Unit \X (1 .. 3)
  <2>2. Cardinality(Protected) \in Nat /\ IsFiniteSet(Protected)
    BY UnitAssumption, FS_Subset, FS_CardinalityType DEF Protected
  <2>3. Len(work') = Cardinality(Protected) BY <1>2, <2>2 DEF FillWorklist
  <2>4. IsFiniteSet(first) /\ Cardinality(first) = Cardinality(Protected)
    <3>1. IsFiniteSet({1}) /\ Cardinality({1}) = 1 BY FS_Singleton
    <3>2. /\ IsFiniteSet(first)
          /\ Cardinality(first) = Cardinality(Protected) * Cardinality({1})
      BY <2>2, <3>1, FS_Product
    <3> QED BY <2>2, <3>1, <3>2
  <2>5. first \cap Left' = {} /\ first \cup Left' \in SUBSET whole
    <3>1. Left' = {p \in whole : p[1] \notin Protected \/ p[2] > prot[p[1]]}
      BY <2>1 DEF Left
    <3>2. \A p \in first : p \in whole /\ p[1] \in Protected /\ p[2] = 1
      BY DEF Protected
    <3>3. \A u \in Protected : ~ (1 > prot[u])
      BY <1>p DEF Protected, Level, DROPPABLE, ANCHORED, FROZEN
    <3> HIDE DEF first, whole
    <3> QED BY <3>1, <3>2, <3>3
  <2>6. Cardinality(first \cup Left') <= 3 * Cardinality(Unit)
    BY <2>5, UnitsCounted, FS_Subset
  <2>7. IsFiniteSet(Left') /\ Cardinality(Left') \in Nat 
    BY UnitsCounted, FS_Subset, FS_CardinalityType DEF Left
  <2>8. Cardinality(first \cup Left') =
           Cardinality(first) + Cardinality(Left') - Cardinality(first \cap Left')
    BY <2>4, <2>7, FS_Union
  <2>9. Cardinality(first \cap Left') = 0 BY <2>5, FS_EmptySet
  <2>10. guard' + Len(work') + Cardinality(Left') <= 3 * Cardinality(Unit)
    <3> HIDE DEF first
    <3> QED BY <1>t, <2>1, <2>2, <2>3, <2>4, <2>6, <2>7, <2>8, <2>9
  <2> QED BY <2>1, <2>10 DEF Paid, Running
<1>3. CASE Drain
  BY <1>t, <1>3, LeftCounted DEF Drain, Paid, Running
<1>4. CASE Pop
  <2>1. /\ phase = "pop" /\ work # <<>> /\ guard' = guard + 1
        /\ UNCHANGED <<prot, seen>>
        /\ guard + Len(work) + Cardinality(Left) <= 3 * Cardinality(Unit)
    BY <1>4 DEF Pop, Paid, Running
  <2>2. Left' = Left BY <2>1 DEF Left
  <2>3. Len(work) >= 1 BY <1>t, <2>1, EmptySeq
  <2>4. ~ (guard' > MaxSteps) BY <1>t, <2>1, <2>3, LimitIsFar, LeftCounted
  <2>5. work' = Tail(work) /\ phase' \in {"pop", "scan"} BY <1>4, <2>1, <2>4 DEF Pop
  <2>6. Len(work') = Len(work) - 1 BY <1>t, <2>1, <2>5
  <2> QED BY <1>t, <2>1, <2>2, <2>5, <2>6, LeftCounted DEF Paid, Running
<1>5. CASE Visit
  <2> DEFINE dst == Head(rest)
  <2>1. /\ phase = "scan" /\ phase' = "scan" /\ guard' = guard /\ cur' = cur
        /\ guard + Len(work) + Cardinality(Left) <= 3 * Cardinality(Unit)
        /\ dst \in Unit /\ cur \in Unit
    BY <1>t, <1>5 DEF Visit, Paid, Running, TypeOK
  <2>2. CASE ~ Queues(dst, Inherited(cur))
    BY <1>5, <2>1, <2>2 DEF Visit, Paid, Running, Left
  <2>3. CASE Queues(dst, Inherited(cur))
    <3>1. /\ prot' = [prot EXCEPT ![dst] = Join(prot[dst], Inherited(cur))]
          /\ seen' = seen \cup {dst} /\ work' = Append(work, dst)
      BY <1>5, <2>3 DEF Visit
    <3>2. /\ prot[dst] \in Level /\ prot[cur] \in Level /\ prot[cur] >= ANCHORED
          /\ dst \notin seen => ~ (prot[dst] >= ANCHORED)
      BY <1>t, <2>1 DEF TypeOK, IInv, ScanOK, ProtectedSeen, Running
    <3>3. Inherited(cur) = prot[cur] - 1 BY <3>2, DemoteType DEF Inherited
    <3> DEFINE l == Join(prot[dst], Inherited(cur))
    <3>4. /\ prot'[dst] = l /\ l \in 1 .. 3
          /\ dst \in seen => l > prot[dst]
          /\ l >= prot[dst]
      <4>1. prot'[dst] = l BY <1>p, <2>1, <3>1
      <4>2. prot[dst] < prot[cur] - 1 \/ dst \notin seen BY <2>3, <3>3 DEF Queues
      <4>3. l = IF prot[dst] >= prot[cur] - 1 THEN prot[dst] ELSE prot[cur] - 1
        BY <3>3 DEF Join
      <4> HIDE DEF l, dst
      <4> QED BY <3>2, <4>1, <4>2, <4>3 DEF Level, DROPPABLE, ANCHORED, FROZEN
    <3> HIDE DEF l, dst
    <3>5. <<dst, l>> \in Left BY <2>1, <3>4 DEF Left
    <3>6. Left' \subseteq Left \ {<<dst, l>>}
      <4> SUFFICES ASSUME NEW p \in Left' PROVE p \in Left /\ p # <<dst, l>>
        OBVIOUS
      <4>1. /\ p \in Unit \X (1 .. 3) /\ p[1] \in Unit /\ p[2] \in 1 .. 3
            /\ p[1] \notin seen' \/ p[2] > prot'[p[1]]
        BY DEF Left
      <4>2. CASE p[1] = dst
        <5>1. p[2] > l BY <3>1, <3>4, <4>1, <4>2
        <5> QED BY <3>2, <3>4, <4>1, <4>2, <5>1 DEF Left, Level, DROPPABLE, FROZEN
      <4>3. CASE p[1] # dst
        <5>1. prot'[p[1]] = prot[p[1]] BY <1>t, <2>1, <3>1, <4>1, <4>3 DEF TypeOK
        <5> QED BY <3>1, <4>1, <4>3, <5>1 DEF Left
      <4> QED BY <4>2, <4>3
    <3>7. Cardinality(Left') <= Cardinality(Left) - 1 /\ Cardinality(Left') \in Nat
      <4>1. IsFiniteSet(Left \ {<<dst, l>>})
            /\ Cardinality(Left \ {<<dst, l>>}) = Cardinality(Left) - 1
        BY <3>5, LeftCounted, FS_RemoveElement
      <4>2. Left' \in SUBSET (Left \ {<<dst, l>>}) BY <3>6
      <4>3. IsFiniteSet(Left') /\ Cardinality(Left') <= Cardinality(Left \ {<<dst, l>>})
        BY <4>1, <4>2, FS_Subset
      <4> QED BY <4>1, <4>3, FS_CardinalityType
    <3>8. Len(work') = Len(work) + 1 BY <1>t, <2>1, <3>1
    <3> QED BY <1>t, <2>1, <3>7, <3>8, LeftCounted DEF Paid, Running
  <2> QED BY <2>2, <2>3
<1>6. CASE EndScan
  BY <1>6 DEF EndScan, Paid, Running, Left
<1>7. CASE UNCHANGED vars
  BY <1>7 DEF vars, Paid, Running, Left
<1> QED BY <1>1, <1>2, <1>3, <1>4, <1>5, <1>6, <1>7 DEF Next

LEMMA PaidInvariant == Spec => [](IInv /\ Paid)
BY InitInv, NextInv, PaidStart, PaidKept, PTL DEF Spec

\* Propagation pops at most three entries per unit, whatever the REQUIRES graph.
THEOREM WorkIsBounded == Spec => []WorkBound
<1>1. IInv /\ Paid => WorkBound
  BY LeftCounted, UnitsCounted DEF IInv, TypeOK, Paid, Running, WorkBound
<1> QED BY <1>1, PaidInvariant, PTL

\* The defensive step limit is never what ends propagation: the worklist is
\* always drained, so the closure properties hold whenever propagation ends.
THEOREM AlwaysDrains == Spec => [](phase = "done" => Drained)
<1>1. IInv /\ Paid => (phase = "done" => Drained) BY DEF Paid, Drained
<1> QED BY <1>1, PaidInvariant, PTL
-----------------------------------------------------------------------------
(***************************************************************************)
(* Where a level comes from: a chain of k REQUIRES edges from a unit whose *)
(* own level is k higher.  The hops recorded for a unit are never fewer    *)
(* than the edges of its chain, so a unit the horizon lets hand on is less *)
(* than the horizon away.                                                  *)
(***************************************************************************)
Trace(v) == \E k \in 0 .. FROZEN : \E u \in Unit :
    /\ <<u, v>> \in ChainsTo(FROZEN)[k]
    /\ prot[v] = BaseLevel(u) - k
    /\ k <= hops[v]
    /\ k = 0 \/ k <= doc.horizon

Traced == /\ phase = "anchor" =>
                \A v \in Unit : prot[v] = SeedLevel(doc.feature[v], doc.enforce)
          /\ phase = "start" => \A v \in Unit : prot[v] = BaseLevel(v)
          /\ phase \in {"pop", "scan", "done"} => \A v \in Unit : Trace(v)
          /\ \A v \in Unit : v \notin seen => hops[v] = 0

LEMMA ChainFacts ==
    ASSUME doc \in Documents
    PROVE  LET reach == ChainsTo(FROZEN) IN
           /\ \A u, v \in Unit : <<u, v>> \in reach[0] <=> u = v
           /\ \A k \in 1 .. FROZEN : \A u, w \in Unit : \A v \in Dependencies(doc, w) :
                 <<u, w>> \in reach[k - 1] => <<u, v>> \in reach[k]
<1> DEFINE Pairs == Unit \X Unit
           V == SUBSET Pairs
           first == {<<u, u>> : u \in Unit}
           Further(R) == UNION {{<<p[1], v>> : v \in Dependencies(doc, p[2])} : p \in R}
           step == [kv \in (1 .. FROZEN) \X V |-> Further(kv[2])]
           Is(h) == h = [k \in 0 .. FROZEN |-> IF k = 0 THEN first ELSE Further(h[k - 1])]
<1>1. \A u \in Unit : Dependencies(doc, u) \subseteq Unit BY DocumentType
<1>2. first \in V OBVIOUS
<1>3. \A R \in V : Further(R) \in V
  <2> SUFFICES ASSUME NEW R \in V, NEW q \in Further(R) PROVE q \in Pairs
    OBVIOUS
  <2>1. PICK p \in R : q \in {<<p[1], v>> : v \in Dependencies(doc, p[2])} OBVIOUS
  <2>2. p[1] \in Unit /\ p[2] \in Unit OBVIOUS
  <2> QED BY <1>1, <2>1, <2>2
<1>4. \A k \in 1 .. FROZEN : \A R \in V : step[<<k, R>>] = Further(R) OBVIOUS
<1>5. FROZEN \in Nat BY DEF FROZEN
<1>6. PICK h : Recursive(h, FROZEN, V, first, step)
  <2>1. \A k \in 1 .. FROZEN : \A R \in V : step[<<k, R>>] \in V BY <1>3, <1>4
  <2> HIDE DEF V, first, step
  <2> QED BY <1>2, <1>5, <2>1, RecursionExists
<1>7. Is(h)
  <2> HIDE DEF V, first, Further, step
  <2>1. \A k \in 1 .. FROZEN : k - 1 \in 0 .. FROZEN BY <1>5
  <2>2. \A k \in 1 .. FROZEN : h[k] = Further(h[k - 1]) BY <1>4, <1>6, <2>1 DEF Recursive
  <2>3. \A k \in 0 .. FROZEN : k # 0 => k \in 1 .. FROZEN BY <1>5
  <2>4. h \in [0 .. FROZEN -> V] /\ h[0] = first BY <1>6 DEF Recursive
  <2> QED BY <2>2, <2>3, <2>4
<1>8. ChainsTo(FROZEN) = CHOOSE g : Is(g) BY DEF ChainsTo
<1> DEFINE reach == ChainsTo(FROZEN)
<1> HIDE DEF Is
<1>9. Is(reach) BY <1>7, <1>8
<1> HIDE DEF reach
<1>10. reach[0] = first /\ \A k \in 1 .. FROZEN : reach[k] = Further(reach[k - 1])
  <2> HIDE DEF first, Further
  <2> QED BY <1>5, <1>9 DEF Is
<1>11. ASSUME NEW k \in 1 .. FROZEN, NEW u \in Unit, NEW w \in Unit,
              NEW v \in Dependencies(doc, w), <<u, w>> \in reach[k - 1]
       PROVE  <<u, v>> \in reach[k]
  <2>1. <<u, v>> \in Further(reach[k - 1]) BY <1>11
  <2> HIDE DEF Further
  <2> QED BY <1>10, <2>1
<1>12. \A u, v \in Unit : <<u, v>> \in reach[0] <=> u = v BY <1>10
<1> QED BY <1>11, <1>12 DEF reach

LEMMA BaseType ==
    ASSUME doc \in Documents, NEW u \in Unit
    PROVE  BaseLevel(u) \in Level
BY DocumentType, SeedType, JoinType DEF BaseLevel, Level, DROPPABLE, ANCHORED, FROZEN

LEMMA TracedStart == Init => Traced
BY DEF Init, Traced

LEMMA TracedKept == IInv /\ Traced /\ [Next]_vars => Traced'
<1> SUFFICES ASSUME IInv, Traced, [Next]_vars PROVE Traced' OBVIOUS
<1>t. /\ TypeOK /\ TypeOK' /\ doc \in Documents /\ doc' = doc
      /\ prot \in [Unit -> Level] /\ hops \in [Unit -> Nat] /\ doc.horizon \in Int
  BY NextTyped, DocumentType DEF IInv, Typed, TypeOK, Next, vars, Seed,
     AnchorReasoningChain, NothingToPropagate, FillWorklist, Drain, Pop, Visit, EndScan
<1>d. /\ ChainsTo(FROZEN)' = ChainsTo(FROZEN)
      /\ \A u : BaseLevel(u)' = BaseLevel(u)
  BY <1>t DEF ChainsTo, Dependencies, BaseLevel
<1>1. CASE Seed
  BY <1>1 DEF Seed, Traced
<1>2. CASE AnchorReasoningChain
  <2>1. ASSUME NEW v \in Unit PROVE prot'[v] = BaseLevel(v)'
    <3>1. prot[v] = SeedLevel(doc.feature[v], doc.enforce) /\ prot[v] \in Level
      BY <1>2, <1>t DEF AnchorReasoningChain, Traced
    <3>2. prot'[v] = IF doc.computational /\ IsOperand(v) THEN ANCHORED ELSE prot[v]
      BY <1>2 DEF AnchorReasoningChain
    <3>3. BaseLevel(v)' = BaseLevel(v) BY <1>d
    <3> QED BY <3>1, <3>2, <3>3
            DEF BaseLevel, IsOperand, Join, Level, DROPPABLE, ANCHORED, FROZEN
  <2> QED BY <1>2, <2>1 DEF AnchorReasoningChain, Traced
<1>3. ASSUME phase = "start", UNCHANGED <<prot, hops>>, NEW v \in Unit PROVE Trace(v)'
  <2>1. prot[v] = BaseLevel(v) /\ BaseLevel(v) \in Level
    BY <1>3, <1>t, BaseType DEF Traced
  <2>2. <<v, v>> \in ChainsTo(FROZEN)[0] BY <1>t, ChainFacts
  <2>3. prot'[v] = BaseLevel(v)' - 0 BY <1>3, <1>d, <2>1 DEF Level, DROPPABLE, FROZEN
  <2>4. 0 \in 0 .. FROZEN /\ 0 <= hops'[v] BY <1>3, <1>t DEF FROZEN
  <2> QED BY <1>d, <2>2, <2>3, <2>4 DEF Trace
<1>4. CASE NothingToPropagate
  <2>1. /\ phase = "start" /\ phase' = "done" /\ UNCHANGED <<prot, hops, seen>>
    BY <1>4 DEF NothingToPropagate
  <2> QED BY <1>3, <2>1 DEF Traced
<1>5. CASE FillWorklist
  <2>1. /\ phase = "start" /\ phase' = "pop" /\ UNCHANGED <<prot, hops>>
        /\ hops = [u \in Unit |-> 0]
    BY <1>5 DEF FillWorklist, IInv, BeforeStart
  <2> QED BY <1>3, <2>1 DEF Traced
<1>6. ASSUME UNCHANGED <<prot, hops, seen>>, phase \in {"pop", "scan"},
             phase' \in {"pop", "scan", "done"}
      PROVE  Traced'
  BY <1>6, <1>d, <1>t DEF Traced, Trace
<1>7. CASE Drain BY <1>6, <1>7 DEF Drain
<1>8. CASE Pop
  <2>1. phase' \in {"pop", "scan", "done"} /\ phase = "pop" /\ UNCHANGED <<prot, hops, seen>>
    BY <1>8 DEF Pop
  <2> QED BY <1>6, <2>1
<1>9. CASE EndScan BY <1>6, <1>9 DEF EndScan
<1>10. CASE Visit
  <2>0. PICK dst : dst = Head(rest) OBVIOUS
  <2>1. /\ phase = "scan" /\ phase' = "scan" /\ cur \in Unit /\ dst \in Unit
        /\ dst \in Dependencies(doc, cur)
    <3>1. /\ phase = "scan" /\ phase' = "scan" /\ rest # <<>> /\ rest \in Seq(Unit)
          /\ cur \in Unit
      BY <1>10, <1>t DEF Visit, TypeOK
    <3>2. 1 \in 1 .. Len(rest) /\ dst = rest[1] BY <2>0, <3>1
    <3>3. dst \in Dependencies(doc, cur) BY <3>1, <3>2 DEF IInv, ScanOK
    <3> QED BY <1>t, <3>1, <3>3, DocumentType
  <2>2. CASE ~ Queues(dst, Inherited(cur))
    BY <1>6, <1>10, <2>0, <2>1, <2>2 DEF Visit
  <2>3. CASE Queues(dst, Inherited(cur))
    <3>1. /\ prot' = [prot EXCEPT ![dst] = Join(prot[dst], Inherited(cur))]
          /\ seen' = seen \cup {dst}
          /\ hops' = [hops EXCEPT ![dst] = hops[cur] + 1]
      BY <1>10, <2>0, <2>3 DEF Visit
    <3>2. /\ prot'[dst] = Join(prot[dst], Inherited(cur)) /\ hops'[dst] = hops[cur] + 1
          /\ \A v \in Unit : v # dst => prot'[v] = prot[v] /\ hops'[v] = hops[v]
      BY <1>t, <2>1, <3>1
    <3>3. /\ hops[cur] < doc.horizon /\ prot[cur] >= ANCHORED
          /\ prot[cur] \in Level /\ prot[dst] \in Level
          /\ hops[cur] \in Nat /\ hops[dst] \in Nat
      BY <1>t, <2>1 DEF IInv, ScanOK
    <3>4. Inherited(cur) = prot[cur] - 1 BY <3>3, DemoteType DEF Inherited
    <3>5. CASE prot[dst] < Inherited(cur)
      <4>1. prot'[dst] = prot[cur] - 1
        BY <3>2, <3>3, <3>4, <3>5 DEF Join, Level, DROPPABLE, FROZEN
      <4>2. PICK k \in 0 .. FROZEN, u \in Unit :
               /\ <<u, cur>> \in ChainsTo(FROZEN)[k] /\ prot[cur] = BaseLevel(u) - k
               /\ k <= hops[cur]
        BY <2>1 DEF Traced, Trace
      <4>3. BaseLevel(u) \in Level BY <1>t, BaseType
      <4>4. k + 1 \in 1 .. FROZEN /\ (k + 1) - 1 = k
        BY <3>3, <4>2, <4>3 DEF Level, DROPPABLE, ANCHORED, FROZEN
      <4>5. <<u, dst>> \in ChainsTo(FROZEN)[k + 1]
        BY <1>t, <2>1, <4>2, <4>4, ChainFacts
      <4>6. prot'[dst] = BaseLevel(u) - (k + 1)
        BY <4>1, <4>2, <4>3, <4>4 DEF Level, DROPPABLE, FROZEN
      <4>7. k + 1 <= hops'[dst] /\ k + 1 <= doc.horizon
        BY <1>t, <3>2, <3>3, <4>2, <4>4 DEF FROZEN
      <4>8. Trace(dst)'
        <5>1. k + 1 \in 0 .. FROZEN BY <4>4 DEF FROZEN
        <5>2. /\ <<u, dst>> \in ChainsTo(FROZEN)'[k + 1] /\ prot'[dst] = BaseLevel(u)' - (k + 1)
              /\ k + 1 <= hops'[dst] /\ k + 1 <= doc'.horizon
          BY <1>d, <1>t, <4>5, <4>6, <4>7
        <5>3. PICK n : n = k + 1 OBVIOUS
        <5>4. /\ n \in 0 .. FROZEN
              /\ <<u, dst>> \in ChainsTo(FROZEN)'[n] /\ prot'[dst] = BaseLevel(u)' - n
              /\ n <= hops'[dst] /\ n <= doc'.horizon
          BY <5>1, <5>2, <5>3
        <5> QED BY <5>4 DEF Trace
      <4>9. \A v \in Unit : v # dst => Trace(v)'
        BY <1>d, <1>t, <2>1, <3>2 DEF Traced, Trace
      <4> QED BY <2>1, <3>1, <3>2, <4>8, <4>9 DEF Traced
    <3>6. CASE ~ (prot[dst] < Inherited(cur))
      <4>1. dst \notin seen /\ hops[dst] = 0
        BY <2>1, <2>3, <3>6 DEF Queues, Traced
      <4>2. prot'[dst] = prot[dst]
        BY <3>2, <3>3, <3>4, <3>6 DEF Join, Level, DROPPABLE, FROZEN
      <4>3. \A v \in Unit : prot'[v] = prot[v] /\ hops'[v] \in Nat /\ hops[v] <= hops'[v]
        BY <1>t, <3>2, <3>3, <4>1, <4>2
      <4>4. ASSUME NEW v \in Unit PROVE Trace(v)'
        <5>1. PICK k \in 0 .. FROZEN, u \in Unit :
                 /\ <<u, v>> \in ChainsTo(FROZEN)[k] /\ prot[v] = BaseLevel(u) - k
                 /\ k <= hops[v] /\ (k = 0 \/ k <= doc.horizon)
          BY <2>1 DEF Traced, Trace
        <5>2. prot'[v] = prot[v] /\ k <= hops'[v]
          BY <1>t, <4>3, <5>1 DEF FROZEN
        <5> QED BY <1>d, <1>t, <5>1, <5>2 DEF Trace
      <4> QED BY <2>1, <3>1, <3>2, <4>4 DEF Traced
    <3> QED BY <3>5, <3>6
  <2> QED BY <2>2, <2>3
<1>11. CASE UNCHANGED vars
  BY <1>11, <1>d, <1>t DEF vars, Traced, Trace
<1> QED BY <1>1, <1>2, <1>4, <1>5, <1>7, <1>8, <1>9, <1>10, <1>11 DEF Next

\* Every final level has a source: the unit's own, or that of a unit at most
\* `horizon` edges away, less one level per edge.
THEOREM LevelsHaveSources == Spec => []Explained
<1>1. IInv /\ Traced => Explained
  <2> SUFFICES ASSUME IInv, Traced, phase = "done", NEW v \in Unit
               PROVE  \/ prot[v] = BaseLevel(v)
                      \/ \E k \in {k \in 1 .. FROZEN : k <= doc.horizon} : \E u \in Unit :
                            <<u, v>> \in ChainsTo(FROZEN)[k] /\ prot[v] = BaseLevel(u) - k
    BY DEF Explained
  <2>1. PICK k \in 0 .. FROZEN, u \in Unit :
           /\ <<u, v>> \in ChainsTo(FROZEN)[k] /\ prot[v] = BaseLevel(u) - k
           /\ k = 0 \/ k <= doc.horizon
    BY DEF Traced, Trace
  <2>2. CASE k = 0
    <3>1. <<u, v>> \in ChainsTo(FROZEN)[0] BY <2>1, <2>2
    <3>2. u = v BY <3>1, ChainFacts DEF IInv
    <3>3. BaseLevel(u) \in Level BY BaseType DEF IInv
    <3> QED BY <2>1, <2>2, <3>2, <3>3 DEF Level, DROPPABLE, FROZEN
  <2>3. CASE k # 0
    <3>1. k \in 1 .. FROZEN /\ k <= doc.horizon BY <2>1, <2>3 DEF FROZEN
    <3> QED BY <2>1, <3>1
  <2> QED BY <2>2, <2>3
<1>2. Spec => [](IInv /\ Traced)
  BY InitInv, NextInv, TracedStart, TracedKept, PTL DEF Spec
<1> QED BY <1>1, <1>2, PTL
=============================================================================
