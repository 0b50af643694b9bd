----------------------------- MODULE Protection -----------------------------
(***************************************************************************)
(* The protection lattice of ulrc3/ir/protection.py, as the IR builder     *)
(* drives it (ir/builder.py, _finalise): `seed` gives every unit a floor   *)
(* from its segment, its kind and its obligations, _anchor_reasoning_chain *)
(* lifts the operands of a computational query, and `propagate` runs a     *)
(* FIFO worklist along the REQUIRES edges until it drains.                 *)
(*                                                                         *)
(* A unit's text is abstracted to what the code asks of it: the roles its  *)
(* segment and kind play, the classes of its obligations, and which noise  *)
(* pattern its text matches.                                               *)
(***************************************************************************)
EXTENDS Seeding, Sequences, FiniteSets

CONSTANTS
    Unit,       \* the units of the CIR
    Documents   \* the documents (with their policy) a behaviour may start from

(***************************************************************************)
(* A document: its units' features, the REQUIRES adjacency lists in edge   *)
(* order (CIR.add_edge refuses self loops), whether the query asks for a   *)
(* derived value, and the active policy.                                   *)
(***************************************************************************)
Document == [feature       : [Unit -> Feature],
             out           : [Unit -> Seq(Unit)],
             computational : BOOLEAN,
             enforce       : SUBSET {"sc", "cc", "nc"},
             horizon       : Int]

Dependencies(d, u) == {d.out[u][i] : i \in 1 .. Len(d.out[u])}

\* The engine returns before _finalise matters when a document has no units.
ASSUME UnitAssumption == IsFiniteSet(Unit) /\ Unit # {}

ASSUME DocumentsAssumption ==
    /\ Documents \subseteq Document
    /\ \A d \in Documents : \A u \in Unit : u \notin Dependencies(d, u)

VARIABLES
    doc,     \* the document and policy, fixed
    phase,   \* "seed" -> "anchor" -> "start" -> "pop" <-> "scan" -> "done"
    prot,    \* Unit.protection
    seen,    \* the domain of the `hops` dict
    hops,    \* the `hops` dict; 0 outside `seen`
    work,    \* the deque
    cur,     \* the unit whose dependencies are being scanned
    rest,    \* the dependencies of cur not yet scanned
    guard    \* the defensive step counter

vars == <<doc, phase, prot, seen, hops, work, cur, rest, guard>>

(***************************************************************************)
(* Seeding.                                                                *)
(***************************************************************************)
Seed ==
    /\ phase = "seed"
    /\ phase' = "anchor"
    /\ prot' = [u \in Unit |-> SeedLevel(doc.feature[u], doc.enforce)]
    /\ UNCHANGED <<doc, seen, hops, work, cur, rest, guard>>

\* Every number-bearing prose unit below ANCHORED is an operand.
IsOperand(u) == /\ doc.feature[u].kind = "prose"
                /\ "n" \in doc.feature[u].classes
                /\ prot[u] < ANCHORED

AnchorReasoningChain ==
    /\ phase = "anchor"
    /\ phase' = "start"
    /\ prot' = [u \in Unit |-> IF doc.computational /\ IsOperand(u)
                                 THEN ANCHORED ELSE prot[u]]
    /\ UNCHANGED <<doc, seen, hops, work, cur, rest, guard>>

(***************************************************************************)
(* Propagation.                                                            *)
(***************************************************************************)
HasEdges == \E u \in Unit : doc.out[u] # <<>>

Protected == {u \in Unit : prot[u] >= ANCHORED}

\* `propagate` returns 0 at once without a horizon or without an edge.
NothingToPropagate ==
    /\ phase = "start"
    /\ doc.horizon <= 0 \/ ~HasEdges
    /\ phase' = "done"
    /\ UNCHANGED <<doc, prot, seen, hops, work, cur, rest, guard>>

\* dict.fromkeys(work, 0) over the protected units.  The code queues them in
\* uid order; any order is allowed here, so no property depends on numbering.
FillWorklist ==
    /\ phase = "start"
    /\ doc.horizon > 0 /\ HasEdges
    /\ phase' = "pop"
    /\ seen' = Protected
    /\ \E queue \in [1 .. Cardinality(Protected) -> Protected] :
          /\ \A u \in Protected : \E i \in DOMAIN queue : queue[i] = u
          /\ work' = queue
    /\ UNCHANGED <<doc, prot, hops, cur, rest, guard>>

Edges == UNION {{<<u, i>> : i \in 1 .. Len(doc.out[u])} : u \in Unit}

MaxSteps == 64 * (Cardinality(Unit) + Cardinality(Edges) + 1)

\* `while work:` comes out false.
Drain ==
    /\ phase = "pop" /\ work = <<>>
    /\ phase' = "done"
    /\ UNCHANGED <<doc, prot, seen, hops, work, cur, rest, guard>>

\* What a unit hands down, and whether it has anything to hand down.
\* Slip: no decay along an edge.
InheritedWhole(u) == prot[u]
Inherited(u) == Demote(prot[u])

\* Slip: the horizon is one hop short.
PropagatesShort(u) == hops[u] + 1 < doc.horizon /\ Inherited(u) > DROPPABLE
Propagates(u) == hops[u] < doc.horizon /\ Inherited(u) > DROPPABLE

\* One iteration of `while work:` up to the inner loop.  The defensive break
\* leaves before the pop; a unit past the horizon is popped and skipped.
Pop ==
    /\ phase = "pop" /\ work # <<>>
    /\ guard' = guard + 1
    /\ IF guard' > MaxSteps
         THEN phase' = "done" /\ UNCHANGED <<work, cur, rest>>
         ELSE /\ work' = Tail(work)
              /\ cur' = Head(work)
              /\ IF Propagates(Head(work))
                   THEN phase' = "scan" /\ rest' = doc.out[Head(work)]
                   ELSE UNCHANGED <<phase, rest>>
    /\ UNCHANGED <<doc, prot, seen, hops>>

\* A dependency is queued when it is raised or met for the first time.
\* Slips: a unit met before is never raised; every dependency is queued.
QueuesUnseen(dst, inherited) == dst \notin seen
QueuesAlways(dst, inherited) == TRUE
Queues(dst, inherited) == prot[dst] < inherited \/ dst \notin seen

Visit ==
    /\ phase = "scan" /\ rest # <<>>
    /\ rest' = Tail(rest)
    /\ LET dst == Head(rest) IN
         IF Queues(dst, Inherited(cur))
           THEN /\ prot' = [prot EXCEPT ![dst] = Join(@, Inherited(cur))]
                /\ seen' = seen \cup {dst}
                /\ hops' = [hops EXCEPT ![dst] = hops[cur] + 1]
                /\ work' = Append(work, dst)
           ELSE UNCHANGED <<prot, seen, hops, work>>
    /\ UNCHANGED <<doc, phase, cur, guard>>

EndScan ==
    /\ phase = "scan" /\ rest = <<>>
    /\ phase' = "pop"
    /\ UNCHANGED <<doc, prot, seen, hops, work, cur, rest, guard>>

\* `uid` before its first assignment: no step reads it.
AnyUnit == CHOOSE u \in Unit : TRUE

Init ==
    /\ doc \in Documents
    /\ phase = "seed"
    /\ prot = [u \in Unit |-> doc.feature[u].given]
    /\ seen = {}
    /\ hops = [u \in Unit |-> 0]
    /\ work = <<>>
    /\ cur = AnyUnit
    /\ rest = <<>>
    /\ guard = 0

Next == \/ Seed \/ AnchorReasoningChain
        \/ NothingToPropagate \/ FillWorklist
        \/ Drain \/ Pop \/ Visit \/ EndScan

Spec == Init /\ [][Next]_vars

-----------------------------------------------------------------------------
(***************************************************************************)
(* What the lattice promises.                                              *)
(***************************************************************************)
TypeOK ==
    /\ doc \in Document
    /\ phase \in {"seed", "anchor", "start", "pop", "scan", "done"}
    /\ prot \in [Unit -> Level]
    /\ seen \subseteq Unit
    /\ hops \in [Unit -> Nat]
    /\ work \in Seq(Unit)
    /\ cur \in Unit
    /\ rest \in Seq(Unit)
    /\ guard \in Nat

\* No step of seeding or propagation lowers a level: a pipeline's protection and
\* the seed are floors ("raise it, never lower it below the seed").
NeverLowered == [][\A u \in Unit : prot'[u] >= prot[u]]_vars

\* The worklist ran until it was empty.
Drained == phase = "done" /\ work = <<>>

\* With the default horizon of 3 or more, a drained worklist is a fixpoint of
\* the transfer function: no hop limit, requeue or decay leaves a dependency
\* below what the unit that needs it hands down.
ClosedWhenDrained ==
    (Drained /\ doc.horizon >= 3) =>
        \A u \in Unit : \A v \in Dependencies(doc, u) :
            prot[u] >= ANCHORED => prot[v] >= Demote(prot[u])

\* Under any horizon, what a LOCKED or FROZEN unit depends on directly is at
\* least ANCHORED once the worklist drains: a kept contract keeps a stub of
\* each thing it names, even if the unit was also reached through other edges.
DirectDependenciesKept ==
    (Drained /\ doc.horizon >= 1) =>
        \A u \in Unit : \A v \in Dependencies(doc, u) :
            SeedLevel(doc.feature[u], doc.enforce) >= LOCKED
                => prot[v] >= ANCHORED

\* The levels the builder starts propagation from.
BaseLevel(u) ==
    LET p == SeedLevel(doc.feature[u], doc.enforce) IN
    IF doc.computational /\ doc.feature[u].kind = "prose" /\ "n" \in doc.feature[u].classes
      THEN Join(p, ANCHORED) ELSE p

\* reach[k]: the pairs joined by a chain of exactly k REQUIRES edges.
ChainsTo(n) ==
    LET reach[k \in 0 .. n] ==
          IF k = 0 THEN {<<u, u>> : u \in Unit}
          ELSE UNION {{<<p[1], v>> : v \in Dependencies(doc, p[2])} : p \in reach[k - 1]}
    IN  reach

\* Protection never spreads further or higher than the docstring's closed form:
\* every level is the unit's own, or that of a unit at most `horizon` REQUIRES
\* edges away less one level per edge.  This is what bounds the floor cost.
Explained ==
    phase = "done" =>
        LET reach == ChainsTo(FROZEN)
            Hops  == {k \in 1 .. FROZEN : k <= doc.horizon}
        IN  \A v \in Unit :
               \/ prot[v] = BaseLevel(v)
               \/ \E k \in Hops : \E u \in Unit :
                     <<u, v>> \in reach[k] /\ prot[v] = BaseLevel(u) - k

\* The documented cost, O(V + E * |Protection|): a unit is queued at most three
\* times (once per level it can be raised to), so the defensive break is far off.
WorkBound == guard <= 3 * Cardinality(Unit)
=============================================================================
