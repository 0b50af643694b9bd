----------------------------- MODULE Compressor -----------------------------
(***************************************************************************)
(* One call of CompressionEngine.compress (engine.py) after the prep       *)
(* passes: select, close under REQUIRES, render, verify and repair in      *)
(* place, render again while repair changed something, and raise the       *)
(* budget and start over while the confidence is too low.                  *)
(*                                                                         *)
(* Selection is taken at its contract (module Selection, implemented by    *)
(* Select).  The confidence estimate is a free choice.  ctx.output is      *)
(* represented by the levels it was rendered from: what it shows and what  *)
(* it costs follow from them.                                              *)
(***************************************************************************)
EXTENDS CIR

CONSTANT Documents

(***************************************************************************)
(* A built document and the policy it is compressed under.  `canon` holds  *)
(* the DUPLICATE_OF edges.  A name that occurs in `internAt` units or more *)
(* is replaced by an alias in every body unit, which hides the keys of     *)
(* `named` from an audit; `saving` is what that saves.  `carrier` is the   *)
(* cost of the merged clauses of a group of keys of one unit, 0 if they    *)
(* do not carry them all; `frame` the cost of header, markers and notices. *)
(***************************************************************************)
Document == [cir : Seq(Unit), requires : SUBSET (Nat \X Nat), canon : SUBSET (Nat \X Nat),
             audited : SUBSET Key, critical : SUBSET Key, retracted : SUBSET Key,
             named : SUBSET Key, mentions : SUBSET Nat, internAt : Nat, saving : Nat,
             carrier : [SUBSET Key -> Nat], factBlock : BOOLEAN, adaptive : BOOLEAN,
             tokensIn : Nat, frame : Nat, budget : Nat, horizon : Nat, maxRounds : Nat]

\* A document without units never gets here; a section precedes its members.
ASSUME DocumentsAssumption ==
    \A d \in Documents : /\ d \in Document /\ d.cir # <<>>
                         /\ \A i \in 1 .. Len(d.cir) : d.cir[i].parent < i

MaxAdaptiveRounds == 3

VARIABLES
    doc,       \* the document and policy, fixed
    cir,       \* cir.units; repair appends FACT units
    level,     \* Unit.level, by uid
    budget,    \* ctx.budget
    phase,     \* "select" -> "closure" -> "render" -> "verify" -> "repair" -> "decide" -> "done"
    output,    \* the levels ctx.output was rendered from
    queue,     \* the missing keys _repair has yet to serve, with their rank
    at,        \* the unit _repair is serving
    seen,      \* repaired_keys
    spent,     \* repair_tokens
    dirty,     \* needs_rerender
    repairs,   \* `rounds` in _repair_loop
    rounds,    \* `rounds` in compress
    fallback   \* fallback_reason

vars == <<doc, cir, level, budget, phase, output, queue, at, seen, spent,
          dirty, repairs, rounds, fallback>>

Larger(a, b)  == IF a >= b THEN a ELSE b
Smaller(a, b) == IF a <= b THEN a ELSE b

IsFact(i) == i > Len(doc.cir)

-----------------------------------------------------------------------------
(***************************************************************************)
(* Select and close.                                                       *)
(***************************************************************************)
Contract == INSTANCE Selection WITH Inputs <- {}, result <- level

Ladders == [Uids(cir) -> 0 .. Max({MaxLevel(cir[i]) : i \in Uids(cir)})]

\* A FACT unit has a single rung and stays on it.
Select ==
    /\ phase = "select"
    /\ phase' = "closure"
    /\ \E choice \in Ladders : Contract!Outcome(cir, budget, choice) /\ level' = choice
    /\ repairs' = 0
    /\ UNCHANGED <<doc, cir, budget, output, queue, at, seen, spent, dirty,
                   rounds, fallback>>

\* requires_closure: what `kept` reaches along at most `horizon` REQUIRES edges.
Reach(kept) ==
    LET within[n \in 0 .. doc.horizon] ==
            IF n = 0 THEN kept
            ELSE within[n-1] \cup {e[2] : e \in {r \in doc.requires : r[1] \in within[n-1]}}
    IN  within[doc.horizon]

Stub(lv, wanted) ==
    [i \in Uids(cir) |-> IF i \in wanted /\ lv[i] = 0 /\ MaxLevel(cir[i]) >= 1 THEN 1 ELSE lv[i]]

Closed(lv) == Stub(lv, Reach(Selected(cir, lv)))

\* Duplicates do not outlive their canonical unit (which has no canon itself).
Canonical(lv) == Stub(lv, {e[2] : e \in {d \in doc.canon : lv[d[1]] > 0}})

\* The units above i in the section tree; a section's uid is below its members'.
Above(i) ==
    LET up[j \in 0 .. i] ==
            IF j = 0 \/ cir[j].parent = 0 THEN {} ELSE {cir[j].parent} \cup up[cir[j].parent]
    IN  up[i]

IsOrphan(h, lv) ==
    ~ \E i \in Uids(cir) : lv[i] > 0 /\ ~cir[i].heading /\ h \in Above(i)

\* Slip: a locked heading may go, too.
DroppableAny(u) == u.heading /\ u.own = {}
Droppable(u) == u.heading /\ u.own = {} /\ u.prot < LOCKED

WithoutOrphans(lv) ==
    [h \in Uids(cir) |-> IF Droppable(cir[h]) /\ IsOrphan(h, lv) THEN 0 ELSE lv[h]]

Close ==
    /\ phase = "closure"
    /\ phase' = "render"
    /\ level' = WithoutOrphans(Canonical(Closed(level)))
    /\ UNCHANGED <<doc, cir, budget, output, queue, at, seen, spent, dirty,
                   repairs, rounds, fallback>>

-----------------------------------------------------------------------------
(***************************************************************************)
(* Render.                                                                 *)
(***************************************************************************)
Render ==
    /\ phase = "render"
    /\ phase' = "verify"
    /\ output' = level
    /\ UNCHANGED <<doc, cir, level, budget, queue, at, seen, spent, dirty,
                   repairs, rounds, fallback>>

\* Of the FACT units appended since, the output knows nothing.
Printed == {i \in DOMAIN output : output[i] > 0 /\ (IsFact(i) => doc.factBlock)}

InBody(i) == ~IsFact(i) /\ cir[i].prot < FROZEN

Interning == Cardinality({i \in Printed : InBody(i) /\ i \in doc.mentions}) >= doc.internAt

Hidden(i) == IF Interning /\ InBody(i) THEN doc.named ELSE {}

Shown    == UNION {ShowsAt(cir[i], output[i]) \ Hidden(i) : i \in Printed}
Retained == UNION {ClaimsAt(cir[i], level[i]) : i \in Uids(cir)}

TokensOut == MapThenSumSet(LAMBDA i : CostAt(cir[i], output[i]), Printed)
                + doc.frame - (IF Interning THEN doc.saving ELSE 0)

Foreign == \E i \in Printed : cir[i].rungs[output[i]].foreign

-----------------------------------------------------------------------------
(***************************************************************************)
(* Verify: audit the output, then repair what it misses unit by unit.      *)
(***************************************************************************)
Integrity == (doc.audited \cap Retained) \ Shown
Critical  == (doc.audited \cap doc.critical) \ (Retained \cup Shown)
Other     == doc.audited \ (doc.critical \cup Retained \cup Shown)
Missing   == Integrity \cup Critical \cup Other

Holders(k) == {i \in Uids(doc.cir) : k \in doc.cir[i].own}
Owner(k)   == Min(Holders(k))

\* Keys already repaired once, retracted, or without an owner are not repaired.
\* Slip: the queue holds only what is critical.
RepairableExempt(k) == k \in Integrity \cup Critical /\ k \notin seen \cup doc.retracted
                         /\ Holders(k) # {}
Repairable(k) == k \notin seen \cup doc.retracted /\ Holders(k) # {}

Rank(k) == IF k \in Integrity THEN 0 ELSE IF k \in Critical THEN 1 ELSE 2

Audit ==
    /\ phase = "verify"
    /\ phase' = "repair"
    /\ queue' = [k \in {m \in Missing : Repairable(m)} |-> Rank(k)]
    /\ at' = 0
    /\ UNCHANGED <<doc, cir, level, budget, output, seen, spent, dirty,
                   repairs, rounds, fallback>>

Cap     == Larger(48, (35 * budget) \div 100)
HardCap == Larger(Cap, (45 * doc.tokensIn) \div 100)

\* The lowest rung, from the current one up, that carries every key of the group.
\* Slips: one key of the group is enough; the search starts at the bottom.
CarriesSome(u, j, group)  == group \cap u.rungs[j].claims # {}
Carries(u, j, group) == group \subseteq u.rungs[j].claims
FromBottom(i) == 1
FromHere(i) == Larger(1, level[i])

Promotions(i, group) ==
    LET enough == {j \in FromHere(i) .. MaxLevel(cir[i]) : Carries(cir[i], j, group)} IN
    IF enough = {} THEN {}
    ELSE {[how |-> "promote", rung |-> Min(enough),
           cost |-> Larger(0, CostAt(cir[i], Min(enough)) - CostAt(cir[i], level[i]))]}

\* The group's clauses as one FACT unit.
Carriers(group) ==
    IF doc.carrier[group] = 0 THEN {}
    ELSE {[how |-> "carrier", rung |-> 1, cost |-> doc.carrier[group] + 1]}

\* Slip: the option's own cost is not counted.
WithinLoose(cost, limit) == spent < limit
Within(cost, limit) == spent < limit /\ spent + cost <= limit

Affordable(i, group, limit) ==
    {o \in Promotions(i, group) \cup Carriers(group) : Within(o.cost, limit)}

\* Cheapest first; a tie goes to promotion.
Preferred(o, options) ==
    \A p \in options \ {o} : o.cost < p.cost \/ (o.cost = p.cost /\ o.how = "promote")

Pending(i)  == {k \in DOMAIN queue : Owner(k) = i}
Exempt(i)   == {k \in Pending(i) : queue[k] < 2}
Group(i)    == IF Exempt(i) # {} THEN Exempt(i) ELSE Pending(i)
Limit(i)    == IF Exempt(i) # {} THEN HardCap ELSE Cap
Urgency(i)  == Min({queue[k] : k \in Pending(i)})

\* The unit being served keeps its turn; then the most urgent one is next.
Turn(i) ==
    /\ Pending(i) # {}
    /\ i = at \/ (Pending(at) = {} /\ \A k \in DOMAIN queue : Urgency(i) <= queue[k])

\* Slip: a group that was not repaired stays in the queue.
ServeNone(group) == queue
Serve(group) == [k \in DOMAIN queue \ group |-> queue[k]]

Fact(i, group, cost) ==
    [prot |-> LOCKED, own |-> group,
     rungs |-> <<[cost |-> cost, claims |-> group, shows |-> group, foreign |-> FALSE]>>,
     doc |-> cir[i].doc, heading |-> FALSE, parent |-> 0]

WithFactLevel(lv) == Append(lv, 1)

\* Slip: only a new FACT block asks for another rendering.
AsksRenderFact(o) == dirty \/ o.how = "carrier"
AsksRender(o) == TRUE

Admit(i, group, o) ==
    /\ IF o.how = "promote"
         THEN level' = [level EXCEPT ![i] = o.rung] /\ UNCHANGED cir
         ELSE cir' = Append(cir, Fact(i, group, o.cost)) /\ level' = WithFactLevel(level)
    /\ spent' = spent + o.cost
    /\ seen' = seen \cup group
    /\ dirty' = AsksRender(o)

RepairGroup(i) ==
    /\ phase = "repair" /\ Turn(i)
    /\ at' = i
    /\ queue' = Serve(Group(i))
    /\ LET options == Affordable(i, Group(i), Limit(i)) IN
         IF options = {} THEN UNCHANGED <<cir, level, spent, seen, dirty>>
         ELSE \E o \in options : Preferred(o, options) /\ Admit(i, Group(i), o)
    /\ UNCHANGED <<doc, budget, phase, output, repairs, rounds, fallback>>

\* _repair_loop: the flag is taken down whether or not a round is left.
Loop ==
    /\ phase = "repair" /\ DOMAIN queue = {}
    /\ dirty' = FALSE
    /\ IF dirty /\ repairs < doc.maxRounds
         THEN phase' = "render" /\ repairs' = repairs + 1
         ELSE phase' = "decide" /\ UNCHANGED repairs
    /\ UNCHANGED <<doc, cir, level, budget, output, queue, at, seen, spent,
                   rounds, fallback>>

-----------------------------------------------------------------------------
(***************************************************************************)
(* Adapt or finish.                                                        *)
(***************************************************************************)
RaiseBudget ==
    /\ phase = "decide"
    /\ doc.adaptive /\ rounds < MaxAdaptiveRounds /\ budget < doc.tokensIn
    /\ phase' = "select"
    /\ rounds' = rounds + 1
    /\ budget' = Smaller(doc.tokensIn, (135 * budget) \div 100 + 32)
    /\ UNCHANGED <<doc, cir, level, output, queue, at, seen, spent, dirty,
                   repairs, fallback>>

Finish ==
    /\ phase = "decide"
    /\ phase' = "done"
    /\ fallback' = IF TokensOut >= doc.tokensIn THEN "inflation"
                   ELSE IF Foreign THEN "provenance" ELSE "none"
    /\ UNCHANGED <<doc, cir, level, budget, output, queue, at, seen, spent,
                   dirty, repairs, rounds>>

\* What the caller gets: the source only if the output would be no smaller.
ReturnsSource == phase = "done" /\ fallback = "inflation"

Init ==
    /\ doc \in Documents
    /\ cir = doc.cir
    /\ level = [i \in Uids(cir) |-> MaxLevel(cir[i])]
    /\ budget = doc.budget
    /\ phase = "select"
    /\ output = <<>> /\ queue = <<>> /\ at = 0
    /\ seen = {} /\ spent = 0 /\ dirty = FALSE
    /\ repairs = 0 /\ rounds = 0
    /\ fallback = "none"

Repair == \E i \in Uids(doc.cir) : RepairGroup(i)

Next == Select \/ Close \/ Render \/ Audit \/ Repair \/ Loop \/ RaiseBudget \/ Finish

Spec == Init /\ [][Next]_vars

\* compress runs to its end in one thread.
FairSpec == Spec /\ WF_vars(Next)

-----------------------------------------------------------------------------
(***************************************************************************)
(* Properties.                                                             *)
(***************************************************************************)
\* Every variable has its type, there is a level for every unit and it is one
\* of the unit's own, and only FACT units are added to the document.
TypeOK ==
    /\ cir \in Seq(Unit)
    /\ Len(cir) >= Len(doc.cir)
    /\ \A i \in Uids(cir) : IF IsFact(i) THEN cir[i].prot = LOCKED ELSE cir[i] = doc.cir[i]
    /\ level \in Seq(Nat) /\ Len(level) = Len(cir)
    /\ \A i \in Uids(cir) : level[i] <= MaxLevel(cir[i])
    /\ budget \in Nat
    /\ phase \in {"select", "closure", "render", "verify", "repair", "decide", "done"}
    /\ output \in Seq(Nat) /\ Len(output) <= Len(cir)
    /\ DOMAIN queue \subseteq Key /\ \A k \in DOMAIN queue : queue[k] \in 0 .. 2
    /\ at \in 0 .. Len(doc.cir)
    /\ seen \subseteq Key /\ spent \in Nat /\ dirty \in BOOLEAN
    /\ repairs \in Nat /\ rounds \in 0 .. MaxAdaptiveRounds
    /\ fallback \in {"none", "inflation", "provenance"}

\* The protection floor survives selection, the removal of orphaned headings,
\* every repair and every change of the budget: from the first closure on, a
\* locked or frozen unit is at its floor or above, and so is an anchored one
\* unless it is a heading that closure may drop; a frozen unit is therefore
\* always verbatim (GUARANTEES.md, G3).
Protected(u) == u.prot >= LOCKED \/ (u.prot = ANCHORED /\ ~(u.heading /\ u.own = {}))
ProtectionHeld ==
    phase # "select" =>
        \A i \in Uids(cir) : Protected(cir[i]) => level[i] >= MinLevel(cir[i])

\* "The repair loop only adds carriers" (engine.py:12): from rendering to the
\* decision no unit loses a level and no unit is removed or changed.
Grows == /\ Len(cir) <= Len(cir')
         /\ \A i \in Uids(cir) : cir'[i] = cir[i] /\ level[i] <= level'[i]
RepairOnlyAdds == [][(phase \in {"render", "verify", "repair"}) => Grows]_vars

\* Over all rendering rounds and all adaptive rounds together, repair spends no
\* more than the hard cap of the current budget.
RepairBounded == spent <= HardCap

\* Within one adaptive round a repaired key stays claimed, unless its own unit
\* has since been promoted past the rung that claimed it.
Outgrown(k) ==
    \E j \in 1 .. level[Owner(k)] - 1 : k \in ClaimsAt(cir[Owner(k)], j)
RepairsStick == rounds = 0 => \A k \in seen : k \in Retained \/ Outgrown(k)

\* Unless max_repair_rounds cuts the loop short, the text that is measured and
\* returned was rendered after the last repair.
OutputIsCurrent == phase = "decide" /\ repairs < doc.maxRounds => output = level

\* Unless it was cut short, the loop has repaired what it can: whatever the
\* final text lacks has been repaired before, is retracted, has no owner, or
\* belongs to a group none of whose repairs fits the limit.
Unserved(i, keys) == {k \in keys : /\ k \notin seen \cup doc.retracted
                                   /\ Holders(k) # {} /\ Owner(k) = i}
RepairExhausted ==
    phase = "decide" /\ repairs < doc.maxRounds =>
        \A i \in Uids(doc.cir) :
            LET exempt == Unserved(i, Integrity \cup Critical)
                rest   == Unserved(i, Other)
            IN  /\ exempt = {} \/ Affordable(i, exempt, HardCap) = {}
                /\ rest = {} \/ Affordable(i, rest, Cap) = {}

\* Both feedback loops end, whatever the confidence estimate says.
Terminates == <>(phase = "done")

(***************************************************************************)
(* What the documentation says and the code does not do.                   *)
(***************************************************************************)
Answered == phase = "done" /\ ~ReturnsSource

\* GUARANTEES.md:57-58 and :65: every critical obligation appears in the output,
\* and what is missing is repaired first.  Stated only of those that repair did
\* restore.
RepairedCriticalKept == Answered => doc.critical \cap seen \subseteq Shown

\* GUARANTEES.md, G8: every REQUIRES edge of a retained unit leads to a retained
\* unit or its stub.
DependenciesClosed ==
    Answered => \A e \in doc.requires : e[1] \in Printed => e[2] \in Printed
=============================================================================
