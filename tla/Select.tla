------------------------------- MODULE Select -------------------------------
(***************************************************************************)
(* The optimiser, CascadeSelectPass (passes/p050_select.py): floor every   *)
(* unit at its protection minimum, split what is left of the budget over   *)
(* the documents (water-filling), upgrade lazily-greedily inside each      *)
(* document's share, compare with the best single upgrade that did not     *)
(* fit, and give what is left to one global round.                         *)
(*                                                                         *)
(* Gains, ratios and salience are abstracted: the order in which the heap  *)
(* yields units, whether a unit still has a positive gain, whether a       *)
(* rejected upgrade beats the current singleton, whether the marginal      *)
(* floor stops the round and whether the singleton beats what the round    *)
(* achieved are free choices.  Costs, quotas and every comparison between  *)
(* them are exact.  The heap is lazy: an entry keeps the ratio it was      *)
(* pushed with, and a gain depends on the coverage, which only an applied  *)
(* upgrade changes.  So of a ratio it matters whether it was computed      *)
(* under the coverage of now: such an entry is neither faded nor queued    *)
(* again.                                                                  *)
(***************************************************************************)
EXTENDS CIR

CONSTANT Inputs   \* the [cir, budget] pairs a behaviour may start from

\* The engine never asks for fewer than 16 tokens (engine.py, _budget).  No
\* unit is dearer at its floor than at its top: every ladder is built sorted by
\* tokens, and a delta rung put in front of it later costs less than what was the
\* top then.
ASSUME InputsAssumption ==
    \A in \in Inputs :
        /\ in.cir \in Seq(Unit) /\ in.budget \in Nat /\ in.budget >= 16
        /\ \A i \in Uids(in.cir) : FloorIsCheaper(in.cir[i])

VARIABLES
    cir, budget,   \* the call's inputs
    level,         \* Unit.level, by uid
    stage,         \* "floor" -> "split" -> "share" <-> "greedy" -> "settle" -> "done"
    base,          \* base_cost: the floor's tokens
    share,         \* alloc, by document
    pending,       \* the documents whose share has not been run
    pool, quota,   \* the units and budget of the current _greedy call
    heap,          \* the units with a live heap entry
    fresh,         \* those of them pushed since the coverage last changed
    counter,       \* `counter` in _greedy: the pushes of the call
    spent,         \* `spent` in _greedy
    single,        \* `singleton`: <<>> for None, else <<uid, cost>>
    total,         \* spent_total
    spilled,       \* the current or last call is the global round
    replaced       \* some call returned through the singleton branch

vars == <<cir, budget, level, stage, base, share, pending, pool, quota, heap,
          fresh, counter, spent, single, total, spilled, replaced>>

call == <<pool, quota, heap, fresh, counter, spent, single>>

Cost == OutputTokens(cir, level)
Remaining == budget - base

\* The units that enter a group: those whose floor is not their top rung.
Upgradable == {i \in Uids(cir) : MinLevel(cir[i]) < MaxLevel(cir[i])}
Documents  == {cir[i].doc : i \in Upgradable}
Members(d) == {i \in Upgradable : cir[i].doc = d}

Top(i) == CostAt(cir[i], MaxLevel(cir[i]))

\* The tokens a document can absorb above its floor.
Cap(d) == SumFunction([i \in Members(d) |-> Top(i) - CostAt(cir[i], MinLevel(cir[i]))])

(***************************************************************************)
(* `waterfill` with zero floors: everything its cap when the budget covers *)
(* the caps; otherwise the rounding remainder is handed out until the      *)
(* allocation sums to the budget, inside the caps.  Which split maximises  *)
(* the concave value is left open.                                         *)
(***************************************************************************)
Waterfill(b) ==
    LET caps == [d \in Documents |-> Cap(d)] IN
    IF b >= SumFunction(caps) THEN {caps}
    ELSE {alloc \in [Documents -> 0 .. b] :
             /\ SumFunction(alloc) = b
             /\ \A d \in Documents : alloc[d] <= caps[d]}

FloorEverything ==
    /\ stage = "floor"
    /\ level' = Floor(cir)
    /\ base' = OutputTokens(cir, level')
    /\ stage' = IF base' >= budget \/ Upgradable = {} THEN "done" ELSE "split"
    /\ UNCHANGED <<cir, budget, share, pending, call, total, spilled, replaced>>

Split ==
    /\ stage = "split"
    /\ stage' = "share"
    /\ share' \in Waterfill(Remaining)
    /\ pending' = Documents
    /\ UNCHANGED <<cir, budget, level, base, call, total, spilled, replaced>>

(***************************************************************************)
(* One _greedy call.                                                       *)
(***************************************************************************)
CanRise(i) == level[i] < MaxLevel(cir[i])

\* _candidate: the cost of the next rung, at least one token.
StepCost(i) ==
    LET rise == CostAt(cir[i], level[i] + 1) - CostAt(cir[i], level[i])
    IN  IF rise <= 0 THEN 1 ELSE rise

\* Entering _greedy: units without a positive gain get no heap entry.
Enter(units, b) ==
    /\ stage' = "greedy"
    /\ pool' = units
    /\ quota' = b
    /\ heap' \in SUBSET {i \in units : CanRise(i)}
    /\ fresh' = heap' /\ counter' = Cardinality(heap')
    /\ spent' = 0
    /\ single' = <<>>

\* The documents are served in the order of their sorted ids; _greedy returns 0
\* at once for an empty share.
RunShare ==
    /\ stage = "share" /\ pending # {}
    /\ LET d == Min(pending) IN
          /\ pending' = pending \ {d}
          /\ IF share[d] <= 0
               THEN UNCHANGED <<stage, call>>
               ELSE Enter(Members(d), share[d])
    /\ UNCHANGED <<cir, budget, level, base, share, total, spilled, replaced>>

\* Slip: the global round is given the remaining budget, not what is left of it.
LeftoverAll == Remaining
Leftover == Remaining - total

Spills == Leftover > 8 /\ ~spilled

\* The global round, over every unit that entered a group and can still rise.
Spill ==
    /\ stage = "share" /\ pending = {}
    /\ IF Spills
         THEN /\ spilled' = TRUE
              /\ Enter({i \in Upgradable : CanRise(i)}, Leftover)
         ELSE stage' = "done" /\ UNCHANGED <<call, spilled>>
    /\ UNCHANGED <<cir, budget, level, base, share, pending, total, replaced>>

\* `while heap and spent < budget`.
LoopOver == heap = {} \/ spent >= quota
Looping  == stage = "greedy" /\ heap # {} /\ spent < quota

\* The heap yields a unit whose gain is gone: `item is None`.
Fade(i) ==
    /\ Looping /\ i \in heap \ fresh
    /\ heap' = heap \ {i}
    /\ UNCHANGED <<cir, budget, level, stage, base, share, pending, pool, quota,
                   fresh, counter, spent, single, total, spilled, replaced>>

\* The next rung does not fit what is left of the quota.
Fits(i) == StepCost(i) <= quota - spent

Affordable(cost) == cost <= 2 * quota \/ cost <= quota + 64

\* An upgrade that does not fit leaves the heap; a better one than the current
\* singleton is remembered if it is not too far over the quota.
Reject(i) ==
    /\ Looping /\ i \in heap /\ ~Fits(i)
    /\ heap' = heap \ {i} /\ fresh' = fresh \ {i}
    /\ \/ single' = <<i, StepCost(i)>> /\ Affordable(StepCost(i))
       \/ single' = single /\ (single # <<>> \/ ~Affordable(StepCost(i)))
    /\ UNCHANGED <<cir, budget, level, stage, base, share, pending, pool,
                   quota, counter, spent, total, spilled, replaced>>

\* The ratio an entry is put back with: the recomputed one.
\* Slip: the ratio it was popped with, which the next pop finds dropped again.
PushedOld(i) == fresh
Pushed(i) == fresh \cup {i}

\* CELF: the ratio dropped since the entry was pushed, so the entry goes back
\* in, at the recomputed one.
Requeue(i) ==
    /\ Looping /\ i \in heap \ fresh /\ Fits(i)
    /\ fresh' = Pushed(i)
    /\ counter' = counter + 1
    /\ UNCHANGED <<cir, budget, level, stage, base, share, pending, pool, quota,
                   heap, spent, single, total, spilled, replaced>>

\* An upgrade is applied, which changes the coverage; the unit is pushed back
\* while it has a next rung with a positive gain.
Upgrade(i) ==
    /\ Looping /\ i \in heap /\ Fits(i)
    /\ level' = [level EXCEPT ![i] = @ + 1]
    /\ spent' = spent + StepCost(i)
    /\ \/ /\ level[i] + 1 < MaxLevel(cir[i])
          /\ heap' = heap /\ fresh' = {i} /\ counter' = counter + 1
       \/ heap' = heap \ {i} /\ fresh' = {} /\ counter' = counter
    /\ UNCHANGED <<cir, budget, stage, base, share, pending, pool, quota,
                   single, total, spilled, replaced>>

\* The loop ends: heap empty, quota used up, or the best remaining ratio fell
\* below the marginal floor (some upgrade came before it).
Stop ==
    /\ stage = "greedy"
    /\ LoopOver \/ (Looping /\ spent > 0 /\ \E i \in heap : Fits(i))
    /\ stage' = "settle"
    /\ UNCHANGED <<cir, budget, level, base, share, pending, call, total,
                   spilled, replaced>>

\* No singleton, or it gains no more than the round achieved.
Keep ==
    /\ stage = "settle"
    /\ stage' = "share"
    /\ total' = total + spent
    /\ UNCHANGED <<cir, budget, level, base, share, pending, call, spilled, replaced>>

\* The singleton wins: the rest of the pool goes back to its floor and the call
\* reports the cost of the singleton's last step.
\* Slip: the losers are dropped, not floored.
FallsTo0(i) == 0
FallsTo(i) == MinLevel(cir[i])

Replace ==
    /\ stage = "settle" /\ single # <<>>
    /\ stage' = "share"
    /\ level' = [i \in Uids(cir) |->
                    IF i = single[1] THEN level[i] + 1
                    ELSE IF i \in pool /\ level[i] > MinLevel(cir[i]) THEN FallsTo(i)
                    ELSE level[i]]
    /\ total' = total + single[2]
    /\ replaced' = TRUE
    /\ UNCHANGED <<cir, budget, base, share, pending, call, spilled>>

Init ==
    /\ \E in \in Inputs : cir = in.cir /\ budget = in.budget
    /\ level = [i \in Uids(cir) |-> MaxLevel(cir[i])]
    /\ stage = "floor"
    /\ base = 0
    /\ share = <<>> /\ pending = {}
    /\ pool = {} /\ quota = 0 /\ heap = {} /\ fresh = {}
    /\ counter = 0 /\ spent = 0 /\ single = <<>>
    /\ total = 0
    /\ spilled = FALSE /\ replaced = FALSE

Greedy == \E i \in heap : Fade(i) \/ Reject(i) \/ Requeue(i) \/ Upgrade(i)

Next == \/ FloorEverything \/ Split \/ RunShare \/ Spill
        \/ Greedy \/ Stop \/ Keep \/ Replace

Spec == Init /\ [][Next]_vars

(***************************************************************************)
(* Properties.                                                             *)
(***************************************************************************)
\* A unit is never below the floor its protection sets once `run` has floored
\* it, not even when the singleton takes everybody else's upgrades back.
FloorHeld ==
    stage # "floor" => \A i \in Uids(cir) : level[i] >= MinLevel(cir[i])

\* The tokens the rounds account for.
Committed == total + (IF stage \in {"greedy", "settle"} THEN spent ELSE 0)

\* While no singleton has replaced a round, the units cost no more than the
\* accounts say, and the accounts never pass the budget: the shares, the
\* rounds inside them and the global round together spend `remaining` at most,
\* and only the floor may go over (GUARANTEES.md, the floor outranks the
\* budget).
WithinBudget ==
    stage # "floor" /\ ~replaced =>
        /\ Cost <= base + Committed
        /\ base + Committed <= budget \/ Committed = 0

\* The pass is an implementation of the one-step contract of Selection.
Sel == INSTANCE Selection WITH result <- IF stage = "done" THEN level ELSE <<>>
ImplementsSelection == Sel!Spec

\* The lazy heap does not churn: between two upgrades each entry is put back
\* once at most, because what is put back carries the ratio of now, and every
\* upgrade uses up a token of the quota.  So no call pushes more entries than
\* its pool has units, times one round plus one per token it spent; and as every
\* turn of the loop pops an entry, the loop ends.
PushesBounded == counter <= Cardinality(pool) * (1 + spent)
=============================================================================
