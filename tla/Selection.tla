----------------------------- MODULE Selection ------------------------------
(***************************************************************************)
(* What the rest of the engine may assume of the optimiser                 *)
(* (passes/p050_select.py): it picks one admissible level per unit, in one *)
(* step, and when the protection floor alone exhausts the budget it picks  *)
(* exactly the floor.  It promises nothing about the budget otherwise.     *)
(***************************************************************************)
EXTENDS Naturals, Sequences

CONSTANTS
    Inputs,             \* the [cir, budget] pairs selection may be called on
    MinLevel(_),        \* a unit's protection floor
    MaxLevel(_),        \* its top rung
    OutputTokens(_, _)  \* the cost of a choice of levels

VARIABLES cir, budget, result   \* result is <<>> until selection returns

Admissible(units, level) ==
    \A i \in 1 .. Len(units) : level[i] \in MinLevel(units[i]) .. MaxLevel(units[i])

Lowest(units) == [i \in 1 .. Len(units) |-> MinLevel(units[i])]

Exhausted(units, b) == OutputTokens(units, Lowest(units)) >= b

\* The results a call may return.
Outcome(units, b, level) ==
    /\ level \in Seq(Nat) /\ Len(level) = Len(units)
    /\ Admissible(units, level)
    /\ Exhausted(units, b) => level = Lowest(units)

Init == /\ \E in \in Inputs : cir = in.cir /\ budget = in.budget
        /\ result = <<>>

Choose == /\ result = <<>> /\ cir # <<>>
          /\ Outcome(cir, budget, result')
          /\ UNCHANGED <<cir, budget>>

Spec == Init /\ [][Choose]_<<cir, budget, result>>
=============================================================================
