------------------------------ MODULE Lattice -------------------------------
(***************************************************************************)
(* types.py, Protection: a total order used as a join-semilattice.         *)
(***************************************************************************)
EXTENDS Integers

DROPPABLE == 0   \* may vanish entirely
ELASTIC   == 1   \* may be truncated or merged
ANCHORED  == 2   \* must survive in some form
LOCKED    == 3   \* must survive carrying all of its obligations
FROZEN    == 4   \* byte-identical
Level     == DROPPABLE .. FROZEN

\* demote, for one step.
Demote(p) == IF p > DROPPABLE THEN p - 1 ELSE DROPPABLE

\* join(a, b) = max(a, b).
\* Slip: the new level is assigned, not joined.
Assign(p, q) == q
Join(p, q) == IF p >= q THEN p ELSE q
=============================================================================
