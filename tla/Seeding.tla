------------------------------ MODULE Seeding -------------------------------
(***************************************************************************)
(* What `seed` (ulrc3/ir/protection.py) makes of one unit: its protection  *)
(* from its segment, its kind, the classes of its obligations and the      *)
(* noise its text matches.                                                 *)
(***************************************************************************)
EXTENDS Lattice

(***************************************************************************)
(* What `seed` and the anchoring read of one unit.                         *)
(***************************************************************************)
Feature == [segment : {"frozen", "locked", "body"},
            kind    : {"structural", "heading", "code_def", "code", "prose"},
            classes : SUBSET {"sc", "cc", "nc", "n"},
            noise   : {"none", "small_talk", "boilerplate", "short_comment"},
            given   : Level]

IsCode(f) == f.kind \in {"code_def", "code"}

\* The level given by segment and kind alone.
RoleLevel(f) ==
    CASE f.segment = "frozen" -> FROZEN
      [] f.segment # "frozen"
            /\ (f.segment = "locked" \/ f.kind = "structural") -> LOCKED
      [] f.segment = "body" /\ f.kind \in {"heading", "code_def"} -> ANCHORED
      [] OTHER -> ELASTIC

\* The level demanded by the obligations the policy enforces.
ObligationLevel(f, enforce) ==
    LET held == f.classes \cap enforce IN
    CASE held \cap {"sc", "cc"} # {} -> IF IsCode(f) THEN ANCHORED ELSE LOCKED
      [] held = {"nc"} /\ ~IsCode(f) -> ANCHORED
      [] OTHER                       -> ELASTIC

\* Text that may vanish: only consulted when nothing above protects the unit.
IsNoise(f) == \/ f.noise = "small_talk"
              \/ f.noise = "boilerplate" /\ f.classes = {}
              \/ f.noise = "short_comment" /\ f.kind = "code" /\ f.classes = {}

SeedLevel(f, enforce) ==
    LET p == Join(RoleLevel(f), ObligationLevel(f, enforce))
    IN  Join(f.given, IF p <= ELASTIC /\ IsNoise(f) THEN DROPPABLE ELSE p)
=============================================================================
