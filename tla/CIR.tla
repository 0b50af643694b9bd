-------------------------------- MODULE CIR ---------------------------------
(***************************************************************************)
(* The context intermediate representation of ulrc3/types.py as the        *)
(* selection, closure and verification passes see it.  A uid is a position *)
(* in cir.units; a unit is a record with its ladder of renderings.  Level  *)
(* 0 of every ladder is DROP, so `rungs` holds levels 1 and up.            *)
(*                                                                         *)
(* A rendering is abstracted to its token cost, the obligations it claims  *)
(* to carry (Level.obligations), the obligations an audit finds in its     *)
(* text, and whether that text holds a word the source lacks.              *)
(***************************************************************************)
EXTENDS Lattice, Sequences, Functions, FiniteSetsExt

CONSTANT Key   \* obligation keys

Rung == [cost : Nat, claims : SUBSET Key, shows : SUBSET Key, foreign : BOOLEAN]

Unit == [prot    : Level,
         own     : SUBSET Key,      \* Unit.obligations
         rungs   : Seq(Rung),
         doc     : Nat,             \* doc_id
         heading : BOOLEAN,
         parent  : Nat]             \* 0 for None

Uids(units) == 1 .. Len(units)

MaxLevel(u) == Len(u.rungs)

\* The rungs that carry everything the unit is responsible for.
Carrying(u) == {i \in 1 .. MaxLevel(u) : u.own \subseteq u.rungs[i].claims}

\* Unit.min_level: the lowest level admissible under the unit's protection.
MinLevel(u) ==
    IF u.rungs = <<>> \/ u.prot < ANCHORED THEN 0
    ELSE IF u.prot = ANCHORED THEN 1
    ELSE IF u.prot = LOCKED /\ Carrying(u) # {} THEN Min(Carrying(u))
    ELSE MaxLevel(u)

CostAt(u, i)   == IF i = 0 THEN 0 ELSE u.rungs[i].cost
ClaimsAt(u, i) == IF i = 0 THEN {} ELSE u.rungs[i].claims
ShowsAt(u, i)  == IF i = 0 THEN {} ELSE u.rungs[i].shows

FloorIsCheaper(u) == CostAt(u, MinLevel(u)) <= CostAt(u, MaxLevel(u))

\* A choice of level for every unit is a sequence as long as cir.units.
Floor(units) == [i \in Uids(units) |-> MinLevel(units[i])]

Selected(units, level) == {i \in Uids(units) : level[i] > 0}

\* CIR.output_tokens
OutputTokens(units, level) ==
    SumFunction([i \in Uids(units) |-> CostAt(units[i], level[i])])
=============================================================================
