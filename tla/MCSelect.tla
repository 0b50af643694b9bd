------------------------------ MODULE MCSelect ------------------------------
(***************************************************************************)
(* Small selection problems: one to two documents, up to four units, ladder *)
(* costs around the budgets, so that shares run out, rungs do not fit and   *)
(* the singleton rule bites.                                               *)
(***************************************************************************)
EXTENDS Select

R(cost, claims) == [cost |-> cost, claims |-> claims, shows |-> claims, foreign |-> FALSE]

U(prot, own, rungs, doc) ==
    [prot |-> prot, own |-> own, rungs |-> rungs, doc |-> doc,
     heading |-> FALSE, parent |-> 0]

\* A paragraph with two renderings, a sentence too long for the budget, a note
\* whose delta rung is dearer than its carrier, clauses with and without a stub
\* that carries their obligation, a system prompt, a heading, an empty ladder.
Paragraph == <<R(4, {}), R(12, {"k"})>>
Long      == <<R(65, {"k"})>>
Delta     == <<R(14, {}), R(6, {}), R(12, {})>>
Clause    == <<R(3, {}), R(8, {"k"}), R(20, {"k"})>>

Para(d)    == U(ELASTIC, {}, Paragraph, d)
Sentence(d) == U(ELASTIC, {"k"}, Long, d)
Note(d)    == U(DROPPABLE, {}, Delta, d)
Stubbed(d) == U(LOCKED, {"k"}, Clause, d)
Whole(d)   == U(LOCKED, {"j"}, Clause, d)
Prompt(d)  == U(FROZEN, {"k"}, Clause, d)
Title(d)   == U(ANCHORED, {}, Paragraph, d)
Blank(d)   == U(ELASTIC, {}, <<>>, d)

Cirs == { <<Sentence(1), Note(1), Para(1)>>,
          <<Sentence(1), Title(1), Para(2)>>,
          <<Para(1), Stubbed(1), Sentence(2), Title(2)>>,
          <<Prompt(1), Stubbed(2), Blank(2), Note(3)>>,
          <<Para(1), Stubbed(1), Sentence(1)>>,
          <<Whole(1), Prompt(1)>> }

MCKey == {"j", "k"}
MCInputs == {[cir |-> c, budget |-> b] : c \in Cirs, b \in {16, 24, 33}}
=============================================================================
