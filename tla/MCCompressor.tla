---------------------------- MODULE MCCompressor ----------------------------
(***************************************************************************)
(* Small documents for Compressor, one per situation that repair, closure  *)
(* and the adaptive loop must cope with.                                   *)
(***************************************************************************)
EXTENDS Compressor

MCKey == {"c", "m", "n"}   \* a "must not", another one, and a number

R(cost, keys) == [cost |-> cost, claims |-> keys, shows |-> keys, foreign |-> FALSE]
Reworded(cost) == [cost |-> cost, claims |-> {}, shows |-> {}, foreign |-> TRUE]

U(prot, own, rungs) ==
    [prot |-> prot, own |-> own, rungs |-> rungs, doc |-> 1, heading |-> FALSE, parent |-> 0]
In(u, section) == [u EXCEPT !.parent = section]
H(prot, cost) == [U(prot, {}, <<R(cost, {})>>) EXCEPT !.heading = TRUE]

Doc(units) ==
    [cir |-> units, requires |-> {}, canon |-> {},
     audited |-> MCKey, critical |-> {"c", "m"}, retracted |-> {},
     named |-> {}, mentions |-> {}, internAt |-> 99, saving |-> 0,
     carrier |-> [g \in SUBSET MCKey |-> 0], factBlock |-> TRUE, adaptive |-> FALSE,
     tokensIn |-> 160, frame |-> 5, budget |-> 40, horizon |-> 3, maxRounds |-> 2]

\* An anchored clause whose stub lacks its obligation, next to a number.
Clause == U(ANCHORED, {"c"}, <<R(4, {}), R(30, {"c"})>>)
Item   == U(ELASTIC, {"n"}, <<R(12, {}), R(25, {"n"})>>)
Adaptive == [Doc(<<Clause, Item>>) EXCEPT !.adaptive = TRUE]

\* Two obligations in one unit: the fragment of "n" is cheap, the full text is
\* the only rung with both; the limits bite.
Mixed(price) ==
    [Doc(<<U(ANCHORED, {"c", "n"}, <<R(6, {}), R(18, {"c"}), R(70, {"c", "n"})>>),
           U(ELASTIC, {"m"}, <<R(40, {"m"})>>)>>)
        EXCEPT !.carrier = [g \in SUBSET MCKey |-> price * (Cardinality(g) + Cardinality(g \ {"n"}))]]

\* Two critical clauses in one unit, each in a rung of its own: the tightened
\* text has lost what the cheaper carrier rung holds.
Tight == Doc(<<U(ELASTIC, {"c", "m"}, <<R(8, {"c"}), R(15, {"m"}), R(30, {"c", "m"})>>), Item>>)

\* A function: the signature, with the docstring's clause, with the names its
\* body uses (and no docstring), in full.
Function == Doc(<<U(ANCHORED, {"c", "n"}, <<R(11, {}), R(22, {"c"}), R(31, {"n"}), R(90, {"c", "n"})>>)>>)

\* A section whose item is dropped with its heading, then repaired.
Section(prot) ==
    [Doc(<<H(prot, 3), In(U(ELASTIC, {"n"}, <<R(25, {"n"})>>), 1)>>)
        EXCEPT !.requires = {<<2, 1>>}]

\* Three mentions of a long name; the obligation of the third contains it.
Mention(keys) == U(LOCKED, keys, <<R(20, keys)>>)
Interned ==
    [Doc(<<Mention({}), Mention({}), Mention({"c"})>>)
        EXCEPT !.named = {"c"}, !.mentions = {1, 2, 3}, !.internAt = 3, !.saving = 4,
               !.tokensIn = 70]

\* A table row shortened with a word of its own, a frozen prompt and a fallback.
Shortened ==
    Doc(<<U(FROZEN, {"c"}, <<R(20, {"c"})>>),
          U(ELASTIC, {"n"}, <<Reworded(8), R(60, {"n"})>>)>>)

\* An exact duplicate that owns the key of its canonical unit, which in turn
\* requires a third unit.
Duplicate ==
    [Doc(<<U(DROPPABLE, {"m"}, <<>>), U(ELASTIC, {"m"}, <<R(30, {"m"})>>),
           U(ANCHORED, {}, <<R(5, {}), R(15, {})>>)>>)
        EXCEPT !.requires = {<<1, 2>>, <<2, 3>>}, !.canon = {<<1, 2>>, <<3, 2>>},
               !.carrier = [g \in SUBSET MCKey |-> 9 * Cardinality(g)]]

\* The policies that change the loops.
Hasty(d)   == [d EXCEPT !.maxRounds = 0]
NoFacts(d) == [d EXCEPT !.factBlock = FALSE]
Again(d)   == [d EXCEPT !.adaptive = TRUE]
Forgets(d) == [d EXCEPT !.retracted = {"n"}]

MCDocuments ==
    {Adaptive, Tight, Again(Tight), Function, Mixed(5), Mixed(20), Again(Mixed(12)), Section(ANCHORED), Again(Section(LOCKED)),
     Interned, Shortened, Again(Shortened), Duplicate, Hasty(Adaptive), NoFacts(Mixed(5)),
     NoFacts(Again(Duplicate)), Forgets(Again(Mixed(5)))}

\* For the runs that exhibit one divergence each.
AdaptiveOnly  == {Adaptive}
SectionOnly   == {Section(ANCHORED)}
=============================================================================
