---------------------------- MODULE MCProtection ----------------------------
(***************************************************************************)
(* Small documents for Protection: four units, dependency shapes on which  *)
(* decay, cycles and re-raising interact, and a palette of units that      *)
(* covers every branch of `seed`.                                          *)
(***************************************************************************)
EXTENDS Protection

MCUnit == 1 .. 4

F(segment, kind, classes, noise, given) ==
    [segment |-> segment, kind |-> kind, classes |-> classes,
     noise |-> noise, given |-> given]

System     == F("frozen", "prose", {"cc"}, "none", ELASTIC)
Clause     == F("body", "prose", {"cc", "n"}, "small_talk", ELASTIC)
Negation   == F("body", "prose", {"nc"}, "none", ELASTIC)
Definition == F("body", "code_def", {"sc"}, "none", DROPPABLE)
Comment    == F("body", "code", {}, "short_comment", DROPPABLE)
Operand    == F("body", "prose", {"n"}, "none", ELASTIC)
Schema     == F("body", "structural", {}, "boilerplate", DROPPABLE)
JsonNode   == F("body", "prose", {}, "boilerplate", ANCHORED)
Greeting   == F("body", "prose", {"n"}, "small_talk", DROPPABLE)

Palette == {System, Negation, Comment, Operand}

\* Adjacency lists: a chain, a cycle, a diamond, a two-cycle with a tail, two
\* routes of different lengths to one unit, a hub, and no edges at all.
Shapes == { <<<<2>>, <<3>>, <<4>>, <<>>>>,
            <<<<2>>, <<3>>, <<4>>, <<1>>>>,
            <<<<2, 3>>, <<4>>, <<4>>, <<>>>>,
            <<<<2>>, <<1, 3>>, <<4>>, <<>>>>,
            <<<<2, 4>>, <<3>>, <<4, 2>>, <<1>>>>,
            <<<<2, 3, 4>>, <<3, 4, 1>>, <<4, 1, 2>>, <<1, 2, 3>>>>,
            <<<<>>, <<>>, <<>>, <<>>>> }

D(feature, out, computational, enforce, horizon) ==
    [feature |-> feature, out |-> out, computational |-> computational,
     enforce |-> enforce, horizon |-> horizon]

AllOn == {"sc", "cc", "nc"}

\* Each shape, coloured with the palette, under the default horizon; a horizon
\* of one where the queueing order matters most; and fixed mixes for the rarer
\* features, with enforcement off and without a horizon.
MCDocuments ==
    {D(feature, out, TRUE, AllOn, 3) :
        feature \in [MCUnit -> Palette], out \in Shapes}
    \cup
    {D(<<a, b, c, Comment>>, <<<<2>>, <<1, 3>>, <<4>>, <<>>>>, FALSE, AllOn, 1) :
        a, b, c \in {System, Clause, Negation}}
    \cup
    {D(<<a, Definition, Schema, b>>, out, FALSE, enforce, horizon) :
        a \in {System, Greeting}, b \in {JsonNode, Comment}, out \in Shapes,
        enforce \in {AllOn, {}}, horizon \in {0, 2, 4}}
=============================================================================
