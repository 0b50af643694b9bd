------------------------------- MODULE MCCode -------------------------------
(***************************************************************************)
(* Modules of up to three pieces: imports, functions that call each other, *)
(* small and large classes, duplicates, redefinitions, nested classes,     *)
(* statements and comments, in Python and in a brace language.             *)
(***************************************************************************)
EXTENDS CodePipeline

Atom(is, at, name, refs, w) == [is |-> is, at |-> at, name |-> name, refs |-> refs, w |-> w]

-----------------------------------------------------------------------------
\* Python: pieces are runs of lines.
Line(is, at, refs) == Atom(is, at, is, refs, 4)
Def(at, name, w, body) == <<Atom("def", at, name, {}, 5)>> \o
    [k \in DOMAIN body |-> Atom(body[k][1], at + 1, body[k][1], body[k][2], w)]
Class(name, members) == <<Atom("class", 0, name, {}, 4)>> \o members

Body(refs) == <<<<"branch", {}>>, <<"code", refs>>>>
Doc == <<Line("doc", 1, {})>>

PyImport  == <<Atom("import", 0, "", {<<"os", "path">>}, 3)>>
Calls     == Def(0, "f", 6, Body({<<"g">>, <<"os", "getpid">>}))
Private1  == Def(0, "_g", 6, Body({<<"Big", "a">>, <<"Small", "b">>}))
Plain     == Def(0, "g", 6, Body({<<"LIMIT">>}))
Twin      == Def(0, "t", 6, Body({<<"LIMIT">>}))
Decorated == <<Line("deco", 0, {<<"cached">>})>> \o Def(0, "cached", 6, <<<<"code", {<<"f">>}>>>>)
Small     == Class("Small", Def(1, "a", 4, Body({<<"self", "b">>})) \o Def(1, "b", 4, Body({<<"os", "sep">>})))
Big       == Class("Big", Doc \o Def(1, "a", 40, Body({<<"g">>})) \o Def(1, "b", 40, Body({<<"LIMIT">>})))
Nested    == Class("Big", Def(1, "b", 40, Body({<<"f">>})) \o
                          <<Atom("class", 1, "In", {}, 4)>> \o Def(2, "a", 6, Body({})))
Model     == Class("Model", Doc \o <<Atom("field", 1, "field", {<<"os">>}, 5)>>)
Bound     == <<Atom("assign", 0, "LIMIT", {<<"os", "sep">>}, 6)>>
Script    == <<Atom("branch", 0, "main", {<<"f">>}, 4), Atom("note", 1, "", {}, 2),
               Atom("code", 1, "code", {<<"f">>}, 4)>>
Opening   == <<Atom("doc", 0, "doc", {}, 20), Atom("note", 0, "licence", {}, 3)>>

PyPieces == {PyImport, Calls, Private1, Plain, Twin, Decorated, Small, Big, Nested, Model,
             Bound, Script, Opening}

-----------------------------------------------------------------------------
\* A brace language: pieces are runs of tokens.
T(is) == Atom(is, 0, "", {}, 1)
Word(name) == Atom("word", 0, name, {}, 1)
NL == T("nl")
Fn(name, body) == <<Atom("func", 0, name, {}, 6), T("{")>> \o body \o <<T("}"), NL>>
Type(name, body) == <<Atom("type", 0, name, {}, 4), T("{")>> \o body \o <<T("}"), NL>>
If == Atom("branch", 0, "if", {}, 2)
Heavy == Atom("word", 0, "word", {}, 60)
Quote == Atom("quote", 0, "dq", {}, 1)

BraceImport == <<Atom("import", 0, "", {<<"os">>}, 3), NL>>
Braced      == Fn("run", <<Word("add"), Quote, T("}"), T("\\"), Quote, Quote, T(";")>>)
Commented   == <<Atom("/*", 0, "doc", {}, 1), Word("x"), T("*/"), NL>> \o Fn("add", <<If, Word("os"), T("//"), T("{"), NL>>)
ShortTwin   == <<T("//"), Word("licence"), NL>> \o Fn("sub", <<If, Word("os"), T("//"), T("{"), NL>>)
Struct      == Type("Foo", <<Word("os")>>)
Impl        == Type("Foo", <<NL>> \o Fn("bar", <<Word("run")>>))
Holder      == Type("Hold", <<NL>> \o Fn("bar", <<Heavy, If>>) \o Fn("baz", <<Word("Foo")>>))
Loose       == <<If, T("{"), Word("run"), T("}"), T("}"), T("/*"), Word("y"), T("*/"), NL>>

BracePieces == {BraceImport, Braced, Commented, ShortTwin, Struct, Impl, Holder, Loose}

Texts(pieces) == {FlattenSeq(ps) : ps \in UNION {[1 .. n -> pieces] : n \in 1 .. 3}}
MCSources ==
    {[lang |-> "python", text |-> t, ok |-> TRUE] : t \in Texts(PyPieces)} \cup
    {[lang |-> "brace", text |-> t, ok |-> TRUE] : t \in Texts(BracePieces)} \cup
    {[lang |-> "python", text |-> t, ok |-> FALSE] : t \in {PyImport \o Calls, Calls \o Opening}}

\* Types whose methods are declared in a block of their own.
ImplSources == {[lang |-> "brace", text |-> t, ok |-> TRUE] : t \in Texts({Struct, Impl, Holder, Braced})}

Names == <<"Big", "Foo", "Hold", "LIMIT", "Model", "Small", "_g", "add", "cached", "f", "g", "run",
           "sub", "t", "In", "a", "b", "bar", "baz">>
Place(name) == CHOOSE k \in DOMAIN Names : Names[k] = name
MCBefore(p, q) ==
    \/ Place(p[1]) < Place(q[1])
    \/ p[1] = q[1] /\ Len(p) < Len(q)
    \/ p[1] = q[1] /\ Len(p) = 2 /\ Len(q) = 2 /\ Place(p[2]) < Place(q[2])

MCNoise == {<<"self">>}
=============================================================================
