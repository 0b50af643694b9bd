---------------------------- MODULE CodePipeline ----------------------------
(***************************************************************************)
(* pipelines/code.py: from the symbols of a source text to units with a    *)
(* ladder of renderings and the edges that closure follows.  One action    *)
(* per unit, in the order of CodePipeline.build, then _link.               *)
(*                                                                         *)
(* The text of a rung is the set of atoms it shows verbatim and the set of *)
(* things it adds: elided bodies ("dots"), the names a body uses ("uses"), *)
(* the line of a docstring ("doc"), a reference to a duplicate ("ref").    *)
(***************************************************************************)
EXTENDS SourceModule

CONSTANTS
    Sources,            \* the texts a behaviour may start from
    ClassSplitTokens,   \* above this a class is decomposed: _CLASS_SPLIT_TOKENS
    UsesLimit,          \* names a "uses" rung lists
    Noise,              \* names of the language itself: _REF_NOISE
    Before(_, _)        \* the order of qualified names as strings

ASSUME CodeAssumption == ClassSplitTokens \in Nat /\ UsesLimit \in Nat

VARIABLES
    source,     \* [lang, text, ok]: fixed; ok if the text parses as Python
    mod,        \* the ModuleIR
    todo,       \* what is still to be emitted, in order
    units,      \* cir.units
    edges,      \* cir.edges: [src, dst, kind]
    symUnits,   \* the unit of a symbol: sym_units
    stage

vars == <<source, mod, todo, units, edges, symUnits, stage>>

src == source.text

-----------------------------------------------------------------------------
(***************************************************************************)
(* Ladders.                                                                *)
(***************************************************************************)
Rung(name, lines, adds, extra) ==
    [name |-> name, lines |-> lines, adds |-> adds, tokens |-> Cost(src, lines) + extra + 1]

Drop == [name |-> "drop", lines |-> {}, adds |-> {}, tokens |-> 0]

\* _levels: a text already on the ladder is skipped; the rest goes by cost.
Ladder(specs) ==
    LET text(i)  == <<specs[i].lines, specs[i].adds>>
        fresh    == {i \in DOMAIN specs : \A j \in 1 .. (i - 1) : text(j) # text(i)}
        order    == SetToSortSeq(fresh, LAMBDA i, j : \/ specs[i].tokens < specs[j].tokens
                                                      \/ specs[i].tokens = specs[j].tokens /\ i < j)
    IN  <<Drop>> \o [k \in DOMAIN order |-> specs[order[k]]]

Span(sym) == sym.from .. sym.to

KidsOf(q) == {k \in DOMAIN mod.symbols : mod.symbols[k].parent = q}

Uses(sym) == {r \in sym.refs : r \notin Noise /\ r[1] \notin Private}
UsesCost(sym) == 1 + 2 * Min({Cardinality(Uses(sym)), UsesLimit})

\* The cheapest rendering: the signature, with the signatures of the methods of
\* a class that is not decomposed, or its fields.
Surface(sym, kids, split) ==
    IF kids # {} /\ ~split
    THEN [lines |-> sym.head \cup UNION {mod.symbols[k].head : k \in kids},
          adds |-> {"dots"}, extra |-> Cardinality(kids)]
    ELSE IF sym.fields # {} /\ ~split
    THEN [lines |-> sym.head \cup sym.fields, adds |-> {}, extra |-> 0]
    ELSE [lines |-> sym.head, adds |-> {"dots"}, extra |-> 1]

\* With the docstring the fields of a decomposed class are shown as well.
Documented(sym, kids, split) ==
    IF kids # {} /\ ~split THEN Surface(sym, kids, split)
    ELSE IF sym.fields # {} THEN [lines |-> sym.head \cup sym.fields, adds |-> {}, extra |-> 0]
    ELSE [lines |-> sym.head, adds |-> {"dots"}, extra |-> 1]

PythonRungs(sym, kids, split, shown) ==
    LET sig == Surface(sym, kids, split)
        doc == Documented(sym, kids, split)
    IN  <<Rung("sig", sig.lines, sig.adds, sig.extra)>>
        \o (IF Uses(sym) = {} THEN <<>>
            ELSE <<Rung("uses", sig.lines, sig.adds \cup {"uses"}, sig.extra + UsesCost(sym))>>)
        \o (IF sym.doc = {} THEN <<>>
            ELSE <<Rung("stub", doc.lines, doc.adds \cup {"doc"}, doc.extra + Cost(src, sym.doc))>>)
        \o <<Rung("full", shown, {}, 0)>>

\* generic_stub elides the body itself; the signature rung adds dots to it.
BraceRungs(sym, shown) ==
    <<Rung("sig", sym.head, {"braces", "dots"}, 3)>>
    \o (IF sym.doc = {} THEN <<>> ELSE <<Rung("stub", sym.head, {"braces"}, 2)>>)
    \o <<Rung("full", shown, {}, 0)>>

SymbolLadder(sym, kids, split, shown) ==
    IF sym.kind = "assign" THEN Ladder(<<Rung("full", shown, {}, 0)>>)
    ELSE IF source.lang = "python" THEN Ladder(PythonRungs(sym, kids, split, shown))
    ELSE Ladder(BraceRungs(sym, shown))

-----------------------------------------------------------------------------
(***************************************************************************)
(* BuildContext.emit: blank text gives no unit; a unit requires its parent.*)
(***************************************************************************)
Blank(at) == \A i \in at : src[i].is = "nl"

Unit(kind, at, prot, levels) ==
    [kind |-> kind, at |-> at, prot |-> prot, levels |-> levels, sym |-> <<>>,
     parent |-> 0, header |-> FALSE, names |-> {}, copyOf |-> <<>>]

Uid == Len(units) + 1

Emit(u) ==
    /\ units' = Append(units, u)
    /\ edges' = edges \cup (IF u.parent = 0 THEN {}
                            ELSE {[src |-> Uid, dst |-> u.parent, kind |-> "REQUIRES"],
                                  [src |-> u.parent, dst |-> Uid, kind |-> "CONTAINS"]})

Job(what, at, item, parent) == [what |-> what, at |-> at, item |-> item, parent |-> parent]

InOrder(S) == SetToSortSeq(S, LAMBDA a, b : a.from < b.from \/ (a.from = b.from /\ a.to < b.to))
Jobs(what, S) == LET s == InOrder(S) IN [k \in DOMAIN s |-> Job(what, s[k], <<>>, 0)]

SymbolJobs(quals, parent) ==
    LET s == SetToSortSeq(quals, LAMBDA a, b : mod'.symbols[a].from < mod'.symbols[b].from)
    IN  [k \in DOMAIN s |-> Job("symbol", mod'.symbols[s[k]], s[k], parent)]

\* build, up to the first unit.  A region in which no code is found goes to the
\* prose pipeline, unless its lines have the shape of code.
Parse ==
    /\ stage = "parse"
    /\ mod' = IF source.lang = "python" /\ source.ok THEN ParsePython(src) ELSE ParseBraces(src)
    /\ \/ /\ mod'.symbols = <<>> /\ mod'.imports = {}
          /\ stage' = "prose" /\ todo' = <<>>
       \/ /\ stage' = "emit"
          /\ todo' = Jobs("import", mod'.imports)
                     \o SymbolJobs({q \in DOMAIN mod'.symbols : mod'.symbols[q].parent = <<>>}, 0)
                     \o Jobs("stmt", mod'.stmts) \o Jobs("comment", mod'.comments)
    /\ UNCHANGED <<source, units, edges, symUnits>>

Turn(what) == stage = "emit" /\ todo # <<>> /\ Head(todo).what = what

EmitImport ==
    /\ Turn("import")
    /\ LET job == Head(todo)  at == job.at.from .. job.at.to IN
       Emit([Unit("import", at, "ELASTIC", Ladder(<<Rung("full", at, {}, 0)>>))
                EXCEPT !.names = job.at.names])
    /\ todo' = Tail(todo)
    /\ UNCHANGED <<source, mod, symUnits, stage>>

\* A class is decomposed when it has methods and is large: its unit ends where
\* the first of them begins.
Split(sym, kids) == kids # {} /\ Cost(src, Span(sym)) > ClassSplitTokens
FirstOf(kids) == Min({mod.symbols[k].from : k \in kids})

Extent(sym, kids) ==
    IF Split(sym, kids) THEN sym.from .. (FirstOf(kids) - 1) ELSE Span(sym)

\* Slip: the methods of every class become units.
AlwaysInto(sym, kids) == kids # {}
Decomposed(sym, kids) == Split(sym, kids)

\* _emit_symbol.  A nested class is emitted whole: it is given no kids.
EmitSymbol ==
    /\ Turn("symbol")
    /\ LET job  == Head(todo)
           sym  == job.at
           kids == IF job.parent = 0 THEN KidsOf(job.item) ELSE {}
           at   == Extent(sym, kids)
       IN  IF Blank(at)
           THEN /\ todo' = Tail(todo)
                /\ UNCHANGED <<units, edges, symUnits>>
           ELSE /\ Emit([Unit("def", at, IF sym.exported THEN "ANCHORED" ELSE "ELASTIC",
                              SymbolLadder(sym, kids, Split(sym, kids), at))
                            EXCEPT !.sym = job.item, !.parent = job.parent,
                                   !.header = Decomposed(sym, kids)])
                /\ symUnits' = symUnits @@ (job.item :> Uid)
                /\ todo' = (IF Decomposed(sym, kids)
                            THEN LET s == SetToSortSeq(kids, LAMBDA a, b :
                                                mod.symbols[a].from < mod.symbols[b].from)
                                 IN [k \in DOMAIN s |-> Job("symbol", mod.symbols[s[k]], s[k], Uid)]
                            ELSE <<>>) \o Tail(todo)
    /\ UNCHANGED <<source, mod, stage>>

\* A module docstring gets its first line and first paragraph as rungs.
EmitStatement ==
    /\ Turn("stmt")
    /\ LET st == Head(todo).at  at == st.from .. st.to IN
       IF st.doc
       THEN Emit(Unit("docstring", at, "ELASTIC",
                      Ladder(<<Rung("sig", {}, {"head"}, 4), Rung("stub", {}, {"paragraph"}, 8),
                               Rung("full", at, {}, 0)>>)))
       ELSE Emit(Unit("stmt", at, IF st.side THEN "ANCHORED" ELSE "ELASTIC",
                      Ladder(<<Rung("full", at, {}, 0)>>)))
    /\ todo' = Tail(todo)
    /\ UNCHANGED <<source, mod, symUnits, stage>>

\* Comments inside a symbol belong to it; rules and licences may vanish.
Idle(at) == (\A i \in at : src[i].name = "") \/ \E i \in at : src[i].name \in Boilerplate
EmitComment ==
    /\ Turn("comment")
    /\ LET c == Head(todo).at  at == c.from .. c.to IN
       IF \E q \in DOMAIN mod.symbols : at \subseteq Span(mod.symbols[q])
       THEN UNCHANGED <<units, edges>>
       ELSE Emit(Unit("comment", at, IF Idle(at) THEN "DROPPABLE" ELSE "ELASTIC",
                      Ladder(<<Rung("full", at, {}, 0)>>)))
    /\ todo' = Tail(todo)
    /\ UNCHANGED <<source, mod, symUnits, stage>>

-----------------------------------------------------------------------------
(***************************************************************************)
(* _link: dependencies, imports, duplicates.                               *)
(***************************************************************************)
DependencyEdges ==
    LET graph == DependencyGraph(mod.symbols) IN
    {e \in [src : Range(symUnits), dst : Range(symUnits), kind : {"REQUIRES"}] :
        /\ e.src # e.dst
        /\ \E q \in DOMAIN symUnits : /\ symUnits[q] = e.src
                                      /\ \E d \in graph[q] \cap DOMAIN symUnits : symUnits[d] = e.dst}

ImportEdges ==
    {[src |-> symUnits[p[1]], dst |-> p[2], kind |-> "REQUIRES"] :
        p \in {x \in (DOMAIN symUnits) \X {i \in DOMAIN units : units[i].kind = "import"} :
                 \E r \in mod.symbols[x[1]].refs : r[1] \in units[x[2]].names}}

\* The symbol that keeps its body, of those that share it.
Alike(q) == {p \in DOMAIN mod.symbols : /\ mod.symbols[p].hash = mod.symbols[q].hash
                                        /\ mod.symbols[p].hash # <<>>
                                        /\ mod.symbols[p].complexity >= 2}
\* Slip: each symbol is compared with the others, itself left out.
AnyAlike(q) == CHOOSE p \in Alike(q) \ {q} : TRUE
Canonical(q) == CHOOSE p \in Alike(q) : \A o \in Alike(q) : o = p \/ Before(p, o)

Duplicates ==
    {q \in DOMAIN symUnits : /\ Cardinality(Alike(q)) >= 2 /\ mod.symbols[q].complexity >= 2
                             /\ Canonical(q) # q /\ Canonical(q) \in DOMAIN symUnits}

\* Only the cheapest rung is kept, its trailing dots give way to the reference.
Referring(u, q) ==
    IF Len(u.levels) <= 2 THEN [u EXCEPT !.copyOf = q]
    ELSE LET low == u.levels[2] IN
         [u EXCEPT !.copyOf = q,
                   !.levels = <<Drop, [low EXCEPT !.name = "ref", !.adds = (@ \ {"dots"}) \cup {"ref"},
                                                  !.tokens = @ + 5]>>]

Link ==
    /\ stage = "emit" /\ todo = <<>>
    /\ stage' = "linked"
    /\ edges' = edges \cup DependencyEdges \cup ImportEdges \cup
                {[src |-> symUnits[q], dst |-> symUnits[Canonical(q)], kind |-> "DUPLICATE_OF"] : q \in Duplicates}
    /\ units' = [i \in DOMAIN units |->
                    IF units[i].sym \in Duplicates THEN Referring(units[i], Canonical(units[i].sym))
                    ELSE units[i]]
    /\ UNCHANGED <<source, mod, todo, symUnits>>

Init ==
    /\ source \in Sources
    /\ mod = [symbols |-> <<>>, imports |-> {}, stmts |-> {}, comments |-> {}]
    /\ todo = <<>> /\ units = <<>> /\ edges = {} /\ symUnits = <<>>
    /\ stage = "parse"

Next == Parse \/ EmitImport \/ EmitSymbol \/ EmitStatement \/ EmitComment \/ Link

Spec == Init /\ [][Next]_vars

-----------------------------------------------------------------------------
(***************************************************************************)
(* Correctness.                                                            *)
(***************************************************************************)
Linked == stage = "linked"

\* The units closure adds when unit i is retained.
Closure(i) == FoldLeft(LAMBDA S, k : S \cup {e.dst : e \in {x \in edges : x.kind = "REQUIRES" /\ x.src \in S}},
                       {i}, units)

\* What the code of a unit reads, its leading comment left out.
Reads(u) == Refs(src, {k \in u.at : k >= Min(mod.symbols[u.sym].head)})

\* The symbols a reference of unit u stands for, other than one of its own name.
Named(u, r) == {q \in {r, <<r[1]>>} \cap DOMAIN mod.symbols :
                    /\ r # <<mod.symbols[u.sym].name>>
                    /\ {q, mod.symbols[q].parent} \cap DOMAIN symUnits # {}}

ShowsHead(v, q) == \A k \in 2 .. Len(v.levels) : mod.symbols[q].head \subseteq v.levels[k].lines

(***************************************************************************)
(* A retained definition brings the imports that bind what it reads and,   *)
(* on every rung, the signature of what it calls by name: a function, a    *)
(* class, or a method through its class, decomposed or not.                *)
(***************************************************************************)
RetainedCodeIsBound ==
    Linked => \A i \in {k \in DOMAIN units : units[k].kind = "def"} : LET kept == Closure(i) IN
        \A r \in Reads(units[i]) :
            /\ \A j \in DOMAIN units : r[1] \in units[j].names => j \in kept
            /\ \A q \in Named(units[i], r) : \E j \in kept : ShowsHead(units[j], q)

(***************************************************************************)
(* A body that was given up as a duplicate can still be shown: the symbol  *)
(* it refers to has a unit, which is no reference and keeps its full rung. *)
(***************************************************************************)
CollapsedBodySurvives ==
    Linked => \A i \in DOMAIN units : units[i].copyOf # <<>> =>
        LET q == units[i].copyOf IN
        /\ q \in DOMAIN symUnits /\ mod.symbols[q].hash = mod.symbols[units[i].sym].hash
        /\ units[symUnits[q]].copyOf = <<>>
        /\ \E k \in DOMAIN units[symUnits[q]].levels :
              units[symUnits[q]].levels[k].lines = units[symUnits[q]].at

(***************************************************************************)
(* The methods of a class become units only if its own unit stops before   *)
(* them: a signature of the class is never followed by an indented copy of *)
(* methods it already lists.                                               *)
(***************************************************************************)
MethodsOnlyOnce ==
    \A i, j \in DOMAIN units : units[j].parent = i =>
        /\ units[i].at \cap units[j].at = {}
        /\ \A k \in DOMAIN units[i].levels : units[i].levels[k].lines \cap units[j].at = {}

(***************************************************************************)
(* README: every signature is kept byte-identical.                         *)
(***************************************************************************)
Signatures ==
    IF source.lang = "python"
    THEN {StartOf(src, i) .. i : i \in Defined(src)}
    ELSE {b.from .. (b.open - 1) : b \in Declared(src)}

EverySignatureKept ==
    Linked => \A head \in Signatures :
        \E i \in DOMAIN units : \E k \in DOMAIN units[i].levels : head \subseteq units[i].levels[k].lines
=============================================================================
