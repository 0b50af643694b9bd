---------------------------- MODULE SourceModule ----------------------------
(***************************************************************************)
(* The two front-ends of the code pipeline, which turn a source text into  *)
(* the symbols, imports, statements and comments of a ModuleIR: the AST    *)
(* visitor of codeir/pyast.py and the brace scanner of codeir/generic.py.  *)
(*                                                                         *)
(* A text is a sequence of atoms.  For Python an atom is a line and `at`   *)
(* its indentation; for a brace language it is a token and `at` is 0.      *)
(* `refs` holds the dotted names an atom reads, `w` its cost in tokens.    *)
(***************************************************************************)
EXTENDS Integers, SequencesExt

CONSTANTS
    Private,      \* names that begin with an underscore
    ShortNames,   \* lower-case names of at most three letters
    Boilerplate   \* words that LICENSE_HINT finds in a comment

\* Slip: the base of an attribute chain is not recorded.
ChainsOnly(src, at) == UNION {src[i].refs : i \in at}
Refs(src, at) == UNION {Prefixes(r) : r \in UNION {src[i].refs : i \in at}} \ {<<>>}

Cost(src, at) == MapThenSumSet(LAMBDA i : src[i].w, at)

-----------------------------------------------------------------------------
(***************************************************************************)
(* pyast.py: _Collector over the lines of a module that parses.            *)
(***************************************************************************)
EndOf(src, i) ==
    Max({i} \cup {j \in (i + 1) .. Len(src) :
                    /\ src[j].is # "note"
                    /\ \A k \in (i + 1) .. j : src[k].at > src[i].at \/ src[k].is = "note"})

\* Decorators belong to the span of what they decorate.
StartOf(src, i) ==
    Min({j \in 1 .. i : \A k \in j .. (i - 1) : src[k].is = "deco" /\ src[k].at = src[i].at})

Owner(src, i) == Max({j \in 1 .. (i - 1) : src[j].at = src[i].at - 1 /\ src[j].is # "note"})

\* Definitions of the module and of its classes, not those inside functions.
Defined(src) ==
    LET visited[i \in DOMAIN src] ==
            /\ src[i].is \in {"def", "class"}
            /\ \/ src[i].at = 0
               \/ src[Owner(src, i)].is = "class" /\ visited[Owner(src, i)]
    IN  {i \in DOMAIN src : visited[i]}

QualName(src) ==
    LET qual[i \in Defined(src)] ==
            IF src[i].at = 0 THEN <<src[i].name>> ELSE Append(qual[Owner(src, i)], src[i].name)
    IN  qual

\* merkle_hash: the body with its local names made positional; the name of a
\* definition is not part of it, the bases and decorators of a class are.
MerkleHash(src, i) ==
    LET body == SelectSeq([k \in 1 .. EndOf(src, i) - i |-> src[i + k]],
                          LAMBDA line : line.is # "note")
    IN  <<src[i].is, IF src[i].is = "class" THEN Refs(src, StartOf(src, i) .. i) ELSE {},
          [k \in DOMAIN body |-> <<body[k].is, body[k].at - src[i].at, body[k].refs>>]>>

Complexity(src, at) == 1 + Cardinality({i \in at : src[i].is = "branch"})

\* Docstring and annotated attributes, directly in the body.
DocLine(src, i) == {j \in {i + 1} \cap DOMAIN src : src[j].is = "doc" /\ src[j].at = src[i].at + 1}
FieldLines(src, i) ==
    {j \in i .. EndOf(src, i) : src[i].is = "class" /\ src[j].is = "field"
                                /\ src[j].at = src[i].at + 1}

PythonSymbol(src, i) ==
    LET span == StartOf(src, i) .. EndOf(src, i) IN
    [name |-> src[i].name, kind |-> src[i].is, from |-> StartOf(src, i), to |-> EndOf(src, i),
     head |-> StartOf(src, i) .. i, refs |-> Refs(src, span),
     exported |-> src[i].name \notin Private, parent |-> Front(QualName(src)[i]),
     complexity |-> Complexity(src, span), hash |-> MerkleHash(src, i),
     doc |-> DocLine(src, i), fields |-> FieldLines(src, i)]

\* A module constant keeps the defaults of SymbolDef.
Assignment(src, i) ==
    [name |-> src[i].name, kind |-> "assign", from |-> i, to |-> EndOf(src, i),
     head |-> i .. EndOf(src, i), refs |-> Refs(src, i .. EndOf(src, i)), exported |-> TRUE,
     parent |-> <<>>, complexity |-> 1, hash |-> <<>>, doc |-> {}, fields |-> {}]

TopLevel(src) == {i \in DOMAIN src : src[i].at = 0 /\ src[i].is \notin {"note", "deco"}}

\* A later definition of a name replaces the earlier one in mod.symbols.
ParsePython(src) ==
    LET qual    == QualName(src)
        assigns == {i \in TopLevel(src) : src[i].is = "assign"}
        Named(q) == {i \in Defined(src) : qual[i] = q} \cup {i \in assigns : <<src[i].name>> = q}
        names   == {qual[i] : i \in Defined(src)} \cup {<<src[i].name>> : i \in assigns}
    IN  [symbols |-> [q \in names |-> LET i == Max(Named(q)) IN
                        IF i \in assigns THEN Assignment(src, i) ELSE PythonSymbol(src, i)],
         imports |-> {[from |-> i, to |-> EndOf(src, i), names |-> {r[1] : r \in src[i].refs}] :
                        i \in {k \in TopLevel(src) : src[k].is = "import"}},
         stmts   |-> {[from |-> i, to |-> EndOf(src, i), doc |-> src[i].is = "doc",
                       side |-> src[i].is \in {"doc", "branch", "code"}] :
                        i \in {k \in TopLevel(src) :
                                 src[k].is \notin {"import", "def", "class", "assign"}}},
         comments |-> {[from |-> i, to |-> i] : i \in {k \in DOMAIN src : src[k].is = "note"}}]

-----------------------------------------------------------------------------
(***************************************************************************)
(* generic.py: scan_blocks over the tokens, aware of strings and comments. *)
(* `from` is the start of the current header, after the last boundary.     *)
(***************************************************************************)
ScanStep(src, st, i) ==
    LET tok == src[i]
        Boundary(s) == [s EXCEPT !.from = i + 1]
    IN  CASE st.mode = "line"   -> IF tok.is = "nl" THEN Boundary([st EXCEPT !.mode = "code"]) ELSE st
          [] st.mode = "block"  -> IF tok.is = "*/" THEN [st EXCEPT !.mode = "code"] ELSE st
          [] st.mode = "escape" -> [st EXCEPT !.mode = "string"]
          [] st.mode = "string" ->
               CASE tok.is = "\\"                       -> [st EXCEPT !.mode = "escape"]
                 [] tok.is = "quote" /\ tok.name = st.quote -> [st EXCEPT !.mode = "code"]
                 [] tok.is = "nl" /\ st.quote # "tick"  -> Boundary([st EXCEPT !.mode = "code"])
                 [] OTHER                               -> st
          [] tok.is \in {"nl", ";"} -> Boundary(st)
          [] tok.is = "quote" -> [st EXCEPT !.mode = "string", !.quote = tok.name]
          [] tok.is = "//" \/ (tok.is = "#" /\ (i = 1 \/ src[i - 1].is = "nl")) -> [st EXCEPT !.mode = "line"]
          [] tok.is = "/*" -> [st EXCEPT !.mode = "block"]
          [] tok.is = "{"  -> Boundary([st EXCEPT !.stack = Append(@, [open |-> i, from |-> st.from])])
          [] tok.is = "}"  ->
               IF st.stack = <<>> THEN Boundary(st)
               ELSE Boundary([st EXCEPT !.stack = Front(@), !.blocks = @ \cup
                       {Last(st.stack) @@ [close |-> i, depth |-> Len(st.stack) - 1]}])
          [] OTHER -> st

Scan(src) == FoldLeftDomain(LAMBDA st, i : ScanStep(src, st, i),
                 [mode |-> "code", quote |-> "", from |-> 1, stack |-> <<>>, blocks |-> {}], src)

\* The comment right above a declaration that starts at i: a run of line
\* comments, or, if a block comment ends there, everything from the first
\* documentation comment of the file on; 0 if there is none.
LeadingComment(src, i) ==
    LET nl       == Max({0} \cup {p \in 1 .. (i - 1) : src[p].is = "nl"})
        starts   == {p \in 1 .. (nl - 1) : p = 1 \/ src[p - 1].is = "nl"}
        run      == {p \in starts : \A q \in starts : q >= p => src[q].is \in {"//", "#"}}
        openers  == {p \in 1 .. (nl - 2) : src[p].is = "/*" /\ src[p].name = "doc"}
    IN  IF nl > 1 /\ src[nl - 1].is = "*/" /\ openers # {} THEN Min(openers)
        ELSE IF run # {} THEN Min(run) ELSE 0

\* Blocks whose header begins with a declaration, at most one block deep.
Declared(src) ==
    {b \in Scan(src).blocks : b.depth <= 1 /\ b.from < b.open /\ src[b.from].is \in {"func", "type"}}

\* The innermost declared block around b.
Around(src, b) == {c \in Declared(src) : c.open < b.open /\ b.close <= c.close}
BlockQual(src, b) ==
    IF Around(src, b) = {} THEN <<src[b.from].name>>
    ELSE LET c == CHOOSE c \in Around(src, b) : \A d \in Around(src, b) : d.open <= c.open
         IN  <<src[c.from].name, src[b.from].name>>

BraceSymbol(src, b) ==
    LET body == b.from .. b.close
        doc  == LeadingComment(src, b.from)
        text == SelectSeq(SubSeq(src, b.from, b.close), LAMBDA tok : tok.is # "nl")
    IN  [name |-> src[b.from].name, kind |-> IF src[b.from].is = "type" THEN "class" ELSE "def",
         from |-> IF doc = 0 THEN b.from ELSE Min({doc, b.from}), to |-> b.close,
         head |-> b.from .. (b.open - 1),
         refs |-> {<<src[i].name>> : i \in {k \in body : src[k].name # ""}},
         exported |-> src[b.from].name \notin Private, parent |-> Front(BlockQual(src, b)),
         complexity |-> Complexity(src, body),
         hash |-> [k \in DOMAIN text |-> <<text[k].is, IF text[k].name \in ShortNames THEN "" ELSE text[k].name>>],
         doc |-> IF doc = 0 THEN {} ELSE {doc}, fields |-> {}]

LineEnd(src, i) == Min({Len(src)} \cup {j \in i .. Len(src) : j < Len(src) /\ src[j + 1].is = "nl"})

BlockComments(src) ==
    FoldLeftDomain(LAMBDA st, i :
            CASE st.open = 0 /\ src[i].is = "/*" -> [st EXCEPT !.open = i]
              [] st.open > 0 /\ src[i].is = "*/" ->
                   [open |-> 0, found |-> st.found \cup {[from |-> st.open, to |-> i]}]
              [] OTHER -> st,
        [open |-> 0, found |-> {}], src).found

LineComments(src) ==
    {[from |-> i, to |-> IF src[i].is = "note" THEN i ELSE LineEnd(src, i)] :
        i \in {k \in DOMAIN src : /\ src[k].is \in {"//", "#", "note"}
                                  /\ ~ \E j \in 1 .. (k - 1) : src[j].is = "//" /\ LineEnd(src, j) >= k}}

\* Of two declarations of one name the first stays; all of them claim their
\* text, and what nothing claims is a statement.
ParseBraces(src) ==
    LET declared == Declared(src)
        First(q) == CHOOSE b \in declared : /\ BlockQual(src, b) = q
                                            /\ \A c \in declared : BlockQual(src, c) = q => b.open <= c.open
        imports == {i \in DOMAIN src : src[i].is = "import"}
        free    == DOMAIN src \ (imports \cup
                      UNION {BraceSymbol(src, b).from .. b.close : b \in declared})
        gaps    == {p \in free \X free : /\ p[1] .. p[2] \subseteq free
                                         /\ p[1] - 1 \notin free /\ p[2] + 1 \notin free}
    IN  [symbols |-> [q \in {BlockQual(src, b) : b \in declared} |-> BraceSymbol(src, First(q))],
         imports |-> {[from |-> i, to |-> i, names |-> {r[1] : r \in src[i].refs}] : i \in imports},
         stmts   |-> {[from |-> p[1], to |-> p[2], doc |-> FALSE, side |-> TRUE] :
                        p \in {g \in gaps : \E i \in g[1] .. g[2] : src[i].is # "nl"}},
         comments |-> BlockComments(src) \cup LineComments(src)]

-----------------------------------------------------------------------------
(***************************************************************************)
(* pyast.build_dependency_graph: the symbols each symbol needs.            *)
(***************************************************************************)
DependencyGraph(symbols) ==
    LET Resolved(q, r) ==
            IF r = <<symbols[q].name>> THEN {}
            ELSE IF r \in DOMAIN symbols THEN {r}
            ELSE IF <<r[1]>> \in DOMAIN symbols /\ <<r[1]>> # q THEN {<<r[1]>>} ELSE {}
    IN  [q \in DOMAIN symbols |->
            UNION {Resolved(q, r) : r \in symbols[q].refs} \cup ({symbols[q].parent} \ {<<>>})]
=============================================================================
