------------------------------ MODULE FrontEnd ------------------------------
(***************************************************************************)
(* ir/builder.py, build: the documents of a request become the units of    *)
(* the CIR, one region after the other, through the pipelines of           *)
(* pipelines/prose.py, tabular.py, jsonp.py and logs.py.  Code and         *)
(* conversation have modules of their own and give no units here.          *)
(*                                                                         *)
(* What a unit holds is a set of atoms <<line, part>>: part 0 is the line  *)
(* itself, the children of a payload are parts 1, 2, ... of its first line.*)
(***************************************************************************)
EXTENDS LogTemplates, Lattice

CONSTANTS
    Contexts,        \* the requests: sequences of documents [role, hint, lines]
    MaxVerbatim,     \* spans of a template shown verbatim: _MAX_VERBATIM_LINES
    Yaml(_),         \* what yaml.safe_load makes of a text, if there is a PyYAML
    Payloads,        \* the values of the texts that are accepted
    DecomposeMin,    \* _DECOMPOSE_MIN
    FullLimit        \* the limit of compact_json

\* Requests, and what the front-end sees of their lines.
ASSUME FrontEndAssumption ==
    /\ \A c \in Contexts : c \in Seq(Range(c)) /\ \A doc \in Range(c) : doc.lines \in Seq(DOMAIN Line)
    /\ \A l \in DOMAIN Line : Line[l].chars \in Nat /\ Line[l].heading \in Nat
    /\ \A value \in Payloads :
          value.kids \in Seq(Range(value.kids)) /\ \A kid \in Range(value.kids) : kid.size \in Nat
    /\ FullLimit \in Nat /\ MaxVerbatim \in Nat

VARIABLES
    docs,       \* the request: fixed
    d,          \* the document at work
    regions, r, \* its regions, and the one at work
    blocks,     \* the blocks of a prose region still to do: sequences of lines
    open,       \* a prose region is at work
    stack,      \* ctx.heading_stack
    units, edges,
    ordered     \* order_sensitive

vars == <<docs, d, regions, r, blocks, open, stack, units, edges, ordered>>

lines == docs[d].lines
F(at) == Line[lines[at]]

-----------------------------------------------------------------------------
(***************************************************************************)
(* BuildContext.emit, for several units: those with a parent require it.   *)
(***************************************************************************)
Atoms(places) == {<<p, 0>> : p \in places}

Unit(kind, places, prot) ==
    [kind |-> kind, doc |-> d, region |-> r, text |-> places, prot |-> prot, parent |-> 0,
     header |-> FALSE, depth |-> 0, rungs |-> {Atoms(places)}, template |-> <<>>]

Edge(src, dst, kind) == [src |-> src, dst |-> dst, kind |-> kind]
Uid(k) == Len(units) + k    \* of the k-th unit of an action

Emit(us, more) ==
    /\ units' = units \o us
    /\ edges' = edges \cup more \cup UNION {
            {Edge(u, units'[u].parent, "REQUIRES"), Edge(units'[u].parent, u, "CONTAINS")} :
                u \in {v \in Uid(1) .. Len(units') : units'[v].parent # 0}}

Full(from, to) == InOrder({p \in from .. to : F(p).chars > 0})
Places == Full(regions[r].from, regions[r].to)   \* the lines of the region that are not blank

-----------------------------------------------------------------------------
(***************************************************************************)
(* Documents and regions.                                                  *)
(***************************************************************************)
FrozenRoles == {"system", "tools", "query", "instruction"}

Free == d = 0 \/ r > Len(regions)

\* _build_frozen: one frozen unit per line, whatever the line looks like.
OpenFrozen ==
    /\ Free /\ d < Len(docs) /\ docs[d + 1].role \in FrozenRoles
    /\ d' = d + 1 /\ regions' = <<>> /\ r' = 1 /\ stack' = <<>>
    /\ LET text == docs[d + 1].lines
           places == InOrder({p \in DOMAIN text : Line[text[p]].chars > 0})
       IN  Emit([k \in DOMAIN places |-> [Unit("instruction", {places[k]}, FROZEN) EXCEPT !.doc = d + 1]], {})
    /\ UNCHANGED <<docs, blocks, open, ordered>>

OpenDocument ==
    /\ Free /\ d < Len(docs) /\ docs[d + 1].role \notin FrozenRoles
    /\ d' = d + 1 /\ regions' = RegionsOf(docs[d + 1]) /\ r' = 1 /\ stack' = <<>>
    /\ UNCHANGED <<docs, blocks, open, units, edges, ordered>>

\* The pipeline of a label; an unknown label is prose.
Pipe(label) ==
    CASE label = "markdown" -> "prose" [] label = "yaml" -> "json" [] OTHER -> label

Prosaic == {"prose", "legal", "apidocs"}
OrderSensitive == {"legal", "logs", "sql", "code", "conversation"}

\* A region without text: one empty line, and more lines after it.
Empty(k) ==
    \/ regions[k].to < regions[k].from
    \/ regions[k].from = regions[k].to /\ regions[k].to < Len(lines) /\ F(regions[k].to).chars = 0

\* Such a region is passed over: the headings before it stay open.
Skip ==
    /\ ~Free /\ ~open /\ Empty(r)
    /\ r' = r + 1
    /\ UNCHANGED <<docs, d, regions, blocks, open, stack, units, edges, ordered>>

Building(pipes) == ~Free /\ ~open /\ ~Empty(r) /\ Pipe(regions[r].label) \in pipes

\* Leaving a region of another kind than prose, whose headings do not last.
Done == /\ r' = r + 1 /\ stack' = <<>>
        /\ ordered' = (ordered \/ Pipe(regions[r].label) \in OrderSensitive)
        /\ UNCHANGED <<docs, d, regions, blocks, open>>

Elsewhere == Building({"code", "conversation"}) /\ Done /\ UNCHANGED <<units, edges>>

-----------------------------------------------------------------------------
(***************************************************************************)
(* prose.py.                                                               *)
(***************************************************************************)
\* split_blocks: blank lines outside fences part the blocks.
Blocks(from, to) ==
    LET Fenced(p) == Cardinality({q \in from .. (p - 1) : F(q).fence}) % 2 = 1
        parted == {p \in from .. to : F(p).chars = 0 /\ ~Fenced(p)}
        starts == InOrder({p \in (from .. to) \ parted : p = from \/ p - 1 \in parted})
        End(p) == Max({q \in p .. to : p .. q \cap parted = {}})
    IN  [k \in DOMAIN starts |-> Interval(starts[k], End(starts[k]))]

EnterProse ==
    /\ Building(Prosaic)
    /\ open' = TRUE /\ blocks' = Blocks(regions[r].from, regions[r].to)
    /\ ordered' = (ordered \/ Pipe(regions[r].label) \in OrderSensitive)
    /\ UNCHANGED <<docs, d, regions, r, stack, units, edges>>

\* _heading: headings as deep or deeper are closed.
\* Slip: a heading of the same depth stays open.
CloseDeeper(depth) == InOrder({u \in Range(stack) : units[u].depth <= depth})
Close(depth) == InOrder({u \in Range(stack) : units[u].depth < depth})

Scope(open_) == IF open_ = <<>> THEN 0 ELSE Last(open_)

\* _mark: definitions, endpoints and, in API references, parameters.
Mark(places) ==
    LET f == F(Min(places))
        api == Pipe(regions[r].label) = "apidocs"
    IN  IF f.endpoint \/ (api /\ f.param) THEN LOCKED
        ELSE IF f.defines \/ (api /\ \E p \in places : F(p).status) THEN ANCHORED
        ELSE ELASTIC

IsTable(body) == Cardinality({i \in DOMAIN body : F(body[i]).row}) >= Max({2, Len(body) \div 2})
IsList(body)  == Cardinality({i \in DOMAIN body : F(body[i]).list}) >= Max({2, (6 * Len(body)) \div 10})

\* A sentence may go over several lines.
Sentences(body) ==
    LET runs == Runs(1, Len(body), {i \in 2 .. Len(body) : F(body[i - 1]).ends})
    IN  [k \in DOMAIN runs |-> {body[i] : i \in runs[k][1] .. runs[k][2]}]

Table(rows) ==
    [k \in DOMAIN rows |->
        [Unit("row", {rows[k]}, IF k = 1 THEN ANCHORED ELSE ELASTIC) EXCEPT !.header = (k = 1)]]
Items(kind, texts) == [k \in DOMAIN texts |-> Unit(kind, texts[k], Mark(texts[k]))]

BodyUnits(body, shown) ==
    IF body = <<>> THEN <<>>
    ELSE IF IsTable(body) THEN Table(InOrder({p \in Range(shown) : ~F(p).sep}))
    ELSE IF IsList(body) THEN Items("item", [k \in DOMAIN shown |-> {shown[k]}])
    ELSE Items("sentence", Sentences(shown))

\* _block: a heading, what follows it in its block, or both.
\* Slip: a block that begins with a heading is the heading.
HeadingOnly(block) == IF F(block[1]).heading > 0 THEN <<>> ELSE block
Body(block) == IF F(block[1]).heading > 0 THEN Tail(block) ELSE block

Headed(place, above) ==
    [Unit("heading", {place}, ANCHORED) EXCEPT !.depth = F(place).heading, !.parent = Scope(above)]

\* The units of a block stand under the innermost heading; rows need the first.
EmitBlock(head, bare, scope) ==
    Emit(head \o [k \in DOMAIN bare |-> [bare[k] EXCEPT !.parent = scope]],
         {Edge(Uid(Len(head) + k), Uid(Len(head) + 1), "REQUIRES") :
              k \in {j \in DOMAIN bare : j > 1 /\ bare[j].kind = "row"}})

AddBlock(block, bare, above) ==
    IF F(block[1]).heading = 0
    THEN EmitBlock(<<>>, bare, Scope(stack)) /\ stack' = stack
    ELSE EmitBlock(<<Headed(block[1], above)>>, bare, Uid(1)) /\ stack' = Append(above, Uid(1))

BlockUnits(body) == BodyUnits(body, InOrder({p \in Range(body) : F(p).chars > 0}))

BuildBlock ==
    /\ open /\ blocks # <<>>
    /\ AddBlock(Head(blocks), BlockUnits(Body(Head(blocks))), Close(F(Head(blocks)[1]).heading))
    /\ blocks' = Tail(blocks)
    /\ UNCHANGED <<docs, d, regions, r, open, ordered>>

\* LegalPipeline.build, after the blocks: clauses by number, and references to
\* them, over all the units the document has so far.
Own == {u \in DOMAIN units : units[u].doc = d /\ units[u].text # {}}
ClauseOf(u) == F(Min(units[u].text)).clause
Clauses == {u \in Own : ClauseOf(u) # ""}
Numbers == {ClauseOf(u) : u \in Clauses}
First(n) == Min({u \in Clauses : ClauseOf(u) = n})
Cited(u) == UNION {F(p).cites : p \in units[u].text}

LeaveProse ==
    /\ open /\ blocks = <<>>
    /\ open' = FALSE /\ r' = r + 1
    /\ IF regions[r].label # "legal" THEN UNCHANGED <<units, edges>>
       ELSE /\ units' = [u \in DOMAIN units |-> IF u \in Clauses
                            THEN [units[u] EXCEPT !.prot = Join(@, ANCHORED)] ELSE units[u]]
            /\ edges' = edges \cup UNION {
                    {Edge(u, c, "REQUIRES") : c \in {First(n) : n \in Cited(u) \cap Numbers} \ {u}} : u \in Own}
    /\ UNCHANGED <<docs, d, regions, blocks, stack, ordered>>

-----------------------------------------------------------------------------
(***************************************************************************)
(* tabular.py.                                                             *)
(***************************************************************************)
\* TablePipeline.build: the header is locked; its profile and its rows have it
\* for parent.  A single row is no table.
Rows == InOrder({p \in Range(Places) : ~F(p).sep})

\* Slip: what was emitted last has become the parent.
LastEmitted == Uid(2)
HeaderUnit == Uid(1)

BuildTable ==
    /\ Building({"table"})
    /\ LET header == [Unit("row", {Rows[1]}, LOCKED) EXCEPT !.header = TRUE]
           profile == [Unit("profile", {}, ANCHORED) EXCEPT !.parent = Uid(1)]
       IN  IF Len(Rows) < 2
           THEN Emit([k \in DOMAIN Places |-> Unit("row", {Places[k]}, ELASTIC)], {})
           ELSE Emit(<<header, profile>> \o [k \in 1 .. Len(Rows) - 1 |->
                        [Unit("row", {Rows[k + 1]}, ELASTIC) EXCEPT !.parent = HeaderUnit]], {})
    /\ Done

\* SqlPipeline.build: DDL is locked, a statement that was seen before, up to its
\* literals, may be dropped.
Parts(places, runs) == [k \in DOMAIN runs |-> SubSeq(places, runs[k][1], runs[k][2])]
Statements(places) ==
    Parts(places, Runs(1, Len(places), {i \in 2 .. Len(places) : F(places[i - 1]).semicolon}))

Norm(stmt) == [i \in DOMAIN stmt |-> F(stmt[i]).norm]
Elder(stmts, k) == Min({j \in 1 .. k : Norm(stmts[j]) = Norm(stmts[k])})

StmtUnit(stmt, repeated) ==
    Unit("stmt", Range(stmt),
         IF F(stmt[1]).ddl THEN LOCKED ELSE IF repeated THEN DROPPABLE ELSE ELASTIC)

EmitStatements(stmts, elder) ==
    Emit([k \in DOMAIN stmts |-> StmtUnit(stmts[k], elder[k] < k)],
         {Edge(Uid(k), Uid(elder[k]), "DUPLICATE_OF") : k \in {j \in DOMAIN stmts : elder[j] < j}})

AddStatements(stmts) == EmitStatements(stmts, [k \in DOMAIN stmts |-> Elder(stmts, k)])

BuildSql == Building({"sql"}) /\ AddStatements(Statements(Places)) /\ Done

-----------------------------------------------------------------------------
(***************************************************************************)
(* jsonp.py.  The value of a text is its kind and its children, each with  *)
(* its kind, the number of its own children and its length.  What JSON     *)
(* refuses YAML may still take, as a list, as a mapping or as one string.  *)
(***************************************************************************)
NoPayload == [kind |-> "none", kids |-> <<>>]
RegionText(k) == SubSeq(lines, regions[k].from, regions[k].to)

\* _try_yaml.
TryYaml(text) == IF Yaml(text) \in Payloads THEN Yaml(text) ELSE NoPayload
Value(text) == IF Json(text) \in Payloads THEN Json(text) ELSE TryYaml(text)
Payload(k) == IF Blank(RegionText(k)) THEN NoPayload ELSE Value(RegionText(k))
\* _rungs: what each rung shows of a value that occupies the given atoms.
Rungs(kind, count, size, atoms) ==
    {atoms} \cup (IF (kind = "array" /\ count >= 3) \/ (kind = "object" /\ count > 6) \/ size >= 400
                  THEN {{}} ELSE {})

\* build and _node.  Children are units of their own if one of them is large;
\* the dearest rung of a child is cut at the limit.
Decomposed(payload) == \E k \in DOMAIN payload.kids : payload.kids[k].size >= DecomposeMin

\* The length of the text from the first place to the last, newlines included.
Length(places) == Chars(lines, Head(places), Last(places)) + Last(places) - Head(places)

Node(rungs) == [Unit("json", {}, ANCHORED) EXCEPT !.rungs = rungs]
Child(kid, k) ==
    [Node(Rungs(kid.kind, kid.count, kid.size, IF kid.size <= FullLimit THEN {<<Head(Places), k>>} ELSE {}))
        EXCEPT !.parent = Uid(1)]

\* Lines, if no parser takes the text; the text itself under its root; or the
\* name of the root's kind, and its children.
PayloadUnits(payload) ==
    IF payload.kind = "none" THEN [k \in DOMAIN Places |-> Unit("json", {Places[k]}, ANCHORED)]
    ELSE IF payload.kids # <<>> /\ ~Decomposed(payload)
    THEN <<Node(Rungs(payload.kind, Len(payload.kids), Length(Places), Atoms(Range(Places))))>>
    ELSE <<Node({{}})>> \o [k \in DOMAIN payload.kids |-> Child(payload.kids[k], k)]

BuildJson == Building({"json"}) /\ Emit(PayloadUnits(Payload(r)), {}) /\ Done

-----------------------------------------------------------------------------
(***************************************************************************)
(* logs.py: a unit per template, errors and single lines anchored.         *)
(***************************************************************************)
LogUnit(t) ==
    [Unit("log", {t.spans[1]}, IF Severity(t.level) >= 4 \/ t.count = 1 THEN ANCHORED ELSE ELASTIC)
        EXCEPT !.template = t,
               !.rungs = {{}, Atoms(IF t.count > 1 THEN {t.spans[1]} ELSE {}),
                          Atoms({t.spans[k] : k \in {j \in DOMAIN t.spans : j <= MaxVerbatim}})}]

EmitTemplates(templates) ==
    Emit([k \in DOMAIN templates |-> LogUnit(templates[k])],
         {Edge(Uid(k), Uid(k + 1), "ADJACENT") : k \in 1 .. Len(templates) - 1})

BuildLogs == Building({"logs"}) /\ EmitTemplates(Mine(lines, Places)) /\ Done

-----------------------------------------------------------------------------
Init ==
    /\ docs \in Contexts
    /\ d = 0 /\ regions = <<>> /\ r = 1 /\ blocks = <<>> /\ open = FALSE /\ stack = <<>>
    /\ units = <<>> /\ edges = {} /\ ordered = FALSE

Next ==
    \/ OpenFrozen \/ OpenDocument \/ Skip \/ Elsewhere
    \/ EnterProse \/ BuildBlock \/ LeaveProse
    \/ BuildTable \/ BuildSql \/ BuildJson \/ BuildLogs

Spec == Init /\ [][Next]_vars

-----------------------------------------------------------------------------
(***************************************************************************)
(* Correctness.  The properties are about the document at work.            *)
(***************************************************************************)
JustSplit == d > 0 /\ r = 1 /\ ~open /\ \E k \in DOMAIN regions : Len(regions) > 1 \/ ~regions[k].exact

(***************************************************************************)
(* doctype.py: "Fences are exact."  What stands between two delimiters is  *)
(* one region, of the type its language says, each delimiter is another,   *)
(* and the regions cover the document in order.                            *)
(***************************************************************************)
FencesAreExact ==
    JustSplit =>
        LET delims == InOrder({p \in DOMAIN lines : F(p).fence})
            Covers(a, b, label) == a > b \/ \E k \in DOMAIN regions :
                regions[k].from = a /\ regions[k].to = b /\ regions[k].label = label
        IN  /\ \A p \in DOMAIN lines : Cardinality({k \in DOMAIN regions :
                    p \in regions[k].from .. regions[k].to}) = 1
            /\ \A k \in DOMAIN regions : k > 1 => regions[k].from = regions[k - 1].to + 1
            /\ \A i \in DOMAIN delims :
                  /\ Covers(delims[i], delims[i], "markdown")
                  /\ i % 2 = 1 => Covers(delims[i] + 1,
                                         IF i = Len(delims) THEN Len(lines) ELSE delims[i + 1] - 1,
                                         FencedLabel(F(delims[i]).lang))

(***************************************************************************)
(* viterbi: a type is only switched where the evidence pays for it: no     *)
(* stretch between fences is explained better by a single type.            *)
(***************************************************************************)
LabelsExplainLines ==
    JustSplit =>
        LET unfenced == {k \in DOMAIN regions : ~regions[k].exact}
            LabelAt(p) == regions[CHOOSE k \in unfenced : p \in regions[k].from .. regions[k].to].label
            Stretches == {q \in (DOMAIN lines) \X (DOMAIN lines) :
                            /\ q[1] \in {regions[k].from : k \in unfenced}
                            /\ q[2] \in {regions[k].to : k \in unfenced}
                            /\ \A p \in q[1] .. q[2] : \E k \in unfenced : p \in regions[k].from .. regions[k].to
                            /\ \A k \in unfenced : regions[k].to # q[1] - 1 /\ regions[k].from # q[2] + 1}
            Evidence(a, b) == SumFunction([p \in a .. b |-> At(F(p).ev, LabelAt(p))])
            EvidenceFor(l, a, b) == SumFunction([p \in a .. b |-> At(F(p).ev, l)])
            Switches(a, b) == {p \in (a + 1) .. b : LabelAt(p) # LabelAt(p - 1)}
            Paid(a, b) == SumFunction([p \in Switches(a, b) |-> SwitchPenalty + At(Sticky, LabelAt(p - 1))])
        IN  \A q \in Stretches : \A l \in Range(Labels) :
                Evidence(q[1], q[2]) - Paid(q[1], q[2]) >= EvidenceFor(l, q[1], q[2])

(***************************************************************************)
(* Whatever is not blank can still be shown when its document is done:     *)
(* some rung of some unit holds it, unless it is the separator of a table, *)
(* a log line past those a template shows, or code or conversation.  A     *)
(* payload that JSON or YAML takes may be held by its children instead,    *)
(* each that is not longer than the limit: what stands between children    *)
(* (brackets, comments) may go then.  A payload that is one scalar, as     *)
(* YAML finds in most plain text, has no children: all its lines are lost. *)
(***************************************************************************)
Atom(p, k) == \E u \in DOMAIN units : units[u].doc = d /\ \E shown \in units[u].rungs : <<p, k>> \in shown

Counted(p) == \E u \in DOMAIN units : units[u].doc = d /\ units[u].kind = "log" /\
    \E k \in DOMAIN units[u].template.spans : k > MaxVerbatim /\ units[u].template.spans[k] = p

Delegated(p) == \E k \in DOMAIN regions : /\ p \in regions[k].from .. regions[k].to
                                          /\ Pipe(regions[k].label) \in {"code", "conversation"}

PayloadRegion(k) == Pipe(regions[k].label) = "json" /\ Payload(k).kind # "none"

ByChildren(k) ==
    /\ PayloadRegion(k)
    /\ \A j \in DOMAIN Payload(k).kids :
          Payload(k).kids[j].size > FullLimit \/ Atom(Head(Full(regions[k].from, regions[k].to)), j)

NothingLost ==
    (d > 0 /\ Free) => \A p \in DOMAIN lines :
        \/ F(p).chars = 0 \/ F(p).sep \/ Delegated(p) \/ Counted(p)
        \/ Atom(p, 0)
        \/ \E k \in DOMAIN regions : p \in regions[k].from .. regions[k].to /\ ByChildren(k)

(***************************************************************************)
(* prose.py: a heading is the parent of what stands under it: of a text,   *)
(* the last heading before it; of a heading, the last one that is less     *)
(* deep; as long as no region of another kind comes between that has any   *)
(* text.                                                                   *)
(***************************************************************************)
HeadingScope ==
    LET own == {u \in DOMAIN units : units[u].doc = d /\ units[u].kind \in {"heading", "item", "sentence"}}
        Above(u) == {h \in own : /\ h < u /\ units[h].kind = "heading"
                                 /\ units[u].kind = "heading" => units[h].depth < units[u].depth
                                 /\ \A k \in units[h].region .. units[u].region :
                                        Empty(k) \/ Pipe(regions[k].label) \in Prosaic}
    IN  \A u \in own : units[u].parent = Max(Above(u) \cup {0})

(***************************************************************************)
(* tabular.py and prose.py: a row never comes without the header of its    *)
(* own table, the nearest one above it.                                    *)
(***************************************************************************)
RowsBringHeader ==
    LET rows == {u \in DOMAIN units : units[u].doc = d /\ units[u].kind = "row"
                                      /\ \A p \in units[u].text : ~F(p).sep}
        headers == {u \in rows : units[u].header}
    IN  \A u \in rows \ headers :
            (\E v \in rows \ {u} : units[v].region = units[u].region) =>
                \E h \in headers : /\ Edge(u, h, "REQUIRES") \in edges /\ h < u
                                   /\ units[h].region = units[u].region
                                   /\ \A g \in headers : g < u => g <= h

(***************************************************************************)
(* A value that a template writes out as constant is the value of every    *)
(* line of the group that has that slot.  Nothing is said of a line that   *)
(* joined by similarity with a word in its place, nor of a stack frame.    *)
(***************************************************************************)
InlinedConstantsHold ==
    \A u \in {v \in DOMAIN units : units[v].doc = d /\ units[v].kind = "log"} :
        \A k \in Inlined(units[u].template) : \A p \in Range(units[u].template.spans) :
            (~F(p).frame /\ k <= Len(F(p).slots)) => <<k, F(p).slots[k]>> \in units[u].template.values

(***************************************************************************)
(* README: errors in a log are floored above drop.                         *)
(***************************************************************************)
ErrorsFloored ==
    \A u \in {v \in DOMAIN units : units[v].doc = d /\ units[v].kind = "log"} :
        (\E p \in Range(units[u].template.spans) : ~F(p).frame /\ Severity(F(p).level) >= 4)
            => units[u].prot >= ANCHORED
=============================================================================
