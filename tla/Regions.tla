------------------------------ MODULE Regions -------------------------------
(***************************************************************************)
(* detect/doctype.py: a document is split into typed regions.  Fences are  *)
(* exact; between them the types of the lines are decoded together, so     *)
(* that a single odd line does not flip a region.                          *)
(*                                                                         *)
(* A document is a sequence of line names; Line says what the front-end    *)
(* sees of each.  Scores are in tenths.                                    *)
(***************************************************************************)
EXTENDS Integers, SequencesExt, FiniteSetsExt

CONSTANTS
    Line,            \* features of the lines, by name
    Labels,          \* LABELS, a sequence
    SwitchPenalty,   \* SWITCH_PENALTY
    Sticky,          \* STICKY, a function from some labels
    Json(_),         \* what json.loads makes of a text
    ShortDocument    \* the length under which code must look like code

\* Evidence is a score for some labels, and a switch is never a gain.
ASSUME RegionsAssumption ==
    /\ \A l \in DOMAIN Line : \A x \in DOMAIN Line[l].ev : Line[l].ev[x] \in Int
    /\ Labels \in Seq(Range(Labels)) /\ Labels # <<>>
    /\ SwitchPenalty \in Nat /\ \A x \in DOMAIN Sticky : Sticky[x] \in Nat

At(f, x) == IF x \in DOMAIN f THEN f[x] ELSE 0

-----------------------------------------------------------------------------
(***************************************************************************)
(* classify_lines: delimiters and fenced lines have forced labels.         *)
(***************************************************************************)
FencedLabel(lang) ==
    CASE lang = "json" -> "json" [] lang = "yaml" -> "yaml" [] lang = "sql" -> "sql"
      [] lang = "log" -> "logs"  [] OTHER -> "code"

\* Slip: a delimiter is a markdown line like another.
ForcedOnly(lang) == [forced |-> "markdown", break |-> FALSE, lang |-> lang, ev |-> <<>>]
Delimiter(lang) == [forced |-> "markdown", break |-> TRUE, lang |-> lang, ev |-> <<>>]

\* The fence that is open after a line, if it was `st` before it.
NoFence == [open |-> FALSE, lang |-> ""]
FenceAfter(st, f) ==
    IF ~f.fence THEN st ELSE IF st.open THEN NoFence ELSE [open |-> TRUE, lang |-> f.lang]

Fences(lines) ==
    LET st[k \in 0 .. Len(lines)] == IF k = 0 THEN NoFence ELSE FenceAfter(st[k - 1], Line[lines[k]])
    IN  st

Score(f, st) ==
    CASE f.fence -> Delimiter(st.lang)
      [] ~f.fence /\ st.open -> [forced |-> FencedLabel(st.lang), break |-> FALSE, lang |-> st.lang, ev |-> <<>>]
      [] ~f.fence /\ ~st.open -> [forced |-> "", break |-> FALSE, lang |-> "", ev |-> f.ev]

ScoresOf(lines, fences) == [k \in DOMAIN lines |-> Score(Line[lines[k]], fences[k])]
Classified(lines) == ScoresOf(lines, Fences(lines))

-----------------------------------------------------------------------------
(***************************************************************************)
(* viterbi.  One hypothesis per label: the cheapest labelling of the lines *)
(* so far that ends in it.                                                 *)
(***************************************************************************)
Rank(l) == CHOOSE i \in DOMAIN Labels : Labels[i] = l

Cheapest(hyps) ==
    CHOOSE h \in hyps : \A o \in hyps :
        h.cost < o.cost \/ (h.cost = o.cost /\ Rank(h.label) <= Rank(o.label))

Extend(h, cost, l, ev) == [label |-> l, cost |-> cost - At(ev, l), path |-> Append(h.path, l)]

\* Slip: a switch costs nothing.
FreeSwitch(hyps, ev) ==
    LET best == Cheapest(hyps) IN {Extend(best, best.cost, l, ev) : l \in Range(Labels)}
Decode(hyps, ev) ==
    LET best   == Cheapest(hyps)
        switch == best.cost + SwitchPenalty + At(Sticky, best.label)
    IN  {IF h.cost <= switch THEN Extend(h, h.cost, h.label, ev)
         ELSE Extend(best, switch, h.label, ev) : h \in hyps}

\* The hypotheses after each of the lines.
Hypotheses(evs) ==
    LET hyps[k \in 1 .. Len(evs)] ==
            IF k = 1 THEN {[label |-> l, cost |-> -At(evs[1], l), path |-> <<l>>] : l \in Range(Labels)}
            ELSE Decode(hyps[k - 1], evs[k])
    IN  hyps

Viterbi(evs) == Cheapest(Hypotheses(evs)[Len(evs)]).path

-----------------------------------------------------------------------------
(***************************************************************************)
(* segment.  Regions of one label that touch would be merged, but between  *)
(* two that are not fenced there always is one that is.                    *)
(***************************************************************************)
RegionOf(from, to, label, exact) == [from |-> from, to |-> to, label |-> label, exact |-> exact]

Interval(from, to) == [i \in 1 .. (to - from + 1) |-> from + i - 1]

\* The numbers of a finite set, in increasing order.
InOrder(S) ==
    [k \in 1 .. Cardinality(S) |-> CHOOSE x \in S : Cardinality({y \in S : y <= x}) = k]

\* from..to, cut before each of the given places.
Runs(from, to, cuts) ==
    LET starts == InOrder({i \in from .. to : i = from \/ i \in cuts})
    IN  [k \in DOMAIN starts |->
            <<starts[k], IF k = Len(starts) THEN to ELSE starts[k + 1] - 1>>]

\* The regions of the lines from `from` on, given their labels.
LabelRuns(from, labels) ==
    LET runs == Runs(1, Len(labels), {i \in 2 .. Len(labels) : labels[i] # labels[i - 1]})
    IN  [k \in DOMAIN runs |->
            RegionOf(from + runs[k][1] - 1, from + runs[k][2] - 1, labels[runs[k][1]], FALSE)]

\* A fenced block is a region, the labels of any other are decoded.
BlockRegions(scored, from, to) ==
    IF scored[from].forced # "" THEN <<RegionOf(from, to, scored[from].forced, TRUE)>>
    ELSE LabelRuns(from, Viterbi([i \in 1 .. (to - from + 1) |-> scored[from + i - 1].ev]))

SegmentOf(scored) ==
    LET blocks == Runs(1, Len(scored), {i \in 2 .. Len(scored) :
                    scored[i].forced # scored[i - 1].forced \/ scored[i].break})
    IN  FlattenSeq([k \in DOMAIN blocks |-> BlockRegions(scored, blocks[k][1], blocks[k][2])])

Segment(lines) == SegmentOf(Classified(lines))

-----------------------------------------------------------------------------
(***************************************************************************)
(* detect: the type of a whole document, and whether it is beyond doubt,   *)
(* so that the document is not split: a parser accepted it, one type is    *)
(* all there is, or it is short and does not begin like code.              *)
(***************************************************************************)
Blank(lines) == \A l \in Range(lines) : Line[l].chars = 0

ParsesAsJson(lines) == Json(lines).kind \in {"object", "array"}

\* Every line is Python, and two of them define or import something.
ParsesAsPython(lines) ==
    /\ \A l \in Range(lines) : Line[l].python # "no"
    /\ Cardinality({i \in DOMAIN lines : Line[lines[i]].python = "hint"}) >= 2

Chars(lines, from, to) == FoldLeft(LAMBDA n, l : n + Line[l].chars, 0, SubSeq(lines, from, to))

BeginsLikeCode(lines) == Line[SelectSeq(lines, LAMBDA l : Line[l].chars > 0)[1]].struct

Weights(lines, regions) ==
    [l \in {regions[k].label : k \in DOMAIN regions} |->
        FoldLeft(LAMBDA n, r : IF r.label = l THEN n + Chars(lines, r.from, r.to) ELSE n, 0, regions)]

Heaviest(regions, weight) ==
    regions[Min({k \in DOMAIN regions : \A l \in DOMAIN weight : weight[l] <= weight[regions[k].label]})].label

\* Talk and markdown win over prose with a share of the text.
Verdict(weight, heaviest, total, structured) ==
    CASE heaviest = "code" /\ total < ShortDocument /\ ~structured -> [label |-> "prose", sure |-> TRUE]
      [] OTHER ->
            [label |-> IF heaviest # "prose" THEN heaviest
                       ELSE IF 10 * At(weight, "conversation") >= 3 * total THEN "conversation"
                       ELSE IF 4 * At(weight, "markdown") >= total THEN "markdown" ELSE "prose",
             sure |-> Cardinality(DOMAIN weight) = 1]

Weighed(lines, regions, weight) ==
    Verdict(weight, Heaviest(regions, weight), Chars(lines, 1, Len(lines)), BeginsLikeCode(lines))

Mixed(lines, regions) == Weighed(lines, regions, Weights(lines, regions))

Detect(lines) ==
    IF Blank(lines) THEN [label |-> "prose", sure |-> TRUE]
    ELSE IF ParsesAsJson(lines) THEN [label |-> "json", sure |-> TRUE]
    ELSE IF ParsesAsPython(lines) THEN [label |-> "code", sure |-> TRUE]
    ELSE Mixed(lines, Segment(lines))

\* builder.build: the regions of a document, with the caller's type if given.
RegionsSeen(doc, seen) ==
    IF seen.sure THEN <<RegionOf(1, Len(doc.lines), seen.label, TRUE)>> ELSE Segment(doc.lines)
RegionsOf(doc) ==
    RegionsSeen(doc, IF doc.hint # "" THEN [label |-> doc.hint, sure |-> TRUE] ELSE Detect(doc.lines))
=============================================================================
