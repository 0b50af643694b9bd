---------------------------- MODULE LogTemplates ----------------------------
(***************************************************************************)
(* logsir/templates.py: log lines that say the same thing, apart from      *)
(* their values, become one template with a count.  A line is masked: its  *)
(* values are put aside as slots and leave placeholders behind.            *)
(***************************************************************************)
EXTENDS Regions

CONSTANTS
    Similarity,     \* in hundredths
    MaxTemplates,   \* max_templates
    SlotValues,     \* values kept for a slot
    Placeholder     \* what a value leaves behind

\* A slot with one value is one that could have taken another.
ASSUME LogAssumption ==
    /\ SlotValues \in Nat /\ SlotValues >= 2
    /\ \A l \in DOMAIN Line : Line[l].slots \in Seq(Range(Line[l].slots))

Severity(level) ==
    CASE level = "TRACE" -> 0 [] level = "DEBUG" -> 1 [] level = "WARN" -> 3
      [] level = "ERROR" -> 4 [] level = "FATAL" -> 5 [] OTHER -> 2

Same(a, b) == Cardinality({i \in DOMAIN a : a[i] = b[i]})

Bucket(mask, level) == <<Len(mask), Head(mask), level>>

\* A template of the same words; failing that, the first of the bucket that is
\* similar; failing that, the last one if there are too many.
Exact(templates, line) == {i \in DOMAIN templates : templates[i].mask = line.mask}
Similar(templates, line) ==
    {i \in DOMAIN templates :
        /\ Bucket(templates[i].mask, templates[i].level) = Bucket(line.mask, line.level)
        /\ 100 * Same(templates[i].mask, line.mask) >= Similarity * Len(line.mask)}

Home(templates, line) ==
    IF Exact(templates, line) # {} THEN Min(Exact(templates, line))
    ELSE IF Similar(templates, line) # {} THEN Min(Similar(templates, line))
    ELSE IF Len(templates) >= MaxTemplates THEN Len(templates)
    ELSE 0

\* _update.  A slot stops taking values at the limit.
Held(values, i) == {v \in values : v[1] = i}

\* Slip: only the line that begins a template is recorded.
UpdateOnce(t, line, at) ==
    [t EXCEPT !.count = @ + 1, !.spans = Append(@, at),
              !.values = IF t.count > 0 THEN @ ELSE {<<i, line.slots[i]>> : i \in DOMAIN line.slots}]
Update(t, line, at) ==
    [t EXCEPT !.count = @ + 1, !.spans = Append(@, at),
              !.values = @ \cup {<<i, line.slots[i]>> :
                            i \in {j \in DOMAIN line.slots : Cardinality(Held(t.values, j)) < SlotValues}}]

NewTemplate(line) ==
    [mask |-> line.mask, level |-> line.level, count |-> 0, spans |-> <<>>, values |-> {}]

\* mine, over the lines at the given places.  A stack frame belongs to the
\* error before it.  Templates stay in the order of their first lines.
Joined(templates, line, at, home) ==
    IF home # 0 THEN [templates EXCEPT ![home] = Update(@, line, at)]
    ELSE Append(templates, Update(NewTemplate(line), line, at))

After(templates, k) ==
    [templates |-> templates, error |-> IF Severity(templates[k].level) >= 4 THEN k ELSE 0]

MineHome(st, line, at, home) ==
    After(Joined(st.templates, line, at, home), IF home # 0 THEN home ELSE Len(st.templates) + 1)

MineLine(st, line, at) ==
    IF line.frame /\ st.error # 0 THEN [st EXCEPT !.templates[st.error].spans = Append(@, at)]
    ELSE MineHome(st, line, at, Home(st.templates, line))

Mined(lines, places) ==
    LET st[k \in 0 .. Len(places)] ==
            IF k = 0 THEN [templates |-> <<>>, error |-> 0]
            ELSE MineLine(st[k - 1], Line[lines[places[k]]], places[k])
    IN  st

Mine(lines, places) == Mined(lines, places)[Len(places)].templates

\* inline_constant_slots: a slot with one value is written out.
Holes(t) == {i \in DOMAIN t.mask : t.mask[i] = Placeholder}
Inlined(t) == {k \in 1 .. Cardinality(Holes(t)) : Cardinality(Held(t.values, k)) = 1}
=============================================================================
