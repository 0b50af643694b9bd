----------------------------- MODULE MCFrontEnd -----------------------------
(***************************************************************************)
(* Documents of up to three pieces: sections, lists, definitions, fences,  *)
(* tables, logs, SQL, clauses, API references and payloads; documents of a *)
(* given type; and a frozen role before them.  The features and the scores *)
(* are those of the lines quoted, rounded to tenths; JSON and YAML take of *)
(* their fragments what the parsers do.                                    *)
(***************************************************************************)
EXTENDS FrontEnd, TLC

Base == [fence |-> FALSE, lang |-> "", chars |-> 40, ev |-> <<>>, heading |-> 0, list |-> FALSE,
         row |-> FALSE, sep |-> FALSE, ends |-> TRUE, defines |-> FALSE, endpoint |-> FALSE,
         param |-> FALSE, status |-> FALSE, clause |-> "", cites |-> {}, frame |-> FALSE,
         level |-> "", mask |-> <<>>, slots |-> <<>>, ddl |-> FALSE, norm |-> "", semicolon |-> TRUE,
         struct |-> FALSE, python |-> "no"]

Fence(lang, chars) == [Base EXCEPT !.fence = TRUE, !.lang = lang, !.chars = chars]
H(depth, ev) == [Base EXCEPT !.heading = depth, !.list = TRUE, !.chars = 9, !.ev = ev, !.ends = FALSE]
Log(level, slots, mask) ==
    [Base EXCEPT !.level = level, !.slots = slots, !.mask = mask, !.chars = 45,
                 !.ev = ("prose" :> 10) @@ ("logs" :> 63) @@ ("sql" :> 12)]
Row(ev) == [Base EXCEPT !.row = TRUE, !.chars = 20, !.ev = ev, !.ends = FALSE]
Sql(norm, ev) == [Base EXCEPT !.norm = norm, !.chars = 24, !.ev = ev]
Clause(n, cites, ev) == [Base EXCEPT !.heading = 2, !.list = TRUE, !.clause = n, !.cites = cites,
                                     !.chars = 58, !.ev = ev]
Braces(chars, json) == [Base EXCEPT !.chars = chars, !.ev = ("prose" :> 10) @@ ("code" :> 47) @@ ("json" :> json)]

Features == [
    blank |-> [Base EXCEPT !.chars = 0],
    \* # Setup / ## Limits / ### Cases
    h1 |-> H(1, ("prose" :> 10) @@ ("markdown" :> 40) @@ ("code" :> 17)),
    h2 |-> H(2, ("prose" :> 10) @@ ("markdown" :> 40) @@ ("code" :> 27)),
    h3 |-> H(3, ("prose" :> 10) @@ ("markdown" :> 40) @@ ("code" :> 30)),
    \* The worker pool should drain completely before the next release begins.
    text |-> [Base EXCEPT !.chars = 71, !.ev = "prose" :> 38],
    \* The worker pool should drain before
    open |-> [Base EXCEPT !.ends = FALSE, !.ev = "prose" :> 22],
    \* Tenant means the company that holds the account.
    def |-> [Base EXCEPT !.defines = TRUE, !.ev = "prose" :> 38],
    \* - restart the worker
    item |-> [Base EXCEPT !.list = TRUE, !.chars = 20,
                          !.ev = ("prose" :> 22) @@ ("markdown" :> 14) @@ ("yaml" :> 13)],
    py |-> Fence("python", 9), js |-> Fence("json", 7), yf |-> Fence("yaml", 7), end |-> Fence("", 3),
    \* return x + y(z); / import os
    code |-> [Base EXCEPT !.struct = TRUE, !.python = "line", !.ev = ("prose" :> 10) @@ ("code" :> 134)],
    imp |-> [Base EXCEPT !.struct = TRUE, !.python = "hint", !.ev = ("prose" :> 22) @@ ("code" :> 60)],
    \* INFO disk full on node 7 / ERROR ... 7 / INFO ... 8 / INFO ... seven
    inf7 |-> Log("INFO", <<7>>, <<"disk", "full", "on", "node", "<N>">>),
    err7 |-> Log("ERROR", <<7>>, <<"disk", "full", "on", "node", "<N>">>),
    inf8 |-> Log("INFO", <<8>>, <<"disk", "full", "on", "node", "<N>">>),
    infx |-> Log("INFO", <<>>, <<"disk", "full", "on", "node", "seven">>),
    \*     at com.acme.Disk.write(Disk.java:7)
    frame |-> [Base EXCEPT !.frame = TRUE, !.mask = <<"at", "<N>">>, !.slots = <<7>>,
                           !.ev = ("prose" :> 10) @@ ("code" :> 31) @@ ("logs" :> 20)],
    \* | alice | admin | 3 |
    row |-> Row(("prose" :> 10) @@ ("code" :> 23) @@ ("table" :> 12)),
    cells |-> Row(("prose" :> 10) @@ ("code" :> 25) @@ ("table" :> 12)),
    sep |-> [Row(("prose" :> 10) @@ ("markdown" :> 10) @@ ("code" :> 30) @@ ("table" :> 37)) EXCEPT !.sep = TRUE],
    \* 18,alice,admin
    csv |-> [Base EXCEPT !.chars = 14, !.ends = FALSE, !.ev = ("prose" :> 10) @@ ("table" :> 18)],
    \* INSERT INTO t VALUES (1); / CREATE TABLE t (a int); / SELECT a FROM t / WHERE a = 3;
    ins |-> Sql("insert", ("prose" :> 10) @@ ("code" :> 17) @@ ("sql" :> 66)),
    ddl |-> [Sql("create", ("prose" :> 10) @@ ("code" :> 60) @@ ("sql" :> 54)) EXCEPT !.ddl = TRUE],
    sel |-> [Sql("select", ("prose" :> 22) @@ ("code" :> 18) @@ ("sql" :> 54)) EXCEPT !.semicolon = FALSE],
    whr |-> Sql("where", ("prose" :> 10) @@ ("code" :> 46) @@ ("sql" :> 12)),
    \* 4.2 Subject to Section 4.3 the Tenant shall pay hereunder.
    c42 |-> Clause("4.2", {"4.3"}, ("prose" :> 26) @@ ("markdown" :> 40) @@ ("legal" :> 46)),
    c43 |-> Clause("4.3", {"4.2", "4.3"}, ("prose" :> 38) @@ ("markdown" :> 40) @@ ("legal" :> 46)),
    \* GET /v1/users returns the users / - `limit`: integer
    get |-> [Base EXCEPT !.endpoint = TRUE, !.chars = 31, !.ev = ("prose" :> 10) @@ ("apidocs" :> 15)],
    par |-> [Base EXCEPT !.list = TRUE, !.param = TRUE, !.defines = TRUE, !.chars = 18,
                         !.ev = ("prose" :> 10) @@ ("markdown" :> 29) @@ ("code" :> 27) @@ ("yaml" :> 13) @@ ("sql" :> 12)],
    \* {"a": 1, "b": [1, 2, 3]}
    json |-> Braces(24, 40),
    big  |-> Braces(5950, 40),
    \* { / "port": 8080 / }
    lb |-> Braces(1, 24), rb |-> Braces(1, 24),
    port |-> [Base EXCEPT !.chars = 12, !.ev = ("prose" :> 10) @@ ("json" :> 24)],
    \* "name": "alice",
    key |-> [Base EXCEPT !.defines = TRUE, !.chars = 18, !.ev = ("prose" :> 10) @@ ("json" :> 40)],
    \* User: please restart it
    user |-> [Base EXCEPT !.defines = TRUE, !.param = TRUE, !.chars = 23,
                          !.ev = ("prose" :> 22) @@ ("yaml" :> 13) @@ ("conversation" :> 47)] ]

\* A line that is no log line has a mask of its own.
MCLine == [l \in DOMAIN Features |->
              IF Features[l].mask = <<>> THEN [Features[l] EXCEPT !.mask = <<l>>] ELSE Features[l]]

MCLabels == <<"prose", "markdown", "code", "json", "yaml", "logs", "conversation", "legal",
              "apidocs", "sql", "table">>
MCSticky == ("code" :> 14) @@ ("json" :> 18) @@ ("logs" :> 10) @@ ("table" :> 10)

Pieces == {<<"h1", "blank">>, <<"h2", "text">>, <<"h3", "item", "item">>, <<"text", "open", "text", "blank">>,
           <<"def", "blank", "item", "par", "blank">>, <<"py", "code", "imp", "end">>,
           <<"py", "end">>, <<"py", "blank", "end">>, <<"js", "json", "end">>, <<"js", "lb", "port", "rb", "end">>,
           <<"yf", "h1", "user", "end">>, <<"row", "sep", "cells", "cells">>, <<"csv", "csv">>,
           <<"inf7", "err7", "frame", "frame">>, <<"infx", "inf8", "inf7">>,
           <<"ins", "ins", "ddl">>, <<"sel", "whr">>, <<"c42", "c43">>, <<"get", "par">>,
           <<"json">>, <<"big">>, <<"key">>, <<"user">>, <<"imp", "code">>}

Texts(n) == {FlattenSeq(ps) : ps \in UNION {[1 .. k -> Pieces] : k \in 1 .. n}}

\* The JSON among the lines: blank lines do not matter to it.
Kid(kind, count, size) == [kind |-> kind, count |-> count, size |-> size]
Made(kind, kids) == [kind |-> kind, kids |-> kids]
JsonTexts ==
    (<<"json">> :> Made("object", <<Kid("int", 0, 1), Kid("array", 3, 7)>>)) @@
    (<<"big">> :> Made("object", <<Kid("int", 0, 1), Kid("object", 2, 900), Kid("array", 90, 5000)>>)) @@
    (<<"lb", "port", "rb">> :> Made("object", <<Kid("int", 0, 4)>>))

Inked(text) == SelectSeq(text, LAMBDA l : l # "blank")
MCJson(text) == IF Inked(text) \in DOMAIN JsonTexts THEN JsonTexts[Inked(text)] ELSE NoPayload

\* YAML, line by line: a comment ends a plain scalar, which goes over any lines
\* without a colon; a backquote or a bar cannot begin a value.
Look(l) ==
    CASE l \in {"h1", "h2", "h3"} -> "comment"
      [] l = "item" -> "dash"
      [] l = "user" -> "entry"
      [] l \in {"json", "big"} -> "flow"
      [] l \in {"py", "js", "yf", "end", "row", "cells", "sep"} -> "tick"
      [] l \in {"par", "key", "lb", "port", "rb"} -> "other"
      [] OTHER -> "plain"

Moves == [
    null   |-> [comment |-> "null", plain |-> "scalar", dash |-> "array", entry |-> "object", flow |-> "flow"],
    scalar |-> [plain |-> "scalar", dash |-> "scalar", tick |-> "scalar", comment |-> "closed"],
    closed |-> [comment |-> "closed"],
    array  |-> [dash |-> "array", comment |-> "array"],
    object |-> [entry |-> "object", comment |-> "object"],
    flow   |-> [comment |-> "flow"],
    bad    |-> <<>>]

Reading(text) ==
    FoldLeft(LAMBDA at, l : IF Look(l) \in DOMAIN Moves[at] THEN Moves[at][Look(l)] ELSE "bad",
             "null", Inked(text))

List(n) == Made("array", [k \in 1 .. n |-> Kid("str", 0, 20)])
Mapping == Made("object", <<Kid("str", 0, 19)>>)

MCYaml(text) ==
    CASE Reading(text) = "array" -> List(Len(SelectSeq(text, LAMBDA l : l = "item")))
      [] Reading(text) = "object" -> Mapping
      [] Reading(text) = "flow" -> JsonTexts[SelectSeq(text, LAMBDA l : Look(l) = "flow")]
      [] Reading(text) = "bad" -> NoPayload
      [] OTHER -> Made("scalar", <<>>)

MCPayloads == Range(JsonTexts) \cup {List(n) : n \in 1 .. 6} \cup {Mapping, Made("scalar", <<>>)}

Doc(role, hint, text) == [role |-> role, hint |-> hint, lines |-> text]

MCContexts ==
    {<<Doc("document", "", t)>> : t \in Texts(3)} \cup
    {<<Doc("document", hint, t)>> : t \in Texts(2),
        hint \in {"prose", "legal", "apidocs", "table", "sql", "json", "logs"}} \cup
    {<<Doc("system", "", <<"h1", "user", "blank", "row">>), Doc("document", "", t)>> : t \in Texts(1)}

\* Logs alone, for the errors in them.
LogContexts == {<<Doc("document", "logs", t)>> : t \in Texts(2)}
=============================================================================
