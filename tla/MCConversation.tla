--------------------------- MODULE MCConversation ---------------------------
(***************************************************************************)
(* Every conversation of five turns over a palette of statements about one *)
(* matter, their restatements, corrections by either side, questions,      *)
(* answers, rules and courtesies.                                          *)
(***************************************************************************)
EXTENDS Conversation, SequencesExt

MCSubject == {"fact:region", "correction:region", "constraint:export",
              "answer:region", "question:region", "small_talk:~"}
MCTerm == {"region", "cluster", "frankfurt", "dublin", "export"}

\* round(1000 * (0.6 + 0.4 * exp(-n / 40)))
MCRecency(n) == IF n = 0 THEN 1000 ELSE IF n < 5 THEN 1000 - 10 * n ELSE 600

Say(type, subject, terms) == [type |-> type, subject |-> subject, terms |-> terms]
U(role, own, size, text) ==
    [role |-> role, own |-> own, size |-> size, tight |-> 0, memory |-> size + 2,
     noise |-> "none", hedged |-> FALSE, text |-> text]
W(turn, says, wording) == [turn |-> turn, says |-> says, wording |-> wording]

About(place) == {"region", "cluster", place}

Claim(place, n) == W(U("user", {<<"n", n>>}, 20, 1), <<Say("fact", "fact:region", About(place))>>, n)
Fix(role) == W(U(role, {}, 25, 2), <<Say("correction", "correction:region", About("dublin"))>>, 1)
Rule(role) == W(U(role, {<<"cc", 1>>}, 30, 3), <<Say("constraint", "constraint:export", {"export"})>>, 1)
Both(n) == W(U("user", {<<"n", n>>, <<"nc", 2>>}, 40, 4),
             <<Say("fact", "fact:region", About("frankfurt")),
               Say("constraint", "constraint:export", {"export", "cluster"})>>, 1)
Hedge == W([U("assistant", {}, 15, 5) EXCEPT !.tight = 9, !.hedged = TRUE],
           <<Say("answer", "answer:region", {"region"})>>, 1)
Ask == W(U("user", {<<"n", 4>>}, 12, 7), <<Say("question", "question:region", {"region", "frankfurt"})>>, 1)
Thanks == W([U("user", {}, 4, 6) EXCEPT !.noise = "small_talk"], <<Say("small_talk", "small_talk:~", {})>>, 1)

Palette == {Claim("frankfurt", 1), Claim("dublin", 2), Fix("user"), Fix("assistant"),
            Rule("assistant"), Both(1), Both(3), Hedge, Ask, Thanks}

LogOf(ws) == FlattenSeq([t \in DOMAIN ws |->
                [i \in DOMAIN ws[t].says |-> [turn |-> t] @@ ws[t].says[i]]])

\* Two turns of one cluster differ in a slot, or, with one wording, in nothing or
\* in too many places (Both(1) and Both(3)).
DeltaOf(ws) == [p \in (1 .. Len(ws)) \X (1 .. Len(ws)) |->
                    IF ws[p[1]].wording = ws[p[2]].wording THEN 0 ELSE 6]

ChatOf(ws) == [turns |-> [t \in DOMAIN ws |-> ws[t].turn], log |-> LogOf(ws),
               enforce |-> {"sc", "cc", "nc"}, delta |-> DeltaOf(ws)]

\* The conversation opens on the matter.
Openings == {Claim("frankfurt", 1), Both(1)}
MCChats == {ChatOf(ws) : ws \in {f \in [1 .. 5 -> Palette] : f[1] \in Openings}}
=============================================================================
