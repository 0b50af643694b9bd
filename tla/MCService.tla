----------------------------- MODULE MCService ------------------------------
(***************************************************************************)
(* Two requests of one session, the second a retry of the first or its     *)
(* next turn, and one without a session, on fewer slots than requests; a   *)
(* store that holds most of what they cut.                                 *)
(***************************************************************************)
EXTENDS Service, TLC

CONSTANTS first, second, alone, chat

MCRequest == {first, second, alone}
MCSession == {chat, alone}
MCHandle == {0, 1}
MCText == MCRequest \X MCHandle

\* The spans of the first request are long.
MCLength(t) == IF t[1] = first THEN 2 ELSE 1

CutOf(r, H) == [h \in H |-> <<r, h>>]
C(kind, session, cut) == [kind |-> kind, session |-> session, cut |-> cut]

MCCalls ==
    {first :> C("compress", chat, CutOf(first, {0})) @@ second :> C("compress", chat, CutOf(second, {0, 1}))
        @@ alone :> C("stream", alone, CutOf(alone, {1}))}

MCAsks == {<<0, 1>>}
=============================================================================
