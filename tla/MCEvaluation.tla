---------------------------- MODULE MCEvaluation ----------------------------
(***************************************************************************)
(* Two suites of two instances and one; the compressed context of one      *)
(* instance is the whole of it.  A reply to a pack may leave an item out,  *)
(* repeat or misnumber one, run over several lines or refuse; the reply to *)
(* a single question may be empty.                                         *)
(***************************************************************************)
EXTENDS Evaluation

MCPools == <<<<"n1", "n2">>, <<"m1">>>>

MCPrompt ==
    [p \in {"n1", "n2", "m1"} \X {"full", "ulrc3", "truncate"} |->
        IF p = <<"m1", "ulrc3">> THEN <<"m1", "full">> ELSE p]

L(num, says) == [num |-> num, says |-> says]

Singles == {<<>>, <<L(0, "refusal"), L(0, "gold")>>}
Packed  == {<<L(1, "gold"), L(2, "other"), L(0, "gold"), L(1, "refusal")>>,
            <<L(0, "gold"), L(2, "gold"), L(3, "gold"), L(0, "gold"), L(1, "")>>}
MCReplies == [packed \in BOOLEAN |-> IF packed THEN Packed ELSE Singles]

\* Single cells of both suites; a pack that is short of one item; a full pack
\* and the rest of its condition.
MCArguments == {<<2, 1>>, <<1, 2>>, <<3, 2>>}
=============================================================================
