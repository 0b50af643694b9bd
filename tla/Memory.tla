------------------------------- MODULE Memory -------------------------------
(***************************************************************************)
(* Belief revision over the typed records of a conversation                *)
(* (ulrc3/convo/memory.py, revise): one pass in which a later statement    *)
(* replaces the last one on its subject, then one in which every           *)
(* correction retracts the statement before it that it matches best.       *)
(*                                                                         *)
(* A record's text is its set of content terms; overlaps are counted in    *)
(* 1200ths and the recency prior in thousandths.                           *)
(***************************************************************************)
EXTENDS Integers, Sequences, FiniteSetsExt

CONSTANTS
    Subject,     \* subject keys, the record type among them
    Term,
    Recency(_)   \* the weight of a statement so many turns back, 600 to 1000

Type == {"fact", "pref", "decision", "task", "constraint", "correction",
         "question", "answer", "small_talk"}

Record == [type : Type, subject : Subject, terms : SUBSET Term, turn : Nat]

VARIABLES
    log,          \* the records in the order they were said, fixed
    stage,        \* "replace" -> "correct" -> "revised"
    at,           \* the record the current pass is at
    last,         \* last_by_key; 0 for none
    retractedBy   \* Record.superseded_by; 0 while alive

memoryVars == <<log, stage, at, last, retractedBy>>

Alive(i) == retractedBy[i] = 0

Smaller(m, n) == IF m <= n THEN m ELSE n

Overlap(s, t) ==
    IF s = {} \/ t = {} THEN 0
    ELSE (1200 * Cardinality(s \cap t)) \div Smaller(Cardinality(s), Cardinality(t))

-----------------------------------------------------------------------------
(***************************************************************************)
(* The first pass.                                                         *)
(***************************************************************************)
IsStatement(r)   == r.type \notin {"small_talk", "question"}
\* Slip: a correction replaces an earlier one on its subject.
IsReplaceableAny(r) == r.type \notin {"small_talk", "question"}
IsReplaceable(r) == r.type \in {"fact", "pref", "decision"}

\* Slip: the older statement replaces the newer one.
ReplaceBackwards(i) ==
    IF last[log[i].subject] # 0 /\ IsReplaceable(log[i])
       THEN retractedBy' = [retractedBy EXCEPT ![i] = last[log[i].subject]]
       ELSE UNCHANGED retractedBy
Replace(i) ==
    LET previous == last[log[i].subject] IN
    IF /\ previous # 0 /\ IsReplaceable(log[i])
       /\ Overlap(log[previous].terms, log[i].terms) >= 600
    THEN retractedBy' = [retractedBy EXCEPT ![previous] = i]
    ELSE UNCHANGED retractedBy

Collide ==
    /\ stage = "replace" /\ at <= Len(log)
    /\ IF IsStatement(log[at])
         THEN Replace(at) /\ last' = [last EXCEPT ![log[at].subject] = at]
         ELSE UNCHANGED <<retractedBy, last>>
    /\ at' = at + 1
    /\ UNCHANGED <<log, stage>>

EndCollide ==
    /\ stage = "replace" /\ at > Len(log)
    /\ stage' = "correct" /\ at' = 1
    /\ UNCHANGED <<log, last, retractedBy>>

-----------------------------------------------------------------------------
(***************************************************************************)
(* The second pass.                                                        *)
(***************************************************************************)
Match(c, r) == Overlap(log[c].terms, log[r].terms)
Score(c, r) == Match(c, r) * Recency(log[r].turn - log[c].turn)

\* overlap_threshold = 0.45
Threshold == 540 * 1000

Antecedents(r) ==
    {c \in 1 .. r - 1 : /\ Alive(c) /\ log[c].type \notin {"small_talk", "correction"}
                        /\ Match(c, r) > 0 /\ Score(c, r) >= Threshold}

\* Of equal scores the later statement wins.
BestOf(c, among, r) ==
    \A d \in among \ {c} : \/ Score(d, r) < Score(c, r)
                           \/ Score(d, r) = Score(c, r) /\ d < c

Retract(r) ==
    IF Antecedents(r) = {} THEN UNCHANGED retractedBy
    ELSE \E c \in Antecedents(r) :
            /\ BestOf(c, Antecedents(r), r)
            /\ retractedBy' = [retractedBy EXCEPT ![c] = r]

Correct ==
    /\ stage = "correct" /\ at <= Len(log)
    /\ IF log[at].type = "correction" THEN Retract(at) ELSE UNCHANGED retractedBy
    /\ at' = at + 1
    /\ UNCHANGED <<log, stage, last>>

EndCorrect ==
    /\ stage = "correct" /\ at > Len(log)
    /\ stage' = "revised"
    /\ UNCHANGED <<log, at, last, retractedBy>>

MemoryInit(records) ==
    /\ log = records
    /\ stage = "replace" /\ at = 1
    /\ last = [k \in Subject |-> 0]
    /\ retractedBy = [i \in 1 .. Len(records) |-> 0]

Revise == Collide \/ EndCollide \/ Correct \/ EndCorrect
=============================================================================
