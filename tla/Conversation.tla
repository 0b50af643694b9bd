---------------------------- MODULE Conversation ----------------------------
(***************************************************************************)
(* A chat history on its way to selection: revision of its records         *)
(* (Memory), one unit per turn with the ladder drop < memory < tight <     *)
(* full, retraction of turns (ulrc3/pipelines/conversation.py), seeding    *)
(* (ir/builder.py), repair tiers (passes/p010_levels.py) and deduplication *)
(* (passes/p020_dedup.py).  Turns have no REQUIRES edges before the last   *)
(* pass, so propagation changes nothing here.                              *)
(***************************************************************************)
EXTENDS Memory, Seeding

CONSTANTS
    Chats,          \* the conversations a behaviour may start from
    RecencyWindow   \* trailing turns kept verbatim: RECENCY_WINDOW

\* An obligation key is the prefix of its class and a digest.
Key == {"sc", "cc", "nc", "n"} \X Nat

\* `size` is the cost of the whole turn, `tight` that of the turn without
\* pleasantries (0 if there are none), `text` its near-duplicate cluster.
Turn == [role : {"user", "assistant"}, own : SUBSET Key, size : Nat, tight : Nat,
         memory : Nat, noise : {"none", "small_talk", "boilerplate"}, hedged : BOOLEAN, text : Nat]

\* A conversation and its policy.  Records are cut from the turns in order; a
\* subject key names its type.  `delta` is the cost of a turn as its difference
\* from another one, 0 if the difference is empty or too long to write down.
ASSUME ChatsAssumption ==
    /\ RecencyWindow \in Nat
    /\ \A c \in Chats :
          /\ c.turns \in Seq(Turn) /\ c.log \in Seq(Record)
          /\ \A i \in DOMAIN c.turns : IsFiniteSet(c.turns[i].own)
          /\ c.enforce \subseteq {"sc", "cc", "nc"}
          /\ c.delta \in [(DOMAIN c.turns) \X (DOMAIN c.turns) -> Nat]
          /\ \A i \in DOMAIN c.log :
                /\ c.log[i].turn \in DOMAIN c.turns
                /\ \A j \in 1 .. i : /\ c.log[j].turn <= c.log[i].turn
                                     /\ c.log[j].subject = c.log[i].subject
                                            => c.log[j].type = c.log[i].type

VARIABLES
    chat,         \* the conversation and policy, fixed
    superseded,   \* the turns with features["superseded"]
    prot,         \* Unit.protection
    ladder,       \* the rungs above drop
    tokens,       \* Unit.tokens: the dearest rung when the ladder was built
    supersedes,   \* SUPERSEDES edges, from the newer turn
    givenUp,      \* obligations that assign_tiers takes from repair
    copyOf        \* Unit.meta["duplicate_of"]; 0 for none

turnVars == <<chat, superseded, prot, ladder, tokens, supersedes, givenUp, copyOf>>
vars == <<memoryVars, turnVars>>

Turns == 1 .. Len(chat.turns)

-----------------------------------------------------------------------------
(***************************************************************************)
(* ConversationPipeline.build.                                             *)
(***************************************************************************)
Said(t)    == {i \in DOMAIN log : log[i].turn = t}
Live(t)    == {i \in Said(t) : Alive(i) /\ log[i].type # "small_talk"}
Durable(t) == {i \in Live(t) : log[i].type \notin {"question", "answer"}}

\* TYPE_WEIGHT in twentieths.
Weight == [constraint |-> 60, decision |-> 52, pref |-> 48, task |-> 44, fact |-> 40,
           correction |-> 40, answer |-> 20, question |-> 16, small_talk |-> 1]
RecordValue(t) == MapThenSumSet(LAMBDA i : Weight[log[i].type], Live(t))

\* Slip: the window is one turn short.
IsRecentShort(t) == t > Len(chat.turns) - RecencyWindow + 1
IsRecent(t) == t > Len(chat.turns) - RecencyWindow

IsDead(t) == Said(t) # {} /\ Live(t) = {}

Rungs(t) == {"full"} \cup (IF Durable(t) # {} /\ ~IsRecent(t) THEN {"memory"} ELSE {})
                     \cup (IF chat.turns[t].tight > 0 THEN {"tight"} ELSE {})

Cost(t, rung) == CASE rung = "memory" -> chat.turns[t].memory
                   [] rung = "tight"  -> chat.turns[t].tight
                   [] OTHER           -> chat.turns[t].size

Emit ==
    /\ stage = "revised"
    /\ stage' = "emitted"
    /\ superseded' = {t \in Turns : IsDead(t)}
    /\ prot' = [t \in Turns |-> IF IsDead(t) THEN DROPPABLE
                                ELSE IF IsRecent(t) THEN LOCKED ELSE ELASTIC]
    /\ ladder' = [t \in Turns |-> Rungs(t)]
    /\ tokens' = [t \in Turns |-> Max({Cost(t, rung) : rung \in Rungs(t)})]
    /\ UNCHANGED <<log, at, last, retractedBy, chat, supersedes, givenUp, copyOf>>

\* A retracted premise retracts the answer after it, outside the window.
Answers == {t \in Turns : /\ t - 1 \in superseded /\ prot[t] < LOCKED
                          /\ chat.turns[t].role = "assistant"}

RetractAnswers ==
    /\ stage = "emitted"
    /\ stage' = "retracted"
    /\ superseded' = superseded \cup Answers
    /\ prot' = [t \in Turns |-> IF t \in Answers THEN DROPPABLE ELSE prot[t]]
    /\ supersedes' = supersedes \cup {<<t, t - 1>> : t \in Answers}
    /\ UNCHANGED <<log, at, last, retractedBy, chat, ladder, tokens, givenUp, copyOf>>

\* Slip: only the memory record of a retracted turn is withheld.
LeftOfNoMemory(t) == ladder[t] \ {"memory"}
LeftOf(t) == {}

Forbid ==
    /\ stage = "retracted"
    /\ stage' = "forbidden"
    /\ ladder' = [t \in Turns |-> IF t \in superseded /\ prot[t] < LOCKED
                                    THEN LeftOf(t) ELSE ladder[t]]
    /\ UNCHANGED <<log, at, last, retractedBy, chat, superseded, prot, tokens, supersedes,
                   givenUp, copyOf>>

IsFiller(t) == /\ prot[t] < LOCKED /\ t \notin superseded
               /\ RecordValue(t) <= 30 /\ chat.turns[t].own = {}
               /\ chat.turns[t].hedged

\* levels[:-1]: the dearest rung; the whole turn if another one costs the same.
Dearest(t) == {r \in ladder[t] : \A q \in ladder[t] \ {r} :
                    Cost(t, q) < Cost(t, r) \/ (Cost(t, q) = Cost(t, r) /\ r = "full")}

CapFiller ==
    /\ stage = "forbidden"
    /\ stage' = "capped"
    /\ prot' = [t \in Turns |-> IF IsFiller(t) THEN DROPPABLE ELSE prot[t]]
    /\ ladder' = [t \in Turns |-> IF IsFiller(t) /\ Cardinality(ladder[t]) > 1
                                    THEN ladder[t] \ Dearest(t) ELSE ladder[t]]
    /\ UNCHANGED <<log, at, last, retractedBy, chat, superseded, tokens, supersedes,
                   givenUp, copyOf>>

Link ==
    /\ stage = "capped"
    /\ stage' = "built"
    /\ supersedes' = supersedes \cup
          {e \in {<<log[retractedBy[i]].turn, log[i].turn>> : i \in {j \in DOMAIN log : ~Alive(j)}} :
             e[1] # e[2]}
    /\ UNCHANGED <<log, at, last, retractedBy, chat, superseded, prot, ladder, tokens,
                   givenUp, copyOf>>

-----------------------------------------------------------------------------
(***************************************************************************)
(* The passes before selection.                                            *)
(***************************************************************************)
FeatureOf(t) ==
    [segment |-> "body", kind |-> "prose", classes |-> {k[1] : k \in chat.turns[t].own},
     noise |-> chat.turns[t].noise, given |-> prot[t]]

Seed ==
    /\ stage = "built"
    /\ stage' = "seeded"
    /\ prot' = [t \in Turns |-> SeedLevel(FeatureOf(t), chat.enforce)]
    /\ UNCHANGED <<log, at, last, retractedBy, chat, superseded, ladder, tokens, supersedes,
                   givenUp, copyOf>>

Owners(k) == {t \in Turns : k \in chat.turns[t].own}

\* Slip: one retracted owner is enough.
IsStaleSome(k) == Owners(k) \cap superseded # {}
IsStale(k) == Owners(k) \subseteq superseded

AssignTiers ==
    /\ stage = "seeded"
    /\ stage' = "tiered"
    /\ givenUp' = {k \in UNION {chat.turns[t].own : t \in Turns} : IsStale(k)}
    /\ UNCHANGED <<log, at, last, retractedBy, chat, superseded, prot, ladder, tokens,
                   supersedes, copyOf>>

Candidates == {t \in Turns : prot[t] < FROZEN /\ tokens[t] >= 8}
Cluster(t) == {s \in Candidates : chat.turns[s].text = chat.turns[t].text}

\* The canonical unit: most obligations, then most tokens, then first.
Precedes(s, t) ==
    LET a == Cardinality(chat.turns[s].own)
        b == Cardinality(chat.turns[t].own) IN
    \/ a > b
    \/ a = b /\ tokens[s] > tokens[t]
    \/ a = b /\ tokens[s] = tokens[t] /\ s < t

CanonOf(t) ==
    IF t \in Candidates
      THEN CHOOSE c \in Cluster(t) : \A s \in Cluster(t) \ {c} : Precedes(c, s)
      ELSE t

\* With no difference to write down, a copy may vanish if its obligations are
\* the canonical unit's; otherwise it may be rendered as the difference.  The edges
\* to the canonical unit follow from copyOf and the ladder.
\* Slip: a copy vanishes whatever it holds.
VanishesAny(t, c) == t # c /\ chat.delta[<<c, t>>] = 0
Vanishes(t, c) == /\ t # c /\ chat.delta[<<c, t>>] = 0
                  /\ chat.turns[t].own \subseteq chat.turns[c].own
Differs(t, c)  == /\ t # c /\ chat.delta[<<c, t>>] # 0
                  /\ 10 * chat.delta[<<c, t>>] < 7 * tokens[t]

Dedup ==
    /\ stage = "tiered"
    /\ stage' = "done"
    /\ LET canon == [t \in Turns |-> CanonOf(t)] IN
       /\ copyOf' = [t \in Turns |-> IF canon[t] = t THEN 0 ELSE canon[t]]
       /\ prot' = [t \in Turns |-> IF Vanishes(t, canon[t]) THEN DROPPABLE ELSE prot[t]]
       /\ ladder' = [t \in Turns |-> IF Vanishes(t, canon[t]) THEN {}
                                     ELSE IF Differs(t, canon[t]) THEN ladder[t] \cup {"delta"}
                                     ELSE ladder[t]]
    /\ UNCHANGED <<log, at, last, retractedBy, chat, superseded, tokens, supersedes,
                   givenUp>>

Init ==
    /\ chat \in Chats
    /\ MemoryInit(chat.log)
    /\ superseded = {} /\ supersedes = {} /\ givenUp = {}
    /\ prot = [t \in Turns |-> ELASTIC]
    /\ ladder = [t \in Turns |-> {}] /\ tokens = [t \in Turns |-> 0]
    /\ copyOf = [t \in Turns |-> 0]

Next == \/ Revise /\ UNCHANGED turnVars
        \/ Emit \/ RetractAnswers \/ Forbid \/ CapFiller \/ Link
        \/ Seed \/ AssignTiers \/ Dedup

Spec == Init /\ [][Next]_vars

-----------------------------------------------------------------------------
(***************************************************************************)
(* Properties.                                                             *)
(***************************************************************************)
Built  == {"forbidden", "capped", "built", "seeded", "tiered"}

\* The "supersession DAG" is one: a record is retracted by a later one only, and
\* a SUPERSEDES edge leads from a later turn to an earlier one, so no two
\* statements retract each other.
RetractionIsForward ==
    /\ \A i \in DOMAIN log : ~Alive(i) => i < retractedBy[i]
    /\ \A e \in supersedes : e[2] < e[1]

\* Whatever is said later, a correction is never retracted itself, and neither
\* is small talk.  (A question may be, by a correction that matches it best.)
CorrectionsStand ==
    \A i \in DOMAIN log : log[i].type \in {"correction", "small_talk"} => Alive(i)

\* Up to deduplication, a turn of the recency window that says anything live is
\* locked and can be shown whole, whatever the turns around it retract.
WindowKept ==
    stage \in Built \cup {"emitted", "retracted"} =>
        \A t \in Turns :
            t > Len(chat.turns) - RecencyWindow /\ Live(t) # {} =>
                prot[t] >= LOCKED /\ "full" \in ladder[t] /\ t \notin superseded

\* "A retracted statement is forbidden, not merely unattractive": once withheld
\* it is never offered whole again, though seeding may lock its turn; the most
\* that deduplication gives back is its difference from another turn.
RetractedNeverWhole ==
    stage \in Built \cup {"done"} => \A t \in superseded : ladder[t] \subseteq {"delta"}

\* What repair still owes for the conversation has a turn that can show it, and
\* what it has been told to give up has none: assign_tiers and the withholding
\* of rungs, two passes apart, agree on every obligation.
RepairIsPossible ==
    stage = "tiered" =>
        \A k \in UNION {chat.turns[t].own : t \in Turns} :
            k \notin givenUp <=> \E t \in Owners(k) : "full" \in ladder[t]

\* A live turn that deduplication empties leaves its obligations with a turn
\* that is no copy itself and, unless that one was retracted, can be shown whole.
CopiesStayCovered ==
    stage = "done" =>
        \A t \in Turns \ superseded :
            ladder[t] = {} =>
                LET c == copyOf[t] IN
                /\ c # 0 /\ copyOf[c] = 0
                /\ chat.turns[t].own \subseteq chat.turns[c].own
                /\ chat.turns[t].own = {} \/ c \in superseded \/ "full" \in ladder[c]
=============================================================================
