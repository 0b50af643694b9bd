------------------------ MODULE ConversationProofs --------------------------
(***************************************************************************)
(* What holds of every conversation.  Revision moves forward in the log    *)
(* and leaves corrections alone; from there on a turn is either withheld,  *)
(* and then nothing gives its text back, or keeps what repair may need.    *)
(***************************************************************************)
EXTENDS Conversation, Induction

Before == {"replace", "correct", "revised"}
Opened == {"emitted", "retracted"}

Shape == /\ chat \in Chats /\ log = chat.log /\ stage \in Before \cup Opened \cup Built \cup {"done"}
         /\ at \in Nat \ {0}
         /\ retractedBy \in [DOMAIN log -> Nat] /\ last \in [Subject -> Nat]
         /\ prot \in [Turns -> Level] /\ superseded \subseteq Turns

\* What is remembered under a subject is a statement on it, made before.
LastOK == \A k \in Subject : last[k] # 0 =>
    /\ last[k] \in DOMAIN log /\ log[last[k]].subject = k /\ IsStatement(log[last[k]])
    /\ stage = "replace" => last[k] < at

Forward == \A i \in DOMAIN log : ~Alive(i) => i < retractedBy[i] /\ retractedBy[i] \in DOMAIN log
EdgesForward == \A e \in supersedes : e[2] < e[1]

\* Until rungs are withheld every turn can be shown whole, and what is
\* superseded is not locked.
Open == stage \in Opened => /\ \A t \in Turns : "full" \in ladder[t]
                           /\ \A t \in superseded : prot[t] < LOCKED

\* Afterwards a superseded turn has no rung, and one with obligations keeps its
\* full one.
Agreed == stage \in Built => \A t \in Turns :
    IF t \in superseded THEN ladder[t] = {}
    ELSE chat.turns[t].own # {} => "full" \in ladder[t]

TiersFollow == stage = "tiered" =>
    givenUp = {k \in UNION {chat.turns[t].own : t \in Turns} : IsStale(k)}

Revised == Shape /\ LastOK /\ Forward /\ EdgesForward /\ CorrectionsStand
IInv == Revised /\ Open /\ Agreed /\ TiersFollow /\ WindowKept /\ RetractedNeverWhole

-----------------------------------------------------------------------------
(***************************************************************************)
(* The log and the turns of a conversation.                                *)
(***************************************************************************)
LEMMA ChatFacts ==
    ASSUME chat \in Chats, log = chat.log
    PROVE  /\ Len(log) \in Nat /\ DOMAIN log = 1 .. Len(log)
           /\ \A i \in DOMAIN log : log[i] \in Record /\ log[i].turn \in Turns
           /\ \A i, j \in DOMAIN log : j <= i =>
                 /\ log[j].turn <= log[i].turn
                 /\ log[j].subject = log[i].subject => log[j].type = log[i].type
           /\ Len(chat.turns) \in Nat
<1>1. /\ chat.log \in Seq(Record) /\ chat.turns \in Seq(Turn)
      /\ \A i \in DOMAIN chat.log : chat.log[i].turn \in DOMAIN chat.turns
      /\ \A i \in DOMAIN chat.log : \A j \in 1 .. i :
             /\ chat.log[j].turn <= chat.log[i].turn
             /\ chat.log[j].subject = chat.log[i].subject => chat.log[j].type = chat.log[i].type
  BY ChatsAssumption
<1> QED BY <1>1 DEF Turns

LEMMA Initially == Init => IInv
<1> SUFFICES ASSUME Init PROVE IInv OBVIOUS
<1>1. chat \in Chats /\ log = chat.log /\ stage = "replace" BY DEF Init, MemoryInit
<1>2. DOMAIN log = 1 .. Len(chat.log) BY <1>1, ChatFacts
<1>3. Shape BY <1>1, <1>2 DEF Init, MemoryInit, Shape, Before, Level, ELASTIC, DROPPABLE, FROZEN
<1>4. LastOK /\ Forward /\ EdgesForward /\ CorrectionsStand
  BY <1>1, <1>2 DEF Init, MemoryInit, LastOK, Forward, EdgesForward, CorrectionsStand, Alive
<1>5. Open /\ Agreed /\ TiersFollow /\ WindowKept /\ RetractedNeverWhole
  BY <1>1 DEF Open, Agreed, TiersFollow, WindowKept, RetractedNeverWhole, Opened, Built
<1> QED BY <1>3, <1>4, <1>5 DEF IInv, Revised

-----------------------------------------------------------------------------
(***************************************************************************)
(* Revision.                                                               *)
(***************************************************************************)
\* A retraction of an earlier statement by a later one keeps what is known.
LEMMA OneRetraction ==
    ASSUME Revised, NEW c \in DOMAIN log, NEW i \in DOMAIN log, c < i,
           log[c].type \notin {"correction", "small_talk"},
           retractedBy' = [retractedBy EXCEPT ![c] = i], UNCHANGED log
    PROVE  Forward' /\ CorrectionsStand' /\ retractedBy' \in [DOMAIN log -> Nat]
<1>1. DOMAIN log = 1 .. Len(log) /\ Len(log) \in Nat BY ChatFacts DEF Revised, Shape
<1>2. retractedBy' \in [DOMAIN log -> Nat] BY <1>1 DEF Revised, Shape
<1>3. \A j \in DOMAIN log : retractedBy'[j] = IF j = c THEN i ELSE retractedBy[j]
  BY DEF Revised, Shape
<1>4. Forward' BY <1>3 DEF Revised, Forward, Alive
<1>5. CorrectionsStand' BY <1>3 DEF Revised, CorrectionsStand, Alive
<1> QED BY <1>2, <1>4, <1>5

\* During revision nothing is said of the turns yet.
LEMMA OtherStages ==
    ASSUME stage' \in Before
    PROVE  Open' /\ Agreed' /\ TiersFollow' /\ WindowKept' /\ RetractedNeverWhole'
BY DEF Before, Open, Opened, Agreed, TiersFollow, WindowKept, RetractedNeverWhole, Built

LEMMA CollideKeeps ==
    ASSUME Revised, Collide, UNCHANGED turnVars
    PROVE  Revised'
<1>1. /\ stage = "replace" /\ at <= Len(log) /\ at' = at + 1
      /\ UNCHANGED <<log, stage>>
      /\ UNCHANGED <<chat, prot, superseded, supersedes>>
  BY DEF Collide, turnVars
<1>2. /\ DOMAIN log = 1 .. Len(log) /\ Len(log) \in Nat
      /\ \A i \in DOMAIN log : log[i] \in Record
      /\ \A i, j \in DOMAIN log : j <= i /\ log[j].subject = log[i].subject => log[j].type = log[i].type
  BY ChatFacts DEF Revised, Shape
<1>3. at \in DOMAIN log /\ log[at].subject \in Subject
  BY <1>1, <1>2 DEF Revised, Shape, Record
<1>4. Turns' = Turns BY <1>1 DEF Turns
<1>5. EdgesForward' BY <1>1 DEF Revised, EdgesForward
<1>6. CASE ~IsStatement(log[at])
  <2>1. UNCHANGED <<retractedBy, last>> BY <1>6 DEF Collide
  <2>2. Shape' BY <1>1, <1>4, <2>1 DEF Revised, Shape
  <2>3. LastOK' BY <1>1, <1>3, <2>1 DEF Revised, Shape, LastOK, IsStatement
  <2>4. Forward' /\ CorrectionsStand'
    BY <1>1, <2>1 DEF Revised, Forward, CorrectionsStand, Alive
  <2> QED BY <1>5, <2>2, <2>3, <2>4 DEF Revised
<1>7. CASE IsStatement(log[at])
  <2>1. Replace(at) /\ last' = [last EXCEPT ![log[at].subject] = at] BY <1>7 DEF Collide
  <2>2. LastOK' /\ last' \in [Subject -> Nat]
    <3>1. \A k \in Subject : last'[k] = IF k = log[at].subject THEN at ELSE last[k]
      BY <1>3, <2>1 DEF Revised, Shape
    <3> QED BY <1>1, <1>2, <1>3, <1>7, <2>1, <3>1 DEF Revised, Shape, LastOK, IsStatement
  <2>3. Forward' /\ CorrectionsStand' /\ retractedBy' \in [DOMAIN log -> Nat]
    <3> DEFINE p == last[log[at].subject]
    <3>1. CASE retractedBy' = [retractedBy EXCEPT ![p] = at] /\ p # 0 /\ IsReplaceable(log[at])
      <4>1. p \in DOMAIN log /\ p < at /\ log[p].subject = log[at].subject
        BY <1>1, <1>3, <3>1 DEF Revised, LastOK
      <4>2. log[p].type = log[at].type BY <1>1, <1>2, <1>3, <4>1
      <4>3. log[p].type \notin {"correction", "small_talk"} BY <3>1, <4>2 DEF IsReplaceable
      <4> QED BY <1>1, <1>3, <3>1, <4>1, <4>3, OneRetraction
    <3>2. CASE UNCHANGED retractedBy
      BY <1>1, <3>2 DEF Revised, Shape, Forward, CorrectionsStand, Alive
    <3> QED BY <2>1, <3>1, <3>2 DEF Replace
  <2>4. Shape' BY <1>1, <1>4, <2>2, <2>3 DEF Revised, Shape
  <2> QED BY <1>5, <2>2, <2>3, <2>4 DEF Revised
<1> QED BY <1>6, <1>7

LEMMA CorrectKeeps ==
    ASSUME Revised, Correct, UNCHANGED turnVars
    PROVE  Revised'
<1>1. /\ stage = "correct" /\ at <= Len(log) /\ at' = at + 1
      /\ UNCHANGED <<log, stage, last>>
      /\ UNCHANGED <<chat, prot, superseded, supersedes>>
  BY DEF Correct, turnVars
<1>2. DOMAIN log = 1 .. Len(log) /\ Len(log) \in Nat BY ChatFacts DEF Revised, Shape
<1>3. at \in DOMAIN log BY <1>1, <1>2 DEF Revised, Shape
<1>4. Forward' /\ CorrectionsStand' /\ retractedBy' \in [DOMAIN log -> Nat]
  <2>1. CASE UNCHANGED retractedBy
    BY <1>1, <2>1 DEF Revised, Shape, Forward, CorrectionsStand, Alive
  <2>2. ASSUME NEW c \in Antecedents(at), retractedBy' = [retractedBy EXCEPT ![c] = at]
        PROVE  Forward' /\ CorrectionsStand' /\ retractedBy' \in [DOMAIN log -> Nat]
    <3>1. /\ c \in DOMAIN log /\ c < at
          /\ log[c].type \notin {"correction", "small_talk"}
      BY <1>2, <1>3 DEF Antecedents
    <3> QED BY <1>1, <1>3, <2>2, <3>1, OneRetraction
  <2> QED BY <2>1, <2>2 DEF Correct, Retract
<1>5. Shape' BY <1>1, <1>4 DEF Revised, Shape, Turns
<1>6. LastOK' /\ EdgesForward' BY <1>1 DEF Revised, LastOK, EdgesForward
<1> QED BY <1>4, <1>5, <1>6 DEF Revised

LEMMA ReviseKeeps ==
    ASSUME IInv, Revise, UNCHANGED turnVars
    PROVE  IInv'
<1>1. CASE Collide BY <1>1, CollideKeeps, OtherStages DEF IInv, Collide, Before
<1>2. CASE Correct BY <1>2, CorrectKeeps, OtherStages DEF IInv, Correct, Before
<1>3. CASE EndCollide \/ EndCorrect
  <2>1. UNCHANGED <<log, last, retractedBy, chat, prot, superseded, supersedes>> /\ at' \in Nat \ {0}
    BY <1>3 DEF EndCollide, EndCorrect, turnVars, IInv, Revised, Shape
  <2>2. stage' \in {"correct", "revised"} BY <1>3 DEF EndCollide, EndCorrect
  <2>3. Shape' BY <2>1, <2>2 DEF IInv, Revised, Shape, Before, Turns
  <2>4. LastOK' /\ Forward' /\ EdgesForward' /\ CorrectionsStand'
    BY <2>1, <2>2 DEF IInv, Revised, LastOK, Forward, EdgesForward, CorrectionsStand, Alive
  <2> QED BY <2>2, <2>3, <2>4, OtherStages DEF IInv, Revised, Before
<1> QED BY <1>1, <1>2, <1>3 DEF Revise

-----------------------------------------------------------------------------
(***************************************************************************)
(* The pipeline and the passes.  None of them revises records.             *)
(***************************************************************************)
Settled == UNCHANGED <<log, at, last, retractedBy, chat>>

LEMMA SettledKeeps ==
    ASSUME IInv, Settled, stage # "replace", stage' # "replace",
           stage' \in Opened \cup Built \cup {"done"},
           prot' \in [Turns -> Level], superseded' \subseteq Turns, EdgesForward'
    PROVE  /\ Revised' /\ Turns' = Turns
           /\ \A t : Live(t)' = Live(t) /\ Said(t)' = Said(t)
<1>1. Turns' = Turns BY DEF Settled, Turns
<1>2. \A t : Live(t)' = Live(t) /\ Said(t)' = Said(t) BY DEF Settled, Live, Said, Alive
<1>3. Shape' BY <1>1 DEF IInv, Revised, Shape, Settled
<1>4. LastOK' /\ Forward' /\ CorrectionsStand'
  BY DEF IInv, Revised, Settled, LastOK, Forward, CorrectionsStand, Alive
<1> QED BY <1>1, <1>2, <1>3, <1>4 DEF Revised

LEMMA EmitKeeps ==
    ASSUME IInv, Emit
    PROVE  IInv'
<1> USE DEF DROPPABLE, ELASTIC, ANCHORED, LOCKED, FROZEN
<1>1. /\ stage = "revised" /\ stage' = "emitted" /\ Settled /\ UNCHANGED <<supersedes, givenUp>>
      /\ superseded' = {t \in Turns : IsDead(t)}
      /\ prot' = [t \in Turns |-> IF IsDead(t) THEN DROPPABLE
                                  ELSE IF IsRecent(t) THEN LOCKED ELSE ELASTIC]
      /\ ladder' = [t \in Turns |-> Rungs(t)]
  BY DEF Emit, Settled
<1>2. prot' \in [Turns -> Level] BY <1>1 DEF Level
<1>3. EdgesForward' BY <1>1 DEF IInv, Revised, EdgesForward
<1>4. /\ Revised' /\ Turns' = Turns
      /\ \A t : Live(t)' = Live(t) /\ Said(t)' = Said(t)
  BY <1>1, <1>2, <1>3, SettledKeeps DEF Opened
<1>5. \A t \in Turns : "full" \in ladder'[t] BY <1>1 DEF Rungs
<1>6. Open' BY <1>1, <1>4, <1>5 DEF Open
<1>7. WindowKept'
  <2> SUFFICES ASSUME NEW t \in Turns, t > Len(chat.turns) - RecencyWindow, Live(t) # {}
               PROVE  prot'[t] >= LOCKED /\ "full" \in ladder'[t] /\ t \notin superseded'
    BY <1>1, <1>4 DEF WindowKept, Settled
  <2>1. ~IsDead(t) /\ IsRecent(t) BY DEF IsDead, IsRecent
  <2> QED BY <1>1, <1>5, <2>1
<1> QED BY <1>1, <1>4, <1>6, <1>7 DEF IInv, Agreed, TiersFollow, RetractedNeverWhole, Built

LEMMA RetractKeeps ==
    ASSUME IInv, RetractAnswers
    PROVE  IInv'
<1> USE DEF DROPPABLE, ELASTIC, ANCHORED, LOCKED, FROZEN
<1>1. /\ stage = "emitted" /\ stage' = "retracted" /\ Settled /\ UNCHANGED <<ladder, givenUp>>
      /\ superseded' = superseded \cup Answers
      /\ prot' = [t \in Turns |-> IF t \in Answers THEN DROPPABLE ELSE prot[t]]
      /\ supersedes' = supersedes \cup {<<t, t - 1>> : t \in Answers}
  BY DEF RetractAnswers, Settled
<1>2. Answers \subseteq Turns /\ Turns \subseteq Int /\ \A t \in Answers : prot[t] < LOCKED
  BY DEF Answers, Turns
<1>3. prot' \in [Turns -> Level] BY <1>1 DEF Level, IInv, Revised, Shape
<1>4. EdgesForward' BY <1>1, <1>2 DEF IInv, Revised, EdgesForward
<1>5. /\ Revised' /\ Turns' = Turns
      /\ \A t : Live(t)' = Live(t) /\ Said(t)' = Said(t)
  BY <1>1, <1>2, <1>3, <1>4, SettledKeeps DEF Opened, IInv, Revised, Shape
<1>6. Open' BY <1>1, <1>2, <1>5 DEF IInv, Open, Opened, Revised, Shape
<1>7. WindowKept'
  <2> SUFFICES ASSUME NEW t \in Turns, t > Len(chat.turns) - RecencyWindow, Live(t) # {}
               PROVE  prot'[t] >= LOCKED /\ "full" \in ladder'[t] /\ t \notin superseded'
    BY <1>1, <1>5 DEF WindowKept, Settled
  <2>1. prot[t] >= LOCKED /\ "full" \in ladder[t] /\ t \notin superseded
    BY <1>1 DEF IInv, WindowKept
  <2>2. prot[t] \in Int BY DEF IInv, Revised, Shape, Level
  <2>3. t \notin Answers BY <1>2, <2>1, <2>2
  <2> QED BY <1>1, <2>1, <2>3
<1> QED BY <1>1, <1>5, <1>6, <1>7 DEF IInv, Agreed, TiersFollow, RetractedNeverWhole, Built

LEMMA ForbidKeeps ==
    ASSUME IInv, Forbid
    PROVE  IInv'
<1> USE DEF DROPPABLE, ELASTIC, ANCHORED, LOCKED, FROZEN
<1>1. /\ stage = "retracted" /\ stage' = "forbidden" /\ Settled
      /\ UNCHANGED <<superseded, prot, supersedes, givenUp>>
      /\ ladder' = [t \in Turns |-> IF t \in superseded /\ prot[t] < LOCKED
                                      THEN LeftOf(t) ELSE ladder[t]]
  BY DEF Forbid, Settled
<1>2. /\ Revised' /\ Turns' = Turns
      /\ \A t : Live(t)' = Live(t) /\ Said(t)' = Said(t)
  BY <1>1, SettledKeeps DEF Built, IInv, Revised, Shape, EdgesForward
<1>3. \A t \in Turns : ladder'[t] = IF t \in superseded THEN {} ELSE ladder[t]
  BY <1>1 DEF IInv, Open, Opened, LeftOf
<1>4. Agreed' BY <1>1, <1>2, <1>3 DEF IInv, Open, Opened, Agreed, Settled
<1>5. RetractedNeverWhole' BY <1>1, <1>3 DEF IInv, Revised, Shape, RetractedNeverWhole
<1>6. WindowKept' BY <1>1, <1>2, <1>3 DEF IInv, WindowKept, Settled
<1> QED BY <1>1, <1>2, <1>4, <1>5, <1>6 DEF IInv, Open, Opened, TiersFollow

LEMMA CapKeeps ==
    ASSUME IInv, CapFiller
    PROVE  IInv'
<1> USE DEF DROPPABLE, ELASTIC, ANCHORED, LOCKED, FROZEN
<1> DEFINE fillers == {t \in Turns : IsFiller(t)}
<1>1. /\ stage = "forbidden" /\ stage' = "capped" /\ Settled
      /\ UNCHANGED <<superseded, supersedes, givenUp>>
      /\ prot' = [t \in Turns |-> IF t \in fillers THEN DROPPABLE ELSE prot[t]]
      /\ \A t \in Turns : /\ ladder'[t] \subseteq ladder[t]
                          /\ t \notin fillers => ladder'[t] = ladder[t]
  BY DEF CapFiller, Settled
<1>2. prot' \in [Turns -> Level] BY <1>1 DEF Level, IInv, Revised, Shape
<1>3. /\ Revised' /\ Turns' = Turns
      /\ \A t : Live(t)' = Live(t) /\ Said(t)' = Said(t)
  BY <1>1, <1>2, SettledKeeps DEF Built, IInv, Revised, Shape, EdgesForward
<1>4. \A t \in fillers : chat.turns[t].own = {} /\ prot[t] < LOCKED /\ t \notin superseded
  BY DEF IsFiller
<1> HIDE DEF fillers
<1>5. Agreed' BY <1>1, <1>3, <1>4 DEF IInv, Agreed, Built, Settled
<1>6. RetractedNeverWhole'
  BY <1>1 DEF IInv, Revised, Shape, RetractedNeverWhole, Built
<1>7. WindowKept'
  <2> SUFFICES ASSUME NEW t \in Turns, t > Len(chat.turns) - RecencyWindow, Live(t) # {}
               PROVE  prot'[t] >= LOCKED /\ "full" \in ladder'[t] /\ t \notin superseded'
    BY <1>1, <1>3 DEF WindowKept, Settled
  <2>1. prot[t] >= LOCKED /\ "full" \in ladder[t] /\ t \notin superseded
    BY <1>1 DEF IInv, WindowKept, Built
  <2>2. prot[t] \in Int BY DEF IInv, Revised, Shape, Level
  <2>3. t \notin fillers BY <1>4, <2>1, <2>2
  <2> QED BY <1>1, <2>1, <2>3
<1> QED BY <1>1, <1>3, <1>5, <1>6, <1>7 DEF IInv, Open, Opened, TiersFollow

LEMMA LinkKeeps ==
    ASSUME IInv, Link
    PROVE  IInv'
<1>1. /\ stage = "capped" /\ stage' = "built" /\ Settled
      /\ UNCHANGED <<superseded, prot, ladder, givenUp>>
  BY DEF Link, Settled
<1>2. \A e \in supersedes' : e \in supersedes \/
          \E i \in DOMAIN log : /\ ~Alive(i) /\ e[1] # e[2]
                              /\ e[1] = log[retractedBy[i]].turn /\ e[2] = log[i].turn
  BY DEF Link
<1>3. EdgesForward'
  <2> SUFFICES ASSUME NEW e \in supersedes' PROVE e[2] < e[1] BY DEF EdgesForward
  <2>1. CASE e \in supersedes BY <2>1 DEF IInv, Revised, EdgesForward
  <2>2. ASSUME NEW i \in DOMAIN log, ~Alive(i), e[1] # e[2],
               e[1] = log[retractedBy[i]].turn, e[2] = log[i].turn
        PROVE  e[2] < e[1]
    <3>1. i < retractedBy[i] /\ retractedBy[i] \in DOMAIN log BY <2>2 DEF IInv, Revised, Forward
    <3>2. i \in Int /\ retractedBy[i] \in Int
      BY <3>1, ChatFacts DEF IInv, Revised, Shape
    <3>3. /\ log[i].turn <= log[retractedBy[i]].turn
          /\ log[i].turn \in Int /\ log[retractedBy[i]].turn \in Int
      BY <3>1, <3>2, ChatFacts DEF IInv, Revised, Shape, Turns
    <3> QED BY <2>2, <3>3
  <2> QED BY <1>2, <2>1, <2>2
<1>4. /\ Revised' /\ Turns' = Turns
      /\ \A t : Live(t)' = Live(t) /\ Said(t)' = Said(t)
  BY <1>1, <1>3, SettledKeeps DEF Built, IInv, Revised, Shape
<1>5. Agreed' /\ RetractedNeverWhole' /\ WindowKept'
  BY <1>1, <1>4 DEF IInv, Agreed, RetractedNeverWhole, WindowKept, Built, Settled
<1> QED BY <1>1, <1>4, <1>5 DEF IInv, Open, Opened, TiersFollow

\* Seeding only raises.
LEMMA SeedRaises ==
    ASSUME NEW t, prot[t] \in Level
    PROVE  /\ SeedLevel(FeatureOf(t), chat.enforce) \in Level
           /\ SeedLevel(FeatureOf(t), chat.enforce) >= prot[t]
<1> USE DEF DROPPABLE, ELASTIC, ANCHORED, LOCKED, FROZEN, Level
<1>1. FeatureOf(t).given = prot[t] BY DEF FeatureOf
<1>2. RoleLevel(FeatureOf(t)) \in Level BY DEF RoleLevel
<1>3. ObligationLevel(FeatureOf(t), chat.enforce) \in Level BY DEF ObligationLevel
<1> QED BY <1>1, <1>2, <1>3 DEF SeedLevel, Join

LEMMA SeedKeeps ==
    ASSUME IInv, Seed
    PROVE  IInv'
<1>1. /\ stage = "built" /\ stage' = "seeded" /\ Settled
      /\ UNCHANGED <<superseded, ladder, supersedes, givenUp>>
      /\ prot' = [t \in Turns |-> SeedLevel(FeatureOf(t), chat.enforce)]
  BY DEF Seed, Settled
<1>2. \A t \in Turns : prot'[t] \in Level /\ prot'[t] >= prot[t] /\ prot[t] \in Level
  BY <1>1, SeedRaises DEF IInv, Revised, Shape
<1>3. prot' \in [Turns -> Level] BY <1>1, <1>2
<1>4. /\ Revised' /\ Turns' = Turns
      /\ \A t : Live(t)' = Live(t) /\ Said(t)' = Said(t)
  BY <1>1, <1>3, SettledKeeps DEF Built, IInv, Revised, Shape, EdgesForward
<1>5. Agreed' /\ RetractedNeverWhole'
  BY <1>1, <1>4 DEF IInv, Agreed, RetractedNeverWhole, Built, Settled
<1>6. WindowKept'
  BY <1>1, <1>2, <1>4 DEF IInv, WindowKept, Built, Settled, Level, LOCKED, DROPPABLE, FROZEN
<1> QED BY <1>1, <1>4, <1>5, <1>6 DEF IInv, Open, Opened, TiersFollow

LEMMA TiersKeep ==
    ASSUME IInv, AssignTiers
    PROVE  IInv'
<1>1. /\ stage = "seeded" /\ stage' = "tiered" /\ Settled
      /\ UNCHANGED <<superseded, prot, ladder, supersedes>>
      /\ givenUp' = {k \in UNION {chat.turns[t].own : t \in Turns} : IsStale(k)}
  BY DEF AssignTiers, Settled
<1>2. /\ Revised' /\ Turns' = Turns
      /\ \A t : Live(t)' = Live(t) /\ Said(t)' = Said(t)
  BY <1>1, SettledKeeps DEF Built, IInv, Revised, Shape, EdgesForward
<1>3. Agreed' /\ RetractedNeverWhole' /\ WindowKept'
  BY <1>1, <1>2 DEF IInv, Agreed, RetractedNeverWhole, WindowKept, Built, Settled
<1>4. TiersFollow' BY <1>1, <1>2 DEF TiersFollow, IsStale, Owners, Settled
<1> QED BY <1>1, <1>2, <1>3, <1>4 DEF IInv, Open, Opened

LEMMA DedupKeeps ==
    ASSUME IInv, Dedup
    PROVE  IInv'
<1>1. /\ stage = "tiered" /\ stage' = "done" /\ Settled
      /\ UNCHANGED <<superseded, supersedes>>
      /\ prot' = [t \in Turns |-> IF Vanishes(t, CanonOf(t)) THEN DROPPABLE ELSE prot[t]]
      /\ \A t \in Turns : ladder'[t] \subseteq ladder[t] \cup {"delta"}
  BY DEF Dedup, Settled
<1>2. prot' \in [Turns -> Level]
  BY <1>1 DEF Level, DROPPABLE, FROZEN, IInv, Revised, Shape
<1>3. /\ Revised' /\ Turns' = Turns
      /\ \A t : Live(t)' = Live(t) /\ Said(t)' = Said(t)
  BY <1>1, <1>2, SettledKeeps DEF Built, IInv, Revised, Shape, EdgesForward
<1>4. RetractedNeverWhole'
  BY <1>1 DEF IInv, RetractedNeverWhole, Revised, Shape, Built
<1> QED BY <1>1, <1>3, <1>4 DEF IInv, Open, Opened, Agreed, TiersFollow, WindowKept, Built

LEMMA Preserved == IInv /\ [Next]_vars => IInv'
<1> SUFFICES ASSUME IInv, [Next]_vars PROVE IInv' OBVIOUS
<1>1. CASE UNCHANGED vars
  <2>1. Turns' = Turns BY <1>1 DEF Turns, vars, turnVars
  <2>2. \A t : Live(t)' = Live(t) BY <1>1 DEF Live, Said, Alive, vars, turnVars, memoryVars
  <2> QED
    BY <1>1, <2>1, <2>2 DEF vars, turnVars, memoryVars, IInv, Revised, Shape, LastOK, Forward,
        EdgesForward, CorrectionsStand, Alive, Open, Agreed, TiersFollow, IsStale, Owners,
        WindowKept, RetractedNeverWhole
<1> QED
  BY <1>1, ReviseKeeps, EmitKeeps, RetractKeeps, ForbidKeeps, CapKeeps, LinkKeeps, SeedKeeps,
     TiersKeep, DedupKeeps DEF Next

LEMMA Invariant == Spec => []IInv
BY Initially, Preserved, PTL DEF Spec

-----------------------------------------------------------------------------
\* Supersession is acyclic: what retracts a record, or a turn, comes after it.
THEOREM Acyclic == Spec => []RetractionIsForward
<1>1. IInv => RetractionIsForward BY DEF IInv, Revised, Forward, EdgesForward, RetractionIsForward
<1> QED BY <1>1, Invariant, PTL

\* No sequence of statements and corrections retracts a correction.
THEOREM CorrectionsAreFinal == Spec => []CorrectionsStand
<1>1. IInv => CorrectionsStand BY DEF IInv, Revised
<1> QED BY <1>1, Invariant, PTL

\* The recency window goes into deduplication locked and whole, whatever the
\* turns around it retract.
THEOREM WindowIsKept == Spec => []WindowKept
<1>1. IInv => WindowKept BY DEF IInv
<1> QED BY <1>1, Invariant, PTL

\* A retracted turn that was withheld is never offered whole again.
THEOREM Withheld == Spec => []RetractedNeverWhole
<1>1. IInv => RetractedNeverWhole BY DEF IInv
<1> QED BY <1>1, Invariant, PTL

\* What repair owes can be shown by a turn, what it was told to give up cannot.
THEOREM RepairCanPay == Spec => []RepairIsPossible
<1>1. IInv => RepairIsPossible
  <2> SUFFICES ASSUME IInv, stage = "tiered", NEW s \in Turns, NEW k \in chat.turns[s].own
               PROVE  k \notin givenUp <=> \E t \in Owners(k) : "full" \in ladder[t]
    BY DEF RepairIsPossible
  <2>1. k \in givenUp <=> Owners(k) \subseteq superseded BY DEF IInv, TiersFollow, IsStale
  <2>2. \A t \in Owners(k) : t \in Turns /\ chat.turns[t].own # {} BY DEF Owners
  <2>3. \A t \in Owners(k) : t \in superseded <=> "full" \notin ladder[t]
    BY <2>2 DEF IInv, Agreed, Built
  <2> QED BY <2>1, <2>3
<1> QED BY <1>1, Invariant, PTL
-----------------------------------------------------------------------------
(***************************************************************************)
(* Deduplication.  Up to it a turn that is not superseded has a rung and   *)
(* every turn has a cost, so that each cluster of copies has one canonical *)
(* unit, which is its own.                                                 *)
(***************************************************************************)
Priced == stage \in Opened \cup Built => /\ tokens \in [Turns -> Nat]
                                        /\ \A t \in Turns : ladder[t] \subseteq {"full", "memory", "tight"}

Offered == stage \in Opened \cup Built => \A t \in Turns \ superseded : ladder[t] # {}

LEMMA TurnFacts ==
    ASSUME chat \in Chats
    PROVE  /\ Turns \subseteq Nat \ {0} /\ IsFiniteSet(Turns)
           /\ \A t \in Turns : /\ chat.turns[t] \in Turn /\ IsFiniteSet(chat.turns[t].own)
                               /\ \A rung : Cost(t, rung) \in Nat
<1>1. chat.turns \in Seq(Turn) /\ \A t \in DOMAIN chat.turns : IsFiniteSet(chat.turns[t].own)
  BY ChatsAssumption
<1>2. \A t \in Turns : chat.turns[t] \in Turn /\ IsFiniteSet(chat.turns[t].own)
  BY <1>1 DEF Turns
<1>3. IsFiniteSet(Turns) BY <1>1, FS_Interval DEF Turns
<1>4. \A t \in Turns : /\ chat.turns[t].size \in Nat /\ chat.turns[t].tight \in Nat
                       /\ chat.turns[t].memory \in Nat
  BY <1>2 DEF Turn
<1> QED BY <1>1, <1>2, <1>3, <1>4 DEF Turns, Cost

LEMMA DearestCost ==
    ASSUME chat \in Chats, NEW t \in Turns
    PROVE  Max({Cost(t, rung) : rung \in Rungs(t)}) \in Nat
<1> DEFINE f == [rung \in Rungs(t) |-> Cost(t, rung)]
           S == {f[rung] : rung \in Rungs(t)}
           R == {p \in S \X S : p[1] >= p[2]}
<1>1. "full" \in Rungs(t) /\ Rungs(t) \subseteq {"full", "memory", "tight"} BY DEF Rungs
<1>2. IsFiniteSet({"full", "memory", "tight"})
  <2>1. IsFiniteSet({"full"}) BY FS_Singleton
  <2>2. IsFiniteSet({"full"} \cup {"memory"}) BY <2>1, FS_AddElement
  <2>3. IsFiniteSet(({"full"} \cup {"memory"}) \cup {"tight"}) BY <2>2, FS_AddElement
  <2>4. ({"full"} \cup {"memory"}) \cup {"tight"} = {"full", "memory", "tight"} OBVIOUS
  <2> QED BY <2>3, <2>4
<1>3. IsFiniteSet(Rungs(t)) BY <1>1, <1>2, FS_Subset
<1>4. S = {Cost(t, rung) : rung \in Rungs(t)} OBVIOUS
<1>5. S \subseteq Nat /\ S # {} BY <1>1, TurnFacts
<1>6. IsFiniteSet(S)
  <2> HIDE DEF f
  <2> QED BY <1>3, ImageIsFinite
<1> HIDE DEF S
<1>7. \E m \in S : \A x \in S \ {m} : <<m, x>> \in R
  <2>1. \A x, y \in S : x # y => <<x, y>> \in R \/ <<y, x>> \in R BY <1>5
  <2>2. \A x, y, z \in S : <<x, y>> \in R /\ <<y, z>> \in R => <<x, z>> \in R BY <1>5
  <2>3. S # {} /\ IsFiniteSet(S) BY <1>5, <1>6
  <2> HIDE DEF R
  <2> QED BY <2>1, <2>2, <2>3, FirstExists
<1>8. PICK m \in S : \A x \in S \ {m} : m >= x BY <1>7
<1>9. \A x \in S : m >= x BY <1>5, <1>8
<1>10. Max(S) \in S BY <1>9 DEF Max
<1> QED BY <1>4, <1>5, <1>10

\* Capping leaves a rung: of two rungs at most one is the dearest.
LEMMA CappedStillOffered ==
    ASSUME chat \in Chats, NEW t \in Turns, Cardinality(ladder[t]) > 1
    PROVE  ladder[t] \ Dearest(t) # {}
<1>1. \E r, q \in ladder[t] : r # q
  <2>1. CASE ladder[t] = {} BY <2>1, FS_EmptySet
  <2>2. CASE \E r \in ladder[t] : ladder[t] = {r} BY <2>2, FS_Singleton
  <2> QED BY <2>1, <2>2
<1>2. PICK r, q \in ladder[t] : r # q BY <1>1
<1>3. Cost(t, r) \in Nat /\ Cost(t, q) \in Nat BY TurnFacts
<1>4. r \notin Dearest(t) \/ q \notin Dearest(t) BY <1>2, <1>3 DEF Dearest
<1> QED BY <1>2, <1>4

LEMMA CanonFacts ==
    ASSUME chat \in Chats, tokens \in [Turns -> Nat], NEW t \in Turns
    PROVE  /\ CanonOf(t) \in Turns
           /\ CanonOf(CanonOf(t)) = CanonOf(t)
<1>1. CASE t \notin Candidates BY <1>1 DEF CanonOf
<1>2. CASE t \in Candidates
  <2> DEFINE S == Cluster(t)
             R == {p \in S \X S : Precedes(p[1], p[2])}
  <2>1. S \subseteq Turns /\ t \in S /\ S \subseteq Candidates
    BY <1>2 DEF Cluster, Candidates
  <2>2. S \subseteq Nat /\ IsFiniteSet(S) BY <2>1, TurnFacts, FS_Subset
  <2>3. \A s \in S : Cardinality(chat.turns[s].own) \in Nat /\ tokens[s] \in Nat
    BY <2>1, TurnFacts, FS_CardinalityType
  <2>4. \A x, y \in S : x # y => <<x, y>> \in R \/ <<y, x>> \in R
    BY <2>2, <2>3 DEF Precedes
  <2>5. \A x, y, z \in S : <<x, y>> \in R /\ <<y, z>> \in R => <<x, z>> \in R
    BY <2>2, <2>3 DEF Precedes
  <2>6. \E c \in S : \A s \in S \ {c} : <<c, s>> \in R
    <3> HIDE DEF S, R
    <3> QED BY <2>1, <2>2, <2>4, <2>5, FirstExists
  <2>7. \E c \in S : \A s \in S \ {c} : Precedes(c, s) BY <2>6
  <2>8. CanonOf(t) \in S
    BY <1>2, <2>7 DEF CanonOf
  <2>9. Cluster(CanonOf(t)) = S
    BY <2>8 DEF Cluster
  <2>10. CanonOf(CanonOf(t)) = CanonOf(t)
    <3>1. PICK c : c = CanonOf(t) OBVIOUS
    <3>2. c \in Candidates BY <2>1, <2>8, <3>1
    <3>3. CanonOf(c) = CHOOSE d \in Cluster(c) : \A s \in Cluster(c) \ {d} : Precedes(d, s)
      BY <3>2 DEF CanonOf
    <3>4. CanonOf(t) = CHOOSE d \in Cluster(t) : \A s \in Cluster(t) \ {d} : Precedes(d, s)
      BY <1>2 DEF CanonOf
    <3>5. Cluster(c) = Cluster(t) BY <2>9, <3>1
    <3> QED BY <3>1, <3>3, <3>4, <3>5
  <2> QED BY <2>1, <2>8, <2>10
<1> QED BY <1>1, <1>2

Served == Priced /\ Offered /\ CopiesStayCovered

LEMMA ServedStart == Init => Served
BY DEF Init, MemoryInit, Served, Priced, Offered, CopiesStayCovered, Opened, Built

LEMMA DedupCovers ==
    ASSUME IInv, Served, Dedup
    PROVE  CopiesStayCovered'
<1>1. /\ chat \in Chats /\ Turns \subseteq Nat \ {0} /\ tokens \in [Turns -> Nat]
      /\ stage = "tiered" /\ UNCHANGED <<chat, superseded>> /\ Turns' = Turns
  BY TurnFacts DEF Dedup, IInv, Revised, Shape, Served, Priced, Built, Turns
<1>2. \A t \in Turns :
         /\ copyOf'[t] = IF CanonOf(t) = t THEN 0 ELSE CanonOf(t)
         /\ ladder'[t] = IF Vanishes(t, CanonOf(t)) THEN {}
                         ELSE IF Differs(t, CanonOf(t)) THEN ladder[t] \cup {"delta"}
                         ELSE ladder[t]
  BY DEF Dedup
<1>3. SUFFICES ASSUME NEW t \in Turns \ superseded, ladder'[t] = {}
               PROVE  LET c == copyOf'[t] IN
                      /\ c # 0 /\ copyOf'[c] = 0
                      /\ chat.turns[t].own \subseteq chat.turns[c].own
                      /\ chat.turns[t].own = {} \/ c \in superseded \/ "full" \in ladder'[c]
  BY <1>1 DEF CopiesStayCovered
<1>4. PICK c : c = CanonOf(t) OBVIOUS
<1>5. Vanishes(t, c) BY <1>1, <1>2, <1>3, <1>4 DEF Served, Offered, Built
<1>6. c \in Turns /\ CanonOf(c) = c BY <1>1, <1>4, CanonFacts
<1>7. c # t /\ chat.turns[t].own \subseteq chat.turns[c].own BY <1>5 DEF Vanishes
<1>8. copyOf'[t] = c /\ c # 0 /\ copyOf'[c] = 0 BY <1>1, <1>2, <1>4, <1>6, <1>7
<1>9. ladder'[c] = ladder[c] BY <1>2, <1>6 DEF Vanishes, Differs
<1>10. chat.turns[t].own = {} \/ c \in superseded \/ "full" \in ladder[c]
  BY <1>1, <1>6, <1>7 DEF IInv, Agreed, Built
<1> QED BY <1>7, <1>8, <1>9, <1>10

LEMMA ServedKept == IInv /\ Served /\ [Next]_vars => Served'
<1> SUFFICES ASSUME IInv, Served, [Next]_vars PROVE Served' OBVIOUS
<1>1. chat \in Chats /\ superseded \subseteq Turns BY DEF IInv, Revised, Shape
<1>2. CASE Revise /\ UNCHANGED turnVars
  <2>1. stage' \in Before
    BY <1>2 DEF Revise, Collide, EndCollide, Correct, EndCorrect, Before
  <2> QED BY <2>1 DEF Before, Served, Priced, Offered, CopiesStayCovered, Opened, Built
<1>3. CASE Emit
  <2>1. /\ stage' = "emitted" /\ Turns' = Turns
        /\ ladder' = [t \in Turns |-> Rungs(t)]
        /\ tokens' = [t \in Turns |-> Max({Cost(t, rung) : rung \in Rungs(t)})]
    BY <1>3 DEF Emit, Turns
  <2>2. tokens' \in [Turns -> Nat] BY <1>1, <2>1, DearestCost
  <2>3. \A t \in Turns : "full" \in Rungs(t) /\ Rungs(t) \subseteq {"full", "memory", "tight"}
    BY DEF Rungs
  <2> QED BY <2>1, <2>2, <2>3 DEF Served, Priced, Offered, CopiesStayCovered
<1>4. CASE RetractAnswers
  <2>1. /\ stage = "emitted" /\ stage' = "retracted" /\ Turns' = Turns
        /\ UNCHANGED <<ladder, tokens>> /\ superseded \subseteq superseded'
    BY <1>4 DEF RetractAnswers, Turns
  <2> QED BY <2>1 DEF Served, Priced, Offered, CopiesStayCovered, Opened
<1>5. CASE Forbid
  <2>1. /\ stage = "retracted" /\ stage' = "forbidden" /\ Turns' = Turns
        /\ UNCHANGED <<tokens, superseded>>
        /\ \A t \in Turns : /\ ladder'[t] \subseteq ladder[t]
                            /\ t \notin superseded => ladder'[t] = ladder[t]
    BY <1>5 DEF Forbid, Turns, LeftOf
  <2> QED BY <2>1 DEF Served, Priced, Offered, CopiesStayCovered, Opened
<1>6. CASE CapFiller
  <2>1. /\ stage = "forbidden" /\ stage' = "capped" /\ Turns' = Turns
        /\ UNCHANGED <<tokens, superseded>>
        /\ \A t \in Turns :
              ladder'[t] = IF IsFiller(t) /\ Cardinality(ladder[t]) > 1
                             THEN ladder[t] \ Dearest(t) ELSE ladder[t]
    BY <1>6 DEF CapFiller, Turns
  <2>2. \A t \in Turns : /\ ladder'[t] \subseteq ladder[t]
                         /\ ladder[t] # {} => ladder'[t] # {}
    BY <1>1, <2>1, CappedStillOffered
  <2> QED BY <2>1, <2>2 DEF Served, Priced, Offered, CopiesStayCovered, Built
<1>7. CASE Link \/ Seed \/ AssignTiers
  <2>1. /\ stage \in Built /\ stage' \in Built /\ stage' # "done" /\ Turns' = Turns
        /\ UNCHANGED <<ladder, tokens, superseded>>
    BY <1>7 DEF Link, Seed, AssignTiers, Turns, Built
  <2> QED BY <2>1 DEF Served, Priced, Offered, CopiesStayCovered
<1>8. CASE Dedup
  <2>1. stage' = "done" BY <1>8 DEF Dedup
  <2> QED BY <1>8, <2>1, DedupCovers DEF Served, Priced, Offered, Opened, Built
<1>9. CASE UNCHANGED vars
  <2>1. Turns' = Turns BY <1>9 DEF Turns, vars, turnVars
  <2> QED BY <1>9, <2>1 DEF vars, turnVars, memoryVars, Served, Priced, Offered, CopiesStayCovered
<1> QED BY <1>2, <1>3, <1>4, <1>5, <1>6, <1>7, <1>8, <1>9 DEF Next

LEMMA ServedInvariant == Spec => [](IInv /\ Served)
BY Initially, Preserved, ServedStart, ServedKept, PTL DEF Spec

\* What deduplication empties is covered: the canonical unit holds its
\* obligations, is no copy, and can be shown whole unless it was retracted.
THEOREM CopiesAreCovered == Spec => []CopiesStayCovered
<1>1. Served => CopiesStayCovered BY DEF Served
<1> QED BY <1>1, ServedInvariant, PTL
=============================================================================
