-------------------------- MODULE EvaluationProofs --------------------------
(***************************************************************************)
(* What holds of the ledger for every plan, every provider, and every      *)
(* number of runs, crashes, failed saves and days: the replies the budget  *)
(* answers for stay within it and are never asked for twice, scores come   *)
(* from the replies they should come from, and timings from the requests.  *)
(***************************************************************************)
EXTENDS Evaluation, Induction, SequenceTheorems

\* A ledger, in memory or on disk, as far as counting is concerned.
IsLedger(l) == /\ l = [day |-> l.day, spent |-> l.spent, cache |-> l.cache]
               /\ l.day \in Int /\ l.spent \in Nat

\* The replies that came in so far, each in a run, under a day and under the
\* parameters.
Entry(e) == e.day \in Nat /\ e.run \in Nat /\ e.key = <<Params, e.key[2]>>
HistoryOK == /\ today \in Nat /\ runs \in Nat
             /\ DOMAIN paid = 1 .. Len(paid) /\ Len(paid) \in Nat /\ paid = [k \in 1 .. Len(paid) |-> paid[k]]
             /\ \A k \in DOMAIN paid : Entry(paid[k]) /\ paid[k].run <= runs
             /\ saved \subseteq DOMAIN paid /\ used \subseteq DOMAIN paid

\* No reply on file is dated after the file, which is not dated after today.
Dated == disk.day <= today /\ \A k \in saved : paid[k].day <= disk.day

\* The file knows every reply it has held and counts those of its day.
SavedOn(d) == {k \in saved : paid[k].day = d}
FileCounts == disk.spent = Cardinality(SavedOn(disk.day))
FileKnows  == \A k \in saved : paid[k].key \in DOMAIN disk.cache

\* The reply in hand is the last that came in, and the one that was timed.
InHand == [day |-> ledger.day, run |-> runs, request |-> Request,
           key |-> KeyOf(Request), reply |-> answer]
Pending == call = "answered" =>
    /\ Len(paid) # 0 /\ paid[Len(paid)] = InHand /\ latency = Len(paid)
    /\ Len(paid) \notin saved /\ Len(paid) \notin used

\* The process has counted and cached what lasts, but for the reply in hand.
Counts == ledger.spent + (IF call = "answered" THEN 1 ELSE 0) = PaidOn(ledger.day)
Knows  == \A k \in DOMAIN paid :
    Lasting(k) /\ ~ (call = "answered" /\ k = Len(paid)) => paid[k].key \in DOMAIN ledger.cache
OneDay == \A k \in DOMAIN paid : paid[k].run = runs => paid[k].day = ledger.day
RunCounts == judge # "none" =>
    /\ IsLedger(ledger)
    /\ disk.day <= ledger.day /\ ledger.day <= today /\ ledger.day \in Nat
    /\ Counts /\ Knows /\ OneDay

\* A request goes out only while something is left.
Affordable == call # "idle" => judge # "none" /\ ledger.spent < Budget

Within == \A d \in Int : PaidOn(d) <= Budget

IInv == HistoryOK /\ IsLedger(disk) /\ Dated /\ FileCounts /\ FileKnows
        /\ Pending /\ RunCounts /\ Affordable /\ Within

-----------------------------------------------------------------------------
(***************************************************************************)
(* Counting.                                                               *)
(***************************************************************************)
LastingOn(d) == {k \in DOMAIN paid : Lasting(k) /\ paid[k].day = d}

\* The replies of a day are finitely many, and none are none.
LEMMA DayIsCounted ==
    ASSUME HistoryOK, NEW d
    PROVE  /\ IsFiniteSet(LastingOn(d)) /\ PaidOn(d) = Cardinality(LastingOn(d))
           /\ PaidOn(d) \in Nat
           /\ LastingOn(d) = {} => PaidOn(d) = 0
<1>1. IsFiniteSet(1 .. Len(paid)) BY FS_Interval DEF HistoryOK
<1>2. LastingOn(d) \subseteq 1 .. Len(paid) BY DEF HistoryOK, LastingOn
<1>3. IsFiniteSet(LastingOn(d)) BY <1>1, <1>2, FS_Subset
<1>4. PaidOn(d) = Cardinality(LastingOn(d)) BY DEF PaidOn, LastingOn
<1>5. Cardinality(LastingOn(d)) \in Nat BY <1>3, FS_CardinalityType
<1>6. LastingOn(d) = {} => Cardinality(LastingOn(d)) = 0 BY FS_EmptySet
<1> QED BY <1>3, <1>4, <1>5, <1>6

\* What lasts can only get less when a process ends and none begins.
LEMMA LastingShrinks ==
    ASSUME HistoryOK, NEW d, LastingOn(d)' \subseteq LastingOn(d),
           PaidOn(d)' = Cardinality(LastingOn(d)')
    PROVE  PaidOn(d)' \in Nat /\ PaidOn(d)' <= PaidOn(d)
<1>1. IsFiniteSet(LastingOn(d)) /\ PaidOn(d) = Cardinality(LastingOn(d)) BY DayIsCounted
<1>2. PICK S, T : S = LastingOn(d) /\ T = LastingOn(d)' OBVIOUS
<1>3. T \subseteq S /\ IsFiniteSet(S) BY <1>1, <1>2
<1>4. IsFiniteSet(T) /\ Cardinality(T) <= Cardinality(S) BY <1>3, FS_Subset
<1>5. Cardinality(T) \in Nat BY <1>4, FS_CardinalityType
<1> QED BY <1>1, <1>2, <1>4, <1>5

\* One more reply of this run counts for its own day only.
LEMMA OneMoreReply ==
    ASSUME HistoryOK, judge # "none", UNCHANGED <<judge, runs, saved>>,
           NEW e, e.run = runs, paid' = Append(paid, e), NEW d
    PROVE  PaidOn(d)' = PaidOn(d) + (IF e.day = d THEN 1 ELSE 0)
<1> DEFINE S == LastingOn(d)
           T == {k \in DOMAIN paid' : Lasting(k)' /\ paid'[k].day = d}
           n == Len(paid)
<1>1. /\ DOMAIN paid' = 1 .. n + 1 /\ paid'[n + 1] = e /\ DOMAIN paid = 1 .. n /\ n \in Nat
      /\ \A k \in 1 .. n : paid'[k] = paid[k]
  BY DEF HistoryOK
<1>2. IsFiniteSet(S) /\ Cardinality(S) \in Nat /\ PaidOn(d) = Cardinality(S)
  BY DayIsCounted
<1>3. PaidOn(d)' = Cardinality(T) BY DEF PaidOn
<1>4. \A k \in 1 .. n : Lasting(k)' <=> Lasting(k) BY <1>1 DEF Lasting
<1>5. \A k : k = n + 1 => Lasting(k)' BY <1>1 DEF Lasting
<1>6. \A k \in 1 .. n + 1 : k \in 1 .. n \/ k = n + 1 BY <1>1
<1>7. n + 1 \notin 1 .. n BY <1>1
<1>8. \A k : k \in S <=> k \in 1 .. n /\ Lasting(k) /\ paid[k].day = d
  BY <1>1 DEF LastingOn
<1>9. \A k : k \in T <=> k \in 1 .. n + 1 /\ Lasting(k)' /\ paid'[k].day = d
  BY <1>1
<1>10. \A k \in 1 .. n : k \in 1 .. n + 1 BY <1>1
<1>11. n + 1 \in 1 .. n + 1 BY <1>1
<1> HIDE DEF S, T
<1>12. CASE e.day = d
  <2>1. T = S \cup {n + 1} /\ n + 1 \notin S
    BY <1>1, <1>4, <1>5, <1>6, <1>7, <1>8, <1>9, <1>10, <1>11, <1>12
  <2>2. Cardinality(T) = Cardinality(S) + 1 BY <1>2, <2>1, FS_AddElement
  <2> QED BY <1>2, <1>3, <1>12, <2>2
<1>13. CASE e.day # d
  <2>1. T = S
    BY <1>1, <1>4, <1>6, <1>8, <1>9, <1>10, <1>13
  <2> QED BY <1>2, <1>3, <1>13, <2>1
<1> QED BY <1>12, <1>13

-----------------------------------------------------------------------------
LEMMA Initially == Init => IInv
<1> SUFFICES ASSUME Init PROVE IInv OBVIOUS
<1>1. HistoryOK /\ IsLedger(disk) /\ Dated /\ FileKnows /\ Pending /\ RunCounts /\ Affordable
  BY DEF Init, HistoryOK, IsLedger, Dated, FileKnows, Pending, RunCounts, Affordable, NoFile
<1>2. \A d \in Int : PaidOn(d) = 0
  <2> SUFFICES ASSUME NEW d \in Int PROVE PaidOn(d) = 0 OBVIOUS
  <2>1. LastingOn(d) = {} BY DEF Init, LastingOn
  <2> QED BY <1>1, <2>1, DayIsCounted
<1>3. FileCounts
  <2>1. SavedOn(disk.day) = {} BY DEF Init, SavedOn
  <2> QED BY <2>1, FS_EmptySet DEF Init, FileCounts, NoFile
<1>4. Within BY <1>2, EvaluationAssumption DEF Within
<1> QED BY <1>1, <1>3, <1>4 DEF IInv

\* The file and the replies are left alone.
LEMMA SameFile ==
    ASSUME IInv, UNCHANGED <<disk, history, runs>>, today' \in Nat, today <= today'
    PROVE  HistoryOK' /\ IsLedger(disk)' /\ Dated' /\ FileKnows' /\ FileCounts'
<1>1. HistoryOK' /\ IsLedger(disk)' /\ FileKnows'
  BY DEF IInv, HistoryOK, Entry, IsLedger, FileKnows, history
<1>2. Dated' BY DEF IInv, HistoryOK, IsLedger, Dated, history
<1>3. FileCounts' BY DEF IInv, FileCounts, SavedOn, history
<1> QED BY <1>1, <1>2, <1>3

\* A step between the answers that leaves file, replies and ledger alone keeps
\* the invariant if it only sends what can be afforded.
LEMMA SameLedger ==
    ASSUME IInv, UNCHANGED <<disk, history, today, runs>>, call' # "answered",
           judge' = "none" \/ (judge' = judge /\ ledger' = ledger /\ call # "answered"),
           call' # "idle" => judge' # "none" /\ ledger.spent < Budget
    PROVE  IInv'
<1>1. HistoryOK' /\ IsLedger(disk)' /\ Dated' /\ FileKnows' /\ FileCounts'
  BY SameFile DEF IInv, HistoryOK
<1>2. \A k : Lasting(k)' => Lasting(k) BY DEF Lasting, history
<1>3. \A d : PaidOn(d)' \in Nat /\ PaidOn(d)' <= PaidOn(d)
  <2> SUFFICES ASSUME NEW d PROVE PaidOn(d)' \in Nat /\ PaidOn(d)' <= PaidOn(d) OBVIOUS
  <2>1. LastingOn(d)' \subseteq LastingOn(d) BY <1>2 DEF LastingOn, history
  <2>2. PaidOn(d)' = Cardinality(LastingOn(d)') BY DEF PaidOn, LastingOn
  <2> QED BY <2>1, <2>2, LastingShrinks DEF IInv
<1>4. RunCounts'
  <2> SUFFICES ASSUME judge' # "none" PROVE RunCounts' BY DEF RunCounts
  <2>1. judge' = judge /\ ledger' = ledger /\ call # "answered" OBVIOUS
  <2>2. \A k : Lasting(k)' <=> Lasting(k) BY <2>1 DEF Lasting, history
  <2>3. PaidOn(ledger.day)' = PaidOn(ledger.day) BY <2>1, <2>2 DEF PaidOn, history
  <2>4. RunCounts /\ judge # "none" BY <2>1 DEF IInv
  <2>5. Counts' /\ Knows' /\ OneDay' BY <2>1, <2>2, <2>3, <2>4 DEF RunCounts, Counts, Knows, OneDay, history
  <2> QED BY <2>1, <2>4, <2>5 DEF RunCounts, IsLedger
<1>5. Affordable' BY DEF Affordable
<1>6. Within'
  <2> SUFFICES ASSUME NEW d \in Int PROVE PaidOn(d)' <= Budget BY DEF Within
  <2>1. PaidOn(d) \in Nat /\ PaidOn(d) <= Budget BY DayIsCounted DEF IInv, Within
  <2> QED BY <1>3, <2>1, EvaluationAssumption
<1>7. Pending' BY DEF Pending
<1> QED BY <1>1, <1>4, <1>5, <1>6, <1>7 DEF IInv

\* Nothing happens but the passing of time.
LEMMA OnlyTime ==
    ASSUME IInv, UNCHANGED <<runs, disk, ledger, judge, latency, pack, plan, call, answer,
                             trials, stopped, history>>,
           today' \in Nat, today <= today'
    PROVE  IInv'
<1>1. HistoryOK' /\ IsLedger(disk)' /\ Dated' /\ FileKnows' /\ FileCounts' BY SameFile
<1>2. \A d : PaidOn(d)' = PaidOn(d) BY DEF PaidOn, Lasting, history
<1>3. Counts' <=> Counts BY <1>2 DEF Counts
<1>4. (Knows' <=> Knows) /\ (OneDay' <=> OneDay) BY DEF Knows, OneDay, Lasting, history
<1>5. RunCounts' BY <1>3, <1>4 DEF IInv, HistoryOK, IsLedger, RunCounts
<1>6. Pending' BY DEF IInv, Pending, InHand, Request, KeyOf, PromptOf, history
<1>7. Affordable' /\ Within' BY <1>2 DEF IInv, Affordable, Within
<1> QED BY <1>1, <1>5, <1>6, <1>7 DEF IInv

\* A run begins with what the file holds, less the count of another day.
LEMMA Begins ==
    ASSUME IInv, NEW n, NEW k, NEW kind \in {"gemini", "replay"}, Start(n, k, kind)
    PROVE  IInv'
<1>1. /\ UNCHANGED <<disk, history, today>> /\ call' = "idle" /\ ledger' = Load(disk, today)
      /\ judge = "none" /\ judge' = kind /\ runs' = runs + 1
  BY DEF Start
<1>2. HistoryOK'
  <2>1. \A j \in DOMAIN paid : paid[j].run \in Nat /\ paid[j].run <= runs /\ runs \in Nat
    BY DEF IInv, HistoryOK, Entry
  <2>2. \A j \in DOMAIN paid : paid[j].run <= runs + 1 BY <2>1
  <2> QED BY <1>1, <2>2 DEF IInv, HistoryOK, Entry, history
<1>3. IsLedger(disk)' /\ Dated' /\ FileKnows' /\ FileCounts'
  BY <1>1 DEF IInv, HistoryOK, IsLedger, Dated, FileKnows, FileCounts, SavedOn, history
<1>4. \A j \in DOMAIN paid : paid[j].run # runs'
  <2>1. \A j \in DOMAIN paid : paid[j].run \in Nat /\ paid[j].run <= runs /\ runs \in Nat
    BY DEF IInv, HistoryOK, Entry
  <2> QED BY <1>1, <2>1
<1>5. \A j \in DOMAIN paid : (Lasting(j)' <=> Lasting(j)) /\ (Lasting(j) <=> j \in saved)
  BY <1>1, <1>4 DEF Lasting, history
<1>6. \A d : PaidOn(d)' = PaidOn(d) BY <1>1, <1>5 DEF PaidOn, history
<1>7. \A d : LastingOn(d) = SavedOn(d)
  BY <1>5 DEF LastingOn, SavedOn, IInv, HistoryOK
<1>8. \A d : PaidOn(d) = Cardinality(SavedOn(d)) BY <1>7, DayIsCounted DEF IInv
<1>9. /\ IsLedger(ledger') /\ ledger'.day = today /\ ledger'.cache = disk.cache
      /\ disk.day <= today /\ today \in Nat
      /\ ledger'.spent = PaidOn(today)
  <2>1. CASE disk.day = today
    <3>1. ledger' = disk BY <1>1, <2>1 DEF Load
    <3> QED BY <1>8, <2>1, <3>1 DEF IInv, HistoryOK, IsLedger, Dated, FileCounts
  <2>2. CASE disk.day # today
    <3>1. ledger' = [day |-> today, spent |-> 0, cache |-> disk.cache]
      BY <1>1, <2>2 DEF IInv, IsLedger, Load
    <3>2. \A j \in saved : paid[j].day # today
      <4>1. \A j \in saved : paid[j].day \in Nat /\ paid[j].day <= disk.day
        BY DEF IInv, HistoryOK, Entry, Dated
      <4>2. disk.day < today BY <2>2 DEF IInv, HistoryOK, IsLedger, Dated
      <4> QED BY <4>1, <4>2 DEF IInv, IsLedger, HistoryOK
    <3>3. SavedOn(today) = {} BY <3>2 DEF SavedOn
    <3>4. PaidOn(today) = 0 BY <1>8, <3>3, FS_EmptySet
    <3> QED BY <3>1, <3>4 DEF IInv, HistoryOK, IsLedger, Dated
  <2> QED BY <2>1, <2>2
<1>10. RunCounts'
  <2>1. Counts' BY <1>1, <1>6, <1>9 DEF Counts, IsLedger
  <2>2. Knows' BY <1>1, <1>5, <1>9 DEF Knows, IInv, FileKnows, history
  <2>3. OneDay' BY <1>1, <1>4 DEF OneDay, history
  <2> QED BY <1>1, <1>9, <2>1, <2>2, <2>3 DEF RunCounts, IsLedger
<1>11. Affordable' /\ Pending' BY <1>1 DEF Affordable, Pending
<1>12. Within' BY <1>6 DEF IInv, Within
<1> QED BY <1>2, <1>3, <1>10, <1>11, <1>12 DEF IInv

\* A reply that comes in lasts as long as its run, counts for the day of the
\* run and can be afforded.
LEMMA ComesIn ==
    ASSUME IInv, Answered
    PROVE  IInv'
<1> DEFINE n == Len(paid)
<1>1. PICK e : e = [day |-> ledger.day, run |-> runs, request |-> Request,
                    key |-> KeyOf(Request), reply |-> answer']
  OBVIOUS
<1>2. /\ call = "waiting" /\ call' = "answered" /\ paid' = Append(paid, e)
      /\ latency' = Len(paid')
      /\ UNCHANGED <<today, runs, disk, saved, used, ledger, judge, pack, plan>>
  BY <1>1 DEF Answered
<1>3. judge # "none" /\ ledger.spent < Budget BY <1>2 DEF IInv, Affordable
<1>4. /\ IsLedger(ledger) /\ disk.day <= ledger.day /\ ledger.day <= today
      /\ ledger.day \in Nat /\ Counts /\ Knows /\ OneDay
  BY <1>3 DEF IInv, RunCounts
<1>5. e.day = ledger.day /\ e.run = runs /\ e.key = KeyOf(Request) BY <1>1
<1>6. /\ DOMAIN paid = 1 .. n /\ n \in Nat /\ DOMAIN paid' = 1 .. n + 1 /\ Len(paid') = n + 1
      /\ paid'[n + 1] = e /\ \A k \in 1 .. n : paid'[k] = paid[k]
      /\ paid' = [k \in 1 .. n + 1 |-> paid'[k]]
  <2>1. PICK s, S : s = paid /\ S = Range(s) \cup {e} OBVIOUS
  <2>2. s \in Seq(S)
    <3>1. s = [k \in 1 .. Len(s) |-> s[k]] /\ Len(s) \in Nat /\ DOMAIN s = 1 .. Len(s)
      BY <2>1 DEF IInv, HistoryOK
    <3>2. \A k \in 1 .. Len(s) : s[k] \in S BY <2>1, <3>1 DEF Range
    <3> QED BY <3>1, <3>2
  <2>3. PICK u : u = Append(s, e) OBVIOUS
  <2>4. e \in S BY <2>1
  <2>5. u \in Seq(S) /\ Len(u) = Len(s) + 1 /\ Len(s) \in Nat /\ u[Len(s) + 1] = e
        /\ \A k \in 1 .. Len(s) : u[k] = s[k]
    BY <2>2, <2>3, <2>4
  <2>6. DOMAIN u = 1 .. Len(u) /\ u = [k \in 1 .. Len(u) |-> u[k]] BY <2>5
  <2>7. DOMAIN s = 1 .. Len(s) BY <2>2
  <2> QED BY <1>2, <2>1, <2>3, <2>5, <2>6, <2>7
<1>7. \A k \in 1 .. n + 1 : k \in 1 .. n \/ k = n + 1 BY <1>6
<1>8. HistoryOK'
  <2>1. Entry(e) /\ e.run <= runs
    BY <1>4, <1>5 DEF Entry, KeyOf, RequestKey, IInv, HistoryOK
  <2>2. \A k \in 1 .. n + 1 : Entry(paid'[k]) /\ paid'[k].run <= runs
    BY <1>6, <1>7, <2>1 DEF IInv, HistoryOK
  <2>3. \A k \in 1 .. n : k \in 1 .. n + 1 BY <1>6
  <2> QED BY <1>2, <1>6, <2>2, <2>3 DEF IInv, HistoryOK, Entry
<1>9. \A k \in saved : k \in 1 .. n /\ paid'[k] = paid[k] BY <1>6 DEF IInv, HistoryOK
<1>10. IsLedger(disk)' /\ Dated' /\ FileKnows' /\ FileCounts'
  BY <1>2, <1>9 DEF IInv, IsLedger, Dated, FileKnows, FileCounts, SavedOn
<1>11. \A d : PaidOn(d)' = PaidOn(d) + (IF ledger.day = d THEN 1 ELSE 0)
  BY <1>2, <1>3, <1>5, OneMoreReply DEF IInv
<1>12. RunCounts'
  <2>1. Counts' BY <1>2, <1>4, <1>11 DEF Counts, IsLedger
  <2>2. Knows'
    <3> SUFFICES ASSUME NEW k \in 1 .. n + 1, Lasting(k)', k # n + 1
                 PROVE  paid'[k].key \in DOMAIN ledger.cache
      BY <1>2, <1>6 DEF Knows
    <3>1. k \in 1 .. n BY <1>7
    <3>2. Lasting(k) BY <1>2, <1>6, <3>1 DEF Lasting
    <3> QED BY <1>2, <1>4, <1>6, <3>1, <3>2 DEF Knows
  <2>3. OneDay' BY <1>2, <1>4, <1>5, <1>6, <1>7 DEF OneDay
  <2> QED BY <1>2, <1>4, <2>1, <2>2, <2>3 DEF RunCounts
<1>13. Pending'
  <2>1. n + 1 \notin 1 .. n /\ n + 1 # 0 BY <1>6
  <2>2. saved \subseteq 1 .. n /\ used \subseteq 1 .. n BY <1>6 DEF IInv, HistoryOK
  <2>3. InHand' = e BY <1>1, <1>2 DEF InHand, Request, KeyOf, PromptOf
  <2> QED BY <1>2, <1>6, <2>1, <2>2, <2>3 DEF Pending
<1>14. Affordable' BY <1>2, <1>3 DEF Affordable
<1>15. Within'
  <2> SUFFICES ASSUME NEW d \in Int PROVE PaidOn(d)' <= Budget BY DEF Within
  <2>1. PaidOn(d) <= Budget /\ PaidOn(d) \in Nat BY DayIsCounted DEF IInv, Within
  <2>2. ledger.day = d => PaidOn(d) < Budget BY <1>2, <1>3, <1>4 DEF Counts, IsLedger
  <2> QED BY <1>11, <2>1, <2>2, EvaluationAssumption
<1> QED BY <1>8, <1>10, <1>12, <1>13, <1>14, <1>15 DEF IInv

\* put: the ledger of the process counts and knows everything that lasts.
LEMMA Puts ==
    ASSUME IInv, Kept, UNCHANGED paid, \A k \in DOMAIN paid : Lasting(k)' <=> Lasting(k)
    PROVE  /\ IsLedger(ledger') /\ ledger'.day = ledger.day /\ ledger.day \in Nat
           /\ disk.day <= ledger.day /\ ledger.day <= today
           /\ judge' = judge /\ judge # "none"
           /\ \A d : PaidOn(d)' = PaidOn(d)
           /\ ledger'.spent = PaidOn(ledger.day)
           /\ \A k \in DOMAIN paid : Lasting(k) => paid[k].key \in DOMAIN ledger'.cache
           /\ OneDay
<1>1. /\ call = "answered" /\ ledger' = Put(ledger, KeyOf(Request), answer) /\ judge' = judge
  BY DEF Kept
<1>2. judge # "none" BY <1>1 DEF IInv, Affordable
<1>3. /\ IsLedger(ledger) /\ disk.day <= ledger.day /\ ledger.day <= today
      /\ ledger.day \in Nat /\ Counts /\ Knows /\ OneDay
  BY <1>2 DEF IInv, RunCounts
<1>4. ledger' = [day |-> ledger.day, spent |-> ledger.spent + 1,
                 cache |-> Remember(ledger.cache, KeyOf(Request), answer)]
  BY <1>1, <1>3 DEF Put, IsLedger
<1>5. DOMAIN ledger'.cache = {KeyOf(Request)} \cup DOMAIN ledger.cache
  BY <1>4 DEF Remember
<1>6. IsLedger(ledger') /\ ledger'.day = ledger.day BY <1>3, <1>4 DEF IsLedger
<1>7. ledger'.spent = PaidOn(ledger.day) BY <1>1, <1>3, <1>4 DEF Counts
<1>8. \A k \in DOMAIN paid : Lasting(k) => paid[k].key \in DOMAIN ledger'.cache
  <2> SUFFICES ASSUME NEW k \in DOMAIN paid, Lasting(k) PROVE paid[k].key \in DOMAIN ledger'.cache
    OBVIOUS
  <2>1. CASE k = Len(paid) BY <1>1, <1>5, <2>1 DEF IInv, Pending, InHand
  <2>2. CASE k # Len(paid) BY <1>3, <1>5, <2>2 DEF Knows
  <2> QED BY <2>1, <2>2
<1>9. \A d : PaidOn(d)' = PaidOn(d) BY DEF PaidOn
<1> QED BY <1>1, <1>2, <1>3, <1>6, <1>7, <1>8, <1>9

\* A reply is counted and written down in the ledger and in the file.
LEMMA Stores ==
    ASSUME IInv, Store
    PROVE  IInv'
<1>1. /\ Kept /\ disk' = ledger' /\ saved' = saved \cup {k \in DOMAIN paid : paid[k].run = runs}
      /\ used' = used \cup {Len(paid)}
      /\ UNCHANGED <<today, runs, judge, paid>> /\ call = "answered" /\ call' = "idle"
  BY DEF Store, Kept
<1>2. judge # "none" BY <1>1 DEF IInv, Affordable
<1>3. \A k \in DOMAIN paid : (Lasting(k)' <=> Lasting(k)) /\ (Lasting(k) <=> k \in saved')
  BY <1>1, <1>2 DEF Lasting
<1>4. /\ IsLedger(ledger') /\ ledger'.day = ledger.day /\ ledger.day \in Nat
      /\ disk.day <= ledger.day /\ ledger.day <= today
      /\ \A d : PaidOn(d)' = PaidOn(d)
      /\ ledger'.spent = PaidOn(ledger.day)
      /\ \A k \in DOMAIN paid : Lasting(k) => paid[k].key \in DOMAIN ledger'.cache
      /\ OneDay
  BY <1>1, <1>3, Puts
<1>5. HistoryOK'
  <2>1. Len(paid) \in DOMAIN paid BY <1>1 DEF IInv, HistoryOK, Pending
  <2> QED BY <1>1, <2>1 DEF IInv, HistoryOK, Entry
<1>6. IsLedger(disk)' BY <1>1, <1>4 DEF IsLedger
<1>7. Dated'
  <2>1. \A k \in saved : paid[k].day \in Nat /\ paid[k].day <= disk.day
    BY DEF IInv, HistoryOK, Entry, Dated
  <2>2. \A k \in saved : paid[k].day <= ledger.day BY <1>4, <2>1 DEF IInv, IsLedger
  <2>3. \A k \in DOMAIN paid : paid[k].run = runs => paid[k].day <= ledger.day
    BY <1>4 DEF OneDay
  <2> QED BY <1>1, <1>4, <2>2, <2>3 DEF Dated
<1>8. FileKnows' BY <1>1, <1>3, <1>4, <1>5 DEF FileKnows, HistoryOK
<1>9. FileCounts'
  <2>1. LastingOn(ledger.day) = SavedOn(ledger.day)'
    <3>1. saved' \subseteq DOMAIN paid BY <1>1, <1>5 DEF HistoryOK
    <3> QED BY <1>1, <1>3, <1>4, <3>1 DEF LastingOn, SavedOn
  <2>2. PaidOn(ledger.day) = Cardinality(LastingOn(ledger.day)) BY DayIsCounted DEF IInv
  <2>3. SavedOn(disk.day)' = SavedOn(ledger.day)' BY <1>1, <1>4 DEF SavedOn
  <2> QED BY <1>1, <1>4, <2>1, <2>2, <2>3 DEF FileCounts
<1>10. RunCounts'
  <2>1. Counts' BY <1>1, <1>4 DEF Counts, IsLedger
  <2>2. Knows' BY <1>1, <1>3, <1>4 DEF Knows
  <2>3. OneDay' BY <1>1, <1>4 DEF OneDay
  <2> QED BY <1>1, <1>4, <2>1, <2>2, <2>3 DEF RunCounts, IsLedger
<1>11. Affordable' /\ Pending' BY <1>1 DEF Affordable, Pending
<1>12. Within' BY <1>4 DEF IInv, Within
<1> QED BY <1>5, <1>6, <1>7, <1>8, <1>9, <1>10, <1>11, <1>12 DEF IInv

\* A save that fails leaves the reply counted and known in memory.
LEMMA StaysUnsaved ==
    ASSUME IInv, SaveFails
    PROVE  IInv'
<1>1. /\ Kept /\ UNCHANGED <<disk, history, today, runs, judge>>
      /\ call = "answered" /\ call' = "idle"
  BY DEF SaveFails, Kept, history
<1>2. \A k \in DOMAIN paid : Lasting(k)' <=> Lasting(k) BY <1>1 DEF Lasting, history
<1>3. /\ IsLedger(ledger') /\ ledger'.day = ledger.day /\ ledger.day \in Nat
      /\ disk.day <= ledger.day /\ ledger.day <= today
      /\ \A d : PaidOn(d)' = PaidOn(d)
      /\ ledger'.spent = PaidOn(ledger.day)
      /\ \A k \in DOMAIN paid : Lasting(k) => paid[k].key \in DOMAIN ledger'.cache
      /\ OneDay
  BY <1>1, <1>2, Puts DEF history
<1>4. HistoryOK' /\ IsLedger(disk)' /\ Dated' /\ FileKnows' /\ FileCounts'
  BY <1>1, SameFile DEF IInv, HistoryOK
<1>5. RunCounts'
  <2>1. Counts' BY <1>1, <1>3 DEF Counts, IsLedger
  <2>2. Knows' BY <1>1, <1>2, <1>3 DEF Knows, history
  <2>3. OneDay' BY <1>1, <1>3 DEF OneDay, history
  <2> QED BY <1>1, <1>3, <2>1, <2>2, <2>3 DEF RunCounts, IsLedger
<1>6. Affordable' /\ Pending' BY <1>1 DEF Affordable, Pending
<1>7. Within' BY <1>3 DEF IInv, Within
<1> QED BY <1>4, <1>5, <1>6, <1>7 DEF IInv

LEMMA Preserved == IInv /\ [Next]_vars => IInv'
<1> SUFFICES ASSUME IInv, [Next]_vars PROVE IInv' OBVIOUS
<1>1. ASSUME NEW n, NEW k, NEW kind \in {"gemini", "replay"}, Start(n, k, kind)
      PROVE  IInv'
  BY <1>1, Begins
<1>2. CASE Replay \/ Miss \/ Exhausted \/ Refused \/ Broken
  BY <1>2, SameLedger DEF Replay, Miss, Exhausted, Refused, Broken, Fresh, Turn, idle
<1>3. CASE Send
  <2>1. judge # "none" /\ Remaining(ledger, Budget) > 0 /\ call = "idle" /\ call' = "waiting"
    BY <1>3 DEF Send, Fresh, Turn
  <2>2. ledger.spent \in Nat BY <2>1 DEF IInv, RunCounts, IsLedger
  <2>3. ledger.spent < Budget BY <2>1, <2>2, EvaluationAssumption DEF Remaining
  <2> QED BY <1>3, <2>1, <2>3, SameLedger DEF Send, idle
<1>4. CASE Answered BY <1>4, ComesIn
<1>5. CASE Store BY <1>5, Stores
<1>6. CASE SaveFails BY <1>6, StaysUnsaved
<1>7. CASE Report \/ Crash BY <1>7, SameLedger DEF Report, Crash, Ended, idle
<1>8. CASE Midnight
  <2>1. today' = today + 1 /\ today \in Nat BY <1>8 DEF Midnight, IInv, HistoryOK
  <2>2. today' \in Nat /\ today <= today' BY <2>1
  <2> QED BY <1>8, <2>2, OnlyTime DEF Midnight
<1>9. CASE UNCHANGED vars
  <2>1. today' = today /\ today \in Nat BY <1>9 DEF vars, IInv, HistoryOK
  <2>2. today' \in Nat /\ today <= today' BY <2>1
  <2> QED BY <1>9, <2>2, OnlyTime DEF vars
<1> QED BY <1>1, <1>2, <1>3, <1>4, <1>5, <1>6, <1>7, <1>8, <1>9 DEF Next, Step

LEMMA Invariant == Spec => []IInv
BY Initially, Preserved, PTL DEF Spec

-----------------------------------------------------------------------------
\* Whatever crashes, failed saves, refusals, repeated runs and days there are,
\* the file counts the replies of its day that ever reached it, and these with
\* the replies of the run under way never cost a day more than the budget.
THEOREM RepliesWithinBudget == Spec => []BudgetOfReplies
<1>1. IInv => BudgetOfReplies
  <2> SUFFICES ASSUME IInv PROVE BudgetOfReplies OBVIOUS
  <2>1. \A d \in 0 .. today : PaidOn(d) <= Budget BY DEF IInv, Within
  <2> QED BY <2>1 DEF BudgetOfReplies, IInv, FileCounts, SavedOn
<1> QED BY <1>1, Invariant, PTL

\* A reply that reached the file is found by every later run, and one that came
\* in is found by its own run: neither is asked for again nor missed.
THEOREM AskedOnce == Spec => KnownNeverResent
<1>1. IInv /\ [Next]_vars => [(Send \/ Miss) => ~Known]_vars
  <2> SUFFICES ASSUME IInv, Send \/ Miss, NEW k \in DOMAIN paid, Lasting(k),
                      paid[k].key[2] = PromptOf(Request)
               PROVE  FALSE
    BY DEF Known
  <2>1. judge # "none" /\ ~Cached(ledger, KeyOf(Request)) /\ call = "idle"
    BY DEF Send, Miss, Fresh, Turn
  <2>2. paid[k].key = KeyOf(Request) BY DEF IInv, HistoryOK, Entry, KeyOf, RequestKey
  <2>3. paid[k].key \in DOMAIN ledger.cache BY <2>1 DEF IInv, RunCounts, Knows
  <2> QED BY <2>1, <2>2, <2>3 DEF Cached
<1> QED BY <1>1, Invariant, PTL DEF Spec, KnownNeverResent
-----------------------------------------------------------------------------
(***************************************************************************)
(* Plans: however the requests are formed, they are lists of cells.        *)
(***************************************************************************)
FlattenIs(f, seqs) ==
    f = [i \in 1 .. Len(seqs) |-> IF i = 1 THEN seqs[i] ELSE f[i - 1] \o seqs[i]]

LEMMA FlattenInSeq ==
    ASSUME NEW S, NEW seqs \in Seq(Seq(S))
    PROVE  FlattenSeq(seqs) \in Seq(S)
<1> DEFINE N == Len(seqs)
           F == CHOOSE f : FlattenIs(f, seqs)
<1>1. CASE N = 0 BY <1>1 DEF FlattenSeq
<1>2. CASE N # 0
  <2> DEFINE step == [kv \in Nat \X Seq(S) |-> kv[2] \o seqs[kv[1] + 1]]
  <2>1. \A k \in 1 .. N - 1 : \A v \in Seq(S) : step[<<k, v>>] = v \o seqs[k + 1]
    <3> SUFFICES ASSUME NEW k \in 1 .. N - 1, NEW v \in Seq(S)
                 PROVE  step[<<k, v>>] = v \o seqs[k + 1]
      OBVIOUS
    <3>1. <<k, v>> \in Nat \X Seq(S) /\ <<k, v>>[1] = k /\ <<k, v>>[2] = v OBVIOUS
    <3> QED BY <3>1, Zenon
  <2>2. \A k \in 1 .. N - 1 : \A v \in Seq(S) : step[<<k, v>>] \in Seq(S)
    <3>1. \A k \in 1 .. N - 1 : seqs[k + 1] \in Seq(S) OBVIOUS
    <3>2. \A s, t \in Seq(S) : s \o t \in Seq(S) OBVIOUS
    <3> HIDE DEF step
    <3> QED BY <2>1, <3>1, <3>2
  <2>3. seqs[1] \in Seq(S) /\ N - 1 \in Nat BY <1>2
  <2> HIDE DEF step
  <2>4. PICK h : Recursive(h, N - 1, Seq(S), seqs[1], step)
    BY <2>2, <2>3, RecursionExists
  <2>5. FlattenIs([i \in 1 .. N |-> h[i - 1]], seqs)
    <3> DEFINE g == [i \in 1 .. N |-> h[i - 1]]
    <3>1. ASSUME NEW i \in 1 .. N PROVE g[i] = IF i = 1 THEN seqs[i] ELSE g[i - 1] \o seqs[i]
      <4>1. CASE i = 1 BY <2>4, <4>1 DEF Recursive
      <4>2. CASE i # 1
        <5>1. i - 1 \in 1 .. N - 1 /\ i - 1 \in 1 .. N BY <4>2
        <5>2. h[i - 1] = step[<<i - 1, h[(i - 1) - 1]>>] BY <2>4, <5>1 DEF Recursive
        <5>3. h[(i - 1) - 1] \in Seq(S) BY <2>4, <5>1 DEF Recursive
        <5>4. h[i - 1] = h[(i - 1) - 1] \o seqs[(i - 1) + 1] BY <2>1, <5>1, <5>2, <5>3
        <5>5. (i - 1) + 1 = i OBVIOUS
        <5>6. g[i] = h[i - 1] /\ g[i - 1] = h[(i - 1) - 1] BY <5>1
        <5> HIDE DEF g
        <5> QED BY <4>2, <5>4, <5>5, <5>6
      <4> QED BY <4>1, <4>2
    <3>2. g = [i \in 1 .. N |-> g[i]] OBVIOUS
    <3> HIDE DEF g
    <3>3. FlattenIs(g, seqs) BY <3>1, <3>2 DEF FlattenIs
    <3> QED BY <3>3 DEF g
  <2>6. FlattenIs(F, seqs) BY <2>5
  <2>7. FlattenSeq(seqs) = F[N] BY <1>2 DEF FlattenSeq, FlattenIs
  <2> HIDE DEF F
  <2> DEFINE A == {k \in Nat : k + 1 <= N => F[k + 1] \in Seq(S)}
  <2>8. 0 \in A BY <1>2, <2>3, <2>6 DEF FlattenIs
  <2>9. ASSUME NEW k \in Nat, k \in A PROVE k + 1 \in A
    <3> SUFFICES ASSUME (k + 1) + 1 <= N PROVE F[(k + 1) + 1] \in Seq(S) OBVIOUS
    <3>1. (k + 1) + 1 \in 1 .. N /\ (k + 1) + 1 # 1 /\ ((k + 1) + 1) - 1 = k + 1 OBVIOUS
    <3>2. F[(k + 1) + 1] = F[k + 1] \o seqs[(k + 1) + 1] BY <2>6, <3>1 DEF FlattenIs
    <3>3. F[k + 1] \in Seq(S) /\ seqs[(k + 1) + 1] \in Seq(S) BY <2>9, <3>1
    <3> QED BY <3>2, <3>3
  <2>10. Nat \subseteq A
    <3> HIDE DEF A
    <3> QED BY <2>8, <2>9, NatInductionOnSet
  <2>11. N - 1 \in A BY <2>3, <2>10
  <2> QED BY <1>2, <2>7, <2>11
<1> QED BY <1>1, <1>2

LEMMA MaxOfNats ==
    ASSUME NEW S, IsFiniteSet(S), S # {}, S \subseteq Nat
    PROVE  Max(S) \in S
<1> DEFINE R == {p \in S \X S : p[1] >= p[2]}
<1>1. \A x, y \in S : <<x, y>> \in R <=> x >= y OBVIOUS
<1> HIDE DEF R
<1>2. \A x, y \in S : x # y => <<x, y>> \in R \/ <<y, x>> \in R BY <1>1
<1>3. \A x, y, z \in S : <<x, y>> \in R /\ <<y, z>> \in R => <<x, z>> \in R BY <1>1
<1>4. \E m \in S : \A x \in S \ {m} : <<m, x>> \in R
  BY ONLY IsFiniteSet(S), S # {}, <1>2, <1>3, FirstExists
<1>5. PICK m \in S : \A x \in S \ {m} : <<m, x>> \in R BY <1>4
<1>6. \A x \in S : m >= x
  <2> SUFFICES ASSUME NEW x \in S PROVE m >= x OBVIOUS
  <2>1. CASE x = m BY <2>1
  <2>2. CASE x # m
    <3>1. <<m, x>> \in R BY <1>5, <2>2
    <3> QED BY <1>1, <3>1
  <2> QED BY <2>1, <2>2
<1> QED BY <1>6 DEF Max

\* The j-th seat of the round-robin, and the instance that sits there.
PoolAt(j) == Pools[((j - 1) % Len(Pools)) + 1]
RoundOf(j) == ((j - 1) \div Len(Pools)) + 1
SeatTaken(s, j, n) ==
    IF Len(s) < n /\ RoundOf(j) <= Len(PoolAt(j)) THEN Append(s, PoolAt(j)[RoundOf(j)]) ELSE s
Seats == Max({Len(Pools[s]) : s \in DOMAIN Pools}) * Len(Pools)
Seated == {PoolAt(j)[RoundOf(j)] : j \in 1 .. Seats}
ChosenIs(f, n) == f = [j \in 0 .. Seats |-> IF j = 0 THEN <<>> ELSE SeatTaken(f[j - 1], j, n)]

LEMMA SeatsAreMany == Seats \in Nat
<1> DEFINE D == DOMAIN Pools
           S == {Len(Pools[s]) : s \in D}
           len == [s \in D |-> Len(Pools[s])]
<1>1. Len(Pools) \in Nat /\ Len(Pools) # 0 /\ D = 1 .. Len(Pools) BY EvaluationAssumption
<1>2. \A s \in D : Len(Pools[s]) \in Nat
  <2> SUFFICES ASSUME NEW s \in D PROVE Len(Pools[s]) \in Nat OBVIOUS
  <2>1. Pools[s] \in Seq(Range(Pools[s])) BY EvaluationAssumption
  <2> QED BY <2>1
<1>3. IsFiniteSet(S)
  <2>1. IsFiniteSet(D) BY <1>1, FS_Interval
  <2>2. IsFiniteSet({len[s] : s \in D}) BY <2>1, ImageIsFinite
  <2>3. {len[s] : s \in D} = S OBVIOUS
  <2> QED BY <2>2, <2>3
<1>4. S # {} /\ S \subseteq Nat
  <2>1. 1 \in D BY <1>1
  <2>2. Len(Pools[1]) \in S BY <2>1
  <2> QED BY <1>2, <2>2
<1> HIDE DEF S
<1>5. Max(S) \in Nat BY <1>3, <1>4, MaxOfNats
<1>6. Seats = Max(S) * Len(Pools) BY DEF Seats, S
<1> QED BY <1>1, <1>5, <1>6

LEMMA ChosenIsSeq == \A n : Chosen(n) \in Seq(Seated)
<1> SUFFICES ASSUME NEW n PROVE Chosen(n) \in Seq(Seated) OBVIOUS
<1> DEFINE V == Seq(Seated)
           step == [kv \in Nat \X V |-> SeatTaken(kv[2], kv[1], n)]
           F == CHOOSE f : ChosenIs(f, n)
<1>1. \A k \in Nat : \A v \in V : step[<<k, v>>] = SeatTaken(v, k, n)
  <2> SUFFICES ASSUME NEW k \in Nat, NEW v \in V PROVE step[<<k, v>>] = SeatTaken(v, k, n)
    OBVIOUS
  <2>1. <<k, v>> \in Nat \X V /\ <<k, v>>[1] = k /\ <<k, v>>[2] = v OBVIOUS
  <2> QED BY <2>1, Zenon
<1>2. Seats \in Nat BY SeatsAreMany
<1>3. \A k \in 1 .. Seats : \A v \in V : SeatTaken(v, k, n) \in V
  BY DEF SeatTaken, Seated
<1>4. <<>> \in V OBVIOUS
<1> HIDE DEF step, V
<1>5. \A k \in 1 .. Seats : \A v \in V : step[<<k, v>>] \in V
  <2> SUFFICES ASSUME NEW k \in 1 .. Seats, NEW v \in V PROVE step[<<k, v>>] \in V OBVIOUS
  <2>1. k \in Nat BY <1>2
  <2>2. step[<<k, v>>] = SeatTaken(v, k, n) BY <1>1, <2>1
  <2> QED BY <1>3, <2>2
<1>6. PICK h : Recursive(h, Seats, V, <<>>, step) BY <1>2, <1>4, <1>5, RecursionExists
<1>7. ChosenIs(h, n)
  <2>1. \A k \in 1 .. Seats : h[k] = SeatTaken(h[k - 1], k, n)
    <3> SUFFICES ASSUME NEW k \in 1 .. Seats PROVE h[k] = SeatTaken(h[k - 1], k, n) OBVIOUS
    <3>1. k \in Nat /\ k - 1 \in 0 .. Seats BY <1>2
    <3>2. h[k] = step[<<k, h[k - 1]>>] /\ h[k - 1] \in V BY <1>6, <3>1 DEF Recursive
    <3> QED BY <1>1, <3>1, <3>2
  <2> QED BY <1>2, <1>6, <2>1 DEF Recursive, ChosenIs
<1>8. ChosenIs(F, n) BY <1>7
<1>9. Chosen(n) = F[Seats] BY DEF Chosen, ChosenIs, SeatTaken, PoolAt, RoundOf, Seats
<1> HIDE DEF F
<1>10. F = [k \in 0 .. Seats |-> F[k]] /\ F[0] = <<>> BY <1>2, <1>8 DEF ChosenIs
<1> DEFINE A == {k \in Nat : k <= Seats => F[k] \in V}
<1>11. 0 \in A BY <1>4, <1>10
<1>12. ASSUME NEW k \in Nat, k \in A PROVE k + 1 \in A
  <2> SUFFICES ASSUME k + 1 <= Seats PROVE F[k + 1] \in V OBVIOUS
  <2>1. k + 1 \in 1 .. Seats /\ k + 1 \in 0 .. Seats /\ (k + 1) - 1 = k BY <1>2
  <2>2. F[k + 1] = SeatTaken(F[k], k + 1, n)
    <3>1. \A j \in 0 .. Seats : F[j] = IF j = 0 THEN <<>> ELSE SeatTaken(F[j - 1], j, n)
      BY <1>8, Zenon DEF ChosenIs
    <3>2. k + 1 # 0 OBVIOUS
    <3>3. F[k + 1] = SeatTaken(F[(k + 1) - 1], k + 1, n) BY <2>1, <3>1, <3>2
    <3> QED BY <2>1, <3>3
  <2>3. F[k] \in V BY <1>2, <1>12
  <2> QED BY <1>3, <2>1, <2>2, <2>3
<1>13. Nat \subseteq A
  <2> HIDE DEF A
  <2> QED BY <1>11, <1>12, NatInductionOnSet
<1>14. F[Seats] \in V BY <1>2, <1>13
<1> QED BY <1>9, <1>14 DEF V

\* A plan for the given --pack: lists of cells, single ones without packing.
Cells == [iid : Seated, cond : Range(Conditions)]
PlanOK(p, packed) == p \in Seq(Seq(Cells)) /\ (~packed => \A i \in DOMAIN p : Len(p[i]) = 1)

LEMMA ChunksAreLists ==
    ASSUME NEW S, NEW s \in Seq(S), NEW k \in Nat, k > 0
    PROVE  Chunks(s, k) \in Seq(Seq(S))
<1> DEFINE many == (Len(s) + k - 1) \div k
           part(i) == SubSeq(s, (i - 1) * k + 1, Min({i * k, Len(s)}))
<1>1. many \in Int /\ many >= 0
  <2>1. Len(s) + k - 1 \in Nat OBVIOUS
  <2> QED BY <2>1
<1>2. ASSUME NEW i \in 1 .. many PROVE part(i) \in Seq(S)
  <2> DEFINE lo == (i - 1) * k + 1
             hi == Min({i * k, Len(s)})
  <2>1. lo \in Int /\ lo >= 1
    <3>1. i - 1 \in Nat BY <1>1
    <3>2. (i - 1) * k \in Nat BY <3>1
    <3> QED BY <3>2
  <2>2. hi \in Int /\ hi <= Len(s)
    <3>1. i * k \in Int /\ Len(s) \in Int BY <1>1
    <3>2. ASSUME NEW a \in Int, NEW b \in Int PROVE Min({a, b}) \in Int /\ Min({a, b}) <= b
      <4>1. \E x \in {a, b} : \A y \in {a, b} : x =< y
        <5>1. CASE a <= b BY <5>1
        <5>2. CASE ~ (a <= b) BY <5>2
        <5> QED BY <5>1, <5>2
      <4>2. Min({a, b}) \in {a, b} /\ \A y \in {a, b} : Min({a, b}) =< y
        BY <4>1 DEF Min
      <4> QED BY <4>2
    <3> QED BY <3>1, <3>2
  <2> HIDE DEF lo, hi
  <2>3. \A j \in lo .. hi : s[j] \in S BY <2>1, <2>2
  <2>4. SubSeq(s, lo, hi) \in Seq(S) BY <2>1, <2>2, <2>3, SubSeqProperties
  <2> QED BY <2>4 DEF lo, hi
<1>3. Chunks(s, k) = [i \in 1 .. many |-> part(i)] BY DEF Chunks
<1> HIDE DEF many, part
<1> QED BY <1>1, <1>2, <1>3

LEMMA PlanIsMade ==
    ASSUME NEW n, NEW k \in Nat
    PROVE  PlanOK(Requests(n, k), k > 1)
<1> DEFINE insts == Chosen(n)
           Column(c) == [i \in DOMAIN insts |-> [iid |-> insts[i], cond |-> c]]
           row(i) == [j \in DOMAIN Conditions |-> <<[iid |-> insts[i], cond |-> Conditions[j]]>>]
<1>1. insts \in Seq(Seated) BY ChosenIsSeq
<1>2. /\ DOMAIN Conditions = 1 .. 3
      /\ \A j \in 1 .. 3 : Conditions[j] \in Range(Conditions)
  BY DEF Conditions, Range
<1>3. CASE k > 1
  <2> DEFINE seqs == [j \in DOMAIN Conditions |-> Chunks(Column(Conditions[j]), k)]
  <2>1. \A j \in 1 .. 3 : Column(Conditions[j]) \in Seq(Cells)
    <3> SUFFICES ASSUME NEW j \in 1 .. 3 PROVE Column(Conditions[j]) \in Seq(Cells) OBVIOUS
    <3>1. PICK c \in Range(Conditions) : c = Conditions[j] BY <1>2
    <3>2. DOMAIN insts = 1 .. Len(insts) /\ Len(insts) \in Nat
          /\ \A i \in 1 .. Len(insts) : insts[i] \in Seated
      BY <1>1
    <3> HIDE DEF insts
    <3>3. Column(c) \in Seq(Cells) BY <3>1, <3>2 DEF Cells
    <3> QED BY <3>1, <3>3
  <2> HIDE DEF Column
  <2>2. \A j \in 1 .. 3 : Chunks(Column(Conditions[j]), k) \in Seq(Seq(Cells))
    <3> SUFFICES ASSUME NEW j \in 1 .. 3
                 PROVE  Chunks(Column(Conditions[j]), k) \in Seq(Seq(Cells))
      OBVIOUS
    <3>1. PICK s \in Seq(Cells) : s = Column(Conditions[j]) BY <2>1
    <3>2. Chunks(s, k) \in Seq(Seq(Cells)) BY <1>1, <1>3, ChunksAreLists
    <3> QED BY <3>1, <3>2
  <2>3. seqs \in Seq(Seq(Seq(Cells))) BY <1>2, <2>2
  <2>4. FlattenSeq(seqs) \in Seq(Seq(Cells)) 
    <3> HIDE DEF seqs
    <3> QED BY <2>3, FlattenInSeq
  <2>5. Requests(n, k) = FlattenSeq(seqs) BY <1>3 DEF Requests, Column
  <2> QED BY <1>3, <2>4, <2>5 DEF PlanOK
<1>4. CASE ~ (k > 1)
  <2> DEFINE One == {<<c>> : c \in Cells}
             rows == [i \in DOMAIN insts |-> row(i)]
  <2>1. \A i \in DOMAIN insts : row(i) \in Seq(One)
    <3> SUFFICES ASSUME NEW i \in DOMAIN insts PROVE row(i) \in Seq(One) OBVIOUS
    <3>1. insts[i] \in Seated BY <1>1
    <3>2. PICK x \in Seated : x = insts[i] BY <3>1
    <3>3. \A j \in 1 .. 3 : [iid |-> x, cond |-> Conditions[j]] \in Cells BY <1>2 DEF Cells
    <3>4. \A j \in 1 .. 3 : <<[iid |-> x, cond |-> Conditions[j]]>> \in One BY <3>3
    <3> HIDE DEF One
    <3>5. [j \in 1 .. 3 |-> <<[iid |-> x, cond |-> Conditions[j]]>>] \in Seq(One) BY <3>4
    <3> QED BY <1>2, <3>2, <3>5
  <2>2. rows \in Seq(Seq(One)) BY <1>1, <2>1
  <2> HIDE DEF One, rows
  <2>3. FlattenSeq(rows) \in Seq(One) BY <2>2, FlattenInSeq
  <2>4. Requests(n, k) = FlattenSeq(rows) BY <1>4 DEF Requests, rows
  <2>5. One \subseteq Seq(Cells) /\ \A r \in One : Len(r) = 1
    <3> SUFFICES ASSUME NEW c \in Cells PROVE <<c>> \in Seq(Cells) /\ Len(<<c>>) = 1
      BY DEF One
    <3> QED OBVIOUS
  <2> QED BY <1>4, <2>3, <2>4, <2>5 DEF PlanOK
<1> QED BY <1>3, <1>4

-----------------------------------------------------------------------------
(***************************************************************************)
(* Reading a pack: an answer is made of lines under its own number.        *)
(***************************************************************************)
Blank(n) == [current |-> 0, out |-> [i \in 1 .. n |-> <<>>]]
Reading(reply, n) == [current : 0 .. n, out : [1 .. n -> Seq(Range(reply))]]
ParseIs(f, reply, n) ==
    f = [j \in 0 .. Len(reply) |->
            IF j = 0 THEN Blank(n) ELSE ReadLine(f[j - 1], reply[j], n)]

\* Line k stands under the number i, and under its last one as far as line j.
Opened(reply, k, i) ==
    \E h \in 1 .. k : reply[h].num = i /\ \A m \in (h + 1) .. k : reply[m].num = 0
UnderTill(reply, k, i, j) == Opened(reply, k, i) /\ \A m \in (k + 1) .. j : reply[m].num # i

\* What has been read after j lines.
Sorted(st, reply, j, n) ==
    /\ st \in Reading(reply, n)
    /\ st.current # 0 => Opened(reply, j, st.current)
    /\ \A i \in 1 .. n : \A x \in Range(st.out[i]) :
            \E k \in 1 .. j : reply[k] = x /\ UnderTill(reply, k, i, j)

LEMMA SaidIsLine ==
    ASSUME NEW S, NEW line \in S
    PROVE  Said(line) \in Seq(S) /\ \A x \in Range(Said(line)) : x = line
<1>1. <<line>> \in Seq(S) /\ <<>> \in Seq(S) /\ DOMAIN <<line>> = {1} /\ <<line>>[1] = line
      /\ DOMAIN <<>> = {}
  OBVIOUS
<1>2. Said(line) = <<>> \/ Said(line) = <<line>> BY DEF Said
<1>3. \A x \in Range(<<line>>) : x = line BY <1>1 DEF Range
<1>4. \A x \in Range(<<>>) : x = line BY <1>1 DEF Range
<1>5. CASE Said(line) = <<>> BY <1>1, <1>4, <1>5
<1>6. CASE Said(line) = <<line>> BY <1>1, <1>3, <1>6
<1> QED BY <1>2, <1>5, <1>6

\* What is said in one of two lists is said in their concatenation, and no more.
LEMMA RangeOfConcat ==
    ASSUME NEW S, NEW s \in Seq(S), NEW t \in Seq(S)
    PROVE  s \o t \in Seq(S) /\ Range(s \o t) = Range(s) \cup Range(t)
<1>1. /\ s \o t \in Seq(S) /\ Len(s \o t) = Len(s) + Len(t)
      /\ DOMAIN (s \o t) = 1 .. Len(s) + Len(t)
      /\ DOMAIN s = 1 .. Len(s) /\ DOMAIN t = 1 .. Len(t) /\ Len(s) \in Nat /\ Len(t) \in Nat
  OBVIOUS
<1>2. \A i \in 1 .. Len(s) + Len(t) :
         (s \o t)[i] = IF i <= Len(s) THEN s[i] ELSE t[i - Len(s)]
  OBVIOUS
<1>3. ASSUME NEW x \in Range(s \o t) PROVE x \in Range(s) \cup Range(t)
  <2>1. PICK i \in 1 .. Len(s) + Len(t) : x = (s \o t)[i] BY <1>1, <1>3 DEF Range
  <2>2. CASE i <= Len(s) BY <1>1, <1>2, <2>1, <2>2 DEF Range
  <2>3. CASE ~ (i <= Len(s))
    <3>1. i - Len(s) \in 1 .. Len(t) BY <1>1, <2>3
    <3>2. x = t[i - Len(s)] BY <1>2, <2>1, <2>3
    <3> QED BY <1>1, <3>1, <3>2 DEF Range
  <2> QED BY <2>2, <2>3
<1>4. ASSUME NEW x \in Range(s) PROVE x \in Range(s \o t)
  <2>1. PICK i \in 1 .. Len(s) : x = s[i] BY <1>1, <1>4 DEF Range
  <2>2. i \in 1 .. Len(s) + Len(t) /\ (s \o t)[i] = x BY <1>1, <1>2, <2>1
  <2> QED BY <1>1, <2>2 DEF Range
<1>5. ASSUME NEW x \in Range(t) PROVE x \in Range(s \o t)
  <2>1. PICK i \in 1 .. Len(t) : x = t[i] BY <1>1, <1>5 DEF Range
  <2>2. Len(s) + i \in 1 .. Len(s) + Len(t) /\ ~ (Len(s) + i <= Len(s))
        /\ (Len(s) + i) - Len(s) = i
    BY <1>1
  <2>3. (s \o t)[Len(s) + i] = x BY <1>2, <2>1, <2>2
  <2> QED BY <1>1, <2>2, <2>3 DEF Range
<1> QED BY <1>1, <1>3, <1>4, <1>5

LEMMA ReadLineSorts ==
    ASSUME NEW S, NEW reply \in Seq(S), NEW n \in Nat, NEW j \in 1 .. Len(reply),
           NEW st, Sorted(st, reply, j - 1, n)
    PROVE  Sorted(ReadLine(st, reply[j], n), reply, j, n)
<1> DEFINE line == reply[j]
           next == ReadLine(st, line, n)
           L == Range(reply)
<1>1. line \in L /\ Len(reply) \in Nat BY DEF Range
<1>2. Said(line) \in Seq(L) /\ \A x \in Range(Said(line)) : x = line
  BY <1>1, SaidIsLine
<1>3. /\ st \in [current : 0 .. n, out : [1 .. n -> Seq(L)]]
      /\ st.current # 0 => Opened(reply, j - 1, st.current)
      /\ \A i \in 1 .. n : \A x \in Range(st.out[i]) :
            \E k \in 1 .. j - 1 : reply[k] = x /\ UnderTill(reply, k, i, j - 1)
  BY DEF Sorted, Reading
<1>4. \A i \in 1 .. n : line.num # i => \A x \in Range(st.out[i]) :
            \E k \in 1 .. j : reply[k] = x /\ UnderTill(reply, k, i, j)
  <2> SUFFICES ASSUME NEW i \in 1 .. n, line.num # i, NEW x \in Range(st.out[i])
               PROVE  \E k \in 1 .. j : reply[k] = x /\ UnderTill(reply, k, i, j)
    OBVIOUS
  <2>1. PICK k \in 1 .. j - 1 : reply[k] = x /\ UnderTill(reply, k, i, j - 1) BY <1>3
  <2>2. k \in 1 .. j BY <1>1
  <2>3. \A m \in (k + 1) .. j : m = j \/ m \in (k + 1) .. j - 1 BY <1>1
  <2>4. UnderTill(reply, k, i, j) BY <2>1, <2>3 DEF UnderTill
  <2> QED BY <2>1, <2>2, <2>4
<1>9. j \in 1 .. j /\ \A i : Opened(reply, j, i) => UnderTill(reply, j, i, j)
  BY <1>1 DEF UnderTill
<1>5. CASE line.num \in 1 .. n
  <2>1. next = [current |-> line.num, out |-> [st.out EXCEPT ![line.num] = Said(line)]]
    BY <1>5 DEF ReadLine
  <2>2. Opened(reply, j, line.num) BY DEF Opened
  <2>3. next \in Reading(reply, n) BY <1>2, <1>3, <1>5, <2>1 DEF Reading
  <2>4. ASSUME NEW i \in 1 .. n, NEW x \in Range(next.out[i])
        PROVE  \E k \in 1 .. j : reply[k] = x /\ UnderTill(reply, k, i, j)
    <3>1. CASE i = line.num
      <4>1. next.out[i] = Said(line) BY <1>3, <2>1, <3>1
      <4>2. x = line BY <1>2, <2>4, <4>1
      <4> QED BY <1>9, <2>2, <3>1, <4>2
    <3>2. CASE i # line.num
      <4>1. next.out[i] = st.out[i] BY <1>3, <2>1, <3>2
      <4> QED BY <1>4, <2>4, <3>2, <4>1
    <3> QED BY <3>1, <3>2
  <2>5. next.current = line.num BY <2>1
  <2> HIDE DEF next, line
  <2>6. Sorted(next, reply, j, n) BY <2>2, <2>3, <2>4, <2>5 DEF Sorted
  <2> QED BY <2>6 DEF next, line
<1>6. CASE line.num \notin 1 .. n /\ line.num # 0
  <2>1. next = [st EXCEPT !.current = 0] BY <1>6 DEF ReadLine
  <2>2. next \in Reading(reply, n) /\ next.current = 0 /\ next.out = st.out
    BY <1>3, <2>1 DEF Reading
  <2>4. \A i \in 1 .. n : line.num # i BY <1>6
  <2> HIDE DEF next, line
  <2>3. Sorted(next, reply, j, n) BY <1>4, <2>2, <2>4 DEF Sorted
  <2> QED BY <2>3 DEF next, line
<1>7. CASE line.num = 0 /\ st.current = 0
  <2>1. next = st BY <1>7 DEF ReadLine
  <2>3. \A i \in 1 .. n : line.num # i BY <1>7
  <2> HIDE DEF next, line
  <2>2. Sorted(next, reply, j, n) BY <1>3, <1>4, <1>7, <2>1, <2>3 DEF Sorted, Reading
  <2> QED BY <2>2 DEF next, line
<1>8. CASE line.num = 0 /\ st.current # 0
  <2> DEFINE c == st.current
  <2>1. next = [st EXCEPT !.out[c] = @ \o Said(line)] BY <1>8 DEF ReadLine
  <2>2. c \in 1 .. n BY <1>3, <1>8
  <2>3. Opened(reply, j, c)
    <3>1. PICK h \in 1 .. j - 1 : reply[h].num = c /\ \A m \in (h + 1) .. j - 1 : reply[m].num = 0
      BY <1>3, <1>8 DEF Opened
    <3>2. \A m \in (h + 1) .. j : reply[m].num = 0 BY <1>8, <3>1
    <3> QED BY <3>1, <3>2 DEF Opened
  <2>4. st.out[c] \in Seq(L) BY <1>3, <2>2
  <2>5. /\ st.out[c] \o Said(line) \in Seq(L)
        /\ \A x \in Range(st.out[c] \o Said(line)) : x \in Range(st.out[c]) \/ x \in Range(Said(line))
    BY <1>2, <2>4, RangeOfConcat
  <2>6. /\ next \in Reading(reply, n) /\ next.current = c
        /\ next.out[c] = st.out[c] \o Said(line)
        /\ \A i \in 1 .. n : i # c => next.out[i] = st.out[i]
    <3>1. PICK o \in [1 .. n -> Seq(L)] : o = st.out BY <1>3
    <3>2. PICK a \in Seq(L) : a = o[c] \o Said(line) BY <2>5, <3>1
    <3>3. st = [current |-> c, out |-> o] /\ c \in 0 .. n BY <1>3, <3>1
    <3>4. next = [current |-> c, out |-> [o EXCEPT ![c] = a]]
      <4>1. PICK d : d = c OBVIOUS
      <4>2. next = [st EXCEPT !.out[d] = @ \o Said(line)] BY <2>1, <4>1
      <4>3. st = [current |-> d, out |-> o] /\ a = o[d] \o Said(line) BY <3>2, <3>3, <4>1
      <4> HIDE DEF next, c
      <4>4. next = [current |-> d, out |-> [o EXCEPT ![d] = a]] BY <4>2, <4>3
      <4> QED BY <4>1, <4>4
    <3>5. [o EXCEPT ![c] = a] \in [1 .. n -> Seq(L)] BY <3>1, <3>2
    <3> HIDE DEF c, L, next
    <3> QED BY <2>2, <3>1, <3>2, <3>3, <3>4, <3>5 DEF Reading, L
  <2>7. ASSUME NEW i \in 1 .. n, NEW x \in Range(next.out[i])
        PROVE  \E k \in 1 .. j : reply[k] = x /\ UnderTill(reply, k, i, j)
    <3>1. CASE i # c \/ x \in Range(st.out[c])
      <4>1. x \in Range(st.out[i]) BY <2>6, <2>7, <3>1
      <4>2. line.num # i BY <1>8
      <4> QED BY <1>4, <4>1, <4>2
    <3>2. CASE i = c /\ x \notin Range(st.out[c])
      <4>1. x = line BY <1>2, <2>5, <2>6, <2>7, <3>2
      <4> QED BY <1>9, <2>3, <3>2, <4>1
    <3> QED BY <3>1, <3>2
  <2> HIDE DEF next, line
  <2>8. Sorted(next, reply, j, n) BY <2>3, <2>6, <2>7 DEF Sorted
  <2> QED BY <2>8 DEF next, line
<1> QED BY <1>5, <1>6, <1>7, <1>8

LEMMA ReadingGoesOn ==
    ASSUME NEW S, NEW reply \in Seq(S), NEW n \in Nat, NEW j \in 1 .. Len(reply),
           NEW st \in Reading(reply, n)
    PROVE  ReadLine(st, reply[j], n) \in Reading(reply, n)
<1> DEFINE line == reply[j]
           L == Range(reply)
<1>1. line \in L BY DEF Range
<1>2. Said(line) \in Seq(L) BY <1>1, SaidIsLine
<1>3. \A s \in Seq(L) : s \o Said(line) \in Seq(L) BY <1>2
<1> SUFFICES ReadLine(st, line, n) \in Reading(reply, n) OBVIOUS
<1> HIDE DEF line, L
<1>4. PICK o \in [1 .. n -> Seq(L)], c \in 0 .. n : st = [current |-> c, out |-> o]
  BY DEF Reading, L
<1>5. st.current = c /\ st.out = o BY <1>4
<1>6. \A d \in 0 .. n, q \in [1 .. n -> Seq(L)] : [current |-> d, out |-> q] \in Reading(reply, n)
  BY DEF Reading, L
<1>7. PICK a : a = Said(line) BY <1>2
<1>8. CASE line.num \in 1 .. n
  <2>1. ReadLine(st, line, n) = [current |-> line.num, out |-> [o EXCEPT ![line.num] = a]]
    BY <1>5, <1>7, <1>8 DEF ReadLine
  <2>2. [o EXCEPT ![line.num] = a] \in [1 .. n -> Seq(L)] BY <1>2, <1>4, <1>7
  <2>3. line.num \in 0 .. n BY <1>8
  <2> QED BY <1>6, <2>1, <2>2, <2>3
<1>9. CASE line.num \notin 1 .. n /\ line.num # 0
  <2>1. ReadLine(st, line, n) = [current |-> 0, out |-> o] BY <1>4, <1>9 DEF ReadLine
  <2>2. 0 \in 0 .. n OBVIOUS
  <2> QED BY <1>4, <1>6, <2>1, <2>2
<1>10. CASE line.num \notin 1 .. n /\ line.num = 0 /\ c = 0
  <2>1. ReadLine(st, line, n) = st BY <1>5, <1>10 DEF ReadLine
  <2> QED BY <2>1
<1>11. CASE line.num \notin 1 .. n /\ line.num = 0 /\ c # 0
  <2>1. c \in 1 .. n BY <1>4, <1>11
  <2>2. PICK b \in Seq(L) : b = o[c] \o Said(line) BY <1>3, <1>4, <2>1
  <2>3. ReadLine(st, line, n) = [current |-> c, out |-> [o EXCEPT ![c] = b]]
    <3>1. ReadLine(st, line, n) = [st EXCEPT !.out[c] = @ \o Said(line)]
      BY <1>5, <1>11 DEF ReadLine
    <3> QED BY <1>4, <2>2, <3>1
  <2>4. [o EXCEPT ![c] = b] \in [1 .. n -> Seq(L)] BY <1>4, <2>2
  <2> QED BY <1>4, <1>6, <2>3, <2>4
<1> QED BY <1>4, <1>8, <1>9, <1>10, <1>11

\* Every line of an answer is a line of the reply under the last number of the item.
LEMMA AnswersAreUnderNumber ==
    ASSUME NEW S, NEW reply \in Seq(S), NEW n \in Nat, NEW i \in 1 .. n,
           NEW x \in Range(ParsePacked(reply, n)[i])
    PROVE  \E k \in DOMAIN reply : reply[k] = x /\ Under(reply, k, i)
<1> DEFINE N == Len(reply)
           V == Reading(reply, n)
           step == [kv \in (1 .. N) \X V |-> ReadLine(kv[2], reply[kv[1]], n)]
           F == CHOOSE f : ParseIs(f, reply, n)
<1>1. N \in Nat /\ DOMAIN reply = 1 .. N OBVIOUS
<1>2. \A k \in 1 .. N : \A v \in V : step[<<k, v>>] = ReadLine(v, reply[k], n)
  <2> SUFFICES ASSUME NEW k \in 1 .. N, NEW v \in V
               PROVE  step[<<k, v>>] = ReadLine(v, reply[k], n)
    OBVIOUS
  <2>1. <<k, v>> \in (1 .. N) \X V /\ <<k, v>>[1] = k /\ <<k, v>>[2] = v OBVIOUS
  <2> QED BY <2>1, Zenon
<1>3. Blank(n) \in V
  <2>1. [i0 \in 1 .. n |-> <<>>] \in [1 .. n -> Seq(Range(reply))] OBVIOUS
  <2> QED BY <2>1 DEF Blank, Reading
<1>4. \A k \in 1 .. N : \A v \in V : ReadLine(v, reply[k], n) \in V BY ReadingGoesOn
<1> HIDE DEF step, V, N
<1>5. \A k \in 1 .. N : \A v \in V : step[<<k, v>>] \in V BY <1>2, <1>4
<1>6. PICK h : Recursive(h, N, V, Blank(n), step) BY <1>1, <1>3, <1>5, RecursionExists
<1>7. ParseIs(h, reply, n)
  <2>1. \A k \in 1 .. N : h[k] = ReadLine(h[k - 1], reply[k], n)
    <3> SUFFICES ASSUME NEW k \in 1 .. N PROVE h[k] = ReadLine(h[k - 1], reply[k], n) OBVIOUS
    <3>1. k - 1 \in 0 .. N BY <1>1
    <3>2. h[k] = step[<<k, h[k - 1]>>] /\ h[k - 1] \in V BY <1>6, <3>1 DEF Recursive
    <3> QED BY <1>2, <3>2
  <2> QED BY <1>1, <1>6, <2>1 DEF Recursive, ParseIs, N
<1>8. ParseIs(F, reply, n) BY <1>7
<1>9. ParsePacked(reply, n) = F[N].out BY DEF ParsePacked, ParseIs, Blank, N
<1> HIDE DEF F
<1>10. \A k \in 0 .. N : F[k] = IF k = 0 THEN Blank(n) ELSE ReadLine(F[k - 1], reply[k], n)
  BY <1>8, Zenon DEF ParseIs, N
<1> DEFINE A == {k \in Nat : k <= N => Sorted(F[k], reply, k, n)}
<1>11. 0 \in A
  <2>1. F[0] = Blank(n) BY <1>1, <1>10
  <2>2. \A i0 \in 1 .. n : Range(Blank(n).out[i0]) = {} BY DEF Blank, Range
  <2>3. Blank(n).current = 0 BY DEF Blank
  <2>4. Sorted(Blank(n), reply, 0, n) BY <1>3, <2>2, <2>3 DEF Sorted, V
  <2> QED BY <2>1, <2>4
<1>12. ASSUME NEW k \in Nat, k \in A PROVE k + 1 \in A
  <2> SUFFICES ASSUME k + 1 <= N PROVE Sorted(F[k + 1], reply, k + 1, n) OBVIOUS
  <2>1. k + 1 \in 1 .. N /\ k + 1 \in 0 .. N /\ (k + 1) - 1 = k /\ k + 1 # 0 BY <1>1
  <2>2. F[k + 1] = ReadLine(F[(k + 1) - 1], reply[k + 1], n) BY <1>10, <2>1
  <2>3. Sorted(F[k], reply, k, n) BY <1>1, <1>12
  <2>4. PICK st : st = F[k] OBVIOUS
  <2>5. PICK j \in 1 .. N : j = k + 1 BY <2>1
  <2>6. Sorted(st, reply, j - 1, n) BY <2>1, <2>3, <2>4, <2>5
  <2>7. Sorted(ReadLine(st, reply[j], n), reply, j, n) BY <2>6, ReadLineSorts DEF N
  <2> QED BY <2>1, <2>2, <2>4, <2>5, <2>7
<1>13. Nat \subseteq A
  <2> HIDE DEF A
  <2> QED BY <1>11, <1>12, NatInductionOnSet
<1>14. Sorted(F[N], reply, N, n) BY <1>1, <1>13
<1>15. PICK k \in 1 .. N : reply[k] = x /\ UnderTill(reply, k, i, N)
  BY <1>9, <1>14 DEF Sorted
<1>16. Under(reply, k, i) BY <1>15 DEF Under, UnderTill, Opened, N
<1> QED BY <1>1, <1>15, <1>16

-----------------------------------------------------------------------------
(***************************************************************************)
(* Timing: the latencies of a condition rise, so none is noted twice.      *)
(***************************************************************************)
IsList(s) == s \in Seq(Range(s))

\* Timings are numbers of replies, and never go back.
TimesRise ==
    /\ IsList(trials)
    /\ \A j \in DOMAIN trials : trials[j].timed \in Nat
    /\ \A i, j \in DOMAIN trials :
            i < j /\ trials[i].timed # 0 /\ trials[j].timed # 0 => trials[i].timed <= trials[j].timed

Noted(s, t, c) ==
    IF Timed(t, c) /\ (s = <<>> \/ Last(s) # t.timed) THEN Append(s, t.timed) ELSE s
LatenciesIs(f, c) ==
    f = [j \in 0 .. Len(trials) |-> IF j = 0 THEN <<>> ELSE Noted(f[j - 1], trials[j], c)]

\* What has been noted of the first j trials.
Rising(s, j, c) ==
    /\ s \in Seq(Nat)
    /\ \A a, b \in 1 .. Len(s) : a < b => s[a] < s[b]
    /\ \A a \in 1 .. Len(s) : \E m \in 1 .. j : Timed(trials[m], c) /\ trials[m].timed = s[a]
    /\ \A m \in 1 .. j : Timed(trials[m], c) => \E a \in 1 .. Len(s) : s[a] = trials[m].timed

LEMMA NotedRises ==
    ASSUME TimesRise, NEW c, NEW j \in 1 .. Len(trials), NEW s, Rising(s, j - 1, c)
    PROVE  Rising(Noted(s, trials[j], c), j, c)
<1> DEFINE t == trials[j]
           n == Len(s)
<1>1. /\ s \in Seq(Nat) /\ n \in Nat
      /\ \A a, b \in 1 .. n : a < b => s[a] < s[b]
      /\ \A a \in 1 .. n : \E m \in 1 .. j - 1 : Timed(trials[m], c) /\ trials[m].timed = s[a]
      /\ \A m \in 1 .. j - 1 : Timed(trials[m], c) => \E a \in 1 .. n : s[a] = trials[m].timed
  BY DEF Rising
<1>2. /\ DOMAIN trials = 1 .. Len(trials) /\ Len(trials) \in Nat
      /\ \A i \in DOMAIN trials : trials[i].timed \in Nat
      /\ \A i, k \in DOMAIN trials :
            i < k /\ trials[i].timed # 0 /\ trials[k].timed # 0 => trials[i].timed <= trials[k].timed
  BY DEF TimesRise, IsList
<1>3. \A a \in 1 .. n : \E m \in 1 .. j : Timed(trials[m], c) /\ trials[m].timed = s[a]
  <2> SUFFICES ASSUME NEW a \in 1 .. n
               PROVE  \E m \in 1 .. j : Timed(trials[m], c) /\ trials[m].timed = s[a]
    OBVIOUS
  <2>1. PICK m \in 1 .. j - 1 : Timed(trials[m], c) /\ trials[m].timed = s[a] BY <1>1
  <2>2. m \in 1 .. j BY <1>2
  <2> QED BY <2>1, <2>2
<1>4. \A m \in 1 .. j : m = j \/ m \in 1 .. j - 1 BY <1>2
<1>5. CASE ~ Timed(t, c)
  <2>1. Noted(s, t, c) = s BY <1>5 DEF Noted
  <2>2. \A m \in 1 .. j : Timed(trials[m], c) => \E a \in 1 .. n : s[a] = trials[m].timed
    BY <1>1, <1>4, <1>5
  <2> QED BY <1>1, <1>3, <2>1, <2>2 DEF Rising
<1>6. CASE Timed(t, c) /\ s # <<>> /\ Last(s) = t.timed
  <2>1. Noted(s, t, c) = s BY <1>6 DEF Noted
  <2>2. n \in 1 .. n /\ s[n] = t.timed BY <1>1, <1>6 DEF Last
  <2>3. \A m \in 1 .. j : Timed(trials[m], c) => \E a \in 1 .. n : s[a] = trials[m].timed
    BY <1>1, <1>4, <2>2
  <2> QED BY <1>1, <1>3, <2>1, <2>3 DEF Rising
<1>7. CASE Timed(t, c) /\ (s = <<>> \/ Last(s) # t.timed)
  <2> DEFINE x == t.timed
             s1 == Append(s, x)
  <2>1. Noted(s, t, c) = s1 BY <1>7 DEF Noted
  <2>2. x \in Nat /\ x # 0 BY <1>2, <1>7 DEF Timed
  <2>3. \A a \in 1 .. n : s[a] <= x
    <3> SUFFICES ASSUME NEW a \in 1 .. n PROVE s[a] <= x OBVIOUS
    <3>1. PICK m \in 1 .. j - 1 : Timed(trials[m], c) /\ trials[m].timed = s[a] BY <1>1
    <3>2. m \in DOMAIN trials /\ j \in DOMAIN trials /\ m < j BY <1>2
    <3>3. trials[m].timed # 0 BY <3>1 DEF Timed
    <3> QED BY <1>2, <2>2, <3>1, <3>2, <3>3
  <2>4. \A a \in 1 .. n : s[a] \in Nat BY <1>1
  <2>5. n # 0 => s[n] # x
    <3> SUFFICES ASSUME n # 0 PROVE s[n] # x OBVIOUS
    <3>1. s # <<>> BY <1>1
    <3> QED BY <1>7, <3>1 DEF Last
  <2>6. \A a \in 1 .. n : s[a] < x
    <3> SUFFICES ASSUME NEW a \in 1 .. n PROVE s[a] < x OBVIOUS
    <3>1. n \in 1 .. n /\ n # 0 BY <1>1
    <3> HIDE DEF x
    <3>5. \A p, q \in Nat : p <= q /\ p # q => p < q OBVIOUS
    <3>6. \A p, q, r \in Nat : p < q /\ q < r => p < r OBVIOUS
    <3>7. s[n] \in Nat /\ s[n] <= x /\ s[n] # x BY <2>3, <2>4, <2>5, <3>1
    <3>2. s[n] < x BY <2>2, <3>5, <3>7
    <3>3. CASE a = n BY <3>2, <3>3
    <3>4. CASE a # n
      <4>1. s[a] < s[n] BY <1>1, <3>1, <3>4
      <4>2. s[a] \in Nat BY <2>4
      <4> QED BY <2>2, <3>2, <3>6, <3>7, <4>1, <4>2
    <3> QED BY <3>3, <3>4
  <2>7. /\ s1 \in Seq(Nat) /\ Len(s1) = n + 1 /\ s1[n + 1] = x
        /\ \A a \in 1 .. n : s1[a] = s[a]
    BY <1>1, <2>2
  <2> HIDE DEF s1, x
  <2>8. \A a \in 1 .. n + 1 : a = n + 1 \/ a \in 1 .. n BY <1>1
  <2>9. \A a, b \in 1 .. n + 1 : a < b => s1[a] < s1[b]
    <3> SUFFICES ASSUME NEW a \in 1 .. n + 1, NEW b \in 1 .. n + 1, a < b PROVE s1[a] < s1[b]
      OBVIOUS
    <3>1. a \in 1 .. n BY <1>1
    <3>2. CASE b = n + 1 BY <2>6, <2>7, <3>1, <3>2
    <3>3. CASE b \in 1 .. n BY <1>1, <2>7, <3>1, <3>3
    <3> QED BY <2>8, <3>2, <3>3
  <2>10. \A a \in 1 .. n + 1 : \E m \in 1 .. j : Timed(trials[m], c) /\ trials[m].timed = s1[a]
    <3>1. j \in 1 .. j BY <1>2
    <3> QED BY <1>3, <1>7, <2>7, <2>8, <3>1 DEF x
  <2>11. \A m \in 1 .. j : Timed(trials[m], c) => \E a \in 1 .. n + 1 : s1[a] = trials[m].timed
    <3> SUFFICES ASSUME NEW m \in 1 .. j, Timed(trials[m], c)
                 PROVE  \E a \in 1 .. n + 1 : s1[a] = trials[m].timed
      OBVIOUS
    <3>1. CASE m = j
      <4>1. n + 1 \in 1 .. n + 1 BY <1>1
      <4> QED BY <2>7, <3>1, <4>1 DEF x
    <3>2. CASE m \in 1 .. j - 1
      <4>1. PICK a \in 1 .. n : s[a] = trials[m].timed BY <1>1, <3>2
      <4>2. a \in 1 .. n + 1 BY <1>1
      <4> QED BY <2>7, <4>1, <4>2
    <3> QED BY <1>4, <3>1, <3>2
  <2>12. Rising(s1, j, c) BY <2>7, <2>9, <2>10, <2>11 DEF Rising
  <2> QED BY <2>1, <2>12
<1> QED BY <1>5, <1>6, <1>7

LEMMA LatenciesRise ==
    ASSUME TimesRise, NEW c
    PROVE  Rising(Latencies(c), Len(trials), c)
<1> DEFINE N == Len(trials)
           V == Seq(Nat)
           step == [kv \in (1 .. N) \X V |-> Noted(kv[2], trials[kv[1]], c)]
           F == CHOOSE f : LatenciesIs(f, c)
<1>1. N \in Nat /\ DOMAIN trials = 1 .. N BY DEF TimesRise, IsList
<1>2. \A k \in 1 .. N : \A v \in V : step[<<k, v>>] = Noted(v, trials[k], c)
  <2> SUFFICES ASSUME NEW k \in 1 .. N, NEW v \in V PROVE step[<<k, v>>] = Noted(v, trials[k], c)
    OBVIOUS
  <2>1. <<k, v>> \in (1 .. N) \X V /\ <<k, v>>[1] = k /\ <<k, v>>[2] = v OBVIOUS
  <2> QED BY <2>1, Zenon
<1>3. <<>> \in V OBVIOUS
<1>4. \A k \in 1 .. N : \A v \in V : Noted(v, trials[k], c) \in V
  <2>1. \A k \in 1 .. N : trials[k].timed \in Nat BY <1>1 DEF TimesRise
  <2> QED BY <2>1 DEF Noted
<1> HIDE DEF step, V, N
<1>5. \A k \in 1 .. N : \A v \in V : step[<<k, v>>] \in V BY <1>2, <1>4
<1>6. PICK h : Recursive(h, N, V, <<>>, step) BY <1>1, <1>3, <1>5, RecursionExists
<1>7. LatenciesIs(h, c)
  <2>1. \A k \in 1 .. N : h[k] = Noted(h[k - 1], trials[k], c)
    <3> SUFFICES ASSUME NEW k \in 1 .. N PROVE h[k] = Noted(h[k - 1], trials[k], c) OBVIOUS
    <3>1. k - 1 \in 0 .. N BY <1>1
    <3>2. h[k] = step[<<k, h[k - 1]>>] /\ h[k - 1] \in V BY <1>6, <3>1 DEF Recursive
    <3> QED BY <1>2, <3>2
  <2> QED BY <1>1, <1>6, <2>1 DEF Recursive, LatenciesIs, N
<1>8. LatenciesIs(F, c) BY <1>7
<1>9. Latencies(c) = F[N] BY DEF Latencies, LatenciesIs, Noted, N
<1> HIDE DEF F
<1>10. \A k \in 0 .. N : F[k] = IF k = 0 THEN <<>> ELSE Noted(F[k - 1], trials[k], c)
  BY <1>8, Zenon DEF LatenciesIs, N
<1> DEFINE A == {k \in Nat : k <= N => Rising(F[k], k, c)}
<1>11. 0 \in A
  <2>1. F[0] = <<>> BY <1>1, <1>10
  <2>2. Rising(<<>>, 0, c) BY DEF Rising
  <2> QED BY <2>1, <2>2
<1>12. ASSUME NEW k \in Nat, k \in A PROVE k + 1 \in A
  <2> SUFFICES ASSUME k + 1 <= N PROVE Rising(F[k + 1], k + 1, c) OBVIOUS
  <2>1. k + 1 \in 1 .. N /\ k + 1 \in 0 .. N /\ (k + 1) - 1 = k /\ k + 1 # 0 BY <1>1
  <2>2. F[k + 1] = Noted(F[(k + 1) - 1], trials[k + 1], c) BY <1>10, <2>1
  <2>3. Rising(F[k], k, c) BY <1>1, <1>12
  <2>4. PICK s : s = F[k] OBVIOUS
  <2>5. PICK j \in 1 .. N : j = k + 1 BY <2>1
  <2>6. Rising(s, j - 1, c) BY <2>1, <2>3, <2>4, <2>5
  <2>7. Rising(Noted(s, trials[j], c), j, c) BY <2>6, NotedRises DEF N
  <2> QED BY <2>1, <2>2, <2>4, <2>5, <2>7
<1>13. Nat \subseteq A
  <2> HIDE DEF A
  <2> QED BY <1>11, <1>12, NatInductionOnSet
<1>14. Rising(F[N], N, c) BY <1>1, <1>13
<1> QED BY <1>9, <1>14 DEF N

-----------------------------------------------------------------------------
(***************************************************************************)
(* Where scores and timings come from.                                     *)
(***************************************************************************)
\* Entry e explains the score of trial t.
Explains(e, t) ==
    \E i \in DOMAIN e.key[2][2] :
        /\ e.key[2][1] = (pack > 1)
        /\ e.key[2][2][i] = Prompt[<<t.iid, t.cond>>]
        /\ IF pack > 1
           THEN /\ t.reply # <<>>
                /\ \A x \in Range(t.reply) : \E k \in DOMAIN e.reply :
                        e.reply[k] = x /\ Under(e.reply, k, i)
           ELSE t.reply = e.reply

Sourced(t) == t.score # Missing => \E k \in DOMAIN paid : Explains(paid[k], t)
Counted(t) == t.score # Missing <=> (pack > 1 => t.reply # <<>>)

\* Trial t is that of the i-th cell of the request that got entry e.
ItemOf(e, t, i) ==
    /\ e.request[i] = [iid |-> t.iid, cond |-> t.cond]
    /\ pack > 1 => t.reply = ParsePacked(e.reply, Len(e.request))[i]

\* Every reply in a cache is one that was paid for, under the same key.
Held(cache) == \A key \in DOMAIN cache :
    \E k \in DOMAIN paid : paid[k].key = key /\ paid[k].reply = cache[key]

PlanFits == pack \in Nat /\ PlanOK(plan, pack > 1)
CallFits == /\ call # "idle" => plan # <<>>
            /\ call = "answered" => answer \in Seq(Line)
RepliesHeld == /\ \A k \in DOMAIN paid : paid[k].reply \in Seq(Line)
               /\ Held(disk.cache)
               /\ judge # "none" => Held(ledger.cache)
TrialsSourced == \A j \in DOMAIN trials : Sourced(trials[j])
TrialsTimed == \A j \in DOMAIN trials :
    trials[j].timed <= Len(paid) /\ (trials[j].timed # 0 => Counted(trials[j]))

TrialInv == PlanFits /\ CallFits /\ RepliesHeld /\ TrialsSourced /\ TimesRise /\ TrialsTimed

LEMMA RequestFits ==
    ASSUME PlanFits, plan # <<>>
    PROVE  /\ Request \in Seq(Cells) /\ (~ (pack > 1) => Len(Request) = 1)
           /\ PlanOK(Tail(plan), pack > 1)
<1>1. plan \in Seq(Seq(Cells)) /\ (~ (pack > 1) => \A i \in DOMAIN plan : Len(plan[i]) = 1)
  BY DEF PlanFits, PlanOK
<1>2. 1 \in DOMAIN plan /\ Request = plan[1] /\ plan[1] \in Seq(Cells) BY <1>1 DEF Request
<1>3. /\ Tail(plan) \in Seq(Seq(Cells)) /\ Len(Tail(plan)) = Len(plan) - 1
      /\ \A i \in 1 .. Len(Tail(plan)) : Tail(plan)[i] = plan[i + 1]
  BY <1>1, HeadTailProperties
<1>4. ~ (pack > 1) => \A i \in DOMAIN Tail(plan) : Len(Tail(plan)[i]) = 1
  <2> SUFFICES ASSUME ~ (pack > 1), NEW i \in DOMAIN Tail(plan) PROVE Len(Tail(plan)[i]) = 1
    OBVIOUS
  <2>1. i \in 1 .. Len(Tail(plan)) /\ i + 1 \in DOMAIN plan BY <1>1, <1>3
  <2> QED BY <1>1, <1>3, <2>1
<1> QED BY <1>1, <1>2, <1>3, <1>4 DEF PlanOK

LEMMA EmptyPlan == PlanOK(<<>>, pack > 1)
BY DEF PlanOK

\* The trials of a request whose reply was paid for.
LEMMA EvaluatedFits ==
    ASSUME PlanFits, plan # <<>>, NEW e, e.key = KeyOf(Request), e.reply \in Seq(Line),
           NEW timed
    PROVE  LET ts == Evaluated(Request, e.reply, timed) IN
           /\ IsList(ts)
           /\ \A t \in Range(ts) : /\ t.timed = timed /\ Counted(t)
                                   /\ t.score # Missing => Explains(e, t)
<1> DEFINE reply == e.reply
           ts == Evaluated(Request, reply, timed)
<1>2. Request \in Seq(Cells) /\ (~ (pack > 1) => Len(Request) = 1) BY RequestFits
<1>3. PICK r : r = Request OBVIOUS
<1>4. r \in Seq(Cells) /\ DOMAIN r = 1 .. Len(r) /\ Len(r) \in Nat BY <1>2, <1>3
<1>1. /\ e.key[2][1] = (pack > 1) /\ DOMAIN e.key[2][2] = DOMAIN r
      /\ \A i \in DOMAIN r : e.key[2][2][i] = Prompt[<<r[i].iid, r[i].cond>>]
  <2>1. PICK f : f = [i \in DOMAIN r |-> Prompt[<<r[i].iid, r[i].cond>>]] OBVIOUS
  <2>2. PICK b : b = (pack > 1) BY Zenon
  <2>3. PICK k : k = <<Params, <<b, f>>>> OBVIOUS
  <2>4. k = e.key BY <1>3, <2>1, <2>2, <2>3, Zenon DEF KeyOf, RequestKey, PromptOf
  <2>5. k[2] = <<b, f>> BY <2>3
  <2>6. k[2][2] = f BY <2>5
  <2>7. k[2][1] = b BY <2>5
  <2> QED BY <2>1, <2>2, <2>4, <2>6, <2>7
<1>5. CASE pack > 1
  <2> DEFINE answers == ParsePacked(reply, Len(r))
             trial(i) == Trial(r[i], IF answers[i] = <<>> THEN Missing ELSE Score(answers[i]),
                               answers[i], timed)
             us == [i \in 1 .. Len(r) |-> trial(i)]
  <2>1. ts = us BY <1>3, <1>4, <1>5 DEF Evaluated
  <2>2. IsList(us)
    <3>1. \A i \in 1 .. Len(r) : trial(i) \in Range(us) BY DEF Range
    <3> HIDE DEF trial
    <3> QED BY <1>4, <3>1 DEF IsList
  <2>3. ASSUME NEW i \in 1 .. Len(r)
        PROVE  /\ trial(i).timed = timed /\ Counted(trial(i))
               /\ trial(i).score # Missing => Explains(e, trial(i))
    <3> DEFINE t == trial(i)
    <3>1. /\ t.timed = timed /\ t.reply = answers[i] /\ t.iid = r[i].iid /\ t.cond = r[i].cond
          /\ t.score = IF answers[i] = <<>> THEN Missing ELSE Score(answers[i])
      BY DEF Trial
    <3>2. t.score # Missing <=> answers[i] # <<>>
      <4>1. Score(answers[i]) # Missing BY DEF Score, Missing
      <4> QED BY <3>1, <4>1
    <3>3. ASSUME NEW x \in Range(answers[i])
          PROVE  \E k \in DOMAIN reply : reply[k] = x /\ Under(reply, k, i)
      <4>1. PICK q \in Seq(Line) : q = reply OBVIOUS
      <4>2. PICK m \in Nat : m = Len(r) BY <1>4
      <4>3. i \in 1 .. m /\ x \in Range(ParsePacked(q, m)[i]) BY <3>3, <4>1, <4>2
      <4>4. \E k \in DOMAIN q : q[k] = x /\ Under(q, k, i) BY <4>3, AnswersAreUnderNumber
      <4> QED BY <4>1, <4>4
    <3>4. i \in DOMAIN e.key[2][2] /\ e.key[2][2][i] = Prompt[<<t.iid, t.cond>>]
      <4>1. i \in DOMAIN r BY <1>4
      <4> HIDE DEF t
      <4> QED BY <1>1, <3>1, <4>1
    <3> HIDE DEF t, answers
    <3>5. t.score # Missing => Explains(e, t)
      BY <1>1, <1>5, <3>1, <3>2, <3>3, <3>4 DEF Explains
    <3>6. Counted(t) BY <1>5, <3>1, <3>2 DEF Counted
    <3> QED BY <3>1, <3>5, <3>6 DEF t
  <2>4. \A t \in Range(us) : \E i \in 1 .. Len(r) : t = trial(i) BY DEF Range
  <2> HIDE DEF us, trial
  <2>5. \A t \in Range(us) : /\ t.timed = timed /\ Counted(t)
                             /\ t.score # Missing => Explains(e, t)
    BY <2>3, <2>4
  <2> QED BY <2>1, <2>2, <2>5
<1>6. CASE ~ (pack > 1)
  <2> DEFINE t == Trial(r[1], Score(reply), reply, timed)
  <2>1. ts = <<t>> BY <1>3, <1>6 DEF Evaluated
  <2>2. 1 \in DOMAIN r BY <1>2, <1>3, <1>4, <1>6
  <2>3. /\ t.timed = timed /\ t.reply = reply /\ t.iid = r[1].iid /\ t.cond = r[1].cond
        /\ t.score = Score(reply)
    BY DEF Trial
  <2>4. t.score # Missing BY <2>3 DEF Score, Missing
  <2>5. 1 \in DOMAIN e.key[2][2] /\ e.key[2][2][1] = Prompt[<<t.iid, t.cond>>]
    <3> HIDE DEF t
    <3> QED BY <1>1, <2>2, <2>3
  <2> HIDE DEF t
  <2>6. Explains(e, t) BY <1>1, <1>6, <2>3, <2>5 DEF Explains
  <2>7. Counted(t) BY <1>6, <2>4 DEF Counted
  <2>8. IsList(<<t>>) /\ \A u \in Range(<<t>>) : u = t BY DEF IsList, Range
  <2> QED BY <2>1, <2>3, <2>6, <2>7, <2>8
<1> QED BY <1>5, <1>6

\* They are those of the cells of the request, one for each.
LEMMA EvaluatedIsOf ==
    ASSUME PlanFits, plan # <<>>, NEW e, e.request = Request, NEW timed
    PROVE  LET ts == Evaluated(Request, e.reply, timed) IN
           /\ \A t \in Range(ts) : \E i \in DOMAIN e.request : ItemOf(e, t, i)
           /\ \A i \in DOMAIN e.request : \E t \in Range(ts) : ItemOf(e, t, i)
<1> DEFINE ts == Evaluated(Request, e.reply, timed)
<1>1. PICK r : r = e.request OBVIOUS
<1>2. /\ r \in Seq(Cells) /\ DOMAIN r = 1 .. Len(r) /\ Len(r) \in Nat
      /\ ~ (pack > 1) => Len(r) = 1
  <2>1. r \in Seq(Cells) /\ (~ (pack > 1) => Len(r) = 1) BY <1>1, RequestFits
  <2> QED BY <2>1
<1>3. \A i \in DOMAIN r : r[i] = [iid |-> r[i].iid, cond |-> r[i].cond]
  <2> SUFFICES ASSUME NEW i \in DOMAIN r PROVE r[i] = [iid |-> r[i].iid, cond |-> r[i].cond]
    OBVIOUS
  <2>1. PICK c \in Cells : c = r[i] BY <1>2
  <2> QED BY <2>1 DEF Cells
<1>4. CASE pack > 1
  <2> DEFINE answers == ParsePacked(e.reply, Len(r))
             trial(i) == Trial(r[i], IF answers[i] = <<>> THEN Missing ELSE Score(answers[i]),
                               answers[i], timed)
  <2>1. ts = [i \in DOMAIN r |-> trial(i)] BY <1>1, <1>4 DEF Evaluated
  <2>2. \A i \in DOMAIN r : ItemOf(e, trial(i), i)
    <3> SUFFICES ASSUME NEW i \in DOMAIN r PROVE ItemOf(e, trial(i), i) OBVIOUS
    <3>1. trial(i).iid = r[i].iid /\ trial(i).cond = r[i].cond /\ trial(i).reply = answers[i]
      BY DEF Trial
    <3> HIDE DEF trial
    <3> QED BY <1>1, <1>3, <3>1 DEF ItemOf
  <2> HIDE DEF trial, ts
  <2>3. \A i \in DOMAIN r : trial(i) \in Range(ts) BY <2>1 DEF Range
  <2>4. \A t \in Range(ts) : \E i \in DOMAIN r : t = trial(i) BY <2>1 DEF Range
  <2> QED BY <1>1, <2>2, <2>3, <2>4 DEF ts
<1>5. CASE ~ (pack > 1)
  <2> DEFINE t == Trial(r[1], Score(e.reply), e.reply, timed)
  <2>1. ts = <<t>> BY <1>1, <1>5 DEF Evaluated
  <2>2. DOMAIN r = {1} BY <1>2, <1>5
  <2>3. t.iid = r[1].iid /\ t.cond = r[1].cond BY DEF Trial
  <2> HIDE DEF t, ts
  <2>4. ItemOf(e, t, 1) BY <1>1, <1>3, <1>5, <2>2, <2>3 DEF ItemOf
  <2>5. t \in Range(ts) /\ \A u \in Range(ts) : u = t BY <2>1 DEF Range
  <2> QED BY <1>1, <2>2, <2>4, <2>5 DEF ts
<1> QED BY <1>4, <1>5

LEMMA FailedFits ==
    ASSUME PlanFits, plan # <<>>
    PROVE  IsList(Failed(Request)) /\ \A t \in Range(Failed(Request)) : t.timed = 0 /\ t.score = Missing
<1>1. PICK r : r = Request OBVIOUS
<1>2. DOMAIN r = 1 .. Len(r) /\ Len(r) \in Nat BY <1>1, RequestFits
<1> DEFINE trial(i) == Trial(r[i], Missing, <<>>, 0)
           us == [i \in 1 .. Len(r) |-> trial(i)]
<1>3. Failed(Request) = us BY <1>1, <1>2 DEF Failed
<1>4. \A i \in 1 .. Len(r) : trial(i) \in Range(us) /\ trial(i).timed = 0 /\ trial(i).score = Missing
  BY DEF Range, Trial
<1>5. \A t \in Range(us) : \E i \in 1 .. Len(r) : t = trial(i) BY DEF Range
<1>6. IsList(us)
  <2>1. us = [i \in 1 .. Len(r) |-> trial(i)] OBVIOUS
  <2> HIDE DEF trial
  <2> QED BY <1>2, <1>4, <2>1 DEF IsList
<1> HIDE DEF us, trial
<1> QED BY <1>3, <1>4, <1>5, <1>6

-----------------------------------------------------------------------------
\* No reply is taken back.
PaidStays == /\ pack' = pack
             /\ Len(paid) \in Nat /\ Len(paid') \in Nat /\ Len(paid) <= Len(paid')
             /\ \A k \in DOMAIN paid : k \in DOMAIN paid' /\ paid'[k] = paid[k]

LEMMA HeldStays ==
    ASSUME PaidStays, NEW cache, Held(cache)
    PROVE  Held(cache)'
BY DEF PaidStays, Held

LEMMA SourcedStays ==
    ASSUME PaidStays, NEW t
    PROVE  /\ Sourced(t) => Sourced(t)'
           /\ Counted(t) => Counted(t)'
<1>1. \A e : Explains(e, t) => Explains(e, t)' BY DEF PaidStays, Explains, Under
<1>2. Sourced(t) => Sourced(t)'
  <2> SUFFICES ASSUME Sourced(t), t.score # Missing
               PROVE  (\E k \in DOMAIN paid : Explains(paid[k], t))'
    BY DEF Sourced
  <2>1. PICK k \in DOMAIN paid : Explains(paid[k], t) BY DEF Sourced
  <2>2. PICK e : e = paid[k] OBVIOUS
  <2>3. Explains(e, t)' BY <1>1, <2>1, <2>2
  <2>4. k \in DOMAIN paid' /\ paid'[k] = e BY <2>2 DEF PaidStays
  <2> QED BY <2>3, <2>4 DEF Explains, Under
<1>3. Counted(t) => Counted(t)' BY DEF PaidStays, Counted
<1> QED BY <1>2, <1>3

\* Trials that are added, all with the same timing, which is none or the latest.
LEMMA TrialsJoin ==
    ASSUME PaidStays, TrialsSourced, TimesRise, TrialsTimed,
           NEW us, IsList(us), NEW x \in Nat,
           \A t \in Range(us) : t.timed = x /\ Sourced(t)' /\ (x # 0 => Counted(t)'),
           x # 0 => Len(paid) <= x, x <= Len(paid'),
           trials' = trials \o us
    PROVE  TrialsSourced' /\ TimesRise' /\ TrialsTimed'
<1> DEFINE n == Len(trials)
           m == Len(us)
<1>1. /\ trials \in Seq(Range(trials)) /\ us \in Seq(Range(us)) BY DEF TimesRise, IsList
<1>2. PICK S : S = Range(trials) \cup Range(us) OBVIOUS
<1>3. trials \in Seq(S) /\ us \in Seq(S) BY <1>1, <1>2
<1>4. IsList(trials') /\ trials' \in Seq(S)
  <2>1. PICK s : s = trials OBVIOUS
  <2>2. s \in Seq(S) BY <1>3, <2>1
  <2>3. s \o us \in Seq(S) /\ Range(s \o us) = Range(s) \cup Range(us) BY <1>3, <2>2, RangeOfConcat
  <2>4. S = Range(s \o us) BY <1>2, <2>1, <2>3
  <2>5. PICK u : u = s \o us OBVIOUS
  <2>6. IsList(u) /\ u \in Seq(S) BY <2>3, <2>4, <2>5 DEF IsList
  <2>7. trials' = u BY <2>1, <2>5
  <2> QED BY <2>6, <2>7 DEF IsList
<1>5. /\ n \in Nat /\ m \in Nat /\ DOMAIN trials = 1 .. n /\ DOMAIN us = 1 .. m
      /\ DOMAIN trials' = 1 .. n + m
      /\ \A i \in 1 .. n : trials'[i] = trials[i]
      /\ \A i \in 1 .. n + m : ~ (i <= n) => i - n \in 1 .. m /\ trials'[i] = us[i - n]
  BY <1>3
<1>6. \A i \in 1 .. n + m : i \in 1 .. n \/ trials'[i] \in Range(us)
  <2> SUFFICES ASSUME NEW i \in 1 .. n + m, i \notin 1 .. n PROVE trials'[i] \in Range(us)
    OBVIOUS
  <2>1. ~ (i <= n) BY <1>5
  <2>2. i - n \in DOMAIN us /\ trials'[i] = us[i - n] BY <1>5, <2>1
  <2> QED BY <2>2 DEF Range
<1>7. \A i \in 1 .. n + m : i \notin 1 .. n => trials'[i].timed = x BY <1>6
<1>8. \A i \in 1 .. n : trials'[i].timed \in Nat /\ trials'[i].timed <= Len(paid)
  BY <1>5 DEF TimesRise, TrialsTimed
<1>9. TrialsSourced'
  <2> SUFFICES ASSUME NEW i \in 1 .. n + m PROVE Sourced(trials[i])' BY <1>5 DEF TrialsSourced
  <2>1. CASE i \in 1 .. n
    <3>1. PICK t : t = trials[i] OBVIOUS
    <3>2. Sourced(t) BY <1>5, <2>1, <3>1 DEF TrialsSourced
    <3>3. Sourced(t)' BY <3>2, SourcedStays
    <3>4. trials'[i] = t BY <1>5, <2>1, <3>1
    <3> QED BY <3>3, <3>4, Zenon DEF Sourced, Explains, Under
  <2>2. CASE i \notin 1 .. n
    <3>1. PICK t \in Range(us) : t = trials'[i] BY <1>6, <2>2
    <3>2. Sourced(t)' OBVIOUS
    <3> QED BY <3>1, <3>2, Zenon DEF Sourced, Explains, Under
  <2> QED BY <2>1, <2>2
<1>10. TrialsTimed'
  <2> SUFFICES ASSUME NEW i \in 1 .. n + m
               PROVE  trials'[i].timed <= Len(paid') /\ (trials'[i].timed # 0 => Counted(trials[i])')
    BY <1>5 DEF TrialsTimed
  <2>1. CASE i \in 1 .. n
    <3>1. PICK t : t = trials[i] OBVIOUS
    <3>2. t.timed # 0 => Counted(t) BY <1>5, <2>1, <3>1 DEF TrialsTimed
    <3>3. t.timed # 0 => Counted(t)' BY <3>2, SourcedStays
    <3>4. trials'[i] = t BY <1>5, <2>1, <3>1
    <3>5. trials'[i].timed <= Len(paid') BY <1>8, <2>1 DEF PaidStays
    <3> QED BY <3>3, <3>4, <3>5 DEF Counted
  <2>2. CASE i \notin 1 .. n
    <3>1. PICK t \in Range(us) : t = trials'[i] BY <1>6, <2>2
    <3>2. t.timed = x /\ (x # 0 => Counted(t)') OBVIOUS
    <3> QED BY <3>1, <3>2 DEF Counted
  <2> QED BY <2>1, <2>2
<1>11. TimesRise'
  <2>1. \A i \in 1 .. n + m : trials'[i].timed \in Nat BY <1>7, <1>8
  <2>2. ASSUME NEW i \in 1 .. n + m, NEW k \in 1 .. n + m, i < k,
               trials'[i].timed # 0, trials'[k].timed # 0
        PROVE  trials'[i].timed <= trials'[k].timed
    <3>1. CASE k \in 1 .. n
      <4>1. i \in 1 .. n BY <1>5, <2>2, <3>1
      <4>2. trials[i].timed <= trials[k].timed
        BY <1>5, <2>2, <3>1, <4>1 DEF TimesRise
      <4> QED BY <1>5, <3>1, <4>1, <4>2
    <3>2. CASE k \notin 1 .. n /\ i \in 1 .. n
      <4>1. trials'[k].timed = x /\ Len(paid) <= x BY <1>7, <2>2, <3>2
      <4>2. trials'[i].timed \in Nat /\ trials'[i].timed <= Len(paid) BY <1>8, <3>2
      <4>3. \A a, b, c \in Nat : a <= b /\ b <= c => a <= c OBVIOUS
      <4> QED BY <4>1, <4>2, <4>3 DEF PaidStays
    <3>3. CASE k \notin 1 .. n /\ i \notin 1 .. n BY <1>7, <2>1, <3>3
    <3> QED BY <3>1, <3>2, <3>3
  <2> QED BY <1>4, <1>5, <2>1, <2>2 DEF TimesRise
<1> QED BY <1>9, <1>10, <1>11

LEMMA JoinedRange ==
    ASSUME TimesRise, NEW us, IsList(us), trials' = trials \o us
    PROVE  Range(trials') = Range(trials) \cup Range(us)
<1>1. PICK s, S : s = trials /\ S = Range(s) \cup Range(us) OBVIOUS
<1>2. s \in Seq(S) /\ us \in Seq(S) BY <1>1 DEF TimesRise, IsList
<1>3. Range(s \o us) = Range(s) \cup Range(us) BY <1>2, RangeOfConcat
<1> QED BY <1>1, <1>3

LEMMA NoTrials ==
    ASSUME trials' = <<>> PROVE TrialsSourced' /\ TimesRise' /\ TrialsTimed'
<1>1. DOMAIN trials' = {} /\ IsList(trials)' BY DEF IsList, Range
<1> QED BY <1>1 DEF TrialsSourced, TimesRise, TrialsTimed

LEMMA SameTrials ==
    ASSUME TrialsSourced, TimesRise, TrialsTimed, PaidStays, trials' = trials
    PROVE  TrialsSourced' /\ TimesRise' /\ TrialsTimed'
<1>1. \A j \in DOMAIN trials : Sourced(trials[j])'
  <2> SUFFICES ASSUME NEW j \in DOMAIN trials PROVE Sourced(trials[j])' OBVIOUS
  <2>1. PICK t : t = trials[j] OBVIOUS
  <2>2. Sourced(t)' BY <2>1, SourcedStays DEF TrialsSourced
  <2> QED BY <2>1, <2>2, Zenon DEF Sourced, Explains, Under
<1>2. TimesRise' BY DEF TimesRise, IsList
<1>3. ASSUME NEW j \in DOMAIN trials
      PROVE  trials[j].timed <= Len(paid') /\ (trials[j].timed # 0 => Counted(trials[j])')
  <2>1. PICK t : t = trials[j] OBVIOUS
  <2>2. t.timed \in Nat /\ t.timed <= Len(paid) /\ (t.timed # 0 => Counted(t))
    BY <2>1 DEF TimesRise, TrialsTimed
  <2>3. Counted(t) => Counted(t)' BY SourcedStays
  <2>4. t.timed <= Len(paid') BY <2>2 DEF PaidStays
  <2> QED BY <2>1, <2>2, <2>3, <2>4 DEF Counted
<1> QED BY <1>1, <1>2, <1>3 DEF TrialsSourced, TrialsTimed

-----------------------------------------------------------------------------
LEMMA TrialsInitially == Init => TrialInv
<1> SUFFICES ASSUME Init PROVE TrialInv OBVIOUS
<1>1. PlanFits BY DEF Init, PlanFits, PlanOK
<1>2. CallFits BY DEF Init, CallFits
<1>3. RepliesHeld BY DEF Init, RepliesHeld, Held, NoFile
<1>4. DOMAIN trials = {} /\ IsList(trials) BY DEF Init, IsList, Range
<1> QED BY <1>1, <1>2, <1>3, <1>4 DEF TrialInv, TrialsSourced, TimesRise, TrialsTimed

\* The plan and the call are as they should be when a request is done with.
LEMMA RequestDone ==
    ASSUME PlanFits, plan # <<>>, pack' = pack, plan' = Tail(plan), call' = "idle"
    PROVE  PlanFits' /\ CallFits'
<1>1. PlanOK(Tail(plan), pack > 1) BY RequestFits
<1>2. PlanFits' BY <1>1 DEF PlanFits, PlanOK
<1> QED BY <1>2 DEF CallFits

LEMMA PlanDropped ==
    ASSUME PlanFits, pack' = pack, plan' = <<>>, call' = "idle"
    PROVE  PlanFits' /\ CallFits'
BY DEF PlanFits, PlanOK, CallFits

LEMMA SameReplies ==
    ASSUME RepliesHeld, UNCHANGED <<disk, paid>>,
           judge' = "none" \/ (judge' = judge /\ ledger' = ledger)
    PROVE  RepliesHeld'
BY DEF RepliesHeld, Held

LEMMA SamePaid == IInv /\ UNCHANGED <<paid, pack>> => PaidStays
BY DEF IInv, HistoryOK, PaidStays

LEMMA ReplayKeeps ==
    ASSUME IInv, TrialInv, Replay
    PROVE  TrialInv'
<1>1. /\ judge # "none" /\ plan # <<>> /\ call = "idle" /\ KeyOf(Request) \in DOMAIN ledger.cache
      /\ trials' = trials \o Evaluated(Request, ledger.cache[KeyOf(Request)], 0)
      /\ plan' = Tail(plan) /\ UNCHANGED <<disk, paid, ledger, judge, pack, call>>
  BY DEF Replay, ReplayLatency, Turn, Cached, idle, history
<1>2. PICK k \in DOMAIN paid :
        paid[k].key = KeyOf(Request) /\ paid[k].reply = ledger.cache[KeyOf(Request)]
  BY <1>1 DEF TrialInv, RepliesHeld, Held
<1>3. PICK e : e = paid[k] OBVIOUS
<1>4. e.key = KeyOf(Request) /\ e.reply \in Seq(Line)
  BY <1>2, <1>3 DEF TrialInv, RepliesHeld
<1>5. PICK us : us = Evaluated(Request, e.reply, 0) OBVIOUS
<1>6. /\ IsList(us)
      /\ \A t \in Range(us) : t.timed = 0 /\ (t.score # Missing => Explains(e, t))
  <2>1. PlanFits /\ plan # <<>> BY <1>1 DEF TrialInv
  <2> QED BY <1>4, <1>5, <2>1, EvaluatedFits
<1>7. PaidStays BY <1>1, SamePaid
<1>8. \A t \in Range(us) : t.timed = 0 /\ Sourced(t)' /\ (0 # 0 => Counted(t)')
  <2> SUFFICES ASSUME NEW t \in Range(us) PROVE t.timed = 0 /\ Sourced(t)' OBVIOUS
  <2>1. Sourced(t) BY <1>3, <1>6 DEF Sourced
  <2> QED BY <1>6, <1>7, <2>1, SourcedStays
<1>9. trials' = trials \o us BY <1>1, <1>2, <1>3, <1>5
<1>10. 0 \in Nat /\ 0 <= Len(paid') /\ (0 # 0 => Len(paid) <= 0) BY <1>7 DEF PaidStays
<1>11. TrialsSourced' /\ TimesRise' /\ TrialsTimed'
  <2>1. TrialsSourced /\ TimesRise /\ TrialsTimed BY DEF TrialInv
  <2> QED BY <1>6, <1>7, <1>8, <1>9, <1>10, <2>1, TrialsJoin
<1>12. PlanFits' /\ CallFits'
  <2>1. PlanFits /\ call' = "idle" BY <1>1 DEF TrialInv
  <2> QED BY <1>1, <2>1, RequestDone
<1>13. RepliesHeld' BY <1>1, SameReplies DEF TrialInv
<1> QED BY <1>11, <1>12, <1>13 DEF TrialInv

\* The cells of a request that failed are missing, whatever became of the reply.
LEMMA FailureKeeps ==
    ASSUME IInv, TrialInv, call # "idle", call' = "idle", plan' = Tail(plan),
           trials' = trials \o Failed(Request), UNCHANGED <<paid, pack>>, RepliesHeld'
    PROVE  TrialInv'
<1>1. PICK us : us = Failed(Request) OBVIOUS
<1>2. PlanFits /\ plan # <<>> BY DEF TrialInv, CallFits
<1>4. IsList(us) /\ \A t \in Range(us) : t.timed = 0 /\ t.score = Missing
  BY <1>1, <1>2, FailedFits
<1>5. PaidStays BY SamePaid
<1>6. \A t \in Range(us) : t.timed = 0 /\ Sourced(t)' /\ (0 # 0 => Counted(t)')
  BY <1>4 DEF Sourced
<1>7. 0 \in Nat /\ 0 <= Len(paid') /\ (0 # 0 => Len(paid) <= 0) BY <1>5 DEF PaidStays
<1>8. TrialsSourced' /\ TimesRise' /\ TrialsTimed'
  <2>1. TrialsSourced /\ TimesRise /\ TrialsTimed BY DEF TrialInv
  <2>2. trials' = trials \o us BY <1>1
  <2> QED BY <1>4, <1>5, <1>6, <1>7, <2>1, <2>2, TrialsJoin
<1>9. PlanFits' /\ CallFits' BY <1>2, RequestDone
<1> QED BY <1>8, <1>9 DEF TrialInv

\* A reply that came in is kept with those before it.
LEMMA AnsweredKeeps ==
    ASSUME IInv, TrialInv, Answered
    PROVE  TrialInv'
<1> DEFINE n == Len(paid)
<1>1. PICK e : e = [day |-> ledger.day, run |-> runs, request |-> Request,
                    key |-> KeyOf(Request), reply |-> answer']
  OBVIOUS
<1>2. /\ UNCHANGED <<disk, ledger, judge, pack, plan, trials>> /\ call = "waiting"
      /\ paid' = Append(paid, e)
  BY <1>1 DEF Answered
<1>3. answer' \in Seq(Line)
  <2>1. PICK r \in Replies[pack > 1] : answer' = r BY DEF Answered
  <2>2. Replies[TRUE] \subseteq Seq(Line) /\ Replies[FALSE] \subseteq Seq(Line)
    BY EvaluationAssumption
  <2>3. CASE pack > 1
    <3>1. Replies[pack > 1] = Replies[TRUE] BY <2>3
    <3> QED BY <2>1, <2>2, <3>1
  <2>4. CASE ~ (pack > 1)
    <3>1. (pack > 1) = FALSE BY <2>4, SMT
    <3>2. Replies[pack > 1] = Replies[FALSE] BY <3>1, Zenon
    <3> QED BY <2>1, <2>2, <3>2
  <2> QED BY <2>3, <2>4
<1>4. PlanFits' /\ CallFits' BY <1>2, <1>3 DEF TrialInv, PlanFits, PlanOK, CallFits
<1>5. /\ n \in Nat /\ DOMAIN paid = 1 .. n /\ DOMAIN paid' = 1 .. n + 1 /\ Len(paid') = n + 1
      /\ paid'[n + 1] = e /\ \A k \in 1 .. n : paid'[k] = paid[k]
  BY <1>2 DEF IInv, HistoryOK
<1>6. PaidStays BY <1>2, <1>5 DEF PaidStays
<1>7. TrialsSourced' /\ TimesRise' /\ TrialsTimed' BY <1>2, <1>6, SameTrials DEF TrialInv
<1>8. RepliesHeld'
  <2>1. Held(disk.cache)' BY <1>2, <1>6, HeldStays DEF TrialInv, RepliesHeld, Held
  <2>2. judge # "none" => Held(ledger.cache)'
    BY <1>2, <1>6, HeldStays DEF TrialInv, RepliesHeld, Held
  <2>3. (\A k \in DOMAIN paid : paid[k].reply \in Seq(Line))'
    <3>1. \A k \in 1 .. n : paid[k].reply \in Seq(Line) BY <1>5 DEF TrialInv, RepliesHeld
    <3>2. \A k \in 1 .. n + 1 : k \in 1 .. n \/ k = n + 1 BY <1>5
    <3> QED BY <1>1, <1>3, <1>5, <3>1, <3>2
  <2> QED BY <1>2, <2>1, <2>2, <2>3 DEF RepliesHeld
<1> QED BY <1>4, <1>7, <1>8 DEF TrialInv

\* put caches the reply in hand, which came in under the key of the request.
LEMMA KeptIsHeld ==
    ASSUME IInv, TrialInv, Kept
    PROVE  Held(ledger.cache)'
<1>1. call = "answered" /\ ledger' = Put(ledger, KeyOf(Request), answer) /\ paid' = paid
  BY DEF Kept
<1>2. judge # "none" BY <1>1 DEF IInv, Affordable
<1>3. Held(ledger.cache) /\ IsLedger(ledger)
  BY <1>2 DEF TrialInv, RepliesHeld, IInv, RunCounts
<1>4. PICK key, old, r : key = KeyOf(Request) /\ old = ledger.cache /\ r = answer OBVIOUS
<1>5. ledger'.cache = Remember(old, key, r) BY <1>1, <1>3, <1>4 DEF Put, IsLedger
<1>6. \E k \in DOMAIN paid : paid[k].key = key /\ paid[k].reply = r
  BY <1>1, <1>4 DEF IInv, Pending, InHand, HistoryOK
<1>7. Held(Remember(old, key, r))'
  <2> SUFFICES ASSUME NEW q \in DOMAIN Remember(old, key, r)
               PROVE  \E k \in DOMAIN paid :
                        paid[k].key = q /\ paid[k].reply = Remember(old, key, r)[q]
    BY <1>1 DEF Held
  <2>1. CASE q = key
    <3>1. Remember(old, key, r)[q] = r BY <2>1 DEF Remember
    <3> QED BY <1>6, <2>1, <3>1
  <2>2. CASE q # key
    <3>1. q \in DOMAIN old /\ Remember(old, key, r)[q] = old[q] BY <2>2 DEF Remember
    <3> QED BY <1>3, <1>4, <3>1 DEF Held
  <2> QED BY <2>1, <2>2
<1> QED BY <1>5, <1>7 DEF Held

LEMMA StoreKeeps ==
    ASSUME IInv, TrialInv, Store
    PROVE  TrialInv'
<1> DEFINE n == Len(paid)
<1>1. /\ Kept /\ call = "answered" /\ disk' = ledger' /\ call' = "idle" /\ plan' = Tail(plan)
      /\ trials' = trials \o Evaluated(Request, answer, latency)
      /\ UNCHANGED <<judge, pack, paid>>
  BY DEF Store, Kept
<1>2. PICK e : e = paid[n] OBVIOUS
<1>3. PlanFits /\ plan # <<>> /\ answer \in Seq(Line) BY <1>1 DEF TrialInv, CallFits
<1>4. /\ e.key = KeyOf(Request) /\ e.reply = answer /\ latency = n /\ n \in Nat /\ n \in DOMAIN paid
  BY <1>1, <1>2 DEF IInv, Pending, InHand, HistoryOK
<1>5. PaidStays BY <1>1, SamePaid
<1>6. PICK us : us = Evaluated(Request, e.reply, n) OBVIOUS
<1>7. /\ IsList(us)
      /\ \A t \in Range(us) : /\ t.timed = n /\ Counted(t)
                              /\ t.score # Missing => Explains(e, t)
  BY <1>3, <1>4, <1>6, EvaluatedFits
<1>8. \A t \in Range(us) : t.timed = n /\ Sourced(t)' /\ (n # 0 => Counted(t)')
  <2> SUFFICES ASSUME NEW t \in Range(us) PROVE t.timed = n /\ Sourced(t)' /\ Counted(t)'
    OBVIOUS
  <2>1. Sourced(t) BY <1>2, <1>4, <1>7 DEF Sourced
  <2> QED BY <1>5, <1>7, <2>1, SourcedStays
<1>9. TrialsSourced' /\ TimesRise' /\ TrialsTimed'
  <2>1. TrialsSourced /\ TimesRise /\ TrialsTimed BY DEF TrialInv
  <2>2. trials' = trials \o us BY <1>1, <1>4, <1>6
  <2>3. PICK x \in Nat : x = n BY <1>4
  <2>4. \A t \in Range(us) : t.timed = x /\ Sourced(t)' /\ (x # 0 => Counted(t)')
    BY <1>8, <2>3
  <2>5. Len(paid) <= x /\ x <= Len(paid') BY <1>1, <2>3
  <2> QED BY <1>5, <1>7, <2>1, <2>2, <2>4, <2>5, TrialsJoin
<1>10. PlanFits' /\ CallFits' BY <1>1, <1>3, RequestDone
<1>11. RepliesHeld'
  <2>1. Held(ledger.cache)' BY <1>1, KeptIsHeld
  <2>2. Held(disk.cache)' BY <1>1, <2>1 DEF Held
  <2> QED BY <1>1, <2>1, <2>2 DEF TrialInv, RepliesHeld
<1> QED BY <1>9, <1>10, <1>11 DEF TrialInv

LEMMA SaveFailsKeeps ==
    ASSUME IInv, TrialInv, SaveFails
    PROVE  TrialInv'
<1>1. /\ Kept /\ call = "answered" /\ call' = "idle" /\ plan' = Tail(plan)
      /\ trials' = trials \o Failed(Request) /\ UNCHANGED <<disk, judge, pack, paid>>
  BY DEF SaveFails, Kept
<1>2. RepliesHeld'
  <2>1. Held(ledger.cache)' BY <1>1, KeptIsHeld
  <2> QED BY <1>1, <2>1 DEF TrialInv, RepliesHeld, Held
<1> QED BY <1>1, <1>2, FailureKeeps

LEMMA TrialsPreserved == IInv /\ TrialInv /\ [Next]_vars => TrialInv'
<1> SUFFICES ASSUME IInv, TrialInv, [Next]_vars PROVE TrialInv' OBVIOUS
<1> USE DEF idle, history
<1>1. ASSUME NEW a \in Arguments, NEW kind \in {"gemini", "replay"}, Start(a[1], a[2], kind)
      PROVE  TrialInv'
  <2>1. /\ UNCHANGED <<disk, paid>> /\ pack' = a[2] /\ plan' = Requests(a[1], a[2])
        /\ call' = "idle" /\ trials' = <<>> /\ ledger' = Load(disk, today)
    BY <1>1 DEF Start
  <2>2. PlanFits'
    <3>1. PICK n, k \in Nat : n = a[1] /\ k = a[2] BY EvaluationAssumption
    <3>2. PlanOK(Requests(n, k), k > 1) BY PlanIsMade
    <3> QED BY <2>1, <3>1, <3>2 DEF PlanFits, PlanOK
  <2>3. CallFits' BY <2>1 DEF CallFits
  <2>4. ledger'.cache = disk.cache BY <2>1 DEF Load, IInv, IsLedger
  <2>5. RepliesHeld' BY <2>1, <2>4 DEF TrialInv, RepliesHeld, Held
  <2> QED BY <2>1, <2>2, <2>3, <2>5, NoTrials DEF TrialInv
<1>2. CASE Replay BY <1>2, ReplayKeeps
<1>3. CASE Miss
  <2>1. UNCHANGED <<disk, paid, ledger, judge, pack, call, trials>> /\ plan' = Tail(plan)
        /\ plan # <<>> /\ call = "idle"
    BY <1>3 DEF Miss, Turn
  <2>2. PlanFits' /\ CallFits' BY <2>1, RequestDone DEF TrialInv
  <2> QED BY <2>1, <2>2, SamePaid, SameReplies, SameTrials DEF TrialInv
<1>4. CASE Exhausted
  <2>1. UNCHANGED <<disk, paid, ledger, judge, pack, call, trials>> /\ plan' = <<>> /\ call = "idle"
    BY <1>4 DEF Exhausted, Fresh, Turn
  <2>2. PlanFits' /\ CallFits' BY <2>1, PlanDropped DEF TrialInv
  <2> QED BY <2>1, <2>2, SamePaid, SameReplies, SameTrials DEF TrialInv
<1>5. CASE Send
  <2>1. UNCHANGED <<disk, paid, ledger, judge, pack, plan, trials>> /\ call' = "waiting"
        /\ plan # <<>>
    BY <1>5 DEF Send, Fresh, Turn
  <2>2. PlanFits' /\ CallFits' BY <2>1 DEF TrialInv, PlanFits, PlanOK, CallFits
  <2> QED BY <2>1, <2>2, SamePaid, SameReplies, SameTrials DEF TrialInv
<1>6. CASE Answered BY <1>6, AnsweredKeeps
<1>7. CASE Refused
  <2>1. UNCHANGED <<disk, paid, ledger, judge, pack, trials>> /\ plan' = <<>> /\ call' = "idle"
    BY <1>7 DEF Refused
  <2>2. PlanFits' /\ CallFits' BY <2>1, PlanDropped DEF TrialInv
  <2> QED BY <2>1, <2>2, SamePaid, SameReplies, SameTrials DEF TrialInv
<1>8. CASE Broken
  <2>1. /\ call = "waiting" /\ call' = "idle" /\ plan' = Tail(plan)
        /\ trials' = trials \o Failed(Request)
        /\ UNCHANGED <<disk, paid, ledger, judge, pack>>
    BY <1>8 DEF Broken
  <2>2. RepliesHeld' BY <2>1, SameReplies DEF TrialInv
  <2> QED BY <2>1, <2>2, FailureKeeps
<1>9. CASE Store BY <1>9, StoreKeeps
<1>10. CASE SaveFails BY <1>10, SaveFailsKeeps
<1>11. CASE Report \/ Crash
  <2>1. UNCHANGED <<disk, paid, ledger, pack>> /\ judge' = "none" /\ plan' = <<>> /\ call' = "idle"
        /\ (trials' = trials \/ trials' = <<>>)
    BY <1>11 DEF Report, Crash, Ended
  <2>2. PlanFits' /\ CallFits' BY <2>1, PlanDropped DEF TrialInv
  <2>3. TrialsSourced' /\ TimesRise' /\ TrialsTimed'
    BY <2>1, SamePaid, SameTrials, NoTrials DEF TrialInv
  <2>4. RepliesHeld' BY <2>1, SameReplies DEF TrialInv
  <2> QED BY <2>2, <2>3, <2>4 DEF TrialInv
<1>12. CASE Midnight \/ UNCHANGED vars
  <2>1. UNCHANGED <<disk, paid, ledger, judge, pack, plan, call, answer, trials>>
    BY <1>12 DEF Midnight, vars
  <2>2. PlanFits' /\ CallFits' BY <2>1 DEF TrialInv, PlanFits, PlanOK, CallFits
  <2> QED BY <2>1, <2>2, SamePaid, SameReplies, SameTrials DEF TrialInv
<1> QED BY <1>1, <1>2, <1>3, <1>4, <1>5, <1>6, <1>7, <1>8, <1>9, <1>10, <1>11, <1>12
        DEF Next, Step

LEMMA TrialInvariant == Spec => []TrialInv
<1>1. Init => TrialInv BY TrialsInitially
<1>2. IInv /\ TrialInv /\ [Next]_vars => TrialInv' BY TrialsPreserved
<1> QED BY <1>1, <1>2, Invariant, PTL DEF Spec

\* Every score of a run comes from a reply that was paid for under the prompt of
\* that cell, and out of a pack from the lines of that item only.
THEOREM ScoresAreSourced == Spec => []ScoresComeFromReplies
<1>1. TrialInv => ScoresComeFromReplies
  <2> SUFFICES ASSUME TrialInv, NEW t \in Range(trials), t.score # Missing
               PROVE  \E e \in Range(paid) : Explains(e, t)
    BY DEF ScoresComeFromReplies, Explains
  <2>1. PICK j \in DOMAIN trials : t = trials[j] BY DEF Range
  <2>2. Sourced(t) BY <2>1 DEF TrialInv, TrialsSourced
  <2>3. PICK k \in DOMAIN paid : Explains(paid[k], t) BY <2>2 DEF Sourced
  <2>4. paid[k] \in Range(paid) BY DEF Range
  <2> QED BY <2>3, <2>4
<1> QED BY <1>1, TrialInvariant, PTL

-----------------------------------------------------------------------------
(***************************************************************************)
(* Which requests the timings come from.                                   *)
(***************************************************************************)
\* The timing of a trial is that of a request of this run that it was part of.
From(e, t) == e.run = runs /\ \E i \in DOMAIN e.request : ItemOf(e, t, i)
Timely(t) == t.timed \in used /\ From(paid[t.timed], t)

\* Every cell that a request answered carries its timing.
AllTimed(e, k) ==
    \A i \in DOMAIN e.request : Answers(e, i) =>
        \E t \in Range(trials) : t.timed = k /\ Timed(t, e.request[i].cond)

TimesFit == \A t \in Range(trials) : t.timed # 0 => Timely(t)
UsedTimed == \A k \in used : paid[k].run = runs => AllTimed(paid[k], k)
Timing == judge # "none" => TimesFit /\ UsedTimed

\* Trials that carry no timing change nothing.
LEMMA TimingStays ==
    ASSUME IInv, judge # "none" => Timing, judge # "none", PaidStays, UNCHANGED <<runs, used>>,
           Range(trials) \subseteq Range(trials'),
           \A t \in Range(trials') : t \in Range(trials) \/ t.timed = 0
    PROVE  Timing'
<1>1. TimesFit /\ UsedTimed BY DEF Timing
<1>2. \A k \in used : k \in DOMAIN paid' /\ paid'[k] = paid[k]
  BY DEF PaidStays, IInv, HistoryOK
<1>3. \A e, t, i : ItemOf(e, t, i)' <=> ItemOf(e, t, i) BY DEF PaidStays, ItemOf
<1>4. TimesFit'
  <2> SUFFICES ASSUME NEW t \in Range(trials'), t.timed # 0
               PROVE  t.timed \in used /\ From(paid[t.timed], t)'
    BY DEF TimesFit, Timely
  <2>1. t.timed \in used /\ From(paid[t.timed], t) BY <1>1 DEF TimesFit, Timely
  <2>2. PICK e : e = paid[t.timed] OBVIOUS
  <2>3. paid'[t.timed] = e BY <1>2, <2>1, <2>2
  <2>4. From(e, t)' BY <1>3, <2>1, <2>2 DEF From
  <2> QED BY <2>1, <2>3, <2>4 DEF From, ItemOf
<1>5. UsedTimed'
  <2> SUFFICES ASSUME NEW k \in used, paid'[k].run = runs PROVE AllTimed(paid[k], k)'
    BY DEF UsedTimed
  <2>1. AllTimed(paid[k], k) BY <1>1, <1>2 DEF UsedTimed
  <2>2. paid'[k] = paid[k] BY <1>2
  <2>3. pack' = pack BY DEF PaidStays
  <2> QED BY <2>1, <2>2, <2>3 DEF AllTimed, Answers, Timed
<1> QED BY <1>4, <1>5 DEF Timing

LEMMA UntimedJoin ==
    ASSUME TimesRise, NEW us, IsList(us), \A t \in Range(us) : t.timed = 0,
           trials' = trials \o us
    PROVE  /\ Range(trials) \subseteq Range(trials')
           /\ \A t \in Range(trials') : t \in Range(trials) \/ t.timed = 0
<1>1. Range(trials') = Range(trials) \cup Range(us) BY JoinedRange
<1> QED BY <1>1

\* A reply that is evaluated times the cells it answers, and no other.
LEMMA StoreTimes ==
    ASSUME IInv, TrialInv, Timing, Store
    PROVE  Timing'
<1> DEFINE n == Len(paid)
<1>1. /\ call = "answered" /\ trials' = trials \o Evaluated(Request, answer, latency)
      /\ used' = used \cup {n} /\ UNCHANGED <<judge, pack, paid, runs>>
  BY DEF Store, Kept
<1>2. judge # "none" BY <1>1 DEF IInv, Affordable
<1>3. TimesFit /\ UsedTimed BY <1>2 DEF Timing
<1>4. PICK e : e = paid[n] OBVIOUS
<1>5. /\ e.key = KeyOf(Request) /\ e.reply = answer /\ e.request = Request /\ e.run = runs
      /\ latency = n /\ n \in Nat /\ n # 0
  BY <1>1, <1>4 DEF IInv, Pending, InHand, HistoryOK
<1>6. PICK us : us = Evaluated(Request, e.reply, n) OBVIOUS
<1>7. PlanFits /\ plan # <<>> /\ answer \in Seq(Line) BY <1>1 DEF TrialInv, CallFits
<1>8. IsList(us) /\ \A t \in Range(us) : t.timed = n /\ Counted(t)
  BY <1>5, <1>6, <1>7, EvaluatedFits
<1>9. /\ \A t \in Range(us) : \E i \in DOMAIN e.request : ItemOf(e, t, i)
      /\ \A i \in DOMAIN e.request : \E t \in Range(us) : ItemOf(e, t, i)
  BY <1>5, <1>6, <1>7, EvaluatedIsOf
<1>10. Range(trials') = Range(trials) \cup Range(us)
  BY <1>1, <1>5, <1>6, <1>8, JoinedRange DEF TrialInv
<1>11. TimesFit'
  <2> SUFFICES ASSUME NEW t \in Range(trials'), t.timed # 0 PROVE Timely(t)' BY DEF TimesFit
  <2>1. CASE t \in Range(trials)
    <3>1. Timely(t) BY <1>3, <2>1 DEF TimesFit
    <3> QED BY <1>1, <3>1 DEF Timely, From, ItemOf
  <2>2. CASE t \in Range(us)
    <3>1. t.timed = n /\ n \in used' BY <1>1, <1>8, <2>2
    <3>2. From(e, t) BY <1>5, <1>9, <2>2 DEF From
    <3> QED BY <1>1, <1>4, <3>1, <3>2 DEF Timely, From, ItemOf
  <2> QED BY <1>10, <2>1, <2>2
<1>12. UsedTimed'
  <2> SUFFICES ASSUME NEW k \in used', paid[k].run = runs PROVE AllTimed(paid[k], k)'
    BY <1>1 DEF UsedTimed
  <2>1. CASE k \in used
    <3>1. AllTimed(paid[k], k) BY <1>3, <2>1 DEF UsedTimed
    <3> QED BY <1>1, <1>10, <3>1 DEF AllTimed, Answers, Timed
  <2>2. CASE k = n
    <3> SUFFICES ASSUME NEW i \in DOMAIN e.request, Answers(e, i)
                 PROVE  \E t \in Range(us) : t.timed = n /\ Timed(t, e.request[i].cond)
      BY <1>1, <1>4, <1>10, <2>2 DEF AllTimed, Answers, Timed
    <3>1. PICK t \in Range(us) : ItemOf(e, t, i) BY <1>9
    <3>2. t.cond = e.request[i].cond /\ (pack > 1 => t.reply # <<>>)
      BY <3>1 DEF ItemOf, Answers
    <3>3. t.score # Missing BY <1>8, <3>2 DEF Counted
    <3> QED BY <1>5, <1>8, <3>2, <3>3 DEF Timed
  <2> QED BY <1>1, <2>1, <2>2
<1> QED BY <1>11, <1>12 DEF Timing

LEMMA TimingPreserved == IInv /\ TrialInv /\ Timing /\ [Next]_vars => Timing'
<1> SUFFICES ASSUME IInv, TrialInv, Timing, [Next]_vars, judge' # "none" PROVE Timing'
  BY DEF Timing
<1> USE DEF idle, history
<1>1. ASSUME NEW a \in Arguments, NEW kind \in {"gemini", "replay"}, Start(a[1], a[2], kind)
      PROVE  Timing'
  <2>1. /\ UNCHANGED <<paid, used>> /\ runs' = runs + 1 /\ trials' = <<>>
    BY <1>1 DEF Start
  <2>2. \A k \in used : paid[k].run # runs'
    <3>1. \A k \in used : paid[k].run \in Nat /\ paid[k].run <= runs /\ runs \in Nat
      BY DEF IInv, HistoryOK, Entry
    <3> QED BY <2>1, <3>1
  <2>3. Range(trials') = {} BY <2>1 DEF Range
  <2> QED BY <2>1, <2>2, <2>3 DEF Timing, TimesFit, UsedTimed
<1>2. CASE Replay
  <2>1. /\ judge # "none" /\ plan # <<>>
        /\ trials' = trials \o Evaluated(Request, ledger.cache[KeyOf(Request)], 0)
        /\ UNCHANGED <<paid, pack, runs, used>> /\ KeyOf(Request) \in DOMAIN ledger.cache
    BY <1>2 DEF Replay, ReplayLatency, Turn, Cached
  <2>2. PICK k \in DOMAIN paid :
          paid[k].key = KeyOf(Request) /\ paid[k].reply = ledger.cache[KeyOf(Request)]
    BY <2>1 DEF TrialInv, RepliesHeld, Held
  <2>3. PICK e : e = paid[k] OBVIOUS
  <2>4. e.key = KeyOf(Request) /\ e.reply \in Seq(Line) BY <2>2, <2>3 DEF TrialInv, RepliesHeld
  <2>5. PICK us : us = Evaluated(Request, e.reply, 0) OBVIOUS
  <2>6. PlanFits /\ TimesRise BY DEF TrialInv
  <2>7. IsList(us) /\ \A t \in Range(us) : t.timed = 0
    BY <2>1, <2>4, <2>5, <2>6, EvaluatedFits
  <2>8. trials' = trials \o us BY <2>1, <2>2, <2>3, <2>5
  <2> QED BY <2>1, <2>6, <2>7, <2>8, SamePaid, UntimedJoin, TimingStays
<1>3. CASE Broken \/ SaveFails
  <2>1. /\ call # "idle" /\ trials' = trials \o Failed(Request)
        /\ UNCHANGED <<paid, pack, runs, used>>
    BY <1>3 DEF Broken, SaveFails, Kept
  <2>2. judge # "none" BY <2>1 DEF IInv, Affordable
  <2>3. PICK us : us = Failed(Request) OBVIOUS
  <2>4. PlanFits /\ plan # <<>> /\ TimesRise BY <2>1 DEF TrialInv, CallFits
  <2>5. IsList(us) /\ \A t \in Range(us) : t.timed = 0 BY <2>3, <2>4, FailedFits
  <2>6. trials' = trials \o us BY <2>1, <2>3
  <2> QED BY <2>1, <2>2, <2>4, <2>5, <2>6, SamePaid, UntimedJoin, TimingStays
<1>4. CASE Miss \/ Exhausted \/ Send \/ Refused \/ Midnight \/ UNCHANGED vars
  <2>1. UNCHANGED <<paid, pack, runs, used, trials, judge>>
    BY <1>4 DEF Miss, Exhausted, Send, Refused, Midnight, vars
  <2> QED BY <2>1, SamePaid, TimingStays
<1>5. CASE Answered
  <2>1. /\ UNCHANGED <<pack, runs, used, trials, judge>>
        /\ \E e : paid' = Append(paid, e)
    BY <1>5 DEF Answered
  <2>2. PaidStays BY <2>1 DEF IInv, HistoryOK, PaidStays
  <2> QED BY <2>1, <2>2, TimingStays
<1>6. CASE Store BY <1>6, StoreTimes
<1>7. CASE Report \/ Crash BY <1>7 DEF Report, Crash, Ended
<1> QED BY <1>1, <1>2, <1>3, <1>4, <1>5, <1>6, <1>7 DEF Next, Step

LEMMA TimingInvariant == Spec => []Timing
<1>1. Init => Timing BY DEF Init, Timing
<1>2. IInv /\ TrialInv /\ Timing /\ [Next]_vars => Timing' BY TimingPreserved
<1> QED BY <1>1, <1>2, Invariant, TrialInvariant, PTL DEF Spec

\* A condition is timed exactly by the requests that this run sent, got a reply to,
\* saved and found an answer in, each once; no cell carries the timing of a request
\* it was not part of.
THEOREM TimedOnce == Spec => []EachRequestTimedOnce
<1>1. IInv /\ TrialInv /\ Timing => EachRequestTimedOnce
  <2> SUFFICES ASSUME IInv, TrialInv, TimesFit, UsedTimed PROVE EachRequestTimedOnce
    BY DEF Timing, EachRequestTimedOnce
  <2>1. TimesRise /\ TrialsTimed BY DEF TrialInv
  <2>2. DOMAIN trials = 1 .. Len(trials) BY <2>1 DEF TimesRise, IsList
  <2>3. \A t \in Range(trials) : t.timed # 0 => Counted(t)
    BY <2>1 DEF TrialsTimed, Range
  <2>4. ASSUME NEW c \in Range(Conditions)
        PROVE  IsInjective(Latencies(c)) /\ Range(Latencies(c)) = SentFor(c)
    <3>1. PICK s : s = Latencies(c) OBVIOUS
    <3>2. Rising(s, Len(trials), c) BY <2>1, <3>1, LatenciesRise
    <3>3. /\ DOMAIN s = 1 .. Len(s) /\ Len(s) \in Nat /\ \A a \in 1 .. Len(s) : s[a] \in Nat
          /\ \A a, b \in 1 .. Len(s) : a < b => s[a] < s[b]
      <4>1. s \in Seq(Nat) /\ \A a, b \in 1 .. Len(s) : a < b => s[a] < s[b]
        BY <3>2 DEF Rising
      <4>2. DOMAIN s = 1 .. Len(s) /\ Len(s) \in Nat /\ \A a \in 1 .. Len(s) : s[a] \in Nat
        BY <4>1
      <4> QED BY <4>1, <4>2
    <3>4. IsInjective(s)
      <4> SUFFICES ASSUME NEW a \in 1 .. Len(s), NEW b \in 1 .. Len(s), s[a] = s[b] PROVE a = b
        BY <3>3 DEF IsInjective
      <4>1. ~ (a < b) /\ ~ (b < a) BY <3>3
      <4> QED BY <3>3, <4>1
    <3>5. ASSUME NEW x \in Range(s) PROVE x \in SentFor(c)
      <4>1. PICK a \in 1 .. Len(s) : x = s[a] BY <3>3, <3>5 DEF Range
      <4>2. PICK m \in 1 .. Len(trials) : Timed(trials[m], c) /\ trials[m].timed = x
        BY <3>2, <4>1 DEF Rising
      <4>3. PICK t \in Range(trials) : t = trials[m] BY <2>2 DEF Range
      <4>4. t.timed # 0 /\ t.timed = x /\ t.cond = c /\ t.score # Missing
        BY <4>2, <4>3 DEF Timed
      <4>5. Timely(t) /\ Counted(t) BY <2>3, <4>4 DEF TimesFit
      <4>6. PICK e : e = paid[x] OBVIOUS
      <4>7. x \in used /\ e.run = runs BY <4>4, <4>5, <4>6 DEF Timely, From
      <4>8. PICK i \in DOMAIN e.request : ItemOf(e, t, i) BY <4>4, <4>5, <4>6 DEF Timely, From
      <4>9. e.request[i].cond = c BY <4>4, <4>8 DEF ItemOf
      <4>10. Answers(e, i) BY <4>4, <4>5, <4>8 DEF Answers, Counted, ItemOf
      <4> QED BY <4>6, <4>7, <4>9, <4>10 DEF SentFor
    <3>6. ASSUME NEW k \in SentFor(c) PROVE k \in Range(s)
      <4>1. PICK e : e = paid[k] OBVIOUS
      <4>2. PICK i \in DOMAIN e.request : e.request[i].cond = c /\ Answers(e, i)
        BY <4>1 DEF SentFor
      <4>3. AllTimed(e, k) BY <4>1 DEF SentFor, UsedTimed
      <4>4. PICK t \in Range(trials) : t.timed = k /\ Timed(t, c) BY <4>2, <4>3 DEF AllTimed
      <4>5. PICK m \in 1 .. Len(trials) : t = trials[m] BY <2>2 DEF Range
      <4>6. PICK a \in 1 .. Len(s) : s[a] = trials[m].timed BY <3>2, <4>4, <4>5 DEF Rising
      <4> QED BY <3>3, <4>4, <4>5, <4>6 DEF Range
    <3> QED BY <3>1, <3>4, <3>5, <3>6
  <2>5. ASSUME NEW t \in Range(trials), t.timed # 0 PROVE TimedBy(t)
    <3>1. Timely(t) BY <2>5 DEF TimesFit
    <3>2. PICK e : e = paid[t.timed] OBVIOUS
    <3>3. PICK i \in DOMAIN e.request : ItemOf(e, t, i) BY <3>1, <3>2 DEF Timely, From
    <3>4. [iid |-> t.iid, cond |-> t.cond] \in Range(e.request) BY <3>3 DEF ItemOf, Range
    <3>5. e.run = runs /\ t.timed \in DOMAIN paid
      BY <3>1, <3>2 DEF Timely, From, IInv, HistoryOK
    <3> QED BY <3>2, <3>4, <3>5 DEF TimedBy
  <2> QED BY <2>4, <2>5 DEF EachRequestTimedOnce
<1> QED BY <1>1, Invariant, TrialInvariant, TimingInvariant, PTL
=============================================================================
