--------------------------- MODULE ServiceProofs ----------------------------
(***************************************************************************)
(* What holds of the service for every set of requests, every store and    *)
(* every interleaving: slots add up, and the store is the lossy memory it  *)
(* promises to be.                                                         *)
(***************************************************************************)
EXTENDS Service, Induction

-----------------------------------------------------------------------------
(***************************************************************************)
(* Slots.  A request is admitted once, because it waits once.              *)
(***************************************************************************)
Phases  == {"new", "queued", "running", "answered", "expired", "failed"}
Running == {r \in Request : phase[r] = "running"}

SlotsOK == /\ slots \in Nat
           /\ slots + Cardinality(Running) = MaxConcurrency

WaitsOnce ==
    /\ queue \in Seq(Request)
    /\ \A i \in 1 .. Len(queue) : phase[queue[i]] = "queued"
    /\ \A i, j \in 1 .. Len(queue) : queue[i] = queue[j] => i = j

SlotInv == phase \in [Request -> Phases] /\ SlotsOK /\ WaitsOnce

LEMMA RunningIsFinite == IsFiniteSet(Running) /\ Cardinality(Running) \in Nat
<1>1. IsFiniteSet(Request) BY ServiceAssumption
<1>2. IsFiniteSet(Running) BY <1>1, FS_Subset DEF Running
<1> QED BY <1>2, FS_CardinalityType

LEMMA OneStarts ==
    ASSUME phase \in [Request -> Phases], NEW r \in Request, phase[r] # "running",
           phase' = [phase EXCEPT ![r] = "running"]
    PROVE  Cardinality(Running)' = Cardinality(Running) + 1
<1>1. Running' = Running \cup {r} BY DEF Running
<1>2. r \notin Running BY DEF Running
<1> QED BY <1>1, <1>2, RunningIsFinite, FS_AddElement

LEMMA OneEnds ==
    ASSUME phase \in [Request -> Phases], NEW r \in Request, phase[r] = "running",
           NEW p \in Phases, p # "running", phase' = [phase EXCEPT ![r] = p]
    PROVE  Cardinality(Running)' = Cardinality(Running) - 1
<1>1. Running' = Running \ {r} BY DEF Running
<1>2. r \in Running BY DEF Running
<1> QED BY <1>1, <1>2, RunningIsFinite, FS_RemoveElement

LEMMA SlotsInitially == Init => SlotInv
<1> SUFFICES ASSUME Init PROVE SlotInv OBVIOUS
<1>1. Running = {} BY DEF Init, Running
<1>2. Cardinality(Running) = 0 BY <1>1, FS_EmptySet
<1>3. phase \in [Request -> Phases] BY DEF Init, Phases
<1>4. SlotsOK BY <1>2, ServiceAssumption DEF Init, SlotsOK
<1>5. queue = <<>> /\ Len(queue) = 0 /\ queue \in Seq(Request) BY DEF Init
<1>6. WaitsOnce BY <1>5 DEF WaitsOnce
<1> QED BY <1>3, <1>4, <1>6 DEF SlotInv

LEMMA SlotsPreserved == SlotInv /\ [Next]_vars => SlotInv'
<1> SUFFICES ASSUME SlotInv, [Next]_vars PROVE SlotInv' OBVIOUS
<1> USE DEF SlotInv
<1>1. ASSUME UNCHANGED <<phase, queue, slots>> PROVE SlotInv'
  <2>1. Running' = Running BY <1>1 DEF Running
  <2> QED BY <1>1, <2>1 DEF SlotsOK, WaitsOnce
<1>2. ASSUME NEW r \in Request, Arrive(r) PROVE SlotInv'
  <2>1. /\ phase[r] = "new" /\ phase' = [phase EXCEPT ![r] = "queued"]
        /\ queue' = Append(queue, r) /\ UNCHANGED slots
    BY <1>2 DEF Arrive
  <2>2. Running' = Running BY <2>1 DEF Running
  <2>3. WaitsOnce'
    <3>1. /\ queue' \in Seq(Request) /\ Len(queue') = Len(queue) + 1 /\ Len(queue) \in Nat
          /\ \A i \in 1 .. Len(queue) : queue'[i] = queue[i] /\ queue[i] \in Request
          /\ queue'[Len(queue) + 1] = r
      BY <2>1 DEF WaitsOnce
    <3>2. \A i \in 1 .. Len(queue) : queue[i] # r BY <2>1 DEF WaitsOnce
    <3> QED BY <2>1, <3>1, <3>2 DEF WaitsOnce
  <2>4. phase' \in [Request -> Phases] BY <2>1 DEF Phases
  <2> QED BY <2>1, <2>2, <2>3, <2>4 DEF SlotsOK
<1>3. ASSUME NEW r \in Request, Acquire(r) PROVE SlotInv'
  <2>1. /\ queue # <<>> /\ Head(queue) = r /\ slots > 0
        /\ phase' = [phase EXCEPT ![r] = "running"]
        /\ queue' = Tail(queue) /\ slots' = slots - 1
    BY <1>3 DEF Acquire, Admits
  <2>2. /\ Len(queue) \in Nat /\ Len(queue) > 0 /\ queue[1] = r
        /\ queue' \in Seq(Request) /\ Len(queue') = Len(queue) - 1
        /\ \A i \in 1 .. Len(queue') : queue'[i] = queue[i + 1] /\ queue'[i] \in Request
    BY <2>1 DEF WaitsOnce
  <2>3. phase[r] = "queued" BY <2>2 DEF WaitsOnce
  <2>4. WaitsOnce'
    <3>1. \A i \in 1 .. Len(queue') : i + 1 \in 1 .. Len(queue) /\ i + 1 # 1 BY <2>2
    <3>2. \A i \in 1 .. Len(queue') : queue'[i] # r BY <2>2, <3>1 DEF WaitsOnce
    <3>3. \A i \in 1 .. Len(queue') : phase'[queue'[i]] = "queued"
      BY <2>1, <2>2, <3>1, <3>2 DEF WaitsOnce
    <3>4. ASSUME NEW i \in 1 .. Len(queue'), NEW j \in 1 .. Len(queue'), queue'[i] = queue'[j]
          PROVE  i = j
      <4>1. queue[i + 1] = queue[j + 1] BY <2>2, <3>4
      <4>2. i + 1 = j + 1 BY <3>1, <4>1 DEF WaitsOnce
      <4> QED BY <2>2, <4>2
    <3> QED BY <2>2, <3>3, <3>4 DEF WaitsOnce
  <2>5. Cardinality(Running)' = Cardinality(Running) + 1 BY <2>1, <2>3, OneStarts
  <2>6. slots' + Cardinality(Running)' = MaxConcurrency
    BY <2>1, <2>5, RunningIsFinite DEF SlotsOK
  <2>7. slots' \in Nat BY <2>1 DEF SlotsOK
  <2>8. phase' \in [Request -> Phases] BY <2>1 DEF Phases
  <2> QED BY <2>4, <2>6, <2>7, <2>8 DEF SlotsOK
<1>4. ASSUME NEW r \in Request, Answer(r) \/ TimeOut(r) PROVE SlotInv'
  <2>1. PICK p \in {"answered", "failed", "expired"} :
          /\ phase[r] = "running" /\ phase' = [phase EXCEPT ![r] = p]
          /\ UNCHANGED queue /\ slots' = slots + 1
    BY <1>4 DEF Answer, TimeOut, SlotsAfter
  <2>2. Cardinality(Running)' = Cardinality(Running) - 1
    <3>1. p \in Phases /\ p # "running" BY DEF Phases
    <3> QED BY <2>1, <3>1, OneEnds
  <2>3. WaitsOnce' BY <2>1 DEF WaitsOnce
  <2>4. slots' + Cardinality(Running)' = MaxConcurrency
    BY <2>1, <2>2, RunningIsFinite DEF SlotsOK
  <2>5. phase' \in [Request -> Phases] BY <2>1 DEF Phases
  <2>6. slots' \in Nat BY <2>1 DEF SlotsOK
  <2> QED BY <2>3, <2>4, <2>5, <2>6 DEF SlotsOK
<1>5. ASSUME NEW r \in Request, Run(r) PROVE SlotInv'
  BY <1>1, <1>5 DEF Run, Compress, StoreResiduals
<1>6. ASSUME NEW s \in Session, NEW handles \in Asks, BeginExpand(s, handles) PROVE SlotInv'
  BY <1>1, <1>6 DEF BeginExpand
<1>7. CASE Read \/ EndExpand \/ Tick BY <1>1, <1>7 DEF Read, EndExpand, Tick
<1>8. CASE UNCHANGED vars BY <1>1, <1>8 DEF vars
<1> QED BY <1>2, <1>3, <1>4, <1>5, <1>6, <1>7, <1>8 DEF Next, Serve

\* However requests end, slots and requests being served add up.
THEOREM SlotsAreReturned == Spec => []SlotsAddUp
<1>1. SlotInv => SlotsAddUp
  BY RunningIsFinite DEF SlotInv, SlotsOK, SlotsAddUp, Running
<1> QED BY <1>1, SlotsInitially, SlotsPreserved, PTL DEF Spec

-----------------------------------------------------------------------------
(***************************************************************************)
(* The store.  Eviction, expiry, reading and ageing only forget; a write   *)
(* shows its own spans at their own addresses and nothing new elsewhere.   *)
(***************************************************************************)
IsSpan(x) == x = [text |-> x.text, age |-> x.age]

IsStore(st) ==
    /\ st = [data |-> st.data, keys |-> st.keys, lru |-> st.lru, chars |-> st.chars]
    /\ st.data = [s \in Session |-> st.data[s]]
    /\ \A s \in Session : \A h \in DOMAIN st.data[s] : IsSpan(st.data[s][h])

Shown(st, s, h) == IF h \in DOMAIN st.data[s] THEN st.data[s][h].text ELSE Nothing

Forgets(st, nx) ==
    \A s \in Session, h \in Handle : Shown(nx, s, h) \in {Nothing, Shown(st, s, h)}

\* A store whose sessions hold parts of what they held has forgotten.
LEMMA PartForgets ==
    ASSUME NEW st, IsStore(st), NEW nx,
           nx = [data |-> nx.data, keys |-> nx.keys, lru |-> nx.lru, chars |-> nx.chars],
           nx.data = [s \in Session |-> nx.data[s]],
           \A s \in Session : /\ DOMAIN nx.data[s] \subseteq DOMAIN st.data[s]
                              /\ \A h \in DOMAIN nx.data[s] : nx.data[s][h] = st.data[s][h]
    PROVE  IsStore(nx) /\ Forgets(st, nx)
BY DEF IsStore, Forgets, Shown

LEMMA KeepsPart ==
    ASSUME NEW f, NEW H, H \subseteq DOMAIN f
    PROVE  DOMAIN Keep(f, H) = H /\ \A h \in H : Keep(f, H)[h] = f[h]
BY DEF Keep

LEMMA EvictionForgets ==
    ASSUME NEW st, IsStore(st)
    PROVE  IsStore(EvictLru(st)) /\ Forgets(st, EvictLru(st))
<1> DEFINE gone == Popped(st)
<1>1. EvictLru(st) = [data |-> [s \in Session |-> IF s \in gone THEN Nothing ELSE st.data[s]],
                      keys |-> st.keys \ gone, lru |-> Among(st.lru, st.keys \ gone),
                      chars |-> st.chars - CharsOf(st, gone)]
  BY DEF EvictLru
<1> HIDE DEF gone
<1>2. DOMAIN Nothing = {} BY DEF Nothing
<1> QED BY <1>1, <1>2, PartForgets

LEMMA ExpiryForgets ==
    ASSUME NEW st, IsStore(st)
    PROVE  IsStore(Expire(st)) /\ Forgets(st, Expire(st))
<1>1. CASE Ttl = 0 BY <1>1 DEF Expire, Forgets
<1>2. CASE Ttl # 0
  <2>1. Expire(st) = [data |-> [s \in Session |-> Fresh(st.data[s])], keys |-> InUse(st),
                      lru |-> Among(st.lru, InUse(st)), chars |-> st.chars - SpoiltChars(st.data)]
    BY <1>2 DEF Expire
  <2>2. \A s \in Session :
           /\ DOMAIN Fresh(st.data[s]) \subseteq DOMAIN st.data[s]
           /\ \A h \in DOMAIN Fresh(st.data[s]) : Fresh(st.data[s])[h] = st.data[s][h]
    BY KeepsPart DEF Fresh
  <2> QED BY <2>1, <2>2, PartForgets
<1> QED BY <1>1, <1>2

LEMMA WritingShows ==
    ASSUME NEW st, IsStore(st), NEW s \in Session, NEW spans,
           \A h \in DOMAIN spans : IsSpan(spans[h])
    PROVE  /\ IsStore(Write(st, s, spans))
           /\ \A x \in Session, h \in Handle : Shown(Write(st, s, spans), x, h) =
                IF x = s /\ h \in DOMAIN spans THEN spans[h].text ELSE Shown(st, x, h)
<1> DEFINE nx == Write(st, s, spans)
<1>1. /\ nx = [data |-> nx.data, keys |-> nx.keys, lru |-> nx.lru, chars |-> nx.chars]
      /\ nx.data = [st.data EXCEPT ![s] = Over(spans, st.data[s])]
  BY DEF Write
<1> HIDE DEF nx
<1>2. /\ nx.data = [x \in Session |-> nx.data[x]]
      /\ \A x \in Session : nx.data[x] = IF x = s THEN Over(spans, st.data[s]) ELSE st.data[x]
  BY <1>1 DEF IsStore
<1>3. /\ DOMAIN Over(spans, st.data[s]) = DOMAIN spans \cup DOMAIN st.data[s]
      /\ \A h \in DOMAIN spans \cup DOMAIN st.data[s] : Over(spans, st.data[s])[h] =
            IF h \in DOMAIN spans THEN spans[h] ELSE st.data[s][h]
  BY DEF Over
<1>4. IsStore(nx) BY <1>1, <1>2, <1>3 DEF IsStore
<1>5. \A x \in Session, h \in Handle : Shown(nx, x, h) =
         IF x = s /\ h \in DOMAIN spans THEN spans[h].text ELSE Shown(st, x, h)
  BY <1>2, <1>3 DEF Shown
<1> QED BY <1>4, <1>5 DEF nx

LEMMA ReadingForgets ==
    ASSUME NEW st, IsStore(st), NEW s \in Session, NEW h
    PROVE  IsStore(Get(st, s, h)) /\ Forgets(st, Get(st, s, h))
<1> DEFINE nx == Get(st, s, h)
<1>1. CASE nx = st BY <1>1 DEF Forgets
<1>2. CASE nx = [st EXCEPT !.lru = Touch(st, s)]
  <2>1. nx = [data |-> st.data, keys |-> st.keys, lru |-> Touch(st, s), chars |-> st.chars] BY <1>2 DEF IsStore
  <2> HIDE DEF nx
  <2>2. IsStore(nx) /\ Forgets(st, nx) BY <2>1, PartForgets DEF IsStore
  <2> QED BY <2>2 DEF nx
<1>3. CASE /\ h \in DOMAIN st.data[s]
           /\ nx = [st EXCEPT !.data[s] = Keep(@, (DOMAIN @) \ {h}),
                              !.chars = @ - Length(st.data[s][h].text)]
  <2> DEFINE kept == Keep(st.data[s], (DOMAIN st.data[s]) \ {h})
             left == st.chars - Length(st.data[s][h].text)
  <2>1. /\ nx = [data |-> nx.data, keys |-> nx.keys, lru |-> nx.lru, chars |-> nx.chars]
        /\ nx.data = [st.data EXCEPT ![s] = kept]
    BY <1>3 DEF IsStore
  <2>2. DOMAIN kept \subseteq DOMAIN st.data[s] /\ \A k \in DOMAIN kept : kept[k] = st.data[s][k]
    BY KeepsPart
  <2> HIDE DEF nx, kept
  <2>3. IsStore(nx) /\ Forgets(st, nx) BY <2>1, <2>2, PartForgets DEF IsStore
  <2> QED BY <2>3 DEF nx
<1> QED BY <1>1, <1>2, <1>3 DEF Get

LEMMA AgeingShowsTheSame ==
    ASSUME NEW st, IsStore(st)
    PROVE  IsStore(Older(st)) /\ Forgets(st, Older(st))
<1> DEFINE nx == Older(st)
<1>1. nx = [data |-> [s \in Session |-> AgedSpans(st.data[s])], keys |-> st.keys,
            lru |-> st.lru, chars |-> st.chars]
  BY DEF Older, IsStore
<1>2. ASSUME NEW s \in Session, NEW h \in DOMAIN st.data[s]
      PROVE  AgedSpans(st.data[s])[h] = [text |-> st.data[s][h].text, age |-> Aged(st.data[s][h].age)]
  <2>1. IsSpan(st.data[s][h]) BY DEF IsStore
  <2>2. AgedSpans(st.data[s])[h] = [st.data[s][h] EXCEPT !.age = Aged(st.data[s][h].age)]
    BY DEF AgedSpans
  <2> QED BY <2>1, <2>2 DEF IsSpan
<1>3. \A s \in Session : /\ DOMAIN AgedSpans(st.data[s]) = DOMAIN st.data[s]
                         /\ AgedSpans(st.data[s]) = [h \in DOMAIN st.data[s] |-> AgedSpans(st.data[s])[h]]
  BY DEF AgedSpans
<1> HIDE DEF nx
<1>4. /\ nx = [data |-> nx.data, keys |-> nx.keys, lru |-> nx.lru, chars |-> nx.chars]
      /\ nx.data = [s \in Session |-> nx.data[s]]
      /\ \A s \in Session : nx.data[s] = AgedSpans(st.data[s])
  BY <1>1
<1>5. ASSUME NEW s \in Session, NEW h \in DOMAIN nx.data[s]
      PROVE  /\ h \in DOMAIN st.data[s] /\ IsSpan(nx.data[s][h])
             /\ nx.data[s][h].text = st.data[s][h].text
  <2>1. h \in DOMAIN st.data[s] /\ nx.data[s][h] = AgedSpans(st.data[s])[h] BY <1>3, <1>4
  <2>2. nx.data[s][h] = [text |-> st.data[s][h].text, age |-> Aged(st.data[s][h].age)]
    BY <1>2, <2>1
  <2> QED BY <2>1, <2>2 DEF IsSpan
<1>6. IsStore(nx) BY <1>4, <1>5 DEF IsStore
<1>7. \A s \in Session, h \in Handle : h \in DOMAIN nx.data[s] <=> h \in DOMAIN st.data[s]
  BY <1>3, <1>4
<1>8. Forgets(st, nx) BY <1>5, <1>7 DEF Forgets, Shown
<1> QED BY <1>6, <1>8 DEF nx

-----------------------------------------------------------------------------
(***************************************************************************)
(* Every step of the service is a write, a loss, or nothing to the store.  *)
(***************************************************************************)
ReaderOK ==
    /\ reader = [session |-> reader.session, todo |-> reader.todo, busy |-> reader.busy]
    /\ reader.busy => reader.session \in Session

StoreInv == IsStore(store) /\ call \in Calls /\ ReaderOK

Held == [a \in Session \X Handle |->
            IF a[2] \in DOMAIN store.data[a[1]] THEN store.data[a[1]][a[2]].text ELSE Nothing]

LEMMA HeldShows == /\ DOMAIN Held = Session \X Handle
                   /\ \A a \in Session \X Handle : Held[a] = Shown(store, a[1], a[2])
BY DEF Held, Shown

LEMMA HeldShowsNext == /\ DOMAIN Held' = Session \X Handle
                       /\ \A a \in Session \X Handle : Held'[a] = Shown(store', a[1], a[2])
BY DEF Held, Shown

LEMMA StoreInitially == Init => StoreInv /\ Lossy!Init
<1> SUFFICES ASSUME Init PROVE StoreInv /\ Lossy!Init OBVIOUS
<1>1. store = [data |-> [s \in Session |-> Nothing], keys |-> {}, lru |-> {}, chars |-> 0]
  BY DEF Init, Empty
<1>2. DOMAIN Nothing = {} BY DEF Nothing
<1> QED BY <1>1, <1>2 DEF Init, StoreInv, IsStore, ReaderOK, Idle, Lossy!Init

\* Forgetting is a step of the abstract memory.
LEMMA LossIsAllowed ==
    ASSUME Forgets(store, store')
    PROVE  Lossy!Forget
<1>1. /\ DOMAIN Held' = DOMAIN Held
      /\ \A a \in DOMAIN Held : Held'[a] \in {Nothing, Held[a]}
  BY HeldShows, HeldShowsNext DEF Forgets
<1> QED BY <1>1 DEF Held, Lossy!Forget

LEMMA StoringIsWriting ==
    ASSUME StoreInv, NEW r \in Request, StoreResiduals(r)
    PROVE  IsStore(store') /\ Lossy!Next
<1>1. call[r] \in Call BY ServiceAssumption DEF StoreInv
<1>2. call[r].session \in Session BY <1>1 DEF Call
<1>3. CASE DOMAIN Cut(r) = {}
  <2>1. store' = store BY <1>3 DEF StoreResiduals
  <2>2. Forgets(store, store') BY <2>1 DEF Forgets
  <2> QED BY <2>1, <2>2, LossIsAllowed DEF StoreInv, Lossy!Next
<1>4. CASE DOMAIN Cut(r) # {}
  <2> DEFINE s == call[r].session
             written == Write(store, s, Spans(r))
  <2>1. store' = EvictLru(Expire(written)) BY <1>4 DEF StoreResiduals, Put
  <2>2. /\ DOMAIN Spans(r) = DOMAIN Cut(r)
        /\ \A h \in DOMAIN Cut(r) : IsSpan(Spans(r)[h]) /\ Spans(r)[h].text = Cut(r)[h]
    BY DEF Spans, IsSpan
  <2>3. /\ IsStore(written)
        /\ \A x \in Session, h \in Handle : Shown(written, x, h) =
              IF x = s /\ h \in DOMAIN Cut(r) THEN Cut(r)[h] ELSE Shown(store, x, h)
    BY <1>2, <2>2, WritingShows DEF StoreInv
  <2> HIDE DEF written
  <2>4. IsStore(Expire(written)) /\ Forgets(written, Expire(written)) BY <2>3, ExpiryForgets
  <2>5. IsStore(store') /\ Forgets(Expire(written), store') BY <2>1, <2>4, EvictionForgets
  <2>6. \A x \in Session, h \in Handle : Shown(store', x, h) \in
           {Nothing, IF x = s /\ h \in DOMAIN Cut(r) THEN Cut(r)[h] ELSE Shown(store, x, h)}
    BY <2>3, <2>4, <2>5 DEF Forgets
  <2>7. /\ DOMAIN Held' = DOMAIN Held
        /\ \A a \in DOMAIN Held : Held'[a] \in
             {Nothing, IF a[1] = s /\ a[2] \in DOMAIN call[r].cut THEN call[r].cut[a[2]] ELSE Held[a]}
    BY <2>6, HeldShows, HeldShowsNext DEF Cut
  <2>8. call[r].cut \in {c[q].cut : c \in Calls, q \in Request} BY DEF StoreInv
  <2>9. \E x \in Session, cut \in {c[q].cut : c \in Calls, q \in Request} : Lossy!Write(x, cut)
    <3> DEFINE cuts == {c[q].cut : c \in Calls, q \in Request}
    <3>1. s \in Session /\ call[r].cut \in cuts BY <1>2, <2>8
    <3> HIDE DEF s, cuts
    <3>2. PICK x \in Session, cut \in cuts : x = s /\ cut = call[r].cut BY <3>1
    <3>3. Lossy!Write(x, cut) BY <2>7, <3>2 DEF Held, Lossy!Write, Lossy!Written
    <3> QED BY <3>3 DEF cuts
  <2> QED BY <2>5, <2>9 DEF Lossy!Next
<1> QED BY <1>3, <1>4

LEMMA StoreSteps == StoreInv /\ [Next]_vars => StoreInv' /\ (Lossy!Next \/ UNCHANGED Held)
<1> SUFFICES ASSUME StoreInv, [Next]_vars PROVE StoreInv' /\ (Lossy!Next \/ UNCHANGED Held)
  OBVIOUS
<1>1. ASSUME UNCHANGED <<call, store>>, ReaderOK' PROVE StoreInv' /\ UNCHANGED Held
  BY <1>1 DEF StoreInv, Held
<1>2. ASSUME IsStore(store'), Forgets(store, store'), UNCHANGED call, ReaderOK'
      PROVE  StoreInv' /\ Lossy!Next
  BY <1>2, LossIsAllowed DEF StoreInv, Lossy!Next
<1>3. ASSUME UNCHANGED reader PROVE ReaderOK' BY <1>3 DEF StoreInv, ReaderOK
<1>4. ASSUME NEW r \in Request, StoreResiduals(r) PROVE StoreInv' /\ Lossy!Next
  BY <1>3, <1>4, StoringIsWriting DEF StoreInv, StoreResiduals
<1>5. CASE Read
  <2>1. reader.session \in Session BY <1>5 DEF Read, StoreInv, ReaderOK
  <2>2. ReaderOK' BY <1>5 DEF Read, StoreInv, ReaderOK
  <2> QED BY <1>2, <1>5, <2>1, <2>2, ReadingForgets DEF Read, StoreInv
<1>6. CASE Tick BY <1>2, <1>3, <1>6, AgeingShowsTheSame DEF Tick, StoreInv
<1>7. ASSUME NEW r \in Request, Arrive(r) \/ Serve(r) \/ Compress(r)
      PROVE  StoreInv' /\ UNCHANGED Held
  BY <1>1, <1>3, <1>7 DEF Arrive, Serve, Acquire, Answer, TimeOut, Compress
<1>8. ASSUME NEW s \in Session, NEW handles \in Asks, BeginExpand(s, handles)
      PROVE  StoreInv' /\ UNCHANGED Held
  BY <1>1, <1>8 DEF BeginExpand, ReaderOK
<1>9. CASE EndExpand BY <1>1, <1>9 DEF EndExpand, ReaderOK, Idle
<1>10. CASE UNCHANGED vars BY <1>1, <1>3, <1>10 DEF vars
<1> QED BY <1>4, <1>5, <1>6, <1>7, <1>8, <1>9, <1>10 DEF Next, Run

\* Whatever threads, late threads and readers do, an address shows the last text
\* written to it or nothing.
THEOREM StoreIsLossyMemory == Spec => ImplementsLossyStore
<1>1. StoreInv /\ [Next]_vars => [Lossy!Next]_Held BY StoreSteps
<1>2. StoreInv /\ [Next]_vars => StoreInv' BY StoreSteps
<1> QED BY <1>1, <1>2, StoreInitially, PTL DEF Spec, ImplementsLossyStore, Lossy!Spec, Held
-----------------------------------------------------------------------------
(***************************************************************************)
(* The accounts.  Characters are counted by bucket and then by session, so *)
(* each operation is first described by what it does to one bucket.        *)
(***************************************************************************)
IsBucket(b) == DOMAIN b \subseteq Handle /\ \A h \in DOMAIN b : Length(b[h].text) \in Nat

SizesIn(b)    == [h \in DOMAIN b |-> Length(b[h].text)]
SizesOf(data) == [s \in Session |-> Chars(data[s])]

LEMMA CharsOfPart ==
    ASSUME NEW b, IsBucket(b), NEW H, H \subseteq DOMAIN b
    PROVE  /\ IsFiniteSet(H) /\ IsBucket(Keep(b, H))
           /\ Chars(Keep(b, H)) = SumFunctionOnSet(SizesIn(b), H)
           /\ Chars(Keep(b, H)) \in Nat
<1>1. IsFiniteSet(H)
  <2>1. IsFiniteSet(Handle) /\ H \in SUBSET Handle BY ServiceAssumption DEF IsBucket
  <2> QED BY <2>1, FS_Subset
<1>2. DOMAIN Keep(b, H) = H /\ \A h \in H : Keep(b, H)[h] = b[h] BY DEF Keep
<1>3. IsBucket(Keep(b, H)) BY <1>2 DEF IsBucket
<1> DEFINE f == SizesIn(Keep(b, H))
<1>4. DOMAIN f = H /\ \A h \in H : f[h] = SizesIn(b)[h] /\ f[h] \in Nat
  BY <1>2 DEF SizesIn, IsBucket
<1>5. Chars(Keep(b, H)) = SumFunction(f) BY DEF Chars, SizesIn
<1> HIDE DEF f
<1>6. Chars(Keep(b, H)) = SumFunctionOnSet(f, H) BY <1>4, <1>5, SumOfFunction
<1> QED BY <1>1, <1>3, <1>4, <1>6, SumOfSame, SumIsNat

LEMMA CharsOfAll ==
    ASSUME NEW b, IsBucket(b)
    PROVE  /\ Chars(b) = SumFunctionOnSet(SizesIn(b), DOMAIN b)
           /\ Chars(b) \in Nat /\ IsFiniteSet(DOMAIN b)
<1>1. IsFiniteSet(DOMAIN b) BY CharsOfPart
<1>2. DOMAIN SizesIn(b) = DOMAIN b /\ \A h \in DOMAIN b : SizesIn(b)[h] \in Nat
  BY DEF SizesIn, IsBucket
<1>3. Chars(b) = SumFunction(SizesIn(b)) BY DEF Chars, SizesIn
<1>4. Chars(b) = SumFunctionOnSet(SizesIn(b), DOMAIN b) BY <1>2, <1>3, SumOfFunction
<1> QED BY <1>1, <1>2, <1>4, SumIsNat

LEMMA CharsSplit ==
    ASSUME NEW b, IsBucket(b), NEW H, H \subseteq DOMAIN b
    PROVE  Chars(b) = Chars(Keep(b, H)) + Chars(Keep(b, (DOMAIN b) \ H))
<1>1. Chars(b) = SumFunctionOnSet(SizesIn(b), DOMAIN b) /\ IsFiniteSet(DOMAIN b) BY CharsOfAll
<1>2. \A h \in DOMAIN b : SizesIn(b)[h] \in Int BY DEF SizesIn, IsBucket
<1>3. H \in SUBSET DOMAIN b OBVIOUS
<1>4. SumFunctionOnSet(SizesIn(b), DOMAIN b) =
        SumFunctionOnSet(SizesIn(b), H) + SumFunctionOnSet(SizesIn(b), (DOMAIN b) \ H)
  BY <1>1, <1>2, <1>3, SumSplits
<1>5. /\ Chars(Keep(b, H)) = SumFunctionOnSet(SizesIn(b), H)
      /\ Chars(Keep(b, (DOMAIN b) \ H)) = SumFunctionOnSet(SizesIn(b), (DOMAIN b) \ H)
  BY CharsOfPart
<1> QED BY <1>1, <1>4, <1>5

\* Texts alone decide what a bucket costs.
LEMMA SameChars ==
    ASSUME NEW b, NEW c, IsBucket(b), DOMAIN c = DOMAIN b,
           \A h \in DOMAIN b : c[h].text = b[h].text
    PROVE  IsBucket(c) /\ Chars(c) = Chars(b)
<1>1. IsBucket(c) BY DEF IsBucket
<1>2. \A h \in DOMAIN b : SizesIn(c)[h] = SizesIn(b)[h] BY DEF SizesIn
<1>3. /\ Chars(b) = SumFunctionOnSet(SizesIn(b), DOMAIN b) /\ IsFiniteSet(DOMAIN b)
      /\ Chars(c) = SumFunctionOnSet(SizesIn(c), DOMAIN b)
  BY <1>1, CharsOfAll
<1>4. SumFunctionOnSet(SizesIn(b), DOMAIN b) = SumFunctionOnSet(SizesIn(c), DOMAIN b)
  BY <1>2, <1>3, SumOfSame
<1> QED BY <1>1, <1>3, <1>4

LEMMA CharsOfNone ==
    ASSUME NEW b, DOMAIN b = {}
    PROVE  IsBucket(b) /\ Chars(b) = 0
<1>1. IsBucket(b) BY DEF IsBucket
<1> QED BY <1>1, CharsOfAll, SumOfNone

\* A bucket written over costs its own part and what it leaves of the old one.
LEMMA CharsOfOver ==
    ASSUME NEW new, IsBucket(new), NEW b, IsBucket(b)
    PROVE  LET left == Keep(b, (DOMAIN b) \ (DOMAIN new)) IN
           /\ IsBucket(Over(new, b)) /\ IsBucket(left)
           /\ Chars(Over(new, b)) = Chars(new) + Chars(left)
           /\ Chars(Over(new, b)) = Chars(b) - Chars(Keep(b, (DOMAIN b) \cap (DOMAIN new)))
                                        + Chars(new)
<1> DEFINE o == Over(new, b)
           D == DOMAIN new
           L == (DOMAIN b) \ D
<1>1. /\ DOMAIN o = D \cup DOMAIN b
      /\ \A h \in D : o[h] = new[h]
      /\ \A h \in L : o[h] = b[h]
  BY DEF Over
<1> HIDE DEF o
<1>2. IsBucket(o) BY <1>1 DEF IsBucket
<1>3. D \subseteq DOMAIN o /\ (DOMAIN o) \ D = L BY <1>1
<1>4. Chars(o) = Chars(Keep(o, D)) + Chars(Keep(o, L)) BY <1>2, <1>3, CharsSplit
<1>5. Chars(Keep(o, D)) = Chars(new)
  <2>1. DOMAIN Keep(o, D) = DOMAIN new /\ \A h \in DOMAIN new : Keep(o, D)[h].text = new[h].text
    BY <1>1 DEF Keep
  <2> QED BY <2>1, SameChars
<1>6. IsBucket(Keep(b, L)) /\ Chars(Keep(o, L)) = Chars(Keep(b, L))
  <2>1. Keep(o, L) = Keep(b, L) BY <1>1 DEF Keep
  <2> QED BY <2>1, CharsOfPart
<1>7. Chars(b) = Chars(Keep(b, (DOMAIN b) \cap D)) + Chars(Keep(b, L))
  <2>1. (DOMAIN b) \cap D \subseteq DOMAIN b /\ (DOMAIN b) \ ((DOMAIN b) \cap D) = L OBVIOUS
  <2> QED BY <2>1, CharsSplit
<1>8. /\ Chars(Keep(b, L)) \in Nat /\ Chars(Keep(b, (DOMAIN b) \cap D)) \in Nat
      /\ Chars(new) \in Nat
  BY CharsOfPart, CharsOfAll
<1> HIDE DEF D, L
<1>9. /\ Chars(o) = Chars(new) + Chars(Keep(b, L))
      /\ Chars(o) = Chars(b) - Chars(Keep(b, (DOMAIN b) \cap D)) + Chars(new)
  BY <1>4, <1>5, <1>6, <1>7, <1>8
<1> QED BY <1>2, <1>6, <1>9 DEF o, D, L

\* The whole store.
LEMMA TotalIsSum ==
    ASSUME NEW data, \A s \in Session : IsBucket(data[s])
    PROVE  /\ Total(data) = SumFunctionOnSet(SizesOf(data), Session) /\ Total(data) \in Nat
           /\ IsFiniteSet(Session)
           /\ \A s \in Session : SizesOf(data)[s] = Chars(data[s]) /\ SizesOf(data)[s] \in Nat
<1>1. IsFiniteSet(Session) BY ServiceAssumption
<1>2. \A s \in Session : SizesOf(data)[s] = Chars(data[s]) /\ SizesOf(data)[s] \in Nat
  BY CharsOfAll DEF SizesOf
<1>3. Total(data) = SumFunction(SizesOf(data)) /\ DOMAIN SizesOf(data) = Session
  BY DEF Total, SizesOf
<1>4. Total(data) = SumFunctionOnSet(SizesOf(data), Session) BY <1>3, SumOfFunction
<1> QED BY <1>1, <1>2, <1>4, SumIsNat

LEMMA OneBucketChanges ==
    ASSUME NEW data, NEW nx, NEW e \in Session,
           \A s \in Session : IsBucket(data[s]) /\ IsBucket(nx[s]),
           \A s \in Session : s # e => Chars(nx[s]) = Chars(data[s])
    PROVE  Total(nx) = Total(data) - Chars(data[e]) + Chars(nx[e])
<1> DEFINE f == SizesOf(data)
           g == SizesOf(nx)
<1>1. /\ Total(data) = SumFunctionOnSet(f, Session) /\ Total(nx) = SumFunctionOnSet(g, Session)
      /\ IsFiniteSet(Session)
      /\ \A s \in Session : /\ f[s] = Chars(data[s]) /\ g[s] = Chars(nx[s])
                            /\ f[s] \in Int /\ g[s] \in Int
  BY TotalIsSum
<1> HIDE DEF f, g
<1>2. \A s \in Session : s # e => g[s] = f[s] BY <1>1
<1>4. \A s \in Session : f[s] \in Int /\ g[s] \in Int BY <1>1
<1>3. SumFunctionOnSet(g, Session) = SumFunctionOnSet(f, Session) - f[e] + g[e]
  BY <1>1, <1>2, <1>4, SumChangesAt
<1> QED BY <1>1, <1>3

-----------------------------------------------------------------------------
(***************************************************************************)
(* A store whose accounts are in order: the count is the total, whatever   *)
(* holds something is listed, and the listed sessions are strictly ordered *)
(* by use.  Every operation keeps them in order, and eviction, which looks *)
(* at the count and at the listed sessions only, brings the total under    *)
(* the cap.                                                                *)
(***************************************************************************)
Ordered(keys, lru) ==
    /\ keys \subseteq Session
    /\ \A x, y \in keys : x # y => <<x, y>> \in lru \/ <<y, x>> \in lru
    /\ \A x, y, z \in keys : <<x, y>> \in lru /\ <<y, z>> \in lru => <<x, z>> \in lru
    /\ \A x \in keys : <<x, x>> \notin lru

Sized(st) == \A s \in Session : IsBucket(st.data[s])

Sound(st) ==
    /\ IsStore(st) /\ Sized(st) /\ Ordered(st.keys, st.lru)
    /\ st.chars = Total(st.data)
    /\ \A s \in Session : DOMAIN st.data[s] # {} => s \in st.keys

LEMMA TouchOrders ==
    ASSUME NEW st, Ordered(st.keys, st.lru), NEW s \in Session
    PROVE  Ordered(st.keys \cup {s}, Touch(st, s))
<1> DEFINE t == Touch(st, s)
<1>1. \A x, y \in st.keys \cup {s} : <<x, y>> \in t <=>
         \/ x # s /\ y # s /\ <<x, y>> \in st.lru
         \/ x # s /\ y = s
  BY DEF Touch
<1> HIDE DEF t
<1> QED BY <1>1 DEF Ordered, t

LEMMA AmongOrders ==
    ASSUME NEW st, Ordered(st.keys, st.lru), NEW K, K \subseteq st.keys
    PROVE  Ordered(K, Among(st.lru, K))
<1> DEFINE t == Among(st.lru, K)
<1>1. \A x, y \in K : <<x, y>> \in t <=> <<x, y>> \in st.lru BY DEF Among
<1> HIDE DEF t
<1> QED BY <1>1 DEF Ordered, t

LEMMA WriteSound ==
    ASSUME NEW st, Sound(st), NEW s \in Session, NEW spans, IsBucket(spans),
           \A h \in DOMAIN spans : IsSpan(spans[h])
    PROVE  Sound(Write(st, s, spans))
<1> DEFINE nx == Write(st, s, spans)
           old == st.data[s]
<1>1. /\ nx.data = [st.data EXCEPT ![s] = Over(spans, old)]
      /\ nx.keys = st.keys \cup {s} /\ nx.lru = Touch(st, s)
      /\ nx.chars = st.chars - Chars(Keep(old, (DOMAIN old) \cap (DOMAIN spans))) + Chars(spans)
  BY DEF Write
<1>2. IsStore(nx) BY WritingShows DEF Sound
<1>3. \A x \in Session : nx.data[x] = IF x = s THEN Over(spans, old) ELSE st.data[x]
  BY <1>1 DEF Sound, IsStore
<1> HIDE DEF nx
<1>4. /\ IsBucket(old) /\ IsBucket(Over(spans, old))
      /\ Chars(Over(spans, old)) = Chars(old) - Chars(Keep(old, (DOMAIN old) \cap (DOMAIN spans)))
                                        + Chars(spans)
  BY CharsOfOver DEF Sound, Sized
<1>5. Sized(nx) BY <1>3, <1>4 DEF Sound, Sized
<1>6. Total(nx.data) = Total(st.data) - Chars(old) + Chars(Over(spans, old))
  <2>1. \A x \in Session : IsBucket(st.data[x]) /\ IsBucket(nx.data[x])
    BY <1>5 DEF Sound, Sized
  <2>2. \A x \in Session : x # s => Chars(nx.data[x]) = Chars(st.data[x]) BY <1>3
  <2>3. nx.data[s] = Over(spans, old) BY <1>3
  <2> HIDE DEF old
  <2>4. Total(nx.data) = Total(st.data) - Chars(st.data[s]) + Chars(nx.data[s])
    BY <2>1, <2>2, OneBucketChanges
  <2> QED BY <2>3, <2>4 DEF old
<1>7. /\ Total(st.data) \in Nat /\ Chars(old) \in Nat /\ Chars(spans) \in Nat
      /\ Chars(Keep(old, (DOMAIN old) \cap (DOMAIN spans))) \in Nat
  BY <1>4, TotalIsSum, CharsOfAll, CharsOfPart DEF Sound, Sized
<1>8. nx.chars = Total(nx.data) BY <1>1, <1>4, <1>6, <1>7 DEF Sound
<1>9. Ordered(nx.keys, nx.lru) BY <1>1, TouchOrders DEF Sound
<1>10. \A x \in Session : DOMAIN nx.data[x] # {} => x \in nx.keys BY <1>1, <1>3 DEF Sound
<1> QED BY <1>2, <1>5, <1>8, <1>9, <1>10 DEF Sound, nx

LEMMA ExpireSound ==
    ASSUME NEW st, Sound(st)
    PROVE  Sound(Expire(st))
<1>1. CASE Ttl = 0 BY <1>1 DEF Expire
<1>2. CASE Ttl # 0
  <2> DEFINE nx == Expire(st)
             data == st.data
             stale == [s \in Session |-> Keep(data[s], Spoilt(data[s]))]
  <2>1. /\ nx.data = [s \in Session |-> Fresh(data[s])]
        /\ nx.keys = InUse(st) /\ nx.lru = Among(st.lru, InUse(st))
        /\ nx.chars = st.chars - SpoiltChars(data)
    BY <1>2 DEF Expire
  <2>2. IsStore(nx) BY ExpiryForgets DEF Sound
  <2> HIDE DEF nx
  <2>3. ASSUME NEW s \in Session
        PROVE  /\ IsBucket(Fresh(data[s])) /\ IsBucket(stale[s])
               /\ Chars(data[s]) = Chars(stale[s]) + Chars(Fresh(data[s]))
    <3>1. IsBucket(data[s]) /\ Spoilt(data[s]) \subseteq DOMAIN data[s] BY DEF Sound, Sized, Spoilt
    <3> QED BY <3>1, CharsOfPart, CharsSplit DEF Fresh
  <2>4. Sized(nx) BY <2>1, <2>3 DEF Sized
  <2>5. nx.chars = Total(nx.data)
    <3> DEFINE f == SizesOf(stale)
               g == SizesOf(nx.data)
               k == SizesOf(data)
    <3>1. SpoiltChars(data) = Total(stale)
      BY DEF SpoiltChars, Total
    <3>2. /\ Total(stale) = SumFunctionOnSet(f, Session)
          /\ \A s \in Session : f[s] = Chars(stale[s]) /\ f[s] \in Nat
      <4> HIDE DEF stale
      <4> QED BY <2>3, TotalIsSum
    <3>3. /\ Total(nx.data) = SumFunctionOnSet(g, Session) /\ Total(nx.data) \in Nat
          /\ \A s \in Session : g[s] = Chars(Fresh(data[s])) /\ g[s] \in Nat
      BY <2>1, <2>4, TotalIsSum DEF Sized
    <3>4. /\ Total(data) = SumFunctionOnSet(k, Session) /\ IsFiniteSet(Session)
          /\ \A s \in Session : k[s] = Chars(data[s])
      BY TotalIsSum DEF Sound, Sized
    <3> HIDE DEF f, g, k, stale
    <3>5. \A s \in Session : f[s] \in Int /\ g[s] \in Int /\ k[s] = f[s] + g[s]
      BY <2>3, <3>2, <3>3, <3>4
    <3>6. SumFunctionOnSet(k, Session) = SumFunctionOnSet(f, Session) + SumFunctionOnSet(g, Session)
      BY <3>4, <3>5, SumOfSums
    <3>7. SumFunctionOnSet(f, Session) \in Nat BY <3>2, <3>4, SumIsNat
    <3> QED BY <2>1, <3>1, <3>2, <3>3, <3>4, <3>6, <3>7 DEF Sound
  <2>6. Ordered(nx.keys, nx.lru) BY <2>1, AmongOrders DEF Sound, InUse
  <2>7. \A s \in Session : DOMAIN nx.data[s] # {} => s \in nx.keys
    <3> SUFFICES ASSUME NEW s \in Session, DOMAIN nx.data[s] # {} PROVE s \in InUse(st)
      BY <2>1
    <3>1. nx.data[s] = Fresh(data[s]) BY <2>1
    <3>2. DOMAIN data[s] # {} BY <3>1 DEF Fresh, Keep
    <3> QED BY <3>1, <3>2 DEF InUse, Sound
  <2> QED BY <2>2, <2>4, <2>5, <2>6, <2>7 DEF Sound, nx
<1> QED BY <1>1, <1>2

\* What some sessions hold, and that fewer hold no more.
LEMMA CharsOfSome ==
    ASSUME NEW st, Sized(st), NEW S, S \subseteq Session, NEW T, T \subseteq S
    PROVE  /\ CharsOf(st, S) \in Nat /\ CharsOf(st, T) \in Nat
           /\ CharsOf(st, T) <= CharsOf(st, S)
<1> DEFINE f == SizesOf(st.data)
<1>1. IsFiniteSet(Session) /\ \A s \in Session : f[s] \in Nat BY TotalIsSum DEF Sized
<1>2. S \in SUBSET Session /\ T \in SUBSET S OBVIOUS
<1>3. \A U : CharsOf(st, U) = SumFunctionOnSet(f, U) BY DEF CharsOf, SizesOf
<1> HIDE DEF f
<1>4. IsFiniteSet(S) /\ \A s \in S : f[s] \in Nat BY <1>1, <1>2, FS_Subset
<1> QED BY <1>2, <1>3, <1>4, SumIsNat, SumOfPart

\* The sessions popped come before the ones that stay, so that those before the
\* first that stays are the ones popped: either it stopped the loop, or none is
\* left.
LEMMA PoppedComeFirst ==
    ASSUME NEW st, Sound(st)
    PROVE  LET gone == Popped(st) IN
           st.keys = gone \/ \E s \in st.keys \ gone : Before(st, s) = gone
<1> DEFINE gone == Popped(st)
<1>1. gone \subseteq st.keys /\ Ordered(st.keys, st.lru) /\ Sized(st)
  BY DEF Popped, Sound
<1>2. IsFiniteSet(Session) /\ st.keys \in SUBSET Session BY <1>1, ServiceAssumption DEF Ordered
<1>3. IsFiniteSet(st.keys) BY <1>2, FS_Subset
<1>4. ASSUME NEW x \in gone, NEW s \in st.keys \ gone PROVE <<x, s>> \in st.lru
  <2>1. SUFFICES ASSUME <<s, x>> \in st.lru PROVE FALSE BY <1>1 DEF Ordered
  <2>2. Before(st, s) \subseteq Before(st, x) /\ Before(st, x) \subseteq Session
    BY <1>1, <2>1 DEF Before, Ordered
  <2>3. st.chars - CharsOf(st, Before(st, x)) > MaxChars BY DEF Popped, Overflows
  <2>4. /\ CharsOf(st, Before(st, s)) \in Nat /\ CharsOf(st, Before(st, x)) \in Nat
        /\ CharsOf(st, Before(st, s)) <= CharsOf(st, Before(st, x))
    BY <1>1, <2>2, CharsOfSome DEF Before
  <2>5. st.chars \in Nat /\ MaxChars \in Nat
    BY TotalIsSum, ServiceAssumption DEF Sound, Sized
  <2>6. st.chars - CharsOf(st, Before(st, s)) > MaxChars BY <2>3, <2>4, <2>5
  <2> QED BY <2>6 DEF Popped, Overflows
<1> HIDE DEF gone
<1>5. ASSUME st.keys # gone PROVE \E s \in st.keys \ gone : Before(st, s) = gone
  <2>0. PICK R : R = st.lru OBVIOUS
  <2> DEFINE S == st.keys \ gone
  <2>1. IsFiniteSet(S) /\ S # {} BY <1>1, <1>3, <1>5, FS_Difference
  <2>2. \A x, y \in S : x # y => <<x, y>> \in R \/ <<y, x>> \in R
    BY <1>1, <2>0 DEF Ordered
  <2>3. \A x, y, z \in S : <<x, y>> \in R /\ <<y, z>> \in R => <<x, z>> \in R
    BY <1>1, <2>0 DEF Ordered
  <2>4. \E m \in S : \A x \in S \ {m} : <<m, x>> \in R
    <3> HIDE DEF S
    <3> QED BY <2>1, <2>2, <2>3, FirstExists
  <2>5. PICK m \in st.keys \ gone : \A x \in (st.keys \ gone) \ {m} : <<m, x>> \in st.lru
    BY <2>0, <2>4
  <2>6. ASSUME NEW x \in st.keys, x \notin gone PROVE <<x, m>> \notin st.lru
    BY <1>1, <2>5, <2>6 DEF Ordered
  <2>7. Before(st, m) = gone BY <1>1, <1>4, <2>5, <2>6 DEF Before
  <2> QED BY <2>5, <2>7
<1> QED BY <1>5 DEF gone

LEMMA EvictSound ==
    ASSUME NEW st, Sound(st)
    PROVE  Sound(EvictLru(st)) /\ EvictLru(st).chars <= MaxChars
<1> DEFINE gone == Popped(st)
           nx == EvictLru(st)
           f == SizesOf(st.data)
           g == SizesOf(nx.data)
<1>1. /\ nx.data = [s \in Session |-> IF s \in gone THEN Nothing ELSE st.data[s]]
      /\ nx.keys = st.keys \ gone /\ nx.lru = Among(st.lru, st.keys \ gone)
      /\ nx.chars = st.chars - CharsOf(st, gone)
  BY DEF EvictLru
<1>2. IsStore(nx) BY EvictionForgets DEF Sound
<1>3. gone \subseteq st.keys /\ st.keys \subseteq Session BY DEF Popped, Sound, Ordered
<1>4. st.keys = gone \/ \E s \in st.keys \ gone : Before(st, s) = gone
  BY PoppedComeFirst
<1>5. \A s \in st.keys \ gone : ~ Overflows(st, Before(st, s)) BY DEF Popped
<1> HIDE DEF gone, nx
<1>6. DOMAIN Nothing = {} BY DEF Nothing
<1>7. Sized(nx) /\ Sized(st) BY <1>1, <1>6, CharsOfNone DEF Sound, Sized
<1>8. /\ Total(st.data) = SumFunctionOnSet(f, Session) /\ Total(st.data) \in Nat
      /\ Total(nx.data) = SumFunctionOnSet(g, Session) /\ Total(nx.data) \in Nat
      /\ IsFiniteSet(Session)
      /\ \A s \in Session : /\ f[s] = Chars(st.data[s]) /\ f[s] \in Nat
                            /\ g[s] = Chars(nx.data[s]) /\ g[s] \in Nat
  BY <1>7, TotalIsSum DEF Sized
<1>9. CharsOf(st, gone) = SumFunctionOnSet(f, gone) BY DEF CharsOf, SizesOf
<1> HIDE DEF f, g
<1>10. gone \in SUBSET Session /\ IsFiniteSet(gone) /\ IsFiniteSet(Session \ gone)
  <2>1. gone \in SUBSET Session BY <1>3
  <2> QED BY <1>8, <2>1, FS_Subset, FS_Difference
<1>11. /\ SumFunctionOnSet(f, Session) = SumFunctionOnSet(f, gone) + SumFunctionOnSet(f, Session \ gone)
       /\ SumFunctionOnSet(g, Session) = SumFunctionOnSet(g, gone) + SumFunctionOnSet(g, Session \ gone)
  <2>1. \A s \in Session : f[s] \in Int BY <1>8
  <2>2. \A s \in Session : g[s] \in Int BY <1>8
  <2> QED BY <1>8, <1>10, <2>1, <2>2, SumSplits
<1>12. SumFunctionOnSet(f, Session \ gone) = SumFunctionOnSet(g, Session \ gone)
  <2>1. \A s \in Session \ gone : f[s] = g[s] BY <1>1, <1>8
  <2> QED BY <1>10, <2>1, SumOfSame
<1>13. SumFunctionOnSet(g, gone) = 0
  <2>1. \A s \in gone : g[s] = 0 BY <1>1, <1>3, <1>6, <1>8, CharsOfNone
  <2> QED BY <1>10, <2>1, SumOfZeros
<1>14. SumFunctionOnSet(f, gone) \in Nat /\ SumFunctionOnSet(f, Session \ gone) \in Nat
  <2>1. \A s \in gone : f[s] \in Nat BY <1>3, <1>8
  <2>2. \A s \in Session \ gone : f[s] \in Nat BY <1>8
  <2> QED BY <1>10, <2>1, <2>2, SumIsNat
<1>15. nx.chars = Total(nx.data)
  BY <1>1, <1>8, <1>9, <1>11, <1>12, <1>13, <1>14 DEF Sound
<1>16. Ordered(nx.keys, nx.lru) BY <1>1, AmongOrders DEF Sound
<1>17. \A s \in Session : DOMAIN nx.data[s] # {} => s \in nx.keys
  BY <1>1, <1>6 DEF Sound
<1>18. nx.chars <= MaxChars
  <2>1. CASE st.keys = gone
    <3>1. \A s \in Session : g[s] = 0 BY <1>1, <1>8, <1>17, <2>1, CharsOfNone
    <3>2. Total(nx.data) = 0 BY <1>8, <3>1, SumOfZeros
    <3> QED BY <1>15, <3>2, ServiceAssumption
  <2>2. ASSUME NEW s \in st.keys \ gone, Before(st, s) = gone PROVE nx.chars <= MaxChars
    <3>1. ~ (st.chars - CharsOf(st, gone) > MaxChars) BY <1>5, <2>2 DEF Overflows
    <3> QED BY <1>1, <1>8, <1>15, <3>1, ServiceAssumption
  <2> QED BY <1>4, <2>1, <2>2
<1> QED BY <1>2, <1>7, <1>15, <1>16, <1>17, <1>18 DEF Sound, nx

LEMMA EvictionLosesForSpace ==
    ASSUME NEW st, Sound(st), NEW s \in Session, NEW h \in DOMAIN st.data[s],
           h \notin DOMAIN EvictLru(st).data[s]
    PROVE  st.chars > MaxChars
<1>1. s \in Popped(st) BY DEF EvictLru
<1>2. st.chars - CharsOf(st, Before(st, s)) > MaxChars BY <1>1 DEF Popped, Overflows
<1>3. Before(st, s) \subseteq Session BY DEF Before, Sound, Ordered
<1>4. CharsOf(st, Before(st, s)) \in Nat BY <1>3, CharsOfSome DEF Sound
<1>5. st.chars \in Nat /\ MaxChars \in Nat BY TotalIsSum, ServiceAssumption DEF Sound, Sized
<1> QED BY <1>2, <1>4, <1>5

LEMMA GetSound ==
    ASSUME NEW st, Sound(st), NEW s \in Session, NEW h
    PROVE  /\ Sound(Get(st, s, h)) /\ Get(st, s, h).chars <= st.chars
           /\ \A x \in Session : \A k \in DOMAIN st.data[x] :
                 k \notin DOMAIN Get(st, s, h).data[x] => Stale(st.data[x][k])
<1> DEFINE nx == Get(st, s, h)
<1>1. IsStore(nx) BY ReadingForgets DEF Sound
<1>2. st = [data |-> st.data, keys |-> st.keys, lru |-> st.lru, chars |-> st.chars]
  BY DEF Sound, IsStore
<1>3. st.chars \in Nat BY TotalIsSum DEF Sound, Sized
<1>4. CASE Finds(st, s, h)
  <2>1. nx = [st EXCEPT !.lru = Touch(st, s)] BY <1>4 DEF Get
  <2>2. /\ nx.data = st.data /\ nx.keys = st.keys /\ nx.lru = Touch(st, s)
        /\ nx.chars = st.chars
    BY <1>2, <2>1
  <2> HIDE DEF nx
  <2>3. s \in st.keys BY <1>4 DEF Finds, Sound
  <2>4. Ordered(nx.keys, nx.lru)
    <3>1. st.keys \cup {s} = st.keys BY <2>3
    <3> QED BY <2>2, <3>1, TouchOrders DEF Sound
  <2>5. Sound(nx) BY <1>1, <2>2, <2>4 DEF Sound, Sized
  <2> QED BY <1>3, <2>2, <2>5 DEF nx
<1>5. CASE ~ Finds(st, s, h) /\ h \in DOMAIN st.data[s]
  <2> DEFINE old == st.data[s]
             kept == Keep(old, (DOMAIN old) \ {h})
  <2>1. nx = [st EXCEPT !.data[s] = kept, !.chars = @ - Length(old[h].text)]
    BY <1>5 DEF Get
  <2>2. /\ nx.data = [st.data EXCEPT ![s] = kept] /\ nx.keys = st.keys /\ nx.lru = st.lru
        /\ nx.chars = st.chars - Length(old[h].text)
    BY <1>2, <2>1
  <2>3. Stale(old[h]) BY <1>5 DEF Finds
  <2>4. \A x \in Session : nx.data[x] = IF x = s THEN kept ELSE st.data[x]
    BY <2>2 DEF Sound, IsStore
  <2>5. DOMAIN kept = (DOMAIN old) \ {h} BY DEF Keep
  <2>6. IsBucket(old) BY DEF Sound, Sized
  <2> HIDE DEF nx
  <2>7. IsBucket(kept) /\ Chars(kept) = Chars(old) - Length(old[h].text) /\ Chars(kept) \in Nat
    <3> HIDE DEF old
    <3>1. h \in DOMAIN old BY <1>5 DEF old
    <3>2. Chars(old) = SumFunctionOnSet(SizesIn(old), DOMAIN old) /\ IsFiniteSet(DOMAIN old)
      BY <2>6, CharsOfAll
    <3>3. /\ IsBucket(kept) /\ Chars(kept) \in Nat
          /\ Chars(kept) = SumFunctionOnSet(SizesIn(old), (DOMAIN old) \ {h})
      BY <2>6, CharsOfPart
    <3>4. \A k \in DOMAIN old : SizesIn(old)[k] \in Int BY <2>6 DEF IsBucket, SizesIn
    <3>5. SumFunctionOnSet(SizesIn(old), DOMAIN old) =
            SizesIn(old)[h] + SumFunctionOnSet(SizesIn(old), (DOMAIN old) \ {h})
      BY <3>1, <3>2, <3>4, SumTakesOne
    <3>6. SizesIn(old)[h] = Length(old[h].text) /\ Length(old[h].text) \in Nat
      BY <2>6, <3>1 DEF IsBucket, SizesIn
    <3> HIDE DEF kept
    <3> QED BY <3>2, <3>3, <3>5, <3>6
  <2>8. Sized(nx) BY <2>4, <2>7 DEF Sound, Sized
  <2>9. Total(nx.data) = Total(st.data) - Chars(old) + Chars(kept)
    <3>1. \A x \in Session : IsBucket(st.data[x]) /\ IsBucket(nx.data[x])
      BY <2>8 DEF Sound, Sized
    <3>2. \A x \in Session : x # s => Chars(nx.data[x]) = Chars(st.data[x]) BY <2>4
    <3>3. nx.data[s] = kept BY <2>4
    <3> HIDE DEF old, kept
    <3>4. Total(nx.data) = Total(st.data) - Chars(st.data[s]) + Chars(nx.data[s])
      BY <3>1, <3>2, OneBucketChanges
    <3> QED BY <3>3, <3>4 DEF old
  <2>10. Chars(old) \in Nat /\ Length(old[h].text) \in Nat
    BY <1>5, <2>6, CharsOfAll DEF IsBucket
  <2>11. nx.chars = Total(nx.data) /\ nx.chars <= st.chars
    <3> HIDE DEF old, kept
    <3> QED BY <1>3, <2>2, <2>7, <2>9, <2>10 DEF Sound
  <2>12. \A x \in Session : DOMAIN nx.data[x] # {} => x \in nx.keys
    BY <2>2, <2>4, <2>5 DEF Sound
  <2>13. Sound(nx) BY <1>1, <2>2, <2>8, <2>11, <2>12 DEF Sound
  <2>14. \A x \in Session : \A k \in DOMAIN st.data[x] :
            k \notin DOMAIN nx.data[x] => Stale(st.data[x][k])
    BY <2>3, <2>4, <2>5
  <2> QED BY <2>11, <2>13, <2>14 DEF nx
<1>6. CASE ~ Finds(st, s, h) /\ h \notin DOMAIN st.data[s]
  <2>1. nx = st BY <1>6 DEF Get
  <2> QED BY <1>3, <2>1
<1> QED BY <1>4, <1>5, <1>6

LEMMA OlderSound ==
    ASSUME NEW st, Sound(st)
    PROVE  /\ Sound(Older(st)) /\ Older(st).chars = st.chars
           /\ \A s \in Session : DOMAIN Older(st).data[s] = DOMAIN st.data[s]
<1> DEFINE nx == Older(st)
<1>1. IsStore(nx) BY AgeingShowsTheSame DEF Sound
<1>2. /\ nx.data = [s \in Session |-> AgedSpans(st.data[s])]
      /\ nx.keys = st.keys /\ nx.lru = st.lru /\ nx.chars = st.chars
  <2>1. st = [data |-> st.data, keys |-> st.keys, lru |-> st.lru, chars |-> st.chars]
    BY DEF Sound, IsStore
  <2> QED BY <2>1 DEF Older
<1> HIDE DEF nx
<1>3. ASSUME NEW s \in Session
      PROVE  /\ DOMAIN nx.data[s] = DOMAIN st.data[s]
             /\ IsBucket(nx.data[s]) /\ Chars(nx.data[s]) = Chars(st.data[s])
  <2>1. nx.data[s] = AgedSpans(st.data[s]) BY <1>2
  <2>2. DOMAIN nx.data[s] = DOMAIN st.data[s] BY <2>1 DEF AgedSpans
  <2>3. ASSUME NEW h \in DOMAIN st.data[s] PROVE nx.data[s][h].text = st.data[s][h].text
    <3>1. IsSpan(st.data[s][h]) BY DEF Sound, IsStore
    <3>2. nx.data[s][h] = [st.data[s][h] EXCEPT !.age = Aged(st.data[s][h].age)]
      BY <2>1 DEF AgedSpans
    <3> QED BY <3>1, <3>2 DEF IsSpan
  <2>4. IsBucket(st.data[s]) BY DEF Sound, Sized
  <2> QED BY <2>2, <2>3, <2>4, SameChars
<1>4. Sized(nx) BY <1>3 DEF Sized
<1>5. Total(nx.data) = Total(st.data)
  <2> DEFINE f == SizesOf(st.data)
             g == SizesOf(nx.data)
  <2>1. /\ Total(st.data) = SumFunctionOnSet(f, Session) /\ IsFiniteSet(Session)
        /\ Total(nx.data) = SumFunctionOnSet(g, Session)
        /\ \A s \in Session : f[s] = Chars(st.data[s]) /\ g[s] = Chars(nx.data[s])
    BY <1>4, TotalIsSum DEF Sound, Sized
  <2> HIDE DEF f, g
  <2>2. \A s \in Session : f[s] = g[s] BY <1>3, <2>1
  <2> QED BY <2>1, <2>2, SumOfSame
<1>6. Sound(nx) BY <1>1, <1>2, <1>3, <1>4, <1>5 DEF Sound
<1> QED BY <1>2, <1>3, <1>6 DEF nx

-----------------------------------------------------------------------------
(***************************************************************************)
(* The accounts of the service's store.                                    *)
(***************************************************************************)
ThreadsOK == thread \in [Request -> {"none", "compressing", "built", "stored", "failed"}]

AccountInv == StoreInv /\ ThreadsOK /\ Sound(store) /\ store.chars <= MaxChars

LEMMA SpansOfCall ==
    ASSUME StoreInv, NEW r \in Request
    PROVE  /\ call[r].session \in Session
           /\ IsBucket(Spans(r)) /\ \A h \in DOMAIN Spans(r) : IsSpan(Spans(r)[h])
           /\ DOMAIN Spans(r) = DOMAIN Cut(r)
<1>1. call[r] \in Call /\ \A t \in Text : Length(t) \in Nat
  BY ServiceAssumption DEF StoreInv
<1>2. call[r].session \in Session /\ Cut(r) \in UNION {[H -> Text] : H \in SUBSET Handle}
  BY <1>1 DEF Call, Cut
<1>3. DOMAIN Cut(r) \subseteq Handle /\ \A h \in DOMAIN Cut(r) : Cut(r)[h] \in Text BY <1>2
<1>4. /\ DOMAIN Spans(r) = DOMAIN Cut(r)
      /\ \A h \in DOMAIN Cut(r) : IsSpan(Spans(r)[h]) /\ Spans(r)[h].text = Cut(r)[h]
  BY DEF Spans, IsSpan
<1> QED BY <1>1, <1>2, <1>3, <1>4 DEF IsBucket

LEMMA AccountsInitially == Init => AccountInv
<1> SUFFICES ASSUME Init PROVE AccountInv OBVIOUS
<1>1. StoreInv BY StoreInitially
<1>2. /\ store.data = [s \in Session |-> Nothing] /\ store.keys = {} /\ store.lru = {}
      /\ store.chars = 0
  BY DEF Init, Empty
<1>3. DOMAIN Nothing = {} BY DEF Nothing
<1>4. \A s \in Session : IsBucket(store.data[s]) /\ Chars(store.data[s]) = 0
  BY <1>2, <1>3, CharsOfNone
<1>5. Total(store.data) = 0
  <2> DEFINE f == SizesOf(store.data)
  <2>1. /\ Total(store.data) = SumFunctionOnSet(f, Session) /\ IsFiniteSet(Session)
        /\ \A s \in Session : f[s] = Chars(store.data[s])
    BY <1>4, TotalIsSum
  <2> HIDE DEF f
  <2> QED BY <1>4, <2>1, SumOfZeros
<1>6. Sound(store)
  BY <1>1, <1>2, <1>3, <1>4, <1>5 DEF StoreInv, Sound, Sized, Ordered
<1>7. ThreadsOK BY DEF Init, ThreadsOK
<1> QED BY <1>1, <1>2, <1>6, <1>7, ServiceAssumption DEF AccountInv

LEMMA AccountsPreserved == AccountInv /\ [Next]_vars => AccountInv'
<1> SUFFICES ASSUME AccountInv, [Next]_vars PROVE AccountInv' OBVIOUS
<1>1. StoreInv /\ StoreInv' BY StoreSteps DEF AccountInv
<1>t. ThreadsOK'
  BY DEF AccountInv, ThreadsOK, Next, Serve, Run, Arrive, Acquire, Answer, TimeOut, Compress,
     StoreResiduals, BeginExpand, Read, EndExpand, Tick, vars
<1>2. SUFFICES Sound(store') /\ store'.chars <= MaxChars BY <1>1, <1>t DEF AccountInv
<1>3. CASE UNCHANGED store BY <1>3 DEF AccountInv
<1>4. ASSUME NEW r \in Request, StoreResiduals(r) PROVE Sound(store') /\ store'.chars <= MaxChars
  <2>1. CASE DOMAIN Cut(r) = {} BY <1>3, <1>4, <2>1 DEF StoreResiduals
  <2>2. CASE DOMAIN Cut(r) # {}
    <3>1. store' = EvictLru(Expire(Write(store, call[r].session, Spans(r))))
      BY <1>4, <2>2 DEF StoreResiduals, Put
    <3>2. Sound(Write(store, call[r].session, Spans(r)))
      BY <1>1, SpansOfCall, WriteSound DEF AccountInv
    <3> QED BY <3>1, <3>2, ExpireSound, EvictSound
  <2> QED BY <2>1, <2>2
<1>5. CASE Read
  <2>1. /\ reader.session \in Session
        /\ store' = Get(store, reader.session, Head(reader.todo))
    BY <1>1, <1>5 DEF Read, StoreInv, ReaderOK
  <2>2. Sound(store') /\ store'.chars <= store.chars BY <2>1, GetSound DEF AccountInv
  <2>3. store.chars \in Nat /\ store'.chars \in Nat /\ MaxChars \in Nat
    BY <2>2, TotalIsSum, ServiceAssumption DEF AccountInv, Sound, Sized
  <2> QED BY <2>2, <2>3 DEF AccountInv
<1>6. CASE Tick BY <1>6, OlderSound DEF Tick, AccountInv
<1> QED BY <1>3, <1>4, <1>5, <1>6 DEF Next, Serve, Run, Arrive, Acquire, Answer, TimeOut,
       Compress, BeginExpand, EndExpand, vars

LEMMA AccountInvariant == Spec => []AccountInv
BY AccountsInitially, AccountsPreserved, PTL DEF Spec

\* The count that every path adjusts by hand is what the store holds, within the
\* cap, and what holds something can be evicted.
THEOREM CountIsTrue == Spec => []AccountsHold
<1>1. AccountInv => AccountsHold BY DEF AccountInv, Sound, AccountsHold
<1> QED BY <1>1, AccountInvariant, PTL

\* What is left after a write has expired: at most the live spans beside it and
\* the write itself.
LEMMA LeftByWrite ==
    ASSUME AccountInv, NEW r \in Request
    PROVE  LET left == Expire(Write(store, call[r].session, Spans(r))) IN
           /\ left.chars <= LiveElsewhere(r) + Chars(Spans(r))
           /\ \A s \in Session : \A h \in Beside(r, s) : h \in DOMAIN left.data[s]
<1> DEFINE sess == call[r].session
           w == Write(store, sess, Spans(r))
           left == Expire(w)
           beside == [s \in Session |-> Keep(store.data[s], Beside(r, s))]
<1>1. /\ sess \in Session /\ IsBucket(Spans(r)) /\ DOMAIN Spans(r) = DOMAIN Cut(r)
      /\ \A h \in DOMAIN Spans(r) : IsSpan(Spans(r)[h])
  BY SpansOfCall DEF AccountInv
<1>2. Sound(store) BY DEF AccountInv
<1>3. Sound(w) BY <1>1, <1>2, WriteSound
<1>4. Sound(left) BY <1>3, ExpireSound
<1>5. \A s \in Session : w.data[s] = IF s = sess THEN Over(Spans(r), store.data[s]) ELSE store.data[s]
  BY <1>1, <1>2 DEF Write, Sound, IsStore
<1> HIDE DEF w
<1>6. ASSUME NEW s \in Session
      PROVE  /\ DOMAIN left.data[s] = {h \in DOMAIN w.data[s] : ~Stale(w.data[s][h])}
             /\ \A h \in DOMAIN left.data[s] : left.data[s][h] = w.data[s][h]
  <2>1. CASE Ttl = 0
    <3>1. left = w BY <2>1 DEF Expire
    <3>2. \A x : ~Stale(x) BY <2>1 DEF Stale
    <3> QED BY <3>1, <3>2
  <2>2. CASE Ttl # 0
    <3>1. left.data = [x \in Session |-> Fresh(w.data[x])] BY <2>2 DEF Expire
    <3>2. left.data[s] = Keep(w.data[s], (DOMAIN w.data[s]) \ Spoilt(w.data[s]))
      BY <3>1 DEF Fresh
    <3>3. (DOMAIN w.data[s]) \ Spoilt(w.data[s]) = {h \in DOMAIN w.data[s] : ~Stale(w.data[s][h])}
      BY DEF Spoilt
    <3> QED BY <3>2, <3>3 DEF Keep
  <2> QED BY <2>1, <2>2
<1> HIDE DEF left
<1>7. ASSUME NEW s \in Session
      PROVE  /\ Beside(r, s) \subseteq DOMAIN store.data[s] /\ IsBucket(store.data[s])
             /\ IsBucket(beside[s]) /\ DOMAIN beside[s] = Beside(r, s)
             /\ \A h \in Beside(r, s) : beside[s][h] = store.data[s][h]
  <2>1. Beside(r, s) \subseteq DOMAIN store.data[s] /\ IsBucket(store.data[s])
    BY <1>2 DEF Beside, Sound, Sized
  <2>2. beside[s] = Keep(store.data[s], Beside(r, s)) OBVIOUS
  <2> HIDE DEF beside
  <2> QED BY <2>1, <2>2, CharsOfPart DEF Keep
<1>8. LiveElsewhere(r) = Total(beside) BY DEF LiveElsewhere
<1> HIDE DEF beside
<1>9. ASSUME NEW s \in Session, s # sess PROVE Chars(left.data[s]) = Chars(beside[s])
  <2>1. w.data[s] = store.data[s] BY <1>5, <1>9
  <2>2. DOMAIN left.data[s] = Beside(r, s) BY <1>6, <1>9, <2>1 DEF Beside
  <2>3. \A h \in Beside(r, s) : left.data[s][h].text = beside[s][h].text
    BY <1>6, <1>7, <2>1, <2>2
  <2> QED BY <1>7, <2>2, <2>3, SameChars
<1>10. /\ Beside(r, sess) \subseteq DOMAIN left.data[sess]
       /\ \A h \in Beside(r, sess) : left.data[sess][h] = store.data[sess][h]
       /\ (DOMAIN left.data[sess]) \ Beside(r, sess) \subseteq DOMAIN Cut(r)
       /\ \A h \in DOMAIN left.data[sess] : h \in DOMAIN Cut(r) => left.data[sess][h] = Spans(r)[h]
  <2> DEFINE b == store.data[sess]
  <2>1. w.data[sess] = Over(Spans(r), b) BY <1>1, <1>5
  <2>2. /\ DOMAIN w.data[sess] = DOMAIN Cut(r) \cup DOMAIN b
        /\ \A h \in DOMAIN w.data[sess] :
              w.data[sess][h] = IF h \in DOMAIN Cut(r) THEN Spans(r)[h] ELSE b[h]
    BY <1>1, <2>1 DEF Over
  <2>3. Beside(r, sess) = {h \in DOMAIN b : ~Stale(b[h]) /\ h \notin DOMAIN Cut(r)}
    BY DEF Beside
  <2> HIDE DEF b, sess
  <2> QED BY <1>1, <1>6, <2>2, <2>3 DEF b
<1>11. Chars(left.data[sess]) <= Chars(beside[sess]) + Chars(Spans(r))
  <2> DEFINE b == left.data[sess]
             H == Beside(r, sess)
             R == (DOMAIN b) \ H
  <2> HIDE DEF sess
  <2>1. IsBucket(b) BY <1>1, <1>4 DEF Sound, Sized
  <2>2. H \subseteq DOMAIN b /\ R \subseteq DOMAIN Spans(r) BY <1>1, <1>10
  <2>3. Chars(b) = Chars(Keep(b, H)) + Chars(Keep(b, R)) BY <2>1, <2>2, CharsSplit
  <2>4. Chars(Keep(b, H)) = Chars(beside[sess])
    <3>1. DOMAIN Keep(b, H) = H /\ \A h \in H : Keep(b, H)[h].text = beside[sess][h].text
      BY <1>1, <1>7, <1>10 DEF Keep
    <3> HIDE DEF b, H
    <3>2. IsBucket(beside[sess]) /\ DOMAIN beside[sess] = H BY <1>1, <1>7 DEF H
    <3> QED BY <3>1, <3>2, SameChars
  <2>5. Keep(b, R) = Keep(Spans(r), R)
    <3>1. \A h \in R : b[h] = Spans(r)[h] BY <1>10
    <3> HIDE DEF b, R
    <3> QED BY <3>1 DEF Keep
  <2>6. Chars(Spans(r)) = Chars(Keep(Spans(r), R)) + Chars(Keep(Spans(r), (DOMAIN Spans(r)) \ R))
    BY <1>1, <2>2, CharsSplit
  <2>7. /\ Chars(Keep(Spans(r), R)) \in Nat /\ Chars(Keep(Spans(r), (DOMAIN Spans(r)) \ R)) \in Nat
        /\ Chars(beside[sess]) \in Nat
    BY <1>1, <1>7, <2>2, CharsOfPart, CharsOfAll
  <2> HIDE DEF b, H, R
  <2>8. Chars(b) <= Chars(beside[sess]) + Chars(Spans(r)) BY <2>3, <2>4, <2>5, <2>6, <2>7
  <2> QED BY <2>8 DEF b
<1>12. Total(left.data) = Total(beside) - Chars(beside[sess]) + Chars(left.data[sess])
  <2>1. \A s \in Session : IsBucket(beside[s]) /\ IsBucket(left.data[s])
    BY <1>4, <1>7 DEF Sound, Sized
  <2> HIDE DEF sess
  <2> QED BY <1>1, <1>9, <2>1, OneBucketChanges
<1>13. /\ Total(beside) \in Nat /\ Chars(beside[sess]) \in Nat /\ Chars(left.data[sess]) \in Nat
       /\ Chars(Spans(r)) \in Nat
  <2>1. Total(beside) \in Nat BY <1>7, TotalIsSum
  <2>2. IsBucket(left.data[sess]) BY <1>1, <1>4 DEF Sound, Sized
  <2> QED BY <1>1, <1>7, <2>1, <2>2, CharsOfAll
<1>14. left.chars <= LiveElsewhere(r) + Chars(Spans(r))
  BY <1>4, <1>8, <1>11, <1>12, <1>13 DEF Sound
<1>15. ASSUME NEW s \in Session, NEW h \in Beside(r, s) PROVE h \in DOMAIN left.data[s]
  <2>1. CASE s = sess BY <1>10, <1>15, <2>1
  <2>2. CASE s # sess
    <3>1. w.data[s] = store.data[s] BY <1>5, <2>2
    <3> QED BY <1>6, <1>15, <3>1 DEF Beside
  <2> QED BY <2>1, <2>2
<1> QED BY <1>14, <1>15 DEF left, w

\* A live span goes only with a write that replaces it or that does not fit
\* beside what is live.
THEOREM NothingElseIsLost == Spec => LostOnlyForSpace
<1>1. AccountInv /\ [Next]_vars =>
        [\A s \in Session : \A h \in DOMAIN store.data[s] :
          ~Stale(store.data[s][h]) /\ h \notin DOMAIN store'.data[s] =>
              \E r \in Request : /\ thread[r] = "built" /\ thread'[r] = "stored"
                                 /\ \/ s = call[r].session /\ h \in DOMAIN Cut(r)
                                    \/ LiveElsewhere(r) + Chars(Spans(r)) > MaxChars]_vars
  <2> SUFFICES ASSUME AccountInv, Next, NEW s \in Session, NEW h \in DOMAIN store.data[s],
                      ~Stale(store.data[s][h]), h \notin DOMAIN store'.data[s]
               PROVE  \E r \in Request :
                         /\ thread[r] = "built" /\ thread'[r] = "stored"
                         /\ \/ s = call[r].session /\ h \in DOMAIN Cut(r)
                            \/ LiveElsewhere(r) + Chars(Spans(r)) > MaxChars
    OBVIOUS
  <2>1. store' # store OBVIOUS
  <2>2. CASE Read
    <3>1. /\ reader.session \in Session
          /\ store' = Get(store, reader.session, Head(reader.todo))
      BY <2>2 DEF Read, AccountInv, StoreInv, ReaderOK
    <3> QED BY <3>1, GetSound DEF AccountInv
  <2>3. CASE Tick BY <2>3, OlderSound DEF Tick, AccountInv
  <2>4. ASSUME NEW r \in Request, StoreResiduals(r),
               ~ (s = call[r].session /\ h \in DOMAIN Cut(r))
        PROVE  LiveElsewhere(r) + Chars(Spans(r)) > MaxChars
    <3> DEFINE left == Expire(Write(store, call[r].session, Spans(r)))
    <3>1. store' = EvictLru(left) BY <2>1, <2>4 DEF StoreResiduals, Put
    <3>2. Sound(left)
      BY SpansOfCall, WriteSound, ExpireSound DEF AccountInv
    <3>3. h \in Beside(r, s) BY <2>4 DEF Beside
    <3>4. /\ left.chars <= LiveElsewhere(r) + Chars(Spans(r))
          /\ h \in DOMAIN left.data[s]
      BY <3>3, LeftByWrite
    <3>5. LiveElsewhere(r) + Chars(Spans(r)) \in Int
      <4>1. \A x \in Session : IsBucket(Keep(store.data[x], Beside(r, x)))
        BY CharsOfPart DEF AccountInv, Sound, Sized, Beside
      <4>2. LiveElsewhere(r) \in Nat BY <4>1, TotalIsSum DEF LiveElsewhere
      <4> QED BY <4>2, SpansOfCall, CharsOfAll DEF AccountInv
    <3> HIDE DEF left
    <3>6. left.chars > MaxChars BY <3>1, <3>2, <3>4, EvictionLosesForSpace
    <3>7. left.chars \in Nat /\ MaxChars \in Nat
      BY <3>2, TotalIsSum, ServiceAssumption DEF Sound, Sized
    <3> QED BY <3>4, <3>5, <3>6, <3>7
  <2>5. ASSUME NEW r \in Request, StoreResiduals(r)
        PROVE  thread[r] = "built" /\ thread'[r] = "stored"
    <3>1. thread' = [thread EXCEPT ![r] = "stored"] BY <2>5 DEF StoreResiduals
    <3> QED BY <2>5, <3>1 DEF StoreResiduals, AccountInv, ThreadsOK
  <2>6. ASSUME ~Read, ~Tick PROVE \E r \in Request : StoreResiduals(r)
    BY <2>1, <2>6 DEF Next, Serve, Run, Arrive, Acquire, Answer, TimeOut, Compress,
       BeginExpand, EndExpand
  <2> QED BY <2>2, <2>3, <2>4, <2>5, <2>6
<1> QED BY <1>1, AccountInvariant, PTL DEF Spec, LostOnlyForSpace
=============================================================================
