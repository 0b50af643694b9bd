------------------------------ MODULE Service -------------------------------
(***************************************************************************)
(* The HTTP service (ulrc3/server/app.py) around the engine: one event     *)
(* loop that admits requests through a semaphore and answers them, one     *)
(* worker thread per admitted request that compresses and stores what it   *)
(* dropped, a timer on /v1/compress, none on /v1/compress/stream, and      *)
(* /v1/expand, which reads the store on the event loop, one lock per       *)
(* handle, while worker threads run on.                                    *)
(*                                                                         *)
(* A request refused by _guard changes nothing and is left out.  That a    *)
(* cancelled await leaves its thread running is how the thread pool of the *)
(* framework behaves.                                                      *)
(***************************************************************************)
EXTENDS ResidualStore, Sequences

CONSTANTS
    Request,
    Calls,            \* the calls the requests may make: functions on Request
    Asks,             \* the sequences of handles a client may expand
    MaxConcurrency,   \* ULRC3_MAX_CONCURRENCY
    Timeout           \* ULRC3_TIMEOUT_S, in ticks

\* A call without a session gets one of its own.
Call == [kind : {"compress", "stream"}, session : Session,
         cut : UNION {[H -> Text] : H \in SUBSET Handle}]

ASSUME ServiceAssumption ==
    /\ IsFiniteSet(Request) /\ IsFiniteSet(Session) /\ IsFiniteSet(Handle)
    /\ MaxConcurrency \in Nat \ {0} /\ Timeout \in Nat
    /\ MaxChars \in Nat /\ Ttl \in Nat
    /\ \A c \in Calls : \A r \in Request : c[r] \in Call
    /\ \A t \in Text : Length(t) \in Nat

VARIABLES
    call,      \* what each request asks for, fixed
    phase,     \* where the event loop is with a request
    queue,     \* the waiters of the semaphore, first come first served
    slots,     \* its value
    elapsed,   \* the age of the timer of an admitted request
    thread,    \* the worker thread of a request
    built,     \* the age of the spans a thread has cut and not stored yet
    reader,    \* the expansion the event loop is busy with
    store      \* DEFAULT_STORE

vars == <<call, phase, queue, slots, elapsed, thread, built, reader, store>>

Idle   == [session |-> {}, todo |-> <<>>, busy |-> FALSE]
IsIdle == ~reader.busy

Cut(r) == call[r].cut

-----------------------------------------------------------------------------
(***************************************************************************)
(* Handlers on the event loop.                                             *)
(***************************************************************************)
Arrive(r) ==
    /\ IsIdle /\ phase[r] = "new"
    /\ phase' = [phase EXCEPT ![r] = "queued"]
    /\ queue' = Append(queue, r)
    /\ UNCHANGED <<call, slots, elapsed, thread, built, reader, store>>

Admits == slots > 0

Acquire(r) ==
    /\ IsIdle /\ queue # <<>> /\ Head(queue) = r /\ Admits
    /\ phase' = [phase EXCEPT ![r] = "running"]
    /\ queue' = Tail(queue)
    /\ slots' = slots - 1
    /\ thread' = [thread EXCEPT ![r] = "compressing"]
    /\ UNCHANGED <<call, elapsed, built, reader, store>>

\* Slip: a thread that raised is never noticed.
SettledIfStored(r) == thread[r] = "stored"
Settled(r) == thread[r] \in {"stored", "failed"}

Answer(r) ==
    /\ IsIdle /\ phase[r] = "running" /\ Settled(r)
    /\ phase' = [phase EXCEPT ![r] = IF thread[r] = "stored" THEN "answered" ELSE "failed"]
    /\ slots' = slots + 1
    /\ elapsed' = [elapsed EXCEPT ![r] = 0]
    /\ UNCHANGED <<call, queue, thread, built, reader, store>>

\* Slip: the slot goes with the thread, which runs on.
SlotsAfterKept == slots
SlotsAfter == slots + 1

\* wait_for gives up; the answer may have been on its way.
TimeOut(r) ==
    /\ IsIdle /\ phase[r] = "running"
    /\ call[r].kind = "compress" /\ elapsed[r] = Timeout
    /\ phase' = [phase EXCEPT ![r] = "expired"]
    /\ slots' = SlotsAfter
    /\ elapsed' = [elapsed EXCEPT ![r] = 0]
    /\ UNCHANGED <<call, queue, thread, built, reader, store>>

BeginExpand(s, handles) ==
    /\ IsIdle
    /\ reader' = [session |-> s, todo |-> handles, busy |-> TRUE]
    /\ UNCHANGED <<call, phase, queue, slots, elapsed, thread, built, store>>

\* One handle of an expansion: the lock is taken and given back.
Read ==
    /\ reader.busy /\ reader.todo # <<>>
    /\ store' = Get(store, reader.session, Head(reader.todo))
    /\ reader' = [reader EXCEPT !.todo = Tail(@)]
    /\ UNCHANGED <<call, phase, queue, slots, elapsed, thread, built>>

EndExpand ==
    /\ reader.busy /\ reader.todo = <<>>
    /\ reader' = Idle
    /\ UNCHANGED <<call, phase, queue, slots, elapsed, thread, built, store>>

-----------------------------------------------------------------------------
(***************************************************************************)
(* _run, in a worker thread.                                               *)
(***************************************************************************)
\* The engine returns and the spans are time-stamped, or it raises.
Compress(r) ==
    /\ thread[r] = "compressing"
    /\ \E outcome \in {"built", "failed"} : thread' = [thread EXCEPT ![r] = outcome]
    /\ UNCHANGED <<call, phase, queue, slots, elapsed, built, reader, store>>

Spans(r) == [h \in DOMAIN Cut(r) |-> [text |-> Cut(r)[h], age |-> built[r]]]

StoreResiduals(r) ==
    /\ thread[r] = "built"
    /\ thread' = [thread EXCEPT ![r] = "stored"]
    /\ store' = IF DOMAIN Cut(r) = {} THEN store ELSE Put(store, call[r].session, Spans(r))
    /\ built' = [built EXCEPT ![r] = 0]
    /\ UNCHANGED <<call, phase, queue, slots, elapsed, reader>>

\* Time passes for timers and spans alike.
Tick ==
    /\ elapsed' = [r \in Request |-> IF phase[r] = "running" /\ elapsed[r] < Timeout
                                       THEN elapsed[r] + 1 ELSE elapsed[r]]
    /\ built' = [r \in Request |-> IF thread[r] = "built" THEN Aged(built[r]) ELSE built[r]]
    /\ store' = Older(store)
    /\ UNCHANGED <<call, phase, queue, slots, thread, reader>>

-----------------------------------------------------------------------------
Init ==
    /\ call \in Calls
    /\ phase = [r \in Request |-> "new"]
    /\ queue = <<>> /\ slots = MaxConcurrency
    /\ elapsed = [r \in Request |-> 0]
    /\ thread = [r \in Request |-> "none"]
    /\ built = [r \in Request |-> 0]
    /\ reader = Idle
    /\ store = Empty

Serve(r) == Acquire(r) \/ Answer(r) \/ TimeOut(r)
Run(r)   == Compress(r) \/ StoreResiduals(r)

Next == \/ \E r \in Request : Arrive(r) \/ Serve(r) \/ Run(r)
        \/ \E s \in Session, handles \in Asks : BeginExpand(s, handles)
        \/ Read \/ EndExpand \/ Tick

Spec == Init /\ [][Next]_vars

\* The event loop runs its ready callbacks first in, first out, so that no run
\* of expansions starves another handler; an expansion is a finite loop; the
\* clock goes on.
LoopFairness ==
    /\ \A r \in Request : SF_vars(Serve(r))
    /\ WF_vars(Read \/ EndExpand) /\ WF_vars(Tick)

\* The system schedules every thread, and compression ends (Compressor!Terminates
\* and, for the rounds of selection, Select!PushesBounded):
\* weak fairness of Run(r), of which this is the part that thread[r] sees.
RunsOn(r) ==
    /\ thread[r] \in {"compressing", "built"}
    /\ \E next \in {"built", "stored", "failed"} \ {thread[r]} :
           thread' = [thread EXCEPT ![r] = next]

FairSpec == Spec /\ LoopFairness /\ \A r \in Request : WF_thread(RunsOn(r))

-----------------------------------------------------------------------------
(***************************************************************************)
(* Properties.                                                             *)
(***************************************************************************)
\* Every variable has its type.
TypeOK ==
    /\ phase \in [Request -> {"new", "queued", "running", "answered", "expired", "failed"}]
    /\ slots \in 0 .. MaxConcurrency
    /\ elapsed \in [Request -> 0 .. Timeout]
    /\ thread \in [Request -> {"none", "compressing", "built", "stored", "failed"}]
    /\ built \in [Request -> 0 .. Ttl + 1]
    /\ \A i \in DOMAIN queue : phase[queue[i]] = "queued"
    /\ store \in Store

\* However a request ends, in time or late or by an exception, its slot is given
\* back once: slots and requests being served always add up.
SlotsAddUp ==
    /\ slots >= 0
    /\ slots + Cardinality({r \in Request : phase[r] = "running"}) = MaxConcurrency

\* The hand-kept count agrees with what the store holds and stays within its cap,
\* and every session that holds something is listed, so eviction sees it.
AccountsHold ==
    /\ store.chars = Total(store.data)
    /\ store.chars <= MaxChars
    /\ \A s \in Session : DOMAIN store.data[s] # {} => s \in store.keys

\* The live spans that a write of r leaves as they are.
Beside(r, s)     == {h \in DOMAIN store.data[s] :
                        ~Stale(store.data[s][h]) /\ ~(s = call[r].session /\ h \in DOMAIN Cut(r))}
LiveElsewhere(r) == Total([s \in Session |-> Keep(store.data[s], Beside(r, s))])

\* A span that has not expired is lost only to a thread that cut its handle in its
\* session again, or whose spans do not fit beside all that is live: never to
\* a wrong count, nor to a reader.
LostOnlyForSpace ==
    [][\A s \in Session : \A h \in DOMAIN store.data[s] :
          ~Stale(store.data[s][h]) /\ h \notin DOMAIN store'.data[s] =>
              \E r \in Request : /\ thread[r] = "built" /\ thread'[r] = "stored"
                                 /\ \/ s = call[r].session /\ h \in DOMAIN Cut(r)
                                    \/ LiveElsewhere(r) + Chars(Spans(r)) > MaxChars]_vars

\* The store keeps the promise of LossyStore through every interleaving of
\* threads, late threads of expired requests and expansions.
Lossy == INSTANCE LossyStore WITH
            Cuts <- {c[r].cut : c \in Calls, r \in Request},
            None <- Nothing,
            held <- [a \in Session \X Handle |->
                        IF a[2] \in DOMAIN store.data[a[1]] THEN store.data[a[1]][a[2]].text
                        ELSE Nothing]
ImplementsLossyStore == Lossy!Spec

\* No request that waits for a slot waits for ever.
EveryRequestEnds ==
    \A r \in Request : phase[r] = "queued" ~> phase[r] \in {"answered", "expired", "failed"}
=============================================================================
