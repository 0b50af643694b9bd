----------------------------- MODULE Evaluation -----------------------------
(***************************************************************************)
(* bench/extrinsic_eval.py with metrics/extrinsic.py: runs that put every  *)
(* cell (an instance under a condition) to a model, one cell or a pack of  *)
(* them per request, under a daily budget of replies.  A run may crash, be *)
(* repeated with other arguments, or only analyse the replies on disk; the *)
(* provider may answer, fail, or refuse.                                   *)
(***************************************************************************)
EXTENDS Ledger

CONSTANTS
    Pools,          \* SUITE_ORDER and its instances: a sequence of sequences
    Prompt,         \* the context and question of a cell, as one value
    Replies,        \* what may be replied to a single question and to a pack
    Budget,         \* --budget, the same for every run
    Arguments,      \* pairs of values of --instances and --pack
    Params,         \* generation parameters, the same for both judges
    MaxRuns, MaxDays      \* bounds of the model

Conditions == <<"full", "ulrc3", "truncate">>

\* A line of a reply: the number that opens it, 0 for none, and what it says.
Line == [num : Nat, says : {"", "gold", "refusal", "other"}]

ASSUME EvaluationAssumption ==
    /\ Budget \in Nat /\ MaxRuns \in Nat /\ MaxDays \in Nat
    /\ Arguments \subseteq Nat \X Nat
    /\ Pools \in Seq(Range(Pools)) /\ Pools # <<>>
    /\ \A s \in DOMAIN Pools : Pools[s] \in Seq(Range(Pools[s]))
    /\ \A packed \in BOOLEAN : Replies[packed] \subseteq Seq(Line)

VARIABLES
    today, runs,
    disk,       \* the ledger file
    ledger,     \* the ledger of the running process
    judge,      \* "none", "gemini" or "replay": the process and its judge
    latency,    \* judge.last_latency_ms: the reply in `paid` it timed, 0 for None
    pack,       \* its --pack
    plan,       \* the requests still to be made: sequences of cells
    call,       \* "idle", "waiting", "answered"
    answer,     \* the reply in hand
    trials,     \* the trials of the run
    stopped,    \* the run ended for lack of quota
    \* Auxiliary, for the properties only:
    paid,       \* the replies that came in: what was asked, in which run and day
    saved,      \* those of them, by index, that a file has held
    used        \* those of them that their own request was evaluated from

history == <<paid, saved, used>>
vars == <<today, runs, disk, ledger, judge, latency, pack, plan, call, answer,
          trials, stopped, history>>
idle == <<today, runs, disk, history>>

-----------------------------------------------------------------------------
(***************************************************************************)
(* Planning.                                                               *)
(***************************************************************************)
\* pick_instances: one instance per suite in turn, as long as there are any.
Chosen(n) ==
    LET width  == Len(Pools)
        rounds == Max({Len(Pools[s]) : s \in DOMAIN Pools})
        out[j \in 0 .. rounds * width] ==
            IF j = 0 THEN <<>>
            ELSE LET pool == Pools[((j - 1) % width) + 1]
                     idx  == ((j - 1) \div width) + 1
                 IN  IF Len(out[j - 1]) < n /\ idx <= Len(pool)
                     THEN Append(out[j - 1], pool[idx]) ELSE out[j - 1]
    IN  out[rounds * width]

Chunks(s, k) == [i \in 1 .. ((Len(s) + k - 1) \div k) |->
                    SubSeq(s, (i - 1) * k + 1, Min({i * k, Len(s)}))]

\* run: packs are formed within a condition, single cells go by instance.
Requests(n, k) ==
    LET insts == Chosen(n)
        Column(c) == [i \in DOMAIN insts |-> [iid |-> insts[i], cond |-> c]]
    IN  IF k > 1
        THEN FlattenSeq([j \in DOMAIN Conditions |-> Chunks(Column(Conditions[j]), k)])
        ELSE FlattenSeq([i \in DOMAIN insts |->
                [j \in DOMAIN Conditions |-> <<[iid |-> insts[i], cond |-> Conditions[j]]>>]])

\* build_prompt and build_packed_prompt: a pack of one is still a pack.
PromptOf(request) ==
    <<pack > 1, [i \in DOMAIN request |-> Prompt[<<request[i].iid, request[i].cond>>]]>>

\* Slip: the replaying judge has other generation parameters.
OwnKey(request) == RequestKey(judge, PromptOf(request))
KeyOf(request) == RequestKey(Params, PromptOf(request))

-----------------------------------------------------------------------------
(***************************************************************************)
(* Reading replies.                                                        *)
(***************************************************************************)
\* parse_packed_reply: unnumbered lines continue the item above; an impossible
\* number belongs to none.
Said(line) == IF line.says = "" THEN <<>> ELSE <<line>>

ReadLine(st, line, n) ==
    IF line.num \in 1 .. n THEN [current |-> line.num, out |-> [st.out EXCEPT ![line.num] = Said(line)]]
    ELSE IF line.num # 0 THEN [st EXCEPT !.current = 0]
    ELSE IF st.current # 0 THEN [st EXCEPT !.out[st.current] = @ \o Said(line)] ELSE st

ParsePacked(reply, n) ==
    LET st[j \in 0 .. Len(reply)] ==
            IF j = 0 THEN [current |-> 0, out |-> [i \in 1 .. n |-> <<>>]]
            ELSE ReadLine(st[j - 1], reply[j], n)
    IN  st[Len(reply)].out

\* score_answer, for one gold span: an answer that opens with a refusal is wrong.
Missing == -1
Score(lines) ==
    IF lines = <<>> \/ lines[1].says = "refusal" THEN 0
    ELSE IF \E i \in DOMAIN lines : lines[i].says = "gold" THEN 1 ELSE 0

\* `timed` stands for latency_ms: the fresh request that was timed, 0 for none.
Trial(cell, score, reply, timed) ==
    [iid |-> cell.iid, cond |-> cell.cond, score |-> score, reply |-> reply, timed |-> timed]

\* evaluate_packed and evaluate_condition.  An item of a pack without an answer
\* is missing; an empty reply to a single question is scored as it stands.
Evaluated(request, reply, timed) ==
    IF pack > 1
    THEN LET answers == ParsePacked(reply, Len(request)) IN
         [i \in DOMAIN request |->
            Trial(request[i], IF answers[i] = <<>> THEN Missing ELSE Score(answers[i]), answers[i], timed)]
    ELSE <<Trial(request[1], Score(reply), reply, timed)>>

\* A transport failure leaves every cell of the request missing.
\* Slip: what the model did not answer counts as wrong.
FailedWrong(request) == [i \in DOMAIN request |-> Trial(request[i], 0, <<>>, 0)]
Failed(request) == [i \in DOMAIN request |-> Trial(request[i], Missing, <<>>, 0)]

-----------------------------------------------------------------------------
(***************************************************************************)
(* The process.                                                            *)
(***************************************************************************)
Request == Head(plan)

Start(n, k, kind) ==
    /\ judge = "none" /\ runs < MaxRuns
    /\ runs' = runs + 1
    /\ ledger' = Load(disk, today)
    /\ judge' = kind /\ latency' = 0 /\ pack' = k /\ plan' = Requests(n, k)
    /\ call' = "idle" /\ answer' = <<>> /\ trials' = <<>> /\ stopped' = FALSE
    /\ UNCHANGED <<today, disk, history>>

Turn == judge # "none" /\ plan # <<>> /\ call = "idle"

\* A replay is not a timing observation.
\* Slip: it leaves the latency of the last request where it is.
ReplayLatencyKept == latency
ReplayLatency == 0

\* ask, of a judge that has the reply.
Replay ==
    /\ Turn /\ Cached(ledger, KeyOf(Request))
    /\ latency' = ReplayLatency
    /\ trials' = trials \o Evaluated(Request, ledger.cache[KeyOf(Request)], latency')
    /\ plan' = Tail(plan)
    /\ UNCHANGED <<idle, ledger, judge, pack, call, answer, stopped>>

\* ask, of _CacheOnlyJudge: the run goes on to the next request.
Miss ==
    /\ Turn /\ judge = "replay" /\ ~Cached(ledger, KeyOf(Request))
    /\ plan' = Tail(plan)
    /\ UNCHANGED <<idle, ledger, judge, latency, pack, call, answer, trials, stopped>>

\* ask, of GeminiJudge: QuotaExhausted, or a request to the provider.
Fresh == Turn /\ judge = "gemini" /\ ~Cached(ledger, KeyOf(Request))

Exhausted ==
    /\ Fresh /\ Remaining(ledger, Budget) = 0
    /\ stopped' = TRUE /\ plan' = <<>>
    /\ UNCHANGED <<idle, ledger, judge, latency, pack, call, answer, trials>>

Send ==
    /\ Fresh /\ Remaining(ledger, Budget) > 0
    /\ call' = "waiting"
    /\ UNCHANGED <<idle, ledger, judge, latency, pack, plan, answer, trials, stopped>>

\* The provider.
Answered ==
    /\ call = "waiting"
    /\ call' = "answered"
    /\ \E r \in Replies[pack > 1] : answer' = r
    /\ paid' = Append(paid, [day |-> ledger.day, run |-> runs, request |-> Request,
                             key |-> KeyOf(Request), reply |-> answer'])
    /\ latency' = Len(paid')
    /\ UNCHANGED <<today, runs, disk, saved, used, ledger, judge, pack, plan, trials, stopped>>

Refused ==      \* HTTP 429
    /\ call = "waiting"
    /\ call' = "idle" /\ stopped' = TRUE /\ plan' = <<>>
    /\ UNCHANGED <<idle, ledger, judge, latency, pack, answer, trials>>

Broken ==       \* any other error, a timeout, a body that is no JSON
    /\ call = "waiting"
    /\ call' = "idle" /\ plan' = Tail(plan)
    /\ trials' = trials \o Failed(Request)
    /\ UNCHANGED <<idle, ledger, judge, latency, pack, answer, stopped>>

\* put: the reply is counted and cached, and then the ledger is saved.
Kept ==
    /\ call = "answered"
    /\ ledger' = Put(ledger, KeyOf(Request), answer)
    /\ call' = "idle" /\ answer' = <<>> /\ plan' = Tail(plan)
    /\ UNCHANGED <<today, runs, judge, latency, pack, stopped, paid>>

\* The file is in place; the cells of the request are evaluated.
Store ==
    /\ Kept
    /\ disk' = ledger'
    /\ saved' = saved \cup {k \in DOMAIN paid : paid[k].run = runs}
    /\ used' = used \cup {Len(paid)}
    /\ trials' = trials \o Evaluated(Request, answer, latency)

\* save raises, on a full disk for one: the old file stands, memory keeps what
\* was put, and the error is recorded as a failure of the request.
SaveFails ==
    /\ Kept
    /\ trials' = trials \o Failed(Request)
    /\ UNCHANGED <<disk, saved, used>>

Ended == /\ judge' = "none" /\ latency' = 0 /\ plan' = <<>> /\ call' = "idle" /\ answer' = <<>>
         /\ UNCHANGED <<idle, ledger, pack>>

\* The payload is computed from the trials, which stay readable here.
Report == judge # "none" /\ plan = <<>> /\ Ended /\ UNCHANGED <<trials, stopped>>

Crash == judge # "none" /\ plan # <<>> /\ Ended /\ trials' = <<>> /\ stopped' = FALSE

\* The clock: a running process keeps the day it began with.
Midnight ==
    /\ today < MaxDays /\ today' = today + 1
    /\ UNCHANGED <<runs, disk, ledger, judge, latency, pack, plan, call, answer, trials,
                   stopped, history>>

Init ==
    /\ today = 0 /\ runs = 0
    /\ disk = NoFile /\ ledger = NoFile
    /\ judge = "none" /\ latency = 0 /\ pack = 1 /\ plan = <<>> /\ call = "idle" /\ answer = <<>>
    /\ trials = <<>> /\ stopped = FALSE
    /\ paid = <<>> /\ saved = {} /\ used = {}

Step == \/ Replay \/ Miss \/ Exhausted \/ Send \/ Answered \/ Refused \/ Broken
        \/ Store \/ SaveFails \/ Report

Next ==
    \/ \E a \in Arguments, kind \in {"gemini", "replay"} : Start(a[1], a[2], kind)
    \/ Step \/ Crash \/ Midnight

Spec == Init /\ [][Next]_vars

-----------------------------------------------------------------------------
(***************************************************************************)
(* The analysis of a run: paired_analysis.                                 *)
(***************************************************************************)
\* Only what a request of this run measured is timed.
Timed(t, c) == t.cond = c /\ t.timed # 0 /\ t.score # Missing

\* The latencies of a condition: the items of a pack share theirs.
Latencies(c) ==
    LET seen[j \in 0 .. Len(trials)] ==
            IF j = 0 THEN <<>>
            ELSE IF Timed(trials[j], c)
                    /\ (seen[j - 1] = <<>> \/ Last(seen[j - 1]) # trials[j].timed)
                 THEN Append(seen[j - 1], trials[j].timed) ELSE seen[j - 1]
    IN  seen[Len(trials)]

-----------------------------------------------------------------------------
(***************************************************************************)
(* Correctness.                                                            *)
(***************************************************************************)
\* A reply the budget has to answer for: it reached a file, or it came in during
\* the run under way.  A reply that a crash, or a failed save in a run that ends
\* then, kept from the file is known to nobody any more.
Lasting(k) == k \in saved \/ (judge # "none" /\ paid[k].run = runs)

(***************************************************************************)
(* A request is not sent again, and no replay misses it, once its reply    *)
(* has reached the file, whatever crashed since and in which run, on which *)
(* day and with which arguments; nor in the run that got the reply, even   *)
(* if it could not be saved.                                               *)
(***************************************************************************)
Known == \E k \in DOMAIN paid : Lasting(k) /\ paid[k].key[2] = PromptOf(Request)

KnownNeverResent ==
    [][(Send \/ Miss) => ~Known]_vars

(***************************************************************************)
(* The file counts the replies of its day that ever reached it, whatever   *)
(* runs, crashes and failed saves came between; and these with the replies *)
(* of the run under way stay, for every day, within the declared budget.   *)
(***************************************************************************)
PaidOn(d) == Cardinality({k \in DOMAIN paid : Lasting(k) /\ paid[k].day = d})

BudgetOfReplies ==
    /\ \A d \in 0 .. today : PaidOn(d) <= Budget
    /\ disk # NoFile =>
          disk.spent = Cardinality({k \in saved : paid[k].day = disk.day})

(***************************************************************************)
(* A score comes from a reply that was paid for, and for a packed request  *)
(* from the lines of that very item: those under its last number, up to    *)
(* the next number.  A failed request or an item left out scores nothing.  *)
(***************************************************************************)
Under(reply, k, i) ==   \* line k of the reply belongs to item i
    /\ \E h \in 1 .. k : reply[h].num = i /\ \A m \in (h + 1) .. k : reply[m].num = 0
    /\ \A m \in (k + 1) .. Len(reply) : reply[m].num # i

ScoresComeFromReplies ==
    \A t \in {u \in Range(trials) : u.score # Missing} :
        \E e \in Range(paid) : \E i \in DOMAIN e.key[2][2] :
            /\ e.key[2][1] = (pack > 1)
            /\ e.key[2][2][i] = Prompt[<<t.iid, t.cond>>]
            /\ IF pack > 1
               THEN /\ t.reply # <<>>
                    /\ \A x \in Range(t.reply) : \E k \in DOMAIN e.reply :
                            e.reply[k] = x /\ Under(e.reply, k, i)
               ELSE t.reply = e.reply

(***************************************************************************)
(* A condition is timed exactly by the requests that this run sent, got a  *)
(* reply to, saved and, in a pack, found an answer in to a cell of that    *)
(* condition: each once, however many items it carried.  No cell carries   *)
(* the timing of a request it was not part of: a replay is not timed by    *)
(* the request before it.                                                  *)
(***************************************************************************)
Answers(e, i) == pack > 1 => ParsePacked(e.reply, Len(e.request))[i] # <<>>

SentFor(c) ==
    {k \in used : /\ paid[k].run = runs
                  /\ \E i \in DOMAIN paid[k].request :
                        paid[k].request[i].cond = c /\ Answers(paid[k], i)}

TimedBy(t) == /\ t.timed \in DOMAIN paid /\ paid[t.timed].run = runs
              /\ [iid |-> t.iid, cond |-> t.cond] \in Range(paid[t.timed].request)

EachRequestTimedOnce ==
    judge # "none" =>
        /\ \A c \in Range(Conditions) :
              IsInjective(Latencies(c)) /\ Range(Latencies(c)) = SentFor(c)
        /\ \A t \in Range(trials) : t.timed # 0 => TimedBy(t)
=============================================================================
