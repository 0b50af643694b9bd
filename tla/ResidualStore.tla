--------------------------- MODULE ResidualStore ----------------------------
(***************************************************************************)
(* ResidualStore (ulrc3/recovery.py): dropped spans by session and handle, *)
(* bounded by characters, evicted by age and by least recent use.  Every   *)
(* operation holds the store's lock, so each is one value of the store     *)
(* computed from the one before.                                           *)
(*                                                                         *)
(* Time is the age of each span, which stops at Ttl + 1.                   *)
(***************************************************************************)
EXTENDS Integers, FiniteSets, Functions

CONSTANTS
    Session, Handle, Text,
    Length(_),   \* the characters of a text
    MaxChars,    \* max_chars
    Ttl          \* ttl_seconds; 0 for no expiry

Residual == [text : Text, age : 0 .. Ttl + 1]
Bucket   == UNION {[H -> Residual] : H \in SUBSET Handle}

\* `keys`, their order `lru` (pairs, the less recently used first) and `data` are
\* the OrderedDict _data; `chars` is the count _chars that every path adjusts by
\* hand.
Store == [data : [Session -> Bucket], keys : SUBSET Session,
          lru : SUBSET (Session \X Session), chars : Int]

Nothing == [h \in {} |-> {}]
Empty   == [data |-> [s \in Session |-> Nothing], keys |-> {}, lru |-> {}, chars |-> 0]

Keep(f, H)   == [h \in H |-> f[h]]
Chars(b)     == SumFunction([h \in DOMAIN b |-> Length(b[h].text)])
Total(data)   == SumFunction([s \in Session |-> Chars(data[s])])
Over(new, b) == [h \in (DOMAIN new) \cup (DOMAIN b) |-> IF h \in DOMAIN new THEN new[h] ELSE b[h]]
Touch(st, s) == {p \in st.lru : p[1] # s /\ p[2] # s} \cup ((st.keys \ {s}) \X {s})

Stale(r)  == Ttl > 0 /\ r.age > Ttl
Spoilt(b) == {h \in DOMAIN b : Stale(b[h])}
Fresh(b)  == Keep(b, (DOMAIN b) \ Spoilt(b))

\* Slip: a span that is replaced is not taken off the count.
WriteNoRefund(st, s, spans) ==
    [data |-> [st.data EXCEPT ![s] = Over(spans, @)], keys |-> st.keys \cup {s},
     lru |-> Touch(st, s), chars |-> st.chars + Chars(spans)]
\* Slip: a handle that is taken keeps its text.
WriteOnce(st, s, spans) ==
    LET new == Keep(spans, (DOMAIN spans) \ (DOMAIN st.data[s])) IN
    [data |-> [st.data EXCEPT ![s] = Over(new, @)], keys |-> st.keys \cup {s},
     lru |-> Touch(st, s), chars |-> st.chars + Chars(new)]
Write(st, s, spans) ==
    [data |-> [st.data EXCEPT ![s] = Over(spans, @)], keys |-> st.keys \cup {s},
     lru |-> Touch(st, s),
     chars |-> st.chars - Chars(Keep(st.data[s], (DOMAIN st.data[s]) \cap (DOMAIN spans)))
                        + Chars(spans)]

Among(lru, K) == {p \in lru : p[1] \in K /\ p[2] \in K}

SpoiltChars(data) == SumFunction([s \in Session |-> Chars(Keep(data[s], Spoilt(data[s])))])
InUse(st)         == {s \in st.keys : DOMAIN Fresh(st.data[s]) # {}}

\* Sessions left empty go with their last span, whoever emptied them.
Expire(st) ==
    IF Ttl = 0 THEN st
    ELSE [data |-> [s \in Session |-> Fresh(st.data[s])], keys |-> InUse(st),
          lru |-> Among(st.lru, InUse(st)), chars |-> st.chars - SpoiltChars(st.data)]

CharsOf(st, S) == SumFunctionOnSet([s \in Session |-> Chars(st.data[s])], S)
\* Slip: a store that is exactly full evicts.
OverflowsAtCap(st, S) == st.chars - CharsOf(st, S) >= MaxChars
Overflows(st, S) == st.chars - CharsOf(st, S) > MaxChars

\* A session is popped if the store still overflows without those before it.
Before(st, s) == {x \in st.keys : <<x, s>> \in st.lru}
Popped(st)    == {s \in st.keys : Overflows(st, Before(st, s))}

EvictLru(st) ==
    LET gone == Popped(st) IN
    [data  |-> [s \in Session |-> IF s \in gone THEN Nothing ELSE st.data[s]],
     keys  |-> st.keys \ gone,
     lru   |-> Among(st.lru, st.keys \ gone),
     chars |-> st.chars - CharsOf(st, gone)]

Put(st, s, spans) == EvictLru(Expire(Write(st, s, spans)))

Finds(st, s, h) == h \in DOMAIN st.data[s] /\ ~Stale(st.data[s][h])

\* A span found expired is removed; its session stays in place, even if empty.
Get(st, s, h) ==
    IF Finds(st, s, h) THEN [st EXCEPT !.lru = Touch(st, s)]
    ELSE IF h \in DOMAIN st.data[s]
           THEN [st EXCEPT !.data[s] = Keep(@, (DOMAIN @) \ {h}),
                           !.chars = @ - Length(st.data[s][h].text)]
    ELSE st

Aged(age) == IF age > Ttl THEN age ELSE age + 1

AgedSpans(b) == [h \in DOMAIN b |-> [b[h] EXCEPT !.age = Aged(@)]]
Older(st)    == [st EXCEPT !.data = [s \in Session |-> AgedSpans(st.data[s])]]
=============================================================================
