------------------------------- MODULE Ledger -------------------------------
(***************************************************************************)
(* The request ledger of metrics/extrinsic.py: how many replies a day has  *)
(* cost and every reply so far, in memory and, after each call, on disk.   *)
(* save writes a temporary file and renames it, so the file is always one  *)
(* that save has written.                                                  *)
(***************************************************************************)
EXTENDS Integers, FiniteSetsExt, SequencesExt

NoFile == [day |-> -1, spent |-> 0, cache |-> <<>>]

\* Ledger.load: yesterday's count is dropped, the replies are not.
Load(file, today) ==
    IF file.day = today THEN file ELSE [file EXCEPT !.day = today, !.spent = 0]

Remaining(ledger, budget) == IF budget > ledger.spent THEN budget - ledger.spent ELSE 0

\* Ledger.key: a reply belongs to the prompt and the generation parameters.
RequestKey(params, prompt) == <<params, prompt>>

Cached(ledger, key) == key \in DOMAIN ledger.cache

Remember(cache, key, reply) ==
    [k \in DOMAIN cache \cup {key} |-> IF k = key THEN reply ELSE cache[k]]

\* Ledger.put, before it saves.
\* Slip: a reply that comes from a repeated prompt is not counted.
PutUncounted(ledger, key, reply) == [ledger EXCEPT !.cache = Remember(@, key, reply)]
Put(ledger, key, reply) ==
    [ledger EXCEPT !.cache = Remember(@, key, reply), !.spent = @ + 1]
=============================================================================
