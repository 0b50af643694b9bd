----------------------------- MODULE LossyStore -----------------------------
(***************************************************************************)
(* What the recovery layer promises (ulrc3/recovery.py): a lossy but       *)
(* addressable memory.  A (session, handle) address holds the text of the  *)
(* last write to it, or nothing: spans may be forgotten at any moment, but *)
(* an address never shows an older text, nor one of another address.       *)
(***************************************************************************)
CONSTANTS Session, Handle,
          Cuts,    \* the sets of spans that may be written at once: handle -> text
          None

VARIABLE held

Init == held = [a \in Session \X Handle |-> None]

Written(a, s, cut) == IF a[1] = s /\ a[2] \in DOMAIN cut THEN cut[a[2]] ELSE held[a]

Write(s, cut) ==
    /\ DOMAIN held' = DOMAIN held
    /\ \A a \in DOMAIN held : held'[a] \in {None, Written(a, s, cut)}

Forget ==
    /\ DOMAIN held' = DOMAIN held
    /\ \A a \in DOMAIN held : held'[a] \in {None, held[a]}

Next == Forget \/ \E s \in Session, cut \in Cuts : Write(s, cut)

Spec == Init /\ [][Next]_held
=============================================================================
