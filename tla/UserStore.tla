----------------------------- MODULE UserStore -----------------------------
(***************************************************************************)
(* What the brain relies on when it keeps interviews: one row per user,    *)
(* there for a time to live from its last write and no longer, and a       *)
(* working copy that is the brain's own until it is written back.  How a   *)
(* row is kept, under which key and in which objects, is left out.         *)
(***************************************************************************)
EXTENDS Naturals

CONSTANTS User, Data, Blank, None, TTL

VARIABLES
    kept,    \* what is kept for each user and since when, None if nothing is
    copy,    \* the brain's working copy, None between messages
    now,     \* the time
    durable  \* whether rows outlive a restart

vars == <<kept, copy, now, durable>>

Lives(r, t) == r # None /\ t <= r.at + TTL

Init ==
    /\ kept = [u \in User |-> None]
    /\ copy = None
    /\ now = 0
    /\ durable \in BOOLEAN

(* The row of u is read: a copy of what is kept, None if nothing is.       *)
Get(u) ==
    /\ copy' = IF kept[u] = None THEN None ELSE [user |-> u, data |-> kept[u].data]
    /\ UNCHANGED <<kept, now, durable>>

Create(u) ==
    /\ copy' = [user |-> u, data |-> Blank]
    /\ UNCHANGED <<kept, now, durable>>

Edit(d) ==
    /\ copy # None
    /\ copy' = [copy EXCEPT !.data = d]
    /\ UNCHANGED <<kept, now, durable>>

Put ==
    /\ copy # None
    /\ kept' = [kept EXCEPT ![copy.user] = [data |-> copy.data, at |-> now]]
    /\ UNCHANGED <<copy, now, durable>>

Delete(u) ==
    /\ kept' = [kept EXCEPT ![u] = None]
    /\ UNCHANGED <<copy, now, durable>>

Release ==
    /\ copy' = None
    /\ UNCHANGED <<kept, now, durable>>

Tick ==
    /\ now' = now + 1
    /\ kept' = [u \in User |-> IF Lives(kept[u], now + 1) THEN kept[u] ELSE None]
    /\ UNCHANGED <<copy, durable>>

Restart ==
    /\ copy' = None
    /\ kept' = IF durable THEN kept ELSE [u \in User |-> None]
    /\ UNCHANGED <<now, durable>>

Next ==
    \/ \E u \in User : Get(u) \/ Create(u) \/ Delete(u)
    \/ \E d \in Data : Edit(d)
    \/ Put \/ Release \/ Tick \/ Restart

Spec == Init /\ [][Next]_vars
=============================================================================
