----------------------------- MODULE Ownership -----------------------------
(***************************************************************************)
(* What Engine.ServeHTTP and its pool promise about contexts: a context    *)
(* belongs to one request at a time, and one that was not given back       *)
(* belongs to nobody else ever after.                                      *)
(***************************************************************************)
CONSTANTS Requests, Ctxs, NoCtx

VARIABLES
    lease,  \* the context each request uses, or NoCtx
    free,   \* contexts given back
    used    \* contexts that exist

vars == <<lease, free, used>>

Init ==
    /\ lease = [r \in Requests |-> NoCtx]
    /\ free = {}
    /\ used = {}

\* A request takes a context given back, or a new one.
Acquire(r, c) ==
    /\ lease[r] = NoCtx
    /\ c \in free \cup (Ctxs \ used)
    /\ lease' = [lease EXCEPT ![r] = c]
    /\ free' = free \ {c}
    /\ used' = used \cup {c}

\* A request gives its context back, or lets it go for good.
GiveBack(r) ==
    /\ lease[r] # NoCtx
    /\ free' = free \cup {lease[r]}
    /\ lease' = [lease EXCEPT ![r] = NoCtx]
    /\ UNCHANGED used

Abandon(r) ==
    /\ lease[r] # NoCtx
    /\ lease' = [lease EXCEPT ![r] = NoCtx]
    /\ UNCHANGED <<free, used>>

\* A context given back may disappear.
Collect(c) ==
    /\ c \in free
    /\ free' = free \ {c}
    /\ UNCHANGED <<lease, used>>

Next ==
    \/ \E r \in Requests : GiveBack(r) \/ Abandon(r)
    \/ \E r \in Requests, c \in Ctxs : Acquire(r, c)
    \/ \E c \in Ctxs : Collect(c)

Spec == Init /\ [][Next]_vars
=============================================================================
