-------------------------- MODULE BootstrapProtocol --------------------------
(***************************************************************************)
(* What EndpointBuilder::connect promises its caller (spec.md, section 5): *)
(* it resolves a set of broker records and tries them one at a time, each  *)
(* at most once; a record is sent at most MaxSends handshakes; connect     *)
(* returns Ok only on the record it is trying and only after sending that  *)
(* record a handshake, OutOfOptions only once every record has been tried, *)
(* and otherwise an error.  Time, the socket and the network are left out: *)
(* they decide which of these steps happens, not what a step may do.       *)
(***************************************************************************)
EXTENDS Naturals

CONSTANTS
    Recs,      \* the broker records the resolver may return
    MaxSends   \* handshakes one record may be sent

VARIABLES
    stage,     \* "resolve", "pop" (between records), "trying", "done"
    pending,   \* records resolved and not yet tried
    cur,       \* the record being tried
    sends,     \* handshakes sent to cur
    outcome    \* "none", "ok", "OutOfOptions", "err"

bpvars == <<stage, pending, cur, sends, outcome>>

Init ==
    /\ stage = "resolve"
    /\ pending = {}
    /\ cur \in Recs
    /\ sends = 0
    /\ outcome = "none"

\* The records are resolved once.
Resolved ==
    /\ stage = "resolve"
    /\ pending' \in SUBSET Recs
    /\ stage' = "pop"
    /\ UNCHANGED <<cur, sends, outcome>>

\* The next record is taken and never offered again.
Take(r) ==
    /\ stage = "pop"
    /\ r \in pending
    /\ cur' = r
    /\ pending' = pending \ {r}
    /\ sends' = 0
    /\ stage' = "trying"
    /\ UNCHANGED outcome

\* One more handshake to the record being tried, within its budget.
Send ==
    /\ stage = "trying"
    /\ sends < MaxSends
    /\ sends' = sends + 1
    /\ UNCHANGED <<stage, pending, cur, outcome>>

\* The record is given up; connect moves on to the next.
Abandon ==
    /\ stage = "trying"
    /\ stage' = "pop"
    /\ UNCHANGED <<pending, cur, sends, outcome>>

\* A response to a handshake sent to the record being tried.
Succeed ==
    /\ stage = "trying"
    /\ sends >= 1
    /\ stage' = "done"
    /\ outcome' = "ok"
    /\ UNCHANGED <<pending, cur, sends>>

\* Every record has been tried.
Exhausted ==
    /\ stage = "pop"
    /\ pending = {}
    /\ stage' = "done"
    /\ outcome' = "OutOfOptions"
    /\ UNCHANGED <<pending, cur, sends>>

\* An error ends connect at any stage, possibly as the next record is taken.
Error ==
    /\ stage # "done"
    /\ stage' = "done"
    /\ outcome' = "err"
    /\ sends' = sends
    /\ \/ UNCHANGED <<pending, cur>>
       \/ stage = "pop" /\ \E r \in pending : cur' = r /\ pending' = pending \ {r}

Next ==
    \/ Resolved
    \/ \E r \in Recs : Take(r)
    \/ Send \/ Abandon \/ Succeed \/ Exhausted \/ Error

Spec == Init /\ [][Next]_bpvars

=============================================================================
