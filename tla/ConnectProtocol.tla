--------------------------- MODULE ConnectProtocol ---------------------------
(***************************************************************************)
(* What the endpoint promises a caller of connect() (spec.md, section 4.4): *)
(* each broker stream id is used at most once; one opened by connect() is  *)
(* pending until it is answered, exactly once, by an Event::OutgoingConnect *)
(* carrying its stream id and an outcome; the caller takes the answers it  *)
(* holds one at a time (accept_outgoing).  A broker stream used for        *)
(* anything else is never answered.                                        *)
(***************************************************************************)

EXTENDS TLAPS

CONSTANT Sids

VARIABLES
    conn,    \* each broker stream id: "unused", "pending" (a connect() on it
             \* awaits its answer) or "done" (answered, or used otherwise)
    outbox   \* the answers handed to the caller and not yet taken

cpvars == <<conn, outbox>>

\* cr of an Event::OutgoingConnect: None, Some(ok: false), Some(ok: true).
Outcomes == {"none", "refused", "ok"}

Init ==
    /\ conn = [s \in Sids |-> "unused"]
    /\ outbox = {}

\* connect(): a fresh broker stream carries the request.
Request(s) ==
    /\ conn[s] = "unused"
    /\ conn' = [conn EXCEPT ![s] = "pending"]
    /\ UNCHANGED outbox

\* The one answer to the connect() on s.
Answer(s, cr) ==
    /\ conn[s] = "pending"
    /\ conn' = [conn EXCEPT ![s] = "done"]
    /\ outbox' = outbox \cup {[s |-> s, cr |-> cr]}

\* A fresh broker stream used for something other than a connect().
Use(s) ==
    /\ conn[s] = "unused"
    /\ conn' = [conn EXCEPT ![s] = "done"]
    /\ UNCHANGED outbox

\* The caller takes an answer.
Consume(c) ==
    /\ c \in outbox
    /\ outbox' = outbox \ {c}
    /\ UNCHANGED conn

Next ==
    \/ \E s \in Sids : Request(s) \/ Use(s)
    \/ \E s \in Sids, cr \in Outcomes : Answer(s, cr)
    \/ \E c \in outbox : Consume(c)

Spec == Init /\ [][Next]_cpvars

CPTypeOK ==
    /\ conn \in [Sids -> {"unused", "pending", "done"}]
    /\ outbox \subseteq [s : Sids, cr : Outcomes]

\* Every answer the caller holds is the only one for its connect(), which
\* is no longer pending: no connect() is answered twice or with two outcomes.
AnsweredOnce ==
    \A c \in outbox :
        /\ conn[c.s] = "done"
        /\ \A d \in outbox : d.s = c.s => d = c

CPInv == CPTypeOK /\ AnsweredOnce

\* Each step of the protocol keeps the types and the one-answer claim: an
\* answer is added only for a pending stream, which no held answer is for.
LEMMA CPInvStep == CPInv /\ [Next]_cpvars => CPInv'
<1> SUFFICES ASSUME CPInv, [Next]_cpvars PROVE CPInv'
  OBVIOUS
<1>1. ASSUME NEW s \in Sids, Request(s) \/ Use(s) PROVE CPInv'
  BY <1>1 DEF Request, Use, CPInv, CPTypeOK, AnsweredOnce
<1>2. ASSUME NEW s \in Sids, NEW cr \in Outcomes, Answer(s, cr) PROVE CPInv'
  <2>1. \A c \in outbox : c.s # s
    BY <1>2 DEF Answer, CPInv, AnsweredOnce
  <2>2. CPTypeOK'
    BY <1>2 DEF Answer, CPInv, CPTypeOK
  <2>3. AnsweredOnce'
    BY <1>2, <2>1 DEF Answer, CPInv, CPTypeOK, AnsweredOnce
  <2> QED
    BY <2>2, <2>3 DEF CPInv
<1>3. ASSUME NEW c \in outbox, Consume(c) PROVE CPInv'
  BY <1>3 DEF Consume, CPInv, CPTypeOK, AnsweredOnce
<1>4. CASE UNCHANGED cpvars
  BY <1>4 DEF cpvars, CPInv, CPTypeOK, AnsweredOnce
<1> QED
  BY <1>1, <1>2, <1>3, <1>4 DEF Next

\* No connect() is ever answered twice or with two outcomes, and a held
\* answer is for a connect() that is no longer pending.
THEOREM AnsweredOnceInvariant == Spec => []AnsweredOnce
<1>1. Init => CPInv
  BY DEF Init, CPInv, CPTypeOK, AnsweredOnce
<1> QED
  BY <1>1, CPInvStep, PTL DEF Spec, CPInv


\* A connect() stops being pending only in the step that hands the caller
\* its answer, one the caller did not hold before: no connect() is dropped
\* without an Event::OutgoingConnect.
AnswerOnResolve ==
    \A s \in Sids : conn[s] = "pending" /\ conn'[s] # "pending" =>
        \E cr \in Outcomes : [s |-> s, cr |-> cr] \in outbox' \ outbox

\* CPInv holds in every state of the protocol.
LEMMA CPInvariant == Spec => []CPInv
<1>1. Init => CPInv
  BY DEF Init, CPInv, CPTypeOK, AnsweredOnce
<1> QED
  BY <1>1, CPInvStep, PTL DEF Spec

\* Only Answer ends a pending connect(), and the answer it adds is new:
\* a held answer is for a stream that is no longer pending.
LEMMA AnswerOnResolveStep == CPInv /\ [Next]_cpvars => [AnswerOnResolve]_cpvars
<1> SUFFICES ASSUME CPInv, [Next]_cpvars PROVE [AnswerOnResolve]_cpvars
  OBVIOUS
<1>1. ASSUME NEW s \in Sids, Request(s) \/ Use(s) PROVE AnswerOnResolve
  BY <1>1 DEF Request, Use, AnswerOnResolve, CPInv, CPTypeOK
<1>2. ASSUME NEW s \in Sids, NEW cr \in Outcomes, Answer(s, cr) PROVE AnswerOnResolve
  <2>1. [s |-> s, cr |-> cr] \notin outbox
    BY <1>2 DEF Answer, CPInv, AnsweredOnce
  <2> QED
    BY <1>2, <2>1 DEF Answer, AnswerOnResolve, CPInv, CPTypeOK
<1>3. ASSUME NEW c \in outbox, Consume(c) PROVE AnswerOnResolve
  BY <1>3 DEF Consume, AnswerOnResolve
<1>4. CASE UNCHANGED cpvars
  BY <1>4 DEF cpvars
<1> QED
  BY <1>1, <1>2, <1>3, <1>4 DEF Next

\* Every step of the protocol that ends a pending connect() hands the
\* caller a fresh answer for it.
THEOREM AnswerOnResolveHolds == Spec => [][AnswerOnResolve]_cpvars
  BY CPInvariant, AnswerOnResolveStep, PTL DEF Spec

=============================================================================
