----------------------- MODULE ConnectRefinementProofs -----------------------
(***************************************************************************)
(* Endpoint implements ConnectProtocol under the mapping ConnOf of         *)
(* EndpointConnect: the initial state maps to the protocol's, and every    *)
(* step, from a state satisfying IInv, maps to a protocol step or leaves   *)
(* the protocol state alone.  IInv is needed for the steps that claim a    *)
(* free broker stream: StreamClaims says no connect() is pending on it.    *)
(***************************************************************************)
EXTENDS EndpointConnect, EndpointProofs, TLAPS

-----------------------------------------------------------------------------
(* The three shapes a step takes on the protocol state.                    *)

\* A step that keeps cresps, whether each stream has a pending connect, and
\* whether each broker stream is free, leaves the protocol state alone.
LEMMA ConnStutter ==
    ASSUME cresps' = cresps,
           \A s \in Sids : pout'[s] = "none" <=> pout[s] = "none",
           \A s \in Sids : est'[Broker][s] = "free" <=> est[Broker][s] = "free"
    PROVE  UNCHANGED CP!cpvars
  BY DEF ConnOf, CP!cpvars

\* A step that hands out the free broker stream s, with no connect pending
\* on it, and changes nothing else of the protocol state: a Request if it
\* makes a connect pending on s, a Use otherwise.
LEMMA ConnClaim ==
    ASSUME NEW s \in Sids,
           pout[s] = "none", est[Broker][s] = "free", est'[Broker][s] # "free",
           cresps' = cresps,
           \A t \in Sids \ {s} : pout'[t] = pout[t] /\ est'[Broker][t] = est[Broker][t]
    PROVE  [CP!Next]_(CP!cpvars)
<1>1. CASE pout'[s] # "none"
  <2>1. CP!Request(s)
    BY <1>1 DEF CP!Request, ConnOf
  <2> QED
    BY <2>1 DEF CP!Next
<1>2. CASE pout'[s] = "none"
  <2>1. CP!Use(s)
    BY <1>2 DEF CP!Use, ConnOf
  <2> QED
    BY <2>1 DEF CP!Next
<1> QED
  BY <1>1, <1>2

\* A step that resolves the connect pending on s, leaves s's broker stream
\* handed out, adds one answer for s and changes nothing else: an Answer.
LEMMA ConnAnswer ==
    ASSUME NEW s \in Sids, NEW cr \in CP!Outcomes,
           pout[s] # "none", pout'[s] = "none", est'[Broker][s] # "free",
           cresps' = cresps \cup {[s |-> s, cr |-> cr]},
           \A t \in Sids \ {s} : pout'[t] = pout[t] /\ est'[Broker][t] = est[Broker][t]
    PROVE  [CP!Next]_(CP!cpvars)
<1>1. CP!Answer(s, cr)
  BY DEF CP!Answer, ConnOf
<1> QED
  BY <1>1 DEF CP!Next

\* Polling the tasks of a channel closes streams by our end only: a free
\* stream stays free and a stream handed out is never freed.
LEMMA PollHandlersFree ==
    ASSUME TypeOK, NEW r \in Routes, PollHandlers(r)
    PROVE  \A q \in Routes, s \in Sids : est'[q][s] = "free" <=> est[q][s] = "free"
  BY DEF PollHandlers, LocalClose, TypeOK

\* A new channel is never the broker's, so the broker's streams are kept.
LEMMA AddChannelBroker ==
    ASSUME TypeOK, NEW n \in FreshRoutes, AddChannel(n)
    PROVE  est'[Broker] = est[Broker]
  BY BrokerRoute DEF AddChannel, FreshRoutes, TypeOK

-----------------------------------------------------------------------------
(* The engine's progress step.                                             *)

LEMMA ProgressConn ==
    ASSUME TypeOK, Owned, LoopClaims, Progress
    PROVE  [CP!Next]_(CP!cpvars)
<1>0. cur \in live /\ cur \in Routes
  BY DEF Progress, LoopClaims, TypeOK
<1>1. CASE ProgError(cur) \/ ProgLater(cur) \/ ProgSend(cur) \/ ProgDisconnect(cur)
  <2>1. UNCHANGED <<est, pout, cresps>>
    BY <1>1 DEF ProgError, ProgLater, ProgSend, ProgDisconnect
  <2> QED
    BY <2>1, ConnStutter
<1>2. CASE ProgHeader(cur)
  <2>1. PICK s \in Sids : est[cur][s] = "free" /\
             (HeaderMalformed(cur, s) \/ HeaderBroker(cur, s) \/ HeaderPeer(cur, s))
    BY <1>2 DEF ProgHeader
  <2>2. CASE HeaderMalformed(cur, s) \/ HeaderBroker(cur, s)
    <3>1. est' = [est EXCEPT ![cur][s] = "open"] /\ UNCHANGED <<pout, cresps>>
      BY <2>2 DEF HeaderMalformed, HeaderBroker
    <3>2. CASE cur = Broker
      <4>1. pout[s] = "none"
        BY <1>0, <2>1, <3>2 DEF Owned, StreamClaims
      <4> QED
        BY <1>0, <2>1, <3>1, <3>2, <4>1, ConnClaim DEF TypeOK
    <3>3. CASE cur # Broker
      BY <1>0, <3>1, <3>3, BrokerRoute, ConnStutter DEF TypeOK
    <3> QED
      BY <3>2, <3>3
  <2>3. CASE HeaderPeer(cur, s)
    <3>1. /\ cur # Broker /\ UNCHANGED <<pout, cresps>>
          /\ \/ est' = [est EXCEPT ![cur][s] = "open"]
             \/ est' = [est EXCEPT ![cur][s] = "lclosed"]
      BY <2>3 DEF HeaderPeer
    <3>2. est'[Broker] = est[Broker]
      BY <1>0, <3>1, BrokerRoute DEF TypeOK
    <3> QED
      BY <3>1, <3>2, ConnStutter
  <2> QED
    BY <2>1, <2>2, <2>3
<1>3. CASE ProgStream(cur)
  <2>1. PICK s \in Sids : est[cur][s] \in PeerOpen /\
             (\/ StreamToIncoming(cur, s) \/ StreamToOutgoing(cur, s)
              \/ StreamToHandler(cur, s) \/ StreamDropped(cur, s))
    BY <1>3 DEF ProgStream
  <2>2. LocalClose(est[cur][s]) \in {"lclosed", "closed"}
    BY <2>1 DEF LocalClose, PeerOpen
  <2>3. CASE StreamToIncoming(cur, s)
    <3>1. /\ UNCHANGED <<pout, cresps>>
          /\ \/ est' = est
             \/ est' = [est EXCEPT ![cur][s] = LocalClose(est[cur][s])]
      BY <2>3 DEF StreamToIncoming
    <3>2. \A t \in Sids : est'[Broker][t] = "free" <=> est[Broker][t] = "free"
      BY <1>0, <2>1, <2>2, <3>1, BrokerRoute DEF TypeOK, PeerOpen
    <3> QED
      BY <3>1, <3>2, ConnStutter
  <2>4. CASE StreamToOutgoing(cur, s)
    <3>1. cur = Broker /\ pout[s] \in {"hdrs", "resp"}
      BY <2>4 DEF StreamToOutgoing, IsOutgoing, TypeOK
    <3>2. CASE pout[s] = "hdrs"
      <4>1. /\ pout' = [pout EXCEPT ![s] = "resp"]
            /\ UNCHANGED <<est, cresps>>
        BY <2>4, <3>2 DEF StreamToOutgoing
      <4>2. \A t \in Sids : pout'[t] = "none" <=> pout[t] = "none"
        BY <3>2, <4>1 DEF TypeOK
      <4> QED
        BY <4>1, <4>2, ConnStutter
    <3>3. CASE pout[s] = "resp"
      <4>1. /\ pout' = [pout EXCEPT ![s] = "none"]
            /\ est' = [est EXCEPT ![cur][s] = LocalClose(est[cur][s])]
            /\ \E ok \in {"refused", "ok"} :
                  cresps' = cresps \cup {[s |-> s, cr |-> ok]}
        BY <2>4, <3>3 DEF StreamToOutgoing
      <4>2. PICK ok \in {"refused", "ok"} : cresps' = cresps \cup {[s |-> s, cr |-> ok]}
        BY <4>1
      <4>3. ok \in CP!Outcomes
        BY DEF CP!Outcomes
      <4>4. /\ pout'[s] = "none"
            /\ est'[Broker][s] # "free"
            /\ \A t \in Sids \ {s} : pout'[t] = pout[t] /\ est'[Broker][t] = est[Broker][t]
        BY <1>0, <2>2, <3>1, <4>1 DEF TypeOK
      <4> QED
        BY <3>1, <4>2, <4>3, <4>4, ConnAnswer
    <3> QED
      BY <3>1, <3>2, <3>3
  <2>5. CASE StreamToHandler(cur, s) \/ StreamDropped(cur, s)
    <3>1. UNCHANGED <<est, pout, cresps>>
      BY <2>5 DEF StreamToHandler, StreamDropped
    <3> QED
      BY <3>1, ConnStutter
  <2> QED
    BY <2>1, <2>3, <2>4, <2>5
<1>4. CASE ProgClose(cur)
  <2>1. PICK s \in Sids :
           /\ est[cur][s] \in PeerOpen
           /\ est' = [est EXCEPT ![cur][s] = "closed"]
           /\ IF IsOutgoing(cur, s)
                 THEN /\ pout' = [pout EXCEPT ![s] = "none"]
                      /\ cresps' = cresps \cup {[s |-> s, cr |-> "none"]}
                 ELSE UNCHANGED <<pout, cresps>>
    BY <1>4 DEF ProgClose
  <2>2. CASE IsOutgoing(cur, s)
    <3>1. cur = Broker /\ pout[s] # "none"
      BY <2>2 DEF IsOutgoing
    <3>2. "none" \in CP!Outcomes
      BY DEF CP!Outcomes
    <3> QED
      BY <1>0, <2>1, <2>2, <3>1, <3>2, ConnAnswer DEF TypeOK
  <2>3. CASE ~IsOutgoing(cur, s)
    <3>1. \A t \in Sids : est'[Broker][t] = "free" <=> est[Broker][t] = "free"
      BY <1>0, <2>1, BrokerRoute DEF TypeOK, PeerOpen
    <3> QED
      BY <2>1, <2>3, <3>1, ConnStutter
  <2> QED
    BY <2>2, <2>3
<1> QED
  BY <1>1, <1>2, <1>3, <1>4 DEF Progress

-----------------------------------------------------------------------------
(* Every step of the endpoint.                                             *)

LEMMA ConnStep == IInv /\ [Next]_vars => [CP!Next]_(CP!cpvars)
<1> SUFFICES ASSUME TypeOK, Owned, LoopClaims, [Next]_vars
             PROVE  [CP!Next]_(CP!cpvars)
  BY DEF IInv, Owned
<1>1. CASE Connect
  <2>1. PICK s \in Sids :
           /\ est[Broker][s] = "free"
           /\ est' = [est EXCEPT ![Broker][s] = "open"]
           /\ pout' = [pout EXCEPT ![s] = "hdrs"]
    BY <1>1 DEF Connect
  <2>2. Broker \in live /\ cresps' = cresps
    BY <1>1 DEF Connect
  <2>3. pout[s] = "none"
    BY <2>1, <2>2 DEF Owned, StreamClaims
  <2> QED
    BY <2>1, <2>2, <2>3, BrokerRoute, ConnClaim DEF TypeOK
<1>2. ASSUME NEW r \in Routes, OpenHandler(r) PROVE [CP!Next]_(CP!cpvars)
  <2>1. PICK s \in Sids :
           /\ est[r][s] = "free"
           /\ est' = [est EXCEPT ![r][s] = "open"]
    BY <1>2 DEF OpenHandler
  <2>2. r \in live /\ UNCHANGED <<pout, cresps>>
    BY <1>2 DEF OpenHandler
  <2>3. CASE r = Broker
    <3>1. pout[s] = "none"
      BY <2>1, <2>2, <2>3 DEF Owned, StreamClaims
    <3> QED
      BY <2>1, <2>2, <2>3, <3>1, ConnClaim DEF TypeOK
  <2>4. CASE r # Broker
    BY <2>1, <2>2, <2>4, BrokerRoute, ConnStutter DEF TypeOK
  <2> QED
    BY <2>3, <2>4
<1>3. ASSUME NEW q \in creqs, Reject(q) \/ AcceptIncoming(q)
      PROVE  [CP!Next]_(CP!cpvars)
  <2>1. CASE Reject(q)
    BY <2>1, ConnStutter DEF Reject
  <2>2. CASE AcceptIncoming(q)
    <3>1. PICK n \in FreshRoutes : AddChannel(n)
      BY <2>2 DEF AcceptIncoming
    <3>2. UNCHANGED <<pout, cresps>>
      BY <2>2 DEF AcceptIncoming
    <3> QED
      BY <3>1, <3>2, AddChannelBroker, ConnStutter
  <2> QED
    BY <1>3, <2>1, <2>2
<1>4. ASSUME NEW c \in cresps, AcceptOutgoing(c) PROVE [CP!Next]_(CP!cpvars)
  <2>1. est'[Broker] = est[Broker]
    <3>1. CASE c.cr = "ok"
      <4>1. PICK n \in FreshRoutes : AddChannel(n)
        BY <1>4, <3>1 DEF AcceptOutgoing
      <4> QED
        BY <4>1, AddChannelBroker
    <3>2. CASE c.cr # "ok"
      BY <1>4, <3>2 DEF AcceptOutgoing
    <3> QED
      BY <3>1, <3>2
  <2>2. cresps' = cresps \ {c} /\ UNCHANGED pout
    BY <1>4 DEF AcceptOutgoing
  <2>3. CP!Consume(c)
    BY <2>1, <2>2 DEF CP!Consume, ConnOf
  <2> QED
    BY <2>3 DEF CP!Next
<1>5. CASE Caller
  <2>1. CASE Publish
    BY <2>1, <1>2, BrokerRoute DEF Publish
  <2>2. ASSUME NEW r \in Routes, Open(r) PROVE [CP!Next]_(CP!cpvars)
    BY <2>2, <1>2 DEF Open
  <2> QED
    BY <1>5, <1>1, <2>1, <2>2, <1>3, <1>4 DEF Caller
<1>6. CASE PollStart \/ Visit \/ NextPass \/ PollDone \/ ReapDisconnect
           \/ UNCHANGED vars
  <2>1. UNCHANGED <<est, pout, cresps>>
    BY <1>6 DEF PollStart, Visit, NextPass, PollDone, ReapDisconnect, vars
  <2> QED
    BY <2>1, ConnStutter
<1>7. CASE PrePoll \/ PostPoll
  <2>1. PollHandlers(cur) /\ UNCHANGED <<pout, cresps>>
    BY <1>7 DEF PrePoll, PostPoll
  <2> QED
    BY <2>1, BrokerRoute, PollHandlersFree, ConnStutter DEF TypeOK
<1>8. CASE Progress
  BY <1>8, ProgressConn
<1> QED
  BY <1>5, <1>6, <1>7, <1>8 DEF Next, Poll

\* Endpoint implements the connect protocol (the property of the run
\* MCEndpointConnect_refinement), for every set of routes and stream ids:
\* Endpoint::new maps to the protocol's initial state and every step of
\* poll and of the API maps to a protocol step or to no change.
THEOREM ConnectRefines == Spec => ConnectRefinement
<1>1. Init => CP!Init
  BY BrokerRoute DEF Init, CP!Init, ConnOf
<1> QED
  BY <1>1, ConnStep, IInvInvariant, PTL DEF Spec, ConnectRefinement, CP!Spec

\* No connect() is answered twice or with two outcomes: every
\* Event::OutgoingConnect the caller holds is the only one for its broker
\* stream, and that stream no longer has a pending entry.
THEOREM ConnectAnsweredOnceInvariant == Spec => []ConnectAnsweredOnce
  BY ConnectRefines, CP!AnsweredOnceInvariant DEF ConnectRefinement, ConnectAnsweredOnce


\* A step of the connect protocol, read through ConnOf, ends a pending
\* entry of outstanding_connect_outgoing only with a fresh answer; a step
\* that leaves the protocol state alone ends none.
LEMMA AnsweredFromProtocol ==
    [CP!AnswerOnResolve]_(CP!cpvars) =>
        \A s \in Sids : pout[s] # "none" /\ pout'[s] = "none" =>
            \E cr \in Outcomes : [s |-> s, cr |-> cr] \in cresps' \ cresps
  <1> SUFFICES ASSUME [CP!AnswerOnResolve]_(CP!cpvars),
                      NEW s \in Sids, pout[s] # "none", pout'[s] = "none"
               PROVE  \E cr \in Outcomes : [s |-> s, cr |-> cr] \in cresps' \ cresps
    OBVIOUS
  <1>1. ConnOf[s] = "pending" /\ ConnOf'[s] # "pending"
    BY DEF ConnOf
  <1> QED
    BY <1>1 DEF CP!AnswerOnResolve, CP!cpvars, CP!Outcomes, Outcomes

\* Every Event::OutgoingConnect is the end of its connect(): a step of poll
\* that removes a connect() from outstanding_connect_outgoing returns an
\* answer for it that the caller did not hold yet (the property of the run
\* MCEndpoint_safety), for every set of routes and stream ids.
THEOREM ConnectAnsweredHolds == Spec => ConnectAnswered
  <1>1. Spec => [][CP!AnswerOnResolve]_(CP!cpvars)
    BY ConnectRefines, CP!AnswerOnResolveHolds DEF ConnectRefinement
  <1> QED
    BY <1>1, AnsweredFromProtocol, PTL DEF ConnectAnswered

=============================================================================
