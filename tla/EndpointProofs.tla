--------------------------- MODULE EndpointProofs ---------------------------
(***************************************************************************)
(* Proofs about the endpoint model of Endpoint.tla, for every set of       *)
(* routes and stream ids.                                                  *)
(***************************************************************************)
EXTENDS Endpoint, TLAPS

\* The only fact about the constants these proofs need.
LEMMA BrokerRoute == Broker \in Routes
  BY EndpointAssumption

-----------------------------------------------------------------------------
(* Type correctness.                                                       *)

\* Polling the tasks of a channel keeps every table well typed.
LEMMA PollHandlersType ==
    ASSUME TypeOK, NEW r \in Routes, PollHandlers(r)
    PROVE  /\ hand' \in [Routes -> [Sids -> HandlerStates]]
           /\ inbox' \in [Routes -> [Sids -> BOOLEAN]]
           /\ est' \in [Routes -> [Sids -> StreamStates]]
<1>1. PICK o \in [Sids -> TaskSteps \X BOOLEAN] :
         /\ \A s \in Sids : hand[r][s] # "none" =>
                              o[s] \in PollOutcomes(hand[r][s], inbox[r][s])
         /\ LET done(s) == hand[r][s] # "none" /\ o[s][1] = "done"
            IN /\ hand' = [hand EXCEPT ![r] = [s \in Sids |->
                             IF hand[r][s] = "none" \/ done(s) THEN "none"
                             ELSE o[s][1]]]
               /\ inbox' = [inbox EXCEPT ![r] = [s \in Sids |->
                             IF hand[r][s] = "none" \/ done(s) THEN FALSE
                             ELSE o[s][2]]]
               /\ est' = [est EXCEPT ![r] = [s \in Sids |->
                             IF done(s) THEN LocalClose(est[r][s])
                             ELSE est[r][s]]]
  BY DEF PollHandlers
<1>2. \A s \in Sids : o[s][1] \in TaskSteps /\ o[s][2] \in BOOLEAN
  OBVIOUS
<1>3. hand' \in [Routes -> [Sids -> HandlerStates]]
  BY <1>1, <1>2 DEF TypeOK, TaskSteps, HandlerStates
<1>4. inbox' \in [Routes -> [Sids -> BOOLEAN]]
  BY <1>1, <1>2 DEF TypeOK
<1>5. est' \in [Routes -> [Sids -> StreamStates]]
  BY <1>1 DEF TypeOK, StreamStates, LocalClose
<1>6. QED
  BY <1>3, <1>4, <1>5

\* Inserting a channel keeps every table well typed.
LEMMA AddChannelType ==
    ASSUME TypeOK, NEW n \in Routes, AddChannel(n)
    PROVE  /\ live' \subseteq Routes
           /\ eng' \in [Routes -> {"alive", "dying", "gone"}]
           /\ est' \in [Routes -> [Sids -> StreamStates]]
           /\ hand' \in [Routes -> [Sids -> HandlerStates]]
           /\ inbox' \in [Routes -> [Sids -> BOOLEAN]]
  BY DEF AddChannel, TypeOK, StreamStates, HandlerStates

\* The poll stages that end in Return or Continue keep the loop's locals
\* well typed.
LEMMA ReturnType ==
    ASSUME TypeOK, Return
    PROVE  /\ pc' \in {"idle", "pass", "pre", "progress", "post"}
           /\ cur' \in Routes /\ todo' \subseteq Routes
           /\ again' \in BOOLEAN /\ killme' \subseteq Routes
  BY BrokerRoute DEF Return, TypeOK

\* Adding the Event::OutgoingConnect response of stream s keeps cresps typed.
LEMMA AddResponseType ==
    ASSUME NEW S, NEW s \in Sids, NEW ok \in Outcomes,
           S \subseteq [s : Sids, cr : Outcomes]
    PROVE  S \cup {[s |-> s, cr |-> ok]} \subseteq [s : Sids, cr : Outcomes]
  OBVIOUS

\* Endpoint::new builds a well-typed endpoint.
LEMMA TypeInit == Init => TypeOK
<2> SUFFICES ASSUME Init PROVE TypeOK
  OBVIOUS
<2>1. eng \in [Routes -> {"alive", "dying", "gone"}]
  BY DEF Init
<2>2. est \in [Routes -> [Sids -> StreamStates]]
  BY DEF Init, StreamStates
<2>3. hand \in [Routes -> [Sids -> HandlerStates]]
  BY DEF Init, HandlerStates
<2>4. inbox \in [Routes -> [Sids -> BOOLEAN]]
  BY DEF Init
<2>5. pout \in [Sids -> {"none", "hdrs", "resp"}]
  BY DEF Init
<2> QED
  BY <2>1, <2>2, <2>3, <2>4, <2>5, BrokerRoute DEF Init, TypeOK

\* Every call of the API and every stage of poll keeps the endpoint well typed.
LEMMA TypeStep == TypeOK /\ [Next]_vars => TypeOK'
<2> SUFFICES ASSUME TypeOK, [Next]_vars PROVE TypeOK'
  OBVIOUS
<2>1. CASE Connect
  BY <2>1 DEF Connect, TypeOK, pollvars, StreamStates
<2>2. CASE Publish
  BY <2>2 DEF Publish, OpenHandler, TypeOK, pollvars, StreamStates,
              HandlerStates
<2>3. ASSUME NEW r \in Routes, Open(r) PROVE TypeOK'
  BY <2>3 DEF Open, OpenHandler, TypeOK, pollvars, StreamStates,
              HandlerStates
<2>4. ASSUME NEW q \in creqs, Reject(q) PROVE TypeOK'
  BY <2>4 DEF Reject, TypeOK, pollvars
<2>5. ASSUME NEW q \in creqs, AcceptIncoming(q) PROVE TypeOK'
  <3>1. PICK n \in FreshRoutes : AddChannel(n)
    BY <2>5 DEF AcceptIncoming
  <3>2. n \in Routes
    BY DEF FreshRoutes
  <3> QED
    BY <2>5, <3>1, <3>2, AddChannelType DEF AcceptIncoming, TypeOK, pollvars
<2>6. ASSUME NEW c \in cresps, AcceptOutgoing(c) PROVE TypeOK'
  <3>1. CASE c.cr = "ok"
    <4>1. PICK n \in FreshRoutes : AddChannel(n)
      BY <2>6, <3>1 DEF AcceptOutgoing
    <4>2. n \in Routes
      BY DEF FreshRoutes
    <4> QED
      BY <2>6, <4>1, <4>2, AddChannelType DEF AcceptOutgoing, TypeOK, pollvars
  <3>2. CASE c.cr # "ok"
    BY <2>6, <3>2 DEF AcceptOutgoing, TypeOK, pollvars
  <3> QED
    BY <3>1, <3>2
<2>7. CASE PollStart
  BY <2>7 DEF PollStart, TypeOK
<2>8. CASE Visit
  BY <2>8 DEF Visit, TypeOK
<2>9. CASE PrePoll
  BY <2>9, PollHandlersType DEF PrePoll, TypeOK
<2>10. CASE PostPoll
  BY <2>10, PollHandlersType DEF PostPoll, TypeOK
<2>11. CASE ReapDisconnect
  BY <2>11, BrokerRoute DEF ReapDisconnect, Return, TypeOK
<2>12. CASE NextPass
  BY <2>12 DEF NextPass, TypeOK
<2>13. CASE PollDone
  BY <2>13, BrokerRoute DEF PollDone, Return, TypeOK
<2>14. CASE Progress
  <3> cur \in Routes
    BY DEF TypeOK
  <3>1. CASE ProgLater(cur)
    BY <3>1 DEF ProgLater, Continue, TypeOK
  <3>2. CASE ProgSend(cur)
    BY <3>2 DEF ProgSend, Continue, TypeOK
  <3>3. CASE ProgHeader(cur)
    <4>1. PICK s \in Sids : est[cur][s] = "free" /\
               (HeaderMalformed(cur, s) \/ HeaderBroker(cur, s) \/ HeaderPeer(cur, s))
      BY <3>3 DEF ProgHeader
    <4>2. CASE HeaderMalformed(cur, s)
      BY <4>2, BrokerRoute DEF HeaderMalformed, Return, TypeOK, StreamStates
    <4>3. CASE HeaderBroker(cur, s)
      BY <4>3 DEF HeaderBroker, Continue, TypeOK, StreamStates
    <4>4. CASE HeaderPeer(cur, s)
      <5>1. /\ UNCHANGED <<cur, todo, killme, live, eng, inbox, pin, pout,
                          publishing, creqs, cresps>>
            /\ again' = TRUE /\ pc' = "post"
        BY <4>4 DEF HeaderPeer, Continue
      <5>2. CASE /\ est' = [est EXCEPT ![cur][s] = "open"]
                 /\ hand' = [hand EXCEPT ![cur][s] = "other"]
        BY <5>1, <5>2 DEF TypeOK, StreamStates, HandlerStates
      <5>3. CASE /\ est' = [est EXCEPT ![cur][s] = "lclosed"]
                 /\ UNCHANGED hand
        BY <5>1, <5>3 DEF TypeOK, StreamStates
      <5> QED
        BY <4>4, <5>2, <5>3 DEF HeaderPeer
    <4> QED
      BY <4>1, <4>2, <4>3, <4>4
  <3>4. CASE ProgStream(cur)
    <4>1. PICK s \in Sids : est[cur][s] \in PeerOpen /\
               (\/ StreamToIncoming(cur, s) \/ StreamToOutgoing(cur, s)
                \/ StreamToHandler(cur, s) \/ StreamDropped(cur, s))
      BY <3>4 DEF ProgStream
    <4>2. LocalClose(est[cur][s]) \in StreamStates
      BY DEF LocalClose, TypeOK, StreamStates
    <4>3. CASE StreamToIncoming(cur, s)
      <5>1. /\ UNCHANGED <<live, eng, hand, inbox, pout, publishing, cresps>>
            /\ pin' = pin \ {s}
        BY <4>3 DEF StreamToIncoming
      <5>2. CASE creqs' = creqs \cup {s} /\ Return /\ UNCHANGED est
        BY <5>1, <5>2, BrokerRoute DEF Return, TypeOK
      <5>3. CASE /\ est' = [est EXCEPT ![cur][s] = LocalClose(est[cur][s])]
                 /\ again' = TRUE /\ Continue /\ UNCHANGED creqs
        BY <4>2, <5>1, <5>3 DEF Continue, TypeOK
      <5> QED
        BY <4>3, <5>2, <5>3 DEF StreamToIncoming
    <4>4. CASE StreamToOutgoing(cur, s)
      <5>1. /\ UNCHANGED <<live, eng, hand, inbox, publishing, creqs>>
            /\ pin' \subseteq Sids
        BY <4>4 DEF StreamToOutgoing, PinAfterTest, TypeOK
      <5>2. CASE /\ pout' = [pout EXCEPT ![s] = "resp"]
                 /\ again' = TRUE /\ Continue /\ UNCHANGED <<est, cresps>>
        BY <5>1, <5>2 DEF Continue, TypeOK
      <5>3. CASE /\ pout' = [pout EXCEPT ![s] = "none"]
                 /\ est' = [est EXCEPT ![cur][s] = LocalClose(est[cur][s])]
                 /\ \E ok \in {"refused", "ok"} :
                       cresps' = cresps \cup {[s |-> s, cr |-> ok]}
                 /\ Return
        <6>1. cresps' \subseteq [s : Sids, cr : Outcomes]
          BY <5>3, AddResponseType DEF TypeOK, Outcomes
        <6> QED
          BY <4>2, <5>1, <5>3, <6>1, BrokerRoute DEF Return, TypeOK
      <5> QED
        BY <4>4, <5>2, <5>3 DEF StreamToOutgoing
    <4>5. CASE StreamToHandler(cur, s)
      BY <4>5 DEF StreamToHandler, PinAfterTest, Continue, TypeOK
    <4>6. CASE StreamDropped(cur, s)
      BY <4>6 DEF StreamDropped, PinAfterTest, Continue, TypeOK
    <4> QED
      BY <4>1, <4>3, <4>4, <4>5, <4>6
  <3>5. CASE ProgClose(cur)
    <4>1. PICK s \in Sids :
             /\ est' = [est EXCEPT ![cur][s] = "closed"]
             /\ hand' = [hand EXCEPT ![cur][s] = "none"]
             /\ inbox' = [inbox EXCEPT ![cur][s] = FALSE]
             /\ IF IsOutgoing(cur, s)
                   THEN /\ pout' = [pout EXCEPT ![s] = "none"]
                        /\ cresps' = cresps \cup {[s |-> s, cr |-> "none"]}
                        /\ Return
                   ELSE /\ again' = TRUE
                        /\ Continue
                        /\ UNCHANGED <<pout, cresps>>
      BY <3>5 DEF ProgClose
    <4>2. UNCHANGED <<live, eng, pin, publishing, creqs>>
      BY <3>5 DEF ProgClose
    <4>3. /\ est' \in [Routes -> [Sids -> StreamStates]]
          /\ hand' \in [Routes -> [Sids -> HandlerStates]]
          /\ inbox' \in [Routes -> [Sids -> BOOLEAN]]
      BY <4>1 DEF TypeOK, StreamStates, HandlerStates
    <4>4. CASE IsOutgoing(cur, s)
      <5>1. cresps' \subseteq [s : Sids, cr : Outcomes]
        BY <4>1, <4>4, AddResponseType DEF TypeOK, Outcomes
      <5>2. pout' \in [Sids -> {"none", "hdrs", "resp"}]
        BY <4>1, <4>4 DEF TypeOK
      <5> QED
        BY <4>1, <4>2, <4>3, <4>4, <5>1, <5>2, BrokerRoute DEF Return, TypeOK
    <4>5. CASE ~IsOutgoing(cur, s)
      BY <4>1, <4>2, <4>3, <4>5 DEF Continue, TypeOK
    <4> QED
      BY <4>4, <4>5
  <3>6. CASE ProgDisconnect(cur)
    BY <3>6 DEF ProgDisconnect, TypeOK
  <3>7. CASE ProgError(cur)
    BY <3>7, BrokerRoute DEF ProgError, Return, TypeOK
  <3> QED
    BY <2>14, <3>1, <3>2, <3>3, <3>4, <3>5, <3>6, <3>7 DEF Progress
<2>15. CASE UNCHANGED vars
  BY <2>15 DEF vars, TypeOK
<2> QED
  BY <2>1, <2>2, <2>3, <2>4, <2>5, <2>6, <2>7, <2>8, <2>9, <2>10, <2>11,
     <2>12, <2>13, <2>14, <2>15 DEF Next, Caller, Poll

\* Every reachable state of the endpoint is well typed.
THEOREM TypeCorrect == Spec => []TypeOK
  BY TypeInit, TypeStep, PTL DEF Spec

-----------------------------------------------------------------------------
(* Stream ownership: HandlerStreamsOpen and PendingOutOpen.                *)

\* The claims on streams that IInv adds to type correctness.
Owned == HandlerStreamsOpen /\ PendingOutOpen /\ StreamClaims

\* A step that leaves the channel table, the streams, the tasks and the
\* pending connects alone, and at most forgets pending incoming requests,
\* keeps every claim.
LEMMA OwnedFrame ==
    ASSUME Owned, UNCHANGED <<live, est, hand, pout>>, pin' \subseteq pin
    PROVE  Owned'
  BY DEF Owned, HandlerStreamsOpen, PendingOutOpen, StreamClaims

\* Changing the state of a stream no task holds leaves every task on an
\* open stream.
LEMMA HandlerOpenFrame ==
    ASSUME TypeOK, HandlerStreamsOpen, UNCHANGED <<live, hand>>,
           NEW c \in Routes, NEW x \in Sids, NEW v, hand[c][x] = "none",
           est' = [est EXCEPT ![c][x] = v]
    PROVE  HandlerStreamsOpen'
  <1> SUFFICES ASSUME NEW r \in live, NEW t \in Sids, hand[r][t] # "none"
               PROVE  est'[r][t] = "open"
    BY DEF HandlerStreamsOpen
  <1>1. r \in Routes /\ (r # c \/ t # x)
    BY DEF TypeOK
  <1>2. est'[r][t] = est[r][t]
    BY <1>1 DEF TypeOK
  <1> QED
    BY <1>2 DEF HandlerStreamsOpen

\* A caller action leaves the loop idle.
LEMMA LoopIdle ==
    ASSUME LoopClaims, pc = "idle", UNCHANGED <<pc, todo>>, live \subseteq live'
    PROVE  LoopClaims'
  BY DEF LoopClaims

\* A stage of poll that returns leaves nothing to visit.
LEMMA LoopReturn ==
    ASSUME Return
    PROVE  LoopClaims'
  BY DEF Return, LoopClaims

\* The progress stage carries on with the channel it is visiting.
LEMMA LoopContinue ==
    ASSUME LoopClaims, pc = "progress", Continue, live' = live
    PROVE  LoopClaims'
  BY DEF Continue, LoopClaims

\* Polling the tasks of a live channel (the pre- and post-progress stages)
\* keeps every claim: a task that stays registered keeps its open stream, a
\* task that finishes half-closes a stream nothing else owns.
LEMMA PollHandlersOwned ==
    ASSUME TypeOK, Owned, NEW r \in live, PollHandlers(r),
           UNCHANGED <<live, pin, pout>>
    PROVE  Owned'
<1>1. PICK o \in [Sids -> TaskSteps \X BOOLEAN] :
         LET done(s) == hand[r][s] # "none" /\ o[s][1] = "done"
         IN /\ hand' = [hand EXCEPT ![r] = [s \in Sids |->
                          IF hand[r][s] = "none" \/ done(s) THEN "none"
                          ELSE o[s][1]]]
            /\ est' = [est EXCEPT ![r] = [s \in Sids |->
                          IF done(s) THEN LocalClose(est[r][s])
                          ELSE est[r][s]]]
  BY DEF PollHandlers
<1>2. \A q \in live, s \in Sids :
         /\ hand'[q][s] # "none" => hand[q][s] # "none" /\ est'[q][s] = est[q][s]
         /\ hand[q][s] = "none" => hand'[q][s] = "none" /\ est'[q][s] = est[q][s]
         /\ est'[q][s] = "free" => est[q][s] = "free"
  BY <1>1 DEF TypeOK, LocalClose
<1>3. HandlerStreamsOpen'
  BY <1>2 DEF Owned, HandlerStreamsOpen
<1>4. PendingOutOpen'
  BY <1>2 DEF Owned, PendingOutOpen
<1>5. StreamClaims'
  <2>1. live' = live /\ pin' = pin /\ pout' = pout
    OBVIOUS
  <2>2. \A q \in live', s \in Sids : est'[q][s] = "free" => hand'[q][s] = "none"
    BY <1>2, <2>1 DEF Owned, StreamClaims
  <2>3. Broker \in live' =>
          \A s \in Sids : est'[Broker][s] = "free" => s \notin pin' /\ pout'[s] = "none"
    BY <1>2, <2>1 DEF Owned, StreamClaims
  <2>4. Broker \in live' => \A s \in pin' : hand'[Broker][s] = "none"
    BY <1>2, <2>1 DEF Owned, StreamClaims, TypeOK
  <2> QED
    BY <2>2, <2>3, <2>4 DEF StreamClaims
<1>6. QED
  BY <1>3, <1>4, <1>5 DEF Owned

\* Inserting a channel under a fresh route claims nothing on the others.
LEMMA AddChannelOwned ==
    ASSUME TypeOK, Owned, NEW n \in FreshRoutes, AddChannel(n),
           UNCHANGED <<pin, pout>>
    PROVE  Owned'
<1>1. n \in Routes /\ n # Broker /\ n \notin live
  BY DEF FreshRoutes
<1>2. \A r \in live, s \in Sids :
         est'[r][s] = est[r][s] /\ hand'[r][s] = hand[r][s]
  BY <1>1 DEF AddChannel, TypeOK
<1>3. \A s \in Sids : est'[n][s] = "free" /\ hand'[n][s] = "none"
  BY <1>1 DEF AddChannel, TypeOK
<1>4. live' = live \cup {n}
  BY DEF AddChannel
<1>5. HandlerStreamsOpen'
  BY <1>2, <1>3, <1>4 DEF Owned, HandlerStreamsOpen
<1>6. PendingOutOpen'
  BY <1>1, <1>2, <1>4 DEF Owned, PendingOutOpen
<1>7. StreamClaims'
  <2>1. \A q \in live', s \in Sids : est'[q][s] = "free" => hand'[q][s] = "none"
    BY <1>2, <1>3, <1>4 DEF Owned, StreamClaims
  <2>2. Broker \in live' =>
          \A s \in Sids : est'[Broker][s] = "free" => s \notin pin' /\ pout'[s] = "none"
    BY <1>1, <1>2, <1>4 DEF Owned, StreamClaims
  <2>3. Broker \in live' => \A s \in pin' : hand'[Broker][s] = "none"
    BY <1>1, <1>2, <1>4 DEF Owned, StreamClaims, TypeOK
  <2> QED
    BY <2>1, <2>2, <2>3 DEF StreamClaims
<1>8. QED
  BY <1>5, <1>6, <1>7 DEF Owned

\* One step of the channel engine on the visited channel keeps every claim.
\* Each case names the facts of IInv about the stream s it touches.
LEMMA ProgressOwned ==
    ASSUME TypeOK, Owned, LoopClaims, Progress
    PROVE  Owned'
<1>0. cur \in live /\ cur \in Routes
  BY DEF Progress, LoopClaims, TypeOK
<1>1. CASE ProgError(cur) \/ ProgLater(cur) \/ ProgSend(cur) \/ ProgDisconnect(cur)
  <2>1. UNCHANGED <<live, est, hand, pin, pout>>
    BY <1>1 DEF ProgError, ProgLater, ProgSend, ProgDisconnect
  <2> QED
    BY <2>1, OwnedFrame
<1>2. CASE ProgHeader(cur)
  <2>1. PICK s \in Sids : est[cur][s] = "free" /\
             (HeaderMalformed(cur, s) \/ HeaderBroker(cur, s) \/ HeaderPeer(cur, s))
    BY <1>2 DEF ProgHeader
  <2>2. /\ hand[cur][s] = "none"
        /\ cur = Broker => s \notin pin /\ pout[s] = "none"
    BY <1>0, <2>1 DEF Owned, StreamClaims
  <2>4. CASE HeaderMalformed(cur, s) \/ HeaderBroker(cur, s)
    <3>1. /\ est' = [est EXCEPT ![cur][s] = "open"]
          /\ UNCHANGED <<live, hand, pout>>
          /\ pin' \subseteq pin \cup {s}
          /\ cur # Broker => pin' = pin
      BY <2>4 DEF HeaderMalformed, HeaderBroker
    <3>2. HandlerStreamsOpen'
      BY <1>0, <3>1 DEF Owned, HandlerStreamsOpen, TypeOK
    <3>3. PendingOutOpen'
      BY <1>0, <2>2, <3>1 DEF Owned, PendingOutOpen, TypeOK
    <3>4. StreamClaims'
      BY <1>0, <2>2, <3>1 DEF Owned, StreamClaims, TypeOK
    <3> QED
      BY <3>2, <3>3, <3>4 DEF Owned
  <2>5. CASE HeaderPeer(cur, s)
    <3>1. /\ cur # Broker
          /\ UNCHANGED <<live, pin, pout>>
          /\ \/ est' = [est EXCEPT ![cur][s] = "open"]
                /\ hand' = [hand EXCEPT ![cur][s] = "other"]
             \/ est' = [est EXCEPT ![cur][s] = "lclosed"] /\ hand' = hand
      BY <2>5 DEF HeaderPeer
    <3>2. CASE /\ est' = [est EXCEPT ![cur][s] = "open"]
               /\ hand' = [hand EXCEPT ![cur][s] = "other"]
      <4>1. HandlerStreamsOpen'
        BY <1>0, <3>1, <3>2 DEF Owned, HandlerStreamsOpen, TypeOK
      <4>2. PendingOutOpen'
        BY <1>0, <3>1, <3>2 DEF Owned, PendingOutOpen, TypeOK
      <4>3. StreamClaims'
        BY <1>0, <3>1, <3>2 DEF Owned, StreamClaims, TypeOK
      <4> QED
        BY <4>1, <4>2, <4>3 DEF Owned
    <3>3. CASE est' = [est EXCEPT ![cur][s] = "lclosed"] /\ hand' = hand
      <4>1. HandlerStreamsOpen'
        BY <1>0, <2>2, <3>1, <3>3 DEF Owned, HandlerStreamsOpen, TypeOK
      <4>2. PendingOutOpen'
        BY <1>0, <3>1, <3>3 DEF Owned, PendingOutOpen, TypeOK
      <4>3. StreamClaims'
        BY <1>0, <3>1, <3>3 DEF Owned, StreamClaims, TypeOK
      <4> QED
        BY <4>1, <4>2, <4>3 DEF Owned
    <3> QED
      BY <3>1, <3>2, <3>3
  <2> QED
    BY <2>1, <2>4, <2>5
<1>3. CASE ProgStream(cur)
  <2>1. PICK s \in Sids : est[cur][s] \in PeerOpen /\
             (\/ StreamToIncoming(cur, s) \/ StreamToOutgoing(cur, s)
              \/ StreamToHandler(cur, s) \/ StreamDropped(cur, s))
    BY <1>3 DEF ProgStream
  <2>2. LocalClose(est[cur][s]) \in {"lclosed", "closed"}
    BY <2>1 DEF LocalClose, PeerOpen
  <2>3. CASE StreamToIncoming(cur, s)
    <3>1. cur = Broker /\ s \in pin /\ hand[cur][s] = "none" /\ pout[s] = "none"
      <4>1. cur = Broker /\ s \in pin
        BY <2>3 DEF StreamToIncoming, IsIncoming
      <4>2. hand[cur][s] = "none"
        BY <1>0, <4>1 DEF Owned, StreamClaims
      <4>3. pout[s] = "none"
        BY <1>0, <4>1 DEF Owned, PendingOutOpen
      <4> QED
        BY <4>1, <4>2, <4>3
    <3>2. /\ UNCHANGED <<live, hand, pout>>
          /\ pin' = pin \ {s}
          /\ \/ est' = est
             \/ est' = [est EXCEPT ![cur][s] = LocalClose(est[cur][s])]
      BY <2>3 DEF StreamToIncoming
    <3>3. HandlerStreamsOpen'
      <4>1. CASE est' = est
        BY <3>2, <4>1 DEF Owned, HandlerStreamsOpen
      <4>2. CASE est' = [est EXCEPT ![cur][s] = LocalClose(est[cur][s])]
        BY <1>0, <3>1, <3>2, <4>2, HandlerOpenFrame DEF Owned
      <4> QED
        BY <3>2, <4>1, <4>2
    <3>4. PendingOutOpen'
      BY <1>0, <3>1, <3>2 DEF Owned, PendingOutOpen, TypeOK
    <3>5. StreamClaims'
      <4>1. CASE est' = est
        BY <1>0, <3>1, <3>2, <4>1 DEF Owned, StreamClaims, TypeOK
      <4>2. CASE est' = [est EXCEPT ![cur][s] = LocalClose(est[cur][s])]
        BY <1>0, <2>2, <3>1, <3>2, <4>2 DEF Owned, StreamClaims, TypeOK
      <4> QED
        BY <3>2, <4>1, <4>2
    <3> QED
      BY <3>3, <3>4, <3>5 DEF Owned
  <2>4. CASE StreamToOutgoing(cur, s)
    <3>1. cur = Broker /\ pout[s] # "none" /\ hand[cur][s] = "none"
          /\ est[cur][s] = "open"
      BY <1>0, <2>4 DEF StreamToOutgoing, IsOutgoing, Owned, PendingOutOpen
    <3>2. /\ UNCHANGED <<live, hand>>
          /\ pin' \subseteq pin
          /\ \/ est' = est /\ pout' = [pout EXCEPT ![s] = "resp"]
             \/ /\ est' = [est EXCEPT ![cur][s] = LocalClose(est[cur][s])]
                /\ pout' = [pout EXCEPT ![s] = "none"]
      BY <2>4 DEF StreamToOutgoing, PinAfterTest
    <3>3. HandlerStreamsOpen'
      <4>1. CASE est' = est
        BY <3>2, <4>1 DEF Owned, HandlerStreamsOpen
      <4>2. CASE est' = [est EXCEPT ![cur][s] = LocalClose(est[cur][s])]
        BY <1>0, <3>1, <3>2, <4>2, HandlerOpenFrame DEF Owned
      <4> QED
        BY <3>2, <4>1, <4>2
    <3>4. PendingOutOpen'
      BY <1>0, <3>1, <3>2 DEF Owned, PendingOutOpen, TypeOK
    <3>5. StreamClaims'
      <4>1. CASE est' = est /\ pout' = [pout EXCEPT ![s] = "resp"]
        BY <1>0, <3>1, <3>2, <4>1 DEF Owned, StreamClaims, TypeOK
      <4>2. CASE /\ est' = [est EXCEPT ![cur][s] = LocalClose(est[cur][s])]
                 /\ pout' = [pout EXCEPT ![s] = "none"]
        BY <1>0, <2>2, <3>1, <3>2, <4>2 DEF Owned, StreamClaims, TypeOK
      <4> QED
        BY <3>2, <4>1, <4>2
    <3> QED
      BY <3>3, <3>4, <3>5 DEF Owned
  <2>5. CASE StreamToHandler(cur, s) \/ StreamDropped(cur, s)
    <3>1. UNCHANGED <<live, est, hand, pout>> /\ pin' \subseteq pin
      BY <2>5 DEF StreamToHandler, StreamDropped, PinAfterTest
    <3> QED
      BY <3>1, OwnedFrame
  <2> QED
    BY <2>1, <2>3, <2>4, <2>5
<1>4. CASE ProgClose(cur)
  <2>1. PICK s \in Sids :
           /\ est' = [est EXCEPT ![cur][s] = "closed"]
           /\ hand' = [hand EXCEPT ![cur][s] = "none"]
           /\ IF IsOutgoing(cur, s)
                 THEN pout' = [pout EXCEPT ![s] = "none"]
                 ELSE UNCHANGED pout
    BY <1>4 DEF ProgClose
  <2>2. UNCHANGED <<live, pin>>
    BY <1>4 DEF ProgClose
  <2>3. pout'[s] = "none" \/ cur # Broker
    BY <2>1 DEF IsOutgoing, TypeOK
  <2>4. \A t \in Sids \ {s} : pout'[t] = pout[t]
    BY <2>1 DEF TypeOK
  <2>5. \A t \in Sids : pout'[t] # "none" => pout[t] # "none"
    BY <2>1 DEF TypeOK
  <2>6. HandlerStreamsOpen'
    BY <1>0, <2>1, <2>2 DEF Owned, HandlerStreamsOpen, TypeOK
  <2>7. PendingOutOpen'
    BY <1>0, <2>1, <2>2, <2>3, <2>4, <2>5 DEF Owned, PendingOutOpen, TypeOK
  <2>8. StreamClaims'
    BY <1>0, <2>1, <2>2, <2>5 DEF Owned, StreamClaims, TypeOK
  <2> QED
    BY <2>6, <2>7, <2>8 DEF Owned
<1> QED
  BY <1>1, <1>2, <1>3, <1>4 DEF Progress

\* The progress stage visits live channels only, whatever it returns.
LEMMA ProgressLoop ==
    ASSUME LoopClaims, Progress
    PROVE  LoopClaims'
<1>1. UNCHANGED live
  BY DEF Progress, ProgError, ProgLater, ProgSend, ProgHeader, HeaderMalformed,
         HeaderBroker, HeaderPeer, ProgStream, StreamToIncoming,
         StreamToOutgoing, StreamToHandler, StreamDropped, ProgClose,
         ProgDisconnect
<1>2. Return \/ Continue \/ (pc' = "post" /\ UNCHANGED <<cur, todo>>)
  BY DEF Progress, ProgError, ProgLater, ProgSend, ProgHeader, HeaderMalformed,
         HeaderBroker, HeaderPeer, ProgStream, StreamToIncoming,
         StreamToOutgoing, StreamToHandler, StreamDropped, ProgClose,
         ProgDisconnect
<1>3. pc = "progress"
  BY DEF Progress
<1> QED
  BY <1>1, <1>2, <1>3, LoopReturn DEF Continue, LoopClaims

\* Every call of the API and every stage of poll keeps the claims on streams.
LEMMA OwnedStep == TypeOK /\ Owned /\ LoopClaims /\ [Next]_vars => Owned'
<1> SUFFICES ASSUME TypeOK, Owned, LoopClaims, [Next]_vars PROVE Owned'
  OBVIOUS
<1>1. CASE Connect
  <2>1. PICK s \in Sids :
           /\ est[Broker][s] = "free"
           /\ est' = [est EXCEPT ![Broker][s] = "open"]
           /\ pout' = [pout EXCEPT ![s] = "hdrs"]
    BY <1>1 DEF Connect
  <2>2. Broker \in live /\ UNCHANGED <<live, hand, pin>>
    BY <1>1 DEF Connect
  <2>3. hand[Broker][s] = "none" /\ s \notin pin /\ pout[s] = "none"
    BY <2>1, <2>2 DEF Owned, StreamClaims
  <2>4. HandlerStreamsOpen'
    BY <2>1, <2>2, <2>3, BrokerRoute DEF Owned, HandlerStreamsOpen, TypeOK
  <2>5. PendingOutOpen'
    BY <2>1, <2>2, <2>3, BrokerRoute DEF Owned, PendingOutOpen, TypeOK
  <2>6. StreamClaims'
    BY <2>1, <2>2, <2>3, BrokerRoute DEF Owned, StreamClaims, TypeOK
  <2> QED
    BY <2>4, <2>5, <2>6 DEF Owned
<1>2. ASSUME NEW r \in Routes, OpenHandler(r) PROVE Owned'
  <2>1. PICK s \in Sids :
           /\ est[r][s] = "free"
           /\ est' = [est EXCEPT ![r][s] = "open"]
           /\ hand' = [hand EXCEPT ![r][s] = "other"]
    BY <1>2 DEF OpenHandler
  <2>2. r \in live /\ UNCHANGED <<live, pin, pout>>
    BY <1>2 DEF OpenHandler
  <2>3. hand[r][s] = "none" /\ (r = Broker => s \notin pin /\ pout[s] = "none")
    BY <2>1, <2>2 DEF Owned, StreamClaims
  <2>4. HandlerStreamsOpen'
    BY <2>1, <2>2 DEF Owned, HandlerStreamsOpen, TypeOK
  <2>5. PendingOutOpen'
    BY <2>1, <2>2, <2>3 DEF Owned, PendingOutOpen, TypeOK
  <2>6. StreamClaims'
    BY <2>1, <2>2, <2>3 DEF Owned, StreamClaims, TypeOK
  <2> QED
    BY <2>4, <2>5, <2>6 DEF Owned
<1>3. ASSUME NEW q \in creqs, Reject(q) PROVE Owned'
  BY <1>3, OwnedFrame DEF Reject
<1>4. ASSUME NEW q \in creqs, AcceptIncoming(q) PROVE Owned'
  BY <1>4, AddChannelOwned DEF AcceptIncoming
<1>5. ASSUME NEW c \in cresps, AcceptOutgoing(c) PROVE Owned'
  <2>1. CASE c.cr = "ok"
    BY <1>5, <2>1, AddChannelOwned DEF AcceptOutgoing
  <2>2. CASE c.cr # "ok"
    BY <1>5, <2>2, OwnedFrame DEF AcceptOutgoing
  <2> QED
    BY <2>1, <2>2
<1>6. CASE PollStart \/ Visit \/ NextPass \/ PollDone \/ UNCHANGED vars
  <2>1. UNCHANGED <<live, est, hand, pin, pout>>
    BY <1>6 DEF PollStart, Visit, NextPass, PollDone, vars
  <2> QED
    BY <2>1, OwnedFrame
<1>7. CASE PrePoll \/ PostPoll
  <2>1. cur \in live
    BY <1>7 DEF PrePoll, PostPoll, LoopClaims
  <2> QED
    BY <1>7, <2>1, PollHandlersOwned DEF PrePoll, PostPoll
<1>8. CASE ReapDisconnect
  <2>1. PICK k \in killme : live' = live \ {k}
    BY <1>8 DEF ReapDisconnect
  <2>2. UNCHANGED <<est, hand, pin, pout>>
    BY <1>8 DEF ReapDisconnect
  <2> QED
    BY <2>1, <2>2 DEF Owned, HandlerStreamsOpen, PendingOutOpen, StreamClaims
<1>9. CASE Progress
  BY <1>9, ProgressOwned
<1>10. CASE Caller
  <2>1. CASE Publish
    BY <2>1, <1>2, BrokerRoute DEF Publish
  <2>2. ASSUME NEW r \in Routes, Open(r) PROVE Owned'
    BY <2>2, <1>2 DEF Open
  <2> QED
    BY <1>10, <1>1, <2>1, <2>2, <1>3, <1>4, <1>5 DEF Caller
<1> QED
  BY <1>6, <1>7, <1>8, <1>9, <1>10 DEF Next, Poll

\* Every call of the API and every stage of poll keeps the loop on live
\* channels.
LEMMA LoopStep == LoopClaims /\ [Next]_vars => LoopClaims'
<1> SUFFICES ASSUME LoopClaims, [Next]_vars PROVE LoopClaims'
  OBVIOUS
<1>1. CASE Caller
  <2>1. pc = "idle" /\ UNCHANGED <<pc, todo>> /\ live \subseteq live'
    BY <1>1 DEF Caller, Connect, Publish, Open, OpenHandler, Reject,
                AcceptIncoming, AcceptOutgoing, AddChannel, pollvars
  <2> QED
    BY <2>1, LoopIdle
<1>2. CASE PollStart \/ Visit \/ NextPass
  BY <1>2 DEF PollStart, Visit, NextPass, LoopClaims
<1>3. CASE PrePoll \/ PostPoll
  BY <1>3 DEF PrePoll, PostPoll, LoopClaims
<1>4. CASE ReapDisconnect \/ PollDone
  BY <1>4, LoopReturn DEF ReapDisconnect, PollDone
<1>5. CASE Progress
  BY <1>5, ProgressLoop
<1>6. CASE UNCHANGED vars
  BY <1>6 DEF vars, LoopClaims
<1> QED
  BY <1>1, <1>2, <1>3, <1>4, <1>5, <1>6 DEF Next, Poll

\* IInv holds initially and is kept by every step.
THEOREM IInvInvariant == Spec => []IInv
<1>1. Init => Owned /\ LoopClaims
  BY BrokerRoute DEF Init, Owned, HandlerStreamsOpen, PendingOutOpen,
                     StreamClaims, LoopClaims
<1>2. IInv /\ [Next]_vars => IInv'
  BY TypeStep, OwnedStep, LoopStep DEF IInv, Owned
<1>3. QED
  BY <1>1, <1>2, TypeInit, PTL DEF Spec, IInv, Owned

\* Every task registered in chan.streams owns a stream the engine has open,
\* and every connect() still pending in outstanding_connect_outgoing owns an
\* open broker stream that no task and no /peer/connect request claims; the
\* invariants of the run MCEndpoint_safety, for every set of routes and ids.
THEOREM StreamOwnership == Spec => [](HandlerStreamsOpen /\ PendingOutOpen)
  BY IInvInvariant, PTL DEF IInv


\* A connect() recorded in outstanding_connect_outgoing always owns an
\* open broker stream claimed by no handler task and by no pending
\* /peer/connect request, so the answer poll() routes to it has a stream
\* to arrive on; for every set of routes and stream ids.
THEOREM PendingOutOpenHolds == Spec => []PendingOutOpen
  BY StreamOwnership, PTL

=============================================================================
