------------------------------ MODULE Endpoint ------------------------------
(***************************************************************************)
(* The endpoint multiplexer of src/src/endpoint.rs: the channel table, the *)
(* stream handlers of every channel, the two pieces of connect-protocol    *)
(* bookkeeping (outstanding_connect_incomming / _outgoing) and the body of *)
(* Endpoint::poll, one step per stage of its loop, with the caller's API   *)
(* (connect, publish, open, reject, accept_incomming, accept_outgoing)     *)
(* taken between two calls of poll.                                        *)
(*                                                                         *)
(* The reliable channel engine behind each channel is external (channel.rs *)
(* is not part of the source): it is modelled by what progress() may      *)
(* return given the state of its streams.  Stream handlers are user        *)
(* coroutines: polling one may leave it waiting on its stream, waiting on  *)
(* something else, or finished.  Payloads, headers and handshakes are     *)
(* abstracted to the outcome the code branches on.                         *)
(***************************************************************************)
EXTENDS FiniteSets

CONSTANTS
    Routes,           \* routing keys a channel of this endpoint may have
    Broker,           \* broker_route: the channel built by Endpoint::new
    Sids,             \* stream ids the channel engine may hand out
    StickyDisconnect, \* does progress() keep returning Disconnect once it has?
    EngineErrors      \* may progress() return an Err?

ASSUME EndpointAssumption ==
    /\ Broker \in Routes
    /\ IsFiniteSet(Sids) /\ Sids # {}
    /\ StickyDisconnect \in BOOLEAN
    /\ EngineErrors \in BOOLEAN

VARIABLES
    pc,          \* where Endpoint::poll is: "idle" (not running), "pass",
                 \* or visiting channel cur at "pre" / "progress" / "post"
    cur,         \* the (route, chan) of the current `for` iteration
    todo,        \* channels this pass of the loop has not visited yet
    again,       \* the loop's `again` flag
    killme,      \* the loop's `killme` list (routes queued for removal)
    live,        \* DOMAIN self.channels
    eng,         \* state of each channel engine: "alive", "dying" (will only
                 \* report Disconnect), "gone" (reported it once, now idle)
    est,         \* engine view of each stream: "free", "open", "lclosed"
                 \* (closed by us), "closed" (closed by the peer)
    hand,        \* chan.streams: "none", or the registered task waiting on
                 \* its stream ("await") or on anything else ("other")
    inbox,       \* the single-slot Cell `a` of each StreamReceiver: full?
    pin,         \* outstanding_connect_incomming
    pout,        \* outstanding_connect_outgoing: "none", "hdrs"
                 \* (WaitingForHeaders), "resp" (WaitingForResponse)
    publishing,  \* publish_secret.is_some()
    creqs,       \* Event::IncommingConnect requests held by the caller
    cresps       \* Event::OutgoingConnect responses held by the caller

vars == <<pc, cur, todo, again, killme, live, eng, est, hand, inbox,
          pin, pout, publishing, creqs, cresps>>
pollvars == <<pc, cur, todo, again, killme>>

StreamStates  == {"free", "open", "lclosed", "closed"}
HandlerStates == {"none", "await", "other"}
\* What a handler task is after one poll: its next suspension, or Done.
TaskSteps     == {"await", "other", "done"}
\* cr of an Event::OutgoingConnect: None, Some(ok: false), Some(ok: true).
Outcomes      == {"none", "refused", "ok"}

\* Channel::close on a stream: half-closes it if it was open.
LocalClose(st) == IF st = "open" THEN "lclosed" ELSE st

\* Streams on which the peer may still send frames.
PeerOpen == {"open", "lclosed"}

-----------------------------------------------------------------------------
(* Endpoint::new: only the broker channel, Established, no streams.       *)
Init ==
    /\ pc = "idle"
    /\ cur = Broker
    /\ todo = {}
    /\ again = FALSE
    /\ killme = {}
    /\ live = {Broker}
    /\ eng = [r \in Routes |-> "alive"]
    /\ est = [r \in Routes |-> [s \in Sids |-> "free"]]
    /\ hand = [r \in Routes |-> [s \in Sids |-> "none"]]
    /\ inbox = [r \in Routes |-> [s \in Sids |-> FALSE]]
    /\ pin = {}
    /\ pout = [s \in Sids |-> "none"]
    /\ publishing = FALSE
    /\ creqs = {}
    /\ cresps = {}

-----------------------------------------------------------------------------
(* The caller's API, called while poll is not running.                    *)

\* open: the engine hands out a fresh stream id, and the task built by f is
\* registered (not yet polled) with an empty inbox.
OpenHandler(r) ==
    /\ pc = "idle"
    /\ r \in live
    /\ \E s \in Sids :
          /\ est[r][s] = "free"
          /\ est' = [est EXCEPT ![r][s] = "open"]
          /\ hand' = [hand EXCEPT ![r][s] = "other"]
    /\ UNCHANGED <<pollvars, live, eng, inbox, pin, pout, creqs, cresps>>

Open(r) == OpenHandler(r) /\ UNCHANGED publishing

\* publish: sets publish_secret, then opens the publish stream on the broker.
Publish == OpenHandler(Broker) /\ publishing' = TRUE

\* connect: opens /broker/connect on the broker channel (unwrap: the broker
\* channel must exist), sends the request, waits for headers.
Connect ==
    /\ pc = "idle"
    /\ Broker \in live
    /\ \E s \in Sids :
          /\ est[Broker][s] = "free"
          /\ est' = [est EXCEPT ![Broker][s] = "open"]
          /\ pout' = [pout EXCEPT ![s] = "hdrs"]
    /\ UNCHANGED <<pollvars, live, eng, hand, inbox, pin, publishing,
                   creqs, cresps>>

\* reject: sends PeerConnectResponse{ok: false} on q.qstream; no state.
Reject(q) ==
    /\ pc = "idle"
    /\ q \in creqs
    /\ Broker \in live
    /\ creqs' = creqs \ {q}
    /\ UNCHANGED <<pollvars, live, eng, est, hand, inbox, pin, pout,
                   publishing, cresps>>

\* channels.insert of a fresh UdpChannel under route n.
AddChannel(n) ==
    /\ live' = live \cup {n}
    /\ eng' = [eng EXCEPT ![n] = "alive"]
    /\ est' = [est EXCEPT ![n] = [s \in Sids |-> "free"]]
    /\ hand' = [hand EXCEPT ![n] = [s \in Sids |-> "none"]]
    /\ inbox' = [inbox EXCEPT ![n] = [s \in Sids |-> FALSE]]

\* The route a broker assigns to a new peer channel: not one in use.
FreshRoutes == Routes \ (live \cup {Broker})

\* accept_incomming: inserts the peer channel, answers on the broker stream.
AcceptIncoming(q) ==
    /\ pc = "idle"
    /\ q \in creqs
    /\ Broker \in live
    /\ \E n \in FreshRoutes : AddChannel(n)
    /\ creqs' = creqs \ {q}
    /\ UNCHANGED <<pollvars, pin, pout, publishing, cresps>>

\* accept_outgoing: an Err unless cr is Some and ok; else inserts the channel.
AcceptOutgoing(c) ==
    /\ pc = "idle"
    /\ c \in cresps
    /\ cresps' = cresps \ {c}
    /\ IF c.cr = "ok"
          THEN \E n \in FreshRoutes : AddChannel(n)
          ELSE UNCHANGED <<live, eng, est, hand, inbox>>
    /\ UNCHANGED <<pollvars, pin, pout, publishing, creqs>>

-----------------------------------------------------------------------------
(* Endpoint::poll.                                                         *)

\* The receive of one datagram feeds the engines (its effect on them is in
\* what progress() may return); then the loop starts its first pass.
PollStart ==
    /\ pc = "idle"
    /\ pc' = "pass"
    /\ todo' = live
    /\ again' = FALSE
    /\ killme' = {}
    /\ UNCHANGED <<cur, live, eng, est, hand, inbox, pin, pout, publishing,
                   creqs, cresps>>

\* `for (route, chan) in &mut self.channels`: HashMap order, any channel.
Visit ==
    /\ pc = "pass"
    /\ \E r \in todo :
          /\ cur' = r
          /\ todo' = todo \ {r}
    /\ pc' = "pre"
    /\ UNCHANGED <<again, killme, live, eng, est, hand, inbox, pin, pout,
                   publishing, creqs, cresps>>

\* poll returns FutureResult::Done from inside the loop: the rest of the
\* pass, and killme, are dropped.
Return ==
    /\ pc' = "idle"
    /\ cur' = Broker
    /\ todo' = {}
    /\ again' = FALSE
    /\ killme' = {}

\* The outcomes of polling one registered task with the given inbox: a task
\* waiting on an empty inbox stays so; a task that was waiting on its
\* stream, or ends waiting on it, has drained the slot.
PollOutcomes(h, full) ==
    IF h = "await" /\ ~full THEN {<<"await", FALSE>>}
    ELSE {o \in TaskSteps \X {FALSE, full} :
             (h = "await" \/ o[1] = "await") => ~o[2]}

\* Fault variant of PollHandlers: a task that returned Done is kept in
\* chan.streams instead of being removed and its stream closed.
PollHandlersKeepDone(r) ==
    \E o \in [Sids -> TaskSteps \X BOOLEAN] :
       /\ \A s \in Sids : hand[r][s] # "none" =>
                             o[s] \in PollOutcomes(hand[r][s], inbox[r][s])
       /\ hand' = [hand EXCEPT ![r] = [s \in Sids |->
                     IF hand[r][s] = "none" THEN "none" ELSE o[s][1]]]
       /\ inbox' = [inbox EXCEPT ![r] = [s \in Sids |->
                     IF hand[r][s] = "none" THEN FALSE ELSE o[s][2]]]
       /\ UNCHANGED est

\* "shake every stream again": poll every task of channel r; a Done task is
\* removed and its stream closed by this end.
PollHandlers(r) ==
    \E o \in [Sids -> TaskSteps \X BOOLEAN] :
       /\ \A s \in Sids : hand[r][s] # "none" =>
                             o[s] \in PollOutcomes(hand[r][s], inbox[r][s])
       /\ LET done(s) == hand[r][s] # "none" /\ o[s][1] = "done"
          IN /\ hand' = [hand EXCEPT ![r] = [s \in Sids |->
                           IF hand[r][s] = "none" \/ done(s) THEN "none"
                           ELSE o[s][1]]]
             /\ inbox' = [inbox EXCEPT ![r] = [s \in Sids |->
                           IF hand[r][s] = "none" \/ done(s) THEN FALSE
                           ELSE o[s][2]]]
             /\ est' = [est EXCEPT ![r] = [s \in Sids |->
                           IF done(s) THEN LocalClose(est[r][s])
                           ELSE est[r][s]]]

PrePoll ==
    /\ pc = "pre"
    /\ PollHandlers(cur)
    /\ pc' = "progress"
    /\ UNCHANGED <<cur, todo, again, killme, live, eng, pin, pout,
                   publishing, creqs, cresps>>

PostPoll ==
    /\ pc = "post"
    /\ PollHandlers(cur)
    /\ pc' = "pass"
    /\ UNCHANGED <<cur, todo, again, killme, live, eng, pin, pout,
                   publishing, creqs, cresps>>

\* The loop carries on with the "poke every stream again" stage.
Continue == pc' = "post" /\ UNCHANGED <<cur, todo, killme>>

\* ChannelProgress::Later: only a timer is merged.
ProgLater(r) ==
    /\ eng[r] # "dying"
    /\ Continue
    /\ UNCHANGED <<again, live, eng, est, hand, inbox, pin, pout,
                   publishing, creqs, cresps>>

\* progress() returns an Err: osaka::try! makes poll return it at once.
ProgError(r) ==
    /\ EngineErrors
    /\ eng[r] = "alive"
    /\ Return
    /\ UNCHANGED <<live, eng, est, hand, inbox, pin, pout, publishing,
                   creqs, cresps>>

\* ChannelProgress::SendPacket: sent to the channel's address(es).
ProgSend(r) ==
    /\ eng[r] = "alive"
    /\ again' = TRUE
    /\ Continue
    /\ UNCHANGED <<live, eng, est, hand, inbox, pin, pout, publishing,
                   creqs, cresps>>

\* ChannelProgress::ReceiveHeader on a stream the peer opens.  A header
\* block that does not decode makes poll return Err (osaka::try!).
HeaderMalformed(r, s) ==
    /\ est' = [est EXCEPT ![r][s] = "open"]
    /\ Return
    /\ UNCHANGED <<live, eng, hand, inbox, pin, pout, publishing,
                   creqs, cresps>>

\* On the broker channel: /peer/connect is recorded and answered ok,
\* any other path is answered 404.
HeaderBroker(r, s) ==
    /\ r = Broker
    /\ est' = [est EXCEPT ![r][s] = "open"]
    /\ \/ pin' = pin \cup {s}
       \/ UNCHANGED pin
    /\ again' = TRUE
    /\ Continue
    /\ UNCHANGED <<live, eng, hand, inbox, pout, publishing, creqs, cresps>>

\* On a peer channel the factory newhandl either yields a task, which is
\* registered, or None, and the stream is closed at once.
HeaderPeer(r, s) ==
    /\ r # Broker
    /\ \/ /\ est' = [est EXCEPT ![r][s] = "open"]
          /\ hand' = [hand EXCEPT ![r][s] = "other"]
       \/ /\ est' = [est EXCEPT ![r][s] = "lclosed"]
          /\ UNCHANGED hand
    /\ again' = TRUE
    /\ Continue
    /\ UNCHANGED <<live, eng, inbox, pin, pout, publishing, creqs, cresps>>

ProgHeader(r) ==
    /\ eng[r] = "alive"
    /\ \E s \in Sids :
          /\ est[r][s] = "free"
          /\ HeaderMalformed(r, s) \/ HeaderBroker(r, s) \/ HeaderPeer(r, s)

\* ChannelProgress::ReceiveStream.  The first test of the `if` chain
\* removes s from outstanding_connect_incomming whenever r is the broker,
\* before it looks at publish_secret.
IsIncoming(r, s) == r = Broker /\ s \in pin /\ publishing
IsOutgoing(r, s) == r = Broker /\ pout[s] # "none"
PinAfterTest(r, s) == IF r = Broker THEN pin \ {s} ELSE pin

\* A PeerConnectRequest: Ok => Event::IncommingConnect; Err (decode error
\* or SecurityViolation) => PeerConnectResponse{ok: false}, then close.
StreamToIncoming(r, s) ==
    /\ IsIncoming(r, s)
    /\ pin' = pin \ {s}
    /\ \/ /\ creqs' = creqs \cup {s}
          /\ Return
          /\ UNCHANGED est
       \/ /\ est' = [est EXCEPT ![r][s] = LocalClose(est[r][s])]
          /\ again' = TRUE
          /\ Continue
          /\ UNCHANGED creqs
    /\ UNCHANGED <<live, eng, hand, inbox, pout, publishing, cresps>>

\* WaitingForHeaders => WaitingForResponse; WaitingForResponse => close the
\* broker stream and return Event::OutgoingConnect with cr = Some(_).
StreamToOutgoing(r, s) ==
    /\ ~IsIncoming(r, s)
    /\ IsOutgoing(r, s)
    /\ pin' = PinAfterTest(r, s)
    /\ \/ /\ pout[s] = "hdrs"
          /\ pout' = [pout EXCEPT ![s] = "resp"]
          /\ again' = TRUE
          /\ Continue
          /\ UNCHANGED <<est, cresps>>
       \/ /\ pout[s] = "resp"
          /\ pout' = [pout EXCEPT ![s] = "none"]
          /\ est' = [est EXCEPT ![r][s] = LocalClose(est[r][s])]
          /\ \E ok \in {"refused", "ok"} :
                cresps' = cresps \cup {[s |-> s, cr |-> ok]}
          /\ Return
    /\ UNCHANGED <<live, eng, hand, inbox, publishing, creqs>>

\* A registered task: the frame is put in its inbox (Cell::set) and the
\* task woken.
StreamToHandler(r, s) ==
    /\ ~IsIncoming(r, s)
    /\ ~IsOutgoing(r, s)
    /\ hand[r][s] # "none"
    /\ pin' = PinAfterTest(r, s)
    /\ inbox' = [inbox EXCEPT ![r][s] = TRUE]
    /\ again' = TRUE
    /\ Continue
    /\ UNCHANGED <<live, eng, est, hand, pout, publishing, creqs, cresps>>

\* No one for the frame: logged and dropped.
StreamDropped(r, s) ==
    /\ ~IsIncoming(r, s)
    /\ ~IsOutgoing(r, s)
    /\ hand[r][s] = "none"
    /\ pin' = PinAfterTest(r, s)
    /\ again' = TRUE
    /\ Continue
    /\ UNCHANGED <<live, eng, est, hand, inbox, pout, publishing,
                   creqs, cresps>>

ProgStream(r) ==
    /\ eng[r] = "alive"
    /\ \E s \in Sids :
          /\ est[r][s] \in PeerOpen
          /\ \/ StreamToIncoming(r, s)
             \/ StreamToOutgoing(r, s)
             \/ StreamToHandler(r, s)
             \/ StreamDropped(r, s)

\* Fault variant of ProgClose: the task of a closed stream stays registered.
ProgCloseKeepTask(r) ==
    /\ eng[r] = "alive"
    /\ \E s \in Sids :
          /\ est[r][s] \in PeerOpen
          /\ est' = [est EXCEPT ![r][s] = "closed"]
          /\ IF IsOutgoing(r, s)
                THEN /\ pout' = [pout EXCEPT ![s] = "none"]
                     /\ cresps' = cresps \cup {[s |-> s, cr |-> "none"]}
                     /\ Return
                ELSE /\ again' = TRUE
                     /\ Continue
                     /\ UNCHANGED <<pout, cresps>>
    /\ UNCHANGED <<live, eng, hand, inbox, pin, publishing, creqs>>

\* Fault variant of ProgClose: a Close of a pending connect stream is not
\* reported to the caller and the pending entry is kept.
ProgCloseNoConnectFailure(r) ==
    /\ eng[r] = "alive"
    /\ \E s \in Sids :
          /\ est[r][s] \in PeerOpen
          /\ est' = [est EXCEPT ![r][s] = "closed"]
          /\ hand' = [hand EXCEPT ![r][s] = "none"]
          /\ inbox' = [inbox EXCEPT ![r][s] = FALSE]
    /\ again' = TRUE
    /\ Continue
    /\ UNCHANGED <<live, eng, pin, pout, publishing, creqs, cresps>>

\* Fault variant of ProgClose: a Close of any broker stream is reported as a
\* failed connect, pending or not.
ProgCloseAlwaysReport(r) ==
    /\ eng[r] = "alive"
    /\ \E s \in Sids :
          /\ est[r][s] \in PeerOpen
          /\ est' = [est EXCEPT ![r][s] = "closed"]
          /\ hand' = [hand EXCEPT ![r][s] = "none"]
          /\ inbox' = [inbox EXCEPT ![r][s] = FALSE]
          /\ IF r = Broker
                THEN /\ pout' = [pout EXCEPT ![s] = "none"]
                     /\ cresps' = cresps \cup {[s |-> s, cr |-> "none"]}
                     /\ Return
                ELSE /\ again' = TRUE
                     /\ Continue
                     /\ UNCHANGED <<pout, cresps>>
    /\ UNCHANGED <<live, eng, pin, publishing, creqs>>

\* Fault variant of ProgClose: a pending connect stream that closes is
\* removed from outstanding_connect_outgoing without an event.
ProgCloseDropConnect(r) ==
    /\ eng[r] = "alive"
    /\ \E s \in Sids :
          /\ est[r][s] \in PeerOpen
          /\ est' = [est EXCEPT ![r][s] = "closed"]
          /\ hand' = [hand EXCEPT ![r][s] = "none"]
          /\ inbox' = [inbox EXCEPT ![r][s] = FALSE]
          /\ IF IsOutgoing(r, s)
                THEN pout' = [pout EXCEPT ![s] = "none"]
                ELSE UNCHANGED pout
    /\ again' = TRUE
    /\ Continue
    /\ UNCHANGED <<live, eng, pin, publishing, creqs, cresps>>

\* ChannelProgress::Close: the task is dropped; an outgoing connect still
\* pending on this broker stream returns OutgoingConnect with cr = None.
ProgClose(r) ==
    /\ eng[r] = "alive"
    /\ \E s \in Sids :
          /\ est[r][s] \in PeerOpen
          /\ est' = [est EXCEPT ![r][s] = "closed"]
          /\ hand' = [hand EXCEPT ![r][s] = "none"]
          /\ inbox' = [inbox EXCEPT ![r][s] = FALSE]
          /\ IF IsOutgoing(r, s)
                THEN /\ pout' = [pout EXCEPT ![s] = "none"]
                     /\ cresps' = cresps \cup {[s |-> s, cr |-> "none"]}
                     /\ Return
                ELSE /\ again' = TRUE
                     /\ Continue
                     /\ UNCHANGED <<pout, cresps>>
    /\ UNCHANGED <<live, eng, pin, publishing, creqs>>

\* Fault variant of ProgDisconnect: the route is never pushed on killme.
ProgDisconnectNoQueue(r) ==
    /\ eng[r] \in {"alive", "dying"}
    /\ eng' = [eng EXCEPT ![r] = IF StickyDisconnect THEN "dying" ELSE "gone"]
    /\ pc' = "post"
    /\ UNCHANGED <<cur, todo, again, killme, live, est, hand, inbox, pin,
                   pout, publishing, creqs, cresps>>

\* ChannelProgress::Disconnect: the route is pushed on killme; `again` is
\* left as it is.
ProgDisconnect(r) ==
    /\ eng[r] \in {"alive", "dying"}
    /\ eng' = [eng EXCEPT ![r] = IF StickyDisconnect THEN "dying" ELSE "gone"]
    /\ killme' = killme \cup {r}
    /\ pc' = "post"
    /\ UNCHANGED <<cur, todo, again, live, est, hand, inbox, pin, pout,
                   publishing, creqs, cresps>>

Progress ==
    /\ pc = "progress"
    /\ \/ ProgError(cur)
       \/ ProgLater(cur)
       \/ ProgSend(cur)
       \/ ProgHeader(cur)
       \/ ProgStream(cur)
       \/ ProgClose(cur)
       \/ ProgDisconnect(cur)

\* After the `for`: the first route of killme is removed and returned as
\* Event::Disconnect; the rest of killme is dropped with the local.
ReapDisconnect ==
    /\ pc = "pass"
    /\ todo = {}
    /\ \E k \in killme : live' = live \ {k}
    /\ Return
    /\ UNCHANGED <<eng, est, hand, inbox, pin, pout, publishing,
                   creqs, cresps>>

\* `if !again { break }` otherwise another pass over every channel.
NextPass ==
    /\ pc = "pass"
    /\ todo = {}
    /\ killme = {}
    /\ again
    /\ todo' = live
    /\ again' = FALSE
    /\ UNCHANGED <<pc, cur, killme, live, eng, est, hand, inbox, pin, pout,
                   publishing, creqs, cresps>>

PollDone ==
    /\ pc = "pass"
    /\ todo = {}
    /\ killme = {}
    /\ ~again
    /\ Return
    /\ UNCHANGED <<live, eng, est, hand, inbox, pin, pout, publishing,
                   creqs, cresps>>

-----------------------------------------------------------------------------
Caller ==
    \/ Connect
    \/ Publish
    \/ \E r \in Routes : Open(r)
    \/ \E q \in creqs : Reject(q) \/ AcceptIncoming(q)
    \/ \E c \in cresps : AcceptOutgoing(c)

Poll ==
    \/ PollStart
    \/ Visit
    \/ PrePoll
    \/ Progress
    \/ PostPoll
    \/ ReapDisconnect
    \/ NextPass
    \/ PollDone

Next == Caller \/ Poll

Spec == Init /\ [][Next]_vars

\* The caller's event loop polls the endpoint again whenever it is woken,
\* and one call of poll is straight-line code: Poll is weakly fair.  The
\* caller's own calls are not.
FairSpec == Spec /\ WF_vars(Poll)

\* The engine never hands out a stream id twice, so over a long run the ids
\* are unbounded.  With finitely many Sids this is modelled by forgetting a
\* stream of which nothing is left: the peer has closed it, no task holds
\* it, no connect is pending on it and the caller holds no event about it.
\* Its id then stands for the next fresh one.
ForgetStream(r, s) ==
    /\ pc = "idle"
    /\ r \in live
    /\ est[r][s] = "closed"
    /\ hand[r][s] = "none" /\ ~inbox[r][s]
    /\ r = Broker => /\ s \notin pin /\ pout[s] = "none" /\ s \notin creqs
                     /\ \A c \in cresps : c.s # s
    /\ est' = [est EXCEPT ![r][s] = "free"]
    /\ UNCHANGED <<pollvars, live, eng, hand, inbox, pin, pout, publishing,
                   creqs, cresps>>

\* The endpoint over an unbounded supply of stream ids.
FreshSpec ==
    /\ Init
    /\ [][Next \/ \E r \in Routes, s \in Sids : ForgetStream(r, s)]_vars
    /\ WF_vars(Poll)

-----------------------------------------------------------------------------
(* Properties.                                                             *)

TypeOK ==
    /\ pc \in {"idle", "pass", "pre", "progress", "post"}
    /\ cur \in Routes
    /\ todo \subseteq Routes
    /\ again \in BOOLEAN
    /\ killme \subseteq Routes
    /\ live \subseteq Routes
    /\ eng \in [Routes -> {"alive", "dying", "gone"}]
    /\ est \in [Routes -> [Sids -> StreamStates]]
    /\ hand \in [Routes -> [Sids -> HandlerStates]]
    /\ inbox \in [Routes -> [Sids -> BOOLEAN]]
    /\ pin \subseteq Sids
    /\ pout \in [Sids -> {"none", "hdrs", "resp"}]
    /\ publishing \in BOOLEAN
    /\ creqs \subseteq Sids
    /\ cresps \subseteq [s : Sids, cr : Outcomes]

\* Every task registered in chan.streams belongs to a stream the engine
\* still has open in both directions: a task that finished has been
\* removed and its stream closed, and a Close from the peer has dropped
\* the task (endpoint.rs, the handler polls and ChannelProgress::Close).
HandlerStreamsOpen ==
    \A r \in live, s \in Sids :
        hand[r][s] # "none" => est[r][s] = "open"

\* While the broker channel exists, every outgoing connect still pending in
\* outstanding_connect_outgoing is on a broker stream the engine has open,
\* claimed by no task and not mistaken for an incoming request: it will be
\* resolved by the next ReceiveStream or Close of that stream.
PendingOutOpen ==
    Broker \in live =>
        \A s \in Sids : pout[s] # "none" =>
            /\ est[Broker][s] = "open"
            /\ hand[Broker][s] = "none"
            /\ s \notin pin

\* The claims on stream ids that make the two invariants above inductive:
\* a stream the engine has not handed out is claimed by nothing, and a
\* pending /peer/connect stream has no task.
StreamClaims ==
    /\ \A r \in live, s \in Sids :
          est[r][s] = "free" => hand[r][s] = "none"
    /\ Broker \in live =>
          /\ \A s \in Sids : est[Broker][s] = "free" =>
                              s \notin pin /\ pout[s] = "none"
          /\ \A s \in pin : hand[Broker][s] = "none"

\* The loop of poll visits live channels only.
LoopClaims ==
    /\ todo \subseteq live
    /\ pc \in {"pre", "progress", "post"} => cur \in live

IInv == TypeOK /\ HandlerStreamsOpen /\ PendingOutOpen /\ StreamClaims /\ LoopClaims

\* A channel whose engine reports Disconnect is eventually removed from the
\* channel table and returned as Event::Disconnect (spec 4.5: "queue this
\* channel for removal; after draining, emit Event::Disconnect"; in
\* Endpoint::poll, the killme list read after the `for`).
DisconnectReported ==
    \A r \in Routes :
        (r \in live /\ eng[r] = "dying") ~> (r \notin live)

\* Once progress() has returned Disconnect for a channel that the engine
\* will not report again, the channel stays queued on killme until poll
\* removes it: a Disconnect is never forgotten.
DisconnectNotLost ==
    \A r \in live : eng[r] = "gone" => (pc # "idle" /\ r \in killme)

\* No outgoing connect is left pending once the broker channel is gone:
\* every connect() is answered by an Event::OutgoingConnect (spec 4.4
\* step 5: a stream that closes without a response reports cr = None).
OrphanedConnect ==
    Broker \notin live => \A s \in Sids : pout[s] = "none"

\* outstanding_connect_incomming holds only streams whose request body is
\* still awaited, i.e. broker streams the peer has not closed.
PendingInOpen ==
    Broker \in live => \A s \in pin : est[Broker][s] \in PeerOpen

\* A /peer/connect request the broker delivered is, when its body arrives,
\* either passed to the caller as Event::IncommingConnect or answered with
\* PeerConnectResponse{ok: false} and closed; it is never dropped.
PeerConnectAnswered ==
    [][\A s \in pin : s \notin pin' =>
          (s \in creqs' \/ est'[Broker][s] = "lclosed")]_vars


=============================================================================
