--------------------------- MODULE EndpointConnect ---------------------------
(***************************************************************************)
(* The endpoint as an implementation of ConnectProtocol.  The state of a   *)
(* broker stream id is read off outstanding_connect_outgoing and the       *)
(* engine's view of the broker channel's streams; the answers are the      *)
(* Event::OutgoingConnect events the caller holds.                         *)
(***************************************************************************)
EXTENDS Endpoint

\* A pending entry in outstanding_connect_outgoing is a pending connect();
\* otherwise a stream the engine has not handed out is unused, and any other
\* has been answered or used for something else.
ConnOf ==
    [s \in Sids |-> IF pout[s] # "none" THEN "pending"
                    ELSE IF est[Broker][s] = "free" THEN "unused"
                    ELSE "done"]

CP == INSTANCE ConnectProtocol WITH conn <- ConnOf, outbox <- cresps

\* Endpoint implements the connect protocol: every step of poll and of the
\* caller's API either leaves the protocol state alone or is one of its
\* steps (connect, one answer, another use of a stream, accept_outgoing).
ConnectRefinement == CP!Spec

\* No connect() is answered twice: the protocol's AnsweredOnce, stated of
\* the endpoint's own variables through the mapping.
ConnectAnsweredOnce == CP!AnsweredOnce


\* A connect() leaves outstanding_connect_outgoing only in the step of poll
\* that returns its Event::OutgoingConnect (the response on the broker
\* stream, or cr = None when the stream closes), and that answer is one the
\* caller did not hold yet: no pending connect() is dropped silently.
ConnectAnswered ==
    [][\A s \in Sids : pout[s] # "none" /\ pout'[s] = "none" =>
          \E cr \in Outcomes : [s |-> s, cr |-> cr] \in cresps' \ cresps]_vars

=============================================================================
