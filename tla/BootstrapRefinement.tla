------------------------- MODULE BootstrapRefinement -------------------------
(***************************************************************************)
(* EndpointBuilder::connect (Bootstrap) as an implementation of            *)
(* BootstrapProtocol.  The inner loop's two places, running and yielded,  *)
(* are one abstract stage; the attempt counter, the socket and the clock   *)
(* have no abstract counterpart, so the steps that only change them       *)
(* (a junk datagram, a wake-up, a tick, an arrival) are stutters.          *)
(***************************************************************************)
EXTENDS Bootstrap

\* The inner loop, running or yielded on poll.again, is "trying".
StageOf == IF bpc \in {"try", "wait"} THEN "trying" ELSE bpc

BP == INSTANCE BootstrapProtocol
        WITH MaxSends <- MaxAttempts, stage <- StageOf, pending <- records,
             cur <- rec, sends <- sent, outcome <- result

\* connect implements the protocol: every record is tried at most once and
\* sent at most four handshakes, Ok comes only from the record being tried
\* after a handshake to it, and OutOfOptions only once no record is left.
BootRefinement == BP!Spec

=============================================================================
