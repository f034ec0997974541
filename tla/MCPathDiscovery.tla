--------------------------- MODULE MCPathDiscovery ---------------------------
(* One channel, three addresses: the broker's, and two others, one of     *)
(* them the peer's real address.                                          *)
EXTENDS PathDiscovery

CONSTANTS a1, a2, a3

MCAddrs == {a1, a2, a3}

=============================================================================
