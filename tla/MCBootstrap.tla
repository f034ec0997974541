----------------------------- MODULE MCBootstrap -----------------------------
(* Bootstrap with two DNS records and at most two datagrams queued.        *)
EXTENDS BootstrapRefinement

CONSTANTS x1, x2

MCRecs == {x1, x2}

=============================================================================
