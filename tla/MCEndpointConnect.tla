-------------------------- MODULE MCEndpointConnect --------------------------
(* The refinement check on the instance of MCEndpoint: the broker, one    *)
(* peer route, two stream ids.                                            *)
EXTENDS EndpointConnect, TLC

CONSTANTS b, r1, s1, s2

MCRoutes == {b, r1}
MCSids == {s1, s2}
MCSymmetry == Permutations(MCSids)

=============================================================================
