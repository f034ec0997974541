----------------------------- MODULE MCEndpoint -----------------------------
(* TLC instance of Endpoint: the broker channel and one peer route, two    *)
(* stream ids per channel.  Stream ids are interchangeable in every action *)
(* and property, so runs without liveness use symmetry on them.           *)
EXTENDS Endpoint, TLC

CONSTANTS b, r1, s1, s2

MCRoutes == {b, r1}
MCSids == {s1, s2}
MCSymmetry == Permutations(MCSids)

=============================================================================
