---------------------------- MODULE MCTrustStore ----------------------------
(* TrustStore with two keys that collide on one ID and one key of another. *)
EXTENDS TrustStore

CONSTANTS alice, bob, k1, k2, k3

MCIDs == {alice, bob}
MCKeys == {k1, k2, k3}
MCIDOf == [k \in MCKeys |-> IF k = k3 THEN bob ELSE alice]
=============================================================================
