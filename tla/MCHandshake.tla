---------------------------- MODULE MCHandshake -----------------------------
(***************************************************************************)
(* Handshake for TLC.  i1 and r1 share a TLS connection; i2 and r2 are in  *)
(* connections that end at somebody else.  All initiators have key a, all  *)
(* responders key b; others hold m; w is of small order.                   *)
(***************************************************************************)
EXTENDS Handshake

CONSTANTS i1, i2, r1, r2, a, b, m, w

MCKeyOf == [run \in Runs |-> IF run \in Initiators THEN a ELSE b]
MCChannel == [run \in Runs |-> CASE run \in {i1, r1} -> 1
                                 [] run = i2 -> 2
                                 [] run = r2 -> 3]
MCExpectPeerID == [run \in Initiators |-> IF run = i1 THEN <<b>> ELSE None]
MCDeriveID(k) == <<k>>
MCIDs == {<<k>> : k \in Keys}
MCSupportedVersions == <<2>>
=============================================================================
