-------------------------- MODULE MCRelaySession ---------------------------
(***************************************************************************)
(* RelaySession with a handful of interchangeable sockets.                 *)
(***************************************************************************)
EXTENDS RelaySession, TLC

SocketSymmetry == Permutations(Sockets)
=============================================================================
