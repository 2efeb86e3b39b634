---------------------------- MODULE MCRelayHost -----------------------------
(***************************************************************************)
(* RelayHost for TLC.  Three sockets are a chat and the socket parked      *)
(* beside it; no symmetry, which TLC cannot combine with liveness.         *)
(***************************************************************************)
EXTENDS RelayHost
=============================================================================
