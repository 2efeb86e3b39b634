----------------------------- MODULE MCChatRoom -----------------------------
(***************************************************************************)
(* ChatRoom for TLC.                                                       *)
(***************************************************************************)
EXTENDS ChatRoom, TLC

GuestSymmetry == Permutations(Guests)
=============================================================================
