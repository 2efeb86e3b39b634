---------------------------- MODULE MCGuestChat ----------------------------
(***************************************************************************)
(* GuestChat for TLC.  A bound on how far a behaviour goes: while dials of *)
(* the race are still to be heard of, the host has sent its greeting and   *)
(* nothing more.  The host may always stop sending, so this takes no fair  *)
(* step away.                                                              *)
(***************************************************************************)
EXTENDS GuestChat

Racing == dialing # {} \/ results # << >>

Within == sent' # sent => ~Racing \/ sent = << >>

MCNext == GuestNext /\ Within

MCSpec == GuestInit /\ [][MCNext]_guestVars /\ GuestFairness
=============================================================================
