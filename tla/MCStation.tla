----------------------------- MODULE MCStation ------------------------------
(***************************************************************************)
(* Station for TLC.                                                        *)
(***************************************************************************)
EXTENDS Station, TLC

\* For the runs that check no liveness.
GuestSymmetry == Permutations(Guests)
=============================================================================
