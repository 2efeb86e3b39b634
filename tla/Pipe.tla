-------------------------------- MODULE Pipe --------------------------------
(***************************************************************************)
(* What a byte stream promises (net.Conn): what comes out is what went in, *)
(* in order and without gaps; only the end may be missing.                 *)
(***************************************************************************)
EXTENDS SequencesExt

VARIABLES sent, \* what went in
          got   \* what came out

Put  == IsPrefix(sent, sent') /\ UNCHANGED got
Take == IsPrefix(got, got') /\ IsPrefix(got', sent) /\ UNCHANGED sent

Init == sent = << >> /\ got = << >>

Spec == Init /\ [][Put \/ Take]_<< sent, got >>
=============================================================================
