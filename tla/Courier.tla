------------------------------ MODULE Courier ------------------------------
(***************************************************************************)
(* What one direction of a session promises to those who talk over it,     *)
(* whatever the network does: what is opened is what was sealed, nothing   *)
(* is opened twice, and an end that has closed neither seals nor opens.    *)
(* Records may stay away and come in any order.                            *)
(***************************************************************************)
EXTENDS Naturals

VARIABLES sealed,  \* records that went in
          taken,   \* records that came out
          reads,   \* how often one came out
          mute,    \* the end that seals has closed
          deaf     \* the end that opens has closed

Init == sealed = {} /\ taken = {} /\ reads = 0 /\ ~mute /\ ~deaf

Seal ==
    /\ ~mute /\ \E r \in sealed' \ sealed : sealed' = sealed \cup {r}
    /\ UNCHANGED << taken, reads, mute, deaf >>

\* Whatever comes out comes out for the first time.
Take ==
    /\ ~deaf /\ \E r \in sealed \ taken : taken' = taken \cup {r}
    /\ reads' = reads + 1
    /\ UNCHANGED << sealed, mute, deaf >>

Closes ==
    /\ mute => mute'
    /\ deaf => deaf'
    /\ UNCHANGED << sealed, taken, reads >>

Spec == Init /\ [][Seal \/ Take \/ Closes]_<< sealed, taken, reads, mute, deaf >>
=============================================================================
