------------------------------ MODULE FirstUse ------------------------------
(***************************************************************************)
(* What a trust-on-first-use store promises: an ID keeps the key it was    *)
(* first met with until the user forgets it ("FAILS CLOSED", ErrKeyChanged *)
(* in internal/auth/trust.go).  The promise ends when memory is lost.      *)
(***************************************************************************)
CONSTANTS IDs, Keys, NoKey, IDOf

VARIABLES pins,    \* the key each ID is known by
          wishes,  \* the IDs the user is asking to forget, at any time
          lost     \* memory was lost: nothing is promised any more

Meet(k) ==
    /\ pins[IDOf[k]] \in {NoKey, k}
    /\ pins' = [pins EXCEPT ![IDOf[k]] = k]

Forgets(i) == i \in wishes /\ pins' = [pins EXCEPT ![i] = NoKey]

Lose == lost'

Init == pins \in [IDs -> Keys \cup {NoKey}] /\ lost = FALSE

Next ==
    \/ /\ ~lost /\ ~lost'
       /\ (\E k \in Keys : Meet(k)) \/ (\E i \in IDs : Forgets(i))
    \/ Lose

Spec == Init /\ [][Next]_<< pins, lost >>
=============================================================================
