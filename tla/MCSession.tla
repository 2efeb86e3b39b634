----------------------------- MODULE MCSession -----------------------------
(***************************************************************************)
(* Session on small limits, with bounds on how far a behaviour goes: the   *)
(* DH steps of a side and the records it sends.                            *)
(***************************************************************************)
EXTENDS Session

CONSTANTS MaxSteps,   \* DH steps of a side
          MaxSent,    \* records the initiator sends
          MaxReplies  \* records the responder sends

Within ==
    /\ \A s \in Sides : ratchet'[s].steps <= MaxSteps
    /\ Cardinality(sent'["initiator"]) <= MaxSent
    /\ Cardinality(sent'["responder"]) <= MaxReplies

MCNext == Next /\ Within

MCSpec == Init /\ [][MCNext]_vars
=============================================================================
