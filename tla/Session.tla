------------------------------ MODULE Session ------------------------------
(***************************************************************************)
(* Two Sessions of internal/e2ee/session.go at the ends of one connection, *)
(* after a completed handshake, over a network that may lose, duplicate,   *)
(* delay, reorder and damage records.                                      *)
(*                                                                         *)
(* A record stays in `sent' for ever and may be handed to the receiver at  *)
(* any time, any number of times or never; that is all the loss,           *)
(* duplication and reordering there is.  The mutex of a Session makes each *)
(* of Encrypt, Decrypt and Close one step.                                 *)
(***************************************************************************)
EXTENDS Ratchet

VARIABLES ratchet,        \* Session.ratchet, per side
          closed,         \* Session.closed, per side
          sentSinceStep,  \* Session.sentSinceStep, per side
          sent,           \* records a side has encrypted
          opened,         \* records a side has decrypted (history)
          written,        \* how many texts Encrypt has sealed (history)
          read            \* how many texts Decrypt has returned (history)

vars == << ratchet, closed, sentSinceStep, sent, opened, written, read >>

\* A record: its cleartext header, the message key and the header that went
\* into the AEAD as key and associated data, and the text.  No two calls of
\* Encrypt have the same text, so that two records are never one by accident.
Record(h, key, text) == [hdr |-> h, key |-> key, ad |-> h, text |-> text]

\* What a damaged header does to a record: the bytes outside it still carry
\* the tag computed over the original header.
Damaged(rec) ==
    {[rec EXCEPT !.hdr.n = Increment(@)], [rec EXCEPT !.hdr.pn = Increment(@)],
     [rec EXCEPT !.hdr.pub = [owner |-> "stranger", gen |-> 0]]}

Init ==
    /\ ratchet = [s \in Sides |-> IF s = "initiator" THEN newRatchetInitiator
                                                     ELSE newRatchetResponder]
    /\ closed = [s \in Sides |-> FALSE]
    /\ sentSinceStep = [s \in Sides |-> 0]
    /\ sent = [s \in Sides |-> {}]
    /\ opened = [s \in Sides |-> {}]
    /\ written = [s \in Sides |-> 0]
    /\ read = [s \in Sides |-> 0]

(***************************************************************************)
(* Session.Encrypt: seals one record and moves the sending chain on.       *)
(***************************************************************************)
Encrypt(s) ==
    LET r == ratchet[s]
    IN  /\ ~closed[s]
        /\ CanNext(r)
        /\ sent' = [sent EXCEPT
                      ![s] = @ \cup {Record(NextHeader(r), r.sendChain, written[s])}]
        /\ written' = [written EXCEPT ![s] = @ + 1]
        /\ ratchet' = [ratchet EXCEPT ![s] = next(r)]
        /\ sentSinceStep' = [sentSinceStep EXCEPT ![s] = @ + 1]
        /\ UNCHANGED << closed, opened, read >>

\* Mutant: the clone is adopted before the tag is checked.
OpensUnchecked(r, rec) == ReceiveError(r, rec.hdr) = "none"

\* receive() resolves a key and the AEAD accepts the record under it.
Opens(r, rec) ==
    /\ ReceiveError(r, rec.hdr) = "none"
    /\ ReceiveKey(r, rec.hdr) = rec.key
    /\ rec.hdr = rec.ad

\* Mutant: the key taken from the store is not forgotten.
CommittedKeepsKey(r, h) == receive(r, h)

\* The state Decrypt commits: the clone, without the key it has used.
Committed(r, h) ==
    IF FromStore(r, h) THEN forget(receive(r, h), NameOf(h)) ELSE receive(r, h)

(***************************************************************************)
(* Session.Decrypt on one record.  The ratchet is advanced on a clone that *)
(* is adopted only when the tag verifies; every failure drops the clone.   *)
(***************************************************************************)
DecryptOpens(s, rec) ==
    LET r == Committed(ratchet[s], rec.hdr)
    IN  /\ ~closed[s]
        /\ Opens(ratchet[s], rec)
        /\ ratchet' = [ratchet EXCEPT ![s] = r]
        /\ sentSinceStep' = IF r.steps # ratchet[s].steps
                            THEN [sentSinceStep EXCEPT ![s] = 0]
                            ELSE sentSinceStep
        /\ opened' = [opened EXCEPT ![s] = @ \cup {rec}]
        /\ read' = [read EXCEPT ![s] = @ + 1]
        /\ UNCHANGED << closed, sent, written >>

DecryptFails(s, rec) ==
    /\ closed[s] \/ ~Opens(ratchet[s], rec)
    /\ UNCHANGED vars

Arrivals(s) == sent[Peer(s)] \cup UNION {Damaged(rec) : rec \in sent[Peer(s)]}

Decrypt(s) ==
    \E rec \in Arrivals(s) : DecryptOpens(s, rec) \/ DecryptFails(s, rec)

(***************************************************************************)
(* Session.Close: idempotent, wipes every key.                             *)
(***************************************************************************)
Close(s) ==
    /\ ~closed[s]
    /\ closed' = [closed EXCEPT ![s] = TRUE]
    /\ ratchet' = [ratchet EXCEPT ![s] = destroy(@)]
    /\ UNCHANGED << sentSinceStep, sent, opened, written, read >>

Next == \E s \in Sides : Encrypt(s) \/ Decrypt(s) \/ Close(s)

Spec == Init /\ [][Next]_vars

-----------------------------------------------------------------------------
Chains == [root : Seq(SUBSET Pubs), pos : Nat]
Names == [pub : Pubs, n : Nat]
Headers == [pub : Pubs, pn : Nat, n : Nat]
Records == [hdr : Headers, key : Chains, ad : Headers, text : Nat]

IsRatchet(r) ==
    /\ r.rootKey \in Seq(SUBSET Pubs)
    /\ r.sendKey \in Pubs
    /\ r.receiveKey \in Pubs \cup {NoPub}
    /\ r.sendChain \in Chains
    /\ r.receiveChain \in Chains
    /\ r.sendCount \in Nat
    /\ r.receiveCount \in Nat
    /\ r.previousSent \in Nat
    /\ r.steps \in Nat
    /\ DOMAIN r.skipped \subseteq Names
    /\ \A k \in DOMAIN r.skipped : r.skipped[k] \in Chains

\* Types of the session state.  A public key is among Pubs for as long as it
\* came out of a record; `nobody' is only ever the nil key.
TypeOK ==
    /\ \A s \in Sides : IsRatchet(ratchet[s])
    /\ closed \in [Sides -> BOOLEAN]
    /\ sentSinceStep \in [Sides -> Nat]
    /\ sent \in [Sides -> SUBSET Records]
    /\ opened \in [Sides -> SUBSET Records]
    /\ written \in [Sides -> Nat]
    /\ read \in [Sides -> Nat]

\* Decrypt never accepts a record twice: whatever was delivered, lost or
\* damaged in between, a record that has been opened does not open again.
\* "the same ciphertext can never be decrypted twice" (ratchet.go, forget).
NoReplay ==
    \A s \in Sides : ~closed[s] =>
        \A rec \in opened[s] : ~Opens(ratchet[s], rec)

\* No two calls of Encrypt on the connection, of either side, seal under the
\* same message key, hence under the same AEAD key and nonce: messageKeys()
\* relies on "the message key is unique per (chain, index)".
NoKeyReuse ==
    \A s, t \in Sides : \A a \in sent[s], b \in sent[t] :
        a.key = b.key => a = b /\ s = t

\* A record the peer sent and this side has not opened yet still opens, however
\* late it comes and whatever else came before it, unless its key was trimmed
\* from the store or it is further ahead than MaxSkip allows: Decrypt's
\* promise that no failure can "cause a later genuine message to be lost".
UnopenedRecordOpens ==
    \A s \in Sides : ~closed[s] =>
        \A rec \in sent[Peer(s)] \ opened[s] :
            \/ Opens(ratchet[s], rec)
            \/ NameOf(rec.hdr) \in ratchet[s].evicted
            \/ ReceiveError(ratchet[s], rec.hdr) = "ErrSkipTooLarge"

\* When one side has turned onto the other's current key, both hold the same
\* chain and the receiver is not ahead; and the two sides are never more than
\* one DH step apart, the responder in front (step, newRatchetResponder).
ChainsAgree ==
    (\A s \in Sides : ~closed[s]) =>
        /\ \A s \in Sides :
              LET r == ratchet[s]  p == ratchet[Peer(s)]
              IN  r.receiveKey = p.sendKey /\ r.receiveChain # NoChain =>
                    /\ r.receiveChain.root = p.sendChain.root
                    /\ r.receiveCount <= p.sendCount
        /\ ratchet["responder"].steps - ratchet["initiator"].steps \in {0, 1}

ToResponder == INSTANCE Courier
    WITH sealed <- sent["initiator"], taken <- opened["responder"], reads <- read["responder"],
         mute <- closed["initiator"], deaf <- closed["responder"]

ToInitiator == INSTANCE Courier
    WITH sealed <- sent["responder"], taken <- opened["initiator"], reads <- read["initiator"],
         mute <- closed["responder"], deaf <- closed["initiator"]

\* Each direction delivers what the peer has sealed, each record at most once,
\* and nothing after Close: every text that Decrypt returns is one it has not
\* returned before, and was sealed as it arrived ("the clone is only adopted
\* once the Poly1305 tag has verified", Decrypt).
OnceEach == ToResponder!Spec /\ ToInitiator!Spec

=============================================================================
