------------------------------ MODULE Ratchet ------------------------------
(***************************************************************************)
(* The Double Ratchet of internal/e2ee/ratchet.go as operators on the      *)
(* ratchet struct.  Keys are symbolic terms:                               *)
(*                                                                         *)
(*   - an X25519 key pair is named by its public key, [owner, gen];        *)
(*   - a shared secret is the unordered pair of the two public keys, so    *)
(*     both sides of an ECDH compute the same value;                       *)
(*   - a root key is the sequence of shared secrets that were mixed into   *)
(*     it, the handshake's root key being the empty sequence;              *)
(*   - a chain key is [root, pos]: the root it was split from and how many *)
(*     times it has been advanced.  The message key derived at that point  *)
(*     carries the same name, for KDF outputs under distinct labels never  *)
(*     meet in the code.                                                   *)
(*                                                                         *)
(* Two terms are equal exactly when the KDF inputs are.  The header fields *)
(* n and pn are kept apart from pos, so that "the header's counter is the  *)
(* chain's position" is something to check and not a convention.           *)
(***************************************************************************)
EXTENDS Integers, Sequences, FiniteSets

CONSTANTS MaxSkip,       \* largest gap tolerated in one chain (1000)
          MaxSkipStore,  \* keys held for out-of-order messages (2000)
          MaxCount       \* last value of the uint32 counters (2^32 - 1)

ASSUME LimitsAssumption ==
    /\ MaxSkip \in Nat
    /\ MaxSkipStore \in Nat
    /\ MaxCount \in Nat \ {0}

Sides == {"initiator", "responder"}

Peer(s) == IF s = "initiator" THEN "responder" ELSE "initiator"

Pubs == [owner : Sides \cup {"stranger"}, gen : Nat]

\* The nil *ecdh.PublicKey and the nil chain.
NoPub == [owner |-> "nobody", gen |-> 0]
NoChain == [root |-> << >>, pos |-> 0]

NoKeys == [k \in {} |-> NoChain]

\* ++ on a uint32.
Increment(n) == IF n = MaxCount THEN 0 ELSE n + 1

(***************************************************************************)
(* kdfRootKey and kdfChainKey.                                             *)
(***************************************************************************)

ECDH(a, b) == {a, b}

kdfRootKey(root, dh) == Append(root, dh)

ChainOf(root) == [root |-> root, pos |-> 0]

Advance(chain, by) == [chain EXCEPT !.pos = @ + by]

\* ecdh.GenerateKey: a key pair nobody has seen.  A key generated on a clone
\* that is discarded has not been seen either.
GenerateKey(r) == [r.sendKey EXCEPT !.gen = @ + 1]

(***************************************************************************)
(* The two starting states.                                                *)
(***************************************************************************)

InitiatorEphemeral == [owner |-> "initiator", gen |-> 0]
ResponderEphemeral == [owner |-> "responder", gen |-> 0]

newRatchetInitiator ==
    LET root == kdfRootKey(<< >>, ECDH(InitiatorEphemeral, ResponderEphemeral))
    IN  [rootKey |-> root, sendKey |-> InitiatorEphemeral,
         receiveKey |-> ResponderEphemeral,
         sendChain |-> ChainOf(root), receiveChain |-> NoChain,
         sendCount |-> 0, receiveCount |-> 0, previousSent |-> 0,
         skipped |-> NoKeys, order |-> << >>, steps |-> 0, evicted |-> {}]

newRatchetResponder ==
    [rootKey |-> << >>, sendKey |-> ResponderEphemeral, receiveKey |-> NoPub,
     sendChain |-> NoChain, receiveChain |-> NoChain,
     sendCount |-> 0, receiveCount |-> 0, previousSent |-> 0,
     skipped |-> NoKeys, order |-> << >>, steps |-> 0, evicted |-> {}]

(***************************************************************************)
(* Sending.                                                                *)
(***************************************************************************)

canSend(r) == r.sendChain # NoChain

\* Mutant: a chain may run past its last counter.
CanNextWraps(r) == canSend(r)

\* The two refusals of next().
CanNext(r) == canSend(r) /\ r.sendCount # MaxCount

NextHeader(r) == [pub |-> r.sendKey, pn |-> r.previousSent, n |-> r.sendCount]

\* Mutant: neither chain nor counter is moved on, the next record is sealed in the same state.
nextForgotten(r) == r

next(r) == [r EXCEPT !.sendChain = Advance(@, 1), !.sendCount = Increment(@)]

(***************************************************************************)
(* Receiving.                                                              *)
(***************************************************************************)

\* A DH ratchet step against a newly seen peer key.
step(r, peer) ==
    LET fresh == GenerateKey(r)
        mid   == kdfRootKey(r.rootKey, ECDH(r.sendKey, peer))
        last  == kdfRootKey(mid, ECDH(fresh, peer))
    IN  [r EXCEPT !.previousSent = r.sendCount, !.sendCount = 0,
                  !.receiveCount = 0, !.receiveKey = peer,
                  !.receiveChain = ChainOf(mid), !.sendChain = ChainOf(last),
                  !.rootKey = last, !.sendKey = fresh, !.steps = @ + 1]

\* remember() for the names of one skipTo loop, in their order.  A name already
\* stored keeps its place; the oldest names beyond MaxSkipStore are dropped.
\* The field evicted is a history of what was dropped; the code has none.
remember(r, names, keyOf) ==
    LET new   == {names[i] : i \in DOMAIN names}
        queue == r.order \o
                 SelectSeq(names, LAMBDA k : k \notin DOMAIN r.skipped)
        over  == IF Len(queue) > MaxSkipStore THEN Len(queue) - MaxSkipStore
                                              ELSE 0
        gone  == {queue[i] : i \in 1..over}
    IN  [r EXCEPT
           !.order = SubSeq(queue, over + 1, Len(queue)),
           !.skipped = [k \in (DOMAIN @ \cup new) \ gone |->
                           IF k \in new THEN keyOf[k] ELSE @[k]],
           !.evicted = @ \cup gone]

forget(r, name) ==
    [r EXCEPT !.skipped = [k \in DOMAIN @ \ {name} |-> @[k]],
              !.order = SelectSeq(@, LAMBDA k : k # name)]

Skips(r, target) == r.receiveChain # NoChain /\ target > r.receiveCount

SkipTooLarge(r, target) ==
    Skips(r, target) /\ target - r.receiveCount > MaxSkip

skipTo(r, target) ==
    IF ~Skips(r, target) THEN r
    ELSE LET gap   == target - r.receiveCount
             names == [i \in 1..gap |->
                         [pub |-> r.receiveKey, n |-> r.receiveCount + i - 1]]
             keyOf == [k \in {names[i] : i \in 1..gap} |->
                         Advance(r.receiveChain, k.n - r.receiveCount)]
         IN  [remember(r, names, keyOf) EXCEPT
                !.receiveChain = Advance(@, gap), !.receiveCount = target]

NameOf(h) == [pub |-> h.pub, n |-> h.n]

NewChain(r, h) == r.receiveKey # h.pub

\* Mutant: the chain that is left is not finished first.
TurnedAtOnce(r, h) == IF NewChain(r, h) THEN step(r, h.pub) ELSE r

\* The ratchet receive() goes on with: turned when the header's key is new.
Turned(r, h) == IF NewChain(r, h) THEN step(skipTo(r, h.pn), h.pub) ELSE r

FromStore(r, h) == NameOf(h) \in DOMAIN r.skipped

\* The error receive() returns, "none" when it resolves a message key.
ReceiveError(r, h) ==
    CASE FromStore(r, h)                               -> "none"
      [] ~FromStore(r, h) /\ NewChain(r, h)
         /\ SkipTooLarge(r, h.pn)                      -> "ErrSkipTooLarge"
      [] OTHER ->
           LET t == Turned(r, h)
           IN  IF h.n < t.receiveCount THEN "ErrStaleMessage"
               ELSE IF SkipTooLarge(t, h.n) THEN "ErrSkipTooLarge"
               ELSE "none"

\* The message key and the advanced ratchet when there is no error.
ReceiveKey(r, h) ==
    IF FromStore(r, h) THEN r.skipped[NameOf(h)]
                       ELSE skipTo(Turned(r, h), h.n).receiveChain

receive(r, h) ==
    IF FromStore(r, h) THEN r
    ELSE [skipTo(Turned(r, h), h.n) EXCEPT
            !.receiveChain = Advance(@, 1), !.receiveCount = Increment(@)]

\* destroy(): every secret the ratchet holds is wiped; counters stay.
destroy(r) ==
    [r EXCEPT !.rootKey = << >>, !.sendChain = NoChain,
              !.receiveChain = NoChain, !.skipped = NoKeys, !.order = << >>]
=============================================================================
