----------------------- MODULE PhonebookEntries_proofs -----------------------
(***************************************************************************)
(* Proofs about PhonebookEntries, for any number of clients and handlers   *)
(* and any lifetimes within DirectoryAssumption.                           *)
(***************************************************************************)
EXTENDS PhonebookEntries, FiniteSetTheorems, TLAPS

\* As long as handlers have not overlapped there is one of them at most.
Alone ==
    ~overlapped => \/ handlers = {}
                   \/ ~gcPicked /\ \E h \in handlers : handlers = {h}

\* Every handler has a request behind it that was within the clock skew.
Accepted ==
    \A h \in handlers :
        /\ [kind |-> h.kind, key |-> h.key, issued |-> h.issued] \in net
        /\ h.at <= now
        /\ h.issued <= h.at + MAX_CLOCK_SKEW /\ h.at <= h.issued + MAX_CLOCK_SKEW

\* Behind a row that is not revoked is the request it was last written for, not
\* much older than its expiry.
Heard ==
    entry # NoEntry /\ ~entry.revoked =>
        \E m \in net : /\ m.kind \in {"publish", "touch"}
                       /\ m.key \in {entry.writeKey, entry.author}
                       /\ m.issued = entry.lastIssued
                       /\ entry.expires <= m.issued + ENTRY_TTL + MAX_CLOCK_SKEW

\* A row expires no earlier than its last request, up to the clock skew.
Expiry == entry # NoEntry => entry.lastIssued <= entry.expires + MAX_CLOCK_SKEW

\* What a lone publish has read is still so.
ReadHolds ==
    ~overlapped => \A h \in handlers : h.kind = "publish" /\ h.read =>
        entry = NoEntry \/ (entry.writeKey = h.key /\ h.issued > entry.lastIssued)

\* What a lone collector has selected is still stale.
PickHolds == ~overlapped /\ gcPicked /\ entry # NoEntry => Stale

\* The key whose revokes the row remembers.
Covers(k) == entry # NoEntry /\ entry.writeKey = k

\* The row remembers every revoke of its owner; those of other keys, whose rows
\* were collected, guard against nothing that is still accepted.
Guarded ==
    ~overlapped /\ ~late =>
        /\ entry # NoEntry =>
              /\ revokedAs[entry.writeKey] <= entry.lastIssued
              /\ ~entry.revoked => entry.sealed > revokedAs[entry.writeKey]
        /\ \A k \in Keys : ~Covers(k) =>
              revokedAs[k] = 0 \/ revokedAs[k] + MAX_CLOCK_SKEW < now
        /\ \A h \in handlers : ~Covers(h.key) => h.issued > revokedAs[h.key]

IInv ==
    /\ TypeOK /\ IsFiniteSet(handlers) /\ Alone /\ Accepted /\ Heard /\ Expiry
    /\ ReadHolds /\ PickHolds /\ SealedByOwner /\ Guarded

-----------------------------------------------------------------------------
LEMMA Limits ==
    /\ ENTRY_TTL \in Nat /\ TOMBSTONE_TTL \in Nat /\ MAX_CLOCK_SKEW \in Nat
    /\ MaxHandlers \in Nat /\ MaxRequests \in Nat
    /\ TOMBSTONE_TTL >= MAX_CLOCK_SKEW + MAX_CLOCK_SKEW
    /\ NoEntry \notin Rows
BY DirectoryAssumption

LEMMA RunningNat ==
    ASSUME IsFiniteSet(handlers) PROVE Cardinality(handlers) \in Nat /\ Running \in Nat
BY FS_CardinalityType DEF Running

\* When nothing runs there is no handler.
LEMMA NothingRuns ==
    ASSUME IsFiniteSet(handlers), ~(Running > 0), gcPicked \in BOOLEAN
    PROVE  handlers = {} /\ ~gcPicked
<1>1. Cardinality(handlers) \in Nat BY FS_CardinalityType
<1>2. Cardinality(handlers) = 0 /\ ~gcPicked BY <1>1 DEF Running
<1>. QED BY <1>2, FS_EmptySet

LEMMA InitIInv == Init => IInv
<1>. SUFFICES ASSUME Init PROVE IInv OBVIOUS
<1>1. IsFiniteSet(handlers) /\ Cardinality(handlers) = 0 BY FS_EmptySet DEF Init
<1>2. clients \in [Keys -> [offset : Int, last : Nat, on : BOOLEAN, count : 0..MaxRequests]]
  <2>1. [offset : (0 - MAX_CLOCK_SKEW)..MAX_CLOCK_SKEW, last : {0}, on : {FALSE}, count : {0}]
          \subseteq [offset : Int, last : Nat, on : BOOLEAN, count : 0..MaxRequests]
    <3>. SUFFICES ASSUME NEW c \in [offset : (0 - MAX_CLOCK_SKEW)..MAX_CLOCK_SKEW,
                                    last : {0}, on : {FALSE}, count : {0}]
                  PROVE  c \in [offset : Int, last : Nat, on : BOOLEAN, count : 0..MaxRequests]
      OBVIOUS
    <3>1. /\ c = [offset |-> c.offset, last |-> c.last, on |-> c.on, count |-> c.count]
          /\ c.last = 0 /\ c.count = 0
      OBVIOUS
    <3>2. c.on \in BOOLEAN OBVIOUS
    <3>3. c.offset \in Int BY Limits
    <3>4. c.last \in Nat /\ c.count \in 0..MaxRequests BY <3>1, Limits
    <3>. QED BY <3>1, <3>2, <3>3, <3>4
  <2>. QED BY <2>1 DEF Init
<1>3. Running <= MaxHandlers BY <1>1, Limits DEF Init, Running
<1>4. TypeOK
  <2>1. now \in Nat \ {0} /\ revokedAs \in [Keys -> Nat] BY DEF Init
  <2>2. gcPicked \in BOOLEAN /\ overlapped \in BOOLEAN /\ late \in BOOLEAN BY DEF Init
  <2>3. net = {} /\ handlers = {} /\ entry = NoEntry BY DEF Init
  <2>. QED BY <1>2, <1>3, <2>1, <2>2, <2>3 DEF TypeOK
<1>. QED BY <1>1, <1>4 DEF Init, IInv, Alone, Accepted, Heard, Expiry, ReadHolds,
                           PickHolds, SealedByOwner, Guarded, Covers

-----------------------------------------------------------------------------
\* A request is stamped and sent.
LEMMA SendsKeeps ==
    ASSUME IInv, NEW k \in Keys, NEW kind \in {"publish", "touch", "revoke"},
           NEW on \in BOOLEAN, Sends(k, kind, on)
    PROVE  IInv'
<1>. USE DEF IInv
<1>1. UNCHANGED << now, handlers, gcPicked, entry, revokedAs, overlapped, late >>
  BY DEF Sends, history
<1>2. net \subseteq net' BY DEF Sends
<1>3. TypeOK'
  <2>1. clients[k] \in [offset : Int, last : Nat, on : BOOLEAN, count : 0..MaxRequests]
    BY DEF TypeOK
  <2>2. nextIssuedAt(k) \in Nat \ {0}
    BY <2>1 DEF nextIssuedAt, Larger, TypeOK
  <2>3. net' \subseteq Requests BY <2>2 DEF Sends, TypeOK, Requests
  <2>4. clients' \in [Keys -> [offset : Int, last : Nat, on : BOOLEAN, count : 0..MaxRequests]]
    BY <2>1, <2>2, Limits DEF Sends, TypeOK
  <2>. QED BY <1>1, <2>3, <2>4 DEF TypeOK, Running
<1>4. (IsFiniteSet(handlers) /\ Alone /\ Expiry /\ ReadHolds /\ PickHolds /\ SealedByOwner)'
  BY <1>1 DEF Alone, Expiry, ReadHolds, PickHolds, SealedByOwner, Stale
<1>5. (Accepted /\ Heard)' BY <1>1, <1>2 DEF Accepted, Heard
<1>6. Guarded' BY <1>1 DEF Guarded, Covers
<1>. QED BY <1>3, <1>4, <1>5, <1>6

\* A request arrives; a lone one is not older than a revoke that was forgotten.
LEMMA ArrivesKeeps ==
    ASSUME IInv, NEW m \in net, Arrives(m)
    PROVE  IInv'
<1>. USE DEF IInv
<1>0. m \in Requests BY DEF TypeOK
<1>h. PICK h \in Handlers :
        /\ h.kind = m.kind /\ h.key = m.key /\ h.issued = m.issued
        /\ h.at = now /\ ~h.read
        /\ handlers' = handlers \cup {h}
  <2>1. Handler(m, now, FALSE) \in Handlers
    BY <1>0 DEF Handler, Handlers, Requests, TypeOK
  <2>. QED BY <2>1 DEF Handler, Arrives
<1>1. /\ UNCHANGED << now, clients, net, gcPicked, entry, revokedAs, late >>
      /\ handlers' = handlers \cup {h}
  BY <1>h DEF Arrives
<1>a. m.issued - now <= MAX_CLOCK_SKEW /\ now - m.issued <= MAX_CLOCK_SKEW
  BY DEF Arrives, assertIssuedAt
<1>b. /\ overlapped' = (overlapped \/ Running > 0)
      /\ overlapped' \in BOOLEAN
  BY DEF Arrives, TypeOK
<1>2. h.key \in Keys /\ h.issued \in Nat \ {0} /\ m.issued \in Nat \ {0} /\ now \in Nat
  BY <1>0 DEF Requests, Handlers, TypeOK
<1>3. IsFiniteSet(handlers') BY <1>1, FS_AddElement
<1>4. Running' <= MaxHandlers
  <2>1. Cardinality(handlers') =
          IF h \in handlers THEN Cardinality(handlers) ELSE Cardinality(handlers) + 1
    BY <1>1, FS_AddElement
  <2>2. Running < MaxHandlers BY DEF Arrives
  <2>3. Cardinality(handlers) \in Nat /\ Cardinality(handlers') \in Nat
    BY <1>3, FS_CardinalityType
  <2>4. gcPicked' = gcPicked BY <1>1
  <2>. QED BY <2>1, <2>2, <2>3, <2>4, Limits DEF Running
<1>5. TypeOK' BY <1>1, <1>b, <1>4 DEF TypeOK
<1>6. ~overlapped' => ~overlapped /\ handlers = {} /\ ~gcPicked
  BY <1>b, NothingRuns DEF TypeOK
<1>7. Alone' BY <1>1, <1>6 DEF Alone
<1>8. Accepted'
  <2>1. [kind |-> h.kind, key |-> h.key, issued |-> h.issued] = m
    BY <1>0, <1>h DEF Requests
  <2>2. /\ h.at <= now /\ h.issued <= h.at + MAX_CLOCK_SKEW
        /\ h.at <= h.issued + MAX_CLOCK_SKEW
    BY <1>a, <1>h, <1>2, Limits
  <2>. QED BY <1>1, <2>1, <2>2 DEF Accepted
<1>9. (Heard /\ Expiry /\ SealedByOwner)'
  BY <1>1, <1>6 DEF Heard, Expiry, SealedByOwner
<1>10. ReadHolds' /\ PickHolds' BY <1>h, <1>1, <1>6 DEF ReadHolds, PickHolds, Stale
<1>11. Guarded'
  <2>. SUFFICES ASSUME ~overlapped, handlers = {}, ~late,
                       ~Covers(h.key)
                PROVE  h.issued > revokedAs[h.key]
    BY <1>1, <1>6 DEF Guarded, Covers
  <2>1. revokedAs[h.key] = 0 \/ revokedAs[h.key] + MAX_CLOCK_SKEW < now
    BY <1>2 DEF Guarded
  <2>2. revokedAs[h.key] \in Nat BY <1>2 DEF TypeOK
  <2>3. now <= h.issued + MAX_CLOCK_SKEW BY <1>a, <1>h, <1>2, Limits
  <2>. QED BY <1>2, <2>1, <2>2, <2>3, Limits
<1>. QED BY <1>3, <1>5, <1>7, <1>8, <1>9, <1>10, <1>11

-----------------------------------------------------------------------------
\* A handler ends: nothing of it remains.
LEMMA HandlerEnds ==
    ASSUME IInv, NEW h \in handlers, handlers' = handlers \ {h}, HandlerKeeps
    PROVE  /\ IsFiniteSet(handlers)' /\ Alone' /\ Accepted'
           /\ Running' <= MaxHandlers
           /\ ~overlapped => handlers' = {} /\ handlers = {h}
           /\ UNCHANGED << now, clients, net, gcPicked, overlapped >>
           /\ handlers' \subseteq Handlers
<1>. USE DEF IInv
<1>1. UNCHANGED << now, clients, net, gcPicked, overlapped >> BY DEF HandlerKeeps
<1>2. /\ IsFiniteSet(handlers') /\ Cardinality(handlers') <= Cardinality(handlers)
      /\ Cardinality(handlers') \in Nat /\ Cardinality(handlers) \in Nat
  <2>1. /\ IsFiniteSet(handlers')
        /\ Cardinality(handlers') =
             IF h \in handlers THEN Cardinality(handlers) - 1 ELSE Cardinality(handlers)
    BY FS_RemoveElement
  <2>2. Cardinality(handlers') \in Nat /\ Cardinality(handlers) \in Nat
    BY <2>1, FS_CardinalityType
  <2>. QED BY <2>1, <2>2
<1>3. Running' <= MaxHandlers BY <1>1, <1>2, Limits DEF Running, TypeOK
<1>4. ~overlapped => handlers = {h} BY DEF Alone
<1>5. Alone' BY <1>1, <1>4 DEF Alone
<1>6. Accepted' BY <1>1 DEF Accepted
<1>. QED BY <1>1, <1>2, <1>3, <1>4, <1>5, <1>6 DEF TypeOK

\* The first statement of a publish, and the assertions on what it read.
LEMMA PublishReadsKeeps ==
    ASSUME IInv, NEW h \in handlers, PublishReads(h)
    PROVE  IInv'
<1>. USE DEF IInv
<1>1. UNCHANGED << now, clients, net, gcPicked, overlapped, entry, revokedAs, late >>
  BY DEF PublishReads, HandlerKeeps
<1>2. PICK g \in Handlers :
        /\ g.kind = h.kind /\ g.key = h.key /\ g.issued = h.issued /\ g.at = h.at
        /\ \/ handlers' = handlers \ {h}
           \/ /\ handlers' = (handlers \ {h}) \cup {g}
              /\ assertHandleOwner(h.key) /\ assertNotReplay(h.issued)
  <2>1. Handler(h, h.at, TRUE) \in Handlers BY DEF TypeOK, Handlers, Handler
  <2>. QED BY <2>1 DEF Handler, PublishReads
<1>3. g.kind = h.kind /\ g.key = h.key /\ g.issued = h.issued /\ g.at = h.at
  BY <1>2
<1>4. \/ handlers' = handlers \ {h}
      \/ /\ handlers' = (handlers \ {h}) \cup {g}
         /\ assertHandleOwner(h.key) /\ assertNotReplay(h.issued)
  BY <1>2
<1>5. IsFiniteSet(handlers') /\ Cardinality(handlers') <= Cardinality(handlers)
  <2>1. /\ IsFiniteSet(handlers \ {h})
        /\ Cardinality(handlers \ {h}) =
             IF h \in handlers THEN Cardinality(handlers) - 1 ELSE Cardinality(handlers)
    BY FS_RemoveElement
  <2>2. /\ IsFiniteSet((handlers \ {h}) \cup {g})
        /\ Cardinality((handlers \ {h}) \cup {g}) =
             IF g \in handlers \ {h} THEN Cardinality(handlers \ {h})
                                     ELSE Cardinality(handlers \ {h}) + 1
    BY <2>1, FS_AddElement
  <2>3. Cardinality(handlers) \in Nat BY RunningNat
  <2>4. CASE handlers' = handlers \ {h} BY <2>1, <2>3, <2>4
  <2>5. CASE handlers' = (handlers \ {h}) \cup {g} BY <2>1, <2>2, <2>3, <2>5
  <2>. QED BY <1>4, <2>4, <2>5
<1>6. TypeOK'
  <2>1. Cardinality(handlers) \in Nat /\ Cardinality(handlers') \in Nat
    BY <1>5, FS_CardinalityType
  <2>2. Running' <= MaxHandlers
    BY <1>1, <1>5, <2>1, Limits DEF Running, TypeOK
  <2>. QED BY <1>1, <1>4, <2>2 DEF TypeOK
<1>7. ~overlapped => handlers = {h} /\ ~gcPicked BY DEF Alone
<1>8. Alone' BY <1>1, <1>4, <1>7 DEF Alone
<1>9. Accepted' BY <1>1, <1>3, <1>4 DEF Accepted
<1>10. (Heard /\ Expiry /\ SealedByOwner /\ PickHolds)'
  BY <1>1 DEF Heard, Expiry, SealedByOwner, PickHolds, Stale
<1>11. ReadHolds'
  BY <1>1, <1>3, <1>4, <1>7 DEF ReadHolds, assertHandleOwner, assertNotReplay
<1>12. Guarded' BY <1>1, <1>3, <1>4 DEF Guarded, Covers
<1>. QED BY <1>5, <1>6, <1>8, <1>9, <1>10, <1>11, <1>12

\* The second statement of a publish.
LEMMA PublishWritesKeeps ==
    ASSUME IInv, NEW h \in handlers, PublishWrites(h)
    PROVE  IInv'
<1>. USE DEF IInv
<1>1. HandlerKeeps /\ handlers' = handlers \ {h} /\ revokedAs' = revokedAs /\ late' = late
      /\ entry' = upsertEntry(h) /\ h.kind = "publish" /\ h.read
  BY DEF PublishWrites
<1>2. h \in Handlers BY DEF TypeOK
<1>3. /\ h.key \in Keys /\ h.issued \in Nat \ {0} /\ h.at \in Nat \ {0}
  BY <1>2 DEF Handlers
<1>4. entry' \in Rows /\ entry' # NoEntry
  <2>1. entry # NoEntry => entry.writeKey \in Keys BY DEF TypeOK, Rows
  <2>2. h.at + ENTRY_TTL \in Nat \ {0} BY <1>3, Limits
  <2>3. entry' \in Rows BY <1>1, <1>3, <2>1, <2>2 DEF upsertEntry, Rows
  <2>. QED BY <2>3, Limits
<1>5. /\ entry'.author = h.key /\ entry'.sealed = h.issued /\ entry'.lastIssued = h.issued
      /\ entry'.expires = h.at + ENTRY_TTL /\ entry'.revoked = FALSE
      /\ entry = NoEntry => entry'.writeKey = h.key
      /\ entry # NoEntry => entry'.writeKey = entry.writeKey
  BY <1>1 DEF upsertEntry
<1>6. /\ IsFiniteSet(handlers)' /\ Alone' /\ Accepted'
      /\ Running' <= MaxHandlers
      /\ ~overlapped => handlers' = {} /\ handlers = {h}
      /\ UNCHANGED << now, clients, net, gcPicked, overlapped >>
      /\ handlers' \subseteq Handlers
  BY <1>1, HandlerEnds
<1>7. TypeOK' BY <1>1, <1>4, <1>6 DEF TypeOK
<1>8. h.issued <= h.at + MAX_CLOCK_SKEW /\ h.at <= h.issued + MAX_CLOCK_SKEW
  BY DEF Accepted
<1>9. Heard'
  <2>1. [kind |-> h.kind, key |-> h.key, issued |-> h.issued] \in net BY DEF Accepted
  <2>. QED BY <1>1, <1>3, <1>5, <1>6, <1>8, <2>1, Limits DEF Heard
<1>10. Expiry' BY <1>3, <1>5, <1>8, Limits DEF Expiry
<1>11. ~overlapped => /\ entry'.writeKey = h.key
                      /\ entry = NoEntry \/ (Covers(h.key) /\ h.issued > entry.lastIssued)
  <2>. SUFFICES ASSUME ~overlapped
                PROVE  /\ entry'.writeKey = h.key
                       /\ entry = NoEntry \/ (Covers(h.key) /\ h.issued > entry.lastIssued)
    OBVIOUS
  <2>1. entry = NoEntry \/ (entry.writeKey = h.key /\ h.issued > entry.lastIssued)
    BY <1>1 DEF ReadHolds
  <2>. QED BY <1>5, <2>1 DEF Covers
<1>12. SealedByOwner' BY <1>5, <1>6, <1>11 DEF SealedByOwner
<1>13. ReadHolds' BY <1>6 DEF ReadHolds
<1>14. PickHolds' BY <1>6 DEF PickHolds, Alone
<1>15. Guarded'
  <2>. SUFFICES ASSUME ~overlapped, ~late PROVE Guarded' BY <1>1, <1>6 DEF Guarded
  <2>1. h.issued > revokedAs[h.key]
    <3>1. CASE Covers(h.key)
      <4>1. entry.lastIssued \in Nat BY <3>1 DEF Covers, TypeOK, Rows
      <4>2. revokedAs[h.key] \in Nat BY <1>3 DEF TypeOK
      <4>3. revokedAs[h.key] <= entry.lastIssued BY <3>1 DEF Guarded, Covers
      <4>4. h.issued > entry.lastIssued BY <1>11, <3>1 DEF Covers
      <4>. QED BY <1>3, <4>1, <4>2, <4>3, <4>4
    <3>2. CASE ~Covers(h.key) BY <3>2 DEF Guarded
    <3>. QED BY <3>1, <3>2
  <2>2. \A k \in Keys : ~Covers(k)' => ~Covers(k)
    BY <1>4, <1>5, <1>11 DEF Covers
  <2>3. revokedAs[h.key] \in Nat BY <1>3 DEF TypeOK
  <2>4. revokedAs'[entry'.writeKey] <= entry'.lastIssued
        /\ entry'.sealed > revokedAs'[entry'.writeKey]
    BY <1>1, <1>3, <1>5, <1>11, <2>1, <2>3
  <2>. QED BY <1>1, <1>6, <2>2, <2>4 DEF Guarded
<1>. QED BY <1>6, <1>7, <1>9, <1>10, <1>12, <1>13, <1>14, <1>15

\* The statement of a touch, which finds its row or not.
LEMMA TouchesKeeps ==
    ASSUME IInv, NEW h \in handlers, Touches(h)
    PROVE  IInv'
<1>. USE DEF IInv
<1>1. HandlerKeeps /\ handlers' = handlers \ {h} /\ revokedAs' = revokedAs /\ late' = late
      /\ h.kind = "touch"
  BY DEF Touches
<1>2. h.key \in Keys /\ h.issued \in Nat \ {0} /\ h.at \in Nat \ {0}
  BY DEF TypeOK, Handlers
<1>3. /\ IsFiniteSet(handlers)' /\ Alone' /\ Accepted'
      /\ Running' <= MaxHandlers
      /\ ~overlapped => handlers' = {} /\ handlers = {h}
      /\ UNCHANGED << now, clients, net, gcPicked, overlapped >>
      /\ handlers' \subseteq Handlers
  BY <1>1, HandlerEnds
<1>4. ReadHolds' BY <1>3 DEF ReadHolds
<1>5. PickHolds' BY <1>3 DEF PickHolds, Alone
<1>6. CASE ~touchEntry(h)
  <2>1. entry' = entry BY <1>6 DEF Touches
  <2>. QED BY <1>1, <1>3, <1>4, <1>5, <2>1
           DEF TypeOK, Heard, Expiry, SealedByOwner, Guarded, Covers
<1>7. CASE touchEntry(h)
  <2>1. entry \in Rows /\ entry # NoEntry /\ entry.writeKey = h.key /\ ~entry.revoked
        /\ entry.lastIssued < h.issued
    BY <1>7 DEF touchEntry, TypeOK
  <2>2. entry' = [entry EXCEPT !.expires = h.at + ENTRY_TTL, !.lastIssued = h.issued]
    BY <1>7 DEF Touches
  <2>3. h.at + ENTRY_TTL \in Nat \ {0} BY <1>2, Limits
  <2>4. /\ entry' \in Rows
        /\ entry'.writeKey = entry.writeKey /\ entry'.author = entry.author
        /\ entry'.sealed = entry.sealed /\ entry'.revoked = entry.revoked
        /\ entry'.expires = h.at + ENTRY_TTL /\ entry'.lastIssued = h.issued
    BY <1>2, <2>1, <2>2, <2>3 DEF Rows
  <2>5. entry' # NoEntry BY <2>4, Limits
  <2>6. h.issued <= h.at + MAX_CLOCK_SKEW /\ h.at <= h.issued + MAX_CLOCK_SKEW
        /\ [kind |-> h.kind, key |-> h.key, issued |-> h.issued] \in net
    BY DEF Accepted
  <2>7. TypeOK' BY <1>1, <1>3, <2>4 DEF TypeOK
  <2>8. Heard' BY <1>1, <1>2, <1>3, <2>1, <2>4, <2>6, Limits DEF Heard
  <2>9. Expiry' BY <1>2, <2>4, <2>6, Limits DEF Expiry
  <2>10. SealedByOwner' BY <1>3, <2>1, <2>4 DEF SealedByOwner
  <2>11. Guarded'
    <3>1. revokedAs[entry.writeKey] \in Nat /\ entry.lastIssued \in Nat
      BY <1>2, <2>1 DEF TypeOK, Rows
    <3>2. \A k \in Keys : Covers(k)' <=> Covers(k) BY <2>1, <2>4, <2>5 DEF Covers
    <3>3. ~overlapped /\ ~late => revokedAs[entry.writeKey] <= h.issued
      BY <1>2, <2>1, <3>1 DEF Guarded
    <3>. QED BY <1>1, <1>3, <2>1, <2>4, <3>2, <3>3 DEF Guarded
  <2>. QED BY <1>3, <1>4, <1>5, <2>7, <2>8, <2>9, <2>10, <2>11
<1>. QED BY <1>6, <1>7

\* The statement of a revoke, which finds its row or not.
LEMMA RevokesKeeps ==
    ASSUME IInv, NEW h \in handlers, Revokes(h)
    PROVE  IInv'
<1>. USE DEF IInv
<1>1. HandlerKeeps /\ handlers' = handlers \ {h} /\ h.kind = "revoke"
  BY DEF Revokes
<1>2. h.key \in Keys /\ h.issued \in Nat \ {0} /\ h.at \in Nat \ {0}
  BY DEF TypeOK, Handlers
<1>3. /\ IsFiniteSet(handlers)' /\ Alone' /\ Accepted'
      /\ Running' <= MaxHandlers
      /\ ~overlapped => handlers' = {} /\ handlers = {h}
      /\ UNCHANGED << now, clients, net, gcPicked, overlapped >>
      /\ handlers' \subseteq Handlers
  BY <1>1, HandlerEnds
<1>4. ReadHolds' BY <1>3 DEF ReadHolds
<1>5. PickHolds' BY <1>3 DEF PickHolds, Alone
<1>6. CASE ~revokeEntry(h)
  <2>1. entry' = entry /\ revokedAs' = revokedAs BY <1>6 DEF Revokes
  <2>2. late' = late BY <1>6 DEF Revokes, TypeOK
  <2>. QED BY <1>3, <1>4, <1>5, <2>1, <2>2
           DEF TypeOK, Heard, Expiry, SealedByOwner, Guarded, Covers
<1>7. CASE revokeEntry(h)
  <2>1. entry \in Rows /\ entry # NoEntry /\ entry.writeKey = h.key
    BY <1>7 DEF revokeEntry, TypeOK
  <2>2. entry' = [entry EXCEPT !.revoked = TRUE, !.expires = h.at, !.lastIssued = h.issued]
    BY <1>7 DEF Revokes
  <2>3. /\ entry' \in Rows
        /\ entry'.writeKey = entry.writeKey /\ entry'.author = entry.author
        /\ entry'.sealed = entry.sealed /\ entry'.revoked = TRUE
        /\ entry'.expires = h.at /\ entry'.lastIssued = h.issued
    BY <1>2, <2>1, <2>2 DEF Rows
  <2>4. entry' # NoEntry BY <2>3, Limits
  <2>5. revokedAs[h.key] \in Nat /\ entry.lastIssued \in Nat
    BY <1>2, <2>1 DEF TypeOK, Rows
  <2>6. revokedAs' = [revokedAs EXCEPT ![h.key] = Larger(@, h.issued)]
    BY <1>7 DEF Revokes
  <2>7. revokedAs' \in [Keys -> Nat]
    BY <1>2, <2>5, <2>6 DEF TypeOK, Larger
  <2>8. late' \in BOOLEAN /\ (~late' => ~late /\ h.issued > entry.lastIssued)
    <3>1. late' = (late \/ (revokeEntry(h) /\ h.issued <= entry.lastIssued))
      BY DEF Revokes
    <3>2. late' \in BOOLEAN /\ (~late' => ~late /\ ~(h.issued <= entry.lastIssued))
      BY <3>1, <1>7, Zenon DEF TypeOK
    <3>. QED BY <1>2, <2>5, <3>2
  <2>9. TypeOK' BY <1>3, <2>3, <2>7, <2>8 DEF TypeOK
  <2>10. Heard' BY <2>3 DEF Heard
  <2>11. h.issued <= h.at + MAX_CLOCK_SKEW BY DEF Accepted
  <2>12. Expiry' BY <2>3, <2>11 DEF Expiry
  <2>13. SealedByOwner' BY <1>3, <2>1, <2>3 DEF SealedByOwner
  <2>14. Guarded'
    <3>. SUFFICES ASSUME ~overlapped, ~late, h.issued > entry.lastIssued PROVE Guarded'
      BY <1>3, <2>8 DEF Guarded
    <3>1. revokedAs[h.key] <= entry.lastIssued BY <2>1 DEF Guarded
    <3>2. revokedAs'[h.key] = h.issued
      BY <1>2, <2>5, <2>6, <3>1 DEF TypeOK, Larger
    <3>3. \A k \in Keys : ~Covers(k)' => ~Covers(k) /\ revokedAs'[k] = revokedAs[k]
      BY <2>1, <2>3, <2>4, <2>6 DEF Covers, TypeOK
    <3>. QED BY <1>2, <1>3, <2>1, <2>3, <3>2, <3>3 DEF Guarded
  <2>. QED BY <1>3, <1>4, <1>5, <2>9, <2>10, <2>12, <2>13, <2>14
<1>. QED BY <1>6, <1>7

-----------------------------------------------------------------------------
\* The collector selects a stale row.
LEMMA GcSelectsKeeps == ASSUME IInv, GcSelects PROVE IInv'
<1>. USE DEF IInv
<1>1. UNCHANGED << now, clients, net, handlers, entry, revokedAs, late >>
  BY DEF GcSelects
<1>2. /\ gcPicked' = TRUE /\ ~gcPicked /\ Stale /\ Running < MaxHandlers
      /\ overlapped' \in BOOLEAN /\ (~overlapped' => ~overlapped /\ ~(Running > 0))
  BY DEF GcSelects, TypeOK
<1>3. ~overlapped' => handlers = {} BY <1>2, NothingRuns DEF TypeOK
<1>4. Running' <= MaxHandlers
  <2>1. Cardinality(handlers) \in Nat BY RunningNat
  <2>. QED BY <1>1, <1>2, <2>1, Limits DEF Running
<1>5. TypeOK' BY <1>1, <1>2, <1>4 DEF TypeOK
<1>6. (Alone /\ Accepted /\ Heard /\ Expiry)'
  BY <1>1, <1>3 DEF Alone, Accepted, Heard, Expiry
<1>7. (ReadHolds /\ PickHolds /\ SealedByOwner)'
  BY <1>1, <1>2, <1>3 DEF ReadHolds, PickHolds, SealedByOwner, Stale
<1>8. Guarded' BY <1>1, <1>2 DEF Guarded, Covers
<1>. QED BY <1>1, <1>5, <1>6, <1>7, <1>8

\* The collector deletes it: what it guarded against is outside the clock skew.
LEMMA GcDeletesKeeps == ASSUME IInv, GcDeletes PROVE IInv'
<1>. USE DEF IInv
<1>1. UNCHANGED << now, clients, net, handlers, revokedAs, overlapped, late >>
  BY DEF GcDeletes, history
<1>2. gcPicked /\ gcPicked' = FALSE /\ entry' = NoEntry BY DEF GcDeletes
<1>3. Running' <= MaxHandlers
  <2>1. Cardinality(handlers) \in Nat BY RunningNat
  <2>. QED BY <1>1, <1>2, <2>1, Limits DEF Running, TypeOK
<1>4. TypeOK' BY <1>1, <1>2, <1>3 DEF TypeOK
<1>5. ~overlapped => handlers = {} BY <1>2 DEF Alone
<1>6. (Alone /\ Accepted /\ Heard /\ Expiry /\ ReadHolds /\ PickHolds /\ SealedByOwner)'
  BY <1>1, <1>2, <1>5 DEF Alone, Accepted, Heard, Expiry, ReadHolds, PickHolds, SealedByOwner
<1>7. Guarded'
  <2>. SUFFICES ASSUME ~overlapped, ~late, NEW k \in Keys, Covers(k)
                PROVE  revokedAs[k] + MAX_CLOCK_SKEW < now
    BY <1>1, <1>2, <1>5 DEF Guarded, Covers
  <2>1. entry \in Rows /\ entry # NoEntry /\ entry.writeKey = k
    BY DEF Covers, TypeOK
  <2>2. entry.expires \in Nat /\ entry.lastIssued \in Nat /\ revokedAs[k] \in Nat /\ now \in Nat
    BY <2>1 DEF Rows, TypeOK
  <2>3. revokedAs[k] <= entry.lastIssued BY <2>1 DEF Guarded
  <2>4. entry.lastIssued <= entry.expires + MAX_CLOCK_SKEW BY <2>1 DEF Expiry
  <2>5. entry.expires < now - TOMBSTONE_TTL BY <1>2, <2>1 DEF PickHolds, Stale
  <2>. QED BY <2>2, <2>3, <2>4, <2>5, Limits
<1>. QED BY <1>1, <1>4, <1>6, <1>7

LEMMA TickKeeps == ASSUME IInv, Tick PROVE IInv'
<1>. USE DEF IInv
<1>1. UNCHANGED << clients, net, handlers, gcPicked, entry, revokedAs, overlapped, late >>
      /\ now' = now + 1
  BY DEF Tick, history
<1>2. now \in Nat /\ now' \in Nat \ {0} BY <1>1 DEF TypeOK
<1>3. TypeOK' BY <1>1, <1>2 DEF TypeOK, Running
<1>4. Accepted'
  <2>1. \A h \in handlers : h.at \in Nat BY DEF TypeOK, Handlers
  <2>2. ASSUME NEW h \in handlers PROVE h.at <= now'
    <3>1. h.at \in Nat /\ h.at <= now BY <2>1 DEF Accepted
    <3>2. now' = now + 1 BY <1>1
    <3>. QED BY <1>2, <3>1, <3>2
  <2>. QED BY <1>1, <2>2 DEF Accepted
<1>5. PickHolds'
  <2>1. entry # NoEntry => entry.expires \in Nat BY DEF TypeOK, Rows
  <2>. QED BY <1>1, <1>2, <2>1, Limits DEF PickHolds, Stale
<1>6. Guarded'
  <2>1. \A k \in Keys : revokedAs[k] \in Nat BY DEF TypeOK
  <2>. QED BY <1>1, <1>2, <2>1, Limits DEF Guarded, Covers
<1>7. (IsFiniteSet(handlers) /\ Alone /\ Heard /\ Expiry /\ ReadHolds /\ SealedByOwner)'
  BY <1>1 DEF Alone, Heard, Expiry, ReadHolds, SealedByOwner
<1>. QED BY <1>3, <1>4, <1>5, <1>6, <1>7

LEMMA StutterKeeps == ASSUME IInv, UNCHANGED vars PROVE IInv'
<1>. USE DEF IInv, vars, history
<1>1. TypeOK' BY DEF TypeOK, Running
<1>2. (IsFiniteSet(handlers) /\ Alone /\ Accepted /\ Heard /\ Expiry)'
  BY DEF Alone, Accepted, Heard, Expiry
<1>3. (ReadHolds /\ PickHolds /\ SealedByOwner /\ Guarded)'
  BY DEF ReadHolds, PickHolds, Stale, SealedByOwner, Guarded, Covers
<1>. QED BY <1>1, <1>2, <1>3

LEMMA NextKeeps == IInv /\ [Next]_vars => IInv'
<1>. SUFFICES ASSUME IInv, [Next]_vars PROVE IInv' OBVIOUS
<1>1. CASE \E k \in Keys : Register(k) \/ Heartbeat(k) \/ Unregister(k)
  <2>. PICK k \in Keys : Register(k) \/ Heartbeat(k) \/ Unregister(k) BY <1>1
  <2>1. clients[k].on \in BOOLEAN BY DEF IInv, TypeOK
  <2>2. \E kind \in {"publish", "touch", "revoke"}, on \in BOOLEAN : Sends(k, kind, on)
    <3>1. CASE Register(k) BY <3>1, <2>1 DEF Register
    <3>2. CASE Heartbeat(k) BY <3>2 DEF Heartbeat
    <3>3. CASE Unregister(k) BY <3>3 DEF Unregister
    <3>. QED BY <3>1, <3>2, <3>3
  <2>. QED BY <2>2, SendsKeeps
<1>2. CASE \E m \in net : Arrives(m) BY <1>2, ArrivesKeeps
<1>3. CASE \E h \in handlers : PublishReads(h) \/ PublishWrites(h) \/ Touches(h) \/ Revokes(h)
  BY <1>3, PublishReadsKeeps, PublishWritesKeeps, TouchesKeeps, RevokesKeeps
<1>4. CASE GcSelects \/ GcDeletes \/ Tick
  BY <1>4, GcSelectsKeeps, GcDeletesKeeps, TickKeeps
<1>5. CASE UNCHANGED vars BY <1>5, StutterKeeps
<1>. QED BY <1>1, <1>2, <1>3, <1>4, <1>5 DEF Next

-----------------------------------------------------------------------------
\* The inductive invariant of the directory entry and its handlers.
THEOREM DirectoryInv == Spec => []IInv
<1>. QED BY InitIInv, NextKeeps, PTL DEF Spec

\* The clock, the requests, the handlers and the row keep their types.
THEOREM DirectoryTypeCorrect == Spec => []TypeOK
<1>1. IInv => TypeOK BY DEF IInv
<1>. QED BY <1>1, DirectoryInv, PTL

\* A row that is listed as online is backed by a recent signed request,
\* however requests are delayed, repeated and interleaved (lookupEntry).
THEOREM ListingsFresh == Spec => []FreshListing
<1>1. IInv => FreshListing
  <2>. SUFFICES ASSUME IInv, Online PROVE FreshListing BY DEF FreshListing
  <2>1. PICK m \in net : /\ m.kind \in {"publish", "touch"}
                         /\ m.key \in {entry.writeKey, entry.author}
                         /\ m.issued = entry.lastIssued
                         /\ entry.expires <= m.issued + ENTRY_TTL + MAX_CLOCK_SKEW
    BY DEF IInv, Heard, Online
  <2>2. m.issued \in Nat /\ entry.expires \in Nat /\ now \in Nat /\ entry.expires > now
    BY DEF IInv, TypeOK, Requests, Rows, Online
  <2>3. m.issued > now - ENTRY_TTL - MAX_CLOCK_SKEW BY <2>1, <2>2, Limits
  <2>. QED BY <2>1, <2>3 DEF FreshListing
<1>. QED BY <1>1, DirectoryInv, PTL

\* The blob of a row is its owner's, as long as handlers have not overlapped
\* (assertHandleOwner).
THEOREM BlobsByOwner == Spec => []SealedByOwner
<1>1. IInv => SealedByOwner BY DEF IInv
<1>. QED BY <1>1, DirectoryInv, PTL

\* No older publish undoes a revoke, not even one that has been collected, as
\* long as handlers have not overlapped and revokes are not late (revokeEntry,
\* garbageCollectEntries).
THEOREM RevokesHold == Spec => []NoResurrection
<1>1. IInv => NoResurrection
  BY DEF IInv, NoResurrection, Guarded, SealedByOwner, Online
<1>. QED BY <1>1, DirectoryInv, PTL

\* A row never changes hands, however handlers overlap (upsertEntry).
THEOREM HandlesKeepKeys == Spec => HandleKeyStable
<1>1. [Next]_vars =>
        [entry # NoEntry /\ entry' # NoEntry => entry'.writeKey = entry.writeKey]_vars
  <2>. SUFFICES ASSUME [Next]_vars, entry # NoEntry, entry' # NoEntry
                PROVE  entry'.writeKey = entry.writeKey
    OBVIOUS
  <2>1. CASE \E h \in handlers : PublishWrites(h)
    BY <2>1 DEF PublishWrites, upsertEntry
  <2>2. CASE \E h \in handlers : Touches(h)
    BY <2>2 DEF Touches
  <2>3. CASE \E h \in handlers : Revokes(h)
    BY <2>3 DEF Revokes
  <2>4. CASE entry' = entry
    BY <2>4
  <2>5. (\E h \in handlers : PublishWrites(h) \/ Touches(h) \/ Revokes(h)) \/ entry' = entry
    BY DEF Next, vars, Register, Heartbeat, Unregister, Sends, Arrives, PublishReads,
           GcSelects, GcDeletes, Tick
  <2>. QED BY <2>1, <2>2, <2>3, <2>4, <2>5
<1>. QED BY <1>1, PTL DEF Spec, HandleKeyStable
=============================================================================
