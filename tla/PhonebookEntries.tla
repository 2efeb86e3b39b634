-------------------------- MODULE PhonebookEntries --------------------------
(***************************************************************************)
(* The blinded (v2) directory of the phonebook worker: one handle, the     *)
(* clients that write to it, and the handlers of workers/phonebook/src.    *)
(*                                                                         *)
(* Each await of a handler is a place where another handler of the worker  *)
(* may run, so a handler arrives (it takes Date.now() and authenticates),  *)
(* and then executes its D1 statements one step at a time.  D1 runs each   *)
(* statement atomically.  A signed request may be delayed, lost, delivered *)
(* twice or out of order: it stays in `net' once it is sent.  A request    *)
(* refused by the rate limiter is one that is not delivered.               *)
(***************************************************************************)
EXTENDS Integers, FiniteSets

CONSTANTS Keys,             \* write keys; a client holds one
          NoEntry,          \* no row for the handle
          ENTRY_TTL,        \* ENTRY_TTL_SECONDS, in ticks
          TOMBSTONE_TTL,    \* TOMBSTONE_TTL_SECONDS
          MAX_CLOCK_SKEW,   \* MAX_CLOCK_SKEW_MS
          MaxHandlers,      \* handlers and collections that run at a time
          Horizon,          \* bound on the clock
          MaxRequests       \* bound on the requests of a client

Requests == [kind : {"publish", "touch", "revoke"}, key : Keys, issued : Nat \ {0}]

\* A request that has arrived: the worker's clock then, and whether its first
\* statement has been executed.
Handlers == [kind : {"publish", "touch", "revoke"}, key : Keys, issued : Nat \ {0},
             at : Nat \ {0}, read : BOOLEAN]

\* A row of entries, with the key that sealed its blob and when.
Rows == [writeKey : Keys, author : Keys, sealed : Nat \ {0}, expires : Nat \ {0},
         lastIssued : Nat \ {0}, revoked : BOOLEAN]

\* A signed request is accepted during 2 * MAX_CLOCK_SKEW at most.
ASSUME DirectoryAssumption ==
    /\ ENTRY_TTL \in Nat /\ TOMBSTONE_TTL \in Nat /\ MAX_CLOCK_SKEW \in Nat
    /\ MaxHandlers \in Nat \ {0} /\ Horizon \in Nat /\ MaxRequests \in Nat
    /\ TOMBSTONE_TTL >= 2 * MAX_CLOCK_SKEW
    /\ NoEntry \notin Rows

VARIABLES now,       \* Date.now() of the worker
          clients,   \* per key: clock offset, lastIssuedAt, on, requests sent
          net,       \* the signed requests sent so far
          handlers,  \* the handlers that have arrived and not ended
          gcPicked,  \* garbageCollectEntries has selected the handle
          entry,     \* the row of the handle
          revokedAs, \* per key, the newest issued_at of a revoke that applied (history)
          overlapped,\* two handlers have run at a time (history)
          late       \* a revoke applied to a row that had heard of a newer request (history)

history == << revokedAs, overlapped, late >>
vars == << now, clients, net, handlers, gcPicked, entry, history >>

Larger(a, b) == IF a >= b THEN a ELSE b

(***************************************************************************)
(* The client (internal/phonebook): Register, Heartbeat, Unregister.       *)
(***************************************************************************)

\* nextIssuedAt: the client's clock, but strictly increasing.
nextIssuedAt(k) ==
    LET c == clients[k]
    IN  Larger(now + c.offset, c.last + 1)

\* do: the request is stamped, signed and sent; on' says if KeepAlive runs.
Sends(k, kind, on) ==
    /\ clients[k].count < MaxRequests
    /\ LET issued == nextIssuedAt(k)
       IN  /\ net' = net \cup {[kind |-> kind, key |-> k, issued |-> issued]}
           /\ clients' = [clients EXCEPT ![k].last = issued, ![k].on = on,
                                         ![k].count = @ + 1]
    /\ UNCHANGED << now, handlers, gcPicked, entry, history >>

\* Register, at the start (which may seem to fail) or as renew of KeepAlive.
Register(k) == \E on \in {TRUE, clients[k].on} : Sends(k, "publish", on)

Heartbeat(k) == clients[k].on /\ Sends(k, "touch", TRUE)

Unregister(k) == clients[k].on /\ Sends(k, "revoke", FALSE)

(***************************************************************************)
(* The worker.                                                             *)
(***************************************************************************)

Running == Cardinality(handlers) + (IF gcPicked THEN 1 ELSE 0)

\* Mutant: requests from the past are not refused.
assertIssuedAtFuture(issued) == issued - now <= MAX_CLOCK_SKEW

assertIssuedAt(issued) ==
    /\ issued - now <= MAX_CLOCK_SKEW
    /\ now - issued <= MAX_CLOCK_SKEW

\* Mutant: the owner of a handle is not compared.
assertHandleOwnerAny(k) == TRUE

assertHandleOwner(k) == entry = NoEntry \/ entry.writeKey = k

\* Mutant: a request's time is not compared with the last one's.
assertNotReplayAny(issued) == TRUE

assertNotReplay(issued) == entry = NoEntry \/ issued > entry.lastIssued

Online == entry # NoEntry /\ ~entry.revoked /\ entry.expires > now

Handler(m, at, read) ==
    [kind |-> m.kind, key |-> m.key, issued |-> m.issued, at |-> at, read |-> read]

\* authenticateV2 accepts a request; `at' is the handler's own now.
Arrives(m) ==
    /\ m \in net /\ Running < MaxHandlers
    /\ assertIssuedAt(m.issued)
    /\ handlers' = handlers \cup {Handler(m, now, FALSE)}
    /\ overlapped' = (overlapped \/ Running > 0)
    /\ UNCHANGED << now, clients, net, gcPicked, entry, revokedAs, late >>

\* What every handler leaves alone.
HandlerKeeps == UNCHANGED << now, clients, net, gcPicked, overlapped >>

\* getEntryAuthState and the two assertions on what it read.
PublishReads(h) ==
    /\ h \in handlers /\ h.kind = "publish" /\ ~h.read
    /\ handlers' = (handlers \ {h}) \cup
         (IF assertHandleOwner(h.key) /\ assertNotReplay(h.issued)
            THEN {Handler(h, h.at, TRUE)} ELSE {})
    /\ UNCHANGED << entry, revokedAs, late >>
    /\ HandlerKeeps

\* Mutant: a conflicting insert takes the handle over.
upsertEntryTakesOver(h) ==
    [writeKey |-> h.key, author |-> h.key, sealed |-> h.issued,
     expires |-> h.at + ENTRY_TTL, lastIssued |-> h.issued, revoked |-> FALSE]

\* The row after the INSERT ... ON CONFLICT: a row that exists keeps its key.
upsertEntry(h) ==
    [writeKey |-> IF entry = NoEntry THEN h.key ELSE entry.writeKey,
     author |-> h.key, sealed |-> h.issued,
     expires |-> h.at + ENTRY_TTL, lastIssued |-> h.issued, revoked |-> FALSE]

PublishWrites(h) ==
    /\ h \in handlers /\ h.kind = "publish" /\ h.read
    /\ entry' = upsertEntry(h)
    /\ handlers' = handlers \ {h}
    /\ UNCHANGED << revokedAs, late >>
    /\ HandlerKeeps

\* The UPDATE of touchEntry: its WHERE clause is the whole authorisation.
touchEntry(h) ==
    /\ entry # NoEntry /\ entry.writeKey = h.key
    /\ ~entry.revoked /\ entry.lastIssued < h.issued

Touches(h) ==
    /\ h \in handlers /\ h.kind = "touch"
    /\ entry' = IF touchEntry(h)
                  THEN [entry EXCEPT !.expires = h.at + ENTRY_TTL, !.lastIssued = h.issued]
                  ELSE entry
    /\ handlers' = handlers \ {h}
    /\ UNCHANGED << revokedAs, late >>
    /\ HandlerKeeps

\* The UPDATE of revokeEntry matches the handle and the key only.
revokeEntry(h) == entry # NoEntry /\ entry.writeKey = h.key

Revokes(h) ==
    /\ h \in handlers /\ h.kind = "revoke"
    /\ entry' = IF revokeEntry(h)
                  THEN [entry EXCEPT !.revoked = TRUE, !.expires = h.at,
                                     !.lastIssued = h.issued]
                  ELSE entry
    /\ revokedAs' = IF revokeEntry(h)
                      THEN [revokedAs EXCEPT ![h.key] = Larger(@, h.issued)]
                      ELSE revokedAs
    /\ late' = (late \/ (revokeEntry(h) /\ h.issued <= entry.lastIssued))
    /\ handlers' = handlers \ {h}
    /\ HandlerKeeps

(***************************************************************************)
(* garbageCollectEntries, from cron or after a publish: a SELECT, then a   *)
(* DELETE of what it selected.                                             *)
(***************************************************************************)

Stale == entry.expires < now - TOMBSTONE_TTL

GcSelects ==
    /\ ~gcPicked /\ Running < MaxHandlers
    /\ entry # NoEntry /\ Stale
    /\ gcPicked' = TRUE /\ overlapped' = (overlapped \/ Running > 0)
    /\ UNCHANGED << now, clients, net, handlers, entry, revokedAs, late >>

GcDeletes ==
    /\ gcPicked /\ gcPicked' = FALSE
    /\ entry' = NoEntry
    /\ UNCHANGED << now, clients, net, handlers, history >>

Tick ==
    /\ now < Horizon /\ now' = now + 1
    /\ UNCHANGED << clients, net, handlers, gcPicked, entry, history >>

Init ==
    /\ now = 1
    /\ clients \in [Keys -> [offset : (0 - MAX_CLOCK_SKEW)..MAX_CLOCK_SKEW, last : {0},
                             on : {FALSE}, count : {0}]]
    /\ net = {} /\ handlers = {} /\ gcPicked = FALSE
    /\ entry = NoEntry
    /\ revokedAs = [k \in Keys |-> 0] /\ overlapped = FALSE /\ late = FALSE

Next ==
    \/ \E k \in Keys : Register(k) \/ Heartbeat(k) \/ Unregister(k)
    \/ \E m \in net : Arrives(m)
    \/ \E h \in handlers : PublishReads(h) \/ PublishWrites(h) \/ Touches(h) \/ Revokes(h)
    \/ GcSelects \/ GcDeletes \/ Tick

Spec == Init /\ [][Next]_vars

-----------------------------------------------------------------------------
TypeOK ==
    /\ now \in Nat \ {0} /\ gcPicked \in BOOLEAN
    /\ overlapped \in BOOLEAN /\ late \in BOOLEAN
    /\ clients \in [Keys -> [offset : Int, last : Nat, on : BOOLEAN, count : 0..MaxRequests]]
    /\ net \subseteq Requests
    /\ handlers \subseteq Handlers /\ Running <= MaxHandlers
    /\ entry \in Rows \cup {NoEntry}
    /\ revokedAs \in [Keys -> Nat]

\* A lookup never answers "online" for a host that has not been heard of: behind
\* every live row is a publish or touch, signed within the last ENTRY_TTL ticks,
\* up to the clock skew, by the row's owner or the author of its blob, and it is
\* the request whose time the row carries, however requests are delayed,
\* repeated and interleaved (assertIssuedAt, upsertEntry, touchEntry,
\* lookupEntry).
FreshListing ==
    Online => \E m \in net : /\ m.kind \in {"publish", "touch"}
                             /\ m.key \in {entry.writeKey, entry.author}
                             /\ m.issued = entry.lastIssued
                             /\ m.issued > now - ENTRY_TTL - MAX_CLOCK_SKEW

\* "only that key may update it afterwards": a row never changes hands
\* (assertHandleOwner, the ON CONFLICT clause of upsertEntry).
HandleKeyStable ==
    [][entry # NoEntry /\ entry' # NoEntry => entry'.writeKey = entry.writeKey]_vars

\* As long as handlers have not overlapped, the sealed blob of a row was written
\* by the key that owns it: the blob a guest opens is the owner's
\* (getEntryAuthState, assertHandleOwner, upsertEntry).
SealedByOwner == ~overlapped /\ entry # NoEntry => entry.author = entry.writeKey

\* "an older signed publish cannot resurrect it" (revokeEntry): as long as
\* handlers have not overlapped and no revoke came after a newer request, a live
\* row was published after every revoke its owner got through, the revokes of
\* collected rows included: the tombstone is kept until all that it guards
\* against is outside the clock skew (TOMBSTONE_TTL_SECONDS, MAX_CLOCK_SKEW_MS).
NoResurrection ==
    ~overlapped /\ ~late /\ Online => entry.sealed > revokedAs[entry.author]
=============================================================================
