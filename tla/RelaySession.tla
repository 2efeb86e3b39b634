---------------------------- MODULE RelaySession ----------------------------
(***************************************************************************)
(* The relay's Durable Object, class RelaySession of                       *)
(* workers/relay/src/index.js: one object per host, holding the host's     *)
(* idle socket (standby) and the pairs of sockets it forwards between.     *)
(*                                                                         *)
(* Everything fetch() does after authenticateJoin has been awaited runs    *)
(* without another await, and so does every event handler: each is one     *)
(* step.  A socket is the server end of a WebSocket.  Its life, as far as  *)
(* the object can tell, is                                                 *)
(*                                                                         *)
(*   "none"     no connection (not yet made, or its close event handled);  *)
(*   "open"     both ends use it;                                          *)
(*   "closing"  the object called close(); the close event is to come;     *)
(*   "lost"     the client closed it or the network dropped it; the object *)
(*              has not been told;                                         *)
(*   "errored"  its error event has been handled, its close event not.     *)
(*                                                                         *)
(* A name in Sockets is used again for a later connection once it is       *)
(* "none"; SocketsTracked says that nothing refers to it by then.          *)
(***************************************************************************)
EXTENDS Integers, FiniteSets

CONSTANTS Sockets,
          NoSocket,          \* null
          MAX_PAIRS,
          MAX_FRAME_BYTES,
          MAX_SESSION_BYTES,
          MAX_SESSION_MS,    \* in ticks
          MAX_UNPAIRED_MS,   \* in ticks
          Horizon            \* bound on the clock

ASSUME SocketsAssumption == NoSocket \notin Sockets /\ IsFiniteSet(Sockets)

ASSUME RelayLimitsAssumption ==
    /\ MAX_PAIRS \in Nat /\ MAX_FRAME_BYTES \in Nat /\ MAX_SESSION_BYTES \in Nat
    /\ MAX_SESSION_MS \in Nat /\ MAX_UNPAIRED_MS \in Nat /\ Horizon \in Nat

VARIABLES status,        \* the life of each socket
          standby,       \* this.standby
          partners,      \* this.partners, NoSocket where the map has no entry
          peerIds,       \* the keys of this.peerIds
          bytes,         \* this.bytes
          startedAt,     \* this.startedAt
          now,           \* Date.now()
          expiryTimer,   \* when the expiry timer is due, NoTimer if unarmed
          unpairedTimer, \* when the unpaired timer is due, NoTimer if unarmed
          mate           \* the socket each was paired with (history)

vars == << status, standby, partners, peerIds, bytes, startedAt, now,
           expiryTimer, unpairedTimer, mate >>

NoTimer == -1

Statuses == {"none", "open", "closing", "lost", "errored"}

\* The keys of the partners map.
Paired == {s \in Sockets : partners[s] # NoSocket}

\* partners.size / 2 against the limit, without the division.
AtPairLimit == Cardinality(Paired) >= 2 * MAX_PAIRS

Init ==
    /\ status = [s \in Sockets |-> "none"]
    /\ standby = NoSocket
    /\ partners = [s \in Sockets |-> NoSocket]
    /\ peerIds = {}
    /\ bytes = 0
    /\ startedAt = 0 /\ now = 0
    /\ expiryTimer = NoTimer /\ unpairedTimer = NoTimer
    /\ mate = [s \in Sockets |-> NoSocket]

(***************************************************************************)
(* Pieces the handlers are made of.                                        *)
(***************************************************************************)

\* safeClose on every socket of a set; close() on a socket that is no longer
\* open does nothing.
SafeClosed(S) ==
    [s \in Sockets |-> IF s \in S /\ status[s] = "open" THEN "closing"
                                                        ELSE status[s]]

Max0(x) == IF x > 0 THEN x ELSE 0

armExpiry ==
    expiryTimer' = IF expiryTimer # NoTimer THEN expiryTimer
                   ELSE now + Max0(startedAt + MAX_SESSION_MS - now)

\* closePair(socket): both entries go, the other end is closed.
closePair(s) ==
    LET other == partners[s]
    IN  /\ partners' = [t \in Sockets |->
                          IF t \in {s, other} THEN NoSocket ELSE partners[t]]
        /\ peerIds' = peerIds \ {other}
        /\ status' = SafeClosed({other})

\* shutdown: every socket the object refers to is closed and forgotten.
shutdown ==
    /\ status' = SafeClosed(Paired \cup {standby})
    /\ standby' = NoSocket
    /\ partners' = [s \in Sockets |-> NoSocket]
    /\ peerIds' = {}
    /\ expiryTimer' = NoTimer /\ unpairedTimer' = NoTimer

(***************************************************************************)
(* fetch: a host parks a socket, a guest is paired with the parked one.    *)
(***************************************************************************)

HostJoins(s) ==
    /\ status[s] = "none"
    /\ armExpiry
    /\ status' = [SafeClosed({standby}) EXCEPT ![s] = "open"]
    /\ standby' = s
    /\ peerIds' = peerIds \cup {s}
    /\ unpairedTimer' = now + MAX_UNPAIRED_MS
    /\ UNCHANGED << partners, bytes, startedAt, now, mate >>

\* Mutant: the standby slot is not freed when its socket is promoted.
GuestJoinsKeepsStandby(s) ==
    /\ status[s] = "none" /\ standby # NoSocket /\ ~AtPairLimit
    /\ armExpiry
    /\ status' = [status EXCEPT ![s] = "open"]
    /\ peerIds' = peerIds \cup {s}
    /\ partners' = [partners EXCEPT ![standby] = s, ![s] = standby]
    /\ mate' = [mate EXCEPT ![standby] = s, ![s] = standby]
    /\ unpairedTimer' = NoTimer
    /\ UNCHANGED << standby, bytes, startedAt, now >>

GuestJoins(s) ==
    /\ status[s] = "none"
    /\ standby # NoSocket
    /\ ~AtPairLimit
    /\ armExpiry
    /\ status' = [status EXCEPT ![s] = "open"]
    /\ standby' = NoSocket
    /\ unpairedTimer' = NoTimer
    /\ peerIds' = peerIds \cup {s}
    /\ partners' = [partners EXCEPT ![standby] = s, ![s] = standby]
    /\ mate' = [mate EXCEPT ![standby] = s, ![s] = standby]
    /\ UNCHANGED << bytes, startedAt, now >>

\* no_host and session_busy: an HTTP answer, and no socket.
GuestRefused(s) ==
    /\ status[s] = "none"
    /\ standby = NoSocket \/ AtPairLimit
    /\ UNCHANGED vars

(***************************************************************************)
(* The message handler of wire().  A binary frame of a socket the object   *)
(* has closed may still be delivered.  Text frames are answered on the     *)
(* same socket and change nothing.                                         *)
(***************************************************************************)

Sending(s) == status[s] \in {"open", "closing"}

\* bytes + size.  The count is never reset; beyond the limit it only matters
\* that it is beyond it.
Counted(size) ==
    IF bytes + size > MAX_SESSION_BYTES THEN MAX_SESSION_BYTES + 1
                                        ELSE bytes + size

FrameTooLarge(s, size) ==
    /\ Sending(s) /\ size > MAX_FRAME_BYTES
    /\ shutdown
    /\ UNCHANGED << bytes, startedAt, now, mate >>

BytesExceeded(s, size) ==
    /\ Sending(s) /\ size <= MAX_FRAME_BYTES
    /\ Counted(size) > MAX_SESSION_BYTES
    /\ bytes' = Counted(size)
    /\ shutdown
    /\ UNCHANGED << startedAt, now, mate >>

\* Forwarded, or dropped for want of a partner.
Forwarded(s, size) ==
    /\ Sending(s) /\ size <= MAX_FRAME_BYTES
    /\ Counted(size) <= MAX_SESSION_BYTES
    /\ bytes' = Counted(size)
    /\ UNCHANGED << status, standby, partners, peerIds, startedAt, now,
                    expiryTimer, unpairedTimer, mate >>

\* send() on the partner throws: only a socket that is not open does that.
SendFails(s, size) ==
    /\ Sending(s) /\ size <= MAX_FRAME_BYTES
    /\ Counted(size) <= MAX_SESSION_BYTES
    /\ partners[s] # NoSocket /\ status[partners[s]] # "open"
    /\ bytes' = Counted(size)
    /\ closePair(s)
    /\ UNCHANGED << standby, startedAt, now, expiryTimer, unpairedTimer, mate >>

Message(s, size) ==
    \/ FrameTooLarge(s, size) \/ BytesExceeded(s, size)
    \/ Forwarded(s, size) \/ SendFails(s, size)

(***************************************************************************)
(* The close and error handlers of wire().                                 *)
(***************************************************************************)

\* Mutant: a socket that goes takes the whole session down.
teardownAll(s, after) ==
    /\ standby' = NoSocket
    /\ partners' = [t \in Sockets |-> NoSocket]
    /\ peerIds' = {}
    /\ status' = [SafeClosed(Paired \cup {standby}) EXCEPT ![s] = after]
    /\ unpairedTimer' = NoTimer /\ expiryTimer' = NoTimer

\* Mutant: the partner is forgotten and not closed.
teardownSilent(s, after) ==
    LET other == partners[s]
        idle  == standby \in {NoSocket, s} /\ Paired \subseteq {s, other}
    IN  /\ standby' = IF standby = s THEN NoSocket ELSE standby
        /\ partners' = [t \in Sockets |->
                          IF t \in {s, other} THEN NoSocket ELSE partners[t]]
        /\ peerIds' = peerIds \ {s, other}
        /\ status' = [status EXCEPT ![s] = after]
        /\ unpairedTimer' = IF standby = s \/ idle THEN NoTimer ELSE unpairedTimer
        /\ expiryTimer' = IF idle THEN NoTimer ELSE expiryTimer

\* Mutant: whichever socket goes, the parked one loses its place.
teardownAnyStandby(s, after) ==
    LET other == partners[s]
        idle  == Paired \subseteq {s, other}
    IN  /\ standby' = NoSocket
        /\ partners' = [t \in Sockets |->
                          IF t \in {s, other} THEN NoSocket ELSE partners[t]]
        /\ peerIds' = peerIds \ {s, other}
        /\ status' = [SafeClosed({other}) EXCEPT ![s] = after]
        /\ unpairedTimer' = NoTimer
        /\ expiryTimer' = IF idle THEN NoTimer ELSE expiryTimer

\* The changes of teardown, with the socket itself moving to status `after'.
teardown(s, after) ==
    LET other == partners[s]
        idle  == standby \in {NoSocket, s} /\ Paired \subseteq {s, other}
    IN  /\ standby' = IF standby = s THEN NoSocket ELSE standby
        /\ partners' = [t \in Sockets |->
                          IF t \in {s, other} THEN NoSocket ELSE partners[t]]
        /\ peerIds' = peerIds \ {s, other}
        /\ status' = [SafeClosed({other}) EXCEPT ![s] = after]
        /\ unpairedTimer' = IF standby = s \/ idle THEN NoTimer ELSE unpairedTimer
        /\ expiryTimer' = IF idle THEN NoTimer ELSE expiryTimer

ErrorEvent(s) ==
    /\ status[s] = "lost"
    /\ teardown(s, "errored")
    /\ UNCHANGED << bytes, startedAt, now, mate >>

CloseEvent(s) ==
    /\ status[s] \in {"lost", "closing", "errored"}
    /\ teardown(s, "none")
    /\ mate' = [mate EXCEPT ![s] = NoSocket]
    /\ UNCHANGED << bytes, startedAt, now >>

\* The client closes its end, or the network drops it.
ClientGone(s) ==
    /\ status[s] = "open"
    /\ status' = [status EXCEPT ![s] = "lost"]
    /\ UNCHANGED << standby, partners, peerIds, bytes, startedAt, now,
                    expiryTimer, unpairedTimer, mate >>

(***************************************************************************)
(* Timers.  A timer may run late, never early.                             *)
(***************************************************************************)

ExpiryFires ==
    /\ expiryTimer # NoTimer /\ now >= expiryTimer
    /\ shutdown
    /\ UNCHANGED << bytes, startedAt, now, mate >>

\* The handle of a timer that has fired is as good as none.
UnpairedFires ==
    /\ unpairedTimer # NoTimer /\ now >= unpairedTimer
    /\ status' = SafeClosed({standby})
    /\ standby' = NoSocket
    /\ unpairedTimer' = NoTimer
    /\ UNCHANGED << partners, peerIds, bytes, startedAt, now, expiryTimer, mate >>

Tick ==
    /\ now < Horizon
    /\ now' = now + 1
    /\ UNCHANGED << status, standby, partners, peerIds, bytes, startedAt,
                    expiryTimer, unpairedTimer, mate >>

\* The runtime drops the object (eviction, deployment) and makes a new one at
\* the next request: constructor() runs, every socket is gone.
Restart ==
    /\ status' = [s \in Sockets |-> "none"]
    /\ standby' = NoSocket
    /\ partners' = [s \in Sockets |-> NoSocket]
    /\ peerIds' = {}
    /\ bytes' = 0
    /\ startedAt' = now
    /\ expiryTimer' = NoTimer /\ unpairedTimer' = NoTimer
    /\ mate' = [s \in Sockets |-> NoSocket]
    /\ UNCHANGED now

Next ==
    \/ \E s \in Sockets :
         \/ HostJoins(s) \/ GuestJoins(s) \/ GuestRefused(s)
         \/ \E size \in 1..MAX_FRAME_BYTES + 1 : Message(s, size)
         \/ ErrorEvent(s) \/ CloseEvent(s) \/ ClientGone(s)
    \/ ExpiryFires \/ UnpairedFires \/ Tick \/ Restart

Spec == Init /\ [][Next]_vars

-----------------------------------------------------------------------------
TypeOK ==
    /\ status \in [Sockets -> Statuses]
    /\ standby \in Sockets \cup {NoSocket}
    /\ partners \in [Sockets -> Sockets \cup {NoSocket}]
    /\ peerIds \in SUBSET Sockets
    /\ bytes \in 0..MAX_SESSION_BYTES + 1
    /\ startedAt \in 0..now /\ now \in 0..Horizon
    /\ expiryTimer \in Nat \cup {NoTimer}
    /\ unpairedTimer \in Nat \cup {NoTimer}
    /\ mate \in [Sockets -> Sockets \cup {NoSocket}]

\* Forwarding never crosses conversations: the partners map is a matching of
\* the sockets that were paired with each other when the guest joined, and the
\* idle socket is not part of it (fetch, closePair, shutdown).
PairsAreMates ==
    \A s \in Paired :
        /\ partners[s] # s
        /\ partners[partners[s]] = s
        /\ mate[s] = partners[s]
        /\ s # standby

\* What the object refers to is a connection whose end it has not handled yet:
\* a late close or error event of an old socket finds nothing of it left, and
\* the pair limit counts real conversations only (teardown, safeClose).
SocketsTracked ==
    /\ \A s \in Paired \cup ({standby} \ {NoSocket}) :
         s \in peerIds /\ status[s] \in {"open", "lost"}
    /\ \A s \in peerIds : status[s] \notin {"none", "errored"}

\* "Only ever replaces an idle standby socket" (fetch), "only drops the idle
\* standby socket" (armUnpairedTimeout): a host that is parked keeps its place
\* and its timer, whatever the events of old sockets and the timers of old
\* hosts still do.  It loses the place to a newer host, which is given the
\* whole of MAX_UNPAIRED_MS, to a guest, when it has gone itself, when its
\* time is up, or with the session, and then it is closed.  Neither is a host
\* that has gone, or that was closed, kept parked for a guest to find.
StandbyKept ==
    [][/\ standby' \notin {standby, NoSocket} => unpairedTimer' = now + MAX_UNPAIRED_MS
       /\ standby # NoSocket /\ standby' = standby =>
             status'[standby] \in {"open", "lost"} /\ unpairedTimer' = unpairedTimer
       /\ standby # NoSocket /\ standby' = NoSocket =>
             \/ partners'[standby] # NoSocket
             \/ status'[standby] \in {"errored", "none"}
             \/ now >= unpairedTimer /\ status'[standby] # "open"
             \/ Paired' = {} /\ expiryTimer' = NoTimer /\ status'[standby] # "open"]_vars

\* MAX_PAIRS bounds the concurrent conversations of a host.
PairLimit == Cardinality(Paired) <= 2 * MAX_PAIRS

\* No socket is held without a timer to end it, and the unpaired timer is
\* armed for the socket that is parked now, never for one that is gone: it is
\* armed exactly while a socket is parked (armExpiry, armUnpairedTimeout,
\* clearTimers).
TimersGuard ==
    /\ Paired # {} \/ standby # NoSocket => expiryTimer # NoTimer
    /\ standby # NoSocket <=> unpairedTimer # NoTimer

\* "Tears down one conversation without touching any other" (closePair), and a
\* host that parks a new socket leaves its chats alone: what a socket does by
\* joining or going away changes no conversation but its own.
OnlyOwnConversation ==
    [][\A s \in Sockets :
         status'[s] # status[s] /\ status'[s] \in {"open", "lost", "errored", "none"} =>
           \A t \in Paired \ {s, partners[s]} :
              \/ partners'[t] = partners[t] /\ status'[t] = status[t]
              \/ \A u \in Sockets : status'[u] = "none"]_vars

\* "tells the guest when the host disappears" (relay.spec.js): a conversation
\* never ends behind the back of one side.  Who is no longer paired is being
\* closed, or gone; the sender of a frame that cannot be forwarded, because the
\* partner has been lost, is the one exception the code makes (wire).
SurvivorIsTold ==
    [][\A s \in Paired :
         partners'[s] = NoSocket /\ status'[s] = "open" =>
           status[partners[s]] = "lost" /\ UNCHANGED status]_vars
=============================================================================
