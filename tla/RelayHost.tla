----------------------------- MODULE RelayHost ------------------------------
(***************************************************************************)
(* A host that keeps itself reachable through the relay: the loop of       *)
(* connect.ServeRelay, with relay.Listen and awaitPeer inside it, against  *)
(* the relay object of RelaySession.  Guests are any other sockets.        *)
(*                                                                         *)
(* One goroutine runs the loop and holds the socket it waits on; each      *)
(* paired socket is handed to a goroutine of its own (HandleConn).         *)
(***************************************************************************)
EXTENDS RelaySession

CONSTANTS RELAY_WAIT,         \* relayWaitWindow, in ticks
          RETRY_MIN, RETRY_MAX, \* relayRetryMin and relayRetryMax
          MaxFaults           \* bound on the failures of the host's connections

ASSUME WaitAssumption ==
    /\ RELAY_WAIT \in Nat /\ RETRY_MIN \in Nat \ {0}
    /\ RETRY_MAX \in Nat /\ RETRY_MIN <= RETRY_MAX
    /\ MaxFaults \in Nat

VARIABLES hpc,        \* where the loop is
          hsock,      \* the socket awaitPeer reads, NoSocket if none
          waitUntil,  \* the deadline of awaitPeer
          backoff,
          served,     \* sockets in a HandleConn goroutine
          hostEnds,   \* sockets the host dialled and that are not "none"
          pairedSent, \* "paired" was sent to hsock
          faults      \* failures so far (bounded by MaxFaults)

hostVars == << hpc, hsock, waitUntil, backoff, served, hostEnds, pairedSent,
               faults >>
allVars == << vars, hostVars >>

\* A name is free for a new connection when neither end uses it.
Free(s) == s # hsock /\ s \notin served

\* The bound on connections is not what keeps the host out: a guest leaves a
\* name for it.
NameLeft(s) == \E t \in Sockets \ {s} : Free(t) /\ status[t] = "none"

HostInit ==
    /\ Init
    /\ hpc = "dial" /\ hsock = NoSocket /\ waitUntil = 0
    /\ backoff = RETRY_MIN
    /\ served = {} /\ hostEnds = {} /\ pairedSent = FALSE /\ faults = 0

\* awaitPeer returns.
AwaitEnds == hsock' = NoSocket /\ waitUntil' = 0 /\ pairedSent' = FALSE

Fault == faults < MaxFaults /\ faults' = faults + 1

(***************************************************************************)
(* The loop.                                                               *)
(***************************************************************************)

\* Listen: the dial succeeds and awaitPeer starts to wait.
ListenDials(s) ==
    /\ hpc = "dial" /\ Free(s)
    /\ HostJoins(s)
    /\ hpc' = "await" /\ hsock' = s /\ waitUntil' = now + RELAY_WAIT
    /\ hostEnds' = hostEnds \cup {s}
    /\ UNCHANGED << backoff, served, pairedSent, faults >>

\* Listen: the relay is unreachable or answers with an HTTP error.
ListenFails ==
    /\ hpc = "dial" /\ hpc' = "backoff"
    /\ Fault
    /\ UNCHANGED << vars, hsock, waitUntil, backoff, served, hostEnds, pairedSent >>

\* Mutant: the chat is served on the loop's own goroutine.
PeerArrivesInline ==
    /\ hpc = "await" /\ pairedSent
    /\ hpc' = "serving" /\ backoff' = RETRY_MIN
    /\ served' = served \cup {hsock} /\ AwaitEnds
    /\ UNCHANGED << vars, hostEnds, faults >>

\* awaitPeer reads "paired": it was sent before any close of the socket, so it
\* is read first.
PeerArrives ==
    /\ hpc = "await" /\ pairedSent
    /\ hpc' = "dial" /\ backoff' = RETRY_MIN
    /\ served' = served \cup {hsock} /\ AwaitEnds
    /\ UNCHANGED << vars, hostEnds, faults >>

\* What conn.Close() does to the relay's end of a socket.
HostCloses(s) ==
    IF status[s] = "open" THEN ClientGone(s) ELSE UNCHANGED vars

\* Mutant: the connection is not closed when the wait ends.
WaitTimesOutOpen ==
    /\ hpc = "await" /\ now >= waitUntil
    /\ hpc' = "dial" /\ backoff' = RETRY_MIN /\ AwaitEnds
    /\ UNCHANGED << vars, served, hostEnds, faults >>

\* ErrWaitTimeout; a "paired" that was sent but not read yet is lost with the
\* connection.
WaitTimesOut ==
    /\ hpc = "await" /\ now >= waitUntil
    /\ HostCloses(hsock)
    /\ hpc' = "dial" /\ backoff' = RETRY_MIN /\ AwaitEnds
    /\ UNCHANGED << served, hostEnds, faults >>

\* A CloseError: the relay closed the socket.  isWaitTimeout counts it as the
\* normal idle case, so the loop dials again at once.
RelayCloses ==
    /\ hpc = "await" /\ ~pairedSent
    /\ status[hsock] \in {"closing", "none"}
    /\ hpc' = "dial" /\ backoff' = RETRY_MIN /\ AwaitEnds
    /\ UNCHANGED << vars, served, hostEnds, faults >>

\* Any other error of awaitPeer: the connection breaks.
AwaitFails ==
    /\ hpc = "await"
    /\ HostCloses(hsock)
    /\ hpc' = "backoff" /\ AwaitEnds
    /\ Fault
    /\ UNCHANGED << backoff, served, hostEnds >>

SleepEnds ==
    /\ hpc = "backoff" /\ hpc' = "dial"
    /\ backoff' = IF 2 * backoff > RETRY_MAX THEN RETRY_MAX ELSE 2 * backoff
    /\ UNCHANGED << vars, hsock, waitUntil, served, hostEnds, pairedSent, faults >>

\* stop is seen at the top of the loop and during the sleep.
Stops ==
    /\ hpc \in {"dial", "backoff"} /\ hpc' = "stopped"
    /\ UNCHANGED << vars, hsock, waitUntil, backoff, served, hostEnds, pairedSent, faults >>

\* HandleConn returns and the deferred Close runs.
ServeEnds(s) ==
    /\ s \in served
    /\ HostCloses(s)
    /\ served' = served \ {s}
    /\ UNCHANGED << hpc, hsock, waitUntil, backoff, hostEnds, pairedSent, faults >>

HostLoop ==
    \/ \E s \in Sockets : ListenDials(s) \/ ServeEnds(s)
    \/ ListenFails \/ PeerArrives \/ WaitTimesOut \/ RelayCloses
    \/ AwaitFails \/ SleepEnds \/ Stops

(***************************************************************************)
(* The relay and the guests.                                               *)
(***************************************************************************)

GuestPairs(s) ==
    /\ Free(s) /\ NameLeft(s)
    /\ GuestJoins(s)
    /\ pairedSent' = (pairedSent \/ standby = hsock)
    /\ UNCHANGED << hpc, hsock, waitUntil, backoff, served, hostEnds, faults >>

GuestLeaves(s) ==
    /\ s \notin hostEnds /\ ClientGone(s)
    /\ UNCHANGED hostVars

\* The relay handles an event; the host notices nothing yet.
RelaySide ==
    /\ hostEnds' = {s \in hostEnds : status'[s] # "none"}
    /\ UNCHANGED << hpc, hsock, waitUntil, backoff, served, pairedSent, faults >>

\* Only the ends of a chat send binary frames.
Frame(s) ==
    /\ s \in served \/ s \notin hostEnds
    /\ \E size \in 1..MAX_FRAME_BYTES + 1 : Message(s, size)
    /\ RelaySide

SocketFails(s) == ErrorEvent(s) /\ RelaySide
SocketCloses(s) == CloseEvent(s) /\ RelaySide
SessionExpires == ExpiryFires /\ RelaySide
StandbyExpires == UnpairedFires /\ RelaySide
ObjectRestarts == Restart /\ RelaySide
TimePasses == Tick /\ UNCHANGED hostVars

HostNext ==
    \/ HostLoop
    \/ \E s \in Sockets : GuestPairs(s) \/ GuestLeaves(s) \/ Frame(s)
                          \/ SocketFails(s) \/ SocketCloses(s)
    \/ SessionExpires \/ StandbyExpires \/ ObjectRestarts \/ TimePasses

\* The loop is a running goroutine: each of its steps is taken when it stays
\* possible.  The runtime delivers close events and runs timers; a goroutine
\* whose connection is closed returns.  Guests, frames and restarts of the
\* object come or do not.
HostFairness ==
    /\ WF_allVars(PeerArrives) /\ WF_allVars(WaitTimesOut)
    /\ WF_allVars(RelayCloses) /\ WF_allVars(SleepEnds)
    /\ WF_allVars(\E s \in Sockets : ListenDials(s))
    /\ WF_allVars(SessionExpires) /\ WF_allVars(StandbyExpires)
    /\ WF_allVars(TimePasses)
    /\ \A s \in Sockets :
         /\ WF_allVars(SocketCloses(s))
         /\ WF_allVars(status[s] # "open" /\ ServeEnds(s))

HostSpec == HostInit /\ [][HostNext]_allVars /\ HostFairness

-----------------------------------------------------------------------------
HostTypeOK ==
    /\ TypeOK
    /\ hpc \in {"dial", "await", "backoff", "stopped"}
    /\ hsock \in Sockets \cup {NoSocket} /\ (hsock # NoSocket <=> hpc = "await")
    /\ waitUntil \in Nat /\ backoff \in RETRY_MIN..RETRY_MAX
    /\ served \subseteq Sockets /\ hostEnds \subseteq Sockets
    /\ pairedSent \in BOOLEAN /\ faults \in 0..MaxFaults

\* No connection of the host is left open with nobody reading it: a guest that
\* is paired at the very moment the wait window ends meets a closed socket, not
\* a silent one (Listen's conn.Close, ServeRelay's defer s.Close).
NoUnreadConnection ==
    \A s \in hostEnds : status[s] = "open" => s \in served \cup {hsock}

\* The host is parked on the relay, on a socket not due to be closed.
Reachable == standby # NoSocket /\ expiryTimer > now

\* "the host immediately goes back to waiting and a second guest is not locked
\* out for the length of a chat" (ServeRelay): unless it is stopped, or the
\* relay object has reached the age at which armExpiry leaves a new socket no
\* time, the host is parked again and again.
KeepsReachable ==
    []<>(Reachable \/ hpc = "stopped" \/ now - startedAt >= MAX_SESSION_MS)
=============================================================================
