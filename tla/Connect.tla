------------------------------ MODULE Connect ------------------------------
(***************************************************************************)
(* The connection strategy of a guest: connect.Join, with the searches and *)
(* dials it makes, up to the handshake that clientConn runs on the         *)
(* connection Join returns; and the join command with an explicit address. *)
(*                                                                         *)
(* dialFastest starts one goroutine per candidate.  The goroutines put     *)
(* their outcomes on a channel with room for all of them, and outlive the  *)
(* loop that reads it.  A connection is named by the address it is made    *)
(* to.  Timeouts may pass at any moment.                                   *)
(***************************************************************************)
EXTENDS Naturals, Sequences, FiniteSets

CONSTANTS Endpoints,  \* addresses a peer publishes
          Lan, Relay, \* the announced address, the relay
          NoConn,     \* no connection
          Target,     \* the ID the user asked for
          Others,     \* other IDs
          NoID        \* no ID is expected

ASSUME ConnectAssumption ==
    /\ IsFiniteSet(Endpoints)
    /\ Lan \notin Endpoints /\ Relay \notin Endpoints /\ Lan # Relay
    /\ NoConn \notin Endpoints \cup {Lan, Relay}
    /\ Target \notin Others /\ NoID \notin Others \cup {Target}

Conns == Endpoints \cup {Lan, Relay}
Ids == Others \cup {Target}
Forces == {"", "lan", "direct", "relay"}

VARIABLES step,      \* where the guest is
          force,     \* Options.Force
          who,       \* who is at the other end of what Join returned
          dialing,   \* the dial goroutines that have not answered
          results,   \* the channel of outcomes
          remaining, \* as in dialFastest
          winner,    \* as in dialFastest
          open,      \* connections that have been made and not closed
          result     \* what Join returned

joinVars == << step, force, who, dialing, results, remaining, winner, open, result >>

NoResult == [conn |-> NoConn, host |-> NoID]

\* Mutant: the ID that somebody on the way gave for the peer.
HostIDClaimed(claimed) == claimed

\* Result.HostID, whatever the announcement, the phonebook or the relay says.
HostID(claimed) == Target

\* CMD_CHAT_TRANSPORT, where Join begins, and the address of join --address.
JoinInit ==
    /\ force \in Forces
    /\ step = IF force \in {"", "lan"} THEN "lan" ELSE "lookup"
    /\ who = NoID
    /\ dialing = {} /\ results = << >> /\ remaining = 0 /\ winner = NoConn
    /\ open = {} /\ result = NoResult

\* A path gives a connection, to whoever is at that address.  Join returns,
\* and its options with it.
Reaches(c, host) ==
    /\ result' = [conn |-> c, host |-> host]
    /\ who' \in Ids
    /\ step' = "handshake" /\ force' = ""

\* A path fails: the next one is tried, unless this one was pinned.
FallsBack(path, next) ==
    /\ step' = IF force = path THEN "over" ELSE next
    /\ UNCHANGED << force, result, who >>

\* join --address: no search, and nobody in particular is expected.
DialsAddress(e) ==
    /\ step = "lan" /\ force = ""
    /\ \/ open' = open \cup {e} /\ Reaches(e, NoID)
       \/ step' = "over" /\ UNCHANGED << force, who, open, result >>
    /\ UNCHANGED << dialing, results, remaining, winner >>

(***************************************************************************)
(* The local network, and the phonebook.                                   *)
(***************************************************************************)

\* Find drops an announcement of another ID.
Find == {a \in Ids : a = Target}

\* tryLAN: an announcement is found, and its address answers.
LanAnswers ==
    /\ step = "lan"
    /\ open' = open \cup {Lan}
    /\ \E a \in Find : Reaches(Lan, HostID(a))
    /\ UNCHANGED << dialing, results, remaining, winner >>

\* The broadcast fails, nobody answers, or the dial fails.
LanFails ==
    /\ step = "lan"
    /\ FallsBack("lan", "lookup")
    /\ UNCHANGED << dialing, results, remaining, winner, open >>

\* Not listed, offline, unreachable, or an entry that does not open.
LookupFails ==
    /\ step = "lookup" /\ step' = "over"
    /\ UNCHANGED << force, who, dialing, results, remaining, winner, open, result >>

\* The entry opens under the target's key; its TCP candidates are dialled.
LookupFinds(endpoints) ==
    /\ step = "lookup"
    /\ IF force = "relay" \/ endpoints = {}
         THEN /\ FallsBack("direct", "relay")
              /\ UNCHANGED << dialing, remaining >>
         ELSE /\ step' = "race" /\ dialing' = endpoints
              /\ remaining' = Cardinality(endpoints)
              /\ UNCHANGED << force, who, result >>
    /\ UNCHANGED << results, winner, open >>

(***************************************************************************)
(* dialFastest.                                                            *)
(***************************************************************************)

\* A dial goroutine ends: its outcome fits the channel.
DialAnswers(e, ok) ==
    /\ e \in dialing /\ dialing' = dialing \ {e}
    /\ results' = Append(results, [conn |-> e, ok |-> ok])
    /\ open' = IF ok THEN open \cup {e} ELSE open
    /\ UNCHANGED << step, force, who, remaining, winner, result >>

\* The loop is left: tryDirect returns the winner, if there is one.
LeavesRace(w) ==
    /\ remaining' = 0
    /\ IF w = NoConn THEN FallsBack("direct", "relay")
                     ELSE Reaches(w, HostID(Target))

\* Mutant: an outcome is not counted.
GoesOnUncounted(w) ==
    IF remaining = 1
      THEN LeavesRace(w)
      ELSE UNCHANGED << remaining, step, force, who, result >>

\* The loop goes on, with a winner too, until all dials have been heard of.
GoesOn(w) ==
    IF remaining = 1
      THEN LeavesRace(w)
      ELSE remaining' = remaining - 1 /\ UNCHANGED << step, force, who, result >>

\* Head(results) is a dial that failed.  `continue' skips the check that ends
\* the loop when there is a winner.
HearsFailure ==
    /\ step = "race" /\ results # << >> /\ ~Head(results).ok
    /\ results' = Tail(results)
    /\ GoesOn(winner)
    /\ UNCHANGED << dialing, winner, open >>

\* Head(results) is the first dial that succeeded; so does this `continue'.
HearsFirst ==
    /\ step = "race" /\ results # << >> /\ Head(results).ok /\ winner = NoConn
    /\ winner' = Head(results).conn
    /\ results' = Tail(results)
    /\ GoesOn(Head(results).conn)
    /\ UNCHANGED << dialing, open >>

\* Head(results) is a slower dial: it is closed, and the loop ends.
HearsAnother ==
    /\ step = "race" /\ results # << >> /\ Head(results).ok /\ winner # NoConn
    /\ open' = open \ {Head(results).conn}
    /\ results' = Tail(results)
    /\ LeavesRace(winner)
    /\ UNCHANGED << dialing, winner >>

\* The deadline, whatever lies in the channel.
BudgetEnds ==
    /\ step = "race"
    /\ LeavesRace(winner)
    /\ UNCHANGED << dialing, results, winner, open >>

\* The goroutine that is left behind closes what came too late.
Drains ==
    /\ step \notin {"lan", "lookup", "race"} /\ results # << >>
    /\ results' = Tail(results)
    /\ open' = open \ {c \in {Head(results).conn} : Head(results).ok /\ c # winner}
    /\ UNCHANGED << step, force, who, dialing, remaining, winner, result >>

(***************************************************************************)
(* The relay, and the handshake on the connection that was found.          *)
(***************************************************************************)

\* The peer predates the relay, or relay.Dial gets no WebSocket.
RelayFails ==
    /\ step = "relay" /\ step' = "over"
    /\ UNCHANGED << force, who, dialing, results, remaining, winner, open, result >>

RelayDials ==
    /\ step = "relay" /\ step' = "await"
    /\ open' = open \cup {Relay}
    /\ UNCHANGED << force, who, dialing, results, remaining, winner, result >>

\* awaitPeer reads "paired", with the relay's word for who the peer is.
RelayPairs(peer) ==
    /\ step = "await"
    /\ Reaches(Relay, HostID(peer))
    /\ UNCHANGED << dialing, results, remaining, winner, open >>

\* awaitPeer reads an error, fails, or waits too long.
AwaitFails ==
    /\ step = "await" /\ step' = "over"
    /\ open' = open \ {Relay}
    /\ UNCHANGED << force, who, dialing, results, remaining, winner, result >>

\* clientConn: the peer proves the ID that is expected, if one is.
Authenticates ==
    /\ step = "handshake"
    /\ result.host \in {NoID, who}
    /\ step' = "hello"
    /\ UNCHANGED << force, who, dialing, results, remaining, winner, open, result >>

\* TLS, the pinned certificate, CMDC2 or the trust store: Dial and chatSession
\* close the transport.  No other path is tried.
HandshakeFails ==
    /\ step = "handshake" /\ step' = "over"
    /\ open' = open \ {result.conn}
    /\ UNCHANGED << force, who, dialing, results, remaining, winner, result >>

\* What the user waits for, up to the proof of who it is.
Joins ==
    \/ \E e \in Endpoints : DialsAddress(e)
    \/ LanAnswers \/ LanFails
    \/ LookupFails \/ \E endpoints \in SUBSET Endpoints : LookupFinds(endpoints)
    \/ HearsFailure \/ HearsFirst \/ HearsAnother \/ BudgetEnds
    \/ RelayFails \/ RelayDials \/ AwaitFails
    \/ \E peer \in Ids : RelayPairs(peer)
    \/ HandshakeFails

JoinStep ==
    \/ Joins
    \/ \E e \in Endpoints, ok \in BOOLEAN : DialAnswers(e, ok)
    \/ Drains

-----------------------------------------------------------------------------
JoinTypeOK ==
    /\ step \in {"lan", "lookup", "race", "relay", "await", "handshake",
                 "hello", "chat", "over"}
    /\ force \in Forces /\ who \in Ids \cup {NoID}
    /\ dialing \subseteq Endpoints
    /\ results \in Seq([conn : Endpoints, ok : BOOLEAN])
    /\ remaining \in 0..Cardinality(Endpoints)
    /\ winner \in Endpoints \cup {NoConn} /\ open \subseteq Conns
    /\ result \in [conn : Conns \cup {NoConn}, host : Ids \cup {NoID}]

\* "The identity that must be PROVEN is still the target" (tryLAN, tryDirect,
\* tryRelay): whoever answers at an address, and whatever the announcement and
\* the relay say, the guest that asked for an ID talks to nobody else.
ChatsWithTarget ==
    step \in {"hello", "chat"} /\ result.host # NoID => who = Target

\* The connection that Join returned is closed by its user only: not as a
\* straggler by the loop or by the goroutine that dialFastest leaves behind.
ResultStaysOpen == step \in {"handshake", "hello", "chat"} => result.conn \in open

\* dialFastest counts right: what it still waits for is what is still to come,
\* so that it is never left waiting for nothing, and the closing of the channel
\* is never what it reads.
CountsDials ==
    step = "race" => /\ remaining = Cardinality(dialing) + Len(results)
                     /\ remaining > 0
=============================================================================
