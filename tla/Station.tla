------------------------------- MODULE Station -------------------------------
(***************************************************************************)
(* A station: what a computer that has CMD-Chat open does with the guests  *)
(* that connect to it.                                                     *)
(*                                                                         *)
(* Each guest is served by a goroutine of chat.Host, which tells the       *)
(* station of its arrival and of its departure through OnPeer; OnPeer puts *)
(* the event on one of two bounded channels and drops it when that is      *)
(* full.  One goroutine, the user's, reads the channels: at the prompt     *)
(* (ready), in a chat it hosts (hostChat), and not at all while it is the  *)
(* guest of somebody else (joinPeer).                                      *)
(*                                                                         *)
(* What is said in the room is ChatRoom's subject; a connection ends here  *)
(* for whatever reason it ends there.                                      *)
(***************************************************************************)
EXTENDS Integers, Sequences, FiniteSets

CONSTANTS Guests,     \* one connection each
          CAP,        \* the capacity of both channels (8)
          MaxQuits,   \* bound on /quit in a chat
          MaxTrips    \* bound on the chats joined elsewhere

ASSUME StationAssumption ==
    /\ IsFiniteSet(Guests)
    /\ CAP \in Nat \ {0} /\ MaxQuits \in Nat /\ MaxTrips \in Nat

VARIABLES group,      \* host.group
          pc,         \* where each serve goroutine is
          members,    \* host.members
          ended,      \* connections closed at either end
          peers,      \* the channel of arrivals
          left,       \* the channel of departures
          ui,         \* where the user's goroutine is
          quits, trips

vars == << group, pc, members, ended, peers, left, ui, quits, trips >>

hostVars == << group, pc, members, ended >>
userVars == << ui, quits, trips >>

\* select { case ch <- g: default: }
Offer(ch, g) == IF Len(ch) < CAP THEN Append(ch, g) ELSE ch

(***************************************************************************)
(* serve, for one guest.                                                   *)
(***************************************************************************)

\* The handshakes are over; admission, under the lock.
Admitted(g) ==
    /\ pc[g] = "out" /\ ui # "exited" /\ (group \/ members = {})
    /\ members' = members \cup {g} /\ pc' = [pc EXCEPT ![g] = "hello"]
    /\ UNCHANGED << group, ended, peers, left, userVars >>

Refused(g) ==
    /\ pc[g] = "out" /\ ~group /\ members # {}
    /\ pc' = [pc EXCEPT ![g] = "done"]
    /\ UNCHANGED << group, members, ended, peers, left, userVars >>

\* The deferred function takes the guest out of the maps first.
Removed(g) == members' = members \ {g} /\ pc' = [pc EXCEPT ![g] = "leaving"]

SendHello(g) ==
    /\ pc[g] = "hello"
    /\ \/ /\ g \notin ended /\ pc' = [pc EXCEPT ![g] = "greeted"]
          /\ UNCHANGED members
       \/ g \in ended /\ Removed(g)
    /\ UNCHANGED << group, ended, peers, left, userVars >>

\* announce(peer, false)
AnnouncesArrival(g) ==
    /\ pc[g] = "greeted" /\ pc' = [pc EXCEPT ![g] = "loop"]
    /\ peers' = Offer(peers, g)
    /\ UNCHANGED << group, members, ended, left, userVars >>

\* The guest hangs up, or a broadcast to it fails.
ConnectionEnds(g) ==
    /\ pc[g] \in {"hello", "greeted", "loop"} /\ g \notin ended
    /\ ended' = ended \cup {g}
    /\ UNCHANGED << group, pc, members, peers, left, userVars >>

\* Receive fails.
HangsUp(g) ==
    /\ pc[g] = "loop" /\ g \in ended /\ Removed(g)
    /\ UNCHANGED << group, ended, peers, left, userVars >>

\* announce(peer, true)
AnnouncesDeparture(g) ==
    /\ pc[g] = "leaving" /\ pc' = [pc EXCEPT ![g] = "done"]
    /\ left' = Offer(left, g)
    /\ UNCHANGED << group, members, ended, peers, userVars >>

(***************************************************************************)
(* The user's goroutine.                                                   *)
(***************************************************************************)

\* ready takes an arrival and calls hostChat.
TakesArrival ==
    /\ ui = "ready" /\ peers # << >>
    /\ peers' = Tail(peers) /\ ui' = "starting"
    /\ UNCHANGED << hostVars, left, quits, trips >>

\* hostChat begins with drain(st.left).
StartsChat ==
    /\ ui = "starting" /\ ui' = "chat"
    /\ left' = << >>
    /\ UNCHANGED << hostVars, peers, quits, trips >>

\* "* ... joined"
SeesArrival ==
    /\ ui = "chat" /\ peers # << >>
    /\ peers' = Tail(peers)
    /\ UNCHANGED << hostVars, left, userVars >>

SeesDeparture ==
    /\ ui = "chat" /\ left # << >>
    /\ left' = Tail(left) /\ ui' = "counting"
    /\ UNCHANGED << hostVars, peers, quits, trips >>

\* Mutant: the host is counted as one who remains.
CountsOffByOne ==
    /\ ui = "counting"
    /\ ui' = IF Cardinality(members) <= 1 THEN "ready" ELSE "chat"
    /\ UNCHANGED << hostVars, peers, left, quits, trips >>

\* remaining := st.host.Count() - 1
Counts ==
    /\ ui = "counting"
    /\ ui' = IF Cardinality(members) <= 0 THEN "ready" ELSE "chat"
    /\ UNCHANGED << hostVars, peers, left, quits, trips >>

\* /quit in a chat: Disconnect, drain(st.left), drain(st.peers).
QuitDisconnects ==
    /\ ui = "chat" /\ quits < MaxQuits /\ quits' = quits + 1
    /\ ended' = ended \cup members /\ ui' = "drainLeft"
    /\ UNCHANGED << group, pc, members, peers, left, trips >>

QuitDrainsLeft ==
    /\ ui = "drainLeft" /\ ui' = "drainPeers"
    /\ left' = << >>
    /\ UNCHANGED << hostVars, peers, quits, trips >>

QuitDrainsPeers ==
    /\ ui = "drainPeers" /\ ui' = "ready"
    /\ peers' = << >>
    /\ UNCHANGED << hostVars, left, quits, trips >>

\* joinPeer: connect.Join and chatSession, which read neither channel.
JoinsElsewhere ==
    /\ ui = "ready" /\ trips < MaxTrips /\ trips' = trips + 1
    /\ ui' = "away"
    /\ UNCHANGED << hostVars, peers, left, quits >>

\* Mutant: the events of the meantime are discarded.
ComesBackDrained ==
    /\ ui = "away" /\ ui' = "ready"
    /\ peers' = << >>
    /\ UNCHANGED << hostVars, left, quits, trips >>

ComesBack ==
    /\ ui = "away" /\ ui' = "ready"
    /\ UNCHANGED << hostVars, peers, left, quits, trips >>

\* /group on or off, at either prompt.
SetsGroup ==
    /\ ui \in {"ready", "chat"} /\ group' = ~group
    /\ UNCHANGED << pc, members, ended, peers, left, userVars >>

\* /quit at the prompt, or the end of the input: st.close().
Exits ==
    /\ ui \in {"ready", "chat"} /\ ui' = "exited"
    /\ ended' = ended \cup members
    /\ UNCHANGED << group, pc, members, peers, left, quits, trips >>

Init ==
    /\ group \in BOOLEAN
    /\ pc = [g \in Guests |-> "out"]
    /\ members = {} /\ ended = {}
    /\ peers = << >> /\ left = << >>
    /\ ui = "ready" /\ quits = 0 /\ trips = 0

\* What the goroutine that serves g goes on to do.
Serves(g) ==
    SendHello(g) \/ AnnouncesArrival(g) \/ HangsUp(g) \/ AnnouncesDeparture(g)

\* What the user's goroutine does without the user.
TakesEvents ==
    \/ TakesArrival \/ StartsChat \/ SeesArrival \/ SeesDeparture
    \/ Counts \/ QuitDrainsLeft \/ QuitDrainsPeers

Next ==
    \/ \E g \in Guests : Admitted(g) \/ Refused(g) \/ Serves(g) \/ ConnectionEnds(g)
    \/ TakesEvents
    \/ QuitDisconnects \/ JoinsElsewhere \/ ComesBack \/ SetsGroup \/ Exits

\* Goroutines keep running; the select of ready and of hostChat takes an event
\* that is waiting.  Nobody has to connect, to hang up or to type.
Fairness == WF_vars(TakesEvents) /\ \A g \in Guests : WF_vars(Serves(g))

Spec == Init /\ [][Next]_vars /\ Fairness

-----------------------------------------------------------------------------
TypeOK ==
    /\ group \in BOOLEAN
    /\ pc \in [Guests -> {"out", "hello", "greeted", "loop", "leaving", "done"}]
    /\ members \subseteq Guests /\ ended \subseteq Guests
    /\ peers \in Seq(Guests) /\ Len(peers) <= CAP
    /\ left \in Seq(Guests) /\ Len(left) <= CAP
    /\ ui \in {"ready", "starting", "chat", "counting", "drainLeft", "drainPeers",
               "away", "exited"}
    /\ quits \in 0..MaxQuits /\ trips \in 0..MaxTrips

\* "they paste yours first and you are already there to answer" (ready): when
\* the user is at the prompt, or in a chat elsewhere, and no arrival is waiting
\* to be read, no guest is connected, greeted and announced.
NobodyUnanswered ==
    ui \in {"ready", "away"} /\ peers = << >> =>
        \A g \in members : pc[g] = "loop" => g \in ended

\* A full channel, a trip elsewhere and a departure that is counted late never
\* lose a guest (OnPeer, ready, hostChat, joinPeer): only a /quit does, by
\* draining the arrivals.
OnlyQuitLoses == quits = 0 => NobodyUnanswered

\* As long as there is no /quit, a guest in the room is in a chat in the end,
\* unless it leaves, the user exits or never comes back (ready, hostChat).
Answered ==
    [](quits = 0) /\ []<>(ui # "away") =>
        \A g \in Guests : pc[g] = "loop" ~> (pc[g] # "loop" \/ ui \in {"chat", "exited"})
=============================================================================
