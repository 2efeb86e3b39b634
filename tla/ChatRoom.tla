------------------------------ MODULE ChatRoom ------------------------------
(***************************************************************************)
(* A room: chat.Host with one serve goroutine per guest connection, the    *)
(* host's own goroutine, and what each guest's chatSession has received.   *)
(*                                                                         *)
(* Host.Mu guards the maps only.  A broadcast takes a snapshot of the      *)
(* clients under the lock and sends outside it, one client at a time, and  *)
(* sendRoster lists the members under an earlier hold of the same lock:    *)
(* each of these is a step, and other goroutines run between them.         *)
(*                                                                         *)
(* An actor's pending broadcasts are its `work', a sequence of items; the  *)
(* clients the first item is still to be sent to are its `todo'.           *)
(***************************************************************************)
EXTENDS Integers, Sequences, FiniteSets

CONSTANTS Guests,       \* one connection each
          HOST,         \* the host's goroutine
          Names,        \* nicknames
          None,
          MaxCommands   \* bound on messages, renames and commands

ASSUME ActorsAssumption ==
    /\ HOST \notin Guests /\ IsFiniteSet(Guests)
    /\ None \notin Names /\ None \notin Guests
    /\ None \notin {"hello", "error", "other"}
    /\ MaxCommands \in Nat

Actors == Guests \cup {HOST}

VARIABLES group,     \* h.group
          names,     \* the nickname of each actor
          members,   \* the connections in h.members, and in h.Clients
          pc,        \* where each serve goroutine is
          work,      \* the broadcasts an actor still has to make
          todo,      \* the targets of its current one, None if not begun
          dropped,   \* connections the host side has closed
          ends,      \* the guest's end: "up", "stalled" (not reading) or "gone"
          first,     \* the first packet each guest received: "hello", "error" or "other"
          roster,    \* the last roster each guest received
          commands,  \* messages, renames and commands so far
          everGroup, \* group chat has been on (history)
          raced      \* a roster was listed while another was being sent (history)

vars == << group, names, members, pc, work, todo, dropped, ends,
           first, roster, commands, everGroup, raced >>

\* Members(): the host first, then the members with their names.
Members == [host |-> names[HOST], guests |-> {<< g, names[g] >> : g \in members}]

\* What broadcast and systemf, and sendRoster, are asked to do.
Notice(except) == [kind |-> "other", except |-> except, list |-> None]
SendRoster     == [kind |-> "roster", except |-> None, list |-> None]
Closing        == [kind |-> "close", except |-> None, list |-> None]

Idle(a) == work[a] = << >>

\* Receive does not fail.
Connected(g) == g \notin dropped /\ ends[g] # "gone"

Command == commands < MaxCommands /\ commands' = commands + 1

(***************************************************************************)
(* serve, from the accepted connection to the end of the session.          *)
(***************************************************************************)

\* Accept has completed both handshakes.
Accepted(g) ==
    /\ pc[g] = "out" /\ pc' = [pc EXCEPT ![g] = "admit"]
    /\ UNCHANGED << group, names, members, work, todo, dropped, ends,
                    first, roster, commands, everGroup, raced >>

\* Mutant: the guest is put on the list of clients before it is admitted.
RefusedAfterwards(g) ==
    /\ pc[g] = "admit" /\ ~group /\ members # {}
    /\ pc' = [pc EXCEPT ![g] = "refuse"]
    /\ members' = members \cup {g}
    /\ UNCHANGED << group, names, work, todo, dropped, ends,
                    first, roster, commands, everGroup, raced >>

\* Admission, under the lock.
Refused(g) ==
    /\ pc[g] = "admit" /\ ~group /\ members # {}
    /\ pc' = [pc EXCEPT ![g] = "refuse"]
    /\ UNCHANGED << group, names, members, work, todo, dropped, ends,
                    first, roster, commands, everGroup, raced >>

\* Mutant: the number of members is not looked at.
AdmittedAnyway(g) ==
    /\ pc[g] = "admit"
    /\ members' = members \cup {g} /\ pc' = [pc EXCEPT ![g] = "hello"]
    /\ UNCHANGED << group, names, work, todo, dropped, ends,
                    first, roster, commands, everGroup, raced >>

Admitted(g) ==
    /\ pc[g] = "admit" /\ (group \/ members = {})
    /\ members' = members \cup {g} /\ pc' = [pc EXCEPT ![g] = "hello"]
    /\ UNCHANGED << group, names, work, todo, dropped, ends,
                    first, roster, commands, everGroup, raced >>

\* conn.Send to g arrives; the guest sees packets in the order they were sent.
Arrives(g, kind, list) ==
    /\ g \notin dropped /\ ends[g] # "stalled"
    /\ first' = [first EXCEPT ![g] = IF @ # None THEN @
                                     ELSE IF kind = "roster" THEN "other" ELSE kind]
    /\ roster' = IF kind = "roster" THEN [roster EXCEPT ![g] = list] ELSE roster

\* conn.Send to g returns an error: the connection is closed at either end, or
\* the write deadline passes.
SendFails(g) == g \in dropped \/ ends[g] # "up"

\* The error packet, then the deferred Close, whether or not it was sent.
SendRefusal(g) ==
    /\ pc[g] = "refuse" /\ pc' = [pc EXCEPT ![g] = "done"]
    /\ \/ Arrives(g, "error", None)
       \/ SendFails(g) /\ UNCHANGED << first, roster >>
    /\ dropped' = dropped \cup {g}
    /\ UNCHANGED << group, names, members, work, todo, ends,
                    commands, everGroup, raced >>

\* Mutant: those who stay are not sent the roster.
RemovedQuietly(g) ==
    /\ members' = members \ {g} /\ dropped' = dropped \cup {g}
    /\ work' = [work EXCEPT ![g] = IF group THEN << Notice(None) >> ELSE << >>]
    /\ pc' = [pc EXCEPT ![g] = "done"]

\* The deferred functions: g leaves the maps, the others are told, and the
\* connection, on which nothing arrives any more, is closed.
Removed(g) ==
    /\ members' = members \ {g} /\ dropped' = dropped \cup {g}
    /\ work' = [work EXCEPT ![g] = IF group THEN << Notice(None), SendRoster >> ELSE << >>]
    /\ pc' = [pc EXCEPT ![g] = "done"]

SendHello(g) ==
    /\ pc[g] = "hello"
    /\ \/ /\ Arrives(g, "hello", None)
          /\ pc' = [pc EXCEPT ![g] = "greeted"]
          /\ UNCHANGED << members, work, dropped >>
       \/ /\ SendFails(g) /\ Removed(g)
          /\ UNCHANGED << first, roster >>
    /\ UNCHANGED << group, names, todo, ends, commands, everGroup, raced >>

\* The arrival is announced, and in a group room the others are told.
Greeted(g) ==
    /\ pc[g] = "greeted" /\ pc' = [pc EXCEPT ![g] = "loop"]
    /\ work' = [work EXCEPT ![g] = IF group THEN << Notice(g), SendRoster >> ELSE << >>]
    /\ UNCHANGED << group, names, members, todo, dropped, ends,
                    first, roster, commands, everGroup, raced >>

\* A message: relayed to the others in a group room.
Message(g) ==
    /\ pc[g] = "loop" /\ Idle(g) /\ Connected(g)
    /\ Command
    /\ work' = [work EXCEPT ![g] = IF group THEN << Notice(g) >> ELSE << >>]
    /\ UNCHANGED << group, names, members, pc, todo, dropped, ends,
                    first, roster, everGroup, raced >>

\* A nick packet.
Rename(g, name) ==
    /\ pc[g] = "loop" /\ Idle(g) /\ Connected(g)
    /\ Command
    /\ names' = [names EXCEPT ![g] = name]
    /\ work' = [work EXCEPT ![g] = IF group /\ name # names[g]
                                     THEN << Notice(None), SendRoster >> ELSE << >>]
    /\ UNCHANGED << group, members, pc, todo, dropped, ends,
                    first, roster, everGroup, raced >>

\* Receive fails: the connection has been closed at either end.
Leaves(g) ==
    /\ pc[g] = "loop" /\ Idle(g) /\ ~Connected(g)
    /\ Removed(g)
    /\ UNCHANGED << group, names, todo, ends, first, roster, commands, everGroup, raced >>

(***************************************************************************)
(* broadcast, sendRoster and Disconnect, for any actor.                    *)
(***************************************************************************)

\* A roster has been listed and not yet been sent to everybody.
Listed(a) == ~Idle(a) /\ Head(work[a]).list # None

\* sendRoster calls Members() first.
ListsMembers(a) ==
    /\ ~Idle(a) /\ Head(work[a]).kind = "roster" /\ Head(work[a]).list = None
    /\ work' = [work EXCEPT ![a][1].list = Members]
    /\ raced' = (raced \/ \E b \in Actors \ {a} : Listed(b))
    /\ UNCHANGED << group, names, members, pc, todo, dropped, ends,
                    first, roster, commands, everGroup >>

\* The current broadcast goes on to `rest', or is over.
GoesOn(a, rest) ==
    IF rest = {} THEN /\ work' = [work EXCEPT ![a] = Tail(@)]
                      /\ todo' = [todo EXCEPT ![a] = None]
                 ELSE todo' = [todo EXCEPT ![a] = rest] /\ UNCHANGED work

\* The clients are copied under the lock.
Snapshot(a) ==
    /\ ~Idle(a) /\ todo[a] = None
    /\ Head(work[a]).kind = "roster" => Head(work[a]).list # None
    /\ GoesOn(a, members \ {Head(work[a]).except})
    /\ UNCHANGED << group, names, members, pc, dropped, ends,
                    first, roster, commands, everGroup, raced >>

\* Mutant: no write deadline.
DeliverBlocks(a, c) ==
    /\ todo[a] # None /\ c \in todo[a] /\ Head(work[a]).kind # "close"
    /\ GoesOn(a, todo[a] \ {c})
    /\ \/ Arrives(c, Head(work[a]).kind, Head(work[a]).list) /\ UNCHANGED dropped
       \/ /\ c \in dropped \/ ends[c] = "gone"
          /\ dropped' = dropped \cup {c} /\ UNCHANGED << first, roster >>
    /\ UNCHANGED << group, names, members, pc, ends, commands, everGroup, raced >>

\* One Send of a broadcast; a client it fails for is closed.
Deliver(a, c) ==
    /\ todo[a] # None /\ c \in todo[a] /\ Head(work[a]).kind # "close"
    /\ GoesOn(a, todo[a] \ {c})
    /\ \/ Arrives(c, Head(work[a]).kind, Head(work[a]).list) /\ UNCHANGED dropped
       \/ /\ SendFails(c)
          /\ dropped' = dropped \cup {c} /\ UNCHANGED << first, roster >>
    /\ UNCHANGED << group, names, members, pc, ends, commands, everGroup, raced >>

\* One Close of Disconnect.
Disconnects(a, c) ==
    /\ todo[a] # None /\ c \in todo[a] /\ Head(work[a]).kind = "close"
    /\ GoesOn(a, todo[a] \ {c})
    /\ dropped' = dropped \cup {c}
    /\ UNCHANGED << group, names, members, pc, ends, first, roster,
                    commands, everGroup, raced >>

(***************************************************************************)
(* The host's own goroutine, and the guests.                               *)
(***************************************************************************)

HostBroadcast ==
    /\ Idle(HOST) /\ Command
    /\ work' = [work EXCEPT ![HOST] = << Notice(None) >>]
    /\ UNCHANGED << group, names, members, pc, todo, dropped, ends,
                    first, roster, everGroup, raced >>

SetName(name) ==
    /\ Idle(HOST) /\ Command
    /\ names' = [names EXCEPT ![HOST] = name]
    /\ work' = [work EXCEPT ![HOST] = IF group THEN << SendRoster >> ELSE << >>]
    /\ UNCHANGED << group, members, pc, todo, dropped, ends, first,
                    roster, everGroup, raced >>

SetGroup(enabled) ==
    /\ Idle(HOST) /\ Command
    /\ group' = enabled /\ everGroup' = (everGroup \/ enabled)
    /\ UNCHANGED << names, members, pc, work, todo, dropped, ends,
                    first, roster, raced >>

Disconnect ==
    /\ Idle(HOST) /\ Command
    /\ work' = [work EXCEPT ![HOST] = << Closing >>]
    /\ UNCHANGED << group, names, members, pc, todo, dropped, ends,
                    first, roster, everGroup, raced >>

\* A guest closes its end: it quits, it was refused, its first packet was not
\* what chatSession expects, or it crashed.
GuestGoes(g) ==
    /\ pc[g] \notin {"out", "done"} /\ Connected(g)
    /\ ends' = [ends EXCEPT ![g] = "gone"]
    /\ UNCHANGED << group, names, members, pc, work, todo, dropped,
                    first, roster, commands, everGroup, raced >>

GuestStalls(g) ==
    /\ pc[g] \notin {"out", "done"} /\ Connected(g) /\ ends[g] = "up"
    /\ ends' = [ends EXCEPT ![g] = "stalled"]
    /\ UNCHANGED << group, names, members, pc, work, todo, dropped,
                    first, roster, commands, everGroup, raced >>

Init ==
    /\ group \in BOOLEAN /\ everGroup = group
    /\ names \in [Actors -> Names]
    /\ members = {}
    /\ pc = [g \in Guests |-> "out"]
    /\ work = [a \in Actors |-> << >>] /\ todo = [a \in Actors |-> None]
    /\ dropped = {} /\ ends = [g \in Guests |-> "up"]
    /\ first = [g \in Guests |-> None] /\ roster = [g \in Guests |-> None]
    /\ commands = 0 /\ raced = FALSE

\* A step of the goroutine that serves g, outside its broadcasts.
Serve(g) ==
    \/ Refused(g) \/ Admitted(g) \/ SendRefusal(g) \/ SendHello(g)
    \/ Greeted(g) \/ Leaves(g)

\* A step of a broadcast.
Broadcasts(a) ==
    \/ ListsMembers(a) \/ Snapshot(a)
    \/ \E c \in Guests : Deliver(a, c) \/ Disconnects(a, c)

Next ==
    \/ \E g \in Guests :
         \/ Accepted(g) \/ Serve(g) \/ Message(g) \/ GuestGoes(g) \/ GuestStalls(g)
         \/ \E name \in Names : Rename(g, name)
    \/ \E a \in Actors : Broadcasts(a)
    \/ HostBroadcast \/ Disconnect
    \/ \E name \in Names : SetName(name)
    \/ \E enabled \in BOOLEAN : SetGroup(enabled)

\* Every goroutine of the host keeps running: writes end by the write deadline
\* at the latest.  Guests and the host's user do what they like.
Fairness ==
    /\ \A g \in Guests : WF_vars(Serve(g))
    /\ \A a \in Actors : WF_vars(Broadcasts(a))

Spec == Init /\ [][Next]_vars /\ Fairness

-----------------------------------------------------------------------------
TypeOK ==
    /\ {group, everGroup, raced} \subseteq BOOLEAN
    /\ names \in [Actors -> Names]
    /\ members \subseteq Guests
    /\ pc \in [Guests -> {"out", "admit", "refuse", "hello", "greeted", "loop", "done"}]
    /\ \A a \in Actors : /\ Len(work[a]) <= 2
                         /\ todo[a] # None => todo[a] \subseteq Guests /\ ~Idle(a)
    /\ dropped \subseteq Guests /\ ends \in [Guests -> {"up", "stalled", "gone"}]
    /\ first \in [Guests -> {None, "hello", "error", "other"}]
    /\ commands \in 0..MaxCommands

\* "With group chat off, the room holds one guest" (serve, admission): as long
\* as group chat has never been on, two connections that arrive together are
\* not both let in.
OneGuestAlone == ~everGroup => Cardinality(members) <= 1

\* The state of the room is well formed, its one seat included (Host).
RoomConsistent == TypeOK /\ OneGuestAlone

\* A guest that was refused is told why and sees nothing of the room: no
\* greeting, no roster, nobody's words (serve, broadcast).
RefusedSeesNothing ==
    \A g \in Guests :
        /\ first[g] = "error" => roster[g] = None
        /\ pc[g] = "refuse" => first[g] = None

\* A connection that has ended leaves the room: no ghost keeps the only seat
\* of a room without group chat, whoever else has stopped reading (the
\* deferred function of serve, WriteTimeout).
EndedIsRemoved ==
    \A g \in Guests : g \in members /\ ~Connected(g) ~> g \notin members

\* "a departure cannot be missed by losing one update" (chatSession): when
\* nothing is under way in a group room where people only come and go, every
\* member's last roster is the room; unless a roster was listed while another
\* was being sent, and so may have arrived before it (sendRoster).
RosterSettles ==
    (/\ group /\ commands = 0 /\ ~raced
     /\ \A a \in Actors : Idle(a)
     /\ \A g \in Guests : pc[g] \in {"out", "loop", "done"}
     /\ \A g \in members : g \notin dropped /\ ends[g] = "up")
        => \A g \in members : roster[g] = Members
=============================================================================
