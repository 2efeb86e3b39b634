--------------------------- MODULE ChatRoom_proofs --------------------------
(***************************************************************************)
(* Proofs about ChatRoom, for any set of guests and nicknames and any      *)
(* number of commands: the room's types and its one seat, what a refused   *)
(* guest sees, and that the rosters settle.                                *)
(*                                                                         *)
(* The last is the interesting one.  Whoever changes the membership owes   *)
(* the room a roster; a roster that has been listed while nobody owes one  *)
(* is the room as it is; and every member has it or is about to get it.    *)
(***************************************************************************)
EXTENDS ChatRoom, FiniteSetTheorems, TLAPS

\* A goroutine broadcasts nothing before it has greeted its guest.
Early == {"out", "admit", "refuse", "hello", "greeted"}

Types ==
    /\ {group, everGroup, raced} \subseteq BOOLEAN
    /\ names \in [Actors -> Names]
    /\ members \subseteq Guests
    /\ pc \in [Guests -> Early \cup {"loop", "done"}]
    /\ dropped \subseteq Guests /\ ends \in [Guests -> {"up", "stalled", "gone"}]
    /\ first \in [Guests -> {None, "hello", "error", "other"}]
    /\ roster = [g \in Guests |-> roster[g]]
    /\ commands \in 0..MaxCommands

\* A roster is still to be listed, by a goroutine whose guest came or went.
Owes(a) ==
    \/ work[a] = << SendRoster >>
    \/ \E e \in Guests \cup {None} : work[a] = << Notice(e), SendRoster >>

\* What an actor may have left to broadcast: nothing, a notice, a notice and a
\* roster, a roster that has been listed or not, or the closing of everybody.
Shaped(a) ==
    \/ work[a] = << >> /\ todo[a] = None
    \/ \E e \in Guests \cup {None} : work[a] \in {<< Notice(e) >>, << Notice(e), SendRoster >>}
    \/ work[a] = << SendRoster >> /\ todo[a] = None
    \/ Listed(a) /\ work[a] = << [SendRoster EXCEPT !.list = Head(work[a]).list] >>
    \/ work[a] = << Closing >>

Plans ==
    /\ work = [a \in Actors |-> work[a]] /\ todo = [a \in Actors |-> todo[a]]
    /\ \A a \in Actors : Shaped(a) /\ (todo[a] # None => todo[a] \subseteq Guests)
    /\ \A g \in Guests : pc[g] \in Early => work[g] = << >>

\* As long as group chat has never been on, one guest at most has the seat.
Seat == (group => everGroup) /\ OneGuestAlone

\* Guests that have not been let in, and those that never will be.
Outside(g) == pc[g] \in {"out", "admit", "refuse"} \/ first[g] = "error"

Apart ==
    \A g \in Guests :
        /\ Outside(g) => /\ g \notin members /\ roster[g] = None
                         /\ \A a \in Actors : todo[a] # None => g \notin todo[a]
        /\ pc[g] \in {"out", "admit", "refuse"} => first[g] = None
        /\ first[g] = "error" => pc[g] = "done"

Pending ==
    \/ \E g \in Guests : pc[g] \in {"hello", "greeted"}
    \/ \E a \in Actors : Owes(a)

OnItsWay(g) ==
    \E a \in Actors : /\ Listed(a) /\ Head(work[a]).list = Members
                      /\ todo[a] = None \/ g \in todo[a]

Reached(g) ==
    g \in dropped \/ ends[g] # "up" \/ roster[g] = Members \/ OnItsWay(g)

\* Nobody has talked, renamed or switched yet, and no two rosters have met.
Calm == group /\ commands = 0 /\ ~raced

Settled ==
    /\ \A g \in members : Reached(g)
    /\ \A a \in Actors : Listed(a) => Head(work[a]).list = Members

Settling ==
    Calm => /\ \A a, b \in Actors : Listed(a) /\ Listed(b) => a = b
            /\ Pending \/ Settled

RoomInv == Types /\ Plans /\ Seat /\ Apart /\ Settling

-----------------------------------------------------------------------------
\* An actor whose broadcasts are left alone.
LEMMA SameActor ==
    ASSUME NEW a, work'[a] = work[a], todo'[a] = todo[a]
    PROVE  /\ Shaped(a)' <=> Shaped(a)
           /\ Listed(a)' <=> Listed(a)
           /\ Owes(a)' <=> Owes(a)
           /\ Idle(a)' <=> Idle(a)
BY DEF Shaped, Listed, Owes, Idle, Notice, SendRoster, Closing

\* The first item of what an actor has left.
LEMMA FirstItem ==
    ASSUME NEW a, Shaped(a), ~Idle(a)
    PROVE  /\ Head(work[a]).kind \in {"other", "roster", "close"}
           /\ Head(work[a]).kind = "roster" => \/ work[a] = << SendRoster >>
                                              \/ Listed(a)
           /\ Head(work[a]).kind = "roster" /\ Head(work[a]).list # None => Listed(a)
           /\ Listed(a) => /\ Head(work[a]).kind = "roster"
                           /\ Head(work[a]).except = None
                           /\ ~Owes(a) /\ Len(work[a]) = 1
           /\ Owes(a) => ~Listed(a)
           /\ Len(work[a]) \in {1, 2}
<1>1. ASSUME NEW e \in Guests \cup {None}, work[a] = << Notice(e) >>
      PROVE  /\ Head(work[a]) = Notice(e) /\ Len(work[a]) = 1 /\ ~Listed(a)
             /\ Head(work[a]).kind = "other"
  BY <1>1 DEF Notice, Listed
<1>2. ASSUME NEW e \in Guests \cup {None}, work[a] = << Notice(e), SendRoster >>
      PROVE  /\ Head(work[a]) = Notice(e) /\ Len(work[a]) = 2 /\ ~Listed(a)
             /\ Head(work[a]).kind = "other"
  BY <1>2 DEF Notice, Listed
<1>3. ASSUME work[a] = << SendRoster >>
      PROVE  /\ Head(work[a]) = SendRoster /\ Len(work[a]) = 1 /\ ~Listed(a)
             /\ Head(work[a]).kind = "roster" /\ Head(work[a]).list = None
  BY <1>3 DEF SendRoster, Listed
<1>4. ASSUME Listed(a), NEW L, work[a] = << [SendRoster EXCEPT !.list = L] >>
      PROVE  /\ Head(work[a]).kind = "roster" /\ Head(work[a]).except = None
             /\ Len(work[a]) = 1 /\ ~Owes(a)
  <2>1. Head(work[a]) = [SendRoster EXCEPT !.list = L] /\ Len(work[a]) = 1
    BY <1>4
  <2>2. Head(work[a]).kind = "roster" /\ Head(work[a]).except = None
    BY <2>1 DEF SendRoster
  <2>3. ~Owes(a)
    BY <1>2, <1>3, <1>4 DEF Owes
  <2> QED  BY <2>1, <2>2, <2>3
<1>5. ASSUME work[a] = << Closing >>
      PROVE  /\ Head(work[a]) = Closing /\ Len(work[a]) = 1 /\ ~Listed(a)
             /\ Head(work[a]).kind = "close"
  BY <1>5 DEF Closing, Listed
<1>6. Owes(a) => ~Listed(a)
  BY <1>2, <1>3 DEF Owes
<1>7. CASE \E e \in Guests \cup {None} : work[a] \in {<< Notice(e) >>, << Notice(e), SendRoster >>}
  BY <1>1, <1>2, <1>6, <1>7
<1>8. CASE work[a] = << SendRoster >>
  BY <1>3, <1>6, <1>8
<1>9. CASE Listed(a) /\ work[a] = << [SendRoster EXCEPT !.list = Head(work[a]).list] >>
  BY <1>4, <1>6, <1>9
<1>10. CASE work[a] = << Closing >>
  BY <1>5, <1>6, <1>10
<1> QED  BY <1>7, <1>8, <1>9, <1>10 DEF Shaped, Idle

\* A goroutine begins the broadcasts w.
LEMMA NewWork ==
    ASSUME Plans, NEW a \in Actors, Idle(a), NEW e \in Guests \cup {None}, NEW w,
           \/ w \in {<< >>, << Notice(e) >>, << Notice(e), SendRoster >>}
           \/ w \in {<< SendRoster >>, << Closing >>},
           work' = [work EXCEPT ![a] = w], UNCHANGED todo
    PROVE  /\ work' = [b \in Actors |-> work'[b]] /\ todo' = [b \in Actors |-> todo'[b]]
           /\ \A b \in Actors : Shaped(b)' /\ (todo'[b] # None => todo'[b] \subseteq Guests)
           /\ work'[a] = w
           /\ \A b \in Actors : b # a => work'[b] = work[b] /\ (Owes(b) => Owes(b)')
           /\ \A b \in Actors : Listed(b)' => Listed(b)
           /\ w \in {<< Notice(e), SendRoster >>, << SendRoster >>} => Owes(a)'
<1>1. work'[a] = w /\ todo'[a] = None
  <2>1. todo[a] = None
    BY FirstItem DEF Plans, Shaped, Idle
  <2> QED  BY <2>1 DEF Plans
<1>2. ASSUME NEW b \in Actors, b # a
      PROVE  work'[b] = work[b] /\ todo'[b] = todo[b]
  BY <1>2 DEF Plans
<1>3. ASSUME NEW b \in Actors, b # a
      PROVE  /\ Shaped(b)' /\ (todo'[b] # None => todo'[b] \subseteq Guests)
             /\ Owes(b) => Owes(b)'
             /\ Listed(b)' => Listed(b)
  BY <1>2, <1>3, SameActor DEF Plans
<1>4. Shaped(a)' /\ ~Listed(a)'
  <2>1. Shaped(a)'
    BY <1>1 DEF Shaped, Notice, SendRoster, Closing
  <2>2. CASE w = << >>
    BY <1>1, <2>1, <2>2 DEF Listed, Idle
  <2>3. CASE w # << >>
    <3>1. Head(w).list = None
      BY <2>3 DEF Notice, SendRoster, Closing
    <3> QED  BY <1>1, <2>1, <3>1 DEF Listed
  <2> QED  BY <2>1, <2>2, <2>3
<1>5. w \in {<< Notice(e), SendRoster >>, << SendRoster >>} => Owes(a)'
  BY <1>1 DEF Owes, Notice, SendRoster
<1>6. work' = [b \in Actors |-> work'[b]] /\ todo' = [b \in Actors |-> todo'[b]]
  BY DEF Plans
<1> QED  BY <1>1, <1>2, <1>3, <1>4, <1>5, <1>6 DEF Plans

\* A broadcast goes on: a roster still owed stays owed, nothing else is listed.
LEMMA Moves ==
    ASSUME Plans, NEW a \in Actors, ~Idle(a), work[a] # << SendRoster >>,
           NEW rest, rest \subseteq Guests, GoesOn(a, rest)
    PROVE  /\ work' = [b \in Actors |-> work'[b]] /\ todo' = [b \in Actors |-> todo'[b]]
           /\ \A b \in Actors \ {a} : work'[b] = work[b] /\ todo'[b] = todo[b]
           /\ \A b \in Actors : /\ Shaped(b)' /\ (todo'[b] # None => todo'[b] \subseteq Guests)
                                /\ Owes(b) => Owes(b)'
                                /\ Listed(b)' => Listed(b) /\ work'[b] = work[b]
           /\ todo'[a] # None => todo'[a] = rest
           /\ rest # {} => work'[a] = work[a] /\ todo'[a] = rest
<1>1. work' = [b \in Actors |-> work'[b]] /\ todo' = [b \in Actors |-> todo'[b]]
  BY DEF Plans, GoesOn
<1>2. ASSUME NEW b \in Actors \ {a}
      PROVE  work'[b] = work[b] /\ todo'[b] = todo[b]
  BY DEF Plans, GoesOn
<1>3. ASSUME NEW b \in Actors \ {a}
      PROVE  /\ Shaped(b)' /\ (todo'[b] # None => todo'[b] \subseteq Guests)
             /\ Owes(b) => Owes(b)'
             /\ Listed(b)' => Listed(b)
  BY <1>2, SameActor DEF Plans
<1>4. CASE rest = {}
  <2>1. work'[a] = Tail(work[a]) /\ todo'[a] = None
    BY <1>4 DEF Plans, GoesOn
  <2>2. Shaped(a)
    BY DEF Plans
  <2>3. ASSUME NEW e \in Guests \cup {None}, work[a] = << Notice(e), SendRoster >>
        PROVE  Shaped(a)' /\ Owes(a)' /\ ~Listed(a)'
    <3>1. work'[a] = << SendRoster >>
      BY <2>1, <2>3
    <3>2. Head(work'[a]).list = None
      BY <3>1 DEF SendRoster
    <3> QED  BY <2>1, <3>1, <3>2 DEF Shaped, Owes, Listed, SendRoster
  <2>4. ASSUME Len(work[a]) = 1
        PROVE  Shaped(a)' /\ ~Listed(a)' /\ ~Owes(a)
    <3>1. work'[a] = << >>
      <4>1. PICK x : work[a] = << x >>
        BY <2>2, <2>4 DEF Shaped, Idle
      <4> QED  BY <2>1, <4>1
    <3>2. ASSUME NEW e \in Guests \cup {None}, work[a] = << Notice(e), SendRoster >>
          PROVE  FALSE
      BY <2>4, <3>2
    <3> QED  BY <2>1, <3>1, <3>2 DEF Shaped, Owes, Listed, Idle
  <2>5. \/ Len(work[a]) = 1
        \/ \E e \in Guests \cup {None} : work[a] = << Notice(e), SendRoster >>
    <3>1. ASSUME NEW x, work[a] = << x >>
          PROVE  Len(work[a]) = 1
      BY <3>1
    <3> QED  BY <2>2, <3>1 DEF Shaped, Idle
  <2> QED  BY <1>1, <1>2, <1>3, <1>4, <2>1, <2>3, <2>4, <2>5
<1>5. CASE rest # {}
  <2>1. work'[a] = work[a] /\ todo'[a] = rest
    BY <1>5 DEF Plans, GoesOn
  <2>2. Shaped(a)'
    BY <2>1 DEF Plans, Shaped, Listed, Idle, Notice, SendRoster, Closing
  <2>3. (Owes(a) => Owes(a)') /\ (Listed(a)' => Listed(a))
    BY <2>1 DEF Owes, Listed, Idle, Notice, SendRoster
  <2> QED  BY <1>1, <1>2, <1>3, <1>5, <2>1, <2>2, <2>3
<1> QED  BY <1>4, <1>5

-----------------------------------------------------------------------------
(***************************************************************************)
(* What the steps have in common.                                          *)
(***************************************************************************)

LEMMA PlansStay ==
    ASSUME Plans, UNCHANGED << work, todo >>,
           \A g \in Guests : pc'[g] \in Early => pc[g] \in Early
    PROVE  Plans'
BY SameActor DEF Plans

\* Nothing is said: what was settled stays settled, if nobody else came.
LEMMA SettlingStays ==
    ASSUME Settling, UNCHANGED << names, members, work, todo, roster >>,
           dropped \subseteq dropped', members \subseteq Guests,
           \A g \in Guests : ends[g] # "up" => ends'[g] # "up",
           \A g \in Guests : pc[g] \in {"hello", "greeted"} => pc'[g] \in {"hello", "greeted"},
           Calm' => Calm
    PROVE  Settling'
<1>1. /\ Members' = Members
      /\ \A a : (Listed(a)' <=> Listed(a)) /\ (Owes(a)' <=> Owes(a))
  BY SameActor DEF Members
<1>2. Pending => Pending'
  BY <1>1 DEF Pending
<1>3. Settled => Settled'
  <2> HAVE Settled
  <2>1. ASSUME NEW g \in members
        PROVE  Reached(g)'
    BY <1>1 DEF Settled, Reached, OnItsWay
  <2> QED  BY <1>1, <2>1 DEF Settled
<1> QED  BY <1>1, <1>2, <1>3 DEF Settling

\* Somebody owes the room a roster, or was just let in and will.
LEMMA SettlingPends ==
    ASSUME Settling, \A a \in Actors : Listed(a)' => Listed(a),
           Calm' => Calm /\ Pending'
    PROVE  Settling'
BY DEF Settling

\* After a message, a new name or a command the rosters are not at issue.
LEMMA CommandIsHeard ==
    ASSUME Types, Command
    PROVE  Settling' /\ commands' \in 0..MaxCommands
<1>1. commands' \in 0..MaxCommands /\ commands' # 0
  BY ActorsAssumption DEF Types, Command
<1> QED  BY <1>1 DEF Settling, Calm

\* A broadcast goes on, and those it was for have the roster or will.
LEMMA SettlingMoves ==
    ASSUME Types, Plans, Settling,
           NEW a \in Actors, ~Idle(a), work[a] # << SendRoster >>,
           NEW rest, rest \subseteq Guests, GoesOn(a, rest),
           UNCHANGED << group, names, members, pc, ends, commands, raced >>,
           dropped \subseteq dropped',
           \A g \in members :
               Settled => /\ roster[g] = Members => roster'[g] = Members
                          /\ Listed(a) /\ (todo[a] = None \/ g \in todo[a])
                                => \/ g \in rest \/ g \in dropped'
                                   \/ ends[g] # "up" \/ roster'[g] = Members
    PROVE  Settling'
<1>1. Members' = Members /\ (Calm' <=> Calm)
  BY DEF Members, Calm
<1>2. /\ \A b \in Actors \ {a} : work'[b] = work[b] /\ todo'[b] = todo[b]
      /\ \A b \in Actors : /\ Owes(b) => Owes(b)'
                           /\ Listed(b)' => Listed(b) /\ work'[b] = work[b]
      /\ rest # {} => work'[a] = work[a] /\ todo'[a] = rest
  BY Moves
<1>3. Pending => Pending'
  BY <1>2 DEF Pending
<1>4. Settled => Settled'
  <2> HAVE Settled
  <2>1. ASSUME NEW g \in members
        PROVE  Reached(g)'
    <3>1. CASE g \in dropped \/ ends[g] # "up" \/ roster[g] = Members
      BY <1>1, <3>1 DEF Reached
    <3>2. CASE OnItsWay(g)
      <4>1. PICK b \in Actors : /\ Listed(b) /\ Head(work[b]).list = Members
                                /\ todo[b] = None \/ g \in todo[b]
        BY <3>2 DEF OnItsWay
      <4>2. CASE b # a
        <5>1. Listed(b)' /\ work'[b] = work[b] /\ todo'[b] = todo[b]
          BY <1>2, <4>1, <4>2, SameActor
        <5> QED  BY <1>1, <4>1, <5>1 DEF Reached, OnItsWay
      <4>3. CASE b = a
        <5>1. CASE g \in rest
          <6>1. work'[a] = work[a] /\ todo'[a] = rest
            BY <1>2, <5>1
          <6>2. Listed(a)'
            BY <4>1, <4>3, <6>1 DEF Listed, Idle
          <6> QED  BY <1>1, <4>1, <4>3, <5>1, <6>1, <6>2 DEF Reached, OnItsWay
        <5>2. CASE g \notin rest
          BY <1>1, <4>1, <4>3, <5>2 DEF Reached
        <5> QED  BY <5>1, <5>2
      <4> QED  BY <4>2, <4>3
    <3> QED  BY <3>1, <3>2 DEF Settled, Reached
  <2>2. ASSUME NEW b \in Actors, Listed(b)'
        PROVE  Head(work'[b]).list = Members'
    BY <1>1, <1>2, <2>2 DEF Settled
  <2> QED  BY <2>1, <2>2 DEF Settled
<1>5. Calm => \A b, c \in Actors : Listed(b)' /\ Listed(c)' => b = c
  BY <1>2 DEF Settling
<1> QED  BY <1>1, <1>3, <1>4, <1>5 DEF Settling

-----------------------------------------------------------------------------
(***************************************************************************)
(* serve.                                                                  *)
(***************************************************************************)

\* Accepted, Refused: the guest is still outside.
LEMMA StaysOutside ==
    ASSUME RoomInv, NEW g \in Guests, Accepted(g) \/ Refused(g)
    PROVE  RoomInv'
<1>1. PICK to \in {"admit", "refuse"} :
         /\ pc[g] \in {"out", "admit"} /\ pc' = [pc EXCEPT ![g] = to]
         /\ UNCHANGED << group, names, members, work, todo, dropped, ends,
                         first, roster, commands, everGroup, raced >>
  BY DEF Accepted, Refused
<1>2. \A h \in Guests : pc'[h] = IF h = g THEN to ELSE pc[h]
  BY <1>1 DEF RoomInv, Types
<1>3. Types'
  BY <1>1 DEF RoomInv, Types, Early
<1>4. Plans'
  BY <1>1, <1>2, PlansStay DEF RoomInv, Early
<1>5. Seat'
  BY <1>1 DEF RoomInv, Seat, OneGuestAlone
<1>6. Apart'
  BY <1>1, <1>2 DEF RoomInv, Apart, Outside
<1>7. Settling'
  BY <1>1, <1>2, SettlingStays DEF RoomInv, Types, Calm
<1> QED  BY <1>3, <1>4, <1>5, <1>6, <1>7 DEF RoomInv

\* The room is empty, or has group chat; the guest will be greeted.
LEMMA AdmittedKeeps ==
    ASSUME RoomInv, NEW g \in Guests, Admitted(g)
    PROVE  RoomInv'
<1> USE DEF Admitted
<1>1. \A h \in Guests : pc'[h] = IF h = g THEN "hello" ELSE pc[h]
  BY DEF RoomInv, Types
<1>2. Types'
  BY DEF RoomInv, Types, Early
<1>3. Plans'
  BY <1>1, PlansStay DEF RoomInv, Early
<1>4. Seat'
  <2>1. members = {} => Cardinality(members') = 1
    BY FS_Singleton
  <2> QED  BY <2>1 DEF RoomInv, Seat, OneGuestAlone
<1>5. Apart'
  <2>1. first[g] = None /\ pc[g] = "admit"
    BY DEF RoomInv, Apart
  <2>2. ~Outside(g)'
    BY <1>1, <2>1, ActorsAssumption DEF Outside
  <2>3. ASSUME NEW h \in Guests, h # g
        PROVE  (Outside(h)' <=> Outside(h)) /\ (h \in members' <=> h \in members)
    BY <1>1, <2>3 DEF Outside
  <2> QED  BY <1>1, <2>1, <2>2, <2>3 DEF RoomInv, Apart, Outside
<1>6. Settling'
  <2>1. Pending'
    BY <1>1 DEF Pending
  <2>2. \A a \in Actors : Listed(a)' => Listed(a)
    BY SameActor
  <2> QED  BY <2>1, <2>2, SettlingPends DEF RoomInv, Calm
<1> QED  BY <1>2, <1>3, <1>4, <1>5, <1>6 DEF RoomInv

\* Whoever is told that the room is taken is told nothing else.
LEMMA SendRefusalKeeps ==
    ASSUME RoomInv, NEW g \in Guests, SendRefusal(g)
    PROVE  RoomInv'
<1> USE DEF SendRefusal
<1>1. \A h \in Guests : pc'[h] = IF h = g THEN "done" ELSE pc[h]
  BY DEF RoomInv, Types
<1>2. /\ \A h \in Guests \ {g} : first'[h] = first[h]
      /\ first'[g] \in {None, "error"}
      /\ first' = [h \in Guests |-> first'[h]] /\ roster' = roster
  BY DEF RoomInv, Types, Apart, Arrives
<1>3. Types'
  <2>1. first' \in [Guests -> {None, "hello", "error", "other"}]
    <3>1. \A h \in Guests : first'[h] \in {None, "hello", "error", "other"}
      BY <1>2 DEF RoomInv, Types
    <3> QED  BY <1>2, <3>1
  <2> QED  BY <1>2, <2>1 DEF RoomInv, Types, Early
<1>4. Plans'
  BY <1>1, PlansStay DEF RoomInv, Early
<1>5. Seat'
  BY DEF RoomInv, Seat, OneGuestAlone
<1>6. Apart'
  <2>1. ASSUME NEW h \in Guests
        PROVE  Outside(h)' => Outside(h)
    BY <1>1, <1>2 DEF Outside
  <2>2. ASSUME NEW h \in Guests, h # g
        PROVE  pc'[h] = pc[h] /\ first'[h] = first[h]
    BY <1>1, <1>2, <2>2
  <2>3. pc'[g] = "done"
    BY <1>1
  <2> QED  BY <1>2, <2>1, <2>2, <2>3 DEF RoomInv, Apart
<1>7. Settling'
  BY <1>1, <1>2, SettlingStays DEF RoomInv, Types, Calm
<1> QED  BY <1>3, <1>4, <1>5, <1>6, <1>7 DEF RoomInv

\* Whoever leaves owes those who stay a roster, in a group room.
LEMMA RemovedKeeps ==
    ASSUME RoomInv, NEW g \in Guests, pc[g] \in {"hello", "loop"}, Idle(g), Removed(g),
           UNCHANGED << group, names, todo, ends, first, roster, commands, everGroup, raced >>
    PROVE  RoomInv'
<1> DEFINE w == IF group THEN << Notice(None), SendRoster >> ELSE << >>
<1>1. \A h \in Guests : pc'[h] = IF h = g THEN "done" ELSE pc[h]
  BY DEF RoomInv, Types, Removed
<1>2. /\ work' = [b \in Actors |-> work'[b]] /\ todo' = [b \in Actors |-> todo'[b]]
      /\ \A b \in Actors : Shaped(b)' /\ (todo'[b] # None => todo'[b] \subseteq Guests)
      /\ \A b \in Actors : b # g => work'[b] = work[b]
      /\ \A b \in Actors : Listed(b)' => Listed(b)
      /\ group => Owes(g)'
  <2>1. g \in Actors /\ work' = [work EXCEPT ![g] = w]
    BY DEF Actors, Removed
  <2>2. CASE group
    BY <2>1, <2>2, NewWork, None \in Guests \cup {None} DEF RoomInv
  <2>3. CASE ~group
    BY <2>1, <2>3, NewWork, None \in Guests \cup {None} DEF RoomInv
  <2> QED  BY <2>2, <2>3
<1>3. Types'
  BY DEF RoomInv, Types, Early, Removed
<1>4. Plans'
  <2>1. ASSUME NEW h \in Guests, pc'[h] \in Early
        PROVE  work'[h] = << >>
    <3>1. h # g
      BY <1>1, <2>1 DEF Early
    <3>2. h \in Actors
      BY DEF Actors
    <3> QED  BY <1>1, <1>2, <2>1, <3>1, <3>2 DEF RoomInv, Plans
  <2> QED  BY <1>2, <2>1 DEF Plans
<1>5. Seat'
  <2>1. Cardinality(members') <= Cardinality(members) /\ Cardinality(members) \in Nat
           /\ Cardinality(members') \in Nat
    BY ActorsAssumption, FS_Subset, FS_CardinalityType DEF RoomInv, Types, Removed
  <2> QED  BY <2>1 DEF RoomInv, Seat, OneGuestAlone
<1>6. Apart'
  <2>1. pc[g] # "done" /\ first[g] # "error"
    BY DEF RoomInv, Apart
  <2>2. ASSUME NEW h \in Guests
        PROVE  Outside(h)' => Outside(h)
    BY <1>1 DEF Outside
  <2> QED  BY <1>1, <2>1, <2>2 DEF RoomInv, Apart, Removed
<1>7. Settling'
  <2>1. Calm' => Calm /\ Pending'
    BY <1>2 DEF Calm, Pending, Actors
  <2> QED  BY <1>2, <2>1, SettlingPends DEF RoomInv
<1> QED  BY <1>3, <1>4, <1>5, <1>6, <1>7 DEF RoomInv

LEMMA SendHelloKeeps ==
    ASSUME RoomInv, NEW g \in Guests, SendHello(g)
    PROVE  RoomInv'
<1>1. CASE SendFails(g) /\ Removed(g) /\ UNCHANGED << first, roster >>
  BY <1>1, RemovedKeeps DEF SendHello, RoomInv, Plans, Early, Idle
<1>2. CASE /\ Arrives(g, "hello", None)
           /\ pc' = [pc EXCEPT ![g] = "greeted"]
           /\ UNCHANGED << members, work, dropped >>
  <2>1. \A h \in Guests : pc'[h] = IF h = g THEN "greeted" ELSE pc[h]
    BY <1>2 DEF RoomInv, Types
  <2>2. /\ \A h \in Guests \ {g} : first'[h] = first[h]
        /\ first'[g] \in {first[g], "hello"}
        /\ first' \in [Guests -> {None, "hello", "error", "other"}]
        /\ roster' = roster
    BY <1>2 DEF RoomInv, Types, Arrives
  <2>3. Types'
    BY <1>2, <2>2 DEF RoomInv, Types, Early, SendHello
  <2>4. Plans'
    BY <1>2, <2>1, PlansStay DEF RoomInv, Early, SendHello
  <2>5. Seat'
    BY <1>2 DEF RoomInv, Seat, OneGuestAlone, SendHello
  <2>6. Apart'
    <3>1. pc[g] = "hello" /\ first[g] # "error"
      BY DEF RoomInv, Apart, SendHello
    <3>2. first'[g] # "error" /\ pc'[g] = "greeted"
      BY <2>1, <2>2, <3>1
    <3>3. ASSUME NEW h \in Guests, h # g
          PROVE  pc'[h] = pc[h] /\ first'[h] = first[h] /\ (Outside(h)' <=> Outside(h))
      BY <2>1, <2>2, <3>3 DEF Outside
    <3>4. ~Outside(g)'
      BY <3>2 DEF Outside
    <3> QED  BY <1>2, <2>2, <3>2, <3>3, <3>4 DEF RoomInv, Apart, SendHello
  <2>7. Settling'
    BY <1>2, <2>1, <2>2, SettlingStays DEF RoomInv, Types, Calm, SendHello
  <2> QED  BY <2>3, <2>4, <2>5, <2>6, <2>7 DEF RoomInv
<1> QED  BY <1>1, <1>2 DEF SendHello

\* In a group room the newcomer owes everybody a roster.
LEMMA GreetedKeeps ==
    ASSUME RoomInv, NEW g \in Guests, Greeted(g)
    PROVE  RoomInv'
<1> USE DEF Greeted
<1> DEFINE w == IF group THEN << Notice(g), SendRoster >> ELSE << >>
<1>1. \A h \in Guests : pc'[h] = IF h = g THEN "loop" ELSE pc[h]
  BY DEF RoomInv, Types
<1>2. /\ work' = [b \in Actors |-> work'[b]] /\ todo' = [b \in Actors |-> todo'[b]]
      /\ \A b \in Actors : Shaped(b)' /\ (todo'[b] # None => todo'[b] \subseteq Guests)
      /\ \A b \in Actors : b # g => work'[b] = work[b]
      /\ \A b \in Actors : Listed(b)' => Listed(b)
      /\ group => Owes(g)'
  <2>1. g \in Actors /\ work' = [work EXCEPT ![g] = w] /\ Idle(g)
    BY DEF Actors, RoomInv, Plans, Early, Idle
  <2>2. CASE group
    BY <2>1, <2>2, NewWork, g \in Guests \cup {None} DEF RoomInv
  <2>3. CASE ~group
    BY <2>1, <2>3, NewWork, g \in Guests \cup {None} DEF RoomInv
  <2> QED  BY <2>2, <2>3
<1>3. Types'
  BY DEF RoomInv, Types, Early
<1>4. Plans'
  <2>1. ASSUME NEW h \in Guests, pc'[h] \in Early
        PROVE  work'[h] = << >>
    <3>1. h # g
      BY <1>1, <2>1 DEF Early
    <3>2. h \in Actors
      BY DEF Actors
    <3> QED  BY <1>1, <1>2, <2>1, <3>1, <3>2 DEF RoomInv, Plans
  <2> QED  BY <1>2, <2>1 DEF Plans
<1>5. Seat'
  BY DEF RoomInv, Seat, OneGuestAlone
<1>6. Apart'
  <2>1. pc[g] = "greeted" /\ first[g] # "error"
    BY DEF RoomInv, Apart
  <2>2. ASSUME NEW h \in Guests
        PROVE  Outside(h)' => Outside(h)
    BY <1>1 DEF Outside
  <2> QED  BY <1>1, <2>1, <2>2 DEF RoomInv, Apart
<1>7. Settling'
  <2>1. Calm' => Calm /\ Pending'
    BY <1>2 DEF Calm, Pending, Actors
  <2> QED  BY <1>2, <2>1, SettlingPends DEF RoomInv
<1> QED  BY <1>3, <1>4, <1>5, <1>6, <1>7 DEF RoomInv

LEMMA LeavesKeeps ==
    ASSUME RoomInv, NEW g \in Guests, Leaves(g)
    PROVE  RoomInv'
BY RemovedKeeps DEF Leaves

-----------------------------------------------------------------------------
(***************************************************************************)
(* Messages, names and commands, and the guests' ends.                     *)
(***************************************************************************)

\* Message, Rename, HostBroadcast, SetName, Disconnect.
LEMMA CommandKeeps ==
    ASSUME RoomInv, NEW a \in Actors, Idle(a), a \in Guests => pc[a] = "loop",
           NEW e \in Guests \cup {None}, NEW w,
           \/ w \in {<< >>, << Notice(e) >>, << Notice(e), SendRoster >>}
           \/ w \in {<< SendRoster >>, << Closing >>},
           work' = [work EXCEPT ![a] = w], Command, names' \in [Actors -> Names],
           UNCHANGED << group, members, pc, todo, dropped, ends,
                        first, roster, everGroup, raced >>
    PROVE  RoomInv'
<1>1. Settling' /\ commands' \in 0..MaxCommands
  BY CommandIsHeard DEF RoomInv
<1>2. Types'
  BY <1>1 DEF RoomInv, Types
<1>3. Plans'
  <2>1. /\ work' = [b \in Actors |-> work'[b]] /\ todo' = [b \in Actors |-> todo'[b]]
        /\ \A b \in Actors : Shaped(b)' /\ (todo'[b] # None => todo'[b] \subseteq Guests)
        /\ \A b \in Actors : b # a => work'[b] = work[b]
    BY NewWork DEF RoomInv
  <2>2. ASSUME NEW h \in Guests, pc[h] \in Early
        PROVE  work'[h] = << >>
    <3>1. h # a /\ h \in Actors
      BY <2>2 DEF Early, Actors
    <3> QED  BY <2>1, <2>2, <3>1 DEF RoomInv, Plans
  <2> QED  BY <2>1, <2>2 DEF Plans
<1>4. Seat'
  BY DEF RoomInv, Seat, OneGuestAlone
<1>5. Apart'
  BY DEF RoomInv, Apart, Outside
<1> QED  BY <1>1, <1>2, <1>3, <1>4, <1>5 DEF RoomInv

LEMMA SetGroupKeeps ==
    ASSUME RoomInv, NEW enabled \in BOOLEAN, SetGroup(enabled)
    PROVE  RoomInv'
<1> USE DEF SetGroup
<1>1. Settling' /\ commands' \in 0..MaxCommands
  BY CommandIsHeard DEF RoomInv
<1>2. Types'
  BY <1>1 DEF RoomInv, Types
<1>3. Plans'
  BY PlansStay DEF RoomInv
<1>4. Seat'
  BY DEF RoomInv, Types, Seat, OneGuestAlone
<1>5. Apart'
  BY DEF RoomInv, Apart, Outside
<1> QED  BY <1>1, <1>2, <1>3, <1>4, <1>5 DEF RoomInv

\* GuestGoes, GuestStalls: a guest that is not there is owed nothing.
LEMMA EndKeeps ==
    ASSUME RoomInv, NEW g \in Guests, GuestGoes(g) \/ GuestStalls(g)
    PROVE  RoomInv'
<1>1. PICK end \in {"gone", "stalled"} :
         /\ ends' = [ends EXCEPT ![g] = end]
         /\ UNCHANGED << group, names, members, pc, work, todo, dropped,
                         first, roster, commands, everGroup, raced >>
  BY DEF GuestGoes, GuestStalls
<1>2. Types'
  BY <1>1 DEF RoomInv, Types
<1>3. Plans'
  BY <1>1, PlansStay DEF RoomInv
<1>4. Seat'
  BY <1>1 DEF RoomInv, Seat, OneGuestAlone
<1>5. Apart'
  BY <1>1 DEF RoomInv, Apart, Outside
<1>6. Settling'
  <2>1. \A h \in Guests : ends[h] # "up" => ends'[h] # "up"
    BY <1>1 DEF RoomInv, Types
  <2> QED  BY <1>1, <2>1, SettlingStays DEF RoomInv, Types, Calm
<1> QED  BY <1>2, <1>3, <1>4, <1>5, <1>6 DEF RoomInv

-----------------------------------------------------------------------------
(***************************************************************************)
(* Broadcasts.                                                             *)
(***************************************************************************)

\* A step of a broadcast: the plans, whatever is sent.
LEMMA MovesKeep ==
    ASSUME RoomInv, NEW a \in Actors, ~Idle(a), work[a] # << SendRoster >>,
           NEW rest, rest \subseteq Guests, GoesOn(a, rest), UNCHANGED pc
    PROVE  /\ Plans'
           /\ \A b \in Actors : todo'[b] # None =>
                 todo'[b] = rest \/ (todo[b] # None /\ todo'[b] = todo[b])
<1>1. /\ work' = [b \in Actors |-> work'[b]] /\ todo' = [b \in Actors |-> todo'[b]]
      /\ \A b \in Actors \ {a} : work'[b] = work[b] /\ todo'[b] = todo[b]
      /\ \A b \in Actors : Shaped(b)' /\ (todo'[b] # None => todo'[b] \subseteq Guests)
      /\ todo'[a] # None => todo'[a] = rest
  BY Moves DEF RoomInv
<1>2. ASSUME NEW h \in Guests, pc[h] \in Early
      PROVE  work'[h] = << >>
  <2>1. h # a /\ h \in Actors
    BY <1>2 DEF RoomInv, Plans, Idle, Actors
  <2> QED  BY <1>1, <1>2, <2>1 DEF RoomInv, Plans
<1> QED  BY <1>1, <1>2 DEF Plans

\* The room is listed as it is, and by nobody else at the same time.
LEMMA ListsMembersKeeps ==
    ASSUME RoomInv, NEW a \in Actors, ListsMembers(a)
    PROVE  RoomInv'
<1> USE DEF ListsMembers
<1>1. work[a] = << SendRoster >> /\ todo[a] = None
  <2>1. work[a] = << SendRoster >>
    BY FirstItem DEF RoomInv, Plans, Listed
  <2>2. ~Listed(a) /\ work[a] # << >> /\ work[a] # << Closing >>
    BY <2>1, FirstItem DEF RoomInv, Plans, Listed, SendRoster, Closing
  <2>3. \A e \in Guests \cup {None} :
          work[a] \notin {<< Notice(e) >>, << Notice(e), SendRoster >>}
    BY <2>1 DEF Notice, SendRoster
  <2> QED  BY <2>1, <2>2, <2>3 DEF RoomInv, Plans, Shaped
<1>2. /\ work'[a] = << [SendRoster EXCEPT !.list = Members] >>
      /\ \A b \in Actors : b # a => work'[b] = work[b]
      /\ work' = [b \in Actors |-> work'[b]]
  <2>1. work[a][1] = SendRoster
    BY <1>1
  <2>2. work'[a] = [work[a] EXCEPT ![1] = [SendRoster EXCEPT !.list = Members]]
    BY <2>1 DEF RoomInv, Plans
  <2>3. ASSUME NEW x, NEW y
        PROVE  [<< x >> EXCEPT ![1] = y] = << y >>
    OBVIOUS
  <2>4. work'[a] = << [SendRoster EXCEPT !.list = Members] >>
    BY <1>1, <2>2, <2>3
  <2>5. \A b \in Actors : b # a => work'[b] = work[b]
    BY DEF RoomInv, Plans
  <2> QED  BY <2>4, <2>5 DEF RoomInv, Plans
<1>3. Head(work'[a]) = [SendRoster EXCEPT !.list = Members] /\ Head(work'[a]).list = Members
  BY <1>2 DEF SendRoster
<1>4. /\ Members # None => Listed(a)'
      /\ Members = None => Owes(a)' /\ ~Listed(a)'
  <2>1. work'[a] # << >>
    BY <1>2
  <2>2. Members # None => Listed(a)'
    BY <1>3, <2>1 DEF Listed, Idle
  <2>3. CASE Members = None
    <3>1. work'[a] = << SendRoster >>
      BY <1>2, <2>3 DEF SendRoster
    <3> QED  BY <1>3, <2>3, <3>1 DEF Owes, Listed
  <2> QED  BY <2>2, <2>3
<1>5. Types'
  BY DEF RoomInv, Types
<1>6. Plans'
  <2>1. Shaped(a)'
    <3>1. CASE Members # None
      BY <1>2, <1>3, <1>4, <3>1 DEF Shaped
    <3>2. CASE Members = None
      <4>1. work'[a] = << SendRoster >>
        BY <1>2, <3>2 DEF SendRoster
      <4> QED  BY <1>1, <4>1 DEF Shaped, SendRoster
    <3> QED  BY <3>1, <3>2
  <2>2. ASSUME NEW b \in Actors, b # a
        PROVE  Shaped(b)'
    BY <1>2, <2>2, SameActor DEF RoomInv, Plans
  <2>3. ASSUME NEW h \in Guests, pc[h] \in Early
        PROVE  work'[h] = << >>
    <3>1. h # a /\ h \in Actors
      BY <1>1, <2>3 DEF RoomInv, Plans, Actors
    <3> QED  BY <1>2, <2>3, <3>1 DEF RoomInv, Plans
  <2> QED  BY <1>2, <2>1, <2>2, <2>3 DEF RoomInv, Plans
<1>7. Seat'
  BY DEF RoomInv, Seat, OneGuestAlone
<1>8. Apart'
  BY DEF RoomInv, Apart, Outside
<1>9. Settling'
  <2> SUFFICES ASSUME Calm'
               PROVE  /\ \A b, c \in Actors : Listed(b)' /\ Listed(c)' => b = c
                      /\ Pending' \/ Settled'
    BY DEF Settling
  <2>1. \A b \in Actors \ {a} : ~Listed(b)'
    BY <1>2, SameActor DEF Calm, RoomInv, Types, Listed, Idle
  <2>2. CASE Members = None
    BY <1>4, <2>1, <2>2 DEF Pending
  <2>3. CASE Members # None
    <3>1. Members' = Members
      BY DEF Members
    <3>2. ASSUME NEW g \in members
          PROVE  Reached(g)'
      BY <1>1, <1>3, <1>4, <2>3, <3>1 DEF Reached, OnItsWay
    <3>3. Settled'
      BY <1>3, <2>1, <3>1, <3>2 DEF Settled
    <3> QED  BY <2>1, <3>3
  <2> QED  BY <2>2, <2>3
<1> QED  BY <1>5, <1>6, <1>7, <1>8, <1>9 DEF RoomInv

\* Everybody who is a member now will be sent the item.
LEMMA SnapshotKeeps ==
    ASSUME RoomInv, NEW a \in Actors, Snapshot(a)
    PROVE  RoomInv'
<1> USE DEF Snapshot
<1> DEFINE rest == members \ {Head(work[a]).except}
<1>1. work[a] # << SendRoster >>
  BY DEF SendRoster
<1>2. rest \subseteq Guests
  BY DEF RoomInv, Types
<1>3. /\ Plans'
      /\ \A b \in Actors : todo'[b] # None =>
            todo'[b] = rest \/ (todo[b] # None /\ todo'[b] = todo[b])
  BY <1>1, <1>2, MovesKeep
<1>4. Types'
  BY DEF RoomInv, Types
<1>5. Seat'
  BY DEF RoomInv, Seat, OneGuestAlone
<1>6. Apart'
  BY <1>3 DEF RoomInv, Apart, Outside
<1>7. Settling'
  <2>1. ASSUME Listed(a)
        PROVE  rest = members
    <3>1. Shaped(a)
      BY DEF RoomInv, Plans
    <3>2. Head(work[a]).except = None
      BY <2>1, <3>1, FirstItem
    <3> QED  BY <3>2, ActorsAssumption DEF RoomInv, Types
  <2> QED  BY <1>1, <1>2, <2>1, SettlingMoves DEF RoomInv
<1> QED  BY <1>3, <1>4, <1>5, <1>6, <1>7 DEF RoomInv

\* The roster arrives, or the client it does not reach is closed.
LEMMA DeliverKeeps ==
    ASSUME RoomInv, NEW a \in Actors, NEW c \in Guests, Deliver(a, c)
    PROVE  RoomInv'
<1> USE DEF Deliver
<1> DEFINE rest == todo[a] \ {c}
<1>1. ~Idle(a) /\ work[a] # << SendRoster >>
  <2>1. todo[a] # None
    OBVIOUS
  <2>2. Shaped(a)
    BY DEF RoomInv, Plans
  <2>3. work[a] # << >>
    BY <2>1, <2>2 DEF Shaped, Listed, Idle, Notice, SendRoster, Closing
  <2>4. work[a] # << SendRoster >>
    <3> SUFFICES ASSUME work[a] = << SendRoster >>  PROVE FALSE
      OBVIOUS
    <3>1. ~Listed(a) /\ work[a] # << Closing >>
      BY DEF Listed, SendRoster, Closing
    <3>2. \A e \in Guests \cup {None} :
            work[a] \notin {<< Notice(e) >>, << Notice(e), SendRoster >>}
      BY DEF Notice, SendRoster
    <3> QED  BY <2>1, <2>2, <2>3, <3>1, <3>2 DEF Shaped
  <2> QED  BY <2>3, <2>4 DEF Idle
<1>2. Head(work[a]).kind \in {"other", "roster"}
  BY <1>1, FirstItem DEF RoomInv, Plans
<1>3. rest \subseteq Guests
  BY DEF RoomInv, Plans
<1>4. /\ Plans'
      /\ \A b \in Actors : todo'[b] # None =>
            todo'[b] = rest \/ (todo[b] # None /\ todo'[b] = todo[b])
  BY <1>1, <1>3, MovesKeep
<1>5. /\ first' = [h \in Guests |-> first'[h]] /\ roster' = [h \in Guests |-> roster'[h]]
      /\ \A h \in Guests \ {c} : first'[h] = first[h] /\ roster'[h] = roster[h]
      /\ first'[c] \in {first[c], "other"}
  BY <1>2 DEF RoomInv, Types, Arrives
<1>6. Types'
  <2>1. first' \in [Guests -> {None, "hello", "error", "other"}]
    <3>1. \A h \in Guests : first'[h] \in {None, "hello", "error", "other"}
      BY <1>5 DEF RoomInv, Types
    <3> QED  BY <1>5, <3>1
  <2>2. dropped' \subseteq Guests
    BY DEF RoomInv, Types
  <2> QED  BY <1>5, <2>1, <2>2 DEF RoomInv, Types
<1>7. Seat'
  BY DEF RoomInv, Seat, OneGuestAlone
<1>8. Apart'
  <2>1. ~Outside(c)
    BY DEF RoomInv, Apart
  <2>2. ~Outside(c)' /\ first'[c] # "error"
    BY <1>5, <2>1 DEF Outside
  <2>3. \A h \in Guests \ {c} : Outside(h)' <=> Outside(h)
    BY <1>5 DEF Outside
  <2>4. pc'[c] \notin {"out", "admit", "refuse"}
    BY <2>2 DEF Outside
  <2> QED  BY <1>4, <1>5, <2>2, <2>3, <2>4 DEF RoomInv, Apart
<1>9. Settling'
  <2>1. ASSUME Settled
        PROVE  /\ roster[c] = Members => roster'[c] = Members
               /\ Listed(a) => c \in dropped' \/ roster'[c] = Members
    <3>1. Head(work[a]).kind = "roster" => Listed(a)
      BY <1>1, FirstItem DEF RoomInv, Plans
    <3>2. Listed(a) => Head(work[a]).list = Members /\ Head(work[a]).kind = "roster"
      BY <1>1, <2>1, FirstItem DEF RoomInv, Plans, Settled
    <3> QED  BY <3>1, <3>2 DEF RoomInv, Types, Arrives
  <2>2. ASSUME NEW g \in members, Settled
        PROVE  /\ roster[g] = Members => roster'[g] = Members
               /\ Listed(a) /\ (todo[a] = None \/ g \in todo[a])
                     => \/ g \in rest \/ g \in dropped'
                        \/ ends[g] # "up" \/ roster'[g] = Members
    BY <1>5, <2>1, <2>2 DEF RoomInv, Types
  <2> QED  BY <1>1, <1>3, <2>2, SettlingMoves DEF RoomInv
<1> QED  BY <1>4, <1>6, <1>7, <1>8, <1>9 DEF RoomInv

LEMMA DisconnectsKeeps ==
    ASSUME RoomInv, NEW a \in Actors, NEW c \in Guests, Disconnects(a, c)
    PROVE  RoomInv'
<1> USE DEF Disconnects
<1> DEFINE rest == todo[a] \ {c}
<1>1. ~Idle(a) /\ work[a] # << SendRoster >>
  <2>1. work[a] # << SendRoster >>
    BY DEF SendRoster
  <2>2. todo[a] # None /\ Shaped(a)
    BY DEF RoomInv, Plans
  <2>3. work[a] # << >>
    BY <2>2 DEF Shaped, Listed, Idle, Notice, SendRoster, Closing
  <2> QED  BY <2>1, <2>3 DEF Idle
<1>2. ~Listed(a)
  BY <1>1, FirstItem DEF RoomInv, Plans
<1>3. rest \subseteq Guests
  BY DEF RoomInv, Plans
<1>4. /\ Plans'
      /\ \A b \in Actors : todo'[b] # None =>
            todo'[b] = rest \/ (todo[b] # None /\ todo'[b] = todo[b])
  BY <1>1, <1>3, MovesKeep
<1>5. Types'
  BY DEF RoomInv, Types
<1>6. Seat'
  BY DEF RoomInv, Seat, OneGuestAlone
<1>7. Apart'
  BY <1>4 DEF RoomInv, Apart, Outside
<1>8. Settling'
  BY <1>1, <1>2, <1>3, SettlingMoves DEF RoomInv
<1> QED  BY <1>4, <1>5, <1>6, <1>7, <1>8 DEF RoomInv

-----------------------------------------------------------------------------
(***************************************************************************)
(* The theorems.                                                           *)
(***************************************************************************)

LEMMA RoomInit ==
    ASSUME Init
    PROVE  RoomInv
<1> USE DEF Init
<1>1. Types
  <2>1. roster = [g \in Guests |-> roster[g]]
    OBVIOUS
  <2>2. commands \in 0..MaxCommands
    BY ActorsAssumption
  <2>3. {group, everGroup, raced} \subseteq BOOLEAN
    OBVIOUS
  <2>4. /\ pc \in [Guests -> Early \cup {"loop", "done"}]
        /\ ends \in [Guests -> {"up", "stalled", "gone"}]
        /\ first \in [Guests -> {None, "hello", "error", "other"}]
    BY DEF Early
  <2> QED  BY <2>1, <2>2, <2>3, <2>4 DEF Types
<1>2. \A a \in Actors : work[a] = << >> /\ todo[a] = None /\ ~Listed(a)
  BY DEF Listed, Idle
<1>3. Plans
  <2>1. \A g \in Guests : g \in Actors
    BY DEF Actors
  <2>2. work = [a \in Actors |-> work[a]] /\ todo = [a \in Actors |-> todo[a]]
    OBVIOUS
  <2> QED  BY <1>2, <2>1, <2>2 DEF Plans, Shaped
<1>4. Seat
  BY FS_EmptySet DEF Seat, OneGuestAlone
<1>5. Apart
  BY <1>2, ActorsAssumption DEF Apart, Outside
<1>6. Settling
  BY <1>2 DEF Settling, Settled
<1> QED  BY <1>1, <1>3, <1>4, <1>5, <1>6 DEF RoomInv

LEMMA RoomNext ==
    ASSUME RoomInv, [Next]_vars
    PROVE  RoomInv'
<1> USE ActorsAssumption
<1>1. ASSUME NEW g \in Guests, Accepted(g) \/ Refused(g)  PROVE RoomInv'
  BY <1>1, StaysOutside
<1>2. ASSUME NEW g \in Guests, Admitted(g)  PROVE RoomInv'
  BY <1>2, AdmittedKeeps
<1>3. ASSUME NEW g \in Guests, SendRefusal(g)  PROVE RoomInv'
  BY <1>3, SendRefusalKeeps
<1>4. ASSUME NEW g \in Guests, SendHello(g)  PROVE RoomInv'
  BY <1>4, SendHelloKeeps
<1>5. ASSUME NEW g \in Guests, Greeted(g)  PROVE RoomInv'
  BY <1>5, GreetedKeeps
<1>6. ASSUME NEW g \in Guests, Leaves(g)  PROVE RoomInv'
  BY <1>6, LeavesKeeps
<1>7. ASSUME NEW g \in Guests, Message(g)  PROVE RoomInv'
  <2>1. g \in Actors /\ names' \in [Actors -> Names]
    BY <1>7 DEF Actors, Message, RoomInv, Types
  <2> DEFINE w == IF group THEN << Notice(g) >> ELSE << >>
  <2>2. \/ w \in {<< >>, << Notice(g) >>, << Notice(g), SendRoster >>}
        \/ w \in {<< SendRoster >>, << Closing >>}
    OBVIOUS
  <2> QED  BY <1>7, <2>1, <2>2, CommandKeeps, g \in Guests \cup {None} DEF Message
<1>8. ASSUME NEW g \in Guests, NEW name \in Names, Rename(g, name)  PROVE RoomInv'
  <2>1. g \in Actors /\ names' \in [Actors -> Names]
    BY <1>8 DEF Actors, Rename, RoomInv, Types
  <2> DEFINE w == IF group /\ name # names[g]
                    THEN << Notice(None), SendRoster >> ELSE << >>
  <2>2. \/ w \in {<< >>, << Notice(None) >>, << Notice(None), SendRoster >>}
        \/ w \in {<< SendRoster >>, << Closing >>}
    OBVIOUS
  <2> QED  BY <1>8, <2>1, <2>2, CommandKeeps, None \in Guests \cup {None} DEF Rename
<1>9. ASSUME NEW g \in Guests, GuestGoes(g) \/ GuestStalls(g)  PROVE RoomInv'
  BY <1>9, EndKeeps
<1>10. ASSUME HostBroadcast \/ Disconnect  PROVE RoomInv'
  <2>1. HOST \in Actors /\ HOST \notin Guests /\ names' \in [Actors -> Names]
    BY <1>10 DEF Actors, HostBroadcast, Disconnect, RoomInv, Types
  <2>2. CASE HostBroadcast
    BY <2>1, <2>2, CommandKeeps, None \in Guests \cup {None} DEF HostBroadcast
  <2>3. CASE Disconnect
    BY <2>1, <2>3, CommandKeeps, None \in Guests \cup {None} DEF Disconnect
  <2> QED  BY <1>10, <2>2, <2>3
<1>11. ASSUME NEW name \in Names, SetName(name)  PROVE RoomInv'
  <2>1. HOST \in Actors /\ HOST \notin Guests /\ names' \in [Actors -> Names]
    BY <1>11 DEF Actors, SetName, RoomInv, Types
  <2> DEFINE w == IF group THEN << SendRoster >> ELSE << >>
  <2>2. \/ w \in {<< >>, << Notice(None) >>, << Notice(None), SendRoster >>}
        \/ w \in {<< SendRoster >>, << Closing >>}
    OBVIOUS
  <2> QED  BY <1>11, <2>1, <2>2, CommandKeeps, None \in Guests \cup {None} DEF SetName
<1>12. ASSUME NEW enabled \in BOOLEAN, SetGroup(enabled)  PROVE RoomInv'
  BY <1>12, SetGroupKeeps
<1>13. ASSUME NEW a \in Actors, Broadcasts(a)  PROVE RoomInv'
  BY <1>13, ListsMembersKeeps, SnapshotKeeps, DeliverKeeps, DisconnectsKeeps DEF Broadcasts
<1>14. CASE UNCHANGED vars
  <2>1. Types'
    BY <1>14 DEF RoomInv, Types, vars
  <2>2. Plans'
    BY <1>14, PlansStay DEF RoomInv, vars
  <2>3. Seat'
    BY <1>14 DEF RoomInv, Seat, OneGuestAlone, vars
  <2>4. Apart'
    BY <1>14 DEF RoomInv, Apart, Outside, vars
  <2>5. Settling'
    BY <1>14, SettlingStays DEF RoomInv, Types, Calm, vars
  <2> QED  BY <2>1, <2>2, <2>3, <2>4, <2>5 DEF RoomInv
<1> QED  BY <1>1, <1>2, <1>3, <1>4, <1>5, <1>6, <1>7, <1>8, <1>9, <1>10, <1>11, <1>12,
            <1>13, <1>14 DEF Next, Serve

\* The invariant of the room: what each goroutine may still have to broadcast,
\* who is outside, and that a change of the membership nobody has announced yet
\* is owed, while a listed roster is the room as it is (serve, broadcast,
\* sendRoster).
THEOREM RoomInvariant == Spec => []RoomInv
BY RoomInit, RoomNext, PTL DEF Spec

\* The room's state is well formed, and as long as group chat has never been
\* on, however many connections arrive together, one guest at most is let in
\* (serve, admission).
THEOREM OneSeat == Spec => []RoomConsistent
<1>1. ASSUME RoomInv
      PROVE  RoomConsistent
  <2>1. ASSUME NEW a \in Actors
        PROVE  Len(work[a]) <= 2 /\ (todo[a] # None => todo[a] \subseteq Guests /\ ~Idle(a))
    <3>1. Shaped(a) /\ (todo[a] # None => todo[a] \subseteq Guests)
      BY <1>1 DEF RoomInv, Plans
    <3>2. CASE Idle(a)
      <4>1. todo[a] = None
        BY <3>1, <3>2, FirstItem DEF Shaped, Idle, Listed, Notice, SendRoster, Closing
      <4> QED  BY <3>2, <4>1 DEF Idle
    <3>3. CASE ~Idle(a)
      <4>1. Len(work[a]) \in {1, 2}
        BY <3>1, <3>3, FirstItem
      <4>2. \A n : n = 1 \/ n = 2 => n <= 2
        OBVIOUS
      <4>3. Len(work[a]) <= 2
        BY <4>1, <4>2, Zenon
      <4> QED  BY <3>1, <3>3, <4>3
    <3> QED  BY <3>2, <3>3
  <2>2. TypeOK
    BY <1>1, <2>1 DEF RoomInv, Types, TypeOK, Early
  <2> QED  BY <1>1, <2>2 DEF RoomInv, Seat, RoomConsistent
<1> QED  BY <1>1, RoomInvariant, PTL

\* A guest that was refused is told why and is sent nothing of the room,
\* whatever the goroutines of the others are sending (serve, broadcast).
THEOREM RefusedIsApart == Spec => []RefusedSeesNothing
<1>1. ASSUME RoomInv
      PROVE  RefusedSeesNothing
  BY <1>1 DEF RoomInv, Apart, Outside, RefusedSeesNothing
<1> QED  BY <1>1, RoomInvariant, PTL

\* When nothing is under way in a group room where people only came and went,
\* and no roster was listed while another was being sent, every member's last
\* roster is the room (sendRoster, broadcast).
THEOREM RostersSettle == Spec => []RosterSettles
<1>1. ASSUME RoomInv
      PROVE  RosterSettles
  <2> SUFFICES ASSUME group, commands = 0, ~raced, \A a \in Actors : Idle(a),
                      \A g \in Guests : pc[g] \in {"out", "loop", "done"},
                      NEW g \in members, g \notin dropped, ends[g] = "up"
               PROVE  roster[g] = Members
    BY DEF RosterSettles
  <2>1. \A a \in Actors : ~Owes(a) /\ ~Listed(a)
    BY DEF Owes, Listed, Idle
  <2>2. ~Pending
    BY <2>1 DEF Pending
  <2>3. Reached(g)
    BY <1>1, <2>2 DEF RoomInv, Settling, Calm, Settled
  <2> QED  BY <2>1, <2>3 DEF Reached, OnItsWay
<1> QED  BY <1>1, RoomInvariant, PTL
=============================================================================
