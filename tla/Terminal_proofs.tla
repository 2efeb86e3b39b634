-------------------------- MODULE Terminal_proofs --------------------------
(***************************************************************************)
(* Proofs about the two halves of cmd-chat's terminal program: Connect and *)
(* GuestChat, the user as a guest, and Station, the user as a host.  For   *)
(* any number of endpoints, other IDs, packets, lines and guests, and any  *)
(* room in the channels.                                                   *)
(***************************************************************************)
EXTENDS GuestChat, Station, FiniteSetTheorems, SequenceTheorems, TLAPS

\* The results that dialFastest has not read, as connections.
Waiting == {results[i].conn : i \in 1..Len(results)}

\* A dial is running, has answered, has been read of or was never made: nothing
\* is two of these.
DialsApart ==
    /\ step \in {"lan", "lookup"} => dialing = {} /\ results = << >> /\ winner = NoConn
    /\ Waiting \cap dialing = {}
    /\ \A i, j \in 1..Len(results) : results[i].conn = results[j].conn => i = j
    /\ winner \notin Waiting \cup dialing

\* While the loop runs nobody else closes what has answered.
DialsOpen ==
    step = "race" =>
        /\ winner # NoConn => winner \in open
        /\ \A i \in 1..Len(results) : results[i].ok => results[i].conn \in open

\* What Join returned is no dial that is still to be drained.
ResultApart ==
    /\ step = "await" => Relay \in open
    /\ step \in {"handshake", "hello", "chat"} => result.conn \notin Waiting \cup dialing

\* Whoever is expected, it is the target, and it has proven so when chat begins.
Proven ==
    /\ result.host \in {NoID, Target}
    /\ ChatsWithTarget

JoinInv ==
    /\ JoinTypeOK /\ CountsDials /\ ResultStaysOpen
    /\ DialsApart /\ DialsOpen /\ ResultApart /\ Proven

-----------------------------------------------------------------------------
\* Taking the first result off the channel.
LEMMA TailApart ==
    ASSUME results \in Seq([conn : Endpoints, ok : BOOLEAN]), results # << >>,
           \A i, j \in 1..Len(results) : results[i].conn = results[j].conn => i = j,
           results' = Tail(results)
    PROVE  /\ results' \in Seq([conn : Endpoints, ok : BOOLEAN])
           /\ Len(results') = Len(results) - 1
           /\ \A i \in 1..Len(results') : i + 1 \in 1..Len(results) /\ results'[i] = results[i + 1]
           /\ \A i, j \in 1..Len(results') : results'[i].conn = results'[j].conn => i = j
           /\ Waiting' = Waiting \ {Head(results).conn}
           /\ Head(results).conn \in Waiting /\ Head(results).conn \in Endpoints
<1>. DEFINE Result == [conn : Endpoints, ok : BOOLEAN]
<1>1. /\ Len(results) \in Nat \ {0} /\ Head(results) = results[1]
      /\ results[1] \in [conn : Endpoints, ok : BOOLEAN]
  <2>. HIDE DEF Result
  <2>1. results \in Seq(Result) BY DEF Result
  <2>2. Len(results) \in Nat \ {0} /\ Head(results) = results[1] /\ results[1] \in Result
    BY <2>1
  <2>. QED BY <2>2 DEF Result
<1>2. /\ results' \in Seq([conn : Endpoints, ok : BOOLEAN])
      /\ Len(results') = Len(results) - 1
      /\ \A i \in 1..Len(results') : i + 1 \in 1..Len(results) /\ results'[i] = results[i + 1]
  BY <1>1
<1>3. \A i, j \in 1..Len(results') : results'[i].conn = results'[j].conn => i = j
  <2>1. SUFFICES ASSUME NEW i \in 1..Len(results'), NEW j \in 1..Len(results'),
                        results'[i].conn = results'[j].conn
                 PROVE  i = j
    OBVIOUS
  <2>2. results[i + 1].conn = results[j + 1].conn BY <1>2, <2>1
  <2>3. i + 1 = j + 1 BY <1>2, <2>1, <2>2
  <2>. QED BY <1>1, <1>2, <2>3
<1>4. Waiting' \subseteq Waiting \ {Head(results).conn}
  <2>1. SUFFICES ASSUME NEW i \in 1..Len(results')
                 PROVE  results'[i].conn \in Waiting /\ results'[i].conn # results[1].conn
    BY <1>1 DEF Waiting
  <2>2. i + 1 \in 1..Len(results) /\ results'[i] = results[i + 1] /\ i + 1 # 1
    BY <1>1, <1>2
  <2>. QED BY <1>1, <2>2 DEF Waiting
<1>5. Waiting \ {Head(results).conn} \subseteq Waiting'
  <2>1. SUFFICES ASSUME NEW i \in 1..Len(results), i # 1
                 PROVE  results[i].conn \in Waiting'
    BY <1>1 DEF Waiting
  <2>2. i - 1 \in 1..Len(results') /\ results'[i - 1] = results[(i - 1) + 1] /\ (i - 1) + 1 = i
    BY <1>1, <1>2, <2>1
  <2>. QED BY <2>2 DEF Waiting
<1>6. Head(results).conn \in Waiting /\ Head(results).conn \in Endpoints
  BY <1>1 DEF Waiting
<1>. QED BY <1>2, <1>3, <1>4, <1>5, <1>6

LEMMA InitJoin == JoinInit => JoinInv
<1>. SUFFICES ASSUME JoinInit PROVE JoinInv
  OBVIOUS
<1>0. IsFiniteSet(Endpoints) /\ Cardinality(Endpoints) \in Nat
  BY ConnectAssumption, FS_CardinalityType
<1>2. Len(results) = 0 /\ results = << >> BY DEF JoinInit
<1>1. JoinTypeOK
  <2>. DEFINE Result == [conn : Endpoints, ok : BOOLEAN]
  <2>1. results \in Seq(Result)
    <3>. HIDE DEF Result
    <3>. QED BY <1>2
  <2>2. remaining \in 0..Cardinality(Endpoints)
    <3>1. remaining = 0 BY DEF JoinInit
    <3>. QED BY <1>0, <3>1
  <2>3. result \in [conn : Conns \cup {NoConn}, host : Ids \cup {NoID}]
    BY DEF JoinInit, NoResult
  <2>. QED BY <2>1, <2>2, <2>3 DEF JoinInit, JoinTypeOK
<1>3. Waiting = {} BY <1>2 DEF Waiting
<1>4. step \in {"lan", "lookup"} BY DEF JoinInit
<1>5. DialsApart
  <2>1. dialing = {} /\ winner = NoConn BY DEF JoinInit
  <2>. QED BY <1>2, <1>3, <2>1 DEF DialsApart
<1>6. CountsDials /\ ResultStaysOpen /\ DialsOpen /\ ResultApart
  BY <1>4 DEF CountsDials, ResultStaysOpen, DialsOpen, ResultApart
<1>7. Proven BY <1>4 DEF JoinInit, Proven, ChatsWithTarget, NoResult
<1>. QED BY <1>1, <1>5, <1>6, <1>7 DEF JoinInv

(***************************************************************************)
(* What the actions of Connect are made of.                                *)
(***************************************************************************)

Steps == {"lan", "lookup", "race", "relay", "await", "handshake", "hello", "chat", "over"}

\* What the types say of where the guest is, and of what Join returned.
Whereabouts ==
    /\ step \in Steps /\ force \in Forces /\ who \in Ids \cup {NoID}
    /\ result \in [conn : Conns \cup {NoConn}, host : Ids \cup {NoID}]
    /\ ResultStaysOpen /\ ResultApart /\ Proven

\* What they say of the race.
Race ==
    /\ dialing \subseteq Endpoints
    /\ results \in Seq([conn : Endpoints, ok : BOOLEAN])
    /\ remaining \in 0..Cardinality(Endpoints)
    /\ winner \in Endpoints \cup {NoConn}
    /\ CountsDials /\ DialsApart /\ DialsOpen

LEMMA InvIsParts == JoinInv <=> Whereabouts /\ Race /\ open \subseteq Conns
BY DEF JoinInv, JoinTypeOK, Whereabouts, Race, Steps

LEMMA InvIsPartsPrimed == JoinInv' <=> Whereabouts' /\ Race' /\ open' \subseteq Conns
BY DEF JoinInv, JoinTypeOK, Whereabouts, Race, Steps

LEMMA Reaching ==
    ASSUME NEW c \in Conns, NEW h \in {NoID, Target}, Reaches(c, h),
           c \in open', c \notin Waiting' \cup dialing'
    PROVE  Whereabouts' /\ step' = "handshake"
<1>1. /\ step' = "handshake" /\ force' = "" /\ who' \in Ids
      /\ result' = [conn |-> c, host |-> h]
  BY DEF Reaches
<1>2. result'.conn = c /\ result'.host = h BY <1>1
<1>3. result' \in [conn : Conns \cup {NoConn}, host : Ids \cup {NoID}]
  BY <1>1 DEF Ids
<1>. QED BY <1>1, <1>2, <1>3
     DEF Whereabouts, Steps, Forces, ResultStaysOpen, ResultApart, Proven, ChatsWithTarget

LEMMA Falling ==
    ASSUME Whereabouts, NEW path, NEW next \in {"lookup", "relay"}, FallsBack(path, next)
    PROVE  Whereabouts' /\ step' \in {next, "over"}
<1>1. step' \in {next, "over"} /\ force' = force /\ result' = result /\ who' = who
  BY DEF FallsBack
<1>. QED BY <1>1
     DEF Whereabouts, Steps, ResultStaysOpen, ResultApart, Proven, ChatsWithTarget

LEMMA Leaving ==
    ASSUME Whereabouts, NEW w \in Endpoints \cup {NoConn}, LeavesRace(w),
           w # NoConn => w \in open' /\ w \notin Waiting' \cup dialing'
    PROVE  /\ Whereabouts' /\ remaining' = 0
           /\ step' \in {"handshake", "relay", "over"}
<1>1. CASE w = NoConn
  <2>1. FallsBack("direct", "relay") /\ remaining' = 0 BY <1>1 DEF LeavesRace
  <2>. QED BY <2>1, Falling
<1>2. CASE w # NoConn
  <2>1. Reaches(w, Target) /\ remaining' = 0 BY <1>2 DEF LeavesRace, HostID
  <2>2. w \in Conns BY <1>2 DEF Conns
  <2>. QED BY <1>2, <2>1, <2>2, Reaching
<1>. QED BY <1>1, <1>2

\* Nothing happens in the race, which is not begun.
LEMMA QuietRace ==
    ASSUME Race, UNCHANGED << dialing, results, winner >>,
           remaining' \in {0, remaining},
           step' \notin {"lan", "race"}, step' = "lookup" => step \in {"lan", "lookup"}
    PROVE  Race' /\ Waiting' = Waiting
<1>1. Waiting' = Waiting BY DEF Waiting
<1>2. CountsDials' /\ DialsOpen' BY DEF CountsDials, DialsOpen
<1>3. DialsApart'
  BY <1>1 DEF Race, DialsApart
<1>4. 0 \in 0..Cardinality(Endpoints)
  BY ConnectAssumption, FS_CardinalityType
<1>. QED BY <1>1, <1>2, <1>3, <1>4 DEF Race

(***************************************************************************)
(* The actions of Connect.                                                 *)
(***************************************************************************)

LEMMA SearchSteps ==
    ASSUME JoinInv,
           \/ \E e \in Endpoints : DialsAddress(e)
           \/ LanAnswers \/ LanFails \/ LookupFails
           \/ \E endpoints \in SUBSET Endpoints : LookupFinds(endpoints)
    PROVE  JoinInv'
<1>. USE InvIsParts, InvIsPartsPrimed
<1>0. Lan \in Conns /\ Target \in {NoID, Target} /\ NoID \in {NoID, Target}
      /\ Endpoints \subseteq Conns
  BY DEF Conns
<1>1. step = "lan" => dialing = {} /\ results = << >> /\ Waiting = {}
  <2>1. Len(<< >>) = 0 OBVIOUS
  <2>. QED BY <2>1 DEF Race, DialsApart, Waiting
<1>2. ASSUME NEW e \in Endpoints, DialsAddress(e) PROVE JoinInv'
  <2>1. /\ step = "lan" /\ UNCHANGED << dialing, results, remaining, winner >>
        /\ \/ open' = open \cup {e} /\ Reaches(e, NoID)
           \/ step' = "over" /\ UNCHANGED << force, who, open, result >>
    BY <1>2 DEF DialsAddress
  <2>2. CASE open' = open \cup {e} /\ Reaches(e, NoID)
    <3>1. step' = "handshake" BY <2>2 DEF Reaches
    <3>2. Race' /\ Waiting' = Waiting BY <2>1, <3>1, QuietRace
    <3>3. Whereabouts' BY <1>0, <1>1, <2>1, <2>2, <3>2, Reaching
    <3>. QED BY <1>0, <2>2, <3>2, <3>3
  <2>3. CASE step' = "over" /\ UNCHANGED << force, who, open, result >>
    <3>2. Race' BY <2>1, <2>3, QuietRace
    <3>3. Whereabouts'
      BY <2>3 DEF Whereabouts, Steps, ResultStaysOpen, ResultApart, Proven, ChatsWithTarget
    <3>. QED BY <2>3, <3>2, <3>3
  <2>. QED BY <2>1, <2>2, <2>3
<1>3. ASSUME LanAnswers PROVE JoinInv'
  <2>1. /\ step = "lan" /\ UNCHANGED << dialing, results, remaining, winner >>
        /\ open' = open \cup {Lan} /\ Reaches(Lan, Target)
    BY <1>3 DEF LanAnswers, HostID
  <2>2. step' = "handshake" BY <2>1 DEF Reaches
  <2>3. Race' /\ Waiting' = Waiting BY <2>1, <2>2, QuietRace
  <2>4. Whereabouts' BY <1>0, <1>1, <2>1, <2>3, Reaching
  <2>. QED BY <1>0, <2>1, <2>3, <2>4
<1>4. ASSUME LanFails PROVE JoinInv'
  <2>1. /\ step = "lan" /\ UNCHANGED << dialing, results, remaining, winner, open >>
        /\ FallsBack("lan", "lookup")
    BY <1>4 DEF LanFails
  <2>2. Whereabouts' /\ step' \in {"lookup", "over"} BY <2>1, Falling
  <2>3. Race' BY <2>1, <2>2, QuietRace
  <2>. QED BY <2>1, <2>2, <2>3
<1>5. ASSUME LookupFails PROVE JoinInv'
  <2>1. /\ step' = "over"
        /\ UNCHANGED << force, who, dialing, results, remaining, winner, open, result >>
    BY <1>5 DEF LookupFails
  <2>2. Race' BY <2>1, QuietRace
  <2>3. Whereabouts'
    BY <2>1 DEF Whereabouts, Steps, ResultStaysOpen, ResultApart, Proven, ChatsWithTarget
  <2>. QED BY <2>1, <2>2, <2>3
<1>6. ASSUME NEW endpoints \in SUBSET Endpoints, LookupFinds(endpoints) PROVE JoinInv'
  <2>1. step = "lookup" /\ UNCHANGED << results, winner, open >>
    BY <1>6 DEF LookupFinds
  <2>2. CASE force = "relay" \/ endpoints = {}
    <3>1. FallsBack("direct", "relay") /\ UNCHANGED << dialing, remaining >>
      BY <1>6, <2>2 DEF LookupFinds
    <3>2. Whereabouts' /\ step' \in {"relay", "over"} BY <3>1, Falling
    <3>3. Race' BY <2>1, <3>1, <3>2, QuietRace
    <3>. QED BY <2>1, <3>2, <3>3
  <2>3. CASE ~(force = "relay" \/ endpoints = {})
    <3>1. /\ step' = "race" /\ dialing' = endpoints /\ endpoints # {}
          /\ remaining' = Cardinality(endpoints)
          /\ UNCHANGED << force, who, result >>
      BY <1>6, <2>3 DEF LookupFinds
    <3>2. /\ IsFiniteSet(endpoints) /\ Cardinality(endpoints) \in Nat
          /\ Cardinality(endpoints) # 0 /\ Cardinality(Endpoints) \in Nat
          /\ Cardinality(endpoints) <= Cardinality(Endpoints)
      BY <3>1, ConnectAssumption, FS_CardinalityType, FS_Subset, FS_EmptySet
    <3>3. results = << >> /\ winner = NoConn BY <2>1 DEF Race, DialsApart
    <3>4. results' = << >> /\ winner' = NoConn /\ Waiting' = {} /\ Len(results') = 0
      <4>1. Len(<< >>) = 0 OBVIOUS
      <4>. QED BY <2>1, <3>3, <4>1 DEF Waiting
    <3>5. CountsDials' BY <3>1, <3>2, <3>4 DEF CountsDials
    <3>6. DialsApart' BY <3>1, <3>4, ConnectAssumption DEF DialsApart
    <3>7. DialsOpen' BY <3>4 DEF DialsOpen
    <3>8. remaining' \in 0..Cardinality(Endpoints) BY <3>1, <3>2
    <3>9. Race' BY <2>1, <3>1, <3>5, <3>6, <3>7, <3>8 DEF Race
    <3>10. Whereabouts'
      BY <3>1 DEF Whereabouts, Steps, ResultStaysOpen, ResultApart, Proven, ChatsWithTarget
    <3>. QED BY <2>1, <3>9, <3>10
  <2>. QED BY <2>2, <2>3
<1>. QED BY <1>2, <1>3, <1>4, <1>5, <1>6

\* Reading one outcome, whichever it is.
LEMMA Hearing ==
    ASSUME JoinInv, step = "race", results # << >>,
           results' = Tail(results), UNCHANGED dialing,
           NEW w, winner' = w, w \in {winner, Head(results).conn},
           winner # NoConn => w = winner, w # NoConn => w \in open',
           open' \subseteq open,
           (GoesOn(w) /\ open' = open) \/ LeavesRace(w)
    PROVE  JoinInv'
<1>. USE InvIsParts, InvIsPartsPrimed
<1>1. /\ results' \in Seq([conn : Endpoints, ok : BOOLEAN])
      /\ Len(results') = Len(results) - 1
      /\ \A i \in 1..Len(results') : i + 1 \in 1..Len(results) /\ results'[i] = results[i + 1]
      /\ \A i, j \in 1..Len(results') : results'[i].conn = results'[j].conn => i = j
      /\ Waiting' = Waiting \ {Head(results).conn}
      /\ Head(results).conn \in Waiting /\ Head(results).conn \in Endpoints
  BY TailApart DEF Race, DialsApart
<1>2. w \in Endpoints \cup {NoConn} /\ w \notin Waiting' \cup dialing'
  BY <1>1 DEF Race, DialsApart
<1>3. Cardinality(dialing) \in Nat
  BY ConnectAssumption, FS_Subset, FS_CardinalityType DEF Race
<1>4. DialsApart' /\ Waiting' \cap dialing' = {} /\ step' \notin {"lan", "lookup"}
  <2>1. step' \notin {"lan", "lookup"}
    BY DEF GoesOn, LeavesRace, FallsBack, Reaches
  <2>. QED BY <1>1, <1>2, <2>1 DEF Race, DialsApart
<1>5. CASE LeavesRace(w)
  <2>1. Whereabouts' /\ remaining' = 0 /\ step' \in {"handshake", "relay", "over"}
    BY <1>2, <1>5, Leaving
  <2>2. CountsDials' /\ DialsOpen' BY <2>1 DEF CountsDials, DialsOpen
  <2>3. 0 \in 0..Cardinality(Endpoints) BY ConnectAssumption, FS_CardinalityType
  <2>4. Race' BY <1>1, <1>2, <1>4, <2>1, <2>2, <2>3 DEF Race
  <2>. QED BY <2>1, <2>4
<1>6. CASE GoesOn(w) /\ open' = open /\ ~LeavesRace(w)
  <2>1. /\ remaining # 1 /\ remaining' = remaining - 1
        /\ UNCHANGED << step, force, who, result >>
    BY <1>6 DEF GoesOn
  <2>2. remaining = Cardinality(dialing) + Len(results) /\ remaining > 0 /\ Len(results) \in Nat
    BY DEF Race, CountsDials
  <2>3. remaining' = Cardinality(dialing') + Len(results') /\ remaining' > 0
    BY <1>1, <1>3, <2>1, <2>2
  <2>4. remaining' \in 0..Cardinality(Endpoints)
    BY <2>1, <2>2, ConnectAssumption, FS_CardinalityType DEF Race
  <2>5. CountsDials' BY <2>3 DEF CountsDials
  <2>6. DialsOpen'
    <3>1. \A i \in 1..Len(results) : results[i].ok => results[i].conn \in open
      BY DEF Race, DialsOpen
    <3>2. \A i \in 1..Len(results') : results'[i].ok => results'[i].conn \in open'
      BY <1>1, <1>6, <3>1
    <3>. QED BY <3>2 DEF DialsOpen
  <2>7. Race' BY <1>1, <1>2, <1>4, <2>4, <2>5, <2>6 DEF Race
  <2>8. Whereabouts'
    BY <2>1 DEF Whereabouts, ResultStaysOpen, ResultApart, Proven, ChatsWithTarget
  <2>. QED BY <1>6, <2>7, <2>8
<1>. QED BY <1>5, <1>6

LEMMA HearingSteps ==
    ASSUME JoinInv, HearsFailure \/ HearsFirst \/ HearsAnother \/ BudgetEnds
    PROVE  JoinInv'
<1>. USE InvIsParts, InvIsPartsPrimed
<1>0. step = "race" => /\ winner # NoConn => winner \in open
                       /\ \A i \in 1..Len(results) : results[i].ok => results[i].conn \in open
                       /\ winner \notin Waiting
  BY DEF Race, DialsOpen, DialsApart
<1>1. results # << >> => 1 \in 1..Len(results) /\ Head(results) = results[1]
  <2>. DEFINE Result == [conn : Endpoints, ok : BOOLEAN]
  <2>1. results \in Seq(Result) BY DEF Race
  <2>. HIDE DEF Result
  <2>. QED BY <2>1
<1>2. results # << >> => Head(results).conn \in Waiting
  BY <1>1 DEF Waiting
<1>3. ASSUME HearsFailure PROVE JoinInv'
  BY <1>0, <1>3, Hearing DEF HearsFailure
<1>4. ASSUME HearsFirst PROVE JoinInv'
  <2>1. /\ step = "race" /\ results # << >> /\ results' = Tail(results) /\ winner = NoConn
        /\ winner' = Head(results).conn /\ UNCHANGED << dialing, open >>
        /\ GoesOn(Head(results).conn)
    BY <1>4 DEF HearsFirst
  <2>2. Head(results).conn \in open BY <1>0, <1>1, <1>4 DEF HearsFirst
  <2>. QED BY <2>1, <2>2, Hearing
<1>5. ASSUME HearsAnother PROVE JoinInv'
  <2>1. /\ step = "race" /\ results # << >> /\ results' = Tail(results) /\ winner # NoConn
        /\ winner' = winner /\ UNCHANGED dialing
        /\ open' = open \ {Head(results).conn} /\ LeavesRace(winner)
    BY <1>5 DEF HearsAnother
  <2>2. winner \in open' BY <1>0, <1>2, <2>1
  <2>. QED BY <2>1, <2>2, Hearing
<1>6. ASSUME BudgetEnds PROVE JoinInv'
  <2>1. /\ step = "race" /\ LeavesRace(winner)
        /\ UNCHANGED << dialing, results, winner, open >>
    BY <1>6 DEF BudgetEnds
  <2>2. Waiting' = Waiting BY <2>1 DEF Waiting
  <2>3. /\ winner \in Endpoints \cup {NoConn} /\ winner \notin Waiting' \cup dialing'
        /\ winner # NoConn => winner \in open'
    BY <1>0, <2>1, <2>2 DEF Race, DialsApart
  <2>4. Whereabouts' /\ remaining' = 0 /\ step' \in {"handshake", "relay", "over"}
    BY <2>1, <2>3, Leaving
  <2>5. Race' BY <2>1, <2>4, QuietRace
  <2>. QED BY <2>1, <2>4, <2>5
<1>. QED BY <1>3, <1>4, <1>5, <1>6

LEMMA RelaySteps ==
    ASSUME JoinInv,
           \/ RelayFails \/ RelayDials \/ AwaitFails
           \/ \E peer \in Ids : RelayPairs(peer)
           \/ HandshakeFails \/ Authenticates
    PROVE  JoinInv'
<1>. USE InvIsParts, InvIsPartsPrimed
<1>1. UNCHANGED << dialing, results, remaining, winner >> /\ step' \notin {"lan", "lookup", "race"}
  BY DEF RelayFails, RelayDials, AwaitFails, RelayPairs, HandshakeFails, Authenticates, Reaches
<1>2. Race' /\ Waiting' = Waiting BY <1>1, QuietRace
<1>3. Relay \in Conns /\ Relay \notin Waiting \cup dialing
  <2>. DEFINE Result == [conn : Endpoints, ok : BOOLEAN]
  <2>1. \A i \in 1..Len(results) : results[i] \in Result
    <3>. HIDE DEF Result
    <3>1. results \in Seq(Result) BY DEF Race, Result
    <3>. QED BY <3>1
  <2>2. \A i \in 1..Len(results) : results[i].conn \in Endpoints
    BY <2>1
  <2>. QED BY <2>2, ConnectAssumption DEF Conns, Waiting, Race
<1>4. ASSUME RelayFails \/ RelayDials PROVE JoinInv'
  <2>1. open' \subseteq Conns BY <1>3, <1>4 DEF RelayFails, RelayDials
  <2>2. Whereabouts'
    BY <1>4 DEF RelayFails, RelayDials, Whereabouts, Steps, ResultStaysOpen, ResultApart, Proven, ChatsWithTarget
  <2>. QED BY <1>2, <2>1, <2>2
<1>5. ASSUME AwaitFails \/ HandshakeFails PROVE JoinInv'
  <2>1. /\ step' = "over" /\ UNCHANGED << force, who, result >> /\ open' \subseteq open
    BY <1>5 DEF AwaitFails, HandshakeFails
  <2>2. Whereabouts'
    BY <2>1 DEF Whereabouts, Steps, ResultStaysOpen, ResultApart, Proven, ChatsWithTarget
  <2>. QED BY <1>2, <2>1, <2>2
<1>6. ASSUME NEW peer \in Ids, RelayPairs(peer) PROVE JoinInv'
  <2>1. step = "await" /\ Reaches(Relay, Target) /\ open' = open
    BY <1>6 DEF RelayPairs, HostID
  <2>2. Relay \in open' BY <2>1 DEF Whereabouts, ResultApart
  <2>3. Whereabouts' BY <1>1, <1>2, <1>3, <2>1, <2>2, Reaching
  <2>. QED BY <1>2, <2>1, <2>3
<1>7. ASSUME Authenticates PROVE JoinInv'
  <2>1. /\ step = "handshake" /\ step' = "hello" /\ result.host \in {NoID, who}
        /\ UNCHANGED << force, who, dialing, open, result >>
    BY <1>7 DEF Authenticates
  <2>2. Proven'
    BY <2>1 DEF Whereabouts, Proven, ChatsWithTarget
  <2>3. Whereabouts'
    BY <1>2, <2>1, <2>2 DEF Whereabouts, Steps, ResultStaysOpen, ResultApart
  <2>. QED BY <1>2, <2>1, <2>3
<1>. QED BY <1>4, <1>5, <1>6, <1>7

LEMMA DialSteps ==
    ASSUME JoinInv, NEW e \in Endpoints, NEW ok \in BOOLEAN, DialAnswers(e, ok)
    PROVE  JoinInv'
<1>. USE InvIsParts, InvIsPartsPrimed
<1>. DEFINE Result == [conn : Endpoints, ok : BOOLEAN]
            last == [conn |-> e, ok |-> ok]
<1>1. /\ e \in dialing /\ dialing' = dialing \ {e}
      /\ results' = Append(results, last)
      /\ open \subseteq open' /\ open' \subseteq open \cup {e}
      /\ UNCHANGED << step, force, who, remaining, winner, result >>
  BY DEF DialAnswers
<1>0. ok => e \in open'
  BY DEF DialAnswers
<1>2. last \in Result /\ last.conn = e /\ (last.ok => ok)
  OBVIOUS
<1>3. results \in Seq(Result) BY DEF Race
<1>4. /\ results' \in Seq(Result) /\ Len(results) \in Nat /\ Len(results') = Len(results) + 1
      /\ \A i \in 1..Len(results) : results'[i] = results[i]
      /\ results'[Len(results) + 1] = last
  <2>. HIDE DEF Result, last
  <2>. QED BY <1>1, <1>2, <1>3
<1>. HIDE DEF last
<1>5. Waiting' = Waiting \cup {e}
  <2>1. \A i \in 1..Len(results') : i \in 1..Len(results) \/ i = Len(results) + 1
    BY <1>4
  <2>2. \A i \in 1..Len(results) : i \in 1..Len(results')
    BY <1>4
  <2>3. Len(results) + 1 \in 1..Len(results')
    BY <1>4
  <2>4. Waiting' \subseteq Waiting \cup {e}
    BY <1>2, <1>4, <2>1 DEF Waiting
  <2>5. Waiting \subseteq Waiting'
    BY <1>4, <2>2 DEF Waiting
  <2>6. e \in Waiting'
    BY <1>2, <1>4, <2>3 DEF Waiting
  <2>. QED BY <2>4, <2>5, <2>6
<1>6. e \notin Waiting /\ e # winner /\ step \notin {"lan", "lookup"}
  BY <1>1 DEF Race, DialsApart
<1>7. \A i, j \in 1..Len(results') : results'[i].conn = results'[j].conn => i = j
  <2>1. \A i \in 1..Len(results) : results'[i].conn \in Waiting
    BY <1>4 DEF Waiting
  <2>2. SUFFICES ASSUME NEW i \in 1..Len(results'), NEW j \in 1..Len(results'),
                        results'[i].conn = results'[j].conn
                 PROVE  i = j
    OBVIOUS
  <2>3. \A k \in 1..Len(results') : k \in 1..Len(results) \/ k = Len(results) + 1
    BY <1>4
  <2>4. CASE i \in 1..Len(results) /\ j \in 1..Len(results)
    BY <1>4, <2>2, <2>4 DEF Race, DialsApart
  <2>. QED BY <1>2, <1>4, <1>6, <2>1, <2>2, <2>3, <2>4
<1>8. DialsApart'
  BY <1>1, <1>5, <1>6, <1>7 DEF Race, DialsApart
<1>9. CountsDials'
  <2>1. /\ IsFiniteSet(dialing) /\ Cardinality(dialing) \in Nat
        /\ Cardinality(dialing') = Cardinality(dialing) - 1
    BY <1>1, ConnectAssumption, FS_Subset, FS_CardinalityType, FS_RemoveElement DEF Race
  <2>. QED BY <1>1, <1>4, <2>1 DEF Race, CountsDials
<1>10. DialsOpen'
  <2>. SUFFICES ASSUME step = "race"
                PROVE  /\ winner' # NoConn => winner' \in open'
                       /\ \A i \in 1..Len(results') : results'[i].ok => results'[i].conn \in open'
    BY <1>1 DEF DialsOpen
  <2>1. winner' # NoConn => winner' \in open' BY <1>1 DEF Race, DialsOpen
  <2>2. ASSUME NEW i \in 1..Len(results'), results'[i].ok PROVE results'[i].conn \in open'
    <3>1. CASE i \in 1..Len(results)
      <4>1. results'[i] = results[i] BY <1>4, <3>1
      <4>2. results[i].ok => results[i].conn \in open BY <3>1 DEF Race, DialsOpen
      <4>. QED BY <1>1, <2>2, <4>1, <4>2, Zenon
    <3>2. CASE i = Len(results) + 1
      <4>1. results'[i] = last BY <1>4, <3>2
      <4>. QED BY <1>0, <1>2, <2>2, <4>1, Zenon
    <3>. QED BY <1>4, <3>1, <3>2
  <2>. QED BY <2>1, <2>2
<1>11. Race' BY <1>1, <1>4, <1>8, <1>9, <1>10 DEF Race
<1>12. Whereabouts'
  BY <1>1, <1>5 DEF Whereabouts, ResultStaysOpen, ResultApart, Proven, ChatsWithTarget
<1>13. open' \subseteq Conns BY <1>1 DEF Conns
<1>. QED BY <1>11, <1>12, <1>13

LEMMA DrainSteps == JoinInv /\ Drains => JoinInv'
<1>. SUFFICES ASSUME JoinInv, Drains PROVE JoinInv'
  OBVIOUS
<1>. USE InvIsParts, InvIsPartsPrimed
<1>1. /\ step \notin {"lan", "lookup", "race"} /\ results # << >> /\ results' = Tail(results)
      /\ open' \subseteq open /\ open \ {Head(results).conn} \subseteq open'
      /\ UNCHANGED << step, force, who, dialing, remaining, winner, result >>
  BY DEF Drains
<1>2. /\ results' \in Seq([conn : Endpoints, ok : BOOLEAN])
      /\ \A i, j \in 1..Len(results') : results'[i].conn = results'[j].conn => i = j
      /\ Waiting' = Waiting \ {Head(results).conn}
      /\ Head(results).conn \in Waiting /\ Head(results).conn \in Endpoints
  BY <1>1, TailApart DEF Race, DialsApart
<1>3. DialsApart' BY <1>1, <1>2 DEF Race, DialsApart
<1>4. Race' BY <1>1, <1>2, <1>3 DEF Race, CountsDials, DialsOpen
<1>5. ResultStaysOpen' /\ ResultApart'
  BY <1>1, <1>2, ConnectAssumption DEF Whereabouts, ResultStaysOpen, ResultApart
<1>6. Whereabouts'
  BY <1>1, <1>5 DEF Whereabouts, Proven, ChatsWithTarget
<1>. QED BY <1>1, <1>4, <1>6

\* Every step of Connect keeps the invariant.
LEMMA JoinSteps == JoinInv /\ (JoinStep \/ Authenticates) => JoinInv'
BY SearchSteps, HearingSteps, RelaySteps, DialSteps, DrainSteps DEF JoinStep, Joins

LEMMA JoinStutters == JoinInv /\ UNCHANGED joinVars => JoinInv'
<1>. SUFFICES ASSUME JoinInv, UNCHANGED joinVars PROVE JoinInv'
  OBVIOUS
<1>. USE InvIsParts, InvIsPartsPrimed DEF joinVars
<1>1. Waiting' = Waiting BY DEF Waiting
<1>2. Race' BY <1>1 DEF Race, CountsDials, DialsApart, DialsOpen
<1>3. Whereabouts'
  BY <1>1 DEF Whereabouts, ResultStaysOpen, ResultApart, Proven, ChatsWithTarget
<1>. QED BY <1>2, <1>3

LEMMA JoinReturns == \A reason : JoinInv /\ Returns(reason) => JoinInv'
<1>. SUFFICES ASSUME NEW reason, JoinInv, Returns(reason) PROVE JoinInv'
  OBVIOUS
<1>. USE InvIsParts, InvIsPartsPrimed
<1>1. /\ step' = "over" /\ open' \subseteq open
      /\ UNCHANGED << force, who, dialing, results, remaining, winner, result >>
  BY DEF Returns
<1>2. Race' BY <1>1, QuietRace
<1>3. Whereabouts'
  BY <1>1 DEF Whereabouts, Steps, ResultStaysOpen, ResultApart, Proven, ChatsWithTarget
<1>. QED BY <1>1, <1>2, <1>3

LEMMA JoinGreeted ==
    JoinInv /\ step = "hello" /\ step' = "chat"
    /\ UNCHANGED << force, who, dialing, results, remaining, winner, open, result >>
    => JoinInv'
<1>. SUFFICES ASSUME JoinInv, step = "hello", step' = "chat",
                     UNCHANGED << force, who, dialing, results, remaining, winner, open, result >>
              PROVE  JoinInv'
  OBVIOUS
<1>. USE InvIsParts, InvIsPartsPrimed
<1>1. Race' /\ Waiting' = Waiting BY QuietRace
<1>2. Whereabouts'
  BY <1>1 DEF Whereabouts, Steps, ResultStaysOpen, ResultApart, Proven, ChatsWithTarget
<1>. QED BY <1>1, <1>2

-----------------------------------------------------------------------------
(***************************************************************************)
(* The chat.                                                               *)
(***************************************************************************)

\* The packets, and the goroutines that share the connection.
Packets ==
    /\ sent \in Seq(Kinds) /\ Len(sent) <= MaxPackets /\ got \in 0..Len(sent)
    /\ incoming \in Seq(Nat) /\ Len(incoming) <= INCOMING
    /\ hostEnd \in {"up", "gone"} /\ unread \in 0..TRANSPORT
    /\ lines \in 0..MaxLines /\ rekeys \in 0..MaxRekeys

Goroutines ==
    /\ rd \in {"off", "receive", "ack", "offer", "done"}
    /\ readEnd \in {"none", "eof", "error"}
    /\ wr \in [Writers -> {"idle", "wait", "write"}]
    /\ rd = "ack" <=> wr["reader"] # "idle"
    /\ \A u, v \in Writers : wr[u] = "write" /\ wr[v] = "write" => u = v
    /\ ticker \in {"off", "on", "done"} /\ how \in {"none", "quit", "failed", "closed"}

Searching == {"lan", "lookup", "race", "relay", "await", "handshake"}

\* Nothing of the chat runs before the handshake.
NotYet == step \in Searching => rd = "off"

ChatInv == Packets /\ Goroutines /\ NotYet /\ broken \in BOOLEAN

GuestInv == JoinInv /\ ChatInv

LEMMA InitGuest == GuestInit => GuestInv
<1>. SUFFICES ASSUME GuestInit PROVE GuestInv
  OBVIOUS
<1>1. JoinInv BY InitJoin DEF GuestInit
<1>2. sent = << >> /\ incoming = << >> /\ got = 0 /\ unread = 0 /\ lines = 0 /\ rekeys = 0
      /\ hostEnd = "up"
  BY DEF GuestInit
<1>3. << >> \in Seq(Kinds) /\ << >> \in Seq(Nat) /\ Len(<< >>) = 0
  OBVIOUS
<1>4. Packets BY <1>2, <1>3, GuestChatAssumption DEF Packets
<1>5. Goroutines BY DEF GuestInit, Goroutines, Writers
<1>6. NotYet /\ broken \in BOOLEAN BY DEF GuestInit, NotYet
<1>. QED BY <1>1, <1>4, <1>5, <1>6 DEF GuestInv, ChatInv

\* The steps of the chat once it has begun.
ChatStep ==
    \/ Reads \/ ReceiveFails
    \/ \E v \in Writers : Writes(v)
    \/ TickerFires \/ TickerStops
    \/ Shows \/ Types \/ Leaves \/ ChatCloses
    \/ \E kind \in Kinds : HostSends(kind)
    \/ HostReads \/ HostHangsUp

\* They leave what Join did alone, or end the chat, or begin to talk.
LEMMA ChatIsApart ==
    ASSUME ChatStep
    PROVE  \/ UNCHANGED joinVars
           \/ \E reason : Returns(reason)
           \/ /\ step = "hello" /\ step' = "chat"
              /\ UNCHANGED << force, who, dialing, results, remaining, winner, open, result >>
<1>1. ASSUME Reads \/ ReceiveFails
      PROVE  \/ UNCHANGED joinVars
             \/ \E reason : Returns(reason)
             \/ /\ step = "hello" /\ step' = "chat"
                /\ UNCHANGED << force, who, dialing, results, remaining, winner, open, result >>
  BY <1>1 DEF Reads, ReceiveFails, ReceivesRekey, ReceivesFirst, Receives, SeesEnd,
              SeesClosed, HandsOver, IsReleased, ReadingEnds
<1>2. ASSUME NEW v \in Writers, Writes(v)
      PROVE  UNCHANGED joinVars \/ \E reason : Returns(reason)
  BY <1>2 DEF Writes, Locks, Written, WriteFails, ReadingEnds
<1>3. ASSUME Leaves \/ ChatCloses PROVE \E reason : Returns(reason)
  BY <1>3 DEF Leaves, ChatCloses
<1>4. ASSUME \/ TickerFires \/ TickerStops \/ Shows \/ Types \/ HostReads \/ HostHangsUp
             \/ \E kind \in Kinds : HostSends(kind)
      PROVE  UNCHANGED joinVars
  BY <1>4 DEF TickerFires, TickerStops, Shows, Types, HostReads, HostHangsUp, HostSends
<1>. QED BY <1>1, <1>2, <1>3, <1>4 DEF ChatStep

\* What is queued, counted and in transit stays within its bounds.
LEMMA PacketsKept ==
    ASSUME Packets, Goroutines, ChatStep
    PROVE  Packets'
<1>. USE GuestChatAssumption DEF Packets
<1>1. ASSUME ReceivesRekey \/ ReceivesFirst \/ Receives PROVE Packets'
  <2>1. got < Len(sent) /\ got' = got + 1
        /\ UNCHANGED << sent, hostEnd, incoming, unread, lines, rekeys >>
    BY <1>1 DEF ReceivesRekey, ReceivesFirst, Receives
  <2>. QED BY <2>1
<1>2. ASSUME HandsOver PROVE Packets'
  <2>1. Len(incoming) < INCOMING /\ incoming' = Append(incoming, got) /\ got \in Nat
        /\ UNCHANGED << sent, hostEnd, got, unread, lines, rekeys >>
    BY <1>2 DEF HandsOver
  <2>2. incoming' \in Seq(Nat) /\ Len(incoming') <= INCOMING BY <2>1
  <2>. QED BY <2>1, <2>2
<1>3. ASSUME SeesEnd \/ SeesClosed \/ ReceiveFails \/ IsReleased PROVE Packets'
  BY <1>3 DEF SeesEnd, SeesClosed, ReceiveFails, IsReleased
<1>4. ASSUME NEW v \in Writers, Writes(v) PROVE Packets'
  <2>1. unread' \in 0..TRANSPORT /\ UNCHANGED << sent, hostEnd, got, incoming, lines, rekeys >>
    BY <1>4 DEF Writes, Locks, Written, WriteFails
  <2>. QED BY <2>1
<1>5. ASSUME TickerFires \/ TickerStops \/ Types \/ Leaves \/ HostReads \/ HostHangsUp
      PROVE  Packets'
  <2>1. UNCHANGED << sent, got, incoming >>
    BY <1>5 DEF TickerFires, TickerStops, Types, Leaves, HostReads, HostHangsUp
  <2>2. hostEnd' \in {"up", "gone"} /\ unread' \in 0..TRANSPORT
        /\ lines' \in 0..MaxLines /\ rekeys' \in 0..MaxRekeys
    BY <1>5 DEF TickerFires, TickerStops, Types, Leaves, HostReads, HostHangsUp
  <2>. QED BY <2>1, <2>2
<1>6. ASSUME Shows \/ ChatCloses PROVE Packets'
  <2>1. UNCHANGED << sent, hostEnd, got, unread, lines, rekeys >>
    BY <1>6 DEF Shows, ChatCloses
  <2>2. incoming' = << >> \/ (incoming # << >> /\ incoming' = Tail(incoming))
    BY <1>6 DEF Shows, ChatCloses
  <2>3. CASE incoming' = << >>
    <3>1. incoming' \in Seq(Nat) /\ Len(incoming') = 0 BY <2>3
    <3>. QED BY <2>1, <3>1
  <2>4. CASE incoming # << >> /\ incoming' = Tail(incoming)
    <3>1. incoming' \in Seq(Nat) /\ Len(incoming') = Len(incoming) - 1 /\ Len(incoming) \in Nat
      BY <2>4
    <3>. QED BY <2>1, <3>1
  <2>. QED BY <2>2, <2>3, <2>4
<1>7. ASSUME NEW kind \in Kinds, HostSends(kind) PROVE Packets'
  <2>1. Len(sent) < MaxPackets /\ sent' = Append(sent, kind)
        /\ UNCHANGED << hostEnd, got, incoming, unread, lines, rekeys >>
    BY <1>7 DEF HostSends
  <2>2. sent' \in Seq(Kinds) /\ Len(sent') = Len(sent) + 1 BY <2>1
  <2>. QED BY <2>1, <2>2
<1>. QED BY <1>1, <1>2, <1>3, <1>4, <1>5, <1>6, <1>7 DEF ChatStep, Reads

\* One goroutine writes at a time, and the reader waits for what it writes.
LEMMA GoroutinesKept ==
    ASSUME Goroutines, NotYet, ChatStep
    PROVE  Goroutines' /\ NotYet'
<1>. USE DEF Goroutines, NotYet, Searching, Writers
<1>1. ASSUME Reads \/ ReceiveFails PROVE Goroutines' /\ NotYet'
  <2>1. ASSUME ReceivesRekey PROVE Goroutines' /\ NotYet'
    BY <2>1 DEF ReceivesRekey, joinVars, Linked
  <2>2. ASSUME ReceivesFirst PROVE Goroutines' /\ NotYet'
    BY <2>2 DEF ReceivesFirst, Returns
  <2>3. ASSUME Receives PROVE Goroutines' /\ NotYet'
    BY <2>3 DEF Receives, joinVars
  <2>4. ASSUME SeesEnd \/ SeesClosed \/ ReceiveFails PROVE Goroutines' /\ NotYet'
    BY <2>4 DEF SeesEnd, SeesClosed, ReceiveFails, ReadingEnds, Returns, joinVars, Linked
  <2>5. ASSUME HandsOver \/ IsReleased PROVE Goroutines' /\ NotYet'
    BY <2>5 DEF HandsOver, IsReleased, joinVars
  <2>. QED BY <1>1, <2>1, <2>2, <2>3, <2>4, <2>5 DEF Reads
<1>2. ASSUME NEW v \in Writers, Writes(v) PROVE Goroutines' /\ NotYet'
  <2>1. ASSUME Locks(v) PROVE Goroutines' /\ NotYet'
    BY <2>1 DEF Locks, joinVars
  <2>2. ASSUME Written(v) PROVE Goroutines' /\ NotYet'
    BY <2>2 DEF Written, joinVars, Linked
  <2>3. ASSUME WriteFails(v) PROVE Goroutines' /\ NotYet'
    BY <2>3 DEF WriteFails, ReadingEnds, Returns, joinVars
  <2>. QED BY <1>2, <2>1, <2>2, <2>3 DEF Writes
<1>3. ASSUME \/ TickerFires \/ TickerStops \/ Types \/ Shows \/ HostReads \/ HostHangsUp
             \/ \E kind \in Kinds : HostSends(kind)
      PROVE  Goroutines' /\ NotYet'
  <2>1. ASSUME TickerFires PROVE Goroutines' /\ NotYet'
    BY <2>1 DEF TickerFires, joinVars
  <2>2. ASSUME TickerStops PROVE Goroutines' /\ NotYet'
    BY <2>2 DEF TickerStops, joinVars
  <2>3. ASSUME Types PROVE Goroutines' /\ NotYet'
    BY <2>3 DEF Types, AtPrompt, joinVars
  <2>4. ASSUME Shows \/ HostReads \/ HostHangsUp \/ \E kind \in Kinds : HostSends(kind)
        PROVE  Goroutines' /\ NotYet'
    <3>1. UNCHANGED << step, rd, readEnd, wr, ticker, how >>
      BY <2>4 DEF Shows, HostReads, HostHangsUp, HostSends, joinVars
    <3>. QED BY <3>1
  <2>. QED BY <1>3, <2>1, <2>2, <2>3, <2>4
<1>4. ASSUME Leaves \/ ChatCloses PROVE Goroutines' /\ NotYet'
  BY <1>4 DEF Leaves, ChatCloses, Returns
<1>. QED BY <1>1, <1>2, <1>3, <1>4 DEF ChatStep

LEMMA BrokenStaysBoolean == ChatStep /\ broken \in BOOLEAN => broken' \in BOOLEAN
BY DEF ChatStep, Reads, ReceiveFails, ReceivesRekey, ReceivesFirst, Receives, SeesEnd,
       SeesClosed, HandsOver, IsReleased, Writes, Locks, Written, WriteFails, TickerFires,
       TickerStops, Shows, Types, Leaves, ChatCloses, HostSends, HostReads, HostHangsUp

LEMMA ChatStepInv == GuestInv /\ ChatStep => GuestInv'
<1>. SUFFICES ASSUME GuestInv, ChatStep PROVE GuestInv'
  OBVIOUS
<1>1. JoinInv /\ Packets /\ Goroutines /\ NotYet /\ broken \in BOOLEAN
  BY DEF GuestInv, ChatInv
<1>2. JoinInv' BY <1>1, ChatIsApart, JoinStutters, JoinReturns, JoinGreeted
<1>3. Packets' BY <1>1, PacketsKept
<1>4. Goroutines' /\ NotYet' BY <1>1, GoroutinesKept
<1>5. broken' \in BOOLEAN BY <1>1, BrokenStaysBoolean
<1>. QED BY <1>2, <1>3, <1>4, <1>5 DEF GuestInv, ChatInv

LEMMA ChatUnchanged ==
    ChatInv /\ UNCHANGED chatVars /\ (step' \in Searching => step \in Searching) => ChatInv'
BY DEF ChatInv, Packets, Goroutines, NotYet, chatVars

\* Where a step of Connect leads: the search never begins again.
LEMMA JoinWhere ==
    ASSUME JoinStep
    PROVE  step' = step \/ (step \in Searching /\ step' \in Searching \cup {"over"})
<1>1. ASSUME NEW c, NEW h, Reaches(c, h) PROVE step' = "handshake"
  BY <1>1, Zenon DEF Reaches
<1>2. ASSUME NEW p, NEW next, FallsBack(p, next) PROVE step' \in {"over", next}
  BY <1>2 DEF FallsBack
<1>3. ASSUME NEW w, LeavesRace(w) PROVE step' \in {"handshake", "over", "relay"}
  BY <1>1, <1>2, <1>3 DEF LeavesRace
<1>4. ASSUME NEW w, GoesOn(w) PROVE step' \in {step, "handshake", "over", "relay"}
  BY <1>3, <1>4 DEF GoesOn
<1>5. ASSUME NEW e \in Endpoints, DialsAddress(e)
      PROVE  step = "lan" /\ step' \in {"handshake", "over"}
  <2>1. step = "lan" /\ (step' = "handshake" \/ step' = "over")
    BY <1>1, <1>5, Zenon DEF DialsAddress
  <2>. QED BY <2>1
<1>6. ASSUME \/ LanAnswers \/ LanFails \/ LookupFails
             \/ \E endpoints \in SUBSET Endpoints : LookupFinds(endpoints)
      PROVE  /\ step \in {"lan", "lookup"}
             /\ step' \in {"handshake", "over", "lookup", "relay", "race"}
  BY <1>1, <1>2, <1>6 DEF LanAnswers, LanFails, LookupFails, LookupFinds
<1>7. ASSUME HearsFailure \/ HearsFirst \/ HearsAnother \/ BudgetEnds
      PROVE  step = "race" /\ step' \in {"race", "handshake", "over", "relay"}
  BY <1>3, <1>4, <1>7 DEF HearsFailure, HearsFirst, HearsAnother, BudgetEnds
<1>8. ASSUME \/ RelayFails \/ RelayDials \/ AwaitFails \/ HandshakeFails
             \/ \E peer \in Ids : RelayPairs(peer)
      PROVE  /\ step \in {"relay", "await", "handshake"}
             /\ step' \in {"over", "await", "handshake"}
  BY <1>1, <1>8 DEF RelayFails, RelayDials, AwaitFails, HandshakeFails, RelayPairs
<1>9. ASSUME (\E e \in Endpoints, ok \in BOOLEAN : DialAnswers(e, ok)) \/ Drains
      PROVE  step' = step
  BY <1>9 DEF DialAnswers, Drains
<1>. QED BY <1>5, <1>6, <1>7, <1>8, <1>9 DEF JoinStep, Joins, Searching

LEMMA ChatStartsInv == GuestInv /\ ChatStarts => GuestInv'
<1>. SUFFICES ASSUME GuestInv, ChatStarts PROVE GuestInv'
  OBVIOUS
<1>1. JoinInv' BY JoinSteps DEF GuestInv, ChatStarts
<1>2. /\ step \in Searching /\ step' = "hello" /\ rd' = "receive" /\ ticker' = "on"
      /\ UNCHANGED << readEnd, wr, how >>
  BY DEF ChatStarts, Authenticates, Searching
<1>3. Packets' BY DEF GuestInv, ChatInv, Packets, ChatStarts
<1>4. Goroutines' /\ NotYet'
  BY <1>2 DEF GuestInv, ChatInv, Goroutines, NotYet, Searching
<1>5. broken' \in BOOLEAN BY DEF GuestInv, ChatInv, ChatStarts
<1>. QED BY <1>1, <1>3, <1>4, <1>5 DEF GuestInv, ChatInv

\* Every step keeps the invariant.
LEMMA NextInv == GuestInv /\ [GuestNext]_guestVars => GuestInv'
<1>. SUFFICES ASSUME GuestInv, [GuestNext]_guestVars PROVE GuestInv'
  OBVIOUS
<1>1. CASE JoinStep /\ UNCHANGED chatVars
  BY <1>1, JoinSteps, JoinWhere, ChatUnchanged DEF GuestInv, Searching
<1>2. CASE ChatStarts BY <1>2, ChatStartsInv
<1>3. CASE ChatStep BY <1>3, ChatStepInv
<1>4. CASE UNCHANGED guestVars
  <2>1. UNCHANGED joinVars /\ UNCHANGED chatVars BY <1>4 DEF guestVars
  <2>2. step' = step BY <2>1 DEF joinVars
  <2>. QED BY <2>1, <2>2, JoinStutters, ChatUnchanged DEF GuestInv
<1>. QED BY <1>1, <1>2, <1>3, <1>4 DEF GuestNext, ChatStep

\* A guest's search and chat: the inductive invariant, from Join's first step to
\* the end of chatSession.
THEOREM GuestInvariant == GuestSpec => []GuestInv
BY InitGuest, NextInv, PTL DEF GuestSpec

\* The loop of dialFastest counts right, the connection that Join returned stays
\* open while it is used, and the goroutines share it as they should, for any
\* number of endpoints (dialFastest, chatSession, writeMu).
THEOREM GuestIsConsistent == GuestSpec => []GuestConsistent
<1>1. GuestInv => GuestConsistent
  BY DEF GuestInv, JoinInv, ChatInv, Packets, Goroutines, GuestConsistent, GuestTypeOK
<1>. QED BY <1>1, GuestInvariant, PTL

\* A guest that asked for an ID talks to that ID and nobody else, whatever the
\* announcement, the phonebook, the relay and the addresses come up with
\* (tryLAN, tryDirect, tryRelay, openAuth).
THEOREM TargetOnly == GuestSpec => []ChatsWithTarget
<1>1. GuestInv => ChatsWithTarget BY DEF GuestInv, JoinInv, Proven
<1>. QED BY <1>1, GuestInvariant, PTL

-----------------------------------------------------------------------------
(***************************************************************************)
(* What the guest sees.                                                    *)
(***************************************************************************)

\* Renders, of whatever has been sent: q are the kinds of the packets.
InOrder(q, s, n) ==
    /\ Range(s) = {i \in 1..n : q[i] \in {"msg", "error"}}
    /\ \A i, j \in DOMAIN s : i < j => s[i] < s[j]

LEMMA RendersIsInOrder == \A s, n : Renders(s, n) <=> InOrder(sent, s, n)
BY DEF Renders, Displayed, InOrder

\* What comes later makes no difference.
LEMMA OrderStays ==
    ASSUME NEW q, NEW r, NEW s, NEW n \in Nat, \A i \in 1..n : r[i] = q[i]
    PROVE  InOrder(q, s, n) <=> InOrder(r, s, n)
<1>1. {i \in 1..n : q[i] \in {"msg", "error"}} = {i \in 1..n : r[i] \in {"msg", "error"}}
  OBVIOUS
<1>. QED BY <1>1 DEF InOrder

LEMMA NothingToShow ==
    ASSUME NEW q, NEW n \in Nat, \A i \in 1..n : q[i] \notin {"msg", "error"}
    PROVE  InOrder(q, << >>, n)
<1>1. Range(<< >>) = {} BY DEF Range
<1>2. {i \in 1..n : q[i] \in {"msg", "error"}} = {} OBVIOUS
<1>. QED BY <1>1, <1>2 DEF InOrder

LEMMA OneMoreHidden ==
    ASSUME NEW q, NEW s, NEW n \in Nat, InOrder(q, s, n), q[n + 1] \notin {"msg", "error"}
    PROVE  InOrder(q, s, n + 1)
<1>1. {i \in 1..n : q[i] \in {"msg", "error"}} = {i \in 1..(n + 1) : q[i] \in {"msg", "error"}}
  OBVIOUS
<1>. QED BY <1>1 DEF InOrder

LEMMA OneMoreShown ==
    ASSUME NEW q, NEW s \in Seq(Nat), NEW n \in Nat, InOrder(q, s, n),
           q[n + 1] \in {"msg", "error"}
    PROVE  InOrder(q, s \o << n + 1 >>, n + 1)
<1>. DEFINE t == s \o << n + 1 >>
<1>1. /\ t \in Seq(Nat) /\ Len(t) = Len(s) + 1 /\ Len(s) \in Nat
      /\ DOMAIN t = 1..Len(t) /\ DOMAIN s = 1..Len(s)
      /\ \A i \in 1..Len(s) : t[i] = s[i]
      /\ t[Len(s) + 1] = n + 1
  <2>1. << n + 1 >> \in Seq(Nat) /\ Len(<< n + 1 >>) = 1 /\ << n + 1 >>[1] = n + 1
    OBVIOUS
  <2>. QED BY <2>1, ConcatProperties, LenProperties
<1>2. \A i \in DOMAIN s : s[i] \in 1..n
  BY DEF InOrder, Range
<1>3. Range(t) = Range(s) \cup {n + 1}
  BY <1>1 DEF Range
<1>4. {i \in 1..(n + 1) : q[i] \in {"msg", "error"}}
        = {i \in 1..n : q[i] \in {"msg", "error"}} \cup {n + 1}
  OBVIOUS
<1>5. ASSUME NEW i \in DOMAIN t, NEW j \in DOMAIN t, i < j PROVE t[i] < t[j]
  <2>1. CASE j \in DOMAIN s BY <1>1, <1>5, <2>1 DEF InOrder
  <2>2. CASE j = Len(s) + 1 BY <1>1, <1>2, <1>5, <2>2
  <2>. QED BY <1>1, <2>1, <2>2
<1>. QED BY <1>3, <1>4, <1>5 DEF InOrder

\* What is shown first is whatever was said first.
LEMMA FirstIsFirst ==
    ASSUME NEW q, NEW s \in Seq(Nat), NEW t \in Seq(Nat), NEW n \in Nat, InOrder(q, s \o t, n)
    PROVE  \E m \in 0..n : InOrder(q, s, m)
<1>. DEFINE u == s \o t
<1>1. /\ Len(s) \in Nat /\ Len(t) \in Nat /\ Len(u) = Len(s) + Len(t)
      /\ DOMAIN u = 1..Len(u) /\ DOMAIN s = 1..Len(s)
      /\ \A i \in 1..Len(s) : u[i] = s[i]
  BY ConcatProperties, LenProperties
<1>0. InOrder(q, u, n) OBVIOUS
<1>. HIDE DEF u
<1>2. CASE s = << >>
  <2>1. \A i \in 1..0 : q[i] \notin {"msg", "error"} OBVIOUS
  <2>. QED BY <1>2, <2>1, NothingToShow
<1>3. CASE s # << >>
  <2>. DEFINE m == s[Len(s)]
  <2>1. Len(s) \in DOMAIN s BY <1>1, <1>3, EmptySeq
  <2>2. m \in 1..n BY <1>0, <1>1, <2>1 DEF InOrder, Range
  <2>3. \A i, j \in DOMAIN s : i < j => s[i] < s[j]
    BY <1>0, <1>1 DEF InOrder
  <2>4. ASSUME NEW i \in DOMAIN s
        PROVE  s[i] \in 1..m /\ q[s[i]] \in {"msg", "error"}
    <3>1. s[i] \in {k \in 1..n : q[k] \in {"msg", "error"}}
      BY <1>0, <1>1 DEF InOrder, Range
    <3>2. i = Len(s) \/ i < Len(s) BY <1>1
    <3>3. s[i] = m \/ s[i] < m BY <2>1, <2>3, <3>2
    <3>. QED BY <2>2, <3>1, <3>3
  <2>5. ASSUME NEW k \in 1..m, q[k] \in {"msg", "error"}
        PROVE  k \in Range(s)
    <3>0. k \in {i \in 1..n : q[i] \in {"msg", "error"}} BY <2>2, <2>5
    <3>1. PICK i \in DOMAIN u : u[i] = k
      BY <1>0, <3>0 DEF InOrder, Range
    <3>2. ~(Len(s) < i)
      <4>1. Len(s) \in DOMAIN u /\ u[Len(s)] = m BY <1>1, <2>1
      <4>2. Len(s) < i => m < k BY <1>0, <3>1, <4>1 DEF InOrder
      <4>. QED BY <2>2, <4>2
    <3>3. i \in DOMAIN s BY <1>1, <3>1, <3>2
    <3>. QED BY <1>1, <3>1, <3>3 DEF Range
  <2>6. Range(s) = {k \in 1..m : q[k] \in {"msg", "error"}}
    BY <2>4, <2>5 DEF Range
  <2>7. InOrder(q, s, m) BY <2>3, <2>6 DEF InOrder
  <2>. QED BY <2>2, <2>7
<1>. QED BY <1>2, <1>3

\* Until the greeting nothing but rekeys has been read.
Quiet ==
    step \notin {"chat", "over"} =>
        /\ shown = << >> /\ incoming = << >> /\ rd # "offer"
        /\ \A i \in 1..got : sent[i] = "rekey"

\* Between the connection and the screen nothing is missing.
Legible ==
    /\ shown \in Seq(Nat)
    /\ \E n \in 0..got : InOrder(sent, shown, n)
    /\ step = "chat" => InOrder(sent, shown \o incoming \o Held, got)

\* How the chat ends, and what has been shown when it does.
Parting ==
    /\ step # "chat" => wr["loop"] = "idle"
    /\ how # "none" => step = "over"
    /\ readEnd = "eof" => hostEnd = "gone" /\ got = Len(sent) /\ rd = "done"
    /\ how = "closed" => rd = "done" /\ InOrder(sent, shown, got)

Seen == Quiet /\ Legible /\ Parting

\* Steps that neither read a packet nor show one.
LEMMA NothingRead ==
    ASSUME Quiet, Legible, UNCHANGED << sent, got, incoming, shown >>,
           \/ step' \in {step, "over"}
           \/ {step, step'} \cap {"chat", "over"} = {},
           step # "over" => (rd' = "offer" <=> rd = "offer")
    PROVE  Quiet' /\ Legible'
<1>1. Quiet' BY DEF Quiet
<1>2. step' = "chat" => Held' = Held BY DEF Held
<1>. QED BY <1>1, <1>2 DEF Legible

LEMMA SeenInit == GuestInit => Seen
<1>. SUFFICES ASSUME GuestInit PROVE Seen
  OBVIOUS
<1>1. /\ step \in {"lan", "lookup"} /\ shown = << >> /\ incoming = << >> /\ rd = "off"
      /\ got = 0 /\ how = "none" /\ readEnd = "none" /\ wr["loop"] = "idle"
  <2>1. step \in {"lan", "lookup"} BY Zenon DEF GuestInit, JoinInit
  <2>. QED BY <2>1 DEF GuestInit, Writers
<1>2. InOrder(sent, << >>, 0)
  <2>1. \A i \in 1..0 : sent[i] \notin {"msg", "error"} OBVIOUS
  <2>. QED BY <2>1, NothingToShow
<1>3. << >> \in Seq(Nat) OBVIOUS
<1>4. Legible BY <1>1, <1>2, <1>3 DEF Legible
<1>. QED BY <1>1, <1>4 DEF Seen, Quiet, Parting

LEMMA SeenJoins ==
    ASSUME GuestInv, Seen, (JoinStep /\ UNCHANGED chatVars) \/ ChatStarts \/ UNCHANGED guestVars
    PROVE  Seen'
<1>1. /\ UNCHANGED << sent, hostEnd, got, readEnd, incoming, shown, wr, how >>
      /\ \/ step' \in {step, "over"}
         \/ {step, step'} \cap {"chat", "over"} = {}
      /\ step # "over" => (rd' = "offer" <=> rd = "offer")
      /\ rd = "done" => rd' = "done"
      /\ step = "over" => step' = "over"
      /\ step' = "chat" => step = "chat"
      /\ step = "chat" => step' = "chat"
  <2>1. CASE JoinStep /\ UNCHANGED chatVars
    BY <2>1, JoinWhere DEF chatVars, Searching
  <2>2. CASE ChatStarts
    BY <2>2 DEF ChatStarts, Authenticates, GuestInv, ChatInv, NotYet, Searching
  <2>3. CASE UNCHANGED guestVars
    BY <2>3 DEF guestVars, chatVars, joinVars
  <2>. QED BY <2>1, <2>2, <2>3
<1>2. Quiet' /\ Legible' BY <1>1, NothingRead DEF Seen
<1>3. Parting' BY <1>1 DEF Seen, Parting
<1>. QED BY <1>2, <1>3 DEF Seen

\* A packet is read.
LEMMA SeenReceives ==
    ASSUME GuestInv, Seen, ReceivesRekey \/ ReceivesFirst \/ Receives
    PROVE  Seen'
<1>1. /\ rd = "receive" /\ got < Len(sent) /\ got' = got + 1 /\ step \in {"hello", "chat"}
      /\ UNCHANGED << sent, hostEnd, readEnd, incoming, shown >>
      /\ wr'["loop"] = wr["loop"]
  BY DEF ReceivesRekey, ReceivesFirst, Receives, Linked, GuestInv, ChatInv, Goroutines, Writers
<1>2. /\ got \in Nat /\ got + 1 \in Nat /\ 0..got \subseteq 0..(got + 1)
      /\ incoming \in Seq(Nat) /\ shown \in Seq(Nat)
  BY DEF GuestInv, ChatInv, Packets, Seen, Legible
<1>3. \E n \in 0..got' : InOrder(sent', shown', n)
  BY <1>1, <1>2 DEF Seen, Legible
<1>4. how = "none" /\ readEnd # "eof" BY <1>1 DEF Seen, Parting
<1>5. Held = << >> /\ shown \o incoming \in Seq(Nat)
      /\ (shown \o incoming) \o << >> = shown \o incoming
  BY <1>1, <1>2, ConcatProperties, ConcatEmptySeq DEF Held
<1>6. CASE ReceivesRekey
  <2>1. rd' = "ack" /\ step' = step /\ how' = how /\ sent[got + 1] = "rekey"
    BY <1>6 DEF ReceivesRekey, joinVars
  <2>2. Quiet' BY <1>1, <1>2, <2>1 DEF Seen, Quiet
  <2>3. Held' = << >> BY <2>1 DEF Held
  <2>4. step = "chat" => InOrder(sent, shown \o incoming \o << >>, got + 1)
    BY <1>2, <1>5, <2>1, OneMoreHidden DEF Seen, Legible
  <2>5. Legible' BY <1>1, <1>2, <1>3, <2>1, <2>3, <2>4 DEF Legible
  <2>6. Parting' BY <1>1, <1>4, <2>1 DEF Seen, Parting
  <2>. QED BY <2>2, <2>5, <2>6 DEF Seen
<1>7. CASE ReceivesFirst
  <2>1. CASE sent[got + 1] = "hello"
    <3>1. step = "hello" /\ step' = "chat" /\ rd' = "receive" /\ how' = how
      BY <1>1, <1>7, <2>1 DEF ReceivesFirst
    <3>2. shown = << >> /\ incoming = << >> /\ \A i \in 1..got : sent[i] = "rekey"
      BY <3>1 DEF Seen, Quiet
    <3>3. \A i \in 1..(got + 1) : sent[i] \notin {"msg", "error"}
      <4>1. \A i \in 1..(got + 1) : i \in 1..got \/ i = got + 1 BY <1>2
      <4>. QED BY <2>1, <3>2, <4>1
    <3>4. InOrder(sent, << >>, got + 1) BY <1>2, <3>3, NothingToShow
    <3>5. Held' = << >> /\ shown \o incoming \o << >> = << >>
      BY <1>5, <3>1, <3>2, ConcatEmptySeq DEF Held
    <3>6. Legible' BY <1>1, <1>2, <1>3, <3>4, <3>5 DEF Legible
    <3>7. Quiet' BY <3>1 DEF Quiet
    <3>8. Parting' BY <1>1, <1>4, <3>1 DEF Seen, Parting
    <3>. QED BY <3>6, <3>7, <3>8 DEF Seen
  <2>2. CASE sent[got + 1] # "hello"
    <3>1. step = "hello" /\ step' = "over" /\ rd' = "done" /\ how' = "failed"
      BY <1>7, <2>2 DEF ReceivesFirst, Returns
    <3>2. Legible' BY <1>1, <1>2, <1>3, <3>1 DEF Legible
    <3>3. Quiet' BY <3>1 DEF Quiet
    <3>4. Parting' BY <1>1, <1>4, <3>1 DEF Seen, Parting
    <3>. QED BY <3>2, <3>3, <3>4 DEF Seen
  <2>. QED BY <2>1, <2>2
<1>8. CASE Receives
  <2>1. /\ step = "chat" /\ step' = "chat" /\ how' = how
        /\ rd' = IF sent[got + 1] \in {"msg", "error"} THEN "offer" ELSE "receive"
    BY <1>8 DEF Receives, joinVars
  <2>2. InOrder(sent, shown \o incoming, got)
    BY <1>5, <2>1 DEF Seen, Legible
  <2>3. InOrder(sent, shown \o incoming \o Held', got + 1)
    <3>1. CASE sent[got + 1] \in {"msg", "error"}
      BY <1>1, <1>2, <1>5, <2>1, <2>2, <3>1, OneMoreShown DEF Held
    <3>2. CASE sent[got + 1] \notin {"msg", "error"}
      <4>1. Held' = << >> BY <2>1, <3>2 DEF Held
      <4>. QED BY <1>2, <1>5, <2>2, <3>2, <4>1, OneMoreHidden
    <3>. QED BY <3>1, <3>2
  <2>4. Legible' BY <1>1, <1>2, <1>3, <2>3 DEF Legible
  <2>5. Quiet' BY <2>1 DEF Quiet
  <2>6. Parting' BY <1>1, <1>4, <2>1 DEF Seen, Parting
  <2>. QED BY <2>4, <2>5, <2>6 DEF Seen
<1>. QED BY <1>6, <1>7, <1>8

\* The reader ends, hands a packet over or is released.
LEMMA SeenReads ==
    ASSUME GuestInv, Seen,
           SeesEnd \/ SeesClosed \/ ReceiveFails \/ HandsOver \/ IsReleased
    PROVE  Seen'
<1>1. CASE SeesEnd \/ SeesClosed \/ ReceiveFails
  <2>1. /\ UNCHANGED << sent, hostEnd, got, incoming, shown, wr >>
        /\ rd = "receive" /\ rd' = "done" /\ readEnd' \in {"eof", "error"}
        /\ readEnd' = "eof" => hostEnd = "gone" /\ got = Len(sent)
        /\ \/ step' = step /\ how' = how
           \/ step = "hello" /\ step' = "over" /\ how' = "failed"
    BY <1>1 DEF SeesEnd, SeesClosed, ReceiveFails, ReadingEnds, Returns, joinVars
  <2>2. Quiet' /\ Legible' BY <2>1, NothingRead DEF Seen
  <2>3. Parting' BY <2>1 DEF Seen, Parting
  <2>. QED BY <2>2, <2>3 DEF Seen
<1>2. CASE HandsOver
  <2>1. /\ rd = "offer" /\ rd' = "receive" /\ incoming' = Append(incoming, got)
        /\ UNCHANGED << sent, hostEnd, got, readEnd, shown, wr, step, how >>
    BY <1>2 DEF HandsOver, joinVars
  <2>2. Quiet' BY <2>1 DEF Seen, Quiet
  <2>3. shown' \o incoming' \o Held' = shown \o incoming \o Held
    <3>1. /\ got \in Nat /\ incoming \in Seq(Nat) /\ shown \in Seq(Nat)
          /\ << got >> \in Seq(Nat)
      BY DEF GuestInv, ChatInv, Packets, Seen, Legible
    <3>2. Held = << got >> /\ Held' = << >> BY <2>1 DEF Held
    <3>3. incoming' = incoming \o << got >> /\ incoming' \in Seq(Nat)
      BY <2>1, <3>1, AppendIsConcat, AppendProperties
    <3>4. shown \o incoming' \in Seq(Nat)
      BY <3>1, <3>3, ConcatProperties
    <3>5. (shown \o incoming') \o << >> = shown \o incoming'
      BY <3>4, ConcatEmptySeq
    <3>6. shown \o (incoming \o << got >>) = (shown \o incoming) \o << got >>
      BY <3>1, ConcatAssociative
    <3>. QED BY <2>1, <3>2, <3>3, <3>5, <3>6
  <2>4. Legible' BY <2>1, <2>3 DEF Seen, Legible
  <2>5. Parting' BY <2>1 DEF Seen, Parting
  <2>. QED BY <2>2, <2>4, <2>5 DEF Seen
<1>3. CASE IsReleased
  <2>1. /\ step = "over" /\ step' = step /\ rd = "offer"
        /\ UNCHANGED << sent, hostEnd, got, readEnd, incoming, shown, wr, how >>
    BY <1>3 DEF IsReleased, joinVars
  <2>2. Quiet' /\ Legible' BY <2>1, NothingRead DEF Seen
  <2>3. Parting' BY <2>1 DEF Seen, Parting
  <2>. QED BY <2>2, <2>3 DEF Seen
<1>. QED BY <1>1, <1>2, <1>3

\* Send, the ticker, the prompt and what the host reads.
LEMMA SeenWrites ==
    ASSUME GuestInv, Seen,
           \/ \E v \in Writers : Writes(v)
           \/ TickerFires \/ TickerStops \/ Types \/ HostReads \/ HostHangsUp \/ Leaves
    PROVE  Seen'
<1>1. Goroutines BY DEF GuestInv, ChatInv
<1>2. /\ UNCHANGED << sent, got, incoming, shown >>
      /\ rd' = "offer" <=> rd = "offer"
      /\ rd = "done" => rd' = "done"
      /\ hostEnd = "gone" => hostEnd' = "gone"
      /\ readEnd' # "eof" \/ readEnd' = readEnd
      /\ \/ step' = step /\ how' = how
         \/ step \in {"hello", "chat"} /\ step' = "over" /\ how' \in {"quit", "failed"}
      /\ step' # "chat" => wr'["loop"] = "idle"
  <2>1. CASE TickerFires \/ TickerStops \/ Types \/ HostReads \/ HostHangsUp \/ Leaves
    BY <1>1, <2>1 DEF TickerFires, TickerStops, Types, HostReads, HostHangsUp, Leaves, AtPrompt,
                      Returns, joinVars, Goroutines, Writers, Seen, Parting
  <2>2. ASSUME NEW v \in Writers, Locks(v) \/ Written(v)
        PROVE  /\ UNCHANGED << sent, hostEnd, got, readEnd, incoming, shown, step, how >>
               /\ rd' = "offer" <=> rd = "offer"
               /\ rd = "done" => rd' = "done"
               /\ step' # "chat" => wr'["loop"] = "idle"
    BY <1>1, <2>2 DEF Locks, Written, joinVars, Goroutines, Writers, Seen, Parting
  <2>3. ASSUME NEW v \in Writers, WriteFails(v)
        PROVE  /\ UNCHANGED << sent, hostEnd, got, incoming, shown >>
               /\ rd' = "offer" <=> rd = "offer"
               /\ rd = "done" => rd' = "done"
               /\ readEnd' # "eof" \/ readEnd' = readEnd
               /\ \/ step' = step /\ how' = how
                  \/ step \in {"hello", "chat"} /\ step' = "over" /\ how' \in {"quit", "failed"}
               /\ step' # "chat" => wr'["loop"] = "idle"
    <3>1. wr[v] = "write" /\ wr' = [wr EXCEPT ![v] = "idle"]
          /\ UNCHANGED << sent, hostEnd, got, incoming, shown >>
      BY <2>3 DEF WriteFails
    <3>2. wr'["loop"] \in {wr["loop"], "idle"} /\ (v = "loop" => wr'["loop"] = "idle")
      BY <1>1, <3>1 DEF Goroutines, Writers
    <3>3. CASE v = "loop"
      BY <1>1, <2>3, <3>1, <3>2, <3>3 DEF WriteFails, Returns, joinVars, Seen, Parting
    <3>4. CASE v = "reader"
      <4>1. rd = "ack" BY <1>1, <3>1, <3>4 DEF Goroutines
      <4>2. ReadingEnds("error") BY <2>3, <3>4 DEF WriteFails
      <4>3. /\ rd' = "done" /\ readEnd' = "error"
            /\ \/ step' = step /\ how' = how
               \/ step = "hello" /\ step' = "over" /\ how' = "failed"
        BY <4>2 DEF ReadingEnds, Returns, joinVars
      <4>4. step' # "chat" => step # "chat" BY <4>3
      <4>. QED BY <3>1, <3>2, <4>1, <4>3, <4>4 DEF Seen, Parting
    <3>5. CASE v = "ticker"
      BY <2>3, <3>1, <3>2, <3>5 DEF WriteFails, joinVars, Seen, Parting
    <3>. QED BY <3>3, <3>4, <3>5 DEF Writers
  <2>. QED BY <2>1, <2>2, <2>3 DEF Writes
<1>3. Quiet' /\ Legible' BY <1>2, NothingRead DEF Seen
<1>4. Parting' BY <1>2 DEF Seen, Parting
<1>. QED BY <1>3, <1>4 DEF Seen

\* A packet is rendered.
LEMMA SeenShows ==
    ASSUME GuestInv, Seen, Shows
    PROVE  Seen'
<1>. DEFINE h == Head(incoming)
            tl == Tail(incoming)
<1>1. /\ step = "chat" /\ incoming # << >> /\ shown' = Append(shown, h) /\ incoming' = tl
      /\ UNCHANGED << sent, hostEnd, got, readEnd, rd, wr, step, how >>
  BY DEF Shows, AtPrompt, joinVars
<1>2. incoming \in Seq(Nat) /\ shown \in Seq(Nat) /\ got \in Nat
  BY DEF GuestInv, ChatInv, Packets, Seen, Legible
<1>3. h \in Nat /\ tl \in Seq(Nat) /\ << h >> \in Seq(Nat) /\ incoming = << h >> \o tl
  <2>1. h \in Nat /\ tl \in Seq(Nat) BY <1>1, <1>2, HeadTailProperties
  <2>2. incoming = << h >> \o tl
    BY <1>1, <1>2
  <2>. QED BY <2>1, <2>2
<1>. HIDE DEF h, tl
<1>4. Held \in Seq(Nat) /\ Held' = Held
  BY <1>1, <1>2 DEF Held
<1>5. shown' = shown \o << h >> /\ shown' \in Seq(Nat)
  BY <1>1, <1>2, <1>3, AppendIsConcat, AppendProperties
<1>6. shown' \o incoming' = shown \o incoming
  BY <1>1, <1>2, <1>3, <1>5, ConcatAssociative
<1>7. \E n \in 0..got : InOrder(sent, shown', n)
  <2>1. tl \o Held \in Seq(Nat) BY <1>3, <1>4, ConcatProperties
  <2>2. shown' \o tl \o Held = shown' \o (tl \o Held)
    <3>1. \A s, t, u \in Seq(Nat) : (s \o t) \o u = s \o (t \o u)
      BY ConcatAssociative
    <3>. QED BY <1>3, <1>4, <1>5, <3>1, Zenon
  <2>3. InOrder(sent, shown' \o (tl \o Held), got)
    BY <1>1, <1>6, <2>2 DEF Seen, Legible
  <2>. QED BY <1>2, <1>5, <2>1, <2>3, FirstIsFirst
<1>8. Legible' BY <1>1, <1>4, <1>5, <1>6, <1>7 DEF Seen, Legible
<1>9. Quiet' BY <1>1 DEF Quiet
<1>10. Parting' BY <1>1 DEF Seen, Parting
<1>. QED BY <1>8, <1>9, <1>10 DEF Seen

\* The rest is rendered when the reader has ended.
LEMMA SeenCloses ==
    ASSUME GuestInv, Seen, ChatCloses
    PROVE  Seen'
<1>1. /\ step = "chat" /\ rd = "done" /\ wr["loop"] = "idle"
      /\ shown' = shown \o incoming /\ incoming' = << >> /\ step' = "over" /\ how' = "closed"
      /\ UNCHANGED << sent, hostEnd, got, readEnd, rd, wr >>
  BY DEF ChatCloses, AtPrompt, Returns
<1>2. incoming \in Seq(Nat) /\ shown \in Seq(Nat) /\ got \in Nat
  BY DEF GuestInv, ChatInv, Packets, Seen, Legible
<1>3. shown' \in Seq(Nat) /\ InOrder(sent, shown', got)
  <2>1. Held = << >> BY <1>1 DEF Held
  <2>2. shown' \in Seq(Nat) BY <1>1, <1>2, ConcatProperties
  <2>3. shown' \o << >> = shown' BY <2>2, ConcatEmptySeq
  <2>. QED BY <1>1, <2>1, <2>2, <2>3 DEF Seen, Legible
<1>4. got \in 0..got BY <1>2
<1>5. Quiet' /\ Legible' BY <1>1, <1>3, <1>4 DEF Quiet, Legible
<1>6. Parting' BY <1>1, <1>3 DEF Seen, Parting
<1>. QED BY <1>5, <1>6 DEF Seen

\* What the host says next has not been read.
LEMMA SeenSends ==
    ASSUME GuestInv, Seen, NEW kind \in Kinds, HostSends(kind)
    PROVE  Seen'
<1>1. /\ hostEnd = "up" /\ step \in {"hello", "chat"} /\ sent' = Append(sent, kind)
      /\ UNCHANGED << hostEnd, got, readEnd, incoming, shown, rd, wr, step, how >>
  BY DEF HostSends, Linked, joinVars
<1>2. got \in Nat /\ \A i \in 1..got : sent'[i] = sent[i]
  <2>1. got \in 0..Len(sent) /\ sent \in Seq(Kinds) /\ Len(sent) \in Nat
    BY DEF GuestInv, ChatInv, Packets
  <2>2. \A i \in 1..Len(sent) : sent'[i] = sent[i] BY <1>1, <2>1, AppendProperties
  <2>. QED BY <2>1, <2>2
<1>3. \A s, n : n \in 0..got => (InOrder(sent, s, n) <=> InOrder(sent', s, n))
  <2>1. SUFFICES ASSUME NEW s, NEW n, n \in 0..got
                 PROVE  InOrder(sent, s, n) <=> InOrder(sent', s, n)
    OBVIOUS
  <2>2. n \in Nat /\ \A i \in 1..n : sent'[i] = sent[i] BY <1>2, <2>1
  <2>. QED BY <2>2, OrderStays
<1>4. got \in 0..got /\ Held' = Held BY <1>1, <1>2 DEF Held
<1>5. Legible' BY <1>1, <1>3, <1>4 DEF Seen, Legible
<1>6. Quiet' BY <1>1, <1>2 DEF Seen, Quiet
<1>7. Parting' BY <1>1 DEF Seen, Parting
<1>. QED BY <1>5, <1>6, <1>7 DEF Seen

LEMMA SeenNext == GuestInv /\ Seen /\ [GuestNext]_guestVars => Seen'
<1>. SUFFICES ASSUME GuestInv, Seen, [GuestNext]_guestVars PROVE Seen'
  OBVIOUS
<1>1. CASE (JoinStep /\ UNCHANGED chatVars) \/ ChatStarts \/ UNCHANGED guestVars
  BY <1>1, SeenJoins
<1>2. CASE Reads \/ ReceiveFails
  BY <1>2, SeenReceives, SeenReads DEF Reads
<1>3. CASE \/ \E v \in Writers : Writes(v)
           \/ TickerFires \/ TickerStops \/ Types \/ HostReads \/ HostHangsUp \/ Leaves
  BY <1>3, SeenWrites
<1>4. CASE Shows \/ ChatCloses \/ \E kind \in Kinds : HostSends(kind)
  BY <1>4, SeenShows, SeenCloses, SeenSends
<1>. QED BY <1>1, <1>2, <1>3, <1>4 DEF GuestNext

\* What the guest has seen: the packets between the connection and the screen,
\* in order, and how the chat ended (chatSession).
THEOREM SeenInvariant == GuestSpec => [](GuestInv /\ Seen)
BY InitGuest, SeenInit, NextInv, SeenNext, PTL DEF GuestSpec

\* What the host says is rendered in the order it was said, and as long as the
\* user has not left nothing of it is missing between the connection and the
\* screen (chatSession).
THEOREM ShownInOrder == GuestSpec => []NothingSkipped
<1>1. GuestInv /\ Seen => NothingSkipped
  BY RendersIsInOrder DEF Seen, Legible, NothingSkipped
<1>. QED BY <1>1, SeenInvariant, PTL

\* What arrived just before the far end hung up is shown before the chat closes
\* (chatSession, closed).
THEOREM LastWords == GuestSpec => []LastWordsShown
<1>1. GuestInv /\ Seen => LastWordsShown
  BY RendersIsInOrder DEF Seen, Parting, LastWordsShown
<1>. QED BY <1>1, SeenInvariant, PTL

-----------------------------------------------------------------------------
(***************************************************************************)
(* The station.                                                            *)
(***************************************************************************)

\* Draining belongs to a /quit: what makes OnlyQuitLoses inductive.
DrainsAfterQuit == ui \in {"drainLeft", "drainPeers"} => quits > 0

StationIInv == TypeOK /\ DrainsAfterQuit /\ OnlyQuitLoses

-----------------------------------------------------------------------------
\* A channel keeps its type and its capacity when an event is offered, and is
\* not empty afterwards.
LEMMA OfferKeepsType ==
    ASSUME NEW ch \in Seq(Guests), Len(ch) <= CAP, NEW g \in Guests
    PROVE  /\ Offer(ch, g) \in Seq(Guests)
           /\ Len(Offer(ch, g)) <= CAP
           /\ Offer(ch, g) # << >>
  BY StationAssumption DEF Offer

\* A channel keeps its type when its first event is taken.
LEMMA TailKeepsType ==
    ASSUME NEW ch \in Seq(Guests), Len(ch) <= CAP, ch # << >>
    PROVE  Tail(ch) \in Seq(Guests) /\ Len(Tail(ch)) <= CAP
  BY StationAssumption

\* The empty channel.
LEMMA EmptyIsChannel == << >> \in Seq(Guests) /\ Len(<< >>) <= CAP
  BY StationAssumption

-----------------------------------------------------------------------------
\* The initial states satisfy the invariant.
LEMMA InitStation == Init => StationIInv
  BY EmptyIsChannel, StationAssumption
     DEF Init, StationIInv, TypeOK, DrainsAfterQuit, OnlyQuitLoses, NobodyUnanswered

\* Every step keeps the types.
LEMMA TypeStep == TypeOK /\ [Next]_vars => TypeOK'
  <1> SUFFICES ASSUME TypeOK, [Next]_vars PROVE TypeOK'
    OBVIOUS
  <1> USE StationAssumption DEF TypeOK, hostVars, userVars
  <1>1. ASSUME NEW g \in Guests, Admitted(g) \/ Refused(g) PROVE TypeOK'
    BY <1>1 DEF Admitted, Refused
  <1>2. ASSUME NEW g \in Guests, SendHello(g) \/ HangsUp(g) PROVE TypeOK'
    BY <1>2 DEF SendHello, HangsUp, Removed
  <1>3. ASSUME NEW g \in Guests, AnnouncesArrival(g) PROVE TypeOK'
    BY <1>3, OfferKeepsType DEF AnnouncesArrival
  <1>4. ASSUME NEW g \in Guests, AnnouncesDeparture(g) PROVE TypeOK'
    BY <1>4, OfferKeepsType DEF AnnouncesDeparture
  <1>5. ASSUME NEW g \in Guests, ConnectionEnds(g) PROVE TypeOK'
    BY <1>5 DEF ConnectionEnds
  <1>6. CASE TakesArrival \/ SeesArrival
    BY <1>6, TailKeepsType DEF TakesArrival, SeesArrival
  <1>7. CASE SeesDeparture
    BY <1>7, TailKeepsType DEF SeesDeparture
  <1>8. CASE StartsChat \/ QuitDrainsLeft \/ QuitDrainsPeers
    BY <1>8, EmptyIsChannel DEF StartsChat, QuitDrainsLeft, QuitDrainsPeers
  <1>9. CASE Counts \/ ComesBack
    BY <1>9 DEF Counts, ComesBack
  <1>10. CASE QuitDisconnects
    BY <1>10 DEF QuitDisconnects
  <1>11. CASE JoinsElsewhere
    BY <1>11 DEF JoinsElsewhere
  <1>12. CASE SetsGroup
    BY <1>12 DEF SetsGroup
  <1>13. CASE Exits
    BY <1>13 DEF Exits
  <1>14. CASE UNCHANGED vars
    BY <1>14 DEF vars
  <1> QED
    BY <1>1, <1>2, <1>3, <1>4, <1>5, <1>6, <1>7, <1>8, <1>9, <1>10, <1>11, <1>12,
       <1>13, <1>14 DEF Next, Serves, TakesEvents

\* Every step keeps DrainsAfterQuit.
LEMMA DrainStep == TypeOK /\ DrainsAfterQuit /\ [Next]_vars => DrainsAfterQuit'
  <1> SUFFICES ASSUME TypeOK, DrainsAfterQuit, [Next]_vars PROVE DrainsAfterQuit'
    OBVIOUS
  <1> USE StationAssumption DEF TypeOK, DrainsAfterQuit, hostVars, userVars
  <1>1. ASSUME NEW g \in Guests,
               Admitted(g) \/ Refused(g) \/ Serves(g) \/ ConnectionEnds(g)
        PROVE  DrainsAfterQuit'
    BY <1>1 DEF Admitted, Refused, Serves, SendHello, AnnouncesArrival, HangsUp,
                AnnouncesDeparture, ConnectionEnds
  <1>2. CASE TakesEvents
    BY <1>2 DEF TakesEvents, TakesArrival, StartsChat, SeesArrival, SeesDeparture, Counts,
                QuitDrainsLeft, QuitDrainsPeers
  <1>3. CASE QuitDisconnects
    BY <1>3 DEF QuitDisconnects
  <1>4. CASE JoinsElsewhere \/ ComesBack \/ SetsGroup \/ Exits
    BY <1>4 DEF JoinsElsewhere, ComesBack, SetsGroup, Exits
  <1>5. CASE UNCHANGED vars
    BY <1>5 DEF vars
  <1> QED
    BY <1>1, <1>2, <1>3, <1>4, <1>5 DEF Next

\* Every step keeps OnlyQuitLoses.
LEMMA AnswerStep == StationIInv /\ [Next]_vars => OnlyQuitLoses'
  <1> SUFFICES ASSUME StationIInv, [Next]_vars PROVE OnlyQuitLoses'
    OBVIOUS
  <1> USE DEF StationIInv, OnlyQuitLoses, NobodyUnanswered, hostVars, userVars
  \* A newcomer is not in the loop yet.
  <1>1. ASSUME NEW g \in Guests, Admitted(g) \/ Refused(g) PROVE OnlyQuitLoses'
    BY <1>1 DEF Admitted, Refused, TypeOK
  <1>2. ASSUME NEW g \in Guests, SendHello(g) \/ HangsUp(g) PROVE OnlyQuitLoses'
    BY <1>2 DEF SendHello, HangsUp, Removed, TypeOK
  \* An announced guest leaves an event behind, its own or an older one.
  <1>3. ASSUME NEW g \in Guests, AnnouncesArrival(g) PROVE OnlyQuitLoses'
    <2>1. peers' # << >>
      BY <1>3, OfferKeepsType DEF AnnouncesArrival, TypeOK
    <2> QED
      BY <2>1
  <1>4. ASSUME NEW g \in Guests, AnnouncesDeparture(g) PROVE OnlyQuitLoses'
    BY <1>4 DEF AnnouncesDeparture, TypeOK
  <1>5. ASSUME NEW g \in Guests, ConnectionEnds(g) PROVE OnlyQuitLoses'
    BY <1>5 DEF ConnectionEnds
  \* The user is in a chat, or about to be.
  <1>6. CASE TakesArrival \/ StartsChat \/ SeesArrival \/ SeesDeparture
    BY <1>6 DEF TakesArrival, StartsChat, SeesArrival, SeesDeparture
  \* hostChat returns from an empty room only.
  <1>7. CASE Counts
    <2>1. CASE members = {}
      BY <1>7, <2>1 DEF Counts
    <2>2. CASE members # {}
      <3>1. IsFiniteSet(members)
        BY StationAssumption, FS_Subset DEF TypeOK
      <3>2. Cardinality(members) \in Nat /\ Cardinality(members) # 0
        BY <3>1, <2>2, FS_CardinalityType, FS_EmptySet
      <3>3. ui' = "chat"
        BY <1>7, <3>2 DEF Counts
      <3> QED
        BY <3>3
    <2> QED
      BY <2>1, <2>2
  <1>8. CASE QuitDrainsLeft \/ QuitDrainsPeers
    BY <1>8 DEF QuitDrainsLeft, QuitDrainsPeers, DrainsAfterQuit, TypeOK
  <1>9. CASE QuitDisconnects
    BY <1>9 DEF QuitDisconnects
  <1>10. CASE JoinsElsewhere \/ ComesBack \/ SetsGroup
    BY <1>10 DEF JoinsElsewhere, ComesBack, SetsGroup
  <1>11. CASE Exits
    BY <1>11 DEF Exits
  <1>12. CASE UNCHANGED vars
    BY <1>12 DEF vars
  <1> QED
    BY <1>1, <1>2, <1>3, <1>4, <1>5, <1>6, <1>7, <1>8, <1>9, <1>10, <1>11, <1>12
       DEF Next, Serves, TakesEvents

\* The inductive invariant of the station.
THEOREM StationInv == Spec => []StationIInv
  <1>1. StationIInv /\ [Next]_vars => StationIInv'
    BY TypeStep, DrainStep, AnswerStep DEF StationIInv
  <1> QED
    BY InitStation, <1>1, PTL DEF Spec

\* The types of the station's state, the capacity of its channels included
\* (openStation, OnPeer).
THEOREM StationTypeCorrect == Spec => []TypeOK
  BY StationInv, PTL DEF StationIInv

\* Before the first /quit no guest is left unanswered: whatever the number of
\* guests and the capacity of the channels, however full they are and wherever
\* the user is (OnPeer, ready, hostChat, joinPeer).
THEOREM GuestsAnswered == Spec => []OnlyQuitLoses
  BY StationInv, PTL DEF StationIInv
=============================================================================
