---------------------------- MODULE Relay_proofs ----------------------------
(***************************************************************************)
(* The safety of RelaySession for every set of sockets and every limit, of *)
(* RelayHost, the host's loop against that relay, and of WebSocket, the    *)
(* connection of a client to it.                                           *)
(*                                                                         *)
(* The relay's invariants support each other, so they are proved together, *)
(* with one addition: the number of paired sockets is even.  The code      *)
(* compares partners.size / 2 with MAX_PAIRS before it adds two entries,   *)
(* which is only right when the size is not odd.                           *)
(*                                                                         *)
(* The host's behaviours are behaviours of the relay (HostRefinesRelay),   *)
(* so that everything proved of the relay holds of the two together.       *)
(*                                                                         *)
(* The WebSocket client implements a byte stream each way (ReadIsAPipe,    *)
(* WriteIsAPipe), because at every moment the frames under way carry on    *)
(* where its buffers end.                                                  *)
(***************************************************************************)
EXTENDS RelayHost, WebSocket, FiniteSetTheorems, SequenceTheorems, TLAPS

WholePairs == \E k \in 0..MAX_PAIRS : Cardinality(Paired) = 2 * k

Inv ==
    /\ TypeOK /\ PairsAreMates /\ SocketsTracked /\ TimersGuard /\ WholePairs

\* A matching: what PairsAreMates and the types say of the map alone.
Matching(p) ==
    /\ p \in [Sockets -> Sockets \cup {NoSocket}]
    /\ \A s \in Sockets : p[s] # NoSocket => p[s] # s /\ p[p[s]] = s

Keys(p) == {s \in Sockets : p[s] # NoSocket}

\* p without the entries of s and of its partner.
Without(p, s) ==
    [t \in Sockets |-> IF t \in {s, p[s]} THEN NoSocket ELSE p[t]]

\* Taking a socket out of a matching takes out nothing or one whole pair.
LEMMA WithoutPair ==
    ASSUME NEW p, Matching(p), NEW s \in Sockets,
           NEW k \in 0..MAX_PAIRS, Cardinality(Keys(p)) = 2 * k
    PROVE  /\ Matching(Without(p, s))
           /\ \A t \in Sockets : Without(p, s)[t] # NoSocket =>
                 p[t] # NoSocket /\ Without(p, s)[t] = p[t] /\ t # s /\ t # p[s]
           /\ \E l \in 0..MAX_PAIRS : Cardinality(Keys(Without(p, s))) = 2 * l
<1> USE SocketsAssumption, RelayLimitsAssumption
<1> DEFINE q == Without(p, s)
<1>1. \A t \in Sockets : q[t] = IF t \in {s, p[s]} THEN NoSocket ELSE p[t]
  BY DEF Without
<1>2. \A t \in Sockets : q[t] # NoSocket =>
        p[t] # NoSocket /\ q[t] = p[t] /\ t # s /\ t # p[s]
  BY <1>1
<1>3. q \in [Sockets -> Sockets \cup {NoSocket}]
  BY DEF Matching, Without
<1>4. \A t \in Sockets : q[t] # NoSocket => q[t] # t /\ q[q[t]] = t
  <2> SUFFICES ASSUME NEW t \in Sockets, q[t] # NoSocket
               PROVE  q[t] # t /\ q[q[t]] = t
    OBVIOUS
  <2>1. p[t] # NoSocket /\ q[t] = p[t] /\ t # s /\ t # p[s] /\ p[t] \in Sockets
    BY <1>2 DEF Matching
  <2>2. p[t] # t /\ p[p[t]] = t
    BY <2>1 DEF Matching
  <2>3. p[t] # s /\ p[t] # p[s]
    BY <2>1, <2>2 DEF Matching
  <2> QED  BY <1>1, <2>1, <2>2, <2>3
<1>5. \E l \in 0..MAX_PAIRS : Cardinality(Keys(q)) = 2 * l
  <2>1. IsFiniteSet(Keys(p))
    BY FS_Subset DEF Keys
  <2>2. CASE p[s] = NoSocket
    <3>1. Keys(q) = Keys(p)
      BY <1>1, <2>2 DEF Keys
    <3> QED  BY <3>1
  <2>3. CASE p[s] # NoSocket
    <3>1. /\ s \in Keys(p) /\ p[s] \in Keys(p) \ {s}
      BY <2>3 DEF Keys, Matching
    <3>2. Keys(q) = (Keys(p) \ {s}) \ {p[s]}
      BY <1>1 DEF Keys
    <3>3. /\ IsFiniteSet(Keys(p) \ {s})
          /\ Cardinality(Keys(p) \ {s}) = Cardinality(Keys(p)) - 1
      BY <2>1, <3>1, FS_RemoveElement
    <3>4. Cardinality(Keys(q)) = Cardinality(Keys(p) \ {s}) - 1
      BY <3>1, <3>2, <3>3, FS_RemoveElement
    <3>5. Cardinality(Keys(q)) \in Nat
      BY <3>2, <3>3, FS_Subset, FS_CardinalityType
    <3>6. k - 1 \in 0..MAX_PAIRS /\ Cardinality(Keys(q)) = 2 * (k - 1)
      BY <3>3, <3>4, <3>5
    <3> QED  BY <3>6
  <2> QED  BY <2>2, <2>3
<1>6. Matching(q)
  <2> HIDE DEF q
  <2> QED  BY <1>3, <1>4 DEF Matching
<1> QED  BY <1>2, <1>5, <1>6

\* The parts of Inv in terms of Matching and Keys.
LEMMA InvMatching ==
    ASSUME TypeOK, PairsAreMates, WholePairs
    PROVE  /\ Matching(partners) /\ Paired = Keys(partners)
           /\ \E k \in 0..MAX_PAIRS : Cardinality(Keys(partners)) = 2 * k
BY DEF TypeOK, PairsAreMates, WholePairs, Matching, Paired, Keys

-----------------------------------------------------------------------------
LEMMA InitInv == Init => Inv
<1> SUFFICES ASSUME Init PROVE Inv
  OBVIOUS
<1> USE SocketsAssumption, RelayLimitsAssumption
<1>1. Paired = {}
  BY DEF Init, Paired
<1>2. TypeOK
  BY DEF Init, TypeOK, Statuses, NoTimer
<1>3. PairsAreMates /\ SocketsTracked
  BY <1>1 DEF Init, PairsAreMates, SocketsTracked
<1>4. TimersGuard
  BY <1>1 DEF Init, TimersGuard
<1>5. WholePairs
  <2>1. Cardinality(Paired) = 2 * 0 /\ 0 \in 0..MAX_PAIRS
    BY <1>1, FS_EmptySet
  <2> QED  BY <2>1 DEF WholePairs
<1> QED  BY <1>2, <1>3, <1>4, <1>5 DEF Inv

\* SafeClosed changes only open sockets of the set, and only to "closing".
LEMMA SafeClosedType ==
    ASSUME TypeOK, NEW S
    PROVE  /\ SafeClosed(S) \in [Sockets -> Statuses]
           /\ \A t \in Sockets :
                /\ t \notin S => SafeClosed(S)[t] = status[t]
                /\ SafeClosed(S)[t] # status[t] => SafeClosed(S)[t] = "closing"
BY DEF TypeOK, SafeClosed, Statuses

LEMMA ArmExpiryType ==
    ASSUME TypeOK, armExpiry
    PROVE  expiryTimer' \in Nat
BY RelayLimitsAssumption DEF TypeOK, armExpiry, Max0, NoTimer

LEMMA HostJoinsInv ==
    ASSUME Inv, NEW s \in Sockets, HostJoins(s)
    PROVE  Inv'
<1> USE SocketsAssumption, RelayLimitsAssumption
<1>1. PICK closed : closed = SafeClosed({standby})
  OBVIOUS
<1>2. /\ closed \in [Sockets -> Statuses]
      /\ \A t \in Sockets :
           /\ t # standby => closed[t] = status[t]
           /\ closed[t] # status[t] => closed[t] = "closing"
  BY <1>1, SafeClosedType DEF Inv
<1>3. /\ status[s] = "none" /\ status' = [closed EXCEPT ![s] = "open"]
      /\ standby' = s /\ peerIds' = peerIds \cup {s}
      /\ unpairedTimer' = now + MAX_UNPAIRED_MS
      /\ partners' = partners /\ bytes' = bytes /\ startedAt' = startedAt
      /\ now' = now /\ mate' = mate
  BY <1>1 DEF HostJoins
<1>4. expiryTimer' \in Nat
  BY ArmExpiryType DEF HostJoins, Inv
<1>5. TypeOK'
  BY <1>2, <1>3, <1>4 DEF Inv, TypeOK, Statuses
<1>6. Paired' = Paired /\ s \notin Paired
  BY <1>3 DEF Paired, Inv, SocketsTracked
<1>7. PairsAreMates'
  BY <1>3, <1>6 DEF Inv, PairsAreMates
<1>8. SocketsTracked'
  <2>1. \A t \in Paired : t # standby
    BY DEF Inv, PairsAreMates
  <2>2. \A t \in Paired : t \in peerIds' /\ status'[t] \in {"open", "lost"}
    BY <1>2, <1>3, <1>6, <2>1 DEF Inv, SocketsTracked, Paired
  <2>3. s \in peerIds' /\ status'[s] = "open"
    BY <1>2, <1>3
  <2>4. \A t \in peerIds' : status'[t] \notin {"none", "errored"}
    BY <1>2, <1>3, <2>3 DEF Inv, SocketsTracked, TypeOK
  <2> QED  BY <1>3, <1>6, <2>2, <2>3, <2>4 DEF SocketsTracked
<1>9. TimersGuard'
  BY <1>3, <1>4 DEF TimersGuard, Inv, TypeOK, NoTimer
<1>10. WholePairs'
  BY <1>6 DEF Inv, WholePairs
<1> QED  BY <1>5, <1>7, <1>8, <1>9, <1>10 DEF Inv

LEMMA GuestJoinsInv ==
    ASSUME Inv, NEW s \in Sockets, GuestJoins(s)
    PROVE  Inv'
<1> USE SocketsAssumption, RelayLimitsAssumption
<1>1. /\ status[s] = "none" /\ standby # NoSocket /\ ~AtPairLimit
      /\ status' = [status EXCEPT ![s] = "open"]
      /\ standby' = NoSocket /\ unpairedTimer' = NoTimer
      /\ peerIds' = peerIds \cup {s}
      /\ partners' = [partners EXCEPT ![standby] = s, ![s] = standby]
      /\ mate' = [mate EXCEPT ![standby] = s, ![s] = standby]
      /\ bytes' = bytes /\ startedAt' = startedAt /\ now' = now
  BY DEF GuestJoins
<1>2. /\ standby \in Sockets /\ status[standby] \in {"open", "lost"}
      /\ standby \in peerIds /\ standby # s
  BY <1>1 DEF Inv, TypeOK, SocketsTracked
<1>3. /\ partners'[standby] = s /\ partners'[s] = standby
      /\ mate'[standby] = s /\ mate'[s] = standby
      /\ \A t \in Sockets \ {s, standby} :
           partners'[t] = partners[t] /\ mate'[t] = mate[t]
  BY <1>1, <1>2 DEF Inv, TypeOK
<1>4. s \notin Paired /\ standby \notin Paired
  BY <1>1 DEF Inv, SocketsTracked, PairsAreMates
<1>5. Paired' = (Paired \cup {standby}) \cup {s}
  BY <1>2, <1>3 DEF Paired
<1>6. expiryTimer' \in Nat
  BY ArmExpiryType DEF GuestJoins, Inv
<1>7. TypeOK'
  BY <1>1, <1>2, <1>6 DEF Inv, TypeOK, Statuses, NoTimer
<1>8. PairsAreMates'
  <2>1. \A t \in Paired : /\ partners[t] \in Sockets \ {s, standby}
                          /\ partners[t] # t /\ partners[partners[t]] = t
                          /\ mate[t] = partners[t]
    <3>1. \A t \in Paired : /\ partners[t] # t /\ partners[partners[t]] = t
                            /\ mate[t] = partners[t]
                            /\ partners[t] \in Sockets /\ t \in Sockets
      BY DEF Inv, PairsAreMates, TypeOK, Paired
    <3>2. \A t \in Paired : partners[t] \in Paired
      BY <3>1 DEF Paired
    <3> QED  BY <1>4, <3>1, <3>2
  <2>2. \A t \in Paired : t \in Sockets \ {s, standby}
    BY <1>4 DEF Paired
  <2>3. \A t \in Paired : /\ partners'[t] = partners[t] /\ mate'[t] = mate[t]
                          /\ partners'[partners[t]] = partners[partners[t]]
    BY <1>3, <2>1, <2>2
  <2>4. ASSUME NEW t \in Paired'
        PROVE  /\ partners'[t] # t /\ partners'[partners'[t]] = t
               /\ mate'[t] = partners'[t] /\ t # standby'
    <3>1. CASE t \in Paired
      <4>1. t # NoSocket
        BY <2>2, <3>1
      <4> QED  BY <1>1, <2>1, <2>3, <3>1, <4>1
    <3>2. CASE t \in {s, standby}
      BY <1>1, <1>2, <1>3, <3>2
    <3> QED  BY <1>5, <3>1, <3>2
  <2> QED  BY <2>4 DEF PairsAreMates
<1>9. SocketsTracked'
  <2>1. \A t \in Paired : t \in peerIds /\ status[t] \in {"open", "lost"}
    BY DEF Inv, SocketsTracked
  <2>2. \A t \in Paired' : t \in peerIds' /\ status'[t] \in {"open", "lost"}
    BY <1>1, <1>2, <1>4, <1>5, <2>1 DEF Inv, TypeOK, Paired
  <2>3. \A t \in peerIds' : status'[t] \notin {"none", "errored"}
    BY <1>1 DEF Inv, SocketsTracked, TypeOK
  <2> QED  BY <1>1, <2>2, <2>3 DEF SocketsTracked
<1>10. TimersGuard'
  BY <1>1, <1>6 DEF TimersGuard, NoTimer
<1>11. WholePairs'
  <2>1. PICK k \in 0..MAX_PAIRS : Cardinality(Paired) = 2 * k
    BY DEF Inv, WholePairs
  <2>2. IsFiniteSet(Paired)
    BY FS_Subset DEF Paired
  <2>3. IsFiniteSet(Paired \cup {standby})
        /\ Cardinality(Paired \cup {standby}) = 2 * k + 1
    BY <1>2, <1>4, <2>1, <2>2, FS_AddElement
  <2>4. Cardinality(Paired') = 2 * (k + 1)
    <3>1. s \notin Paired \cup {standby}
      BY <1>2, <1>4
    <3>2. Cardinality((Paired \cup {standby}) \cup {s}) =
            Cardinality(Paired \cup {standby}) + 1
      BY <2>3, <3>1, FS_AddElement
    <3> QED  BY <1>5, <2>3, <3>2
  <2>5. k + 1 \in 0..MAX_PAIRS
    BY <1>1, <2>1 DEF AtPairLimit
  <2> QED  BY <2>4, <2>5 DEF WholePairs
<1> QED  BY <1>7, <1>8, <1>9, <1>10, <1>11 DEF Inv

\* Whatever shuts the session down keeps the invariant.
LEMMA ShutdownInv ==
    ASSUME Inv, shutdown, UNCHANGED << startedAt, now, mate >>,
           bytes' \in 0..MAX_SESSION_BYTES + 1
    PROVE  Inv'
<1> USE SocketsAssumption, RelayLimitsAssumption
<1>1. /\ standby' = NoSocket /\ partners' = [s \in Sockets |-> NoSocket]
      /\ peerIds' = {} /\ expiryTimer' = NoTimer /\ unpairedTimer' = NoTimer
      /\ status' \in [Sockets -> Statuses]
  BY SafeClosedType DEF shutdown, Inv
<1>2. Paired' = {}
  BY <1>1 DEF Paired
<1>3. TypeOK'
  BY <1>1 DEF Inv, TypeOK
<1>4. PairsAreMates' /\ SocketsTracked' /\ TimersGuard'
  BY <1>1, <1>2 DEF PairsAreMates, SocketsTracked, TimersGuard
<1>5. WholePairs'
  <2>1. Cardinality(Paired') = 2 * 0 /\ 0 \in 0..MAX_PAIRS
    BY <1>2, FS_EmptySet
  <2> QED  BY <2>1 DEF WholePairs
<1> QED  BY <1>3, <1>4, <1>5 DEF Inv

\* Taking one socket's conversation down keeps the matching; it is what the
\* handlers that call closePair have in common.
LEMMA PairLeaves ==
    ASSUME Inv, NEW s \in Sockets, partners' = Without(partners, s),
           standby' \in {standby, NoSocket},
           \A t \in Sockets \ {s} : mate'[t] = mate[t]
    PROVE  /\ partners' \in [Sockets -> Sockets \cup {NoSocket}]
           /\ Paired' \subseteq Paired \ {s, partners[s]}
           /\ PairsAreMates' /\ WholePairs'
<1> USE SocketsAssumption
<1>1. /\ Matching(partners) /\ Paired = Keys(partners)
      /\ \E k \in 0..MAX_PAIRS : Cardinality(Keys(partners)) = 2 * k
  BY InvMatching DEF Inv
<1>2. PICK p : p = partners
  OBVIOUS
<1>3. PICK k \in 0..MAX_PAIRS : Cardinality(Keys(p)) = 2 * k
  BY <1>1, <1>2
<1>4. /\ Matching(Without(p, s))
      /\ \A t \in Sockets : Without(p, s)[t] # NoSocket =>
            p[t] # NoSocket /\ Without(p, s)[t] = p[t] /\ t # s /\ t # p[s]
      /\ \E l \in 0..MAX_PAIRS : Cardinality(Keys(Without(p, s))) = 2 * l
  <2>1. Matching(p)
    BY <1>1, <1>2
  <2> QED  BY <1>3, <2>1, WithoutPair
<1>5. PICK q : q = Without(p, s)
  OBVIOUS
<1>6. partners' = q /\ Paired' = Keys(q)
  BY <1>2, <1>5 DEF Paired, Keys
<1>7. Matching(q)
      /\ \A t \in Sockets : q[t] # NoSocket =>
            p[t] # NoSocket /\ q[t] = p[t] /\ t # s /\ t # p[s]
  BY <1>4, <1>5
<1>8. Paired' \subseteq Paired \ {s, partners[s]}
  BY <1>1, <1>2, <1>6, <1>7 DEF Keys
<1>9. PairsAreMates'
  <2> SUFFICES ASSUME NEW t \in Paired'
               PROVE  /\ partners'[t] # t /\ partners'[partners'[t]] = t
                      /\ mate'[t] = partners'[t] /\ t # standby'
    BY DEF PairsAreMates
  <2>1. t \in Sockets /\ q[t] # NoSocket /\ q[t] = p[t] /\ t # s
    BY <1>6, <1>7 DEF Keys
  <2>2. mate[t] = p[t] /\ t # standby
    BY <1>2, <1>8 DEF Inv, PairsAreMates
  <2> QED  BY <1>6, <1>7, <2>1, <2>2 DEF Matching
<1>10. WholePairs'
  BY <1>4, <1>5, <1>6 DEF WholePairs
<1> QED  BY <1>6, <1>7, <1>8, <1>9, <1>10 DEF Matching

LEMMA CountedType ==
    ASSUME TypeOK, NEW size \in Nat
    PROVE  Counted(size) \in 0..MAX_SESSION_BYTES + 1
BY RelayLimitsAssumption DEF TypeOK, Counted

LEMMA SendFailsInv ==
    ASSUME Inv, NEW s \in Sockets, NEW size \in Nat, SendFails(s, size)
    PROVE  Inv'
<1> USE SocketsAssumption
<1>1. PICK closed : closed = SafeClosed({partners[s]})
  OBVIOUS
<1>2. /\ closed \in [Sockets -> Statuses]
      /\ \A t \in Sockets :
           /\ t # partners[s] => closed[t] = status[t]
           /\ closed[t] # status[t] => closed[t] = "closing"
  BY <1>1, SafeClosedType DEF Inv
<1>3. /\ partners' = Without(partners, s)
      /\ peerIds' = peerIds \ {partners[s]} /\ status' = closed
      /\ bytes' = Counted(size) /\ standby' = standby
      /\ startedAt' = startedAt /\ now' = now /\ expiryTimer' = expiryTimer
      /\ unpairedTimer' = unpairedTimer /\ mate' = mate
  BY <1>1 DEF SendFails, closePair, Without
<1>4. /\ partners' \in [Sockets -> Sockets \cup {NoSocket}]
      /\ Paired' \subseteq Paired \ {s, partners[s]}
      /\ PairsAreMates' /\ WholePairs'
  BY <1>3, PairLeaves
<1>5. TypeOK'
  <2>1. bytes' \in 0..MAX_SESSION_BYTES + 1
    BY <1>3, CountedType DEF Inv
  <2> QED  BY <1>2, <1>3, <1>4, <2>1 DEF Inv, TypeOK
<1>6. SocketsTracked'
  <2>1. partners[s] # NoSocket => partners[s] \in Paired /\ partners[s] # standby
    BY DEF Inv, PairsAreMates, TypeOK, Paired
  <2>2. \A t \in Paired' \cup ({standby} \ {NoSocket}) :
          t \in Sockets /\ t # partners[s] /\ t \in peerIds
          /\ status[t] \in {"open", "lost"}
    BY <1>4, <2>1 DEF Inv, SocketsTracked, TypeOK, Paired
  <2>3. \A t \in Paired' \cup ({standby} \ {NoSocket}) :
          t \in peerIds' /\ status'[t] \in {"open", "lost"}
    BY <1>2, <1>3, <2>2
  <2>4. \A t \in peerIds' : status'[t] \notin {"none", "errored"}
    BY <1>2, <1>3 DEF Inv, SocketsTracked, TypeOK
  <2> QED  BY <1>3, <2>3, <2>4 DEF SocketsTracked
<1>7. TimersGuard'
  BY <1>3, <1>4 DEF Inv, TimersGuard
<1> QED  BY <1>4, <1>5, <1>6, <1>7 DEF Inv

LEMMA TeardownInv ==
    ASSUME Inv, NEW s \in Sockets, NEW after \in {"none", "errored"},
           teardown(s, after), UNCHANGED << bytes, startedAt, now >>,
           mate' \in {mate, [mate EXCEPT ![s] = NoSocket]}
    PROVE  Inv'
<1> USE SocketsAssumption
<1>1. PICK closed : closed = SafeClosed({partners[s]})
  OBVIOUS
<1>2. /\ closed \in [Sockets -> Statuses]
      /\ \A t \in Sockets :
           /\ t # partners[s] => closed[t] = status[t]
           /\ closed[t] # status[t] => closed[t] = "closing"
  BY <1>1, SafeClosedType DEF Inv
<1>3. /\ standby' = IF standby = s THEN NoSocket ELSE standby
      /\ partners' = Without(partners, s)
      /\ peerIds' = peerIds \ {s, partners[s]}
      /\ status' = [closed EXCEPT ![s] = after]
  BY <1>1 DEF teardown, Without
<1>4. /\ unpairedTimer' = IF standby = s \/ (standby \in {NoSocket, s} /\ Paired \subseteq {s, partners[s]})
                          THEN NoTimer ELSE unpairedTimer
      /\ expiryTimer' = IF standby \in {NoSocket, s} /\ Paired \subseteq {s, partners[s]}
                        THEN NoTimer ELSE expiryTimer
  BY DEF teardown
<1>5. \A t \in Sockets \ {s} : mate'[t] = mate[t]
  BY DEF Inv, TypeOK
<1>6. /\ partners' \in [Sockets -> Sockets \cup {NoSocket}]
      /\ Paired' \subseteq Paired \ {s, partners[s]}
      /\ PairsAreMates' /\ WholePairs'
  BY <1>3, <1>5, PairLeaves
<1>7. TypeOK'
  <2>1. mate' \in [Sockets -> Sockets \cup {NoSocket}]
    BY DEF Inv, TypeOK
  <2>2. status' \in [Sockets -> Statuses]
    BY <1>2, <1>3 DEF Statuses
  <2>3. expiryTimer' \in Nat \cup {NoTimer} /\ unpairedTimer' \in Nat \cup {NoTimer}
    BY <1>4 DEF Inv, TypeOK
  <2> QED  BY <1>3, <1>6, <2>1, <2>2, <2>3 DEF Inv, TypeOK
<1>8. SocketsTracked'
  <2>1. partners[s] # NoSocket => partners[s] \in Paired /\ partners[s] # standby
    BY DEF Inv, PairsAreMates, TypeOK, Paired
  <2>2. \A t \in Paired' \cup ({standby'} \ {NoSocket}) :
          t \in Sockets /\ t # partners[s] /\ t # s /\ t \in peerIds
          /\ status[t] \in {"open", "lost"}
    BY <1>3, <1>6, <2>1 DEF Inv, SocketsTracked, TypeOK, Paired
  <2>3. \A t \in Paired' \cup ({standby'} \ {NoSocket}) :
          t \in peerIds' /\ status'[t] \in {"open", "lost"}
    BY <1>2, <1>3, <2>2
  <2>4. \A t \in peerIds' : status'[t] \notin {"none", "errored"}
    BY <1>2, <1>3 DEF Inv, SocketsTracked, TypeOK
  <2> QED  BY <2>3, <2>4 DEF SocketsTracked
<1>9. TimersGuard'
  <2>1. (Paired \subseteq {s, partners[s]}) => Paired' = {}
    BY <1>6
  <2>2. Paired' # {} => Paired # {}
    BY <1>6
  <2> QED  BY <1>3, <1>4, <2>1, <2>2 DEF Inv, TimersGuard
<1> QED  BY <1>6, <1>7, <1>8, <1>9 DEF Inv

LEMMA UnpairedFiresInv ==
    ASSUME Inv, UnpairedFires
    PROVE  Inv'
<1> USE SocketsAssumption
<1>1. PICK closed : closed = SafeClosed({standby})
  OBVIOUS
<1>2. /\ closed \in [Sockets -> Statuses]
      /\ \A t \in Sockets :
           /\ t # standby => closed[t] = status[t]
           /\ closed[t] # status[t] => closed[t] = "closing"
  BY <1>1, SafeClosedType DEF Inv
<1>3. /\ status' = closed /\ standby' = NoSocket /\ unpairedTimer' = NoTimer
      /\ partners' = partners /\ peerIds' = peerIds /\ bytes' = bytes
      /\ startedAt' = startedAt /\ now' = now /\ expiryTimer' = expiryTimer
      /\ mate' = mate
  BY <1>1 DEF UnpairedFires
<1>4. Paired' = Paired
  BY <1>3 DEF Paired
<1>5. TypeOK'
  BY <1>2, <1>3 DEF Inv, TypeOK
<1>6. PairsAreMates'
  BY <1>3, <1>4 DEF Inv, PairsAreMates, Paired
<1>7. SocketsTracked'
  <2>1. \A t \in Paired : t \in Sockets /\ t # standby
    BY DEF Inv, PairsAreMates, Paired
  <2>2. \A t \in Paired : t \in peerIds' /\ status'[t] \in {"open", "lost"}
    BY <1>2, <1>3, <2>1 DEF Inv, SocketsTracked
  <2>3. \A t \in peerIds' : status'[t] \notin {"none", "errored"}
    BY <1>2, <1>3 DEF Inv, SocketsTracked, TypeOK
  <2> QED  BY <1>3, <1>4, <2>2, <2>3 DEF SocketsTracked
<1>8. TimersGuard'
  BY <1>3, <1>4 DEF Inv, TimersGuard
<1>9. WholePairs'
  BY <1>4 DEF Inv, WholePairs
<1> QED  BY <1>5, <1>6, <1>7, <1>8, <1>9 DEF Inv

\* Steps that leave the object's own fields alone: a frame forwarded or
\* dropped, a socket lost without notice, time passing.
FieldsKept ==
    /\ standby' = standby /\ partners' = partners /\ peerIds' = peerIds
    /\ startedAt' = startedAt /\ expiryTimer' = expiryTimer
    /\ unpairedTimer' = unpairedTimer /\ mate' = mate

LEMMA FieldsKeptInv ==
    ASSUME Inv, FieldsKept,
           status' \in [Sockets -> Statuses],
           \A t \in Sockets : \/ status'[t] = status[t]
                              \/ status[t] = "open" /\ status'[t] = "lost",
           bytes' \in 0..MAX_SESSION_BYTES + 1,
           now' \in 0..Horizon, now' >= now
    PROVE  Inv'
<1> USE SocketsAssumption, RelayLimitsAssumption DEF FieldsKept
<1>1. Paired' = Paired
  BY DEF Paired
<1>2. TypeOK'
  BY DEF Inv, TypeOK
<1>3. PairsAreMates'
  BY <1>1 DEF Inv, PairsAreMates
<1>4. SocketsTracked'
  <2>1. \A t \in Paired \cup ({standby} \ {NoSocket}) :
          t \in Sockets /\ t \in peerIds /\ status[t] \in {"open", "lost"}
    BY DEF Inv, SocketsTracked, Paired, TypeOK
  <2>2. \A t \in peerIds : t \in Sockets /\ status[t] \notin {"none", "errored"}
    BY DEF Inv, SocketsTracked, TypeOK
  <2>3. \A t \in Paired \cup ({standby} \ {NoSocket}) :
          t \in peerIds' /\ status'[t] \in {"open", "lost"}
    BY <2>1
  <2>4. \A t \in peerIds : status'[t] \notin {"none", "errored"}
    BY <2>2
  <2> QED  BY <1>1, <2>3, <2>4 DEF SocketsTracked
<1>5. TimersGuard' /\ WholePairs'
  BY <1>1 DEF Inv, TimersGuard, WholePairs
<1> QED  BY <1>2, <1>3, <1>4, <1>5 DEF Inv

LEMMA RestartInv ==
    ASSUME Inv, Restart
    PROVE  Inv'
<1> USE SocketsAssumption, RelayLimitsAssumption
<1>1. Paired' = {}
  BY DEF Restart, Paired
<1>2. TypeOK'
  BY DEF Restart, Inv, TypeOK, Statuses
<1>3. PairsAreMates' /\ SocketsTracked' /\ TimersGuard'
  BY <1>1 DEF Restart, PairsAreMates, SocketsTracked, TimersGuard
<1>4. WholePairs'
  <2>1. Cardinality(Paired') = 2 * 0 /\ 0 \in 0..MAX_PAIRS
    BY <1>1, FS_EmptySet
  <2> QED  BY <2>1 DEF WholePairs
<1> QED  BY <1>2, <1>3, <1>4 DEF Inv

LEMMA MessageInv ==
    ASSUME Inv, NEW s \in Sockets, NEW size \in Nat, Message(s, size)
    PROVE  Inv'
<1> USE RelayLimitsAssumption
<1>1. Counted(size) \in 0..MAX_SESSION_BYTES + 1
  BY CountedType DEF Inv
<1>2. CASE FrameTooLarge(s, size)
  BY <1>2, ShutdownInv DEF FrameTooLarge, Inv, TypeOK
<1>3. CASE BytesExceeded(s, size)
  BY <1>1, <1>3, ShutdownInv DEF BytesExceeded
<1>4. CASE Forwarded(s, size)
  <2>1. now' \in 0..Horizon /\ now' >= now
    BY <1>4 DEF Forwarded, Inv, TypeOK
  <2>2. status' = status /\ status \in [Sockets -> Statuses]
    BY <1>4 DEF Forwarded, Inv, TypeOK
  <2>3. \A t \in Sockets : \/ status'[t] = status[t]
                           \/ status[t] = "open" /\ status'[t] = "lost"
    BY <2>2
  <2>4. /\ FieldsKept
        /\ bytes' \in 0..MAX_SESSION_BYTES + 1
        /\ status' \in [Sockets -> Statuses]
    BY <1>1, <1>4, <2>2 DEF Forwarded, FieldsKept
  <2> QED  BY <2>1, <2>3, <2>4, FieldsKeptInv
<1>5. CASE SendFails(s, size)
  BY <1>5, SendFailsInv
<1> QED  BY <1>2, <1>3, <1>4, <1>5 DEF Message

LEMMA StepInv == Inv /\ [Next]_vars => Inv'
<1> SUFFICES ASSUME Inv, [Next]_vars PROVE Inv'
  OBVIOUS
<1> USE RelayLimitsAssumption
<1>1. ASSUME NEW s \in Sockets, HostJoins(s) PROVE Inv'
  BY <1>1, HostJoinsInv
<1>2. ASSUME NEW s \in Sockets, GuestJoins(s) PROVE Inv'
  BY <1>2, GuestJoinsInv
<1>3. ASSUME NEW s \in Sockets, NEW size \in 1..MAX_FRAME_BYTES + 1,
             Message(s, size)
      PROVE  Inv'
  BY <1>3, MessageInv
<1>4. ASSUME NEW s \in Sockets, ErrorEvent(s) PROVE Inv'
  BY <1>4, TeardownInv DEF ErrorEvent
<1>5. ASSUME NEW s \in Sockets, CloseEvent(s) PROVE Inv'
  BY <1>5, TeardownInv DEF CloseEvent
<1>6. ASSUME NEW s \in Sockets, ClientGone(s) PROVE Inv'
  <2>1. /\ status' \in [Sockets -> Statuses]
        /\ \A t \in Sockets : \/ status'[t] = status[t]
                              \/ status[t] = "open" /\ status'[t] = "lost"
    BY <1>6 DEF ClientGone, Inv, TypeOK, Statuses
  <2>2. bytes' = bytes /\ now' = now
    BY <1>6 DEF ClientGone
  <2>3. /\ bytes' \in 0..MAX_SESSION_BYTES + 1
        /\ now' \in 0..Horizon /\ now' >= now
    BY <2>2 DEF Inv, TypeOK
  <2>4. FieldsKept
    BY <1>6 DEF ClientGone, FieldsKept
  <2> QED  BY <2>1, <2>3, <2>4, FieldsKeptInv
<1>7. CASE ExpiryFires
  BY <1>7, ShutdownInv DEF ExpiryFires, Inv, TypeOK
<1>8. CASE UnpairedFires
  BY <1>8, UnpairedFiresInv
<1>9. CASE Tick
  <2>1. /\ status' = status /\ status \in [Sockets -> Statuses]
        /\ bytes' \in 0..MAX_SESSION_BYTES + 1
        /\ now' \in 0..Horizon /\ now' >= now
    BY <1>9 DEF Tick, Inv, TypeOK
  <2>2. /\ FieldsKept
        /\ status' \in [Sockets -> Statuses]
        /\ \A t \in Sockets : \/ status'[t] = status[t]
                              \/ status[t] = "open" /\ status'[t] = "lost"
    BY <1>9, <2>1 DEF Tick, FieldsKept
  <2> QED  BY <2>1, <2>2, FieldsKeptInv
<1>10. CASE Restart
  BY <1>10, RestartInv
<1>11. CASE UNCHANGED vars
  BY <1>11 DEF vars, Inv, TypeOK, PairsAreMates, SocketsTracked, TimersGuard,
               WholePairs, Paired
<1>12. ASSUME NEW s \in Sockets, GuestRefused(s) PROVE Inv'
  BY <1>11, <1>12 DEF GuestRefused
<1> QED  BY <1>1, <1>2, <1>3, <1>4, <1>5, <1>6, <1>7, <1>8, <1>9, <1>10,
            <1>11, <1>12 DEF Next

-----------------------------------------------------------------------------
\* The inductive invariant holds of every behaviour of the relay object,
\* for any number of sockets and any limits.
THEOREM RelayInv == Spec => []Inv
<1>1. Inv /\ [Next]_vars => Inv'
  BY StepInv
<1> QED  BY InitInv, <1>1, PTL DEF Spec

\* The object's fields keep their types: the timers are never armed for a
\* time before the epoch, the byte counter never passes limit + 1 (armExpiry,
\* the message handler).
THEOREM RelayTypeCorrect == Spec => []TypeOK
<1>1. Inv => TypeOK
  BY DEF Inv
<1> QED  BY <1>1, RelayInv, PTL

\* The relay forwards only between the two sockets that were paired when the
\* guest joined (fetch, closePair, shutdown).
THEOREM PairIntegrity == Spec => []PairsAreMates
<1>1. Inv => PairsAreMates
  BY DEF Inv
<1> QED  BY <1>1, RelayInv, PTL

\* No field refers to a socket whose end has been handled (teardown).
THEOREM NoDeadSockets == Spec => []SocketsTracked
<1>1. Inv => SocketsTracked
  BY DEF Inv
<1> QED  BY <1>1, RelayInv, PTL

\* A host never has more than MAX_PAIRS conversations, although the code
\* tests the number of map entries, two per conversation (fetch).
THEOREM PairLimitKept == Spec => []PairLimit
<1>1. Inv => PairLimit
  BY RelayLimitsAssumption DEF Inv, WholePairs, PairLimit
<1> QED  BY <1>1, RelayInv, PTL

\* While a socket is held a timer is armed that will end it (armExpiry,
\* armUnpairedTimeout).
THEOREM TimersArmed == Spec => []TimersGuard
<1>1. Inv => TimersGuard
  BY DEF Inv
<1> QED  BY <1>1, RelayInv, PTL

-----------------------------------------------------------------------------
\* The action properties.  What a step that changes the status of a socket
\* does to everybody else, and what any step does to the parked host, is the
\* content of the lemmas, one step per action.

\* The only step that ends a conversation without closing anything is Restart.
NobodyLeft == \A u \in Sockets : status'[u] = "none"

\* What a socket does by joining or going away changes no conversation but its
\* own.
LEMMA OwnConversationStep ==
    ASSUME Inv, [Next]_vars, NEW s \in Sockets,
           status'[s] # status[s], status'[s] \in {"open", "lost", "errored", "none"},
           NEW t \in Paired \ {s, partners[s]}
    PROVE  \/ partners'[t] = partners[t] /\ status'[t] = status[t]
           \/ NobodyLeft
<1> USE SocketsAssumption
<1>1. /\ t \in Sockets /\ t # standby /\ status[t] \in {"open", "lost"}
      /\ partners[t] \in Sockets /\ partners[partners[t]] = t
      /\ partners \in [Sockets -> Sockets \cup {NoSocket}]
      /\ status \in [Sockets -> Statuses]
  BY DEF Inv, PairsAreMates, SocketsTracked, Paired, TypeOK
<1>2. \A S : \A u \in Sockets :
        /\ u \notin S => SafeClosed(S)[u] = status[u]
        /\ SafeClosed(S)[u] # status[u] => SafeClosed(S)[u] = "closing"
  BY SafeClosedType DEF Inv
<1>3. \A S : SafeClosed(S) \in [Sockets -> Statuses]
  BY SafeClosedType DEF Inv
<1>4. ASSUME NEW h \in Sockets, HostJoins(h) PROVE partners'[t] = partners[t] /\ status'[t] = status[t]
  <2>1. status[h] = "none" /\ partners' = partners
        /\ status' = [SafeClosed({standby}) EXCEPT ![h] = "open"]
    BY <1>4 DEF HostJoins
  <2>2. t # h
    BY <1>1, <2>1
  <2> QED  BY <1>1, <1>2, <1>3, <2>1, <2>2
<1>5. ASSUME NEW h \in Sockets, GuestJoins(h) PROVE partners'[t] = partners[t] /\ status'[t] = status[t]
  <2>1. status[h] = "none" /\ status' = [status EXCEPT ![h] = "open"]
        /\ partners' = [partners EXCEPT ![standby] = h, ![h] = standby]
    BY <1>5 DEF GuestJoins
  <2>2. t # h
    BY <1>1, <2>1
  <2> QED  BY <1>1, <2>1, <2>2
<1>6. ASSUME NEW h \in Sockets, NEW after \in {"none", "errored"}, teardown(h, after)
      PROVE  partners'[t] = partners[t] /\ status'[t] = status[t]
  <2>1. status' = [SafeClosed({partners[h]}) EXCEPT ![h] = after]
        /\ partners' = Without(partners, h)
    BY <1>6 DEF teardown, Without
  <2>2. s = h
    BY <1>2, <1>3, <2>1
  <2> QED  BY <1>1, <1>2, <1>3, <2>1, <2>2 DEF Without
<1>7. ASSUME NEW h \in Sockets, ClientGone(h) PROVE partners'[t] = partners[t] /\ status'[t] = status[t]
  <2>1. status' = [status EXCEPT ![h] = "lost"] /\ partners' = partners
    BY <1>7 DEF ClientGone
  <2> QED  BY <1>1, <2>1
<1>8. ASSUME NEW S, status' = SafeClosed(S) PROVE FALSE
  BY <1>2, <1>8
<1>9. ASSUME NEW h \in Sockets, NEW size \in 1..MAX_FRAME_BYTES + 1, Message(h, size)
      PROVE  FALSE
  BY <1>8, <1>9 DEF Message, FrameTooLarge, BytesExceeded, Forwarded, SendFails,
                    shutdown, closePair
<1>10. CASE Restart
  BY <1>10 DEF Restart, NobodyLeft
<1> QED
  BY <1>4, <1>5, <1>6, <1>7, <1>8, <1>9, <1>10
     DEF Next, ErrorEvent, CloseEvent, GuestRefused, ExpiryFires, UnpairedFires,
         shutdown, Tick, vars

\* Who is no longer paired and still open was paired with a lost socket, and
\* nothing was closed.
LEMMA SurvivorStep ==
    ASSUME Inv, [Next]_vars, NEW s \in Paired,
           partners'[s] = NoSocket, status'[s] = "open"
    PROVE  status[partners[s]] = "lost" /\ UNCHANGED status
<1> USE SocketsAssumption
<1>1. /\ s \in Sockets /\ s # standby /\ partners[s] \in Sockets
      /\ partners[s] # s /\ partners[partners[s]] = s
      /\ status[partners[s]] \in {"open", "lost"}
      /\ partners \in [Sockets -> Sockets \cup {NoSocket}]
      /\ status \in [Sockets -> Statuses]
  <2>1. /\ s \in Sockets /\ s # standby /\ partners[s] \in Sockets
        /\ partners[s] # s /\ partners[partners[s]] = s
    BY DEF Inv, PairsAreMates, Paired, TypeOK
  <2>2. partners[s] \in Paired
    BY <2>1 DEF Paired
  <2> QED  BY <2>1, <2>2 DEF Inv, SocketsTracked, TypeOK
<1>2. \A S : SafeClosed(S)[s] = IF s \in S /\ status[s] = "open" THEN "closing" ELSE status[s]
  BY <1>1 DEF SafeClosed
<1>3. ASSUME NEW S, s \in S, status' = SafeClosed(S) PROVE FALSE
  BY <1>2, <1>3
<1>4. ASSUME NEW h \in Sockets, HostJoins(h) PROVE FALSE
  BY <1>1, <1>4 DEF HostJoins
<1>5. ASSUME NEW h \in Sockets, GuestJoins(h) PROVE FALSE
  <2>1. status[h] = "none" /\ standby # NoSocket
        /\ partners' = [partners EXCEPT ![standby] = h, ![h] = standby]
    BY <1>5 DEF GuestJoins
  <2> QED  BY <1>1, <2>1 DEF Inv, TypeOK
<1>6. ASSUME NEW h \in Sockets, NEW after \in {"none", "errored"}, teardown(h, after)
      PROVE  FALSE
  <2>1. status' = [SafeClosed({partners[h]}) EXCEPT ![h] = after]
        /\ partners' = Without(partners, h)
    BY <1>6 DEF teardown, Without
  <2>2. SafeClosed({partners[h]}) \in [Sockets -> Statuses]
    BY SafeClosedType DEF Inv
  <2>3. s # h
    BY <1>1, <2>1, <2>2
  <2>4. s = partners[h]
    BY <1>1, <2>1, <2>3 DEF Without
  <2> QED  BY <1>1, <1>2, <2>1, <2>2, <2>3, <2>4
<1>7. ASSUME NEW h \in Sockets, NEW size \in 1..MAX_FRAME_BYTES + 1, SendFails(h, size)
      PROVE  status[partners[s]] = "lost" /\ UNCHANGED status
  <2>1. /\ status' = SafeClosed({partners[h]}) /\ partners' = Without(partners, h)
        /\ partners[h] # NoSocket /\ status[partners[h]] # "open"
    BY <1>7 DEF SendFails, closePair, Without
  <2>2. s \in {h, partners[h]}
    BY <1>1, <2>1 DEF Without
  <2>3. s # partners[h]
    BY <1>2, <2>1
  <2>4. \A u \in Sockets : status'[u] = status[u]
    BY <1>1, <2>1 DEF SafeClosed
  <2>5. status' \in [Sockets -> Statuses]
    BY <2>1, SafeClosedType DEF Inv
  <2> QED  BY <1>1, <2>1, <2>2, <2>3, <2>4, <2>5
<1>8. ASSUME NEW h \in Sockets, NEW size \in 1..MAX_FRAME_BYTES + 1,
             FrameTooLarge(h, size) \/ BytesExceeded(h, size) \/ Forwarded(h, size)
      PROVE  FALSE
  BY <1>1, <1>3, <1>8 DEF FrameTooLarge, BytesExceeded, Forwarded, shutdown
<1>9. CASE Restart
  BY <1>1, <1>9 DEF Restart
<1> QED
  BY <1>1, <1>3, <1>4, <1>5, <1>6, <1>7, <1>8, <1>9
     DEF Next, Message, ErrorEvent, CloseEvent, GuestRefused, ClientGone, ExpiryFires,
         UnpairedFires, shutdown, Tick, vars

\* A socket that joins, breaks or closes touches no conversation but its own:
\* "tears down one conversation without touching any other" (closePair).
THEOREM OwnConversationOnly == Spec => OnlyOwnConversation
<1>1. Inv /\ [Next]_vars =>
        [\A s \in Sockets :
           status'[s] # status[s] /\ status'[s] \in {"open", "lost", "errored", "none"} =>
             \A t \in Paired \ {s, partners[s]} :
                \/ partners'[t] = partners[t] /\ status'[t] = status[t]
                \/ \A u \in Sockets : status'[u] = "none"]_vars
  BY OwnConversationStep DEF NobodyLeft
<1> QED  BY <1>1, RelayInv, PTL DEF Spec, OnlyOwnConversation

\* No conversation ends behind the back of the side that is still there, but
\* for the sender of a frame that could not be forwarded (closePair, wire).
THEOREM SurvivorsAreTold == Spec => SurvivorIsTold
<1>1. Inv /\ [Next]_vars =>
        [\A s \in Paired :
           partners'[s] = NoSocket /\ status'[s] = "open" =>
             status[partners[s]] = "lost" /\ UNCHANGED status]_vars
  BY SurvivorStep
<1> QED  BY <1>1, RelayInv, PTL DEF Spec, SurvivorIsTold

\* What a step may do to the parked host.
StandbyStepKept ==
    /\ standby' \notin {standby, NoSocket} => unpairedTimer' = now + MAX_UNPAIRED_MS
    /\ standby # NoSocket /\ standby' = standby =>
          status'[standby] \in {"open", "lost"} /\ unpairedTimer' = unpairedTimer
    /\ standby # NoSocket /\ standby' = NoSocket =>
          \/ partners'[standby] # NoSocket
          \/ status'[standby] \in {"errored", "none"}
          \/ now >= unpairedTimer /\ status'[standby] # "open"
          \/ Paired' = {} /\ expiryTimer' = NoTimer /\ status'[standby] # "open"

\* The parked socket is open or lost and has no partner, so that the only
\* teardown that reaches it is its own.
LEMMA StandbyStep ==
    ASSUME Inv, [Next]_vars
    PROVE  StandbyStepKept \/ UNCHANGED vars
<1> USE SocketsAssumption
<1>1. /\ standby \in Sockets \cup {NoSocket}
      /\ standby # NoSocket => /\ status[standby] \in {"open", "lost"}
                               /\ partners[standby] = NoSocket
      /\ \A s \in Sockets : partners[s] # NoSocket =>
            partners[s] \in Sockets /\ partners[s] # standby
      /\ partners \in [Sockets -> Sockets \cup {NoSocket}]
      /\ status \in [Sockets -> Statuses]
  <2>1. \A s \in Sockets : partners[s] # NoSocket =>
          partners[s] \in Sockets /\ partners[partners[s]] = s /\ s # standby
    BY DEF Inv, PairsAreMates, Paired, TypeOK
  <2>2. \A s \in Sockets : partners[s] # NoSocket => partners[s] # standby
    BY <2>1
  <2> QED  BY <2>1, <2>2 DEF Inv, SocketsTracked, TypeOK
<1>2. \A S : \A u \in Sockets :
        /\ u \notin S => SafeClosed(S)[u] = status[u]
        /\ SafeClosed(S)[u] # status[u] => SafeClosed(S)[u] = "closing"
        /\ u \in S => SafeClosed(S)[u] # "open"
  BY <1>1 DEF SafeClosed, Statuses
<1>3. \A S : SafeClosed(S) \in [Sockets -> Statuses]
  BY SafeClosedType DEF Inv
<1>4. ASSUME NEW s \in Sockets, HostJoins(s) PROVE StandbyStepKept
  <2>1. /\ status[s] = "none" /\ standby' = s
        /\ unpairedTimer' = now + MAX_UNPAIRED_MS
    BY <1>4 DEF HostJoins
  <2>2. s # standby /\ s # NoSocket
    BY <1>1, <2>1
  <2> QED  BY <2>1, <2>2 DEF StandbyStepKept
<1>5. ASSUME NEW s \in Sockets, GuestJoins(s) PROVE StandbyStepKept
  <2>1. /\ status[s] = "none" /\ standby # NoSocket /\ standby' = NoSocket
        /\ partners' = [partners EXCEPT ![standby] = s, ![s] = standby]
    BY <1>5 DEF GuestJoins
  <2>2. partners'[standby] = s /\ s # NoSocket
    BY <1>1, <2>1
  <2> QED  BY <2>1, <2>2 DEF StandbyStepKept
<1>6. ASSUME NEW s \in Sockets, NEW after \in {"none", "errored"}, teardown(s, after)
      PROVE  StandbyStepKept
  <2>1. /\ standby' = IF standby = s THEN NoSocket ELSE standby
        /\ status' = [SafeClosed({partners[s]}) EXCEPT ![s] = after]
        /\ standby \notin {NoSocket, s} => unpairedTimer' = unpairedTimer
    BY <1>6 DEF teardown
  <2>2. CASE standby = NoSocket
    BY <1>1, <2>1, <2>2 DEF StandbyStepKept
  <2>3. CASE standby = s /\ standby # NoSocket
    <3>1. standby' = NoSocket /\ status'[standby] = after
      BY <1>3, <2>1, <2>3
    <3> QED  BY <2>3, <3>1 DEF StandbyStepKept
  <2>4. CASE standby \notin {NoSocket, s}
    <3>1. standby \in Sockets /\ standby # partners[s]
      BY <1>1, <2>4
    <3>2. status'[standby] = status[standby]
      BY <1>2, <1>3, <2>1, <2>4, <3>1
    <3> QED  BY <1>1, <2>1, <2>4, <3>2 DEF StandbyStepKept
  <2> QED  BY <2>2, <2>3, <2>4
<1>7. ASSUME shutdown PROVE StandbyStepKept
  <2>1. /\ status' = SafeClosed(Paired \cup {standby}) /\ standby' = NoSocket
        /\ partners' = [s \in Sockets |-> NoSocket] /\ expiryTimer' = NoTimer
    BY <1>7 DEF shutdown
  <2>2. Paired' = {}
    BY <2>1 DEF Paired
  <2>3. standby # NoSocket => status'[standby] # "open"
    BY <1>1, <1>2, <2>1
  <2> QED  BY <2>1, <2>2, <2>3 DEF StandbyStepKept
<1>8. ASSUME NEW s \in Sockets, NEW size \in 1..MAX_FRAME_BYTES + 1, SendFails(s, size)
      PROVE  StandbyStepKept
  <2>1. /\ status' = SafeClosed({partners[s]}) /\ partners[s] # NoSocket
        /\ standby' = standby /\ unpairedTimer' = unpairedTimer
    BY <1>8 DEF SendFails, closePair
  <2>2. standby # NoSocket => status'[standby] = status[standby]
    BY <1>1, <1>2, <2>1
  <2> QED  BY <1>1, <2>1, <2>2 DEF StandbyStepKept
<1>9. ASSUME NEW s \in Sockets, NEW size \in 1..MAX_FRAME_BYTES + 1, Forwarded(s, size)
      PROVE  StandbyStepKept
  BY <1>1, <1>9 DEF Forwarded, StandbyStepKept
<1>10. ASSUME NEW s \in Sockets, NEW size \in 1..MAX_FRAME_BYTES + 1, Message(s, size)
       PROVE  StandbyStepKept
  BY <1>7, <1>8, <1>9, <1>10 DEF Message, FrameTooLarge, BytesExceeded
<1>11. ASSUME NEW s \in Sockets, ClientGone(s) PROVE StandbyStepKept
  <2>1. /\ status' = [status EXCEPT ![s] = "lost"]
        /\ standby' = standby /\ unpairedTimer' = unpairedTimer
    BY <1>11 DEF ClientGone
  <2>2. standby # NoSocket => status'[standby] \in {"open", "lost"}
    BY <1>1, <2>1
  <2> QED  BY <1>1, <2>1, <2>2 DEF StandbyStepKept
<1>12. CASE UnpairedFires
  <2>1. /\ now >= unpairedTimer /\ status' = SafeClosed({standby}) /\ standby' = NoSocket
    BY <1>12 DEF UnpairedFires
  <2>2. standby # NoSocket => status'[standby] # "open"
    BY <1>1, <1>2, <2>1
  <2> QED  BY <2>1, <2>2 DEF StandbyStepKept
<1>13. CASE Tick
  BY <1>1, <1>13 DEF Tick, StandbyStepKept
<1>14. CASE Restart
  BY <1>1, <1>14 DEF Restart, StandbyStepKept
<1> QED
  BY <1>4, <1>5, <1>6, <1>7, <1>10, <1>11, <1>12, <1>13, <1>14
     DEF Next, ErrorEvent, CloseEvent, GuestRefused, ExpiryFires

\* A parked host keeps its place and its time, whatever the events of old
\* sockets and the timers of old hosts still do, and is closed when it loses
\* the place (fetch, armUnpairedTimeout, teardown).
THEOREM StandbyIsKept == Spec => StandbyKept
<1>1. Inv /\ [Next]_vars =>
        [/\ standby' \notin {standby, NoSocket} => unpairedTimer' = now + MAX_UNPAIRED_MS
         /\ standby # NoSocket /\ standby' = standby =>
               status'[standby] \in {"open", "lost"} /\ unpairedTimer' = unpairedTimer
         /\ standby # NoSocket /\ standby' = NoSocket =>
               \/ partners'[standby] # NoSocket
               \/ status'[standby] \in {"errored", "none"}
               \/ now >= unpairedTimer /\ status'[standby] # "open"
               \/ Paired' = {} /\ expiryTimer' = NoTimer /\ status'[standby] # "open"]_vars
  BY StandbyStep DEF StandbyStepKept
<1> QED  BY <1>1, RelayInv, PTL DEF Spec, StandbyKept

-----------------------------------------------------------------------------
\* The host's loop against the relay.

\* HostTypeOK without the relay's part.
LoopTypeOK ==
    /\ hpc \in {"dial", "await", "backoff", "stopped"}
    /\ hsock \in Sockets \cup {NoSocket} /\ (hsock # NoSocket <=> hpc = "await")
    /\ waitUntil \in Nat /\ backoff \in RETRY_MIN..RETRY_MAX
    /\ served \subseteq Sockets /\ hostEnds \subseteq Sockets
    /\ pairedSent \in BOOLEAN /\ faults \in 0..MaxFaults

\* A name in hostEnds belongs to a connection: a guest that takes a free name
\* never takes one of the host's.
EndsConnected == \A s \in hostEnds : status[s] # "none"

HostInv == Inv /\ LoopTypeOK /\ EndsConnected /\ NoUnreadConnection

\* Every step of the host and the relay is a step of the relay or leaves it
\* alone.
LEMMA HostStepRefines ==
    ASSUME LoopTypeOK, [HostNext]_allVars
    PROVE  [Next]_vars
<1> USE SocketsAssumption
<1>1. ASSUME NEW s \in Sockets, HostCloses(s) PROVE [Next]_vars
  BY <1>1 DEF HostCloses, Next
<1>2. CASE HostLoop
  <2>1. hpc = "await" => hsock \in Sockets
    BY DEF LoopTypeOK
  <2>2. ASSUME NEW s \in Sockets, ListenDials(s) \/ ServeEnds(s) PROVE [Next]_vars
    BY <1>1, <2>2 DEF ListenDials, ServeEnds, Next
  <2>3. CASE WaitTimesOut \/ AwaitFails
    BY <1>1, <2>1, <2>3 DEF WaitTimesOut, AwaitFails
  <2>4. CASE ListenFails \/ PeerArrives \/ RelayCloses \/ SleepEnds \/ Stops
    BY <2>4 DEF ListenFails, PeerArrives, RelayCloses, SleepEnds, Stops
  <2> QED  BY <1>2, <2>2, <2>3, <2>4 DEF HostLoop
<1>3. ASSUME NEW s \in Sockets,
             GuestPairs(s) \/ GuestLeaves(s) \/ Frame(s) \/ SocketFails(s) \/ SocketCloses(s)
      PROVE  [Next]_vars
  BY <1>3 DEF GuestPairs, GuestLeaves, Frame, SocketFails, SocketCloses, Next
<1>4. CASE SessionExpires \/ StandbyExpires \/ ObjectRestarts \/ TimePasses
  BY <1>4 DEF SessionExpires, StandbyExpires, ObjectRestarts, TimePasses, Next
<1>5. CASE UNCHANGED allVars
  BY <1>5 DEF allVars
<1> QED  BY <1>2, <1>3, <1>4, <1>5 DEF HostNext

LEMMA LoopTypeStep ==
    ASSUME Inv, LoopTypeOK, [HostNext]_allVars
    PROVE  LoopTypeOK'
<1> USE SocketsAssumption, WaitAssumption, RelayLimitsAssumption DEF LoopTypeOK
<1>1. now \in Nat
  BY DEF Inv, TypeOK
<1>2. ASSUME NEW s \in Sockets, ListenDials(s) PROVE LoopTypeOK'
  BY <1>1, <1>2 DEF ListenDials
<1>3. CASE PeerArrives \/ WaitTimesOut \/ RelayCloses
  <2>1. RETRY_MIN \in RETRY_MIN..RETRY_MAX
    OBVIOUS
  <2>2. hsock \in Sockets
    BY <1>3 DEF PeerArrives, WaitTimesOut, RelayCloses
  <2>3. /\ hpc' = "dial" /\ hsock' = NoSocket /\ waitUntil' = 0
        /\ pairedSent' = FALSE /\ backoff' = RETRY_MIN
        /\ served' \in {served, served \cup {hsock}}
        /\ hostEnds' = hostEnds /\ faults' = faults
    BY <1>3 DEF PeerArrives, WaitTimesOut, RelayCloses, AwaitEnds
  <2> QED  BY <2>1, <2>2, <2>3
<1>4. CASE ListenFails \/ AwaitFails
  <2>1. faults' \in 0..MaxFaults
    BY <1>4 DEF ListenFails, AwaitFails, Fault
  <2>2. /\ hpc' = "backoff" /\ backoff' = backoff
        /\ served' = served /\ hostEnds' = hostEnds
    BY <1>4 DEF ListenFails, AwaitFails
  <2>3. \/ hsock' = hsock /\ waitUntil' = waitUntil /\ hpc = "dial"
        \/ hsock' = NoSocket /\ waitUntil' = 0
    BY <1>4 DEF ListenFails, AwaitFails, AwaitEnds
  <2>4. pairedSent' \in BOOLEAN
    BY <1>4, Zenon DEF ListenFails, AwaitFails, AwaitEnds
  <2> QED  BY <2>1, <2>2, <2>3, <2>4
<1>5. CASE SleepEnds
  BY <1>5 DEF SleepEnds
<1>6. CASE Stops
  BY <1>6 DEF Stops
<1>7. ASSUME NEW s \in Sockets, ServeEnds(s) PROVE LoopTypeOK'
  BY <1>7 DEF ServeEnds
<1>8. ASSUME NEW s \in Sockets, GuestPairs(s) \/ GuestLeaves(s) PROVE LoopTypeOK'
  BY <1>8 DEF GuestPairs, GuestLeaves, hostVars
<1>9. CASE RelaySide
  BY <1>9 DEF RelaySide
<1>10. CASE UNCHANGED hostVars
  BY <1>10 DEF hostVars
<1> QED
  BY <1>2, <1>3, <1>4, <1>5, <1>6, <1>7, <1>8, <1>9, <1>10
     DEF HostNext, HostLoop, Frame, SocketFails, SocketCloses, SessionExpires,
         StandbyExpires, ObjectRestarts, TimePasses, allVars

\* What a closing end does to the relay's view of the sockets.
LEMMA HostClosesStatus ==
    ASSUME Inv, NEW s \in Sockets, HostCloses(s)
    PROVE  \A t \in Sockets : \/ status'[t] = status[t] /\ (t = s => status[t] # "open")
                              \/ t = s /\ status'[t] = "lost"
BY DEF HostCloses, ClientGone, vars, Inv, TypeOK

\* A relay step that opens no socket keeps both claims about the host's ends,
\* when the names that are free again are struck from them.
LEMMA RelaySideKeeps ==
    ASSUME HostInv, RelaySide,
           \A t \in Sockets : status'[t] = "open" => status[t] = "open"
    PROVE  EndsConnected' /\ NoUnreadConnection'
BY DEF HostInv, LoopTypeOK, RelaySide, EndsConnected, NoUnreadConnection

\* None of the relay's own steps opens a socket.
LEMMA NothingOpens ==
    ASSUME Inv,
           \/ \E s \in Sockets : \/ ErrorEvent(s) \/ CloseEvent(s)
                                 \/ \E size \in 1..MAX_FRAME_BYTES + 1 : Message(s, size)
           \/ ExpiryFires \/ UnpairedFires \/ Restart
    PROVE  \A t \in Sockets : status'[t] = "open" => status[t] = "open"
<1>1. \A S : \A t \in Sockets : SafeClosed(S)[t] = "open" => status[t] = "open"
  BY DEF SafeClosed
<1>2. \A S : SafeClosed(S) \in [Sockets -> Statuses]
  BY SafeClosedType DEF Inv
<1>3. ASSUME NEW s \in Sockets, NEW after \in {"none", "errored"}, teardown(s, after)
      PROVE  \A t \in Sockets : status'[t] = "open" => status[t] = "open"
  BY <1>1, <1>2, <1>3 DEF teardown
<1> QED
  BY <1>1, <1>3 DEF ErrorEvent, CloseEvent, Message, FrameTooLarge, BytesExceeded,
                    Forwarded, SendFails, shutdown, closePair, ExpiryFires,
                    UnpairedFires, Restart

LEMMA EndsStep ==
    ASSUME HostInv, [HostNext]_allVars
    PROVE  EndsConnected' /\ NoUnreadConnection'
<1> USE SocketsAssumption DEF HostInv, EndsConnected, NoUnreadConnection
<1>1. /\ hsock \in Sockets \cup {NoSocket} /\ (hsock # NoSocket <=> hpc = "await")
      /\ served \subseteq Sockets /\ hostEnds \subseteq Sockets
      /\ status \in [Sockets -> Statuses]
  BY DEF LoopTypeOK, Inv, TypeOK
\* The host waits on the socket it has dialled.
<1>2. ASSUME NEW s \in Sockets, ListenDials(s)
      PROVE  EndsConnected' /\ NoUnreadConnection'
  <2>1. /\ hpc = "dial" /\ hsock' = s /\ served' = served
        /\ hostEnds' = hostEnds \cup {s}
        /\ status' = [SafeClosed({standby}) EXCEPT ![s] = "open"]
    BY <1>2 DEF ListenDials, HostJoins
  <2>2. /\ SafeClosed({standby}) \in [Sockets -> Statuses]
        /\ \A t \in Sockets : SafeClosed({standby})[t] \in {status[t], "closing"}
    BY SafeClosedType DEF Inv
  <2> QED  BY <1>1, <2>1, <2>2
\* It hands the socket over, or closes it, or the relay has.
<1>3. CASE PeerArrives
  BY <1>1, <1>3 DEF PeerArrives, AwaitEnds, vars
<1>4. CASE WaitTimesOut \/ AwaitFails
  BY <1>1, <1>4, HostClosesStatus DEF WaitTimesOut, AwaitFails, AwaitEnds
<1>5. CASE RelayCloses
  BY <1>1, <1>5 DEF RelayCloses, AwaitEnds, vars
<1>6. CASE ListenFails \/ SleepEnds \/ Stops
  BY <1>6 DEF ListenFails, SleepEnds, Stops, vars
<1>7. ASSUME NEW s \in Sockets, ServeEnds(s)
      PROVE  EndsConnected' /\ NoUnreadConnection'
  BY <1>1, <1>7, HostClosesStatus DEF ServeEnds
\* A guest's socket is none of the host's.
<1>8. ASSUME NEW s \in Sockets, GuestPairs(s)
      PROVE  EndsConnected' /\ NoUnreadConnection'
  BY <1>1, <1>8 DEF GuestPairs, GuestJoins
<1>9. ASSUME NEW s \in Sockets, GuestLeaves(s)
      PROVE  EndsConnected' /\ NoUnreadConnection'
  BY <1>1, <1>9 DEF GuestLeaves, ClientGone, hostVars
<1>10. ASSUME NEW s \in Sockets, Frame(s) \/ SocketFails(s) \/ SocketCloses(s)
       PROVE  EndsConnected' /\ NoUnreadConnection'
  BY <1>10, NothingOpens, RelaySideKeeps DEF Frame, SocketFails, SocketCloses
<1>11. CASE SessionExpires \/ StandbyExpires \/ ObjectRestarts
  BY <1>11, NothingOpens, RelaySideKeeps DEF SessionExpires, StandbyExpires, ObjectRestarts
<1>12. CASE TimePasses \/ UNCHANGED allVars
  BY <1>12 DEF TimePasses, Tick, allVars, hostVars, vars
<1> QED
  BY <1>2, <1>3, <1>4, <1>5, <1>6, <1>7, <1>8, <1>9, <1>10, <1>11, <1>12
     DEF HostNext, HostLoop

LEMMA HostInitInv == HostInit => HostInv
<1> SUFFICES ASSUME HostInit PROVE HostInv
  OBVIOUS
<1>1. Inv
  BY InitInv DEF HostInit
<1>2. RETRY_MIN \in RETRY_MIN..RETRY_MAX /\ 0 \in 0..MaxFaults
  BY WaitAssumption
<1>3. LoopTypeOK
  BY <1>2, SocketsAssumption DEF HostInit, LoopTypeOK
<1>4. EndsConnected /\ NoUnreadConnection
  BY DEF HostInit, EndsConnected, NoUnreadConnection
<1> QED  BY <1>1, <1>3, <1>4 DEF HostInv

\* The inductive invariant of the host and the relay together.
THEOREM HostInvariant == HostSpec => []HostInv
<1>1. HostInv /\ [HostNext]_allVars => HostInv'
  BY HostStepRefines, StepInv, LoopTypeStep, EndsStep DEF HostInv
<1> QED  BY HostInitInv, <1>1, PTL DEF HostSpec

\* The host's loop drives the relay through steps of the relay only: what is
\* proved of RelaySession holds of the composition (ServeRelay, Listen).
THEOREM HostRefinesRelay == HostSpec => Spec
<1>1. HostInit => Init
  BY DEF HostInit
<1>2. HostInv /\ [HostNext]_allVars => [Next]_vars
  BY HostStepRefines DEF HostInv
<1> QED  BY <1>1, <1>2, HostInvariant, PTL DEF HostSpec, Spec

\* The loop waits exactly while it holds a socket, its backoff stays between
\* the two limits, and the relay's fields keep their types (ServeRelay).
THEOREM HostTypeCorrect == HostSpec => []HostTypeOK
<1>1. HostInv => HostTypeOK
  BY DEF HostInv, Inv, LoopTypeOK, HostTypeOK
<1> QED  BY <1>1, HostInvariant, PTL

\* No connection of the host stays open that nobody reads, whenever "paired",
\* the end of the wait, a failure or a close by the relay come together
\* (Listen, awaitPeer, ServeRelay).
THEOREM NoneUnread == HostSpec => []NoUnreadConnection
<1>1. HostInv => NoUnreadConnection
  BY DEF HostInv
<1> QED  BY <1>1, HostInvariant, PTL

-----------------------------------------------------------------------------
(***************************************************************************)
(* The WebSocket client.  A stream is told by how long it is: the frames   *)
(* on the wire carry on where what has been kept of it ends, and their     *)
(* kinds carry on from the message that the client is in the middle of.    *)
(***************************************************************************)

LEMMA IsSequence ==
    ASSUME NEW S, NEW n \in Nat, NEW f, f \in [1..n -> S]
    PROVE  f \in Seq(S) /\ Len(f) = n
<1>1. f \in Seq(S)
  BY SeqDef
<1>2. Len(f) \in Nat /\ DOMAIN f = 1..Len(f)
  BY <1>1, LenProperties
<1>3. 1..Len(f) = 1..n
  BY <1>2
<1> QED  BY <1>1, <1>2, <1>3

LEMMA BytesAre ==
    ASSUME NEW n \in Nat
    PROVE  Bytes(n) \in Seq(Nat) /\ Len(Bytes(n)) = n /\ \A i \in 1..n : Bytes(n)[i] = i
<1>1. Bytes(n) \in [1..n -> Nat]
  BY DEF Bytes
<1>2. \A i \in 1..n : Bytes(n)[i] = i
  BY DEF Bytes
<1> QED  BY <1>1, <1>2, IsSequence

LEMMA BetweenAre ==
    ASSUME NEW m \in Nat, NEW n \in Nat, m <= n
    PROVE  /\ Between(m, n) \in Seq(Nat) /\ Len(Between(m, n)) = n - m
           /\ \A i \in 1..(n - m) : Between(m, n)[i] = m + i
<1>1. Between(m, n) \in [1..(n - m) -> Nat] /\ n - m \in Nat
  BY DEF Between
<1>2. \A i \in 1..(n - m) : Between(m, n)[i] = m + i
  BY DEF Between
<1> QED  BY <1>1, <1>2, IsSequence

LEMMA NothingBetween ==
    ASSUME NEW n \in Nat
    PROVE  Between(n, n) = << >>
<1>1. Between(n, n) \in Seq(Nat) /\ Len(Between(n, n)) = 0
  BY BetweenAre
<1> QED  BY <1>1, EmptySeq

\* What follows carries on.
LEMMA BytesGoOn ==
    ASSUME NEW m \in Nat, NEW n \in Nat, m <= n
    PROVE  Bytes(m) \o Between(m, n) = Bytes(n)
<1> DEFINE b == Bytes(m)
           c == Between(m, n)
           d == Bytes(n)
<1>1. /\ b \in Seq(Nat) /\ Len(b) = m /\ \A i \in 1..m : b[i] = i
      /\ c \in Seq(Nat) /\ Len(c) = n - m /\ \A i \in 1..(n - m) : c[i] = m + i
      /\ d \in Seq(Nat) /\ Len(d) = n /\ \A i \in 1..n : d[i] = i
  BY BytesAre, BetweenAre
<1> HIDE DEF b, c, d
<1>2. /\ b \o c \in Seq(Nat) /\ Len(b \o c) = n
      /\ \A i \in 1..n : (b \o c)[i] = IF i <= m THEN b[i] ELSE c[i - m]
  BY <1>1, ConcatProperties
<1>3. ASSUME NEW i \in 1..n
      PROVE  (b \o c)[i] = d[i]
  <2>1. CASE i <= m
    BY <1>1, <1>2, <2>1
  <2>2. CASE ~(i <= m)
    <3>1. i - m \in 1..(n - m) /\ m + (i - m) = i
      BY <2>2
    <3>2. c[i - m] = i
      BY <1>1, <3>1
    <3> QED  BY <1>1, <1>2, <2>2, <3>2
  <2> QED  BY <2>1, <2>2
<1>4. b \o c = d
  BY <1>1, <1>2, <1>3, SeqEqual
<1> QED  BY <1>4 DEF b, c, d

\* The beginning of the bytes are the first bytes.
LEMMA BytesBegin ==
    ASSUME NEW a \in Seq(Nat), NEW b \in Seq(Nat), NEW n \in Nat, a \o b = Bytes(n)
    PROVE  a = Bytes(Len(a)) /\ Len(a) <= n /\ Len(b) = n - Len(a)
<1> DEFINE c == Bytes(Len(a))
           d == Bytes(n)
<1>1. /\ Len(a) \in Nat /\ Len(b) \in Nat
      /\ Len(a \o b) = Len(a) + Len(b)
      /\ \A i \in 1..(Len(a) + Len(b)) : (a \o b)[i] = IF i <= Len(a) THEN a[i] ELSE b[i - Len(a)]
  BY ConcatProperties, LenProperties
<1>2. /\ Len(d) = n /\ \A i \in 1..n : d[i] = i
      /\ c \in Seq(Nat) /\ Len(c) = Len(a) /\ \A i \in 1..Len(a) : c[i] = i
  BY <1>1, BytesAre
<1>3. a \o b = d
  OBVIOUS
<1> HIDE DEF c, d
<1>4. Len(a) + Len(b) = n
  BY <1>1, <1>2, <1>3
<1>5. \A i \in 1..Len(a) : a[i] = c[i]
  BY <1>1, <1>2, <1>3, <1>4
<1>6. a = c
  BY <1>2, <1>5, SeqEqual
<1> QED  BY <1>1, <1>4, <1>6 DEF c

LEMMA BytesPrefix ==
    ASSUME NEW m \in Nat, NEW n \in Nat, m <= n
    PROVE  IsPrefix(Bytes(m), Bytes(n))
<1> DEFINE c == Bytes(m)
           d == Bytes(n)
<1>1. /\ c \in Seq(Nat) /\ Len(c) = m /\ \A i \in 1..m : c[i] = i
      /\ d \in Seq(Nat) /\ Len(d) = n /\ \A i \in 1..n : d[i] = i
  BY BytesAre
<1> HIDE DEF c, d
<1>2. SubSeq(c, 1, m) = c
  BY <1>1, SubSeqFull
<1>3. /\ SubSeq(d, 1, m) \in Seq(Nat) /\ Len(SubSeq(d, 1, m)) = m
      /\ \A i \in 1..m : SubSeq(d, 1, m)[i] = d[i]
  <2>1. \A i \in 1..m : d[i] \in Nat
    BY <1>1
  <2> QED  BY <2>1, SubSeqProperties
<1>4. SubSeq(d, 1, m) = c
  BY <1>1, <1>3, SeqEqual
<1>5. IsPrefix(c, d)
  BY <1>1, <1>2, <1>4 DEF IsPrefix
<1> QED  BY <1>5 DEF c, d

\* What the kind of the message the relay is in the middle of becomes with a
\* frame.
Grammar(f, kind, next) ==
    \/ f.op \in {"ping", "pong", "close"} /\ next = kind /\ f.data = << >>
    \/ /\ f.op \in {"text", "binary"} /\ kind = "none"
       /\ next = IF f.fin THEN "none" ELSE f.op
       /\ f.op = "text" => f.data = << >>
    \/ /\ f.op = "cont" /\ kind \in {"text", "binary"}
       /\ next = IF f.fin THEN "none" ELSE kind
       /\ kind = "text" => f.data = << >>
    \/ /\ next = "bad" /\ f.data = << >>
       /\ \/ f.op = "bad"
          \/ f.op = "cont" /\ kind = "none"
          \/ f.op = "binary" /\ kind # "none"

\* The frames lead from one kind to the other.
Orderly(frames, kind, last) ==
    \E at \in [1..Len(frames) + 1 -> {"none", "text", "binary", "bad"}] :
        /\ at[1] = kind /\ at[Len(frames) + 1] = last
        /\ \A i \in 1..Len(frames) : Grammar(frames[i], at[i], at[i + 1])

LEMMA EmptyCarries ==
    ASSUME NEW n \in Nat
    PROVE  Carries(<< >>, n, n)
<1> DEFINE l == Len(<< >>)
           at == [i \in 1..(l + 1) |-> n]
<1>1. l = 0
  OBVIOUS
<1> HIDE DEF l
<1>2. at \in [1..(l + 1) -> n..n] /\ at[1] = n /\ at[l + 1] = n /\ DOMAIN at = 1..(l + 1)
  BY <1>1
<1> HIDE DEF at
<1>3. \A i, j \in DOMAIN at : i < j => at[i] <= at[j]
  BY <1>1, <1>2
<1>4. 1..l = {}
  BY <1>1
<1> QED  BY <1>2, <1>3, <1>4 DEF Carries, l

LEMMA OneMoreCarries ==
    ASSUME NEW S, NEW fs \in Seq(S), NEW f \in S, NEW m \in Nat, NEW n \in Nat, NEW k \in Nat,
           Carries(fs, m, n), n <= k, f.data = Between(n, k)
    PROVE  Carries(Append(fs, f), m, k)
<1> DEFINE gs == Append(fs, f)
           l == Len(fs)
<1>1. /\ l \in Nat /\ Len(gs) = l + 1 /\ gs[l + 1] = f
      /\ \A i \in 1..l : gs[i] = fs[i]
  BY AppendProperties, LenProperties
<1>2. PICK at \in [1..l + 1 -> m..n] :
        /\ at[1] = m /\ at[l + 1] = n
        /\ \A i, j \in DOMAIN at : i < j => at[i] <= at[j]
        /\ \A i \in 1..l : fs[i].data = Between(at[i], at[i + 1])
  BY DEF Carries
<1> HIDE DEF gs, l
<1> DEFINE to == [i \in 1..(l + 2) |-> IF i = l + 2 THEN k ELSE at[i]]
<1>3. \A i \in 1..(l + 1) : to[i] = at[i] /\ at[i] \in m..n
  BY <1>1, <1>2
<1>4. to[l + 2] = k /\ DOMAIN to = 1..(l + 2)
  BY <1>1
<1>5. to \in [1..(l + 2) -> m..k]
  <2>1. \A i \in 1..(l + 2) : i \in 1..(l + 1) \/ i = l + 2
    BY <1>1
  <2>2. m <= k
    BY <1>1, <1>3
  <2>3. \A i \in 1..(l + 2) : to[i] \in m..k
    BY <1>3, <1>4, <2>1, <2>2
  <2> QED  BY <2>3
<1> HIDE DEF to
<1>6. to[1] = m
  BY <1>1, <1>2, <1>3
<1>7. ASSUME NEW i \in DOMAIN to, NEW j \in DOMAIN to, i < j
      PROVE  to[i] <= to[j]
  <2>1. i \in 1..(l + 1)
    BY <1>1, <1>4, <1>7
  <2>2. CASE j = l + 2
    BY <1>3, <1>4, <2>1, <2>2
  <2>3. CASE j # l + 2
    <3>1. j \in 1..(l + 1)
      BY <1>1, <1>4, <2>3
    <3>2. at[i] <= at[j]
      BY <1>2, <1>7, <2>1, <3>1
    <3> QED  BY <1>3, <2>1, <3>1, <3>2
  <2> QED  BY <2>2, <2>3
<1>8. ASSUME NEW i \in 1..(l + 1)
      PROVE  gs[i].data = Between(to[i], to[i + 1])
  <2>1. CASE i \in 1..l
    <3>1. i \in 1..(l + 1) /\ i + 1 \in 1..(l + 1)
      BY <1>1, <2>1
    <3> QED  BY <1>1, <1>2, <1>3, <2>1, <3>1
  <2>2. CASE i = l + 1
    <3>1. to[i] = n /\ to[i + 1] = k
      BY <1>1, <1>2, <1>3, <1>4, <2>2
    <3> QED  BY <1>1, <2>2, <3>1
  <2> QED  BY <1>1, <2>1, <2>2
<1>9. Len(gs) + 1 = l + 2
  BY <1>1
<1>10. Carries(gs, m, k)
  BY <1>1, <1>4, <1>5, <1>6, <1>7, <1>8, <1>9 DEF Carries
<1> QED  BY <1>10 DEF gs

LEMMA OneLessCarries ==
    ASSUME NEW S, NEW fs \in Seq(S), fs # << >>, NEW m \in Nat, NEW n \in Nat,
           Carries(fs, m, n)
    PROVE  \E k \in m..n : Head(fs).data = Between(m, k) /\ Carries(Tail(fs), k, n)
<1> DEFINE gs == Tail(fs)
           l == Len(gs)
<1>1. /\ l \in Nat /\ Len(fs) = l + 1 /\ Head(fs) = fs[1]
      /\ \A i \in 1..l : gs[i] = fs[i + 1]
  BY HeadTailProperties, LenProperties, EmptySeq
<1> HIDE DEF gs, l
<1>2. PICK at \in [1..(l + 1) + 1 -> m..n] :
        /\ at[1] = m /\ at[(l + 1) + 1] = n
        /\ \A i, j \in DOMAIN at : i < j => at[i] <= at[j]
        /\ \A i \in 1..(l + 1) : fs[i].data = Between(at[i], at[i + 1])
  BY <1>1 DEF Carries
<1> DEFINE to == [i \in 1..(l + 1) |-> at[i + 1]]
<1>3. \A i \in 1..(l + 1) : i + 1 \in DOMAIN at /\ to[i] = at[i + 1] /\ at[i + 1] \in m..n
  BY <1>1, <1>2
<1>4. at[2] \in m..n /\ 2 \in DOMAIN at
  BY <1>1, <1>2
<1>5. \A i \in 1..(l + 1) : to[i] \in at[2]..n
  <2> SUFFICES ASSUME NEW i \in 1..(l + 1)
               PROVE  at[i + 1] \in at[2]..n
    BY <1>3
  <2>1. CASE i = 1
    BY <1>4, <2>1
  <2>2. CASE i # 1
    <3>1. 2 < i + 1
      BY <2>2
    <3>2. at[2] <= at[i + 1]
      BY <1>2, <1>3, <1>4, <3>1
    <3> QED  BY <1>3, <1>4, <3>2
  <2> QED  BY <2>1, <2>2
<1>6. to \in [1..(l + 1) -> at[2]..n] /\ DOMAIN to = 1..(l + 1)
  BY <1>5
<1> HIDE DEF to
<1>7. to[1] = at[2] /\ to[l + 1] = n
  BY <1>1, <1>2, <1>3
<1>8. ASSUME NEW i \in DOMAIN to, NEW j \in DOMAIN to, i < j
      PROVE  to[i] <= to[j]
  <2>1. i + 1 \in DOMAIN at /\ j + 1 \in DOMAIN at /\ i + 1 < j + 1
    BY <1>1, <1>3, <1>6, <1>8
  <2>2. at[i + 1] <= at[j + 1]
    BY <1>2, <2>1
  <2> QED  BY <1>3, <1>6, <2>2
<1>9. ASSUME NEW i \in 1..l
      PROVE  gs[i].data = Between(to[i], to[i + 1])
  <2>1. i + 1 \in 1..(l + 1) /\ i \in 1..(l + 1)
    BY <1>1
  <2> QED  BY <1>1, <1>2, <1>3, <2>1
<1>10. Carries(gs, at[2], n)
  BY <1>6, <1>7, <1>8, <1>9 DEF Carries, l
<1>11. Head(fs).data = Between(m, at[2])
  BY <1>1, <1>2
<1> QED  BY <1>4, <1>10, <1>11 DEF gs

LEMMA EmptyOrderly ==
    ASSUME NEW kind \in {"none", "text", "binary", "bad"}
    PROVE  Orderly(<< >>, kind, kind)
<1> DEFINE l == Len(<< >>)
           at == [i \in 1..(l + 1) |-> kind]
<1>1. l = 0
  OBVIOUS
<1> HIDE DEF l
<1>2. at \in [1..(l + 1) -> {"none", "text", "binary", "bad"}] /\ at[1] = kind /\ at[l + 1] = kind
  BY <1>1
<1> HIDE DEF at
<1>3. 1..l = {}
  BY <1>1
<1> QED  BY <1>2, <1>3 DEF Orderly, l

LEMMA OneMoreOrderly ==
    ASSUME NEW S, NEW fs \in Seq(S), NEW f \in S, NEW kind, NEW last,
           NEW next \in {"none", "text", "binary", "bad"},
           Orderly(fs, kind, last), Grammar(f, last, next)
    PROVE  Orderly(Append(fs, f), kind, next)
<1> DEFINE gs == Append(fs, f)
           l == Len(fs)
           K == {"none", "text", "binary", "bad"}
<1>1. /\ l \in Nat /\ Len(gs) = l + 1 /\ gs[l + 1] = f
      /\ \A i \in 1..l : gs[i] = fs[i]
  BY AppendProperties, LenProperties
<1>2. PICK at \in [1..l + 1 -> K] :
        /\ at[1] = kind /\ at[l + 1] = last
        /\ \A i \in 1..l : Grammar(fs[i], at[i], at[i + 1])
  BY DEF Orderly
<1>10. next \in K
  OBVIOUS
<1> HIDE DEF gs, l, K
<1> DEFINE to == [i \in 1..(l + 2) |-> IF i = l + 2 THEN next ELSE at[i]]
<1>3. ASSUME NEW i \in 1..(l + 1)
      PROVE  to[i] = at[i] /\ at[i] \in K
  <2>1. i \in 1..(l + 2) /\ i # l + 2
    BY <1>1
  <2>2. at[i] \in K
    BY <1>2
  <2> QED  BY <2>1, <2>2
<1>4. to[l + 2] = next
  BY <1>1
<1>5. to \in [1..(l + 2) -> K]
  <2>1. \A i \in 1..(l + 2) : i \in 1..(l + 1) \/ i = l + 2
    BY <1>1
  <2>2. \A i \in 1..(l + 2) : to[i] \in K
    BY <1>3, <1>4, <1>10, <2>1
  <2> QED  BY <2>2
<1> HIDE DEF to
<1>6. to[1] = kind
  BY <1>1, <1>2, <1>3
<1>7. ASSUME NEW i \in 1..(l + 1)
      PROVE  Grammar(gs[i], to[i], to[i + 1])
  <2>1. CASE i \in 1..l
    <3>1. i \in 1..(l + 1) /\ i + 1 \in 1..(l + 1)
      BY <1>1, <2>1
    <3> QED  BY <1>1, <1>2, <1>3, <2>1, <3>1
  <2>2. CASE i = l + 1
    <3>1. to[i] = last /\ to[i + 1] = next
      BY <1>1, <1>2, <1>3, <1>4, <2>2
    <3> QED  BY <1>1, <2>2, <3>1
  <2> QED  BY <1>1, <2>1, <2>2
<1>8. Len(gs) + 1 = l + 2
  BY <1>1
<1>9. Orderly(gs, kind, next)
  BY <1>1, <1>4, <1>5, <1>6, <1>7, <1>8 DEF Orderly, K
<1> QED  BY <1>9 DEF gs

LEMMA OneLessOrderly ==
    ASSUME NEW S, NEW fs \in Seq(S), fs # << >>, NEW kind, NEW last,
           Orderly(fs, kind, last)
    PROVE  \E next \in {"none", "text", "binary", "bad"} :
              Grammar(Head(fs), kind, next) /\ Orderly(Tail(fs), next, last)
<1> DEFINE gs == Tail(fs)
           l == Len(gs)
           K == {"none", "text", "binary", "bad"}
<1>1. /\ l \in Nat /\ Len(fs) = l + 1 /\ Head(fs) = fs[1]
      /\ \A i \in 1..l : gs[i] = fs[i + 1]
  BY HeadTailProperties, LenProperties, EmptySeq
<1> HIDE DEF gs, l
<1>2. PICK at \in [1..(l + 1) + 1 -> K] :
        /\ at[1] = kind /\ at[(l + 1) + 1] = last
        /\ \A i \in 1..(l + 1) : Grammar(fs[i], at[i], at[i + 1])
  BY <1>1 DEF Orderly
<1> HIDE DEF K
<1> DEFINE to == [i \in 1..(l + 1) |-> at[i + 1]]
<1>3. \A i \in 1..(l + 1) : to[i] = at[i + 1] /\ at[i + 1] \in K
  BY <1>1, <1>2
<1>4. to \in [1..(l + 1) -> K]
  BY <1>3
<1> HIDE DEF to
<1>5. to[1] = at[2] /\ to[l + 1] = last
  BY <1>1, <1>2, <1>3
<1>6. ASSUME NEW i \in 1..l
      PROVE  Grammar(gs[i], to[i], to[i + 1])
  <2>1. i + 1 \in 1..(l + 1) /\ i \in 1..(l + 1)
    BY <1>1
  <2> QED  BY <1>1, <1>2, <1>3, <2>1
<1>7. Orderly(gs, at[2], last)
  BY <1>4, <1>5, <1>6 DEF Orderly, l, K
<1>8. Grammar(Head(fs), kind, at[2]) /\ at[2] \in K
  BY <1>1, <1>2
<1> QED  BY <1>7, <1>8 DEF gs, K

\* What the client has of the inbound stream, and what is still to come.
Received == got \o pending \o assembled

Arriving ==
    phase \in {"await", "stream"} =>
        /\ Received = Bytes(Len(Received)) /\ Carries(wire, Len(Received), fed)
        /\ Orderly(wire, first, message)

Leaving == heard = Bytes(Len(heard)) /\ Carries(out, Len(heard), written)

StreamInv == StreamTypeOK /\ assembled \in Seq(Nat) /\ Arriving /\ Leaving

LEMMA NoneIsLost == StreamInv => StreamConsistent
  BY DEF StreamInv, Arriving, Leaving, Received, StreamConsistent, NothingLost

LEMMA IsFrame ==
    ASSUME NEW op \in {"cont", "text", "binary", "close", "ping", "pong", "bad"},
           NEW fin \in BOOLEAN, NEW data \in Seq(Nat), NEW text \in Texts
    PROVE  WsFrame(op, fin, data, text) \in Frames
  BY DEF WsFrame, Frames

LEMMA NoBytes == << >> \in Seq(Nat) /\ Len(<< >>) = 0
  BY EmptySeq

LEMMA StreamInitInv == StreamInit => StreamInv
<1> SUFFICES ASSUME StreamInit PROVE StreamInv
  OBVIOUS
<1> USE WebSocketAssumption, NoBytes
<1>1. << >> \in Seq(Frames)
  BY EmptySeq
<1>2. Bytes(0) = << >>
  BY BytesAre, EmptySeq
<1>3. got \o pending \o assembled = << >>
  <2>1. << >> \o << >> = << >>
    BY ConcatEmptySeq
  <2> QED  BY <2>1 DEF StreamInit
<1>4. StreamTypeOK
  <2>1. wire = << >> /\ out = << >> /\ assembled = << >>
    BY DEF StreamInit
  <2>2. Len(wire) <= INFLIGHT /\ Len(out) <= SOCKET /\ Len(assembled) <= MaxFrameBytes
    BY <2>1
  <2>3. \A i \in 1..Len(out) : Len(out[i].data) <= MaxFrameBytes
    BY <2>1
  <2>4. /\ wire \in Seq(Frames) /\ out \in Seq(Frames)
        /\ heard \in Seq(Nat) /\ got \in Seq(Nat) /\ pending \in Seq(Nat)
    BY <1>1 DEF StreamInit
  <2>5. /\ fed \in 0..MaxIn /\ control \in 0..CONTROL
        /\ given \in 0..MaxOut /\ written \in 0..given
    BY DEF StreamInit
  <2>6. /\ message = "none" /\ phase = "await" /\ first = "none" /\ ponging = FALSE
        /\ lock = "none"
    BY DEF StreamInit
  <2> QED  BY <2>1, <2>2, <2>3, <2>4, <2>5, <2>6 DEF StreamTypeOK
<1>5. Arriving
  <2>1. Carries(<< >>, 0, 0)
    BY EmptyCarries
  <2>2. Orderly(<< >>, "none", "none")
    BY EmptyOrderly
  <2> QED  BY <1>2, <1>3, <2>1, <2>2 DEF StreamInit, Arriving, Received
<1>6. Leaving
  <2>1. Carries(<< >>, 0, 0)
    BY EmptyCarries
  <2> QED  BY <1>2, <2>1 DEF StreamInit, Leaving
<1> QED  BY <1>4, <1>5, <1>6 DEF StreamInv, StreamInit

\* The next frame carries on where the client is.
LEMMA NextArrives ==
    ASSUME StreamInv, wire # << >>, phase \in {"await", "stream"}
    PROVE  /\ Head(wire) \in Frames /\ Tail(wire) \in Seq(Frames) /\ Len(Tail(wire)) <= INFLIGHT
           /\ Received \in Seq(Nat)
           /\ \E k \in Nat : /\ Received \o Head(wire).data = Bytes(k)
                             /\ Carries(Tail(wire), k, fed)
           /\ \E next \in {"none", "text", "binary", "bad"} :
                 Grammar(Head(wire), first, next) /\ Orderly(Tail(wire), next, message)
<1> USE WebSocketAssumption
<1>1. /\ wire \in Seq(Frames) /\ Len(wire) <= INFLIGHT /\ fed \in Nat
      /\ got \in Seq(Nat) /\ pending \in Seq(Nat) /\ assembled \in Seq(Nat)
  BY DEF StreamInv, StreamTypeOK
<1>2. /\ Head(wire) \in Frames /\ Tail(wire) \in Seq(Frames) /\ Len(Tail(wire)) = Len(wire) - 1
      /\ Len(wire) \in Nat
  BY <1>1, HeadTailProperties, LenProperties
<1>3. Received \in Seq(Nat) /\ Len(Received) \in Nat
  <2>1. got \o pending \in Seq(Nat)
    BY <1>1, ConcatProperties
  <2>2. Received \in Seq(Nat)
    BY <1>1, <2>1, ConcatProperties DEF Received
  <2> QED  BY <2>2, LenProperties
<1>4. /\ Received = Bytes(Len(Received)) /\ Carries(wire, Len(Received), fed)
      /\ Orderly(wire, first, message)
  BY DEF StreamInv, Arriving
<1>5. PICK k \in Len(Received)..fed :
         Head(wire).data = Between(Len(Received), k) /\ Carries(Tail(wire), k, fed)
  BY <1>1, <1>3, <1>4, OneLessCarries
<1>6. k \in Nat /\ Len(Received) <= k
  BY <1>1, <1>3
<1>7. Received \o Head(wire).data = Bytes(k)
  BY <1>3, <1>4, <1>5, <1>6, BytesGoOn
<1>8. \E next \in {"none", "text", "binary", "bad"} :
                 Grammar(Head(wire), first, next) /\ Orderly(Tail(wire), next, message)
  BY <1>1, <1>4, OneLessOrderly
<1>9. Len(Tail(wire)) <= INFLIGHT
  BY <1>1, <1>2
<1>10. \E l \in Nat : /\ Received \o Head(wire).data = Bytes(l)
                      /\ Carries(Tail(wire), l, fed)
  BY <1>5, <1>6, <1>7
<1> QED  BY <1>2, <1>3, <1>8, <1>9, <1>10

LEMMA NextKept ==
    ASSUME StreamInv, wire # << >>, phase \in {"await", "stream"},
           wire' = Tail(wire), UNCHANGED << message, fed >>,
           Received' = Received \o Head(wire).data,
           \A next : Grammar(Head(wire), first, next) => next = first'
    PROVE  Arriving'
<1>1. PICK k \in Nat : /\ Received \o Head(wire).data = Bytes(k)
                       /\ Carries(Tail(wire), k, fed)
  BY NextArrives
<1>2. Received' = Bytes(k) /\ Len(Bytes(k)) = k
  BY <1>1, BytesAre
<1>3. Len(Received') = k
  BY <1>2
<1>4. Carries(wire', Len(Received'), fed')
  BY <1>1, <1>3
<1>5. Orderly(wire', first', message')
  BY NextArrives
<1>6. Received' = Bytes(Len(Received'))
  BY <1>2, <1>3
<1> QED  BY <1>4, <1>5, <1>6 DEF Arriving

LEMMA SendsType ==
    ASSUME StreamInv, NEW f \in Frames, RelaySends(f),
           message' \in {"none", "text", "binary", "bad"}, fed + Len(f.data) <= MaxIn
    PROVE  StreamTypeOK' /\ assembled' \in Seq(Nat)
<1> USE WebSocketAssumption
<1>1. StreamTypeOK /\ assembled \in Seq(Nat)
  BY DEF StreamInv
<1>2. wire' \in Seq(Frames) /\ Len(wire') <= INFLIGHT
  <2>1. wire \in Seq(Frames) /\ Len(wire) < INFLIGHT /\ wire' = Append(wire, f)
    BY <1>1 DEF StreamTypeOK, RelaySends
  <2>2. wire' \in Seq(Frames) /\ Len(wire') = Len(wire) + 1 /\ Len(wire) \in Nat
    BY <2>1, AppendProperties, LenProperties
  <2> QED  BY <2>1, <2>2
<1>3. fed' \in 0..MaxIn
  <2>1. Len(f.data) \in Nat
    BY LenProperties DEF Frames
  <2> QED  BY <1>1, <2>1 DEF StreamTypeOK, RelaySends
<1>4. UNCHANGED << out, heard, phase, ponging, first, assembled, pending, control, got,
                   lock, given, written >>
  BY DEF RelaySends, readVars
<1> QED  BY <1>1, <1>2, <1>3, <1>4 DEF StreamTypeOK

LEMMA RelaySpeaksType ==
    ASSUME StreamInv, NEW kind \in {"text", "binary"}, NEW text \in Texts, NEW fin \in BOOLEAN,
           NEW n \in Nat, RelaySpeaks(kind, text, fin, n)
    PROVE  StreamTypeOK' /\ assembled' \in Seq(Nat)
<1> DEFINE f == WsFrame(IF message = "none" THEN kind ELSE "cont", fin, Between(fed, fed + n), text)
<1>1. fed \in Nat
  BY WebSocketAssumption DEF StreamInv, StreamTypeOK
<1>2. Between(fed, fed + n) \in Seq(Nat) /\ Len(Between(fed, fed + n)) = n
  <2>1. fed + n \in Nat /\ fed <= fed + n /\ (fed + n) - fed = n
    BY <1>1
  <2> QED  BY <1>1, <2>1, BetweenAre
<1>3. f \in Frames /\ f.data = Between(fed, fed + n)
  BY <1>2, IsFrame DEF WsFrame
<1>4. RelaySends(f) /\ fed + n <= MaxIn /\ message' \in {"none", "text", "binary", "bad"}
  BY DEF RelaySpeaks
<1> HIDE DEF f
<1> QED  BY <1>2, <1>3, <1>4, SendsType

LEMMA EmptySendsType ==
    ASSUME StreamInv, NEW op \in {"cont", "binary", "close", "ping", "pong", "bad"},
           RelaySends(WsFrame(op, TRUE, << >>, "news")),
           message' \in {"none", "text", "binary", "bad"}
    PROVE  StreamTypeOK' /\ assembled' \in Seq(Nat)
<1> DEFINE f == WsFrame(op, TRUE, << >>, "news")
<1>1. f \in Frames /\ f.data = << >>
  BY NoBytes, IsFrame DEF WsFrame, Texts
<1>2. RelaySends(f)
  OBVIOUS
<1> HIDE DEF f
<1>3. fed + Len(f.data) <= MaxIn
  <2>1. fed \in 0..MaxIn /\ Len(f.data) = 0
    BY <1>1, NoBytes DEF StreamInv, StreamTypeOK
  <2> QED  BY <2>1, WebSocketAssumption
<1> QED  BY <1>1, <1>2, <1>3, SendsType

\* A frame is taken, and the fields of the client keep their types.
LEMMA TakenType ==
    ASSUME StreamInv, Reading, TakenOff, UNCHANGED << out, got, given, written >>,
           phase' \in {"await", "stream", "failed", "closed"},
           first' \in {"none", "text", "binary"},
           assembled' \in Seq(Nat), Len(assembled') <= MaxFrameBytes,
           first' # "binary" => assembled' = << >>,
           pending' \in Seq(Nat), control' \in 0..CONTROL,
           ponging' \in BOOLEAN, lock' \in {"none", "reader", "writer"}
    PROVE  StreamTypeOK'
<1>1. wire' \in Seq(Frames) /\ Len(wire') <= INFLIGHT
  BY NextArrives DEF Reading, TakenOff
<1>2. UNCHANGED << message, fed, heard >>
  BY DEF TakenOff
<1> QED  BY <1>1, <1>2 DEF StreamInv, StreamTypeOK

LEMMA PutsType ==
    ASSUME StreamInv, Len(out) < SOCKET, NEW f \in Frames, Len(f.data) <= MaxFrameBytes
    PROVE  /\ Append(out, f) \in Seq(Frames) /\ Len(Append(out, f)) <= SOCKET
           /\ \A i \in 1..Len(Append(out, f)) : Len(Append(out, f)[i].data) <= MaxFrameBytes
<1> DEFINE gs == Append(out, f)
<1>1. /\ out \in Seq(Frames) /\ Len(out) < SOCKET
      /\ \A i \in 1..Len(out) : Len(out[i].data) <= MaxFrameBytes
  BY DEF StreamInv, StreamTypeOK
<1>2. /\ gs \in Seq(Frames) /\ Len(gs) = Len(out) + 1 /\ Len(out) \in Nat
      /\ \A i \in 1..Len(out) : gs[i] = out[i]
      /\ gs[Len(out) + 1] = f
  BY <1>1, AppendProperties, LenProperties
<1> HIDE DEF gs
<1>3. ASSUME NEW i \in 1..Len(gs)
      PROVE  Len(gs[i].data) <= MaxFrameBytes
  <2>1. CASE i = Len(out) + 1
    BY <1>2, <2>1
  <2>2. CASE i # Len(out) + 1
    <3>1. i \in 1..Len(out)
      BY <1>2, <2>2
    <3> QED  BY <1>1, <1>2, <3>1
  <2> QED  BY <2>1, <2>2
<1>4. Len(gs) <= SOCKET
  BY <1>1, <1>2, WebSocketAssumption
<1> QED  BY <1>2, <1>3, <1>4 DEF gs

LEMMA LastFrameType ==
    ASSUME StreamInv, LastFrame
    PROVE  /\ out' \in Seq(Frames) /\ Len(out') <= SOCKET
           /\ \A i \in 1..Len(out') : Len(out'[i].data) <= MaxFrameBytes
<1> DEFINE f == WsFrame("close", TRUE, << >>, "news")
<1>1. f \in Frames /\ f.data = << >>
  BY NoBytes, IsFrame DEF WsFrame, Texts
<1>2. out' = IF Len(out) < SOCKET THEN Append(out, f) ELSE out
  BY DEF LastFrame
<1> HIDE DEF f
<1>3. Len(f.data) <= MaxFrameBytes
  <2>1. Len(f.data) = 0
    BY <1>1, NoBytes
  <2> QED  BY <2>1, WebSocketAssumption
<1>4. CASE Len(out) < SOCKET
  BY <1>1, <1>2, <1>3, <1>4, PutsType
<1>5. CASE ~(Len(out) < SOCKET)
  BY <1>2, <1>5 DEF StreamInv, StreamTypeOK
<1> QED  BY <1>4, <1>5

LEMMA PayloadType ==
    ASSUME StreamInv, Reading
    PROVE  /\ Payload(Head(wire)) \in Seq(Nat) /\ Len(Payload(Head(wire))) \in Nat
           /\ Head(wire).data \in Seq(Nat) /\ Head(wire) \in Frames
           /\ phase \in {"await", "stream"} /\ wire # << >>
<1>1. wire # << >> /\ phase \in {"await", "stream"}
  BY DEF Reading
<1>2. Head(wire) \in Frames /\ assembled \in Seq(Nat)
  BY <1>1, NextArrives DEF StreamInv
<1>3. Head(wire).data \in Seq(Nat)
  BY <1>2 DEF Frames
<1>4. Payload(Head(wire)) \in Seq(Nat)
  BY <1>2, <1>3, ConcatProperties DEF Payload
<1> QED  BY <1>1, <1>2, <1>3, <1>4, LenProperties

\* No byte of a text message is kept.
LEMMA TextIsEmpty ==
    ASSUME StreamInv, Reading, Legal(Head(wire)), Kind(Head(wire)) # "binary"
    PROVE  Payload(Head(wire)) = << >> /\ assembled = << >> /\ Head(wire).data = << >>
<1>1. PICK next \in {"none", "text", "binary", "bad"} : Grammar(Head(wire), first, next)
  BY PayloadType, NextArrives
<1>2. Head(wire).op \in {"cont", "text", "binary"} /\ ~Illegal(Head(wire))
  BY DEF Legal
<1>3. first \in {"none", "text", "binary"} /\ (first # "binary" => assembled = << >>)
  BY DEF StreamInv, StreamTypeOK
<1>4. Head(wire).data = << >> /\ assembled = << >>
  BY <1>1, <1>2, <1>3 DEF Grammar, Illegal, Kind
<1>5. << >> \o << >> = << >>
  BY NoBytes, ConcatEmptySeq
<1> QED  BY <1>4, <1>5 DEF Payload

\* What a whole message does to the fields that Gets sets.
LEMMA GetsType ==
    ASSUME StreamInv, NEW kind, Gets(kind), phase' \in {"await", "stream", "failed", "closed"},
           pending' \in Seq(Nat), control' \in 0..CONTROL
    PROVE  StreamTypeOK' /\ assembled' \in Seq(Nat)
<1>1. /\ Reading /\ TakenOff /\ first' = "none" /\ assembled' = << >>
      /\ UNCHANGED << out, got, given, written, ponging, lock >>
  BY DEF Gets, writeVars
<1>2. ponging \in BOOLEAN /\ lock \in {"none", "reader", "writer"}
  BY DEF StreamInv, StreamTypeOK
<1>3. assembled' \in Seq(Nat) /\ Len(assembled') <= MaxFrameBytes
  BY <1>1, NoBytes, WebSocketAssumption
<1> QED  BY <1>1, <1>2, <1>3, TakenType

LEMMA ReadsType ==
    ASSUME StreamInv, Reads
    PROVE  StreamTypeOK' /\ assembled' \in Seq(Nat)
<1> USE WebSocketAssumption
<1>1. StreamTypeOK /\ assembled \in Seq(Nat)
  BY DEF StreamInv
<1>2. CASE GetsPing
  BY <1>1, <1>2, TakenType DEF GetsPing, StreamTypeOK, readVars, writeVars
<1>3. CASE GetsPong
  BY <1>1, <1>3, TakenType DEF GetsPong, StreamTypeOK, readVars, writeVars
<1>4. CASE GetsClose
  <2>1. /\ out' \in Seq(Frames) /\ Len(out') <= SOCKET
        /\ \A i \in 1..Len(out') : Len(out'[i].data) <= MaxFrameBytes
    BY <1>4, LastFrameType DEF GetsClose
  <2>2. wire' \in Seq(Frames) /\ Len(wire') <= INFLIGHT
    BY <1>4, NextArrives DEF GetsClose, Reading, TakenOff
  <2>3. /\ phase' = "closed"
        /\ UNCHANGED << message, fed, heard, ponging, lock, given, written,
                        first, assembled, pending, control, got >>
    BY <1>4 DEF GetsClose, TakenOff, readVars
  <2> QED  BY <1>1, <2>1, <2>2, <2>3 DEF StreamTypeOK
<1>5. CASE GetsIllegal
  BY <1>1, <1>5, TakenType DEF GetsIllegal, ReadFails, StreamTypeOK, readVars, writeVars
<1>6. CASE GetsTooMuch
  BY <1>1, <1>6, TakenType DEF GetsTooMuch, ReadFails, StreamTypeOK, readVars, writeVars
<1>7. CASE GetsFragment
  <2>1. /\ Reading /\ TakenOff /\ Legal(Head(wire)) /\ ~TooLong(Head(wire))
        /\ first' = Kind(Head(wire)) /\ assembled' = Payload(Head(wire))
        /\ UNCHANGED << out, got, given, written, phase, pending, control, ponging, lock >>
    BY <1>7 DEF GetsFragment, writeVars
  <2>2. assembled' \in Seq(Nat) /\ Len(assembled') <= MaxFrameBytes
    <3>1. ~(Len(Payload(Head(wire))) > MaxFrameBytes)
      BY <2>1 DEF TooLong
    <3> QED  BY <2>1, <3>1, PayloadType
  <2>3. first' \in {"none", "text", "binary"}
    <3>1. Head(wire).op \in {"cont", "text", "binary"} /\ first \in {"none", "text", "binary"}
      BY <1>1, <2>1 DEF Legal, StreamTypeOK
    <3> QED  BY <2>1, <3>1 DEF Kind
  <2>4. first' # "binary" => assembled' = << >>
    BY <2>1, TextIsEmpty
  <2>5. /\ phase' \in {"await", "stream", "failed", "closed"} /\ pending' \in Seq(Nat)
        /\ control' \in 0..CONTROL /\ ponging' \in BOOLEAN
        /\ lock' \in {"none", "reader", "writer"}
    BY <1>1, <2>1 DEF StreamTypeOK
  <2> QED  BY <2>1, <2>2, <2>3, <2>4, <2>5, TakenType
<1>8. CASE AwaitsData
  <2>1. Gets("binary") /\ Reading /\ pending' = pending \o Payload(Head(wire))
        /\ UNCHANGED << phase, control >>
    BY <1>8 DEF AwaitsData, Keeps, Gets
  <2>2. pending' \in Seq(Nat)
    BY <1>1, <2>1, PayloadType, ConcatProperties DEF StreamTypeOK
  <2>3. phase' \in {"await", "stream", "failed", "closed"} /\ control' \in 0..CONTROL
    BY <1>1, <2>1 DEF StreamTypeOK
  <2> QED  BY <2>1, <2>2, <2>3, GetsType
<1>9. CASE AwaitsText
  <2>1. Gets("text") /\ UNCHANGED << pending, control >>
        /\ phase' \in {"await", "stream", "failed", "closed"}
    BY <1>9 DEF AwaitsText
  <2>2. pending' \in Seq(Nat) /\ control' \in 0..CONTROL
    BY <1>1, <2>1 DEF StreamTypeOK
  <2> QED  BY <2>1, <2>2, GetsType
<1>10. CASE ReadsData
  <2>1. Gets("binary") /\ Reading /\ pending' = Payload(Head(wire))
        /\ UNCHANGED << phase, control >>
    BY <1>10 DEF ReadsData, Gets
  <2>2. pending' \in Seq(Nat)
    BY <2>1, PayloadType
  <2>3. phase' \in {"await", "stream", "failed", "closed"} /\ control' \in 0..CONTROL
    BY <1>1, <2>1 DEF StreamTypeOK
  <2> QED  BY <2>1, <2>2, <2>3, GetsType
<1>11. CASE ReadsText
  <2>1. Gets("text") /\ UNCHANGED << phase, pending >>
        /\ control' = IF control < CONTROL THEN control + 1 ELSE control
    BY <1>11 DEF ReadsText
  <2>2. /\ phase' \in {"await", "stream", "failed", "closed"}
        /\ pending' \in Seq(Nat) /\ control' \in 0..CONTROL
    BY <1>1, <2>1 DEF StreamTypeOK
  <2> QED  BY <2>1, <2>2, GetsType
<1> QED  BY <1>2, <1>3, <1>4, <1>5, <1>6, <1>7, <1>8, <1>9, <1>10, <1>11 DEF Reads

\* Where the next frame of Write ends, and what is in it.
LEMMA ChunkIs ==
    ASSUME StreamInv
    PROVE  /\ written \in Nat /\ FrameEnd \in Nat /\ written <= FrameEnd /\ FrameEnd <= given
           /\ Chunk = Between(written, FrameEnd)
           /\ Chunk \in Seq(Nat) /\ Len(Chunk) <= MaxFrameBytes
<1>1. written \in Nat /\ given \in Nat /\ written <= given /\ MaxFrameBytes \in Nat
  BY WebSocketAssumption DEF StreamInv, StreamTypeOK
<1>2. /\ FrameEnd \in Nat /\ written <= FrameEnd /\ FrameEnd <= given
      /\ FrameEnd - written <= MaxFrameBytes
  BY <1>1 DEF FrameEnd
<1>3. Chunk \in Seq(Nat) /\ Len(Chunk) = FrameEnd - written
  BY <1>1, <1>2, BetweenAre DEF Chunk
<1>4. Chunk = Between(written, FrameEnd)
  BY DEF Chunk
<1> QED  BY <1>1, <1>2, <1>3, <1>4

LEMMA StreamTypeStep ==
    ASSUME StreamInv, StreamNext
    PROVE  StreamTypeOK' /\ assembled' \in Seq(Nat)
<1> USE WebSocketAssumption
<1>1. StreamTypeOK /\ assembled \in Seq(Nat)
  BY DEF StreamInv
<1>2. ASSUME NEW text \in Texts, NEW fin \in BOOLEAN, RelaySpeaks("text", text, fin, 0)
      PROVE  StreamTypeOK' /\ assembled' \in Seq(Nat)
  BY <1>2, RelaySpeaksType
<1>3. ASSUME NEW fin \in BOOLEAN, NEW n \in 0..1, RelaySpeaks("binary", "news", fin, n)
      PROVE  StreamTypeOK' /\ assembled' \in Seq(Nat)
  BY <1>3, RelaySpeaksType DEF Texts
<1>4. ASSUME NEW op \in {"ping", "pong", "close"}, RelayControls(op)
      PROVE  StreamTypeOK' /\ assembled' \in Seq(Nat)
  BY <1>1, <1>4, EmptySendsType DEF RelayControls, StreamTypeOK
<1>5. CASE RelayErrs
  BY <1>5, EmptySendsType DEF RelayErrs
<1>6. CASE RelayReads
  <2>1. /\ out \in Seq(Frames) /\ Len(out) <= SOCKET /\ out # << >> /\ out' = Tail(out)
        /\ \A i \in 1..Len(out) : Len(out[i].data) <= MaxFrameBytes
        /\ heard' = heard \o Head(out).data
    BY <1>1, <1>6 DEF StreamTypeOK, RelayReads
  <2>2. /\ out' \in Seq(Frames) /\ Len(out') = Len(out) - 1 /\ Len(out) \in Nat
        /\ Head(out) \in Frames
        /\ \A i \in 1..Len(out') : out'[i] = out[i + 1]
    BY <2>1, HeadTailProperties, LenProperties
  <2>3. ASSUME NEW i \in 1..Len(out')
        PROVE  Len(out'[i].data) <= MaxFrameBytes
    <3>1. i + 1 \in 1..Len(out)
      BY <2>2
    <3> QED  BY <2>1, <2>2, <3>1
  <2>4. Len(out') <= SOCKET
    BY <2>1, <2>2
  <2>5. heard' \in Seq(Nat)
    <3>1. Head(out).data \in Seq(Nat) /\ heard \in Seq(Nat)
      BY <1>1, <2>2 DEF Frames, StreamTypeOK
    <3> QED  BY <2>1, <3>1, ConcatProperties
  <2>6. UNCHANGED << message, wire, fed, phase, ponging, first, assembled, pending, control,
                     got, lock, given, written >>
    BY <1>6 DEF RelayReads, readVars
  <2> QED  BY <1>1, <2>2, <2>3, <2>4, <2>5, <2>6 DEF StreamTypeOK
<1>7. CASE Reads
  BY <1>7, ReadsType
<1>8. ASSUME NEW n \in 1..MaxFrameBytes, Returns(n)
      PROVE  StreamTypeOK' /\ assembled' \in Seq(Nat)
  <2>1. /\ n \in 1..Len(pending) /\ got' = got \o SubSeq(pending, 1, n)
        /\ pending' = SubSeq(pending, n + 1, Len(pending))
        /\ UNCHANGED << message, wire, fed, heard, phase, ponging, first, assembled,
                        control, out, lock, given, written >>
    BY <1>8 DEF Returns, writeVars
  <2>2. /\ Len(pending) \in Nat /\ got \in Seq(Nat)
        /\ \A i \in 1..Len(pending) : pending[i] \in Nat
    BY <1>1, LenProperties, ElementOfSeq DEF StreamTypeOK
  <2>3. pending' \in Seq(Nat)
    <3>1. n + 1 \in Int /\ Len(pending) \in Int /\ \A i \in n + 1..Len(pending) : pending[i] \in Nat
      BY <2>1, <2>2
    <3> QED  BY <2>1, <3>1, SubSeqProperties
  <2>4. SubSeq(pending, 1, n) \in Seq(Nat)
    <3>1. n \in Int /\ \A i \in 1..n : pending[i] \in Nat
      BY <2>1, <2>2
    <3> QED  BY <3>1, SubSeqProperties
  <2>5. got' \in Seq(Nat)
    BY <2>1, <2>2, <2>4, ConcatProperties
  <2> QED  BY <1>1, <2>1, <2>3, <2>5 DEF StreamTypeOK
<1>9. CASE Breaks
  BY <1>1, <1>9 DEF Breaks, ReadFails, StreamTypeOK, readVars, writeVars
<1>10. CASE Closes
  <2>1. /\ out' \in Seq(Frames) /\ Len(out') <= SOCKET
        /\ \A i \in 1..Len(out') : Len(out'[i].data) <= MaxFrameBytes
    BY <1>10, LastFrameType DEF Closes
  <2>2. /\ phase' = "closed" /\ ponging' = FALSE
        /\ UNCHANGED << message, wire, fed, heard, first, assembled, pending, control, got,
                        lock, given, written >>
    BY <1>10 DEF Closes, readVars
  <2> QED  BY <1>1, <2>1, <2>2 DEF StreamTypeOK
<1>11. ASSUME NEW n \in 1..MaxOut, Write(n)
       PROVE  StreamTypeOK' /\ assembled' \in Seq(Nat)
  <2>1. /\ given' = given + n /\ given + n <= MaxOut
        /\ UNCHANGED << message, wire, fed, heard, phase, ponging, first, assembled, pending,
                        control, got, out, lock, written >>
    BY <1>11 DEF Write, readVars
  <2>2. given' \in 0..MaxOut /\ written' \in 0..given'
    BY <1>1, <2>1 DEF StreamTypeOK
  <2> QED  BY <1>1, <2>1, <2>2 DEF StreamTypeOK
<1>12. ASSUME NEW who \in {"reader", "writer"}, Locks(who)
       PROVE  StreamTypeOK' /\ assembled' \in Seq(Nat)
  BY <1>1, <1>12 DEF Locks, StreamTypeOK, readVars
<1>13. CASE WritesFrame
  <2> DEFINE f == WsFrame("binary", TRUE, Chunk, "news")
  <2>1. f \in Frames /\ f.data = Chunk
    BY ChunkIs, IsFrame DEF WsFrame, Texts
  <2>2. /\ Len(out) < SOCKET /\ out' = Append(out, f) /\ lock' = "none" /\ written' = FrameEnd
        /\ UNCHANGED << message, wire, fed, heard, phase, ponging, first, assembled, pending,
                        control, got, given >>
    BY <1>13 DEF WritesFrame, readVars
  <2> HIDE DEF f
  <2>3. /\ out' \in Seq(Frames) /\ Len(out') <= SOCKET
        /\ \A i \in 1..Len(out') : Len(out'[i].data) <= MaxFrameBytes
    BY <2>1, <2>2, ChunkIs, PutsType
  <2>4. written' \in 0..given' /\ given' \in 0..MaxOut
    BY <1>1, <2>2, ChunkIs DEF StreamTypeOK
  <2> QED  BY <1>1, <2>2, <2>3, <2>4 DEF StreamTypeOK
<1>14. CASE WritesPong
  <2> DEFINE f == WsFrame("pong", TRUE, << >>, "news")
  <2>1. f \in Frames /\ f.data = << >>
    BY NoBytes, IsFrame DEF WsFrame, Texts
  <2>2. /\ Len(out) < SOCKET /\ out' = Append(out, f) /\ lock' = "none" /\ ponging' = FALSE
        /\ UNCHANGED << message, wire, fed, heard, phase, first, assembled, pending,
                        control, got, given, written >>
    BY <1>14 DEF WritesPong, readVars
  <2> HIDE DEF f
  <2>3. /\ out' \in Seq(Frames) /\ Len(out') <= SOCKET
        /\ \A i \in 1..Len(out') : Len(out'[i].data) <= MaxFrameBytes
    BY <2>1, <2>2, NoBytes, PutsType
  <2> QED  BY <1>1, <2>2, <2>3 DEF StreamTypeOK
<1>15. CASE WriteFails
  BY <1>1, <1>15 DEF WriteFails, StreamTypeOK, readVars
<1> QED  BY <1>2, <1>3, <1>4, <1>5, <1>6, <1>7, <1>8, <1>9, <1>10, <1>11, <1>12,
            <1>13, <1>14, <1>15 DEF StreamNext

LEMMA PutsLeaving ==
    ASSUME StreamInv, NEW f \in Frames, out' = Append(out, f), heard' = heard,
           written' \in Nat, written <= written', f.data = Between(written, written')
    PROVE  Leaving'
<1>1. out \in Seq(Frames) /\ written \in Nat /\ heard \in Seq(Nat)
  BY WebSocketAssumption DEF StreamInv, StreamTypeOK
<1>2. heard = Bytes(Len(heard)) /\ Carries(out, Len(heard), written) /\ Len(heard) \in Nat
  BY <1>1, LenProperties DEF StreamInv, Leaving
<1>3. Carries(Append(out, f), Len(heard), written')
  BY <1>1, <1>2, OneMoreCarries
<1> QED  BY <1>2, <1>3 DEF Leaving

\* A frame without data changes nothing of the outbound stream.
LEMMA EmptyLeaving ==
    ASSUME StreamInv, NEW f \in Frames, f.data = << >>, out' \in {out, Append(out, f)},
           UNCHANGED << heard, written >>
    PROVE  Leaving'
<1>1. written \in Nat /\ f.data = Between(written, written)
  <2>1. written \in Nat
    BY WebSocketAssumption DEF StreamInv, StreamTypeOK
  <2> QED  BY <2>1, NothingBetween
<1>2. CASE out' = out
  BY <1>2 DEF StreamInv, Leaving
<1>3. CASE out' = Append(out, f)
  <2>1. written' = written /\ heard' = heard /\ written' \in Nat /\ written <= written'
        /\ f.data = Between(written, written')
    BY <1>1
  <2> QED  BY <1>3, <2>1, PutsLeaving
<1> QED  BY <1>2, <1>3

LEMMA LastFrameLeaving ==
    ASSUME StreamInv, LastFrame, UNCHANGED << heard, written >>
    PROVE  Leaving'
<1> DEFINE f == WsFrame("close", TRUE, << >>, "news")
<1>1. f \in Frames /\ f.data = << >>
  BY NoBytes, IsFrame DEF WsFrame, Texts
<1>2. out' \in {out, Append(out, f)}
  BY DEF LastFrame
<1> HIDE DEF f
<1> QED  BY <1>1, <1>2, EmptyLeaving

LEMMA LeavingStep ==
    ASSUME StreamInv, StreamNext
    PROVE  Leaving'
<1> USE WebSocketAssumption
<1>1. CASE UNCHANGED << out, heard, written >>
  BY <1>1 DEF StreamInv, Leaving
<1>2. ASSUME NEW f, RelaySends(f)
      PROVE  Leaving'
  BY <1>1, <1>2 DEF RelaySends
<1>3. CASE RelayReads
  <2>1. /\ out # << >> /\ out' = Tail(out) /\ heard' = heard \o Head(out).data
        /\ written' = written
    BY <1>3 DEF RelayReads
  <2>2. out \in Seq(Frames) /\ written \in Nat /\ heard \in Seq(Nat) /\ Len(heard) \in Nat
    BY LenProperties DEF StreamInv, StreamTypeOK
  <2>3. heard = Bytes(Len(heard)) /\ Carries(out, Len(heard), written)
    BY DEF StreamInv, Leaving
  <2>4. PICK k \in Len(heard)..written :
           Head(out).data = Between(Len(heard), k) /\ Carries(Tail(out), k, written)
    BY <2>1, <2>2, <2>3, OneLessCarries
  <2>5. k \in Nat /\ Len(heard) <= k
    BY <2>2
  <2>6. heard' = Bytes(k)
    BY <2>1, <2>2, <2>3, <2>4, <2>5, BytesGoOn
  <2>7. Len(heard') = k
    BY <2>5, <2>6, BytesAre
  <2> QED  BY <2>1, <2>4, <2>6, <2>7 DEF Leaving
<1>4. CASE Reads
  <2>1. CASE GetsClose
    BY <2>1, LastFrameLeaving DEF GetsClose, TakenOff
  <2>2. CASE ~GetsClose
    <3>1. UNCHANGED << out, heard, written >>
      BY <1>4, <2>2 DEF Reads, GetsPing, GetsPong, GetsIllegal, GetsTooMuch, GetsFragment,
            AwaitsData, AwaitsText, ReadsData, ReadsText, Gets, TakenOff, writeVars
    <3> QED  BY <1>1, <3>1
  <2> QED  BY <2>1, <2>2
<1>5. ASSUME NEW n, Returns(n)
      PROVE  Leaving'
  BY <1>1, <1>5 DEF Returns, writeVars
<1>6. CASE Breaks
  BY <1>1, <1>6 DEF Breaks, writeVars
<1>7. CASE Closes
  BY <1>7, LastFrameLeaving DEF Closes
<1>8. ASSUME NEW n, Write(n)
      PROVE  Leaving'
  BY <1>1, <1>8 DEF Write
<1>9. ASSUME NEW who, Locks(who)
      PROVE  Leaving'
  BY <1>1, <1>9 DEF Locks
<1>10. CASE WritesFrame
  <2> DEFINE f == WsFrame("binary", TRUE, Chunk, "news")
  <2>1. f \in Frames /\ f.data = Chunk
    BY ChunkIs, IsFrame DEF WsFrame, Texts
  <2>2. out' = Append(out, f) /\ written' = FrameEnd /\ heard' = heard
    BY <1>10 DEF WritesFrame
  <2> HIDE DEF f
  <2>3. written' \in Nat /\ written <= written' /\ f.data = Between(written, written')
    BY <2>1, <2>2, ChunkIs
  <2> QED  BY <2>1, <2>2, <2>3, PutsLeaving
<1>11. CASE WritesPong
  <2> DEFINE f == WsFrame("pong", TRUE, << >>, "news")
  <2>1. f \in Frames /\ f.data = << >>
    BY NoBytes, IsFrame DEF WsFrame, Texts
  <2>2. out' \in {out, Append(out, f)} /\ UNCHANGED << heard, written >>
    BY <1>11 DEF WritesPong
  <2> HIDE DEF f
  <2> QED  BY <2>1, <2>2, EmptyLeaving
<1>12. CASE WriteFails
  BY <1>1, <1>12 DEF WriteFails
<1> QED  BY <1>2, <1>3, <1>4, <1>5, <1>6, <1>7, <1>8, <1>9, <1>10, <1>11, <1>12
         DEF StreamNext, RelaySpeaks, RelayControls, RelayErrs

LEMMA SendsArriving ==
    ASSUME StreamInv, NEW f \in Frames, RelaySends(f), fed' \in Nat, fed <= fed',
           f.data = Between(fed, fed'), message' \in {"none", "text", "binary", "bad"},
           Grammar(f, message, message')
    PROVE  Arriving'
<1>1. /\ wire \in Seq(Frames) /\ fed \in Nat
      /\ wire' = Append(wire, f) /\ phase \in {"await", "stream"}
      /\ UNCHANGED << phase, first, assembled, pending, got >>
  BY WebSocketAssumption DEF StreamInv, StreamTypeOK, RelaySends, readVars
<1>2. /\ Received = Bytes(Len(Received)) /\ Carries(wire, Len(Received), fed)
      /\ Orderly(wire, first, message)
  BY <1>1 DEF StreamInv, Arriving
<1>3. Received' = Received
  BY <1>1 DEF Received
<1>4. Len(Received) \in Nat
  <2>1. got \in Seq(Nat) /\ pending \in Seq(Nat) /\ assembled \in Seq(Nat)
    BY DEF StreamInv, StreamTypeOK
  <2>2. Received \in Seq(Nat)
    BY <2>1, ConcatProperties DEF Received
  <2> QED  BY <2>2, LenProperties
<1>5. Carries(wire', Len(Received), fed')
  BY <1>1, <1>2, <1>4, OneMoreCarries
<1>6. Orderly(wire', first, message')
  BY <1>1, <1>2, OneMoreOrderly
<1> QED  BY <1>1, <1>2, <1>3, <1>5, <1>6 DEF Arriving

LEMMA SpeaksArriving ==
    ASSUME StreamInv, NEW kind \in {"text", "binary"}, NEW text \in Texts, NEW fin \in BOOLEAN,
           NEW n \in Nat, RelaySpeaks(kind, text, fin, n)
    PROVE  Arriving'
<1> DEFINE op == IF message = "none" THEN kind ELSE "cont"
           data == Between(fed, fed + n)
           f == WsFrame(op, fin, data, text)
<1>1. fed \in Nat
  BY WebSocketAssumption DEF StreamInv, StreamTypeOK
<1>2. data \in Seq(Nat) /\ Len(data) = n
  <2>1. fed + n \in Nat /\ fed <= fed + n /\ (fed + n) - fed = n
    BY <1>1
  <2> QED  BY <1>1, <2>1, BetweenAre
<1>3. n = 0 => data = << >>
  <2>1. ASSUME n = 0 PROVE data = << >>
    <3>1. fed + n = fed
      BY <1>1, <2>1
    <3> QED  BY <1>1, <3>1, NothingBetween
  <2> QED  BY <2>1
<1>4. op \in {"cont", "text", "binary"}
  OBVIOUS
<1>5. RelaySends(f)
  BY DEF RelaySpeaks
<1>6. message \in {"none", kind} /\ (kind = "text" => n = 0)
      /\ message' = IF fin THEN "none" ELSE kind
  BY DEF RelaySpeaks
<1>7. op = IF message = "none" THEN kind ELSE "cont"
  OBVIOUS
<1>8. data = Between(fed, fed + n)
  OBVIOUS
<1> HIDE DEF op, data
<1>9. f \in Frames /\ f.op = op /\ f.fin = fin /\ f.data = data
  BY <1>2, <1>4, IsFrame DEF WsFrame
<1> HIDE DEF f
<1>10. fed' = fed + n
  BY <1>2, <1>5, <1>9 DEF RelaySends
<1>11. Grammar(f, message, message')
  BY <1>3, <1>6, <1>7, <1>9 DEF Grammar
<1>12. fed' \in Nat /\ fed <= fed' /\ f.data = Between(fed, fed')
       /\ message' \in {"none", "text", "binary", "bad"}
  BY <1>1, <1>6, <1>8, <1>9, <1>10
<1> QED  BY <1>5, <1>9, <1>11, <1>12, SendsArriving

LEMMA EmptyArriving ==
    ASSUME StreamInv, NEW op \in {"cont", "binary", "close", "ping", "pong", "bad"},
           RelaySends(WsFrame(op, TRUE, << >>, "news")),
           \/ op \in {"ping", "pong", "close"} /\ message' = message
           \/ /\ message' = "bad"
              /\ \/ op = "bad"
                 \/ op = "cont" /\ message = "none"
                 \/ op = "binary" /\ message # "none"
    PROVE  Arriving'
<1> DEFINE f == WsFrame(op, TRUE, << >>, "news")
<1>1. f \in Frames /\ f.data = << >> /\ f.op = op
  BY NoBytes, IsFrame DEF WsFrame, Texts
<1>2. RelaySends(f)
  OBVIOUS
<1> HIDE DEF f
<1>3. fed \in Nat /\ message \in {"none", "text", "binary", "bad"}
  BY WebSocketAssumption DEF StreamInv, StreamTypeOK
<1>4. fed' = fed
  <2>1. fed' = fed + 0
    BY <1>1, <1>2, NoBytes DEF RelaySends
  <2> QED  BY <1>3, <2>1
<1>5. fed' \in Nat /\ fed <= fed' /\ f.data = Between(fed, fed')
  BY <1>1, <1>3, <1>4, NothingBetween
<1>6. Grammar(f, message, message') /\ message' \in {"none", "text", "binary", "bad"}
  BY <1>1, <1>3 DEF Grammar
<1> QED  BY <1>1, <1>2, <1>5, <1>6, SendsArriving

LEMMA JoinsUp ==
    \A s, t, u \in Seq(Nat) : (s \o t) \o u = s \o (t \o u)
<1> TAKE s, t, u \in Seq(Nat)
<1> QED  BY ConcatAssociative

\* A message is assembled: what is kept grows by the payload of its last frame.
LEMMA ReadsArriving ==
    ASSUME StreamInv, Reads
    PROVE  Arriving'
<1>1. CASE phase' \notin {"await", "stream"}
  BY <1>1 DEF Arriving
<1>2. ASSUME phase' \in {"await", "stream"}
      PROVE  Arriving'
  <2> DEFINE f == Head(wire)
  <2>1. Reading /\ TakenOff
    BY DEF Reads, GetsPing, GetsPong, GetsClose, GetsIllegal, GetsTooMuch, GetsFragment,
           AwaitsData, AwaitsText, ReadsData, ReadsText, Gets
  <2>2. /\ Payload(f) \in Seq(Nat) /\ f.data \in Seq(Nat) /\ f \in Frames
        /\ phase \in {"await", "stream"} /\ wire # << >>
    BY <2>1, PayloadType
  <2>3. /\ got \in Seq(Nat) /\ pending \in Seq(Nat) /\ assembled \in Seq(Nat)
        /\ got \o pending \in Seq(Nat) /\ Received \in Seq(Nat)
        /\ first \in {"none", "text", "binary"}
    BY <2>2, NextArrives, ConcatProperties DEF StreamInv, StreamTypeOK
  <2>4. wire' = Tail(wire) /\ UNCHANGED << message, fed >>
    BY <2>1 DEF TakenOff
  <2> HIDE DEF f
  <2>5. (got \o pending) \o Payload(f) = Received \o f.data
    <3> DEFINE a == got \o pending
               d == f.data
    <3>1. a \in Seq(Nat) /\ assembled \in Seq(Nat) /\ d \in Seq(Nat)
      BY <2>2, <2>3
    <3> HIDE DEF a, d
    <3>2. (a \o assembled) \o d = a \o (assembled \o d)
      BY <3>1, JoinsUp, Zenon
    <3> QED  BY <3>2 DEF Payload, Received, a, d
  <2>6. CASE GetsPing \/ GetsPong
    <3>1. f.op \in {"ping", "pong"} /\ UNCHANGED readVars
      BY <2>6 DEF GetsPing, GetsPong, f
    <3>2. PICK next : Grammar(f, first, next)
      BY <2>2, NextArrives DEF f
    <3>3. f.data = << >>
      BY <3>1, <3>2 DEF Grammar
    <3>4. Received' = Received
      BY <3>1 DEF Received, readVars
    <3>5. Received' = Received \o f.data
      BY <2>3, <3>3, <3>4, ConcatEmptySeq
    <3>6. \A other : Grammar(f, first, other) => other = first'
      BY <3>1 DEF Grammar, readVars
    <3> QED  BY <2>2, <2>4, <3>5, <3>6, NextKept DEF f
  <2>7. CASE GetsFragment
    <3>1. /\ Legal(f) /\ ~f.fin /\ first' = Kind(f) /\ assembled' = Payload(f)
          /\ UNCHANGED << pending, got >>
      BY <2>7 DEF GetsFragment, f
    <3>2. Received' = Received \o f.data
      BY <2>5, <3>1 DEF Received
    <3>3. \A other : Grammar(f, first, other) => other = first'
      BY <2>3, <3>1 DEF Grammar, Legal, Illegal, Kind
    <3> QED  BY <2>2, <2>4, <3>2, <3>3, NextKept DEF f
  <2>8. ASSUME NEW kind \in {"text", "binary"}, Gets(kind),
               got' \o pending' = (got \o pending) \o Payload(f)
        PROVE  Arriving'
    <3>1. Legal(f) /\ f.fin /\ first' = "none" /\ assembled' = << >> /\ Kind(f) = kind
      BY <2>8 DEF Gets, f
    <3>2. Received' = Received \o f.data
      <4>1. Received' = ((got \o pending) \o Payload(f)) \o << >>
        BY <2>8, <3>1 DEF Received
      <4>2. (got \o pending) \o Payload(f) \in Seq(Nat)
        BY <2>2, <2>3, ConcatProperties
      <4> QED  BY <2>5, <4>1, <4>2, ConcatEmptySeq
    <3>3. \A other : Grammar(f, first, other) => other = first'
      BY <2>3, <3>1 DEF Grammar, Legal, Illegal
    <3> QED  BY <2>2, <2>4, <3>2, <3>3, NextKept DEF f
  <2>9. CASE AwaitsData
    <3>1. Gets("binary") /\ pending' = pending \o Payload(f) /\ got' = got
      BY <2>9 DEF AwaitsData, Keeps, Gets, f
    <3> DEFINE d == Payload(f)
    <3>2. got \in Seq(Nat) /\ pending \in Seq(Nat) /\ d \in Seq(Nat)
      BY <2>2, <2>3
    <3> HIDE DEF d
    <3>3. (got \o pending) \o d = got \o (pending \o d)
      BY <3>2, JoinsUp, Zenon
    <3>4. got' \o pending' = (got \o pending) \o Payload(f)
      BY <3>1, <3>3 DEF d
    <3> QED  BY <2>8, <3>1, <3>4
  <2>10. CASE ReadsData
    <3>1. Gets("binary") /\ pending' = Payload(f) /\ got' = got
      BY <2>10 DEF ReadsData, Gets, f
    <3>2. pending = << >>
      BY <2>1, <2>10 DEF ReadsData, Reading
    <3>3. got' \o pending' = (got \o pending) \o Payload(f)
      BY <2>3, <3>1, <3>2, ConcatEmptySeq
    <3> QED  BY <2>8, <3>1, <3>3
  <2>11. CASE AwaitsText \/ ReadsText
    <3>1. Gets("text") /\ pending' = pending /\ got' = got
      BY <2>11 DEF AwaitsText, ReadsText, Gets
    <3>2. Payload(f) = << >>
      BY <2>1, <3>1, TextIsEmpty DEF Gets, f
    <3>3. got' \o pending' = (got \o pending) \o Payload(f)
      BY <2>3, <3>1, <3>2, ConcatEmptySeq
    <3> QED  BY <2>8, <3>1, <3>3
  <2> QED  BY <1>2, <2>6, <2>7, <2>9, <2>10, <2>11
           DEF Reads, GetsClose, GetsIllegal, GetsTooMuch, ReadFails
<1> QED  BY <1>1, <1>2

LEMMA ArrivingStep ==
    ASSUME StreamInv, StreamNext
    PROVE  Arriving'
<1> USE WebSocketAssumption
<1>1. ASSUME phase' = phase, UNCHANGED << message, wire, fed, first >>, Received' = Received
      PROVE  Arriving'
  BY <1>1 DEF StreamInv, Arriving
<1>2. CASE phase' \notin {"await", "stream"}
  BY <1>2 DEF Arriving
<1>3. ASSUME NEW text \in Texts, NEW fin \in BOOLEAN, RelaySpeaks("text", text, fin, 0)
      PROVE  Arriving'
  BY <1>3, SpeaksArriving
<1>4. ASSUME NEW fin \in BOOLEAN, NEW n \in 0..1, RelaySpeaks("binary", "news", fin, n)
      PROVE  Arriving'
  BY <1>4, SpeaksArriving DEF Texts
<1>5. ASSUME NEW op \in {"ping", "pong", "close"}, RelayControls(op)
      PROVE  Arriving'
  BY <1>5, EmptyArriving DEF RelayControls
<1>6. CASE RelayErrs
  BY <1>6, EmptyArriving DEF RelayErrs
<1>7. CASE RelayReads
  BY <1>1, <1>7 DEF RelayReads, readVars, Received
<1>8. CASE Reads
  BY <1>8, ReadsArriving
<1>9. ASSUME NEW n, Returns(n)
      PROVE  Arriving'
  <2>1. /\ n \in 1..Len(pending) /\ got' = got \o SubSeq(pending, 1, n)
        /\ pending' = SubSeq(pending, n + 1, Len(pending))
        /\ UNCHANGED << message, wire, fed, phase, first, assembled >>
    BY <1>9 DEF Returns
  <2>2. got \in Seq(Nat) /\ pending \in Seq(Nat) /\ Len(pending) \in Nat
    BY LenProperties DEF StreamInv, StreamTypeOK
  <2>3. \A i \in 1..Len(pending) : pending[i] \in Nat
    BY <2>2, ElementOfSeq
  <2>4. SubSeq(pending, 1, n) \in Seq(Nat)
    <3>1. n \in Int /\ \A i \in 1..n : pending[i] \in Nat
      BY <2>1, <2>2, <2>3
    <3> QED  BY <3>1, SubSeqProperties
  <2>5. SubSeq(pending, n + 1, Len(pending)) \in Seq(Nat)
    <3>1. n + 1 \in Int /\ Len(pending) \in Int /\ \A i \in n + 1..Len(pending) : pending[i] \in Nat
      BY <2>1, <2>2, <2>3
    <3> QED  BY <3>1, SubSeqProperties
  <2>6. SubSeq(pending, 1, n) \o SubSeq(pending, n + 1, Len(pending)) = pending
    <3>1. 1 \in 1..Len(pending) + 1 /\ n \in 1 - 1..Len(pending) /\ Len(pending) \in n..Len(pending)
      BY <2>1, <2>2
    <3>2. SubSeq(pending, 1, n) \o SubSeq(pending, n + 1, Len(pending)) = SubSeq(pending, 1, Len(pending))
      BY <2>2, <3>1, ConcatAdjacentSubSeq
    <3> QED  BY <2>2, <3>2, SubSeqFull
  <2>7. got' \o pending' = got \o pending
    <3> DEFINE a == SubSeq(pending, 1, n)
               b == SubSeq(pending, n + 1, Len(pending))
    <3>1. a \in Seq(Nat) /\ b \in Seq(Nat) /\ a \o b = pending /\ got' = got \o a /\ pending' = b
      BY <2>1, <2>4, <2>5, <2>6
    <3> HIDE DEF a, b
    <3>2. (got \o a) \o b = got \o (a \o b)
      BY <2>2, <3>1, JoinsUp, Zenon
    <3> QED  BY <3>1, <3>2
  <2>8. Received' = Received
    BY <2>1, <2>7 DEF Received
  <2> QED  BY <1>1, <2>1, <2>8
<1>10. CASE Breaks
  BY <1>2, <1>10 DEF Breaks, ReadFails
<1>11. CASE Closes
  BY <1>2, <1>11 DEF Closes
<1>12. ASSUME NEW n, Write(n)
       PROVE  Arriving'
  BY <1>1, <1>12 DEF Write, readVars, Received
<1>13. ASSUME NEW who, Locks(who)
       PROVE  Arriving'
  BY <1>1, <1>13 DEF Locks, readVars, Received
<1>14. CASE WritesFrame \/ WritesPong
  BY <1>1, <1>14 DEF WritesFrame, WritesPong, readVars, Received
<1>15. CASE WriteFails
  BY <1>2, <1>15 DEF WriteFails
<1> QED  BY <1>3, <1>4, <1>5, <1>6, <1>7, <1>8, <1>9, <1>10, <1>11, <1>12, <1>13, <1>14, <1>15
         DEF StreamNext

LEMMA StreamStepInv == StreamInv /\ [StreamNext]_streamVars => StreamInv'
<1> SUFFICES ASSUME StreamInv, [StreamNext]_streamVars PROVE StreamInv'
  OBVIOUS
<1>1. CASE StreamNext
  BY <1>1, StreamTypeStep, ArrivingStep, LeavingStep DEF StreamInv
<1>2. CASE UNCHANGED streamVars
  BY <1>2 DEF streamVars, readVars, writeVars, StreamInv, StreamTypeOK, Arriving, Leaving, Received
<1> QED  BY <1>1, <1>2

\* The invariant of the reader and the writer: the frames on the wire carry on
\* where the buffers of the client end, in the middle of the same message, and
\* the frames on the way out carry on where the relay has read to.
THEOREM StreamInvariant == StreamSpec => []StreamInv
<1> QED  BY StreamInitInv, StreamStepInv, PTL DEF StreamSpec

\* The reader and the writer keep their buffers, their frames and their lock
\* within bounds, and no byte is lost, doubled or out of its place: not between
\* fragments, not with control frames among them, and not before "paired"
\* (readFrame, nextControl, Read, Write).
THEOREM StreamIsConsistent == StreamSpec => []StreamConsistent
<1> QED  BY StreamInvariant, NoneIsLost, PTL

LEMMA CarriesUp ==
    ASSUME NEW S, NEW fs \in Seq(S), NEW m \in Nat, NEW n \in Nat, Carries(fs, m, n)
    PROVE  m <= n
<1>1. PICK at \in [1..Len(fs) + 1 -> m..n] : at[1] = m
  BY DEF Carries
<1>2. 1 \in 1..Len(fs) + 1
  BY LenProperties
<1> QED  BY <1>1, <1>2

\* What Read has returned is the beginning of what the relay was given, and
\* what the relay has heard is the beginning of what Write was given.
GotFirst ==
    /\ got = Bytes(Len(got)) /\ Len(got) \in Nat /\ Len(got) <= fed
    /\ fed \in Nat

HeardFirst ==
    /\ heard = Bytes(Len(heard)) /\ Len(heard) \in Nat /\ Len(heard) <= given
    /\ given \in Nat

LEMMA GotIs == StreamInv /\ phase \in {"await", "stream"} => GotFirst
<1> SUFFICES ASSUME StreamInv, phase \in {"await", "stream"}
             PROVE  GotFirst
  OBVIOUS
<1>1. /\ got \in Seq(Nat) /\ pending \in Seq(Nat) /\ assembled \in Seq(Nat)
      /\ wire \in Seq(Frames) /\ fed \in Nat
  BY WebSocketAssumption DEF StreamInv, StreamTypeOK
<1> DEFINE rest == pending \o assembled
<1>2. rest \in Seq(Nat)
  BY <1>1, ConcatProperties
<1>3. Received = got \o rest
  BY <1>1, JoinsUp, Zenon DEF Received
<1> HIDE DEF rest
<1>4. Received \in Seq(Nat)
  BY <1>1, <1>2, <1>3, ConcatProperties
<1>5. Len(Received) \in Nat /\ Len(got) \in Nat /\ Len(rest) \in Nat
  BY <1>1, <1>2, <1>4, LenProperties
<1>6. Received = Bytes(Len(Received)) /\ Carries(wire, Len(Received), fed)
  BY DEF StreamInv, Arriving
<1>7. Len(Received) <= fed
  BY <1>1, <1>5, <1>6, CarriesUp
<1>8. got \o rest = Bytes(Len(Received))
  BY <1>3, <1>6
<1>9. got = Bytes(Len(got)) /\ Len(got) <= Len(Received)
  BY <1>1, <1>2, <1>5, <1>8, BytesBegin
<1>10. Len(got) <= fed
  BY <1>1, <1>5, <1>7, <1>9
<1> QED  BY <1>1, <1>5, <1>9, <1>10 DEF GotFirst

LEMMA HeardIs == StreamInv => HeardFirst
<1> SUFFICES ASSUME StreamInv
             PROVE  HeardFirst
  OBVIOUS
<1>1. /\ heard \in Seq(Nat) /\ out \in Seq(Frames) /\ written \in Nat /\ given \in Nat
      /\ written <= given
  BY WebSocketAssumption DEF StreamInv, StreamTypeOK
<1>2. heard = Bytes(Len(heard)) /\ Carries(out, Len(heard), written) /\ Len(heard) \in Nat
  BY <1>1, LenProperties DEF StreamInv, Leaving
<1>3. Len(heard) <= written
  BY <1>1, <1>2, CarriesUp
<1>4. Len(heard) <= given
  BY <1>1, <1>2, <1>3
<1> QED  BY <1>1, <1>2, <1>4 DEF HeardFirst

\* A step of the stream is one of the inbound pipe.
LEMMA InboundStep ==
    ASSUME StreamInv, StreamInv', StreamNext
    PROVE  Inbound!Put \/ Inbound!Take \/ UNCHANGED << fed, got >>
<1>1. ASSUME NEW f, RelaySends(f), f.data \in Seq(Nat)
      PROVE  Inbound!Put
  <2>1. /\ fed \in Nat /\ fed' \in Nat /\ fed <= fed' /\ got' = got
    <3>1. fed \in Nat /\ fed' = fed + Len(f.data) /\ Len(f.data) \in Nat /\ got' = got
      BY <1>1, WebSocketAssumption, LenProperties
         DEF RelaySends, StreamInv, StreamTypeOK, readVars
    <3> QED  BY <3>1
  <2>2. IsPrefix(Bytes(fed), Bytes(fed'))
    BY <2>1, BytesPrefix
  <2> QED  BY <2>1, <2>2 DEF Inbound!Put, Inbound!IsPrefix, IsPrefix
<1>2. ASSUME NEW kind, NEW text, NEW fin, NEW n \in Nat, RelaySpeaks(kind, text, fin, n)
      PROVE  Inbound!Put
  <2> DEFINE f == WsFrame(IF message = "none" THEN kind ELSE "cont", fin, Between(fed, fed + n), text)
  <2>1. f.data = Between(fed, fed + n)
    BY DEF WsFrame
  <2>2. RelaySends(f)
    BY <1>2 DEF RelaySpeaks
  <2>3. Between(fed, fed + n) \in Seq(Nat)
    <3>1. fed \in Nat /\ fed + n \in Nat /\ fed <= fed + n
      BY WebSocketAssumption DEF StreamInv, StreamTypeOK
    <3> QED  BY <3>1, BetweenAre
  <2> HIDE DEF f
  <2> QED  BY <1>1, <2>1, <2>2, <2>3
<1>3. ASSUME NEW op, RelaySends(WsFrame(op, TRUE, << >>, "news"))
      PROVE  Inbound!Put
  <2> DEFINE f == WsFrame(op, TRUE, << >>, "news")
  <2>1. f.data \in Seq(Nat)
    BY NoBytes DEF WsFrame
  <2>2. RelaySends(f)
    BY <1>3
  <2> HIDE DEF f
  <2> QED  BY <1>1, <2>1, <2>2
<1>4. ASSUME NEW n, Returns(n)
      PROVE  Inbound!Take
  <2>1. /\ got' = got \o SubSeq(pending, 1, n) /\ n \in 1..Len(pending)
        /\ phase = "stream" /\ phase' = phase /\ fed' = fed
    BY <1>4 DEF Returns
  <2>2. /\ got = Bytes(Len(got)) /\ Len(got) \in Nat
        /\ got' = Bytes(Len(got')) /\ Len(got') \in Nat /\ Len(got') <= fed /\ fed \in Nat
    <3>1. (StreamInv /\ phase \in {"await", "stream"})' => GotFirst'
      BY GotIs, PTL
    <3> QED  BY <2>1, <3>1, GotIs DEF GotFirst
  <2>3. Len(got) <= Len(got')
    <3>1. SubSeq(pending, 1, n) \in Seq(Nat)
      <4>1. pending \in Seq(Nat) /\ Len(pending) \in Nat
        BY LenProperties DEF StreamInv, StreamTypeOK
      <4>2. \A i \in 1..Len(pending) : pending[i] \in Nat
        BY <4>1, ElementOfSeq
      <4>3. n \in Int /\ \A i \in 1..n : pending[i] \in Nat
        BY <2>1, <4>1, <4>2
      <4> QED  BY <4>3, SubSeqProperties
    <3>2. got \in Seq(Nat)
      BY DEF StreamInv, StreamTypeOK
    <3> DEFINE s == SubSeq(pending, 1, n)
    <3>3. s \in Seq(Nat) /\ got' = got \o s
      BY <2>1, <3>1
    <3> HIDE DEF s
    <3>4. Len(got') = Len(got) + Len(s) /\ Len(s) \in Nat
      BY <3>2, <3>3, ConcatProperties, LenProperties
    <3> QED  BY <2>2, <3>4
  <2>4. IsPrefix(Bytes(Len(got)), Bytes(Len(got'))) /\ IsPrefix(Bytes(Len(got')), Bytes(fed))
    BY <2>2, <2>3, BytesPrefix
  <2> QED  BY <2>1, <2>2, <2>4 DEF Inbound!Take, Inbound!IsPrefix, IsPrefix
<1>5. CASE RelayReads \/ Breaks \/ Closes
  BY <1>5 DEF RelayReads, Breaks, ReadFails, Closes, readVars
<1>6. CASE Reads
  BY <1>6 DEF Reads, GetsPing, GetsPong, GetsClose, GetsIllegal, GetsTooMuch, GetsFragment,
        AwaitsData, AwaitsText, ReadsData, ReadsText, Gets, ReadFails, TakenOff, readVars
<1>7. ASSUME NEW n, Write(n)
      PROVE  UNCHANGED << fed, got >>
  BY <1>7 DEF Write, readVars
<1>8. ASSUME NEW who, Locks(who)
      PROVE  UNCHANGED << fed, got >>
  BY <1>8 DEF Locks, readVars
<1>9. CASE WritesFrame \/ WritesPong \/ WriteFails
  BY <1>9 DEF WritesFrame, WritesPong, WriteFails, readVars
<1>10. ASSUME NEW op, RelayControls(op)
       PROVE  Inbound!Put
  BY <1>3, <1>10 DEF RelayControls
<1>11. CASE RelayErrs
  BY <1>3, <1>11 DEF RelayErrs
<1>12. \A n \in 0..1 : n \in Nat
  OBVIOUS
<1> QED  BY <1>2, <1>4, <1>5, <1>6, <1>7, <1>8, <1>9, <1>10, <1>11, <1>12 DEF StreamNext

LEMMA OutboundStep ==
    ASSUME StreamInv, StreamInv', StreamNext
    PROVE  Outbound!Put \/ Outbound!Take \/ UNCHANGED << given, heard >>
<1>1. /\ heard = Bytes(Len(heard)) /\ Len(heard) \in Nat /\ Len(heard) <= given
      /\ given \in Nat
  BY HeardIs DEF HeardFirst
<1>2. /\ heard' = Bytes(Len(heard')) /\ Len(heard') \in Nat /\ Len(heard') <= given'
      /\ given' \in Nat
  <2>1. StreamInv' => HeardFirst'
    BY HeardIs, PTL
  <2> QED  BY <2>1 DEF HeardFirst
<1>3. ASSUME NEW n \in Nat, Write(n)
      PROVE  Outbound!Put
  <2>1. given' = given + n /\ heard' = heard
    BY <1>3 DEF Write
  <2>2. IsPrefix(Bytes(given), Bytes(given'))
    <3>1. given <= given'
      BY <1>1, <2>1
    <3> QED  BY <1>1, <1>2, <3>1, BytesPrefix
  <2> QED  BY <2>1, <2>2 DEF Outbound!Put, Outbound!IsPrefix, IsPrefix
<1>4. CASE RelayReads
  <2>1. /\ out # << >> /\ heard' = heard \o Head(out).data /\ given' = given
    BY <1>4 DEF RelayReads
  <2>2. Head(out).data \in Seq(Nat) /\ heard \in Seq(Nat)
    <3>1. out \in Seq(Frames) /\ heard \in Seq(Nat)
      BY DEF StreamInv, StreamTypeOK
    <3>2. Head(out) \in Frames
      BY <2>1, <3>1, HeadTailProperties
    <3> QED  BY <3>1, <3>2 DEF Frames
  <2>3. Len(heard') = Len(heard) + Len(Head(out).data) /\ Len(Head(out).data) \in Nat
    BY <2>1, <2>2, ConcatProperties, LenProperties
  <2>4. Len(heard) <= Len(heard') /\ Len(heard') <= given
    BY <1>1, <1>2, <2>1, <2>3
  <2>5. IsPrefix(Bytes(Len(heard)), Bytes(Len(heard'))) /\ IsPrefix(Bytes(Len(heard')), Bytes(given))
    BY <1>1, <1>2, <2>4, BytesPrefix
  <2> QED  BY <1>1, <1>2, <2>1, <2>5 DEF Outbound!Take, Outbound!IsPrefix, IsPrefix
<1>5. ASSUME NEW f, RelaySends(f)
      PROVE  UNCHANGED << given, heard >>
  BY <1>5 DEF RelaySends
<1>6. CASE Reads
  BY <1>6 DEF Reads, GetsPing, GetsPong, GetsClose, GetsIllegal, GetsTooMuch, GetsFragment,
        AwaitsData, AwaitsText, ReadsData, ReadsText, Gets, TakenOff, writeVars
<1>7. ASSUME NEW n, Returns(n)
      PROVE  UNCHANGED << given, heard >>
  BY <1>7 DEF Returns, writeVars
<1>8. ASSUME NEW who, Locks(who)
      PROVE  UNCHANGED << given, heard >>
  BY <1>8 DEF Locks
<1>9. CASE WritesFrame \/ WritesPong \/ WriteFails \/ Breaks \/ Closes
  BY <1>9 DEF WritesFrame, WritesPong, WriteFails, Breaks, Closes, writeVars
<1>10. \A n \in 1..MaxOut : n \in Nat
  BY WebSocketAssumption
<1> QED  BY <1>3, <1>4, <1>5, <1>6, <1>7, <1>8, <1>9, <1>10
         DEF StreamNext, RelaySpeaks, RelayControls, RelayErrs

LEMMA PipesBegin == StreamInit => Inbound!Init /\ Outbound!Init
<1>1. Bytes(0) = << >>
  BY BytesAre, EmptySeq
<1> QED  BY <1>1 DEF StreamInit, Inbound!Init, Outbound!Init

\* What Read returns is what the peer has sent, in order and without gaps
\* (wsConn.Read): the client implements the inbound half of a net.Conn.
THEOREM ReadIsAPipe == StreamSpec => StreamIn
<1>1. StreamInv /\ StreamInv' /\ [StreamNext]_streamVars =>
         [Inbound!Put \/ Inbound!Take]_<< Bytes(fed), got >>
  <2> SUFFICES ASSUME StreamInv, StreamInv', [StreamNext]_streamVars
               PROVE  [Inbound!Put \/ Inbound!Take]_<< Bytes(fed), got >>
    OBVIOUS
  <2>1. CASE StreamNext
    BY <2>1, InboundStep
  <2>2. CASE UNCHANGED streamVars
    BY <2>2 DEF streamVars, readVars
  <2> QED  BY <2>1, <2>2
<1> QED  BY <1>1, PipesBegin, StreamInvariant, PTL DEF StreamSpec, StreamIn, Inbound!Spec

\* What the relay hears is what Write was given, in order and without gaps,
\* however it was cut into frames (wsConn.Write).
THEOREM WriteIsAPipe == StreamSpec => StreamOut
<1>1. StreamInv /\ StreamInv' /\ [StreamNext]_streamVars =>
         [Outbound!Put \/ Outbound!Take]_<< Bytes(given), heard >>
  <2> SUFFICES ASSUME StreamInv, StreamInv', [StreamNext]_streamVars
               PROVE  [Outbound!Put \/ Outbound!Take]_<< Bytes(given), heard >>
    OBVIOUS
  <2>1. CASE StreamNext
    BY <2>1, OutboundStep
  <2>2. CASE UNCHANGED streamVars
    BY <2>2 DEF streamVars, writeVars
  <2> QED  BY <2>1, <2>2
<1> QED  BY <1>1, PipesBegin, StreamInvariant, PTL DEF StreamSpec, StreamOut, Outbound!Spec
=============================================================================
