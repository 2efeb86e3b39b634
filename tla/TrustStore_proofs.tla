-------------------------- MODULE TrustStore_proofs -------------------------
(***************************************************************************)
(* Proofs about TrustStore, for any number of handshakes and forget        *)
(* commands, any IDs and any keys: types, what the file holds between two  *)
(* writes, first contacts, and that the store implements FirstUse.         *)
(***************************************************************************)
EXTENDS TrustStore, TLAPS

\* A copy that is not out of date is the store of the completed decisions, and
\* nobody is writing.
FreshCopies ==
    ~disturbed => \A a \in Actors :
        pc[a] = "loaded" /\ a \notin stale => Writers = {} /\ copy[a] = pinned

\* The one writer is about to write the completed decisions and its own, which
\* is one that the store may take.
WriterDecides ==
    ~disturbed => \A a \in Writers :
        /\ \A b \in Writers : a = b
        /\ file.kind = "empty"
        /\ job[a] \in Jobs
        /\ copy[a] = [pinned EXCEPT ![job[a].id] = job[a].key]
        /\ job[a].op = "trust" =>
              /\ job[a].key \in Keys
              /\ job[a].id = IDOf[job[a].key]
              /\ pinned[job[a].id] \in {NoKey, job[a].key}
        /\ job[a].op = "forget" => job[a].key = NoKey

TrustInv ==
    /\ TypeOK
    /\ PinsOnDisk
    /\ FirstContactTruthful
    /\ FreshCopies
    /\ WriterDecides

-----------------------------------------------------------------------------
\* The empty store is a store, and so is what Trust makes of one.
LEMMA StoresClosed ==
    /\ Nobody \in Stores
    /\ \A s \in Stores, i \in IDs, k \in Keys \cup {NoKey} :
          [s EXCEPT ![i] = k] \in Stores
    /\ \A s \in Stores, k \in Keys : Trusted(s, IDOf[k], k) \in Stores
  BY TrustAssumption DEF Stores, Nobody, Trusted

\* A file that can be written is a file.
LEMMA WrittenIsFile ==
    ASSUME TypeOK, NEW s \in Stores, NEW f \in Written(s)
    PROVE  f.kind \in {"json", "torn"} /\ f.peers \in Stores
  BY StoresClosed DEF Written, Json, Unreadable

\* Every key, known or not, is accepted by a store only as what it becomes.
LEMMA TrustedIsUpdate ==
    ASSUME NEW s \in Stores, NEW k \in Keys, Accepts(s, IDOf[k], k)
    PROVE  /\ Trusted(s, IDOf[k], k) = [s EXCEPT ![IDOf[k]] = k]
           /\ s[IDOf[k]] \in {NoKey, k}
  BY TrustAssumption DEF Stores, Trusted, Accepts, Known

\* The initial states satisfy the invariant.
LEMMA InitInv == Init => TrustInv
  <1> SUFFICES ASSUME Init PROVE TrustInv
    OBVIOUS
  <1> USE TrustAssumption
  <1>1. file.kind \in {"absent", "json"} /\ file.peers \in Stores
    BY StoresClosed DEF Init, Unreadable, Json
  <1>2. TypeOK
    BY <1>1, StoresClosed DEF Init, TypeOK, Writers
  <1>3. Writers = {}
    BY DEF Init, Writers
  <1>4. PinsOnDisk /\ FirstContactTruthful /\ FreshCopies /\ WriterDecides
    BY <1>3 DEF Init, PinsOnDisk, FirstContactTruthful, FreshCopies, WriterDecides
  <1> QED
    BY <1>2, <1>4 DEF TrustInv

-----------------------------------------------------------------------------
\* Done leaves no writer and no loaded copy behind, and touches nobody else.
LEMMA DoneEffect ==
    ASSUME TypeOK, NEW a \in Actors, Done(a)
    PROVE  /\ Writers' = Writers \ {a}
           /\ pc'[a] = "idle"
           /\ \A b \in Actors \ {a} :
                 /\ pc'[b] = pc[b] /\ copy'[b] = copy[b] /\ job'[b] = job[b]
                 /\ first'[b] = first[b] /\ (b \in stale' <=> b \in stale)
           /\ pc' \in [Actors -> {"idle", "loaded", "writing"}]
           /\ copy' \in [Actors -> Stores]
           /\ job' \in [Actors -> Jobs \cup {NoJob}]
           /\ first' \in [Actors -> BOOLEAN]
           /\ stale' \subseteq Actors
  BY StoresClosed DEF TypeOK, Done, Writers

\* Loading keeps the invariant: a copy taken while nobody writes is fresh.
LEMMA LoadStep ==
    ASSUME TrustInv, NEW a \in Actors, LoadFrom(a)
    PROVE  TrustInv'
  <1> USE DEF TrustInv, LoadFrom
  <1>1. TypeOK'
    BY DEF TypeOK, Writers
  <1>2. Writers' = Writers
    BY DEF TypeOK, Writers
  <1>3. PinsOnDisk' /\ FirstContactTruthful'
    BY <1>2 DEF PinsOnDisk, FirstContactTruthful, TypeOK
  <1>4. FreshCopies'
    BY <1>2 DEF FreshCopies, PinsOnDisk, TypeOK
  <1>5. WriterDecides'
    <2>1. \A b \in Writers : b # a /\ copy'[b] = copy[b]
      BY DEF TypeOK, Writers
    <2> QED
      BY <1>2, <2>1 DEF WriterDecides, TypeOK
  <1> QED
    BY <1>1, <1>3, <1>4, <1>5

\* An actor that ends without having written changes nothing for the others.
LEMMA IdleStep ==
    ASSUME TrustInv, NEW a \in Actors, pc[a] = "loaded", Done(a),
           UNCHANGED << file, pinned, disturbed >>
    PROVE  TrustInv'
  <1> USE DoneEffect DEF TrustInv
  <1>1. Writers' = Writers /\ a \notin Writers
    BY DEF Writers
  <1>2. TypeOK'
    BY <1>1 DEF TypeOK, Writers
  <1>3. PinsOnDisk' /\ FirstContactTruthful'
    BY <1>1 DEF PinsOnDisk, FirstContactTruthful, Writers
  <1>4. FreshCopies'
    BY <1>1 DEF FreshCopies
  <1>5. WriterDecides'
    BY <1>1 DEF WriterDecides, Writers
  <1> QED
    BY <1>2, <1>3, <1>4, <1>5

\* Emptying the file for a decision the store may take keeps the invariant.
LEMMA TruncateStep ==
    ASSUME TrustInv, NEW a \in Actors, pc[a] = "loaded",
           NEW i \in IDs, NEW k \in Keys \cup {NoKey}, NEW op \in {"trust", "forget"},
           Truncates(a, op, i, k, [copy[a] EXCEPT ![i] = k]),
           first' \in [Actors -> BOOLEAN],
           \A b \in Actors \ {a} : first'[b] = first[b],
           op = "trust" =>
              /\ k \in Keys /\ i = IDOf[k] /\ copy[a][i] \in {NoKey, k}
              /\ first'[a] <=> ~Known(copy[a], i),
           op = "forget" => k = NoKey
    PROVE  TrustInv'
  <1> USE DEF TrustInv, Truncates
  <1>1. Writers' = Writers \cup {a}
    BY DEF TypeOK, Writers
  <1>2. TypeOK'
    <2>1. job'[a] \in Jobs /\ job' \in [Actors -> Jobs \cup {NoJob}]
      BY DEF TypeOK, Jobs
    <2>2. \A b \in Writers' : job'[b] \in Jobs
      BY <1>1, <2>1 DEF TypeOK
    <2> QED
      BY <2>1, <2>2, StoresClosed DEF TypeOK, Unreadable
  <1>3. PinsOnDisk'
    BY <1>1 DEF PinsOnDisk
  <1>4. FreshCopies'
    <2> SUFFICES ASSUME ~disturbed', NEW b \in Actors, pc'[b] = "loaded", b \notin stale'
                 PROVE  FALSE
      BY DEF FreshCopies
    <2> QED
      BY DEF TypeOK
  <1>5. ASSUME ~disturbed' PROVE Writers' = {a} /\ copy[a] = pinned
    BY <1>1, <1>5 DEF FreshCopies
  <1>6. job'[a] = [op |-> op, id |-> i, key |-> k] /\ job'[a] \in Jobs
    BY DEF TypeOK, Jobs
  <1>7. FirstContactTruthful'
    BY <1>5, <1>6 DEF FirstContactTruthful
  <1>8. WriterDecides'
    <2> SUFFICES ASSUME ~disturbed' PROVE WriterDecides'
      BY DEF WriterDecides
    <2>1. copy'[a] = [pinned' EXCEPT ![i] = k]
      BY <1>5 DEF TypeOK
    <2>2. file'.kind = "empty"
      BY DEF Unreadable
    <2>3. op = "trust" => pinned'[i] \in {NoKey, k}
      BY <1>5
    <2>4. \A b \in Writers' : b = a
      BY <1>5
    <2>5. /\ job'[a].op = op /\ job'[a].id = i /\ job'[a].key = k
          /\ job'[a] \in Jobs
      BY <1>6
    <2>6. /\ copy'[a] = [pinned' EXCEPT ![job'[a].id] = job'[a].key]
          /\ job'[a].op = "trust" =>
                /\ job'[a].key \in Keys
                /\ job'[a].id = IDOf[job'[a].key]
                /\ pinned'[job'[a].id] \in {NoKey, job'[a].key}
          /\ job'[a].op = "forget" => job'[a].key = NoKey
      BY <2>1, <2>3, <2>5
    <2> QED
      BY <2>2, <2>4, <2>5, <2>6 DEF WriterDecides
  <1> QED
    BY <1>2, <1>3, <1>4, <1>7, <1>8

\* Authorizing a proven key keeps the invariant.
LEMMA AuthorizeStep ==
    ASSUME TrustInv, NEW a \in Actors, NEW k \in Keys, Authorize(a, k)
    PROVE  TrustInv'
  <1>1. copy[a] \in Stores /\ IDOf[k] \in IDs
    BY TrustAssumption DEF TrustInv, TypeOK
  <1>2. Accepts(copy[a], IDOf[k], k) /\ pc[a] = "loaded"
    BY DEF Authorize
  <1>3. /\ Trusted(copy[a], IDOf[k], k) = [copy[a] EXCEPT ![IDOf[k]] = k]
        /\ copy[a][IDOf[k]] \in {NoKey, k}
    BY <1>1, <1>2, TrustedIsUpdate
  <1>4. Truncates(a, "trust", IDOf[k], k, [copy[a] EXCEPT ![IDOf[k]] = k])
    BY <1>3 DEF Authorize
  <1>5. /\ first' \in [Actors -> BOOLEAN]
        /\ \A b \in Actors \ {a} : first'[b] = first[b]
        /\ first'[a] <=> ~Known(copy[a], IDOf[k])
    BY DEF Authorize, FirstContact, TrustInv, TypeOK, Known
  <1> QED
    BY <1>1, <1>2, <1>3, <1>4, <1>5, TruncateStep

\* Forgetting an ID keeps the invariant.
LEMMA ForgetStep ==
    ASSUME TrustInv, NEW a \in Actors, NEW i \in IDs, Forget(a, i)
    PROVE  TrustInv'
  <1>1. Truncates(a, "forget", i, NoKey, [copy[a] EXCEPT ![i] = NoKey]) /\ pc[a] = "loaded"
    BY DEF Forget
  <1>2. first' \in [Actors -> BOOLEAN] /\ \A b \in Actors \ {a} : first'[b] = first[b]
    BY DEF Forget, TrustInv, TypeOK
  <1> QED
    BY <1>1, <1>2, TruncateStep

\* The write that completes a decision puts the file and the completed
\* decisions together again.
LEMMA WriteStep ==
    ASSUME TrustInv, NEW a \in Actors, Writes(a)
    PROVE  /\ TrustInv'
           /\ ~disturbed => Writers = {a} /\ Writers' = {} /\ file'.peers = pinned'
  <1> USE DEF TrustInv
  <1>1. a \in Writers /\ Done(a) /\ disturbed' = disturbed
    BY DEF Writes, Writers
  <1>2. copy[a] \in Stores /\ file' \in Written(copy[a])
    BY DEF TypeOK, Writes
  <1>3. file'.kind \in {"json", "torn"} /\ file'.peers \in Stores
    BY <1>2, WrittenIsFile
  <1>4. pinned' \in Stores
    <2>1. job[a] \in Jobs
      BY <1>1 DEF TypeOK
    <2> QED
      BY <2>1, StoresClosed DEF Writes, TypeOK, Jobs
  <1>5. TypeOK'
    BY <1>1, <1>3, <1>4, DoneEffect DEF TypeOK, Writers
  <1>6. ASSUME ~disturbed
        PROVE Writers = {a} /\ Writers' = {} /\ file'.peers = pinned'
    <2>1. Writers = {a} /\ file.kind = "empty"
      BY <1>1, <1>6 DEF WriterDecides
    <2>2. copy[a] = pinned'
      BY <1>1, <1>6 DEF WriterDecides, Writes
    <2>3. file'.peers = copy[a]
      BY <1>2, <2>1 DEF Written, Json, Unreadable
    <2> QED
      BY <1>1, <2>1, <2>2, <2>3, DoneEffect
  <1>7. PinsOnDisk' /\ FirstContactTruthful' /\ WriterDecides'
    BY <1>1, <1>6 DEF PinsOnDisk, FirstContactTruthful, WriterDecides
  <1>8. FreshCopies'
    <2> SUFFICES ASSUME ~disturbed, NEW b \in Actors, pc'[b] = "loaded", b \notin stale'
                 PROVE  FALSE
      BY <1>1 DEF FreshCopies
    <2>1. b # a /\ pc[b] = "loaded" /\ b \notin stale
      BY <1>1, DoneEffect
    <2> QED
      BY <1>1, <2>1 DEF FreshCopies
  <1> QED
    BY <1>5, <1>6, <1>7, <1>8

\* A write that breaks off keeps the types; nothing else is promised then.
LEMMA BreakStep ==
    ASSUME TrustInv, NEW a \in Actors, BreaksOff(a)
    PROVE  TrustInv'
  <1>1. TypeOK'
    BY DoneEffect, StoresClosed DEF TrustInv, TypeOK, BreaksOff, Unreadable, Writers
  <1>2. disturbed'
    BY DEF BreaksOff
  <1> QED
    BY <1>1, <1>2
       DEF TrustInv, PinsOnDisk, FirstContactTruthful, FreshCopies, WriterDecides

\* A stuttering step keeps the invariant.
LEMMA StutterStep == TrustInv /\ UNCHANGED vars => TrustInv'
  BY DEF TrustInv, TypeOK, PinsOnDisk, FirstContactTruthful, FreshCopies,
         WriterDecides, Writers, Known, vars

\* Every step keeps the invariant.
LEMMA InvStep == TrustInv /\ [Next]_vars => TrustInv'
  <1> SUFFICES ASSUME TrustInv, [Next]_vars PROVE TrustInv'
    OBVIOUS
  <1>1. CASE UNCHANGED vars
    BY <1>1, StutterStep
  <1>2. ASSUME NEW a \in Actors, LoadFrom(a) PROVE TrustInv'
    BY <1>2, LoadStep
  <1>3. ASSUME NEW a \in Actors, Abandons(a) PROVE TrustInv'
    BY <1>3, IdleStep DEF Abandons
  <1>4. ASSUME NEW a \in Actors, NEW k \in Keys, Authorize(a, k) PROVE TrustInv'
    BY <1>4, AuthorizeStep
  <1>5. ASSUME NEW a \in Actors, NEW k \in Keys, Refuses(a, k) PROVE TrustInv'
    BY <1>5, IdleStep DEF Refuses
  <1>6. ASSUME NEW a \in Actors, NEW i \in IDs, Forget(a, i) PROVE TrustInv'
    BY <1>6, ForgetStep
  <1>7. ASSUME NEW a \in Actors, Writes(a) PROVE TrustInv'
    BY <1>7, WriteStep
  <1>8. ASSUME NEW a \in Actors, BreaksOff(a) PROVE TrustInv'
    BY <1>8, BreakStep
  <1> QED
    BY <1>1, <1>2, <1>3, <1>4, <1>5, <1>6, <1>7, <1>8 DEF Next

\* The invariant holds in every reachable state.
LEMMA Invariant == Spec => []TrustInv
  BY InitInv, InvStep, PTL DEF Spec

-----------------------------------------------------------------------------
\* The variables of the store have their types.
THEOREM TrustTypeCorrect == Spec => []TypeOK
  BY Invariant, PTL DEF TrustInv

\* Between two writes the file holds every completed decision and no other,
\* unless writers met or one broke off (saveLocked).
THEOREM DecisionsOnDisk == Spec => []PinsOnDisk
  BY Invariant, PTL DEF TrustInv

\* A first contact is reported exactly when no key was remembered
\* (trustRecorder.Authorize).
THEOREM FirstContacts == Spec => []FirstContactTruthful
  BY Invariant, PTL DEF TrustInv

\* The pins that the abstract store sees do not change while nothing is written.
Pins == IF Writers = {} THEN file.peers ELSE pinned

\* The initial states are initial states of FirstUse.
LEMMA InitImplements == Init => Promise!Init
  <1> SUFFICES ASSUME Init PROVE Promise!Init
    OBVIOUS
  <1>1. TypeOK /\ Writers = {} /\ disturbed = FALSE
    BY InitInv DEF Init, TrustInv, Writers
  <1> QED
    BY <1>1 DEF Promise!Init, TypeOK, Stores

\* Every step is a step of FirstUse or leaves what it sees unchanged.
LEMMA StepImplements ==
    TrustInv /\ [Next]_vars => [Promise!Next]_<< Pins, disturbed >>
  <1> SUFFICES ASSUME TrustInv, [Next]_vars
               PROVE  [Promise!Next]_<< Pins, disturbed >>
    OBVIOUS
  <1> USE DEF TrustInv
  <1>1. CASE disturbed'
    BY <1>1 DEF Promise!Next, Promise!Lose
  <1>2. CASE ~disturbed'
    <2>1. CASE UNCHANGED vars
      BY <2>1 DEF vars, Pins, Writers
    <2>2. ASSUME NEW a \in Actors, LoadFrom(a) PROVE UNCHANGED << Pins, disturbed >>
      BY <2>2 DEF LoadFrom, Pins, Writers, TypeOK
    <2>3. ASSUME NEW a \in Actors, pc[a] = "loaded", Done(a),
                 UNCHANGED << file, pinned, disturbed >>
          PROVE  UNCHANGED << Pins, disturbed >>
      <3>1. Writers' = Writers
        BY <2>3, DoneEffect DEF Writers
      <3> QED
        BY <3>1, <2>3 DEF Pins
    <2>4. ASSUME NEW a \in Actors, pc[a] = "loaded", NEW op, NEW i, NEW k, NEW s,
                 Truncates(a, op, i, k, s)
          PROVE  UNCHANGED << Pins, disturbed >>
      <3>1. Writers = {} /\ ~disturbed /\ disturbed' = disturbed
        BY <1>2, <2>4 DEF Truncates, TypeOK
      <3>2. a \in Writers' /\ pinned' = pinned
        BY <2>4 DEF Truncates, Writers, TypeOK
      <3> QED
        BY <3>1, <3>2 DEF Pins, PinsOnDisk
    <2>5. ASSUME NEW a \in Actors, Writes(a) PROVE Promise!Next
      <3>1. ~disturbed /\ disturbed' = disturbed
        BY <1>2, <2>5 DEF Writes
      <3>2. Writers = {a} /\ Writers' = {} /\ file'.peers = pinned'
        BY <2>5, <3>1, WriteStep
      <3>3. pinned' = [pinned EXCEPT ![job[a].id] = job[a].key]
        BY <2>5 DEF Writes
      <3>4. CASE job[a].op = "trust"
        <4>1. /\ job[a].key \in Keys /\ job[a].id = IDOf[job[a].key]
              /\ pinned[job[a].id] \in {NoKey, job[a].key}
          BY <3>1, <3>2, <3>4 DEF WriterDecides
        <4>2. Promise!Meet(job[a].key)
          BY <3>2, <3>3, <4>1 DEF Promise!Meet
        <4> QED
          BY <1>2, <3>1, <4>1, <4>2 DEF Promise!Next
      <3>5. CASE job[a].op = "forget"
        <4>1. job[a].key = NoKey /\ job[a].id \in IDs
          BY <3>1, <3>2, <3>5 DEF WriterDecides, Jobs
        <4>2. job[a].id \in ToForget
          BY <3>2, <3>5 DEF ToForget
        <4>3. Promise!Forgets(job[a].id)
          BY <3>2, <3>3, <4>1, <4>2 DEF Promise!Forgets
        <4> QED
          BY <1>2, <3>1, <4>1, <4>3 DEF Promise!Next
      <3> QED
        BY <3>1, <3>2, <3>4, <3>5 DEF WriterDecides, Jobs
    <2>6. ASSUME NEW a \in Actors, BreaksOff(a) PROVE FALSE
      BY <1>2, <2>6 DEF BreaksOff
    <2> QED
      BY <2>1, <2>2, <2>3, <2>4, <2>5, <2>6
         DEF Next, Abandons, Refuses, Authorize, Forget
  <1> QED
    BY <1>1, <1>2

\* The store implements trust on first use until it is disturbed: a key changes
\* only through `forget' (Trust, ErrKeyChanged).
THEOREM ImplementsFirstUse == Spec => KeepsPromise
  <1>1. Spec => Promise!Init
    BY InitImplements DEF Spec
  <1>2. Spec => [][Promise!Next]_<< Pins, disturbed >>
    BY Invariant, StepImplements, PTL DEF Spec
  <1> QED
    BY <1>1, <1>2, PTL DEF KeepsPromise, Promise!Spec, Pins
=============================================================================
