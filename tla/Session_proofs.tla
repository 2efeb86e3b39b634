-------------------------- MODULE Session_proofs ---------------------------
(***************************************************************************)
(* Proofs about Session for every MaxSkip, MaxSkipStore and MaxCount.      *)
(*                                                                         *)
(* The argument orders the keys of one direction: a key is behind a chain  *)
(* when its root is shorter, or its root is the chain's and its position   *)
(* is smaller.  Roots only grow, chains only move on, and everything that  *)
(* was opened, stored or sealed is behind the chain it came from.          *)
(*                                                                         *)
(* The second part puts the two sides together: the roots of both are the  *)
(* beginnings of one sequence of secrets, so that a record opens wherever  *)
(* its receiver has got to.                                                *)
(***************************************************************************)
EXTENDS Session, TLAPS

Behind(key, chain) ==
    \/ Len(key.root) < Len(chain.root)
    \/ key.root = chain.root /\ key.pos < chain.pos

\* r has the fields of the ratchet struct and nothing else.
Shape(r) ==
    r = [rootKey |-> r.rootKey, sendKey |-> r.sendKey,
         receiveKey |-> r.receiveKey, sendChain |-> r.sendChain,
         receiveChain |-> r.receiveChain, sendCount |-> r.sendCount,
         receiveCount |-> r.receiveCount, previousSent |-> r.previousSent,
         skipped |-> r.skipped, order |-> r.order, steps |-> r.steps,
         evicted |-> r.evicted]

\* The receiving half: stored keys are behind the receiving chain and each is
\* stored under one name only.
Past(r) ==
    /\ r.receiveChain # NoChain => r.receiveKey \in Pubs
    /\ Len(r.receiveChain.root) <= Len(r.rootKey)
    /\ \A k \in DOMAIN r.skipped : Behind(r.skipped[k], r.receiveChain)
    /\ \A k, l \in DOMAIN r.skipped : r.skipped[k] = r.skipped[l] => k = l

Good(r) == Shape(r) /\ IsRatchet(r) /\ Past(r)

\* The key can no longer be derived from r.
Spent(r, key) ==
    /\ Behind(key, r.receiveChain)
    /\ \A k \in DOMAIN r.skipped : r.skipped[k] # key

NamesIn(names) == {names[i] : i \in DOMAIN names}

-----------------------------------------------------------------------------
\* What remember keeps, and where the keys of its store come from.
LEMMA RememberKeeps ==
    ASSUME NEW r, Shape(r), NEW names, NEW keyOf, NEW m,
           m = remember(r, names, keyOf)
    PROVE  /\ Shape(m)
           /\ m.rootKey = r.rootKey /\ m.sendKey = r.sendKey
           /\ m.sendChain = r.sendChain /\ m.sendCount = r.sendCount
           /\ m.previousSent = r.previousSent /\ m.receiveChain = r.receiveChain
           /\ m.receiveCount = r.receiveCount
           /\ m.steps = r.steps /\ m.receiveKey = r.receiveKey
           /\ DOMAIN m.skipped \subseteq DOMAIN r.skipped \cup NamesIn(names)
           /\ \A k \in DOMAIN m.skipped :
                m.skipped[k] = IF k \in NamesIn(names) THEN keyOf[k] ELSE r.skipped[k]
           /\ r.evicted \subseteq m.evicted
           /\ DOMAIN r.skipped \cup NamesIn(names) \subseteq DOMAIN m.skipped \cup m.evicted
<1> DEFINE new   == NamesIn(names)
           fresh == SelectSeq(names, LAMBDA k : k \notin DOMAIN r.skipped)
           queue == r.order \o fresh
           over  == IF Len(queue) > MaxSkipStore THEN Len(queue) - MaxSkipStore
                                                 ELSE 0
           gone  == {queue[i] : i \in 1..over}
           kept  == SubSeq(queue, over + 1, Len(queue))
           keys  == [k \in (DOMAIN r.skipped \cup new) \ gone |->
                        IF k \in new THEN keyOf[k] ELSE r.skipped[k]]
<1>1. m = [r EXCEPT !.order = kept, !.skipped = keys,
                    !.evicted = r.evicted \cup gone]
  BY DEF remember, Shape, NamesIn
<1>2. /\ DOMAIN keys \subseteq DOMAIN r.skipped \cup new
      /\ \A k \in DOMAIN keys :
           keys[k] = IF k \in new THEN keyOf[k] ELSE r.skipped[k]
      /\ DOMAIN r.skipped \cup new \subseteq DOMAIN keys \cup gone
  <2> HIDE DEF gone
  <2> QED  OBVIOUS
<1> HIDE DEF keys, kept, gone
<1>3. PICK dropped : dropped = r.evicted \cup gone
  OBVIOUS
<1>4. m = [rootKey |-> r.rootKey, sendKey |-> r.sendKey,
           receiveKey |-> r.receiveKey, sendChain |-> r.sendChain,
           receiveChain |-> r.receiveChain, sendCount |-> r.sendCount,
           receiveCount |-> r.receiveCount, previousSent |-> r.previousSent,
           skipped |-> keys, order |-> kept, steps |-> r.steps,
           evicted |-> dropped]
  BY <1>1, <1>3 DEF Shape
<1>5. Shape(m)
  BY <1>4 DEF Shape
<1>6. m.skipped = keys /\ m.evicted = dropped
  BY <1>4
<1>7. /\ r.evicted \subseteq m.evicted
      /\ DOMAIN r.skipped \cup NamesIn(names) \subseteq DOMAIN m.skipped \cup m.evicted
  BY <1>2, <1>3, <1>6
<1>8. /\ DOMAIN m.skipped \subseteq DOMAIN r.skipped \cup NamesIn(names)
      /\ \A k \in DOMAIN m.skipped :
           m.skipped[k] = IF k \in NamesIn(names) THEN keyOf[k] ELSE r.skipped[k]
  BY <1>2, <1>6
<1> QED  BY <1>4, <1>5, <1>7, <1>8

\* What skipTo keeps, and what it adds to the store: keys of the receiving
\* chain, at the positions it moves over.
LEMMA SkipToKeeps ==
    ASSUME NEW r, Good(r), NEW target \in Nat, NEW q, q = skipTo(r, target)
    PROVE  /\ Shape(q) /\ IsRatchet(q)
           /\ q.rootKey = r.rootKey /\ q.sendKey = r.sendKey
           /\ q.sendChain = r.sendChain /\ q.sendCount = r.sendCount
           /\ q.steps = r.steps /\ q.receiveKey = r.receiveKey
           /\ q.receiveChain.root = r.receiveChain.root
           /\ q.receiveChain.pos >= r.receiveChain.pos
           /\ r.receiveChain = NoChain => q = r
           /\ q.previousSent = r.previousSent
           /\ q.receiveCount = IF Skips(r, target) THEN target ELSE r.receiveCount
           /\ q.receiveChain.pos = r.receiveChain.pos + (q.receiveCount - r.receiveCount)
           /\ r.evicted \subseteq q.evicted
           /\ DOMAIN r.skipped \subseteq DOMAIN q.skipped \cup q.evicted
           /\ \A n \in Nat : r.receiveCount <= n /\ n < q.receiveCount =>
                [pub |-> r.receiveKey, n |-> n] \in DOMAIN q.skipped \cup q.evicted
           /\ \A k \in DOMAIN q.skipped :
                \/ k \in DOMAIN r.skipped /\ q.skipped[k] = r.skipped[k]
                \/ /\ q.skipped[k].root = r.receiveChain.root
                   /\ q.skipped[k].pos = r.receiveChain.pos + (k.n - r.receiveCount)
                   /\ k.n \in Nat /\ k.n >= r.receiveCount
                   /\ k = [pub |-> r.receiveKey, n |-> k.n]
                   /\ q.skipped[k].pos < q.receiveChain.pos
<1>0. /\ r.receiveCount \in Nat /\ r.receiveChain \in Chains
      /\ r.receiveChain.pos \in Nat
  BY DEF Good, IsRatchet, Chains
<1>1. CASE ~Skips(r, target)
  BY <1>0, <1>1 DEF Good, skipTo
<1>2. CASE Skips(r, target)
  <2> DEFINE gap == target - r.receiveCount
             chain(by) == [root |-> r.receiveChain.root,
                           pos |-> r.receiveChain.pos + by]
  <2>1. /\ gap \in Nat /\ gap > 0 /\ target > r.receiveCount
        /\ r.receiveChain # NoChain /\ r.receiveKey \in Pubs
    BY <1>0, <1>2 DEF Skips, Good, Past
  <2>2. \A by \in Nat : Advance(r.receiveChain, by) = chain(by)
    BY <1>0 DEF Advance, Chains
  <2>3. PICK names : names = [i \in 1..gap |->
                         [pub |-> r.receiveKey, n |-> r.receiveCount + i - 1]]
    OBVIOUS
  <2>4. PICK new : new = {names[i] : i \in 1..gap}
    OBVIOUS
  <2>5. PICK keyOf : keyOf = [k \in new |->
                         Advance(r.receiveChain, k.n - r.receiveCount)]
    OBVIOUS
  <2>6. PICK m : m = remember(r, names, keyOf)
    OBVIOUS
  <2>7. q = [m EXCEPT !.receiveChain = Advance(@, gap), !.receiveCount = target]
    BY <1>2, <2>3, <2>4, <2>5, <2>6 DEF skipTo
  <2>8. \A k \in new : /\ k = [pub |-> r.receiveKey, n |-> k.n]
                       /\ k.n \in Nat /\ k \in Names
                       /\ k.n >= r.receiveCount /\ k.n - r.receiveCount < gap
                       /\ keyOf[k] = chain(k.n - r.receiveCount)
                       /\ keyOf[k] \in Chains
    <3> SUFFICES ASSUME NEW k \in new
                 PROVE  /\ k = [pub |-> r.receiveKey, n |-> k.n]
                        /\ k.n \in Nat /\ k \in Names
                        /\ k.n >= r.receiveCount /\ k.n - r.receiveCount < gap
                        /\ keyOf[k] = chain(k.n - r.receiveCount)
                        /\ keyOf[k] \in Chains
      OBVIOUS
    <3>1. PICK i \in 1..gap : k = [pub |-> r.receiveKey, n |-> r.receiveCount + i - 1]
      BY <2>3, <2>4
    <3>2. /\ k = [pub |-> r.receiveKey, n |-> k.n] /\ k.n \in Nat /\ k \in Names
          /\ k.n >= r.receiveCount /\ k.n - r.receiveCount < gap
          /\ k.n - r.receiveCount \in Nat
      BY <1>0, <2>1, <3>1 DEF Names
    <3>3. keyOf[k] = chain(k.n - r.receiveCount)
      BY <2>2, <2>5, <3>2
    <3>4. chain(k.n - r.receiveCount) \in Chains
      BY <1>0, <3>2 DEF Chains
    <3> QED  BY <3>2, <3>3, <3>4
  <2>9. /\ Shape(m)
        /\ m.rootKey = r.rootKey /\ m.sendKey = r.sendKey
        /\ m.sendChain = r.sendChain /\ m.sendCount = r.sendCount
        /\ m.previousSent = r.previousSent /\ m.receiveChain = r.receiveChain
        /\ m.receiveCount = r.receiveCount
        /\ m.steps = r.steps /\ m.receiveKey = r.receiveKey
        /\ DOMAIN m.skipped \subseteq DOMAIN r.skipped \cup new
        /\ \A k \in DOMAIN m.skipped :
             m.skipped[k] = IF k \in new THEN keyOf[k] ELSE r.skipped[k]
        /\ r.evicted \subseteq m.evicted
        /\ DOMAIN r.skipped \cup new \subseteq DOMAIN m.skipped \cup m.evicted
    <3>1. DOMAIN names = 1..gap
      BY <2>3
    <3>2. new = NamesIn(names)
      BY <2>4, <3>1 DEF NamesIn
    <3>3. Shape(r)
      BY DEF Good
    <3> HIDE DEF gap
    <3>4. /\ DOMAIN m.skipped \subseteq DOMAIN r.skipped \cup NamesIn(names)
          /\ \A k \in DOMAIN m.skipped :
               m.skipped[k] = IF k \in NamesIn(names) THEN keyOf[k]
                                                      ELSE r.skipped[k]
          /\ r.evicted \subseteq m.evicted
          /\ DOMAIN r.skipped \cup NamesIn(names) \subseteq DOMAIN m.skipped \cup m.evicted
      BY <2>6, <3>3, RememberKeeps
    <3> QED  BY <2>6, <3>2, <3>3, <3>4, RememberKeeps
  <2>10. /\ Shape(q)
         /\ q.rootKey = r.rootKey /\ q.sendKey = r.sendKey
         /\ q.sendChain = r.sendChain /\ q.sendCount = r.sendCount
         /\ q.previousSent = r.previousSent /\ q.receiveCount = target
         /\ q.steps = r.steps /\ q.receiveKey = r.receiveKey
         /\ q.skipped = m.skipped /\ q.evicted = m.evicted
         /\ q.receiveChain = chain(gap)
    <3>1. q = [m EXCEPT !.receiveChain = chain(gap), !.receiveCount = target]
      BY <2>1, <2>2, <2>7, <2>9 DEF Shape
    <3>2. PICK c : c = chain(gap)
      OBVIOUS
    <3>3. q = [m EXCEPT !.receiveChain = c, !.receiveCount = target] /\ Shape(m)
      BY <2>9, <3>1, <3>2
    <3>4. /\ Shape(q)
          /\ q.rootKey = m.rootKey /\ q.sendKey = m.sendKey
          /\ q.sendChain = m.sendChain /\ q.sendCount = m.sendCount
          /\ q.previousSent = m.previousSent /\ q.receiveKey = m.receiveKey
          /\ q.steps = m.steps /\ q.skipped = m.skipped /\ q.evicted = m.evicted
          /\ q.receiveChain = c /\ q.receiveCount = target
      BY <3>3 DEF Shape
    <3> HIDE DEF chain
    <3> QED  BY <2>9, <3>2, <3>4
  <2>11. \A k \in DOMAIN q.skipped :
          \/ k \in DOMAIN r.skipped /\ q.skipped[k] = r.skipped[k]
          \/ /\ q.skipped[k].root = r.receiveChain.root
             /\ q.skipped[k].pos = r.receiveChain.pos + (k.n - r.receiveCount)
             /\ k.n \in Nat /\ k.n >= r.receiveCount
             /\ k = [pub |-> r.receiveKey, n |-> k.n]
             /\ q.skipped[k].pos < q.receiveChain.pos
    <3> TAKE k \in DOMAIN q.skipped
    <3>1. k \in DOMAIN m.skipped /\ q.skipped[k] = m.skipped[k]
      BY <2>10
    <3>2. CASE k \in new
      <4>1. q.skipped[k] = chain(k.n - r.receiveCount)
        BY <2>8, <2>9, <3>1, <3>2
      <4> QED  BY <1>0, <2>1, <2>8, <2>10, <3>2, <4>1
    <3>3. CASE k \notin new
      BY <2>9, <3>1, <3>3
    <3> QED  BY <3>2, <3>3
  <2>12. IsRatchet(q)
    <3>1. /\ DOMAIN q.skipped \subseteq Names
          /\ \A k \in DOMAIN q.skipped : q.skipped[k] \in Chains
      <4>1. /\ DOMAIN r.skipped \subseteq Names
            /\ \A k \in DOMAIN r.skipped : r.skipped[k] \in Chains
        BY DEF Good, IsRatchet
      <4>2. new \subseteq Names /\ \A k \in new : keyOf[k] \in Chains
        BY <2>8
      <4>3. \A k \in DOMAIN m.skipped : m.skipped[k] \in Chains
        BY <2>9, <4>1, <4>2
      <4> QED  BY <2>9, <2>10, <4>1, <4>2, <4>3
    <3>2. q.receiveChain \in Chains
      BY <1>0, <2>1, <2>10 DEF Chains
    <3> QED  BY <2>10, <3>1, <3>2 DEF Good, IsRatchet
  <2>13. \A n \in Nat : r.receiveCount <= n /\ n < q.receiveCount =>
            [pub |-> r.receiveKey, n |-> n] \in DOMAIN q.skipped \cup q.evicted
    <3> SUFFICES ASSUME NEW n \in Nat, r.receiveCount <= n, n < q.receiveCount
                 PROVE  [pub |-> r.receiveKey, n |-> n] \in new
      BY <2>9, <2>10
    <3>1. PICK i : i = n - r.receiveCount + 1
      OBVIOUS
    <3>2. i \in 1..gap /\ r.receiveCount + i - 1 = n
      BY <1>0, <2>1, <2>10, <3>1
    <3>3. names[i] = [pub |-> r.receiveKey, n |-> n]
      BY <2>3, <3>2
    <3> QED  BY <2>4, <3>2, <3>3
  <2>14. /\ q.receiveChain.pos = r.receiveChain.pos + (q.receiveCount - r.receiveCount)
         /\ DOMAIN r.skipped \subseteq DOMAIN q.skipped \cup q.evicted
         /\ r.evicted \subseteq q.evicted
    BY <2>9, <2>10
  <2> QED  BY <1>0, <1>2, <2>1, <2>10, <2>11, <2>12, <2>13, <2>14
<1> QED  BY <1>1, <1>2

\* skipTo keeps a good ratchet good and a spent key spent.
LEMMA SkipToGood ==
    ASSUME NEW r, Good(r), NEW target \in Nat, NEW q, q = skipTo(r, target)
    PROVE  /\ Good(q)
           /\ q.rootKey = r.rootKey /\ q.sendKey = r.sendKey
           /\ q.sendChain = r.sendChain /\ q.sendCount = r.sendCount
           /\ q.steps = r.steps /\ q.receiveKey = r.receiveKey
           /\ q.receiveChain.root = r.receiveChain.root
           /\ q.receiveChain.pos >= r.receiveChain.pos
           /\ \A key \in Chains : Spent(r, key) => Spent(q, key)
<1>1. /\ Shape(q) /\ IsRatchet(q)
      /\ q.rootKey = r.rootKey /\ q.sendKey = r.sendKey
      /\ q.sendChain = r.sendChain /\ q.sendCount = r.sendCount
      /\ q.steps = r.steps /\ q.receiveKey = r.receiveKey
      /\ q.receiveChain.root = r.receiveChain.root
      /\ q.receiveChain.pos >= r.receiveChain.pos
      /\ r.receiveChain = NoChain => q = r
  BY SkipToKeeps
<1>2. \A k \in DOMAIN q.skipped :
        \/ k \in DOMAIN r.skipped /\ q.skipped[k] = r.skipped[k]
        \/ /\ q.skipped[k].root = r.receiveChain.root
           /\ q.skipped[k].pos = r.receiveChain.pos + (k.n - r.receiveCount)
           /\ k.n \in Nat /\ k.n >= r.receiveCount
           /\ k = [pub |-> r.receiveKey, n |-> k.n]
           /\ q.skipped[k].pos < q.receiveChain.pos
  BY SkipToKeeps
<1>3. /\ r.receiveChain.pos \in Nat /\ q.receiveChain.pos \in Nat
      /\ r.receiveCount \in Nat /\ Len(r.receiveChain.root) \in Nat
      /\ \A k \in DOMAIN r.skipped : r.skipped[k] \in Chains
      /\ \A k \in DOMAIN q.skipped : q.skipped[k] \in Chains
  <2>1. /\ r.receiveChain \in Chains /\ q.receiveChain \in Chains
        /\ r.receiveCount \in Nat
        /\ \A k \in DOMAIN r.skipped : r.skipped[k] \in Chains
        /\ \A k \in DOMAIN q.skipped : q.skipped[k] \in Chains
    BY <1>1 DEF Good, IsRatchet
  <2> QED  BY <2>1 DEF Chains
<1>4. \A key \in Chains : key.pos \in Nat /\ Len(key.root) \in Nat
  BY DEF Chains
<1>5. \A key \in Chains : Behind(key, r.receiveChain) => Behind(key, q.receiveChain)
  <2> SUFFICES ASSUME NEW key \in Chains, Behind(key, r.receiveChain)
               PROVE  Behind(key, q.receiveChain)
    OBVIOUS
  <2>1. key.pos \in Nat
    BY <1>4
  <2>2. key.pos < r.receiveChain.pos => key.pos < q.receiveChain.pos
    BY <1>1, <1>3, <2>1
  <2> QED  BY <1>1, <2>2 DEF Behind
<1>6. \A k \in DOMAIN q.skipped : Behind(q.skipped[k], q.receiveChain)
  <2> TAKE k \in DOMAIN q.skipped
  <2>1. CASE k \in DOMAIN r.skipped /\ q.skipped[k] = r.skipped[k]
    BY <1>3, <1>5, <2>1 DEF Good, Past
  <2>2. CASE q.skipped[k].root = r.receiveChain.root
             /\ q.skipped[k].pos < q.receiveChain.pos
    BY <1>1, <2>2 DEF Behind
  <2> QED  BY <1>2, <2>1, <2>2
<1>7. \A k \in DOMAIN q.skipped :
        \/ k \in DOMAIN r.skipped /\ q.skipped[k] = r.skipped[k]
        \/ ~Behind(q.skipped[k], r.receiveChain)
  <2> SUFFICES ASSUME NEW k \in DOMAIN q.skipped,
                      ~(k \in DOMAIN r.skipped /\ q.skipped[k] = r.skipped[k])
               PROVE  ~Behind(q.skipped[k], r.receiveChain)
    OBVIOUS
  <2>1. /\ q.skipped[k].root = r.receiveChain.root
        /\ q.skipped[k].pos = r.receiveChain.pos + (k.n - r.receiveCount)
        /\ k.n \in Nat /\ k.n >= r.receiveCount
    BY <1>2
  <2>2. PICK a, b : a = q.skipped[k].pos /\ b = r.receiveChain.pos
    OBVIOUS
  <2>3. a \in Nat /\ b \in Nat /\ a >= b
    BY <1>3, <1>4, <2>1, <2>2
  <2>4. ~(Len(q.skipped[k].root) < Len(r.receiveChain.root))
    BY <1>3, <2>1
  <2> QED  BY <2>2, <2>3, <2>4 DEF Behind
<1>8. \A k, l \in DOMAIN q.skipped : q.skipped[k] = q.skipped[l] => k = l
  <2> SUFFICES ASSUME NEW k \in DOMAIN q.skipped, NEW l \in DOMAIN q.skipped,
                      q.skipped[k] = q.skipped[l]
               PROVE  k = l
    OBVIOUS
  <2>1. \A x \in DOMAIN r.skipped : Behind(r.skipped[x], r.receiveChain)
    BY DEF Good, Past
  <2>2. CASE Behind(q.skipped[k], r.receiveChain)
    BY <1>7, <2>2 DEF Good, Past
  <2>3. CASE ~Behind(q.skipped[k], r.receiveChain)
    <3>1. /\ ~(k \in DOMAIN r.skipped /\ q.skipped[k] = r.skipped[k])
          /\ ~(l \in DOMAIN r.skipped /\ q.skipped[l] = r.skipped[l])
      BY <2>1, <2>3
    <3>2. /\ q.skipped[k].pos = r.receiveChain.pos + (k.n - r.receiveCount)
          /\ q.skipped[l].pos = r.receiveChain.pos + (l.n - r.receiveCount)
          /\ k = [pub |-> r.receiveKey, n |-> k.n] /\ k.n \in Nat
          /\ l = [pub |-> r.receiveKey, n |-> l.n] /\ l.n \in Nat
      BY <1>2, <3>1
    <3>3. k.n = l.n
      BY <1>3, <3>2
    <3> QED  BY <3>2, <3>3
  <2> QED  BY <2>2, <2>3
<1>9. Past(q)
  BY <1>1, <1>6, <1>8 DEF Good, Past
<1>10. \A key \in Chains : Spent(r, key) => Spent(q, key)
  BY <1>5, <1>7 DEF Spent
<1> QED  BY <1>1, <1>9, <1>10 DEF Good

\* A DH step moves to longer roots; nothing stored or spent is touched.
LEMMA StepGood ==
    ASSUME NEW r, Good(r), NEW peer \in Pubs, NEW q, q = step(r, peer)
    PROVE  /\ Good(q)
           /\ Len(q.rootKey) = Len(r.rootKey) + 2
           /\ q.sendChain.root = q.rootKey
           /\ q.steps = r.steps + 1 /\ q.receiveKey = peer
           /\ \A key \in Chains : Spent(r, key) => Spent(q, key)
           /\ Len(q.receiveChain.root) > Len(r.receiveChain.root)
<1>1. PICK fresh : fresh = GenerateKey(r)
  OBVIOUS
<1>2. PICK mid : mid = Append(r.rootKey, {r.sendKey, peer})
  OBVIOUS
<1>3. PICK last : last = Append(mid, {fresh, peer})
  OBVIOUS
<1>4. r.rootKey \in Seq(SUBSET Pubs) /\ r.sendKey \in Pubs
      /\ r.sendCount \in Nat /\ r.steps \in Nat
  BY DEF Good, IsRatchet
<1>5. fresh \in Pubs
  BY <1>1, <1>4 DEF GenerateKey, Pubs
<1>6. /\ mid \in Seq(SUBSET Pubs) /\ Len(mid) = Len(r.rootKey) + 1
      /\ last \in Seq(SUBSET Pubs) /\ Len(last) = Len(r.rootKey) + 2
  BY <1>2, <1>3, <1>4, <1>5
<1>7. ChainOf(mid) \in Chains /\ ChainOf(last) \in Chains
  BY <1>6 DEF ChainOf, Chains
<1>8. q = [rootKey |-> last, sendKey |-> fresh,
           receiveKey |-> peer, sendChain |-> ChainOf(last),
           receiveChain |-> ChainOf(mid), sendCount |-> 0,
           receiveCount |-> 0, previousSent |-> r.sendCount,
           skipped |-> r.skipped, order |-> r.order, steps |-> r.steps + 1,
           evicted |-> r.evicted]
  BY <1>1, <1>2, <1>3 DEF step, kdfRootKey, ECDH, Good, Shape
<1>9. Shape(q)
  BY <1>8 DEF Shape
<1>10. IsRatchet(q)
  BY <1>4, <1>5, <1>6, <1>7, <1>8 DEF IsRatchet, Good
<1>11. /\ Len(r.receiveChain.root) \in Nat
       /\ Len(r.receiveChain.root) < Len(q.receiveChain.root)
       /\ Len(q.receiveChain.root) \in Nat
       /\ \A k \in DOMAIN r.skipped : r.skipped[k] \in Chains
  <2>1. r.receiveChain \in Chains /\ Len(r.receiveChain.root) <= Len(r.rootKey)
        /\ \A k \in DOMAIN r.skipped : r.skipped[k] \in Chains
    BY DEF Good, Past, IsRatchet
  <2>2. Len(r.receiveChain.root) \in Nat /\ Len(r.rootKey) \in Nat
    BY <1>4, <2>1 DEF Chains
  <2>3. q.receiveChain.root = mid
    BY <1>8 DEF ChainOf
  <2> QED  BY <1>6, <2>1, <2>2, <2>3
<1>12. \A key \in Chains : Behind(key, r.receiveChain) => Behind(key, q.receiveChain)
  BY <1>11 DEF Behind, Chains
<1>13. Past(q)
  <2>1. q.skipped = r.skipped /\ q.receiveKey \in Pubs
    BY <1>8
  <2>2. Len(q.receiveChain.root) <= Len(q.rootKey)
    BY <1>4, <1>6, <1>8 DEF ChainOf
  <2> QED  BY <1>11, <1>12, <2>1, <2>2 DEF Good, Past
<1>14. \A key \in Chains : Spent(r, key) => Spent(q, key)
  BY <1>8, <1>12 DEF Spent
<1>15. Good(q)
  BY <1>9, <1>10, <1>13 DEF Good
<1>16. /\ q.rootKey = last /\ q.sendChain.root = last /\ q.steps = r.steps + 1
       /\ q.receiveKey = peer
  BY <1>8 DEF ChainOf
<1> QED  BY <1>6, <1>11, <1>14, <1>15, <1>16

\* The ratchet that receive() goes on with, whether or not it turned.
LEMMA TurnedGood ==
    ASSUME NEW r, Good(r), NEW h \in Headers, NEW q, q = Turned(r, h)
    PROVE  /\ Good(q) /\ q.receiveKey = h.pub
           /\ \A key \in Chains : Spent(r, key) => Spent(q, key)
           /\ \/ /\ q.rootKey = r.rootKey /\ q.sendChain = r.sendChain
                 /\ q.steps = r.steps
              \/ /\ Len(q.rootKey) = Len(r.rootKey) + 2
                 /\ q.sendChain.root = q.rootKey
                 /\ q.steps = r.steps + 1
<1>1. h.pub \in Pubs /\ h.pn \in Nat
  BY DEF Headers
<1>2. CASE NewChain(r, h)
  <2>1. PICK t : t = skipTo(r, h.pn)
    OBVIOUS
  <2>2. /\ Good(t) /\ t.rootKey = r.rootKey /\ t.steps = r.steps
        /\ \A key \in Chains : Spent(r, key) => Spent(t, key)
    BY <1>1, <2>1, SkipToGood
  <2>3. q = step(t, h.pub)
    BY <1>2, <2>1 DEF Turned
  <2>4. /\ Good(q)
        /\ Len(q.rootKey) = Len(t.rootKey) + 2
        /\ q.sendChain.root = q.rootKey
        /\ q.steps = t.steps + 1 /\ q.receiveKey = h.pub
        /\ \A key \in Chains : Spent(t, key) => Spent(q, key)
    BY <1>1, <2>2, <2>3, StepGood
  <2> QED  BY <2>2, <2>4
<1>3. CASE ~NewChain(r, h)
  <2>1. q = r /\ r.receiveKey = h.pub
    BY <1>3 DEF Turned, NewChain
  <2> QED  BY <2>1
<1> QED  BY <1>2, <1>3

\* What a resolved key does: it was not spent before, it is spent once the new
\* state is committed, and what was spent stays spent.
LEMMA CommitSpends ==
    ASSUME NEW r, Good(r), NEW h \in Headers, NEW q, q = Committed(r, h),
           NEW key, key = ReceiveKey(r, h)
    PROVE  /\ Good(q)
           /\ key \in Chains
           /\ ~Spent(r, key)
           /\ Spent(q, key)
           /\ \A old \in Chains : Spent(r, old) => Spent(q, old)
           /\ \/ /\ q.rootKey = r.rootKey /\ q.sendChain = r.sendChain
                 /\ q.steps = r.steps
              \/ /\ Len(q.rootKey) = Len(r.rootKey) + 2
                 /\ q.sendChain.root = q.rootKey
                 /\ q.steps = r.steps + 1
<1>0. h.n \in Nat /\ h.pub \in Pubs
  BY DEF Headers
<1>1. CASE FromStore(r, h)
  <2>1. PICK name : name = NameOf(h)
    OBVIOUS
  <2>2. /\ name \in DOMAIN r.skipped /\ key = r.skipped[name]
        /\ q = forget(r, name)
    BY <1>1, <2>1 DEF FromStore, ReceiveKey, Committed, receive
  <2>3. PICK order : order = SelectSeq(r.order, LAMBDA k : k # name)
    OBVIOUS
  <2>4. PICK keys : keys = [k \in DOMAIN r.skipped \ {name} |-> r.skipped[k]]
    OBVIOUS
  <2>5. q = [rootKey |-> r.rootKey, sendKey |-> r.sendKey,
             receiveKey |-> r.receiveKey, sendChain |-> r.sendChain,
             receiveChain |-> r.receiveChain, sendCount |-> r.sendCount,
             receiveCount |-> r.receiveCount, previousSent |-> r.previousSent,
             skipped |-> keys, order |-> order, steps |-> r.steps,
             evicted |-> r.evicted]
    BY <2>2, <2>3, <2>4 DEF forget, Good, Shape
  <2>6. /\ DOMAIN keys = DOMAIN r.skipped \ {name}
        /\ \A k \in DOMAIN keys : keys[k] = r.skipped[k]
    BY <2>4
  <2>7. Shape(q)
    BY <2>5 DEF Shape
  <2>8. IsRatchet(q)
    BY <2>5, <2>6 DEF IsRatchet, Good
  <2>9. Past(q)
    BY <2>5, <2>6 DEF Past, Good
  <2>10. key \in Chains /\ ~Spent(r, key)
    BY <2>2 DEF Good, IsRatchet, Spent
  <2>11. Spent(q, key)
    <3>1. Behind(key, q.receiveChain)
      BY <2>2, <2>5 DEF Good, Past
    <3>2. \A k \in DOMAIN keys : keys[k] # key
      BY <2>2, <2>6 DEF Good, Past
    <3> QED  BY <2>5, <3>1, <3>2 DEF Spent
  <2>12. \A old \in Chains : Spent(r, old) => Spent(q, old)
    BY <2>5, <2>6 DEF Spent
  <2> QED  BY <2>5, <2>7, <2>8, <2>9, <2>10, <2>11, <2>12 DEF Good
<1>2. CASE ~FromStore(r, h)
  <2>1. PICK t : t = Turned(r, h)
    OBVIOUS
  <2>2. PICK n, u : n \in Nat /\ n = h.n /\ u = skipTo(t, n)
    BY <1>0
  <2>3. /\ Good(t) /\ t.receiveKey = h.pub
        /\ \A old \in Chains : Spent(r, old) => Spent(t, old)
        /\ \/ /\ t.rootKey = r.rootKey /\ t.sendChain = r.sendChain
              /\ t.steps = r.steps
           \/ /\ Len(t.rootKey) = Len(r.rootKey) + 2
              /\ t.sendChain.root = t.rootKey
              /\ t.steps = r.steps + 1
    BY <2>1, TurnedGood
  <2>4. /\ Good(u) /\ u.rootKey = t.rootKey /\ u.sendChain = t.sendChain
        /\ u.steps = t.steps /\ u.receiveKey = t.receiveKey
        /\ \A old \in Chains : Spent(t, old) => Spent(u, old)
    <3>1. Good(t) /\ n \in Nat /\ u = skipTo(t, n)
      BY <2>2, <2>3
    <3> QED  BY <3>1, SkipToGood
  <2>5. /\ key = u.receiveChain
        /\ q = [u EXCEPT !.receiveChain = Advance(@, 1), !.receiveCount = Increment(@)]
    BY <1>2, <2>1, <2>2 DEF ReceiveKey, Committed, receive
  <2>6. key \in Chains /\ key.pos \in Nat /\ Increment(u.receiveCount) \in Nat
    <3>1. u.receiveCount \in Nat
      BY <2>4 DEF Good, IsRatchet
    <3>2. Increment(u.receiveCount) \in Nat
      BY <3>1 DEF Increment
    <3> QED  BY <2>4, <2>5, <3>2 DEF Good, IsRatchet, Chains
  <2>7. PICK c : c = [root |-> key.root, pos |-> key.pos + 1]
    OBVIOUS
  <2>8. c = Advance(u.receiveChain, 1) /\ c \in Chains
    BY <2>5, <2>6, <2>7 DEF Advance, Chains
  <2>9. q = [rootKey |-> u.rootKey, sendKey |-> u.sendKey,
             receiveKey |-> u.receiveKey, sendChain |-> u.sendChain,
             receiveChain |-> c, sendCount |-> u.sendCount,
             receiveCount |-> Increment(u.receiveCount),
             previousSent |-> u.previousSent,
             skipped |-> u.skipped, order |-> u.order, steps |-> u.steps,
             evicted |-> u.evicted]
    BY <2>4, <2>5, <2>8 DEF Good, Shape
  <2>10. Shape(q)
    BY <2>9 DEF Shape
  <2>11. IsRatchet(q)
    BY <2>4, <2>6, <2>8, <2>9 DEF Good, IsRatchet
  <2>12. \A old \in Chains : Behind(old, key) => Behind(old, c)
    BY <2>6, <2>7 DEF Behind, Chains
  <2>13. Behind(key, c) /\ ~Behind(key, key)
    BY <2>6, <2>7 DEF Behind, Chains
  <2>14. Past(q)
    <3>1. \A k \in DOMAIN u.skipped : Behind(u.skipped[k], c)
      BY <2>4, <2>5, <2>12 DEF Good, Past, IsRatchet
    <3>2. Len(c.root) <= Len(u.rootKey)
      BY <2>4, <2>5, <2>7 DEF Good, Past
    <3>3. q.receiveChain # NoChain => q.receiveKey \in Pubs
      BY <1>0, <2>3, <2>4, <2>9
    <3> QED  BY <2>4, <2>9, <3>1, <3>2, <3>3 DEF Good, Past
  <2>15. \A k \in DOMAIN u.skipped : u.skipped[k] # key
    BY <2>4, <2>5, <2>13 DEF Good, Past
  <2>16. Spent(q, key)
    BY <2>9, <2>13, <2>15 DEF Spent
  <2>17. ~Spent(u, key)
    BY <2>5, <2>13 DEF Spent
  <2>18. \A old \in Chains : Spent(u, old) => Spent(q, old)
    <3>1. q.skipped = u.skipped
      BY <2>9
    <3>2. u.receiveChain = key
      BY <2>5
    <3>3. q.receiveChain = c
      BY <2>9
    <3> QED  BY <2>12, <3>1, <3>2, <3>3 DEF Spent
  <2> QED  BY <2>3, <2>4, <2>6, <2>9, <2>10, <2>11, <2>14, <2>16, <2>17, <2>18
           DEF Good
<1> QED  BY <1>1, <1>2

-----------------------------------------------------------------------------
\* Root lengths tell the directions apart: the initiator seals under roots of
\* odd length, the responder under roots of even length.
Offset(s) == IF s = "initiator" THEN 1 ELSE 0

Lengths(s) == {2 * k + Offset(s) : k \in Nat}

\* The sending half of one side.
Sealed(s) ==
    LET r == ratchet[s] IN
    ~closed[s] =>
        /\ Len(r.rootKey) \in Lengths(s)
        /\ r.sendChain = NoChain \/ r.sendChain.root = r.rootKey
        /\ \A rec \in sent[s] : /\ r.sendChain # NoChain
                                /\ Behind(rec.key, r.sendChain)

Received(s) ==
    ~closed[s] => /\ Past(ratchet[s])
                  /\ \A rec \in opened[s] : Spent(ratchet[s], rec.key)

Inv ==
    /\ ratchet = [s \in Sides |-> ratchet[s]]
    /\ TypeOK
    /\ \A s \in Sides : Shape(ratchet[s])
    /\ \A s \in Sides : Received(s)
    /\ \A s \in Sides : Sealed(s)
    /\ \A s \in Sides : \A rec \in sent[s] : Len(rec.key.root) \in Lengths(s)
    /\ \A s \in Sides : \A a, b \in sent[s] : a.key = b.key => a = b

LEMMA InitInv == Init => Inv
<1> SUFFICES ASSUME Init PROVE Inv
  OBVIOUS
<1>1. /\ InitiatorEphemeral \in Pubs /\ ResponderEphemeral \in Pubs
      /\ ECDH(InitiatorEphemeral, ResponderEphemeral) \in SUBSET Pubs
  BY DEF InitiatorEphemeral, ResponderEphemeral, Pubs, Sides, ECDH
<1>2. PICK root : root = kdfRootKey(<< >>, ECDH(InitiatorEphemeral, ResponderEphemeral))
  OBVIOUS
<1>3. root \in Seq(SUBSET Pubs) /\ Len(root) = 1
  BY <1>1, <1>2 DEF kdfRootKey
<1>4. ChainOf(root) \in Chains /\ NoChain \in Chains
  BY <1>3 DEF ChainOf, NoChain, Chains
<1>5. DOMAIN NoKeys = {}
  BY DEF NoKeys
<1>6. newRatchetInitiator =
        [rootKey |-> root, sendKey |-> InitiatorEphemeral,
         receiveKey |-> ResponderEphemeral,
         sendChain |-> ChainOf(root), receiveChain |-> NoChain,
         sendCount |-> 0, receiveCount |-> 0, previousSent |-> 0,
         skipped |-> NoKeys, order |-> << >>, steps |-> 0, evicted |-> {}]
  BY <1>2 DEF newRatchetInitiator
<1>7. Good(newRatchetInitiator)
  <2>1. Shape(newRatchetInitiator)
    BY <1>6 DEF Shape
  <2>2. IsRatchet(newRatchetInitiator)
    BY <1>1, <1>3, <1>4, <1>5, <1>6 DEF IsRatchet
  <2>3. Past(newRatchetInitiator)
    BY <1>1, <1>3, <1>5, <1>6 DEF Past, NoChain
  <2> QED  BY <2>1, <2>2, <2>3 DEF Good
<1>8. Good(newRatchetResponder)
  <2>1. Shape(newRatchetResponder)
    BY DEF Shape, newRatchetResponder
  <2>2. IsRatchet(newRatchetResponder)
    BY <1>1, <1>4, <1>5 DEF IsRatchet, newRatchetResponder
  <2>3. Past(newRatchetResponder)
    BY <1>5 DEF Past, NoChain, newRatchetResponder
  <2> QED  BY <2>1, <2>2, <2>3 DEF Good
<1>9. /\ ratchet = [s \in Sides |-> ratchet[s]]
      /\ \A s \in Sides : Good(ratchet[s])
      /\ \A s \in Sides : sent[s] = {} /\ opened[s] = {} /\ closed[s] = FALSE
  BY <1>7, <1>8 DEF Init
<1>10. TypeOK
  <2>1. written \in [Sides -> Nat] /\ read \in [Sides -> Nat]
    BY DEF Init
  <2> QED  BY <1>9, <2>1 DEF TypeOK, Good, Init
<1>11. \A s \in Sides : Received(s)
  BY <1>9 DEF Received, Good
<1>12. \A s \in Sides : Sealed(s)
  <2>1. 1 \in Lengths("initiator") /\ 0 \in Lengths("responder")
    <3>1. 1 = 2 * 0 + 1 /\ 0 = 2 * 0 + 0 /\ 0 \in Nat
      OBVIOUS
    <3> QED  BY <3>1 DEF Lengths, Offset
  <2>2. Sealed("initiator")
    BY <1>3, <1>6, <1>9, <2>1 DEF Sealed, Init, ChainOf, Sides
  <2>3. Sealed("responder")
    BY <1>9, <2>1 DEF Sealed, Init, newRatchetResponder, Sides
  <2> QED  BY <2>2, <2>3 DEF Sides
<1> QED  BY <1>9, <1>10, <1>11, <1>12 DEF Inv, Good

\* A side that has not closed has a good ratchet, and a closed one the rest.
LEMMA OpenIsGood ==
    ASSUME Inv, NEW s \in Sides, ~closed[s]
    PROVE  Good(ratchet[s])
BY DEF Inv, TypeOK, Received, Good

LEMMA EncryptInv ==
    ASSUME Inv, NEW s \in Sides, Encrypt(s)
    PROVE  Inv'
<1> DEFINE r == ratchet[s]
<1>1. PICK rec : rec = Record(NextHeader(r), r.sendChain, written[s])
  OBVIOUS
<1>2. PICK q : q = next(r)
  OBVIOUS
<1>3. /\ ~closed[s] /\ canSend(r) /\ r.sendCount # MaxCount
      /\ sent' = [sent EXCEPT ![s] = @ \cup {rec}]
      /\ ratchet' = [ratchet EXCEPT ![s] = q]
      /\ sentSinceStep' = [sentSinceStep EXCEPT ![s] = @ + 1]
      /\ written' = [written EXCEPT ![s] = @ + 1]
      /\ closed' = closed /\ opened' = opened /\ read' = read
  BY <1>1, <1>2 DEF Encrypt, CanNext
<1>4. Good(r) /\ Shape(r) /\ IsRatchet(r) /\ Past(r)
  BY <1>3, OpenIsGood DEF Good
<1>5. r.sendChain \in Chains /\ r.sendChain.pos \in Nat
  BY <1>4 DEF IsRatchet, Chains
<1>6. PICK c : c = [root |-> r.sendChain.root, pos |-> r.sendChain.pos + 1]
  OBVIOUS
<1>7. c = Advance(r.sendChain, 1) /\ c \in Chains
  BY <1>5, <1>6 DEF Advance, Chains
<1>8. q = [rootKey |-> r.rootKey, sendKey |-> r.sendKey,
           receiveKey |-> r.receiveKey, sendChain |-> c,
           receiveChain |-> r.receiveChain, sendCount |-> r.sendCount + 1,
           receiveCount |-> r.receiveCount, previousSent |-> r.previousSent,
           skipped |-> r.skipped, order |-> r.order, steps |-> r.steps,
           evicted |-> r.evicted]
  BY <1>2, <1>3, <1>4, <1>7 DEF next, Shape, Increment
<1>9. Shape(q) /\ IsRatchet(q) /\ Past(q)
  <2>1. Shape(q)
    BY <1>8 DEF Shape
  <2>2. IsRatchet(q)
    BY <1>4, <1>7, <1>8 DEF IsRatchet
  <2>3. Past(q)
    BY <1>4, <1>8 DEF Past
  <2> QED  BY <2>1, <2>2, <2>3
<1>10. rec \in Records /\ rec.key = r.sendChain
  <2>1. NextHeader(r) \in Headers
    BY <1>4 DEF NextHeader, Headers, IsRatchet
  <2>2. written[s] \in Nat
    BY DEF Inv, TypeOK
  <2> QED  BY <1>1, <1>5, <2>1, <2>2 DEF Record, Records
<1>11. /\ ratchet' = [t \in Sides |-> ratchet'[t]]
       /\ ratchet'[s] = q
       /\ \A t \in Sides \ {s} : ratchet'[t] = ratchet[t]
       /\ sent'[s] = sent[s] \cup {rec}
       /\ \A t \in Sides \ {s} : sent'[t] = sent[t]
  BY <1>3 DEF Inv, TypeOK
<1>12. TypeOK'
  <2>1. \A t \in Sides : IsRatchet(ratchet'[t])
    BY <1>9, <1>11 DEF Inv, TypeOK
  <2>2. sent' \in [Sides -> SUBSET Records]
    BY <1>3, <1>10 DEF Inv, TypeOK
  <2>3. sentSinceStep' \in [Sides -> Nat] /\ written' \in [Sides -> Nat]
    BY <1>3 DEF Inv, TypeOK
  <2> QED  BY <1>3, <2>1, <2>2, <2>3 DEF Inv, TypeOK, IsRatchet
<1>13. \A t \in Sides : Shape(ratchet[t])'
  BY <1>9, <1>11 DEF Inv, Shape
<1>14. \A t \in Sides : Received(t)'
  <2>1. \A old : Spent(r, old) => Spent(q, old)
    BY <1>8 DEF Spent
  <2>2. Received(s)'
    BY <1>3, <1>9, <1>11, <2>1 DEF Inv, Received, Spent, Past
  <2>3. \A t \in Sides \ {s} : Received(t)'
    BY <1>3, <1>11 DEF Inv, Received, Spent, Past
  <2> QED  BY <2>2, <2>3
<1>15. Len(r.rootKey) \in Lengths(s) /\ r.sendChain.root = r.rootKey
       /\ \A old \in sent[s] : Behind(old.key, r.sendChain) /\ old.key \in Chains
  BY <1>3 DEF Inv, Sealed, canSend, TypeOK, Records
<1>16. \A t \in Sides : Sealed(t)'
  <2>1. \A old \in sent'[s] : Behind(old.key, c)
    <3>1. \A key \in Chains : Behind(key, r.sendChain) => Behind(key, c)
      BY <1>5, <1>6 DEF Behind, Chains
    <3>2. Behind(r.sendChain, c)
      BY <1>5, <1>6 DEF Behind
    <3> QED  BY <1>10, <1>11, <1>15, <3>1, <3>2
  <2>2. c # NoChain
    BY <1>5, <1>6 DEF NoChain
  <2>3. Sealed(s)'
    <3>1. ratchet'[s].rootKey = r.rootKey /\ ratchet'[s].sendChain = c
      BY <1>8, <1>11
    <3>2. c.root = r.rootKey
      BY <1>6, <1>15
    <3> QED  BY <1>15, <2>1, <2>2, <3>1, <3>2 DEF Sealed, Lengths, Offset
  <2>4. \A t \in Sides \ {s} : Sealed(t)'
    BY <1>3, <1>11 DEF Inv, Sealed, Lengths, Offset
  <2> QED  BY <2>3, <2>4
<1>17. \A t \in Sides : \A old \in sent'[t] : Len(old.key.root) \in Lengths(t)
  BY <1>10, <1>11, <1>15 DEF Inv
<1>18. \A t \in Sides : \A a, b \in sent'[t] : a.key = b.key => a = b
  <2>1. ~Behind(r.sendChain, r.sendChain)
    BY <1>5 DEF Behind, Chains
  <2>2. \A old \in sent[s] : old.key # rec.key
    BY <1>10, <1>15, <2>1
  <2>3. \A a, b \in sent'[s] : a.key = b.key => a = b
    BY <1>11, <2>2 DEF Inv
  <2> QED  BY <1>11, <2>3 DEF Inv
<1> QED  BY <1>11, <1>12, <1>13, <1>14, <1>16, <1>17, <1>18 DEF Inv, Lengths, Offset

LEMMA DecryptInv ==
    ASSUME Inv, NEW s \in Sides, NEW rec \in Arrivals(s), DecryptOpens(s, rec)
    PROVE  Inv'
<1> DEFINE r == ratchet[s]
<1>1. PICK q : q = Committed(r, rec.hdr)
  OBVIOUS
<1>2. /\ ~closed[s] /\ Opens(r, rec)
      /\ ratchet' = [ratchet EXCEPT ![s] = q]
      /\ sentSinceStep' \in {sentSinceStep, [sentSinceStep EXCEPT ![s] = 0]}
      /\ opened' = [opened EXCEPT ![s] = @ \cup {rec}]
      /\ read' = [read EXCEPT ![s] = @ + 1]
      /\ closed' = closed /\ sent' = sent /\ written' = written
  BY <1>1 DEF DecryptOpens
<1>3. rec \in Records
  <2>1. Peer(s) \in Sides
    BY DEF Peer, Sides
  <2>2. sent[Peer(s)] \subseteq Records
    BY <2>1 DEF Inv, TypeOK
  <2>3. \A x \in Records : Damaged(x) \subseteq Records
    BY LimitsAssumption DEF Damaged, Records, Headers, Pubs, Increment
  <2> QED  BY <2>2, <2>3 DEF Arrivals
<1>4. Good(r)
  BY <1>2, OpenIsGood
<1>5. PICK h : h = rec.hdr
  OBVIOUS
<1>6. h \in Headers /\ q = Committed(r, h) /\ rec.key = ReceiveKey(r, h)
      /\ rec.key \in Chains
  BY <1>1, <1>2, <1>3, <1>5 DEF Records, Opens
<1>7. PICK key : key = rec.key
  OBVIOUS
<1>8. /\ Good(q)
      /\ Spent(q, key)
      /\ \A old \in Chains : Spent(r, old) => Spent(q, old)
      /\ \/ /\ q.rootKey = r.rootKey /\ q.sendChain = r.sendChain
            /\ q.steps = r.steps
         \/ /\ Len(q.rootKey) = Len(r.rootKey) + 2
            /\ q.sendChain.root = q.rootKey
            /\ q.steps = r.steps + 1
  <2> HIDE DEF r
  <2>1. key = ReceiveKey(r, h) /\ q = Committed(r, h) /\ h \in Headers
    BY <1>6, <1>7
  <2> QED  BY <1>4, <2>1, CommitSpends
<1>9. /\ ratchet' = [t \in Sides |-> ratchet'[t]]
      /\ ratchet'[s] = q
      /\ \A t \in Sides \ {s} : ratchet'[t] = ratchet[t]
      /\ opened'[s] = opened[s] \cup {rec}
      /\ \A t \in Sides \ {s} : opened'[t] = opened[t]
  BY <1>2 DEF Inv, TypeOK
<1>10. TypeOK'
  <2>1. \A t \in Sides : IsRatchet(ratchet'[t])
    BY <1>8, <1>9 DEF Inv, TypeOK, Good
  <2>2. opened' \in [Sides -> SUBSET Records]
    BY <1>2, <1>3 DEF Inv, TypeOK
  <2>3. sentSinceStep' \in [Sides -> Nat]
    <3>1. sentSinceStep \in [Sides -> Nat]
          /\ sentSinceStep' \in {sentSinceStep, [sentSinceStep EXCEPT ![s] = 0]}
      BY <1>2 DEF Inv, TypeOK
    <3>2. [sentSinceStep EXCEPT ![s] = 0] \in [Sides -> Nat]
      BY <3>1
    <3> QED  BY <3>1, <3>2
  <2>4. read' \in [Sides -> Nat]
    BY <1>2 DEF Inv, TypeOK
  <2> QED  BY <1>2, <2>1, <2>2, <2>3, <2>4 DEF Inv, TypeOK, IsRatchet
<1>11. \A t \in Sides : Shape(ratchet[t])'
  BY <1>8, <1>9 DEF Inv, Shape, Good
<1>12. \A t \in Sides : Received(t)'
  <2>1. \A old \in opened[s] : Spent(r, old.key) /\ old.key \in Chains
    BY <1>2 DEF Inv, Received, TypeOK, Records
  <2>2. \A old \in opened'[s] : Spent(q, old.key)
    BY <1>7, <1>8, <1>9, <2>1
  <2>3. Received(s)'
    BY <1>8, <1>9, <2>2 DEF Received, Spent, Past, Good
  <2>4. \A t \in Sides \ {s} : Received(t)'
    BY <1>2, <1>9 DEF Inv, Received, Spent, Past
  <2> QED  BY <2>3, <2>4
<1>13. \A t \in Sides : Sealed(t)'
  <2>1. /\ Len(r.rootKey) \in Lengths(s)
        /\ r.sendChain = NoChain \/ r.sendChain.root = r.rootKey
        /\ \A old \in sent[s] : r.sendChain # NoChain /\ Behind(old.key, r.sendChain)
                                /\ old.key \in Chains
    BY <1>2 DEF Inv, Sealed, TypeOK, Records
  <2>2. r.rootKey \in Seq(SUBSET Pubs) /\ q.rootKey \in Seq(SUBSET Pubs)
    BY <1>4, <1>8 DEF Good, IsRatchet
  <2>3. /\ Len(q.rootKey) \in Lengths(s)
        /\ q.sendChain = NoChain \/ q.sendChain.root = q.rootKey
        /\ \A old \in sent[s] : q.sendChain # NoChain /\ Behind(old.key, q.sendChain)
    <3>1. CASE q.rootKey = r.rootKey /\ q.sendChain = r.sendChain
      BY <2>1, <3>1
    <3>2. CASE Len(q.rootKey) = Len(r.rootKey) + 2 /\ q.sendChain.root = q.rootKey
      <4>1. PICK k \in Nat : Len(r.rootKey) = 2 * k + Offset(s)
        BY <2>1 DEF Lengths
      <4>2. Offset(s) \in Nat
        BY DEF Offset
      <4>3. Len(q.rootKey) = 2 * (k + 1) + Offset(s) /\ k + 1 \in Nat
        BY <3>2, <4>1, <4>2
      <4>4. Len(q.rootKey) \in Lengths(s)
        BY <4>3 DEF Lengths
      <4>5. ASSUME NEW old \in sent[s]
            PROVE  Len(old.key.root) <= Len(r.rootKey)
        <5> HIDE DEF r
        <5>1. /\ Behind(old.key, r.sendChain) /\ r.sendChain.root = r.rootKey
              /\ old.key.root \in Seq(SUBSET Pubs)
          BY <2>1 DEF Chains
        <5>2. Len(old.key.root) \in Nat /\ Len(r.rootKey) \in Nat
          BY <2>2, <5>1
        <5> QED  BY <5>1, <5>2 DEF Behind
      <4>6. \A old \in sent[s] : Len(old.key.root) < Len(q.sendChain.root)
        BY <2>1, <2>2, <3>2, <4>5 DEF Chains
      <4>7. q.sendChain # NoChain
        <5>1. Len(q.sendChain.root) > 0
          BY <2>2, <3>2
        <5> QED  BY <5>1 DEF NoChain
      <4> QED  BY <3>2, <4>4, <4>6, <4>7 DEF Behind
    <3> QED  BY <1>8, <3>1, <3>2
  <2>4. Sealed(s)'
    BY <1>2, <1>9, <2>3 DEF Sealed, Lengths, Offset
  <2>5. \A t \in Sides \ {s} : Sealed(t)'
    BY <1>2, <1>9 DEF Inv, Sealed, Lengths, Offset
  <2> QED  BY <2>4, <2>5
<1> QED  BY <1>2, <1>9, <1>10, <1>11, <1>12, <1>13 DEF Inv, Lengths, Offset

LEMMA CloseInv ==
    ASSUME Inv, NEW s \in Sides, Close(s)
    PROVE  Inv'
<1> DEFINE r == ratchet[s]
<1>1. PICK q : q = destroy(r)
  OBVIOUS
<1>2. /\ closed' = [closed EXCEPT ![s] = TRUE]
      /\ ratchet' = [ratchet EXCEPT ![s] = q]
      /\ sentSinceStep' = sentSinceStep /\ sent' = sent /\ opened' = opened
      /\ written' = written /\ read' = read
  BY <1>1 DEF Close
<1>3. Shape(r) /\ IsRatchet(r)
  BY DEF Inv, TypeOK
<1>4. q = [rootKey |-> << >>, sendKey |-> r.sendKey,
           receiveKey |-> r.receiveKey, sendChain |-> NoChain,
           receiveChain |-> NoChain, sendCount |-> r.sendCount,
           receiveCount |-> r.receiveCount, previousSent |-> r.previousSent,
           skipped |-> NoKeys, order |-> << >>, steps |-> r.steps,
           evicted |-> r.evicted]
  BY <1>1, <1>3 DEF destroy, Shape
<1>5. Shape(q)
  BY <1>4 DEF Shape
<1>6. IsRatchet(q)
  <2>1. NoChain \in Chains /\ DOMAIN NoKeys = {}
    BY DEF NoChain, Chains, NoKeys
  <2> QED  BY <1>3, <1>4, <2>1 DEF IsRatchet
<1>7. /\ ratchet' = [t \in Sides |-> ratchet'[t]]
      /\ ratchet'[s] = q /\ closed'[s] = TRUE
      /\ \A t \in Sides \ {s} : ratchet'[t] = ratchet[t] /\ closed'[t] = closed[t]
      /\ closed' \in [Sides -> BOOLEAN]
  BY <1>2 DEF Inv, TypeOK
<1>8. TypeOK'
  <2>1. \A t \in Sides : IsRatchet(ratchet'[t])
    BY <1>6, <1>7 DEF Inv, TypeOK
  <2> QED  BY <1>2, <1>7, <2>1 DEF Inv, TypeOK, IsRatchet
<1>9. \A t \in Sides : Shape(ratchet[t])'
  BY <1>5, <1>7 DEF Inv, Shape
<1>10. \A t \in Sides : Received(t)' /\ Sealed(t)'
  <2>1. Received(s)' /\ Sealed(s)'
    BY <1>7 DEF Received, Sealed
  <2>2. \A t \in Sides \ {s} : Received(t)'
    BY <1>2, <1>7 DEF Inv, Received, Spent, Past
  <2>3. \A t \in Sides \ {s} : Sealed(t)'
    BY <1>2, <1>7 DEF Inv, Sealed, Lengths, Offset
  <2> QED  BY <2>1, <2>2, <2>3
<1> QED  BY <1>2, <1>7, <1>8, <1>9, <1>10 DEF Inv, Lengths, Offset

\* The strengthened invariant holds in every reachable state.
THEOREM SessionInv == Spec => []Inv
<1>1. Init => Inv
  BY InitInv
<1>2. Inv /\ [Next]_vars => Inv'
  <2> SUFFICES ASSUME Inv, [Next]_vars
               PROVE  Inv'
    OBVIOUS
  <2>1. CASE UNCHANGED vars
    BY <2>1 DEF vars, Inv, TypeOK, IsRatchet, Shape, Received, Past, Spent,
                Sealed, Lengths, Offset
  <2>2. ASSUME NEW s \in Sides, Encrypt(s)
        PROVE  Inv'
    BY <2>2, EncryptInv
  <2>3. ASSUME NEW s \in Sides, NEW rec \in Arrivals(s), DecryptOpens(s, rec)
        PROVE  Inv'
    BY <2>3, DecryptInv
  <2>4. ASSUME NEW s \in Sides, NEW rec \in Arrivals(s), DecryptFails(s, rec)
        PROVE  Inv'
    BY <2>1, <2>4 DEF DecryptFails
  <2>5. ASSUME NEW s \in Sides, Close(s)
        PROVE  Inv'
    BY <2>5, CloseInv
  <2> QED  BY <2>1, <2>2, <2>3, <2>4, <2>5 DEF Next, Decrypt
<1> QED  BY <1>1, <1>2, PTL DEF Spec

\* Every reachable state is of the types TypeOK states (the ratchet struct and
\* the session fields, session.go).
THEOREM TypeCorrect == Spec => []TypeOK
<1>1. Inv => TypeOK
  BY DEF Inv
<1> QED  BY <1>1, SessionInv, PTL

\* Replay protection for every limit: a record that Decrypt has accepted is
\* never accepted again, for the key it needs is behind the receiving chain and
\* no longer in the store (Decrypt, forget).
THEOREM ReplayProtection == Spec => []NoReplay
<1>1. Inv => NoReplay
  <2> SUFFICES ASSUME Inv, NEW s \in Sides, ~closed[s], NEW rec \in opened[s],
                      Opens(ratchet[s], rec)
               PROVE  FALSE
    BY DEF NoReplay
  <2>1. Good(ratchet[s])
    BY OpenIsGood
  <2>2. Spent(ratchet[s], rec.key) /\ rec.hdr \in Headers
    BY DEF Inv, Received, TypeOK, Records
  <2>3. PICK key, r, h, q : /\ key = ReceiveKey(r, h) /\ r = ratchet[s]
                            /\ h = rec.hdr /\ q = Committed(r, h)
    OBVIOUS
  <2>4. Good(r) /\ h \in Headers /\ Spent(r, key)
    BY <2>1, <2>2, <2>3 DEF Opens
  <2>5. ~Spent(r, key)
    <3>1. key = ReceiveKey(r, h) /\ q = Committed(r, h)
      BY <2>3
    <3> QED  BY <2>4, <3>1, CommitSpends
  <2> QED  BY <2>4, <2>5
<1> QED  BY <1>1, SessionInv, PTL

\* Message keys, hence AEAD keys and nonces, are never used twice: within a
\* direction each record's key is behind the sending chain, and between the
\* directions the lengths of the roots differ in parity (next, step).
THEOREM KeyUniqueness == Spec => []NoKeyReuse
<1>1. Inv => NoKeyReuse
  <2> SUFFICES ASSUME Inv, NEW s \in Sides, NEW t \in Sides,
                      NEW a \in sent[s], NEW b \in sent[t], a.key = b.key
               PROVE  a = b /\ s = t
    BY DEF NoKeyReuse
  <2>1. PICK k \in Nat : Len(a.key.root) = 2 * k + Offset(s)
    BY DEF Inv, Lengths
  <2>2. PICK l \in Nat : Len(b.key.root) = 2 * l + Offset(t)
    BY DEF Inv, Lengths
  <2>3. s = t
    BY <2>1, <2>2 DEF Offset, Sides
  <2> QED  BY <2>3 DEF Inv
<1> QED  BY <1>1, SessionInv, PTL

-----------------------------------------------------------------------------
(***************************************************************************)
(* The two sides together.  They take turns in mixing a fresh secret into  *)
(* one and the same root, so where a side stands is told by the number of  *)
(* DH steps it has taken, and the chain of a record by the generation of   *)
(* the key in its header.                                                  *)
(***************************************************************************)

Pub(s, g) == [owner |-> s, gen |-> g]

\* The n-th secret of the connection, and the root key after n of them.
Secret(n) == {Pub("initiator", (n - 1) \div 2), Pub("responder", n \div 2)}

Root(n) == [m \in 1..n |-> Secret(m)]

\* How many secrets are in the root of the chain that s sends on with its g-th
\* key, and which of the peer's keys s receives from after k DH steps.
Index(s, g)   == IF s = "initiator" THEN 2 * g + 1 ELSE 2 * g
Current(s, k) == IF s = "initiator" THEN k ELSE k - 1

\* Where its DH steps have taken the chains of a ratchet of s, and its store.
At(s, r) ==
    LET k == r.steps IN
    /\ r.sendKey = Pub(s, k)
    /\ r.rootKey = Root(Index(s, k))
    /\ r.sendChain = [root |-> Root(Index(s, k)), pos |-> r.sendCount]
    /\ Index(s, k) = 0 => r.sendCount = 0
    /\ r.receiveChain = [root |-> Root(Index(s, k) - 1), pos |-> r.receiveCount]
    /\ r.receiveKey = IF Current(s, k) < 0 THEN NoPub
                                           ELSE Pub(Peer(s), Current(s, k))
    /\ \A x \in DOMAIN r.skipped :
         /\ x.pub = Pub(Peer(s), x.pub.gen)
         /\ r.skipped[x] = [root |-> Root(Index(Peer(s), x.pub.gen)), pos |-> x.n]

Placed(s) ==
    /\ ratchet[s].sendKey = Pub(s, ratchet[s].steps)
    /\ ~closed[s] => At(s, ratchet[s])

\* The sides turn in turn, and a receiver is not ahead of its sender.
InTurn ==
    /\ ratchet["responder"].steps - ratchet["initiator"].steps \in {0, 1}
    /\ \A s \in Sides :
         Current(s, ratchet[s].steps) = ratchet[Peer(s)].steps =>
           ratchet[s].receiveCount <= ratchet[Peer(s)].sendCount

\* What a record says of the chain it was sealed on; r is where its sender is.
Truthful(s, r, rec) ==
    /\ rec.ad = rec.hdr
    /\ rec.hdr.pub = Pub(s, rec.hdr.pub.gen)
    /\ rec.key = [root |-> Root(Index(s, rec.hdr.pub.gen)), pos |-> rec.hdr.n]
    /\ Index(s, rec.hdr.pub.gen) > 0
    /\ rec.hdr.n # MaxCount
    /\ rec.hdr.pub.gen <= r.steps
    /\ rec.hdr.pub.gen = r.steps => rec.hdr.n < r.sendCount
    /\ rec.hdr.pub.gen = r.steps - 1 => rec.hdr.n < r.previousSent

\* pn covers every record that was sealed on the chain before.
Follows(old, rec) ==
    old.hdr.pub.gen = rec.hdr.pub.gen - 1 => old.hdr.n < rec.hdr.pn

Genuine(s) ==
    \A rec \in sent[s] : /\ Truthful(s, ratchet[s], rec)
                         /\ \A old \in sent[s] : Follows(old, rec)

\* The receiving side has gone past the place of the record.
Passed(s, r, h) ==
    \/ h.pub.gen < Current(s, r.steps)
    \/ h.pub.gen = Current(s, r.steps) /\ h.n < r.receiveCount

Held(r) == DOMAIN r.skipped \cup r.evicted

\* What was passed and not opened is in the store, or has been dropped from it.
Accounted(s) ==
    ~closed[s] => \A rec \in sent[Peer(s)] \ opened[s] :
                    Passed(s, ratchet[s], rec.hdr) => NameOf(rec.hdr) \in Held(ratchet[s])

Agreement ==
    /\ InTurn
    /\ \A s \in Sides : Placed(s) /\ Genuine(s) /\ Accounted(s)

-----------------------------------------------------------------------------
LEMMA RootGrows ==
    ASSUME NEW n \in Nat
    PROVE  /\ Len(Root(n)) = n
           /\ Append(Root(n), Secret(n + 1)) = Root(n + 1)
<1>1. PICK S : S = {Secret(m) : m \in 1..(n + 1)}
  OBVIOUS
<1>2. Root(n) \in Seq(S) /\ Root(n + 1) \in Seq(S) /\ Secret(n + 1) \in S
  <2> HIDE DEF Secret
  <2>1. \A m \in 1..(n + 1) : Secret(m) \in S
    BY <1>1
  <2>2. \A f : f \in [1..n -> S] \/ f \in [1..(n + 1) -> S] => f \in Seq(S)
    OBVIOUS
  <2>3. Root(n) \in [1..n -> S] /\ Root(n + 1) \in [1..(n + 1) -> S]
    BY <2>1 DEF Root
  <2> QED  BY <2>1, <2>2, <2>3
<1>3. Len(Root(n)) = n /\ Len(Root(n + 1)) = n + 1
  BY <1>2 DEF Root
<1>4. /\ \A i \in 1..n : Root(n)[i] = Secret(i)
      /\ \A i \in 1..(n + 1) : Root(n + 1)[i] = Secret(i)
  BY DEF Root
<1> HIDE DEF Root, Secret
<1> QED  BY <1>2, <1>3, <1>4

\* How the places of the two sides fit together.
LEMMA Indices ==
    ASSUME NEW s \in Sides, NEW k \in Nat
    PROVE  /\ Peer(s) \in Sides /\ Peer(Peer(s)) = s /\ Peer(s) # s
           /\ Index(s, k) \in Nat
           /\ Current(s, k) \in Int /\ Current(s, k) >= -1
           /\ Current(s, k + 1) = Current(s, k) + 1
           /\ Index(s, k + 1) = Index(s, k) + 2
           /\ \A g \in Int : /\ Index(Peer(s), g) = Index(s, k) - 1 <=> g = Current(s, k)
                             /\ Index(Peer(s), g) = Index(s, k) + 1 <=> g = Current(s, k) + 1
           /\ \A g \in Nat : Index(s, g) \in Nat /\ Index(Peer(s), g) \in Nat
BY DEF Sides, Peer, Index, Current

LEMMA Secrets ==
    ASSUME NEW s \in Sides, NEW k \in Nat
    PROVE  /\ Secret(Index(s, k) + 1) = {Pub(s, k), Pub(Peer(s), Current(s, k) + 1)}
           /\ Secret(Index(s, k) + 2) = {Pub(s, k + 1), Pub(Peer(s), Current(s, k) + 1)}
<1>1. /\ (2 * k + 1) \div 2 = k /\ (2 * k) \div 2 = k
      /\ (2 * k + 2) \div 2 = k + 1 /\ (2 * k + 3) \div 2 = k + 1
  OBVIOUS
<1>2. /\ Secret(2 * k + 1) = {Pub("initiator", k), Pub("responder", k)}
      /\ Secret(2 * k + 2) = {Pub("initiator", k), Pub("responder", k + 1)}
      /\ Secret(2 * k + 3) = {Pub("initiator", k + 1), Pub("responder", k + 1)}
  <2>1. /\ (2 * k + 1) - 1 = 2 * k /\ (2 * k + 2) - 1 = 2 * k + 1
        /\ (2 * k + 3) - 1 = 2 * k + 2
    OBVIOUS
  <2> QED  BY <1>1, <2>1 DEF Secret
<1> HIDE DEF Secret, Pub
<1>3. CASE s = "initiator"
  <2>1. /\ Index(s, k) + 1 = 2 * k + 2 /\ Index(s, k) + 2 = 2 * k + 3
        /\ Current(s, k) = k /\ Peer(s) = "responder"
    BY <1>3 DEF Index, Current, Peer
  <2> QED  BY <1>2, <1>3, <2>1
<1>4. CASE s = "responder"
  <2>1. /\ Index(s, k) + 1 = 2 * k + 1 /\ Index(s, k) + 2 = 2 * k + 2
        /\ Current(s, k) + 1 = k /\ Peer(s) = "initiator"
    BY <1>4 DEF Index, Current, Peer
  <2> QED  BY <1>2, <1>4, <2>1
<1> QED  BY <1>3, <1>4 DEF Sides

LEMMA SkipAt ==
    ASSUME NEW s \in Sides, NEW r, Good(r), At(s, r), NEW target \in Nat,
           NEW q, q = skipTo(r, target)
    PROVE  At(s, q)
<1> DEFINE k == r.steps
<1>1. k \in Nat /\ r.receiveCount \in Nat
  BY DEF Good, IsRatchet
<1>2. /\ q.rootKey = r.rootKey /\ q.sendKey = r.sendKey
      /\ q.sendChain = r.sendChain /\ q.sendCount = r.sendCount
      /\ q.steps = k /\ q.receiveKey = r.receiveKey
      /\ q.receiveChain.root = r.receiveChain.root
      /\ q.receiveChain.pos = r.receiveChain.pos + (q.receiveCount - r.receiveCount)
      /\ IsRatchet(q)
  BY SkipToKeeps
<1>3. q.receiveChain = [root |-> Root(Index(s, k) - 1), pos |-> q.receiveCount]
  <2>1. q.receiveChain = [root |-> q.receiveChain.root, pos |-> q.receiveChain.pos]
        /\ q.receiveCount \in Nat
    BY <1>2 DEF IsRatchet, Chains
  <2>2. r.receiveChain.root = Root(Index(s, k) - 1) /\ r.receiveChain.pos = r.receiveCount
    BY DEF At
  <2>3. PICK a, b : a = q.receiveCount /\ b = r.receiveCount
    OBVIOUS
  <2>4. q.receiveChain.pos = b + (a - b) /\ a \in Nat /\ b \in Nat
    BY <1>1, <1>2, <2>1, <2>2, <2>3
  <2>5. q.receiveChain.pos = q.receiveCount
    BY <2>3, <2>4
  <2> QED  BY <1>2, <2>1, <2>2, <2>5
<1>4. ASSUME NEW x \in DOMAIN q.skipped
      PROVE  /\ x.pub = Pub(Peer(s), x.pub.gen)
             /\ q.skipped[x] = [root |-> Root(Index(Peer(s), x.pub.gen)), pos |-> x.n]
  <2>1. CASE x \in DOMAIN r.skipped /\ q.skipped[x] = r.skipped[x]
    BY <2>1 DEF At
  <2>2. CASE ~(x \in DOMAIN r.skipped /\ q.skipped[x] = r.skipped[x])
    <3>1. /\ q.skipped[x].root = r.receiveChain.root
          /\ q.skipped[x].pos = r.receiveChain.pos + (x.n - r.receiveCount)
          /\ x.n \in Nat /\ x.pub = r.receiveKey
      <4>1. /\ q.skipped[x].root = r.receiveChain.root
            /\ q.skipped[x].pos = r.receiveChain.pos + (x.n - r.receiveCount)
            /\ x.n \in Nat /\ x = [pub |-> r.receiveKey, n |-> x.n]
        BY <2>2, SkipToKeeps
      <4> QED  BY <4>1
    <3>2. x.pub \in Pubs /\ q.skipped[x] \in Chains
      BY <1>2 DEF IsRatchet, Names
    <3>3. r.receiveKey # NoPub
      BY <3>1, <3>2 DEF NoPub, Pubs, Sides
    <3>4. x.pub = Pub(Peer(s), Current(s, k))
      BY <3>1, <3>3 DEF At
    <3>5. x.pub.gen = Current(s, k)
      BY <3>4 DEF Pub
    <3>6. Current(s, k) \in Int /\ Index(Peer(s), Current(s, k)) = Index(s, k) - 1
      BY <1>1, Indices
    <3>7. r.receiveChain.root = Root(Index(s, k) - 1) /\ r.receiveChain.pos = r.receiveCount
      BY DEF At
    <3>8. q.skipped[x].pos = x.n
      <4>1. PICK a, b : a = x.n /\ b = r.receiveCount
        OBVIOUS
      <4>2. a \in Nat /\ b \in Nat /\ q.skipped[x].pos = b + (a - b)
        BY <1>1, <3>1, <3>7, <4>1
      <4> QED  BY <4>1, <4>2
    <3>9. q.skipped[x] = [root |-> q.skipped[x].root, pos |-> q.skipped[x].pos]
      BY <3>2 DEF Chains
    <3> QED  BY <3>1, <3>4, <3>5, <3>6, <3>7, <3>8, <3>9
  <2> QED  BY <2>1, <2>2
<1> QED  BY <1>2, <1>3, <1>4 DEF At

\* A DH step against the key that follows the current one.
LEMMA StepAt ==
    ASSUME NEW s \in Sides, NEW r, Good(r), At(s, r),
           NEW peer, peer = Pub(Peer(s), Current(s, r.steps) + 1),
           NEW q, q = step(r, peer)
    PROVE  /\ At(s, q)
           /\ q.steps = r.steps + 1 /\ q.receiveKey = peer
           /\ q.receiveCount = 0 /\ q.sendCount = 0 /\ q.previousSent = r.sendCount
           /\ Held(q) = Held(r)
<1> DEFINE k == r.steps
<1>1. k \in Nat /\ r.sendCount \in Nat
  BY DEF Good, IsRatchet
<1>2. PICK fresh, mid, last : /\ fresh = GenerateKey(r)
                              /\ mid = Append(r.rootKey, {r.sendKey, peer})
                              /\ last = Append(mid, {fresh, peer})
  OBVIOUS
<1>3. /\ r.sendKey = Pub(s, k) /\ r.rootKey = Root(Index(s, k))
  BY DEF At
<1>4. fresh = Pub(s, k + 1)
  BY <1>2, <1>3 DEF GenerateKey, Pub
<1>5. /\ Index(s, k) \in Nat /\ Index(s, k + 1) = Index(s, k) + 2
      /\ Current(s, k + 1) = Current(s, k) + 1
      /\ Current(s, k) \in Int /\ Current(s, k) >= -1
  BY <1>1, Indices
<1>6. mid = Root(Index(s, k) + 1)
  <2>1. mid = Append(Root(Index(s, k)), Secret(Index(s, k) + 1))
    BY <1>1, <1>2, <1>3, Secrets
  <2> QED  BY <1>5, <2>1, RootGrows
<1>7. last = Root(Index(s, k) + 2)
  <2>1. last = Append(Root(Index(s, k) + 1), Secret(Index(s, k) + 2))
    BY <1>1, <1>2, <1>4, <1>6, Secrets
  <2>2. PICK i \in Nat : i = Index(s, k) + 1
    BY <1>5
  <2>3. i + 1 = Index(s, k) + 2
    BY <1>5, <2>2
  <2>4. Append(Root(i), Secret(i + 1)) = Root(i + 1)
    BY RootGrows
  <2> QED  BY <2>1, <2>2, <2>3, <2>4
<1>8. q = [rootKey |-> last, sendKey |-> fresh,
           receiveKey |-> peer, sendChain |-> ChainOf(last),
           receiveChain |-> ChainOf(mid), sendCount |-> 0,
           receiveCount |-> 0, previousSent |-> r.sendCount,
           skipped |-> r.skipped, order |-> r.order, steps |-> k + 1,
           evicted |-> r.evicted]
  BY <1>2 DEF step, kdfRootKey, ECDH, Good, Shape
<1>9. /\ q.steps = k + 1 /\ q.receiveKey = peer
      /\ q.receiveCount = 0 /\ q.sendCount = 0 /\ q.previousSent = r.sendCount
      /\ q.skipped = r.skipped /\ q.evicted = r.evicted
      /\ q.rootKey = last /\ q.sendKey = fresh
      /\ q.sendChain = [root |-> last, pos |-> 0]
      /\ q.receiveChain = [root |-> mid, pos |-> 0]
  BY <1>8 DEF ChainOf
<1>10. At(s, q)
  <2>1. /\ q.sendKey = Pub(s, q.steps)
        /\ q.rootKey = Root(Index(s, q.steps))
        /\ q.sendChain = [root |-> Root(Index(s, q.steps)), pos |-> q.sendCount]
        /\ Index(s, q.steps) = 0 => q.sendCount = 0
    BY <1>4, <1>5, <1>7, <1>9
  <2>2. q.receiveChain = [root |-> Root(Index(s, q.steps) - 1), pos |-> q.receiveCount]
    <3>1. Index(s, k + 1) - 1 = Index(s, k) + 1
      BY <1>5
    <3> QED  BY <1>6, <1>9, <3>1
  <2>3. q.receiveKey = IF Current(s, q.steps) < 0 THEN NoPub
                                           ELSE Pub(Peer(s), Current(s, q.steps))
    BY <1>5, <1>9
  <2>4. \A x \in DOMAIN q.skipped :
         /\ x.pub = Pub(Peer(s), x.pub.gen)
         /\ q.skipped[x] = [root |-> Root(Index(Peer(s), x.pub.gen)), pos |-> x.n]
    BY <1>9 DEF At
  <2> QED  BY <2>1, <2>2, <2>3, <2>4 DEF At
<1> QED  BY <1>9, <1>10 DEF Held

\* A header of the chain s is receiving on, or of the one that follows it.
Expected(s, r, h) ==
    /\ h.pub = Pub(Peer(s), h.pub.gen)
    /\ Index(Peer(s), h.pub.gen) > 0
    /\ h.pub.gen - Current(s, r.steps) \in {0, 1}

LEMMA TurnMoves ==
    ASSUME NEW s \in Sides, NEW r, Good(r), At(s, r), NEW h \in Headers,
           Expected(s, r, h), NEW t, t = Turned(r, h)
    PROVE  /\ Good(t) /\ At(s, t)
           /\ t.receiveKey = h.pub /\ t.receiveChain # NoChain
           /\ Current(s, t.steps) = h.pub.gen
           /\ Held(r) \subseteq Held(t)
           /\ h.pub.gen = Current(s, r.steps) => t = r
           /\ h.pub.gen = Current(s, r.steps) + 1 =>
                /\ NewChain(r, h)
                /\ t.steps = r.steps + 1 /\ t.receiveCount = 0
                /\ t.sendCount = 0 /\ t.previousSent = r.sendCount
                /\ \A n \in Nat :
                     r.receiveChain # NoChain /\ r.receiveCount <= n /\ n < h.pn =>
                       [pub |-> r.receiveKey, n |-> n] \in Held(t)
<1>0. PICK k, g, pn : k = r.steps /\ g = h.pub.gen /\ pn = h.pn
  OBVIOUS
<1>1. /\ k \in Nat /\ r.receiveCount \in Nat
      /\ g \in Nat /\ pn \in Nat /\ h.pub \in Pubs
  BY <1>0 DEF Good, IsRatchet, Headers, Pubs
<1>2. /\ Current(s, k) \in Int /\ Index(s, k) \in Nat
      /\ Current(s, k + 1) = Current(s, k) + 1
      /\ Index(Peer(s), g) \in Nat
      /\ g = Current(s, k) => Index(Peer(s), g) = Index(s, k) - 1
  <2>1. /\ Current(s, k) \in Int /\ Index(s, k) \in Nat
        /\ Current(s, k + 1) = Current(s, k) + 1
    BY <1>1, Indices
  <2>2. Index(Peer(s), g) \in Nat
    BY <1>1, Indices
  <2>3. g = Current(s, k) => Index(Peer(s), g) = Index(s, k) - 1
    BY <1>1, <2>1, Indices
  <2> QED  BY <2>1, <2>2, <2>3
<1>3. Index(Peer(s), g) > 0 /\ h.pub = Pub(Peer(s), g)
      /\ (g = Current(s, k) \/ g = Current(s, k) + 1)
  BY <1>0, <1>1, <1>2 DEF Expected
<1>4. Good(t) /\ t.receiveKey = h.pub
  BY TurnedGood
<1>5. CASE g = Current(s, k)
  <2>1. r.receiveKey = h.pub
    BY <1>0, <1>1, <1>3, <1>5 DEF At
  <2>2. t = r
    BY <2>1 DEF Turned, NewChain
  <2>3. r.receiveChain # NoChain
    <3>1. PICK i \in Nat : i = Index(s, k) - 1 /\ i > 0
      BY <1>2, <1>3, <1>5
    <3>2. Len(r.receiveChain.root) = i
      BY <1>0, <3>1, RootGrows DEF At
    <3> QED  BY <3>1, <3>2 DEF NoChain
  <2> QED  BY <1>0, <1>2, <1>4, <1>5, <2>2, <2>3
<1>6. CASE g = Current(s, k) + 1
  <2>1. NewChain(r, h)
    <3>1. Current(s, k) # g /\ NoPub # h.pub
      BY <1>1, <1>2, <1>6 DEF NoPub, Pubs, Sides
    <3>2. Pub(Peer(s), Current(s, k)) # h.pub
      BY <1>3, <3>1 DEF Pub
    <3> QED  BY <1>0, <3>1, <3>2 DEF At, NewChain
  <2>2. PICK v : v = skipTo(r, pn)
    OBVIOUS
  <2>3. /\ Good(v) /\ v.steps = k /\ v.sendCount = r.sendCount
    <3>1. pn \in Nat
      BY <1>1
    <3>2. v.steps = r.steps /\ v.sendCount = r.sendCount
      BY <2>2, <3>1, SkipToGood
    <3>3. Good(v)
      BY <2>2, <3>1, SkipToGood
    <3> QED  BY <1>0, <3>2, <3>3
  <2>4. At(s, v)
    BY <1>1, <2>2, SkipAt
  <2>5. Held(r) \subseteq Held(v)
    <3>1. DOMAIN r.skipped \subseteq Held(v) /\ r.evicted \subseteq v.evicted
      BY <1>1, <2>2, SkipToKeeps DEF Held
    <3> QED  BY <3>1 DEF Held
  <2>6. ASSUME NEW n \in Nat,
               r.receiveChain # NoChain, r.receiveCount <= n, n < pn
        PROVE  [pub |-> r.receiveKey, n |-> n] \in Held(v)
    <3>1. Skips(r, pn)
      BY <1>1, <2>6 DEF Skips
    <3>2. v.receiveCount = pn
      BY <1>1, <2>2, <3>1, SkipToKeeps
    <3>3. [pub |-> r.receiveKey, n |-> n] \in DOMAIN v.skipped \cup v.evicted
      BY <1>1, <2>2, <2>6, <3>2, SkipToKeeps
    <3> QED  BY <3>3 DEF Held
  <2>7. t = step(v, h.pub) /\ h.pub = Pub(Peer(s), Current(s, v.steps) + 1)
    BY <1>0, <1>3, <1>6, <2>1, <2>2, <2>3 DEF Turned
  <2>8. /\ At(s, t) /\ t.steps = v.steps + 1 /\ t.receiveCount = 0
        /\ t.sendCount = 0 /\ t.previousSent = v.sendCount /\ Held(t) = Held(v)
    BY <2>3, <2>4, <2>7, StepAt
  <2>9. Current(s, t.steps) = g
    BY <1>2, <1>6, <2>3, <2>8
  <2>10. t.receiveChain # NoChain
    <3>1. Len(t.receiveChain.root) > 0
      <4>1. Index(s, t.steps) - 1 = Index(s, k) + 1
          <5>1. Index(s, k + 1) = Index(s, k) + 2 /\ Index(s, k) \in Nat
            BY <1>1, Indices
          <5> QED  BY <2>3, <2>8, <5>1
      <4>2. t.receiveChain.root = Root(Index(s, k) + 1)
        BY <2>8, <4>1 DEF At
      <4>3. PICK i \in Nat : i = Index(s, k) + 1 /\ i > 0
        BY <1>2
      <4> QED  BY <4>2, <4>3, RootGrows
    <3> QED  BY <3>1 DEF NoChain
  <2>11. Current(s, k) # g
    BY <1>2, <1>6
  <2> QED  BY <1>0, <1>4, <2>1, <2>3, <2>5, <2>6, <2>8, <2>9, <2>10, <2>11
<1> QED  BY <1>3, <1>5, <1>6

\* A key from the store is the key of the record whose header names it.
LEMMA StoreGives ==
    ASSUME NEW s \in Sides, NEW r, Good(r), At(s, r), NEW h \in Headers,
           FromStore(r, h), NEW q, q = Committed(r, h)
    PROVE  /\ ReceiveError(r, h) = "none"
           /\ ReceiveKey(r, h) = [root |-> Root(Index(Peer(s), h.pub.gen)), pos |-> h.n]
           /\ At(s, q)
           /\ q.steps = r.steps /\ q.sendCount = r.sendCount
           /\ q.previousSent = r.previousSent /\ q.receiveCount = r.receiveCount
           /\ Held(r) \subseteq Held(q) \cup {NameOf(h)}
<1>1. PICK name : name = NameOf(h)
  OBVIOUS
<1>2. /\ name \in DOMAIN r.skipped /\ q = forget(r, name)
      /\ ReceiveKey(r, h) = r.skipped[name] /\ ReceiveError(r, h) = "none"
  BY <1>1 DEF FromStore, ReceiveKey, ReceiveError, Committed, receive
<1>3. ReceiveKey(r, h) = [root |-> Root(Index(Peer(s), h.pub.gen)), pos |-> h.n]
  <2>1. name.pub = h.pub /\ name.n = h.n
    BY <1>1 DEF NameOf
  <2> QED  BY <1>2, <2>1 DEF At
<1>4. PICK order, keys : /\ order = SelectSeq(r.order, LAMBDA k : k # name)
                         /\ keys = [k \in DOMAIN r.skipped \ {name} |-> r.skipped[k]]
  OBVIOUS
<1>5. q = [rootKey |-> r.rootKey, sendKey |-> r.sendKey,
           receiveKey |-> r.receiveKey, sendChain |-> r.sendChain,
           receiveChain |-> r.receiveChain, sendCount |-> r.sendCount,
           receiveCount |-> r.receiveCount, previousSent |-> r.previousSent,
           skipped |-> keys, order |-> order, steps |-> r.steps,
           evicted |-> r.evicted]
  BY <1>2, <1>4 DEF forget, Good, Shape
<1>6. /\ q.rootKey = r.rootKey /\ q.sendKey = r.sendKey
      /\ q.receiveKey = r.receiveKey /\ q.sendChain = r.sendChain
      /\ q.receiveChain = r.receiveChain /\ q.sendCount = r.sendCount
      /\ q.receiveCount = r.receiveCount /\ q.previousSent = r.previousSent
      /\ q.skipped = keys /\ q.steps = r.steps /\ q.evicted = r.evicted
  BY <1>5
<1>7. /\ DOMAIN keys = DOMAIN r.skipped \ {name}
      /\ \A k \in DOMAIN keys : keys[k] = r.skipped[k]
  BY <1>4
<1>8. At(s, q)
  <2>1. \A x \in DOMAIN keys :
         /\ x.pub = Pub(Peer(s), x.pub.gen)
         /\ keys[x] = [root |-> Root(Index(Peer(s), x.pub.gen)), pos |-> x.n]
    BY <1>7 DEF At
  <2> QED  BY <1>6, <2>1 DEF At
<1>9. Held(r) \subseteq Held(q) \cup {name}
  BY <1>6, <1>7 DEF Held
<1> QED  BY <1>1, <1>2, <1>3, <1>6, <1>8, <1>9

\* On the current chain an error-free header is not behind the counter.
LEMMA NotStale ==
    ASSUME NEW s \in Sides, NEW r, Good(r), At(s, r), NEW h \in Headers,
           Expected(s, r, h), ~FromStore(r, h), ReceiveError(r, h) = "none",
           h.pub.gen = Current(s, r.steps)
    PROVE  r.receiveCount <= h.n
<1>1. Turned(r, h) = r
  BY TurnMoves
<1>2. ~(h.n < r.receiveCount)
  BY <1>1 DEF ReceiveError
<1> QED  BY <1>2 DEF Good, IsRatchet, Headers

\* A header that is resolved on a chain gives the key of its record; what the
\* counter moves over is held, and s is where the record came from.
LEMMA ChainGives ==
    ASSUME NEW s \in Sides, NEW r, Good(r), At(s, r), NEW h \in Headers,
           Expected(s, r, h), ~FromStore(r, h),
           h.pub.gen = Current(s, r.steps) => r.receiveCount <= h.n,
           h.n # MaxCount, NEW q, q = Committed(r, h)
    PROVE  /\ ReceiveError(r, h) \in {"none", "ErrSkipTooLarge"}
           /\ ReceiveKey(r, h) = [root |-> Root(Index(Peer(s), h.pub.gen)), pos |-> h.n]
           /\ At(s, q) /\ Current(s, q.steps) = h.pub.gen
           /\ q.receiveCount = h.n + 1
           /\ Held(r) \subseteq Held(q)
           /\ \/ /\ h.pub.gen = Current(s, r.steps)
                 /\ q.steps = r.steps /\ q.sendCount = r.sendCount
                 /\ q.previousSent = r.previousSent
                 /\ \A n \in Nat : r.receiveCount <= n /\ n < h.n =>
                      [pub |-> h.pub, n |-> n] \in Held(q)
              \/ /\ h.pub.gen = Current(s, r.steps) + 1
                 /\ q.steps = r.steps + 1 /\ q.sendCount = 0
                 /\ q.previousSent = r.sendCount
                 /\ \A n \in Nat : n < h.n => [pub |-> h.pub, n |-> n] \in Held(q)
                 /\ \A n \in Nat :
                      r.receiveChain # NoChain /\ r.receiveCount <= n /\ n < h.pn =>
                        [pub |-> r.receiveKey, n |-> n] \in Held(q)
<1>1. PICK t, g, c : t = Turned(r, h) /\ g = h.pub.gen /\ c = Current(s, r.steps)
  OBVIOUS
<1>2. /\ g \in Nat /\ h.n \in Nat /\ r.receiveCount \in Nat /\ r.steps \in Nat /\ c \in Int
  <2>1. /\ g \in Nat /\ h.n \in Nat /\ r.receiveCount \in Nat /\ r.steps \in Nat
    BY <1>1 DEF Good, IsRatchet, Headers, Pubs
  <2> QED  BY <1>1, <2>1 DEF Current
<1>3. g = c \/ g = c + 1
  BY <1>1, <1>2 DEF Expected
<1>4. /\ Good(t) /\ At(s, t)
      /\ t.receiveKey = h.pub /\ t.receiveChain # NoChain
      /\ Current(s, t.steps) = g /\ Held(r) \subseteq Held(t)
  BY <1>1, TurnMoves
<1>5. g = c => t = r
  <2>1. t = Turned(r, h)
    BY <1>1
  <2>2. h.pub.gen = Current(s, r.steps) => t = r
    BY <2>1, TurnMoves
  <2> QED  BY <1>1, <2>2
<1>6. g = c + 1 =>
        /\ t.steps = r.steps + 1 /\ t.receiveCount = 0
        /\ t.sendCount = 0 /\ t.previousSent = r.sendCount
        /\ \A n \in Nat :
             r.receiveChain # NoChain /\ r.receiveCount <= n /\ n < h.pn =>
               [pub |-> r.receiveKey, n |-> n] \in Held(t)
  <2>1. t = Turned(r, h)
    BY <1>1
  <2>2. h.pub.gen = Current(s, r.steps) + 1 =>
          /\ t.steps = r.steps + 1 /\ t.receiveCount = 0
          /\ t.sendCount = 0 /\ t.previousSent = r.sendCount
          /\ \A n \in Nat :
               r.receiveChain # NoChain /\ r.receiveCount <= n /\ n < h.pn =>
                 [pub |-> r.receiveKey, n |-> n] \in Held(t)
    BY <2>1, TurnMoves
  <2> QED  BY <1>1, <2>2
<1>7. t.receiveCount \in Nat /\ t.receiveCount <= h.n /\ t.steps \in Nat
  <2>1. t.receiveCount \in Nat /\ t.steps \in Nat
    BY <1>4 DEF Good, IsRatchet
  <2> QED  BY <1>1, <1>2, <1>3, <1>5, <1>6, <2>1
<1>8. PICK m \in Nat : m = h.n
  BY <1>2
<1>9. PICK u : u = skipTo(t, m)
  OBVIOUS
<1>10. ReceiveError(r, h) \in {"none", "ErrSkipTooLarge"}
  BY <1>1, <1>2, <1>7 DEF ReceiveError
<1>11. Good(u) /\ At(s, u)
  BY <1>4, <1>9, SkipToGood, SkipAt
<1>12. u.steps = t.steps /\ u.sendCount = t.sendCount /\ u.previousSent = t.previousSent
  BY <1>4, <1>9, SkipToKeeps
<1>13. u.receiveCount = m
  <2>1. u.receiveCount = IF Skips(t, m) THEN m ELSE t.receiveCount
    BY <1>4, <1>9, SkipToKeeps
  <2>2. Skips(t, m) \/ t.receiveCount = m
    BY <1>4, <1>7, <1>8 DEF Skips
  <2> QED  BY <2>1, <2>2
<1>14. Held(t) \subseteq Held(u)
  <2>1. DOMAIN t.skipped \subseteq Held(u) /\ t.evicted \subseteq u.evicted
    BY <1>4, <1>9, SkipToKeeps DEF Held
  <2> QED  BY <2>1 DEF Held
<1>15. \A n \in Nat : t.receiveCount <= n /\ n < m => [pub |-> h.pub, n |-> n] \in Held(u)
  <2>1. \A n \in Nat : t.receiveCount <= n /\ n < u.receiveCount =>
          [pub |-> t.receiveKey, n |-> n] \in DOMAIN u.skipped \cup u.evicted
    BY <1>4, <1>9, SkipToKeeps
  <2> QED  BY <1>4, <1>13, <2>1 DEF Held
<1>16. u.receiveChain = [root |-> Root(Index(Peer(s), g)), pos |-> m]
  <2>1. u.receiveChain = [root |-> Root(Index(s, u.steps) - 1), pos |-> m]
    BY <1>11, <1>13 DEF At
  <2>2. Index(Peer(s), g) = Index(s, t.steps) - 1
    BY <1>2, <1>4, <1>7, Indices
  <2> QED  BY <1>12, <2>1, <2>2
<1>17. ReceiveKey(r, h) = u.receiveChain
  BY <1>1, <1>8, <1>9 DEF ReceiveKey
<1>18. PICK b, d : b = [root |-> u.receiveChain.root, pos |-> m + 1] /\ d = m + 1
  OBVIOUS
<1>19. q = [u EXCEPT !.receiveChain = b, !.receiveCount = d]
  <2>1. q = [u EXCEPT !.receiveChain = Advance(@, 1), !.receiveCount = Increment(@)]
    BY <1>1, <1>8, <1>9 DEF Committed, receive
  <2>2. Advance(u.receiveChain, 1) = b
    BY <1>16, <1>18 DEF Advance
  <2>3. Shape(u)
    BY <1>11 DEF Good
  <2>4. Increment(u.receiveCount) = d
    BY <1>8, <1>13, <1>18 DEF Increment
  <2> QED  BY <1>18, <2>1, <2>2, <2>3, <2>4 DEF Shape
<1>20. /\ q.rootKey = u.rootKey /\ q.sendKey = u.sendKey
       /\ q.sendChain = u.sendChain /\ q.sendCount = u.sendCount
       /\ q.previousSent = u.previousSent /\ q.receiveKey = u.receiveKey
       /\ q.steps = u.steps /\ q.skipped = u.skipped /\ q.evicted = u.evicted
       /\ q.receiveChain = b /\ q.receiveCount = d
  <2>1. Shape(u)
    BY <1>11 DEF Good
  <2> QED  BY <1>19, <2>1 DEF Shape
<1>21. At(s, q)
  <2>1. q.receiveChain = [root |-> Root(Index(s, q.steps) - 1), pos |-> q.receiveCount]
    BY <1>11, <1>18, <1>20 DEF At
  <2> QED  BY <1>11, <1>20, <2>1 DEF At
<1>22. Held(q) = Held(u)
  BY <1>20 DEF Held
<1>23. \/ /\ g = c
          /\ q.steps = r.steps /\ q.sendCount = r.sendCount
          /\ q.previousSent = r.previousSent
          /\ \A n \in Nat : r.receiveCount <= n /\ n < m =>
               [pub |-> h.pub, n |-> n] \in Held(q)
       \/ /\ g = c + 1
          /\ q.steps = r.steps + 1 /\ q.sendCount = 0
          /\ q.previousSent = r.sendCount
          /\ \A n \in Nat : n < m => [pub |-> h.pub, n |-> n] \in Held(q)
          /\ \A n \in Nat :
               r.receiveChain # NoChain /\ r.receiveCount <= n /\ n < h.pn =>
                 [pub |-> r.receiveKey, n |-> n] \in Held(q)
  <2>1. CASE g = c
    BY <1>5, <1>12, <1>15, <1>20, <1>22, <2>1
  <2>2. CASE g = c + 1
    <3>1. \A n \in Nat : 0 <= n
      OBVIOUS
    <3>2. \A n \in Nat : n < m => [pub |-> h.pub, n |-> n] \in Held(q)
      BY <1>6, <1>15, <1>22, <2>2, <3>1
    <3> QED  BY <1>6, <1>12, <1>14, <1>20, <1>22, <2>2, <3>2
  <2> QED  BY <1>3, <2>1, <2>2
<1>24. Held(r) \subseteq Held(q)
  BY <1>4, <1>14, <1>22
<1>25. ReceiveKey(r, h) = [root |-> Root(Index(Peer(s), h.pub.gen)), pos |-> h.n]
  BY <1>1, <1>8, <1>16, <1>17
<1>26. Current(s, q.steps) = h.pub.gen /\ q.receiveCount = h.n + 1
  BY <1>1, <1>4, <1>8, <1>12, <1>18, <1>20
<1> QED  BY <1>1, <1>8, <1>10, <1>21, <1>23, <1>24, <1>25, <1>26

-----------------------------------------------------------------------------
\* The peer's DH steps are those of the key s receives from, or one more.
LEMMA Apart ==
    ASSUME TypeOK, InTurn, NEW s \in Sides
    PROVE  /\ ratchet[s].steps \in Nat /\ ratchet[Peer(s)].steps \in Nat
           /\ ratchet[Peer(s)].steps - Current(s, ratchet[s].steps) \in {0, 1}
<1>1. PICK i, j : i = ratchet["initiator"].steps /\ j = ratchet["responder"].steps
  OBVIOUS
<1>2. i \in Nat /\ j \in Nat /\ j - i \in {0, 1}
  BY <1>1 DEF TypeOK, IsRatchet, InTurn, Sides
<1>3. j - i \in {0, 1} /\ i - (j - 1) \in {0, 1}
  BY <1>2
<1> QED  BY <1>1, <1>2, <1>3 DEF Sides, Peer, Current

LEMMA SameName ==
    ASSUME Inv, NEW s \in Sides, Genuine(s), NEW a \in sent[s], NEW b \in sent[s],
           NameOf(a.hdr) = NameOf(b.hdr)
    PROVE  a = b
<1>1. a.hdr.pub = b.hdr.pub /\ a.hdr.n = b.hdr.n
  BY DEF NameOf
<1>2. a.key = b.key
  BY <1>1 DEF Genuine, Truthful
<1> QED  BY <1>2 DEF Inv

LEMMA DamageShows ==
    ASSUME NEW x \in Records, x.ad = x.hdr, x.hdr.pub.owner \in Sides,
           NEW y \in Damaged(x)
    PROVE  y.hdr # y.ad
<1>0. \A n \in Nat : Increment(n) # n
  BY LimitsAssumption DEF Increment
<1>1. x = [hdr |-> x.hdr, key |-> x.key, ad |-> x.hdr, text |-> x.text]
      /\ x.hdr \in Headers
  BY DEF Records
<1>2. x.hdr = [pub |-> x.hdr.pub, pn |-> x.hdr.pn, n |-> x.hdr.n]
      /\ x.hdr.n \in Nat /\ x.hdr.pn \in Nat
  BY <1>1 DEF Headers
<1>3. CASE y = [x EXCEPT !.hdr.n = Increment(@)]
  <2>1. y.ad = x.hdr /\ y.hdr.n = Increment(x.hdr.n)
    BY <1>1, <1>2, <1>3
  <2> QED  BY <1>0, <1>2, <2>1
<1>4. CASE y = [x EXCEPT !.hdr.pn = Increment(@)]
  <2>1. y.ad = x.hdr /\ y.hdr.pn = Increment(x.hdr.pn)
    BY <1>1, <1>2, <1>4
  <2> QED  BY <1>0, <1>2, <2>1
<1>5. CASE y = [x EXCEPT !.hdr.pub = [owner |-> "stranger", gen |-> 0]]
  <2>1. y.ad = x.hdr /\ y.hdr.pub.owner = "stranger"
    BY <1>1, <1>2, <1>5
  <2> QED  BY <2>1 DEF Sides
<1> QED  BY <1>3, <1>4, <1>5 DEF Damaged

\* A key resolved after a turn has one secret more than the root before it.
LEMMA TurnLength ==
    ASSUME NEW r, Good(r), NEW h \in Headers, NewChain(r, h), ~FromStore(r, h)
    PROVE  Len(ReceiveKey(r, h).root) = Len(r.rootKey) + 1
<1>1. PICK pn \in Nat, n \in Nat : pn = h.pn /\ n = h.n
  BY DEF Headers
<1>2. PICK v : v = skipTo(r, pn)
  OBVIOUS
<1>3. v.rootKey = r.rootKey /\ Good(v)
  BY <1>2, SkipToGood
<1>4. PICK mid : mid = Append(v.rootKey, {v.sendKey, h.pub})
  OBVIOUS
<1>5. PICK t : t = step(v, h.pub)
  OBVIOUS
<1>6. t.receiveChain.root = mid
  BY <1>3, <1>4, <1>5 DEF step, kdfRootKey, ECDH, ChainOf, Good, Shape
<1>7. Good(t)
  <2>1. h.pub \in Pubs
    BY DEF Headers
  <2> QED  BY <1>3, <1>5, <2>1, StepGood
<1>8. PICK u : u = skipTo(t, n)
  OBVIOUS
<1>9. u.receiveChain.root = mid
  <2>1. u.receiveChain.root = t.receiveChain.root
    BY <1>7, <1>8, SkipToKeeps
  <2> QED  BY <1>6, <2>1
<1>10. ReceiveKey(r, h) = u.receiveChain
  BY <1>1, <1>2, <1>5, <1>8 DEF ReceiveKey, Turned
<1>11. Len(mid) = Len(r.rootKey) + 1
  <2>1. r.rootKey \in Seq(SUBSET Pubs)
    BY DEF Good, IsRatchet
  <2> QED  BY <1>3, <1>4, <2>1
<1> QED  BY <1>9, <1>10, <1>11

\* What opens is a record of the peer, undamaged, of the current chain or the
\* next one unless its key was stored.
LEMMA OpenedFrom ==
    ASSUME Inv, Agreement, NEW s \in Sides, NEW rec \in Arrivals(s),
           ~closed[s], Opens(ratchet[s], rec)
    PROVE  /\ rec \in sent[Peer(s)]
           /\ FromStore(ratchet[s], rec.hdr) \/ Expected(s, ratchet[s], rec.hdr)
<1>1. PICK r, p, h : r = ratchet[s] /\ p = Peer(s) /\ h = rec.hdr
  OBVIOUS
<1>2. p \in Sides
  BY <1>1 DEF Peer, Sides
<1>3. \A x \in sent[p] : x \in Records /\ Truthful(p, ratchet[p], x)
  BY <1>2 DEF Inv, TypeOK, Agreement, Genuine
<1>4. rec \in sent[p]
  <2>1. ASSUME NEW x \in sent[p], rec \in Damaged(x)
        PROVE  FALSE
    <3>1. x.ad = x.hdr /\ x.hdr.pub.owner \in Sides /\ x \in Records
      <4>1. x.hdr.pub = Pub(p, x.hdr.pub.gen) /\ x.ad = x.hdr
        BY <1>3 DEF Truthful
      <4> QED  BY <1>2, <1>3, <4>1 DEF Pub
    <3>2. rec.hdr # rec.ad
      BY <2>1, <3>1, DamageShows
    <3> QED  BY <3>2 DEF Opens
  <2> QED  BY <1>1, <2>1 DEF Arrivals
<1>5. /\ h.pub = Pub(p, h.pub.gen) /\ Index(p, h.pub.gen) > 0
      /\ rec.key = [root |-> Root(Index(p, h.pub.gen)), pos |-> h.n]
      /\ h \in Headers
  BY <1>1, <1>3, <1>4 DEF Truthful, Records
<1>6. Good(r) /\ At(s, r)
  BY <1>1, OpenIsGood DEF Agreement, Placed
<1>7. PICK g, k : g = h.pub.gen /\ k = r.steps
  OBVIOUS
<1>8. g \in Nat /\ k \in Nat
  BY <1>5, <1>6, <1>7 DEF Good, IsRatchet, Headers, Pubs
<1>9. Current(s, k) \in Int /\ Index(s, k) \in Nat /\ Index(p, g) \in Nat
  BY <1>1, <1>8, Indices
<1>10. ASSUME ~FromStore(r, h), ~NewChain(r, h)
       PROVE  g = Current(s, k)
  <2>1. r.receiveKey = Pub(p, g)
    BY <1>5, <1>7, <1>10 DEF NewChain
  <2>2. Pub(p, g) # NoPub
    BY <1>2 DEF Pub, NoPub, Sides
  <2>3. Pub(p, g) = Pub(p, Current(s, k))
    BY <1>1, <1>6, <1>7, <2>1, <2>2 DEF At
  <2> QED  BY <2>3 DEF Pub
<1>11. ASSUME ~FromStore(r, h), NewChain(r, h)
       PROVE  g = Current(s, k) + 1
  <2>1. Len(ReceiveKey(r, h).root) = Len(r.rootKey) + 1
    BY <1>5, <1>6, <1>11, TurnLength
  <2>2. ReceiveKey(r, h).root = Root(Index(p, g))
    BY <1>1, <1>5, <1>7 DEF Opens
  <2>3. Len(Root(Index(p, g))) = Index(p, g)
    BY <1>9, RootGrows
  <2>4. Len(r.rootKey) = Index(s, k)
    BY <1>6, <1>7, <1>9, RootGrows DEF At
  <2>5. Index(p, g) = Index(s, k) + 1
    BY <2>1, <2>2, <2>3, <2>4
  <2>6. Index(Peer(s), g) = Index(s, k) + 1 <=> g = Current(s, k) + 1
    BY <1>8, Indices
  <2> QED  BY <1>1, <2>5, <2>6
<1>12. FromStore(r, h) \/ Expected(s, r, h)
  <2>1. ASSUME ~FromStore(r, h)
        PROVE  g - Current(s, k) \in {0, 1}
    BY <1>8, <1>9, <1>10, <1>11, <2>1
  <2> QED  BY <1>1, <1>5, <1>7, <2>1 DEF Expected
<1> QED  BY <1>1, <1>4, <1>12

-----------------------------------------------------------------------------
LEMMA InitAgrees == Init => Agreement
<1> SUFFICES ASSUME Init PROVE Agreement
  OBVIOUS
<1>1. /\ \A s \in Sides : sent[s] = {} /\ opened[s] = {}
      /\ ratchet["initiator"] = newRatchetInitiator
      /\ ratchet["responder"] = newRatchetResponder
  BY DEF Init, Sides
<1>2. Root(0) = << >> /\ Root(-1) = << >> /\ Root(1) = Append(<< >>, Secret(1))
  <2>1. Root(0) = << >> /\ Root(-1) = << >>
    BY DEF Root
  <2>2. Append(Root(0), Secret(1)) = Root(1)
    <3>1. Append(Root(0), Secret(0 + 1)) = Root(0 + 1)
      BY RootGrows
    <3>2. 0 + 1 = 1
      OBVIOUS
    <3> QED  BY <3>1, <3>2
  <2> HIDE DEF Root, Secret
  <2> QED  BY <2>1, <2>2
<1>3. Secret(1) = {InitiatorEphemeral, ResponderEphemeral}
  <2>1. (1 - 1) \div 2 = 0 /\ 1 \div 2 = 0
    OBVIOUS
  <2> QED  BY <2>1 DEF Secret, Pub, InitiatorEphemeral, ResponderEphemeral
<1>4. At("initiator", newRatchetInitiator)
  <2>1. Index("initiator", 0) = 1 /\ Current("initiator", 0) = 0
    BY DEF Index, Current
  <2>2. DOMAIN NoKeys = {}
    BY DEF NoKeys
  <2> HIDE DEF Root, Secret, Index, Current
  <2> QED  BY <1>2, <1>3, <2>1, <2>2
           DEF At, newRatchetInitiator, kdfRootKey, ECDH, ChainOf, NoChain, Pub,
               Peer, InitiatorEphemeral, ResponderEphemeral
<1>5. At("responder", newRatchetResponder)
  <2>1. Index("responder", 0) = 0 /\ Current("responder", 0) = -1
    BY DEF Index, Current
  <2>2. DOMAIN NoKeys = {}
    BY DEF NoKeys
  <2> HIDE DEF Root, Secret, Index, Current
  <2> QED  BY <1>2, <2>1, <2>2
           DEF At, newRatchetResponder, NoChain, Pub, ResponderEphemeral
<1>6. \A s \in Sides : Placed(s)
  <2>1. Placed("initiator")
    BY <1>1, <1>4 DEF Placed, At
  <2>2. Placed("responder")
    BY <1>1, <1>5 DEF Placed, At
  <2> QED  BY <2>1, <2>2 DEF Sides
<1>7. InTurn
  BY <1>1 DEF InTurn, newRatchetInitiator, newRatchetResponder, Sides, Peer
<1>8. \A s \in Sides : Genuine(s) /\ Accounted(s)
  <2>1. \A s \in Sides : Peer(s) \in Sides
    BY DEF Peer, Sides
  <2> QED  BY <1>1, <2>1 DEF Genuine, Accounted
<1> QED  BY <1>6, <1>7, <1>8 DEF Agreement

\* The new record is the first of its place, so its receiver is not past it.
LEMMA EncryptAgrees ==
    ASSUME Inv, Agreement, NEW s \in Sides, Encrypt(s)
    PROVE  Agreement'
<1>1. PICK r, q, p : r = ratchet[s] /\ q = next(r) /\ p = Peer(s)
  OBVIOUS
<1>2. PICK rec : rec = Record(NextHeader(r), r.sendChain, written[s])
  OBVIOUS
<1>3. /\ ~closed[s] /\ canSend(r) /\ r.sendCount # MaxCount
      /\ sent' = [sent EXCEPT ![s] = @ \cup {rec}]
      /\ ratchet' = [ratchet EXCEPT ![s] = q]
      /\ closed' = closed /\ opened' = opened
  BY <1>1, <1>2 DEF Encrypt, CanNext
<1>4. /\ ratchet'[s] = q /\ sent'[s] = sent[s] \cup {rec}
      /\ \A t \in Sides \ {s} : ratchet'[t] = ratchet[t] /\ sent'[t] = sent[t]
  BY <1>3 DEF Inv, TypeOK
<1>5. p \in Sides \ {s} /\ Peer(p) = s /\ \A t \in Sides : t = s \/ t = p
  BY <1>1 DEF Sides, Peer
<1>6. Good(r) /\ At(s, r)
  BY <1>1, <1>3, OpenIsGood DEF Agreement, Placed
<1>7. /\ r.sendCount \in Nat /\ r.steps \in Nat /\ r.previousSent \in Nat
      /\ r.sendChain.pos \in Nat
  BY <1>6 DEF Good, IsRatchet, Chains
<1>8. PICK c, d : /\ c = [root |-> r.sendChain.root, pos |-> r.sendChain.pos + 1]
                  /\ d = r.sendCount + 1
  OBVIOUS
<1>9. q = [r EXCEPT !.sendChain = c, !.sendCount = d]
  <2>1. r.sendChain = [root |-> r.sendChain.root, pos |-> r.sendChain.pos]
    BY <1>6 DEF Good, IsRatchet, Chains
  <2>2. Advance(r.sendChain, 1) = c
    BY <1>8, <2>1 DEF Advance
  <2>3. Shape(r)
    BY <1>6 DEF Good
  <2>4. Increment(r.sendCount) = d
    BY <1>3, <1>8 DEF Increment
  <2> QED  BY <1>1, <2>2, <2>3, <2>4 DEF next, Shape
<1>10. /\ q.rootKey = r.rootKey /\ q.sendKey = r.sendKey
       /\ q.sendChain = c /\ q.sendCount = d
       /\ q.previousSent = r.previousSent /\ q.receiveKey = r.receiveKey
       /\ q.receiveChain = r.receiveChain /\ q.receiveCount = r.receiveCount
       /\ q.steps = r.steps /\ q.skipped = r.skipped /\ q.evicted = r.evicted
  <2>1. Shape(r)
    BY <1>6 DEF Good
  <2> QED  BY <1>9, <2>1 DEF Shape
<1>11. Index(s, r.steps) \in Nat /\ Index(s, r.steps) # 0
  <2>1. Index(s, r.steps) \in Nat
    BY <1>7, Indices
  <2>2. ASSUME Index(s, r.steps) = 0
        PROVE  FALSE
    <3>1. Root(0) = << >>
      BY DEF Root
    <3>2. r.sendChain = [root |-> << >>, pos |-> 0]
      BY <1>6, <2>2, <3>1 DEF At
    <3> QED  BY <1>3, <3>2 DEF canSend, NoChain
  <2> QED  BY <2>1, <2>2
<1>12. At(s, q)
  <2>1. q.sendChain = [root |-> Root(Index(s, r.steps)), pos |-> d]
    BY <1>6, <1>8, <1>10 DEF At
  <2> QED  BY <1>6, <1>10, <1>11, <2>1 DEF At
<1>13. \A t \in Sides : Placed(t)'
  <2>1. Placed(s)'
    BY <1>4, <1>12 DEF Placed, At
  <2>2. Placed(p)'
    BY <1>3, <1>4, <1>5 DEF Agreement, Placed, At
  <2> QED  BY <1>5, <2>1, <2>2
<1>14. InTurn'
  <2>1. \A t \in Sides : /\ ratchet'[t].steps = ratchet[t].steps
                         /\ ratchet'[t].receiveCount = ratchet[t].receiveCount
                         /\ ratchet'[t].receiveCount \in Nat
                         /\ ratchet[t].sendCount \in Nat
                         /\ ratchet'[t].sendCount \in {ratchet[t].sendCount, ratchet[t].sendCount + 1}
    BY <1>1, <1>4, <1>5, <1>8, <1>10 DEF Inv, TypeOK, IsRatchet
  <2>2. ratchet'["responder"].steps - ratchet'["initiator"].steps \in {0, 1}
    BY <2>1 DEF Agreement, InTurn, Sides
  <2>3. ASSUME NEW t \in Sides, Current(t, ratchet'[t].steps) = ratchet'[Peer(t)].steps
        PROVE  ratchet'[t].receiveCount <= ratchet'[Peer(t)].sendCount
    <3>1. Peer(t) \in Sides
      BY DEF Peer, Sides
    <3>2. ratchet[t].receiveCount <= ratchet[Peer(t)].sendCount
      BY <2>1, <2>3, <3>1 DEF Agreement, InTurn
    <3> QED  BY <2>1, <3>1, <3>2
  <2> QED  BY <2>2, <2>3 DEF InTurn, Current, Peer
<1>15. PICK k, n : k = r.steps /\ n = r.sendCount
  OBVIOUS
<1>16. /\ rec.hdr.pub = Pub(s, k) /\ rec.hdr.pub.gen = k
       /\ rec.hdr.n = n /\ rec.hdr.pn = r.previousSent
       /\ rec.ad = rec.hdr
       /\ rec.key = [root |-> Root(Index(s, k)), pos |-> n]
       /\ k \in Nat /\ n \in Nat /\ d = n + 1
  BY <1>2, <1>6, <1>7, <1>8, <1>15 DEF Record, NextHeader, At, Pub
<1>17. \A old \in sent[s] : /\ Truthful(s, r, old)
                            /\ old.hdr.pub.gen \in Nat /\ old.hdr.n \in Nat
  BY <1>1 DEF Agreement, Genuine, Inv, TypeOK, Records, Headers, Pubs
<1>18. Truthful(s, q, rec)
  BY <1>3, <1>10, <1>11, <1>15, <1>16 DEF Truthful
<1>19. \A old \in sent[s] : Truthful(s, q, old)
  <2> SUFFICES ASSUME NEW old \in sent[s]
               PROVE  Truthful(s, q, old)
    OBVIOUS
  <2>1. old.hdr.pub.gen = q.steps => old.hdr.n < q.sendCount
    <3>1. old.hdr.pub.gen = r.steps => old.hdr.n < r.sendCount
      BY <1>17 DEF Truthful
    <3>2. PICK a, b : a = old.hdr.n /\ b = r.sendCount
      OBVIOUS
    <3>3. a \in Nat /\ b \in Nat /\ (a < b => a < b + 1)
      BY <1>7, <1>17, <3>2
    <3> QED  BY <1>8, <1>10, <3>1, <3>2, <3>3
  <2> QED  BY <1>10, <1>17, <2>1 DEF Truthful
<1>20. \A old \in sent[s] : Follows(old, rec) /\ Follows(rec, old)
  <2> SUFFICES ASSUME NEW old \in sent[s]
               PROVE  Follows(old, rec) /\ Follows(rec, old)
    OBVIOUS
  <2>1. Follows(old, rec)
    BY <1>15, <1>16, <1>17 DEF Follows, Truthful
  <2>2. ~(rec.hdr.pub.gen = old.hdr.pub.gen - 1)
    <3>1. PICK g : g = old.hdr.pub.gen
      OBVIOUS
    <3>2. g \in Nat /\ g <= k
      BY <1>15, <1>17, <3>1 DEF Truthful
    <3>3. ~(k = g - 1)
      BY <1>16, <3>2
    <3> QED  BY <1>16, <3>1, <3>3
  <2> QED  BY <2>1, <2>2 DEF Follows
<1>21. Follows(rec, rec)
  BY <1>16 DEF Follows
<1>22. \A t \in Sides : Genuine(t)'
  <2>1. Genuine(s)'
    <3>1. \A a, b \in sent[s] : Follows(a, b)
      BY DEF Agreement, Genuine
    <3>2. \A a \in sent'[s] : Truthful(s, ratchet'[s], a)
      BY <1>4, <1>18, <1>19
    <3>3. \A a, b \in sent'[s] : Follows(a, b)
      BY <1>4, <1>20, <1>21, <3>1
    <3> QED  BY <3>2, <3>3 DEF Genuine
  <2>2. Genuine(p)'
    BY <1>4, <1>5 DEF Agreement, Genuine
  <2> QED  BY <1>5, <2>1, <2>2
<1>23. \A t \in Sides : Accounted(t)'
  <2>1. Accounted(s)'
    <3>1. Accounted(s)
      BY DEF Agreement
    <3>2. sent'[Peer(s)] = sent[Peer(s)]
      BY <1>1, <1>4, <1>5
    <3>3. \A h : Passed(s, q, h) <=> Passed(s, r, h)
      BY <1>10 DEF Passed
    <3>4. Held(q) = Held(r)
      BY <1>10 DEF Held
    <3> QED  BY <1>1, <1>3, <1>4, <3>1, <3>2, <3>3, <3>4 DEF Accounted
  <2>2. ~Passed(p, ratchet[p], rec.hdr)
    <3>1. PICK l : l = ratchet[p].steps
      OBVIOUS
    <3>2. k - Current(p, l) \in {0, 1} /\ l \in Nat
      BY <1>1, <1>5, <1>15, <3>1, Apart DEF Inv, Agreement
    <3>3. Current(p, l) \in Int
      BY <3>2 DEF Current
    <3>4. Current(p, l) = k => ratchet[p].receiveCount <= n
      BY <1>1, <1>5, <1>15, <3>1 DEF Agreement, InTurn
    <3>5. ratchet[p].receiveCount \in Nat
      BY <1>5 DEF Inv, TypeOK, IsRatchet
    <3> QED  BY <1>16, <3>1, <3>2, <3>3, <3>4, <3>5 DEF Passed
  <2>3. Accounted(p)'
    <3>1. Accounted(p)
      BY <1>5 DEF Agreement
    <3>2. /\ sent'[Peer(p)] = sent[Peer(p)] \cup {rec}
          /\ ratchet'[p] = ratchet[p] /\ closed'[p] = closed[p] /\ opened'[p] = opened[p]
      BY <1>3, <1>4, <1>5
    <3> QED  BY <2>2, <3>1, <3>2 DEF Accounted
  <2> QED  BY <1>5, <2>1, <2>3
<1> QED  BY <1>13, <1>14, <1>22, <1>23 DEF Agreement

LEMMA CloseAgrees ==
    ASSUME Inv, Agreement, NEW s \in Sides, Close(s)
    PROVE  Agreement'
<1>1. PICK r, q, p : r = ratchet[s] /\ q = destroy(r) /\ p = Peer(s)
  OBVIOUS
<1>2. /\ closed' = [closed EXCEPT ![s] = TRUE]
      /\ ratchet' = [ratchet EXCEPT ![s] = q]
      /\ sent' = sent /\ opened' = opened
  BY <1>1 DEF Close
<1>3. /\ ratchet'[s] = q /\ closed'[s] = TRUE
      /\ \A t \in Sides \ {s} : ratchet'[t] = ratchet[t] /\ closed'[t] = closed[t]
  BY <1>2 DEF Inv, TypeOK
<1>4. p \in Sides \ {s} /\ Peer(p) = s /\ \A t \in Sides : t = s \/ t = p
  BY <1>1 DEF Sides, Peer
<1>5. /\ q.sendKey = r.sendKey /\ q.steps = r.steps
      /\ q.sendCount = r.sendCount /\ q.receiveCount = r.receiveCount
      /\ q.previousSent = r.previousSent
  <2>1. Shape(r)
    BY <1>1 DEF Inv
  <2> QED  BY <1>1, <2>1 DEF destroy, Shape
<1>6. \A t \in Sides : Placed(t)'
  <2>1. Placed(s)'
    BY <1>1, <1>3, <1>5 DEF Agreement, Placed
  <2>2. Placed(p)'
    BY <1>3, <1>4 DEF Agreement, Placed, At
  <2> QED  BY <1>4, <2>1, <2>2
<1>7. \A t \in Sides : /\ ratchet'[t].steps = ratchet[t].steps
                       /\ ratchet'[t].receiveCount = ratchet[t].receiveCount
                       /\ ratchet'[t].sendCount = ratchet[t].sendCount
                       /\ ratchet'[t].previousSent = ratchet[t].previousSent
  BY <1>1, <1>3, <1>4, <1>5
<1>8. InTurn'
  <2>1. \A t \in Sides : Peer(t) \in Sides
    BY DEF Peer, Sides
  <2>2. "responder" \in Sides /\ "initiator" \in Sides
    BY DEF Sides
  <2> QED  BY <1>7, <2>1, <2>2 DEF Agreement, InTurn, Current
<1>9. \A t \in Sides : Genuine(t)'
  BY <1>2, <1>7 DEF Agreement, Genuine, Truthful
<1>10. \A t \in Sides : Accounted(t)'
  <2>1. Accounted(s)'
    BY <1>3 DEF Accounted
  <2>2. Accounted(p)'
    BY <1>2, <1>3, <1>4 DEF Agreement, Accounted
  <2> QED  BY <1>4, <2>1, <2>2
<1> QED  BY <1>6, <1>8, <1>9, <1>10 DEF Agreement

\* What Decrypt commits.  A turn answers the peer's next key, and the header
\* that caused it says how far the chain that is left went.
LEMMA DecryptAgrees ==
    ASSUME Inv, Agreement, NEW s \in Sides, NEW rec \in Arrivals(s),
           DecryptOpens(s, rec)
    PROVE  Agreement'
<1>1. PICK r, p, h : r = ratchet[s] /\ p = Peer(s) /\ h = rec.hdr
  OBVIOUS
<1>2. PICK q : q = Committed(r, h)
  OBVIOUS
<1>3. /\ ~closed[s] /\ Opens(r, rec)
      /\ ratchet' = [ratchet EXCEPT ![s] = q]
      /\ opened' = [opened EXCEPT ![s] = @ \cup {rec}]
      /\ closed' = closed /\ sent' = sent
  BY <1>1, <1>2 DEF DecryptOpens
<1>4. /\ ratchet'[s] = q /\ opened'[s] = opened[s] \cup {rec}
      /\ \A t \in Sides \ {s} : ratchet'[t] = ratchet[t] /\ opened'[t] = opened[t]
  BY <1>3 DEF Inv, TypeOK
<1>5. p \in Sides \ {s} /\ Peer(p) = s /\ \A t \in Sides : t = s \/ t = p
  BY <1>1 DEF Sides, Peer
<1>6. Good(r) /\ At(s, r)
  BY <1>1, <1>3, OpenIsGood DEF Agreement, Placed
<1>7. rec \in sent[p] /\ (FromStore(r, h) \/ Expected(s, r, h))
  BY <1>1, <1>3, OpenedFrom
<1>8. /\ Genuine(p) /\ Truthful(p, ratchet[p], rec)
      /\ \A x \in sent[p] : /\ Follows(x, rec) /\ x.hdr \in Headers
                            /\ Truthful(p, ratchet[p], x)
  BY <1>5, <1>7 DEF Inv, TypeOK, Records, Agreement, Genuine
<1>9. h \in Headers /\ h.pub.gen \in Nat /\ h.n \in Nat /\ h.pn \in Nat
      /\ h.pub = Pub(p, h.pub.gen) /\ h.n # MaxCount
  BY <1>1, <1>7, <1>8 DEF Headers, Pubs, Truthful
<1>10. PICK k, l, c, g, n : /\ k = r.steps /\ l = ratchet[p].steps
                            /\ c = Current(s, k) /\ g = h.pub.gen /\ n = h.n
  OBVIOUS
<1>11. k \in Nat /\ l \in Nat /\ l - c \in {0, 1} /\ g \in Nat /\ n \in Nat
  BY <1>1, <1>9, <1>10, Apart DEF Inv, Agreement
<1>12. c \in Int /\ Current(s, k + 1) = c + 1
  BY <1>10, <1>11, Indices
<1>13. /\ g <= l
       /\ g = l => n < ratchet[p].sendCount
       /\ ratchet[p].sendCount \in Nat
  BY <1>1, <1>5, <1>8, <1>10 DEF Truthful, Inv, TypeOK, IsRatchet
<1>14. /\ r.receiveCount \in Nat /\ r.sendCount \in Nat
  BY <1>6 DEF Good, IsRatchet
<1>15. \* What q is.
       /\ At(s, q) /\ Held(r) \subseteq Held(q) \cup {NameOf(h)}
       /\ \/ /\ q.steps = k /\ q.sendCount = r.sendCount
             /\ q.previousSent = r.previousSent
             /\ \/ q.receiveCount = r.receiveCount
                \/ /\ g = c /\ q.receiveCount = n + 1
                   /\ \A i \in Nat : r.receiveCount <= i /\ i < n =>
                        [pub |-> h.pub, n |-> i] \in Held(q)
          \/ /\ g = c + 1 /\ q.steps = k + 1 /\ q.sendCount = 0
             /\ q.previousSent = r.sendCount /\ q.receiveCount = n + 1
             /\ \A i \in Nat : i < n => [pub |-> h.pub, n |-> i] \in Held(q)
             /\ \A i \in Nat :
                  r.receiveChain # NoChain /\ r.receiveCount <= i /\ i < h.pn =>
                    [pub |-> r.receiveKey, n |-> i] \in Held(q)
  <2>1. CASE FromStore(r, h)
    <3>1. /\ At(s, q)
          /\ q.steps = r.steps /\ q.sendCount = r.sendCount
          /\ q.previousSent = r.previousSent /\ q.receiveCount = r.receiveCount
          /\ Held(r) \subseteq Held(q) \cup {NameOf(h)}
      BY <1>2, <1>6, <1>9, <2>1, StoreGives
    <3> QED  BY <1>10, <3>1
  <2>2. CASE ~FromStore(r, h)
    <3>1. Expected(s, r, h)
      BY <1>7, <2>2
    <3>2. h.pub.gen = Current(s, r.steps) => r.receiveCount <= h.n
      <4>1. ReceiveError(r, h) = "none"
        BY <1>1, <1>3 DEF Opens
      <4> QED  BY <1>6, <1>9, <2>2, <3>1, <4>1, NotStale
    <3>3. /\ At(s, q) /\ q.receiveCount = h.n + 1 /\ Held(r) \subseteq Held(q)
          /\ \/ /\ h.pub.gen = Current(s, r.steps)
                /\ q.steps = r.steps /\ q.sendCount = r.sendCount
                /\ q.previousSent = r.previousSent
                /\ \A i \in Nat : r.receiveCount <= i /\ i < h.n =>
                     [pub |-> h.pub, n |-> i] \in Held(q)
             \/ /\ h.pub.gen = Current(s, r.steps) + 1
                /\ q.steps = r.steps + 1 /\ q.sendCount = 0
                /\ q.previousSent = r.sendCount
                /\ \A i \in Nat : i < h.n => [pub |-> h.pub, n |-> i] \in Held(q)
                /\ \A i \in Nat :
                     r.receiveChain # NoChain /\ r.receiveCount <= i /\ i < h.pn =>
                       [pub |-> r.receiveKey, n |-> i] \in Held(q)
      BY <1>2, <1>6, <1>9, <2>2, <3>1, <3>2, ChainGives
    <3> QED  BY <1>10, <3>3
  <2> QED  BY <2>1, <2>2
<1>16. \A t \in Sides : Placed(t)'
  <2>1. Placed(s)'
    BY <1>4, <1>15 DEF Placed, At
  <2>2. Placed(p)'
    BY <1>3, <1>4, <1>5 DEF Agreement, Placed, At
  <2> QED  BY <1>5, <2>1, <2>2
<1>17. \* A turn is the turn of s.
       \/ q.steps = k
       \/ q.steps = k + 1 /\ l = c + 1
  BY <1>11, <1>12, <1>13, <1>15
<1>18. InTurn'
  <2>1. ratchet'["responder"].steps - ratchet'["initiator"].steps \in {0, 1}
    <3>1. CASE s = "initiator"
      BY <1>1, <1>4, <1>5, <1>10, <1>11, <1>17, <3>1 DEF Current, Peer, Sides
    <3>2. CASE s = "responder"
      BY <1>1, <1>4, <1>5, <1>10, <1>11, <1>17, <3>2 DEF Current, Peer, Sides
    <3> QED  BY <3>1, <3>2 DEF Sides
  <2>2. Current(s, q.steps) = l => q.receiveCount <= ratchet[p].sendCount
    <3>1. CASE q.steps = k /\ q.receiveCount = r.receiveCount
      BY <1>1, <1>5, <1>10, <3>1 DEF Agreement, InTurn
    <3>2. CASE q.steps = k /\ g = c /\ q.receiveCount = n + 1
      BY <1>10, <1>11, <1>13, <3>2
    <3>3. CASE g = c + 1 /\ q.steps = k + 1 /\ q.receiveCount = n + 1
      BY <1>11, <1>12, <1>13, <3>3
    <3> QED  BY <1>15, <3>1, <3>2, <3>3
  <2>3. Current(p, l) = q.steps => ratchet[p].receiveCount <= q.sendCount
    <3>1. CASE q.steps = k
      <4>1. q.sendCount = r.sendCount
        BY <1>11, <1>15, <3>1
      <4>2. Current(p, l) = k => ratchet[p].receiveCount <= r.sendCount
        BY <1>1, <1>5, <1>10 DEF Agreement, InTurn
      <4> QED  BY <3>1, <4>1, <4>2
    <3>2. CASE q.steps = k + 1 /\ l = c + 1
      <4>1. Current(p, l) # k + 1
        BY <1>1, <1>5, <1>10, <1>11, <3>2 DEF Current, Peer, Sides
      <4> QED  BY <3>2, <4>1
    <3> QED  BY <1>17, <3>1, <3>2
  <2>4. ASSUME NEW t \in Sides, Current(t, ratchet'[t].steps) = ratchet'[Peer(t)].steps
        PROVE  ratchet'[t].receiveCount <= ratchet'[Peer(t)].sendCount
    <3>1. CASE t = s
      BY <1>1, <1>4, <1>5, <1>10, <2>2, <2>4, <3>1
    <3>2. CASE t = p
      BY <1>1, <1>4, <1>5, <1>10, <2>3, <2>4, <3>2
    <3> QED  BY <1>5, <3>1, <3>2
  <2> QED  BY <2>1, <2>4 DEF InTurn, Current
<1>19. \A t \in Sides : Genuine(t)'
  <2>1. Genuine(p)'
    BY <1>3, <1>4, <1>5, <1>8 DEF Genuine
  <2>2. \A x \in sent[s] : Truthful(s, q, x)
    <3>1. \A x \in sent[s] : Truthful(s, r, x) /\ x.hdr.pub.gen \in Nat
      BY <1>1 DEF Agreement, Genuine, Inv, TypeOK, Records, Headers, Pubs
    <3>2. CASE q.steps = k /\ q.sendCount = r.sendCount /\ q.previousSent = r.previousSent
      BY <1>10, <3>1, <3>2 DEF Truthful
    <3>3. CASE q.steps = k + 1 /\ q.sendCount = 0 /\ q.previousSent = r.sendCount
      <4> SUFFICES ASSUME NEW x \in sent[s]
                   PROVE  Truthful(s, q, x)
        OBVIOUS
      <4>1. PICK y : y = x.hdr.pub.gen
        OBVIOUS
      <4>2. y \in Nat /\ y <= k /\ (y = k => x.hdr.n < r.sendCount)
        BY <1>10, <3>1, <4>1 DEF Truthful
      <4>3. y <= k + 1 /\ y # k + 1 /\ (y = (k + 1) - 1 => y = k)
        BY <1>11, <4>2
      <4> QED  BY <3>1, <3>3, <4>1, <4>2, <4>3 DEF Truthful
    <3> QED  BY <1>15, <3>2, <3>3
  <2>3. Genuine(s)'
    BY <1>3, <1>4, <2>2 DEF Agreement, Genuine
  <2> QED  BY <1>5, <2>1, <2>3
<1>20. \A t \in Sides : Accounted(t)'
  <2>1. Accounted(p)'
    BY <1>3, <1>4, <1>5 DEF Agreement, Accounted
  <2>2. ASSUME NEW x \in sent[p] \ (opened[s] \cup {rec}), Passed(s, q, x.hdr)
        PROVE  NameOf(x.hdr) \in Held(q)
    <3>1. PICK y, i : y = x.hdr.pub.gen /\ i = x.hdr.n
      OBVIOUS
    <3>2. /\ y \in Nat /\ i \in Nat
          /\ NameOf(x.hdr) = [pub |-> Pub(p, y), n |-> i]
          /\ Index(p, y) > 0
      <4>1. x.hdr \in Headers /\ Truthful(p, ratchet[p], x)
        BY <1>8
      <4> QED  BY <3>1, <4>1 DEF Headers, Pubs, NameOf, Truthful
    <3>3. NameOf(x.hdr) # NameOf(h)
      BY <1>1, <1>5, <1>7, <1>8, SameName
    <3>4. y = g => i # n
      BY <1>9, <1>10, <3>2, <3>3 DEF NameOf
    <3>5. Passed(s, r, x.hdr) => NameOf(x.hdr) \in Held(q)
      BY <1>1, <1>3, <1>15, <3>3 DEF Agreement, Accounted
    <3>6. \/ y < Current(s, q.steps)
          \/ y = Current(s, q.steps) /\ i < q.receiveCount
      BY <2>2, <3>1 DEF Passed
    <3>7. Passed(s, r, x.hdr) <=> y < c \/ (y = c /\ i < r.receiveCount)
      BY <1>10, <3>1 DEF Passed
    <3>8. CASE q.steps = k /\ q.receiveCount = r.receiveCount
      BY <1>10, <3>5, <3>6, <3>7, <3>8
    <3>9. CASE /\ q.steps = k /\ g = c /\ q.receiveCount = n + 1
               /\ \A j \in Nat : r.receiveCount <= j /\ j < n =>
                    [pub |-> h.pub, n |-> j] \in Held(q)
      <4>1. y < c \/ (y = c /\ i < n + 1)
        BY <1>10, <3>6, <3>9
      <4>2. y < c \/ (y = c /\ i < r.receiveCount) \/ (y = g /\ r.receiveCount <= i /\ i < n)
        BY <1>11, <1>12, <1>14, <3>2, <3>4, <3>9, <4>1
      <4> QED  BY <1>9, <1>10, <3>2, <3>5, <3>7, <3>9, <4>2
    <3>10. CASE /\ g = c + 1 /\ q.steps = k + 1 /\ q.receiveCount = n + 1
                /\ \A j \in Nat : j < n => [pub |-> h.pub, n |-> j] \in Held(q)
                /\ \A j \in Nat :
                     r.receiveChain # NoChain /\ r.receiveCount <= j /\ j < h.pn =>
                       [pub |-> r.receiveKey, n |-> j] \in Held(q)
      <4>1. y < c + 1 \/ (y = c + 1 /\ i < n + 1)
        BY <1>12, <3>6, <3>10
      <4>2. \/ y < c \/ (y = c /\ i < r.receiveCount)
            \/ y = c /\ r.receiveCount <= i
            \/ y = g /\ i < n
        BY <1>11, <1>12, <1>14, <3>2, <3>4, <3>10, <4>1
      <4>3. CASE y = c /\ r.receiveCount <= i
        <5>1. i < h.pn
          <6>1. Follows(x, rec)
            BY <1>8
          <6>2. y = g - 1
            BY <1>11, <1>12, <3>10, <4>3
          <6> QED  BY <1>1, <1>10, <3>1, <6>1, <6>2 DEF Follows
        <5>2. r.receiveKey = Pub(p, y)
          BY <1>1, <1>6, <1>10, <1>12, <3>2, <4>3 DEF At
        <5>3. r.receiveChain # NoChain
          <6>1. Index(p, y) = Index(s, k) - 1 /\ Index(s, k) \in Nat
            <7>1. Index(Peer(s), c) = Index(s, k) - 1 <=> c = Current(s, k)
              BY <1>11, <1>12, Indices
            <7>2. Index(s, k) \in Nat
              BY <1>11, Indices
            <7> QED  BY <1>1, <1>10, <4>3, <7>1, <7>2
          <6>2. PICK m \in Nat : m = Index(s, k) - 1 /\ m > 0
            BY <3>2, <6>1
          <6>3. Len(r.receiveChain.root) = m
            BY <1>6, <1>10, <6>2, RootGrows DEF At
          <6> QED  BY <6>2, <6>3 DEF NoChain
        <5> QED  BY <3>2, <3>10, <4>3, <5>1, <5>2, <5>3
      <4>4. CASE y = g /\ i < n
        BY <1>9, <1>10, <3>2, <3>10, <4>4
      <4> QED  BY <3>5, <3>7, <4>2, <4>3, <4>4
    <3> QED  BY <1>15, <3>8, <3>9, <3>10
  <2>3. Accounted(s)'
    BY <1>1, <1>3, <1>4, <2>2 DEF Accounted
  <2> QED  BY <1>5, <2>1, <2>3
<1> QED  BY <1>16, <1>18, <1>19, <1>20 DEF Agreement

\* Agreement holds in every reachable state.
THEOREM AgreementInv == Spec => [](Inv /\ Agreement)
<1>1. Init => Inv /\ Agreement
  BY InitInv, InitAgrees
<1>2. Inv /\ Agreement /\ [Next]_vars => Agreement'
  <2> SUFFICES ASSUME Inv, Agreement, [Next]_vars
               PROVE  Agreement'
    OBVIOUS
  <2>1. CASE UNCHANGED vars
    BY <2>1 DEF vars, Agreement, InTurn, Placed, At, Genuine, Accounted, Passed, Held,
                Truthful
  <2>2. ASSUME NEW s \in Sides, Encrypt(s)
        PROVE  Agreement'
    BY <2>2, EncryptAgrees
  <2>3. ASSUME NEW s \in Sides, NEW rec \in Arrivals(s), DecryptOpens(s, rec)
        PROVE  Agreement'
    BY <2>3, DecryptAgrees
  <2>4. ASSUME NEW s \in Sides, NEW rec \in Arrivals(s), DecryptFails(s, rec)
        PROVE  Agreement'
    BY <2>1, <2>4 DEF DecryptFails
  <2>5. ASSUME NEW s \in Sides, Close(s)
        PROVE  Agreement'
    BY <2>5, CloseAgrees
  <2> QED  BY <2>1, <2>2, <2>3, <2>4, <2>5 DEF Next, Decrypt
<1> QED  BY <1>1, <1>2, SessionInv, PTL DEF Spec

\* Both sides hold the same chain once one has turned onto the other's key, the
\* receiver is never ahead, and the sides are at most one DH step apart with
\* the responder in front (step, newRatchetInitiator, newRatchetResponder).
THEOREM SidesAgree == Spec => []ChainsAgree
<1>1. Inv /\ Agreement => ChainsAgree
  <2> SUFFICES ASSUME Inv, Agreement, \A s \in Sides : ~closed[s]
               PROVE  ChainsAgree
    BY DEF ChainsAgree
  <2>1. ASSUME NEW s \in Sides,
               ratchet[s].receiveKey = ratchet[Peer(s)].sendKey
        PROVE  /\ ratchet[s].receiveChain.root = ratchet[Peer(s)].sendChain.root
               /\ ratchet[s].receiveCount <= ratchet[Peer(s)].sendCount
    <3>1. PICK p, k, l : /\ p = Peer(s) /\ k = ratchet[s].steps
                         /\ l = ratchet[p].steps
      OBVIOUS
    <3>2. p \in Sides /\ k \in Nat /\ l \in Nat
      BY <3>1 DEF Inv, TypeOK, IsRatchet, Peer, Sides
    <3>3. At(s, ratchet[s]) /\ At(p, ratchet[p])
      BY <3>2 DEF Agreement, Placed
    <3>4. ratchet[s].receiveKey = Pub(p, l)
      BY <2>1, <3>1, <3>3 DEF At
    <3>5. Pub(p, l) # NoPub
      BY <3>2 DEF Pub, NoPub, Sides
    <3>6. Pub(p, l) = Pub(p, Current(s, k))
      BY <3>1, <3>3, <3>4, <3>5 DEF At
    <3>7. l = Current(s, k)
      BY <3>6 DEF Pub
    <3>8. Index(p, l) = Index(s, k) - 1
      <4>1. Index(Peer(s), l) = Index(s, k) - 1 <=> l = Current(s, k)
        BY <3>2, Indices
      <4> QED  BY <3>1, <3>7, <4>1
    <3>9. ratchet[s].receiveChain.root = ratchet[p].sendChain.root
      BY <3>1, <3>3, <3>8 DEF At
    <3>10. ratchet[s].receiveCount <= ratchet[p].sendCount
      BY <3>1, <3>7 DEF Agreement, InTurn
    <3> QED  BY <3>1, <3>9, <3>10
  <2>2. ratchet["responder"].steps - ratchet["initiator"].steps \in {0, 1}
    BY DEF Agreement, InTurn
  <2> QED  BY <2>1, <2>2 DEF ChainsAgree
<1> QED  BY <1>1, AgreementInv, PTL

\* No failure and no order of delivery loses a message: what the peer sent and
\* was not opened opens, unless its key was trimmed from the store (remember)
\* or it is further ahead than MaxSkip (skipTo).
THEOREM NothingLost == Spec => []UnopenedRecordOpens
<1>1. Inv /\ Agreement => UnopenedRecordOpens
  <2> SUFFICES ASSUME Inv, Agreement, NEW s \in Sides, ~closed[s],
                      NEW rec \in sent[Peer(s)] \ opened[s],
                      NameOf(rec.hdr) \notin ratchet[s].evicted,
                      ReceiveError(ratchet[s], rec.hdr) # "ErrSkipTooLarge"
               PROVE  Opens(ratchet[s], rec)
    BY DEF UnopenedRecordOpens
  <2>1. PICK r, p, h : r = ratchet[s] /\ p = Peer(s) /\ h = rec.hdr
    OBVIOUS
  <2>2. p \in Sides
    BY <2>1 DEF Peer, Sides
  <2>3. Good(r) /\ At(s, r)
    BY <2>1, OpenIsGood DEF Agreement, Placed
  <2>4. Truthful(p, ratchet[p], rec) /\ h \in Headers
    BY <2>1, <2>2 DEF Inv, TypeOK, Records, Agreement, Genuine
  <2>5. rec.key = [root |-> Root(Index(Peer(s), h.pub.gen)), pos |-> h.n]
        /\ rec.hdr = rec.ad /\ h.n # MaxCount
    BY <2>1, <2>4 DEF Truthful
  <2>6. CASE FromStore(r, h)
    <3>1. /\ ReceiveError(r, h) = "none"
          /\ ReceiveKey(r, h) = [root |-> Root(Index(Peer(s), h.pub.gen)), pos |-> h.n]
      BY <2>3, <2>4, <2>6, StoreGives
    <3> QED  BY <2>1, <2>5, <3>1 DEF Opens
  <2>7. CASE ~FromStore(r, h)
    <3>1. ~Passed(s, r, h)
      <4>1. NameOf(h) \notin DOMAIN r.skipped \cup r.evicted
        BY <2>1, <2>7 DEF FromStore
      <4> QED  BY <2>1, <4>1 DEF Agreement, Accounted, Held
    <3>2. PICK k, l, c, g : /\ k = r.steps /\ l = ratchet[p].steps
                            /\ c = Current(s, k) /\ g = h.pub.gen
      OBVIOUS
    <3>3. k \in Nat /\ l \in Nat /\ l - c \in {0, 1}
      BY <2>1, <3>2, Apart DEF Inv, Agreement
    <3>4. c \in Int /\ g \in Nat /\ g <= l
      BY <2>1, <2>4, <3>2, <3>3 DEF Current, Headers, Pubs, Truthful
    <3>5. ~(g < c)
      BY <3>1, <3>2 DEF Passed
    <3>6. g - c \in {0, 1}
      BY <3>3, <3>4, <3>5
    <3>7. Expected(s, r, h)
      BY <2>1, <2>4, <3>2, <3>6 DEF Expected, Truthful
    <3>8. h.pub.gen = Current(s, r.steps) => r.receiveCount <= h.n
      <4>1. r.receiveCount \in Nat /\ h.n \in Nat
        BY <2>3, <2>4 DEF Good, IsRatchet, Headers
      <4> QED  BY <3>1, <4>1 DEF Passed
    <3>9. /\ ReceiveError(r, h) \in {"none", "ErrSkipTooLarge"}
          /\ ReceiveKey(r, h) = [root |-> Root(Index(Peer(s), h.pub.gen)), pos |-> h.n]
      BY <2>3, <2>4, <2>5, <2>7, <3>7, <3>8, ChainGives
    <3> QED  BY <2>1, <2>5, <3>9 DEF Opens
  <2> QED  BY <2>6, <2>7
<1> QED  BY <1>1, AgreementInv, PTL

\* A record that is sealed is like none before it.
LEMMA SealsAfresh ==
    ASSUME Inv, NEW s \in Sides, Encrypt(s)
    PROVE  \E rec : /\ rec \notin sent[s] /\ ~closed[s]
                    /\ sent'[s] = sent[s] \cup {rec}
                    /\ \A t \in Sides \ {s} : sent'[t] = sent[t]
                    /\ UNCHANGED << closed, opened, read >>
<1> DEFINE r == ratchet[s]
           rec == Record(NextHeader(r), r.sendChain, written[s])
<1>1. /\ ~closed[s] /\ UNCHANGED << closed, opened, read >>
      /\ sent' = [sent EXCEPT ![s] = @ \cup {rec}]
  BY DEF Encrypt
<1>2. sent \in [Sides -> SUBSET Records]
  BY DEF Inv, TypeOK
<1>3. rec.key = r.sendChain
  BY DEF Record
<1>4. ASSUME rec \in sent[s] PROVE FALSE
  <2>1. Behind(r.sendChain, r.sendChain)
    BY <1>1, <1>3, <1>4 DEF Inv, Sealed
  <2>2. r.sendChain \in Chains
    BY DEF Inv, TypeOK, IsRatchet
  <2> QED  BY <2>1, <2>2 DEF Behind, Chains
<1> HIDE DEF rec
<1> QED  BY <1>1, <1>2, <1>4

\* A record that opens was sealed by the peer and had not been opened.
LEMMA OpensOnce ==
    ASSUME Inv, Agreement, NoReplay, NEW s \in Sides, NEW rec \in Arrivals(s),
           DecryptOpens(s, rec)
    PROVE  /\ rec \in sent[Peer(s)] \ opened[s] /\ ~closed[s]
           /\ opened'[s] = opened[s] \cup {rec}
           /\ read'[s] = read[s] + 1
           /\ \A t \in Sides \ {s} : opened'[t] = opened[t] /\ read'[t] = read[t]
           /\ UNCHANGED << closed, sent >>
<1>1. /\ ~closed[s] /\ Opens(ratchet[s], rec) /\ UNCHANGED << closed, sent >>
      /\ opened' = [opened EXCEPT ![s] = @ \cup {rec}]
      /\ read' = [read EXCEPT ![s] = @ + 1]
  BY DEF DecryptOpens
<1>2. opened \in [Sides -> SUBSET Records] /\ read \in [Sides -> Nat]
  BY DEF Inv, TypeOK
<1>3. rec \in sent[Peer(s)]
  BY <1>1, OpenedFrom
<1>4. rec \notin opened[s]
  BY <1>1 DEF NoReplay
<1> QED  BY <1>1, <1>2, <1>3, <1>4

LEMMA CourierStep ==
    ASSUME Inv, Agreement, NoReplay, [Next]_vars
    PROVE  /\ [ToResponder!Seal \/ ToResponder!Take \/ ToResponder!Closes]_
                 << sent["initiator"], opened["responder"], read["responder"],
                    closed["initiator"], closed["responder"] >>
           /\ [ToInitiator!Seal \/ ToInitiator!Take \/ ToInitiator!Closes]_
                 << sent["responder"], opened["initiator"], read["initiator"],
                    closed["responder"], closed["initiator"] >>
<1>1. Sides = {"initiator", "responder"} /\ Peer("initiator") = "responder"
      /\ Peer("responder") = "initiator"
  BY DEF Sides, Peer
<1>2. CASE UNCHANGED << sent, opened, read, closed >>
  BY <1>2
<1>3. ASSUME NEW s \in Sides, Encrypt(s)
      PROVE  /\ s = "initiator" => /\ ToResponder!Seal
                                   /\ UNCHANGED << sent["responder"], opened["initiator"], read["initiator"],
                                                   closed["responder"], closed["initiator"] >>
             /\ s = "responder" => /\ ToInitiator!Seal
                                   /\ UNCHANGED << sent["initiator"], opened["responder"], read["responder"],
                                                   closed["initiator"], closed["responder"] >>
  <2>1. PICK rec : /\ rec \notin sent[s] /\ ~closed[s]
                   /\ sent'[s] = sent[s] \cup {rec}
                   /\ \A t \in Sides \ {s} : sent'[t] = sent[t]
                   /\ UNCHANGED << closed, opened, read >>
    BY <1>3, SealsAfresh
  <2>2. CASE s = "initiator"
    <3>1. rec \in sent'["initiator"] \ sent["initiator"]
      BY <2>1, <2>2
    <3> QED  BY <1>1, <2>1, <2>2, <3>1 DEF ToResponder!Seal
  <2>3. CASE s = "responder"
    <3>1. rec \in sent'["responder"] \ sent["responder"]
      BY <2>1, <2>3
    <3> QED  BY <1>1, <2>1, <2>3, <3>1 DEF ToInitiator!Seal
  <2> QED  BY <1>1, <2>2, <2>3
<1>4. ASSUME NEW s \in Sides, NEW rec \in Arrivals(s), DecryptOpens(s, rec)
      PROVE  /\ s = "responder" => /\ ToResponder!Take
                                   /\ UNCHANGED << sent["responder"], opened["initiator"], read["initiator"],
                                                   closed["responder"], closed["initiator"] >>
             /\ s = "initiator" => /\ ToInitiator!Take
                                   /\ UNCHANGED << sent["initiator"], opened["responder"], read["responder"],
                                                   closed["initiator"], closed["responder"] >>
  <2>1. /\ rec \in sent[Peer(s)] \ opened[s] /\ ~closed[s]
        /\ opened'[s] = opened[s] \cup {rec}
        /\ read'[s] = read[s] + 1
        /\ \A t \in Sides \ {s} : opened'[t] = opened[t] /\ read'[t] = read[t]
        /\ UNCHANGED << closed, sent >>
    BY <1>4, OpensOnce
  <2>2. CASE s = "responder"
    BY <1>1, <2>1, <2>2 DEF ToResponder!Take
  <2>3. CASE s = "initiator"
    BY <1>1, <2>1, <2>3 DEF ToInitiator!Take
  <2> QED  BY <1>1, <2>2, <2>3
<1>5. ASSUME NEW s \in Sides, Close(s)
      PROVE  ToResponder!Closes /\ ToInitiator!Closes
  <2>1. /\ UNCHANGED << sent, opened, read >> /\ closed' = [closed EXCEPT ![s] = TRUE]
        /\ closed \in [Sides -> BOOLEAN]
    BY <1>5 DEF Close, Inv, TypeOK
  <2>2. \A t \in Sides : closed[t] => closed'[t]
    BY <2>1
  <2> QED  BY <1>1, <2>1, <2>2 DEF ToResponder!Closes, ToInitiator!Closes
<1>6. ASSUME NEW s \in Sides, NEW rec, DecryptFails(s, rec)
      PROVE  UNCHANGED << sent, opened, read, closed >>
  BY <1>6 DEF DecryptFails, vars
<1>7. CASE UNCHANGED vars
  BY <1>2, <1>7 DEF vars
<1> QED  BY <1>1, <1>2, <1>3, <1>4, <1>5, <1>6, <1>7 DEF Next, Decrypt

\* Each direction of a session is a courier: it delivers what was sealed, each
\* record once at most and none after Close, whatever is lost, repeated, late
\* or damaged (Encrypt, Decrypt, Close).
THEOREM ImplementsCourier == Spec => OnceEach
<1>1. Init => ToResponder!Init /\ ToInitiator!Init
  BY DEF Init, ToResponder!Init, ToInitiator!Init, Sides
<1>2. Inv /\ Agreement /\ NoReplay /\ [Next]_vars =>
         /\ [ToResponder!Seal \/ ToResponder!Take \/ ToResponder!Closes]_
                 << sent["initiator"], opened["responder"], read["responder"],
                    closed["initiator"], closed["responder"] >>
         /\ [ToInitiator!Seal \/ ToInitiator!Take \/ ToInitiator!Closes]_
                 << sent["responder"], opened["initiator"], read["initiator"],
                    closed["responder"], closed["initiator"] >>
  BY CourierStep
<1> QED  BY <1>1, <1>2, AgreementInv, ReplayProtection, PTL
         DEF Spec, OnceEach, ToResponder!Spec, ToInitiator!Spec
=============================================================================
