-------------------------- MODULE Handshake_proofs --------------------------
(***************************************************************************)
(* Proofs about Handshake, for any number of runs, any identities, any     *)
(* assignment of TLS connections and any list of versions: both ends agree *)
(* on the transcript and on each other.                                    *)
(***************************************************************************)
EXTENDS Handshake, WellFoundedInduction, TLAPS

\* selectVersion returns one of our versions when there is a common one.
LEMMA SelectsSupported ==
    ASSUME NEW offered \in SUBSET Versions, offered \cap Supported # {}
    PROVE  selectVersion(offered) \in Supported
  <1> DEFINE T == {n \in DOMAIN SupportedVersions : SupportedVersions[n] \in offered}
             R == OpToRel(<, Nat)
  <1>1. DOMAIN SupportedVersions \subseteq Nat
    BY VersionAssumption
  <1>2. T \subseteq Nat /\ T # {}
    BY <1>1 DEF Supported
  <1>3. IsWellFoundedOn(R, Nat)
    BY NatLessThanWellFounded
  <1> HIDE DEF T, R
  <1>4. PICK x \in T : \A y \in T : ~ (<<y, x>> \in R)
    BY <1>2, <1>3, WFMin
  <1>5. ASSUME NEW k \in DOMAIN SupportedVersions, k < x
        PROVE  SupportedVersions[k] \notin offered
    BY <1>1, <1>2, <1>4, <1>5 DEF T, R, OpToRel
  <1>6. x \in DOMAIN SupportedVersions /\ SupportedVersions[x] \in offered
    BY <1>4 DEF T
  <1> QED
    BY <1>5, <1>6 DEF selectVersion, Supported

-----------------------------------------------------------------------------
\* What a run seals has the type of its role.
LEMMA SealAuthType ==
    ASSUME NEW run \in Runs, NEW role, NEW of \in Transcripts2, NEW th
    PROVE  LET box == sealAuth(run, role, of, th)
           IN  /\ \A ths : th \in ths => box \in Boxes(role, ths)
               /\ box.role = role /\ box.of = of /\ box.th = th
               /\ box.pub = KeyOf[run] /\ box.pub \in Keys
  BY ConfigAssumption DEF sealAuth, Boxes

\* A payload that openAuth accepts has its type, and its key is a usable one.
LEMMA OpenAuthType ==
    ASSUME NEW role, NEW of \in Transcripts2, NEW th, NEW ths, th \in ths,
           NEW expected, NEW box, openAuth(box, role, of, th, expected),
           box \in OutsideBoxes(role, of, th)
    PROVE  box \in Boxes(role, ths) /\ box.pub \in Keys \ SmallOrder
  BY DEF openAuth, OutsideBoxes, Boxes

\* The initial states satisfy the invariant.
LEMMA HandshakeInit == Init => HandshakeInv
  BY NoneAssumption, ConfigAssumption
     DEF Init, HandshakeInv, TypeOK, RunsConsistent, SealedByRuns,
         InitiatorAgrees, ResponderAgrees, BothEndsExist, Held, Runs

\* A step that touches only the position of one run.
LEMMA PositionStep ==
    ASSUME HandshakeInv, NEW run \in Runs,
           pc[run] \in {"start", "sent1", "sent2", "sent3", "keyed"},
           NEW p \in {"sent1", "done", "failed"},
           pc' = [pc EXCEPT ![run] = p],
           UNCHANGED << th2, c2, c3, peer, sealed >>,
           p = "sent1" => pc[run] = "start",
           p = "done" => pc[run] \in {"sent3", "keyed"},
           p = "done" /\ run \in Responders /\ peer[run] \in Held =>
               \E i \in Initiators : /\ pc[i] = "done" /\ SameTranscript(i, run)
                                     /\ KeyOf[i] = peer[run]
    PROVE  HandshakeInv'
  <1> USE DEF HandshakeInv
  <1>1. TypeOK'
    BY DEF TypeOK
  <1>2. RunsConsistent'
    BY DEF TypeOK, RunsConsistent, Runs
  <1>3. SealedByRuns'
    BY DEF SealedByRuns
  <1>4. InitiatorAgrees' /\ ResponderAgrees'
    BY DEF InitiatorAgrees, ResponderAgrees, SameTranscript
  <1>5. BothEndsExist'
    <2> SUFFICES ASSUME NEW r \in Responders, pc'[r] = "done", peer[r] \in Held
                 PROVE  \E i \in Initiators : /\ pc'[i] = "done"
                                              /\ SameTranscript(i, r)'
                                              /\ KeyOf[i] = peer[r]
      BY DEF BothEndsExist
    <2>1. PICK i \in Initiators : /\ pc[i] = "done" /\ SameTranscript(i, r)
                                  /\ KeyOf[i] = peer[r]
      BY DEF BothEndsExist, TypeOK, Runs
    <2>2. pc'[i] = "done"
      BY <2>1 DEF TypeOK, Runs
    <2> QED
      BY <2>1, <2>2 DEF SameTranscript
  <1> QED
    BY <1>1, <1>2, <1>3, <1>4, <1>5

\* Respond answers an M1.
LEMMA M1Step ==
    ASSUME HandshakeInv, NEW r \in Responders, NEW offered \in SUBSET Versions,
           NEW eph \in Ephemerals, ReceivesM1(r, offered, eph)
    PROVE  HandshakeInv'
  <1> DEFINE th  == Transcript2(r, offered, eph, selectVersion(offered), r)
             box == sealAuth(r, "responder", th, <<th>>)
  <1>1. /\ pc[r] = "start" /\ pc' = [pc EXCEPT ![r] = "sent2"]
        /\ th2' = [th2 EXCEPT ![r] = th] /\ c2' = [c2 EXCEPT ![r] = box]
        /\ sealed' = sealed \cup {box} /\ c3' = c3 /\ peer' = peer
    BY DEF ReceivesM1
  <1>2. /\ th \in Transcripts2 /\ th # None
        /\ th.channel = Channel[r] /\ th.responder = r
    <2>1. selectVersion(offered) \in Supported
      BY SelectsSupported DEF ReceivesM1
    <2>2. th \in Transcripts2
      BY <2>1, ConfigAssumption DEF Transcript2, Transcripts2, Ephemerals, Runs
    <2> QED
      BY <2>2, NoneAssumption DEF Transcript2
  <1> HIDE DEF th
  <1>3. /\ box \in Boxes2 /\ box.role = "responder" /\ box.of = th
        /\ box.th = <<th>> /\ box.pub = KeyOf[r]
    <2>1. <<th>> \in Seq(Transcripts2)
      BY <1>2
    <2> QED
      BY <1>2, <2>1, ConfigAssumption DEF sealAuth, Boxes2, Boxes, Runs
  <1> HIDE DEF box
  <1>4. /\ th2[r] = None /\ c2[r] = None /\ c3[r] = None /\ peer[r] = None
        /\ r \in Runs /\ r \notin Initiators
    BY <1>1, RunsAssumption DEF HandshakeInv, RunsConsistent, Runs
  <1> USE DEF HandshakeInv
  <1>5. TypeOK'
    BY <1>1, <1>2, <1>3, <1>4 DEF TypeOK
  <1>6. \A run \in Runs : run # r =>
            /\ th2'[run] = th2[run] /\ c2'[run] = c2[run] /\ pc'[run] = pc[run]
    BY <1>1 DEF TypeOK
  <1>7. th2'[r] = th /\ c2'[r] = box /\ pc'[r] = "sent2"
    BY <1>1, <1>4 DEF TypeOK
  <1>8. RunsConsistent'
    BY <1>1, <1>2, <1>3, <1>4, <1>6, <1>7 DEF RunsConsistent, Runs
  <1>9. SealedByRuns'
    <2> SUFFICES ASSUME NEW b \in sealed'
                 PROVE  \/ \E q \in Responders :
                             /\ b.role = "responder" /\ b.of = th2'[q]
                             /\ b.th = <<th2'[q]>> /\ b = c2'[q]
                             /\ b.pub = KeyOf[q] /\ th2'[q] # None
                        \/ \E i \in Initiators :
                             /\ b.role = "initiator" /\ b.of = th2'[i]
                             /\ b.th = <<th2'[i], c2'[i]>> /\ b = c3'[i]
                             /\ b.pub = KeyOf[i] /\ peer'[i] = c2'[i].pub
                             /\ th2'[i] # None
      BY DEF SealedByRuns
    <2>1. CASE b = box
      BY <2>1, <1>2, <1>3, <1>7
    <2>2. CASE b \in sealed
      BY <2>2, <1>1, <1>4, <1>6 DEF SealedByRuns, Runs
    <2> QED
      BY <2>1, <2>2, <1>1
  <1>10. InitiatorAgrees'
    BY <1>1, <1>4, <1>6, NoneAssumption
       DEF InitiatorAgrees, RunsConsistent, Runs, Held
  <1>11. ResponderAgrees'
    BY <1>1, <1>4, <1>6, NoneAssumption
       DEF ResponderAgrees, SameTranscript, Runs, Held
  <1>12. BothEndsExist'
    BY <1>1, <1>4, <1>6, <1>7, NoneAssumption
       DEF BothEndsExist, SameTranscript, Runs, Held
  <1> QED
    BY <1>5, <1>8, <1>9, <1>10, <1>11, <1>12

\* Initiate accepts an M2 and answers it.
LEMMA M2Step ==
    ASSUME HandshakeInv, NEW i \in Initiators, NEW version \in Versions,
           NEW eph \in Ephemerals, ReceivesM2(i, version, eph)
    PROVE  HandshakeInv'
  <1> DEFINE th == Transcript2(i, Supported, i, version, eph)
  <1>1. PICK box \in sealed \cup OutsideBoxes("responder", th, <<th>>) :
            /\ openAuth(box, "responder", th, <<th>>, ExpectPeerID[i])
            /\ c2' = [c2 EXCEPT ![i] = box]
            /\ peer' = [peer EXCEPT ![i] = box.pub]
            /\ c3' = [c3 EXCEPT ![i] = sealAuth(i, "initiator", th, <<th, box>>)]
            /\ sealed' = sealed \cup {sealAuth(i, "initiator", th, <<th, box>>)}
    BY DEF ReceivesM2
  <1> DEFINE mine == sealAuth(i, "initiator", th, <<th, box>>)
  <1>2. /\ pc[i] = "sent1" /\ pc' = [pc EXCEPT ![i] = "sent3"]
        /\ th2' = [th2 EXCEPT ![i] = th] /\ version \in Supported
    BY DEF ReceivesM2
  <1>3. /\ th \in Transcripts2 /\ th # None /\ th.channel = Channel[i]
        /\ th.initiator = i
    <2>1. Supported \in SUBSET Versions
      BY VersionAssumption DEF Supported
    <2>2. th \in Transcripts2
      BY <1>2, <2>1, ConfigAssumption DEF Transcript2, Transcripts2, Ephemerals, Runs
    <2> QED
      BY <2>2, NoneAssumption DEF Transcript2
  <1> HIDE DEF th
  <1>4. /\ th2[i] = None /\ c2[i] = None /\ c3[i] = None /\ peer[i] = None
        /\ i \in Runs /\ i \notin Responders
    BY <1>2, RunsAssumption DEF HandshakeInv, RunsConsistent, Runs
  <1>5. <<th>> \in Seq(Transcripts2)
    BY <1>3
  \* The payload is a responder's own, or made by others with another key.
  <1>6. /\ box \in Boxes2 /\ box.role = "responder" /\ box.of = th
        /\ box.pub \in Keys \ SmallOrder
    <2>1. CASE box \in sealed
      <3>1. box.pub \notin SmallOrder /\ box.role = "responder" /\ box.of = th
        BY <1>1 DEF openAuth
      <3>2. box \in Boxes2 \cup Boxes3
        BY <2>1 DEF HandshakeInv, TypeOK
      <3> QED
        BY <3>1, <3>2 DEF Boxes2, Boxes3, Boxes
    <2>2. CASE box \in OutsideBoxes("responder", th, <<th>>)
      BY <2>2, <1>1, <1>3, <1>5, OpenAuthType DEF Boxes2, openAuth
    <2> QED
      BY <2>1, <2>2
  <1>7. box.pub \in Held =>
            \E r \in Responders : KeyOf[r] = box.pub /\ th2[r] = th /\ c2[r] = box
    <2> SUFFICES ASSUME box.pub \in Held
                 PROVE  \E r \in Responders :
                            KeyOf[r] = box.pub /\ th2[r] = th /\ c2[r] = box
      OBVIOUS
    <2>1. CASE box \in sealed
      BY <2>1, <1>6 DEF HandshakeInv, SealedByRuns
    <2>2. CASE box \in OutsideBoxes("responder", th, <<th>>)
      <3>1. box.role = "responder" /\ box.th = <<th>> /\ Signable(box)
            /\ Outsider \in {th.initiator, th.responder}
        BY <2>2, <1>1 DEF OutsideBoxes, openAuth
      <3>2. PICK b \in sealed : b.role = "responder" /\ b.th = <<th>>
        BY <3>1, <1>6 DEF Signable, Held
      <3>3. PICK r \in Responders : b.th = <<th2[r]>> /\ th2[r] # None
        BY <3>2 DEF HandshakeInv, SealedByRuns
      <3>4. th.responder = r
        BY <3>2, <3>3 DEF HandshakeInv, RunsConsistent
      <3> QED
        BY <3>1, <3>4, <1>3, RunsAssumption DEF Runs
    <2> QED
      BY <2>1, <2>2
  <1>8. /\ mine \in Boxes3 /\ mine.role = "initiator" /\ mine.of = th
        /\ mine.th = <<th, box>> /\ mine.pub = KeyOf[i]
    BY <1>3, <1>4, <1>6, SealAuthType DEF Boxes3
  <1> HIDE DEF mine
  <1>9. c3' = [c3 EXCEPT ![i] = mine] /\ sealed' = sealed \cup {mine}
    BY <1>1 DEF mine
  <1>10. /\ c2' = [c2 EXCEPT ![i] = box] /\ peer' = [peer EXCEPT ![i] = box.pub]
    BY <1>1
  <1> USE DEF HandshakeInv
  <1>11. TypeOK'
    BY <1>2, <1>3, <1>4, <1>6, <1>8, <1>9, <1>10 DEF TypeOK
  <1>12. \A run \in Runs : run # i =>
             /\ th2'[run] = th2[run] /\ c2'[run] = c2[run] /\ pc'[run] = pc[run]
             /\ c3'[run] = c3[run] /\ peer'[run] = peer[run]
    BY <1>2, <1>9, <1>10 DEF TypeOK
  <1>13. /\ th2'[i] = th /\ c2'[i] = box /\ pc'[i] = "sent3"
         /\ c3'[i] = mine /\ peer'[i] = box.pub
    BY <1>2, <1>4, <1>9, <1>10 DEF TypeOK
  <1>14. RunsConsistent'
    BY <1>3, <1>4, <1>6, <1>8, <1>12, <1>13 DEF RunsConsistent, Runs
  <1>15. SealedByRuns'
    <2> SUFFICES ASSUME NEW b \in sealed'
                 PROVE  \/ \E q \in Responders :
                             /\ b.role = "responder" /\ b.of = th2'[q]
                             /\ b.th = <<th2'[q]>> /\ b = c2'[q]
                             /\ b.pub = KeyOf[q] /\ th2'[q] # None
                        \/ \E j \in Initiators :
                             /\ b.role = "initiator" /\ b.of = th2'[j]
                             /\ b.th = <<th2'[j], c2'[j]>> /\ b = c3'[j]
                             /\ b.pub = KeyOf[j] /\ peer'[j] = c2'[j].pub
                             /\ th2'[j] # None
      BY DEF SealedByRuns
    <2>1. CASE b = mine
      BY <2>1, <1>3, <1>8, <1>13
    <2>2. CASE b \in sealed
      BY <2>2, <1>4, <1>12 DEF SealedByRuns, Runs
    <2> QED
      BY <2>1, <2>2, <1>9
  <1>16. InitiatorAgrees'
    <2> SUFFICES ASSUME NEW j \in Initiators, peer'[j] \in Held
                 PROVE  \E r \in Responders :
                            /\ KeyOf[r] = peer'[j] /\ Channel[r] = Channel[j]
                            /\ th2'[r] = th2'[j] /\ c2'[r] = c2'[j]
      BY DEF InitiatorAgrees
    <2>1. CASE j = i
      <3>1. PICK r \in Responders : KeyOf[r] = box.pub /\ th2[r] = th /\ c2[r] = box
        BY <2>1, <1>7, <1>13
      <3>2. Channel[r] = Channel[i]
        BY <3>1, <1>3 DEF RunsConsistent, Runs
      <3> QED
        BY <2>1, <3>1, <3>2, <1>4, <1>12, <1>13 DEF Runs
    <2>2. CASE j # i
      BY <2>2, <1>4, <1>12 DEF InitiatorAgrees, Runs
    <2> QED
      BY <2>1, <2>2
  <1>17. ResponderAgrees'
    <2> SUFFICES ASSUME NEW r \in Responders, peer'[r] \in Held
                 PROVE  \E j \in Initiators :
                            /\ KeyOf[j] = peer'[r] /\ peer'[j] = KeyOf[r]
                            /\ Channel[j] = Channel[r] /\ SameTranscript(j, r)'
      BY DEF ResponderAgrees
    <2>1. r \in Runs /\ r # i /\ peer[r] \in Held /\ peer[r] # None
      BY <1>4, <1>12, NoneAssumption DEF Runs, Held
    <2>2. PICK j \in Initiators :
              /\ KeyOf[j] = peer[r] /\ peer[j] = KeyOf[r]
              /\ Channel[j] = Channel[r] /\ SameTranscript(j, r)
      BY <2>1 DEF ResponderAgrees
    <2>3. j # i /\ j \in Runs
      BY <2>1, <2>2, <1>4, NoneAssumption DEF RunsConsistent, SameTranscript, Runs
    <2> QED
      BY <2>1, <2>2, <2>3, <1>12 DEF SameTranscript
  <1>18. BothEndsExist'
    <2> SUFFICES ASSUME NEW r \in Responders, pc'[r] = "done", peer'[r] \in Held
                 PROVE  \E j \in Initiators : /\ pc'[j] = "done"
                                              /\ SameTranscript(j, r)'
                                              /\ KeyOf[j] = peer'[r]
      BY DEF BothEndsExist
    <2>1. r \in Runs /\ r # i
      BY <1>4 DEF Runs
    <2>2. PICK j \in Initiators : /\ pc[j] = "done" /\ SameTranscript(j, r)
                                  /\ KeyOf[j] = peer[r]
      BY <2>1, <1>12 DEF BothEndsExist
    <2>3. j # i /\ j \in Runs
      BY <2>2, <1>2 DEF Runs
    <2> QED
      BY <2>1, <2>2, <2>3, <1>12 DEF SameTranscript
  <1> QED
    BY <1>11, <1>14, <1>15, <1>16, <1>17, <1>18

\* Respond accepts an M3.
LEMMA M3Step ==
    ASSUME HandshakeInv, NEW r \in Responders, ReceivesM3(r)
    PROVE  HandshakeInv'
  <1> DEFINE th == <<th2[r], c2[r]>>
  <1>1. PICK box \in sealed \cup OutsideBoxes("initiator", th2[r], th) :
            /\ openAuth(box, "initiator", th2[r], th, None)
            /\ c3' = [c3 EXCEPT ![r] = box]
            /\ peer' = [peer EXCEPT ![r] = box.pub]
    BY DEF ReceivesM3
  <1>2. /\ pc[r] = "sent2" /\ pc' = [pc EXCEPT ![r] = "keyed"]
        /\ th2' = th2 /\ c2' = c2 /\ sealed' = sealed
    BY DEF ReceivesM3
  <1>3. /\ r \in Runs /\ r \notin Initiators
        /\ th2[r] \in Transcripts2 /\ th2[r] # None /\ c2[r] \in Boxes2
        /\ th2[r].responder = r /\ c2[r].pub = KeyOf[r] /\ peer[r] = None
    BY <1>2, RunsAssumption, NoneAssumption DEF HandshakeInv, RunsConsistent, Runs
  <1>4. th \in Transcripts2 \X Boxes2
    BY <1>3
  <1>5. /\ box \in Boxes3 /\ box.role = "initiator" /\ box.of = th2[r]
        /\ box.th = th /\ box.pub \in Keys \ SmallOrder
    <2>1. box.pub \notin SmallOrder /\ box.role = "initiator" /\ box.of = th2[r]
          /\ box.th = th
      BY <1>1 DEF openAuth
    <2>2. CASE box \in sealed
      <3>1. box \in Boxes2 \cup Boxes3
        BY <2>2 DEF HandshakeInv, TypeOK
      <3> QED
        BY <2>1, <3>1 DEF Boxes2, Boxes3, Boxes
    <2>3. CASE box \in OutsideBoxes("initiator", th2[r], th)
      BY <2>1, <2>3, <1>1, <1>3, <1>4, OpenAuthType DEF Boxes3
    <2> QED
      BY <2>1, <2>2, <2>3
  \* The payload is an initiator's own, or made by others with another key.
  <1>6. box.pub \in Held =>
            \E i \in Initiators :
                /\ KeyOf[i] = box.pub /\ peer[i] = c2[i].pub
                /\ th2[i] = th2[r] /\ c2[i] = c2[r] /\ c3[i] = box
    <2> SUFFICES ASSUME box.pub \in Held
                 PROVE  \E i \in Initiators :
                            /\ KeyOf[i] = box.pub /\ peer[i] = c2[i].pub
                            /\ th2[i] = th2[r] /\ c2[i] = c2[r] /\ c3[i] = box
      OBVIOUS
    <2>1. CASE box \in sealed
      BY <2>1, <1>5 DEF HandshakeInv, SealedByRuns
    <2>2. CASE box \in OutsideBoxes("initiator", th2[r], th)
      <3>1. Signable(box) /\ Outsider \in {th2[r].initiator, th2[r].responder}
        BY <2>2, <1>1 DEF OutsideBoxes, openAuth
      <3>2. PICK b \in sealed : b.role = "initiator" /\ b.th = th
        BY <3>1, <1>5 DEF Signable, Held
      <3>3. PICK i \in Initiators : b.th = <<th2[i], c2[i]>> /\ th2[i] # None
        BY <3>2 DEF HandshakeInv, SealedByRuns
      <3>4. th2[r].initiator = i
        BY <3>2, <3>3 DEF HandshakeInv, RunsConsistent
      <3> QED
        BY <3>1, <3>4, <1>3, RunsAssumption DEF Runs
    <2> QED
      BY <2>1, <2>2
  <1> HIDE DEF th
  <1>7. c3' = [c3 EXCEPT ![r] = box] /\ peer' = [peer EXCEPT ![r] = box.pub]
    BY <1>1
  <1> USE DEF HandshakeInv
  <1>8. TypeOK'
    BY <1>2, <1>3, <1>5, <1>7 DEF TypeOK
  <1>9. \A run \in Runs : run # r =>
            /\ pc'[run] = pc[run] /\ c3'[run] = c3[run] /\ peer'[run] = peer[run]
    BY <1>2, <1>7 DEF TypeOK
  <1>10. pc'[r] = "keyed" /\ c3'[r] = box /\ peer'[r] = box.pub
    BY <1>2, <1>3, <1>7 DEF TypeOK
  <1>11. RunsConsistent'
    BY <1>2, <1>3, <1>5, <1>9, <1>10 DEF RunsConsistent, Runs
  <1>12. SealedByRuns'
    BY <1>2, <1>3, <1>9 DEF SealedByRuns, Runs
  <1>13. InitiatorAgrees'
    BY <1>2, <1>3, <1>9 DEF InitiatorAgrees, Runs
  <1>14. ResponderAgrees'
    <2> SUFFICES ASSUME NEW q \in Responders, peer'[q] \in Held
                 PROVE  \E i \in Initiators :
                            /\ KeyOf[i] = peer'[q] /\ peer'[i] = KeyOf[q]
                            /\ Channel[i] = Channel[q] /\ SameTranscript(i, q)'
      BY DEF ResponderAgrees
    <2>1. CASE q = r
      <3>1. PICK i \in Initiators :
                /\ KeyOf[i] = box.pub /\ peer[i] = c2[i].pub
                /\ th2[i] = th2[r] /\ c2[i] = c2[r] /\ c3[i] = box
        BY <2>1, <1>6, <1>10
      <3>2. i \in Runs /\ i # r /\ Channel[i] = Channel[r]
        BY <3>1, <1>3 DEF RunsConsistent, Runs
      <3> QED
        BY <2>1, <3>1, <3>2, <1>2, <1>3, <1>9, <1>10 DEF SameTranscript
    <2>2. CASE q # r
      BY <2>2, <1>2, <1>3, <1>9 DEF ResponderAgrees, SameTranscript, Runs
    <2> QED
      BY <2>1, <2>2
  <1>15. BothEndsExist'
    BY <1>2, <1>3, <1>9, <1>10 DEF BothEndsExist, SameTranscript, Runs
  <1> QED
    BY <1>8, <1>11, <1>12, <1>13, <1>14, <1>15

\* Respond opens the priming record.
LEMMA M4Step ==
    ASSUME HandshakeInv, NEW r \in Responders, ReceivesM4(r)
    PROVE  HandshakeInv'
  <1>1. /\ pc[r] = "keyed" /\ pc' = [pc EXCEPT ![r] = "done"]
        /\ UNCHANGED << th2, c2, c3, peer, sealed >>
    BY DEF ReceivesM4
  <1>2. ASSUME peer[r] \in Held
        PROVE  \E i \in Initiators : /\ pc[i] = "done" /\ SameTranscript(i, r)
                                     /\ KeyOf[i] = peer[r]
    <2>1. /\ peer[r] # None /\ th2[r] \in Transcripts2 /\ th2[r] # None
          /\ th2[r].responder = r /\ c3[r].pub = peer[r] /\ c3[r] \in Boxes3 \cup {None}
      BY <1>2, NoneAssumption DEF HandshakeInv, RunsConsistent, TypeOK, Runs, Held
    <2>2. PICK j \in Initiators : SameTranscript(j, r)
      BY <1>2 DEF HandshakeInv, ResponderAgrees
    <2>3. th2[r].initiator = j
      BY <2>1, <2>2 DEF HandshakeInv, RunsConsistent, SameTranscript
    <2>4. Outsider \notin {th2[r].initiator, th2[r].responder}
      BY <2>1, <2>3, RunsAssumption DEF Runs
    <2>5. PICK i \in Initiators : pc[i] = "done" /\ SameTranscript(i, r)
      BY <2>4 DEF ReceivesM4
    <2>6. PICK k \in Initiators : KeyOf[k] = peer[r] /\ SameTranscript(k, r)
      BY <1>2 DEF HandshakeInv, ResponderAgrees
    <2>7. k = i
      BY <2>1, <2>5, <2>6 DEF HandshakeInv, RunsConsistent, SameTranscript
    <2> QED
      BY <2>5, <2>6, <2>7
  <1> QED
    BY <1>1, <1>2, PositionStep DEF Runs

\* Every step keeps the invariant.
LEMMA HandshakeStep == HandshakeInv /\ [Next]_vars => HandshakeInv'
  <1> SUFFICES ASSUME HandshakeInv, [Next]_vars PROVE HandshakeInv'
    OBVIOUS
  <1>1. ASSUME NEW i \in Initiators, SendsM1(i) PROVE HandshakeInv'
    BY <1>1, PositionStep, RunsAssumption DEF SendsM1, Runs
  <1>2. ASSUME NEW i \in Initiators, SendsM4(i) PROVE HandshakeInv'
    BY <1>2, PositionStep, RunsAssumption DEF SendsM4, Runs
  <1>3. ASSUME NEW run \in Runs, Fails(run) PROVE HandshakeInv'
    <2>1. pc[run] \in {"start", "sent1", "sent2", "sent3", "keyed"}
      BY <1>3 DEF Fails, HandshakeInv, TypeOK
    <2> QED
      BY <1>3, <2>1, PositionStep DEF Fails
  <1>4. CASE UNCHANGED vars
    BY <1>4 DEF vars, HandshakeInv, TypeOK, RunsConsistent, SealedByRuns,
                InitiatorAgrees, ResponderAgrees, BothEndsExist, SameTranscript
  <1> QED
    BY <1>1, <1>2, <1>3, <1>4, M1Step, M2Step, M3Step, M4Step DEF Next

\* The invariant of the handshake holds in every state.
THEOREM HandshakeInvariant == Spec => []HandshakeInv
  BY HandshakeInit, HandshakeStep, PTL DEF Spec

\* Types, and with them: Respond never settles for a version this build does
\* not speak, and a key under which anything verifies never counts as proven.
THEOREM HandshakeTypeCorrect == Spec => []TypeOK
  <1>1. HandshakeInv => TypeOK
    BY DEF HandshakeInv
  <1> QED
    BY <1>1, HandshakeInvariant, PTL

\* When Initiate accepts a key, its holder answered this M1 in this connection.
THEOREM InitiatorAgreement == Spec => []InitiatorAgrees
  <1>1. HandshakeInv => InitiatorAgrees
    BY DEF HandshakeInv
  <1> QED
    BY <1>1, HandshakeInvariant, PTL

\* When Respond accepts a key, its holder ended in the same transcript and takes
\* this responder for its peer.
THEOREM ResponderAgreement == Spec => []ResponderAgrees
  <1>1. HandshakeInv => ResponderAgrees
    BY DEF HandshakeInv
  <1> QED
    BY <1>1, HandshakeInvariant, PTL

\* A session that Respond returns has its other end.
THEOREM SessionsPair == Spec => []BothEndsExist
  <1>1. HandshakeInv => BothEndsExist
    BY DEF HandshakeInv
  <1> QED
    BY <1>1, HandshakeInvariant, PTL
=============================================================================
