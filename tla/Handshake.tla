----------------------------- MODULE Handshake ------------------------------
(***************************************************************************)
(* The CMDC2 handshake: Initiate and Respond of internal/e2ee, with        *)
(* openAuth and sealAuth.  Several runs of it go on at once, each inside a *)
(* TLS connection of its own; whoever carries the bytes may lose, repeat,  *)
(* change and misroute them, and may itself take part with keys that no    *)
(* run of this program holds.                                              *)
(*                                                                         *)
(* Cryptography is symbolic and perfect.  A transcript hash is what was    *)
(* hashed.  A run's name stands for what it draws afresh: X25519 key,      *)
(* ML-KEM key or ciphertext, and random.  Every handshake key is derived   *)
(* from th2 and from the secret of th2's two ephemerals, so whoever owns   *)
(* one of them can derive it and nobody else.                              *)
(***************************************************************************)
EXTENDS Naturals, Sequences

CONSTANTS Initiators, Responders,  \* runs of Initiate and of Respond
          Outsider,    \* an ephemeral that is none of theirs
          Channels,    \* TLS exporter values
          Keys, IDs,   \* identity keys and CMD-Chat IDs
          Outside,     \* identity keys that others hold
          SmallOrder,  \* keys under which anything verifies
          Versions, SupportedVersions,
          KeyOf, Channel, ExpectPeerID,  \* the runs' Config
          DeriveID(_),
          None

Runs == Initiators \cup Responders
Ephemerals == Runs \cup {Outsider}

ASSUME RunsAssumption ==
    Initiators \cap Responders = {} /\ Outsider \notin Runs

ASSUME ConfigAssumption ==
    /\ Outside \subseteq Keys /\ SmallOrder \subseteq Keys
    /\ KeyOf \in [Runs -> Keys \ (Outside \cup SmallOrder)]
    /\ Channel \in [Runs -> Channels]
    /\ ExpectPeerID \in [Initiators -> IDs \cup {None}]
    /\ \A k \in Keys : DeriveID(k) \in IDs

ASSUME VersionAssumption ==
    SupportedVersions \in Seq(Versions) /\ SupportedVersions # << >>

VARIABLES pc,      \* how far a run is
          th2,     \* its transcript up to the header of M2, or None
          c2, c3,  \* the sealed AuthPayloads of its transcript, or None
          peer,    \* the key its peer has proven, or None
          sealed   \* every AuthPayload a run has sealed

vars == << pc, th2, c2, c3, peer, sealed >>

Supported == {SupportedVersions[n] : n \in DOMAIN SupportedVersions}

Transcripts2 ==
    [channel : Channels, offered : SUBSET Versions, initiator : Ephemerals,
     version : Supported, responder : Ephemerals]

ASSUME NoneAssumption == None \notin Keys \cup IDs \cup Transcripts2

\* selectVersion: the first of ours that the peer offered.
selectVersion(offered) ==
    LET first == CHOOSE n \in DOMAIN SupportedVersions :
                     /\ SupportedVersions[n] \in offered
                     /\ \A k \in DOMAIN SupportedVersions :
                            k < n => SupportedVersions[k] \notin offered
    IN  SupportedVersions[first]

\* Mutant: the transcript does not begin with the channel binding.
Transcript2Unbound(run, offered, ephI, version, ephR) ==
    [channel |-> CHOOSE c \in Channels : TRUE, offered |-> offered,
     initiator |-> ephI, version |-> version, responder |-> ephR]

\* th0, th1 and th2 in one: the channel binding, M1 and the header of M2.
Transcript2(run, offered, ephI, version, ephR) ==
    [channel |-> Channel[run], offered |-> offered, initiator |-> ephI,
     version |-> version, responder |-> ephR]

(***************************************************************************)
(* AuthPayloads.  The role names the labels and the AEAD key, th is the    *)
(* transcript that is signed and authenticated, of is the th2 behind the   *)
(* keys; verifies and confirms tell whether the signature and the MAC are  *)
(* those of this payload.                                                  *)
(***************************************************************************)

sealAuth(run, role, of, th) ==
    [role |-> role, of |-> of, th |-> th, pub |-> KeyOf[run],
     id |-> DeriveID(KeyOf[run]), verifies |-> TRUE, confirms |-> TRUE]

\* A signature for a payload exists: others hold the key, or any signature
\* verifies, or a run has signed this very context.
Signable(box) ==
    \/ box.pub \in Outside \cup SmallOrder
    \/ \E b \in sealed : /\ b.role = box.role /\ b.th = box.th
                         /\ b.pub = box.pub /\ b.id = box.id

\* The payloads others can seal for a receiver at transcript th.
OutsideBoxes(role, of, th) ==
    {box \in [role : {role}, of : {of}, th : {th}, pub : Keys, id : IDs,
              verifies : BOOLEAN, confirms : BOOLEAN] :
        /\ Outsider \in {of.initiator, of.responder}
        /\ box.verifies => Signable(box)}

\* Mutant: the signature is not verified.
openAuthUnsigned(box, role, of, th, expected) ==
    /\ box.role = role /\ box.of = of /\ box.th = th
    /\ box.pub \notin SmallOrder
    /\ DeriveID(box.pub) = box.id
    /\ box.confirms
    /\ expected # None => expected = box.id

\* What openAuth requires, in its order; expected is ExpectPeerID or None.
\* The decision of the trust store is not modelled here: it may refuse.
openAuth(box, role, of, th, expected) ==
    /\ box.role = role /\ box.of = of /\ box.th = th
    /\ box.pub \notin SmallOrder
    /\ DeriveID(box.pub) = box.id
    /\ box.verifies
    /\ box.confirms
    /\ expected # None => expected = box.id

-----------------------------------------------------------------------------
Init ==
    /\ pc = [run \in Runs |-> "start"]
    /\ th2 = [run \in Runs |-> None]
    /\ c2 = [run \in Runs |-> None] /\ c3 = [run \in Runs |-> None]
    /\ peer = [run \in Runs |-> None]
    /\ sealed = {}

\* An ephemeral can be in a message once it was sent.
Published(eph) == eph # Outsider => pc[eph] # "start"

\* Initiate sends M1.
SendsM1(i) ==
    /\ pc[i] = "start" /\ pc' = [pc EXCEPT ![i] = "sent1"]
    /\ UNCHANGED << th2, c2, c3, peer, sealed >>

\* Respond reads an M1, whatever was made of it on the way, and answers with M2.
ReceivesM1(r, offered, eph) ==
    LET th  == Transcript2(r, offered, eph, selectVersion(offered), r)
        box == sealAuth(r, "responder", th, <<th>>)
    IN  /\ pc[r] = "start" /\ Published(eph)
        /\ offered \cap Supported # {}
        /\ pc' = [pc EXCEPT ![r] = "sent2"]
        /\ th2' = [th2 EXCEPT ![r] = th]
        /\ c2' = [c2 EXCEPT ![r] = box]
        /\ sealed' = sealed \cup {box}
        /\ UNCHANGED << c3, peer >>

\* Initiate reads an M2 and opens it, then seals and sends M3.
ReceivesM2(i, version, eph) ==
    LET th == Transcript2(i, Supported, i, version, eph)
    IN  /\ pc[i] = "sent1" /\ Published(eph)
        /\ version \in Supported
        /\ \E box \in sealed \cup OutsideBoxes("responder", th, <<th>>) :
               LET mine == sealAuth(i, "initiator", th, <<th, box>>)
               IN  /\ openAuth(box, "responder", th, <<th>>, ExpectPeerID[i])
                   /\ c2' = [c2 EXCEPT ![i] = box]
                   /\ peer' = [peer EXCEPT ![i] = box.pub]
                   /\ c3' = [c3 EXCEPT ![i] = mine]
                   /\ sealed' = sealed \cup {mine}
        /\ th2' = [th2 EXCEPT ![i] = th]
        /\ pc' = [pc EXCEPT ![i] = "sent3"]

\* Respond reads an M3, opens it and builds its session.
ReceivesM3(r) ==
    LET th == <<th2[r], c2[r]>>
    IN  /\ pc[r] = "sent2"
        /\ \E box \in sealed \cup OutsideBoxes("initiator", th2[r], th) :
               /\ openAuth(box, "initiator", th2[r], th, None)
               /\ c3' = [c3 EXCEPT ![r] = box]
               /\ peer' = [peer EXCEPT ![r] = box.pub]
        /\ pc' = [pc EXCEPT ![r] = "keyed"]
        /\ UNCHANGED << th2, c2, sealed >>

\* Initiate writes the priming record M4 and returns its session.
SendsM4(i) ==
    /\ pc[i] = "sent3" /\ pc' = [pc EXCEPT ![i] = "done"]
    /\ UNCHANGED << th2, c2, c3, peer, sealed >>

\* Two ends have the same th4, and thus the same root key.
SameTranscript(a, b) == th2[a] = th2[b] /\ c2[a] = c2[b] /\ c3[a] = c3[b]

\* Mutant: the priming record is not opened.
ReceivesM4Unread(r) ==
    /\ pc[r] = "keyed" /\ pc' = [pc EXCEPT ![r] = "done"]
    /\ UNCHANGED << th2, c2, c3, peer, sealed >>

\* Respond opens a priming record: somebody who has the root key sealed it.
ReceivesM4(r) ==
    /\ pc[r] = "keyed"
    /\ \/ Outsider \in {th2[r].initiator, th2[r].responder}
       \/ \E i \in Initiators : pc[i] = "done" /\ SameTranscript(i, r)
    /\ pc' = [pc EXCEPT ![r] = "done"]
    /\ UNCHANGED << th2, c2, c3, peer, sealed >>

\* Any error return: the deadline, a closed connection, a malformed frame, no
\* common version, a payload openAuth or the trust store refuses, a primer that
\* does not open or is not empty.
Fails(run) ==
    /\ pc[run] \notin {"done", "failed"}
    /\ pc' = [pc EXCEPT ![run] = "failed"]
    /\ UNCHANGED << th2, c2, c3, peer, sealed >>

Next ==
    \/ \E i \in Initiators :
           \/ SendsM1(i) \/ SendsM4(i)
           \/ \E v \in Versions, eph \in Ephemerals : ReceivesM2(i, v, eph)
    \/ \E r \in Responders :
           \/ \E offered \in SUBSET Versions, eph \in Ephemerals :
                  ReceivesM1(r, offered, eph)
           \/ ReceivesM3(r) \/ ReceivesM4(r)
    \/ \E run \in Runs : Fails(run)

Spec == Init /\ [][Next]_vars

-----------------------------------------------------------------------------
Boxes(role, ths) ==
    [role : {role}, of : Transcripts2, th : ths, pub : Keys, id : IDs,
     verifies : BOOLEAN, confirms : BOOLEAN]
Boxes2 == Boxes("responder", Seq(Transcripts2))
Boxes3 == Boxes("initiator", Transcripts2 \X Boxes2)

\* The transcripts a run holds are of versions this build speaks, and no key
\* under which anything verifies counts as proven.
TypeOK ==
    /\ pc \in [Runs -> {"start", "sent1", "sent2", "sent3", "keyed", "done",
                        "failed"}]
    /\ th2 \in [Runs -> Transcripts2 \cup {None}]
    /\ c2 \in [Runs -> Boxes2 \cup {None}]
    /\ c3 \in [Runs -> Boxes3 \cup {None}]
    /\ peer \in [Runs -> (Keys \ SmallOrder) \cup {None}]
    /\ sealed \subseteq Boxes2 \cup Boxes3

Held == Keys \ Outside

\* SECURITY.md 5.4, "both sides finish with agreement on the full transcript,
\* including who the other party is", at the initiator: when Initiate has
\* accepted a key that is not an outsider's, a run of Respond with that key
\* answered this very M1, in the same TLS connection, with this very M2.
InitiatorAgrees ==
    \A i \in Initiators : peer[i] \in Held =>
        \E r \in Responders :
            /\ KeyOf[r] = peer[i] /\ Channel[r] = Channel[i]
            /\ th2[r] = th2[i] /\ c2[r] = c2[i]

\* The same at the responder: when Respond has accepted such a key, a run of
\* Initiate with that key ended in the same transcript and the same connection,
\* and takes this responder for its peer.
ResponderAgrees ==
    \A r \in Responders : peer[r] \in Held =>
        \E i \in Initiators :
            /\ KeyOf[i] = peer[r] /\ peer[i] = KeyOf[r]
            /\ Channel[i] = Channel[r] /\ SameTranscript(i, r)

\* "it doubles as confirmation that the record layer itself agrees on keys":
\* when Respond returns a session with such a peer, Initiate has returned the
\* other end of it.
BothEndsExist ==
    \A r \in Responders : (pc[r] = "done" /\ peer[r] \in Held) =>
        \E i \in Initiators : /\ pc[i] = "done" /\ SameTranscript(i, r)
                              /\ KeyOf[i] = peer[r]

-----------------------------------------------------------------------------
\* The strengthening behind these properties: a run that has a transcript has
\* itself and its own connection in it, and what it holds fits together.
RunsConsistent ==
    /\ \A run \in Runs :
         /\ pc[run] \in {"start", "sent1"} =>
                th2[run] = None /\ c2[run] = None /\ c3[run] = None /\ peer[run] = None
         /\ pc[run] \in {"sent2", "sent3", "keyed", "done"} =>
                th2[run] \in Transcripts2 /\ c2[run] \in Boxes2
         /\ th2[run] # None => th2[run].channel = Channel[run]
         /\ peer[run] # None => th2[run] \in Transcripts2 /\ c2[run] \in Boxes2
    /\ \A i \in Initiators :
         /\ th2[i] # None => th2[i].initiator = i
         /\ peer[i] # None => c2[i].pub = peer[i]
         /\ c3[i] # None => c3[i].pub = KeyOf[i]
    /\ \A r \in Responders :
         /\ th2[r] # None => th2[r].responder = r /\ c2[r].pub = KeyOf[r]
         /\ peer[r] # None => c3[r].pub = peer[r]
         /\ pc[r] = "sent2" => peer[r] = None /\ c3[r] = None

\* A sealed payload is the one its run still holds, at that run's transcript.
SealedByRuns ==
    \A box \in sealed :
        \/ \E r \in Responders :
               /\ box.role = "responder" /\ box.of = th2[r] /\ box.th = <<th2[r]>>
               /\ box = c2[r] /\ box.pub = KeyOf[r] /\ th2[r] # None
        \/ \E i \in Initiators :
               /\ box.role = "initiator" /\ box.of = th2[i]
               /\ box.th = <<th2[i], c2[i]>> /\ box = c3[i]
               /\ box.pub = KeyOf[i] /\ peer[i] = c2[i].pub /\ th2[i] # None

HandshakeInv ==
    /\ TypeOK /\ RunsConsistent /\ SealedByRuns
    /\ InitiatorAgrees /\ ResponderAgrees /\ BothEndsExist
=============================================================================
