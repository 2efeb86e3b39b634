----------------------------- MODULE WebSocket -----------------------------
(***************************************************************************)
(* The WebSocket client of internal/relay as a byte stream: dialWebSocket  *)
(* has succeeded, awaitPeer waits for "paired", and then TLS reads and     *)
(* writes.  One goroutine reads, one writes, and the reader answers pings. *)
(*                                                                         *)
(* The relay forwards the peer's bytes in binary messages, whole or in     *)
(* fragments, with control frames and text messages among them.  Bytes are *)
(* numbered, so that a stream is told by its length.                       *)
(***************************************************************************)
EXTENDS Naturals, Sequences, SequencesExt

CONSTANTS MaxFrameBytes,    \* maxFrameBytes
          CONTROL,          \* room for control messages that nobody reads
          INFLIGHT,         \* frames the network holds on the way to the client
          SOCKET,           \* frames it takes from the client
          MaxIn, MaxOut     \* bounds on the bytes of each direction

ASSUME WebSocketAssumption ==
    /\ MaxFrameBytes \in Nat \ {0} /\ CONTROL \in Nat
    /\ INFLIGHT \in Nat \ {0} /\ SOCKET \in Nat \ {0}
    /\ MaxIn \in Nat /\ MaxOut \in Nat

VARIABLES \* the relay
          message,  \* the message it is in the middle of: "none", "text", "binary"
          wire,     \* frames on their way to the client
          fed,      \* bytes it has put into binary messages
          out,      \* frames on their way to the relay
          heard,    \* bytes it has read
          \* the client
          phase,    \* "await", "stream", "failed" (an error was returned), "closed"
          first,    \* firstOpcode, "none" if not fragmented
          assembled, pending,
          control,  \* how many messages lie in c.control
          got,      \* bytes that Read has returned
          ponging,  \* the reader has a ping to answer
          lock,     \* who holds writeMu: "none", "reader" or "writer"
          given,    \* bytes passed to Write
          written   \* of these, bytes in frames that were written

readVars == << first, assembled, pending, control, got >>
writeVars == << out, lock, given, written >>
streamVars == << message, wire, fed, heard, phase, ponging, readVars, writeVars >>

Bytes(n) == [i \in 1..n |-> i]
Between(m, n) == [i \in 1..(n - m) |-> m + i]

\* An answer of the relay that awaitPeer tells apart; "news" is "waiting",
\* "peer_left" and whatever does not parse.
Texts == {"paired", "error", "news"}

WsFrame(op, fin, data, text) == [op |-> op, fin |-> fin, data |-> data, text |-> text]

StreamInit ==
    /\ message = "none" /\ wire = << >> /\ fed = 0 /\ out = << >> /\ heard = << >>
    /\ phase = "await" /\ first = "none" /\ assembled = << >> /\ pending = << >>
    /\ control = 0 /\ got = << >> /\ ponging = FALSE /\ lock = "none"
    /\ given = 0 /\ written = 0

(***************************************************************************)
(* The relay.                                                              *)
(***************************************************************************)

\* What it sends after the client has met an error is read by nobody.
RelaySends(f) ==
    /\ phase \in {"await", "stream"} /\ Len(wire) < INFLIGHT
    /\ wire' = Append(wire, f) /\ fed' = fed + Len(f.data)
    /\ UNCHANGED << out, heard, phase, ponging, readVars, lock, given, written >>

\* A frame of a message: its first or, when it is in the middle of one, a
\* continuation.  A text is what its last frame makes it.
RelaySpeaks(kind, text, fin, n) ==
    /\ message \in {"none", kind} /\ fed + n <= MaxIn
    /\ kind = "text" => n = 0
    /\ kind = "binary" \/ ~fin => text = "news"
    /\ RelaySends(WsFrame(IF message = "none" THEN kind ELSE "cont", fin, Between(fed, fed + n), text))
    /\ message' = IF fin THEN "none" ELSE kind

RelayControls(op) ==
    /\ RelaySends(WsFrame(op, TRUE, << >>, "news"))
    /\ UNCHANGED message

\* A frame that is masked or too long, a continuation of nothing, a message
\* inside another: the relay has gone wrong and says no more.
RelayErrs ==
    /\ message # "bad"
    /\ \E op \in {"bad"} \cup (IF message = "none" THEN {"cont"} ELSE {"binary"}) :
          RelaySends(WsFrame(op, TRUE, << >>, "news"))
    /\ message' = "bad"

\* The relay reads a frame.
RelayReads ==
    /\ out # << >> /\ out' = Tail(out)
    /\ heard' = heard \o Head(out).data
    /\ UNCHANGED << message, wire, fed, phase, ponging, readVars, lock, given, written >>

(***************************************************************************)
(* readFrame.                                                              *)
(***************************************************************************)

\* nextControl reads all the time, Read when nothing is pending.
Reading ==
    /\ wire # << >> /\ ~ponging
    /\ phase = "await" \/ (phase = "stream" /\ pending = << >>)

\* The frame is taken off the connection.
TakenOff == wire' = Tail(wire) /\ UNCHANGED << message, fed, heard >>

ReadFails == phase' = "failed" /\ UNCHANGED readVars

GetsPing ==
    /\ Reading /\ Head(wire).op = "ping" /\ TakenOff
    /\ ponging' = TRUE
    /\ UNCHANGED << phase, readVars, writeVars >>

GetsPong ==
    /\ Reading /\ Head(wire).op = "pong" /\ TakenOff
    /\ UNCHANGED << phase, ponging, readVars, writeVars >>

\* A close frame goes out if the connection takes it.
LastFrame == out' = IF Len(out) < SOCKET THEN Append(out, WsFrame("close", TRUE, << >>, "news")) ELSE out

\* The close frame is answered, if it can be, and the connection is closed.
GetsClose ==
    /\ Reading /\ Head(wire).op = "close" /\ TakenOff
    /\ lock = "none" /\ phase' = "closed" /\ LastFrame
    /\ UNCHANGED << ponging, readVars, lock, given, written >>

\* What the frame header rules out.
Illegal(f) ==
    \/ f.op = "bad"
    \/ f.op = "cont" /\ first = "none"
    \/ f.op \in {"text", "binary"} /\ first # "none"

GetsIllegal ==
    /\ Reading /\ Illegal(Head(wire)) /\ TakenOff
    /\ ReadFails
    /\ UNCHANGED << ponging, writeVars >>

Legal(f) == f.op \in {"cont", "text", "binary"} /\ ~Illegal(f)

\* The opcode and the payload of the message so far.
Kind(f) == IF f.op = "cont" THEN first ELSE f.op
Payload(f) == assembled \o f.data

TooLong(f) == Len(Payload(f)) > MaxFrameBytes

GetsTooMuch ==
    /\ Reading /\ Legal(Head(wire)) /\ TooLong(Head(wire)) /\ TakenOff
    /\ ReadFails
    /\ UNCHANGED << ponging, writeVars >>

GetsFragment ==
    /\ Reading /\ Legal(Head(wire)) /\ ~TooLong(Head(wire)) /\ ~Head(wire).fin /\ TakenOff
    /\ first' = Kind(Head(wire)) /\ assembled' = Payload(Head(wire))
    /\ UNCHANGED << phase, pending, control, got, ponging, writeVars >>

\* readFrame returns a message of this kind.
Gets(kind) ==
    /\ Reading /\ Legal(Head(wire)) /\ ~TooLong(Head(wire)) /\ Head(wire).fin /\ TakenOff
    /\ Kind(Head(wire)) = kind
    /\ first' = "none" /\ assembled' = << >>
    /\ UNCHANGED << got, ponging, writeVars >>

(***************************************************************************)
(* awaitPeer and nextControl, then Read.                                   *)
(***************************************************************************)

\* Mutant: a data frame replaces the one that was kept before.
KeepsLast(data) == pending' = data

\* nextControl: data before "paired" is kept.
Keeps(data) == pending' = pending \o data

AwaitsData ==
    /\ phase = "await" /\ Gets("binary")
    /\ Keeps(Payload(Head(wire)))
    /\ UNCHANGED << phase, control >>

AwaitsText ==
    /\ phase = "await" /\ Gets("text")
    /\ phase' = CASE Head(wire).text = "paired" -> "stream"
                  [] Head(wire).text = "error" -> "failed"
                  [] OTHER -> "await"
    /\ UNCHANGED << pending, control >>

ReadsData ==
    /\ phase = "stream" /\ Gets("binary")
    /\ pending' = Payload(Head(wire))
    /\ UNCHANGED << phase, control >>

\* Mutant: a control message waits for room.
ReadsTextBlocks ==
    /\ phase = "stream" /\ Gets("text")
    /\ control < CONTROL /\ control' = control + 1
    /\ UNCHANGED << phase, pending >>

\* A control message that finds no room is dropped.
ReadsText ==
    /\ phase = "stream" /\ Gets("text")
    /\ control' = IF control < CONTROL THEN control + 1 ELSE control
    /\ UNCHANGED << phase, pending >>

\* Mutant: what did not fit the caller's buffer is forgotten.
ReturnsAndForgets(n) ==
    /\ phase = "stream" /\ n \in 1..Len(pending)
    /\ got' = got \o SubSeq(pending, 1, n)
    /\ pending' = << >>
    /\ UNCHANGED << message, wire, fed, heard, phase, ponging, first, assembled,
                    control, writeVars >>

\* Read returns n bytes, as many as the caller has room for.
Returns(n) ==
    /\ phase = "stream" /\ n \in 1..Len(pending)
    /\ got' = got \o SubSeq(pending, 1, n)
    /\ pending' = SubSeq(pending, n + 1, Len(pending))
    /\ UNCHANGED << message, wire, fed, heard, phase, ponging, first, assembled,
                    control, writeVars >>

\* awaitPeer waits no longer, or the connection breaks.
Breaks ==
    /\ phase \in {"await", "stream"} /\ ReadFails
    /\ UNCHANGED << message, wire, fed, heard, ponging, writeVars >>

(***************************************************************************)
(* Writing.                                                                *)
(***************************************************************************)

\* TLS writes; it writes no more after an error.
Write(n) ==
    /\ phase = "stream" /\ written = given /\ n > 0 /\ given + n <= MaxOut
    /\ given' = given + n
    /\ UNCHANGED << message, wire, fed, heard, phase, ponging, readVars, out, lock, written >>

Locks(who) ==
    /\ lock = "none" /\ phase # "closed"
    /\ \/ who = "reader" /\ ponging
       \/ who = "writer" /\ written < given /\ phase = "stream"
    /\ lock' = who
    /\ UNCHANGED << message, wire, fed, heard, phase, ponging, readVars, out, given, written >>

\* Where the next frame of Write ends.
FrameEnd == IF written + MaxFrameBytes > given THEN given ELSE written + MaxFrameBytes

\* Mutant: the frame starts where the call did.
ChunkFromStart == Between(0, FrameEnd)

Chunk == Between(written, FrameEnd)

\* writeFrame of Write: a frame is on the connection as a whole.
WritesFrame ==
    /\ lock = "writer" /\ lock' = "none"
    /\ Len(out) < SOCKET /\ out' = Append(out, WsFrame("binary", TRUE, Chunk, "news"))
    /\ written' = FrameEnd
    /\ UNCHANGED << message, wire, fed, heard, phase, ponging, readVars, given >>

WritesPong ==
    /\ lock = "reader" /\ lock' = "none"
    /\ Len(out) < SOCKET /\ out' = Append(out, WsFrame("pong", TRUE, << >>, "news"))
    /\ ponging' = FALSE
    /\ UNCHANGED << message, wire, fed, heard, phase, readVars, given, written >>

\* The connection is broken, or does not take the frame until a deadline.
WriteFails ==
    /\ lock # "none" /\ lock' = "none"
    /\ phase' = "failed" /\ ponging' = (ponging /\ lock # "reader")
    /\ UNCHANGED << message, wire, fed, heard, readVars, out, given, written >>

\* Close, by a caller that met an error or has had enough.
Closes ==
    /\ phase # "closed" /\ lock = "none" /\ phase' = "closed" /\ ponging' = FALSE
    /\ LastFrame
    /\ UNCHANGED << message, wire, fed, heard, readVars, lock, given, written >>

Reads ==
    \/ GetsPing \/ GetsPong \/ GetsClose \/ GetsIllegal \/ GetsTooMuch \/ GetsFragment
    \/ AwaitsData \/ AwaitsText \/ ReadsData \/ ReadsText

StreamNext ==
    \/ \E text \in Texts, fin \in BOOLEAN : RelaySpeaks("text", text, fin, 0)
    \/ \E fin \in BOOLEAN, n \in 0..1 : RelaySpeaks("binary", "news", fin, n)
    \/ \E op \in {"ping", "pong", "close"} : RelayControls(op)
    \/ RelayErrs \/ RelayReads
    \/ Reads \/ \E n \in 1..MaxFrameBytes : Returns(n)
    \/ Breaks \/ Closes
    \/ \E n \in 1..MaxOut : Write(n)
    \/ \E who \in {"reader", "writer"} : Locks(who)
    \/ WritesFrame \/ WritesPong \/ WriteFails

\* TLS reads whatever there is, the mutex is handed on, and the relay's runtime
\* takes what is sent to it.
Fairness ==
    /\ WF_streamVars(Reads) /\ WF_streamVars(\E n \in 1..MaxFrameBytes : Returns(n))
    /\ WF_streamVars(Locks("writer")) /\ SF_streamVars(Locks("reader"))
    /\ WF_streamVars(WritesFrame) /\ WF_streamVars(WritesPong)
    /\ WF_streamVars(RelayReads)

StreamSpec == StreamInit /\ [][StreamNext]_streamVars /\ Fairness

-----------------------------------------------------------------------------
Frames == [op : {"cont", "text", "binary", "close", "ping", "pong", "bad"},
           fin : BOOLEAN, data : Seq(Nat), text : Texts]

StreamTypeOK ==
    /\ message \in {"none", "text", "binary", "bad"}
    /\ wire \in Seq(Frames) /\ Len(wire) <= INFLIGHT
    /\ out \in Seq(Frames) /\ Len(out) <= SOCKET
    /\ \A i \in 1..Len(out) : Len(out[i].data) <= MaxFrameBytes
    /\ fed \in 0..MaxIn /\ heard \in Seq(Nat) /\ got \in Seq(Nat)
    /\ phase \in {"await", "stream", "failed", "closed"}
    /\ first \in {"none", "text", "binary"}
    /\ Len(assembled) <= MaxFrameBytes /\ (first # "binary" => assembled = << >>)
    /\ pending \in Seq(Nat) /\ control \in 0..CONTROL
    /\ ponging \in BOOLEAN /\ lock \in {"none", "reader", "writer"}
    /\ given \in 0..MaxOut /\ written \in 0..given

\* The frames carry the bytes after m, up to n, in their order.
Carries(frames, m, n) ==
    \E at \in [1..Len(frames) + 1 -> m..n] :
        /\ at[1] = m /\ at[Len(frames) + 1] = n
        /\ \A i, j \in DOMAIN at : i < j => at[i] <= at[j]
        /\ \A i \in 1..Len(frames) : frames[i].data = Between(at[i], at[i + 1])

\* Every byte of the peer is somewhere, in its place, whatever control frames,
\* text messages and fragments lie between, and though some of it came before
\* "paired" ("keep it so the stream is not corrupted once TLS starts",
\* nextControl); and so is every byte that Write has put into a frame.
NothingLost ==
    /\ phase \in {"await", "stream"} =>
          LET kept == got \o pending \o assembled
          IN  kept = Bytes(Len(kept)) /\ Carries(wire, Len(kept), fed)
    /\ heard = Bytes(Len(heard)) /\ Carries(out, Len(heard), written)

\* The reader and the writer keep their buffers, their frames and their lock
\* within bounds and in order (wsConn).
StreamConsistent == StreamTypeOK /\ NothingLost

Inbound == INSTANCE Pipe WITH sent <- Bytes(fed), got <- got
Outbound == INSTANCE Pipe WITH sent <- Bytes(given), got <- heard

\* To TLS the two directions of a wsConn are a net.Conn each (Read, Write).
StreamIn == Inbound!Spec
StreamOut == Outbound!Spec

\* What the peer has sent is read in the end, unless the connection is given
\* up: neither control messages that nobody takes, nor a ping that arrives in
\* the middle of a Write, stop the stream.
AllDelivered ==
    []<>(phase = "stream" /\ message = "none" => got = Bytes(fed))
=============================================================================
