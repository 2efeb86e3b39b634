----------------------------- MODULE GuestChat -----------------------------
(***************************************************************************)
(* A guest's chatSession on the connection that Connect found: the wait    *)
(* for the greeting, the reader goroutine, the loop that owns the prompt,  *)
(* and the ticker of chat.Conn, which all write under one lock.            *)
(*                                                                         *)
(* The host is whoever is at the other end: it sends packets, reads or     *)
(* does not, and hangs up.  A packet is named by its place in what it has  *)
(* sent.  Until the greeting Receive runs on chatSession's own goroutine.  *)
(***************************************************************************)
EXTENDS Connect, SequencesExt

CONSTANTS INCOMING,   \* room in the channel from the reader to the loop
          TRANSPORT,  \* packets the transport takes while the host does not read
          MaxPackets, \* bound on what the host sends
          MaxLines,   \* bound on the lines the user types
          MaxRekeys   \* bound on the rekeys of the ticker

ASSUME GuestChatAssumption ==
    /\ INCOMING \in Nat \ {0} /\ TRANSPORT \in Nat \ {0}
    /\ MaxPackets \in Nat /\ MaxLines \in Nat /\ MaxRekeys \in Nat

Writers == {"loop", "reader", "ticker"}

VARIABLES sent,     \* the kinds of the packets the host has sent
          hostEnd,  \* "up" or "gone"
          got,      \* how many packets Receive has read
          rd,       \* the reader: see GuestTypeOK
          readEnd,  \* how it ended: "none" (not yet), "eof" or "error"
          incoming, \* the channel to the loop
          shown,    \* what the loop has rendered, in order
          wr,       \* Send in each goroutine: "idle", "wait" for writeMu, "write"
          broken,   \* a write has failed, and with it all later ones
          unread,   \* packets in the transport that the host has not read
          ticker,   \* keepRatchetTurning: "off", "on" or "done"
          how,      \* why chatSession returned: "none", "quit", "failed" or "closed"
          lines, rekeys  \* so far

chatVars == << sent, hostEnd, got, rd, readEnd, incoming, shown, wr, broken,
               unread, ticker, how, lines, rekeys >>
guestVars == << joinVars, chatVars >>

\* Receive answers "rekey" itself; "other" is shown by nobody.
Kinds == {"hello", "error", "msg", "rekey", "other"}

\* What the loop is to render: the displayed packets among the first n, the
\* greeting or what came instead of it excepted.
Displayed(n) == {i \in 1..n : sent[i] \in {"msg", "error"}}

Linked == step \in {"hello", "chat"}

GuestInit ==
    /\ JoinInit
    /\ sent = << >> /\ hostEnd = "up" /\ got = 0
    /\ rd = "off" /\ readEnd = "none"
    /\ incoming = << >> /\ shown = << >>
    /\ wr = [v \in Writers |-> "idle"] /\ broken = FALSE /\ unread = 0
    /\ ticker = "off" /\ how = "none" /\ lines = 0 /\ rekeys = 0

\* newConn starts the ticker.
ChatStarts ==
    /\ Authenticates
    /\ rd' = "receive" /\ ticker' = "on"
    /\ UNCHANGED << sent, hostEnd, got, readEnd, incoming, shown, wr, broken,
                    unread, how, lines, rekeys >>

\* chatSession returns: leaving is closed, and then the connection.
Returns(reason) ==
    /\ step' = "over" /\ how' = reason
    /\ open' = open \ {result.conn}
    /\ UNCHANGED << force, who, dialing, results, remaining, winner, result >>

(***************************************************************************)
(* Receive, and the reader goroutine around it.                            *)
(***************************************************************************)

\* Receive fails: before the greeting chatSession returns, afterwards the
\* reader goroutine ends and closes `closed'.
ReadingEnds(e) ==
    /\ rd' = "done" /\ readEnd' = e
    /\ IF step = "hello" THEN Returns("failed") ELSE UNCHANGED << joinVars, how >>

\* A record is read and it is a rekey: the answer is sent under the read lock.
ReceivesRekey ==
    /\ Linked /\ rd = "receive" /\ got < Len(sent) /\ sent[got + 1] = "rekey"
    /\ got' = got + 1
    /\ rd' = "ack" /\ wr' = [wr EXCEPT !["reader"] = "wait"]
    /\ UNCHANGED << joinVars, sent, hostEnd, readEnd, incoming, shown, broken,
                    unread, ticker, how, lines, rekeys >>

\* The first packet: a greeting, a refusal, or neither.
ReceivesFirst ==
    /\ step = "hello" /\ rd = "receive" /\ got < Len(sent) /\ sent[got + 1] # "rekey"
    /\ got' = got + 1
    /\ IF sent[got + 1] = "hello"
         THEN /\ step' = "chat" /\ UNCHANGED << rd, how >>
              /\ UNCHANGED << force, who, dialing, results, remaining, winner, open, result >>
         ELSE rd' = "done" /\ Returns("failed")
    /\ UNCHANGED << sent, hostEnd, readEnd, incoming, shown, wr, broken,
                    unread, ticker, lines, rekeys >>

\* The reader goroutine hands a packet over, unless its type is not rendered.
Receives ==
    /\ step = "chat" /\ rd = "receive" /\ got < Len(sent) /\ sent[got + 1] # "rekey"
    /\ got' = got + 1
    /\ rd' = IF sent[got + 1] \in {"msg", "error"} THEN "offer" ELSE "receive"
    /\ UNCHANGED << joinVars, sent, hostEnd, readEnd, incoming, shown, wr,
                    broken, unread, ticker, how, lines, rekeys >>

\* The host has hung up and everything it sent has been read.
SeesEnd ==
    /\ Linked /\ rd = "receive" /\ hostEnd = "gone" /\ got = Len(sent)
    /\ ReadingEnds("eof")
    /\ UNCHANGED << sent, hostEnd, got, incoming, shown, wr, broken, unread,
                    ticker, lines, rekeys >>

\* The connection breaks, or a record or packet is not what it should be.
ReceiveFails ==
    /\ Linked /\ rd = "receive"
    /\ ReadingEnds("error")
    /\ UNCHANGED << sent, hostEnd, got, incoming, shown, wr, broken, unread,
                    ticker, lines, rekeys >>

\* The connection has been closed at this end.
SeesClosed ==
    /\ step = "over" /\ rd = "receive"
    /\ ReadingEnds("error")
    /\ UNCHANGED << sent, hostEnd, got, incoming, shown, wr, broken, unread,
                    ticker, lines, rekeys >>

\* Mutant: the packet is dropped when the channel is full.
HandsOverOrDrops ==
    /\ rd = "offer" /\ rd' = "receive"
    /\ incoming' = IF Len(incoming) < INCOMING THEN Append(incoming, got) ELSE incoming
    /\ UNCHANGED << joinVars, sent, hostEnd, got, readEnd, shown, wr, broken,
                    unread, ticker, how, lines, rekeys >>

HandsOver ==
    /\ rd = "offer" /\ Len(incoming) < INCOMING
    /\ incoming' = Append(incoming, got) /\ rd' = "receive"
    /\ UNCHANGED << joinVars, sent, hostEnd, got, readEnd, shown, wr, broken,
                    unread, ticker, how, lines, rekeys >>

\* Mutant: nothing tells the reader that the loop has gone.
IsReleasedNever ==
    /\ FALSE
    /\ UNCHANGED guestVars

\* leaving is closed: the packet is dropped.
IsReleased ==
    /\ rd = "offer" /\ step = "over" /\ rd' = "receive"
    /\ UNCHANGED << joinVars, sent, hostEnd, got, readEnd, incoming, shown, wr,
                    broken, unread, ticker, how, lines, rekeys >>

(***************************************************************************)
(* Send, in the three goroutines that use it.                              *)
(***************************************************************************)

\* writeMu: one packet is written at a time, in the order it was sealed.
Locks(v) ==
    /\ wr[v] = "wait" /\ \A u \in Writers : wr[u] # "write"
    /\ wr' = [wr EXCEPT ![v] = "write"]
    /\ UNCHANGED << joinVars, sent, hostEnd, got, rd, readEnd, incoming, shown,
                    broken, unread, ticker, how, lines, rekeys >>

\* The transport takes the packet; a host that has just gone makes no
\* difference yet.
Written(v) ==
    /\ wr[v] = "write" /\ wr' = [wr EXCEPT ![v] = "idle"]
    /\ Linked /\ ~broken /\ unread < TRANSPORT
    /\ unread' = unread + 1
    /\ rd' = IF v = "reader" THEN "receive" ELSE rd
    /\ UNCHANGED << joinVars, sent, hostEnd, got, readEnd, incoming, shown,
                    broken, ticker, how, lines, rekeys >>

\* Mutant: no write deadline.
CannotWriteEver == broken \/ ~Linked \/ hostEnd = "gone"

\* The connection is closed at either end, an earlier write was cut short, or
\* the host does not read until the write deadline.
CannotWrite == broken \/ ~Linked \/ hostEnd = "gone" \/ unread = TRANSPORT

\* A message that fails ends the chat, a nick does not; an answer that fails
\* ends Receive; a rekey that fails ends the ticker.
WriteFails(v) ==
    /\ wr[v] = "write" /\ wr' = [wr EXCEPT ![v] = "idle"]
    /\ CannotWrite /\ broken' = TRUE
    /\ \/ /\ v = "loop"
          /\ Returns("failed") \/ UNCHANGED << joinVars, how >>
          /\ UNCHANGED << rd, readEnd, ticker >>
       \/ v = "reader" /\ ReadingEnds("error") /\ UNCHANGED ticker
       \/ v = "ticker" /\ ticker' = "done" /\ UNCHANGED << joinVars, how, rd, readEnd >>
    /\ UNCHANGED << sent, hostEnd, got, incoming, shown, unread, lines, rekeys >>

TickerFires ==
    /\ ticker = "on" /\ wr["ticker"] = "idle" /\ Linked
    /\ rekeys < MaxRekeys /\ rekeys' = rekeys + 1
    /\ wr' = [wr EXCEPT !["ticker"] = "wait"]
    /\ UNCHANGED << joinVars, sent, hostEnd, got, rd, readEnd, incoming, shown,
                    broken, unread, ticker, how, lines >>

\* stop is closed.
TickerStops ==
    /\ ticker = "on" /\ wr["ticker"] = "idle" /\ step = "over"
    /\ ticker' = "done"
    /\ UNCHANGED << joinVars, sent, hostEnd, got, rd, readEnd, incoming, shown,
                    wr, broken, unread, how, lines, rekeys >>

(***************************************************************************)
(* The loop, and the host.                                                 *)
(***************************************************************************)

AtPrompt == step = "chat" /\ wr["loop"] = "idle"

Shows ==
    /\ AtPrompt /\ incoming # << >>
    /\ shown' = Append(shown, Head(incoming)) /\ incoming' = Tail(incoming)
    /\ UNCHANGED << joinVars, sent, hostEnd, got, rd, readEnd, wr, broken,
                    unread, ticker, how, lines, rekeys >>

\* A message or a new nickname.
Types ==
    /\ AtPrompt /\ lines < MaxLines /\ lines' = lines + 1
    /\ wr' = [wr EXCEPT !["loop"] = "wait"]
    /\ UNCHANGED << joinVars, sent, hostEnd, got, rd, readEnd, incoming, shown,
                    broken, unread, ticker, how, rekeys >>

\* /quit, or a message that Send refuses for its length.
Leaves ==
    /\ AtPrompt
    /\ \E reason \in {"quit", "failed"} : Returns(reason)
    /\ UNCHANGED << sent, hostEnd, got, rd, readEnd, incoming, shown, wr,
                    broken, unread, ticker, lines, rekeys >>

\* Mutant: what is queued is not shown.
SeesClosedAtOnce ==
    /\ AtPrompt /\ rd = "done"
    /\ Returns("closed")
    /\ UNCHANGED << sent, hostEnd, got, rd, readEnd, incoming, shown, wr,
                    broken, unread, ticker, lines, rekeys >>

\* closed: what is queued is shown first.
ChatCloses ==
    /\ AtPrompt /\ rd = "done"
    /\ shown' = shown \o incoming /\ incoming' = << >>
    /\ Returns("closed")
    /\ UNCHANGED << sent, hostEnd, got, rd, readEnd, wr, broken, unread,
                    ticker, lines, rekeys >>

\* A greeting or a refusal comes first, if it comes at all.
HostSends(kind) ==
    /\ Linked /\ hostEnd = "up" /\ Len(sent) < MaxPackets
    /\ kind \in {"hello", "error"} => sent = << >>
    /\ sent' = Append(sent, kind)
    /\ UNCHANGED << joinVars, hostEnd, got, rd, readEnd, incoming, shown, wr,
                    broken, unread, ticker, how, lines, rekeys >>

HostReads ==
    /\ Linked /\ hostEnd = "up" /\ unread > 0 /\ unread' = unread - 1
    /\ UNCHANGED << joinVars, sent, hostEnd, got, rd, readEnd, incoming, shown,
                    wr, broken, ticker, how, lines, rekeys >>

HostHangsUp ==
    /\ Linked /\ hostEnd = "up" /\ hostEnd' = "gone"
    /\ UNCHANGED << joinVars, sent, got, rd, readEnd, incoming, shown, wr,
                    broken, unread, ticker, how, lines, rekeys >>

Reads ==
    \/ ReceivesRekey \/ ReceivesFirst \/ Receives \/ SeesEnd \/ SeesClosed
    \/ HandsOver \/ IsReleased

Writes(v) == Locks(v) \/ Written(v) \/ WriteFails(v)

GuestNext ==
    \/ JoinStep /\ UNCHANGED chatVars
    \/ ChatStarts
    \/ Reads \/ ReceiveFails
    \/ \E v \in Writers : Writes(v)
    \/ TickerFires \/ TickerStops
    \/ Shows \/ Types \/ Leaves \/ ChatCloses
    \/ \E kind \in Kinds : HostSends(kind)
    \/ HostReads \/ HostHangsUp

\* The guest's goroutines run; a write ends by the write deadline.  The user,
\* the host and the clock of the ticker do what they like.
GuestFairness ==
    /\ WF_guestVars((Joins /\ UNCHANGED chatVars) \/ ChatStarts)
    /\ WF_guestVars(Drains /\ UNCHANGED chatVars)
    /\ \A e \in Endpoints :
          WF_guestVars((\E ok \in BOOLEAN : DialAnswers(e, ok)) /\ UNCHANGED chatVars)
    /\ WF_guestVars(Reads) /\ WF_guestVars(Shows \/ ChatCloses)
    /\ WF_guestVars(TickerStops)
    /\ \A v \in Writers : WF_guestVars(Writes(v))

GuestSpec == GuestInit /\ [][GuestNext]_guestVars /\ GuestFairness

-----------------------------------------------------------------------------
GuestTypeOK ==
    /\ JoinTypeOK
    /\ Len(sent) <= MaxPackets /\ sent \in Seq(Kinds)
    /\ hostEnd \in {"up", "gone"} /\ got \in 0..Len(sent)
    /\ rd \in {"off", "receive", "ack", "offer", "done"}
    /\ readEnd \in {"none", "eof", "error"}
    /\ Len(incoming) <= INCOMING /\ unread \in 0..TRANSPORT
    /\ wr \in [Writers -> {"idle", "wait", "write"}]
    /\ rd = "ack" <=> wr["reader"] # "idle"
    /\ \A u, v \in Writers : wr[u] = "write" /\ wr[v] = "write" => u = v
    /\ ticker \in {"off", "on", "done"} /\ how \in {"none", "quit", "failed", "closed"}
    /\ broken \in BOOLEAN /\ lines \in 0..MaxLines /\ rekeys \in 0..MaxRekeys

\* From Join to the end of the chat the loop over the dials counts right, the
\* connection that Join returned is open, and the goroutines share the
\* connection as they should (dialFastest, chatSession, writeMu).
GuestConsistent == GuestTypeOK /\ CountsDials /\ ResultStaysOpen

\* s is what is to be rendered of the first n packets, each once and in the
\* order the host sent them.
Renders(s, n) ==
    /\ Range(s) = Displayed(n)
    /\ \A i, j \in DOMAIN s : i < j => s[i] < s[j]

\* The packet the reader goroutine holds.
Held == IF rd = "offer" THEN << got >> ELSE << >>

\* One place owns the prompt (chatSession): what the host says is rendered in
\* the order it was said, and as long as the user has not left nothing of it
\* is missing between the connection and the screen.
NothingSkipped ==
    /\ \E n \in 0..got : Renders(shown, n)
    /\ step = "chat" => Renders(shown \o incoming \o Held, got)

\* "Anything that arrived just before the far end hung up is still worth
\* showing" (chatSession, closed).
LastWordsShown == how = "closed" /\ readEnd = "eof" => Renders(shown, Len(sent))

\* When chatSession has returned nothing of it is left: the reader goroutine is
\* released from a full channel, the ticker has seen stop, and no connection is
\* open, those that answered after another had won or after the budget
\* included ("nothing is leaked", dialFastest).
NothingLeftBehind ==
    step = "over" ~> rd \in {"off", "done"} /\ ticker # "on" /\ open = {}

\* A host that no longer reads does not keep the guest from reading: an answer
\* to a rekey, sent under the read lock, goes out or fails (WriteTimeout), and
\* what the host has said is shown or the chat ends.
KeepsReading == []<>(step = "chat" => Renders(shown, Len(sent)))
=============================================================================
