# CMD-Chat: specifications, model checking and proofs

CMD-Chat is a terminal chat. Every instance that is open is a *station*: it
listens on TCP, publishes itself in a directory (the *phonebook*) under a
blinded handle, and waits on a *relay* for guests that cannot reach it directly.
A guest finds a host by its ID, runs TLS and then the CMDC2 handshake, and both
sides exchange records encrypted by a double ratchet. The host keeps a room for
one guest, or for several when group chat is on.

This directory holds TLA+ modules for the parts whose correctness depends on
orders of events that tests hardly reach, TLC configurations for them, and
TLAPS proofs. `PROJECT.json` lists components, runs, mutants, the source lines
behind each definition, hazards and theorems.

## 1. Inventory

| Part | Source | State | Operations | Interacts with |
|---|---|---|---|---|
| Ratchet and session | `internal/e2ee/ratchet.go`, `session.go` | root, sending and receiving chains and counters, skipped keys, closed flag | `Encrypt`, `Decrypt`, `Close` | one peer, through any transport |
| Handshake | `internal/e2ee/handshake.go` | transcript, ephemeral keys | `Initiate`, `Respond`, four messages | trust store; yields a session |
| Trust store | `internal/auth/trust.go` | one file, a copy per handshake | `Authorize`, `Forget` | every handshake of every process |
| Identity store | `internal/identity/store.go`, `identity.go` | one file, a temporary file per `Save` | `LoadOrCreate`, `Load`, `Save` | every command starts with it |
| Chat room | `internal/chat/chat.go` (`Host`) | `Clients`, `members`, `group`, names | `serve` per guest, `broadcast`, `sendRoster`, `Disconnect`, `SetGroup`, `SetName` | sessions; announces guests to the station |
| Chat connection | `internal/chat/chat.go` (`Conn`, `ClientConn`) | `writeMu`, the read lock, the rekey ticker | `Send`, `Receive`, `Close` | a session; the room or `chatSession` |
| Station | `cmd/cmd-chat/main.go` | channels `peers` and `left`, where the prompt is | `OnPeer`, `ready`, `hostChat`, `joinPeer`, `chatSession` | chat room, connection strategy |
| Connection strategy | `internal/connect/connect.go` | the dials of one search | `Join`: LAN, lookup, `dialFastest`, relay | phonebook, relay; hands a connection to `chatSession` |
| Relay session | `workers/relay/src/index.js` | standby host, partner map, byte count, two timers | `fetch`, message, close and error handlers, timers | hosts and guests over WebSocket |
| WebSocket client | `internal/relay/websocket.go` | assembled and pending bytes, control channel, `writeMu` | `readFrame`, `nextControl`, `Read`, `Write`, `Close` | relay; TLS above it |
| Host behind the relay | `internal/connect/serve.go`, `internal/relay/relay.go` | backoff, the connection it waits on | `ServeRelay`, `Listen`, `awaitPeer` | relay session, chat room |
| Phonebook, blinded | `workers/phonebook/src`, `internal/phonebook/phonebook.go` | a row per handle; the client's last timestamp | publish, touch, revoke, lookup, collection | stations and guests |
| Phonebook v1, rate limiter | `workers/phonebook/src/lib/db.js`, `ratelimit.js` | rows, windows | the same, and bumping | - |
| Profile, discovery, bridge, GUI, probing, update, debug | the other packages | small files or none | - | station |

What is hard here, and the properties that make each part correct:

* **Session**: records are lost, late, repeated and damaged, and both sides turn
  the ratchet at once. Nothing opens twice, no message key encrypts twice, a
  record within the window opens whatever arrived before it, a damaged record
  moves nothing.
* **Handshake**: runs overlap, and messages are changed or reach another run. Both
  ends agree on the transcript and on who the other is, or there is no session.
* **Trust store**: handshakes and `forget` commands of several processes load,
  check and rewrite one file without a lock, and a write may break off. A key
  changes only by `forget`, and a first contact is announced as one.
* **Identity store**: processes with different passphrases and accounts start at
  once, crash or lose power inside `Save`. The identity is never replaced,
  ruined or less protected.
* **Relay session**: sockets close and fail in any order, and events of an old
  socket arrive after its successor has joined. Frames never cross
  conversations, a parked host keeps its place until somebody may take it, timers
  guard what is parked or paired, and the survivor of a pair is told.
* **Host behind the relay**: timeouts race with pairing. The host is on standby
  again and again, and no connection that nobody reads is left open.
* **WebSocket client**: data comes before the word that the peer is there, in
  fragments, with pings and text messages between. To TLS each direction is a
  byte stream.
* **Phonebook**: handlers interleave at every `await`, requests are delayed and
  repeated, clocks differ. A handle never changes hands, a revoked row stays
  revoked, a row shows online only on recent evidence.
* **Connection strategy and the guest's chat**: dials answer late, the relay and
  the announcement name peers of their own, three goroutines write under one lock,
  the host stops reading or hangs up. The guest talks to whom it asked for, sees
  everything in order to the last word, and leaves nothing running.
* **Chat room**: one goroutine per guest, with a lock that covers the maps and
  not the sends. One seat holds one guest, a refused guest sees nothing, a guest
  that is gone leaves the room, rosters settle.
* **Station**: bounded channels that drop, a reader that goes away, `/quit` that
  drains. A guest who is in the room is answered.

The hazards are listed with their lines in `PROJECT.json`.

## 2. Modules

| Module | Models | Checked by | Proofs |
|---|---|---|---|
| `Ratchet` | `ratchet.go`, as operators on the ratchet record | through `Session` | through `Session_proofs` |
| `Courier` | what one direction of a session promises (abstract) | through `Session` | through `Session_proofs` |
| `Session` | two sessions and the network between them; implements two `Courier`s | `MCSession` | `Session_proofs` |
| `Handshake` | concurrent runs of `Initiate` and `Respond` | `MCHandshake` | `Handshake_proofs` |
| `FirstUse` | what trust on first use promises (abstract) | through `TrustStore` | through `TrustStore_proofs` |
| `TrustStore` | the trust file and everybody who rewrites it; implements `FirstUse` | `MCTrustStore` | `TrustStore_proofs` |
| `IdentityStore` | the identity file and the processes that start from it | `IdentityStore` with `MCIdentityStore.cfg` | `IdentityStore_proofs` |
| `RelaySession` | one Durable Object and its sockets | `MCRelaySession` | `Relay_proofs` |
| `RelayHost` | `ServeRelay`, composed with `RelaySession` | `MCRelayHost` | `Relay_proofs` |
| `Pipe` | what a byte stream promises (abstract) | through `WebSocket` | through `Relay_proofs` |
| `WebSocket` | `wsConn` between TLS and the relay; implements two `Pipe`s | `WebSocket` with `MCWebSocket.cfg` | `Relay_proofs` |
| `PhonebookEntries` | one handle: clients and worker | `MCPhonebookEntries` | `PhonebookEntries_proofs` |
| `Connect` | `Join` up to the handshake | through `GuestChat` | through `Terminal_proofs` |
| `GuestChat` | the guest's `chatSession` and `chat.Conn`, composed with `Connect` | `MCGuestChat` | `Terminal_proofs` |
| `ChatRoom` | `chat.Host` with its goroutines | `MCChatRoom`, `MCChatLeave.cfg` | `ChatRoom_proofs` |
| `Station` | event channels and the prompt | `MCStation` | `Terminal_proofs` |

Definitions keep the names of the functions they model; an action that has no
function of its own is named for what it does. Definitions that a comment calls
"Mutant" are plausible mistakes in the definition that follows them; no
specification uses them. They exist to show that a property can fail.

**Ratchet, Courier, Session.** A chain key is symbolic: the sequence of DH results mixed
into its root, and a position. `ECDH` of two public keys is the set of the two,
so both sides agree exactly when they combine the same keys; `Advance` is one
application of `kdfChainKey`. `receive` works on a copy, and `Decrypt` commits
it only if the record opens, as in the code. `sent` keeps every record, so
delivery in any order, any number of times or never is a choice of `Decrypt`;
`Damaged` records have another header than they were sealed with. `written` and
`read` are history: they number the texts that `Encrypt` sealed, so that no two
calls make the same record by accident, and count those that `Decrypt` returned.
`ToResponder` and `ToInitiator` map the two directions to `Courier`: what was
sealed is taken in any order, not after `Close`, and each record once. `Courier`
counts what it delivers, so that a second opening of a record would be a step that
it does not have. Limits are constants: `MaxSkip`, `MaxSkipStore`, and `MaxCount`
for the 32-bit counters, which wrap there (`Increment`).

**Handshake.** A run's name stands for everything it draws afresh (X25519 key,
ML-KEM key or ciphertext, random), a transcript hash for what was hashed, and a
handshake key can be derived by whoever owns one of the two ephemerals in `th2`.
A run reads whatever the carrier makes of a message: an M1 with any ephemeral
already sent and any list of versions, an M2 with any header, any sealed payload.
Peers outside (`Outsider`, `Outside`) seal any payload under keys they can
derive, with signatures of their own or ones already made. `openAuth` is the
conjunction of its checks; every error return, the trust store's included, is
`Fails`. The session starts from `th4` (`SameTranscript`).

**FirstUse, TrustStore.** A handshake or a `forget` is an actor: it loads a copy
of the file, decides, and writes the whole copy back. The write is two steps,
`Truncates` and `Writes` or `BreaksOff`, because `os.WriteFile` empties the file
first; a file caught between the two loads as an empty store. Two writers at once
may leave a torn file (`Written`), which loads as empty too. `pinned` is
history, the outcome of the completed decisions; `disturbed` says that two
writers met or a write broke off, and everything is claimed up to then.
`FirstUse` is the promise: a key is met, or forgotten while the user asks for it
(`wishes`, the `forget` commands under way), or, once `lost`, anything.

**IdentityStore.** A process has an environment (a passphrase or none, a Windows
account or none), and `LoadOrCreate` is a step that reads followed by `Save`'s
steps: seal and check the seal, write the temporary file, sync it, rename it. A
process stops between any two of them, a power loss stops all and takes what was
not synced. `behind` holds the processes that decided on a file which has been
replaced since, and `clash` remembers how one of them replaced it: by a second
first run, or by a second upgrade. That a completed rename survives a power loss
is assumed (`durable` is about the content).

**RelaySession.** A socket goes `none`, `open`, `closing` (the worker has closed
it), `lost` (its client is gone, no event yet), `errored` (the error event came
first). Each event handler is an action, `closePair`, `teardown`, `shutdown`
and the timer operations are operators. The object may be evicted and built
again (`Restart`). Time is a clock up to `Horizon`; timers fire late, never
early. `mate` is history: whom a socket was paired with.

**RelayHost** extends `RelaySession` with the loop of `ServeRelay`: dialling,
waiting until `RELAY_WAIT`, failing (at most `MaxFaults` times, so that the
relay is not down for ever), sleeping with a doubling backoff, serving a paired
guest in a goroutine of its own. Socket names are recycled once nobody refers to
them.

**Pipe, WebSocket.** Bytes are numbered, so that a stream is told by its length.
The relay puts them into binary messages, whole or in fragments, with pings,
pongs, text messages and a close frame between, or goes wrong. One goroutine
reads (`readFrame`, then `nextControl` while it waits for "paired", `Read`
afterwards), one writes, both take `writeMu` per frame. `Carries(frames, m, n)`
says that frames under way hold the bytes after `m` up to `n`; with it
`NothingLost` says where every byte is. `Inbound` and `Outbound` map the two
directions to `Pipe`. An error, of reading or of writing, ends both directions,
although in the code the other one may go on for a while: what is said of a
direction is said up to the first error of either. Masking, lengths and the HTTP upgrade are abstracted
away.

**PhonebookEntries.** A request that was sent stays in `net` and may arrive at
any time, again and again. A handler arrives (reads the clock, authenticates)
and then takes one step per D1 statement. `touchEntry` and `revokeEntry` are
their `WHERE` clauses. The collector selects and deletes in two steps.
`overlapped` and `late` are history: they separate what holds only when handlers
follow one another, and no revoke came after a newer request, from what holds
always.

**Connect, GuestChat.** `Connect` is `Join`: the announcement, the lookup, one
goroutine per candidate with a channel for their outcomes, the loop of
`dialFastest` with its two `continue`s, the goroutine that drains what came too
late, the relay, then the handshake with whoever is at the other end. `open` is
every connection that was made and not closed. `GuestChat` continues with
`chatSession`: the reader goroutine, its channel, the loop at the prompt, the
ticker that turns the ratchet, and `Send` in each of them (`wait` for `writeMu`,
`write`). The host is an environment that sends, reads or does not, and hangs up.

**ChatRoom.** The lock of `chat.Host` makes admission, removal, a list of the
members and a snapshot of the clients atomic; each send is a step. An actor's
broadcasts wait in `work`. A guest may stall, in which case a send to it ends
with an error at the write deadline. `raced` is history: a roster was listed
while another was on its way.

**Station.** `Offer` is the non-blocking send of `OnPeer`. The user's goroutine
reads `peers` at the prompt, both channels in `hostChat`, none while it is a
guest elsewhere. `/quit` is its three steps.

## 3. Runs

All runs finish within four minutes on two workers.

| Run | Shows | Bounds |
|---|---|---|
| `MCSession` | no replay, no key reuse, records within the window open, both ends agree on chains; each direction implements `Courier` | 3 DH steps a side, 6 records one way and 3 the other, `MaxSkip = MaxSkipStore = 2`, `MaxCount = 4`: enough for a record that is two steps late, for eviction, and for a chain that reaches the end of its counter |
| `MCHandshake` | both ends agree on transcript, connection and identities; a returned session has its other end | 2 initiators, 2 responders, of which one pair shares a TLS connection; an outside key, a small-order key, a refused version |
| `MCTrustStore` | first contacts are announced truthfully; the store implements `FirstUse` | 3 actors, 2 IDs, 3 keys of which two collide: a third actor may load while two write |
| `MCIdentityStore` | a process runs with the stored identity; identity, integrity and protection of the file are kept | 2 processes, 3 keypairs, 2 passphrases, 2 accounts; a process may start again and again |
| `MCRelaySession` | pairs are mates, only the own conversation is touched, the survivor is told, a parked host keeps its place and its time | 4 sockets and 2 pairs, so that two conversations, or one with a standby host and a newcomer, coexist; both timers can fire |
| `MCRelayHost` | no unread connection, the host is reachable again and again until the object is over age | 3 sockets, one failure; the clock reaches the object's maximal age |
| `MCWebSocket` | bytes are kept in order; each direction implements `Pipe`; everything is read in the end | 3 bytes each way, messages of at most 2 bytes, so that fragments, a message that is too long and a write of two frames occur; 2 frames in flight, one control message buffered |
| `MCPhonebook` | live rows rest on a recent request of their owner or their blob's author, stable keys; owner's blob and no resurrection while handlers do not overlap | 2 keys, 2 handlers, 2 requests each, clocks off by the whole skew; the clock reaches a collection |
| `MCGuestChat` | the guest talks to its target, misses nothing, sees the last words, leaves nothing behind, keeps reading | 2 candidates, 3 packets, one line, one rekey, channel and transport with room for one; while dials are outstanding the host sends one packet only (`Within`) |
| `MCChatRoom` | one seat, a refused guest sees nothing, rosters settle | 2 guests, 1 command |
| `MCChatLeave` | a guest that is gone leaves the room | 2 guests |
| `MCStation` | guests are answered until a `/quit` | 3 guests, channels of capacity 1, one trip, one `/quit` |

Symmetry is used for sockets, keys and guests, in runs without liveness only.
`CHECK_DEADLOCK FALSE` is set where everything may come to an end: all records
are sent, all guests have left, the chat is over, the relay has gone wrong and
the connection is closed. The relay, trust store and identity store runs keep
the check.

Where a type invariant is proved (section 4) it is not checked by a run as well.

**Fairness.** `RelayHost` assumes weak fairness of the host's goroutine and of
event and timer delivery by the relay's runtime; guests and faults have none.
`ChatRoom` assumes it of the host's goroutines, which the write deadline
justifies: no send blocks for ever. `Station` assumes it of the goroutines that
serve and of the `select` that takes a waiting event. `GuestChat` assumes it of
each dial (a dial has a timeout), of the steps of `Join`, of the reader, the loop
and the ticker's exit, and of each writer, which the write deadline justifies;
the host, the user and the ticker's clock have none. `WebSocket` assumes that the
reader reads, that TLS takes what there is, that the relay reads what is sent to
it, and strong fairness for the reader's turn at `writeMu`: Go's mutex hands
itself to a waiter that has starved. Users and guests are never assumed to act;
`Answered` speaks of users who come back.

### Where the code and its words disagree

No run is spent on the following. They are in the models, and a property says
around which of them it holds.

* `revokeEntry` promises that "an older signed publish cannot resurrect" a row
  (`entries.js:108-110`). It can in two ways. `handlePublishV2` reads, awaits and
  writes without a condition (`index.js:364`), so a revoke in between is undone
  (`overlapped`). And `revokeEntry` does not compare `last_issued_at`: a revoke that
  arrives after a newer publish takes the row offline and moves the timestamp
  *back*, so that a publish older than the one it has undone is accepted again
  (`late`).
* When forwarding fails, the relay calls `closePair` with the *sending* socket
  (`index.js:219`): it closes the dead partner and forgets the pair. The sender
  stays open, and the partner's own close event finds no pair any more. It is the
  exception in `SurvivorIsTold`.
* `armExpiry` counts from `startedAt`, set when the object is built
  (`index.js:286`). In an object of that age each new host is thrown out at once,
  retries, keeps the object alive, and is thrown out again; `KeepsReachable`
  speaks of an object that has not reached it.
* Two goroutines of the room may list the members in one order and send in the
  other (`sendRoster`, `chat.go:426`): the last roster a guest keeps then shows
  somebody who has left (`raced` in `RosterSettles`).
* When the ID of a known peer presents another key, "the only way forward is for the
  user to remove the old entry deliberately" (`trust.go:28-30`). Two writers of
  the trust file that meet may forget a first contact, or bring a forgotten key
  back, and a write that breaks off leaves an empty store: the next key of that
  ID is accepted as a first one. `KeepsPromise` and `FirstContactTruthful` speak
  of the time before (`disturbed`).
* `dialFastest` does not return with the first connection: `continue` skips the
  test at the end of the loop (`connect.go:306`), so that a winner waits for a
  second success, for every other outcome or for the budget. `BudgetEnds` and
  `HearsAnother` are the ways out.

Effects that no comment rules out, and that a reader should know of:

* a handshake that fails tries no other path (`HandshakeFails`), so that a
  stranger at a published address hides the relay behind it;
* a message that is too long ends the guest's chat (`Leaves`);
* a host that never greets keeps the guest waiting, without a prompt
  (`ReceivesFirst`);
* an answer to a rekey that cannot be written ends the reading of packets that
  have already arrived (`WriteFails`);
* of two first runs at once the later rename wins, and the earlier process keeps
  on running with an identity that is gone; two upgrades at once may leave the
  weaker protection (`clash`);
* `/quit` drains the arrival of a guest who was admitted after `Disconnect` took
  its snapshot; it stays connected, unanswered, in the seat, which is why
  `OnlyQuitLoses` and `Answered` except a `/quit` (`QuitDrainsPeers`);
* a broadcast may reach a guest before its `hello`, which `chatSession` takes for
  an invalid host (`Admitted`, `Deliver`);
* a guest that leaves before `hostChat` begins has its departure drained, and
  `hostChat` waits in an empty room (`StartsChat`);
* the byte counter of a relay session is shared by all its conversations.

## 4. Proofs

TLAPS proves the following for every value of the constants that satisfies the
assumptions named in the modules (limits are natural numbers, a counter has more
than one value, sets of sockets,
guests and endpoints are finite, channels have a capacity of at least one, the
named values that stand for "none" are no elements of the sets, a tombstone
outlives twice the clock skew, nobody else holds the identity key of a modelled
run).

* `Session_proofs`: `TypeCorrect`, `ReplayProtection`, `KeyUniqueness`. The
  inductive invariant (`SessionInv`) says which keys a ratchet can still derive
  and which are *spent*: a key that opened a record is behind its receiving
  chain, or belongs to a root that the ratchet has left, and is not in the
  store; every chain that is left was left for a longer root, so that it is
  never taken up again. `NoReplay` alone says nothing of the store or of chains
  that were left, and is not inductive. Then `SidesAgree` and `NothingLost`, from
  `AgreementInv`: both sides' roots are beginnings of the one sequence of secrets
  that the connection agrees on, so the number of DH steps says where a side
  stands and the generation in a header which chain a record was sealed on. Every
  genuine record is ahead of its receiver, opened, stored, or evicted
  (`Accounted`), and its `pn` covers the chain before (`Follows`).
  `ImplementsCourier` is the refinement of `Courier`, for both directions: a record
  that is sealed is new because its counter is ahead of all before it, one that
  opens was sealed as it arrived (`OpensOnce`), and `NoReplay` makes it the first
  time, which `Courier` requires of every delivery it counts.
* `Handshake_proofs`: `HandshakeTypeCorrect`, `InitiatorAgreement`,
  `ResponderAgreement`, `SessionsPair`, for any number of runs, any assignment of
  TLS connections and any version list. The invariant (`HandshakeInv`) adds that
  a run's transcript contains the run itself and its connection
  (`RunsConsistent`) and that every sealed payload is still held by its run at
  that transcript (`SealedByRuns`): so a signature taken from elsewhere belongs
  to a transcript without outside ephemerals, and cannot be sealed again by
  others.
* `TrustStore_proofs`: `TrustTypeCorrect`, `DecisionsOnDisk`, `FirstContacts`,
  and `ImplementsFirstUse`, the refinement. The heart is that a copy which is not
  `stale` equals what has been decided, so that writing the whole copy back
  changes one entry.
* `IdentityStore_proofs`: `IdentityTypeCorrect`, `IdentityStored`, `IdentityStays`,
  `IdentityNeverRuined`, `ProtectionNeverWeaker`. The invariant says that what is
  about to be renamed was sealed for its process, opens and is synced
  (`TempSound`), and that a process which is not `behind` saves over the file it
  decided upon (`Decided`): none, or one that it opened and found outdated.
* `Relay_proofs`, the relay: `RelayTypeCorrect`, `PairIntegrity`, `NoDeadSockets`,
  `PairLimitKept`, `TimersArmed`, and the action properties `OwnConversationOnly`,
  `SurvivorsAreTold` and `StandbyIsKept`. The last rests on the parked socket being
  open or lost and without a partner, so that no `teardown` but its own reaches it,
  and on a timer that is armed exactly while a socket is parked. The invariant (`RelayInv`) is the conjunction of the
  named parts and that the number of paired sockets is even: without it the test
  of the limit would allow one pair too many.
* `Relay_proofs`, the host: `HostRefinesRelay` shows that every behaviour of the
  composition is one of the relay, so that all of the above holds of it;
  `HostTypeCorrect` and `NoneUnread` follow from `HostInvariant`, which adds that
  a name in `hostEnds` belongs to a connection, so that a guest that takes a free
  name never takes one of the host's.
* `Relay_proofs`, the WebSocket client: `StreamIsConsistent`, and the refinements
  `ReadIsAPipe` and `WriteIsAPipe` of `Pipe`. The invariant (`StreamInv`) adds to
  `NothingLost` that the kinds of the frames on the wire lead from the message the
  client is assembling to the one the relay is sending (`Orderly`): only so does a
  continuation belong to the right message, and a text message hold no byte of
  the stream.
* `PhonebookEntries_proofs`: `DirectoryTypeCorrect`, `ListingsFresh`,
  `BlobsByOwner`, `RevokesHold`, `HandlesKeepKeys`. The invariant says of each
  handler that its request is in `net` and was inside the clock skew when it
  arrived; of the row, which request it goes back to; and, without overlap, that
  the only handler has seen the row as it is. For collected rows it carries the
  arithmetic of the two lifetimes: a revoke that is no longer in the table is
  older than anything that can still be accepted.
* `ChatRoom_proofs`: `OneSeat`, `RefusedIsApart`, `RostersSettle`, from
  `RoomInvariant`. The last needs most: whoever changes the membership owes the
  room a roster (`Owes`); a roster that is listed while nobody owes one is the
  room as it is; and every member has it or is about to get it (`Reached`).
  `RefusedSeesNothing` needs that no snapshot of the clients names a guest outside
  (`Apart`).
* `Terminal_proofs`, the guest: `GuestIsConsistent` and `TargetOnly`. The invariant
  (`GuestInvariant`) says where a dial may be: running, answered, read of, never
  two of these (`DialsApart`); so that the loop counts right, closing a straggler
  never closes the winner, and the drain never closes what `Join` returned
  (`ResultApart`). Then the chat: one writer at a time, and the reader waits
  exactly while it writes (`Goroutines`). `ShownInOrder` and `LastWords` follow
  from `SeenInvariant`: what is on the screen, in the channel and in the reader's
  hand is, put together, what has been read so far (`Legible`), and the chat is
  closed only when the reader has ended and its channel is empty (`Parting`).
* `Terminal_proofs`, the station: `StationTypeCorrect`, `GuestsAnswered`.
  `OnlyQuitLoses` is inductive together with the types and `DrainsAfterQuit`:
  draining belongs to a `/quit`. The heart is that an announced guest leaves the
  channel non-empty even when its own event is dropped, and that `hostChat`
  returns from an empty room only.

Where a sequence is folded or filtered in the code, the models describe the
result by what it holds instead (`Carries` by the places where frames begin,
`Renders` by the packets that are displayed): induction over a recursive
definition is out of the prover's reach, a statement about positions is not.

Only model-checked: liveness under fairness (`KeepsReachable`, `EndedIsRemoved`,
`Answered`, `NothingLeftBehind`, `KeepsReading`, `AllDelivered`), which the
prover does not reach. Every invariant and every action property that a run
checks is a theorem.

## 5. Not modelled

The v1 phonebook, which this client no longer calls, the rate limiter (a request
it refuses is one that `PhonebookEntries` never delivers) and the profile, which
one process loads and saves, are left out. Primitives, sealing, validation of a
single request, the discovery query, probing, the bridge, the GUI, the update
check and logging keep no state worth a model or are pure I/O. Cryptography is
assumed to be perfect throughout. Of the station, the menus, the printing and
the network report are left out.

## 6. Plan

Done: session and ratchet, handshake, trust store, identity store, relay session,
host loop, WebSocket client, phonebook, connection strategy, the guest's chat,
room, station. Left, in the order of importance:

1. a byte count per conversation in `RelaySession`, to say what the shared
   counter costs;
2. agreement of both ends as an abstract specification that `Handshake`
   implements;
3. v1 registrations and the rate limiter.
