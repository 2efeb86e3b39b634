----------------------------- MODULE TrustStore -----------------------------
(***************************************************************************)
(* The trust-on-first-use store of internal/auth/trust.go.                 *)
(*                                                                         *)
(* There is one file, and no lock on it.  Every handshake, in whichever    *)
(* process, loads a copy when it begins, checks the key it has proven      *)
(* against that copy, and writes the whole copy back; `cmd-chat forget'    *)
(* does the same in a process of its own.  os.WriteFile empties the file   *)
(* and then fills it, two steps that others see and that a crash separates.*)
(*                                                                         *)
(* A proven key derives its ID (openAuth), so two keys of one ID are keys  *)
(* with colliding IDs.                                                     *)
(***************************************************************************)
EXTENDS FiniteSets, Naturals

CONSTANTS Actors,  \* handshakes and forget commands
          IDs,     \* CMD-Chat IDs
          Keys,    \* identity keys a peer may prove
          NoKey,   \* no key remembered
          IDOf     \* the ID that a key derives

ASSUME TrustAssumption ==
    /\ NoKey \notin Keys
    /\ IDOf \in [Keys -> IDs]

VARIABLES file,     \* trusted_peers.json: what kind of content, and its map
          pc,       \* where an actor is
          copy,     \* Store.peers of an actor
          job,      \* what an actor is writing the file for
          first,    \* trustRecorder.first
          \* history
          pinned,   \* the key of each ID by the completed decisions alone
          stale,    \* actors whose copy is older than the file
          disturbed \* a decision was lost: writers met, or one broke off

vars == << file, pc, copy, job, first, pinned, stale, disturbed >>

Stores == [IDs -> Keys \cup {NoKey}]
Nobody == [i \in IDs |-> NoKey]
Jobs == [op : {"trust", "forget"}, id : IDs, key : Keys \cup {NoKey}]
NoJob == [op |-> "none"]

\* Both versions of the format, the one with records and the legacy map of
\* strings, load as the same map; an empty or torn file parses as neither.
Json(peers) == [kind |-> "json", peers |-> peers]
Unreadable(kind) == [kind |-> kind, peers |-> Nobody]

Known(s, i) == s[i] # NoKey
Writers == {a \in Actors : pc[a] = "writing"}

Init ==
    /\ file \in {Unreadable("absent")} \cup {Json(s) : s \in Stores}
    /\ \A i \in IDs : Known(file.peers, i) => IDOf[file.peers[i]] = i
    /\ pc = [a \in Actors |-> "idle"]
    /\ copy = [a \in Actors |-> Nobody]
    /\ job = [a \in Actors |-> NoJob]
    /\ first = [a \in Actors |-> FALSE]
    /\ pinned = file.peers
    /\ stale = {}
    /\ disturbed = FALSE

\* The actor is done with its Store.
Done(a) ==
    /\ pc' = [pc EXCEPT ![a] = "idle"]
    /\ copy' = [copy EXCEPT ![a] = Nobody]
    /\ job' = [job EXCEPT ![a] = NoJob]
    /\ first' = [first EXCEPT ![a] = FALSE]
    /\ stale' = stale \ {a}

(***************************************************************************)
(* LoadFrom: a missing or unreadable file is an empty store.               *)
(***************************************************************************)
LoadFrom(a) ==
    /\ pc[a] = "idle"
    /\ pc' = [pc EXCEPT ![a] = "loaded"]
    /\ copy' = [copy EXCEPT ![a] = file.peers]
    /\ stale' = IF Writers = {} THEN stale ELSE stale \cup {a}
    /\ UNCHANGED << file, job, first, pinned, disturbed >>

\* The handshake fails elsewhere or the process ends before the store decides,
\* `forget' finds the ID unknown, or the file cannot be opened for writing,
\* which fails the handshake with the file as it was.
Abandons(a) ==
    /\ pc[a] = "loaded"
    /\ Done(a)
    /\ UNCHANGED << file, pinned, disturbed >>

\* os.WriteFile opens the file with O_TRUNC.  Whoever has loaded before is out
\* of date from here on.
Truncates(a, op, i, k, peers) ==
    /\ pc' = [pc EXCEPT ![a] = "writing"]
    /\ copy' = [copy EXCEPT ![a] = peers]
    /\ job' = [job EXCEPT ![a] = [op |-> op, id |-> i, key |-> k]]
    /\ file' = Unreadable("empty")
    /\ stale' = stale \cup {b \in Actors \ {a} : pc[b] = "loaded"}
    /\ disturbed' = (disturbed \/ a \in stale \/ Writers # {})
    /\ UNCHANGED pinned

\* The switch of Trust: what the store becomes when it accepts a key.
Trusted(s, i, k) == IF Known(s, i) THEN s ELSE [s EXCEPT ![i] = k]

\* Mutant: the key that was proven last replaces the one that was known.
AcceptsAny(s, i, k) == TRUE

\* Trust refuses a known ID with another key.
Accepts(s, i, k) == Known(s, i) => s[i] = k

\* Mutant: the question is asked after the policy has recorded the peer.
AskedAfter(s, i, k) == ~Known(Trusted(s, i, k), i)

\* trustRecorder.Authorize asks whether the peer is new before the policy
\* records it.
FirstContact(s, i, k) == ~Known(s, i)

(***************************************************************************)
(* Store.Authorize, behind trustRecorder.Authorize, on a proven key: the   *)
(* key is refused, or recorded and the file rewritten.                     *)
(***************************************************************************)
Authorize(a, k) ==
    LET i == IDOf[k]
    IN  /\ pc[a] = "loaded"
        /\ Accepts(copy[a], i, k)
        /\ first' = [first EXCEPT ![a] = FirstContact(copy[a], i, k)]
        /\ Truncates(a, "trust", i, k, Trusted(copy[a], i, k))

Refuses(a, k) ==
    /\ pc[a] = "loaded"
    /\ ~Accepts(copy[a], IDOf[k], k)
    /\ Done(a)
    /\ UNCHANGED << file, pinned, disturbed >>

(***************************************************************************)
(* `cmd-chat forget <id>': only a known ID is removed.                     *)
(***************************************************************************)
Forget(a, i) ==
    /\ pc[a] = "loaded"
    /\ Known(copy[a], i)
    /\ Truncates(a, "forget", i, NoKey, [copy[a] EXCEPT ![i] = NoKey])
    /\ UNCHANGED first

\* The length of the encoded store grows with the peers in it; equal numbers of
\* peers may differ by the digits of their timestamps.
Size(s) == Cardinality({i \in IDs : Known(s, i)})

\* Every writer writes from offset 0.  A shorter text over a longer one leaves
\* the end of the longer one, which no longer parses.
Written(peers) ==
    {f \in {Json(peers), Unreadable("torn")} :
        IF f.kind = "json"
        THEN file.kind = "json" => Size(file.peers) <= Size(peers)
        ELSE \/ file.kind = "torn"
             \/ file.kind = "json" /\ Size(file.peers) >= Size(peers)}

\* The write of os.WriteFile succeeds: the handshake goes on, or the command
\* reports that it has forgotten.
Writes(a) ==
    /\ pc[a] = "writing"
    /\ file' \in Written(copy[a])
    /\ pinned' = [pinned EXCEPT ![job[a].id] = job[a].key]
    /\ Done(a)
    /\ UNCHANGED disturbed

\* The write fails, or the process dies in it: nothing or a part is written.
\* A handshake whose write fails is refused.
BreaksOff(a) ==
    /\ pc[a] = "writing"
    /\ file' \in {file, Unreadable("torn")}
    /\ Done(a)
    /\ disturbed' = TRUE
    /\ UNCHANGED pinned

Next ==
    \E a \in Actors :
        \/ LoadFrom(a) \/ Abandons(a)
        \/ \E k \in Keys : Authorize(a, k) \/ Refuses(a, k)
        \/ \E i \in IDs : Forget(a, i)
        \/ Writes(a) \/ BreaksOff(a)

Spec == Init /\ [][Next]_vars

-----------------------------------------------------------------------------
\* Types of the store's file, the actors' copies and the history.
TypeOK ==
    /\ file.kind \in {"absent", "empty", "torn", "json"}
    /\ file.peers \in Stores
    /\ pc \in [Actors -> {"idle", "loaded", "writing"}]
    /\ copy \in [Actors -> Stores]
    /\ job \in [Actors -> Jobs \cup {NoJob}]
    /\ \A a \in Writers : job[a] \in Jobs
    /\ first \in [Actors -> BOOLEAN]
    /\ pinned \in Stores
    /\ stale \subseteq Actors
    /\ disturbed \in BOOLEAN

\* A contact is reported as the first one exactly when no key was remembered
\* for the ID, so that the user is asked to compare safety numbers then and
\* only then: "The question has to be asked BEFORE the policy runs"
\* (trustRecorder.Authorize).
FirstContactTruthful ==
    ~disturbed => \A a \in Writers :
        job[a].op = "trust" => (first[a] <=> ~Known(pinned, job[a].id))

\* However loads, refusals, abandoned handshakes and `forget' interleave, the
\* file between two writes holds every completed decision and no other, unless
\* two writers met or one broke off (saveLocked writes the whole map back).
PinsOnDisk == ~disturbed /\ Writers = {} => file.peers = pinned

\* The IDs of the `forget' commands under way.
ToForget == {job[a].id : a \in {b \in Writers : job[b].op = "forget"}}

\* The store implements trust on first use, read off the file between two
\* writes, until it is disturbed: a key changes only when an unknown ID is met, or
\* by a `forget' of that ID (ErrKeyChanged, "the only way forward is for the
\* user to remove the old entry deliberately").
Promise == INSTANCE FirstUse
               WITH pins <- IF Writers = {} THEN file.peers ELSE pinned,
                    wishes <- ToForget, lost <- disturbed
KeepsPromise == Promise!Spec
=============================================================================
