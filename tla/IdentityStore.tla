--------------------------- MODULE IdentityStore ---------------------------
(***************************************************************************)
(* The identity file of internal/identity: LoadOrCreate, Load and Save in  *)
(* any number of processes that start, crash and lose power.               *)
(*                                                                         *)
(* Every command of cmd-chat starts with LoadOrCreate.  A process has an   *)
(* environment: a passphrase or none, and a Windows account (DPAPI) or     *)
(* none.  The file is read in one step and replaced by a rename; between   *)
(* the two, Save seals, checks the seal, and writes a temporary file.      *)
(***************************************************************************)
EXTENDS Naturals

CONSTANTS Processes,
          Identities,   \* keypairs that may be generated; a keypair is its ID
          Passphrases,
          Accounts,     \* Windows accounts, whose DPAPI opens its own seals
          NoSecret,     \* no passphrase, no DPAPI
          NoFile        \* no file, no identity

Environments == [pass : Passphrases \cup {NoSecret}, account : Accounts \cup {NoSecret}]

Protections == {"none", "dpapi", "passphrase", "newer"}

\* storedIdentity: what the private key is protected by, and whether the key
\* that comes out is the one that went in.
Contents == [id : Identities, version : 1..3, protection : Protections,
             under : Passphrases \cup Accounts \cup {NoSecret}, sound : BOOLEAN]

ASSUME IdentityAssumption ==
    /\ NoSecret \notin Passphrases \cup Accounts
    /\ NoFile \notin Identities \cup Contents

VARIABLES file,     \* identity.json
          durable,  \* its content has reached the disk
          pc,       \* where LoadOrCreate is in a process
          env,      \* the environment of a process
          self,     \* the identity a process holds
          fresh,    \* processes that found no file and create one
          temp,     \* the temporary file of a process
          \* history
          used,     \* keypairs that have been generated
          behind,   \* processes that have read a file since replaced
          clash     \* how a file was replaced by a process that was behind

vars == << file, durable, pc, env, self, fresh, temp, used, behind, clash >>

NoTemp == [data |-> NoFile, synced |-> FALSE]
NoEnv == [pass |-> NoSecret, account |-> NoSecret]

storeVersion == 2

\* Mutant: DPAPI is asked before the passphrase.
preferredDPAPI(e) ==
    IF e.account # NoSecret THEN "dpapi"
    ELSE IF e.pass # NoSecret THEN "passphrase" ELSE "none"

\* The protection an environment asks for.
preferredProtection(e) ==
    IF e.pass # NoSecret THEN "passphrase"
    ELSE IF e.account # NoSecret THEN "dpapi" ELSE "none"

\* Unsealing, and Valid on what comes out.  An unknown protection fails closed.
Opens(c, e) ==
    /\ c.sound
    /\ \/ c.protection = "none"
       \/ c.protection = "passphrase" /\ e.pass = c.under /\ e.pass # NoSecret
       \/ c.protection = "dpapi" /\ e.account = c.under /\ e.account # NoSecret

\* Files the program may meet at its first start: none, one of an earlier
\* version, one that is damaged, and one of a newer version.
Found ==
    {c \in Contents :
        \/ c.version = 1 /\ c.protection = "none" /\ c.under = NoSecret
        \/ c.version = 2 /\ c.protection = "passphrase" /\ c.under \in Passphrases
        \/ c.version = 2 /\ c.protection = "dpapi" /\ c.under \in Accounts /\ c.sound
        \/ c.version = 3 /\ c.protection = "newer" /\ c.under = NoSecret /\ c.sound}

Init ==
    /\ file \in {NoFile} \cup Found
    /\ durable = TRUE
    /\ used = IF file = NoFile THEN {} ELSE {file.id}
    /\ pc = [p \in Processes |-> "off"]
    /\ env = [p \in Processes |-> NoEnv]
    /\ self = [p \in Processes |-> NoFile]
    /\ fresh = {}
    /\ temp = [p \in Processes |-> NoTemp]
    /\ behind = {}
    /\ clash = "none"

\* The process ends or goes on, with no Save under way.
Settles(p, where, id) ==
    /\ pc' = [pc EXCEPT ![p] = where]
    /\ self' = [self EXCEPT ![p] = id]
    /\ fresh' = fresh \ {p}
    /\ temp' = [temp EXCEPT ![p] = NoTemp]
    /\ behind' = behind \ {p}

Continues(p, where) ==
    /\ pc' = [pc EXCEPT ![p] = where]
    /\ UNCHANGED << file, durable, env, self, fresh, used, behind, clash >>

(***************************************************************************)
(* LoadOrCreate and Load.  A file that exists and does not open is an      *)
(* error; only an absent one is created.                                   *)
(***************************************************************************)

\* Mutant: an identity that does not open is replaced by a new one.
FindsNothingUsable(p, e) ==
    /\ pc[p] = "off"
    /\ env' = [env EXCEPT ![p] = e]
    /\ ~(file # NoFile /\ Opens(file, e))
    /\ \E id \in Identities \ used :
          /\ self' = [self EXCEPT ![p] = id]
          /\ used' = used \cup {id}
    /\ pc' = [pc EXCEPT ![p] = "sealing"]
    /\ fresh' = fresh \cup {p}
    /\ UNCHANGED << file, durable, temp, behind, clash >>

FindsNothing(p, e) ==
    /\ pc[p] = "off"
    /\ env' = [env EXCEPT ![p] = e]
    /\ file = NoFile
    /\ \E id \in Identities \ used :
          /\ self' = [self EXCEPT ![p] = id]
          /\ used' = used \cup {id}
    /\ pc' = [pc EXCEPT ![p] = "sealing"]
    /\ fresh' = fresh \cup {p}
    /\ UNCHANGED << file, durable, temp, behind, clash >>

Refuses(p, e) ==
    /\ pc[p] = "off"
    /\ env' = [env EXCEPT ![p] = e]
    /\ file # NoFile
    /\ ~Opens(file, e)
    /\ pc' = [pc EXCEPT ![p] = "refused"]
    /\ UNCHANGED << file, durable, self, fresh, temp, used, behind, clash >>

\* An older or weaker-than-available file is rewritten in place.
Outdated(c, e) ==
    c.version < storeVersion \/ c.protection # preferredProtection(e)

Loads(p, e) ==
    /\ pc[p] = "off"
    /\ env' = [env EXCEPT ![p] = e]
    /\ file # NoFile
    /\ Opens(file, e)
    /\ self' = [self EXCEPT ![p] = file.id]
    /\ pc' = [pc EXCEPT ![p] = IF Outdated(file, e) THEN "sealing" ELSE "running"]
    /\ UNCHANGED << file, durable, fresh, temp, used, behind, clash >>

(***************************************************************************)
(* Save.  When it fails, a fresh identity is given up and the start is     *)
(* refused; a failed upgrade of a loaded identity is ignored.              *)
(***************************************************************************)

\* Mutant: the process runs with an identity that was not saved.
SaveFailsIgnored(p) ==
    /\ pc[p] \in {"sealing", "sealed", "written", "synced"}
    /\ Settles(p, "running", self[p])
    /\ UNCHANGED << file, durable, env, used, clash >>

SaveFails(p) ==
    /\ pc[p] \in {"sealing", "sealed", "written", "synced"}
    /\ IF p \in fresh THEN Settles(p, "refused", NoFile) ELSE Settles(p, "running", self[p])
    /\ UNCHANGED << file, durable, env, used, clash >>

\* What sealing may yield.  DPAPI may fail, and then the key is stored in the
\* open; or its blob may not open again.
Sealed(id, e) ==
    LET with(protection, under, sound) ==
            [id |-> id, version |-> storeVersion, protection |-> protection,
             under |-> under, sound |-> sound]
    IN  IF preferredProtection(e) = "passphrase" THEN {with("passphrase", e.pass, TRUE)}
        ELSE {with("none", NoSecret, TRUE)} \cup
             IF preferredProtection(e) = "none" THEN {}
             ELSE {with("dpapi", e.account, TRUE), with("dpapi", e.account, FALSE)}

\* Mutant: the seal is written without having been opened again.
verifySealSkipped(c, id, e) == TRUE

\* The sealed record opens again here and now, and yields the same key.
verifySeal(c, id, e) == Opens(c, e) /\ c.id = id

\* Sealing, the check of the seal, and a temporary file that is still empty.
Seals(p) ==
    /\ pc[p] = "sealing"
    /\ \E c \in Sealed(self[p], env[p]) :
          /\ verifySeal(c, self[p], env[p])
          /\ temp' = [temp EXCEPT ![p] = [data |-> c, synced |-> FALSE]]
    /\ Continues(p, "sealed")

WritesTemp(p) ==
    /\ pc[p] = "sealed"
    /\ UNCHANGED temp
    /\ Continues(p, "written")

SyncsTemp(p) ==
    /\ pc[p] = "written"
    /\ temp' = [temp EXCEPT ![p] = [data |-> temp[p].data, synced |-> TRUE]]
    /\ Continues(p, "synced")

\* The rename replaces whatever is there now.
Renames(p) ==
    /\ pc[p] = "synced"
    /\ file' = temp[p].data
    /\ durable' = temp[p].synced
    /\ clash' = IF p \notin behind THEN clash
                ELSE IF p \in fresh THEN "two first runs"
                ELSE IF clash = "none" THEN "two upgrades" ELSE clash
    /\ pc' = [pc EXCEPT ![p] = "running"]
    /\ fresh' = fresh \ {p}
    /\ temp' = [temp EXCEPT ![p] = NoTemp]
    /\ behind' = {q \in Processes : q # p /\ pc[q] \in {"sealing", "sealed", "written", "synced"}}
    /\ UNCHANGED << env, self, used >>

\* The process ends, or is killed wherever it is.  What it leaves of a temporary
\* file, under a random name, is never read again.
Stops(p) ==
    /\ pc[p] # "off"
    /\ Settles(p, "off", NoFile)
    /\ env' = [env EXCEPT ![p] = NoEnv]
    /\ UNCHANGED << file, durable, used, clash >>

\* Everything stops, and what was not synced is gone.
PowerLoss ==
    /\ file' = IF durable \/ file = NoFile THEN file ELSE [file EXCEPT !.sound = FALSE]
    /\ durable' = TRUE
    /\ pc' = [p \in Processes |-> "off"]
    /\ env' = [p \in Processes |-> NoEnv]
    /\ self' = [p \in Processes |-> NoFile]
    /\ fresh' = {}
    /\ temp' = [p \in Processes |-> NoTemp]
    /\ behind' = {}
    /\ UNCHANGED << used, clash >>

\* The user follows the message of a refused start: "move it aside to start
\* fresh".
MovesAside ==
    /\ file # NoFile
    /\ \E p \in Processes : pc[p] = "refused"
    /\ \A p \in Processes : pc[p] \in {"off", "refused"}
    /\ file' = NoFile
    /\ clash' = "none"
    /\ durable' = TRUE
    /\ UNCHANGED << pc, env, self, fresh, temp, used, behind >>

Next ==
    \/ \E p \in Processes :
          \/ \E e \in Environments : FindsNothing(p, e) \/ Refuses(p, e) \/ Loads(p, e)
          \/ Seals(p) \/ WritesTemp(p) \/ SyncsTemp(p) \/ Renames(p) \/ SaveFails(p)
          \/ Stops(p)
    \/ PowerLoss \/ MovesAside

Spec == Init /\ [][Next]_vars

-----------------------------------------------------------------------------
Steps == {"off", "sealing", "sealed", "written", "synced", "running", "refused"}

\* Types of the file, the processes and the history.
TypeOK ==
    /\ file \in Contents \cup {NoFile}
    /\ durable \in BOOLEAN
    /\ pc \in [Processes -> Steps]
    /\ env \in [Processes -> Environments]
    /\ self \in [Processes -> Identities \cup {NoFile}]
    /\ fresh \subseteq Processes
    /\ temp \in [Processes -> [data : Contents \cup {NoFile}, synced : BOOLEAN]]
    /\ used \subseteq Identities
    /\ behind \subseteq Processes
    /\ clash \in {"none", "two upgrades", "two first runs"}

\* A process that runs has the identity that is stored, so that the next start
\* has it too, whatever failed, crashed or was upgraded in between; except after
\* two first runs at the same time, of which the later rename wins (Save).
RunsAsStored ==
    clash # "two first runs" =>
        \A p \in Processes : pc[p] = "running" =>
            file # NoFile /\ file.id = self[p]

\* The stored identity never becomes another one while a file is there: "a new
\* identity because the stored one would not open" is never minted
\* (LoadOrCreate).
IdentityKept ==
    [][file # NoFile /\ file' # NoFile /\ clash' # "two first runs"
          => file'.id = file.id]_vars

\* A file that could be opened is never replaced by one that cannot, nor left
\* so by a crash or a power loss in the middle of Save: "no backup exists".
NeverRuined ==
    [][file # NoFile /\ file' # NoFile /\ file.sound => file'.sound]_vars

Strength(protection) ==
    IF protection = "passphrase" THEN 2 ELSE IF protection = "dpapi" THEN 1 ELSE 0

\* An upgrade in place never weakens the protection of the private key, however
\* environments change from start to start (Load), unless two processes rewrite
\* the file at the same time.
ProtectionKept ==
    [][file # NoFile /\ file' # NoFile /\ clash' = "none"
          => Strength(file'.protection) >= Strength(file.protection)]_vars
=============================================================================
