------------------------ MODULE IdentityStore_proofs ------------------------
(***************************************************************************)
(* Proofs about IdentityStore, for any number of processes, keypairs,      *)
(* passphrases and accounts.                                               *)
(***************************************************************************)
EXTENDS IdentityStore, TLAPS

\* Where a Save is under way, and where its temporary file has content.
Saving == {"sealing", "sealed", "written", "synced"}
Holding == {"sealed", "written", "synced"}

\* Only a Save under way is fresh or behind.
OnlySavers == \A p \in Processes : p \in fresh \cup behind => pc[p] \in Saving

\* What Save renames has been sealed for this process, opens, and is on disk.
TempSound ==
    \A p \in Processes : pc[p] \in Holding =>
        /\ self[p] \in Identities
        /\ temp[p].data \in Contents
        /\ temp[p].data \in Sealed(self[p], env[p])
        /\ verifySeal(temp[p].data, self[p], env[p])
        /\ pc[p] = "synced" => temp[p].synced

\* A process that saves has an identity; as long as it is not behind, the file
\* is the one it decided upon: none, or one that opened and was outdated.
Decided ==
    \A p \in Processes : pc[p] \in Saving =>
        /\ self[p] \in Identities
        /\ p \notin behind /\ p \in fresh => file = NoFile
        /\ p \notin behind /\ p \notin fresh =>
               file # NoFile /\ Opens(file, env[p]) /\ Outdated(file, env[p])

\* Every process that has loaded or saved has the stored identity.
HoldsStored ==
    clash # "two first runs" =>
        \A p \in Processes :
            pc[p] = "running" \/ (pc[p] \in Saving /\ p \notin fresh) =>
                file # NoFile /\ file.id = self[p]

\* Only unprotected files are of an older version.
OldAreOpen == file # NoFile /\ file.version < storeVersion => file.protection = "none"

IInv ==
    /\ TypeOK /\ durable /\ OldAreOpen
    /\ OnlySavers /\ TempSound /\ Decided /\ HoldsStored

-----------------------------------------------------------------------------
\* What is sealed is a record of the current version.
LEMMA SealedContents ==
    ASSUME NEW id \in Identities, NEW e \in Environments
    PROVE  \A c \in Sealed(id, e) :
              c \in Contents /\ c.version = storeVersion /\ c.id = id
<1>1. preferredProtection(e) = "passphrase" => e.pass \in Passphrases
  BY DEF preferredProtection, Environments
<1>2. preferredProtection(e) = "dpapi" => e.account \in Accounts
  BY DEF preferredProtection, Environments
<1>. SUFFICES ASSUME NEW c \in Sealed(id, e)
              PROVE  c \in Contents /\ c.version = storeVersion /\ c.id = id
  OBVIOUS
<1>3. \/ /\ preferredProtection(e) = "passphrase"
         /\ c = [id |-> id, version |-> 2, protection |-> "passphrase",
                  under |-> e.pass, sound |-> TRUE]
      \/ c = [id |-> id, version |-> 2, protection |-> "none",
              under |-> NoSecret, sound |-> TRUE]
      \/ /\ preferredProtection(e) = "dpapi"
         /\ \/ c = [id |-> id, version |-> 2, protection |-> "dpapi",
                     under |-> e.account, sound |-> TRUE]
            \/ c = [id |-> id, version |-> 2, protection |-> "dpapi",
                     under |-> e.account, sound |-> FALSE]
  BY DEF Sealed, storeVersion, preferredProtection
<1>4. \A protection \in Protections, b \in BOOLEAN,
         under \in Passphrases \cup Accounts \cup {NoSecret} :
            [id |-> id, version |-> 2, protection |-> protection,
             under |-> under, sound |-> b] \in Contents
  BY DEF Contents
<1>5. c \in Contents
  BY <1>1, <1>2, <1>3, <1>4 DEF Protections
<1>6. c.version = storeVersion /\ c.id = id
  BY <1>3 DEF storeVersion
<1>. QED BY <1>5, <1>6

LEMMA InitIInv == Init => IInv
<1>. SUFFICES ASSUME Init PROVE IInv OBVIOUS
<1>1. TypeOK
  <2>1. NoEnv \in Environments BY DEF NoEnv, Environments
  <2>2. Found \subseteq Contents BY DEF Found
  <2>3. file # NoFile => file.id \in Identities BY <2>2 DEF Init, Contents
  <2>. QED BY <2>1, <2>2, <2>3 DEF Init, TypeOK, Steps, NoTemp
<1>2. OldAreOpen BY DEF Init, OldAreOpen, Found, storeVersion
<1>. QED BY <1>1, <1>2 DEF Init, IInv, OnlySavers, TempSound, Decided, HoldsStored, Saving, Holding

-----------------------------------------------------------------------------
\* A process settles: no Save of it is under way any more.
LEMMA SettlesKeeps ==
    ASSUME IInv, NEW p \in Processes, NEW where \in {"off", "running", "refused"},
           NEW id \in Identities \cup {NoFile}, Settles(p, where, id),
           where = "running" => pc[p] \in Saving /\ p \notin fresh /\ id = self[p],
           env' = env \/ env' = [env EXCEPT ![p] = NoEnv],
           UNCHANGED << file, durable, used, clash >>
    PROVE  IInv'
<1>. USE DEF IInv
<1>0. NoEnv \in Environments BY DEF NoEnv, Environments
<1>1. TypeOK'
  BY <1>0 DEF TypeOK, Settles, Steps, NoTemp
<1>2. /\ pc'[p] = where /\ self'[p] = id
      /\ \A q \in Processes \ {p} : /\ pc'[q] = pc[q] /\ self'[q] = self[q]
                                    /\ temp'[q] = temp[q] /\ env'[q] = env[q]
                                    /\ q \in fresh' <=> q \in fresh
                                    /\ q \in behind' <=> q \in behind
      /\ p \notin fresh' /\ p \notin behind'
  BY DEF TypeOK, Settles
<1>3. OnlySavers' BY <1>2 DEF OnlySavers, Settles
<1>4. TempSound' BY <1>2 DEF TempSound, Holding
<1>5. Decided' BY <1>2 DEF Decided, Saving
<1>6. HoldsStored' BY <1>2 DEF HoldsStored, Saving
<1>. QED BY <1>1, <1>3, <1>4, <1>5, <1>6 DEF OldAreOpen

\* A process begins with an identity of its own, or with the stored one.
LEMMA StartsKeeps ==
    ASSUME IInv, NEW p \in Processes, NEW e \in Environments, pc[p] = "off",
           FindsNothing(p, e) \/ Refuses(p, e) \/ Loads(p, e)
    PROVE  IInv'
<1>. USE DEF IInv
<1>0. /\ p \notin fresh /\ p \notin behind
  BY DEF OnlySavers, Saving
<1>1. file # NoFile => file.id \in Identities BY DEF TypeOK, Contents
<1>2. TypeOK'
  <2>1. CASE FindsNothing(p, e) BY <2>1 DEF TypeOK, Steps, FindsNothing
  <2>2. CASE Refuses(p, e) BY <2>2 DEF TypeOK, Steps, Refuses
  <2>3. CASE Loads(p, e) BY <2>3, <1>1 DEF TypeOK, Steps, Loads
  <2>. QED BY <2>1, <2>2, <2>3
<1>3. /\ file' = file /\ clash' = clash /\ behind' = behind /\ durable' = durable /\ temp' = temp
      /\ \A q \in Processes \ {p} : /\ pc'[q] = pc[q] /\ self'[q] = self[q]
                                    /\ env'[q] = env[q]
                                    /\ q \in fresh' <=> q \in fresh
      /\ env'[p] = e
  BY DEF TypeOK, FindsNothing, Refuses, Loads
<1>4. \/ pc'[p] = "refused" /\ p \notin fresh'
      \/ pc'[p] = "sealing" /\ file = NoFile /\ self'[p] \in Identities /\ p \in fresh'
      \/ /\ (pc'[p] = "sealing" /\ Outdated(file, e)) \/ pc'[p] = "running"
         /\ file # NoFile /\ Opens(file, e)
         /\ self'[p] = file.id /\ p \notin fresh'
  BY <1>0 DEF TypeOK, FindsNothing, Refuses, Loads
<1>5. OnlySavers' BY <1>0, <1>3, <1>4 DEF OnlySavers, Saving
<1>6. TempSound' BY <1>3, <1>4 DEF TempSound, Holding
<1>7. Decided' BY <1>1, <1>3, <1>4 DEF Decided, Saving
<1>8. HoldsStored' BY <1>3, <1>4 DEF HoldsStored, Saving
<1>. QED BY <1>2, <1>3, <1>5, <1>6, <1>7, <1>8 DEF OldAreOpen

\* Sealing and writing the temporary file.
LEMMA SavesKeeps ==
    ASSUME IInv, NEW p \in Processes, Seals(p) \/ WritesTemp(p) \/ SyncsTemp(p)
    PROVE  IInv'
<1>. USE DEF IInv
<1>1. /\ pc[p] \in Saving /\ pc'[p] \in Holding
      /\ UNCHANGED << file, durable, env, self, fresh, used, behind, clash >>
      /\ \A q \in Processes \ {p} : pc'[q] = pc[q] /\ temp'[q] = temp[q]
  BY DEF TypeOK, Seals, WritesTemp, SyncsTemp, Continues, Saving, Holding
<1>2. self[p] \in Identities /\ env[p] \in Environments BY <1>1 DEF Decided, TypeOK
<1>3. /\ temp'[p].data \in Contents
      /\ temp'[p].data \in Sealed(self[p], env[p])
      /\ verifySeal(temp'[p].data, self[p], env[p])
      /\ pc'[p] = "synced" => temp'[p].synced
      /\ temp'[p].synced \in BOOLEAN
      /\ temp' \in [Processes -> [data : Contents \cup {NoFile}, synced : BOOLEAN]]
  <2>1. CASE Seals(p)
    <3>1. PICK c \in Sealed(self[p], env[p]) :
            /\ verifySeal(c, self[p], env[p])
            /\ temp' = [temp EXCEPT ![p] = [data |-> c, synced |-> FALSE]]
      BY <2>1 DEF Seals
    <3>2. c \in Contents BY <1>2, SealedContents
    <3>3. pc'[p] = "sealed" BY <2>1 DEF Seals, Continues, TypeOK
    <3>. QED BY <3>1, <3>2, <3>3 DEF TypeOK
  <2>2. CASE WritesTemp(p)
    BY <2>2 DEF WritesTemp, Continues, TypeOK, TempSound, Holding
  <2>3. CASE SyncsTemp(p)
    <3>1. /\ temp[p].data \in Contents /\ temp[p].data \in Sealed(self[p], env[p])
          /\ verifySeal(temp[p].data, self[p], env[p])
      BY <2>3 DEF SyncsTemp, TempSound, Holding
    <3>. QED BY <2>3, <3>1 DEF SyncsTemp, TypeOK
  <2>. QED BY <2>1, <2>2, <2>3
<1>4. TypeOK'
  <2>1. pc' \in [Processes -> Steps]
    BY DEF TypeOK, Seals, WritesTemp, SyncsTemp, Continues, Steps
  <2>. QED BY <2>1, <1>1, <1>3 DEF TypeOK
<1>5. OnlySavers' BY <1>1 DEF OnlySavers, Saving, Holding
<1>6. TempSound' BY <1>1, <1>2, <1>3 DEF TempSound
<1>7. Decided' BY <1>1 DEF Decided, Saving, Holding
<1>8. HoldsStored' BY <1>1 DEF HoldsStored, Saving, Holding
<1>. QED BY <1>1, <1>4, <1>5, <1>6, <1>7, <1>8 DEF OldAreOpen

-----------------------------------------------------------------------------
\* What the rename puts in place, and what was there before.
LEMMA RenamedFile ==
    ASSUME IInv, NEW p \in Processes, Renames(p)
    PROVE  /\ file' \in Contents /\ file' # NoFile
           /\ file' \in Sealed(self[p], env[p])
           /\ file'.id = self[p] /\ file'.sound /\ file'.version = storeVersion
           /\ durable' = TRUE
           /\ file # NoFile /\ clash' # "two first runs" =>
                  clash # "two first runs" /\ p \notin fresh /\ file.id = self[p]
           /\ clash' # "two first runs" /\ p \in fresh => file = NoFile
           /\ clash' # "two first runs" => clash # "two first runs"
<1>. USE DEF IInv
<1>1. pc[p] = "synced" /\ file' = temp[p].data /\ durable' = temp[p].synced
  BY DEF Renames
<1>2. /\ temp[p].data \in Contents /\ temp[p].data \in Sealed(self[p], env[p])
      /\ verifySeal(temp[p].data, self[p], env[p]) /\ temp[p].synced
      /\ temp[p].synced \in BOOLEAN
      /\ self[p] \in Identities /\ env[p] \in Environments
  BY <1>1 DEF TempSound, Holding, TypeOK
<1>3. file'.version = storeVersion BY <1>1, <1>2, SealedContents
<1>4. file' # NoFile BY <1>1, <1>2, IdentityAssumption
<1>5. clash' # "two first runs" => /\ clash # "two first runs"
                                   /\ p \in fresh => p \notin behind
  BY DEF Renames
<1>6. p \notin behind /\ p \in fresh => file = NoFile BY <1>1 DEF Decided, Saving
<1>7. clash # "two first runs" /\ p \notin fresh => file.id = self[p]
  BY <1>1 DEF HoldsStored, Saving
<1>. QED BY <1>1, <1>2, <1>3, <1>4, <1>5, <1>6, <1>7 DEF verifySeal, Opens

LEMMA RenamesKeeps ==
    ASSUME IInv, NEW p \in Processes, Renames(p)
    PROVE  IInv'
<1>. USE DEF IInv
<1>1. /\ file' \in Contents /\ file' # NoFile /\ file'.version = storeVersion
      /\ file'.id = self[p] /\ durable' = TRUE
  BY RenamedFile
<1>2. TypeOK'
  BY <1>1 DEF TypeOK, Renames, Steps, NoTemp
<1>3. OldAreOpen' BY <1>1 DEF OldAreOpen, storeVersion
<1>4. /\ pc'[p] = "running" /\ p \notin fresh' /\ p \notin behind'
      /\ self' = self /\ env' = env
      /\ \A q \in Processes \ {p} :
            /\ pc'[q] = pc[q] /\ temp'[q] = temp[q]
            /\ q \in fresh' <=> q \in fresh
            /\ q \in behind' <=> pc[q] \in Saving
  BY DEF TypeOK, Renames, Saving
<1>5. OnlySavers' BY <1>4 DEF OnlySavers
<1>6. TempSound' BY <1>4 DEF TempSound, Holding
<1>7. Decided' BY <1>4 DEF Decided, Saving
<1>8. HoldsStored'
  <2>. SUFFICES ASSUME clash' # "two first runs", NEW q \in Processes,
                       pc'[q] = "running" \/ (pc'[q] \in Saving /\ q \notin fresh')
                PROVE  file'.id = self'[q]
    BY <1>1 DEF HoldsStored
  <2>1. CASE q = p BY <2>1, <1>1, <1>4
  <2>2. CASE q # p
    <3>1. clash # "two first runs" BY RenamedFile
    <3>2. file # NoFile /\ file.id = self[q] BY <2>2, <3>1, <1>4 DEF HoldsStored
    <3>3. file.id = self[p] BY <3>2, RenamedFile
    <3>. QED BY <3>2, <3>3, <1>1, <1>4
  <2>. QED BY <2>1, <2>2
<1>. QED BY <1>1, <1>2, <1>3, <1>5, <1>6, <1>7, <1>8

\* Nothing runs any more, or nothing that has an identity.
LEMMA QuietKeeps ==
    ASSUME IInv, PowerLoss \/ MovesAside
    PROVE  IInv'
<1>. USE DEF IInv
<1>0. NoEnv \in Environments BY DEF NoEnv, Environments
<1>1. CASE PowerLoss
  <2>1. file' = file /\ durable' = TRUE /\ \A p \in Processes : pc'[p] = "off"
    BY <1>1 DEF PowerLoss
  <2>2. TypeOK' BY <1>0, <1>1, <2>1 DEF PowerLoss, TypeOK, Steps, NoTemp
  <2>3. fresh' = {} /\ behind' = {} BY <1>1 DEF PowerLoss
  <2>. QED BY <2>1, <2>2, <2>3
           DEF OldAreOpen, OnlySavers, TempSound, Decided, HoldsStored, Saving, Holding
<1>2. CASE MovesAside
  <2>1. /\ file' = NoFile /\ durable' = TRUE
        /\ UNCHANGED << pc, env, self, fresh, temp, used, behind >>
        /\ \A p \in Processes : pc[p] \in {"off", "refused"}
    BY <1>2 DEF MovesAside
  <2>2. TypeOK' BY <1>2, <2>1 DEF MovesAside, TypeOK
  <2>. QED BY <2>1, <2>2
           DEF OldAreOpen, OnlySavers, TempSound, Decided, HoldsStored, Saving, Holding
<1>. QED BY <1>1, <1>2

\* A Save that fails leaves a loaded identity in use and gives up a fresh one;
\* a process that ends leaves nothing.
LEMMA SettlingKeeps ==
    ASSUME IInv, NEW p \in Processes, SaveFails(p) \/ Stops(p)
    PROVE  IInv'
<1>1. CASE SaveFails(p)
  <2>1. pc[p] \in Saving BY <1>1 DEF SaveFails, Saving
  <2>2. self[p] \in Identities BY <2>1 DEF IInv, Decided
  <2>3. CASE p \in fresh
    <3>1. Settles(p, "refused", NoFile) /\ UNCHANGED << file, durable, env, used, clash >>
      BY <1>1, <2>3 DEF SaveFails
    <3>. QED BY <3>1, SettlesKeeps
  <2>4. CASE p \notin fresh
    <3>1. Settles(p, "running", self[p]) /\ UNCHANGED << file, durable, env, used, clash >>
      BY <1>1, <2>4 DEF SaveFails
    <3>. QED BY <3>1, <2>1, <2>2, <2>4, SettlesKeeps
  <2>. QED BY <2>3, <2>4
<1>2. CASE Stops(p)
  <2>1. /\ Settles(p, "off", NoFile) /\ env' = [env EXCEPT ![p] = NoEnv]
        /\ UNCHANGED << file, durable, used, clash >>
    BY <1>2 DEF Stops
  <2>. QED BY <2>1, SettlesKeeps
<1>. QED BY <1>1, <1>2

LEMMA StutterKeeps == IInv /\ UNCHANGED vars => IInv'
<1>. SUFFICES ASSUME IInv, UNCHANGED vars PROVE IInv' OBVIOUS
<1>1. TypeOK' BY DEF IInv, vars, TypeOK
<1>2. (durable /\ OldAreOpen /\ OnlySavers)'
  BY DEF IInv, vars, OldAreOpen, OnlySavers
<1>3. TempSound' BY DEF IInv, vars, TempSound
<1>4. Decided' BY DEF IInv, vars, Decided
<1>5. HoldsStored' BY DEF IInv, vars, HoldsStored
<1>. QED BY <1>1, <1>2, <1>3, <1>4, <1>5 DEF IInv

LEMMA NextKeeps == IInv /\ [Next]_vars => IInv'
<1>. SUFFICES ASSUME IInv, [Next]_vars PROVE IInv' OBVIOUS
<1>1. CASE \E p \in Processes : \E e \in Environments :
              FindsNothing(p, e) \/ Refuses(p, e) \/ Loads(p, e)
  BY <1>1, StartsKeeps DEF FindsNothing, Refuses, Loads
<1>2. CASE \E p \in Processes : Seals(p) \/ WritesTemp(p) \/ SyncsTemp(p)
  BY <1>2, SavesKeeps
<1>3. CASE \E p \in Processes : Renames(p)
  BY <1>3, RenamesKeeps
<1>4. CASE \E p \in Processes : SaveFails(p) \/ Stops(p)
  BY <1>4, SettlingKeeps
<1>5. CASE PowerLoss \/ MovesAside
  BY <1>5, QuietKeeps
<1>6. CASE UNCHANGED vars
  BY <1>6, StutterKeeps
<1>. QED BY <1>1, <1>2, <1>3, <1>4, <1>5, <1>6 DEF Next

-----------------------------------------------------------------------------
\* Only a rename and the user change the file.
LEMMA FileChanges ==
    ASSUME IInv, [Next]_vars, file' # file
    PROVE  (\E p \in Processes : Renames(p)) \/ file' = NoFile
BY DEF IInv, Next, vars, FindsNothing, Refuses, Loads, Seals, WritesTemp, SyncsTemp,
       SaveFails, Stops, Settles, Continues, PowerLoss, MovesAside

\* The inductive invariant of the identity file and the processes that use it.
THEOREM IdentityInv == Spec => []IInv
<1>. QED BY InitIInv, NextKeeps, PTL DEF Spec

\* The file, the processes and the history keep their types.
THEOREM IdentityTypeCorrect == Spec => []TypeOK
<1>1. IInv => TypeOK BY DEF IInv
<1>. QED BY <1>1, IdentityInv, PTL

\* Whoever runs has the identity that is stored, unless two first runs met
\* (LoadOrCreate, Save).
THEOREM IdentityStored == Spec => []RunsAsStored
<1>1. IInv => RunsAsStored BY DEF IInv, HoldsStored, RunsAsStored
<1>. QED BY <1>1, IdentityInv, PTL

\* A file never changes into one with another identity while it is there
\* (LoadOrCreate, Save).
THEOREM IdentityStays == Spec => IdentityKept
<1>1. IInv /\ [Next]_vars =>
        [file # NoFile /\ file' # NoFile /\ clash' # "two first runs"
             => file'.id = file.id]_vars
  <2>. SUFFICES ASSUME IInv, [Next]_vars, file # NoFile, file' # NoFile,
                       clash' # "two first runs"
                PROVE  file'.id = file.id
    OBVIOUS
  <2>1. CASE \E p \in Processes : Renames(p)
    BY <2>1, RenamedFile
  <2>2. CASE file' = file
    BY <2>2
  <2>. QED BY <2>1, <2>2, FileChanges
<1>. QED BY <1>1, IdentityInv, PTL DEF Spec, IdentityKept

\* A file that opens is never replaced by one that does not, whatever crashes
\* (verifySeal, Save).
THEOREM IdentityNeverRuined == Spec => NeverRuined
<1>1. IInv /\ [Next]_vars =>
        [file # NoFile /\ file' # NoFile /\ file.sound => file'.sound]_vars
  <2>1. ASSUME IInv, [Next]_vars, file # NoFile, file' # NoFile, file.sound
        PROVE  file'.sound
    <3>1. CASE \E p \in Processes : Renames(p)
      BY <3>1, <2>1, RenamedFile
    <3>2. CASE file' = file
      BY <2>1, <3>2
    <3>. QED BY <2>1, <3>1, <3>2, FileChanges
  <2>. QED BY <2>1
<1>. QED BY <1>1, IdentityInv, PTL DEF Spec, NeverRuined

\* An upgrade in place protects the key at least as well, as long as two do not
\* meet (Load, preferredProtection).
THEOREM ProtectionNeverWeaker == Spec => ProtectionKept
<1>1. IInv /\ [Next]_vars =>
        [file # NoFile /\ file' # NoFile /\ clash' = "none"
             => Strength(file'.protection) >= Strength(file.protection)]_vars
  <2>1. ASSUME IInv, [Next]_vars, file # NoFile, file' # NoFile, clash' = "none"
        PROVE  Strength(file'.protection) >= Strength(file.protection)
    <3>1. ASSUME NEW p \in Processes, Renames(p)
          PROVE  Strength(file'.protection) >= Strength(file.protection)
      <4>1. p \notin behind BY <2>1, <3>1 DEF Renames
      <4>2. /\ file' \in Sealed(self[p], env[p]) /\ p \notin fresh
        BY <2>1, <3>1, RenamedFile
      <4>3. Opens(file, env[p]) /\ Outdated(file, env[p])
        BY <2>1, <3>1, <4>1, <4>2 DEF IInv, Decided, Renames, Saving
      <4>4. file.protection = "passphrase" => file'.protection = "passphrase"
        BY <4>2, <4>3 DEF Opens, Sealed, preferredProtection
      <4>5. file.protection = "dpapi" => file'.protection = "passphrase"
        <5>. SUFFICES ASSUME file.protection = "dpapi" PROVE file'.protection = "passphrase"
          OBVIOUS
        <5>1. ~(file.version < storeVersion)
          BY <2>1 DEF IInv, OldAreOpen
        <5>2. preferredProtection(env[p]) # "dpapi"
          BY <4>3, <5>1 DEF Outdated
        <5>3. preferredProtection(env[p]) = "passphrase"
          BY <4>3, <5>2 DEF Opens, preferredProtection
        <5>. QED BY <4>2, <5>3 DEF Sealed
      <4>. QED BY <4>4, <4>5 DEF Strength
    <3>2. CASE file' = file
      BY <3>2 DEF Strength
    <3>. QED BY <2>1, <3>1, <3>2, FileChanges
  <2>. QED BY <2>1
<1>. QED BY <1>1, IdentityInv, PTL DEF Spec, ProtectionKept
=============================================================================
