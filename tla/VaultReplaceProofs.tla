--------------------------- MODULE VaultReplaceProofs ---------------------------
(* Proofs about VaultReplace, for any list of files, any number of replacements   *)
(* and any number of interruptions.                                               *)
EXTENDS VaultReplace, TLAPS

Uncommitted == journal.phase \in {"Prepared", "OldMoved", "NewInstalled"}

\* Where the command is determines what the journal says.
JournalMatches ==
    /\ journal.phase = "None" <=> journal = NoJournal
    /\ pc \in {"idle", "stage", "prepare", "clean"} => journal = NoJournal
    /\ pc = "move" => journal.phase = "Prepared"
    /\ pc = "install" => journal.phase = "OldMoved"
    /\ pc = "commit" => journal.phase = "NewInstalled"
    /\ pc = "recover" => journal # NoJournal

\* The vault, as recover will leave it, is of a generation g, and g is not the one
\* a replacement under way is about to install.
VaultWhole ==
    \E g \in Generation :
        /\ g <= generation
        /\ Uncommitted \/ pc \in {"stage", "prepare"} => g < generation
        /\ \A f \in File : Vault[f] \in {g, Absent}

\* An old file is in the backup or, before the old files are known to be moved,
\* still in place.
BackupHolds ==
    /\ Uncommitted => \A f \in File : backup[f] # Absent => f \in journal.present
    /\ journal.phase \in {"OldMoved", "NewInstalled"} =>
           \A f \in journal.present : backup[f] # Absent
    /\ journal.phase = "Prepared" =>
           \A f \in File : backup[f] = Absent =>
               (f \in journal.present <=> active[f] # Absent)

\* How far each loop has come.
Progress ==
    /\ pc = "stage" => /\ at <= Len(STAGED) + 1
                       /\ \A j \in DOMAIN STAGED : j < at => stage[STAGED[j]] = generation
    /\ pc \in {"prepare", "move"} => \A f \in Staged : stage[f] = generation
    /\ pc = "prepare" => backup = Nothing
    /\ pc = "move" =>
           /\ at <= Len(FILES) + 1
           /\ \A j \in DOMAIN FILES :
                  IF j < at THEN /\ active[FILES[j]] = Absent
                                 /\ FILES[j] \in journal.present => backup[FILES[j]] # Absent
                  ELSE backup[FILES[j]] = Absent
    /\ pc = "install" =>
           /\ at <= Len(STAGED) + 1
           /\ \A f \in File \ Staged : active[f] = Absent
           /\ \A j \in DOMAIN STAGED :
                  IF j < at THEN active[STAGED[j]] = generation
                  ELSE stage[STAGED[j]] = generation
    /\ pc = "commit" =>
           active = [f \in File |-> IF f \in Staged THEN generation ELSE Absent]
    /\ pc = "recover" /\ Uncommitted =>
           /\ at <= Len(FILES) + 1
           /\ \A j \in DOMAIN FILES : j < at => active[FILES[j]] = Vault[FILES[j]]

ReplaceInv == ReplaceTypeOK /\ JournalMatches /\ VaultWhole /\ BackupHolds /\ Progress

--------------------------------------------------------------------------------
\* The vault only depends on what recover looks at.
LEMMA VaultPointwise ==
    ASSUME NEW f \in File
    PROVE  Vault[f] = IF journal.phase \in {"None", "Committed"} THEN active[f]
                      ELSE IF backup[f] # Absent THEN backup[f]
                      ELSE IF f \in journal.present THEN active[f] ELSE Absent
  BY DEF Vault

\* The directory is a function on File, so the vault is one too.
LEMMA VaultIsFunction ==
    ASSUME ReplaceTypeOK
    PROVE  Vault \in Files
  BY DEF ReplaceTypeOK, Vault, Files

\* The code's lists enumerate the files.
LEMMA Lists ==
    /\ DOMAIN FILES = 1 .. Len(FILES) /\ Len(FILES) \in Nat
    /\ DOMAIN STAGED = 1 .. Len(STAGED) /\ Len(STAGED) \in Nat
    /\ \A j \in DOMAIN FILES : FILES[j] \in File
    /\ \A j \in DOMAIN STAGED : STAGED[j] \in Staged /\ STAGED[j] \in File
    /\ \A f \in File : \E j \in DOMAIN FILES : FILES[j] = f
    /\ \A f \in Staged : \E j \in DOMAIN STAGED : STAGED[j] = f
  <1>1. /\ DOMAIN FILES = 1 .. Len(FILES) /\ Len(FILES) \in Nat
        /\ DOMAIN STAGED = 1 .. Len(STAGED) /\ Len(STAGED) \in Nat
    BY VaultAssumption
  <1>2. /\ \A j \in DOMAIN FILES : FILES[j] \in File
        /\ \A f \in File : \E j \in DOMAIN FILES : FILES[j] = f
    BY DEF File
  <1>3. /\ \A j \in DOMAIN STAGED : STAGED[j] \in Staged
        /\ \A f \in Staged : \E j \in DOMAIN STAGED : STAGED[j] = f
    BY DEF Staged
  <1> QED
    BY <1>1, <1>2, <1>3, VaultAssumption

\* Initially there is no journal and the vault is the data directory.
LEMMA InitReplaceInv == ReplaceInit => ReplaceInv
  <1> SUFFICES ASSUME ReplaceInit PROVE ReplaceInv
    OBVIOUS
  <1>1. ReplaceTypeOK
    BY VaultAssumption DEF ReplaceInit, ReplaceTypeOK, Files, Generation, Nothing, NoJournal
  <1>2. JournalMatches
    BY DEF ReplaceInit, JournalMatches, NoJournal
  <1>3. VaultWhole
    BY VaultAssumption DEF ReplaceInit, VaultWhole, Vault, NoJournal, Generation, Uncommitted
  <1>4. BackupHolds
    BY DEF ReplaceInit, BackupHolds, NoJournal, Uncommitted
  <1>5. Progress
    BY DEF ReplaceInit, Progress, NoJournal, Uncommitted
  <1> QED
    BY <1>1, <1>2, <1>3, <1>4, <1>5 DEF ReplaceInv

\* Using the database changes side files only, within the generation of the vault.
LEMMA UseDatabaseStep ==
    ASSUME ReplaceInv, UseDatabase, journal = NoJournal, journal' = NoJournal,
           generation' = generation, pc \in {"idle", "stage"},
           pc' = "prepare" => pc = "stage", pc' # "stage"
    PROVE  /\ active' \in Files /\ VaultWhole' /\ Swap!SideFiles
  <1> USE DEF ReplaceInv
  <1>1. PICK g \in {active[f] : f \in Staged} \ {Absent} :
           \E side \in [File \ Staged -> {g, Absent}] :
               active' = [f \in File |-> IF f \in Staged THEN active[f] ELSE side[f]]
    BY DEF UseDatabase
  <1>2. PICK side \in [File \ Staged -> {g, Absent}] :
           active' = [f \in File |-> IF f \in Staged THEN active[f] ELSE side[f]]
    BY <1>1
  <1>3. Vault = active /\ Vault' = active' /\ ~Uncommitted /\ ~Uncommitted'
    BY DEF Vault, NoJournal, Uncommitted
  <1>4. /\ g \in Generation /\ g <= generation
        /\ pc = "stage" => g < generation
        /\ \A f \in File : active[f] \in {g, Absent}
    BY <1>3, VaultAssumption DEF VaultWhole, ReplaceTypeOK, Files, Generation
  <1>5. active' \in [File -> {g, Absent}]
    BY <1>2, <1>4
  <1>6. VaultWhole'
    BY <1>3, <1>4, <1>5 DEF VaultWhole
  <1>7. Swap!SideFiles
    BY <1>2, <1>3, <1>4, <1>5, VaultAssumption DEF Swap!SideFiles
  <1> QED
    BY <1>4, <1>5, <1>6, <1>7 DEF Files

\* An idle command only uses the database.
LEMMA OpenDatabaseStep ==
    ASSUME ReplaceInv, OpenDatabase
    PROVE  ReplaceInv' /\ Swap!SideFiles
  <1> USE DEF ReplaceInv
  <1>1. journal = NoJournal /\ journal' = NoJournal
    BY DEF OpenDatabase, JournalMatches
  <1>2. active' \in Files /\ VaultWhole' /\ Swap!SideFiles
    BY <1>1, UseDatabaseStep DEF OpenDatabase
  <1>3. ReplaceTypeOK'
    BY <1>2 DEF ReplaceTypeOK, OpenDatabase
  <1>4. JournalMatches'
    BY <1>1 DEF JournalMatches, OpenDatabase
  <1>5. BackupHolds'
    BY <1>1 DEF BackupHolds, Uncommitted, NoJournal
  <1>6. Progress'
    BY DEF Progress, OpenDatabase
  <1> QED
    BY <1>2, <1>3, <1>4, <1>5, <1>6

\* A new generation is numbered above the one in use.
LEMMA StageStep ==
    ASSUME ReplaceInv, Stage
    PROVE  ReplaceInv' /\ Vault' = Vault
  <1> USE DEF ReplaceInv
  <1>1. /\ journal = NoJournal /\ journal' = NoJournal
        /\ active' = active /\ Vault = active /\ Vault' = active
    BY DEF Stage, JournalMatches, Vault, NoJournal
  <1>2. generation \in Generation /\ generation' = generation + 1 /\ generation' \in Generation
    BY VaultAssumption DEF Stage, ReplaceTypeOK, Generation
  <1>3. ReplaceTypeOK'
    BY <1>1, <1>2 DEF ReplaceTypeOK, Stage, Files, Goto, Nothing
  <1>4. JournalMatches'
    BY <1>1 DEF JournalMatches, Stage, Goto
  <1>5. VaultWhole'
    <2>1. PICK g \in Generation : g <= generation /\ \A f \in File : Vault[f] \in {g, Absent}
      BY DEF VaultWhole
    <2>2. g <= generation' /\ g < generation'
      BY <2>1, <1>2 DEF Generation
    <2> QED
      BY <2>1, <2>2, <1>1 DEF VaultWhole
  <1>6. BackupHolds'
    BY <1>1 DEF BackupHolds, Uncommitted, NoJournal
  <1>7. Progress'
    BY Lists DEF Progress, Stage, Goto
  <1> QED
    BY <1>1, <1>3, <1>4, <1>5, <1>6, <1>7

\* A step that leaves the vault and the transaction as they are keeps it whole.
LEMMA StaysWhole ==
    ASSUME VaultWhole, Vault' = Vault, generation' = generation,
           Uncommitted' \/ pc' \in {"stage", "prepare"} =>
               Uncommitted \/ pc \in {"stage", "prepare"}
    PROVE  VaultWhole'
  BY DEF VaultWhole

\* Staging a file leaves the vault alone.
LEMMA StageFileStep ==
    ASSUME ReplaceInv, StageFile
    PROVE  ReplaceInv' /\ Vault' = Vault
  <1> USE DEF ReplaceInv, StageFile
  <1>1. /\ journal = NoJournal /\ journal' = NoJournal
        /\ at \in DOMAIN STAGED /\ STAGED[at] \in File
        /\ stage \in [File -> {generation, Absent}]
        /\ stage' = [stage EXCEPT ![STAGED[at]] = generation]
    BY Lists DEF JournalMatches, ReplaceTypeOK
  <1>2. Vault' = Vault
    BY DEF Vault
  <1>3. ReplaceTypeOK'
    BY <1>1 DEF ReplaceTypeOK
  <1>4. JournalMatches'
    BY <1>1 DEF JournalMatches
  <1>5. VaultWhole'
    BY <1>2, StaysWhole DEF Uncommitted
  <1>6. BackupHolds'
    BY <1>1 DEF BackupHolds, Uncommitted, NoJournal
  <1>7. Progress'
    <2>1. pc' = "stage" /\ at' = at + 1 /\ at \in Nat /\ at' <= Len(STAGED) + 1
      BY Lists DEF ReplaceTypeOK
    <2>2. ASSUME NEW j \in DOMAIN STAGED, j < at'
          PROVE  stage'[STAGED[j]] = generation'
      <3>1. STAGED[j] \in File /\ (j = at \/ j < at)
        BY <2>1, <2>2, Lists
      <3> QED
        BY <3>1, <1>1 DEF Progress
    <2> QED
      BY <2>1, <2>2 DEF Progress
  <1> QED
    BY <1>2, <1>3, <1>4, <1>5, <1>6, <1>7

\* install starts with every staged file there and an empty backup.
LEMMA InstallStarts ==
    ASSUME ReplaceInv, Install
    PROVE  ReplaceInv' /\ (Swap!SideFiles \/ Vault' = Vault)
  <1> USE DEF ReplaceInv
  <1>1. /\ journal = NoJournal /\ journal' = NoJournal
        /\ pc = "stage" /\ pc' = "prepare" /\ at' = 1 /\ backup' = Nothing
        /\ stage' = stage /\ generation' = generation /\ stops' = stops
    BY DEF Install, JournalMatches, Goto
  <1>2. active' \in Files /\ VaultWhole' /\ (Swap!SideFiles \/ Vault' = Vault)
    <2>1. CASE UseDatabase
      BY <2>1, <1>1, UseDatabaseStep
    <2>2. CASE UNCHANGED active
      <3>1. Vault' = Vault
        BY <2>2, <1>1 DEF Vault, NoJournal
      <3> QED
        BY <3>1, <2>2, <1>1, StaysWhole DEF ReplaceTypeOK
    <2> QED
      BY <2>1, <2>2 DEF Install
  <1>3. ReplaceTypeOK'
    BY <1>1, <1>2 DEF ReplaceTypeOK, Files, Nothing
  <1>4. JournalMatches'
    BY <1>1 DEF JournalMatches
  <1>5. BackupHolds'
    BY <1>1 DEF BackupHolds, Uncommitted, NoJournal
  <1>6. Progress'
    <2>1. ASSUME NEW f \in Staged PROVE stage[f] = generation
      <3>1. PICK j \in DOMAIN STAGED : STAGED[j] = f
        BY Lists
      <3>2. j < at
        BY Lists DEF Install, ReplaceTypeOK
      <3> QED
        BY <3>1, <3>2, <1>1 DEF Progress
    <2> QED
      BY <1>1, <2>1 DEF Progress
  <1> QED
    BY <1>2, <1>3, <1>4, <1>5, <1>6

\* The journal is written while all the files are still in place.
LEMMA WritePreparedStep ==
    ASSUME ReplaceInv, WritePrepared
    PROVE  ReplaceInv' /\ Vault' = Vault
  <1> USE DEF ReplaceInv, WritePrepared, Goto
  <1>1. /\ journal = NoJournal /\ backup = Nothing
        /\ journal' = [phase |-> "Prepared", present |-> Present(active)]
    BY DEF JournalMatches, Progress
  <1>2. Vault' = Vault
    <2>1. Vault = active
      BY <1>1 DEF Vault, NoJournal
    <2>2. Vault' = [f \in File |-> active[f]]
      BY <1>1 DEF Vault, Nothing, Present
    <2> QED
      BY <2>1, <2>2 DEF ReplaceTypeOK, Files
  <1>3. ReplaceTypeOK'
    BY <1>1 DEF ReplaceTypeOK, Present
  <1>4. JournalMatches'
    BY <1>1 DEF JournalMatches, NoJournal
  <1>5. VaultWhole'
    BY <1>2, StaysWhole
  <1>6. BackupHolds'
    BY <1>1 DEF BackupHolds, Nothing, Present, Uncommitted
  <1>7. Progress'
    BY <1>1, Lists DEF Progress, Nothing
  <1> QED
    BY <1>2, <1>3, <1>4, <1>5, <1>6, <1>7

\* A file that is moved is in the backup; one that was not there stays absent.
LEMMA MoveOldStep ==
    ASSUME ReplaceInv, MoveOld
    PROVE  ReplaceInv' /\ Vault' = Vault
  <1> USE DEF ReplaceInv, MoveOld
  <1> DEFINE f == FILES[at]
  <1>1. /\ at \in DOMAIN FILES /\ f \in File /\ backup[f] = Absent
        /\ journal.phase = "Prepared" /\ journal' = journal
        /\ f \in journal.present <=> active[f] # Absent
    BY Lists DEF JournalMatches, Progress, BackupHolds, ReplaceTypeOK
  <1>2. /\ active \in [File -> Generation \cup {Absent}]
        /\ backup \in [File -> Generation \cup {Absent}]
    BY DEF ReplaceTypeOK, Files
  <1>3. /\ active' = [active EXCEPT ![f] = Absent]
        /\ backup' = [backup EXCEPT ![f] = active[f]]
    BY <1>1, <1>2
  <1>4. Vault' = Vault
    BY <1>1, <1>2, <1>3 DEF Vault
  <1>5. ReplaceTypeOK'
    BY <1>1, <1>2, <1>3 DEF ReplaceTypeOK, Files
  <1>6. JournalMatches'
    BY <1>1 DEF JournalMatches
  <1>7. VaultWhole'
    BY <1>1, <1>4, StaysWhole DEF Uncommitted
  <1>8. BackupHolds'
    BY <1>1, <1>2, <1>3 DEF BackupHolds, Uncommitted
  <1>9. Progress'
    <2>1. /\ pc' = "move" /\ at' = at + 1 /\ at \in Nat /\ at' <= Len(FILES) + 1
          /\ \A g \in Staged : stage'[g] = generation'
      BY Lists DEF ReplaceTypeOK, Progress
    <2>2. ASSUME NEW j \in DOMAIN FILES, j < at'
          PROVE  /\ active'[FILES[j]] = Absent
                 /\ FILES[j] \in journal.present => backup'[FILES[j]] # Absent
      <3>1. CASE j = at
        BY <3>1, <1>1, <1>2, <1>3
      <3>2. CASE j < at
        <4>1. FILES[j] # f /\ FILES[j] \in File
          BY <3>2, <2>2, <1>1, Lists, VaultAssumption
        <4> QED
          BY <3>2, <2>2, <4>1, <1>2, <1>3 DEF Progress
      <3> QED
        BY <3>1, <3>2, <2>1, <2>2, Lists
    <2>3. ASSUME NEW j \in DOMAIN FILES, ~(j < at')
          PROVE  backup'[FILES[j]] = Absent
      <3>1. ~(j < at) /\ j # at
        BY <2>1, <2>3, Lists
      <3>2. FILES[j] # f /\ FILES[j] \in File
        BY <3>1, <1>1, Lists, VaultAssumption
      <3> QED
        BY <3>1, <3>2, <1>2, <1>3 DEF Progress
    <2> QED
      BY <1>1, <2>1, <2>2, <2>3 DEF Progress
  <1> QED
    BY <1>4, <1>5, <1>6, <1>7, <1>8, <1>9

\* After the loop every old file is in the backup.
LEMMA WriteOldMovedStep ==
    ASSUME ReplaceInv, WriteOldMoved
    PROVE  ReplaceInv' /\ Vault' = Vault
  <1> USE DEF ReplaceInv, WriteOldMoved, WriteJournal, Goto
  <1>1. /\ journal.phase = "Prepared" /\ journal'.phase = "OldMoved"
        /\ journal'.present = journal.present
    BY DEF JournalMatches, ReplaceTypeOK
  <1>2. \A f \in File : /\ active[f] = Absent
                        /\ f \in journal.present => backup[f] # Absent
    <2> TAKE f \in File
    <2>1. PICK j \in DOMAIN FILES : FILES[j] = f
      BY Lists
    <2>2. j < at
      BY Lists DEF ReplaceTypeOK
    <2> QED
      BY <2>1, <2>2 DEF Progress
  <1>3. Vault' = Vault
    BY <1>1 DEF Vault
  <1>4. ReplaceTypeOK'
    BY <1>1 DEF ReplaceTypeOK
  <1>5. JournalMatches'
    BY <1>1 DEF JournalMatches, NoJournal
  <1>6. VaultWhole'
    BY <1>1, <1>3, StaysWhole DEF Uncommitted
  <1>7. BackupHolds'
    BY <1>1, <1>2 DEF BackupHolds, Uncommitted, ReplaceTypeOK
  <1>8. Progress'
    <2>1. \A j \in DOMAIN STAGED : stage[STAGED[j]] = generation /\ ~(j < 1)
      BY Lists DEF Progress
    <2> QED
      BY <1>1, <1>2, <2>1, Lists DEF Progress
  <1> QED
    BY <1>3, <1>4, <1>5, <1>6, <1>7, <1>8

\* The new files do not show in the vault before the commit.
LEMMA InstallNewStep ==
    ASSUME ReplaceInv, InstallNew
    PROVE  ReplaceInv' /\ Vault' = Vault
  <1> USE DEF ReplaceInv, InstallNew
  <1> DEFINE f == STAGED[at]
  <1>1. /\ at \in DOMAIN STAGED /\ f \in File /\ f \in Staged /\ stage[f] = generation
        /\ journal.phase = "OldMoved" /\ journal' = journal
    BY Lists DEF JournalMatches, Progress, ReplaceTypeOK
  <1>2. /\ active \in Files /\ stage \in [File -> {generation, Absent}]
        /\ active' = [active EXCEPT ![f] = generation]
        /\ stage' = [stage EXCEPT ![f] = Absent]
    BY <1>1 DEF ReplaceTypeOK
  <1>3. Vault' = Vault
    <2>1. \A g \in File : g \in journal.present => backup[g] # Absent
      BY <1>1 DEF BackupHolds
    <2> QED
      BY <1>1, <2>1 DEF Vault
  <1>4. ReplaceTypeOK'
    BY <1>1, <1>2 DEF ReplaceTypeOK, Files
  <1>5. JournalMatches'
    BY <1>1 DEF JournalMatches
  <1>6. VaultWhole'
    BY <1>1, <1>3, StaysWhole DEF Uncommitted
  <1>7. BackupHolds'
    BY <1>1 DEF BackupHolds, Uncommitted
  <1>8. Progress'
    <2>1. pc' = "install" /\ at' = at + 1 /\ at \in Nat /\ at' <= Len(STAGED) + 1
      BY Lists DEF ReplaceTypeOK, Progress
    <2>2. \A g \in File \ Staged : active'[g] = Absent
      BY <1>1, <1>2 DEF Progress, Files
    <2>3. ASSUME NEW j \in DOMAIN STAGED
          PROVE  IF j < at' THEN active'[STAGED[j]] = generation'
                 ELSE stage'[STAGED[j]] = generation'
      <3>1. CASE j = at
        BY <3>1, <2>1, <1>1, <1>2 DEF Files
      <3>2. CASE j # at
        <4>1. DOMAIN STAGED \subseteq Nat /\ STAGED[j] \in File
          BY Lists
        <4>2. IF j < at THEN active[STAGED[j]] = generation ELSE stage[STAGED[j]] = generation
          BY DEF Progress
        <4>3. generation' = generation
          OBVIOUS
        <4> HIDE DEF ReplaceInv, InstallNew
        <4>4. j < at' <=> j < at
          BY <4>1, <3>2, <2>1
        <4>5. STAGED[j] # f
          BY <3>2, <1>1, VaultAssumption
        <4> HIDE DEF f
        <4>6. active'[STAGED[j]] = active[STAGED[j]] /\ stage'[STAGED[j]] = stage[STAGED[j]]
          BY <4>1, <4>5, <1>2 DEF Files
        <4> QED
          BY <4>2, <4>3, <4>4, <4>6
      <3> QED
        BY <3>1, <3>2
    <2> QED
      BY <1>1, <2>1, <2>2, <2>3 DEF Progress
  <1> QED
    BY <1>3, <1>4, <1>5, <1>6, <1>7, <1>8

\* After the loop the data directory holds the new generation and nothing else.
LEMMA WriteNewInstalledStep ==
    ASSUME ReplaceInv, WriteNewInstalled
    PROVE  ReplaceInv' /\ Vault' = Vault
  <1> USE DEF ReplaceInv, WriteNewInstalled, WriteJournal, Goto
  <1>1. /\ journal.phase = "OldMoved" /\ journal'.phase = "NewInstalled"
        /\ journal'.present = journal.present
    BY DEF JournalMatches, ReplaceTypeOK
  <1>2. active = [f \in File |-> IF f \in Staged THEN generation ELSE Absent]
    <2>1. ASSUME NEW f \in Staged PROVE active[f] = generation
      <3>1. PICK j \in DOMAIN STAGED : STAGED[j] = f
        BY Lists
      <3>2. j < at
        BY Lists DEF ReplaceTypeOK
      <3> QED
        BY <3>1, <3>2 DEF Progress
    <2>2. \A f \in File \ Staged : active[f] = Absent
      BY DEF Progress
    <2> QED
      BY <2>1, <2>2 DEF ReplaceTypeOK, Files
  <1>3. Vault' = Vault
    BY <1>1 DEF Vault
  <1>4. ReplaceTypeOK'
    BY <1>1 DEF ReplaceTypeOK
  <1>5. JournalMatches'
    BY <1>1 DEF JournalMatches, NoJournal
  <1>6. VaultWhole'
    BY <1>1, <1>3, StaysWhole DEF Uncommitted
  <1>7. BackupHolds'
    BY <1>1 DEF BackupHolds, Uncommitted
  <1>8. Progress'
    BY <1>2 DEF Progress
  <1> QED
    BY <1>3, <1>4, <1>5, <1>6, <1>7, <1>8

\* The write of the Committed phase replaces the vault by the new generation.
LEMMA WriteCommittedStep ==
    ASSUME ReplaceInv, WriteCommitted
    PROVE  ReplaceInv' /\ Swap!Replace
  <1> USE DEF ReplaceInv, WriteCommitted, WriteJournal, Goto
  <1>1. /\ journal.phase = "NewInstalled" /\ journal'.phase = "Committed"
        /\ journal'.present = journal.present
        /\ active' = [f \in File |-> IF f \in Staged THEN generation ELSE Absent]
    BY DEF JournalMatches, ReplaceTypeOK, Progress
  <1>2. Vault' = [f \in File |-> IF f \in Staged THEN generation ELSE Absent]
    BY <1>1 DEF Vault
  <1>3. generation \in Generation /\ \A f \in File : Vault[f] # generation
    BY <1>1, VaultAssumption DEF VaultWhole, Uncommitted, ReplaceTypeOK, Generation
  <1>4. ReplaceTypeOK'
    BY <1>1 DEF ReplaceTypeOK
  <1>5. JournalMatches'
    BY <1>1 DEF JournalMatches, NoJournal
  <1>6. VaultWhole'
    BY <1>1, <1>2, <1>3 DEF VaultWhole, Uncommitted, Generation
  <1>7. BackupHolds'
    BY <1>1 DEF BackupHolds, Uncommitted
  <1>8. Progress'
    BY <1>1 DEF Progress, Uncommitted
  <1> QED
    BY <1>2, <1>3, <1>4, <1>5, <1>6, <1>7, <1>8 DEF Swap!Replace

\* recover starts over.
LEMMA StartRecoverStep ==
    ASSUME ReplaceInv, StartRecover
    PROVE  ReplaceInv' /\ Vault' = Vault
  <1> USE DEF ReplaceInv, StartRecover, Goto
  <1>1. Vault' = Vault
    BY DEF Vault
  <1>2. ReplaceTypeOK'
    BY DEF ReplaceTypeOK
  <1>3. JournalMatches'
    BY DEF JournalMatches
  <1>4. VaultWhole'
    BY <1>1, StaysWhole DEF Uncommitted
  <1>5. BackupHolds'
    BY DEF BackupHolds, Uncommitted
  <1>6. Progress'
    <2>1. \A j \in DOMAIN FILES : ~(j < 1)
      BY Lists
    <2> QED
      BY <2>1, Lists DEF Progress
  <1> QED
    BY <1>1, <1>2, <1>3, <1>4, <1>5, <1>6

\* What recover writes is what the vault was already known to hold.
LEMMA RestoreFileStep ==
    ASSUME ReplaceInv, RestoreFile
    PROVE  ReplaceInv' /\ Vault' = Vault
  <1> USE DEF ReplaceInv, RestoreFile
  <1> DEFINE f == FILES[at]
  <1>1. /\ pc = "recover" /\ pc' = pc /\ journal' = journal /\ backup' = backup
        /\ Uncommitted /\ at \in DOMAIN FILES /\ f \in File
    BY Lists DEF RollingBack, JournalMatches, ReplaceTypeOK, Uncommitted
  <1>2. /\ active \in Files /\ backup \in Files
        /\ backup[f] # Absent => f \in journal.present
    BY <1>1 DEF ReplaceTypeOK, BackupHolds
  <1>3. active' = [active EXCEPT ![f] = Vault[f]]
    <2>1. CASE backup[f] # Absent
      BY <2>1, <1>1, VaultPointwise DEF Uncommitted
    <2>2. CASE backup[f] = Absent /\ f \notin journal.present
      BY <2>2, <1>1, VaultPointwise DEF Uncommitted
    <2>3. CASE backup[f] = Absent /\ f \in journal.present
      BY <2>3, <1>1, <1>2, VaultPointwise DEF Uncommitted, Files
    <2> QED
      BY <2>1, <2>2, <2>3
  <1>4. Vault' = Vault
    <2>1. ASSUME NEW g \in File PROVE Vault'[g] = Vault[g]
      BY <1>1, <1>2, <1>3 DEF Vault, Uncommitted, Files
    <2> QED
      BY <2>1, <1>1 DEF Vault, Uncommitted
  <1>5. ReplaceTypeOK'
    BY <1>1, <1>2, <1>3, VaultIsFunction DEF ReplaceTypeOK, Files
  <1>6. JournalMatches'
    BY <1>1 DEF JournalMatches
  <1>7. VaultWhole'
    BY <1>1, <1>4, StaysWhole DEF Uncommitted
  <1>8. BackupHolds'
    BY <1>1, <1>2, <1>3, VaultPointwise DEF BackupHolds, Uncommitted, Files
  <1>9. Progress'
    <2>1. at' = at + 1 /\ at \in Nat /\ at' <= Len(FILES) + 1
      BY <1>1, Lists DEF ReplaceTypeOK
    <2>2. ASSUME NEW j \in DOMAIN FILES, j < at'
          PROVE  active'[FILES[j]] = Vault[FILES[j]]
      <3>1. CASE j = at
        BY <3>1, <1>1, <1>2, <1>3 DEF Files
      <3>2. CASE j < at
        BY <3>2, <1>1, <1>2, <1>3, Lists DEF Progress, Files
      <3> QED
        BY <3>1, <3>2, <2>1, <2>2, Lists
    <2> QED
      BY <1>1, <1>4, <2>1, <2>2 DEF Progress
  <1> QED
    BY <1>4, <1>5, <1>6, <1>7, <1>8, <1>9

\* When the journal goes, the data directory is the vault.
LEMMA RemoveJournalStep ==
    ASSUME ReplaceInv, RemoveJournal
    PROVE  ReplaceInv' /\ Vault' = Vault
  <1> USE DEF ReplaceInv, RemoveJournal, Goto
  <1>1. pc' = "clean" /\ journal' = NoJournal /\ Vault' = active
    BY DEF Vault, NoJournal
  <1>2. active = Vault
    <2>1. CASE journal.phase = "Committed"
      BY <2>1 DEF Vault
    <2>2. CASE journal.phase # "Committed"
      <3>1. Uncommitted /\ ~(at <= Len(FILES))
        BY <2>2 DEF RollingBack, Uncommitted, JournalMatches, ReplaceTypeOK
      <3>2. ASSUME NEW f \in File PROVE active[f] = Vault[f]
        <4>1. PICK j \in DOMAIN FILES : FILES[j] = f
          BY Lists
        <4>2. j < at
          BY <3>1, Lists DEF ReplaceTypeOK
        <4> QED
          BY <3>1, <4>1, <4>2 DEF Progress
      <3> QED
        BY <3>2, VaultIsFunction DEF ReplaceTypeOK, Files
    <2> QED
      BY <2>1, <2>2
  <1>3. ReplaceTypeOK'
    BY <1>1 DEF ReplaceTypeOK, NoJournal
  <1>4. JournalMatches'
    BY <1>1 DEF JournalMatches, NoJournal
  <1>5. VaultWhole'
    BY <1>1, <1>2, StaysWhole DEF Uncommitted, NoJournal
  <1>6. BackupHolds'
    BY <1>1 DEF BackupHolds, Uncommitted, NoJournal
  <1>7. Progress'
    BY <1>1 DEF Progress
  <1> QED
    BY <1>1, <1>2, <1>3, <1>4, <1>5, <1>6, <1>7

\* Without a journal the two directories no longer matter.
LEMMA RemoveDirectoriesStep ==
    ASSUME ReplaceInv, RemoveDirectories
    PROVE  ReplaceInv' /\ Vault' = Vault
  <1> USE DEF ReplaceInv, RemoveDirectories, Goto
  <1>1. journal = NoJournal /\ journal' = NoJournal
    BY DEF JournalMatches
  <1>2. Vault' = Vault
    BY <1>1 DEF Vault, NoJournal
  <1>3. ReplaceTypeOK'
    BY DEF ReplaceTypeOK, Files, Nothing
  <1>4. JournalMatches'
    BY <1>1 DEF JournalMatches
  <1>5. VaultWhole'
    BY <1>1, <1>2, StaysWhole DEF Uncommitted, NoJournal
  <1>6. BackupHolds'
    BY <1>1 DEF BackupHolds, Uncommitted, NoJournal
  <1>7. Progress'
    BY DEF Progress
  <1> QED
    BY <1>2, <1>3, <1>4, <1>5, <1>6, <1>7

\* The process may stop anywhere.
LEMMA StopStep ==
    ASSUME ReplaceInv, Stop
    PROVE  ReplaceInv' /\ Vault' = Vault
  <1> USE DEF ReplaceInv, Stop, Goto
  <1>1. Vault' = Vault
    BY DEF Vault
  <1>2. ReplaceTypeOK'
    BY DEF ReplaceTypeOK, Files, Nothing
  <1>3. JournalMatches'
    BY DEF JournalMatches
  <1>4. VaultWhole'
    BY <1>1, StaysWhole DEF Uncommitted
  <1>5. BackupHolds'
    BY DEF BackupHolds, Uncommitted
  <1>6. Progress'
    BY DEF Progress
  <1> QED
    BY <1>1, <1>2, <1>3, <1>4, <1>5, <1>6

\* One step: the invariant is kept, and the vault changes as VaultSwap says.
LEMMA ReplaceStep ==
    ASSUME ReplaceInv, [ReplaceNext]_vars
    PROVE  ReplaceInv' /\ [Swap!SwapNext]_Vault
  <1>1. CASE OpenDatabase
    BY <1>1, OpenDatabaseStep DEF Swap!SwapNext
  <1>2. CASE Stage
    BY <1>2, StageStep
  <1>3. CASE InstallStep
    BY <1>3, StageFileStep, InstallStarts, WritePreparedStep, MoveOldStep,
       WriteOldMovedStep, InstallNewStep, WriteNewInstalledStep, WriteCommittedStep DEF InstallStep, Swap!SwapNext
  <1>4. CASE RecoverStep
    BY <1>4, StartRecoverStep, RestoreFileStep, RemoveJournalStep, RemoveDirectoriesStep
       DEF RecoverStep
  <1>5. CASE Stop
    BY <1>5, StopStep
  <1>6. CASE UNCHANGED vars
    <2>1. /\ active' = active /\ stage' = stage /\ backup' = backup /\ journal' = journal
          /\ pc' = pc /\ at' = at /\ generation' = generation /\ stops' = stops
      BY <1>6 DEF vars
    <2>2. Vault' = Vault /\ Uncommitted' = Uncommitted
      BY <2>1, Zenon DEF Vault, Uncommitted
    <2>3. ReplaceTypeOK' /\ JournalMatches'
      BY <2>1, Zenon DEF ReplaceInv, ReplaceTypeOK, JournalMatches
    <2>4. VaultWhole' /\ BackupHolds'
      BY <2>1, <2>2, Zenon DEF ReplaceInv, VaultWhole, BackupHolds
    <2>5. Progress'
      BY <2>1, <2>2, Zenon DEF ReplaceInv, Progress
    <2> QED
      BY <2>2, <2>3, <2>4, <2>5 DEF ReplaceInv
  <1> QED
    BY <1>1, <1>2, <1>3, <1>4, <1>5, <1>6 DEF ReplaceNext

--------------------------------------------------------------------------------
\* The inductive invariant of the replacement.
THEOREM ReplaceInvariant == ReplaceSpec => []ReplaceInv
  BY InitReplaceInv, ReplaceStep, PTL DEF ReplaceSpec

\* The directories and the journal always have their declared shape.
THEOREM ReplaceTypeCorrect == ReplaceSpec => []ReplaceTypeOK
  <1>1. ReplaceInv => ReplaceTypeOK
    BY DEF ReplaceInv
  <1> QED
    BY <1>1, ReplaceInvariant, PTL

\* A command that opens the vault finds one generation, for every list of files
\* and however often replacements and recoveries were interrupted before.
THEOREM VaultOpensWhole == ReplaceSpec => []OpensOneGeneration
  <1>1. ReplaceInv => OpensOneGeneration
    <2> SUFFICES ASSUME ReplaceInv, pc = "idle" PROVE OpensOneGeneration
      BY DEF OpensOneGeneration
    <2>1. journal = NoJournal /\ Vault = active
      BY DEF ReplaceInv, JournalMatches, Vault, NoJournal
    <2> QED
      BY <2>1 DEF ReplaceInv, VaultWhole, OpensOneGeneration
  <1> QED
    BY <1>1, ReplaceInvariant, PTL

\* recover is never left without the backup it needs.
THEOREM RecoveryNeverRefuses == ReplaceSpec => []NeverRefused
  <1>1. ReplaceInv => NeverRefused
    <2> SUFFICES ASSUME ReplaceInv, Refuses PROVE FALSE
      BY DEF NeverRefused
    <2>1. journal.phase \in {"OldMoved", "NewInstalled"}
      BY DEF Refuses, RollingBack, ReplaceInv, ReplaceTypeOK, JournalMatches
    <2> QED
      BY <2>1 DEF Refuses, ReplaceInv, BackupHolds
  <1> QED
    BY <1>1, ReplaceInvariant, PTL

\* The journalled replacement implements the replacement in a single step.
THEOREM ReplacementIsAtomic == ReplaceSpec => RefinesVaultSwap
  <1>1. ReplaceInit => Swap!SwapInit
    BY DEF ReplaceInit, Swap!SwapInit, Vault, NoJournal
  <1>2. ReplaceInv /\ [ReplaceNext]_vars => [Swap!SwapNext]_Vault
    BY ReplaceStep
  <1> QED
    BY <1>1, <1>2, ReplaceInvariant, PTL DEF ReplaceSpec, RefinesVaultSwap, Swap!SwapSpec

================================================================================
