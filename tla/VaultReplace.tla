------------------------------ MODULE VaultReplace ------------------------------
(* Replacement of the native vault (apps/cli/src/client/vault_files.rs): install  *)
(* moves the old files to a backup directory and the staged ones into place       *)
(* under a journal; recover, which every command runs before it opens the vault,  *)
(* rolls an uncommitted replacement back. Each step is one durable change of the  *)
(* data directory (a rename, an atomic_write or a removal, with its sync_dir),    *)
(* and the process may stop, or the step fail, between any two of them.           *)
EXTENDS Naturals, Sequences

CONSTANTS
    FILES,             \* the files of a vault, in the order the code goes through them
    STAGED,            \* the files of a staged generation, in order
    Absent,            \* a file that does not exist
    MaxGeneration,     \* bound: replacements attempted
    MaxStops           \* bound: interruptions

File == {FILES[i] : i \in DOMAIN FILES}
Staged == {STAGED[i] : i \in DOMAIN STAGED}

ASSUME VaultAssumption ==
    /\ FILES \in Seq(File) /\ STAGED \in Seq(Staged)
    /\ \A i, j \in DOMAIN FILES : FILES[i] = FILES[j] => i = j
    /\ \A i, j \in DOMAIN STAGED : STAGED[i] = STAGED[j] => i = j
    /\ Staged \subseteq File /\ Staged # {}
    /\ Absent \notin Nat
    /\ MaxGeneration \in Nat /\ MaxStops \in Nat

VARIABLES
    active,            \* the data directory: for each file, the generation that wrote it
    stage,             \* .replace-<id>
    backup,            \* .backup-<id>
    journal,           \* .replace-transaction.json: its phase and old_present
    pc, at,            \* the step of the running command, and its index in a loop
    generation,        \* how many generations have been staged
    stops              \* interruptions so far

vars == <<active, stage, backup, journal, pc, at, generation, stops>>

Nothing == [f \in File |-> Absent]

NoJournal == [phase |-> "None", present |-> {}]

Present(files) == {f \in File : files[f] # Absent}

WriteJournal(phase) == journal' = [journal EXCEPT !.phase = phase]

Goto(step) == pc' = step /\ at' = 1

--------------------------------------------------------------------------------
(* Commands, which find no journal.                                               *)

\* Opening the database, and the checkpoint and close that end its use, create and
\* remove the write-ahead log and the shared-memory file next to it.
UseDatabase ==
    \E g \in {active[f] : f \in Staged} \ {Absent} :
        \E side \in [File \ Staged -> {g, Absent}] :
            active' = [f \in File |-> IF f \in Staged THEN active[f] ELSE side[f]]

OpenDatabase ==
    /\ pc = "idle"
    /\ UseDatabase
    /\ UNCHANGED <<stage, backup, journal, pc, at, generation, stops>>

\* StagedVault::create: a new, empty staging directory.
Stage ==
    /\ pc = "idle" /\ generation < MaxGeneration
    /\ generation' = generation + 1
    /\ stage' = Nothing
    /\ Goto("stage")
    /\ UNCHANGED <<active, backup, journal, stops>>

\* stage_with_hook writes the key file, the downloaded database and the link. A
\* download or a check that fails in between is a Stop. The side files of the staged
\* database, removed before the link is written, are left out: install moves none.
StageFile ==
    /\ pc = "stage" /\ at <= Len(STAGED)
    /\ stage' = [stage EXCEPT ![STAGED[at]] = generation]
    /\ at' = at + 1
    /\ UNCHANGED <<active, backup, journal, pc, generation, stops>>

\* install: the old database, if there is one, is opened and checkpointed, and the
\* backup directory is created.
Install ==
    /\ pc = "stage" /\ at > Len(STAGED)
    /\ UseDatabase \/ UNCHANGED active
    /\ backup' = Nothing
    /\ Goto("prepare")
    /\ UNCHANGED <<stage, journal, generation, stops>>

--------------------------------------------------------------------------------
(* install_with_hook.                                                             *)

\* Faulty variant: every file is taken to be present.
WritePreparedAllPresent ==
    /\ pc = "prepare"
    /\ journal' = [phase |-> "Prepared", present |-> File]
    /\ Goto("move")
    /\ UNCHANGED <<active, stage, backup, generation, stops>>

WritePrepared ==
    /\ pc = "prepare"
    /\ journal' = [phase |-> "Prepared", present |-> Present(active)]
    /\ Goto("move")
    /\ UNCHANGED <<active, stage, backup, generation, stops>>

\* Faulty variant: the two directories that paths returns are mixed up.
MoveOldIntoStage ==
    /\ pc = "move" /\ at <= Len(FILES)
    /\ LET f == FILES[at] IN
       IF f \in journal.present
       THEN /\ stage' = [stage EXCEPT ![f] = active[f]]
            /\ active' = [active EXCEPT ![f] = Absent]
       ELSE UNCHANGED <<active, stage>>
    /\ at' = at + 1
    /\ UNCHANGED <<backup, journal, pc, generation, stops>>

MoveOld ==
    /\ pc = "move" /\ at <= Len(FILES)
    /\ LET f == FILES[at] IN
       IF f \in journal.present
       THEN /\ backup' = [backup EXCEPT ![f] = active[f]]
            /\ active' = [active EXCEPT ![f] = Absent]
       ELSE UNCHANGED <<active, backup>>
    /\ at' = at + 1
    /\ UNCHANGED <<stage, journal, pc, generation, stops>>

WriteOldMoved ==
    /\ pc = "move" /\ at > Len(FILES)
    /\ WriteJournal("OldMoved")
    /\ Goto("install")
    /\ UNCHANGED <<active, stage, backup, generation, stops>>

InstallNew ==
    /\ pc = "install" /\ at <= Len(STAGED)
    /\ LET f == STAGED[at] IN
       /\ active' = [active EXCEPT ![f] = stage[f]]
       /\ stage' = [stage EXCEPT ![f] = Absent]
    /\ at' = at + 1
    /\ UNCHANGED <<backup, journal, pc, generation, stops>>

WriteNewInstalled ==
    /\ pc = "install" /\ at > Len(STAGED)
    /\ WriteJournal("NewInstalled")
    /\ Goto("commit")
    /\ UNCHANGED <<active, stage, backup, generation, stops>>

WriteCommitted ==
    /\ pc = "commit"
    /\ WriteJournal("Committed")
    /\ Goto("recover")
    /\ UNCHANGED <<active, stage, backup, generation, stops>>

--------------------------------------------------------------------------------
(* recover.                                                                       *)

\* Faulty variant: a command opens the vault without recover.
StartWithoutRecover ==
    /\ pc = "stopped"
    /\ Goto("idle")
    /\ UNCHANGED <<active, stage, backup, journal, generation, stops>>

\* NativeDataGuard::acquire, the error path of install, or the next command.
StartRecover ==
    /\ pc = "stopped"
    /\ Goto(IF journal = NoJournal THEN "idle" ELSE "recover")
    /\ UNCHANGED <<active, stage, backup, journal, generation, stops>>

RollingBack == pc = "recover" /\ journal.phase # "Committed" /\ at <= Len(FILES)

\* "replacement backup missing; vault access refused": the loop cannot go on.
Refuses ==
    /\ RollingBack
    /\ backup[FILES[at]] = Absent
    /\ FILES[at] \in journal.present
    /\ journal.phase # "Prepared"

\* Faulty variant: the backup is renamed back, not copied.
RestoreFileByRename ==
    /\ RollingBack /\ ~Refuses
    /\ LET f == FILES[at] IN
       /\ active' = IF backup[f] # Absent \/ f \notin journal.present
                    THEN [active EXCEPT ![f] = backup[f]] ELSE active
       /\ backup' = [backup EXCEPT ![f] = Absent]
    /\ at' = at + 1
    /\ UNCHANGED <<stage, journal, pc, generation, stops>>

\* The old file is copied back, or the new one removed where there was none; a
\* file not moved yet is left in place.
RestoreFile ==
    /\ RollingBack /\ ~Refuses
    /\ LET f == FILES[at] IN
       active' = IF backup[f] # Absent \/ f \notin journal.present
                 THEN [active EXCEPT ![f] = backup[f]] ELSE active
    /\ at' = at + 1
    /\ UNCHANGED <<stage, backup, journal, pc, generation, stops>>

\* Faulty variant: only a journal that was rolled back is removed.
RemoveJournalOfRollback ==
    /\ pc = "recover" /\ ~RollingBack /\ journal.phase # "Committed"
    /\ journal' = NoJournal
    /\ Goto("clean")
    /\ UNCHANGED <<active, stage, backup, generation, stops>>

RemoveJournal ==
    /\ pc = "recover" /\ ~RollingBack
    /\ journal' = NoJournal
    /\ Goto("clean")
    /\ UNCHANGED <<active, stage, backup, generation, stops>>

RemoveDirectories ==
    /\ pc = "clean"
    /\ stage' = Nothing /\ backup' = Nothing
    /\ Goto("idle")
    /\ UNCHANGED <<active, journal, generation, stops>>

\* The process dies, or a step fails and the command returns its error; the
\* staging directory is dropped, or left for clean_orphans.
Stop ==
    /\ pc \notin {"idle", "stopped"} /\ stops < MaxStops
    /\ stops' = stops + 1
    /\ Goto("stopped")
    /\ stage' \in {stage, Nothing}
    /\ UNCHANGED <<active, backup, journal, generation>>

--------------------------------------------------------------------------------
ReplaceInit ==
    /\ active \in [File -> {0, Absent}]
    /\ Present(active) \subseteq Staged
    /\ stage = Nothing /\ backup = Nothing
    /\ journal = NoJournal
    /\ pc = "idle" /\ at = 1
    /\ generation = 0 /\ stops = 0

InstallStep ==
    \/ StageFile \/ Install
    \/ WritePrepared \/ MoveOld \/ WriteOldMoved \/ InstallNew \/ WriteNewInstalled
    \/ WriteCommitted

RecoverStep ==
    \/ StartRecover \/ RestoreFile \/ RemoveJournal \/ RemoveDirectories

ReplaceNext == OpenDatabase \/ Stage \/ InstallStep \/ RecoverStep \/ Stop

ReplaceSpec == ReplaceInit /\ [][ReplaceNext]_vars

\* A command that runs goes on, and the user runs another after one that stopped.
FairReplaceSpec == ReplaceSpec /\ WF_vars(InstallStep \/ RecoverStep)

--------------------------------------------------------------------------------
Generation == 0 .. MaxGeneration

Files == [File -> Generation \cup {Absent}]

\* The data and backup directories hold files of some generation, the staging
\* directory only files of the generation being staged (what is moved out of the data
\* directory goes to the backup), and the journal has a phase of the code.
ReplaceTypeOK ==
    /\ active \in Files /\ backup \in Files
    /\ stage \in [File -> {generation, Absent}]
    /\ journal \in [phase : {"None", "Prepared", "OldMoved", "NewInstalled", "Committed"},
                    present : SUBSET File]
    /\ pc \in {"idle", "stage", "prepare", "move", "install", "commit", "recover", "clean",
               "stopped"}
    /\ at \in Nat \ {0}
    /\ generation \in Generation
    /\ stops \in Nat

\* Whenever a command opens the vault, wherever a replacement or a recovery before
\* it stopped, no journal is left and the files are all of one generation: never
\* a new database next to an old key file, link or write-ahead log.
OpensOneGeneration ==
    pc = "idle" =>
        /\ journal = NoJournal
        /\ \E g \in Generation : \A f \in File : active[f] \in {g, Absent}

\* recover never meets the state in which it refuses access to the vault: a file
\* that was there before the replacement is in the backup or still in place.
NeverRefused == ~Refuses

\* The vault as recover will leave it.
Vault ==
    IF journal.phase \in {"None", "Committed"} THEN active
    ELSE [f \in File |-> IF backup[f] # Absent THEN backup[f]
                         ELSE IF f \in journal.present THEN active[f] ELSE Absent]

Swap == INSTANCE VaultSwap WITH vault <- Vault

\* Through every interruption the vault changes as a whole, at the write of the
\* Committed phase, and no other step of a replacement or a recovery changes it.
RefinesVaultSwap == Swap!SwapSpec

\* A vault left in the middle of a replacement can be opened again in the end.
Reopens == (pc = "stopped") ~> (pc = "idle")
================================================================================
