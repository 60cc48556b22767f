-------------------------------- MODULE VaultSwap --------------------------------
(* What vault_files.rs promises a command that opens the vault: the files it     *)
(* finds are one generation. A generation is replaced by another in a single     *)
(* step, and within one only SQLite's side files come and go.                    *)
CONSTANTS
    File,          \* the files of a vault
    Staged,        \* those a new generation consists of
    Generation,    \* generations
    Absent         \* a file that does not exist

VARIABLE vault     \* for each file, the generation that wrote it, or Absent

SwapInit == vault \in [File -> {0, Absent}]

\* SQLite creates or removes its side files, with the generation of the database.
SideFiles ==
    \E g \in Generation :
        /\ vault' \in [File -> {g, Absent}]
        /\ \A f \in Staged : vault'[f] = vault[f]

\* All files of a generation that was not there before take the place of the old ones.
Replace ==
    \E g \in Generation :
        /\ \A f \in File : vault[f] # g
        /\ vault' = [f \in File |-> IF f \in Staged THEN g ELSE Absent]

SwapNext == SideFiles \/ Replace

SwapSpec == SwapInit /\ [][SwapNext]_vault
================================================================================
