----------------------------- MODULE MCVaultReplace -----------------------------
(* VaultReplace with the file names of vault_files.rs.                            *)
EXTENDS VaultReplace

MCFILES == <<"vault.json", "notes.db", "notes.db-wal", "notes.db-shm", "vault-link.json">>

MCSTAGED == <<"vault.json", "notes.db", "vault-link.json">>
================================================================================
