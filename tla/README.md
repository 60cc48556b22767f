# zk-note in TLA+

zk-note is an offline-first, end-to-end encrypted notes system. The server
stores ciphertext it cannot read. Devices edit locally, queue their mutations and
exchange them with the server in pull-before-push cycles. This directory models
the parts of that system whose correctness depends on order: what the server
promises, how a device pulls, how devices edit, push, conflict and resolve, and
how a device replaces its whole local vault. TLC checks small instances and TLAPS
proves the main safety properties for all values of the constants.

Source paths below are relative to the repository root. `PROJECT.json` has the
line-by-line map, the runs, the mutants, the findings and the hazards.

## Inventory

| Part | State | Operations that change it | What is hard | Where |
|---|---|---|---|---|
| Server sync store, `apps/server/src/db/store.rs` | current row per object, history, processed mutation ids, sequence counter | `push_mutation` (`pull_changes` reads) | retries after lost answers, stale requests | `ServerStore` |
| Pull and cursor, `crates/zk-sync/src/{pull,cursor}.rs` | object store, durable cursor | page request, `apply_change`, cursor reset | rows move while a pull pages; a stop between two writes | `PullReplica` |
| Local storage, `crates/zk-storage` | rows, mutation queue, base versions, conflict records, cursor | one autocommitted write each | operations of several writes cut short | `ClientStore` |
| Note commands, `apps/cli/src/client/notes.rs` | the local storage | create, update, delete, purge | edits while earlier edits are still queued | `ClientStore`, `NativeSync` |
| Push and cycle, `crates/zk-sync/src/{push,queue,orchestrator}.rs` | statuses of mutations | reset in-flight, pull, push, acknowledge, pull again | timeouts with late arrival, several edits of one note, fatal answers | `NativeSync` |
| Conflicts, `crates/zk-sync/src/conflict.rs` | conflict records | record, keep local, keep remote, merge, duplicate | edits after the record, conflicts of resolutions | `ClientStore`, `NativeSync` |
| Vault replacement, `apps/cli/src/client/vault_files.rs` | data, staging and backup directories, journal | install, recover | crash at any step, crash in recovery | `VaultReplace` |
| Sync state machine and web client, `state_machine.rs`, `apps/web/src` | WASM state machine, IndexedDB, React contexts | sync, save, delete, resolve | awaits between read and write, edits during a sync | planned |
| Guarded last-write-wins, `conflict.rs` | as conflicts | `evaluate_guarded_lww` | the losing side must stay recoverable | planned |
| Three-way merge, `diff3.rs`, `merge.rs` | none (pure) | | symmetric and lossless merging | planned |
| Accounts: sessions, devices, WebAuthn, SSH | sessions, devices, challenges, counters | create, validate, revoke, consume | revocation races, single use | planned |
| Blobs and attachments | blobs, usage | put, delete | quota on replacement, partial uploads | planned |
| Vault bootstrap and link | bootstrap row, link file | create, stage, validate | half-linked vaults | planned |
| Cloudflare worker | the same tables in D1 | the same protocol | batch semantics | planned |
| Cryptography, WASM bindings, UI, configuration, logging | | | | not modelled |

Interactions: devices meet only at the server, which serialises its operations
on one connection. A native device does one thing at a time, because
`NativeDataGuard` locks the data directory and the TUI awaits its sync. So the
concurrency of the native system is that of devices and of requests in the
network; the concurrency inside one client belongs to the web client.

## Modules

**`AccountLog`** is the abstract promise of the server: a log of versions that
only grows, in which a write is appended on top of the revision its author named
and at most once for each mutation id.

**`ServerStore`** is `push_mutation` and `pull_changes` for one account.
`objects`, `history`, `processed` and `currentSeq` are the four tables. A push is
one transaction, hence one step. `PushOutcome` is what the caller gets and
`CommitMutation` is everything an accepted push writes. The request hash is taken
to be free of collisions. The mapping to `AccountLog` rebuilds the log from the
rows and their history and the receipts from `processed`.

**`PullReplica`** adds a device that only pulls. `FetchPage` is one request,
`ApplyChange` the two durable writes of `apply_change`, `ApplyInterrupted` a stop
between them and `PullAborted` a stop elsewhere. Other devices push at any time.

**`ClientStore`** defines a device's database as a record. An operation is the
sequence of databases that its autocommitted writes go through, so that an
operation cut short leaves an earlier one. An envelope is abstracted to the set of
writes its author had in view, which is what tells an overwrite from an edit.
A deletion sends the old ciphertext again with the deleted flag; it counts as a
write, and so does a resolution that keeps a side, which is chosen with both
sides in view.

**`NativeSync`** composes several devices with `ServerStore`. Between cycles a
user creates, updates, deletes, purges and resolves. A cycle resets in-flight
mutations, pulls page by page, pushes the queue in order and pulls again if
something was accepted. `PushAccepted`, `PushConflict`, `PushRefused`,
`PushUnauthorized`, `PushTimeout` and `PushCrash` are the ways one push ends. A
request that was given up on may arrive later (`LateArrival`). Mutations are
queued in the order of creation, which assumes that the clock behind `created_at`
does not step back.

**`VaultSwap`** is the abstract promise of a replacement: the vault changes from
one generation to another in a single step. **`VaultReplace`** is the staging
of a generation, `install_with_hook` and `recover` with one action per durable
change: a rename, an atomic write or a removal, each with the directory sync that
follows it. `Stage` and `StageFile` are `StagedVault::create` and the
files that `stage_with_hook` writes one by one; a download or a check that fails
in between is a `Stop`. `Install` is the checkpoint of the old database and the
new backup directory. The model assumes that a rename is atomic with respect to a
crash. `Stop` may happen between any two steps, in recovery too.

Each `...Proofs` module holds the theorems about the module it is named after,
and each `MC...` module the values of constants for TLC. Definitions commented as
faulty variants are plausible bugs; each makes TLC report the property that
`PROJECT.json` pairs it with.

## Runs

| Run | Instance | Shows |
|---|---|---|
| `pull` | 2 objects, 1 envelope, 3 mutation ids, pages of 1 | the server's history is complete, sequences order versions, receipts are honoured, writes happen once, and the store implements `AccountLog`; a pulling device's cursor never covers a missing version, nothing is invented, nothing regresses, and undisturbed pulls end with the server's rows |
| `native_fault_free` | 2 devices, 2 notes, 2 writes each, pages of 1 | without faults and resolutions the cursor is honest between cycles |
| `native_timeouts` | 2 devices, 1 note, 3 writes each and 5 in all, 1 timeout, one queued edit per note, 2 conflict records per device | no unseen edit is overwritten, a rejected edit has a base and the base is an ancestor of both sides, clean rows are server versions, and no text of a conflict recorded once vanishes |
| `native_crashes` | 2 devices, 2 notes, 2 writes each, 1 fault of any kind, two queued edits | every enqueued mutation is queued, applied or in conflict |
| `native_live` | 2 devices, 1 note, 2 writes each, 1 fault | every enqueued mutation settles |
| `vault_replace` | the five files of the code, 2 replacements, 3 interruptions | the vault opens as one generation, recovery never refuses, the swap is atomic, and an interrupted vault can be opened again |

The bounds are small but let the hard cases happen. Three pushes on two objects
with pages of one make a row move from a page being applied to a later one, and
the safety of the server and of pulls is proved for every size. Two devices
and two or three writes give conflicts, conflicts of resolutions, and retries that
arrive after newer writes. Three interruptions give a replacement that
is stopped, a recovery that is stopped, and one more stop.
`native_timeouts` also holds with all six writes (2,019,454 states). Its
resolutions are `KeepLocal` and `KeepRemote`. `Merge` is refused when a side is
deleted and otherwise takes the same step as `KeepLocal` in the model.
The native and vault instances stop when their bounds are used up, so deadlock is
not checked there.

Two bounds of `NativeSync` are not limits of the code. `MaxTotal` bounds the
writes of all devices together. `MaxConflicts` bounds the records of a device: a
device that has that many starts a cycle only if its queue is empty or holds a
mutation that is not on record yet. A cycle in which every push would repeat a
mutation already on record is therefore left out as a whole, with its pull and
with a further record against a newer remote version. Cycles that only pull are
kept. The code has no such guard and records the conflict again in every cycle.

The passing native runs state the conditions under which a property holds, and
the next section shows that these conditions are needed.

- `NoStaleOverwrite` and `MergeBaseIsAncestor` pass with one queued edit per note
  and fail with two.
- `MergeBaseIsAncestor` says nothing of a record without a base.
  `EditConflictHasBase` says that a rejected edit always has one; the retry of a
  resolution is exempt, and `native_base` shows why.
- `EditsSurviveResolution` is `EditsNeverVanish` for conflicts that were recorded
  once. It passes with one queued edit per note.
- `CursorIsHonest` passes without faults and without resolutions. It fails with a
  lost answer. Resolutions are excluded because a `KeepRemote` of a record older
  than the last pull puts back a row that the cursor already covers.

### Disagreements with the documentation

Six runs are expected to be violated. Each states what a comment or the
specification says and ends in a trace of what the code does.

- `native_overwrite`: after an edit was rejected, `push_pending_changes` still
  sends the next queued edit of the same note. If the remote revision happens to
  be the one it expects, it is accepted over an edit nobody saw. The state machine
  of the web client has a guard against this (`state_machine.rs:275`).
- `native_lost_answer`: the acknowledgement of a replayed push writes its old
  version over a newer one that was pulled in between and that the cursor covers.
- `native_resolve`: resolving a conflict also removes an edit that was queued
  after the conflict was recorded. With one queued edit per note it also happens
  when two cycles recorded one conflict: resolving the second record drops what
  was queued since the first was resolved.
- `native_stuck`: a create that times out makes the update behind it fail with
  "not found", and a failed mutation is never sent again.
- `native_base`: the retry of a `KeepLocal` resolution has no base version, so a
  second conflict cannot be merged three ways.
- `native_ancestor`: the base of a conflict is looked up by revision number. The
  second of two queued edits expects the number that the device's own unsynced
  first edit took, so that edit is recorded as the base although the remote side
  never contained it.

## Fairness

- `FairPullSpec`: weak fairness of the request, of applying a change and of the
  end of a pull. A running loop goes on, and devices pull again and again.
  `Converges` assumes that interruptions stop at some point.
- `FairNativeSpec`: weak fairness of each device's sync steps. The user syncs
  again and a cycle that runs is carried on. User commands, faults and late
  arrivals are not fair.
- `FairReplaceSpec`: weak fairness of the steps of install and recover. A process
  goes on until it stops, and after a stop the user runs another command, which
  starts with `recover`. The number of stops is bounded.

## Proofs

TLAPS checks these for all values of the constants.

`ServerStoreProofs`, from `Object` being finite, `NoEnvelope` not being an
envelope and `Revision` being a set of naturals: `TypeOK`, `HistoryComplete`,
`SeqOrdersVersions`, `ReceiptsHonoured`, `AppliedOnce` and the refinement of
`AccountLog`. The properties are not inductive one by one: that the answer to a
retry is still right needs that history is never rewritten, and that a new
sequence is fresh needs that all are below the counter. `StoreInv` is their
conjunction, in the form the induction needs. An accepted push adds one version
above all others and one receipt for it; every other push changes nothing.

`PullReplicaProofs`, from the same and a positive page limit: `PullTypeOK`,
`PullComplete`, `ReplicaHoldsVersions` and `NeverRegresses`. The invariant says
what a page in memory means while the server moves on: its changes are versions
above the cursor and no older than the stored ones (`PageAhead`), and below its
last change it misses no row that is still current (`PageCovers`).

`VaultReplaceProofs`, from `VaultAssumption` (the lists of files have no
repetition, what is staged is part of the vault, `Absent` is no generation):
`ReplaceTypeOK`, `OpensOneGeneration`, `NeverRefused` and the refinement of
`VaultSwap`. `ReplaceInv` ties the journal's phase to the step of the command
(`JournalMatches`), says that the vault recovery will leave is one generation
(`VaultWhole`), that moved files are in the backup until the journal is gone
(`BackupHolds`) and how far each loop has come (`Progress`).

Only model-checked: all of `NativeSync`, and the liveness properties, which are
out of the prover's reach.

## Not modelled

- Contents: encryption, note text, the merge candidate, timestamps. A failing
  decryption, which ends a cycle with an error, does not happen in the models.
- Validation of request bodies and query parameters, and the answers to requests
  no client of the repository sends.
- Options the native client leaves at their defaults: guarded last-write-wins,
  `stop_on_conflict`, `max_mutations`, `max_pages`.
- The removal of the session file by `install`, and temporary files.
- Integer widths: revisions and sequences are 64 bits wide and grow by one.
- The parts marked planned or not modelled in the inventory.

## Plan

1. `WebSync`: the state machine with the web adapter and the contexts, composed
   with `ServerStore`; edits between the reads and writes of a sync; the order of
   recording a conflict and resetting its mutation; `get_report`.
2. Guarded last-write-wins in `ClientStore` and `NativeSync`.
3. `Accounts`: sessions, devices, challenges and counters, and the SSH login, with
   revocation racing use.
4. `Blobs`: quota, attachments, and what a failed upload leaves behind.
5. `Diff3` and `NoteMerge`: recursive operators checked against a reference
   definition over bounded texts, by TLC only.
6. Vault bootstrap and link; the worker's variant of the store.
7. Proofs about `NativeSync`: type correctness and `EditsAccountedFor` first, then
   about the new modules.
