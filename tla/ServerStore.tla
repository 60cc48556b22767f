------------------------------ MODULE ServerStore ------------------------------
(* The sync side of the server database (apps/server/src/db/store.rs), for one *)
(* account: the current ciphertext row of every object, the history of the     *)
(* rows it replaced, the processed mutation ids and the sequence counter.      *)
(* ServerDb serialises every operation on one connection and push_mutation     *)
(* runs in one SQLite transaction, so a push is one atomic step.               *)
EXTENDS Integers, FiniteSets

CONSTANTS
    Object,        \* object ids
    Envelope,      \* opaque ciphertexts
    NoEnvelope,    \* stands for the envelope of an object without a row
    MutationId,    \* client-chosen mutation ids
    Revision       \* the expected revisions that requests carry

ASSUME ObjectAssumption == IsFiniteSet(Object)
ASSUME EnvelopeAssumption == NoEnvelope \notin Envelope
ASSUME RevisionAssumption == Revision \subseteq Nat

VARIABLES
    objects,       \* encrypted_objects: the current row of every object
    history,       \* object_history: the rows that a later push replaced
    processed,     \* processed_mutations: what each accepted mutation id got
    currentSeq     \* account_sequences.current_seq

serverVars == <<objects, history, processed, currentSeq>>

Request == [mutation : MutationId, object : Object, expected : Revision,
            envelope : Envelope, deleted : BOOLEAN]

Row == [revision : Nat, seq : Nat, envelope : Envelope \cup {NoEnvelope},
        deleted : BOOLEAN]

\* An object that has no row: its next write is accepted at expected revision 0.
NoRow == [revision |-> 0, seq |-> 0, envelope |-> NoEnvelope, deleted |-> FALSE]

\* The BLAKE2s digest binds every field but the mutation id; it is collision free.
RequestHash(r) == [object |-> r.object, expected |-> r.expected,
                   envelope |-> r.envelope, deleted |-> r.deleted]

Unprocessed == [hash |-> NoEnvelope, revision |-> 0, seq |-> 0]

Receipt == [hash : [object : Object, expected : Revision, envelope : Envelope,
                    deleted : BOOLEAN],
            revision : Nat \ {0}, seq : Nat \ {0}]

IsProcessed(m) == processed[m].revision # 0

Exists(o) == objects[o].revision # 0

\* Every version of o the server still has: the replaced ones and the current one.
Versions(o) == history[o] \cup (IF Exists(o) THEN {objects[o]} ELSE {})

--------------------------------------------------------------------------------
(* push_mutation_in_tx: the replay lookup comes before the compare-and-swap.   *)

Replays(r) == IsProcessed(r.mutation) /\ processed[r.mutation].hash = RequestHash(r)

ReplayMismatch(r) == IsProcessed(r.mutation) /\ processed[r.mutation].hash # RequestHash(r)

Conflicts(r) == /\ ~IsProcessed(r.mutation)
                /\ Exists(r.object)
                /\ r.expected # objects[r.object].revision

ObjectNotFound(r) == /\ ~IsProcessed(r.mutation)
                     /\ ~Exists(r.object)
                     /\ r.expected # 0

\* Faulty variants: the replay lookup is forgotten; an older revision is accepted.
AcceptsWithoutReplayLookup(r) == r.expected = objects[r.object].revision

AcceptsStale(r) == ~IsProcessed(r.mutation) /\ r.expected <= objects[r.object].revision

Accepts(r) == ~IsProcessed(r.mutation) /\ r.expected = objects[r.object].revision

\* Faulty variant: a replay is answered with the object's position, not the write's.
PushOutcomeOfCurrent(r) ==
    CASE IsProcessed(r.mutation) -> [kind |-> "success",
                                     revision |-> objects[r.object].revision,
                                     seq |-> objects[r.object].seq]
      [] Accepts(r)              -> [kind |-> "success",
                                     revision |-> objects[r.object].revision + 1,
                                     seq |-> currentSeq + 1]
      [] Conflicts(r)            -> [kind |-> "conflict", current |-> objects[r.object]]
      [] ObjectNotFound(r)       -> [kind |-> "not_found"]

\* The PushOutcome the caller gets, computed in the state the push finds.
PushOutcome(r) ==
    CASE Replays(r)        -> [kind |-> "success",
                               revision |-> processed[r.mutation].revision,
                               seq |-> processed[r.mutation].seq]
      [] Accepts(r)        -> [kind |-> "success",
                               revision |-> objects[r.object].revision + 1,
                               seq |-> currentSeq + 1]
      [] Conflicts(r)      -> [kind |-> "conflict", current |-> objects[r.object]]
      [] ReplayMismatch(r) -> [kind |-> "replay_mismatch"]
      [] ObjectNotFound(r) -> [kind |-> "not_found"]

\* Faulty variants of the commit: the given history, counter and receipt.
FaultyCommit(r, past, counter, revision, seq) ==
    /\ history' = [history EXCEPT ![r.object] = past]
    /\ currentSeq' = counter
    /\ objects' = [objects EXCEPT ![r.object] =
           [revision |-> @.revision + 1, seq |-> currentSeq + 1,
            envelope |-> r.envelope, deleted |-> r.deleted]]
    /\ processed' = [processed EXCEPT ![r.mutation] =
           [hash |-> RequestHash(r), revision |-> revision, seq |-> seq]]

CommitWithoutHistory(r) ==
    FaultyCommit(r, history[r.object], currentSeq + 1, objects[r.object].revision + 1,
                 currentSeq + 1)

CommitWithoutCounter(r) ==
    FaultyCommit(r, Versions(r.object), currentSeq, objects[r.object].revision + 1,
                 currentSeq + 1)

CommitReceiptOfOldRevision(r) ==
    FaultyCommit(r, Versions(r.object), currentSeq + 1, objects[r.object].revision,
                 currentSeq + 1)

CommitReceiptOfNextSeq(r) ==
    FaultyCommit(r, Versions(r.object), currentSeq + 1, objects[r.object].revision + 1,
                 currentSeq + 2)

CommitAllocatesTwice(r) ==
    FaultyCommit(r, Versions(r.object), currentSeq + 2, objects[r.object].revision + 1,
                 currentSeq + 1)

\* Everything an accepted push writes before its commit.
CommitMutation(r) ==
    LET old == objects[r.object]
        new == [revision |-> old.revision + 1, seq |-> currentSeq + 1,
                envelope |-> r.envelope, deleted |-> r.deleted]
    IN  /\ history' = [history EXCEPT ![r.object] = Versions(r.object)]
        /\ currentSeq' = currentSeq + 1
        /\ objects' = [objects EXCEPT ![r.object] = new]
        /\ processed' = [processed EXCEPT ![r.mutation] =
               [hash |-> RequestHash(r), revision |-> new.revision, seq |-> new.seq]]

\* push_mutation commits only an accepted push; every other outcome rolls back.
PushMutation(r) ==
    \/ Accepts(r) /\ CommitMutation(r)
    \/ ~Accepts(r) /\ UNCHANGED serverVars

--------------------------------------------------------------------------------
(* pull_changes: the limit lowest-sequenced current rows above the cursor.     *)
(* Sequences are unique, so the ordered page is the set of its changes.        *)

\* Faulty variant: the replaced versions are served as well.
ChangesWithHistory(after) ==
    UNION {{[object |-> o, row |-> v] : v \in {w \in Versions(o) : w.seq > after}} : o \in Object}

Changes(after) ==
    {[object |-> o, row |-> objects[o]] : o \in {p \in Object : objects[p].seq > after}}

PullPage(after, limit) ==
    {c \in Changes(after) :
        Cardinality({d \in Changes(after) : d.row.seq < c.row.seq}) < limit}

HasMore(after, limit) == PullPage(after, limit) # Changes(after)

--------------------------------------------------------------------------------
Init ==
    /\ objects = [o \in Object |-> NoRow]
    /\ history = [o \in Object |-> {}]
    /\ processed = [m \in MutationId |-> Unprocessed]
    /\ currentSeq = 0

Next == \E r \in Request : PushMutation(r)

Spec == Init /\ [][Next]_serverVars

--------------------------------------------------------------------------------
\* Every table holds rows of its declared shape.
TypeOK ==
    /\ objects \in [Object -> Row]
    /\ history \in [Object -> SUBSET Row]
    /\ processed \in [MutationId -> Receipt \cup {Unprocessed}]
    /\ currentSeq \in Nat

\* The current row and the history of an object together hold exactly one
\* version for every revision from 1 to the current one: no push, retry or
\* rejected request ever loses, skips or rewrites a revision.
HistoryComplete ==
    \A o \in Object :
        /\ {v.revision : v \in Versions(o)} = 1 .. objects[o].revision
        /\ \A v, w \in Versions(o) : v.revision = w.revision => v = w

\* The account's sequence numbers order all its versions: no two versions of any
\* objects share one, none is above the counter, and within an object they grow
\* with the revision, so a cursor cannot separate a version from its successor.
SeqOrdersVersions ==
    \A o, p \in Object : \A v \in Versions(o), w \in Versions(p) :
        /\ v.seq \in 1 .. currentSeq
        /\ v.seq = w.seq => o = p /\ v = w
        /\ o = p /\ v.revision < w.revision => v.seq < w.seq

\* What a processed mutation id answers to a retry is the position of its own
\* write: that version, with the request's envelope and one above the revision
\* the request expected, is still in the store whatever was pushed since.
ReceiptsHonoured ==
    \A m \in MutationId, o \in Object :
        LET p == processed[m] IN
        IsProcessed(m) /\ p.hash.object = o =>
            /\ p.revision = p.hash.expected + 1
            /\ [revision |-> p.revision, seq |-> p.seq, envelope |-> p.hash.envelope,
                deleted |-> p.hash.deleted] \in Versions(o)

\* No two mutation ids stand for one write, and every version was written by one
\* of them: a retried request is applied exactly once.
AppliedOnce ==
    /\ \A m, n \in MutationId :
           IsProcessed(m) /\ processed[m].seq = processed[n].seq => m = n
    /\ \A o \in Object : \A v \in Versions(o) :
           \E m \in MutationId : IsProcessed(m) /\ processed[m].seq = v.seq

--------------------------------------------------------------------------------
(* The refinement mapping to the log of versions the server promises.          *)

LogEntry(o, v) == [object |-> o, revision |-> v.revision, seq |-> v.seq,
                   envelope |-> v.envelope, deleted |-> v.deleted]

VersionLog == UNION {{LogEntry(o, v) : v \in Versions(o)} : o \in Object}

\* The version a processed mutation wrote, rebuilt from its stored response.
ReceiptEntry(m) ==
    LET p == processed[m] IN
    [object |-> p.hash.object, revision |-> p.revision, seq |-> p.seq,
     envelope |-> p.hash.envelope, deleted |-> p.hash.deleted]

ReceiptLog == {[mutation |-> m, version |-> ReceiptEntry(m)] :
                  m \in {n \in MutationId : IsProcessed(n)}}

Log == INSTANCE AccountLog WITH log <- VersionLog, receipts <- ReceiptLog,
                                top <- currentSeq

\* Seen through its tables, the server is the append-only log of AccountLog:
\* every push is one append on top of the revision it expected, or nothing.
RefinesAccountLog == Log!LogSpec
================================================================================
