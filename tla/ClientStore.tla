------------------------------ MODULE ClientStore ------------------------------
(* The local database of a device (crates/zk-storage) and the operations on it   *)
(* that change it: the note commands, the mutation queue, the application of     *)
(* pulled changes, conflict records and their resolution. A database is a        *)
(* record; an operation is the sequence of the databases its autocommitted       *)
(* writes go through: it leaves the last one, or an earlier one when cut short.  *)
(*                                                                               *)
(* An envelope is abstracted to the set of writes its author had in view, its    *)
(* own included: two envelopes differ when their texts do, and an edit contains  *)
(* the envelope it was made on. A deletion, which sends the old ciphertext with  *)
(* the deleted flag, and a resolution that keeps a side count as writes too.     *)
EXTENDS Naturals, Sequences

CONSTANTS Object, NoEnvelope

AbsentRow == [revision |-> 0, seq |-> 0, envelope |-> NoEnvelope, deleted |-> FALSE]

\* issued remembers, for the properties only, every mutation ever enqueued.
EmptyStore == [rows |-> [o \in Object |-> AbsentRow], queue |-> <<>>, base |-> {},
               conflicts |-> <<>>, cursor |-> 0, issued |-> {}]

Holds(s, o) == s.rows[o] # AbsentRow

Last(writes) == writes[Len(writes)]

--------------------------------------------------------------------------------
(* Single writes.                                                                *)

PutRow(s, o, row) == [s EXCEPT !.rows[o] = row]

NewMutation(id, o, expected, e, del) ==
    [id |-> id, object |-> o, expected |-> expected, envelope |-> e,
     deleted |-> del, status |-> "Pending"]

EnqueueMutation(s, m) ==
    [s EXCEPT !.queue = Append(@, m), !.issued = @ \cup {[id |-> m.id, object |-> m.object]}]

QueuedFor(s, o) == SelectSeq(s.queue, LAMBDA m : m.object = o)

Queued(s, id) == \E i \in DOMAIN s.queue : s.queue[i].id = id

MutationOf(s, id) == s.queue[CHOOSE i \in DOMAIN s.queue : s.queue[i].id = id]

RemoveMutation(s, id) == [s EXCEPT !.queue = SelectSeq(@, LAMBDA m : m.id # id)]

SetStatus(s, id, status) ==
    [s EXCEPT !.queue = [i \in DOMAIN @ |->
        IF @[i].id = id THEN [@[i] EXCEPT !.status = status] ELSE @[i]]]

\* Faulty variant: a mutation found in flight is taken for delivered.
ResetInFlightDrops(s) ==
    [s EXCEPT !.queue = SelectSeq(@, LAMBDA m : m.status # "InFlight")]

ResetInFlight(s) ==
    [s EXCEPT !.queue = [i \in DOMAIN @ |->
        IF @[i].status = "InFlight" THEN [@[i] EXCEPT !.status = "Pending"] ELSE @[i]]]

PutBase(s, o, revision, e) ==
    [s EXCEPT !.base = {b \in @ : b.object # o \/ b.revision # revision}
                       \cup {[object |-> o, revision |-> revision, envelope |-> e]}]

BaseVersion(s, o, revision) ==
    LET found == {b \in s.base : b.object = o /\ b.revision = revision}
    IN  IF found = {} THEN NoEnvelope ELSE (CHOOSE b \in found : TRUE).envelope

PruneBase(s, o, revision) ==
    [s EXCEPT !.base = {b \in @ : b.object # o \/ b.revision >= revision}]

ClearBase(s, o) == [s EXCEPT !.base = {b \in @ : b.object # o}]

--------------------------------------------------------------------------------
(* The note commands (apps/cli/src/client/notes.rs).                             *)

\* create_note: the row at revision 1, then a mutation that expects revision 0.
CreateNote(s, o, id) ==
    LET s1 == PutRow(s, o, [revision |-> 1, seq |-> 0, envelope |-> {id}, deleted |-> FALSE])
    IN  <<s1, EnqueueMutation(s1, NewMutation(id, o, 0, {id}, FALSE))>>

\* Faulty variant: the base is archived after the row was overwritten.
EditNoteArchivesLate(s, o, id, del) ==
    LET old == s.rows[o]
        e   == old.envelope \cup {id}
        s1  == PutRow(s, o, [old EXCEPT !.revision = @ + 1, !.envelope = e, !.deleted = del])
        s2  == PutBase(s1, o, old.revision, e)
    IN  <<s1, s2, EnqueueMutation(s2, NewMutation(id, o, old.revision, e, del))>>

\* Faulty variant: the base is archived under the revision of the new row.
EditNoteArchivesAsNew(s, o, id, del) ==
    LET old == s.rows[o]
        e   == old.envelope \cup {id}
        s1  == PutBase(s, o, old.revision + 1, old.envelope)
        s2  == PutRow(s1, o, [old EXCEPT !.revision = @ + 1, !.envelope = e, !.deleted = del])
    IN  <<s1, s2, EnqueueMutation(s2, NewMutation(id, o, old.revision, e, del))>>

\* update_note and delete_note: archive the base, raise the local revision, enqueue.
EditNote(s, o, id, del) ==
    LET old == s.rows[o]
        e   == old.envelope \cup {id}
        s1  == PutBase(s, o, old.revision, old.envelope)
        s2  == PutRow(s1, o, [old EXCEPT !.revision = @ + 1, !.envelope = e, !.deleted = del])
    IN  <<s1, s2, EnqueueMutation(s2, NewMutation(id, o, old.revision, e, del))>>

\* delete_note --purge: row and base versions go, queued mutations stay.
PurgeNote(s, o) ==
    LET s1 == PutRow(s, o, AbsentRow)
    IN  <<s1, ClearBase(s1, o)>>

--------------------------------------------------------------------------------
(* What a sync cycle writes (crates/zk-sync).                                    *)

\* apply_change: the object, then the cursor; a change already covered is ignored.
ApplyChange(s, c) ==
    LET s1 == PutRow(s, c.object, c.row)
    IN  IF c.row.seq > s.cursor THEN <<s1, [s1 EXCEPT !.cursor = c.row.seq]>> ELSE <<s>>

\* Faulty variant: the cursor jumps to the sequence of the device's own write.
AcknowledgeMovesCursor(s, m, revision, seq) ==
    LET s1 == PutRow([s EXCEPT !.cursor = seq], m.object,
                     [revision |-> revision, seq |-> seq,
                      envelope |-> m.envelope, deleted |-> m.deleted])
        s2 == RemoveMutation(s1, m.id)
    IN  <<s1, s2, PruneBase(s2, m.object, revision)>>

\* acknowledge_accepted: the accepted row, then the dequeue, then the pruning.
AcknowledgeAccepted(s, m, revision, seq) ==
    LET s1 == PutRow(s, m.object, [revision |-> revision, seq |-> seq,
                                   envelope |-> m.envelope, deleted |-> m.deleted])
        s2 == RemoveMutation(s1, m.id)
    IN  <<s1, s2, PruneBase(s2, m.object, revision)>>

\* Faulty variant: the local side is taken from the row, which a pull may have replaced.
RecordConflictOfRow(s, m, current) ==
    LET s1 == SetStatus(s, m.id, "Pending")
        record == [object |-> m.object, baseRevision |-> m.expected,
                   remoteRevision |-> current.revision,
                   base |-> BaseVersion(s, m.object, m.expected),
                   local |-> s.rows[m.object].envelope, remote |-> current.envelope,
                   localDeleted |-> m.deleted, remoteDeleted |-> current.deleted,
                   resolved |-> FALSE]
    IN  <<s1, [s1 EXCEPT !.conflicts = Append(@, record)]>>

\* A rejected push: back to Pending, then the record with base, local and remote.
RecordConflict(s, m, current) ==
    LET s1 == SetStatus(s, m.id, "Pending")
        record == [object |-> m.object, baseRevision |-> m.expected,
                   remoteRevision |-> current.revision,
                   base |-> BaseVersion(s, m.object, m.expected),
                   local |-> m.envelope, remote |-> current.envelope,
                   localDeleted |-> m.deleted, remoteDeleted |-> current.deleted,
                   resolved |-> FALSE]
    IN  <<s1, [s1 EXCEPT !.conflicts = Append(@, record)]>>

--------------------------------------------------------------------------------
(* resolve_conflict (crates/zk-sync/src/conflict.rs).                            *)

\* The queued mutations of o are removed one by one, the oldest first.
RemoveQueued(s, o) ==
    LET ms == QueuedFor(s, o)
    IN  [i \in 1 .. Len(ms) |->
            [s EXCEPT !.queue = SelectSeq(@, LAMBDA m : \A j \in 1 .. i : m.id # ms[j].id)]]

WithoutQueued(s, o) == [s EXCEPT !.queue = SelectSeq(@, LAMBDA m : m.object # o)]

MarkResolved(s, k) == [s EXCEPT !.conflicts[k].resolved = TRUE]

ResolvedRow(revision, e, del) ==
    [revision |-> revision, seq |-> 0, envelope |-> e, deleted |-> del]

\* KeepLocal, RestoreResurrect and Merge: retry with the chosen envelope on top of
\* the remote revision. The choice was made with both sides in view.
ResolveByRetry(s, k, id, del) ==
    LET c  == s.conflicts[k]
        e  == c.local \cup c.remote \cup {id}
        s1 == PutRow(WithoutQueued(s, c.object), c.object, ResolvedRow(c.remoteRevision, e, del))
        s2 == EnqueueMutation(s1, NewMutation(id, c.object, c.remoteRevision, e, del))
    IN  RemoveQueued(s, c.object) \o <<s1, s2, MarkResolved(s2, k)>>

KeepLocal(s, k, id) == ResolveByRetry(s, k, id, s.conflicts[k].localDeleted)

\* Merge is refused when one side is a deletion.
Merge(s, k, id) == ResolveByRetry(s, k, id, FALSE)

KeepRemote(s, k) ==
    LET c  == s.conflicts[k]
        s1 == PutRow(WithoutQueued(s, c.object), c.object,
                     ResolvedRow(c.remoteRevision, c.remote, c.remoteDeleted))
    IN  RemoveQueued(s, c.object) \o <<s1, MarkResolved(s1, k)>>

\* The remote side wins; the local text becomes a new note, queued before stored.
DuplicateAsSeparate(s, k, id, fresh) ==
    LET c  == s.conflicts[k]
        s1 == PutRow(WithoutQueued(s, c.object), c.object,
                     ResolvedRow(c.remoteRevision, c.remote, c.remoteDeleted))
        e  == c.local \cup {id}
        s2 == EnqueueMutation(s1, NewMutation(id, fresh, 0, e, FALSE))
        s3 == PutRow(s2, fresh, ResolvedRow(1, e, FALSE))
    IN  RemoveQueued(s, c.object) \o <<s1, s2, s3, MarkResolved(s3, k)>>
================================================================================
