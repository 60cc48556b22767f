------------------------------- MODULE NativeSync -------------------------------
(* Devices running the native client (apps/cli over crates/zk-sync) against one  *)
(* account of the server. A device does one thing at a time: the data-directory  *)
(* lock keeps a second process out and the TUI awaits its sync. A sync cycle     *)
(* (run_sync_cycle) resets in-flight mutations, pulls, pushes the queue in       *)
(* order and, if a push was accepted, pulls again. Between two requests of one   *)
(* device the others, and requests that were given up on, reach the server.      *)
EXTENDS ServerStore, Sequences

CONSTANTS
    Client,            \* devices
    UserOps,           \* the note commands used: subset of {"update", "delete", "purge"}
    Strategies,        \* the conflict resolutions used
    Faults,            \* subset of {"timeout", "crash", "unauthorized"}
    PageLimit,         \* PullOptions.page_limit
    MaxWrites,         \* bound: mutation ids a device draws
    MaxTotal,          \* bound: mutation ids drawn by all devices together
    MaxOutstanding,    \* bound: queued mutations of one object on one device
    MaxConflicts,      \* bound: conflict records of a device, see StartSync
    MaxFaults          \* bound: faults

ASSUME NativeAssumption ==
    /\ MutationId = Client \X (1 .. MaxWrites)
    /\ PageLimit \in Nat \ {0}
    /\ MaxFaults \in Nat

VARIABLES
    store,             \* each device's database
    proc,              \* each device's running cycle
    minted,            \* how many mutation ids each device has drawn
    late,              \* requests sent and given up on, which may still arrive
    faults             \* faults so far

INSTANCE ClientStore

clientVars == <<store, proc, minted, late, faults>>
vars == <<serverVars, clientVars>>

Idle == [phase |-> "idle", todo |-> <<>>, accepted |-> FALSE]

--------------------------------------------------------------------------------
(* How a step of a device ends.                                                  *)

\* The writes are all made and the device goes on with p.
Completes(d, writes, p) ==
    /\ store' = [store EXCEPT ![d] = Last(writes)]
    /\ proc' = [proc EXCEPT ![d] = p]
    /\ UNCHANGED faults

Fault(kind) == kind \in Faults /\ faults < MaxFaults /\ faults' = faults + 1

\* The process dies, or a write fails and ends the command, after some writes.
CutShort(d, writes) ==
    /\ Fault("crash")
    /\ \E k \in 1 .. Len(writes) - 1 : store' = [store EXCEPT ![d] = writes[k]]
    /\ proc' = [proc EXCEPT ![d] = Idle]

Ends(d, writes, p) == Completes(d, writes, p) \/ CutShort(d, writes)

FreshId(d) == <<d, minted[d] + 1>>

Drawn == {m \in MutationId : m[2] <= minted[m[1]]}

Mints(d) ==
    /\ minted[d] < MaxWrites /\ Cardinality(Drawn) < MaxTotal
    /\ minted' = [minted EXCEPT ![d] = @ + 1]

\* No device and no request knows o yet: a new note gets a random UUID.
Unused(o) ==
    /\ ~Exists(o)
    /\ \A d \in Client : /\ ~Holds(store[d], o)
                         /\ \A w \in store[d].issued : w.object # o

--------------------------------------------------------------------------------
(* The user, while no cycle runs.                                                *)

IsIdle(d) == proc[d].phase = "idle"

Create(d) ==
    /\ IsIdle(d) /\ Mints(d)
    /\ \E o \in Object : Unused(o) /\ Ends(d, CreateNote(store[d], o, FreshId(d)), Idle)
    /\ UNCHANGED <<late, serverVars>>

Edit(d, op, del) ==
    /\ IsIdle(d) /\ op \in UserOps /\ Mints(d)
    /\ \E o \in Object :
           /\ Holds(store[d], o) /\ ~store[d].rows[o].deleted
           /\ Len(QueuedFor(store[d], o)) < MaxOutstanding
           /\ Ends(d, EditNote(store[d], o, FreshId(d), del), Idle)
    /\ UNCHANGED <<late, serverVars>>

Update(d) == Edit(d, "update", FALSE)

Delete(d) == Edit(d, "delete", TRUE)

Purge(d) ==
    /\ IsIdle(d) /\ "purge" \in UserOps
    /\ \E o \in Object : Holds(store[d], o) /\ Ends(d, PurgeNote(store[d], o), Idle)
    /\ UNCHANGED <<minted, late, serverVars>>

Unresolved(d) == {k \in DOMAIN store[d].conflicts : ~store[d].conflicts[k].resolved}

ResolveKeepLocal(d) ==
    /\ IsIdle(d) /\ "keep_local" \in Strategies /\ Mints(d)
    /\ \E k \in Unresolved(d) : Ends(d, KeepLocal(store[d], k, FreshId(d)), Idle)
    /\ UNCHANGED <<late, serverVars>>

ResolveKeepRemote(d) ==
    /\ IsIdle(d) /\ "keep_remote" \in Strategies
    /\ \E k \in Unresolved(d) : Ends(d, KeepRemote(store[d], k), Idle)
    /\ UNCHANGED <<minted, late, serverVars>>

ResolveMerge(d) ==
    /\ IsIdle(d) /\ "merge" \in Strategies /\ Mints(d)
    /\ \E k \in Unresolved(d) :
           /\ ~store[d].conflicts[k].localDeleted /\ ~store[d].conflicts[k].remoteDeleted
           /\ Ends(d, Merge(store[d], k, FreshId(d)), Idle)
    /\ UNCHANGED <<late, serverVars>>

ResolveDuplicate(d) ==
    /\ IsIdle(d) /\ "duplicate" \in Strategies /\ Mints(d)
    /\ \E k \in Unresolved(d), o \in Object :
           Unused(o) /\ Ends(d, DuplicateAsSeparate(store[d], k, FreshId(d), o), Idle)
    /\ UNCHANGED <<late, serverVars>>

--------------------------------------------------------------------------------
(* run_sync_cycle: recovery and pulls.                                           *)

\* A queued mutation for which no answer of the server has been recorded.
Unanswered(d, m) ==
    /\ m.status # "Failed"
    /\ \A k \in DOMAIN store[d].conflicts : store[d].conflicts[k].local # m.envelope

\* The statuses of the queue do not change during a pull, so the snapshot that
\* push_pending_changes takes is the queue as the pull leaves it.
ToPush(s) == SelectSeq(s.queue, LAMBDA m : m.status \in {"Pending", "InFlight"})

\* The code starts a cycle whenever the user asks for one, and every cycle records
\* the conflict of a rejected mutation anew. The bound: a device with MaxConflicts
\* records starts no cycle that would push only mutations with a record already.
StartSync(d) ==
    /\ IsIdle(d)
    /\ LET todo == ToPush(store[d]) IN
       \/ Len(store[d].conflicts) < MaxConflicts
       \/ todo = <<>>
       \/ \E i \in DOMAIN todo : Unanswered(d, todo[i])
    /\ Completes(d, <<ResetInFlight(store[d])>>, [Idle EXCEPT !.phase = "pull"])
    /\ UNCHANGED <<minted, late, serverVars>>

\* The databases gone through while the page is applied, in sequence order.
ApplyPage(s, page) ==
    LET n == Cardinality(page)
        change == [i \in 1 .. n |-> CHOOSE c \in page :
                      Cardinality({e \in page : e.row.seq <= c.row.seq}) = i]
        done[i \in 0 .. n] ==
            IF i = 0 THEN <<s>> ELSE done[i - 1] \o ApplyChange(Last(done[i - 1]), change[i])
    IN  done[n]

\* Faulty variant: a pull that brings nothing new ends the cycle.
PullOnlyPushesAfterNews(d) ==
    LET s == store[d]
        p == proc[d]
        page == PullPage(s.cursor, PageLimit)
    IN  /\ p.phase \in {"pull", "followup"}
        /\ Ends(d, ApplyPage(s, page),
                IF HasMore(s.cursor, PageLimit) THEN p
                ELSE IF p.phase = "followup" \/ page = {} \/ ToPush(s) = <<>> THEN Idle
                ELSE [p EXCEPT !.phase = "push", !.todo = ToPush(s)])
        /\ UNCHANGED <<minted, late, serverVars>>

Pull(d) ==
    LET s == store[d]
        p == proc[d]
    IN  /\ p.phase \in {"pull", "followup"}
        /\ Ends(d, ApplyPage(s, PullPage(s.cursor, PageLimit)),
                IF HasMore(s.cursor, PageLimit) THEN p
                ELSE IF p.phase = "followup" \/ ToPush(s) = <<>> THEN Idle
                ELSE [p EXCEPT !.phase = "push", !.todo = ToPush(s)])
        /\ UNCHANGED <<minted, late, serverVars>>

\* A pull request fails: the cycle returns the error.
PullFails(d) ==
    /\ proc[d].phase \in {"pull", "followup"}
    /\ Fault("timeout")
    /\ proc' = [proc EXCEPT ![d] = Idle]
    /\ UNCHANGED <<store, minted, late, serverVars>>

--------------------------------------------------------------------------------
(* push_pending_changes: one action per way a push of the next mutation ends.    *)

Pushing(d) == proc[d].phase = "push"

Current(d) == Head(proc[d].todo)

PushRequest(m) == [mutation |-> m.id, object |-> m.object, expected |-> m.expected,
                   envelope |-> m.envelope, deleted |-> m.deleted]

Outcome(d) == PushOutcome(PushRequest(Current(d)))

Sent(d) == SetStatus(store[d], Current(d).id, "InFlight")

\* Faulty variant: the loop does not notice its end.
AfterPushNeverEnds(d, accepted) ==
    [proc[d] EXCEPT !.todo = Tail(@), !.accepted = @ \/ accepted]

\* The loop goes on; after its last mutation the cycle pulls again if any was accepted.
AfterPush(d, accepted) ==
    LET p == [proc[d] EXCEPT !.todo = Tail(@), !.accepted = @ \/ accepted]
    IN  IF p.todo # <<>> THEN p
        ELSE IF p.accepted THEN [Idle EXCEPT !.phase = "followup"] ELSE Idle

PushAccepted(d) ==
    /\ Pushing(d) /\ Outcome(d).kind = "success"
    /\ PushMutation(PushRequest(Current(d)))
    /\ Ends(d, <<Sent(d)>> \o AcknowledgeAccepted(Sent(d), Current(d), Outcome(d).revision,
                                                  Outcome(d).seq),
            AfterPush(d, TRUE))
    /\ UNCHANGED <<minted, late>>

PushConflict(d) ==
    /\ Pushing(d) /\ Outcome(d).kind = "conflict"
    /\ PushMutation(PushRequest(Current(d)))
    /\ Ends(d, <<Sent(d)>> \o RecordConflict(Sent(d), Current(d), Outcome(d).current),
            AfterPush(d, FALSE))
    /\ UNCHANGED <<minted, late>>

\* Every other answer is fatal: the mutation is marked Failed and the cycle ends.
MarkFailed(d) == Ends(d, <<Sent(d), SetStatus(store[d], Current(d).id, "Failed")>>, Idle)

PushRefused(d) ==
    /\ Pushing(d) /\ Outcome(d).kind \in {"not_found", "replay_mismatch"}
    /\ PushMutation(PushRequest(Current(d)))
    /\ MarkFailed(d)
    /\ UNCHANGED <<minted, late>>

\* The session is gone by the time of the push.
PushUnauthorized(d) ==
    /\ Pushing(d) /\ Fault("unauthorized")
    /\ store' = [store EXCEPT ![d] = SetStatus(@, Current(d).id, "Failed")]
    /\ proc' = [proc EXCEPT ![d] = Idle]
    /\ UNCHANGED <<minted, late, serverVars>>

\* No answer: the mutation is Pending again, the loop goes on with the next one,
\* and the request arrives later or never.
PushTimeout(d) ==
    /\ Pushing(d) /\ Fault("timeout")
    /\ late' = late \cup {PushRequest(Current(d))}
    /\ store' = [store EXCEPT ![d] = SetStatus(@, Current(d).id, "Pending")]
    /\ proc' = [proc EXCEPT ![d] = AfterPush(d, FALSE)]
    /\ UNCHANGED <<minted, serverVars>>

\* The process dies while it waits for the answer.
PushCrash(d) ==
    /\ Pushing(d) /\ Fault("crash")
    /\ late' = late \cup {PushRequest(Current(d))}
    /\ store' = [store EXCEPT ![d] = Sent(d)]
    /\ proc' = [proc EXCEPT ![d] = Idle]
    /\ UNCHANGED <<minted, serverVars>>

LateArrival ==
    /\ \E r \in late : PushMutation(r) /\ late' = late \ {r}
    /\ UNCHANGED <<store, proc, minted, faults>>

--------------------------------------------------------------------------------
NativeInit ==
    /\ Init
    /\ store = [d \in Client |-> EmptyStore]
    /\ proc = [d \in Client |-> Idle]
    /\ minted = [d \in Client |-> 0]
    /\ late = {}
    /\ faults = 0

UserStep(d) ==
    \/ Create(d) \/ Update(d) \/ Delete(d) \/ Purge(d)
    \/ ResolveKeepLocal(d) \/ ResolveKeepRemote(d) \/ ResolveMerge(d) \/ ResolveDuplicate(d)

SyncStep(d) ==
    \/ StartSync(d) \/ Pull(d)
    \/ PushAccepted(d) \/ PushConflict(d) \/ PushRefused(d)

FaultStep(d) == PullFails(d) \/ PushUnauthorized(d) \/ PushTimeout(d) \/ PushCrash(d)

NativeNext ==
    \/ \E d \in Client : UserStep(d) \/ SyncStep(d) \/ FaultStep(d)
    \/ LateArrival

NativeSpec == NativeInit /\ [][NativeNext]_vars

\* Every device keeps syncing, and a cycle that runs is carried on.
FairNativeSpec == NativeSpec /\ \A d \in Client : WF_vars(SyncStep(d))

--------------------------------------------------------------------------------
Mutation == [id : MutationId, object : Object, expected : Nat, envelope : Envelope,
             deleted : BOOLEAN, status : {"Pending", "InFlight", "Failed"}]

\* Databases, cycles and requests have their declared shape.
NativeTypeOK ==
    /\ TypeOK
    /\ \A d \in Client :
           /\ store[d].rows \in [Object -> Row]
           /\ \A i \in DOMAIN store[d].queue : store[d].queue[i] \in Mutation
           /\ \A b \in store[d].base : b \in [object : Object, revision : Nat, envelope : Envelope]
           /\ store[d].cursor \in 0 .. currentSeq
           /\ proc[d].phase \in {"idle", "pull", "push", "followup"}
           /\ proc[d].phase = "push" <=> proc[d].todo # <<>>
    /\ late \subseteq [mutation : MutationId, object : Object, expected : Nat,
                       envelope : Envelope, deleted : BOOLEAN]

\* Every version on the server was written with the version it replaced in view:
\* no device's edit, however late its request arrives, silently destroys an edit
\* its author had not seen (MASTER_SPEC.md P-003, push.rs acceptance criterion 4).
NoStaleOverwrite ==
    \A o \in Object : \A v, w \in Versions(o) :
        v.revision < w.revision => v.envelope \subseteq w.envelope

Answered(d, w) ==
    \E k \in DOMAIN store[d].conflicts : store[d].conflicts[k].object = w.object

\* A mutation a device enqueued is still queued there or was applied by the
\* server, unless a conflict of its object was put before the user: timeouts,
\* crashes between any two writes and fatal answers never drop one.
EditsAccountedFor ==
    \A d \in Client : \A w \in store[d].issued :
        Queued(store[d], w.id) \/ IsProcessed(w.id) \/ Answered(d, w)

\* The text of write w is queued, was applied by the server, or is in a conflict
\* record or in the local row.
TextKept(d, w) ==
    \/ Queued(store[d], w.id) \/ IsProcessed(w.id)
    \/ Holds(store[d], w.object) /\ w.id \in store[d].rows[w.object].envelope
    \/ \E k \in DOMAIN store[d].conflicts : w.id \in store[d].conflicts[k].local

\* The text of an edit never vanishes (orchestrator.rs, "No mutation is silently
\* dropped under any condition").
EditsNeverVanish == \A d \in Client : \A w \in store[d].issued : TextKept(d, w)

\* No rejected mutation of o was recorded by two cycles.
RecordedOnce(d, o) ==
    \A j, k \in DOMAIN store[d].conflicts :
        LET cj == store[d].conflicts[j]
            ck == store[d].conflicts[k]
        IN  cj.object = o /\ ck.object = o /\ cj.local = ck.local => j = k

\* What EditsNeverVanish says holds through timeouts, late requests, rejections,
\* resolutions and rejected resolutions, when a note is edited again only once its last
\* edit was pushed, and each conflict is resolved before another cycle records it
\* again: a resolution empties the queue of the note, also of what came after the record.
EditsSurviveResolution ==
    \A d \in Client : \A w \in store[d].issued : RecordedOnce(d, w.object) => TextKept(d, w)

\* A row that came from the server, through a pull or an acknowledgement, is one
\* of the server's versions once no local edit of the object is left, also when
\* the acknowledgement is the answer to a retry.
CleanRowsAreVersions ==
    \A d \in Client, o \in Object :
        LET row == store[d].rows[o] IN
        row.seq > 0 /\ QueuedFor(store[d], o) = <<>> => row \in Versions(o)

\* Between cycles the cursor means what cursor.rs says: an object without local
\* edits whose current version it covers is stored in that version.
CursorIsHonest ==
    \A d \in Client, o \in Object :
        IsIdle(d) /\ QueuedFor(store[d], o) = <<>> /\ objects[o].seq <= store[d].cursor
            => store[d].rows[o] = objects[o]

\* The base of a recorded conflict is an ancestor of both of its sides, so that the
\* three-way merge sees as changes only what each side changed (zk-storage models.rs,
\* "the base object prior to divergent edits"). It holds while a note is edited again
\* only once its last edit was pushed. With two queued edits record_conflict looks the
\* base of the second up by a revision number under which the device had archived its
\* own first edit, which the remote side never contained.
MergeBaseIsAncestor ==
    \A d \in Client : \A k \in DOMAIN store[d].conflicts :
        LET c == store[d].conflicts[k] IN
        c.base # NoEnvelope => c.base \subseteq c.local /\ c.base \subseteq c.remote

\* The rejected mutation of conflict k is the retry that resolved an earlier one.
RejectedRetry(d, k) ==
    \E j \in 1 .. k - 1 :
        LET c == store[d].conflicts[j] IN
        /\ c.resolved /\ c.object = store[d].conflicts[k].object
        /\ c.remoteRevision = store[d].conflicts[k].baseRevision

\* Under the same condition the base is there whenever an edit is rejected, however
\* many acknowledgements have pruned base versions and resolutions have replaced the
\* row since: only the rejected retry of a resolution has none.
EditConflictHasBase ==
    \A d \in Client : \A k \in DOMAIN store[d].conflicts :
        store[d].conflicts[k].base = NoEnvelope => RejectedRetry(d, k)

\* A conflict of an edit made on some revision has that revision as its base
\* (MASTER_SPEC.md 10.1: the client needs access to BASE).
ConflictHasBase ==
    \A d \in Client : \A k \in DOMAIN store[d].conflicts :
        LET c == store[d].conflicts[k] IN c.baseRevision > 0 => c.base # NoEnvelope

\* Failures that a retry can cure leave no mutation behind: none is in the status
\* that every later cycle skips (orchestrator.rs, "Retryable network failures
\* never drop mutations").
RetryableFailuresRecover ==
    \A d \in Client : \A i \in DOMAIN store[d].queue : store[d].queue[i].status # "Failed"

\* Every mutation that is enqueued is eventually applied by the server, put before
\* the user as a conflict or marked Failed.
EditsSettle ==
    \A m \in MutationId :
        (\E i \in DOMAIN store[m[1]].queue : store[m[1]].queue[i].id = m) ~>
            \/ IsProcessed(m) \/ ~Queued(store[m[1]], m)
            \/ ~Unanswered(m[1], MutationOf(store[m[1]], m))
================================================================================
