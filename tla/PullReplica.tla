------------------------------ MODULE PullReplica ------------------------------
(* A device that pulls: pull_remote_changes (crates/zk-sync/src/pull.rs) over   *)
(* the durable cursor (cursor.rs), against a server that other devices keep     *)
(* pushing to. The device pages through the changes above its cursor; for each  *)
(* change it first stores the object and then advances the cursor, and it may   *)
(* stop at any point. Its own edits are the subject of NativeSync.              *)
EXTENDS ServerStore

CONSTANT PageLimit     \* PullOptions.page_limit

ASSUME PageLimitAssumption == PageLimit \in Nat \ {0}

VARIABLES
    replica,       \* the device's object store
    cursor,        \* its durable sync cursor
    pulling,       \* whether a pull is running
    page,          \* the changes of the last response not yet applied
    hasMore        \* has_more of the last response

replicaVars == <<replica, cursor, pulling, page, hasMore>>
vars == <<serverVars, replicaVars>>

Idle == pulling' = FALSE /\ page' = {} /\ hasMore' = FALSE

\* c is the change the loop over the ordered response reaches next.
IsNextChange(c) == c \in page /\ \A d \in page : c.row.seq <= d.row.seq

\* Faulty variant: the request for the page that follows is never sent.
FetchPageFirstOnly ==
    /\ ~pulling
    /\ pulling' = TRUE
    /\ page' = PullPage(cursor, PageLimit)
    /\ hasMore' = HasMore(cursor, PageLimit)
    /\ UNCHANGED <<replica, cursor, serverVars>>

\* One request: the first of a pull, or the next one while the server has more.
FetchPage ==
    /\ page = {}
    /\ pulling => hasMore
    /\ pulling' = TRUE
    /\ page' = PullPage(cursor, PageLimit)
    /\ hasMore' = HasMore(cursor, PageLimit)
    /\ UNCHANGED <<replica, cursor, serverVars>>

\* The first durable write of apply_change: put_object, unless already processed.
PutObject(c) ==
    replica' = IF c.row.seq > cursor THEN [replica EXCEPT ![c.object] = c.row]
               ELSE replica

\* Faulty variant: the cursor is taken for the next sequence to ask for.
ApplyChangePastNext ==
    \E c \in page :
        /\ IsNextChange(c)
        /\ PutObject(c)
        /\ cursor' = IF c.row.seq > cursor THEN c.row.seq + 1 ELSE cursor
        /\ page' = page \ {c}
        /\ UNCHANGED <<pulling, hasMore, serverVars>>

\* apply_change: store the object, and only then move the cursor.
ApplyChange ==
    \E c \in page :
        /\ IsNextChange(c)
        /\ PutObject(c)
        /\ cursor' = IF c.row.seq > cursor THEN c.row.seq ELSE cursor
        /\ page' = page \ {c}
        /\ UNCHANGED <<pulling, hasMore, serverVars>>

\* Faulty variants: the cursor is written first; the row is written in two parts.
ApplyInterruptedCursorFirst ==
    /\ \E c \in page : IsNextChange(c) /\ cursor' = c.row.seq
    /\ Idle
    /\ UNCHANGED <<replica, serverVars>>

ApplyInterruptedTorn ==
    /\ \E c \in page :
           /\ IsNextChange(c)
           /\ replica' = [replica EXCEPT ![c.object] =
                              [c.row EXCEPT !.envelope = replica[c.object].envelope]]
    /\ Idle
    /\ UNCHANGED <<cursor, serverVars>>

\* The process dies, or set_sync_cursor fails, between the two writes.
ApplyInterrupted ==
    /\ \E c \in page : IsNextChange(c) /\ PutObject(c)
    /\ Idle
    /\ UNCHANGED <<cursor, serverVars>>

FinishPull ==
    /\ pulling /\ page = {} /\ ~hasMore
    /\ Idle
    /\ UNCHANGED <<replica, cursor, serverVars>>

\* A request fails, a store write fails before it takes effect, or the process
\* dies, with something left to do: with nothing left it only finishes.
PullAborted ==
    /\ pulling /\ (page # {} \/ hasMore)
    /\ Idle
    /\ UNCHANGED <<replica, cursor, serverVars>>

\* reset_cursor_for_resync, offered between pulls.
ResetCursor ==
    /\ ~pulling
    /\ cursor' = 0
    /\ UNCHANGED <<replica, pulling, page, hasMore, serverVars>>

RemotePush == \E r \in Request : PushMutation(r) /\ UNCHANGED replicaVars

--------------------------------------------------------------------------------
PullInit ==
    /\ Init
    /\ replica = [o \in Object |-> NoRow]
    /\ cursor = 0
    /\ pulling = FALSE
    /\ page = {}
    /\ hasMore = FALSE

PullNext ==
    \/ RemotePush
    \/ FetchPage
    \/ ApplyChange
    \/ ApplyInterrupted
    \/ FinishPull
    \/ PullAborted
    \/ ResetCursor

PullSpec == PullInit /\ [][PullNext]_vars

\* A pull that runs is carried on, and the device keeps pulling.
FairPullSpec == PullSpec /\ WF_vars(FetchPage) /\ WF_vars(ApplyChange) /\ WF_vars(FinishPull)

--------------------------------------------------------------------------------
\* The replica holds server rows, the page changes, and the cursor 0 or a sequence
\* that the server has given out: it never runs ahead of the account's log, where it
\* would skip the next pushes.
PullTypeOK ==
    /\ replica \in [Object -> Row]
    /\ cursor \in 0 .. currentSeq
    /\ pulling \in BOOLEAN
    /\ page \in SUBSET [object : Object, row : Row]
    /\ hasMore \in BOOLEAN

\* The cursor means what cursor.rs says: every object whose current version is at
\* or below it is stored in exactly that version. Paging while rows move to higher
\* sequences, stopping between the two writes and pulling again never skip one.
PullComplete ==
    \A o \in Object : objects[o].seq <= cursor => replica[o] = objects[o]

\* The replica never holds anything but versions the server accepted.
ReplicaHoldsVersions ==
    \A o \in Object : replica[o] = NoRow \/ replica[o] \in Versions(o)

\* A stored object never goes back to an older revision, however responses that
\* were overtaken by later pushes, repeated pulls and cursor resets interleave.
NeverRegresses ==
    [][\A o \in Object : replica'[o].revision >= replica[o].revision]_vars

Interrupts == ApplyInterrupted \/ PullAborted \/ ResetCursor

\* Once pulls are no longer interrupted, the device ends with the server's rows.
Converges ==
    (<>[][~Interrupts]_vars) => <>[](replica = objects)
================================================================================
