--------------------------- MODULE PullReplicaProofs ---------------------------
(* Proofs about PullReplica: for any number of objects, any page limit and any   *)
(* interleaving of pushes and interrupted pulls, the cursor never covers a row   *)
(* the device does not hold and no stored object goes back.                      *)
EXTENDS PullReplica, ServerStoreProofs, FiniteSetTheorems

\* An object without a row has the row of an object never written.
RowsExist == \A o \in Object : Exists(o) \/ objects[o] = NoRow

\* The page of the running pull holds, at most once per object, versions above the
\* cursor and no older than the stored ones.
PageAhead ==
    /\ \A c \in page : /\ c.row \in Versions(c.object)
                       /\ c.row.seq > cursor
                       /\ replica[c.object].revision <= c.row.revision
    /\ \A c, d \in page : c.object = d.object => c = d
    /\ ~pulling => page = {}

\* Below its last change the page misses no row that is still the current one.
PageCovers ==
    \A c \in page, o \in Object :
        objects[o].seq > cursor /\ objects[o].seq <= c.row.seq =>
            [object |-> o, row |-> objects[o]] \in page

\* The inductive invariant: PullComplete and ReplicaHoldsVersions survive a step
\* only because of what the page under way holds.
PullInv ==
    /\ StoreInv
    /\ RowsExist
    /\ PullTypeOK
    /\ PageAhead
    /\ PageCovers
    /\ ReplicaHoldsVersions
    /\ PullComplete

--------------------------------------------------------------------------------
\* The current row of an object is the last of its versions.
LEMMA CurrentIsLast ==
    ASSUME StoreInv, NEW o \in Object, NEW v \in Versions(o)
    PROVE  /\ v \in Row /\ objects[o] \in Row
           /\ v.seq \in 1 .. currentSeq
           /\ v.revision <= objects[o].revision
           /\ v.seq <= objects[o].seq
           /\ v.seq = objects[o].seq => v = objects[o]
<1>1. v \in Row /\ objects[o] \in Row
  BY VersionsAreRows DEF StoreInv, TypeOK
<1>2. v.revision \in 1 .. objects[o].revision
  BY RevisionRange DEF StoreInv
<1>3. objects[o].revision \in Nat /\ v.revision \in Nat /\ v.seq \in Nat /\ objects[o].seq \in Nat
  BY <1>1 DEF Row
<1>4. objects[o] \in Versions(o)
  BY <1>2, <1>3 DEF Versions, Exists
<1>5. /\ v.seq \in 1 .. currentSeq
      /\ v.revision < objects[o].revision => v.seq < objects[o].seq
      /\ v.seq = objects[o].seq => v = objects[o]
  BY <1>4 DEF StoreInv, SeqOrdersVersions
<1>6. v.revision = objects[o].revision => v = objects[o]
  BY <1>4 DEF StoreInv, HistoryComplete
<1> QED BY <1>1, <1>2, <1>3, <1>5, <1>6

\* The changes above any cursor are finitely many.
LEMMA ChangesFinite ==
    ASSUME NEW after
    PROVE  IsFiniteSet(Changes(after))
<1> DEFINE S == {p \in Object : objects[p].seq > after}
<1>1. IsFiniteSet(S)
  BY ObjectAssumption, FS_Subset
<1> DEFINE f == [o \in S |-> [object |-> o, row |-> objects[o]]]
<1>2. f \in Surjection(S, Changes(after))
  BY DEF Surjection, Changes
<1> HIDE DEF S, f
<1> QED BY <1>1, <1>2, FS_Surjection

\* A page is closed downwards: with a change it holds every change before it.
LEMMA PageClosed ==
    ASSUME TypeOK, NEW after \in Nat, NEW c \in PullPage(after, PageLimit),
           NEW d \in Changes(after), d.row.seq <= c.row.seq
    PROVE  d \in PullPage(after, PageLimit)
<1> DEFINE Before(x) == {y \in Changes(after) : y.row.seq < x.row.seq}
<1>1. \A y \in Changes(after) : y.row.seq \in Nat
  BY DEF Changes, TypeOK, Row
<1>2. Before(d) \subseteq Before(c)
  BY <1>1 DEF PullPage
<1>3. IsFiniteSet(Before(c))
  BY ChangesFinite, FS_Subset
<1>4. Cardinality(Before(d)) <= Cardinality(Before(c)) /\ IsFiniteSet(Before(d))
  BY <1>2, <1>3, FS_Subset
<1>5. Cardinality(Before(d)) \in Nat /\ Cardinality(Before(c)) \in Nat
  BY <1>3, <1>4, FS_CardinalityType
<1>6. Cardinality(Before(c)) < PageLimit
  BY DEF PullPage
<1>7. Cardinality(Before(d)) < PageLimit
  <2> HIDE DEF Before
  <2> QED BY <1>4, <1>5, <1>6, PageLimitAssumption
<1> QED BY <1>7 DEF PullPage

--------------------------------------------------------------------------------
LEMMA PullInvInit == PullInit => PullInv
<1> SUFFICES ASSUME PullInit PROVE PullInv
  OBVIOUS
<1>1. StoreInv
  BY StoreInvInit DEF PullInit
<1>2. RowsExist /\ cursor <= currentSeq /\ PageAhead /\ PageCovers
  BY DEF PullInit, Init, RowsExist, PageAhead, PageCovers
<1>3. ReplicaHoldsVersions /\ PullComplete
  BY DEF PullInit, Init, ReplicaHoldsVersions, PullComplete
<1>4. NoRow \in Row
  BY DEF NoRow, Row
<1>5. PullTypeOK
  <2>1. cursor \in 0 .. currentSeq
    BY DEF PullInit, Init
  <2>2. replica \in [Object -> Row]
    BY <1>4 DEF PullInit
  <2>3. pulling \in BOOLEAN /\ hasMore \in BOOLEAN /\ page \in SUBSET [object : Object, row : Row]
    BY Zenon DEF PullInit
  <2> QED BY <2>1, <2>2, <2>3 DEF PullTypeOK
<1> QED BY <1>1, <1>2, <1>3, <1>5 DEF PullInv

\* What the pulling steps leave alone.
LEMMA ServerUnchanged ==
    ASSUME PullInv, UNCHANGED serverVars
    PROVE  /\ StoreInv' /\ RowsExist'
           /\ \A o \in Object : Versions(o)' = Versions(o)
<1>1. StoreInv'
  BY StoreInvStutter DEF PullInv
<1>2. RowsExist' /\ \A o \in Object : Versions(o)' = Versions(o)
  BY DEF PullInv, serverVars, RowsExist, Exists, Versions
<1> QED BY <1>1, <1>2

\* Steps that only end or restart a pull.
LEMMA PullInvIdle ==
    ASSUME PullInv, UNCHANGED <<replica, serverVars>>, page' = {},
           cursor' \in {0, cursor}, pulling' \in BOOLEAN, hasMore' \in BOOLEAN
    PROVE  PullInv'
<1>1. cursor \in Nat /\ currentSeq \in Nat /\ \A o \in Object : objects[o].seq \in Nat
  BY DEF PullInv, PullTypeOK, StoreInv, TypeOK, Row
<1>2. cursor' \in Nat /\ cursor' <= cursor /\ cursor' <= currentSeq
  BY <1>1 DEF PullInv, PullTypeOK
<1>3. /\ objects' = objects /\ currentSeq' = currentSeq
      /\ \A o \in Object : Versions(o)' = Versions(o)
  BY ServerUnchanged DEF serverVars
<1>4. PageAhead' /\ PageCovers'
  BY DEF PageAhead, PageCovers
<1>5. PullTypeOK'
  BY <1>1, <1>2, <1>3 DEF PullInv, PullTypeOK
<1>6. ReplicaHoldsVersions'
  BY <1>3 DEF PullInv, ReplicaHoldsVersions
<1>7. PullComplete'
  BY <1>1, <1>2, <1>3 DEF PullInv, PullComplete
<1> QED BY <1>2, <1>3, <1>4, <1>5, <1>6, <1>7, ServerUnchanged DEF PullInv

\* A response holds the first current rows above the cursor.
LEMMA PullInvFetch ==
    ASSUME PullInv, FetchPage
    PROVE  PullInv'
<1>1. /\ page' = PullPage(cursor, PageLimit) /\ pulling' = TRUE
      /\ hasMore' = HasMore(cursor, PageLimit)
      /\ UNCHANGED <<replica, cursor, serverVars>>
  BY DEF FetchPage
<1>2. /\ objects' = objects /\ currentSeq' = currentSeq /\ cursor' = cursor /\ replica' = replica
      /\ \A o \in Object : Versions(o)' = Versions(o)
  BY <1>1, ServerUnchanged DEF serverVars
<1>3. /\ cursor \in Nat /\ TypeOK
      /\ \A o \in Object : objects[o] \in Row /\ replica[o] \in Row
  BY DEF PullInv, PullTypeOK, StoreInv, TypeOK
<1>4. \A c \in page' : \E o \in Object :
          c = [object |-> o, row |-> objects[o]] /\ objects[o].seq > cursor
  BY <1>1 DEF PullPage, Changes
<1>5. \A o \in Object : objects[o].seq > cursor => objects[o] \in Versions(o)
  BY <1>3 DEF PullInv, RowsExist, Versions, NoRow, Row
<1>6. \A o \in Object : replica[o].revision <= objects[o].revision
  <2> SUFFICES ASSUME NEW o \in Object PROVE replica[o].revision <= objects[o].revision
    OBVIOUS
  <2>1. CASE replica[o] = NoRow
    BY <1>3, <2>1 DEF NoRow, Row
  <2>2. CASE replica[o] \in Versions(o)
    BY <2>2, CurrentIsLast DEF PullInv
  <2> QED BY <2>1, <2>2 DEF PullInv, ReplicaHoldsVersions
<1>7. PageAhead'
  BY <1>1, <1>2, <1>4, <1>5, <1>6 DEF PageAhead
<1>8. PageCovers'
  <2> SUFFICES ASSUME NEW c \in page', NEW o \in Object,
                      objects[o].seq > cursor, objects[o].seq <= c.row.seq
               PROVE  [object |-> o, row |-> objects[o]] \in page'
    BY <1>2 DEF PageCovers
  <2>1. [object |-> o, row |-> objects[o]] \in Changes(cursor)
    BY DEF Changes
  <2>2. c \in PullPage(cursor, PageLimit)
    BY <1>1
  <2> QED BY <1>1, <1>3, <2>1, <2>2, PageClosed
<1>9. PullTypeOK'
  <2>1. page' \in SUBSET [object : Object, row : Row]
    BY <1>3, <1>4
  <2>2. hasMore' \in BOOLEAN
    BY <1>1 DEF HasMore
  <2> QED BY <1>1, <1>2, <2>1, <2>2 DEF PullInv, PullTypeOK
<1>10. ReplicaHoldsVersions' /\ PullComplete'
  BY <1>2 DEF PullInv, ReplicaHoldsVersions, PullComplete
<1> QED BY <1>1, <1>2, <1>7, <1>8, <1>9, <1>10, ServerUnchanged DEF PullInv

--------------------------------------------------------------------------------
\* Storing the next change moves its object forward to a version, and no other.
LEMMA PutNext ==
    ASSUME PullInv, NEW c \in page, PutObject(c)
    PROVE  /\ c.object \in Object /\ c.row \in Versions(c.object) /\ c.row \in Row
           /\ cursor < c.row.seq /\ c.row.seq <= currentSeq
           /\ c.row.seq <= objects[c.object].seq
           /\ c.row.seq = objects[c.object].seq => c.row = objects[c.object]
           /\ replica' = [replica EXCEPT ![c.object] = c.row]
           /\ replica' \in [Object -> Row]
<1>1. c.object \in Object /\ c.row \in Row /\ cursor \in Nat /\ currentSeq \in Nat
  BY DEF PullInv, PullTypeOK, StoreInv, TypeOK
<1>2. c.row \in Versions(c.object) /\ c.row.seq > cursor
  BY DEF PullInv, PageAhead
<1>3. /\ c.row.seq \in 1 .. currentSeq
      /\ c.row.seq <= objects[c.object].seq
      /\ c.row.seq = objects[c.object].seq => c.row = objects[c.object]
  BY <1>1, <1>2, CurrentIsLast DEF PullInv
<1>4. replica' = [replica EXCEPT ![c.object] = c.row]
  BY <1>2 DEF PutObject
<1>5. replica' \in [Object -> Row]
  BY <1>1, <1>4 DEF PullInv, PullTypeOK
<1> QED BY <1>1, <1>2, <1>3, <1>4, <1>5

\* apply_change to the end: the object is stored and the cursor moved to it.
LEMMA PullInvApply ==
    ASSUME PullInv, ApplyChange
    PROVE  PullInv'
<1>1. PICK c \in page :
          /\ IsNextChange(c) /\ PutObject(c)
          /\ cursor' = IF c.row.seq > cursor THEN c.row.seq ELSE cursor
          /\ page' = page \ {c}
          /\ UNCHANGED <<pulling, hasMore, serverVars>>
  BY DEF ApplyChange
<1>2. /\ c.object \in Object /\ c.row \in Versions(c.object) /\ c.row \in Row
      /\ cursor < c.row.seq /\ c.row.seq <= currentSeq
      /\ c.row.seq <= objects[c.object].seq
      /\ c.row.seq = objects[c.object].seq => c.row = objects[c.object]
      /\ replica' = [replica EXCEPT ![c.object] = c.row]
      /\ replica' \in [Object -> Row]
  BY <1>1, PutNext
<1>3. cursor' = c.row.seq
  BY <1>1, <1>2
<1>4. /\ objects' = objects /\ currentSeq' = currentSeq
      /\ \A o \in Object : Versions(o)' = Versions(o)
  BY <1>1, ServerUnchanged DEF serverVars
<1>5. /\ cursor \in Nat /\ currentSeq \in Nat /\ c.row.seq \in Nat
      /\ \A o \in Object : objects[o] \in Row /\ objects[o].seq \in Nat
      /\ \A d \in page : d.object \in Object /\ d.row.seq \in Nat
      /\ replica \in [Object -> Row]
  BY <1>2 DEF PullInv, PullTypeOK, StoreInv, TypeOK, Row
<1>6. \A d \in page : c.row.seq <= d.row.seq
  BY <1>1 DEF IsNextChange
<1>7. \A d \in page \ {c} : d.object # c.object /\ d.row.seq > c.row.seq
  <2> SUFFICES ASSUME NEW d \in page \ {c}
               PROVE  d.object # c.object /\ d.row.seq > c.row.seq
    OBVIOUS
  <2>1. d.object # c.object
    BY DEF PullInv, PageAhead
  <2>2. d.row.seq # c.row.seq
    BY <1>2, <1>5, <2>1 DEF PullInv, PageAhead, StoreInv, SeqOrdersVersions
  <2> QED BY <1>5, <1>6, <2>1, <2>2
<1>8. PageAhead'
  <2>1. ASSUME NEW d \in page'
        PROVE  /\ d.row \in Versions(d.object)'
               /\ d.row.seq > cursor'
               /\ replica'[d.object].revision <= d.row.revision
    <3>1. d \in page /\ d # c /\ d.object \in Object
      BY <1>1, <1>5, <2>1
    <3>2. d.row \in Versions(d.object) /\ replica[d.object].revision <= d.row.revision
      BY <3>1 DEF PullInv, PageAhead
    <3>3. replica'[d.object] = replica[d.object]
      BY <1>2, <1>5, <1>7, <3>1
    <3> QED BY <1>3, <1>4, <1>7, <3>1, <3>2, <3>3
  <2>2. (\A d, e \in page' : d.object = e.object => d = e) /\ (~pulling' => page' = {})
    BY <1>1 DEF PullInv, PageAhead
  <2> QED BY <2>1, <2>2 DEF PageAhead
<1>9. PageCovers'
  <2> SUFFICES ASSUME NEW d \in page', NEW o \in Object,
                      objects[o].seq > c.row.seq, objects[o].seq <= d.row.seq
               PROVE  [object |-> o, row |-> objects[o]] \in page'
    BY <1>3, <1>4 DEF PageCovers
  <2>1. d \in page /\ objects[o].seq > cursor
    BY <1>1, <1>2, <1>5
  <2>2. [object |-> o, row |-> objects[o]] \in page
    BY <2>1 DEF PullInv, PageCovers
  <2>3. [object |-> o, row |-> objects[o]] # c
    BY <1>5
  <2> QED BY <1>1, <2>2, <2>3
<1>10. PullTypeOK'
  BY <1>1, <1>2, <1>3, <1>4, <1>5 DEF PullInv, PullTypeOK
<1>11. ReplicaHoldsVersions'
  BY <1>2, <1>4, <1>5 DEF PullInv, ReplicaHoldsVersions
<1>12. PullComplete'
  <2> SUFFICES ASSUME NEW o \in Object, objects[o].seq <= c.row.seq
               PROVE  replica'[o] = objects[o]
    BY <1>3, <1>4 DEF PullComplete
  <2>1. CASE objects[o].seq <= cursor
    <3>1. o # c.object
      BY <1>2, <1>5, <2>1
    <3> QED BY <1>2, <1>5, <2>1, <3>1 DEF PullInv, PullComplete
  <2>2. CASE objects[o].seq > cursor
    <3>1. [object |-> o, row |-> objects[o]] \in page
      BY <2>2 DEF PullInv, PageCovers
    <3>2. c = [object |-> o, row |-> objects[o]]
      BY <1>5, <1>7, <3>1
    <3> QED BY <1>2, <1>5, <3>2
  <2> QED BY <1>5, <2>1, <2>2
<1> QED BY <1>1, <1>2, <1>3, <1>4, <1>8, <1>9, <1>10, <1>11, <1>12, ServerUnchanged
        DEF PullInv

\* apply_change cut short: the object is stored, the cursor stays below it.
LEMMA PullInvInterrupted ==
    ASSUME PullInv, ApplyInterrupted
    PROVE  PullInv'
<1>1. PICK c \in page : PutObject(c)
  BY DEF ApplyInterrupted
<1>2. /\ c.object \in Object /\ c.row \in Versions(c.object)
      /\ cursor < c.row.seq /\ c.row.seq <= objects[c.object].seq
      /\ c.row \in Row
      /\ replica' = [replica EXCEPT ![c.object] = c.row]
      /\ replica' \in [Object -> Row]
  BY <1>1, PutNext
<1>3. /\ page' = {} /\ pulling' = FALSE /\ hasMore' = FALSE /\ cursor' = cursor
      /\ UNCHANGED serverVars
  BY DEF ApplyInterrupted, Idle
<1>4. /\ objects' = objects /\ currentSeq' = currentSeq
      /\ \A o \in Object : Versions(o)' = Versions(o)
  BY <1>3, ServerUnchanged DEF serverVars
<1>5. /\ cursor \in Nat /\ replica \in [Object -> Row] /\ c.row.seq \in Nat
      /\ \A o \in Object : objects[o].seq \in Nat
  BY <1>2 DEF PullInv, PullTypeOK, StoreInv, TypeOK, Row
<1>6. PageAhead' /\ PageCovers'
  BY <1>3 DEF PageAhead, PageCovers
<1>7. PullTypeOK'
  BY <1>2, <1>3, <1>4 DEF PullInv, PullTypeOK
<1>8. ReplicaHoldsVersions'
  BY <1>2, <1>4, <1>5 DEF PullInv, ReplicaHoldsVersions
<1>9. PullComplete'
  BY <1>2, <1>3, <1>4, <1>5 DEF PullInv, PullComplete
<1> QED BY <1>3, <1>4, <1>6, <1>7, <1>8, <1>9, ServerUnchanged DEF PullInv

\* A push by another device moves its object above every page and cursor.
LEMMA PullInvPush ==
    ASSUME PullInv, NEW r \in Request, Accepts(r), CommitMutation(r), UNCHANGED replicaVars
    PROVE  PullInv'
<1>1. StoreInv'
  BY StoreInvPush DEF PullInv, PushMutation
<1>2. /\ r.object \in Object /\ NewRow(r).seq = currentSeq + 1
      /\ NewRow(r).revision = objects[r.object].revision + 1
      /\ objects' = [objects EXCEPT ![r.object] = NewRow(r)]
      /\ currentSeq' = currentSeq + 1
  BY DEF Request, CommitMutation, NewRow
<1>3. \A o \in Object : Versions(o) \subseteq Versions(o)'
  BY CommitVersions DEF PullInv, StoreInv
<1>4. /\ cursor \in Nat /\ currentSeq \in Nat /\ cursor <= currentSeq
      /\ \A o \in Object : objects[o].seq \in Nat /\ objects[o].revision \in Nat
      /\ \A c \in page : c.object \in Object /\ c.row.seq \in Nat
      /\ objects \in [Object -> Row]
  BY DEF PullInv, PullTypeOK, StoreInv, TypeOK, Row
<1>5. /\ objects'[r.object] = NewRow(r)
      /\ \A o \in Object : o # r.object => objects'[o] = objects[o]
  BY <1>2, <1>4
<1>6. /\ page' = page /\ cursor' = cursor /\ replica' = replica
      /\ pulling' = pulling /\ hasMore' = hasMore
  BY DEF replicaVars
<1>7. \A c \in page : c.row.seq <= currentSeq
  BY <1>4, CurrentIsLast DEF PullInv, PageAhead
<1>8. RowsExist'
  BY <1>2, <1>4, <1>5 DEF PullInv, RowsExist, Exists
<1>9. PageAhead'
  BY <1>3, <1>4, <1>6 DEF PullInv, PageAhead
<1>10. PageCovers'
  BY <1>2, <1>4, <1>5, <1>6, <1>7 DEF PullInv, PageCovers
<1>11. ReplicaHoldsVersions'
  BY <1>3, <1>6 DEF PullInv, ReplicaHoldsVersions
<1>12. PullComplete'
  BY <1>2, <1>4, <1>5, <1>6 DEF PullInv, PullComplete
<1>13. PullTypeOK' /\ cursor' <= currentSeq'
  BY <1>2, <1>4, <1>6 DEF PullInv, PullTypeOK
<1> QED BY <1>1, <1>8, <1>9, <1>10, <1>11, <1>12, <1>13 DEF PullInv

--------------------------------------------------------------------------------
LEMMA PullInvStutter ==
    ASSUME PullInv, UNCHANGED vars
    PROVE  PullInv'
<1>1. /\ UNCHANGED serverVars /\ objects' = objects /\ currentSeq' = currentSeq
      /\ page' = page /\ cursor' = cursor /\ replica' = replica
      /\ pulling' = pulling /\ hasMore' = hasMore
  BY DEF vars, serverVars, replicaVars
<1>2. StoreInv' /\ RowsExist' /\ \A o \in Object : Versions(o)' = Versions(o)
  BY <1>1, ServerUnchanged
<1>3. PageAhead'
  BY <1>1, <1>2 DEF PullInv, PageAhead, PullTypeOK
<1>4. PageCovers' /\ PullTypeOK' /\ cursor' <= currentSeq'
  BY <1>1 DEF PullInv, PageCovers, PullTypeOK
<1>5. ReplicaHoldsVersions' /\ PullComplete'
  BY <1>1, <1>2 DEF PullInv, ReplicaHoldsVersions, PullComplete
<1> QED BY <1>2, <1>3, <1>4, <1>5 DEF PullInv

\* Every step of the device and of the server keeps the invariant.
LEMMA PullInvNext == PullInv /\ [PullNext]_vars => PullInv'
<1> SUFFICES ASSUME PullInv, [PullNext]_vars PROVE PullInv'
  OBVIOUS
<1>1. CASE RemotePush
  <2>1. PICK r \in Request : PushMutation(r) /\ UNCHANGED replicaVars
    BY <1>1 DEF RemotePush
  <2>2. CASE Accepts(r) /\ CommitMutation(r)
    BY <2>1, <2>2, PullInvPush
  <2>3. CASE UNCHANGED serverVars
    BY <2>1, <2>3, PullInvStutter DEF vars
  <2> QED BY <2>1, <2>2, <2>3 DEF PushMutation
<1>2. CASE FetchPage
  BY <1>2, PullInvFetch
<1>3. CASE ApplyChange
  BY <1>3, PullInvApply
<1>4. CASE ApplyInterrupted
  BY <1>4, PullInvInterrupted
<1>5. CASE FinishPull
  BY <1>5, PullInvIdle DEF FinishPull, Idle
<1>6. CASE PullAborted
  BY <1>6, PullInvIdle DEF PullAborted, Idle
<1>7. CASE ResetCursor
  <2>1. pulling' = pulling /\ hasMore' = hasMore /\ page' = page /\ cursor' = 0
        /\ UNCHANGED <<replica, serverVars>>
    BY <1>7 DEF ResetCursor
  <2>2. PullTypeOK /\ page = {}
    BY <1>7 DEF PullInv, PageAhead, ResetCursor
  <2> QED BY <2>1, <2>2, PullInvIdle DEF PullTypeOK
<1>8. CASE UNCHANGED vars
  BY <1>8, PullInvStutter
<1> QED BY <1>1, <1>2, <1>3, <1>4, <1>5, <1>6, <1>7, <1>8 DEF PullNext

\* The inductive invariant holds in every reachable state.
THEOREM PullInvariant == PullSpec => []PullInv
BY PullInvInit, PullInvNext, PTL DEF PullSpec

\* Type correctness of the device's store, cursor and page.
THEOREM PullTypeCorrect == PullSpec => []PullTypeOK
<1>1. PullInv => PullTypeOK
  BY DEF PullInv
<1> QED BY <1>1, PullInvariant, PTL

\* The cursor never covers a current row the device does not hold.
THEOREM PullMissesNothing == PullSpec => []PullComplete
<1>1. PullInv => PullComplete
  BY DEF PullInv
<1> QED BY <1>1, PullInvariant, PTL

\* The device holds only versions the server accepted.
THEOREM PullInventsNothing == PullSpec => []ReplicaHoldsVersions
<1>1. PullInv => ReplicaHoldsVersions
  BY DEF PullInv
<1> QED BY <1>1, PullInvariant, PTL

\* No step of the device or the server takes a stored object back.
THEOREM PullNeverRegresses == PullSpec => NeverRegresses
<1>1. PullInv /\ [PullNext]_vars =>
          [\A o \in Object : replica'[o].revision >= replica[o].revision]_vars
  <2> SUFFICES ASSUME PullInv, PullNext, NEW o \in Object
               PROVE  replica'[o].revision >= replica[o].revision
    OBVIOUS
  <2>1. replica \in [Object -> Row] /\ replica[o].revision \in Nat
    BY DEF PullInv, PullTypeOK, Row
  <2>2. ASSUME NEW c \in page, PutObject(c)
        PROVE  replica'[o].revision >= replica[o].revision
    <3>1. replica' = [replica EXCEPT ![c.object] = c.row] /\ c.object \in Object
          /\ c.row \in Row
      BY <2>2, PutNext
    <3>2. replica[c.object].revision <= c.row.revision
      BY <2>2 DEF PullInv, PageAhead
    <3>3. CASE o = c.object
      BY <2>1, <3>1, <3>2, <3>3 DEF Row
    <3>4. CASE o # c.object
      BY <2>1, <3>1, <3>4
    <3> QED BY <3>3, <3>4
  <2>3. CASE ApplyChange
    BY <2>2, <2>3 DEF ApplyChange
  <2>4. CASE ApplyInterrupted
    BY <2>2, <2>4 DEF ApplyInterrupted
  <2>5. CASE replica' = replica
    BY <2>1, <2>5
  <2>6. RemotePush \/ FetchPage \/ FinishPull \/ PullAborted \/ ResetCursor
            => replica' = replica
    BY DEF RemotePush, replicaVars, FetchPage, FinishPull, PullAborted, ResetCursor
  <2> QED BY <2>3, <2>4, <2>5, <2>6 DEF PullNext
<1> QED BY <1>1, PullInvariant, PTL DEF PullSpec, NeverRegresses
================================================================================
