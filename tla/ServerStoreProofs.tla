--------------------------- MODULE ServerStoreProofs ---------------------------
(* Proofs about ServerStore for any number of objects, mutation ids and          *)
(* envelopes: its invariants hold, and it implements AccountLog.                 *)
EXTENDS ServerStore, TLAPS

\* The inductive invariant: what the tables say about each other.
StoreInv ==
    /\ TypeOK
    /\ HistoryComplete
    /\ SeqOrdersVersions
    /\ ReceiptsHonoured
    /\ AppliedOnce

NewRow(r) == [revision |-> objects[r.object].revision + 1, seq |-> currentSeq + 1,
              envelope |-> r.envelope, deleted |-> r.deleted]

--------------------------------------------------------------------------------
\* In a well-typed store every version is a row.
LEMMA VersionsAreRows ==
    ASSUME TypeOK, NEW o \in Object
    PROVE  Versions(o) \subseteq Row
BY DEF TypeOK, Versions

\* The revisions of an object's versions are 1 to the current one, elementwise.
LEMMA RevisionRange ==
    ASSUME HistoryComplete, NEW o \in Object
    PROVE  /\ \A v \in Versions(o) : v.revision \in 1 .. objects[o].revision
           /\ \A k \in 1 .. objects[o].revision : \E v \in Versions(o) : v.revision = k
<1>1. {v.revision : v \in Versions(o)} = 1 .. objects[o].revision
  BY DEF HistoryComplete
<1> QED BY <1>1

\* An accepted push keeps the tables well typed.
LEMMA CommitType ==
    ASSUME TypeOK, NEW r \in Request, Accepts(r), CommitMutation(r)
    PROVE  TypeOK'
<1> USE DEF TypeOK
<1>1. r.object \in Object /\ r.mutation \in MutationId /\ r.envelope \in Envelope
      /\ r.deleted \in BOOLEAN /\ r.expected \in Revision
  BY DEF Request
<1>2. NewRow(r) \in Row
  BY <1>1 DEF NewRow, Row
<1>3. objects' = [objects EXCEPT ![r.object] = NewRow(r)]
  BY DEF CommitMutation, NewRow
<1>4. objects' \in [Object -> Row]
  BY <1>1, <1>2, <1>3
<1>5. history' \in [Object -> SUBSET Row]
  BY <1>1, VersionsAreRows DEF CommitMutation
<1>6. currentSeq' \in Nat
  BY DEF CommitMutation
<1>7. processed' \in [MutationId -> Receipt \cup {Unprocessed}]
  <2>1. [hash |-> RequestHash(r), revision |-> objects[r.object].revision + 1,
         seq |-> currentSeq + 1] \in Receipt
    BY <1>1 DEF Receipt, RequestHash, Row
  <2> QED BY <1>1, <2>1 DEF CommitMutation
<1> QED BY <1>4, <1>5, <1>6, <1>7

\* An accepted push adds one version to its object and touches no other object.
LEMMA CommitVersions ==
    ASSUME TypeOK, NEW r \in Request, Accepts(r), CommitMutation(r),
           NEW o \in Object
    PROVE  Versions(o)' = IF o = r.object THEN Versions(o) \cup {NewRow(r)}
                          ELSE Versions(o)
<1>1. r.object \in Object
  BY DEF Request
<1>2. /\ objects' = [objects EXCEPT ![r.object] = NewRow(r)]
      /\ history' = [history EXCEPT ![r.object] = Versions(r.object)]
  BY DEF CommitMutation, NewRow
<1>3. NewRow(r).revision \in Nat \ {0}
  BY <1>1 DEF NewRow, TypeOK, Row
<1>4. CASE o = r.object
  <2>1. objects'[o] = NewRow(r) /\ history'[o] = Versions(o)
    BY <1>1, <1>2, <1>4 DEF TypeOK
  <2> QED BY <1>3, <1>4, <2>1 DEF Versions, Exists
<1>5. CASE o # r.object
  <2>1. objects'[o] = objects[o] /\ history'[o] = history[o]
    BY <1>1, <1>2, <1>5 DEF TypeOK
  <2> QED BY <1>5, <2>1 DEF Versions, Exists
<1> QED BY <1>4, <1>5

--------------------------------------------------------------------------------
\* An accepted push appends the next revision and keeps the earlier ones.
LEMMA CommitHistory ==
    ASSUME StoreInv, NEW r \in Request, Accepts(r), CommitMutation(r)
    PROVE  HistoryComplete'
<1> USE DEF StoreInv
<1>1. r.object \in Object
  BY DEF Request
<1>2. \A o \in Object : Versions(o)' = IF o = r.object THEN Versions(o) \cup {NewRow(r)}
                                       ELSE Versions(o)
  BY CommitVersions
<1>3. objects' = [objects EXCEPT ![r.object] = NewRow(r)]
  BY DEF CommitMutation, NewRow
<1>4. \A o \in Object : objects[o].revision \in Nat
  BY DEF TypeOK, Row
<1>5. SUFFICES ASSUME NEW o \in Object
               PROVE  /\ {v.revision : v \in Versions(o)'} = 1 .. objects'[o].revision
                      /\ \A v, w \in Versions(o)' : v.revision = w.revision => v = w
  BY DEF HistoryComplete
<1>6. /\ \A v \in Versions(o) : v.revision \in 1 .. objects[o].revision
      /\ \A k \in 1 .. objects[o].revision : \E v \in Versions(o) : v.revision = k
      /\ \A v, w \in Versions(o) : v.revision = w.revision => v = w
  BY RevisionRange DEF HistoryComplete
<1>7. CASE o = r.object
  <2>1. objects'[o] = NewRow(r) /\ NewRow(r).revision = objects[o].revision + 1
    BY <1>1, <1>3, <1>7 DEF TypeOK, NewRow
  <2>2. Versions(o)' = Versions(o) \cup {NewRow(r)}
    BY <1>2, <1>7
  <2>3. \A v \in Versions(o)' : v.revision \in 1 .. objects'[o].revision
    BY <1>4, <1>6, <2>1, <2>2
  <2>4. \A k \in 1 .. objects'[o].revision : \E v \in Versions(o)' : v.revision = k
    BY <1>4, <1>6, <2>1, <2>2
  <2>5. \A v, w \in Versions(o)' : v.revision = w.revision => v = w
    BY <1>4, <1>6, <2>1, <2>2
  <2> QED BY <2>3, <2>4, <2>5
<1>8. CASE o # r.object
  <2>1. objects'[o] = objects[o] /\ Versions(o)' = Versions(o)
    BY <1>1, <1>2, <1>3, <1>8 DEF TypeOK
  <2> QED BY <2>1 DEF HistoryComplete
<1> QED BY <1>7, <1>8

\* An accepted push takes a sequence number above all others.
LEMMA CommitSeqs ==
    ASSUME StoreInv, NEW r \in Request, Accepts(r), CommitMutation(r)
    PROVE  SeqOrdersVersions'
<1> USE DEF StoreInv
<1>1. r.object \in Object /\ currentSeq' = currentSeq + 1 /\ currentSeq \in Nat
  BY DEF Request, CommitMutation, TypeOK
<1>2. \A o \in Object : Versions(o)' = IF o = r.object THEN Versions(o) \cup {NewRow(r)}
                                       ELSE Versions(o)
  BY CommitVersions
<1>3. /\ NewRow(r).seq = currentSeq + 1
      /\ NewRow(r).revision = objects[r.object].revision + 1
      /\ objects[r.object].revision \in Nat
  BY <1>1 DEF NewRow, TypeOK, Row
<1>4. \A v \in Versions(r.object) : v.revision \in 1 .. objects[r.object].revision
  BY <1>1, RevisionRange
<1>5. \A o \in Object : \A v \in Versions(o) : v.seq \in 1 .. currentSeq
  BY DEF SeqOrdersVersions
<1>6. SUFFICES ASSUME NEW o \in Object, NEW p \in Object,
                      NEW v \in Versions(o)', NEW w \in Versions(p)'
               PROVE  /\ v.seq \in 1 .. currentSeq + 1
                      /\ v.seq = w.seq => o = p /\ v = w
                      /\ o = p /\ v.revision < w.revision => v.seq < w.seq
  BY <1>1 DEF SeqOrdersVersions
<1>7. /\ v \in Versions(o) \/ (o = r.object /\ v = NewRow(r))
      /\ w \in Versions(p) \/ (p = r.object /\ w = NewRow(r))
  BY <1>2
<1>8. CASE v \in Versions(o) /\ w \in Versions(p)
  BY <1>1, <1>5, <1>8 DEF SeqOrdersVersions
<1>9. CASE v \in Versions(o) /\ p = r.object /\ w = NewRow(r)
  <2>1. v.seq \in 1 .. currentSeq
    BY <1>5, <1>9
  <2> QED BY <1>1, <1>3, <1>9, <2>1
<1>10. CASE o = r.object /\ v = NewRow(r) /\ w \in Versions(p)
  <2>1. w.seq \in 1 .. currentSeq
    BY <1>5, <1>10
  <2>2. o = p => w.revision \in 1 .. objects[r.object].revision
    BY <1>4, <1>10
  <2> QED BY <1>1, <1>3, <1>10, <2>1, <2>2
<1>11. CASE o = r.object /\ v = NewRow(r) /\ p = r.object /\ w = NewRow(r)
  BY <1>1, <1>3, <1>11
<1> QED BY <1>7, <1>8, <1>9, <1>10, <1>11

\* What a commit records for each mutation id.
LEMMA CommitReceipts ==
    ASSUME StoreInv, NEW r \in Request, Accepts(r), CommitMutation(r)
    PROVE  /\ processed'[r.mutation] = [hash |-> RequestHash(r),
                  revision |-> NewRow(r).revision, seq |-> NewRow(r).seq]
           /\ \A m \in MutationId : m # r.mutation => processed'[m] = processed[m]
           /\ IsProcessed(r.mutation)' /\ ~IsProcessed(r.mutation)
           /\ \A m \in MutationId : m # r.mutation => (IsProcessed(m)' <=> IsProcessed(m))
<1>1. r.mutation \in MutationId /\ r.object \in Object
  BY DEF Request
<1>2. processed' = [processed EXCEPT ![r.mutation] = [hash |-> RequestHash(r),
                      revision |-> NewRow(r).revision, seq |-> NewRow(r).seq]]
  BY DEF CommitMutation, NewRow
<1>3. NewRow(r).revision \in Nat \ {0}
  BY <1>1 DEF NewRow, StoreInv, TypeOK, Row
<1>4. processed'[r.mutation] = [hash |-> RequestHash(r),
                  revision |-> NewRow(r).revision, seq |-> NewRow(r).seq]
  BY <1>1, <1>2 DEF StoreInv, TypeOK
<1>5. \A m \in MutationId : m # r.mutation => processed'[m] = processed[m]
  BY <1>1, <1>2 DEF StoreInv, TypeOK
<1> QED BY <1>1, <1>3, <1>4, <1>5 DEF IsProcessed, Accepts

\* Receipts stay honoured: the new one by the new row, the others because
\* versions are never removed.
LEMMA CommitHonours ==
    ASSUME StoreInv, NEW r \in Request, Accepts(r), CommitMutation(r)
    PROVE  ReceiptsHonoured'
<1>1. r.mutation \in MutationId /\ r.object \in Object
  BY DEF Request
<1>2. \A o \in Object : Versions(o)' = IF o = r.object THEN Versions(o) \cup {NewRow(r)}
                                       ELSE Versions(o)
  BY CommitVersions DEF StoreInv
<1>3. SUFFICES ASSUME NEW m \in MutationId, NEW o \in Object, IsProcessed(m)',
                      processed'[m].hash.object = o
               PROVE  /\ processed'[m].revision = processed'[m].hash.expected + 1
                      /\ [revision |-> processed'[m].revision, seq |-> processed'[m].seq,
                          envelope |-> processed'[m].hash.envelope,
                          deleted |-> processed'[m].hash.deleted] \in Versions(o)'
  BY DEF ReceiptsHonoured
<1>4. CASE m = r.mutation
  <2>1. processed'[m] = [hash |-> RequestHash(r), revision |-> NewRow(r).revision,
                         seq |-> NewRow(r).seq]
    BY <1>4, CommitReceipts
  <2>2. NewRow(r) = [revision |-> processed'[m].revision, seq |-> processed'[m].seq,
                     envelope |-> processed'[m].hash.envelope,
                     deleted |-> processed'[m].hash.deleted]
    BY <2>1 DEF NewRow, RequestHash
  <2>3. o = r.object /\ processed'[m].hash.expected = r.expected
    BY <1>3, <2>1 DEF RequestHash
  <2>4. NewRow(r) \in Versions(o)'
    BY <1>2, <2>3
  <2>5. NewRow(r).revision = r.expected + 1
    BY DEF NewRow, Accepts
  <2> QED BY <2>1, <2>2, <2>3, <2>4, <2>5
<1>5. CASE m # r.mutation
  <2>1. processed'[m] = processed[m] /\ IsProcessed(m)
    BY <1>3, <1>5, CommitReceipts
  <2>2. Versions(o) \subseteq Versions(o)'
    BY <1>2
  <2> QED BY <1>3, <2>1, <2>2 DEF StoreInv, ReceiptsHonoured
<1> QED BY <1>4, <1>5

\* A processed id names a version, so its sequence is one the counter gave out.
LEMMA ReceiptSeqRange ==
    ASSUME StoreInv, NEW m \in MutationId, IsProcessed(m)
    PROVE  processed[m].seq \in 1 .. currentSeq
<1>1. processed[m].hash.object \in Object
  BY DEF StoreInv, TypeOK, Receipt, IsProcessed, Unprocessed
<1>2. PICK v \in Versions(processed[m].hash.object) : v.seq = processed[m].seq
  BY <1>1 DEF StoreInv, ReceiptsHonoured
<1> QED BY <1>1, <1>2 DEF StoreInv, SeqOrdersVersions

\* Mutation ids and versions stay in one-to-one correspondence.
LEMMA CommitOnce ==
    ASSUME StoreInv, NEW r \in Request, Accepts(r), CommitMutation(r)
    PROVE  AppliedOnce'
<1>1. r.mutation \in MutationId /\ r.object \in Object /\ currentSeq \in Nat
  BY DEF Request, StoreInv, TypeOK
<1>2. /\ processed'[r.mutation].seq = NewRow(r).seq
      /\ NewRow(r).seq = currentSeq + 1
      /\ \A m \in MutationId : m # r.mutation => processed'[m] = processed[m]
      /\ IsProcessed(r.mutation)'
      /\ \A m \in MutationId : m # r.mutation => (IsProcessed(m)' <=> IsProcessed(m))
  <2>1. processed'[r.mutation] = [hash |-> RequestHash(r),
                  revision |-> NewRow(r).revision, seq |-> NewRow(r).seq]
    BY CommitReceipts
  <2>2. NewRow(r).seq = currentSeq + 1
    BY DEF NewRow
  <2> QED BY <2>1, <2>2, CommitReceipts
<1>3. \A m \in MutationId : processed[m].seq \in 0 .. currentSeq
  <2> SUFFICES ASSUME NEW m \in MutationId PROVE processed[m].seq \in 0 .. currentSeq
    OBVIOUS
  <2>1. CASE IsProcessed(m)
    BY <1>1, <2>1, ReceiptSeqRange
  <2>2. CASE ~IsProcessed(m)
    BY <1>1, <2>2 DEF IsProcessed, StoreInv, TypeOK, Receipt, Unprocessed
  <2> QED BY <2>1, <2>2
<1>4. ASSUME NEW m \in MutationId, NEW n \in MutationId,
             IsProcessed(m)', processed'[m].seq = processed'[n].seq
      PROVE  m = n
  <2>1. CASE m = r.mutation /\ n # r.mutation
    BY <1>1, <1>2, <1>3, <1>4, <2>1
  <2>2. CASE m # r.mutation /\ n = r.mutation
    BY <1>1, <1>2, <1>3, <1>4, <2>2
  <2>3. CASE m # r.mutation /\ n # r.mutation
    BY <1>2, <1>4, <2>3 DEF StoreInv, AppliedOnce
  <2> QED BY <2>1, <2>2, <2>3
<1>5. ASSUME NEW o \in Object, NEW v \in Versions(o)'
      PROVE  \E m \in MutationId : IsProcessed(m)' /\ processed'[m].seq = v.seq
  <2>1. v \in Versions(o) \/ v = NewRow(r)
    BY CommitVersions DEF StoreInv
  <2>2. CASE v = NewRow(r)
    BY <1>1, <1>2, <2>2 DEF NewRow
  <2>3. CASE v \in Versions(o)
    <3>1. PICK m \in MutationId : IsProcessed(m) /\ processed[m].seq = v.seq
      BY <2>3 DEF StoreInv, AppliedOnce
    <3>2. m # r.mutation
      BY <3>1, CommitReceipts
    <3> QED BY <1>2, <3>1, <3>2
  <2> QED BY <2>1, <2>2, <2>3
<1> QED BY <1>4, <1>5 DEF AppliedOnce

--------------------------------------------------------------------------------
LEMMA StoreInvInit == Init => StoreInv
<1> SUFFICES ASSUME Init PROVE StoreInv
  OBVIOUS
<1>1. \A o \in Object : objects[o] = NoRow /\ history[o] = {}
  BY DEF Init
<1>2. \A o \in Object : Versions(o) = {} /\ objects[o].revision = 0
  BY <1>1 DEF Versions, Exists, NoRow
<1>3. \A m \in MutationId : ~IsProcessed(m)
  BY DEF Init, IsProcessed, Unprocessed
<1>4. TypeOK
  BY DEF Init, TypeOK, NoRow, Row
<1>5. HistoryComplete
  BY <1>2 DEF HistoryComplete
<1>6. SeqOrdersVersions /\ AppliedOnce /\ ReceiptsHonoured
  BY <1>2, <1>3 DEF SeqOrdersVersions, AppliedOnce, ReceiptsHonoured
<1> QED BY <1>4, <1>5, <1>6 DEF StoreInv

\* A push that is not accepted, and any stuttering step, leaves the tables alone.
LEMMA StoreInvStutter ==
    ASSUME StoreInv, UNCHANGED serverVars
    PROVE  StoreInv'
BY DEF StoreInv, serverVars, TypeOK, HistoryComplete, SeqOrdersVersions,
       ReceiptsHonoured, AppliedOnce, Versions, Exists, IsProcessed

\* Whatever request reaches push_mutation, the tables stay consistent.
LEMMA StoreInvPush ==
    ASSUME StoreInv, NEW r \in Request, PushMutation(r)
    PROVE  StoreInv'
<1>1. CASE Accepts(r) /\ CommitMutation(r)
  <2>1. TypeOK'
    BY <1>1, CommitType DEF StoreInv
  <2>2. HistoryComplete'
    BY <1>1, CommitHistory
  <2>3. SeqOrdersVersions'
    BY <1>1, CommitSeqs
  <2>4. ReceiptsHonoured'
    BY <1>1, CommitHonours
  <2>5. AppliedOnce'
    BY <1>1, CommitOnce
  <2> QED BY <2>1, <2>2, <2>3, <2>4, <2>5 DEF StoreInv
<1>2. CASE UNCHANGED serverVars
  BY <1>2, StoreInvStutter
<1> QED BY <1>1, <1>2 DEF PushMutation

\* The inductive invariant holds in every reachable state of the server.
THEOREM StoreInvariant == Spec => []StoreInv
<1>1. StoreInv /\ [Next]_serverVars => StoreInv'
  BY StoreInvPush, StoreInvStutter DEF Next
<1> QED BY StoreInvInit, <1>1, PTL DEF Spec

\* Type correctness of the server's tables, for any constants.
THEOREM ServerTypeCorrect == Spec => []TypeOK
<1>1. StoreInv => TypeOK
  BY DEF StoreInv
<1> QED BY <1>1, StoreInvariant, PTL

\* push_mutation never loses, skips or rewrites a revision of any object.
THEOREM ServerKeepsHistory == Spec => []HistoryComplete
<1>1. StoreInv => HistoryComplete
  BY DEF StoreInv
<1> QED BY <1>1, StoreInvariant, PTL

\* Sequence numbers totally order the versions of an account.
THEOREM ServerOrdersVersions == Spec => []SeqOrdersVersions
<1>1. StoreInv => SeqOrdersVersions
  BY DEF StoreInv
<1> QED BY <1>1, StoreInvariant, PTL

\* A retry of an accepted mutation is answered with its own, still stored write.
THEOREM ServerHonoursReceipts == Spec => []ReceiptsHonoured
<1>1. StoreInv => ReceiptsHonoured
  BY DEF StoreInv
<1> QED BY <1>1, StoreInvariant, PTL

\* Every mutation id is applied at most once, every version by exactly one.
THEOREM ServerAppliesOnce == Spec => []AppliedOnce
<1>1. StoreInv => AppliedOnce
  BY DEF StoreInv
<1> QED BY <1>1, StoreInvariant, PTL

--------------------------------------------------------------------------------
(* The tables, read as a log, only ever grow by one version per accepted push.   *)

\* The log of versions grows by the version the push wrote.
LEMMA CommitLog ==
    ASSUME StoreInv, NEW r \in Request, Accepts(r), CommitMutation(r)
    PROVE  VersionLog' = VersionLog \cup {LogEntry(r.object, NewRow(r))}
<1>1. r.object \in Object
  BY DEF Request
<1>2. \A o \in Object : Versions(o)' = IF o = r.object THEN Versions(o) \cup {NewRow(r)}
                                       ELSE Versions(o)
  BY CommitVersions DEF StoreInv
<1>3. VersionLog' = UNION {{LogEntry(o, v) : v \in Versions(o)'} : o \in Object}
  BY DEF VersionLog, LogEntry
<1>4. ASSUME NEW x PROVE x \in VersionLog' <=>
                         \E o \in Object : \E v \in Versions(o)' : x = LogEntry(o, v)
  BY <1>3
<1>5. ASSUME NEW x PROVE x \in VersionLog <=>
                         \E o \in Object : \E v \in Versions(o) : x = LogEntry(o, v)
  BY DEF VersionLog
<1>6. ASSUME NEW x \in VersionLog'
      PROVE  x \in VersionLog \cup {LogEntry(r.object, NewRow(r))}
  <2>1. PICK o \in Object : \E v \in Versions(o)' : x = LogEntry(o, v)
    BY <1>4, <1>6
  <2>2. PICK v \in Versions(o)' : x = LogEntry(o, v)
    BY <2>1
  <2>3. v \in Versions(o) \/ (o = r.object /\ v = NewRow(r))
    BY <1>2, <2>2
  <2> QED BY <2>2, <2>3, <1>5
<1>7. ASSUME NEW x \in VersionLog PROVE x \in VersionLog'
  <2>1. PICK o \in Object : \E v \in Versions(o) : x = LogEntry(o, v)
    BY <1>5, <1>7
  <2>2. Versions(o) \subseteq Versions(o)'
    BY <1>2
  <2> QED BY <2>1, <2>2, <1>4
<1>8. LogEntry(r.object, NewRow(r)) \in VersionLog'
  <2>1. NewRow(r) \in Versions(r.object)'
    BY <1>1, <1>2
  <2> QED BY <2>1, <1>1, <1>4
<1> QED BY <1>6, <1>7, <1>8

\* The receipts grow by the one that names this version.
LEMMA CommitReceiptLog ==
    ASSUME StoreInv, NEW r \in Request, Accepts(r), CommitMutation(r)
    PROVE  ReceiptLog' = ReceiptLog \cup
               {[mutation |-> r.mutation, version |-> LogEntry(r.object, NewRow(r))]}
<1>1. r.mutation \in MutationId
  BY DEF Request
<1>2. ReceiptEntry(r.mutation)' = LogEntry(r.object, NewRow(r))
  <2>1. processed'[r.mutation] = [hash |-> RequestHash(r),
            revision |-> NewRow(r).revision, seq |-> NewRow(r).seq]
    BY CommitReceipts
  <2> QED BY <2>1 DEF ReceiptEntry, LogEntry, RequestHash, NewRow
<1>3. \A m \in MutationId : m # r.mutation =>
          (IsProcessed(m)' <=> IsProcessed(m)) /\ ReceiptEntry(m)' = ReceiptEntry(m)
  BY CommitReceipts DEF ReceiptEntry
<1>4. IsProcessed(r.mutation)' /\ ~IsProcessed(r.mutation)
  BY CommitReceipts
<1>5. ASSUME NEW x PROVE x \in ReceiptLog' <=> \E m \in MutationId :
          IsProcessed(m)' /\ x = [mutation |-> m, version |-> ReceiptEntry(m)']
  BY DEF ReceiptLog
<1>6. ASSUME NEW x PROVE x \in ReceiptLog <=> \E m \in MutationId :
          IsProcessed(m) /\ x = [mutation |-> m, version |-> ReceiptEntry(m)]
  BY DEF ReceiptLog
<1> QED BY <1>1, <1>2, <1>3, <1>4, <1>5, <1>6

\* Seen in the log, an object is at the revision of its current row.
LEMMA LogAtRevision ==
    ASSUME StoreInv, NEW o \in Object
    PROVE  Log!RevisionsOf(o) = 1 .. objects[o].revision
<1>1. \A x : x \in VersionLog /\ x.object = o <=> \E v \in Versions(o) : x = LogEntry(o, v)
  BY DEF VersionLog, LogEntry
<1>2. /\ \A v \in Versions(o) : v.revision \in 1 .. objects[o].revision
      /\ \A k \in 1 .. objects[o].revision : \E v \in Versions(o) : v.revision = k
  BY RevisionRange DEF StoreInv
<1>3. \A v : LogEntry(o, v).revision = v.revision
  BY DEF LogEntry
<1>4. \A k : k \in Log!RevisionsOf(o) <=> \E v \in Versions(o) : k = v.revision
  BY <1>1, <1>3 DEF Log!RevisionsOf
<1> DEFINE revisions == 1 .. objects[o].revision
<1>5. ASSUME NEW k PROVE k \in Log!RevisionsOf(o) <=> k \in revisions
  <2> HIDE DEF revisions
  <2>1. /\ \A v \in Versions(o) : v.revision \in revisions
        /\ \A j \in revisions : \E v \in Versions(o) : v.revision = j
    BY <1>2 DEF revisions
  <2>2. k \in Log!RevisionsOf(o) <=> \E v \in Versions(o) : k = v.revision
    BY <1>4
  <2>3. ASSUME k \in Log!RevisionsOf(o) PROVE k \in revisions
    BY <2>1, <2>2, <2>3
  <2>4. ASSUME k \in revisions PROVE k \in Log!RevisionsOf(o)
    BY <2>1, <2>2, <2>4
  <2> QED BY <2>3, <2>4
<1> HIDE DEF revisions
<1>6. Log!RevisionsOf(o) = revisions
  BY <1>5, Zenon
<1> QED BY <1>6 DEF revisions

\* An accepted push is one append, on top of the revision it expected.
LEMMA CommitAppends ==
    ASSUME StoreInv, NEW r \in Request, Accepts(r), CommitMutation(r)
    PROVE  Log!LogNext
<1>1. /\ r.object \in Object /\ r.mutation \in MutationId /\ r.envelope \in Envelope
      /\ r.deleted \in BOOLEAN
  BY DEF Request
<1>2. r.expected = objects[r.object].revision /\ r.expected \in Nat
  BY <1>1 DEF Accepts, StoreInv, TypeOK, Row
<1>3. Log!RevisionsOf(r.object) = 1 .. r.expected
  BY <1>1, <1>2, LogAtRevision
<1>4. \A x \in ReceiptLog : x.mutation # r.mutation
  BY DEF ReceiptLog, Accepts
<1>5. \A w \in VersionLog : w.seq <= currentSeq
  <2>1. SUFFICES ASSUME NEW o \in Object, NEW v \in Versions(o)
                 PROVE  v.seq <= currentSeq
    BY DEF VersionLog, LogEntry
  <2> QED BY DEF StoreInv, SeqOrdersVersions
<1>6. LogEntry(r.object, NewRow(r)) =
          [object |-> r.object, revision |-> r.expected + 1, seq |-> currentSeq + 1,
           envelope |-> r.envelope, deleted |-> r.deleted]
  BY <1>2 DEF LogEntry, NewRow
<1>7. currentSeq' = currentSeq + 1
  BY DEF CommitMutation
<1>8. Log!Append(r.mutation, r.object, r.expected, r.envelope, r.deleted)
  BY <1>3, <1>4, <1>5, <1>6, <1>7, CommitLog, CommitReceiptLog
     DEF Log!Append, Log!AtRevision
<1>9. r.expected \in Log!RevisionsOf(r.object) \cup {0}
  BY <1>2, <1>3
<1> QED BY <1>1, <1>8, <1>9 DEF Log!LogNext

\* The server implements the append-only account log: every push is one append
\* on top of the revision it expected, or leaves the log as it is.
THEOREM ServerIsAccountLog == Spec => RefinesAccountLog
<1>1. Init => Log!LogInit
  <2> SUFFICES ASSUME Init PROVE Log!LogInit
    OBVIOUS
  <2>1. \A o \in Object : Versions(o) = {}
    BY DEF Init, Versions, Exists, NoRow
  <2>2. VersionLog = {}
    BY <2>1 DEF VersionLog
  <2>3. ReceiptLog = {}
    BY DEF ReceiptLog, Init, IsProcessed, Unprocessed
  <2> QED BY <2>2, <2>3 DEF Log!LogInit, Init
<1>2. StoreInv /\ [Next]_serverVars => [Log!LogNext]_(Log!logVars)
  <2> SUFFICES ASSUME StoreInv, [Next]_serverVars PROVE [Log!LogNext]_(Log!logVars)
    OBVIOUS
  <2>1. CASE UNCHANGED serverVars
    BY <2>1 DEF serverVars, Log!logVars, VersionLog, ReceiptLog, ReceiptEntry, LogEntry,
                Versions, Exists, IsProcessed
  <2>2. CASE \E r \in Request : Accepts(r) /\ CommitMutation(r)
    BY <2>2, CommitAppends
  <2> QED BY <2>1, <2>2 DEF Next, PushMutation
<1> QED BY <1>1, <1>2, StoreInvariant, PTL DEF Spec, RefinesAccountLog, Log!LogSpec
================================================================================
