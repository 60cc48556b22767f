SPECIFICATION FairPullSpec
CONSTANTS
    Object = {o1, o2}
    Envelope = {e1}
    NoEnvelope = NoEnvelope
    MutationId = {m1, m2, m3}
    Revision <- MCRevision
    PageLimit = 1
INVARIANTS TypeOK HistoryComplete SeqOrdersVersions ReceiptsHonoured AppliedOnce
INVARIANTS PullTypeOK PullComplete ReplicaHoldsVersions
PROPERTIES RefinesAccountLog NeverRegresses Converges
