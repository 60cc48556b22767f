SPECIFICATION NativeSpec
CONSTANTS
    Client = {A, B}
    Object = {o1}
    NoEnvelope = NoEnvelope
    Envelope <- MCEnvelope
    MutationId <- MCMutationId
    Revision <- MCRevision
    UserOps = {"update"}
    Strategies = {}
    Faults = {"timeout"}
    PageLimit = 2
    MaxWrites = 2
    MaxTotal = 4
    MaxOutstanding = 2
    MaxConflicts = 2
    MaxFaults = 1
SYMMETRY MCSymmetry
INVARIANT RetryableFailuresRecover
CHECK_DEADLOCK FALSE
