SPECIFICATION NativeSpec
CONSTANTS
    Client = {A, B}
    Object = {o1}
    NoEnvelope = NoEnvelope
    Envelope <- MCEnvelope
    MutationId <- MCMutationId
    Revision <- MCRevision
    UserOps = {"update"}
    Strategies = {"keep_local"}
    Faults = {}
    PageLimit = 2
    MaxWrites = 3
    MaxTotal = 5
    MaxOutstanding = 1
    MaxConflicts = 2
    MaxFaults = 0
SYMMETRY MCSymmetry
INVARIANT ConflictHasBase
CHECK_DEADLOCK FALSE
