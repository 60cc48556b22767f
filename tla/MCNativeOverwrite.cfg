SPECIFICATION NativeSpec
CONSTANTS
    Client = {A, B}
    Object = {o1}
    NoEnvelope = NoEnvelope
    Envelope <- MCEnvelope
    MutationId <- MCMutationId
    Revision <- MCRevision
    UserOps = {"update"}
    Strategies = {}
    Faults = {}
    PageLimit = 2
    MaxWrites = 3
    MaxTotal = 5
    MaxOutstanding = 2
    MaxConflicts = 2
    MaxFaults = 0
SYMMETRY MCSymmetry
INVARIANT NoStaleOverwrite
CHECK_DEADLOCK FALSE
