SPECIFICATION NativeSpec
CONSTANTS
    Client = {A, B}
    Object = {o1, o2}
    NoEnvelope = NoEnvelope
    Envelope <- MCEnvelope
    MutationId <- MCMutationId
    Revision <- MCRevision
    UserOps = {"update", "purge"}
    Strategies = {"keep_local", "keep_remote", "merge", "duplicate"}
    Faults = {"timeout", "crash", "unauthorized"}
    PageLimit = 2
    MaxWrites = 2
    MaxTotal = 4
    MaxOutstanding = 2
    MaxConflicts = 1
    MaxFaults = 1
SYMMETRY MCSymmetry
INVARIANT EditsAccountedFor
CHECK_DEADLOCK FALSE
