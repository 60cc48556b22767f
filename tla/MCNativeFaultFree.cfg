SPECIFICATION NativeSpec
CONSTANTS
    Client = {A, B}
    Object = {o1, o2}
    NoEnvelope = NoEnvelope
    Envelope <- MCEnvelope
    MutationId <- MCMutationId
    Revision <- MCRevision
    UserOps = {"update", "delete"}
    Strategies = {}
    Faults = {}
    PageLimit = 1
    MaxWrites = 2
    MaxTotal = 4
    MaxOutstanding = 2
    MaxConflicts = 2
    MaxFaults = 0
SYMMETRY MCSymmetry
INVARIANTS NativeTypeOK CursorIsHonest
CHECK_DEADLOCK FALSE
