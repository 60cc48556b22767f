SPECIFICATION NativeSpec
CONSTANTS
    Client = {A, B}
    Object = {o1}
    NoEnvelope = NoEnvelope
    Envelope <- MCEnvelope
    MutationId <- MCMutationId
    Revision <- MCRevision
    UserOps = {"update", "delete"}
    Strategies = {"keep_local", "keep_remote"}
    Faults = {"timeout"}
    PageLimit = 2
    MaxWrites = 3
    MaxTotal = 5
    MaxOutstanding = 1
    MaxConflicts = 2
    MaxFaults = 1
SYMMETRY MCSymmetry
INVARIANTS NoStaleOverwrite MergeBaseIsAncestor EditConflictHasBase CleanRowsAreVersions EditsSurviveResolution
CHECK_DEADLOCK FALSE
