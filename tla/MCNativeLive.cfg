SPECIFICATION FairNativeSpec
CONSTANTS
    Client = {A, B}
    Object = {o1}
    NoEnvelope = NoEnvelope
    Envelope <- MCEnvelope
    MutationId <- MCMutationId
    Revision <- MCRevision
    UserOps = {"update"}
    Strategies = {"keep_remote"}
    Faults = {"timeout", "crash"}
    PageLimit = 2
    MaxWrites = 2
    MaxTotal = 4
    MaxOutstanding = 2
    MaxConflicts = 1
    MaxFaults = 1
PROPERTY EditsSettle
CHECK_DEADLOCK FALSE
