CONSTANTS
    a = a
    b = b
    Nothing = Nothing
    RequestIds = {1, 2, 3, 4}
    MutationKinds <- MCKinds
    Commands <- MCCommands
    PreviewOnly = {}
    States <- MCStates
    NoState = Nothing
    Effect <- MCEffect
    BaseEligible <- MCBaseEligible
    MaxBatch = 1
    MaxVersion = 2
    Asked <- MCAsked
    Callbacks <- MCOneCall
    Malformed <- MCMalformed
    Covers <- MCNoCovers
    Initial <- MCInitial
    Nobody = Nobody
    Awaited = Awaited
    Failed = Failed
    Hosts = {1, 2}
    CallLimit = 1
CHECK_DEADLOCK FALSE
SPECIFICATION HostSpec
PROPERTIES
    CallsSettle
    StartsEnd
    LandedSettles
