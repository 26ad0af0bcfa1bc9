CONSTANTS
    add = add
    Nothing = Nothing
    RequestIds = {q1, q2, q3, q4}
    Browsers = {b1, b2}
    Patient = {}
    MaxCopies = 2
    MutationKinds = {"planner_command"}
    Commands <- MCCommands
    PreviewOnly <- MCPreviewOnly
    States <- MCStates
    NoState = Nothing
    Effect <- MCEffect
    BaseEligible <- MCBaseEligible
    MaxBatch = 1
    MaxVersion = 2
    Asked <- MCAsked
SPECIFICATION Spec
SYMMETRY MCSymmetry
INVARIANT GivenUpHadNoEffect
