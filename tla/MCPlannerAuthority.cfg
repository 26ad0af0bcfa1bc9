CONSTANTS
    a = a
    b = b
    peek = peek
    Nothing = Nothing
    RequestIds = {q1, q2}
    MutationKinds = {"planner_command"}
    Commands <- MCCommands
    PreviewOnly <- MCPreviewOnly
    States <- MCStates
    NoState = Nothing
    Effect <- MCEffect
    BaseEligible <- MCBaseEligible
    MaxBatch = 2
    MaxVersion = 3
    Asked <- MCAsked
SPECIFICATION Spec
SYMMETRY MCSymmetry
INVARIANTS
    UndoRestores
    EffectMatchesReceipt
    AnswersStored
PROPERTIES
    HistoryImmutable
    ImplementsLedger
