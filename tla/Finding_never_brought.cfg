SPECIFICATION Spec
CONSTANTS
    NumEntities = 5
    PlainKinds = {}
    BringKinds = {"skill", "flagType"}
    Programs <- BringPrograms
INVARIANT UnfoundIsReported
