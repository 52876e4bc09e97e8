SPECIFICATION Spec
CONSTANTS
    NumEntities = 5
    PlainKinds = {"structType", "function"}
    BringKinds = {"structType", "mixType", "skill", "doneSkill"}
    Programs <- AllPrograms
INVARIANTS
    PhasesHaveDeps
    UnresolvedIsCircularWait
    OutcomeIsFixpoint
    NeedsExist
    BringsSettled
PROPERTIES
    StatusNeverFalls
    Termination
    ImplementsPhaseOrder
