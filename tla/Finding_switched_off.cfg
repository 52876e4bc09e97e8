SPECIFICATION Spec
CONSTANTS
    NumEntities = 2
    PlainKinds = {"function", "prerunFunction"}
    BringKinds = {}
    Programs <- PlainPrograms
INVARIANT SwitchedOffIsNotEmitted
