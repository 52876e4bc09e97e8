SPECIFICATION Spec
CONSTANTS
    NumPaths = 4
    Projects <- SmallProjects
INVARIANTS
    TreeConsistent
    OneModulePerPath
    PassesAgree
    BringsTakeEffect
    OverflowIsMemberCycle
PROPERTY Termination
