SPECIFICATION Spec
CONSTANTS
    t1 = t1
    t2 = t2
    Thread = {t1, t2}
    Sizes <- ObjectSizes
    Header = 3
    DefaultBlock = 16
    Modulus = 64
    MaxBlocks = 4
INVARIANTS
    EveryBlockIsListed
PROPERTIES
    KeepsPromise
