SPECIFICATION Spec
CONSTANTS
    p = p
    q = q
    r = r
    Local = {p, q, r}
    Arguments <- Parameters
    MaxSentences = 4
    Types <- PartTypes
INVARIANTS
    OwnersMeetInstances
    AliveIffHeld
PROPERTIES
    CopiesAreLikeTheirSource
CHECK_DEADLOCK FALSE
