SPECIFICATION Spec
CONSTANTS
    p = p
    q = q
    r = r
    Local = {p, q, r}
    Arguments <- Parameters
    MaxSentences = 4
    Types <- MixTypes
INVARIANTS
    LocalsHoldAVariant
CHECK_DEADLOCK FALSE
