SPECIFICATION Spec
CONSTANTS
    TypedGenerics = {"T"}
    PrerunGenerics = {"N"}
    Types <- AllTypes
    PrerunValues <- AllValues
    Chains <- SomeChains
    Bodies <- SomeBodies
    Texts <- ShortTexts
    BodyTexts <- ShortBodies
INVARIANTS
    WrittenIsReadBack
    ChainsAreGrouped
    SentencesAreReadInOrder
    PairsAreTakenWhole
    ReadingEnds
