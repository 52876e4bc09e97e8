CONSTANTS
    WordBits = 3
    MaxCalls = 5
    Programs <- AllPrograms
    Functions <- AllFunctions
    Sentences <- AllSentences
SPECIFICATION Spec
INVARIANTS
    LoopRecordsMatch
    ActiveBlockIsReached
    PlainProgramsAsRead
PROPERTIES
    ImplementsMeaning
    Terminates
