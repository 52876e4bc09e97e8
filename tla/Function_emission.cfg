SPECIFICATION Spec
CONSTANTS
    Programs <- AllPrograms
    Sentences <- AllSentences
INVARIANTS VisibleIsInScope UsesMeetValues DestroysAreDue NothingLeaks BlocksAreClosed
