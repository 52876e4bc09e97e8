CONSTANTS
    fn = fn
    st = st
    df = df
    Generic = {fn, st, df}
    Main = Main
    Programs <- AllPrograms
    MaxDepth = 9
SPECIFICATION Spec
INVARIANTS
    AnswersAreMeant
    MadeOnce
    EndsAreDeserved
CHECK_DEADLOCK FALSE
