SPECIFICATION Spec
CONSTANTS
    a = a
    b = b
    c = c
    f = f
    l = l
    main = main
    x = x
    y = y
    n = n
    Mod = {a, b, c, f, l}
    Name = {main, x, y, n}
    NoMod = NoMod
    NoName = NoName
    Pub = Pub
    Programs <- AllPrograms
INVARIANTS
    LookupsFindWhatIsThere
    UsesMeetWhatTheyWaitFor
    StuckIsCircleOfWaits
