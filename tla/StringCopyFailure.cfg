CONSTANTS
    Strs = {s1, s2}
    CR = 13
    LF = 10
    Chars <- MCChars
    Lits <- MCLits
    Junk = Junk
    InitialSize = 4
    PointerSize = 2
    MaxLen = 2
    ReadBytes <- MCChars
    FailingAllocs = {"str_copy"}
SPECIFICATION Spec
PROPERTY StringRefinement
