\* str_read with a descriptor that may deliver a NUL byte: len counts it,
\* strlen stops at it (README, "Also observed").  Not one of the checked runs.
CONSTANTS
    Strs = {s1, s2}
    CR = 13
    LF = 10
    Chars <- MCChars
    Lits <- MCLits
    Junk = Junk
    InitialSize = 4
    PointerSize = 2
    MaxLen = 2
    ReadBytes <- MCReadBytesWithNul
    FailingAllocs = {}
SPECIFICATION Spec
INVARIANT Terminated
