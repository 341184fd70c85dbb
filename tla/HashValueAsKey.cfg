\* Three keys in one bucket and a value that equals one of the keys.  A
\* NULL dereference ends the process, so a crashed state has no successor.
CONSTANTS
    Keys <- CollidingKeys
    Vals <- KeyLikeVals
    Absent = Absent
    CodecVals <- MCCodecVals
    AllocMayFail = FALSE
    FromListArgs = {}
    FromCharArgs = {}
SPECIFICATION Spec
PROPERTY HashRefinement
CHECK_DEADLOCK FALSE
