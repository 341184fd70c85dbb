\* hash_serialize and hash_deserialize with a value that holds an LF or
\* ends in a backslash (README, "Also observed").  Not one of the checked runs.
CONSTANTS
    Keys <- PairKeys
    Vals <- PairVals
    Absent = Absent
    CodecVals <- MCCodecVals
    AllocMayFail = TRUE
    FromListArgs <- MCFromListArgs
    FromCharArgs = {}
SPECIFICATION Spec
INVARIANT HashSerialRoundTripWithLF
