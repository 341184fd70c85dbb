\* hash_from_char(hash, k1, v1, k2, v2, NULL) does not give {k1: v1, k2: v2}.
CONSTANTS
    Keys <- PairKeys
    Vals <- PairVals
    Absent = Absent
    CodecVals <- MCCodecVals
    AllocMayFail = TRUE
    FromListArgs <- MCFromListArgs
    FromCharArgs <- MCFromCharArgs
SPECIFICATION FromCharSpec
PROPERTY HashRefinement
