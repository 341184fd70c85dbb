\* Four keys over three buckets, two of them colliding, two values that
\* no key equals, and list_push allocation failures.
CONSTANTS
    Keys <- PairKeys
    Vals <- PairVals
    Absent = Absent
    CodecVals <- MCCodecVals
    AllocMayFail = TRUE
    FromListArgs <- MCFromListArgs
    FromCharArgs = {}
SPECIFICATION Spec
INVARIANT TypeOK BucketsPaired HashQueries HashSerialRoundTrip
PROPERTY HashRefinement
