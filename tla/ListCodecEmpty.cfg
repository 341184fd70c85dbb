\* Lists that may hold empty strings do not survive list_serialize and
\* list_deserialize: ["a", ""] comes back as ["a", "a"].
CONSTANTS
    Lists = {L1, L2}
    Nodes = {n1, n2, n3}
    Vals = {1, 2}
    NULL = NULL
    NoVal = NoVal
    Delims = {32, 10}
    LF = 10
    ArgLists <- MCArgLists
    CodecTexts <- MCCodecTexts
SPECIFICATION LinkedSpec
INVARIANT SerialRoundTripWithEmpty
