\* Two lists sharing a pool of three entries, two distinct values (so
\* order is observable), and every list function except list_unshift,
\* list_merge and list_sort (LinkedSpec).  The pool runs out, so list_copy's partial copy and
\* list_push's allocation failure happen.  SerialRoundTrip checks the list
\* codec of ListCodec on every reachable list, its values read as texts.
CONSTANTS
    Lists = {L1, L2}
    Nodes = {n1, n2, n3}
    Vals = {1, 2}
    NULL = NULL
    NoVal = NoVal
    Delims = {32, 10}
    LF = 10
    ArgLists <- MCArgLists
    CodecTexts <- MCCodecTexts
SPECIFICATION LinkedSpec
INVARIANT TypeOK WellFormed ListQueries SerialRoundTrip
PROPERTY ListRefinement
