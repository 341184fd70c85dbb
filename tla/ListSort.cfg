\* One list of up to three entries over three values, pushed and sorted in
\* either direction: list_sort must leave the values sorted.
CONSTANTS
    Lists = {L1}
    Nodes = {n1, n2, n3}
    Vals = {1, 2, 3}
    NULL = NULL
    NoVal = NoVal
    Delims = {32, 10}
    LF = 10
    ArgLists <- MCArgLists
    CodecTexts <- MCCodecTexts
SPECIFICATION SortSpec
PROPERTY ListRefinement
