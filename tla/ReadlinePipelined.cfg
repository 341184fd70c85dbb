\* (README, "Also observed"). Not one of the checked runs.
\* Several lines in one read(2) chunk: is each one returned?
CONSTANTS
    Bytes <- LFBytes
    MaxLen = 5
    PeerMayStall = FALSE
SPECIFICATION Spec
PROPERTY CompleteLinesDelivered
CHECK_DEADLOCK FALSE
