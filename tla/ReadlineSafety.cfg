\* Every byte reaches the caller once and in order, and the read buffer's
\* list stays intact, for every way read(2) can chunk up to 10 bytes, with
\* a peer that may close, stall into SO_RCVTIMEO or just wait.
\* A peer that never sends anything more and never closes leaves the
\* reader blocked in read(2), which is a legitimate stop.
CONSTANTS
    Bytes <- LFBytes
    MaxLen = 10
    PeerMayStall = TRUE
SPECIFICATION Spec
INVARIANT TypeOK LineIntegrity NoListCorruption
CHECK_DEADLOCK FALSE
