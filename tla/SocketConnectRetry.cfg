\* (README, "Also observed"). Not one of the checked runs.
\* session_connect called again on a socket whose connect failed:
\* socket(2) overwrites s->fd and the first descriptor stays open.
CONSTANTS
    i1 = i1
    i2 = i2
    o1 = o1
    Inbound = {i1, i2}
    Outbound = {o1}
    Fds = {0, 1, 2, 3}
    ListenFd = 3
    AllocMayFail = FALSE
    Peers <- MCAddrs
SPECIFICATION Spec
SYMMETRY SocketSymmetry
INVARIANT NoLeakedDescriptor
