\* (README, "Also observed"). Not one of the checked runs.
\* socket_new's list_new fails after the calloc: the socket keeps fd 0,
\* which accept(2) hands to the next session; the first session's error
\* path then closes the second's connection.
CONSTANTS
    i1 = i1
    i2 = i2
    o1 = o1
    Inbound = {i1, i2}
    Outbound = {o1}
    Fds = {0, 1, 2, 3}
    ListenFd = 3
    AllocMayFail = TRUE
    Peers <- MCAddrs
SPECIFICATION Spec
SYMMETRY SocketSymmetry
INVARIANT DescriptorsOwned
