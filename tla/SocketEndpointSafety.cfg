\* Two accepted sessions and one outbound session over descriptors 0..3,
\* the listener on 3 (daemonize closed 0, 1 and 2).  accept(2),
\* getpeername(2), resolution, connect(2), select(2) and write(2)
\* may fail, and the descriptors may run out; socket_new's list_new does
\* not fail here.  Sessions are made and released again and
\* again, so there is no final state.
CONSTANTS
    i1 = i1
    i2 = i2
    o1 = o1
    Inbound = {i1, i2}
    Outbound = {o1}
    Fds = {0, 1, 2, 3}
    ListenFd = 3
    AllocMayFail = FALSE
    Peers <- MCAddrs
SPECIFICATION Spec
SYMMETRY SocketSymmetry
INVARIANT DescriptorsOwned OpenSocketsUsable BlocklistVerdict
