\* (README, "Also observed"). Not one of the checked runs.
\* A blocklist that times out on the ping: is it removed, as the comment says?
\* (MxContract, NameserversContract and TxtContract, evaluated first, hold:
\* they are constant formulas, which TLC evaluates once.)
CONSTANTS
    i1 = i1
    i2 = i2
    o1 = o1
    Inbound = {i1, i2}
    Outbound = {o1}
    Fds = {0, 1, 2, 3}
    ListenFd = 3
    AllocMayFail = FALSE
    Peers <- MCAddrs
SPECIFICATION Spec
SYMMETRY SocketSymmetry
INVARIANT MxContract NameserversContract TxtContract PingRemovesSilent
