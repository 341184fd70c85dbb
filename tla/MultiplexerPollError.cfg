\* (README, "Also observed"). Not one of the checked runs.
\* A listener flagged POLLERR or POLLHUP: does the dispatch loop stay
\* inside pfd[]?
CONSTANTS
    NumCtors = 2
    NumAddrs = 1
    LocalCtors = {}
    ControllerMax = 10
    SysCallsMayFail = FALSE
    ListenerErrors = TRUE
    Port <- MCPort
    Uids = {0}
    FirstFd = 3
SPECIFICATION Spec
INVARIANT DispatchInBounds
CHECK_DEADLOCK FALSE
