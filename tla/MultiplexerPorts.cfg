\* A non-root daemon whose constructors set ports 6144 and 240: does every
\* listener get its configured port, or that port + 10000?
\* (README, "Also observed").  Not one of the checked runs.
CONSTANTS
    NumCtors = 2
    NumAddrs = 1
    LocalCtors = {}
    ControllerMax = 10
    SysCallsMayFail = FALSE
    ListenerErrors = FALSE
    Port <- MCSwappedPort
    Uids = {1000}
    FirstFd = 3
SPECIFICATION Spec
INVARIANT PortRule
CHECK_DEADLOCK FALSE
