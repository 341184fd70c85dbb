\* One PF_INET and one PF_LOCAL constructor: once polling starts, is every
\* descriptor the setup opened a listener's?
CONSTANTS
    NumCtors = 2
    NumAddrs = 1
    LocalCtors <- SecondIsLocal
    ControllerMax = 10
    SysCallsMayFail = FALSE
    ListenerErrors = FALSE
    Port <- MCPort
    Uids = {0}
    FirstFd = 3
SPECIFICATION Spec
INVARIANT NoLeakedDescriptor
CHECK_DEADLOCK FALSE
