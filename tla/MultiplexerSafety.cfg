\* Up to four constructors (the second PF_LOCAL) over three addresses.
\* The controller table has four slots (handle 0 is the null controller),
\* so a fourth registration fails.  The constructor, bind(2) and poll(2) may
\* fail; listeners report POLLIN only.  The multiplexer returns, and the
\* daemon exits, on any setup failure, so final states are real.
CONSTANTS
    NumCtors = 4
    NumAddrs = 3
    LocalCtors <- SecondIsLocal
    ControllerMax = 4
    SysCallsMayFail = TRUE
    ListenerErrors = FALSE
    Port <- MCPort
    Uids = {0, 1000}
    FirstFd = 3
SPECIFICATION Spec
INVARIANT TypeOK ListenerTable ServedReady
CHECK_DEADLOCK FALSE
