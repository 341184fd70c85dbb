\* Three daemons started at any time, two administrators stopping the daemon,
\* fork, mkstemp, write and kill(2) able to fail, write(2) able to return a
\* short count, and a crash possible at every step.  Every process ends, so
\* final states are real.
CONSTANTS
    d1 = d1
    d2 = d2
    d3 = d3
    a1 = a1
    a2 = a2
    Daemons = {d1, d2, d3}
    Admins = {a1, a2}
    CallsMayFail = TRUE
    TempOnOtherFs = FALSE
    Sequential = FALSE
    NoFile = NoFile
    Stranger = Stranger
SPECIFICATION Spec
SYMMETRY DaemonSymmetry
PROPERTY PidfileReplacedWhole
CHECK_DEADLOCK FALSE
