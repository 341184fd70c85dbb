\* Three daemons started one after another (each only once no other is
\* starting), with no failures, crashes aside: can two daemons run?
CONSTANTS
    d1 = d1
    d2 = d2
    d3 = d3
    a1 = a1
    a2 = a2
    Daemons = {d1, d2, d3}
    Admins = {}
    CallsMayFail = FALSE
    TempOnOtherFs = FALSE
    Sequential = TRUE
    NoFile = NoFile
    Stranger = Stranger
SPECIFICATION Spec
INVARIANT SingleInstance
CHECK_DEADLOCK FALSE
