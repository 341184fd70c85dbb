\* Two daemons started at the same time, with no failures or crashes
\* (README, "Also observed").  Not one of the checked runs.
CONSTANTS
    d1 = d1
    d2 = d2
    d3 = d3
    a1 = a1
    a2 = a2
    Daemons = {d1, d2}
    Admins = {}
    CallsMayFail = FALSE
    TempOnOtherFs = FALSE
    Sequential = FALSE
    NoFile = NoFile
    Stranger = Stranger
SPECIFICATION Spec
INVARIANT SingleInstance
CHECK_DEADLOCK FALSE
