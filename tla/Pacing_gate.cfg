SPECIFICATION Spec
CONSTANTS
    d1 = d1
    d2 = d2
    cli = cli
    Callers = {d1, d2, cli}
    Process <- ProcessOf
    MinGap = 2
    MaxGap = 3
    MaxSleep = 2
    MaxConcurrent = 1
    Never = Never
    Horizon = 4
    SetBacks = 1
    Breaks = 1
PROPERTY ImplementsGate
PROPERTY LostToSomebody
SYMMETRY Twins
CHECK_DEADLOCK FALSE
