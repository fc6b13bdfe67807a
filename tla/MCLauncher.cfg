SPECIFICATION LauncherSpec
CONSTANTS
    Pids = {p1, p2, p3}
    None = None
    Empty = Empty
    MaxCommands = 3
SYMMETRY PidSymmetry
INVARIANTS NotRunningIsTrue
CHECK_DEADLOCK FALSE
