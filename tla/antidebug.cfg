SPECIFICATION Spec
CONSTANTS
    Checks = {h1}
    Logging = FALSE
    Debuggers = {{"peb", "kernel", "veh", "process"}, {"port", "breakpoint"}}
INVARIANTS IdleMeansRunning
PROPERTIES CheckEndsUnlessWedged  DebuggerIsFlagged HitIsFlagged
CHECK_DEADLOCK FALSE
