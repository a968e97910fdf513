SPECIFICATION Spec
CONSTANTS
    Shells = {1}
    Pids = {"7"}
    Names = {"x"}
    MaxCommands = 2
PROPERTY
    StopReaches
CHECK_DEADLOCK FALSE
