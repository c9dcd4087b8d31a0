\* A connection that fails.
SPECIFICATION Spec
CONSTANTS
    a = a
    b = b
    Peers = {a, b}
    Configured = {a}
    Watching = {}
    Present = {a, b}
    Missing = {}
    Crowded = {}
    Writers = {a}
    Writes = {1}
    Blocks = 2
    Slots = {1}
    Failures = TRUE
    Restarts = FALSE
    Calm = TRUE
INVARIANTS
    SettledIsEqual
CHECK_DEADLOCK FALSE
