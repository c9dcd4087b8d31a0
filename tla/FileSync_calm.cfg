\* Programs that wait for the sync, connections that do not fail.
SPECIFICATION FairSpec
CONSTANTS
    a = a
    b = b
    Peers = {a, b}
    Configured = {a, b}
    Watching = {}
    Present = {a, b}
    Missing = {}
    Crowded = {}
    Writers = {a, b}
    Writes = {1, 2, 3}
    Blocks = 3
    Slots = {1, 2}
    Failures = FALSE
    Restarts = FALSE
    Calm = TRUE
INVARIANTS
    SettledIsEqual
PROPERTIES
    ChangeArrives
    KeepsUp
    Converges
CHECK_DEADLOCK FALSE
