\* Two programs that do not wait, failing connections, restarts.
SPECIFICATION Spec
CONSTANTS
    a = a
    b = b
    Peers = {a, b}
    Configured = {}
    Watching = {a}
    Present = {}
    Missing = {b}
    Crowded = {a}
    Writers = {a, b}
    Writes = {1, 2}
    Blocks = 2
    Slots = {1}
    Failures = TRUE
    Restarts = TRUE
    Calm = FALSE
INVARIANTS
    TypeOK
    BlocksKeepTheirPlace
    ChangeIsNoticed
    NoFileOverlooked
CHECK_DEADLOCK FALSE
