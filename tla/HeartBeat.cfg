\* One configured host, two that look for their peers.
SPECIFICATION FairSpec
CONSTANTS
    a = a
    b = b
    c = c
    Hosts = {a, b, c}
    Config <- TwoLook
    Resolves = {b}
    Keyless = {"text", "garbage", "throws"}
    Loops = {1, 2}
    MaxTargets = 2
INVARIANTS
    TypeOK
    OneLoop
    FoundOnlyAtHome
PROPERTIES
    EveryTargetBeaten
    KeepsBeating
CHECK_DEADLOCK FALSE
