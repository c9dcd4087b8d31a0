\* Two clients and two satellites, one request per path at a time.
SPECIFICATION FairSpec
CONSTANTS
    c1 = c1
    c2 = c2
    c3 = c3
    Clients = {c1, c2}
    Nobody = Nobody
    SatNames <- TwoSats
    Requests <- Mixed
    MasterBodies = {"invalid", "scalar", "noMembers", "badMembers", "members"}
    SatReplies = {"error", "members", "malformed"}
    SizeMax = 15
    Overlap = FALSE
PROPERTIES
    KeepsPromise
    AnsweredUnlessExcused
CHECK_DEADLOCK FALSE
