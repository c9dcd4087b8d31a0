\* Two clients ask for one collection at once: is each merge complete?
SPECIFICATION Spec
CONSTANTS
    c1 = c1
    c2 = c2
    c3 = c3
    Clients = {c1, c2}
    Nobody = Nobody
    SatNames <- TwoSats
    Requests <- OneCollection
    MasterBodies = {"members", "badMembers"}
    SatReplies = {"members"}
    SizeMax = 15
    Overlap = TRUE

INVARIANT EveryMergeIsComplete
CHECK_DEADLOCK FALSE
