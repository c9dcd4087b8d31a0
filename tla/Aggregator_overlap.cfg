\* Three clients ask for two collections in any order, also at once.
SPECIFICATION Spec
CONSTANTS
    c1 = c1
    c2 = c2
    c3 = c3
    Clients = {c1, c2, c3}
    Nobody = Nobody
    SatNames <- TwoSats
    Requests <- TwoCollections
    MasterBodies = {"members", "badMembers"}
    SatReplies = {"members"}
    SizeMax = 15
    Overlap = TRUE
SYMMETRY ClientSymmetry
INVARIANTS
    TypeOK
    OwnersMatch
    AtMostOneAnswer
    BlocksAccounted
    MergedRepliesMatchTarget
    NoReplyMergedTwice
    UndisturbedIsExact
PROPERTIES
    OrphanedBlockIsPermanent
    TokenKept
CHECK_DEADLOCK FALSE
