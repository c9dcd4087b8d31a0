\* Three satellites, whose names and ids make some links ambiguous.
SPECIFICATION Spec
CONSTANTS
    SatNames <- MCSatNames
    Ids <- MCIds
    Collection <- MCCollection
    Nothing = Nothing
INVARIANTS
    TypeOK
    LinkLeadsHome
    LinksDistinct
    MembersAreRelayed
