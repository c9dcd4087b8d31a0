\* Every kind of message, and a connection that may break.
SPECIFICATION FairSpec
CONSTANTS
    Units <- MCUnits
    Messages <- AnyMessage
    Documents <- MCDocuments
    MaxLength = 5
    NoFile = NoFile
INVARIANTS
    TypeOK
    NeverCrashes
    StoredIsPrefix
    ReceivedWhole
PROPERTIES
    SessionEnds
CHECK_DEADLOCK FALSE
