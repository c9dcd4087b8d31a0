\* The same messages, of which some have a header longer than a read.
SPECIFICATION Spec
CONSTANTS
    Units <- MCUnits
    Messages <- AnyMessage
    Documents <- MCDocuments
    MaxLength = 5
    NoFile = NoFile
INVARIANTS
    WaitsForHeader
CHECK_DEADLOCK FALSE
