SPECIFICATION Spec
CONSTANTS
    Kinds <- AngleOnly
    Alphabet <- Characters
    MaxLength <- Lengths
    Parts <- NestedParts
    Pieces <- SamplePieces
    RunResponses <- SampleResponses
    DigestRequests <- SampleRequests
INVARIANTS
    QuotedNeverRequested
CHECK_DEADLOCK FALSE
