SPECIFICATION Spec
CONSTANTS
    Kinds <- CardsOnly
    Alphabet <- Characters
    MaxLength <- Lengths
    Parts <- NestedParts
    Pieces <- SamplePieces
    RunResponses <- SampleResponses
    DigestRequests <- SampleRequests
INVARIANTS
    CardsMasked
CHECK_DEADLOCK FALSE
