SPECIFICATION Spec
CONSTANTS
    Kinds <- AllKinds
    Alphabet <- Characters
    MaxLength <- Lengths
    Parts <- NestedParts
    Pieces <- SamplePieces
    RunResponses <- SampleResponses
    DigestRequests <- SampleRequests
INVARIANTS
    QuoteKeptApart
    SplitLosesNothing
    BodyIsUnattachedTexts
    IntakeReadsWhatIsSeen
    PiecesMasked
    MaskedOnce
    RepliesNameAndCite
    AnsweredRunNotRepeated
    TicketsAllTold
CHECK_DEADLOCK FALSE
