SPECIFICATION FairSpec
CONSTANTS
    None = None
    Mails <- TwoMails
    Kinds <- OneUnreadable
    Attempts = 3
    MaxFaults = 0
    MaxRestarts = 0
    MaxRaises = 0
PROPERTIES
    LeftoverProcessed
