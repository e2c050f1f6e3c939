SPECIFICATION DigestSpec
CONSTANTS
    ann = ann
    bug = bug
    s1 = s1
    s2 = s2
    r1 = r1
    r2 = r2
    None = None
    Users <- OneUser
    Categories <- OneCategory
    TicketIds <- TwoTickets
    MessageIds <- NoMessages
    Sessions <- TwoSessions
    Ages <- NoAge
    EscalationSeconds = 0
    MaxTime = 1
    Runs <- TwoRuns
    MaxRetries = 1
INVARIANTS
    DigestTypeOK
    FreshDigest
    DoneMeansMailed
    NothingLostWithoutMiss
    ReportedUnlessUndone
    MailBudget
ACTION_CONSTRAINT LeastFirst
CHECK_DEADLOCK FALSE
SYMMETRY Alike
