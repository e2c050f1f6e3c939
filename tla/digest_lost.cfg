SPECIFICATION DigestSpec
CONSTANTS
    ann = ann
    bug = bug
    s1 = s1
    s2 = s2
    r1 = r1
    r2 = r2
    None = None
    Users <- OneUser
    Categories <- OneCategory
    TicketIds <- OneTicket
    MessageIds <- NoMessages
    Sessions <- TwoSessions
    Ages <- NoAge
    EscalationSeconds = 0
    MaxTime = 1
    Runs <- OneRun
    MaxRetries = 3
INVARIANTS
    MovedIsReported
CHECK_DEADLOCK FALSE
