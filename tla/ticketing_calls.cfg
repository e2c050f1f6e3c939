SPECIFICATION FairSpec
CONSTANTS
    ann = ann
    bob = bob
    bug = bug
    s1 = s1
    s2 = s2
    m1 = m1
    None = None
    Users <- OneUser
    Categories <- OneCategory
    TicketIds <- TwoTickets
    MessageIds <- OneMessage
    Sessions <- TwoSessions
    Ages <- OneAge
    EscalationSeconds = 1
    MaxTime = 2
INVARIANTS
    TypeOK
    EscalatedIsStale
    AckedIsDurable
    NoDeadlock
PROPERTIES
    StatusForward
    HistoryKept
    CallsEnd
