SPECIFICATION SerialSpec
CONSTANTS
    ann = ann
    bob = bob
    bug = bug
    s1 = s1
    s2 = s2
    m1 = m1
    None = None
    Users <- TwoUsers
    Categories <- OneCategory
    TicketIds <- TwoTickets
    MessageIds <- OneMessage
    Sessions <- TwoSessions
    Ages <- NoAge
    EscalationSeconds = 0
    MaxTime = 1
INVARIANTS
    OneActivePerUser
    MessageScope
PROPERTIES
    ImplementsBook
