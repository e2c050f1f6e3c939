SPECIFICATION DeskSpec
CONSTANTS
    ann = ann
    bob = bob
    bug = bug
    None = None
    Users <- OneUser
    Categories <- OneCategory
    TicketIds <- TwoTickets
    MessageIds <- NumberedMessages
    Sessions <- TwoSessions
    Ages <- NoAge
    EscalationSeconds = 0
    MaxTime = 1
    Mails <- TwoMails
    Sender <- FromAnn
    Runs <- TwoRuns
INVARIANTS
    DeskTypeOK
    TwoActiveNeedOverlap
    ConflictNeedsOverlap
    FollowUpAppends
    ReportedIsRecorded
    BareNeedsFailure
ACTION_CONSTRAINT LeastFirst
CHECK_DEADLOCK FALSE
