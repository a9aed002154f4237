SPECIFICATION FairSpec
CONSTANTS
    Tokens = {s1}
    Legacy = {}
    Editors = {e1}
    Visitors = {v1, v2}
    Lifetimes = {2}
    TicketTTL = 1
    Retention = 1
    MaxDownloads = 2
    MaxCodes = 2
    MaxTime = 2
INVARIANT EditInv
INVARIANT DownloadsCounted
INVARIANT CancelledIsClosed
INVARIANT TicketOpensCurrentCode
PROPERTY QuotaKept
PROPERTY CancelledIsRemoved
CHECK_DEADLOCK FALSE
