SPECIFICATION FairSpec
CONSTANTS
    e1 = e1
    late = late
    mine = mine
    bad = bad
    Events = {e1, late, mine, bad}
    Own = {mine}
    Valid = {e1, late, mine}
    Undecodable = {bad}
    Rank <- MCRank
    ExpiresAt <- MCExpiresAt
    Limits = {0, 1, 9}
    CursorCap = 2
    FaultKinds = {"cursor_fails", "snapshot_fails", "killed", "corrupted"}
    MaxTime = 2
    MaxFaults = 2
INVARIANTS
    TransportIInv
    InboxHasNoDuplicates
    SeenIsDelivered
PROPERTIES
    SavedInboxOnlyGrows
    ImplementsDelivery
    DeliveredEventually
CHECK_DEADLOCK FALSE
