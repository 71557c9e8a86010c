SPECIFICATION Spec
CONSTANTS
    e1 = e1
    late = late
    mine = mine
    bad = bad
    Events = {e1, late, mine, bad}
    Own = {mine}
    Valid = {e1, late, mine}
    Undecodable = {bad}
    Rank <- MCRank
    ExpiresAt <- MCExpiresAt
    Limits = {0, 1, 9}
    CursorCap = 4
    FaultKinds = {}
    MaxTime = 2
    MaxFaults = 0
INVARIANT
    InvalidEventsAreSkipped
CHECK_DEADLOCK FALSE
