SPECIFICATION ProcessSpec
CONSTANTS
    i1 = i1
    q1 = q1
    None = None
    Intents = {i1}
    Quotes = {q1, q2}
    Tokens = {t1, t2}
    Refs = {r1}
    Rails = {ln, ark}
    AdapterRail = ln
    RailAllowlist = {ln}
    RecipientAllowed = {i1}
    MaxFee <- MCMaxFee
    Amount <- MCAmount
    IntentExpires <- MCIntentExpires
    QuoteIntent <- MCQuoteIntent
    QuoteFee <- MCQuoteFee
    QuoteExpires <- MCQuoteExpires
    Fees = {1}
    Amounts = {5, 6}
    MaxTime = 2
    MaxFaults = 2
    IdRank <- MCIdRank
    WriteFaults = {"save_fails", "log_fails", "snapshot_fails"}
SYMMETRY MCSymmetry
INVARIANTS
    ProcessTypeOK
    SettledIsDurable
    RepeatedDispatchSameHash
    ProcessIInv
PROPERTY
    SavedDispatchIsFinal
CHECK_DEADLOCK FALSE
