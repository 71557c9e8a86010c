SPECIFICATION Spec
CONSTANTS
    i1 = i1
    i2 = i2
    q1 = q1
    q2 = q2
    q3 = q3
    None = None
    Intents = {i1}
    Quotes = {q1, q2}
    Tokens = {t1, t2}
    Refs = {r1, r2}
    Rails = {ln, ark}
    AdapterRail = ln
    RailAllowlist = {ln}
    RecipientAllowed = {i1}
    MaxFee <- MCMaxFee
    Amount <- MCAmount
    IntentExpires <- MCIntentExpires
    QuoteIntent <- MCQuoteIntent
    QuoteFee <- MCQuoteFee
    QuoteExpires <- MCQuoteExpires
    Fees = {1, 2}
    Amounts = {5, 6}
    MaxTime = 2
    MaxFaults = 2
INVARIANTS
    TypeOK
    DispatchAtMostOnce
    ApprovedBeforeDispatch
    AuditedBeforeDispatch
    SettledIsDurable
    ClosedWithoutDispatch
    IInv
CHECK_DEADLOCK FALSE
