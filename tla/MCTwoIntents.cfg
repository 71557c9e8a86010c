SPECIFICATION Spec
CONSTANTS
    i1 = i1
    i2 = i2
    q1 = q1
    q2 = q2
    q3 = q3
    None = None
    Intents = {i1, i2}
    Quotes = {q1, q3}
    Tokens = {t1}
    Refs = {r1}
    Rails = {ln, ark}
    AdapterRail = ln
    RailAllowlist = {ln}
    RecipientAllowed = {i1, i2}
    MaxFee <- MCMaxFee
    Amount <- MCAmount
    IntentExpires <- MCIntentExpires
    QuoteIntent <- MCQuoteIntent
    QuoteFee <- MCQuoteFee
    QuoteExpires <- MCQuoteExpires
    Fees = {1, 2}
    Amounts = {5}
    MaxTime = 2
    MaxFaults = 1
PROPERTIES
    ImplementsContract
    DiskOnlyGrows
CHECK_DEADLOCK FALSE
