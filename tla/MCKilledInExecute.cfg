SPECIFICATION ProcessSpec
CONSTANTS
    i1 = i1
    q1 = q1
    None = None
    Intents = {i1}
    Quotes = {q1, q2}
    Tokens = {t1, t2}
    Refs = {r1}
    Rails = {ln, ark}
    AdapterRail = ln
    RailAllowlist = {ln}
    RecipientAllowed = {i1}
    MaxFee <- MCMaxFee
    Amount <- MCAmount
    IntentExpires <- MCIntentExpires
    QuoteIntent <- MCQuoteIntent
    QuoteFee <- MCQuoteFee
    QuoteExpires <- MCQuoteExpires
    Fees = {1}
    Amounts = {5, 6}
    MaxTime = 1
    MaxFaults = 2
    IdRank <- MCIdRank
    WriteFaults = {}
INVARIANT
    DispatchedNotExecutable
CHECK_DEADLOCK FALSE
