SPECIFICATION PeersFairSpec
CONSTANTS
    i1 = i1
    h1 = h1
    None = None
    Intents = {i1}
    Quotes = {q1}
    Tokens = {t1}
    Refs = {h1}
    Rails = {ln}
    AdapterRail = ln
    RailAllowlist = {ln}
    RecipientAllowed = {i1}
    MaxFee <- MCMaxFee
    Amount <- MCAmount
    IntentExpires <- MCIntentExpires
    QuoteIntent <- MCQuoteIntent
    QuoteFee <- MCQuoteFee
    QuoteExpires <- MCQuoteExpires
    IdRank <- MCIdRank
    InvoiceHash <- MCInvoiceHash
    TokenExpires <- MCTokenExpires
    Fees = {1}
    Amounts = {5}
    WriteFaults = {}
    MaxTime = 2
    MaxFaults = 1
INVARIANTS
    PeersTypeOK
    BoundIsReceived
    PeersIInv
PROPERTIES
    PaidIsBound
    SubmittedIsDispatched
    PeersDeliver
CHECK_DEADLOCK FALSE
