SPECIFICATION SettlementSpec
CONSTANTS
    i1 = i1
    t1 = t1
    None = None
    Intents = {i1}
    Quotes = {q1, q2}
    Tokens = {t1, t2}
    Refs = {q1, q2}
    Rails = {ln}
    AdapterRail = ln
    RailAllowlist = {ln}
    RecipientAllowed = {i1}
    MaxFee <- MCMaxFee
    Amount <- MCAmount
    IntentExpires <- MCIntentExpires
    QuoteIntent <- MCQuoteIntent
    QuoteFee <- MCQuoteFee
    QuoteExpires <- MCQuoteExpires
    Fees = {1, 2}
    Amounts = {5, 6}
    MaxTime = 2
    MaxFaults = 2
    IdRank <- MCIdRank
    WriteFaults = {"snapshot_fails"}
    InvoiceHash <- MCInvoiceHash
    TokenExpires <- MCTokenExpires
SYMMETRY MCSymmetry
INVARIANTS
    SettlementTypeOK
    PaidAtMostOnce
    PaidAsApproved
    SettledIsPaid
    EvidenceIsTrue
    PaymentIsTracked
    SettlementIInv
CHECK_DEADLOCK FALSE
