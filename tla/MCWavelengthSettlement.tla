------------------------ MODULE MCWavelengthSettlement ------------------------
(***************************************************************************)
(* A small instance of WavelengthSettlement for TLC: one intent, two       *)
(* quotes with an invoice each, and two tokens, the first of which expires *)
(* with the intent.  The hash of an invoice goes by the name of its quote, *)
(* so that the quotes, alike in all else, are interchangeable.             *)
(***************************************************************************)
EXTENDS WavelengthSettlement, TLC

CONSTANTS i1, t1

MCMaxFee == [i \in Intents |-> 1]
MCAmount == [i \in Intents |-> 5]
MCIntentExpires == [i \in Intents |-> 1]
MCQuoteIntent == [q \in Quotes |-> i1]
MCQuoteFee == [q \in Quotes |-> 1]
MCQuoteExpires == [q \in Quotes |-> 2]
MCIdRank == [i \in Intents |-> 1]
MCInvoiceHash == [q \in Quotes |-> q]
MCTokenExpires == [t \in Tokens |-> IF t = t1 THEN 2 ELSE 3]

\* Nothing but their names tells the quotes apart.
MCSymmetry == Permutations(Quotes)
==============================================================================
