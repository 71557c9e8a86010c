---------------------------- MODULE MCHermesPeers ----------------------------
(***************************************************************************)
(* A small instance of HermesPeers for TLC: one intent with its quote.     *)
(***************************************************************************)
EXTENDS HermesPeers

CONSTANTS i1, h1

MCMaxFee == [i \in Intents |-> 1]
MCAmount == [i \in Intents |-> 5]
MCIntentExpires == [i \in Intents |-> 1]
MCQuoteIntent == [q \in Quotes |-> i1]
MCQuoteFee == [q \in Quotes |-> 1]
MCQuoteExpires == [q \in Quotes |-> 1]
MCIdRank == [i \in Intents |-> 1]
MCInvoiceHash == [q \in Quotes |-> h1]
MCTokenExpires == [t \in Tokens |-> 3]
==============================================================================
