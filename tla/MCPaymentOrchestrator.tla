------------------------ MODULE MCPaymentOrchestrator ------------------------
(***************************************************************************)
(* Small instances of PaymentOrchestrator for TLC.  Intent i1 expires at   *)
(* time 1, intent i2 never does; quotes q1 and q2 are for i1, q3 is for i2,*)
(* and q1 expires first.                                                   *)
(***************************************************************************)
EXTENDS PaymentOrchestrator

CONSTANTS i1, i2, q1, q2, q3

MCMaxFee == [i \in Intents |-> 1]
MCAmount == [i \in Intents |-> 5]
MCIntentExpires == [i \in Intents |-> IF i = i1 THEN 1 ELSE 0]
MCQuoteIntent == [q \in Quotes |-> IF q = q3 THEN i2 ELSE i1]
MCQuoteFee == [q \in Quotes |-> 1]
MCQuoteExpires == [q \in Quotes |-> IF q = q1 THEN 1 ELSE 2]
==============================================================================
