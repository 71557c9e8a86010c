--------------------------- MODULE MCHermesProcess ---------------------------
(***************************************************************************)
(* Small instances of HermesProcess for TLC: one intent with two quotes    *)
(* and two send tokens, so that a second life of the intent would show.    *)
(***************************************************************************)
EXTENDS HermesProcess, TLC

CONSTANTS i1, q1

MCMaxFee == [i \in Intents |-> 1]
MCAmount == [i \in Intents |-> 5]
MCIntentExpires == [i \in Intents |-> 1]
MCQuoteIntent == [q \in Quotes |-> i1]
MCQuoteFee == [q \in Quotes |-> 1]
MCQuoteExpires == [q \in Quotes |-> IF q = q1 THEN 1 ELSE 2]
MCIdRank == [i \in Intents |-> 1]

\* No constant tells the tokens apart.
MCSymmetry == Permutations(Tokens)
==============================================================================
