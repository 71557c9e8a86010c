--------------------------- MODULE MCBuzzTransport ---------------------------
(***************************************************************************)
(* Small instances of BuzzTransport for TLC: a message of the peer that    *)
(* never expires, one that does, an event of the local process and one on  *)
(* which validation raises, and a cursor file that holds two ids.          *)
(***************************************************************************)
EXTENDS BuzzTransport

CONSTANTS e1, late, mine, bad

MCRank == [e \in Events |-> IF e = e1 THEN 1 ELSE IF e = late THEN 2
                            ELSE IF e = bad THEN 3 ELSE 4]
MCExpiresAt == [e \in Events |-> IF e = late THEN 1 ELSE 0]
==============================================================================
