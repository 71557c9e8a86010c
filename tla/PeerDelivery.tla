----------------------------- MODULE PeerDelivery -----------------------------
(***************************************************************************)
(* What the channel promises to one peer, in terms of the messages that    *)
(* are new to it: nothing reaches the inbox but what is new, taking it     *)
(* makes it old, and a restart goes back to the inbox that was saved.  It  *)
(* does not promise that what is taken arrives: a poll drops messages that *)
(* are stale, and a failure loses some.  Only a restart makes old messages *)
(* new again.                                                              *)
(*                                                                         *)
(* BuzzTransport implements it; HermesPeers is built on it.                *)
(***************************************************************************)
CONSTANT Messages

VARIABLES
    fresh,     \* the messages that are new to the peer
    inbox,     \* the messages it has been handed
    saved      \* those that survive a restart

deliveryVars == <<fresh, inbox, saved>>

Init ==
    /\ fresh = {}
    /\ inbox = {}
    /\ saved = {}

Publish ==
    /\ \E m \in Messages : fresh' = fresh \cup {m}
    /\ UNCHANGED <<inbox, saved>>

Take ==
    /\ \E batch \in SUBSET fresh :
         /\ fresh' = fresh \ batch
         /\ inbox \subseteq inbox'
         /\ inbox' \subseteq inbox \cup batch
    /\ UNCHANGED saved

Save ==
    /\ saved' = inbox
    /\ UNCHANGED <<fresh, inbox>>

Restart ==
    /\ inbox' = saved
    /\ fresh \subseteq fresh'
    /\ fresh' \subseteq Messages
    /\ UNCHANGED saved

Next == Publish \/ Take \/ Save \/ Restart

Spec == Init /\ [][Next]_deliveryVars
==============================================================================
