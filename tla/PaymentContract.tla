--------------------------- MODULE PaymentContract ---------------------------
(***************************************************************************)
(* What a payment orchestrator promises, without saying how: an intent is  *)
(* accepted, then either closed without money moving or committed to one   *)
(* settlement attempt; the attempt is released to the rail at most once;   *)
(* and a process that restarts may forget an intent but never gives a      *)
(* committed one a second life.                                            *)
(*                                                                         *)
(* PaymentOrchestrator implements this specification.                      *)
(***************************************************************************)
EXTENDS Naturals, Sequences

CONSTANT Intents

VARIABLES
    phase,     \* how far each intent has got
    released   \* the intents handed to the rail for settlement, in order

contractVars == <<phase, released>>

Phases == {"fresh", "open", "committed", "settled", "closed", "forgotten"}

ContractTypeOK ==
    /\ phase \in [Intents -> Phases]
    /\ released \in Seq(Intents)

ContractInit ==
    /\ phase = [i \in Intents |-> "fresh"]
    /\ released = <<>>

Move(i, from, to) ==
    /\ phase[i] = from
    /\ phase' = [phase EXCEPT ![i] = to]
    /\ UNCHANGED released

Accept(i) == Move(i, "fresh", "open")

Close(i) == Move(i, "open", "closed")

Commit(i) == Move(i, "open", "committed")

Settle(i) == Move(i, "committed", "settled")

\* The only step that moves money: the intent is committed and was never
\* released before.
Release(i) ==
    /\ phase[i] = "committed"
    /\ \A n \in DOMAIN released : released[n] # i
    /\ released' = Append(released, i)
    /\ UNCHANGED phase

\* What an intent may be after the process lost its memory.  An intent that
\* was committed is never fresh again.
AfterLoss(p) ==
    IF p = "fresh" THEN {"fresh"}
    ELSE IF p \in {"open", "closed"} THEN {"fresh", "forgotten"}
    ELSE {"forgotten"}

Lose ==
    /\ phase' \in [Intents -> Phases]
    /\ \A i \in Intents : phase'[i] \in AfterLoss(phase[i])
    /\ UNCHANGED released

ContractNext ==
    \/ \E i \in Intents : Accept(i) \/ Close(i) \/ Commit(i) \/ Settle(i) \/ Release(i)
    \/ Lose

ContractSpec == ContractInit /\ [][ContractNext]_contractVars
==============================================================================
