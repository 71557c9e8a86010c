---------------------------- MODULE PaymentStates ----------------------------
(***************************************************************************)
(* The payment life cycle of state_machine.py: the states an intent can be *)
(* in, the triggers that move it and the states that are final.  The       *)
(* module is pure: it has no variables, and every component that moves an  *)
(* intent does so with the operators defined here.                         *)
(***************************************************************************)

\* models.py, class PaymentState.
PaymentState == {"DRAFT", "SUBMITTED", "QUOTED", "PREPARED", "APPROVED",
                 "EXECUTING", "SETTLED", "FAILED", "REJECTED", "EXPIRED",
                 "CANCELLED", "RECONCILIATION_REQUIRED"}

\* The transition table, indexed by trigger and then by current state.  A
\* pair that is absent from the Python dictionary is a state outside the
\* domain of the trigger's function.
TRANSITIONS ==
    [submit           |-> [DRAFT |-> "SUBMITTED"],
     quote_received   |-> [SUBMITTED |-> "QUOTED"],
     prepared         |-> [QUOTED |-> "PREPARED"],
     approved         |-> [PREPARED |-> "APPROVED"],
     executing        |-> [APPROVED |-> "EXECUTING"],
     settled          |-> [EXECUTING |-> "SETTLED"],
     cancel           |-> [DRAFT |-> "CANCELLED", SUBMITTED |-> "CANCELLED",
                           QUOTED |-> "CANCELLED", PREPARED |-> "CANCELLED"],
     rejected         |-> [SUBMITTED |-> "REJECTED", QUOTED |-> "REJECTED",
                           PREPARED |-> "REJECTED", APPROVED |-> "REJECTED"],
     expired          |-> [SUBMITTED |-> "EXPIRED", QUOTED |-> "EXPIRED",
                           PREPARED |-> "EXPIRED", APPROVED |-> "EXPIRED",
                           EXECUTING |-> "RECONCILIATION_REQUIRED"],
     adapter_error    |-> [QUOTED |-> "FAILED", PREPARED |-> "FAILED",
                           APPROVED |-> "FAILED",
                           EXECUTING |-> "RECONCILIATION_REQUIRED"],
     receipt_received |-> [EXECUTING |-> "SETTLED",
                           RECONCILIATION_REQUIRED |-> "SETTLED"],
     confirm_settled  |-> [RECONCILIATION_REQUIRED |-> "SETTLED"]]

TERMINAL_STATES == {"SETTLED", "FAILED", "REJECTED", "EXPIRED", "CANCELLED"}

\* transition(current, trigger).ok: a terminal state refuses every trigger, and
\* any other state refuses the triggers the table does not list for it.
TransitionOk(current, trigger) ==
    /\ current \notin TERMINAL_STATES
    /\ current \in DOMAIN TRANSITIONS[trigger]

\* transition(current, trigger).new_state, for a transition that is ok.
NewState(current, trigger) == TRANSITIONS[trigger][current]
==============================================================================
