------------------------ MODULE PaymentContractProofs ------------------------
(***************************************************************************)
(* PaymentOrchestrator implements PaymentContract, for every value of its  *)
(* constants: seen through Phase, every step of the policy engine is a     *)
(* step of the contract or leaves the contract's variables alone.          *)
(*                                                                         *)
(* Phase calls an untracked intent fresh or forgotten by whether its id is *)
(* on disk, and any save writes ALL ids of the store.  So that a save on   *)
(* behalf of one intent does not move another, the proof needs IInv: an    *)
(* untracked intent that the store knows is on disk already.               *)
(***************************************************************************)
EXTENDS PaymentOrchestratorProofs, SequenceTheorems

(***************************************************************************)
(* Phase                                                                   *)
(***************************************************************************)

\* The phase of an intent by the state of its record, before and after a step.
LEMMA PhaseByState ==
    ASSUME NEW i \in Intents
    PROVE  /\ rec[i].state \in {"EXECUTING", "RECONCILIATION_REQUIRED"}
                => Phase(i) = "committed"
           /\ rec[i].state = "SETTLED" => Phase(i) = "settled"
           /\ rec[i].state \in {"FAILED", "REJECTED", "EXPIRED", "CANCELLED"}
                => Phase(i) = "closed"
           /\ rec[i].state = "UNTRACKED"
                => Phase(i) = IF i \in disk.intents THEN "forgotten" ELSE "fresh"
           /\ rec[i].state \in {"DRAFT", "SUBMITTED", "QUOTED", "PREPARED", "APPROVED"}
                => Phase(i) = "open"
BY DEF Phase, TERMINAL_STATES

\* The same of the state after a step.
LEMMA PhaseByNewState ==
    ASSUME NEW i \in Intents
    PROVE  /\ rec'[i].state \in {"EXECUTING", "RECONCILIATION_REQUIRED"}
                => Phase(i)' = "committed"
           /\ rec'[i].state = "SETTLED" => Phase(i)' = "settled"
           /\ rec'[i].state \in {"FAILED", "REJECTED", "EXPIRED", "CANCELLED"}
                => Phase(i)' = "closed"
           /\ rec'[i].state = "UNTRACKED"
                => Phase(i)' = IF i \in disk'.intents THEN "forgotten" ELSE "fresh"
           /\ rec'[i].state \in {"DRAFT", "SUBMITTED", "QUOTED", "PREPARED", "APPROVED"}
                => Phase(i)' = "open"
BY DEF Phase, TERMINAL_STATES

\* Every intent has one of the contract's phases.
LEMMA PhaseType ==
    ASSUME TypeOK, NEW i \in Intents
    PROVE  Phase(i) \in Contract!Phases
<1>1. rec[i].state \in PaymentState \cup {"UNTRACKED"}
  BY DEF TypeOK, Record
<1> QED
  BY <1>1, PhaseByState DEF PaymentState, Contract!Phases

\* An intent whose state a step leaves alone keeps its phase, although the step may
\* have saved the store on behalf of the intents in new.
LEMMA PhaseKept ==
    ASSUME IInv, NEW new, NEW j \in Intents, j \notin new,
           disk' = disk \/ disk' = store',
           store.intents \subseteq store'.intents,
           store'.intents \subseteq store.intents \cup new,
           rec'[j].state = rec[j].state
    PROVE  Phase(j)' = Phase(j)
<1>1. rec[j].state = "UNTRACKED" => (j \in disk'.intents <=> j \in disk.intents)
  BY DEF IInv, IdsAreKnown, Tracked, StoreCoversDisk
<1> QED
  BY <1>1 DEF Phase

(***************************************************************************)
(* Steps                                                                   *)
(***************************************************************************)

\* A step that keeps every phase and calls no adapter is a stutter of the contract.
LEMMA KeepsContract ==
    ASSUME calls' = calls, \A j \in Intents : Phase(j)' = Phase(j)
    PROVE  UNCHANGED Contract!contractVars
BY DEF Contract!contractVars

\* A step that changes the phase of one intent and calls no adapter is a move.
LEMMA MovesContract ==
    ASSUME calls' = calls, NEW i \in Intents,
           \A j \in Intents : j # i => Phase(j)' = Phase(j)
    PROVE  Contract!Move(i, Phase(i), Phase(i)')
BY DEF Contract!Move


\* A step of one intent that keeps the store's ids and calls no adapter: the phase
\* of every other intent is kept.
LEMMA OneIntentMoves ==
    ASSUME IInv, NEW i \in Intents, calls' = calls,
           \A j \in Intents : j # i => rec'[j].state = rec[j].state,
           disk' = disk \/ disk' = store',
           store.intents \subseteq store'.intents,
           store'.intents \subseteq store.intents \cup {i}
    PROVE  /\ Contract!Move(i, Phase(i), Phase(i)')
           /\ Phase(i)' = Phase(i) => UNCHANGED Contract!contractVars
<1>1. \A j \in Intents : j # i => Phase(j)' = Phase(j)
  <2> TAKE j \in Intents
  <2> HAVE j # i
  <2> QED
    BY PhaseKept
<1>2. Contract!Move(i, Phase(i), Phase(i)')
  BY <1>1, MovesContract
<1>3. Phase(i)' = Phase(i) => \A j \in Intents : Phase(j)' = Phase(j)
  BY <1>1
<1> QED
  BY <1>2, <1>3, KeepsContract

\* What the refinement asks of a step.
ContractStep == [Contract!ContractNext]_Contract!contractVars

\* Which moves of one intent are steps of the contract.
LEMMA MovesAllowed ==
    ASSUME NEW i \in Intents, Contract!Move(i, Phase(i), Phase(i)'),
           \/ Phase(i) = "fresh" /\ Phase(i)' = "open"
           \/ Phase(i) = "open" /\ Phase(i)' \in {"closed", "committed"}
           \/ Phase(i) = "committed" /\ Phase(i)' = "settled"
    PROVE  ContractStep
BY DEF ContractStep, Contract!ContractNext, Contract!Accept, Contract!Close,
       Contract!Commit, Contract!Settle

\* A step that changes no state of a record, no file and no store, and calls no
\* adapter.
LEMMA QuietRefines ==
    ASSUME IInv, UNCHANGED <<store, disk, calls>>,
           \A j \in Intents : rec'[j].state = rec[j].state
    PROVE  ContractStep
<1>1. \A j \in Intents : Phase(j)' = Phase(j)
  BY DEF Phase
<1> QED
  BY <1>1, KeepsContract DEF ContractStep

\* A move of one intent that touches neither file nor store.
LEMMA MemoryMoveRefines ==
    ASSUME IInv, UNCHANGED <<store, disk, calls>>, NEW i \in Intents, NEW s,
           rec'[i].state = s,
           \A j \in Intents : j # i => rec'[j].state = rec[j].state,
           \/ /\ rec[i].state \in {"SUBMITTED", "QUOTED", "PREPARED", "APPROVED", "DRAFT"}
              /\ s \in {"QUOTED", "PREPARED", "EXECUTING", "CANCELLED", "REJECTED"}
           \/ rec[i].state = "EXECUTING" /\ s = "RECONCILIATION_REQUIRED"
    PROVE  ContractStep
<1>1. /\ Contract!Move(i, Phase(i), Phase(i)')
      /\ Phase(i)' = Phase(i) => UNCHANGED Contract!contractVars
  BY OneIntentMoves
<1>2. \/ Phase(i) = "open" /\ Phase(i)' \in {"open", "closed", "committed"}
      \/ Phase(i) = "committed" /\ Phase(i)' = "committed"
  BY PhaseByState, PhaseByNewState
<1> QED
  BY <1>1, <1>2, MovesAllowed DEF ContractStep

\* Settling: the receipt is saved and the state follows, or the save fails.
LEMMA SettlingRefines ==
    ASSUME IInv, calls' = calls, NEW i \in Intents, NEW r, NEW io,
           Save([store EXCEPT !.receipts[i] = r], io),
           rec[i].state \in {"EXECUTING", "RECONCILIATION_REQUIRED"},
           \/ rec' = rec
           \/ /\ rec'[i].state = "SETTLED"
              /\ \A j \in Intents : j # i => rec'[j] = rec[j]
    PROVE  ContractStep
<1>1. store'.intents = store.intents /\ (disk' = disk \/ disk' = store')
  BY DEF Save, IInv, TypeOK, Store
<1>2. /\ Contract!Move(i, Phase(i), Phase(i)')
      /\ Phase(i)' = Phase(i) => UNCHANGED Contract!contractVars
  BY <1>1, OneIntentMoves
<1>3. Phase(i) = "committed" /\ Phase(i)' \in {"committed", "settled"}
  BY PhaseByState, PhaseByNewState
<1> QED
  BY <1>2, <1>3, MovesAllowed DEF ContractStep

\* submit accepts a fresh intent: an id the store does not know has no record and is
\* not on disk.
LEMMA SubmitRefines ==
    ASSUME IInv, NEW i \in Intents, NEW io \in IO, Submit(i, io)
    PROVE  ContractStep
<1>1. i \notin store.intents
  BY DEF Submit, HasIntent
<1>2. rec[i].state = "UNTRACKED" /\ i \notin disk.intents
  BY <1>1 DEF IInv, IdsAreKnown, Tracked, StoreCoversDisk
<1>3. /\ rec'[i].state = "SUBMITTED"
      /\ \A j \in Intents : j # i => rec'[j].state = rec[j].state
  BY TransitionTable DEF Submit, IInv, TypeOK, Record, NoRecord
<1>4. /\ store'.intents = store.intents \cup {i}
      /\ disk' = disk \/ disk' = store'
      /\ calls' = calls
  BY DEF Submit, Save, IInv, TypeOK, Store
<1>5. Contract!Move(i, Phase(i), Phase(i)')
  BY <1>3, <1>4, OneIntentMoves
<1>6. Phase(i) = "fresh" /\ Phase(i)' = "open"
  BY <1>2, <1>3, PhaseByState, PhaseByNewState
<1> QED
  BY <1>5, <1>6, MovesAllowed

\* approve leaves the intent open, whether or not the save succeeds.
LEMMA ApproveRefines ==
    ASSUME IInv, NEW i \in Intents, NEW q \in Quotes, NEW h \in Hashes, NEW io \in IO,
           Approve(i, q, h, io)
    PROVE  ContractStep
<1>1. /\ rec[i].state = "PREPARED"
      /\ rec'[i].state \in {"PREPARED", "APPROVED"}
      /\ \A j \in Intents : j # i => rec'[j].state = rec[j].state
  BY TransitionTable DEF Approve, AfterSave, IInv, TypeOK, Record
<1>2. /\ store'.intents = store.intents
      /\ disk' = disk \/ disk' = store'
      /\ calls' = calls
  BY DEF Approve, Save, IInv, TypeOK, Store
<1>3. Phase(i) = "open" /\ Phase(i)' = "open"
  BY <1>1, PhaseByState, PhaseByNewState
<1> QED
  BY <1>1, <1>2, <1>3, OneIntentMoves DEF ContractStep

\* Entering the adapter releases a committed intent, for the first time.
LEMMA AdapterExecuteRefines ==
    ASSUME IInv, NEW i \in Intents, AdapterExecute(i)
    PROVE  ContractStep
<1> DEFINE released == [n \in DOMAIN calls |-> calls[n].intent]
<1>1. /\ rec[i].state = "EXECUTING"
      /\ \A n \in DOMAIN calls : calls[n].intent # i
  BY DEF AdapterExecute, IInv, FrameIsExecuting
<1>2. \A j \in Intents : Phase(j)' = Phase(j)
  BY DEF AdapterExecute, Phase
<1>3. released' = Append(released, i)
  <2> DEFINE call == [intent |-> i, hash |-> rec[i].prepared]
  <2>1. calls' = Append(calls, call) /\ calls \in Seq(Call) /\ call.intent = i
    BY DEF AdapterExecute, IInv, TypeOK
  <2>2. Len(calls) \in Nat /\ DOMAIN calls = 1 .. Len(calls)
    BY <2>1
  <2>3. DOMAIN calls' = 1 .. (Len(calls) + 1)
    BY <2>1
  <2>4. /\ \A n \in DOMAIN calls : calls'[n] = calls[n]
        /\ calls'[Len(calls) + 1] = call
    <3> HIDE DEF call
    <3> QED
      BY <2>1
  <2>5. released \in Seq(Intents)
    <3>1. \A n \in DOMAIN calls : calls[n].intent \in Intents
      BY <2>1, CallType
    <3> QED
      BY <2>2, <3>1
  <2>6. Len(released) = Len(calls)
    BY <2>2, <2>5
  <2>7. /\ released' \in Seq(Intents)
        /\ Len(released') = Len(calls) + 1
    BY <2>2, <2>3, <2>4, <2>1, <2>5
  <2>8. \A n \in 1 .. (Len(calls) + 1) :
          released'[n] = IF n = Len(calls) + 1 THEN i ELSE released[n]
    BY <2>1, <2>2, <2>3, <2>4
  <2> HIDE DEF released
  <2> QED
    BY <2>2, <2>5, <2>6, <2>7, <2>8, AppendProperties, SeqEqual
<1>4. Phase(i) = "committed"
  BY <1>1, PhaseByState
<1> QED
  BY <1>1, <1>2, <1>3, <1>4
  DEF ContractStep, Contract!ContractNext, Contract!Release

\* A crash is the contract's Lose: what was committed is on disk, so it is never
\* fresh again.
LEMMA CrashRefines ==
    ASSUME IInv, TypeOK', Crash
    PROVE  ContractStep
<1>1. /\ \A i \in Intents : rec'[i].state = "UNTRACKED"
      /\ UNCHANGED <<disk, calls>>
  BY DEF Crash, NoRecord
<1>2. ASSUME NEW i \in Intents PROVE Phase(i)' \in Contract!AfterLoss(Phase(i))
  <2>1. Phase(i)' = IF i \in disk.intents THEN "forgotten" ELSE "fresh"
    BY <1>1, PhaseByNewState
  <2>2. CASE rec[i].state \in ApprovedOrLate
    <3>1. i \in disk.intents
      BY <2>2 DEF IInv, ApprovedIsDurable, ApprovedOrLate, Late
    <3>2. Phase(i) \in {"open", "committed", "settled"}
      BY <2>2, PhaseByState DEF ApprovedOrLate, Late
    <3> QED
      BY <2>1, <3>1, <3>2 DEF Contract!AfterLoss
  <2>3. CASE rec[i].state = "UNTRACKED"
    BY <2>1, <2>3, PhaseByState DEF Contract!AfterLoss
  <2>4. CASE rec[i].state \in PaymentState \ ApprovedOrLate
    <3>1. Phase(i) \in {"open", "closed"}
      BY <2>4, PhaseByState DEF PaymentState, ApprovedOrLate, Late
    <3> QED
      BY <2>1, <3>1 DEF Contract!AfterLoss
  <2> QED
    BY <2>2, <2>3, <2>4 DEF IInv, TypeOK, Record
<1>3. \A i \in Intents : Phase(i)' \in Contract!Phases
  BY <1>1, PhaseByNewState DEF Contract!Phases
<1>4. Contract!Lose
  BY <1>1, <1>2, <1>3 DEF Contract!Lose
<1> QED
  BY <1>4 DEF ContractStep, Contract!ContractNext

\* Every step of the policy engine is a step of the contract or a stutter.
LEMMA StepRefines ==
    ASSUME IInv, TypeOK', [Next]_vars
    PROVE  ContractStep
<1> USE DEF IInv, TypeOK
<1>1. ASSUME NEW i \in Intents, NEW io \in IO, NEW ref \in Refs, ExecuteSettled(i, ref, io)
      PROVE  ContractStep
  <2>1. /\ rec[i].state = "EXECUTING"
        /\ NewState(rec[i].state, "settled") = "SETTLED"
    BY <1>1, TransitionTable DEF ExecuteSettled
  <2>2. \/ rec' = rec
        \/ /\ rec'[i].state = "SETTLED"
           /\ \A j \in Intents : j # i => rec'[j] = rec[j]
    BY <1>1, <2>1 DEF ExecuteSettled, AfterSave, Record
  <2> QED
    BY <1>1, <2>1, <2>2, SettlingRefines DEF ExecuteSettled
<1>2. ASSUME NEW i \in Intents, NEW io \in IO, NEW q \in Quotes, NEW amount \in Amounts,
             NEW ref \in Refs, ReceiptConfirmed(i, q, amount, ref, io)
      PROVE  ContractStep
  <2>1. /\ rec[i].state \in {"EXECUTING", "RECONCILIATION_REQUIRED"}
        /\ NewState(rec[i].state, "receipt_received") = "SETTLED"
    BY <1>2, TransitionTable DEF ReceiptConfirmed
  <2>2. \/ rec' = rec
        \/ /\ rec'[i].state = "SETTLED"
           /\ \A j \in Intents : j # i => rec'[j] = rec[j]
    BY <1>2, <2>1 DEF ReceiptConfirmed, AfterSave, Record
  <2> QED
    BY <1>2, <2>1, <2>2, SettlingRefines DEF ReceiptConfirmed
<1>3. ASSUME NEW i \in Intents, NEW io \in IO, ConfirmSettled(i, io)
      PROVE  ContractStep
  <2>1. /\ rec[i].state = "RECONCILIATION_REQUIRED"
        /\ NewState(rec[i].state, "confirm_settled") = "SETTLED"
    BY <1>3, TransitionTable DEF ConfirmSettled
  <2>2. \/ rec' = rec
        \/ /\ rec'[i].state = "SETTLED"
           /\ \A j \in Intents : j # i => rec'[j] = rec[j]
    BY <1>3, <2>1 DEF ConfirmSettled, AfterSave, Record
  <2> QED
    BY <1>3, <2>1, <2>2, SettlingRefines DEF ConfirmSettled
<1>4. ASSUME NEW i \in Intents, NEW io \in LogIO, NEW token \in Tokens, NEW fee \in Fees,
             NEW rail \in Rails, Prepare(i, token, fee, rail, io)
      PROVE  ContractStep
  <2>1. /\ rec[i].state = "QUOTED"
        /\ rec'[i].state = "PREPARED"
        /\ \A j \in Intents : j # i => rec'[j].state = rec[j].state
    BY <1>4, TransitionTable DEF Prepare, Record
  <2> QED
    BY <1>4, <2>1, MemoryMoveRefines DEF Prepare, NoStoreChange
<1>5. ASSUME NEW i \in Intents, NEW io \in LogIO, Execute(i, io) PROVE ContractStep
  <2>1. /\ rec[i].state = "APPROVED"
        /\ rec'[i].state = "EXECUTING"
        /\ \A j \in Intents : j # i => rec'[j].state = rec[j].state
    BY <1>5, TransitionTable DEF Execute, SetState, Record
  <2> QED
    BY <1>5, <2>1, MemoryMoveRefines DEF Execute, NoStoreChange
<1>6. ASSUME NEW i \in Intents, NEW io \in LogIO,
             NEW event \in {"adapter_ambiguous", "adapter_error"},
             ExecuteFailed(i, event, io)
      PROVE  ContractStep
  <2>1. rec[i].state = "EXECUTING"
    BY <1>6 DEF ExecuteFailed, Returning, FrameIsExecuting
  <2>2. /\ rec'[i].state = "RECONCILIATION_REQUIRED"
        /\ \A j \in Intents : j # i => rec'[j].state = rec[j].state
    BY <1>6 DEF ExecuteFailed, AfterFailure, Record
  <2> QED
    BY <1>6, <2>1, <2>2, MemoryMoveRefines DEF ExecuteFailed, NoStoreChange
<1>7. ASSUME NEW i \in Intents, NEW io \in LogIO, Cancel(i, io) PROVE ContractStep
  <2>1. /\ rec[i].state \in {"DRAFT", "SUBMITTED", "QUOTED", "PREPARED"}
        /\ rec'[i].state = "CANCELLED"
        /\ \A j \in Intents : j # i => rec'[j].state = rec[j].state
    BY <1>7, TransitionTable DEF Cancel, SetState, Record
  <2> QED
    BY <1>7, <2>1, MemoryMoveRefines DEF Cancel, NoStoreChange
<1>8. ASSUME NEW i \in Intents, NEW io \in LogIO, Reject(i, io) PROVE ContractStep
  <2>1. /\ rec[i].state \in {"SUBMITTED", "QUOTED", "PREPARED", "APPROVED"}
        /\ rec'[i].state = "REJECTED"
        /\ \A j \in Intents : j # i => rec'[j].state = rec[j].state
    BY <1>8, TransitionTable DEF Reject, SetState, Record
  <2> QED
    BY <1>8, <2>1, MemoryMoveRefines DEF Reject, NoStoreChange
<1>9. ASSUME NEW i \in Intents, NEW io \in LogIO, NEW status \in Statuses,
             ReconcileSettlement(i, status, io)
      PROVE  ContractStep
  BY <1>9, QuietRefines DEF ReconcileSettlement, NoStoreChange, Record
<1>10. ASSUME NEW i \in Intents, NEW io \in LogIO, NEW amount \in Amounts,
              ReceiptMismatch(i, amount, io)
       PROVE  ContractStep
  BY <1>10, QuietRefines DEF ReceiptMismatch, NoStoreChange
<1>11. ASSUME NEW i \in Intents, NEW io \in LogIO, NEW q \in Quotes, NEW amount \in Amounts,
              ReceiptUnverified(i, q, amount, io)
       PROVE  ContractStep
  BY <1>11, QuietRefines DEF ReceiptUnverified, NoStoreChange
<1>12. ASSUME NEW i \in Intents, ExecuteRaised(i) PROVE ContractStep
  BY <1>12, QuietRefines DEF ExecuteRaised
<1>13. ASSUME NEW i \in Intents, IntentStep(i) PROVE ContractStep
  BY <1>1, <1>2, <1>3, <1>4, <1>5, <1>6, <1>7, <1>8, <1>9, <1>10, <1>11, <1>12, <1>13,
     SubmitRefines, ApproveRefines, AdapterExecuteRefines
  DEF IntentStep
<1>14. ASSUME NEW q \in Quotes, NEW io \in LogIO, ReceiveQuote(q, io) PROVE ContractStep
  <2> DEFINE i == QuoteIntent[q]
  <2>1. i \in Intents
    BY QuoteAssumption
  <2>2. /\ rec[i].state = "SUBMITTED"
        /\ rec'[i].state = "QUOTED"
        /\ \A j \in Intents : j # i => rec'[j].state = rec[j].state
    BY <1>14, <2>1, TransitionTable DEF ReceiveQuote, Record
  <2> QED
    BY <1>14, <2>1, <2>2, MemoryMoveRefines DEF ReceiveQuote, NoStoreChange
<1>15. ASSUME NEW q \in Quotes, ReceiveQuoteRefused(q) PROVE ContractStep
  BY <1>15, QuietRefines, QuoteAssumption DEF ReceiveQuoteRefused, Record
<1>16. ASSUME NEW moved, NEW logged, SweepTo(moved, logged),
              \A i \in moved : rec[i].state = "EXECUTING"
       PROVE  ContractStep
  <2>1. ASSUME NEW j \in Intents PROVE Phase(j)' = Phase(j)
    <3>1. CASE j \in moved
      <4>1. rec'[j] = [rec[j] EXCEPT !.state = "RECONCILIATION_REQUIRED"]
        BY <1>16, <3>1, TransitionTable DEF SweepTo
      <4> QED
        BY <1>16, <3>1, <4>1, PhaseByState, PhaseByNewState DEF Record
    <3>2. CASE j \notin moved
      BY <1>16, <3>2 DEF SweepTo, NoStoreChange, Phase
    <3> QED
      BY <3>1, <3>2
  <2> QED
    BY <1>16, <2>1, KeepsContract DEF SweepTo, ContractStep
<1>17. ASSUME NEW checked \in SUBSET Intents, CheckExpired(checked) PROVE ContractStep
  BY <1>16, <1>17 DEF CheckExpired, ExpiredDuringExecution
<1>18. ASSUME NEW checked \in SUBSET Intents, NEW n \in DOMAIN order,
              CheckExpiredLogFails(checked, n)
       PROVE  ContractStep
  <2> DEFINE expired == ExpiredDuringExecution(checked)
             before  == {order[m] : m \in 1 .. (n - 1)}
             moved   == expired \cap (before \cup {order[n]})
             logged  == expired \cap before
  <2>1. SweepTo(moved, logged)
    BY <1>18 DEF CheckExpiredLogFails
  <2>2. \A i \in moved : rec[i].state = "EXECUTING"
    BY DEF ExpiredDuringExecution
  <2> HIDE DEF moved, logged
  <2> QED
    BY <1>16, <2>1, <2>2
<1>19. CASE Tick
  BY <1>19, QuietRefines DEF Tick
<1>20. CASE UNCHANGED vars
  BY <1>20, QuietRefines DEF vars
<1> QED
  BY <1>13, <1>14, <1>15, <1>17, <1>18, <1>19, <1>20, CrashRefines DEF Next

\* THEOREM.  The orchestrator implements the contract: an intent is released to the
\* rail at most once and only when committed, and no crash, failed write or replay
\* gives a committed intent a second life, whatever the intents, quotes and bounds.
THEOREM Refinement == Spec => ImplementsContract
<1>1. Init => Contract!ContractInit
  <2> SUFFICES ASSUME Init PROVE Contract!ContractInit
    OBVIOUS
  <2>1. \A i \in Intents : Phase(i) = "fresh"
    BY PhaseByState DEF Init, NoRecord, EmptyStore
  <2>2. calls = <<>>
    BY DEF Init
  <2> QED
    BY <2>1, <2>2 DEF Contract!ContractInit
<1>2. IInv /\ IInv' /\ [Next]_vars => [Contract!ContractNext]_Contract!contractVars
  BY StepRefines DEF ContractStep, IInv
<1> QED
  BY <1>1, <1>2, Invariance, PTL DEF Spec, ImplementsContract, Contract!ContractSpec
==============================================================================
