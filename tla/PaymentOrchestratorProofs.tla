---------------------- MODULE PaymentOrchestratorProofs ----------------------
(***************************************************************************)
(* Proofs about PaymentOrchestrator, for every value of its constants.     *)
(***************************************************************************)
EXTENDS PaymentOrchestrator, TLAPS

(***************************************************************************)
(* The rows of the transition table that the orchestrator uses.            *)
(***************************************************************************)

\* What each trigger of the state machine requires and where it leads.
LEMMA TransitionTable ==
    ASSUME NEW s
    PROVE  /\ NewState("DRAFT", "submit") = "SUBMITTED"
           /\ TransitionOk(s, "quote_received")
                => s = "SUBMITTED" /\ NewState(s, "quote_received") = "QUOTED"
           /\ TransitionOk(s, "prepared")
                => s = "QUOTED" /\ NewState(s, "prepared") = "PREPARED"
           /\ NewState("PREPARED", "approved") = "APPROVED"
           /\ TransitionOk(s, "executing")
                => s = "APPROVED" /\ NewState(s, "executing") = "EXECUTING"
           /\ TransitionOk(s, "settled")
                => s = "EXECUTING" /\ NewState(s, "settled") = "SETTLED"
           /\ TransitionOk(s, "receipt_received")
                => /\ s \in {"EXECUTING", "RECONCILIATION_REQUIRED"}
                   /\ NewState(s, "receipt_received") = "SETTLED"
           /\ TransitionOk(s, "confirm_settled")
                => /\ s = "RECONCILIATION_REQUIRED"
                   /\ NewState(s, "confirm_settled") = "SETTLED"
           /\ TransitionOk(s, "cancel")
                => /\ s \in {"DRAFT", "SUBMITTED", "QUOTED", "PREPARED"}
                   /\ NewState(s, "cancel") = "CANCELLED"
           /\ TransitionOk(s, "rejected")
                => /\ s \in {"SUBMITTED", "QUOTED", "PREPARED", "APPROVED"}
                   /\ NewState(s, "rejected") = "REJECTED"
           /\ NewState("EXECUTING", "expired") = "RECONCILIATION_REQUIRED"
BY DEF TransitionOk, NewState, TRANSITIONS, TERMINAL_STATES

-----------------------------------------------------------------------------
(***************************************************************************)
(* Type correctness                                                        *)
(***************************************************************************)

\* Saving keeps both copies of the store well typed.
LEMMA SaveType ==
    ASSUME NEW s \in Store, NEW io, disk \in Store, Save(s, io)
    PROVE  store' \in Store /\ disk' \in Store
BY DEF Save

\* Logging adds a well-typed entry or nothing.
LEMMA LogType ==
    ASSUME NEW e \in Events, NEW i \in Intents, NEW io,
           audit \in SUBSET (Events \X Intents), Log(e, i, io)
    PROVE  audit' \in SUBSET (Events \X Intents)
BY DEF Log

\* A failed write is counted within its bound.
LEMMA FaultType ==
    ASSUME NEW io, faults \in 0 .. MaxFaults, Fault(io)
    PROVE  faults' \in 0 .. MaxFaults
BY BoundAssumption DEF Fault

\* Changing only the state of a record keeps it a record.
LEMMA StateType ==
    ASSUME rec \in [Intents -> Record], NEW i \in Intents, NEW s \in PaymentState
    PROVE  [rec EXCEPT ![i].state = s] \in [Intents -> Record]
BY DEF Record

\* A recorded call names an intent.
LEMMA CallType ==
    ASSUME calls \in Seq(Call), NEW n \in DOMAIN calls
    PROVE  calls[n].intent \in Intents
<1>1. calls[n] \in Call
  OBVIOUS
<1> QED
  BY <1>1 DEF Call

\* The initial state is well typed.
LEMMA InitType == Init => TypeOK
BY BoundAssumption DEF Init, TypeOK, NoRecord, Record, EmptyStore, Store, Triples

\* Every step preserves the types.
LEMMA NextType == TypeOK /\ [Next]_vars => TypeOK'
<1> SUFFICES ASSUME TypeOK, [Next]_vars PROVE TypeOK'
    OBVIOUS
<1> USE DEF TypeOK
<1>1. ASSUME NEW i \in Intents, NEW io \in IO, Submit(i, io) PROVE TypeOK'
  <2>1. rec' \in [Intents -> Record]
    BY <1>1, TransitionTable DEF Submit, Record, NoRecord, PaymentState
  <2>2. order' \in Seq(Intents)
    BY <1>1 DEF Submit
  <2>3. [store EXCEPT !.intents = @ \cup {i}] \in Store
    BY <1>1 DEF Store
  <2> QED
    BY <1>1, <2>1, <2>2, <2>3, SaveType, LogType, FaultType DEF Submit, Events
<1>2. ASSUME NEW i \in Intents, NEW io \in IO, NEW q \in Quotes, NEW h \in Hashes,
             Approve(i, q, h, io)
      PROVE TypeOK'
  <2>1. rec' \in [Intents -> Record]
    <3>1. NewState(rec[i].state, "approved") = "APPROVED"
      BY <1>2, TransitionTable DEF Approve
    <3>2. <<q, h>> \in Approvals
      BY DEF Approvals
    <3>3. ASSUME NEW a \in Approvals
          PROVE  [rec EXCEPT ![i].approval = a, ![i].state = "APPROVED"]
                    \in [Intents -> Record]
      <4>1. rec[i] \in Record
        OBVIOUS
      <4>2. [rec[i] EXCEPT !.approval = a, !.state = "APPROVED"] \in Record
        BY <4>1 DEF Record, PaymentState
      <4> QED
        BY <4>2
    <3> QED
      BY <1>2, <3>1, <3>2, <3>3 DEF Approve, AfterSave
  <2>2. <<i, q, h>> \in Triples
    BY <1>2 DEF Triples
  <2>3. [store EXCEPT !.approvals = @ \cup {<<i, q, h>>}] \in Store
    BY <1>2, <2>2 DEF Store
  <2>4. /\ store' \in Store
        /\ disk' \in Store
    BY <1>2, <2>3, SaveType DEF Approve
  <2> QED
    BY <1>2, <2>1, <2>4, LogType, FaultType DEF Approve, Events
<1>3. ASSUME NEW i \in Intents, NEW io \in IO, NEW ref \in Refs, ExecuteSettled(i, ref, io)
      PROVE TypeOK'
  <2>1. rec' \in [Intents -> Record]
    BY <1>3, TransitionTable DEF ExecuteSettled, AfterSave, Record, PaymentState
  <2>2. [store EXCEPT !.receipts[i] = ref] \in Store
    BY <1>3 DEF Store
  <2> QED
    BY <1>3, <2>1, <2>2, SaveType, LogType, FaultType DEF ExecuteSettled, Returning, Events
<1>4. ASSUME NEW i \in Intents, NEW io \in IO, NEW q \in Quotes, NEW amount \in Amounts,
             NEW ref \in Refs, ReceiptConfirmed(i, q, amount, ref, io)
      PROVE TypeOK'
  <2>1. rec' \in [Intents -> Record]
    BY <1>4, TransitionTable DEF ReceiptConfirmed, AfterSave, Record, PaymentState
  <2>2. [store EXCEPT !.receipts[i] = ref] \in Store
    BY <1>4 DEF Store
  <2> QED
    BY <1>4, <2>1, <2>2, SaveType, LogType, FaultType DEF ReceiptConfirmed, Events
<1>5. ASSUME NEW i \in Intents, NEW io \in IO, ConfirmSettled(i, io) PROVE TypeOK'
  <2>1. rec' \in [Intents -> Record]
    BY <1>5, TransitionTable, StateType DEF ConfirmSettled, AfterSave, PaymentState
  <2>2. [store EXCEPT !.receipts[i] = Manual] \in Store
    BY <1>5 DEF Store
  <2> QED
    BY <1>5, <2>1, <2>2, SaveType, LogType, FaultType DEF ConfirmSettled, Events
<1>6. ASSUME NEW i \in Intents, NEW io \in LogIO, NEW token \in Tokens, NEW fee \in Fees,
             NEW rail \in Rails, Prepare(i, token, fee, rail, io)
      PROVE TypeOK'
  <2>1. rec' \in [Intents -> Record]
    <3>1. NewState(rec[i].state, "prepared") = "PREPARED"
      BY <1>6, TransitionTable DEF Prepare
    <3>2. rec[i].quote \in Quotes
      BY <1>6 DEF Prepare, Record
    <3>3. PreparedHash(rec[i].quote, token) \in Hashes
      BY <3>2 DEF PreparedHash, Hashes
    <3>4. ASSUME NEW h \in Hashes
          PROVE  [rec EXCEPT ![i].prepared = h, ![i].state = "PREPARED"]
                    \in [Intents -> Record]
      <4>1. rec[i] \in Record
        OBVIOUS
      <4>2. [rec[i] EXCEPT !.prepared = h, !.state = "PREPARED"] \in Record
        BY <4>1 DEF Record, PaymentState
      <4> QED
        BY <4>2
    <3> QED
      BY <1>6, <3>1, <3>3, <3>4 DEF Prepare
  <2> QED
    BY <1>6, <2>1, LogType, FaultType DEF Prepare, NoStoreChange, Events
<1>7. ASSUME NEW i \in Intents, NEW io \in LogIO, Execute(i, io) PROVE TypeOK'
  <2>1. rec' \in [Intents -> Record]
    BY <1>7, TransitionTable, StateType DEF Execute, SetState, PaymentState
  <2>2. frame' \in Frames \cup {NoFrame}
    BY <1>7 DEF Execute, EnterAdapter, Frames
  <2> QED
    BY <1>7, <2>1, <2>2, LogType, FaultType DEF Execute, NoStoreChange, Events
<1>8. ASSUME NEW i \in Intents, NEW io \in LogIO,
             NEW event \in {"adapter_ambiguous", "adapter_error"},
             ExecuteFailed(i, event, io)
      PROVE TypeOK'
  <2>1. rec' \in [Intents -> Record]
    BY <1>8, StateType DEF ExecuteFailed, AfterFailure, PaymentState
  <2>2. event \in Events
    BY DEF Events
  <2> QED
    BY <1>8, <2>1, <2>2, LogType, FaultType DEF ExecuteFailed, Returning, NoStoreChange
<1>9. ASSUME NEW i \in Intents, NEW io \in LogIO, NEW amount \in Amounts,
             ReceiptMismatch(i, amount, io)
      PROVE TypeOK'
  BY <1>9, LogType, FaultType DEF ReceiptMismatch, NoStoreChange, Events
<1>10. ASSUME NEW i \in Intents, NEW io \in LogIO, NEW q \in Quotes, NEW amount \in Amounts,
              ReceiptUnverified(i, q, amount, io)
       PROVE TypeOK'
  BY <1>10, LogType, FaultType DEF ReceiptUnverified, NoStoreChange, Events
<1>11. ASSUME NEW i \in Intents, NEW io \in LogIO, NEW status \in Statuses,
              ReconcileSettlement(i, status, io)
       PROVE TypeOK'
  <2>1. rec' \in [Intents -> Record]
    <3>1. rec[i] \in Record
      OBVIOUS
    <3>2. [rec[i] EXCEPT !.reconciliation = status] \in Record
      BY <3>1 DEF Record
    <3> QED
      BY <1>11, <3>2 DEF ReconcileSettlement
  <2> QED
    BY <1>11, <2>1, LogType, FaultType DEF ReconcileSettlement, NoStoreChange, Events
<1>12. ASSUME NEW i \in Intents, NEW io \in LogIO, Cancel(i, io) PROVE TypeOK'
  <2>1. rec' \in [Intents -> Record]
    BY <1>12, TransitionTable, StateType DEF Cancel, SetState, PaymentState
  <2> QED
    BY <1>12, <2>1, LogType, FaultType DEF Cancel, NoStoreChange, Events
<1>13. ASSUME NEW i \in Intents, NEW io \in LogIO, Reject(i, io) PROVE TypeOK'
  <2>1. rec' \in [Intents -> Record]
    BY <1>13, TransitionTable, StateType DEF Reject, SetState, PaymentState
  <2> QED
    BY <1>13, <2>1, LogType, FaultType DEF Reject, NoStoreChange, Events
<1>14. ASSUME NEW i \in Intents, AdapterExecute(i) PROVE TypeOK'
  <2>1. rec[i].prepared \in Hashes \cup {None}
    BY DEF Record
  <2>2. [intent |-> i, hash |-> rec[i].prepared] \in Call
    BY <2>1 DEF Call
  <2>3. calls' \in Seq(Call)
    BY <1>14, <2>2 DEF AdapterExecute
  <2> QED
    BY <1>14, <2>3 DEF AdapterExecute, Frames
<1>15. ASSUME NEW i \in Intents, ExecuteRaised(i) PROVE TypeOK'
  BY <1>15 DEF ExecuteRaised, Returning
<1>16. ASSUME NEW q \in Quotes, NEW io \in LogIO, ReceiveQuote(q, io) PROVE TypeOK'
  <2>1. QuoteIntent[q] \in Intents
    BY QuoteAssumption
  <2>2. rec' \in [Intents -> Record]
    <3>1. rec[QuoteIntent[q]] \in Record
      BY <2>1
    <3>2. [rec[QuoteIntent[q]] EXCEPT !.quote = q, !.state = "QUOTED"] \in Record
      BY <3>1 DEF Record, PaymentState
    <3>3. NewState(rec[QuoteIntent[q]].state, "quote_received") = "QUOTED"
      BY <1>16, TransitionTable DEF ReceiveQuote
    <3> QED
      BY <1>16, <2>1, <3>2, <3>3 DEF ReceiveQuote
  <2> QED
    BY <1>16, <2>1, <2>2, LogType, FaultType DEF ReceiveQuote, NoStoreChange, Events
<1>17. ASSUME NEW q \in Quotes, ReceiveQuoteRefused(q) PROVE TypeOK'
  <2>1. QuoteIntent[q] \in Intents
    BY QuoteAssumption
  <2>2. rec' \in [Intents -> Record]
    BY <1>17, <2>1 DEF ReceiveQuoteRefused, Record
  <2> QED
    BY <1>17, <2>2 DEF ReceiveQuoteRefused
<1>18. ASSUME NEW moved \in SUBSET Intents, NEW logged \in SUBSET Intents,
              \A i \in moved : rec[i].state = "EXECUTING",
              SweepTo(moved, logged), faults' \in 0 .. MaxFaults
       PROVE TypeOK'
  <2>1. \A i \in moved : [rec[i] EXCEPT !.state = NewState(@, "expired")] \in Record
    <3> TAKE i \in moved
    <3>1. rec[i] \in Record /\ NewState(rec[i].state, "expired") = "RECONCILIATION_REQUIRED"
      BY <1>18, TransitionTable
    <3> QED
      BY <3>1 DEF Record, PaymentState
  <2>2. rec' \in [Intents -> Record]
    BY <1>18, <2>1 DEF SweepTo
  <2>3. audit' \in SUBSET (Events \X Intents)
    BY <1>18 DEF SweepTo, Events
  <2> QED
    BY <1>18, <2>2, <2>3 DEF SweepTo, NoStoreChange
<1>19. ASSUME NEW checked \in SUBSET Intents, CheckExpired(checked) PROVE TypeOK'
  BY <1>18, <1>19 DEF CheckExpired, ExpiredDuringExecution
<1>20. ASSUME NEW checked \in SUBSET Intents, NEW n \in DOMAIN order,
              CheckExpiredLogFails(checked, n)
       PROVE TypeOK'
  <2> DEFINE expired == ExpiredDuringExecution(checked)
             before  == {order[m] : m \in 1 .. (n - 1)}
  <2>1. /\ SweepTo(expired \cap (before \cup {order[n]}), expired \cap before)
        /\ Fault("log_fails")
    BY <1>20 DEF CheckExpiredLogFails
  <2>2. expired \subseteq Intents /\ \A i \in expired : rec[i].state = "EXECUTING"
    BY DEF ExpiredDuringExecution
  <2>3. faults' \in 0 .. MaxFaults
    BY <2>1, FaultType
  <2> DEFINE moved == expired \cap (before \cup {order[n]})
             logged == expired \cap before
  <2>4. /\ moved \in SUBSET Intents
        /\ logged \in SUBSET Intents
        /\ \A i \in moved : rec[i].state = "EXECUTING"
    BY <2>2
  <2>5. SweepTo(moved, logged)
    BY <2>1
  <2> HIDE DEF moved, logged
  <2> QED
    BY <1>18, <2>3, <2>4, <2>5
<1>21. CASE Crash
  <2>1. NoRecord \in Record
    BY DEF NoRecord, Record
  <2> QED
    BY <1>21, <2>1, FaultType DEF Crash, Loaded
<1>22. CASE Tick
  BY <1>22, BoundAssumption DEF Tick
<1>23. CASE UNCHANGED vars
  BY <1>23 DEF vars
<1>24. ASSUME NEW i \in Intents, IntentStep(i) PROVE TypeOK'
  BY <1>1, <1>2, <1>3, <1>4, <1>5, <1>6, <1>7, <1>8, <1>9, <1>10, <1>11, <1>12, <1>13,
     <1>14, <1>15, <1>24 DEF IntentStep
<1> QED
  BY <1>16, <1>17, <1>19, <1>20, <1>21, <1>22, <1>23, <1>24 DEF Next

\* THEOREM.  Every reachable state of the orchestrator is well typed.
THEOREM TypeCorrect == Spec => []TypeOK
<1>1. Init => TypeOK
  BY InitType
<1>2. TypeOK /\ [Next]_vars => TypeOK'
  BY NextType
<1> QED
  BY <1>1, <1>2, PTL DEF Spec

-----------------------------------------------------------------------------
(***************************************************************************)
(* The inductive invariant.  Every step other than entering the adapter    *)
(* and crashing is "ordinary" in the sense below; that an ordinary step    *)
(* preserves the invariant is proved once.                                 *)
(***************************************************************************)

\* A tracked intent stays tracked; one that becomes tracked is in the store and
\* was not on disk; one the store newly knows is tracked.
OrdinaryTracking ==
    \A i \in Intents :
        /\ rec[i].state # "UNTRACKED" => rec'[i].state # "UNTRACKED"
        /\ rec[i].state = "UNTRACKED" /\ rec'[i].state # "UNTRACKED"
              => i \in store'.intents /\ i \notin disk.intents
        /\ i \in store'.intents /\ i \notin store.intents => rec'[i].state # "UNTRACKED"

\* The store only grows, and the file is left alone or becomes the store.
OrdinaryStore ==
    /\ disk' = disk \/ disk' = store'
    /\ store.intents \subseteq store'.intents
    /\ store.approvals \subseteq store'.approvals
    /\ \A i \in Intents : store.receipts[i] # None => store'.receipts[i] # None

\* An intent becomes approved or settled only with the proof of it on disk, and
\* never leaves the states that follow dispatch.
OrdinaryState ==
    \A i \in Intents :
        /\ rec'[i].state \in ApprovedOrLate
              => \/ /\ rec[i].state \in ApprovedOrLate
                    /\ rec'[i].prepared = rec[i].prepared
                 \/ /\ i \in disk'.intents
                    /\ \E q \in Quotes : <<i, q, rec'[i].prepared>> \in disk'.approvals
        /\ rec[i].state \in Late => rec'[i].state \in Late
        /\ rec'[i].state = "SETTLED" => rec[i].state = "SETTLED" \/ disk'.receipts[i] # None

\* An execute() that is in progress after the step was there before, or starts.
OrdinaryFrame ==
    \A i \in Intents :
        frame'.intent = i
            => /\ rec'[i].state = "EXECUTING"
               /\ \/ frame' = frame
                  \/ /\ <<"executing", i>> \in audit'
                     /\ ~frame'.sent => \A n \in DOMAIN calls : calls[n].intent # i

Ordinary ==
    /\ OrdinaryTracking
    /\ OrdinaryStore
    /\ OrdinaryState
    /\ OrdinaryFrame
    /\ audit \subseteq audit'
    /\ calls' = calls

\* The file only grows in an ordinary step.
LEMMA OrdinaryDisk ==
    ASSUME IInv, OrdinaryStore
    PROVE  /\ disk.intents \subseteq disk'.intents
           /\ disk.approvals \subseteq disk'.approvals
           /\ \A i \in Intents : disk.receipts[i] # None => disk'.receipts[i] # None
BY DEF IInv, StoreCoversDisk, OrdinaryStore

\* An ordinary step preserves the invariant.
LEMMA OrdinaryPreserves ==
    ASSUME IInv, TypeOK', Ordinary
    PROVE  IInv'
<1>1. /\ disk.intents \subseteq disk'.intents
      /\ disk.approvals \subseteq disk'.approvals
      /\ \A i \in Intents : disk.receipts[i] # None => disk'.receipts[i] # None
  BY OrdinaryDisk DEF Ordinary
<1>2. StoreCoversDisk'
  BY DEF IInv, StoreCoversDisk, Ordinary, OrdinaryStore
<1>3. IdsAreKnown'
  BY <1>1 DEF IInv, StoreCoversDisk, IdsAreKnown, Tracked, Ordinary, OrdinaryStore, OrdinaryTracking
<1>4. ApprovedIsDurable'
  BY <1>1 DEF IInv, ApprovedIsDurable, Ordinary, OrdinaryState, ApprovedOrLate, Late
<1>5. DispatchedIsFinal'
  <2>1. \A n \in DOMAIN calls : calls[n].intent \in Intents
    BY CallType DEF IInv, TypeOK
  <2>2. ASSUME NEW n \in DOMAIN calls
        PROVE  /\ calls[n].intent \in disk'.intents
               /\ rec'[calls[n].intent].state \in Late \cup {"UNTRACKED"}
    <3>1. /\ calls[n].intent \in disk.intents
          /\ rec[calls[n].intent].state \in Late \cup {"UNTRACKED"}
      BY DEF IInv, DispatchedIsFinal, Late
    <3> QED
      BY <1>1, <2>1, <3>1 DEF Ordinary, OrdinaryState, OrdinaryTracking
  <2> QED
    BY <2>2 DEF Ordinary, DispatchedIsFinal, Late
<1>6. FrameIsExecuting'
  BY DEF IInv, FrameIsExecuting, Ordinary, OrdinaryFrame
<1>7. DispatchAtMostOnce'
  BY DEF IInv, DispatchAtMostOnce, Ordinary
<1>8. ApprovedBeforeDispatch'
  BY <1>1 DEF IInv, ApprovedBeforeDispatch, Ordinary
<1>9. AuditedBeforeDispatch'
  BY DEF IInv, AuditedBeforeDispatch, Ordinary
<1>10. SettledIsDurable'
  BY <1>1 DEF IInv, SettledIsDurable, Ordinary, OrdinaryState
<1> QED
  BY <1>2, <1>3, <1>4, <1>5, <1>6, <1>7, <1>8, <1>9, <1>10 DEF IInv

\* A step that leaves the store, the file, the calls and the execute() in progress
\* alone is ordinary if it moves intents only before approval, or from EXECUTING
\* to reconciliation while no execute() is in progress.
LEMMA QuietIsOrdinary ==
    ASSUME IInv, UNCHANGED <<store, disk, frame, calls>>, audit \subseteq audit',
           \A i \in Intents :
               \/ rec'[i].state = rec[i].state /\ rec'[i].prepared = rec[i].prepared
               \/ /\ Idle
                  /\ rec[i].state \notin Late \cup {"UNTRACKED"}
                  /\ rec'[i].state \notin ApprovedOrLate \cup {"UNTRACKED"}
               \/ /\ Idle
                  /\ rec[i].state = "EXECUTING"
                  /\ rec'[i].state = "RECONCILIATION_REQUIRED"
                  /\ rec'[i].prepared = rec[i].prepared
    PROVE  Ordinary
<1>1. OrdinaryTracking
  BY DEF OrdinaryTracking, Late
<1>2. OrdinaryStore
  BY DEF OrdinaryStore
<1>3. OrdinaryState
  BY DEF OrdinaryState, Late, ApprovedOrLate
<1>4. OrdinaryFrame
  <2> SUFFICES ASSUME NEW i \in Intents, frame'.intent = i
               PROVE  rec'[i].state = "EXECUTING"
    BY DEF OrdinaryFrame
  <2>1. ~Idle
    BY NoneAssumption DEF Idle, NoFrame
  <2>2. rec[i].state = "EXECUTING"
    BY DEF IInv, FrameIsExecuting
  <2> QED
    BY <2>1, <2>2
<1> QED
  BY <1>1, <1>2, <1>3, <1>4 DEF Ordinary

\* The audit log only grows.
LEMMA LogGrows ==
    ASSUME NEW e, NEW i, NEW io, Log(e, i, io)
    PROVE  audit \subseteq audit'
BY DEF Log

\* Every step except entering the adapter and crashing is ordinary.
LEMMA StepsAreOrdinary ==
    ASSUME IInv
    PROVE  /\ \A i \in Intents, io \in IO : Submit(i, io) => Ordinary
           /\ \A i \in Intents, io \in IO, q \in Quotes, h \in Hashes :
                 Approve(i, q, h, io) => Ordinary
           /\ \A i \in Intents, io \in IO, ref \in Refs : ExecuteSettled(i, ref, io) => Ordinary
           /\ \A i \in Intents, io \in IO, q \in Quotes, amount \in Amounts, ref \in Refs :
                 ReceiptConfirmed(i, q, amount, ref, io) => Ordinary
           /\ \A i \in Intents, io \in IO : ConfirmSettled(i, io) => Ordinary
           /\ \A i \in Intents, io \in LogIO, token \in Tokens, fee \in Fees, rail \in Rails :
                 Prepare(i, token, fee, rail, io) => Ordinary
           /\ \A i \in Intents, io \in LogIO : Execute(i, io) => Ordinary
           /\ \A i \in Intents, io \in LogIO, event \in {"adapter_ambiguous", "adapter_error"} :
                 ExecuteFailed(i, event, io) => Ordinary
           /\ \A i \in Intents, io \in LogIO, amount \in Amounts :
                 ReceiptMismatch(i, amount, io) => Ordinary
           /\ \A i \in Intents, io \in LogIO, q \in Quotes, amount \in Amounts :
                 ReceiptUnverified(i, q, amount, io) => Ordinary
           /\ \A i \in Intents, io \in LogIO, status \in Statuses :
                 ReconcileSettlement(i, status, io) => Ordinary
           /\ \A i \in Intents, io \in LogIO : Cancel(i, io) => Ordinary
           /\ \A i \in Intents, io \in LogIO : Reject(i, io) => Ordinary
           /\ \A i \in Intents : ExecuteRaised(i) => Ordinary
           /\ \A q \in Quotes, io \in LogIO : ReceiveQuote(q, io) => Ordinary
           /\ \A q \in Quotes : ReceiveQuoteRefused(q) => Ordinary
           /\ \A checked \in SUBSET Intents : CheckExpired(checked) => Ordinary
           /\ \A checked \in SUBSET Intents, n \in DOMAIN order :
                 CheckExpiredLogFails(checked, n) => Ordinary
           /\ Tick => Ordinary
           /\ UNCHANGED vars => Ordinary
<1> rec \in [Intents -> Record] /\ store \in Store /\ disk \in Store
  BY DEF IInv, TypeOK
<1>1. ASSUME NEW i \in Intents, NEW io \in IO, Submit(i, io) PROVE Ordinary
  <2>1. /\ rec'[i].state = "SUBMITTED"
        /\ \A j \in Intents : j # i => rec'[j] = rec[j]
    BY <1>1, TransitionTable DEF Submit, NoRecord
  <2>2. /\ store' = [store EXCEPT !.intents = @ \cup {i}]
        /\ disk' = disk \/ disk' = store'
    BY <1>1 DEF Submit, Save
  <2>3. i \notin store.intents /\ i \notin disk.intents /\ rec[i].state = "UNTRACKED"
    BY <1>1 DEF Submit, HasIntent, IInv, StoreCoversDisk, IdsAreKnown, Tracked
  <2>4. frame' = frame /\ frame = NoFrame /\ calls' = calls /\ audit \subseteq audit'
    BY <1>1, LogGrows DEF Submit, Idle
  <2>5. OrdinaryTracking
    BY <2>1, <2>2, <2>3 DEF OrdinaryTracking, Store
  <2>6. OrdinaryStore
    BY <2>2 DEF OrdinaryStore, Store
  <2>7. OrdinaryState
    BY <2>1, <2>3 DEF OrdinaryState, ApprovedOrLate, Late
  <2>8. OrdinaryFrame
    BY <2>4, NoneAssumption DEF OrdinaryFrame, NoFrame
  <2> QED
    BY <2>4, <2>5, <2>6, <2>7, <2>8 DEF Ordinary
<1>2. ASSUME NEW i \in Intents, NEW io \in IO, NEW q \in Quotes, NEW h \in Hashes,
             Approve(i, q, h, io)
      PROVE  Ordinary
  <2>1. rec[i].state = "PREPARED" /\ rec[i].prepared = h
    BY <1>2 DEF Approve
  <2>2. \/ rec' = rec
        \/ /\ io # "save_fails"
           /\ rec'[i].state = "APPROVED"
           /\ rec'[i].prepared = h
           /\ \A j \in Intents : j # i => rec'[j] = rec[j]
    <3>1. NewState(rec[i].state, "approved") = "APPROVED"
      BY <2>1, TransitionTable
    <3>2. ASSUME NEW a, rec' = [rec EXCEPT ![i].approval = a, ![i].state = "APPROVED"]
          PROVE  /\ rec'[i].state = "APPROVED"
                 /\ rec'[i].prepared = h
                 /\ \A j \in Intents : j # i => rec'[j] = rec[j]
      <4>1. /\ rec'[i] = [rec[i] EXCEPT !.approval = a, !.state = "APPROVED"]
            /\ \A j \in Intents : j # i => rec'[j] = rec[j]
        BY <3>2
      <4>2. rec[i] \in Record
        OBVIOUS
      <4> QED
        BY <2>1, <4>1, <4>2 DEF Record
    <3> QED
      BY <1>2, <3>1, <3>2 DEF Approve, AfterSave
  <2>3. /\ store' = [store EXCEPT !.approvals = @ \cup {<<i, q, h>>}]
        /\ disk' = IF io = "save_fails" THEN disk ELSE store'
    BY <1>2 DEF Approve, Save
  <2>4. frame' = frame /\ frame = NoFrame /\ calls' = calls /\ audit \subseteq audit'
    BY <1>2, LogGrows DEF Approve, Idle
  <2>5. OrdinaryTracking
    BY <2>1, <2>2, <2>3 DEF OrdinaryTracking, Store
  <2>6. OrdinaryStore
    BY <2>3 DEF OrdinaryStore, Store
  <2>7. i \in store.intents
    BY <2>1 DEF IInv, IdsAreKnown, Tracked
  <2>8. OrdinaryState
    BY <2>1, <2>2, <2>3, <2>7 DEF OrdinaryState, ApprovedOrLate, Late, Store
  <2>9. OrdinaryFrame
    BY <2>4, NoneAssumption DEF OrdinaryFrame, NoFrame
  <2> QED
    BY <2>4, <2>5, <2>6, <2>8, <2>9 DEF Ordinary
<1>3. ASSUME NEW i \in Intents, NEW io, NEW ref \in Refs \cup {Manual},
             rec[i].state \in {"EXECUTING", "RECONCILIATION_REQUIRED"},
             Save([store EXCEPT !.receipts[i] = ref], io),
             \/ rec' = rec
             \/ /\ io # "save_fails"
                /\ rec'[i].state = "SETTLED"
                /\ rec'[i].prepared = rec[i].prepared
                /\ \A j \in Intents : j # i => rec'[j] = rec[j],
             frame' = NoFrame, calls' = calls, audit \subseteq audit'
      PROVE  Ordinary
  <2>1. /\ store' = [store EXCEPT !.receipts[i] = ref]
        /\ disk' = IF io = "save_fails" THEN disk ELSE store'
        /\ ref # None
    BY <1>3, NoneAssumption DEF Save, Manual
  <2>2. OrdinaryTracking
    BY <1>3, <2>1 DEF OrdinaryTracking, Store
  <2>3. OrdinaryStore
    BY <2>1 DEF OrdinaryStore, Store
  <2>4. OrdinaryState
    <3>1. io # "save_fails" => disk'.receipts[i] # None
      BY <2>1 DEF Store
    <3> QED
      BY <1>3, <3>1 DEF OrdinaryState, ApprovedOrLate, Late
  <2>5. OrdinaryFrame
    BY <1>3, NoneAssumption DEF OrdinaryFrame, NoFrame
  <2> QED
    BY <1>3, <2>2, <2>3, <2>4, <2>5 DEF Ordinary
<1>4. ASSUME NEW i \in Intents, NEW io \in IO, NEW ref \in Refs, ExecuteSettled(i, ref, io)
      PROVE  Ordinary
  <2>1. /\ rec[i].state = "EXECUTING"
        /\ NewState(rec[i].state, "settled") = "SETTLED"
    BY <1>4, TransitionTable DEF ExecuteSettled
  <2>2. \/ rec' = rec
        \/ /\ io # "save_fails"
           /\ rec'[i].state = "SETTLED"
           /\ rec'[i].prepared = rec[i].prepared
           /\ \A j \in Intents : j # i => rec'[j] = rec[j]
    BY <1>4, <2>1 DEF ExecuteSettled, AfterSave, Record
  <2> QED
    BY <1>3, <1>4, <2>1, <2>2, LogGrows DEF ExecuteSettled, Returning
<1>5. ASSUME NEW i \in Intents, NEW io \in IO, NEW q \in Quotes, NEW amount \in Amounts,
             NEW ref \in Refs, ReceiptConfirmed(i, q, amount, ref, io)
      PROVE  Ordinary
  <2>1. /\ rec[i].state \in {"EXECUTING", "RECONCILIATION_REQUIRED"}
        /\ NewState(rec[i].state, "receipt_received") = "SETTLED"
    BY <1>5, TransitionTable DEF ReceiptConfirmed
  <2>2. \/ rec' = rec
        \/ /\ io # "save_fails"
           /\ rec'[i].state = "SETTLED"
           /\ rec'[i].prepared = rec[i].prepared
           /\ \A j \in Intents : j # i => rec'[j] = rec[j]
    BY <1>5, <2>1 DEF ReceiptConfirmed, AfterSave, Record
  <2> QED
    BY <1>3, <1>5, <2>1, <2>2, LogGrows DEF ReceiptConfirmed, ReceiptAdmissible, Idle
<1>6. ASSUME NEW i \in Intents, NEW io \in IO, ConfirmSettled(i, io) PROVE Ordinary
  <2>1. /\ rec[i].state = "RECONCILIATION_REQUIRED"
        /\ NewState(rec[i].state, "confirm_settled") = "SETTLED"
    BY <1>6, TransitionTable DEF ConfirmSettled
  <2>2. \/ rec' = rec
        \/ /\ io # "save_fails"
           /\ rec'[i].state = "SETTLED"
           /\ rec'[i].prepared = rec[i].prepared
           /\ \A j \in Intents : j # i => rec'[j] = rec[j]
    BY <1>6, <2>1 DEF ConfirmSettled, AfterSave, Record
  <2> QED
    BY <1>3, <1>6, <2>1, <2>2, LogGrows DEF ConfirmSettled, Idle
<1>7. ASSUME NEW i \in Intents, NEW io \in LogIO, NEW token \in Tokens, NEW fee \in Fees,
             NEW rail \in Rails, Prepare(i, token, fee, rail, io)
      PROVE  Ordinary
  <2>1. /\ rec[i].state = "QUOTED"
        /\ rec'[i].state = "PREPARED"
        /\ \A j \in Intents : j # i => rec'[j] = rec[j]
    BY <1>7, TransitionTable DEF Prepare, Record
  <2> QED
    BY <1>7, <2>1, QuietIsOrdinary, LogGrows
    DEF Prepare, NoStoreChange, Late, ApprovedOrLate
<1>8. ASSUME NEW i \in Intents, NEW io \in LogIO, Execute(i, io) PROVE Ordinary
  <2>1. /\ rec[i].state = "APPROVED"
        /\ rec'[i].state = "EXECUTING"
        /\ rec'[i].prepared = rec[i].prepared
        /\ \A j \in Intents : j # i => rec'[j] = rec[j]
    BY <1>8, TransitionTable DEF Execute, SetState, Record
  <2>2. /\ UNCHANGED <<store, disk, calls>>
        /\ audit \subseteq audit'
    BY <1>8, LogGrows DEF Execute, NoStoreChange
  <2>3. \A n \in DOMAIN calls : calls[n].intent # i
    BY <2>1 DEF IInv, DispatchedIsFinal
  <2>4. OrdinaryTracking /\ OrdinaryStore /\ OrdinaryState
    BY <2>1, <2>2
    DEF OrdinaryTracking, OrdinaryStore, OrdinaryState, ApprovedOrLate, Late
  <2>5. OrdinaryFrame
    <3>1. CASE io = "ok"
      <4>1. frame'.intent = i /\ <<"executing", i>> \in audit'
        BY <1>8, <3>1 DEF Execute, EnterAdapter, Log
      <4> QED
        BY <2>1, <2>3, <4>1 DEF OrdinaryFrame
    <3>2. CASE io # "ok"
      <4>1. frame'.intent \notin Intents
        BY <1>8, <3>2, NoneAssumption DEF Execute, EnterAdapter, Idle, NoFrame
      <4> QED
        BY <4>1 DEF OrdinaryFrame
    <3> QED
      BY <3>1, <3>2
  <2> QED
    BY <2>2, <2>4, <2>5 DEF Ordinary
<1>9. ASSUME NEW i \in Intents, NEW io \in LogIO,
             NEW event \in {"adapter_ambiguous", "adapter_error"},
             ExecuteFailed(i, event, io)
      PROVE  Ordinary
  <2>1. rec[i].state = "EXECUTING"
    BY <1>9 DEF ExecuteFailed, Returning, IInv, FrameIsExecuting
  <2>2. /\ rec'[i].state = "RECONCILIATION_REQUIRED"
        /\ rec'[i].prepared = rec[i].prepared
        /\ \A j \in Intents : j # i => rec'[j] = rec[j]
    BY <1>9 DEF ExecuteFailed, AfterFailure, Record
  <2>3. /\ UNCHANGED <<store, disk, calls>>
        /\ audit \subseteq audit'
        /\ frame' = NoFrame
    BY <1>9, LogGrows DEF ExecuteFailed, Returning, NoStoreChange
  <2>4. OrdinaryTracking /\ OrdinaryStore /\ OrdinaryState
    BY <2>1, <2>2, <2>3
    DEF OrdinaryTracking, OrdinaryStore, OrdinaryState, ApprovedOrLate, Late
  <2>5. OrdinaryFrame
    BY <2>3, NoneAssumption DEF OrdinaryFrame, NoFrame
  <2> QED
    BY <2>3, <2>4, <2>5 DEF Ordinary
<1>10. ASSUME NEW i \in Intents, NEW io \in LogIO, NEW amount \in Amounts,
              ReceiptMismatch(i, amount, io)
       PROVE  Ordinary
  BY <1>10, QuietIsOrdinary, LogGrows DEF ReceiptMismatch, NoStoreChange
<1>11. ASSUME NEW i \in Intents, NEW io \in LogIO, NEW q \in Quotes, NEW amount \in Amounts,
              ReceiptUnverified(i, q, amount, io)
       PROVE  Ordinary
  BY <1>11, QuietIsOrdinary, LogGrows DEF ReceiptUnverified, NoStoreChange
<1>12. ASSUME NEW i \in Intents, NEW io \in LogIO, NEW status \in Statuses,
              ReconcileSettlement(i, status, io)
       PROVE  Ordinary
  <2>1. \A j \in Intents : /\ rec'[j].state = rec[j].state
                           /\ rec'[j].prepared = rec[j].prepared
    BY <1>12 DEF ReconcileSettlement, Record
  <2> QED
    BY <1>12, <2>1, QuietIsOrdinary, LogGrows DEF ReconcileSettlement, NoStoreChange
<1>13. ASSUME NEW i \in Intents, NEW io \in LogIO, Cancel(i, io) PROVE Ordinary
  <2>1. /\ rec[i].state \in {"DRAFT", "SUBMITTED", "QUOTED", "PREPARED"}
        /\ rec'[i].state = "CANCELLED"
        /\ \A j \in Intents : j # i => rec'[j] = rec[j]
    BY <1>13, TransitionTable DEF Cancel, SetState, Record
  <2> QED
    BY <1>13, <2>1, QuietIsOrdinary, LogGrows
    DEF Cancel, NoStoreChange, Late, ApprovedOrLate
<1>14. ASSUME NEW i \in Intents, NEW io \in LogIO, Reject(i, io) PROVE Ordinary
  <2>1. /\ rec[i].state \in {"SUBMITTED", "QUOTED", "PREPARED", "APPROVED"}
        /\ rec'[i].state = "REJECTED"
        /\ \A j \in Intents : j # i => rec'[j] = rec[j]
    BY <1>14, TransitionTable DEF Reject, SetState, Record
  <2> QED
    BY <1>14, <2>1, QuietIsOrdinary, LogGrows
    DEF Reject, NoStoreChange, Late, ApprovedOrLate
<1>15. ASSUME NEW i \in Intents, ExecuteRaised(i) PROVE Ordinary
  <2>1. OrdinaryTracking /\ OrdinaryStore /\ OrdinaryState
    BY <1>15
    DEF ExecuteRaised, OrdinaryTracking, OrdinaryStore, OrdinaryState
  <2>2. OrdinaryFrame
    BY <1>15, NoneAssumption DEF ExecuteRaised, Returning, OrdinaryFrame, NoFrame
  <2> QED
    BY <1>15, <2>1, <2>2 DEF Ordinary, ExecuteRaised
<1>16. ASSUME NEW q \in Quotes, NEW io \in LogIO, ReceiveQuote(q, io) PROVE Ordinary
  <2> DEFINE i == QuoteIntent[q]
  <2>1. i \in Intents
    BY QuoteAssumption
  <2>2. /\ rec[i].state = "SUBMITTED"
        /\ rec'[i].state = "QUOTED"
        /\ \A j \in Intents : j # i => rec'[j] = rec[j]
    BY <1>16, <2>1, TransitionTable DEF ReceiveQuote, Record
  <2>3. Idle
    BY <1>16 DEF ReceiveQuote, QuoteAdmissible
  <2> QED
    BY <1>16, <2>2, <2>3, QuietIsOrdinary, LogGrows
    DEF ReceiveQuote, NoStoreChange, Late, ApprovedOrLate
<1>17. ASSUME NEW q \in Quotes, ReceiveQuoteRefused(q) PROVE Ordinary
  <2>1. QuoteIntent[q] \in Intents
    BY QuoteAssumption
  <2>2. \A j \in Intents : /\ rec'[j].state = rec[j].state
                           /\ rec'[j].prepared = rec[j].prepared
    BY <1>17, <2>1 DEF ReceiveQuoteRefused, Record
  <2> QED
    BY <1>17, <2>2, QuietIsOrdinary DEF ReceiveQuoteRefused
<1>18. ASSUME NEW moved, NEW logged, SweepTo(moved, logged), Idle,
              \A i \in moved : rec[i].state = "EXECUTING"
       PROVE  Ordinary
  <2>1. \A j \in Intents :
          \/ rec'[j] = rec[j]
          \/ /\ rec[j].state = "EXECUTING"
             /\ rec'[j].state = "RECONCILIATION_REQUIRED"
             /\ rec'[j].prepared = rec[j].prepared
    <3> TAKE j \in Intents
    <3>1. CASE j \in moved
      <4>1. rec'[j] = [rec[j] EXCEPT !.state = NewState(rec[j].state, "expired")]
        BY <1>18, <3>1 DEF SweepTo
      <4> QED
        BY <1>18, <3>1, <4>1, TransitionTable DEF Record
    <3>2. CASE j \notin moved
      BY <1>18, <3>2 DEF SweepTo
    <3> QED
      BY <3>1, <3>2
  <2> QED
    BY <1>18, <2>1, QuietIsOrdinary DEF SweepTo, NoStoreChange
<1>19. ASSUME NEW checked \in SUBSET Intents, CheckExpired(checked) PROVE Ordinary
  BY <1>18, <1>19 DEF CheckExpired, ExpiredDuringExecution
<1>20. ASSUME NEW checked \in SUBSET Intents, NEW n \in DOMAIN order,
              CheckExpiredLogFails(checked, n)
       PROVE  Ordinary
  <2> DEFINE expired == ExpiredDuringExecution(checked)
             before  == {order[m] : m \in 1 .. (n - 1)}
             moved   == expired \cap (before \cup {order[n]})
             logged  == expired \cap before
  <2>1. SweepTo(moved, logged) /\ Idle
    BY <1>20 DEF CheckExpiredLogFails
  <2>2. \A i \in moved : rec[i].state = "EXECUTING"
    BY DEF ExpiredDuringExecution
  <2> HIDE DEF moved, logged
  <2> QED
    BY <1>18, <2>1, <2>2
<1>21. ASSUME Tick PROVE Ordinary
  BY <1>21, QuietIsOrdinary DEF Tick
<1>22. ASSUME UNCHANGED vars PROVE Ordinary
  BY <1>22, QuietIsOrdinary DEF vars
<1> QED
  BY <1>1, <1>2, <1>4, <1>5, <1>6, <1>7, <1>8, <1>9, <1>10, <1>11, <1>12, <1>13, <1>14,
     <1>15, <1>16, <1>17, <1>19, <1>20, <1>21, <1>22

\* Entering the adapter preserves the invariant: the intent was not dispatched.
LEMMA AdapterExecutePreserves ==
    ASSUME IInv, TypeOK', NEW i \in Intents, AdapterExecute(i)
    PROVE  IInv'
<1>1. /\ frame.intent = i /\ ~frame.sent /\ frame'.intent = i /\ frame'.sent
      /\ UNCHANGED <<rec, store, disk, audit>>
  BY DEF AdapterExecute
<1>2. /\ rec[i].state = "EXECUTING"
      /\ <<"executing", i>> \in audit
      /\ \A n \in DOMAIN calls : calls[n].intent # i
  BY <1>1 DEF IInv, FrameIsExecuting
<1>3. /\ i \in disk.intents
      /\ \E q \in Quotes : <<i, q, rec[i].prepared>> \in disk.approvals
  BY <1>2 DEF IInv, ApprovedIsDurable
<1> DEFINE call == [intent |-> i, hash |-> rec[i].prepared]
<1>4. /\ \A n \in DOMAIN calls' :
            \/ n \in DOMAIN calls /\ calls'[n] = calls[n]
            \/ n = Len(calls) + 1 /\ n \notin DOMAIN calls /\ calls'[n] = call
  <2>1. calls' = Append(calls, call) /\ calls \in Seq(Call)
    BY DEF AdapterExecute, IInv, TypeOK
  <2> HIDE DEF call
  <2> QED
    BY <2>1
<1>5. StoreCoversDisk' /\ IdsAreKnown' /\ ApprovedIsDurable' /\ SettledIsDurable'
  BY <1>1
  DEF IInv, StoreCoversDisk, IdsAreKnown, Tracked, ApprovedIsDurable, SettledIsDurable
<1>6. DispatchedIsFinal'
  BY <1>1, <1>2, <1>3, <1>4 DEF IInv, DispatchedIsFinal
<1>7. FrameIsExecuting'
  BY <1>1, <1>2 DEF FrameIsExecuting
<1>8. DispatchAtMostOnce'
  BY <1>2, <1>4 DEF IInv, DispatchAtMostOnce
<1>9. ApprovedBeforeDispatch'
  BY <1>1, <1>3, <1>4 DEF IInv, ApprovedBeforeDispatch
<1>10. AuditedBeforeDispatch'
  BY <1>1, <1>2, <1>4 DEF IInv, AuditedBeforeDispatch
<1> QED
  BY <1>5, <1>6, <1>7, <1>8, <1>9, <1>10 DEF IInv

\* A crash preserves the invariant: what was dispatched stays on disk.
LEMMA CrashPreserves ==
    ASSUME IInv, TypeOK', Crash
    PROVE  IInv'
<1>1. /\ \A i \in Intents : rec'[i].state = "UNTRACKED"
      /\ store' = disk
      /\ UNCHANGED <<disk, audit, calls>>
      /\ frame' = NoFrame
  BY DEF Crash, Loaded, NoRecord
<1>2. StoreCoversDisk' /\ IdsAreKnown' /\ ApprovedIsDurable' /\ SettledIsDurable'
  BY <1>1 DEF StoreCoversDisk, IdsAreKnown, Tracked, ApprovedIsDurable, SettledIsDurable
<1>3. DispatchedIsFinal'
  <2>1. \A n \in DOMAIN calls : calls[n].intent \in Intents
    BY CallType DEF IInv, TypeOK
  <2> QED
    BY <1>1, <2>1 DEF IInv, DispatchedIsFinal
<1>4. FrameIsExecuting'
  BY <1>1, NoneAssumption DEF FrameIsExecuting, NoFrame
<1>5. DispatchAtMostOnce' /\ ApprovedBeforeDispatch' /\ AuditedBeforeDispatch'
  BY <1>1 DEF IInv, DispatchAtMostOnce, ApprovedBeforeDispatch, AuditedBeforeDispatch
<1> QED
  BY <1>2, <1>3, <1>4, <1>5 DEF IInv

\* Every step is ordinary, enters the adapter, or is a crash.
LEMMA StepKinds ==
    ASSUME IInv, [Next]_vars
    PROVE  Ordinary \/ Crash \/ \E i \in Intents : AdapterExecute(i)
BY StepsAreOrdinary DEF Next, IntentStep

\* The initial state satisfies the invariant.
LEMMA InitIInv == Init => IInv
<1> SUFFICES ASSUME Init PROVE IInv
  OBVIOUS
<1>1. TypeOK
  BY InitType
<1>2. /\ \A i \in Intents : rec[i].state = "UNTRACKED"
      /\ store = EmptyStore /\ disk = EmptyStore
      /\ DOMAIN calls = {}
      /\ frame.intent = None
  BY DEF Init, NoRecord, NoFrame
<1> QED
  BY <1>1, <1>2, NoneAssumption
  DEF IInv, StoreCoversDisk, IdsAreKnown, Tracked, ApprovedIsDurable, DispatchedIsFinal,
      FrameIsExecuting, DispatchAtMostOnce, ApprovedBeforeDispatch, AuditedBeforeDispatch,
      SettledIsDurable, EmptyStore

\* THEOREM.  The inductive invariant holds in every reachable state.
THEOREM Invariance == Spec => []IInv
<1>1. Init => IInv
  BY InitIInv
<1>2. IInv /\ [Next]_vars => IInv'
  <2> SUFFICES ASSUME IInv, [Next]_vars PROVE IInv'
    OBVIOUS
  <2>1. TypeOK'
    BY NextType DEF IInv
  <2> QED
    BY <2>1, StepKinds, OrdinaryPreserves, AdapterExecutePreserves, CrashPreserves
<1> QED
  BY <1>1, <1>2, PTL DEF Spec

\* THEOREM.  adapter.execute() is called at most once for an intent, for any number
\* of intents, quotes, crashes and failed writes.
THEOREM DispatchedOnce == Spec => []DispatchAtMostOnce
<1>1. IInv => DispatchAtMostOnce
  BY DEF IInv
<1> QED
  BY <1>1, Invariance, PTL

\* THEOREM.  Every payload handed to the adapter carries a durable approval.
THEOREM DispatchedWithApproval == Spec => []ApprovedBeforeDispatch
<1>1. IInv => ApprovedBeforeDispatch
  BY DEF IInv
<1> QED
  BY <1>1, Invariance, PTL

\* THEOREM.  Every payload handed to the adapter is in the audit log.
THEOREM DispatchedWithAudit == Spec => []AuditedBeforeDispatch
<1>1. IInv => AuditedBeforeDispatch
  BY DEF IInv
<1> QED
  BY <1>1, Invariance, PTL

\* THEOREM.  A settled intent has a receipt binding on disk.
THEOREM SettledDurably == Spec => []SettledIsDurable
<1>1. IInv => SettledIsDurable
  BY DEF IInv
<1> QED
  BY <1>1, Invariance, PTL

\* THEOREM.  An intent closed without payment was never handed to the adapter.
THEOREM ClosedUnpaid == Spec => []ClosedWithoutDispatch
<1>1. IInv => ClosedWithoutDispatch
  BY DEF IInv, DispatchedIsFinal, ClosedWithoutDispatch, TERMINAL_STATES
<1> QED
  BY <1>1, Invariance, PTL

\* THEOREM.  Replay protection on disk only grows.
THEOREM ReplayProtectionGrows == Spec => DiskOnlyGrows
<1> DEFINE Grows == /\ disk.intents \subseteq disk'.intents
                    /\ disk.approvals \subseteq disk'.approvals
                    /\ \A i \in Intents : disk.receipts[i] # None => disk'.receipts[i] # None
<1>1. IInv /\ [Next]_vars => [Grows]_vars
  <2> SUFFICES ASSUME IInv, [Next]_vars PROVE Grows
    OBVIOUS
  <2>1. CASE Ordinary
    BY <2>1, OrdinaryDisk DEF Ordinary
  <2>2. CASE disk' = disk
    BY <2>2
  <2> QED
    BY <2>1, <2>2, StepKinds DEF Crash, AdapterExecute
<1> QED
  BY <1>1, Invariance, PTL DEF Spec, DiskOnlyGrows
==============================================================================
