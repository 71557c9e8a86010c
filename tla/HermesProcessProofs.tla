------------------------- MODULE HermesProcessProofs -------------------------
(***************************************************************************)
(* Proofs about HermesProcess, for every value of its constants.  They     *)
(* rest on what PaymentOrchestratorProofs shows of single calls, and not   *)
(* on its invariant: a process that restarts from its snapshot is not the  *)
(* orchestrator that starts with no records, and does dispatch twice.      *)
(***************************************************************************)
EXTENDS HermesProcess, PaymentOrchestratorProofs, FiniteSetTheorems

(***************************************************************************)
(* Types                                                                   *)
(***************************************************************************)

\* The handler of a command makes a step of the orchestrator.
LEMMA CommandIsNext ==
    ASSUME NEW io \in Outcomes, Command(io)
    PROVE  Next
<1>1. io \in IO
  BY DEF Outcomes, IO
<1>2. PICK i \in Intents :
        \/ SubmitCommand(i, io) \/ QuoteCommand(i, io) \/ PrepareCommand(i, io)
        \/ ApproveCommand(i, io) \/ ExecuteCommand(i, io) \/ ReceiptCommand(i, io)
  BY DEF Command
<1>3. CASE QuoteCommand(i, io)
  BY <1>3 DEF QuoteCommand, HandleQuote, Next
<1>4. CASE ~QuoteCommand(i, io)
  <2>1. IntentStep(i)
    BY <1>1, <1>2, <1>4
    DEF IntentStep, SubmitCommand, PrepareCommand, ApproveCommand, ExecuteCommand,
        ReceiptCommand
  <2> QED
    BY <2>1 DEF Next
<1> QED
  BY <1>3, <1>4

\* So does what follows in an execute() that has begun.
LEMMA ContinueIsNext ==
    ASSUME NEW io \in Outcomes, ContinueExecute(io)
    PROVE  Next
<1>1. io \in IO
  BY DEF Outcomes, IO
<1>2. PICK i \in Intents : ExecuteStep(i, io)
  BY DEF ContinueExecute
<1>3. IntentStep(i)
  BY <1>1, <1>2 DEF IntentStep, ExecuteStep
<1> QED
  BY <1>3 DEF Next

\* A sorted enumeration of intents is a sequence of intents.
LEMMA SortedType ==
    ASSUME NEW ids \in SUBSET Intents, NEW o \in Sorted(ids)
    PROVE  o \in Seq(Intents)
<1>1. Cardinality(ids) \in Nat
  BY FS_Subset, FS_CardinalityType, ProcessAssumption
<1>2. o \in [1 .. Cardinality(ids) -> Intents]
  BY DEF Sorted
<1> QED
  BY <1>1, <1>2

\* A restored record is a record.
LEMMA RestoredType ==
    ASSUME NEW r \in Record, NEW s \in Statuses
    PROVE  Restored(r, s) \in Record
BY DEF Restored, RestoredState, Record, PaymentState

\* The entries of a recovery are entries of the log.
LEMMA RecoveryEntriesType == RecoveryEntries \subseteq Events \X Intents
BY DEF RecoveryEntries, InSnapshot, Events

\* A write that is lost is one of the two.
LEMMA LosingType ==
    ASSUME NEW io, lost \subseteq {"save_fails", "snapshot_fails"}, Losing(io)
    PROVE  lost' \subseteq {"save_fails", "snapshot_fails"}
BY DEF Losing

\* What a recovery restores, all of it or a part, has the types.
LEMMA RestoreType ==
    ASSUME ProcessTypeOK, NEW status \in [Intents -> Statuses], NEW ids \in SUBSET InSnapshot,
           NEW entries \in SUBSET RecoveryEntries, Restore(status, ids, entries)
    PROVE  /\ rec' \in [Intents -> Record]
           /\ order' \in Seq(Intents)
           /\ audit' \subseteq Events \X Intents
<1> USE DEF ProcessTypeOK, TypeOK
<1>1. rec' \in [Intents -> Record]
  BY RestoredType DEF Restore
<1>2. order' \in Seq(Intents)
  <2>1. PICK added \in Sorted(ids \ Tracked) : order' = order \o added
    BY DEF Restore
  <2>2. added \in Seq(Intents)
    BY SortedType DEF InSnapshot
  <2> QED
    BY <2>1, <2>2
<1> QED
  BY <1>1, <1>2, RecoveryEntriesType DEF Restore

\* A recovery that raises has restored a part of the snapshot, and logged a part of it.
LEMMA FailedRestore ==
    ASSUME NEW status, NEW io, RecoverFails(status, io)
    PROVE  \E ids \in SUBSET InSnapshot, entries \in SUBSET RecoveryEntries :
             Restore(status, ids, entries)
<1>1. CASE Restore(status, InSnapshot, RecoveryEntries)
  BY <1>1
<1>2. ASSUME NEW entry \in RecoveryEntries,
             LET ids == RestoredBefore(entry)
             IN  Restore(status, ids, {e \in RecoveryEntries \ {entry} : e[2] \in ids})
      PROVE  \E ids \in SUBSET InSnapshot, entries \in SUBSET RecoveryEntries :
               Restore(status, ids, entries)
  <2>1. RestoredBefore(entry) \subseteq InSnapshot
    BY DEF RestoredBefore
  <2> QED
    BY <1>2, <2>1
<1> QED
  BY <1>1, <1>2 DEF RecoverFails

\* Every step of the process preserves the types.
LEMMA ProcessNextType == ProcessTypeOK /\ [ProcessNext]_processVars => ProcessTypeOK'
<1> SUFFICES ASSUME ProcessTypeOK, [ProcessNext]_processVars PROVE ProcessTypeOK'
  OBVIOUS
<1> USE DEF ProcessTypeOK
<1>1. ASSUME NEW io \in Outcomes, Command(io) PROVE ProcessTypeOK'
  BY <1>1, CommandIsNext, NextType, LosingType DEF Command, HandleLine
<1>2. ASSUME NEW io \in Outcomes, ContinueExecute(io) PROVE ProcessTypeOK'
  BY <1>2, ContinueIsNext, NextType, LosingType DEF ContinueExecute
<1>3. ASSUME CommandWithoutEffect PROVE ProcessTypeOK'
  <2>1. TypeOK'
    BY <1>3, NextType DEF CommandWithoutEffect
  <2> QED
    BY <1>3, <2>1, LosingType DEF CommandWithoutEffect, HandleLine
<1>4. ASSUME Snapshot PROVE ProcessTypeOK'
  <2>1. TypeOK'
    BY <1>4, NextType DEF Snapshot
  <2> QED
    BY <1>4, <2>1 DEF Snapshot, TypeOK
<1>5. ASSUME SnapshotFails PROVE ProcessTypeOK'
  BY <1>5, FaultType, LosingType DEF SnapshotFails, TypeOK
<1>6. ASSUME NEW status \in [Intents -> Statuses], NEW i \in Intents
      PROVE  Restored(snapshot[i], status[i]) \in Record
  BY RestoredType
<1>7. ASSUME NEW status \in [Intents -> Statuses], Restart(status) PROVE ProcessTypeOK'
  <2>1. NoRecord \in Record
    BY DEF NoRecord, Record
  <2>2. rec' \in [Intents -> Record]
    BY <1>6, <1>7, <2>1 DEF Restart
  <2>3. order' \in Seq(Intents)
    BY <1>7, SortedType DEF Restart, InSnapshot
  <2> QED
    BY <1>7, <2>2, <2>3, FaultType, RecoveryEntriesType DEF Restart, Loaded, TypeOK
<1>8. ASSUME NEW status \in [Intents -> Statuses], Recover(status) PROVE ProcessTypeOK'
  BY <1>8, RestoreType DEF Recover, TypeOK
<1>9. ASSUME NEW status \in [Intents -> Statuses], NEW io \in WriteFaults,
             RecoverFails(status, io)
      PROVE  ProcessTypeOK'
  BY <1>9, FailedRestore, RestoreType, FaultType, LosingType DEF RecoverFails, TypeOK
<1>10. ASSUME ProcessTick PROVE ProcessTypeOK'
  BY <1>10, NextType DEF ProcessTick, Next
<1>11. ASSUME UNCHANGED processVars PROVE ProcessTypeOK'
  BY <1>11, NextType DEF processVars
<1> QED
  BY <1>1, <1>2, <1>3, <1>4, <1>5, <1>7, <1>8, <1>9, <1>10, <1>11 DEF ProcessNext

\* The initial state is well typed.
LEMMA ProcessInitType == ProcessInit => ProcessTypeOK
<1>1. NoRecord \in Record
  BY DEF NoRecord, Record
<1> QED
  BY <1>1, InitType DEF ProcessInit, ProcessTypeOK

\* THEOREM.  Every reachable state of the process is well typed, through every
\* restart, recovery, and failed write.
THEOREM ProcessTypeCorrect == ProcessSpec => []ProcessTypeOK
BY ProcessInitType, ProcessNextType, PTL DEF ProcessSpec

-----------------------------------------------------------------------------
(***************************************************************************)
(* What a handler does.  The disjuncts of RecordStep are the moves a       *)
(* command can make with a record; every action is one of them for its own *)
(* intent, and the first for all others.                                   *)
(***************************************************************************)

\* The fields that no move but Submitted and Prepared changes.
Kept(i) ==
    /\ rec'[i].prepared = rec[i].prepared
    /\ rec'[i].reconciliation = rec[i].reconciliation

\* The quote is kept, or is another one of the same intent.
Requoted(i) ==
    \/ rec'[i].quote = rec[i].quote
    \/ rec'[i].quote \in Quotes /\ QuoteIntent[rec'[i].quote] = i

Untouched(i) == rec'[i].state = rec[i].state /\ Kept(i) /\ Requoted(i)

Submitted(i) ==
    /\ i \notin store.intents /\ i \in store'.intents
    /\ rec'[i].state = "SUBMITTED"
    /\ rec'[i].quote = None /\ rec'[i].prepared = None /\ rec'[i].reconciliation = None

Quoted(i) ==
    rec[i].state = "SUBMITTED" /\ rec'[i].state = "QUOTED" /\ Kept(i) /\ Requoted(i)

Prepared(i) ==
    /\ rec[i].state = "QUOTED" /\ rec'[i].state = "PREPARED"
    /\ rec[i].quote \in Quotes /\ rec'[i].quote = rec[i].quote
    /\ rec'[i].prepared \in Hashes /\ rec'[i].prepared[1] = rec[i].quote
    /\ rec'[i].reconciliation = rec[i].reconciliation

Approved(i) ==
    /\ rec[i].state = "PREPARED" /\ rec'[i].state = "APPROVED" /\ Kept(i) /\ Requoted(i)
    /\ \E q \in Quotes : <<i, q, rec[i].prepared>> \in disk'.approvals

Dispatching(i) ==
    rec[i].state = "APPROVED" /\ rec'[i].state = "EXECUTING" /\ Kept(i) /\ Requoted(i)

Failed(i) ==
    /\ rec[i].state = "EXECUTING" /\ rec'[i].state = "RECONCILIATION_REQUIRED"
    /\ Kept(i) /\ Requoted(i)

Settled(i) ==
    /\ rec[i].state \in {"EXECUTING", "RECONCILIATION_REQUIRED"}
    /\ rec'[i].state = "SETTLED" /\ Kept(i) /\ Requoted(i)
    /\ disk'.receipts[i] # None

RecordStep(i) ==
    \/ Untouched(i) \/ Submitted(i) \/ Quoted(i) \/ Prepared(i) \/ Approved(i)
    \/ Dispatching(i) \/ Failed(i) \/ Settled(i)

\* The store grows, and the file follows it unless the save fails.
StoreStep(io) ==
    /\ OrdinaryStore
    /\ io # "save_fails" /\ store = disk => store' = disk'

\* Only a Dispatching intent is handed to the adapter.
FrameStep == \A i \in Intents : frame'.intent = i => Dispatching(i)

Handled(io) ==
    /\ \A i \in Intents : RecordStep(i)
    /\ StoreStep(io)
    /\ FrameStep
    /\ calls' = calls

\* No intent is prepared.
Unprepared == \A i \in Intents : ~Prepared(i)

\* A call that changes the record of one intent and saves nothing.
LEMMA MemoryHandled ==
    ASSUME TypeOK, TypeOK', NEW io, NEW i \in Intents, UNCHANGED <<store, disk, calls>>,
           \A j \in Intents : j # i => rec'[j] = rec[j],
           RecordStep(i),
           frame' = NoFrame \/ (Dispatching(i) /\ frame' = [intent |-> i, sent |-> FALSE])
    PROVE  Handled(io) /\ (~Prepared(i) => Unprepared)
<1>1. \A j \in Intents : RecordStep(j)
  BY DEF RecordStep, Untouched, Kept, Requoted
<1>2. StoreStep(io)
  BY DEF StoreStep, OrdinaryStore
<1>3. FrameStep
  BY NoneAssumption DEF FrameStep, NoFrame
<1>4. ~Prepared(i) => Unprepared
  BY DEF Unprepared, Prepared
<1> QED
  BY <1>1, <1>2, <1>3, <1>4 DEF Handled

\* A call that saves a grown store and changes the record of one intent.
LEMMA SavedHandled ==
    ASSUME TypeOK, TypeOK', NEW io, NEW i \in Intents, NEW s, Save(s, io), frame' = NoFrame,
           store.intents \subseteq s.intents,
           store.approvals \subseteq s.approvals,
           \A j \in Intents : store.receipts[j] # None => s.receipts[j] # None,
           \A j \in Intents : j # i => rec'[j] = rec[j],
           RecordStep(i), calls' = calls
    PROVE  Handled(io) /\ (~Prepared(i) => Unprepared)
<1>1. \A j \in Intents : RecordStep(j)
  BY DEF RecordStep, Untouched, Kept, Requoted
<1>2. StoreStep(io)
  BY DEF StoreStep, OrdinaryStore, Save
<1>3. FrameStep
  BY NoneAssumption DEF FrameStep, NoFrame
<1>4. ~Prepared(i) => Unprepared
  BY DEF Unprepared, Prepared
<1> QED
  BY <1>1, <1>2, <1>3, <1>4 DEF Handled

\* submit.  Of all commands, only prepare prepares.
LEMMA SubmitHandled ==
    ASSUME TypeOK, TypeOK', NEW i \in Intents, NEW io \in IO, Submit(i, io)
    PROVE  Handled(io) /\ Unprepared
<1>1. /\ rec'[i] = [NoRecord EXCEPT !.state = "SUBMITTED"]
      /\ \A j \in Intents : j # i => rec'[j] = rec[j]
  BY TransitionTable DEF Submit, TypeOK
<1> DEFINE s == [store EXCEPT !.intents = @ \cup {i}]
<1>2. /\ s.intents = store.intents \cup {i}
      /\ s.approvals = store.approvals
      /\ s.receipts = store.receipts
  BY DEF TypeOK, Store
<1>3. Save(s, io) /\ frame' = NoFrame /\ calls' = calls /\ i \notin store.intents
  BY DEF Submit, Idle, HasIntent
<1> HIDE DEF s
<1>4. RecordStep(i) /\ ~Prepared(i)
  <2>1. i \in store'.intents
    BY <1>2, <1>3 DEF Save
  <2> QED
    BY <1>1, <1>3, <2>1 DEF RecordStep, Submitted, Prepared, NoRecord
<1> QED
  BY <1>1, <1>2, <1>3, <1>4, SavedHandled

\* receive_quote, accepted or refused.
LEMMA QuoteHandled ==
    ASSUME TypeOK, TypeOK', NEW q \in Quotes, NEW io, HandleQuote(q, io)
    PROVE  Handled(io) /\ Unprepared
<1> DEFINE i == QuoteIntent[q]
<1>1. i \in Intents
  BY QuoteAssumption
<1>2. rec[i] \in Record
  BY <1>1 DEF TypeOK
<1>3. CASE ReceiveQuote(q, io)
  <2>1. rec[i].state = "SUBMITTED" /\ NewState(rec[i].state, "quote_received") = "QUOTED"
    BY <1>3, TransitionTable DEF ReceiveQuote
  <2>2. /\ rec'[i] = [rec[i] EXCEPT !.quote = q, !.state = "QUOTED"]
        /\ \A j \in Intents : j # i => rec'[j] = rec[j]
    BY <1>1, <1>3, <2>1 DEF ReceiveQuote, TypeOK
  <2>3. Quoted(i) /\ ~Prepared(i)
    BY <1>2, <2>1, <2>2 DEF Quoted, Prepared, Kept, Requoted, Record
  <2> HIDE DEF i
  <2> QED
    BY <1>1, <1>3, <2>2, <2>3, MemoryHandled
    DEF ReceiveQuote, QuoteAdmissible, Idle, NoStoreChange, RecordStep
<1>4. CASE ReceiveQuoteRefused(q)
  <2>1. /\ rec'[i] = [rec[i] EXCEPT !.quote = q]
        /\ \A j \in Intents : j # i => rec'[j] = rec[j]
    BY <1>1, <1>4 DEF ReceiveQuoteRefused, TypeOK
  <2>2. Untouched(i) /\ ~Prepared(i)
    BY <1>2, <2>1 DEF Untouched, Prepared, Kept, Requoted, Record
  <2> HIDE DEF i
  <2> QED
    BY <1>1, <1>4, <2>1, <2>2, MemoryHandled
    DEF ReceiveQuoteRefused, QuoteAdmissible, Idle, RecordStep
<1> QED
  BY <1>3, <1>4 DEF HandleQuote

\* prepare.
LEMMA PrepareHandled ==
    ASSUME TypeOK, TypeOK', NEW i \in Intents, NEW token \in Tokens, NEW fee, NEW rail, NEW io,
           Prepare(i, token, fee, rail, io)
    PROVE  /\ Handled(io)
           /\ Prepared(i)
           /\ rec'[i].prepared = <<rec[i].quote, token>>
           /\ \A j \in Intents : j # i => rec'[j] = rec[j]
<1>1. rec[i] \in Record /\ rec[i].quote \in Quotes
  BY DEF Prepare, TypeOK, Record
<1>2. rec[i].state = "QUOTED" /\ NewState(rec[i].state, "prepared") = "PREPARED"
  BY TransitionTable DEF Prepare
<1>3. /\ rec'[i] = [rec[i] EXCEPT !.prepared = <<rec[i].quote, token>>, !.state = "PREPARED"]
      /\ \A j \in Intents : j # i => rec'[j] = rec[j]
  BY <1>2 DEF Prepare, PreparedHash, TypeOK
<1>4. /\ rec'[i].prepared = <<rec[i].quote, token>>
      /\ rec'[i].state = "PREPARED"
      /\ rec'[i].quote = rec[i].quote
      /\ rec'[i].reconciliation = rec[i].reconciliation
  BY <1>1, <1>3 DEF Record
<1>5. Prepared(i)
  BY <1>1, <1>2, <1>4 DEF Prepared, Hashes
<1> QED
  BY <1>3, <1>4, <1>5, MemoryHandled DEF Prepare, Idle, NoStoreChange, RecordStep

\* approve.
LEMMA ApproveHandled ==
    ASSUME TypeOK, TypeOK', NEW i \in Intents, NEW q \in Quotes, NEW h \in Hashes,
           NEW io \in IO, Approve(i, q, h, io)
    PROVE  Handled(io) /\ Unprepared
<1> DEFINE s == [store EXCEPT !.approvals = @ \cup {<<i, q, h>>}]
<1>1. /\ s.intents = store.intents
      /\ s.approvals = store.approvals \cup {<<i, q, h>>}
      /\ s.receipts = store.receipts
  BY DEF TypeOK, Store
<1>2. /\ Save(s, io) /\ frame' = NoFrame /\ calls' = calls
      /\ rec[i].state = "PREPARED" /\ rec[i].prepared = h
  BY DEF Approve, Idle
<1> HIDE DEF s
<1>3. rec[i] \in Record
  BY DEF TypeOK
<1>4. CASE io = "save_fails"
  <2>1. rec' = rec
    BY <1>4 DEF Approve, AfterSave
  <2>2. RecordStep(i) /\ ~Prepared(i)
    BY <2>1 DEF RecordStep, Untouched, Prepared, Kept, Requoted
  <2> QED
    BY <1>1, <1>2, <2>1, <2>2, SavedHandled
<1>5. CASE io # "save_fails"
  <2>1. /\ rec'[i] = [rec[i] EXCEPT !.approval = <<q, h>>, !.state = "APPROVED"]
        /\ \A j \in Intents : j # i => rec'[j] = rec[j]
    <3>1. NewState(rec[i].state, "approved") = "APPROVED"
      BY <1>2, TransitionTable
    <3> QED
      BY <1>5, <3>1 DEF Approve, AfterSave, TypeOK
  <2>2. /\ rec'[i].state = "APPROVED"
        /\ Kept(i) /\ Requoted(i)
    BY <1>3, <2>1 DEF Kept, Requoted, Record
  <2>3. <<i, q, h>> \in disk'.approvals
    BY <1>1, <1>2, <1>5 DEF Save
  <2>4. RecordStep(i) /\ ~Prepared(i)
    BY <1>2, <2>2, <2>3 DEF RecordStep, Approved, Prepared
  <2> QED
    BY <1>1, <1>2, <2>1, <2>4, SavedHandled
<1> QED
  BY <1>4, <1>5

\* execute, up to the adapter.
LEMMA ExecuteHandled ==
    ASSUME TypeOK, TypeOK', NEW i \in Intents, NEW io, Execute(i, io)
    PROVE  Handled(io) /\ Unprepared
<1>1. rec[i] \in Record /\ rec[i].state = "APPROVED"
  BY TransitionTable DEF Execute, TypeOK
<1>2. /\ rec'[i] = [rec[i] EXCEPT !.state = "EXECUTING"]
      /\ \A j \in Intents : j # i => rec'[j] = rec[j]
  BY TransitionTable DEF Execute, SetState, TypeOK
<1>3. Dispatching(i) /\ ~Prepared(i)
  BY <1>1, <1>2 DEF Dispatching, Prepared, Kept, Requoted, Record
<1>4. frame' = NoFrame \/ frame' = [intent |-> i, sent |-> FALSE]
  BY DEF Execute, EnterAdapter, Idle
<1> QED
  BY <1>2, <1>3, <1>4, MemoryHandled DEF Execute, NoStoreChange, RecordStep

\* What settling leaves alone in a record.
LEMMA SettledFields ==
    ASSUME NEW i \in Intents, rec[i] \in Record, NEW ref,
           rec'[i] = [rec[i] EXCEPT !.receipt = ref, !.state = "SETTLED"]
    PROVE  rec'[i].state = "SETTLED" /\ Kept(i) /\ Requoted(i)
BY DEF Record, Kept, Requoted

\* Settling with a receipt: by execute() or by receive_receipt.
LEMMA SettlingHandled ==
    ASSUME TypeOK, TypeOK', NEW i \in Intents, NEW ref \in Refs, NEW io, frame' = NoFrame,
           Save([store EXCEPT !.receipts[i] = ref], io), calls' = calls,
           rec[i].state \in {"EXECUTING", "RECONCILIATION_REQUIRED"},
           rec' = AfterSave(io, [rec EXCEPT ![i].receipt = ref, ![i].state = "SETTLED"])
    PROVE  Handled(io) /\ Unprepared
<1> DEFINE s == [store EXCEPT !.receipts[i] = ref]
<1>1. /\ s.intents = store.intents
      /\ s.approvals = store.approvals
      /\ s.receipts = [store.receipts EXCEPT ![i] = ref]
  BY DEF TypeOK, Store
<1>2. /\ s.receipts[i] = ref
      /\ \A j \in Intents : store.receipts[j] # None => s.receipts[j] # None
  BY <1>1, NoneAssumption DEF TypeOK, Store
<1>3. Save(s, io)
  OBVIOUS
<1> HIDE DEF s
<1>4. rec[i] \in Record
  BY DEF TypeOK
<1>5. CASE io = "save_fails"
  <2>1. rec' = rec
    BY <1>5 DEF AfterSave
  <2>2. RecordStep(i) /\ ~Prepared(i)
    BY <2>1 DEF RecordStep, Untouched, Prepared, Kept, Requoted
  <2> QED
    BY <1>1, <1>2, <1>3, <2>1, <2>2, SavedHandled
<1>6. CASE io # "save_fails"
  <2>1. /\ rec'[i] = [rec[i] EXCEPT !.receipt = ref, !.state = "SETTLED"]
        /\ \A j \in Intents : j # i => rec'[j] = rec[j]
    BY <1>6 DEF AfterSave, TypeOK
  <2>2. disk'.receipts[i] # None
    BY <1>2, <1>3, <1>6, NoneAssumption DEF Save
  <2>3. rec'[i].state = "SETTLED" /\ Kept(i) /\ Requoted(i)
    BY <1>4, <2>1, SettledFields
  <2>4. RecordStep(i) /\ ~Prepared(i)
    BY <2>2, <2>3 DEF RecordStep, Settled, Prepared
  <2> QED
    BY <1>1, <1>2, <1>3, <2>1, <2>4, SavedHandled
<1> QED
  BY <1>5, <1>6

\* receive_receipt, verified.
LEMMA ReceiptHandled ==
    ASSUME TypeOK, TypeOK', NEW i \in Intents, NEW q, NEW amount, NEW ref \in Refs, NEW io,
           ReceiptConfirmed(i, q, amount, ref, io)
    PROVE  Handled(io) /\ Unprepared
<1>1. /\ rec[i].state \in {"EXECUTING", "RECONCILIATION_REQUIRED"}
      /\ NewState(rec[i].state, "receipt_received") = "SETTLED"
  BY TransitionTable DEF ReceiptConfirmed
<1>2. rec' = AfterSave(io, [rec EXCEPT ![i].receipt = ref, ![i].state = "SETTLED"])
  BY <1>1 DEF ReceiptConfirmed
<1> QED
  BY <1>1, <1>2, SettlingHandled DEF ReceiptConfirmed, ReceiptAdmissible, Idle

\* receive_receipt, refused.
LEMMA ReceiptRefusedHandled ==
    ASSUME TypeOK, TypeOK', NEW i \in Intents, NEW q, NEW amount, NEW io,
           ReceiptMismatch(i, amount, io) \/ ReceiptUnverified(i, q, amount, io)
    PROVE  Handled(io) /\ Unprepared
<1>1. /\ UNCHANGED <<rec, store, disk, calls>>
      /\ frame' = NoFrame
  BY DEF ReceiptMismatch, ReceiptUnverified, ReceiptAdmissible, Idle, NoStoreChange
<1>2. RecordStep(i) /\ ~Prepared(i)
  BY <1>1 DEF RecordStep, Untouched, Prepared, Kept, Requoted
<1> QED
  BY <1>1, <1>2, MemoryHandled

\* execute() after the adapter.
LEMMA ReturnHandled ==
    ASSUME TypeOK, TypeOK', NEW i \in Intents, NEW io,
           frame.intent = i => rec[i].state = "EXECUTING",
           \/ \E ref \in Refs : ExecuteSettled(i, ref, io)
           \/ \E event : ExecuteFailed(i, event, io)
           \/ ExecuteRaised(i)
    PROVE  Handled(io) /\ Unprepared
<1>1. CASE \E ref \in Refs : ExecuteSettled(i, ref, io)
  <2>1. PICK ref \in Refs : ExecuteSettled(i, ref, io)
    BY <1>1
  <2>2. rec[i].state = "EXECUTING" /\ NewState(rec[i].state, "settled") = "SETTLED"
    BY <2>1, TransitionTable DEF ExecuteSettled
  <2>3. rec' = AfterSave(io, [rec EXCEPT ![i].receipt = ref, ![i].state = "SETTLED"])
    BY <2>1, <2>2 DEF ExecuteSettled
  <2> QED
    BY <2>1, <2>2, <2>3, SettlingHandled DEF ExecuteSettled, Returning
<1>2. CASE \E event : ExecuteFailed(i, event, io)
  <2>1. PICK event : ExecuteFailed(i, event, io)
    BY <1>2
  <2>2. rec[i].state = "EXECUTING"
    BY <2>1 DEF ExecuteFailed, Returning
  <2>3. /\ rec'[i] = [rec[i] EXCEPT !.state = "RECONCILIATION_REQUIRED"]
        /\ \A j \in Intents : j # i => rec'[j] = rec[j]
    BY <2>1 DEF ExecuteFailed, AfterFailure, TypeOK
  <2>4. rec[i] \in Record
    BY DEF TypeOK
  <2>5. RecordStep(i) /\ ~Prepared(i)
    BY <2>2, <2>3, <2>4 DEF RecordStep, Failed, Prepared, Kept, Requoted, Record
  <2> QED
    BY <2>1, <2>3, <2>5, MemoryHandled DEF ExecuteFailed, Returning, NoStoreChange
<1>3. CASE ExecuteRaised(i)
  <2>1. RecordStep(i) /\ ~Prepared(i)
    BY <1>3 DEF ExecuteRaised, RecordStep, Untouched, Prepared, Kept, Requoted
  <2> QED
    BY <1>3, <2>1, MemoryHandled DEF ExecuteRaised, Returning
<1> QED
  BY <1>1, <1>2, <1>3

\* Every command is handled so.
LEMMA CommandHandled ==
    ASSUME TypeOK, TypeOK', NEW io \in Outcomes, Command(io)
    PROVE  Handled(io)
<1>1. io \in IO
  BY DEF Outcomes, IO
<1>2. PICK i \in Intents :
        \/ SubmitCommand(i, io) \/ QuoteCommand(i, io) \/ PrepareCommand(i, io)
        \/ ApproveCommand(i, io) \/ ExecuteCommand(i, io) \/ ReceiptCommand(i, io)
  BY DEF Command
<1>3. CASE SubmitCommand(i, io)
  BY <1>1, <1>3, SubmitHandled DEF SubmitCommand
<1>4. CASE QuoteCommand(i, io)
  BY <1>4, QuoteHandled DEF QuoteCommand
<1>5. CASE PrepareCommand(i, io)
  BY <1>5, PrepareHandled DEF PrepareCommand
<1>6. CASE ApproveCommand(i, io)
  BY <1>1, <1>6, ApproveHandled DEF ApproveCommand
<1>7. CASE ExecuteCommand(i, io)
  BY <1>7, ExecuteHandled DEF ExecuteCommand
<1>8. CASE ReceiptCommand(i, io)
  BY <1>8, ReceiptHandled, ReceiptRefusedHandled DEF ReceiptCommand
<1> QED
  BY <1>2, <1>3, <1>4, <1>5, <1>6, <1>7, <1>8

\* So is the rest of execute(), except for the step into the adapter.
LEMMA ContinueHandled ==
    ASSUME TypeOK, TypeOK', ExecutingInHandler, NEW io \in Outcomes, ContinueExecute(io)
    PROVE  \/ Handled(io) /\ frame' = NoFrame /\ dirty
           \/ io = "ok" /\ \E i \in Intents : AdapterExecute(i)
<1>1. PICK i \in Intents : ExecuteStep(i, io)
  BY DEF ContinueExecute
<1>2. CASE AdapterExecute(i) /\ io = "ok"
  BY <1>2
<1>3. CASE \/ \E ref \in Refs : ExecuteSettled(i, ref, io)
           \/ \E event : ExecuteFailed(i, event, io)
           \/ ExecuteRaised(i)
  <2>1. frame.intent = i /\ frame' = NoFrame
    <3>1. Returning(i)
      BY <1>3 DEF ExecuteSettled, ExecuteFailed, ExecuteRaised
    <3> QED
      BY <3>1 DEF Returning
  <2>2. rec[i].state = "EXECUTING" /\ dirty
    BY <2>1 DEF ExecutingInHandler
  <2>3. Handled(io)
    BY <1>3, <2>2, ReturnHandled
  <2> QED
    BY <2>1, <2>2, <2>3
<1> QED
  BY <1>1, <1>2, <1>3 DEF ExecuteStep

-----------------------------------------------------------------------------
(***************************************************************************)
(* The inductive invariant                                                 *)
(***************************************************************************)

\* The file only grows when a command is handled.
LEMMA HandledDisk ==
    ASSUME StoreCoversDisk, NEW io, StoreStep(io)
    PROVE  /\ disk.intents \subseteq disk'.intents
           /\ disk.approvals \subseteq disk'.approvals
           /\ \A i \in Intents : disk.receipts[i] # None => disk'.receipts[i] # None
           /\ StoreCoversDisk'
BY DEF StoreCoversDisk, StoreStep, OrdinaryStore

\* What the moves of a record have in common.
LEMMA RecordStepFacts ==
    ASSUME NEW i \in Intents, RecordStep(i)
    PROVE  /\ rec'[i].state \in ApprovedOrLate
                => \/ rec[i].state \in ApprovedOrLate /\ rec'[i].prepared = rec[i].prepared
                   \/ \E q \in Quotes : <<i, q, rec'[i].prepared>> \in disk'.approvals
           /\ rec'[i].state = "SETTLED" => rec[i].state = "SETTLED" \/ disk'.receipts[i] # None
           /\ i \in store.intents /\ rec[i].state \in Late => rec'[i].state \in Late
           /\ i \in store.intents /\ rec[i].state \in ApprovedOrLate
                => rec'[i].state \in ApprovedOrLate /\ rec'[i].prepared = rec[i].prepared
           /\ rec'[i].state # "UNTRACKED" => rec[i].state # "UNTRACKED" \/ i \in store'.intents
BY DEF RecordStep, Untouched, Submitted, Quoted, Prepared, Approved, Dispatching, Failed,
       Settled, Kept, ApprovedOrLate, Late

\* Handling a command preserves the invariant.
LEMMA HandledPreserves ==
    ASSUME ProcessIInv, ProcessTypeOK', NEW io, Handled(io), Losing(io),
           snapshot' = snapshot, dirty' = TRUE, ~dirty \/ frame' = NoFrame
    PROVE  ProcessIInv'
<1> USE DEF ProcessIInv
<1>1. StoreStep(io) /\ FrameStep /\ calls' = calls /\ \A i \in Intents : RecordStep(i)
  BY DEF Handled
<1>2. /\ disk.approvals \subseteq disk'.approvals
      /\ \A i \in Intents : disk.receipts[i] # None => disk'.receipts[i] # None
      /\ StoreCoversDisk'
  BY <1>1, HandledDisk
<1>3. store.intents \subseteq store'.intents
  BY <1>1 DEF StoreStep, OrdinaryStore
<1>4. Backed(rec)'
  <2> SUFFICES ASSUME NEW i \in Intents
               PROVE  /\ rec'[i].state \in ApprovedOrLate
                           => \E q \in Quotes : <<i, q, rec'[i].prepared>> \in disk'.approvals
                      /\ rec'[i].state = "SETTLED" => disk'.receipts[i] # None
    BY DEF Backed
  <2> QED
    BY <1>1, <1>2, RecordStepFacts DEF Backed
<1>5. Backed(snapshot)'
  BY <1>2 DEF Backed
<1>6. ExecutingInHandler'
  BY <1>1 DEF ExecutingInHandler, FrameStep, Dispatching
<1>7. ApprovedBeforeDispatch'
  BY <1>1, <1>2 DEF ApprovedBeforeDispatch
<1>8. SavesAreComplete'
  <2> SUFFICES ASSUME "save_fails" \notin lost'
               PROVE  /\ store' = disk'
                      /\ \A i \in Intents :
                           /\ i \in Tracked' \cup InSnapshot' => i \in store'.intents
                           /\ snapshot'[i].state \in Late => rec'[i].state \in Late
    BY DEF SavesAreComplete
  <2>1. "save_fails" \notin lost /\ io # "save_fails"
    BY DEF Losing
  <2>2. store' = disk'
    BY <1>1, <2>1 DEF StoreStep, SavesAreComplete
  <2>3. ASSUME NEW i \in Intents, i \in Tracked' \cup InSnapshot'
        PROVE  i \in store'.intents
    BY <1>1, <1>3, <2>1, <2>3, RecordStepFacts DEF SavesAreComplete, Tracked, InSnapshot
  <2>4. ASSUME NEW i \in Intents, snapshot'[i].state \in Late PROVE rec'[i].state \in Late
    <3>1. i \in store.intents /\ rec[i].state \in Late
      BY <2>1, <2>4 DEF SavesAreComplete, InSnapshot, Late
    <3> QED
      BY <1>1, <3>1, RecordStepFacts
  <2> QED
    BY <2>2, <2>3, <2>4
<1>9. SnapshotsAreComplete'
  <2> SUFFICES ASSUME lost' = {}
               PROVE  /\ \A i \in Intents :
                           frame'.intent = i => /\ snapshot'[i].state = "APPROVED"
                                                /\ snapshot'[i].prepared = rec'[i].prepared
                      /\ \A n \in DOMAIN calls' : \A records \in {rec', snapshot'} :
                           /\ records[calls'[n].intent].state \in ApprovedOrLate
                           /\ records[calls'[n].intent].prepared = calls'[n].hash
    BY DEF SnapshotsAreComplete
  <2>1. lost = {}
    BY DEF Losing
  <2>2. ASSUME NEW i \in Intents, frame'.intent = i
        PROVE  snapshot'[i].state = "APPROVED" /\ snapshot'[i].prepared = rec'[i].prepared
    <3>1. ~dirty
      BY <2>2, NoneAssumption DEF NoFrame
    <3>2. snapshot = rec
      BY <2>1, <3>1 DEF SnapshotsAreComplete
    <3> QED
      BY <1>1, <2>2, <3>2 DEF FrameStep, Dispatching, Kept
  <2>3. ASSUME NEW n \in DOMAIN calls
        PROVE  /\ rec'[calls[n].intent].state \in ApprovedOrLate
               /\ rec'[calls[n].intent].prepared = calls[n].hash
               /\ snapshot[calls[n].intent].state \in ApprovedOrLate
               /\ snapshot[calls[n].intent].prepared = calls[n].hash
    <3> DEFINE i == calls[n].intent
    <3>1. i \in Intents
      BY CallType DEF ProcessTypeOK, TypeOK
    <3>2. /\ rec[i].state \in ApprovedOrLate /\ rec[i].prepared = calls[n].hash
          /\ snapshot[i].state \in ApprovedOrLate /\ snapshot[i].prepared = calls[n].hash
      BY <2>1 DEF SnapshotsAreComplete
    <3>3. i \in store.intents
      BY <2>1, <3>1, <3>2 DEF SavesAreComplete, Tracked, ApprovedOrLate, Late
    <3> HIDE DEF i
    <3>4. rec'[i].state \in ApprovedOrLate /\ rec'[i].prepared = rec[i].prepared
      BY <1>1, <3>1, <3>2, <3>3, RecordStepFacts
    <3> QED
      BY <3>2, <3>4 DEF i
  <2> QED
    BY <1>1, <2>2, <2>3
<1> QED
  BY <1>2, <1>4, <1>5, <1>6, <1>7, <1>8, <1>9

\* Entering the adapter preserves the invariant: the record and the snapshot both
\* hold the hash that is dispatched, and its approval is on disk.
LEMMA AdapterCallPreserves ==
    ASSUME ProcessIInv, ProcessTypeOK', NEW i \in Intents, AdapterExecute(i),
           UNCHANGED <<snapshot, dirty, lost>>
    PROVE  ProcessIInv'
<1> USE DEF ProcessIInv
<1>1. /\ frame.intent = i /\ frame'.intent = i
      /\ UNCHANGED <<rec, store, disk>>
  BY DEF AdapterExecute
<1>2. rec[i].state = "EXECUTING" /\ dirty
  BY <1>1 DEF ExecutingInHandler
<1>3. \E q \in Quotes : <<i, q, rec[i].prepared>> \in disk.approvals
  BY <1>2 DEF Backed, ApprovedOrLate, Late
<1> DEFINE call == [intent |-> i, hash |-> rec[i].prepared]
<1>4. \A n \in DOMAIN calls' :
        (n \in DOMAIN calls /\ calls'[n] = calls[n]) \/ calls'[n] = call
  <2>1. calls' = Append(calls, call) /\ calls \in Seq(Call)
    BY DEF AdapterExecute, ProcessTypeOK, TypeOK
  <2> HIDE DEF call
  <2> QED
    BY <2>1
<1>5. StoreCoversDisk' /\ Backed(rec)' /\ Backed(snapshot)' /\ SavesAreComplete'
  BY <1>1 DEF StoreCoversDisk, Backed, SavesAreComplete, Tracked, InSnapshot
<1>6. ExecutingInHandler'
  BY <1>1, <1>2 DEF ExecutingInHandler
<1>7. ApprovedBeforeDispatch'
  BY <1>1, <1>3, <1>4 DEF ApprovedBeforeDispatch
<1>8. SnapshotsAreComplete'
  <2> SUFFICES ASSUME lost' = {}
               PROVE  /\ \A j \in Intents :
                           frame'.intent = j => /\ snapshot'[j].state = "APPROVED"
                                                /\ snapshot'[j].prepared = rec'[j].prepared
                      /\ \A n \in DOMAIN calls' : \A records \in {rec', snapshot'} :
                           /\ records[calls'[n].intent].state \in ApprovedOrLate
                           /\ records[calls'[n].intent].prepared = calls'[n].hash
    BY <1>2 DEF SnapshotsAreComplete
  <2>1. snapshot[i].state = "APPROVED" /\ snapshot[i].prepared = rec[i].prepared
    BY <1>1 DEF SnapshotsAreComplete
  <2>2. ASSUME NEW n \in DOMAIN calls', NEW records \in {rec, snapshot}
        PROVE  /\ records[calls'[n].intent].state \in ApprovedOrLate
               /\ records[calls'[n].intent].prepared = calls'[n].hash
    <3>1. CASE n \in DOMAIN calls /\ calls'[n] = calls[n]
      BY <3>1 DEF SnapshotsAreComplete
    <3>2. CASE calls'[n] = call
      BY <1>2, <2>1, <3>2 DEF ApprovedOrLate, Late
    <3> QED
      BY <1>4, <3>1, <3>2
  <2> QED
    BY <1>1, <2>1, <2>2
<1> QED
  BY <1>5, <1>6, <1>7, <1>8

\* What a restart or a recovery makes of a saved record.
LEMMA RestoredFields ==
    ASSUME NEW r \in Record, NEW s
    PROVE  LET new == Restored(r, s)
           IN  /\ new.state = RestoredState(r)
               /\ new.prepared = r.prepared
               /\ new.quote = r.quote
               /\ new.reconciliation = IF new.state = "RECONCILIATION_REQUIRED" THEN s
                                       ELSE r.reconciliation
BY DEF Restored, Record

\* It neither forgets a record nor takes it back over the line of dispatch.
LEMMA RestoredStateFacts ==
    ASSUME NEW r
    PROVE  /\ RestoredState(r) \in ApprovedOrLate <=> r.state \in ApprovedOrLate
           /\ RestoredState(r) \in Late <=> r.state \in Late
           /\ RestoredState(r) = "SETTLED" <=> r.state = "SETTLED"
           /\ RestoredState(r) # "UNTRACKED" <=> r.state # "UNTRACKED"
BY DEF RestoredState, ApprovedOrLate, Late

\* A process that comes back from its snapshot satisfies the invariant.
LEMMA RestartPreserves ==
    ASSUME ProcessIInv, ProcessTypeOK', NEW status \in [Intents -> Statuses], Restart(status)
    PROVE  ProcessIInv'
<1> USE DEF ProcessIInv
<1>1. /\ UNCHANGED <<disk, calls, lost>> /\ store' = disk
      /\ frame' = NoFrame /\ dirty' = FALSE /\ snapshot' = rec'
  BY DEF Restart, Loaded
<1>2. ASSUME NEW i \in Intents
      PROVE  /\ rec'[i].state \in ApprovedOrLate <=> snapshot[i].state \in ApprovedOrLate
             /\ rec'[i].state = "SETTLED" <=> snapshot[i].state = "SETTLED"
             /\ rec'[i].state # "UNTRACKED" <=> snapshot[i].state # "UNTRACKED"
             /\ rec'[i].state # "UNTRACKED" => rec'[i].prepared = snapshot[i].prepared
  <2>1. snapshot[i] \in Record
    BY DEF ProcessTypeOK
  <2>2. CASE i \in InSnapshot
    <3>1. rec'[i] = Restored(snapshot[i], status[i])
      BY <2>2 DEF Restart
    <3> QED
      BY <2>1, <2>2, <3>1, RestoredFields, RestoredStateFacts DEF InSnapshot
  <2>3. CASE i \notin InSnapshot
    <3>1. rec'[i].state = "UNTRACKED"
      BY <2>3 DEF Restart, NoRecord
    <3> QED
      BY <2>3, <3>1 DEF InSnapshot, ApprovedOrLate, Late
  <2> QED
    BY <2>2, <2>3
<1>3. StoreCoversDisk' /\ ApprovedBeforeDispatch'
  BY <1>1 DEF StoreCoversDisk, ApprovedBeforeDispatch
<1>4. Backed(rec)' /\ Backed(snapshot)'
  BY <1>1, <1>2 DEF Backed, ApprovedOrLate, Late
<1>5. ExecutingInHandler'
  BY <1>1, NoneAssumption DEF ExecutingInHandler, NoFrame
<1>6. SavesAreComplete'
  BY <1>1, <1>2 DEF SavesAreComplete, Tracked, InSnapshot
<1>7. SnapshotsAreComplete'
  <2>1. lost = {} => \A n \in DOMAIN calls :
                       /\ rec'[calls[n].intent].state \in ApprovedOrLate
                       /\ rec'[calls[n].intent].prepared = calls[n].hash
    <3> SUFFICES ASSUME lost = {}, NEW n \in DOMAIN calls
                 PROVE  /\ rec'[calls[n].intent].state \in ApprovedOrLate
                        /\ rec'[calls[n].intent].prepared = calls[n].hash
      OBVIOUS
    <3>1. calls[n].intent \in Intents
      BY CallType DEF ProcessTypeOK, TypeOK
    <3>2. /\ snapshot[calls[n].intent].state \in ApprovedOrLate
          /\ snapshot[calls[n].intent].prepared = calls[n].hash
      BY DEF SnapshotsAreComplete
    <3> QED
      BY <1>2, <3>1, <3>2 DEF ApprovedOrLate, Late
  <2> QED
    BY <1>1, <2>1, NoneAssumption DEF SnapshotsAreComplete, NoFrame
<1> QED
  BY <1>3, <1>4, <1>5, <1>6, <1>7

\* The recover command preserves the invariant, whether or not its writes succeed.
LEMMA RecoverPreserves ==
    ASSUME ProcessIInv, ProcessTypeOK', NEW status \in [Intents -> Statuses],
           Recover(status) \/ \E io \in WriteFaults : RecoverFails(status, io)
    PROVE  ProcessIInv'
<1> USE DEF ProcessIInv
<1>1. /\ UNCHANGED <<store, disk, calls, frame>>
      /\ frame = NoFrame /\ lost \subseteq lost'
      /\ snapshot' = rec' \/ (snapshot' = snapshot /\ dirty')
  BY DEF Recover, RecoverFails, Idle, Losing
<1>2. PICK ids \in SUBSET InSnapshot, entries \in SUBSET RecoveryEntries :
        Restore(status, ids, entries)
  BY FailedRestore DEF Recover
<1>3. ASSUME NEW i \in Intents
      PROVE  \/ rec'[i] = rec[i]
             \/ /\ rec'[i].state \in ApprovedOrLate <=> snapshot[i].state \in ApprovedOrLate
                /\ rec'[i].state \in Late <=> snapshot[i].state \in Late
                /\ rec'[i].state = "SETTLED" <=> snapshot[i].state = "SETTLED"
                /\ rec'[i].prepared = snapshot[i].prepared
                /\ i \in InSnapshot
  <2>1. snapshot[i] \in Record
    BY DEF ProcessTypeOK
  <2>2. CASE i \in ids
    <3>1. rec'[i] = Restored(snapshot[i], status[i])
      BY <1>2, <2>2 DEF Restore
    <3> QED
      BY <2>1, <2>2, <3>1, RestoredFields, RestoredStateFacts
  <2>3. CASE i \notin ids
    BY <1>2, <2>3 DEF Restore
  <2> QED
    BY <2>2, <2>3
<1>4. StoreCoversDisk' /\ ApprovedBeforeDispatch'
  BY <1>1 DEF StoreCoversDisk, ApprovedBeforeDispatch
<1>5. Backed(rec)' /\ Backed(snapshot)'
  BY <1>1, <1>3 DEF Backed
<1>6. ExecutingInHandler'
  BY <1>1, NoneAssumption DEF ExecutingInHandler, NoFrame
<1>7. SavesAreComplete'
  <2> SUFFICES ASSUME "save_fails" \notin lost', NEW i \in Intents
               PROVE  /\ store = disk
                      /\ i \in (Tracked \cup InSnapshot)' => i \in store.intents
                      /\ snapshot'[i].state \in Late => rec'[i].state \in Late
    BY <1>1 DEF SavesAreComplete
  <2>1. /\ store = disk
        /\ i \in Tracked \cup InSnapshot => i \in store.intents
        /\ snapshot[i].state \in Late => rec[i].state \in Late
    BY <1>1 DEF SavesAreComplete
  <2>2. i \in (Tracked \cup InSnapshot)' => i \in Tracked \cup InSnapshot
    BY <1>1, <1>3 DEF Tracked, InSnapshot
  <2> QED
    BY <1>1, <1>3, <2>1, <2>2
<1>8. SnapshotsAreComplete'
  <2>1. lost = {} => \A n \in DOMAIN calls :
                       /\ rec'[calls[n].intent].state \in ApprovedOrLate
                       /\ rec'[calls[n].intent].prepared = calls[n].hash
    <3> SUFFICES ASSUME lost = {}, NEW n \in DOMAIN calls
                 PROVE  /\ rec'[calls[n].intent].state \in ApprovedOrLate
                        /\ rec'[calls[n].intent].prepared = calls[n].hash
      OBVIOUS
    <3>1. calls[n].intent \in Intents
      BY CallType DEF ProcessTypeOK, TypeOK
    <3>2. /\ snapshot[calls[n].intent].state \in ApprovedOrLate
          /\ snapshot[calls[n].intent].prepared = calls[n].hash
          /\ rec[calls[n].intent].state \in ApprovedOrLate
          /\ rec[calls[n].intent].prepared = calls[n].hash
      BY DEF SnapshotsAreComplete
    <3> QED
      BY <1>3, <3>1, <3>2
  <2>2. lost' = {} => lost = {}
    BY <1>1
  <2> QED
    BY <1>1, <2>1, <2>2, NoneAssumption DEF SnapshotsAreComplete, NoFrame
<1> QED
  BY <1>4, <1>5, <1>6, <1>7, <1>8

\* So does a step that touches neither records nor files, except that it may take
\* the snapshot, lose it, or announce it.
LEMMA SnapshotPreserves ==
    ASSUME ProcessIInv, ProcessTypeOK', UNCHANGED <<rec, store, disk, frame, calls>>,
           \/ snapshot' = rec /\ frame = NoFrame /\ lost' = lost
           \/ snapshot' = snapshot /\ frame = NoFrame /\ lost' = lost \cup {"snapshot_fails"}
           \/ snapshot' = snapshot /\ lost' = lost /\ (dirty => dirty')
    PROVE  ProcessIInv'
<1> USE DEF ProcessIInv
<1>1. StoreCoversDisk' /\ Backed(rec)' /\ Backed(snapshot)' /\ ApprovedBeforeDispatch'
  BY DEF StoreCoversDisk, Backed, ApprovedBeforeDispatch
<1>2. ExecutingInHandler'
  <2>1. CASE frame = NoFrame
    BY <2>1, NoneAssumption DEF ExecutingInHandler, NoFrame
  <2>2. CASE dirty => dirty'
    BY <2>2 DEF ExecutingInHandler
  <2> QED
    BY <2>1, <2>2
<1>3. SavesAreComplete'
  BY DEF SavesAreComplete, Tracked, InSnapshot
<1>4. SnapshotsAreComplete'
  <2>1. CASE snapshot' = rec /\ frame = NoFrame /\ lost' = lost
    BY <2>1, NoneAssumption DEF SnapshotsAreComplete, NoFrame
  <2>2. CASE lost' = lost \cup {"snapshot_fails"}
    BY <2>2 DEF SnapshotsAreComplete
  <2>3. CASE snapshot' = snapshot /\ lost' = lost /\ (dirty => dirty')
    BY <2>3 DEF SnapshotsAreComplete
  <2> QED
    BY <2>1, <2>2, <2>3
<1> QED
  BY <1>1, <1>2, <1>3, <1>4

\* The initial state satisfies the invariant.
LEMMA ProcessInitIInv == ProcessInit => ProcessIInv
<1> SUFFICES ASSUME ProcessInit PROVE ProcessIInv
  OBVIOUS
<1>1. ProcessTypeOK
  BY ProcessInitType
<1>2. /\ \A i \in Intents : rec[i].state = "UNTRACKED" /\ snapshot[i].state = "UNTRACKED"
      /\ store = disk /\ snapshot = rec
      /\ DOMAIN calls = {}
      /\ frame.intent = None
  BY DEF ProcessInit, Init, NoRecord, NoFrame
<1> QED
  BY <1>1, <1>2, NoneAssumption
  DEF ProcessIInv, StoreCoversDisk, Backed, ExecutingInHandler, ApprovedBeforeDispatch,
      SavesAreComplete, SnapshotsAreComplete, Tracked, InSnapshot, ApprovedOrLate, Late

\* Every step of the process preserves the invariant.
LEMMA ProcessStep ==
    ASSUME ProcessIInv, [ProcessNext]_processVars
    PROVE  ProcessIInv'
<1>1. ProcessTypeOK /\ ProcessTypeOK' /\ TypeOK /\ TypeOK' /\ ExecutingInHandler
  BY ProcessNextType DEF ProcessIInv, ProcessTypeOK
<1>2. ASSUME NEW io \in Outcomes, Command(io) PROVE ProcessIInv'
  BY <1>1, <1>2, CommandHandled, HandledPreserves DEF Command, HandleLine
<1>3. ASSUME NEW io \in Outcomes, ContinueExecute(io) PROVE ProcessIInv'
  <2>1. UNCHANGED <<snapshot, dirty>> /\ Losing(io)
    BY <1>3 DEF ContinueExecute
  <2>2. CASE Handled(io) /\ frame' = NoFrame /\ dirty
    BY <1>1, <2>1, <2>2, HandledPreserves DEF ProcessTypeOK
  <2>3. CASE io = "ok" /\ \E i \in Intents : AdapterExecute(i)
    <3>1. lost' = lost
      BY <2>1, <2>3 DEF Losing
    <3> QED
      BY <1>1, <2>1, <2>3, <3>1, AdapterCallPreserves
  <2> QED
    BY <1>1, <1>3, <2>2, <2>3, ContinueHandled
<1>4. ASSUME CommandWithoutEffect PROVE ProcessIInv'
  <2>1. lost' = lost
    BY <1>4 DEF CommandWithoutEffect, HandleLine, Losing
  <2> QED
    BY <1>1, <1>4, <2>1, SnapshotPreserves DEF CommandWithoutEffect, HandleLine, vars
<1>5. ASSUME Snapshot PROVE ProcessIInv'
  BY <1>1, <1>5, SnapshotPreserves DEF Snapshot, Idle, vars
<1>6. ASSUME SnapshotFails PROVE ProcessIInv'
  <2>1. lost' = lost \cup {"snapshot_fails"}
    BY <1>6 DEF SnapshotFails, Losing
  <2> QED
    BY <1>1, <1>6, <2>1, SnapshotPreserves DEF SnapshotFails, Idle
<1>7. ASSUME ProcessTick PROVE ProcessIInv'
  BY <1>1, <1>7, SnapshotPreserves DEF ProcessTick, Tick
<1>8. ASSUME UNCHANGED processVars PROVE ProcessIInv'
  BY <1>1, <1>8, SnapshotPreserves DEF processVars, vars
<1> QED
  BY <1>1, <1>2, <1>3, <1>4, <1>5, <1>6, <1>7, <1>8, RestartPreserves, RecoverPreserves
  DEF ProcessNext

\* THEOREM.  The inductive invariant of the process holds in every reachable state.
THEOREM ProcessInvariance == ProcessSpec => []ProcessIInv
<1>1. ProcessIInv /\ [ProcessNext]_processVars => ProcessIInv'
  BY ProcessStep
<1> QED
  BY <1>1, ProcessInitIInv, PTL DEF ProcessSpec

-----------------------------------------------------------------------------
(***************************************************************************)
(* What follows                                                            *)
(***************************************************************************)

\* THEOREM.  Whatever a process hands to the adapter was approved by a human, with
\* the approval on disk, although it restarts from snapshots that may be stale.
THEOREM ProcessDispatchedWithApproval == ProcessSpec => []ApprovedBeforeDispatch
<1>1. ProcessIInv => ApprovedBeforeDispatch
  BY DEF ProcessIInv
<1> QED
  BY <1>1, ProcessInvariance, PTL

\* THEOREM.  A process shows an intent as settled only with a receipt on disk.
THEOREM ProcessSettledDurably == ProcessSpec => []SettledIsDurable
<1>1. ProcessIInv => SettledIsDurable
  BY DEF ProcessIInv, Backed, SettledIsDurable
<1> QED
  BY <1>1, ProcessInvariance, PTL

\* THEOREM.  Unless a save or a snapshot was lost, a killed process dispatches an
\* intent again only with the hash, and so the send token, it dispatched before.
THEOREM SameHashAgain == ProcessSpec => []RepeatedDispatchSameHash
<1>1. ProcessIInv => RepeatedDispatchSameHash
  BY DEF ProcessIInv, SnapshotsAreComplete, RepeatedDispatchSameHash
<1> QED
  BY <1>1, ProcessInvariance, PTL

\* THEOREM.  A dispatch that the snapshot shows is never taken back, unless a save of
\* the store was lost.
THEOREM DispatchStays == ProcessSpec => SavedDispatchIsFinal
<1> DEFINE Final == "save_fails" \notin lost =>
                      \A i \in Intents : snapshot[i].state \in Late => rec'[i].state \in Late
<1>1. ProcessIInv /\ ProcessIInv' /\ [ProcessNext]_processVars => [Final]_processVars
  <2> SUFFICES ASSUME ProcessIInv, ProcessIInv', ProcessNext, "save_fails" \notin lost,
                      NEW i \in Intents, snapshot[i].state \in Late
               PROVE  rec'[i].state \in Late
    OBVIOUS
  <2>1. rec[i].state \in Late /\ i \in store.intents /\ i \in InSnapshot
    BY DEF ProcessIInv, SavesAreComplete, InSnapshot, Late
  <2>2. TypeOK /\ TypeOK' /\ ExecutingInHandler /\ snapshot[i] \in Record
    BY DEF ProcessIInv, ProcessTypeOK
  <2>3. CASE \E io \in Outcomes : Handled(io)
    BY <2>1, <2>3, RecordStepFacts DEF Handled
  <2>4. CASE rec' = rec
    BY <2>1, <2>4
  <2>5. ASSUME NEW status,
               Restart(status) \/ Recover(status) \/ \E io : RecoverFails(status, io)
        PROVE  rec'[i].state \in Late
    <3>1. rec'[i] = Restored(snapshot[i], status[i]) \/ rec'[i] = rec[i]
      BY <2>1, <2>5, FailedRestore DEF Restart, Recover, Restore
    <3> QED
      BY <2>1, <2>2, <3>1, RestoredFields, RestoredStateFacts
  <2> QED
    BY <2>2, <2>3, <2>4, <2>5, CommandHandled, ContinueHandled
    DEF ProcessNext, CommandWithoutEffect, Snapshot, SnapshotFails, ProcessTick, Tick, vars,
        AdapterExecute
<1> QED
  BY <1>1, ProcessInvariance, PTL DEF ProcessSpec, SavedDispatchIsFinal, Late

-----------------------------------------------------------------------------
(***************************************************************************)
(* The files over restarts                                                 *)
(***************************************************************************)

\* The replay protection on disk loses nothing.
DiskGrows ==
    /\ disk.intents \subseteq disk'.intents
    /\ disk.approvals \subseteq disk'.approvals
    /\ \A i \in Intents : disk.receipts[i] # None => disk'.receipts[i] # None

\* So it is with every step of the process.
LEMMA ProcessDiskGrows ==
    ASSUME ProcessIInv, ProcessIInv', [ProcessNext]_processVars
    PROVE  DiskGrows
<1>1. TypeOK /\ TypeOK' /\ ExecutingInHandler /\ StoreCoversDisk
  BY DEF ProcessIInv, ProcessTypeOK
<1>2. CASE \E io \in Outcomes : Handled(io)
  BY <1>1, <1>2, HandledDisk DEF Handled, DiskGrows
<1>3. CASE disk' = disk
  BY <1>3 DEF DiskGrows
<1> QED
  BY <1>1, <1>2, <1>3, CommandHandled, ContinueHandled
  DEF ProcessNext, processVars, CommandWithoutEffect, Snapshot, SnapshotFails, ProcessTick, Tick,
      vars, AdapterExecute, Restart, Recover, RecoverFails

\* THEOREM.  Over restarts, recoveries and failed writes the replay protection on disk
\* only grows: accepted ids, used approvals and bound receipts stay.
THEOREM ProcessReplayProtectionGrows == ProcessSpec => DiskOnlyGrows
<1>1. ProcessIInv /\ ProcessIInv' /\ [ProcessNext]_processVars => [DiskGrows]_vars
  BY ProcessDiskGrows
<1> QED
  BY <1>1, ProcessInvariance, PTL DEF ProcessSpec, DiskOnlyGrows, DiskGrows

\* The log keeps its entries, an execute() begins with one, and only the adapter's
\* execute adds a call.
LogStep ==
    /\ audit \subseteq audit'
    /\ frame'.intent \in Intents
         => frame'.intent = frame.intent \/ <<"executing", frame'.intent>> \in audit'
    /\ calls' = calls \/ \E i \in Intents : AdapterExecute(i)

\* What every command does with the log.
LEMMA CommandLogs ==
    ASSUME NEW io \in Outcomes, Command(io)
    PROVE  LogStep
<1> USE DEF LogStep
<1>1. PICK i \in Intents :
        \/ SubmitCommand(i, io) \/ QuoteCommand(i, io) \/ PrepareCommand(i, io)
        \/ ApproveCommand(i, io) \/ ExecuteCommand(i, io) \/ ReceiptCommand(i, io)
  BY DEF Command
<1>2. CASE SubmitCommand(i, io)
  BY <1>2, LogGrows DEF SubmitCommand, Submit
<1>3. CASE QuoteCommand(i, io)
  BY <1>3, LogGrows DEF QuoteCommand, HandleQuote, ReceiveQuote, ReceiveQuoteRefused
<1>4. CASE PrepareCommand(i, io)
  BY <1>4, LogGrows DEF PrepareCommand, Prepare
<1>5. CASE ApproveCommand(i, io)
  BY <1>5, LogGrows DEF ApproveCommand, Approve
<1>6. CASE ExecuteCommand(i, io)
  <2>1. Log("executing", i, io) /\ EnterAdapter(i, io) /\ calls' = calls
    BY <1>6 DEF ExecuteCommand, Execute
  <2> QED
    BY <2>1 DEF Log, EnterAdapter
<1>7. CASE ReceiptCommand(i, io)
  BY <1>7, LogGrows
  DEF ReceiptCommand, ReceiptConfirmed, ReceiptMismatch, ReceiptUnverified
<1> QED
  BY <1>1, <1>2, <1>3, <1>4, <1>5, <1>6, <1>7

\* And the rest of an execute().
LEMMA ContinueLogs ==
    ASSUME NEW io \in Outcomes, ContinueExecute(io)
    PROVE  LogStep
<1> USE DEF LogStep
<1>1. PICK i \in Intents : ExecuteStep(i, io)
  BY DEF ContinueExecute
<1>2. ASSUME NEW ref, ExecuteSettled(i, ref, io) PROVE LogStep
  BY <1>2, LogGrows, NoneAssumption DEF ExecuteSettled, Returning, NoFrame
<1>3. ASSUME NEW event, ExecuteFailed(i, event, io) PROVE LogStep
  BY <1>3, LogGrows, NoneAssumption DEF ExecuteFailed, Returning, NoFrame
<1>4. CASE ExecuteRaised(i)
  BY <1>4, NoneAssumption DEF ExecuteRaised, Returning, NoFrame
<1>5. CASE AdapterExecute(i)
  BY <1>5 DEF AdapterExecute
<1> QED
  BY <1>1, <1>2, <1>3, <1>4, <1>5 DEF ExecuteStep

\* So does every step of the process.
LEMMA ProcessLogs ==
    ASSUME [ProcessNext]_processVars
    PROVE  LogStep
<1>1. CASE UNCHANGED <<audit, frame, calls>>
  BY <1>1 DEF LogStep
<1>2. ASSUME NEW status, Restart(status) PROVE LogStep
  BY <1>2, NoneAssumption DEF Restart, LogStep, NoFrame
<1>3. ASSUME NEW status, Recover(status) \/ \E io : RecoverFails(status, io) PROVE LogStep
  BY <1>3, FailedRestore DEF Recover, RecoverFails, Restore, LogStep
<1> QED
  BY <1>1, <1>2, <1>3, CommandLogs, ContinueLogs
  DEF ProcessNext, processVars, vars, CommandWithoutEffect, Snapshot, SnapshotFails,
      ProcessTick, Tick

\* The intent of an execute() in progress is in the log.
FrameIsLogged == frame.intent \in Intents => <<"executing", frame.intent>> \in audit

\* Such a step keeps the log ahead of the adapter.
LEMMA LogStaysAhead ==
    ASSUME TypeOK, FrameIsLogged, AuditedBeforeDispatch, LogStep
    PROVE  FrameIsLogged' /\ AuditedBeforeDispatch'
<1>1. FrameIsLogged'
  BY DEF FrameIsLogged, LogStep
<1>2. CASE calls' = calls
  BY <1>1, <1>2 DEF AuditedBeforeDispatch, LogStep
<1>3. ASSUME NEW i \in Intents, AdapterExecute(i)
      PROVE  AuditedBeforeDispatch'
  <2>1. frame.intent = i /\ calls' = Append(calls, [intent |-> i, hash |-> rec[i].prepared])
    BY <1>3 DEF AdapterExecute
  <2>2. <<"executing", i>> \in audit'
    BY <2>1 DEF FrameIsLogged, LogStep
  <2>3. calls \in Seq(Call)
    BY DEF TypeOK
  <2>4. ASSUME NEW n \in DOMAIN calls' PROVE <<"executing", calls'[n].intent>> \in audit'
    <3>1. (n \in DOMAIN calls /\ calls'[n] = calls[n]) \/ calls'[n].intent = i
      BY <2>1, <2>3
    <3> QED
      BY <2>2, <3>1 DEF AuditedBeforeDispatch, LogStep
  <2> QED
    BY <2>4 DEF AuditedBeforeDispatch
<1> QED
  BY <1>1, <1>2, <1>3 DEF LogStep

\* THEOREM.  Whatever a process hands to the adapter, its log said so before, and
\* still does after any number of kills and restarts.
THEOREM ProcessDispatchedWithAudit == ProcessSpec => []AuditedBeforeDispatch
<1>1. ProcessInit => FrameIsLogged /\ AuditedBeforeDispatch
  BY NoneAssumption DEF ProcessInit, Init, NoFrame, FrameIsLogged, AuditedBeforeDispatch
<1>2. /\ ProcessTypeOK /\ FrameIsLogged /\ AuditedBeforeDispatch /\ [ProcessNext]_processVars
      => FrameIsLogged' /\ AuditedBeforeDispatch'
  BY ProcessLogs, LogStaysAhead DEF ProcessTypeOK
<1> QED
  BY <1>1, <1>2, ProcessTypeCorrect, PTL DEF ProcessSpec
==============================================================================
