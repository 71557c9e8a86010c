---------------------------- MODULE HermesProcess ----------------------------
(***************************************************************************)
(* The sender's process of examples/two_hermes_regtest/process.py: an      *)
(* orchestrator driven by one JSONL command at a time, whose records are   *)
(* saved to a snapshot file after every command and restored from it when  *)
(* the process starts again.                                               *)
(*                                                                         *)
(* A command is the orchestrator call it makes, followed by the snapshot   *)
(* in handle_line's finally block.  The two are separate steps: between    *)
(* them, and while execute() waits for its adapter, the process may die.   *)
(***************************************************************************)
EXTENDS PaymentOrchestrator, FiniteSets

CONSTANTS
    IdRank,           \* the place of an intent id among the sorted ids
    WriteFaults       \* which writes may fail

ASSUME ProcessAssumption ==
    /\ IsFiniteSet(Intents)
    /\ IdRank \in [Intents -> Nat]
    /\ \A i, j \in Intents : IdRank[i] = IdRank[j] => i = j
    /\ WriteFaults \subseteq {"save_fails", "log_fails", "snapshot_fails"}

VARIABLES
    snapshot,   \* the records in process_state.json
    dirty,      \* a handler has run and its snapshot is still to be taken
    lost        \* history: which of the two state files ever missed a write

processVars == <<vars, snapshot, dirty, lost>>

ProcessTypeOK ==
    /\ TypeOK
    /\ snapshot \in [Intents -> Record]
    /\ dirty \in BOOLEAN
    /\ lost \subseteq {"save_fails", "snapshot_fails"}

ProcessInit ==
    /\ Init
    /\ snapshot = [i \in Intents |-> NoRecord]
    /\ dirty = FALSE
    /\ lost = {}

-----------------------------------------------------------------------------
(* Commands *)

Outcomes == {"ok"} \cup (WriteFaults \cap {"save_fails", "log_fails"})

\* submit_intent.
SubmitCommand(i, io) == Submit(i, io)

\* accept_quote and submit_quote_local: both end in receive_quote.
HandleQuote(q, io) ==
    \/ io \in LogIO /\ ReceiveQuote(q, io)
    \/ io = "ok" /\ ReceiveQuoteRefused(q)

QuoteCommand(i, io) == \E q \in Quotes : QuoteIntent[q] = i /\ HandleQuote(q, io)

\* prepare.
PrepareCommand(i, io) ==
    /\ io \in LogIO
    /\ \E token \in Tokens, fee \in Fees, rail \in Rails : Prepare(i, token, fee, rail, io)

\* approve: the operator names the intent, the quote and the hash (or its prefix).
ApproveCommand(i, io) == \E q \in Quotes, h \in Hashes : Approve(i, q, h, io)

\* execute, up to the adapter.
ExecuteCommand(i, io) == io \in LogIO /\ Execute(i, io)

\* accept_receipt.
ReceiptCommand(i, io) ==
    \E q \in Quotes, amount \in Amounts :
        \/ \E ref \in Refs : ReceiptConfirmed(i, q, amount, ref, io)
        \/ io \in LogIO /\ ReceiptMismatch(i, amount, io)
        \/ io \in LogIO /\ ReceiptUnverified(i, q, amount, io)

\* The steps of an execute() that has begun.
ExecuteStep(i, io) ==
    \/ \E ref \in Refs : ExecuteSettled(i, ref, io)
    \/ /\ io \in LogIO
       /\ \E event \in {"adapter_ambiguous", "adapter_error"} :
            ExecuteFailed(i, event, io)
    \/ /\ io = "ok"
       /\ AdapterExecute(i) \/ ExecuteRaised(i)

Losing(io) == lost' = lost \cup ({io} \cap {"save_fails", "snapshot_fails"})

\* handle_line: a handler runs, and its snapshot is still to be taken.
HandleLine(io) ==
    /\ ~dirty
    /\ dirty' = TRUE
    /\ Losing(io)
    /\ UNCHANGED snapshot

\* The commands that change a record.  cancel, reject, confirm_settled and
\* check_expired have no command.
Command(io) ==
    /\ HandleLine(io)
    /\ \E i \in Intents :
         \/ SubmitCommand(i, io)
         \/ QuoteCommand(i, io)
         \/ PrepareCommand(i, io)
         \/ ApproveCommand(i, io)
         \/ ExecuteCommand(i, io)
         \/ ReceiptCommand(i, io)

\* status, or a command refused without effect: all it does is take the snapshot,
\* which matters only when an earlier one could not be written.
CommandWithoutEffect ==
    /\ snapshot # rec
    /\ Idle
    /\ HandleLine("ok")
    /\ UNCHANGED vars

\* The handler of the execute command goes on.
ContinueExecute(io) ==
    /\ \E i \in Intents : ExecuteStep(i, io)
    /\ Losing(io)
    /\ UNCHANGED <<snapshot, dirty>>

\* _snapshot_state in the finally block, whether or not the handler raised.
Snapshot ==
    /\ dirty
    /\ Idle
    /\ snapshot' = rec
    /\ dirty' = FALSE
    /\ UNCHANGED <<vars, lost>>

\* The snapshot cannot be written: the command reports an error, its effects in
\* memory stay.
SnapshotFails ==
    /\ "snapshot_fails" \in WriteFaults
    /\ dirty
    /\ Idle
    /\ dirty' = FALSE
    /\ Fault("snapshot_fails")
    /\ Losing("snapshot_fails")
    /\ UNCHANGED <<rec, order, store, disk, audit, frame, calls, clock, snapshot>>

-----------------------------------------------------------------------------
(* Recovery *)

\* _maybe_recover on one record: an EXECUTING record comes back for
\* reconciliation, any other one as it was saved.
RestoredForRetry(r) == IF r.state = "EXECUTING" THEN "APPROVED" ELSE r.state
RestoredForReprepare(r) ==
    IF r.state = "EXECUTING" THEN "RECONCILIATION_REQUIRED"
    ELSE IF r.state = "APPROVED" THEN "QUOTED" ELSE r.state
RestoredState(r) ==
    IF r.state = "EXECUTING" THEN "RECONCILIATION_REQUIRED" ELSE r.state

\* The record restored, with the outcome of the reconciliation query that
\* follows for a record in RECONCILIATION_REQUIRED.
Restored(r, status) ==
    IF RestoredState(r) = "RECONCILIATION_REQUIRED"
    THEN [r EXCEPT !.state = RestoredState(r), !.reconciliation = status]
    ELSE [r EXCEPT !.state = RestoredState(r)]

\* The ids of a set as JSON writes them, with sorted keys: the one enumeration of the
\* set in the order of the ids.
Sorted(ids) ==
    {o \in [1 .. Cardinality(ids) -> ids] :
        \A m, n \in DOMAIN o : m < n => IdRank[o[m]] < IdRank[o[n]]}

InSnapshot == {i \in Intents : snapshot[i].state # "UNTRACKED"}

\* The entries _maybe_recover appends to the audit log.
RecoveryEntries ==
    {<<"recovered_executing", i>> : i \in {j \in InSnapshot : snapshot[j].state = "EXECUTING"}}
    \cup
    {<<"settlement_reconciled", i>> :
        i \in {j \in InSnapshot : RestoredState(snapshot[j]) = "RECONCILIATION_REQUIRED"}}

\* The process dies, at any moment, and is started on the same files.
Restart(status) ==
    /\ Fault("crash")
    /\ rec' = [i \in Intents |-> IF i \in InSnapshot THEN Restored(snapshot[i], status[i])
                                 ELSE NoRecord]
    /\ order' \in Sorted(InSnapshot)
    /\ store' = Loaded
    /\ audit' = audit \cup RecoveryEntries
    /\ frame' = NoFrame
    /\ snapshot' = rec'
    /\ dirty' = FALSE
    /\ UNCHANGED <<disk, calls, clock, lost>>

\* Records of the snapshot are loaded over those in memory, and reconciled.
Restore(status, ids, entries) ==
    /\ rec' = [i \in Intents |-> IF i \in ids THEN Restored(snapshot[i], status[i])
                                 ELSE rec[i]]
    /\ \E added \in Sorted(ids \ Tracked) : order' = order \o added
    /\ audit' = audit \cup entries

\* The recover command, one round of its polling loop: the whole snapshot is restored
\* and saved again.
Recover(status) ==
    /\ ~dirty
    /\ Idle
    /\ InSnapshot # {}
    /\ Restore(status, InSnapshot, RecoveryEntries)
    /\ snapshot' = rec'
    /\ UNCHANGED <<store, disk, frame, calls, clock, faults, dirty, lost>>

\* The records restored when an entry cannot be appended: those before its own, which is
\* there too if it is the reconciliation that could not be logged.
RestoredBefore(entry) ==
    {j \in InSnapshot : \/ IdRank[j] < IdRank[entry[2]]
                        \/ entry = <<"settlement_reconciled", j>>}

\* The recover command raises in a round, because its own snapshot or an entry of the log
\* cannot be written; the snapshot in the finally block is still to come.
RecoverFails(status, io) ==
    /\ ~dirty
    /\ Idle
    /\ \/ /\ io = "snapshot_fails"
          /\ InSnapshot # {}
          /\ Restore(status, InSnapshot, RecoveryEntries)
       \/ /\ io = "log_fails"
          /\ \E entry \in RecoveryEntries :
               LET ids == RestoredBefore(entry)
               IN  Restore(status, ids, {e \in RecoveryEntries \ {entry} : e[2] \in ids})
    /\ Fault(io)
    /\ Losing(io)
    /\ dirty' = TRUE
    /\ UNCHANGED <<store, disk, frame, calls, clock, snapshot>>

ProcessTick ==
    /\ Tick
    /\ UNCHANGED <<snapshot, dirty, lost>>

ProcessNext ==
    \/ \E io \in Outcomes : Command(io) \/ ContinueExecute(io)
    \/ CommandWithoutEffect
    \/ Snapshot
    \/ SnapshotFails
    \/ \E status \in [Intents -> Statuses] :
         \/ Restart(status)
         \/ Recover(status)
         \/ \E io \in WriteFaults : RecoverFails(status, io)
    \/ ProcessTick

ProcessSpec == ProcessInit /\ [][ProcessNext]_processVars

-----------------------------------------------------------------------------
(* Properties *)

\* ACTION.  Once the snapshot on disk shows an intent as dispatched, no command,
\* recovery or restart brings it back to an executable state, even if snapshots
\* are lost; only a lost save of the store can undo it, by way of a replay.
SavedDispatchIsFinal ==
    [][ "save_fails" \notin lost =>
        \A i \in Intents :
          snapshot[i].state \in {"EXECUTING", "RECONCILIATION_REQUIRED", "SETTLED"}
            => rec'[i].state \in {"EXECUTING", "RECONCILIATION_REQUIRED", "SETTLED"}
      ]_processVars

\* SAFETY.  A process killed during execute() comes back APPROVED and may hand the
\* intent to the adapter again, but, unless a save or a snapshot was lost, only
\* with the same prepared hash, whose send token the wallet accepts once.
RepeatedDispatchSameHash ==
    lost = {} =>
        \A m, n \in DOMAIN calls :
            calls[m].intent = calls[n].intent => calls[m].hash = calls[n].hash

-----------------------------------------------------------------------------
(* The inductive invariant behind the safety properties *)

\* Records, in memory or in the snapshot, claim no more than the store on disk has:
\* from APPROVED on the approval, when SETTLED the receipt.
Backed(records) ==
    \A i \in Intents :
        /\ records[i].state \in ApprovedOrLate
              => \E q \in Quotes : <<i, q, records[i].prepared>> \in disk.approvals
        /\ records[i].state = "SETTLED" => disk.receipts[i] # None

\* An execute() in progress is of an EXECUTING intent, and its snapshot is to come.
ExecutingInHandler ==
    \A i \in Intents : frame.intent = i => rec[i].state = "EXECUTING" /\ dirty

\* As long as every save succeeded, the store on disk is the one in memory and knows
\* every intent of the records and of the snapshot, and the records are not behind a
\* snapshot that shows a dispatch.
SavesAreComplete ==
    "save_fails" \notin lost =>
        /\ store = disk
        /\ \A i \in Intents :
             /\ i \in Tracked \cup InSnapshot => i \in store.intents
             /\ snapshot[i].state \in Late => rec[i].state \in Late

\* As long as every snapshot succeeded too, only the command being handled is not in
\* it, and whatever was dispatched is recorded with the hash it was dispatched with.
SnapshotsAreComplete ==
    lost = {} =>
        /\ ~dirty => snapshot = rec
        /\ \A i \in Intents :
             frame.intent = i => /\ snapshot[i].state = "APPROVED"
                                 /\ snapshot[i].prepared = rec[i].prepared
        /\ \A n \in DOMAIN calls : \A records \in {rec, snapshot} :
             /\ records[calls[n].intent].state \in ApprovedOrLate
             /\ records[calls[n].intent].prepared = calls[n].hash

\* SAFETY.  Over restarts, recoveries and failed writes the records, the snapshot, the
\* store and its file of the process stay in step: what every safety property of it
\* rests on.
ProcessIInv ==
    /\ ProcessTypeOK
    /\ StoreCoversDisk
    /\ Backed(rec)
    /\ Backed(snapshot)
    /\ ExecutingInHandler
    /\ ApprovedBeforeDispatch
    /\ SavesAreComplete
    /\ SnapshotsAreComplete

-----------------------------------------------------------------------------
(* Statements of the repository that the code does not meet *)

\* COMMENT in _maybe_recover: a crash after the process entered EXECUTING must
\* never become executable again.  So a dispatched intent is never APPROVED.
DispatchedNotExecutable ==
    \A n \in DOMAIN calls : rec[calls[n].intent].state # "APPROVED"

\* INVARIANT of CONTRACT.md: replaying an intent is a no-op.  So a submit of an
\* intent that has been handed to the adapter never takes effect, not even for a
\* process that lost the save of the intent's id and then restarted.
ReplayIsNoOp ==
    [][ \A i \in Intents :
          (\E io \in Outcomes : Submit(i, io))
            => \A n \in DOMAIN calls : calls[n].intent # i ]_processVars
==============================================================================
